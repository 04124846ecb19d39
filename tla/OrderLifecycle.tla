--------------------------- MODULE OrderLifecycle ---------------------------
(***************************************************************************)
(* What an executor promises about each order it is given, whatever the    *)
(* latency, the prices and the modifications in between: an order goes     *)
(* from the wire to the book to exactly one final outcome; a position is   *)
(* opened with the size the order asked for, only ever shrinks, and is     *)
(* closed for good when nothing is left of it.                             *)
(***************************************************************************)
EXTENDS Naturals

CONSTANT Ids          \* order ids, which are position ids as well
VARIABLES status,     \* per order: where it stands
          size        \* per order: the requested size, then what is open

\* An order that can still be filled, and an order that is settled.
Live == {"inflight", "working"}
Refused == {"REJECTED", "CANCELLED", "EXPIRED", "FORCE_CLOSED"}

\* The transitions an order may make, and what each does to its size.
Submit(s, n, t, m) == s = "unsent" /\ t \in Live /\ m > 0
Accept(s, n, t, m) == s = "inflight" /\ t = "working" /\ m = n
Fill(s, n, t, m)   == s \in Live /\ t = "open" /\ m = n
Reduce(s, n, t, m) == s = "open" /\ t = "open" /\ m > 0 /\ m < n
Close(s, n, t, m)  == s = "open" /\ t = "closed" /\ m = 0
Refuse(s, n, t, m) ==
  /\ s \in Live \cup {"unsent"} /\ t \in Refused /\ m = 0
  /\ s = "unsent" => t = "REJECTED"
  /\ s = "inflight" => t \in {"REJECTED", "FORCE_CLOSED"}
  /\ s = "working" => t # "FORCE_CLOSED"

Moves(s, n, t, m) ==
  \/ s = t /\ n = m
  \/ Submit(s, n, t, m) \/ Accept(s, n, t, m) \/ Fill(s, n, t, m)
  \/ Reduce(s, n, t, m) \/ Close(s, n, t, m)  \/ Refuse(s, n, t, m)

Init == status = [i \in Ids |-> "unsent"] /\ size = [i \in Ids |-> 0]

\* Several orders may move in one step: a tick settles many.
Next == \A i \in Ids : Moves(status[i], size[i], status'[i], size'[i])

Spec == Init /\ [][Next]_<<status, size>>

=============================================================================
