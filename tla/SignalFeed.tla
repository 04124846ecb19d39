------------------------------- MODULE SignalFeed -------------------------------
(***************************************************************************)
(* The live signal feed: a producer (external) that publishes envelopes,   *)
(* the poll thread (SignalPollSource) that fetches the latest one, the     *)
(* locked hand-off (SignalInbox), the series the workers resolve against   *)
(* (SignalDataProvider), and the probe of the producer's identity          *)
(* (SignalHealthProbe).                                                    *)
(*                                                                         *)
(* An envelope is [epoch, seq, available, collected]: the producer's       *)
(* numbering, its publish instant, and the instant it was received here.   *)
(***************************************************************************)
EXTENDS Integers, FiniteSets, Sequences, SequencesExt

CONSTANTS
    MaxTime,       \* bound of the model: the clock
    MaxEnvelopes,  \* bound of the model: envelopes published
    Skew,          \* how far a publish instant may lie behind the clock
    Journals       \* identities the producer may report

ASSUME FeedAssumption ==
    /\ {MaxTime, MaxEnvelopes, Skew} \subseteq Nat
    /\ "none" \notin Journals

VARIABLES
    clock,      \* wall-clock time
    latest,     \* the envelope the producer serves, or NoEnvelope
    published,  \* how many it published
    lastSeen,   \* _last_identity
    polledAt,   \* when the last poll was made (a poll waits interval_s before the next)
    fetched,    \* an envelope received and not yet put into the inbox
    inbox,      \* the SignalInbox
    enqueued,   \* identities ever put into the inbox
    series,     \* the provider's snapshots
    probe       \* the health probe: [journal, changed, seen]

feedVars == <<clock, latest, published, lastSeen, polledAt, fetched, inbox,
              enqueued, series, probe>>
pollVars == <<lastSeen, polledAt, fetched, enqueued>>

NoEnvelope == [epoch |-> 0, seq |-> 0, available |-> -1, collected |-> -1]
Id(s) == <<s.epoch, s.seq>>

FeedInit ==
    /\ clock = 0 /\ latest = NoEnvelope /\ published = 0
    /\ lastSeen = <<0, 0>> /\ polledAt = -1
    /\ fetched = NoEnvelope /\ inbox = <<>> /\ enqueued = {} /\ series = {}
    /\ probe = [journal |-> "none", changed |-> FALSE, seen |-> {}]

----------------------------------------------------------------------------
(* The producer (external) and time *)

\* Another pass of the producer, or its first one after a reboot with a reset
\* series; its clock may have been corrected backwards.
Publish ==
    /\ published < MaxEnvelopes
    /\ published' = published + 1
    /\ \E reset \in BOOLEAN, behind \in 0 .. Skew :
        /\ reset => latest # NoEnvelope
        /\ behind <= clock
        /\ latest' = [epoch |-> IF reset THEN latest.epoch + 1 ELSE latest.epoch,
                      seq |-> IF reset THEN 1 ELSE latest.seq + 1,
                      available |-> clock - behind, collected |-> -1]
    /\ UNCHANGED <<clock, pollVars, inbox, series, probe>>

Time ==
    /\ clock < MaxTime
    /\ clock' = clock + 1
    /\ UNCHANGED <<latest, published, pollVars, inbox, series, probe>>

----------------------------------------------------------------------------
(* SignalPollSource: one poll, then the hand-off *)

\* The producer answers with its latest envelope; the one seen last is skipped.
PollOnce ==
    /\ fetched = NoEnvelope /\ polledAt < clock
    /\ latest # NoEnvelope
    /\ polledAt' = clock
    /\ lastSeen' = Id(latest)
    /\ fetched' = IF Id(latest) = lastSeen THEN NoEnvelope
                                           ELSE [latest EXCEPT !.collected = clock]
    /\ UNCHANGED <<clock, latest, published, inbox, enqueued, series, probe>>

\* The producer's store is unavailable, or the transport fails: nothing is
\* handed over and the thread polls again.
PollFails ==
    /\ fetched = NoEnvelope /\ polledAt < clock
    /\ polledAt' = clock
    /\ UNCHANGED <<clock, latest, published, lastSeen, fetched, inbox, enqueued, series, probe>>

\* SignalInbox.put, under the lock.
InboxPut ==
    /\ fetched # NoEnvelope
    /\ inbox' = Append(inbox, fetched)
    /\ enqueued' = enqueued \cup {Id(fetched)}
    /\ fetched' = NoEnvelope
    /\ UNCHANGED <<clock, latest, published, lastSeen, polledAt, series, probe>>

----------------------------------------------------------------------------
(* SignalDataProvider *)

\* Mutant: a number is taken for an identity across epochs.
FreshBySeq(arrivals) == {s \in Range(arrivals) : \A o \in series : o.seq # s.seq}

\* extend(): what is not in the series yet.
Fresh(arrivals) == {s \in Range(arrivals) : \A o \in series : Id(o) # Id(s)}

\* get_order_key: the epoch, then the number within it.
Before(a, b) == a.epoch < b.epoch \/ (a.epoch = b.epoch /\ a.seq < b.seq)

\* _reindex: the series in order, and for each member the instant it becomes
\* visible, which is never before its predecessor's.
Ordered(snapshots) ==
    CHOOSE q \in [1 .. Cardinality(snapshots) -> snapshots] :
        \A i, j \in DOMAIN q : i < j => Before(q[i], q[j])
GateKeys(ordered) ==
    [i \in DOMAIN ordered |->
        CHOOSE k \in {ordered[j].available : j \in 1 .. i} :
            \A j \in 1 .. i : ordered[j].available <= k]

\* nearest(): the newest snapshot visible at t.
Nearest(snapshots, t) ==
    LET ordered == Ordered(snapshots)
        gates == GateKeys(ordered)
        visible == {i \in DOMAIN ordered : gates[i] <= t}
    IN  IF visible = {} THEN NoEnvelope ELSE ordered[Cardinality(visible)]

\* Taking everything out of the inbox (drain) and merging it (extend).
Merge ==
    /\ inbox' = <<>>
    /\ series' = series \cup Fresh(inbox)

----------------------------------------------------------------------------
(* SignalHealthProbe *)

\* Mutant: an answer without identity is not a change.
ProbeIdentified ==
    /\ \E journal \in Journals \cup {"none"} :
        probe' = [journal |-> journal,
                  changed |-> \/ probe.changed
                              \/ /\ probe.journal # "none" /\ journal # "none"
                                 /\ journal # probe.journal,
                  seen |-> probe.seen \cup ({journal} \ {"none"})]
    /\ UNCHANGED <<clock, latest, published, pollVars, inbox, series>>

\* One answer of the health endpoint, with an identity or without one.
ProbeOnce ==
    /\ \E journal \in Journals \cup {"none"} :
        probe' = [journal |-> journal,
                  changed |-> \/ probe.changed
                              \/ probe.journal # "none" /\ journal # probe.journal,
                  seen |-> probe.seen \cup ({journal} \ {"none"})]
    /\ UNCHANGED <<clock, latest, published, pollVars, inbox, series>>

FeedNext == Publish \/ Time \/ PollOnce \/ PollFails \/ InboxPut \/ ProbeOnce

FeedTypeOK ==
    /\ clock \in 0 .. MaxTime /\ published \in 0 .. MaxEnvelopes
    /\ polledAt \in -1 .. MaxTime
    /\ probe.changed \in BOOLEAN

\* What the poll thread handed over is in the inbox or in the series: nothing
\* is lost between put() and the swap in drain().
NothingLost ==
    \A id \in enqueued : \E s \in Range(inbox) \cup series : Id(s) = id

\* Once the producer has answered under two identities the change is on
\* record for the rest of the session (journal_changed is sticky), however
\* many unidentified answers came between.
JournalSwitchRecorded == Cardinality(probe.seen) > 1 => probe.changed
=============================================================================
