---------------------------- MODULE AlgoStateStore ----------------------------
(***************************************************************************)
(* Restart-safe memory of an algorithm: snapshots are written to a         *)
(* temporary file that then replaces the state file, on a cadence of ticks *)
(* or time and at shutdown; at boot the file is checked and restored.      *)
(*                                                                         *)
(* The algorithm's state is a number that only grows; 0 is its fresh       *)
(* state, whose snapshot may be empty.  The temporary file is never read,  *)
(* so only the step between writing and renaming it is kept.               *)
(***************************************************************************)
EXTENDS Naturals

CONSTANTS
    SaveTicks,  \* save_interval_ticks
    SaveTime,   \* save_interval_seconds, in time units
    MaxAlgo     \* bound of the model: how far the algorithm's state moves

ASSUME StoreAssumption ==
    SaveTicks \in Nat \ {0} /\ SaveTime \in Nat \ {0} /\ MaxAlgo \in Nat

VARIABLES
    disk,       \* the state file
    sinceSave,  \* tick counter - _last_save_tick
    saveAge     \* time since _last_save_time

storeVars == <<disk, sinceSave, saveAge>>

\* The state file: none, a snapshot with its age, or unreadable.
Files == [kind : {"none", "ok", "torn"}, snap : 0 .. MaxAlgo, old : BOOLEAN]
NoFile == [kind |-> "none", snap |-> 0, old |-> FALSE]
TornFile == [kind |-> "torn", snap |-> 0, old |-> FALSE]
SavedFile(algo) == [kind |-> "ok", snap |-> algo, old |-> FALSE]

StoreTypeOK ==
    /\ disk \in Files
    /\ sinceSave \in Nat
    /\ saveAge \in 0 .. SaveTime

StoreInit == disk = NoFile /\ sinceSave = 0 /\ saveAge = 0

\* Mutant: one tick more than the interval.
IsDueLate == sinceSave > SaveTicks \/ saveAge >= SaveTime

IsDue == sinceSave >= SaveTicks \/ saveAge >= SaveTime

\* save() moves its marks before it looks at the snapshot or writes anything.
MarkSaved == sinceSave' = 0 /\ saveAge' = 0

\* Mutant: the snapshot is written into the state file itself.
WriteInPlace(algo) == disk' = TornFile

\* The envelope in the temporary file; the state file is untouched.
WriteTemporary(algo) == disk' = disk

\* os.replace
RenameTemporary(algo) == disk' = SavedFile(algo)

\* What load() answers: a snapshot, nothing, or a refusal to boot.
LoadAnswer(onCorrupt, onStale) ==
    CASE disk.kind = "none" -> "nothing"
      [] disk.kind = "torn" -> IF onCorrupt = "fail" THEN "refuse" ELSE "nothing"
      [] disk.kind = "ok" /\ disk.old -> IF onStale = "halt" THEN "refuse" ELSE "nothing"
      [] OTHER -> "snapshot"

StoreClock == saveAge' = (IF saveAge < SaveTime THEN saveAge + 1 ELSE saveAge)
=============================================================================
