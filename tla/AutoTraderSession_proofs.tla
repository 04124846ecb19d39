----------------------- MODULE AutoTraderSession_proofs -----------------------
(***************************************************************************)
(* What a live session keeps through crashes, failed saves, restarts and   *)
(* silence of the feed, for every configuration, interval and bound: the   *)
(* state file is never torn by the program and lags by a bounded number of *)
(* ticks; staleness and the safety block that gate a pass are those of the *)
(* moment.                                                                 *)
(***************************************************************************)
EXTENDS AutoTraderSession, SequenceTheorems, TLAPS

-----------------------------------------------------------------------------
(* The inductive invariant *)

\* How far the marks and the file can be behind at each place of the main
\* thread.  A save moves its marks before it writes, so between the two the
\* bound is one interval more than the marks show.
Lag ==
    /\ pc \in {"off", "boot", "feed", "enter"} => sinceSave = 0 /\ durTicks = 0
    /\ storeUp /\ pc \in {"get", "empty"} =>
          sinceSave < SaveTicks /\ durTicks <= sinceSave + SaveTicks * fails
    /\ storeUp /\ pc = "due" =>
          sinceSave <= SaveTicks /\ durTicks <= sinceSave + SaveTicks * fails
    /\ storeUp /\ pc \in {"write", "rename"} /\ ret # "exit" =>
          sinceSave = 0 /\ durTicks <= SaveTicks + SaveTicks * fails

\* The clock of silence is set back at the end of a tick's pass, which began by
\* lowering the flags; an entry is made under the block the last check set.
Gates ==
    /\ StaleOnlyWhileSilent
    /\ pc \in {"due", "write", "rename"} /\ ret = "tick" => ~execStale
    /\ blocked = breached
    /\ entry => ~breached

SessionInv == TypeOK /\ NeverTorn /\ Lag /\ Gates

-----------------------------------------------------------------------------
(* The pieces the steps are made of *)

\* The components of a configuration that steps read.
LEMMA SetupTypes ==
  ASSUME TypeOK
  PROVE  setup \in Setups /\ setup.persist \in BOOLEAN
BY SessionAssumption DEF TypeOK

\* One interval more.
LEMMA OneInterval ==
  ASSUME NEW f \in Nat
  PROVE  /\ SaveTicks * f \in Nat
         /\ SaveTicks * (f + 1) = SaveTicks + SaveTicks * f
         /\ SaveTicks * (1 + f) = SaveTicks + SaveTicks * f
BY StoreAssumption

\* Where a pass ends, and that the clock of silence is set back by a tick only.
LEMMA ReturnGoes ==
  ASSUME TypeOK, Return
  PROVE  /\ pc' \in {"get", "after", "exit"} /\ entry' = FALSE
         /\ ret = "exit" => pc' = "exit"
         /\ tickAge' = IF ret = "tick" THEN 0 ELSE tickAge
BY DEF TypeOK, Return

\* The values everything has while no process runs.
LEMMA RestTypes ==
  /\ <<>> \in Seq({"tick", "none"}) /\ 1 \in 1 .. MaxDelay /\ 0 \in 0 .. MaxDelay
  /\ 0 \in 0 .. DeadAfter + 1 /\ 0 \in 0 .. MockTicks
  /\ 0 \in 0 .. MaxAlgo /\ 0 \in 0 .. StaleAfter + 1 /\ 0 \in 0 .. MaxFails
  /\ StartValue \in Values /\ 0 \in Nat
<1>1. <<>> \in Seq({"tick", "none"})  OBVIOUS
<1>2. 1 \in 1 .. MaxDelay /\ 0 \in 0 .. MaxDelay /\ 0 \in 0 .. DeadAfter + 1 /\ 0 \in 0 .. MockTicks
  BY FeedAssumption
<1>3. /\ 0 \in 0 .. MaxAlgo /\ 0 \in 0 .. StaleAfter + 1 /\ 0 \in 0 .. MaxFails
      /\ StartValue \in Values /\ 0 \in Nat
  BY StoreAssumption, SessionAssumption
<1> QED  BY <1>1, <1>2, <1>3

\* The algorithm moves its state within its range.
LEMMA AlgorithmTypes ==
  ASSUME TypeOK, AlgorithmRuns
  PROVE  algo' \in 0 .. MaxAlgo /\ endAsked' \in BOOLEAN
<1>1. algo' \in 0 .. MaxAlgo
  BY StoreAssumption DEF TypeOK, AlgorithmRuns, HookRuns
<1>2. endAsked \in BOOLEAN  BY DEF TypeOK
<1>3. endAsked' \in {endAsked, TRUE}  BY DEF AlgorithmRuns
<1>4. endAsked' \in BOOLEAN  BY <1>2, <1>3
<1> QED  BY <1>1, <1>4

\* The queue stays a queue of ticks and sentinels.
LEMMA QueueGrows ==
  ASSUME FeedTypeOK, NEW n \in 0 .. 1
  PROVE  queue \o [i \in 1 .. n |-> "tick"] \in Seq({"tick", "none"})
<1>1. [i \in 1 .. n |-> "tick"] \in Seq({"tick", "none"})
  OBVIOUS
<1>2. queue \in Seq({"tick", "none"})
  BY DEF FeedTypeOK
<1> QED  BY <1>1, <1>2, ConcatProperties

LEMMA FeedTypes ==
  ASSUME FeedTypeOK, NEW kind, FeedThread(kind) \/ Network(kind)
  PROVE  FeedTypeOK'
<1>1. ASSUME NEW m \in Messages, ReceiveMessage(m) PROVE FeedTypeOK'
  <2>1. PICK n : n = ParseTradeMessage(m)  OBVIOUS
  <2>2. n \in 0 .. 1  BY <2>1 DEF ParseTradeMessage, Messages
  <2> QED  BY <1>1, <2>1, <2>2, QueueGrows, FeedAssumption DEF FeedTypeOK, ReceiveMessage
<1>2. CASE MockEmits \/ PutSentinel
  <2>1. queue \in Seq({"tick", "none"})  BY DEF FeedTypeOK
  <2>2. Append(queue, "tick") \in Seq({"tick", "none"}) /\ Append(queue, "none") \in Seq({"tick", "none"})
    BY <2>1
  <2>3. queue' \in Seq({"tick", "none"})  BY <1>2, <2>2 DEF MockEmits, PutSentinel
  <2> QED  BY <1>2, <2>3, FeedAssumption DEF FeedTypeOK, FeedPhases, MockEmits, PutSentinel
<1>3. CASE KrakenBegins \/ ConnectionMonitor \/ MockBegins \/ MockExhausted \/ ConnectAndSubscribe
  <2>1. 1 \in 1 .. MaxDelay /\ 0 \in 0 .. DeadAfter + 1  BY FeedAssumption
  <2> QED
    BY <1>3, <2>1
    DEF FeedTypeOK, FeedPhases, KrakenBegins, ConnectionMonitor, MockBegins, MockExhausted,
        ConnectAndSubscribe
<1>5. CASE ReceiveStops \/ ConnectFails \/ ConnectionEnds
  <2>1. feed' \in {"backoff", "sentinel"} /\ wait' \in {delay, wait}
    BY <1>5 DEF ReceiveStops, ConnectFails, ConnectionEnds, AfterConnection
  <2>2. UNCHANGED <<feedOn, queue, delay, msgAge, emitted, exhausted>>
    BY <1>5 DEF ReceiveStops, ConnectFails, ConnectionEnds
  <2>3. wait' \in 0 .. MaxDelay
    BY <2>1, FeedAssumption DEF FeedTypeOK
  <2> QED  BY <2>1, <2>2, <2>3 DEF FeedTypeOK, FeedPhases
<1>4. CASE BackoffEnds
  <2>1. delay' \in 1 .. MaxDelay
    BY <1>4, FeedAssumption DEF FeedTypeOK, BackoffEnds, NextDelay, Min2
  <2> QED  BY <1>4, <2>1 DEF FeedTypeOK, FeedPhases, BackoffEnds
<1> QED  BY <1>1, <1>2, <1>3, <1>4, <1>5 DEF FeedThread, Network

-----------------------------------------------------------------------------
(* A session begins *)

LEMMA InitHolds == Init => SessionInv
<1> SUFFICES ASSUME Init PROVE SessionInv  OBVIOUS
<1>1. FeedTypeOK
  BY RestTypes DEF Init, FeedInit, FeedTypeOK, FeedPhases
<1>2. StoreTypeOK
  BY StoreAssumption DEF Init, StoreInit, StoreTypeOK, NoFile, Files
<1>3. TypeOK
  BY <1>1, <1>2, RestTypes DEF Init, TypeOK, Places, LoopPlaces
<1>4. NeverTorn  BY DEF Init, StoreInit, NoFile, NeverTorn
<1>5. Lag  BY DEF Init, StoreInit, Lag
<1>6. Gates  BY DEF Init, Gates, StaleOnlyWhileSilent
<1> QED  BY <1>3, <1>4, <1>5, <1>6 DEF SessionInv

LEMMA GoneKeeps == SessionInv /\ ProcessGone => SessionInv'
<1> SUFFICES ASSUME SessionInv, ProcessGone PROVE SessionInv'  OBVIOUS
<1>1. FeedTypeOK'
  BY RestTypes DEF ProcessGone, FeedReset, FeedTypeOK, FeedPhases
<1>2. StoreTypeOK'
  BY StoreAssumption DEF SessionInv, TypeOK, ProcessGone, StoreTypeOK
<1>3. TypeOK'
  BY <1>1, <1>2, RestTypes DEF SessionInv, TypeOK, ProcessGone, Places, LoopPlaces
<1>4. NeverTorn'  BY DEF SessionInv, ProcessGone, NeverTorn
<1>5. Lag'  BY DEF ProcessGone, Lag
<1>6. Gates'  BY DEF ProcessGone, Gates, StaleOnlyWhileSilent
<1> QED  BY <1>3, <1>4, <1>5, <1>6 DEF SessionInv

LEMMA StartKeeps ==
  SessionInv /\ (Boot \/ StartupFails \/ StartFeed \/ EnterLoop \/ LoopStops \/ GetTimesOut
                 \/ SourceExhausted \/ LoopFails \/ Interrupt) => SessionInv'
<1> SUFFICES ASSUME SessionInv,
                    Boot \/ StartupFails \/ StartFeed \/ EnterLoop \/ LoopStops \/ GetTimesOut
                    \/ SourceExhausted \/ LoopFails \/ Interrupt
             PROVE  SessionInv'
  OBVIOUS
<1> USE DEF Boot, StartupFails, StartFeed, EnterLoop, LoopStops, GetTimesOut, SourceExhausted,
            LoopFails, Interrupt, feedVars, storeVars, bootVars, marketVars, safetyVars, progressVars
<1>1. FeedTypeOK'
  BY DEF SessionInv, TypeOK, FeedTypeOK, FeedPhases
<1>2. StoreTypeOK'
  BY DEF SessionInv, TypeOK, StoreTypeOK
<1>3. TypeOK'
  BY <1>1, <1>2 DEF SessionInv, TypeOK, Places, LoopPlaces
<1>4. NeverTorn'  BY DEF SessionInv, NeverTorn
<1>5. Lag'
  BY StoreAssumption, OneInterval DEF SessionInv, TypeOK, Lag
<1>6. Gates'
  BY DEF SessionInv, Gates, StaleOnlyWhileSilent
<1> QED  BY <1>3, <1>4, <1>5, <1>6 DEF SessionInv

\* Whatever load() answers, the file stays as it is.
LEMMA RestoreKeeps == SessionInv /\ RestoreState => SessionInv'
<1> SUFFICES ASSUME SessionInv, RestoreState PROVE SessionInv'  OBVIOUS
<1> USE DEF feedVars, storeVars, marketVars, safetyVars, progressVars
<1>1. /\ pc = "boot" /\ pc' \in {"stop", "feed"} /\ refused' \in BOOLEAN
      /\ algo' \in {0, disk.snap, algo} /\ storeUp' = setup.persist
  BY DEF RestoreState, RestoredStates
<1>2. /\ UNCHANGED <<feedVars, storeVars, setup, damaged, ret, loopOn, endAsked, marketVars>>
      /\ UNCHANGED <<safetyVars, progressVars>>
  BY DEF RestoreState
<1>3. FeedTypeOK' /\ StoreTypeOK'
  BY <1>2 DEF SessionInv, TypeOK, FeedTypeOK, StoreTypeOK
<1>4. algo' \in 0 .. MaxAlgo
  BY <1>1, StoreAssumption DEF SessionInv, TypeOK, StoreTypeOK, Files
<1>5. TypeOK'
  BY <1>1, <1>2, <1>3, <1>4, SetupTypes DEF SessionInv, TypeOK, Places, LoopPlaces
<1>6. NeverTorn'  BY <1>2 DEF SessionInv, NeverTorn
<1>7. Lag'  BY <1>1, <1>2 DEF SessionInv, Lag
<1>8. Gates'  BY <1>1, <1>2 DEF SessionInv, Gates, StaleOnlyWhileSilent
<1> QED  BY <1>5, <1>6, <1>7, <1>8 DEF SessionInv

-----------------------------------------------------------------------------
(* The tick loop *)

LEMMA SentinelKeeps == SessionInv /\ GetSentinel => SessionInv'
<1> SUFFICES ASSUME SessionInv, GetSentinel PROVE SessionInv'  OBVIOUS
<1> USE DEF storeVars, bootVars, marketVars, safetyVars, progressVars
<1>1. queue' \in Seq({"tick", "none"})
  BY DEF GetSentinel, SessionInv, TypeOK, FeedTypeOK
<1>2. FeedTypeOK'  BY <1>1 DEF GetSentinel, SessionInv, TypeOK, FeedTypeOK
<1>3. StoreTypeOK'  BY DEF GetSentinel, SessionInv, TypeOK, StoreTypeOK
<1>4. TypeOK'  BY <1>2, <1>3 DEF GetSentinel, SessionInv, TypeOK, Places, LoopPlaces
<1>5. NeverTorn'  BY DEF GetSentinel, SessionInv, NeverTorn
<1>6. Lag'  BY DEF GetSentinel, SessionInv, Lag
<1>7. Gates'  BY DEF GetSentinel, SessionInv, Gates, StaleOnlyWhileSilent
<1> QED  BY <1>4, <1>5, <1>6, <1>7 DEF SessionInv

LEMMA TickKeeps == SessionInv /\ ProcessTick => SessionInv'
<1> SUFFICES ASSUME SessionInv, ProcessTick PROVE SessionInv'  OBVIOUS
<1>1. queue' \in Seq({"tick", "none"})
  BY DEF ProcessTick, SessionInv, TypeOK, FeedTypeOK
<1>2. FeedTypeOK'  BY <1>1 DEF ProcessTick, SessionInv, TypeOK, FeedTypeOK
<1>3. StoreTypeOK'  BY DEF ProcessTick, SessionInv, TypeOK, StoreTypeOK
<1>4. PICK value \in Values :
          /\ baseline' = IF setup.spot /\ ~anyTick /\ value > 0 THEN value ELSE baseline
          /\ blocked' = SafetyBlocks(value, baseline')
          /\ breached' = SafetyBlocks(value, baseline')
  BY DEF ProcessTick
<1>5. /\ baseline' \in Values /\ blocked' = breached'
      /\ blocked' \in BOOLEAN /\ breached' \in BOOLEAN
  BY <1>4 DEF SessionInv, TypeOK, SafetyBlocks
<1>6. entry' \in BOOLEAN /\ (entry' => ~breached')
  BY <1>5 DEF ProcessTick, ExecuteDecision
<1>7. /\ pc = "get" /\ pc' \in {"after", "due"} /\ ret' = "tick" /\ loopOn' = loopOn
      /\ anyTick' = TRUE /\ stale' = FALSE /\ execStale' = FALSE /\ episode' = FALSE
      /\ sinceSave' = sinceSave + 1 /\ durTicks' = (IF storeUp THEN durTicks + 1 ELSE durTicks)
      /\ UNCHANGED <<disk, saveAge, setup, storeUp, damaged, refused, tickAge, fails>>
  BY DEF ProcessTick, bootVars
<1>8. algo' \in 0 .. MaxAlgo /\ endAsked' \in BOOLEAN
  BY AlgorithmTypes DEF ProcessTick, SessionInv
<1>9. TypeOK'
  <2>1. durTicks' \in Nat /\ fails' \in 0 .. MaxFails /\ tickAge' \in 0 .. StaleAfter + 1
    BY <1>7 DEF SessionInv, TypeOK
  <2>2. setup' \in Setups /\ pc' \in Places /\ ret' \in {"tick", "heartbeat", "exit"}
    BY <1>7 DEF SessionInv, TypeOK, Places, LoopPlaces
  <2>3. {loopOn, storeUp, damaged, refused}' \subseteq BOOLEAN
    BY <1>7 DEF SessionInv, TypeOK
  <2>4. {anyTick, stale, execStale, episode}' \subseteq BOOLEAN
    BY <1>7
  <2> QED  BY <1>2, <1>3, <1>5, <1>6, <1>8, <2>1, <2>2, <2>3, <2>4 DEF TypeOK
<1>10. NeverTorn'  BY <1>7 DEF SessionInv, NeverTorn
<1>11. Lag'
  <2>1. sinceSave \in Nat /\ durTicks \in Nat /\ fails \in Nat
    BY SessionAssumption DEF SessionInv, TypeOK, StoreTypeOK
  <2>2. SaveTicks \in Nat /\ SaveTicks * fails \in Nat
    BY <2>1, OneInterval, StoreAssumption
  <2>3. storeUp => sinceSave < SaveTicks /\ durTicks <= sinceSave + SaveTicks * fails
    BY <1>7 DEF SessionInv, Lag
  <2> QED  BY <1>7, <2>1, <2>2, <2>3 DEF Lag
<1>12. Gates'  BY <1>5, <1>6, <1>7 DEF Gates, StaleOnlyWhileSilent
<1> QED  BY <1>9, <1>10, <1>11, <1>12 DEF SessionInv

LEMMA HeartbeatKeeps == SessionInv /\ Heartbeat => SessionInv'
<1> SUFFICES ASSUME SessionInv, Heartbeat PROVE SessionInv'  OBVIOUS
<1> USE DEF feedVars, storeVars, bootVars, progressVars
<1>1. /\ pc = "empty" /\ pc' = "due" /\ ret' = "heartbeat" /\ entry' \in {FALSE, ~blocked}
      /\ UNCHANGED <<feedVars, storeVars, bootVars, loopOn, anyTick, tickAge, baseline, blocked>>
      /\ UNCHANGED <<breached, progressVars>>
  BY DEF Heartbeat, GhostDecision, ExecuteDecision
<1>2. FeedTypeOK' /\ StoreTypeOK'
  BY <1>1 DEF SessionInv, TypeOK, FeedTypeOK, StoreTypeOK
<1>3. algo' \in 0 .. MaxAlgo /\ endAsked' \in BOOLEAN
  BY AlgorithmTypes DEF Heartbeat, SessionInv
<1>4. \/ /\ anyTick /\ tickAge > StaleAfter
         /\ stale' = TRUE /\ execStale' = TRUE /\ episode' = TRUE
      \/ UNCHANGED <<stale, execStale, episode>>
  BY DEF Heartbeat, EvaluateStaleness
<1>5. TypeOK'
  BY <1>1, <1>2, <1>3, <1>4 DEF SessionInv, TypeOK, Places, LoopPlaces
<1>6. NeverTorn'  BY <1>1 DEF SessionInv, NeverTorn
<1>7. Lag'
  BY <1>1, StoreAssumption DEF SessionInv, TypeOK, StoreTypeOK, Lag
<1>8. Gates'
  <2>1. blocked' = breached' /\ (entry' => ~breached')
    BY <1>1 DEF SessionInv, Gates
  <2>2. StaleOnlyWhileSilent'
    <3>1. StaleOnlyWhileSilent /\ anyTick' = anyTick /\ tickAge' = tickAge
      BY <1>1 DEF SessionInv, Gates
    <3>2. CASE UNCHANGED <<stale, execStale, episode>>
      BY <3>1, <3>2 DEF StaleOnlyWhileSilent
    <3>3. CASE /\ anyTick /\ tickAge > StaleAfter
               /\ stale' = TRUE /\ execStale' = TRUE /\ episode' = TRUE
      BY <3>1, <3>3 DEF StaleOnlyWhileSilent
    <3> QED  BY <1>4, <3>2, <3>3
  <2> QED  BY <1>1, <2>1, <2>2 DEF Gates
<1> QED  BY <1>5, <1>6, <1>7, <1>8 DEF SessionInv

-----------------------------------------------------------------------------
(* The saves *)

\* What a step that only returns leaves true of the gates.
LEMMA ReturnGates ==
  ASSUME SessionInv, pc \in {"due", "write", "rename"}, Return,
         UNCHANGED <<ret, anyTick, stale, execStale, episode, blocked, breached>>
  PROVE  Gates'
<1>1. /\ pc' \in {"get", "after", "exit"} /\ entry' = FALSE
      /\ tickAge' = IF ret = "tick" THEN 0 ELSE tickAge
  BY ReturnGoes DEF SessionInv
<1>2. ret = "tick" => ~execStale
  BY DEF SessionInv, Gates
<1> QED  BY <1>1, <1>2 DEF SessionInv, Gates, StaleOnlyWhileSilent

\* And of the types.
LEMMA ReturnTypes ==
  ASSUME TypeOK, Return
  PROVE  pc' \in Places /\ entry' \in BOOLEAN /\ tickAge' \in 0 .. StaleAfter + 1
<1>1. /\ pc' \in {"get", "after", "exit"} /\ entry' = FALSE
      /\ tickAge' = IF ret = "tick" THEN 0 ELSE tickAge
  BY ReturnGoes
<1>2. tickAge' \in 0 .. StaleAfter + 1  BY <1>1, RestTypes DEF TypeOK
<1> QED  BY <1>1, <1>2 DEF Places, LoopPlaces

LEMMA PersistKeeps == SessionInv /\ PersistIfDue => SessionInv'
<1> SUFFICES ASSUME SessionInv, PersistIfDue PROVE SessionInv'  OBVIOUS
<1> USE DEF feedVars, storeVars, bootVars, progressVars
<1>1. /\ pc = "due"
      /\ UNCHANGED <<feedVars, bootVars, ret, loopOn, algo, endAsked, anyTick, stale>>
      /\ UNCHANGED <<execStale, episode, baseline, blocked, breached>>
  BY DEF PersistIfDue
<1>2. disk' = disk  BY DEF PersistIfDue
<1>3. FeedTypeOK'  BY <1>1 DEF SessionInv, TypeOK, FeedTypeOK
<1>4. StoreTypeOK'
  <2>1. sinceSave' \in {0, sinceSave} /\ saveAge' \in {0, saveAge}
    BY DEF PersistIfDue, MarkSaved
  <2> QED  BY <1>2, <2>1, StoreAssumption DEF SessionInv, TypeOK, StoreTypeOK
<1>5. NeverTorn'  BY <1>1, <1>2 DEF SessionInv, NeverTorn
<1>6. /\ sinceSave \in Nat /\ durTicks \in Nat /\ fails \in Nat
      /\ SaveTicks \in Nat /\ SaveTicks > 0 /\ SaveTicks * fails \in Nat
  BY SessionAssumption, StoreAssumption, OneInterval DEF SessionInv, TypeOK, StoreTypeOK
<1>7. storeUp => sinceSave <= SaveTicks /\ durTicks <= sinceSave + SaveTicks * fails
  BY <1>1 DEF SessionInv, Lag
<1>8. CASE Return /\ UNCHANGED <<storeVars, progressVars>> /\ (~storeUp \/ ~IsDue)
  <2>1. TypeOK'
    BY <1>1, <1>3, <1>4, <1>8, ReturnTypes DEF SessionInv, TypeOK
  <2>2. pc' \in {"get", "after", "exit"}  BY <1>8, ReturnGoes DEF SessionInv
  <2>3. storeUp => sinceSave < SaveTicks  BY <1>6, <1>8 DEF IsDue
  <2>4. Lag'  BY <1>1, <1>7, <1>8, <2>2, <2>3 DEF Lag
  <2>5. Gates'  BY <1>1, <1>8, ReturnGates DEF SessionInv
  <2> QED  BY <1>5, <2>1, <2>4, <2>5 DEF SessionInv
<1>9. CASE MarkSaved /\ Return /\ durTicks' = 0 /\ fails' = fails
  <2>1. TypeOK'
    BY <1>1, <1>3, <1>4, <1>9, ReturnTypes DEF SessionInv, TypeOK
  <2>2. pc' \in {"get", "after", "exit"}  BY <1>9, ReturnGoes DEF SessionInv
  <2>3. Lag'  BY <1>1, <1>6, <1>9, <2>2 DEF Lag, MarkSaved
  <2>4. Gates'  BY <1>1, <1>9, ReturnGates DEF SessionInv
  <2> QED  BY <1>5, <2>1, <2>3, <2>4 DEF SessionInv
<1>10. CASE MarkSaved /\ pc' = "write" /\ UNCHANGED <<tickAge, entry, progressVars>>
  <2>1. TypeOK'
    BY <1>1, <1>3, <1>4, <1>10 DEF SessionInv, TypeOK, Places, LoopPlaces
  <2>2. Lag'  BY <1>1, <1>6, <1>7, <1>10 DEF Lag, MarkSaved
  <2>3. Gates'  BY <1>1, <1>10 DEF SessionInv, Gates, StaleOnlyWhileSilent
  <2> QED  BY <1>5, <2>1, <2>2, <2>3 DEF SessionInv
<1> QED  BY <1>8, <1>9, <1>10 DEF PersistIfDue

LEMMA WritesKeeps == SessionInv /\ SaveWrites => SessionInv'
<1> SUFFICES ASSUME SessionInv, SaveWrites PROVE SessionInv'  OBVIOUS
<1> USE DEF SaveWrites, WriteTemporary, saveLeaves, feedVars, progressVars
<1>1. FeedTypeOK' /\ StoreTypeOK'  BY DEF SessionInv, TypeOK, FeedTypeOK, StoreTypeOK
<1>2. TypeOK'  BY <1>1 DEF SessionInv, TypeOK, Places, LoopPlaces
<1>3. NeverTorn'  BY DEF SessionInv, NeverTorn
<1>4. Lag'  BY DEF SessionInv, Lag
<1>5. Gates'  BY DEF SessionInv, Gates, StaleOnlyWhileSilent
<1> QED  BY <1>2, <1>3, <1>4, <1>5 DEF SessionInv

LEMMA RenamesKeeps == SessionInv /\ SaveRenames => SessionInv'
<1> SUFFICES ASSUME SessionInv, SaveRenames PROVE SessionInv'  OBVIOUS
<1>1. /\ pc = "rename" /\ Return /\ disk' = SavedFile(algo)
      /\ damaged' = FALSE /\ durTicks' = 0 /\ fails' = 0 /\ UNCHANGED saveLeaves
  BY DEF SaveRenames, RenameTemporary
<1> USE DEF saveLeaves, feedVars
<1>2. FeedTypeOK'  BY <1>1 DEF SessionInv, TypeOK, FeedTypeOK
<1>3. StoreTypeOK'
  <2>1. SavedFile(algo) \in Files  BY DEF SavedFile, Files, SessionInv, TypeOK
  <2> QED  BY <1>1, <2>1 DEF SessionInv, TypeOK, StoreTypeOK
<1>4. TypeOK'
  BY <1>1, <1>2, <1>3, ReturnTypes, RestTypes DEF SessionInv, TypeOK
<1>5. NeverTorn'  BY <1>1 DEF NeverTorn, SavedFile
<1>6. Lag'
  <2>1. pc' \in {"get", "after", "exit"} /\ (ret = "exit" => pc' = "exit")
    BY <1>1, ReturnGoes DEF SessionInv
  <2>2. storeUp /\ ret # "exit" => sinceSave = 0
    BY <1>1 DEF SessionInv, Lag
  <2>3. SaveTicks \in Nat /\ SaveTicks > 0 /\ SaveTicks * 0 = 0
    BY StoreAssumption
  <2> QED  BY <1>1, <2>1, <2>2, <2>3 DEF Lag
<1>7. Gates'  BY <1>1, ReturnGates DEF SessionInv
<1> QED  BY <1>4, <1>5, <1>6, <1>7 DEF SessionInv

\* A failed save costs one interval.
LEMMA SaveFailsKeeps == SessionInv /\ SaveFails => SessionInv'
<1> SUFFICES ASSUME SessionInv, SaveFails PROVE SessionInv'  OBVIOUS
<1>1. /\ pc \in {"write", "rename"} /\ Return /\ fails < MaxFails /\ fails' = fails + 1
      /\ disk' = disk /\ damaged' = damaged /\ durTicks' = durTicks /\ UNCHANGED saveLeaves
  BY DEF SaveFails
<1> USE DEF saveLeaves, feedVars
<1>2. FeedTypeOK' /\ StoreTypeOK'
  BY <1>1 DEF SessionInv, TypeOK, FeedTypeOK, StoreTypeOK
<1>3. TypeOK'
  BY <1>1, <1>2, ReturnTypes, SessionAssumption DEF SessionInv, TypeOK
<1>4. NeverTorn'  BY <1>1 DEF SessionInv, NeverTorn
<1>5. Lag'
  <2>1. pc' \in {"get", "after", "exit"} /\ (ret = "exit" => pc' = "exit")
    BY <1>1, ReturnGoes DEF SessionInv
  <2>2. storeUp /\ ret # "exit" => sinceSave = 0 /\ durTicks <= SaveTicks + SaveTicks * fails
    BY <1>1 DEF SessionInv, Lag
  <2>3. fails \in Nat /\ durTicks \in Nat
    BY SessionAssumption DEF SessionInv, TypeOK
  <2>4. SaveTicks * fails' = SaveTicks + SaveTicks * fails /\ SaveTicks * fails \in Nat
    BY <1>1, <2>3, OneInterval
  <2>5. storeUp /\ ret # "exit" => durTicks' <= 0 + SaveTicks * fails'
    BY <1>1, <2>2, <2>3, <2>4, StoreAssumption
  <2>6. SaveTicks \in Nat /\ SaveTicks > 0  BY StoreAssumption
  <2>7. sinceSave' = sinceSave /\ storeUp' = storeUp  BY <1>1
  <2> QED  BY <2>1, <2>2, <2>5, <2>6, <2>7 DEF Lag
<1>6. Gates'  BY <1>1, ReturnGates DEF SessionInv
<1> QED  BY <1>3, <1>4, <1>5, <1>6 DEF SessionInv

-----------------------------------------------------------------------------
(* The end, the world, the feed *)

LEMMA EndKeeps == SessionInv /\ (SessionEnds \/ Shutdown) => SessionInv'
<1> SUFFICES ASSUME SessionInv, SessionEnds \/ Shutdown PROVE SessionInv'  OBVIOUS
<1> USE DEF feedVars, storeVars, bootVars, marketVars, safetyVars, progressVars
<1>1. CASE SessionEnds
  <2>1. FeedTypeOK' /\ StoreTypeOK'
    BY <1>1 DEF SessionEnds, SessionInv, TypeOK, FeedTypeOK, StoreTypeOK
  <2>2. algo' \in 0 .. MaxAlgo
    BY <1>1, StoreAssumption DEF SessionEnds, HookRuns, SessionInv, TypeOK
  <2>3. TypeOK'
    BY <1>1, <2>1, <2>2 DEF SessionEnds, SessionInv, TypeOK, Places, LoopPlaces
  <2>4. NeverTorn' /\ Lag' /\ Gates'
    BY <1>1 DEF SessionEnds, SessionInv, NeverTorn, Lag, Gates, StaleOnlyWhileSilent
  <2> QED  BY <2>3, <2>4 DEF SessionInv
<1>2. CASE Shutdown
  <2>1. FeedTypeOK'  BY <1>2 DEF Shutdown, SessionInv, TypeOK, FeedTypeOK
  <2>2. StoreTypeOK'
    BY <1>2, StoreAssumption DEF Shutdown, MarkSaved, SessionInv, TypeOK, StoreTypeOK
  <2>3. TypeOK'
    BY <1>2, <2>1, <2>2 DEF Shutdown, SessionInv, TypeOK, Places, LoopPlaces
  <2>4. NeverTorn' /\ Gates'
    BY <1>2 DEF Shutdown, SessionInv, NeverTorn, Gates, StaleOnlyWhileSilent
  <2>5. Lag'
    <3>1. pc' \in {"write", "exit"} /\ ret' = "exit"  BY <1>2 DEF Shutdown
    <3> QED  BY <3>1 DEF Lag
  <2> QED  BY <2>3, <2>4, <2>5 DEF SessionInv
<1> QED  BY <1>1, <1>2

LEMMA FileKeeps == SessionInv /\ (FileAges \/ FileDamaged) => SessionInv'
<1> SUFFICES ASSUME SessionInv, FileAges \/ FileDamaged PROVE SessionInv'  OBVIOUS
<1> USE DEF feedVars, bootVars, marketVars, safetyVars, progressVars
<1>1. disk' \in Files /\ (disk'.kind = "torn" => damaged')
  <2>1. disk \in Files  BY DEF SessionInv, TypeOK, StoreTypeOK
  <2>2. CASE FileAges
    <3>1. disk' = [disk EXCEPT !.old = TRUE] /\ damaged' = damaged  BY <2>2 DEF FileAges
    <3>2. disk' \in Files /\ disk'.kind = disk.kind  BY <2>1, <3>1 DEF Files
    <3> QED  BY <3>1, <3>2 DEF SessionInv, NeverTorn
  <2>3. CASE FileDamaged
    BY <2>3, StoreAssumption DEF FileDamaged, TornFile, Files
  <2> QED  BY <2>2, <2>3
<1>2. FeedTypeOK' /\ StoreTypeOK'
  BY <1>1 DEF FileAges, FileDamaged, SessionInv, TypeOK, FeedTypeOK, StoreTypeOK
<1>3. TypeOK'
  BY <1>2 DEF FileAges, FileDamaged, SessionInv, TypeOK
<1>4. NeverTorn'  BY <1>1 DEF NeverTorn
<1>5. Lag' /\ Gates'
  BY DEF FileAges, FileDamaged, SessionInv, Lag, Gates, StaleOnlyWhileSilent
<1> QED  BY <1>3, <1>4, <1>5 DEF SessionInv

LEMMA FeedKeeps == SessionInv /\ (FeedSteps(FeedThread) \/ FeedSteps(Network)) => SessionInv'
<1> SUFFICES ASSUME SessionInv, FeedSteps(FeedThread) \/ FeedSteps(Network) PROVE SessionInv'
  OBVIOUS
<1>1. FeedThread(setup.source) \/ Network(setup.source)  BY DEF FeedSteps
<1>2. FeedTypeOK'  BY <1>1, FeedTypes DEF SessionInv, TypeOK
<1>3. /\ UNCHANGED <<storeVars, bootVars, pc, ret, loopOn, algo, endAsked, marketVars>>
      /\ UNCHANGED <<safetyVars, progressVars>>
  BY DEF FeedSteps
<1> USE DEF storeVars, bootVars, marketVars, safetyVars, progressVars
<1>4. StoreTypeOK'  BY <1>3 DEF SessionInv, TypeOK, StoreTypeOK
<1>5. TypeOK'  BY <1>2, <1>3, <1>4 DEF SessionInv, TypeOK
<1>6. NeverTorn' /\ Lag' /\ Gates'
  BY <1>3 DEF SessionInv, NeverTorn, Lag, Gates, StaleOnlyWhileSilent
<1> QED  BY <1>5, <1>6 DEF SessionInv

LEMMA TimeKeeps == SessionInv /\ TimePasses => SessionInv'
<1> SUFFICES ASSUME SessionInv, TimePasses PROVE SessionInv'  OBVIOUS
<1> USE DEF bootVars, safetyVars, progressVars
<1>1. FeedTypeOK'
  BY FeedAssumption DEF TimePasses, FeedClock, Min2, SessionInv, TypeOK, FeedTypeOK
<1>2. StoreTypeOK'
  BY StoreAssumption DEF TimePasses, StoreClock, SessionInv, TypeOK, StoreTypeOK
<1>3. tickAge' \in 0 .. StaleAfter + 1 /\ tickAge' >= tickAge
  BY SessionAssumption DEF TimePasses, Min2, SessionInv, TypeOK
<1>4. TypeOK'  BY <1>1, <1>2, <1>3 DEF TimePasses, SessionInv, TypeOK
<1>5. NeverTorn' /\ Lag'
  BY DEF TimePasses, SessionInv, NeverTorn, Lag
<1>6. tickAge > StaleAfter => tickAge' > StaleAfter
  BY <1>3, SessionAssumption DEF SessionInv, TypeOK
<1>7. Gates'
  BY <1>6 DEF TimePasses, SessionInv, Gates, StaleOnlyWhileSilent
<1> QED  BY <1>4, <1>5, <1>7 DEF SessionInv

-----------------------------------------------------------------------------
(* The theorems *)

LEMMA StepKeeps == SessionInv /\ [Next]_vars => SessionInv'
<1> SUFFICES ASSUME SessionInv, [Next]_vars PROVE SessionInv'  OBVIOUS
<1>1. CASE UNCHANGED vars
  <2> USE DEF vars, feedVars, storeVars
  <2>1. FeedTypeOK' /\ StoreTypeOK'
    BY <1>1 DEF SessionInv, TypeOK, FeedTypeOK, StoreTypeOK
  <2>2. TypeOK'  BY <1>1, <2>1 DEF SessionInv, TypeOK
  <2>3. NeverTorn' /\ Lag' /\ Gates'
    BY <1>1 DEF SessionInv, NeverTorn, Lag, Gates, StaleOnlyWhileSilent
  <2> QED  BY <2>2, <2>3 DEF SessionInv
<1>2. CASE Next
  BY <1>2, StartKeeps, RestoreKeeps, SentinelKeeps, TickKeeps, HeartbeatKeeps, PersistKeeps,
     WritesKeeps, RenamesKeeps, SaveFailsKeeps, EndKeeps, GoneKeeps, FileKeeps, FeedKeeps,
     TimeKeeps DEF Next, MainThread, Exit, Crash
<1> QED  BY <1>1, <1>2

LEMMA Invariance == Spec => []SessionInv
<1>1. Init => SessionInv  BY InitHolds
<1>2. SessionInv /\ [Next]_vars => SessionInv'  BY StepKeeps
<1> QED  BY <1>1, <1>2, PTL DEF Spec

\* algo_state_store.py save and _atomic_write, under crashes, kills, failed
\* saves and restarts at any step: only damage from outside makes the state
\* file unreadable, and between two ticks the file lacks fewer ticks than one
\* save interval for each save that failed since, and one more.
THEOREM SessionStateDurable == Spec => []StateDurable
<1>1. SessionInv => StateDurable
  <2> SUFFICES ASSUME SessionInv, storeUp, pc = "get"
               PROVE  durTicks < SaveTicks * (1 + fails)
    BY DEF StateDurable, DurableProgress, SessionInv
  <2>1. sinceSave \in Nat /\ durTicks \in Nat /\ fails \in Nat
    BY SessionAssumption DEF SessionInv, TypeOK, StoreTypeOK
  <2>2. sinceSave < SaveTicks /\ durTicks <= sinceSave + SaveTicks * fails
    BY DEF SessionInv, Lag
  <2>3. SaveTicks * fails \in Nat /\ SaveTicks * (1 + fails) = SaveTicks + SaveTicks * fails
    BY <2>1, OneInterval
  <2> QED  BY <2>1, <2>2, <2>3, StoreAssumption
<1> QED  BY <1>1, Invariance, PTL

\* autotrader_tick_loop.py: the flag of the loop, the executor's status and the
\* episode agree and are up only while the feed is silent beyond the limit, and
\* no pass, a tick's or a heartbeat's, enters the market after a safety check
\* that failed; every variable keeps its type.
THEOREM SessionGatesTrue == Spec => []GatesTrue
<1>1. SessionInv => GatesTrue
  BY DEF SessionInv, GatesTrue, Gates, SafetyHolds
<1> QED  BY <1>1, Invariance, PTL
=============================================================================
