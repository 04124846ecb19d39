----------------------------- MODULE Data_proofs -----------------------------
(***************************************************************************)
(* What serves the data and what runs on it.  A discovery cache never      *)
(* serves a report about bars that were not there while it was asked for,  *)
(* unless a rendering overtook a save: for every number of renderings and  *)
(* requests, with saves that fail, processes that are killed and files     *)
(* that are torn.  And when a batch ends every scenario has one result, in *)
(* its own slot, however the processes of the pool end.  The archives below *)
(* both survive whatever happens to an import: no tick is lost, index and  *)
(* bars are true, and a run is served the signals that were published.     *)
(***************************************************************************)
EXTENDS DiscoveryCache, BatchExecution, SignalArchive, FiniteSetTheorems, SequenceTheorems, WellFoundedInduction, TLAPS

Kinds == {"coverage", "moves", "profile"}
Granularities == {"M5", "M15", "none"}
CacheFiles == [state : {"none", "ok", "torn"}, of : Nat, mtime : Nat, gran : Granularities]
Jobs == [kind : Kinds, force : BOOLEAN, all : BOOLEAN]
Places == {"idle", "check", "load", "analyse", "stamp", "write"}
AskRecord == [pc : Places, todo : Seq(Jobs), saw : Nat, stamp : Nat, during : SUBSET Nat]

-----------------------------------------------------------------------------
(* The inductive invariant *)

CacheTypes ==
    /\ barFile \in [version : Nat, there : BOOLEAN]
    /\ cached \in [Kinds -> CacheFiles]
    /\ asking \in AskRecord
    /\ asking.pc # "idle" => asking.todo # <<>>
    /\ gran \in Granularities
    /\ raced \subseteq Kinds

\* A readable cache file is about the version whose time it carries, unless its
\* save was overtaken; no file carries a time the bars have not reached.
FilesTrue ==
    \A k \in Kinds :
        /\ cached[k].mtime <= barFile.version
        /\ cached[k].state = "ok" => cached[k].of = cached[k].mtime \/ k \in raced

\* A request has seen every version that was current since it began; what it
\* analysed is one of them, and so is what a file it found valid is about.
RequestTrue ==
    asking.pc # "idle" =>
        /\ Mtime \in asking.during
        /\ asking.pc \in {"stamp", "write"} => asking.saw \in asking.during
        /\ asking.pc = "write" =>
              /\ asking.stamp <= barFile.version
              /\ asking.saw = asking.stamp \/ Asked.kind \in raced
        /\ asking.pc = "load" =>
              LET f == cached[Asked.kind]
              IN  /\ f.of \in asking.during \/ Asked.kind \in raced
                  /\ Asked.kind = "coverage" => f.gran = gran

CacheInv == CacheTypes /\ FilesTrue /\ RequestTrue /\ ServedCurrent

-----------------------------------------------------------------------------
(* What the steps are made of *)

\* The three kinds, in the order rebuild_all takes them.
LEMMA DiscoveriesAre ==
  /\ DOMAIN Discoveries = 1 .. 3 /\ \A i \in 1 .. 3 : Discoveries[i] \in Kinds
  /\ {Discoveries[i] : i \in DOMAIN Discoveries} = Kinds
<1>1. Discoveries \in Seq(Kinds) /\ Len(Discoveries) = 3
  BY DEF Discoveries, Kinds
<1>2. Discoveries[1] = "coverage" /\ Discoveries[2] = "moves" /\ Discoveries[3] = "profile"
  BY DEF Discoveries
<1>3. DOMAIN Discoveries = 1 .. 3  BY <1>1
<1>4. \A i \in 1 .. 3 : i = 1 \/ i = 2 \/ i = 3  OBVIOUS
<1>5. 1 \in 1 .. 3 /\ 2 \in 1 .. 3 /\ 3 \in 1 .. 3  OBVIOUS
<1>6. \A i \in 1 .. 3 : Discoveries[i] \in Kinds  BY <1>2, <1>4 DEF Kinds
<1>7. \A k \in Kinds : \E i \in 1 .. 3 : Discoveries[i] = k  BY <1>2, <1>5 DEF Kinds
<1> QED  BY <1>3, <1>6, <1>7

\* The file's time is its version, or nothing.
LEMMA MtimeFacts ==
  ASSUME CacheTypes
  PROVE  /\ Mtime \in Nat /\ Mtime <= barFile.version /\ barFile.version \in Nat
         /\ barFile.there => Mtime = barFile.version
BY DEF CacheTypes, Mtime

\* What is left of two jobs or more.
LEMMA TailFacts ==
  ASSUME NEW S, NEW s \in Seq(S), Len(s) > 1
  PROVE  Tail(s) # <<>>
<1> DEFINE t == Tail(s)
<1>1. t \in Seq(S) /\ Len(t) = Len(s) - 1  OBVIOUS
<1>2. Len(s) \in Nat  OBVIOUS
<1> HIDE DEF t
<1>3. Len(t) # 0  BY <1>1, <1>2
<1>4. t # <<>>  BY <1>3
<1> QED  BY <1>4 DEF t

\* The job under way.
LEMMA AskedFacts ==
  ASSUME CacheTypes, asking.pc # "idle"
  PROVE  /\ asking.todo \in Seq(Jobs) /\ asking.todo # <<>> /\ Asked \in Jobs /\ Asked.kind \in Kinds
         /\ Tail(asking.todo) \in Seq(Jobs) /\ (Len(asking.todo) > 1 => Tail(asking.todo) # <<>>)
<1>1. asking.todo \in Seq(Jobs) /\ asking.todo # <<>>
  BY DEF CacheTypes, AskRecord
<1>2. Asked \in Jobs
  BY <1>1 DEF Asked
<1>3. Tail(asking.todo) \in Seq(Jobs) /\ (Len(asking.todo) > 1 => Tail(asking.todo) # <<>>)
  <2>1. Tail(asking.todo) \in Seq(Jobs)  BY <1>1
  <2> QED  BY <1>1, <2>1, TailFacts
<1> QED  BY <1>1, <1>2, <1>3 DEF Jobs

\* A fresh request for well-formed jobs.
LEMMA FreshRequest ==
  ASSUME CacheTypes, NEW todo \in Seq(Jobs),
         asking' = [pc |-> "check", todo |-> todo, saw |-> 0, stamp |-> 0, during |-> {Mtime}]
  PROVE  /\ asking' \in AskRecord /\ asking'.pc = "check"
         /\ asking'.todo = todo /\ asking'.during = {Mtime}
<1>1. Mtime \in Nat  BY MtimeFacts
<1> QED  BY <1>1 DEF AskRecord, Places

\* The end of a job leaves nothing behind, or a fresh request for the rest.
LEMMA NextAskedHolds ==
  ASSUME CacheTypes, asking.pc # "idle", NextAsked, barFile' = barFile
  PROVE  /\ asking' \in AskRecord /\ (asking'.pc # "idle" => asking'.todo # <<>>)
         /\ RequestTrue'
<1>1. CASE Len(asking.todo) > 1
  <2>1. asking' = [pc |-> "check", todo |-> Tail(asking.todo), saw |-> 0, stamp |-> 0, during |-> {Mtime}]
    BY <1>1 DEF NextAsked, NoRequest
  <2>2. Tail(asking.todo) \in Seq(Jobs) /\ Tail(asking.todo) # <<>>
    BY <1>1, AskedFacts
  <2>3. asking' \in AskRecord /\ asking'.pc = "check" /\ asking'.todo = Tail(asking.todo)
        /\ asking'.during = {Mtime}
    BY <2>1, <2>2, FreshRequest
  <2>4. Mtime' = Mtime  BY DEF Mtime
  <2> QED  BY <2>2, <2>3, <2>4 DEF RequestTrue
<1>2. CASE ~(Len(asking.todo) > 1)
  <2>1. asking' = NoRequest  BY <1>2 DEF NextAsked
  <2>2. NoRequest \in AskRecord /\ NoRequest.pc = "idle"
    <3>1. <<>> \in Seq(Jobs)  OBVIOUS
    <3> QED  BY <3>1 DEF NoRequest, AskRecord, Places
  <2> QED  BY <2>1, <2>2 DEF RequestTrue
<1> QED  BY <1>1, <1>2

\* The files do not change and the bars do not either.
LEMMA FilesStay ==
  ASSUME FilesTrue, UNCHANGED <<barFile, cached>>, raced \subseteq raced'
  PROVE  FilesTrue'
BY DEF FilesTrue

\* What was handed over stays true as more saves are overtaken.
LEMMA AnswerStays ==
  ASSUME ServedCurrent, UNCHANGED answered, raced \subseteq raced'
  PROVE  ServedCurrent'
BY DEF ServedCurrent

\* A report that is handed over.
LEMMA GotServes ==
  ASSUME NEW of, NEW g, Got(of, g), UNCHANGED raced,
         of \in asking.during \/ Asked.kind \in raced,
         Asked.kind = "coverage" => g = gran
  PROVE  ServedCurrent'
BY DEF Got, ServedCurrent

-----------------------------------------------------------------------------
(* The bars *)

\* Bars are removed and rendered again; a request cannot be in between then.
LEMMA BarsKeep == CacheInv /\ (BarsRemoved \/ BarsRendered) => CacheInv'
<1> SUFFICES ASSUME CacheInv, BarsRemoved \/ BarsRendered PROVE CacheInv'  OBVIOUS
<1>1. PICK v \in Nat : SeenBars(v) /\ Mtime' = v
  <2>1. CASE BarsRemoved
    <3>1. barFile' = [barFile EXCEPT !.there = FALSE] /\ SeenBars(0)  BY <2>1 DEF BarsRemoved
    <3>2. barFile'.there = FALSE  BY <3>1 DEF CacheInv, CacheTypes
    <3> QED  BY <3>1, <3>2 DEF Mtime
  <2>2. CASE BarsRendered
    <3>1. /\ barFile' = [version |-> barFile.version + 1, there |-> TRUE]
          /\ SeenBars(barFile.version + 1)
      BY <2>2 DEF BarsRendered
    <3>2. barFile.version + 1 \in Nat  BY DEF CacheInv, CacheTypes
    <3> QED  BY <3>1, <3>2 DEF Mtime
  <2> QED  BY <2>1, <2>2
<1>2. /\ barFile' \in [version : Nat, there : BOOLEAN] /\ barFile'.version >= barFile.version
      /\ UNCHANGED <<cached, answered, raced, gran>>
  <2>1. barFile \in [version : Nat, there : BOOLEAN] /\ barFile.version \in Nat
    BY DEF CacheInv, CacheTypes
  <2>2. CASE BarsRemoved
    <3>1. barFile' = [barFile EXCEPT !.there = FALSE]  BY <2>2 DEF BarsRemoved
    <3>2. barFile' \in [version : Nat, there : BOOLEAN] /\ barFile'.version = barFile.version
      BY <2>1, <3>1
    <3> QED  BY <2>1, <2>2, <3>2 DEF BarsRemoved
  <2>3. CASE BarsRendered
    <3>1. barFile' = [version |-> barFile.version + 1, there |-> TRUE]  BY <2>3 DEF BarsRendered
    <3>2. barFile' \in [version : Nat, there : BOOLEAN] /\ barFile'.version >= barFile.version
      BY <2>1, <3>1
    <3> QED  BY <2>3, <3>2 DEF BarsRendered
  <2> QED  BY <2>2, <2>3
<1>3. barFile.version \in Nat /\ barFile'.version \in Nat /\ \A k \in Kinds : cached[k] \in CacheFiles
  BY <1>2 DEF CacheInv, CacheTypes
<1>4. FilesTrue'
  BY <1>2, <1>3 DEF CacheInv, FilesTrue, CacheFiles
<1>5. ServedCurrent'  BY <1>2, AnswerStays DEF CacheInv
<1>6. CASE asking.pc = "idle"
  <2>1. asking' = asking  BY <1>1, <1>6 DEF SeenBars
  <2> QED  BY <1>2, <1>4, <1>5, <1>6, <2>1 DEF CacheInv, CacheTypes, RequestTrue
<1>7. CASE asking.pc # "idle"
  <2>1. asking' = [asking EXCEPT !.during = @ \cup {v}]  BY <1>1, <1>7 DEF SeenBars
  <2>2. asking \in AskRecord  BY DEF CacheInv, CacheTypes
  <2>3. /\ asking' \in AskRecord /\ asking'.pc = asking.pc /\ asking'.todo = asking.todo
        /\ asking'.saw = asking.saw /\ asking'.stamp = asking.stamp
        /\ asking'.during = asking.during \cup {v}
    BY <2>1, <2>2 DEF AskRecord
  <2>4. CacheTypes'  BY <1>2, <2>3 DEF CacheInv, CacheTypes
  <2>5. Asked' = Asked  BY <2>3 DEF Asked
  <2>6. asking.pc = "write" => asking'.stamp <= barFile'.version
    BY <1>2, <1>3, <1>7, <2>2, <2>3 DEF CacheInv, RequestTrue, AskRecord
  <2>7. RequestTrue'
    BY <1>1, <1>2, <1>7, <2>3, <2>5, <2>6 DEF CacheInv, RequestTrue
  <2> QED  BY <1>4, <1>5, <2>4, <2>7 DEF CacheInv
<1> QED  BY <1>6, <1>7

-----------------------------------------------------------------------------
(* Requests begin and end *)

\* A request begins with its jobs in the order in which they are asked for.
LEMMA AskKeeps ==
  ASSUME CacheInv, NEW kind \in Kinds, NEW force \in BOOLEAN, Ask(kind, force)
  PROVE  CacheInv'
<1> DEFINE todo == <<[kind |-> kind, force |-> force, all |-> FALSE]>>
<1>1. todo \in Seq(Jobs) /\ todo # <<>>
  <2>1. [kind |-> kind, force |-> force, all |-> FALSE] \in Jobs  BY DEF Jobs
  <2> QED  BY <2>1
<1>2. /\ asking' = [NoRequest EXCEPT !.pc = "check", !.during = {Mtime}, !.todo = todo]
      /\ UNCHANGED <<barFile, cached, answered, raced, gran>>
  BY DEF Ask
<1> HIDE DEF todo
<1>3. asking' = [pc |-> "check", todo |-> todo, saw |-> 0, stamp |-> 0, during |-> {Mtime}]
  BY <1>2 DEF NoRequest
<1>4. /\ asking' \in AskRecord /\ asking'.pc = "check" /\ asking'.todo = todo /\ asking'.during = {Mtime}
  BY <1>1, <1>3, FreshRequest DEF CacheInv
<1>5. CacheTypes'  BY <1>1, <1>2, <1>4 DEF CacheInv, CacheTypes
<1>6. Mtime' = Mtime  BY <1>2 DEF Mtime
<1>7. RequestTrue'  BY <1>4, <1>6 DEF RequestTrue
<1> QED  BY <1>2, <1>5, <1>7, FilesStay, AnswerStays DEF CacheInv

\* rebuild_all asks for every report.
LEMMA RebuildKeeps ==
  ASSUME CacheInv, NEW force \in BOOLEAN, RebuildAll(force)
  PROVE  CacheInv'
<1> DEFINE todo == [i \in DOMAIN Discoveries |-> [kind |-> Discoveries[i], force |-> force, all |-> TRUE]]
<1>1. todo \in Seq(Jobs) /\ todo # <<>>
  <2>1. DOMAIN Discoveries = 1 .. 3 /\ \A i \in 1 .. 3 : Discoveries[i] \in Kinds
    BY DiscoveriesAre
  <2>2. \A i \in 1 .. 3 : [kind |-> Discoveries[i], force |-> force, all |-> TRUE] \in Jobs
    BY <2>1 DEF Jobs
  <2>3. todo \in [1 .. 3 -> Jobs]  BY <2>1, <2>2
  <2>4. todo \in Seq(Jobs) /\ Len(todo) = 3  BY <2>3
  <2> QED  BY <2>4
<1>2. /\ asking' = [NoRequest EXCEPT !.pc = "check", !.during = {Mtime}, !.todo = todo]
      /\ UNCHANGED <<barFile, cached, answered, raced, gran>>
  BY DEF RebuildAll
<1> HIDE DEF todo
<1>3. asking' = [pc |-> "check", todo |-> todo, saw |-> 0, stamp |-> 0, during |-> {Mtime}]
  BY <1>2 DEF NoRequest
<1>4. /\ asking' \in AskRecord /\ asking'.pc = "check" /\ asking'.todo = todo /\ asking'.during = {Mtime}
  BY <1>1, <1>3, FreshRequest DEF CacheInv
<1>5. CacheTypes'  BY <1>1, <1>2, <1>4 DEF CacheInv, CacheTypes
<1>6. Mtime' = Mtime  BY <1>2 DEF Mtime
<1>7. RequestTrue'  BY <1>4, <1>6 DEF RequestTrue
<1> QED  BY <1>2, <1>5, <1>7, FilesStay, AnswerStays DEF CacheInv

\* The configuration changes, the process is killed, the caches are cleared.
LEMMA OutsideKeeps == CacheInv /\ (Reconfigure \/ Killed \/ ClearAll) => CacheInv'
<1> SUFFICES ASSUME CacheInv, Reconfigure \/ Killed \/ ClearAll PROVE CacheInv'  OBVIOUS
<1>1. CASE Reconfigure
  <2>1. CacheTypes' /\ RequestTrue'
    BY <1>1 DEF Reconfigure, CacheInv, CacheTypes, RequestTrue, Granularities
  <2> QED  BY <1>1, <2>1, FilesStay, AnswerStays DEF Reconfigure, CacheInv
<1>2. CASE Killed
  <2>1. NoRequest \in AskRecord /\ NoRequest.pc = "idle"
    <3>1. <<>> \in Seq(Jobs)  OBVIOUS
    <3> QED  BY <3>1 DEF NoRequest, AskRecord, Places
  <2>2. CacheTypes' /\ RequestTrue'
    BY <1>2, <2>1 DEF Killed, CacheInv, CacheTypes, RequestTrue
  <2> QED  BY <1>2, <2>2, FilesStay, AnswerStays DEF Killed, CacheInv
<1>3. CASE ClearAll
  <2>1. DOMAIN cached = Kinds /\ NoFile \in CacheFiles /\ NoFile.mtime = 0 /\ NoFile.state = "none"
    BY DEF CacheInv, CacheTypes, NoFile, CacheFiles, Granularities
  <2>2. cached' = [k \in Kinds |-> NoFile] /\ UNCHANGED <<barFile, asking, answered, raced, gran>>
    BY <1>3, <2>1 DEF ClearAll
  <2>3. CacheTypes'  BY <2>1, <2>2 DEF CacheInv, CacheTypes
  <2>4. RequestTrue'  BY <1>3, <2>2 DEF ClearAll, RequestTrue
  <2>5. barFile.version >= 0  BY DEF CacheInv, CacheTypes
  <2>6. FilesTrue'  BY <2>1, <2>2, <2>5 DEF FilesTrue
  <2> QED  BY <2>2, <2>3, <2>4, <2>6, AnswerStays DEF CacheInv
<1> QED  BY <1>1, <1>2, <1>3

-----------------------------------------------------------------------------
(* A request is served *)

\* A request that moves on to another place.
LEMMA MovesOn ==
  ASSUME CacheTypes, NEW place \in Places \ {"idle"}, asking.pc # "idle",
         asking' = [asking EXCEPT !.pc = place]
  PROVE  /\ asking' \in AskRecord /\ asking'.pc = place /\ asking'.todo = asking.todo
         /\ asking'.saw = asking.saw /\ asking'.stamp = asking.stamp
         /\ asking'.during = asking.during /\ Asked' = Asked /\ asking'.todo # <<>>
<1>1. asking \in AskRecord /\ asking.todo # <<>>  BY DEF CacheTypes
<1>2. /\ asking' \in AskRecord /\ asking'.pc = place /\ asking'.todo = asking.todo
      /\ asking'.saw = asking.saw /\ asking'.stamp = asking.stamp /\ asking'.during = asking.during
  BY <1>1 DEF AskRecord
<1> QED  BY <1>1, <1>2 DEF Asked

\* A valid file has the time of the bars that are there now, and is about them.
LEMMA ValidIsCurrent ==
  ASSUME CacheTypes, FilesTrue, NEW kind \in Kinds, IsCacheValid(kind)
  PROVE  /\ cached[kind].of = Mtime \/ kind \in raced
         /\ kind = "coverage" => cached[kind].gran = gran
<1>1. /\ cached[kind].state = "ok" /\ barFile.there /\ Mtime <= cached[kind].mtime
      /\ kind = "coverage" => cached[kind].gran = gran
  <2>1. CASE kind = "coverage"
    <3>1. IsCacheValid(kind) = CoverageValid  BY <2>1 DEF IsCacheValid
    <3> QED  BY <2>1, <3>1 DEF CoverageValid
  <2>2. CASE kind = "moves"
    <3>1. IsCacheValid(kind) = MovesValid  BY <2>2 DEF IsCacheValid
    <3> QED  BY <2>2, <3>1 DEF MovesValid
  <2>3. CASE kind = "profile"
    <3>1. IsCacheValid(kind) = ProfileValid  BY <2>3 DEF IsCacheValid
    <3> QED  BY <2>3, <3>1 DEF ProfileValid
  <2> QED  BY <2>1, <2>2, <2>3 DEF Kinds
<1>2. cached[kind].mtime \in Nat /\ cached[kind].mtime <= barFile.version
  BY DEF CacheTypes, CacheFiles, FilesTrue
<1>3. cached[kind].mtime = Mtime
  BY <1>1, <1>2, MtimeFacts
<1> QED  BY <1>1, <1>3 DEF FilesTrue

\* The cache is taken if it is valid for the bars and nothing is forced.
LEMMA CheckKeeps == CacheInv /\ CheckCache => CacheInv'
<1> SUFFICES ASSUME CacheInv, CheckCache PROVE CacheInv'  OBVIOUS
<1>1. asking.pc = "check" /\ UNCHANGED <<barFile, cached, answered, raced, gran>>
  BY DEF CheckCache
<1>2. CASE NextAsked
  <2>1. asking' \in AskRecord /\ (asking'.pc # "idle" => asking'.todo # <<>>) /\ RequestTrue'
    BY <1>1, <1>2, NextAskedHolds DEF CacheInv
  <2>2. CacheTypes'  BY <1>1, <2>1 DEF CacheInv, CacheTypes
  <2> QED  BY <1>1, <2>1, <2>2, FilesStay, AnswerStays DEF CacheInv
<1>3. CASE asking' = [asking EXCEPT !.pc = "load"] /\ IsCacheValid(Asked.kind)
  <2>1. /\ asking' \in AskRecord /\ asking'.pc = "load" /\ asking'.todo = asking.todo
        /\ asking'.during = asking.during /\ Asked' = Asked /\ asking'.todo # <<>>
    BY <1>1, <1>3, MovesOn DEF CacheInv, Places
  <2>2. CacheTypes'  BY <1>1, <2>1 DEF CacheInv, CacheTypes
  <2>3. Asked.kind \in Kinds  BY <1>1, AskedFacts DEF CacheInv
  <2>4. /\ cached[Asked.kind].of = Mtime \/ Asked.kind \in raced
        /\ Asked.kind = "coverage" => cached[Asked.kind].gran = gran
    BY <1>3, <2>3, ValidIsCurrent DEF CacheInv
  <2>5. Mtime' = Mtime /\ Mtime \in asking.during
    BY <1>1 DEF Mtime, CacheInv, RequestTrue
  <2>6. RequestTrue'  BY <1>1, <2>1, <2>4, <2>5 DEF RequestTrue
  <2> QED  BY <1>1, <2>2, <2>6, FilesStay, AnswerStays DEF CacheInv
<1>4. CASE asking' = [asking EXCEPT !.pc = "analyse"]
  <2>1. /\ asking' \in AskRecord /\ asking'.pc = "analyse" /\ asking'.todo = asking.todo
        /\ asking'.during = asking.during /\ asking'.todo # <<>>
    BY <1>1, <1>4, MovesOn DEF CacheInv, Places
  <2>2. CacheTypes'  BY <1>1, <2>1 DEF CacheInv, CacheTypes
  <2>3. Mtime' = Mtime /\ Mtime \in asking.during
    BY <1>1 DEF Mtime, CacheInv, RequestTrue
  <2>4. RequestTrue'  BY <2>1, <2>3 DEF RequestTrue
  <2> QED  BY <1>1, <2>2, <2>4, FilesStay, AnswerStays DEF CacheInv
<1> QED
  BY <1>2, <1>3, <1>4 DEF CheckCache

\* The report of a valid cache is loaded, or analysed after all.
LEMMA LoadKeeps == CacheInv /\ LoadCached => CacheInv'
<1> SUFFICES ASSUME CacheInv, LoadCached PROVE CacheInv'  OBVIOUS
<1>1. asking.pc = "load" /\ UNCHANGED <<barFile, cached, raced, gran>>
  BY DEF LoadCached
<1>2. CASE Got(cached[Asked.kind].of, cached[Asked.kind].gran) /\ NextAsked
  <2>1. asking' \in AskRecord /\ (asking'.pc # "idle" => asking'.todo # <<>>) /\ RequestTrue'
    BY <1>1, <1>2, NextAskedHolds DEF CacheInv
  <2>2. CacheTypes'  BY <1>1, <2>1 DEF CacheInv, CacheTypes
  <2>3. /\ cached[Asked.kind].of \in asking.during \/ Asked.kind \in raced
        /\ Asked.kind = "coverage" => cached[Asked.kind].gran = gran
    BY <1>1 DEF CacheInv, RequestTrue
  <2>4. ServedCurrent'  BY <1>1, <1>2, <2>3, GotServes
  <2> QED  BY <1>1, <2>1, <2>2, <2>4, FilesStay DEF CacheInv
<1>3. CASE asking' = [asking EXCEPT !.pc = "analyse"] /\ UNCHANGED answered
  <2>1. /\ asking' \in AskRecord /\ asking'.pc = "analyse" /\ asking'.todo = asking.todo
        /\ asking'.during = asking.during /\ asking'.todo # <<>>
    BY <1>1, <1>3, MovesOn DEF CacheInv, Places
  <2>2. CacheTypes'  BY <1>1, <2>1 DEF CacheInv, CacheTypes
  <2>3. Mtime' = Mtime /\ Mtime \in asking.during
    BY <1>1 DEF Mtime, CacheInv, RequestTrue
  <2>4. RequestTrue'  BY <2>1, <2>3 DEF RequestTrue
  <2> QED  BY <1>1, <1>3, <2>2, <2>4, FilesStay, AnswerStays DEF CacheInv
<1> QED  BY <1>2, <1>3 DEF LoadCached

\* Without a report there is nothing to serve.
LEMMA AnalyseKeeps == CacheInv /\ (AnalyzeCoverage \/ ScanMoves \/ BuildProfile) => CacheInv'
<1> SUFFICES ASSUME CacheInv, AnalyzeCoverage \/ ScanMoves \/ BuildProfile PROVE CacheInv'
  OBVIOUS
<1>1. asking.pc = "analyse" /\ UNCHANGED <<barFile, cached, raced, gran>>
  BY DEF AnalyzeCoverage, ScanMoves, BuildProfile
<1>2. CASE asking' = [asking EXCEPT !.pc = "stamp", !.saw = Mtime] /\ UNCHANGED answered
  <2>1. asking \in AskRecord /\ asking.todo # <<>> /\ Mtime \in Nat
    BY <1>1, MtimeFacts DEF CacheInv, CacheTypes
  <2>2. /\ asking' \in AskRecord /\ asking'.pc = "stamp" /\ asking'.todo = asking.todo
        /\ asking'.saw = Mtime /\ asking'.during = asking.during
    BY <1>2, <2>1 DEF AskRecord, Places
  <2>3. CacheTypes'  BY <1>1, <2>1, <2>2 DEF CacheInv, CacheTypes
  <2>4. Mtime' = Mtime /\ Mtime \in asking.during
    BY <1>1 DEF Mtime, CacheInv, RequestTrue
  <2>5. RequestTrue'  BY <2>2, <2>4 DEF RequestTrue
  <2> QED  BY <1>1, <1>2, <2>3, <2>5, FilesStay, AnswerStays DEF CacheInv
<1>3. CASE NoReport
  <2>1. asking' \in AskRecord /\ (asking'.pc # "idle" => asking'.todo # <<>>) /\ RequestTrue'
    BY <1>1, <1>3, NextAskedHolds DEF CacheInv, NoReport
  <2>2. CacheTypes'  BY <1>1, <2>1 DEF CacheInv, CacheTypes
  <2>3. answered'.got = "failed"  BY <1>3 DEF NoReport
  <2>4. ServedCurrent'  BY <2>3 DEF ServedCurrent
  <2> QED  BY <1>1, <2>1, <2>2, <2>4, FilesStay DEF CacheInv
<1> QED  BY <1>2, <1>3 DEF AnalyzeCoverage, ScanMoves, LoadBars, BuildProfile

\* The stamp is what was analysed, or the kind is marked as overtaken.
LEMMA StampKeeps == CacheInv /\ StampAndOpen => CacheInv'
<1> SUFFICES ASSUME CacheInv, StampAndOpen PROVE CacheInv'  OBVIOUS
<1>1. /\ asking.pc = "stamp" /\ UNCHANGED <<barFile, answered, gran>>
      /\ asking' = [asking EXCEPT !.pc = "write", !.stamp = Mtime]
      /\ cached' = [cached EXCEPT ![Asked.kind].state = "torn"]
      /\ raced' = IF Mtime = asking.saw THEN raced ELSE raced \cup {Asked.kind}
  BY DEF StampAndOpen
<1>2. asking \in AskRecord /\ asking.todo # <<>> /\ Asked.kind \in Kinds
  BY <1>1, AskedFacts DEF CacheInv, CacheTypes
<1>3. /\ asking' \in AskRecord /\ asking'.pc = "write" /\ asking'.todo = asking.todo
      /\ asking'.saw = asking.saw /\ asking'.stamp = Mtime /\ asking'.during = asking.during
  BY <1>1, <1>2, MtimeFacts DEF AskRecord, Places, CacheInv
<1>4. raced \subseteq raced' /\ raced' \subseteq Kinds /\ (Mtime = asking.saw \/ Asked.kind \in raced')
  BY <1>1, <1>2 DEF CacheInv, CacheTypes
<1>5. cached \in [Kinds -> CacheFiles] /\ cached[Asked.kind] \in CacheFiles
  BY <1>2 DEF CacheInv, CacheTypes
<1>6. cached' = [cached EXCEPT ![Asked.kind] = [cached[Asked.kind] EXCEPT !.state = "torn"]]
  BY <1>1
<1>7. /\ [cached[Asked.kind] EXCEPT !.state = "torn"] \in CacheFiles
      /\ [cached[Asked.kind] EXCEPT !.state = "torn"].state = "torn"
      /\ [cached[Asked.kind] EXCEPT !.state = "torn"].mtime = cached[Asked.kind].mtime
  BY <1>5 DEF CacheFiles
<1>8. /\ cached' \in [Kinds -> CacheFiles]
      /\ \A k \in Kinds : cached'[k].mtime = cached[k].mtime
      /\ \A k \in Kinds : k # Asked.kind => cached'[k] = cached[k]
      /\ cached'[Asked.kind].state = "torn"
  BY <1>2, <1>5, <1>6, <1>7
<1>9. CacheTypes'  BY <1>1, <1>2, <1>3, <1>4, <1>8 DEF CacheInv, CacheTypes
<1>10. FilesTrue'
  <2>1. ASSUME NEW k \in Kinds
        PROVE  /\ cached'[k].mtime <= barFile'.version
               /\ cached'[k].state = "ok" => cached'[k].of = cached'[k].mtime \/ k \in raced'
    <3>1. CASE k = Asked.kind  BY <1>1, <1>8, <3>1 DEF CacheInv, FilesTrue
    <3>2. CASE k # Asked.kind  BY <1>1, <1>4, <1>8, <3>2 DEF CacheInv, FilesTrue
    <3> QED  BY <3>1, <3>2
  <2> QED  BY <2>1 DEF FilesTrue
<1>11. RequestTrue'
  <2>1. Mtime' = Mtime /\ Mtime \in asking.during /\ asking.saw \in asking.during
    BY <1>1 DEF Mtime, CacheInv, RequestTrue
  <2>2. Asked' = Asked  BY <1>3 DEF Asked
  <2>3. Mtime <= barFile.version  BY MtimeFacts DEF CacheInv
  <2> QED  BY <1>1, <1>3, <1>4, <2>1, <2>2, <2>3 DEF RequestTrue
<1> QED  BY <1>1, <1>4, <1>9, <1>10, <1>11, AnswerStays DEF CacheInv

\* What a save writes.
LEMMA CacheFileFacts ==
  ASSUME CacheTypes, NEW kind \in Kinds
  PROVE  /\ CacheFile(kind) \in CacheFiles /\ CacheFile(kind).of = asking.saw
         /\ CacheFile(kind).mtime = asking.stamp /\ (kind = "coverage" => CacheFile(kind).gran = gran)
<1>1. asking.saw \in Nat /\ asking.stamp \in Nat /\ gran \in Granularities
  BY DEF CacheTypes, AskRecord
<1>2. CASE kind = "coverage"
  <2>1. CacheFile(kind) = CoverageFile  BY <1>2 DEF CacheFile
  <2> QED  BY <1>1, <2>1 DEF CoverageFile, CacheFiles
<1>3. CASE kind = "moves"
  <2>1. CacheFile(kind) = MovesFile  BY <1>3 DEF CacheFile
  <2> QED  BY <1>1, <1>3, <2>1 DEF MovesFile, CacheFiles, Granularities
<1>4. CASE kind = "profile"
  <2>1. CacheFile(kind) = ProfileFile  BY <1>4 DEF CacheFile
  <2> QED  BY <1>1, <1>4, <2>1 DEF ProfileFile, CacheFiles, Granularities
<1> QED  BY <1>2, <1>3, <1>4 DEF Kinds

\* A report is written with the stamp taken before, or the write fails.
LEMMA SaveKeeps == CacheInv /\ (Written \/ SaveFails) => CacheInv'
<1> SUFFICES ASSUME CacheInv, Written \/ SaveFails PROVE CacheInv'  OBVIOUS
<1>1. /\ asking.pc = "write" /\ UNCHANGED <<barFile, raced, gran>>
      /\ Got(asking.saw, CacheFile(Asked.kind).gran) /\ NextAsked
      /\ \/ cached' = [cached EXCEPT ![Asked.kind] = CacheFile(Asked.kind)]
         \/ cached' = cached
  BY DEF Written, SaveFails
<1>2. Asked.kind \in Kinds  BY <1>1, AskedFacts DEF CacheInv
<1>3. /\ CacheFile(Asked.kind) \in CacheFiles /\ CacheFile(Asked.kind).of = asking.saw
      /\ CacheFile(Asked.kind).mtime = asking.stamp
      /\ (Asked.kind = "coverage" => CacheFile(Asked.kind).gran = gran)
  BY <1>2, CacheFileFacts DEF CacheInv
<1>4. asking' \in AskRecord /\ (asking'.pc # "idle" => asking'.todo # <<>>) /\ RequestTrue'
  BY <1>1, NextAskedHolds DEF CacheInv
<1>5. /\ asking.saw \in asking.during /\ asking.stamp <= barFile.version
      /\ asking.saw = asking.stamp \/ Asked.kind \in raced
  BY <1>1 DEF CacheInv, RequestTrue
<1>6. ServedCurrent'  BY <1>1, <1>3, <1>5, GotServes
<1>7. cached' \in [Kinds -> CacheFiles]
  BY <1>1, <1>2, <1>3 DEF CacheInv, CacheTypes
<1>8. CacheTypes'  BY <1>1, <1>4, <1>7 DEF CacheInv, CacheTypes
<1>9. FilesTrue'
  <2>1. CASE cached' = cached
    BY <1>1, <2>1, FilesStay DEF CacheInv
  <2>2. CASE cached' = [cached EXCEPT ![Asked.kind] = CacheFile(Asked.kind)]
    <3>1. /\ cached'[Asked.kind] = CacheFile(Asked.kind)
          /\ \A k \in Kinds : k # Asked.kind => cached'[k] = cached[k]
      BY <1>2, <2>2 DEF CacheInv, CacheTypes
    <3>2. ASSUME NEW k \in Kinds
          PROVE  /\ cached'[k].mtime <= barFile'.version
                 /\ cached'[k].state = "ok" => cached'[k].of = cached'[k].mtime \/ k \in raced'
      <4>1. CASE k = Asked.kind  BY <1>1, <1>3, <1>5, <3>1, <4>1
      <4>2. CASE k # Asked.kind  BY <1>1, <3>1, <4>2 DEF CacheInv, FilesTrue
      <4> QED  BY <4>1, <4>2
    <3> QED  BY <3>2 DEF FilesTrue
  <2> QED  BY <1>1, <2>1, <2>2
<1> QED  BY <1>4, <1>6, <1>8, <1>9 DEF CacheInv

-----------------------------------------------------------------------------
(* The theorem *)

\* No cache and no request at the start.
LEMMA InitHolds == CacheInit => CacheInv
<1> SUFFICES ASSUME CacheInit PROVE CacheInv  OBVIOUS
<1>1. {Discoveries[i] : i \in DOMAIN Discoveries} = Kinds
  BY DiscoveriesAre
<1>2. cached = [k \in Kinds |-> NoFile]  BY <1>1 DEF CacheInit
<1>3. NoFile \in CacheFiles /\ NoFile.mtime = 0 /\ NoFile.state = "none"
  BY DEF NoFile, CacheFiles, Granularities
<1>4. NoRequest \in AskRecord /\ NoRequest.pc = "idle"
  <2>1. <<>> \in Seq(Jobs)  OBVIOUS
  <2> QED  BY <2>1 DEF NoRequest, AskRecord, Places
<1>5. CacheTypes  BY <1>2, <1>3, <1>4 DEF CacheInit, CacheTypes, Granularities
<1>6. FilesTrue  BY <1>2, <1>3 DEF CacheInit, FilesTrue
<1>7. RequestTrue  BY <1>4 DEF CacheInit, RequestTrue
<1>8. ServedCurrent  BY DEF CacheInit, NoAnswer, ServedCurrent
<1> QED  BY <1>5, <1>6, <1>7, <1>8 DEF CacheInv

\* No step of the caches disturbs the invariant.
LEMMA StepKeeps == CacheInv /\ [CacheNext]_cacheVars => CacheInv'
<1> SUFFICES ASSUME CacheInv, [CacheNext]_cacheVars PROVE CacheInv'  OBVIOUS
<1>1. CASE UNCHANGED cacheVars
  BY <1>1 DEF cacheVars, CacheInv, CacheTypes, FilesTrue, RequestTrue, ServedCurrent, Mtime, Asked
<1>2. DOMAIN cached = Kinds  BY DEF CacheInv, CacheTypes
<1>3. CASE CacheNext
  BY <1>2, <1>3, BarsKeep, AskKeeps, RebuildKeeps, OutsideKeeps, CheckKeeps, LoadKeeps,
     AnalyseKeeps, StampKeeps, SaveKeeps DEF CacheNext
<1> QED  BY <1>1, <1>3

\* discovery_cache.py, data_coverage_report_cache.py, volatility_profile_analyzer_cache.py: a
\* report that is handed over is about bars that were current while it was
\* asked for, and a coverage report has the configured granularity, unless
\* the bars were rendered between some report's analysis and its save.
THEOREM CachesServeCurrent == CacheSpec => []ServedCurrent
<1>1. CacheInit => CacheInv  BY InitHolds
<1>2. CacheInv /\ [CacheNext]_cacheVars => CacheInv'  BY StepKeeps
<1>3. CacheInv => ServedCurrent  BY DEF CacheInv
<1> QED  BY <1>1, <1>2, <1>3, PTL DEF CacheSpec

-----------------------------------------------------------------------------
(* The results of a batch                                                  *)

\* The record of the orchestrator.
JobShaped(j) == j = [pc |-> j.pc, kind |-> j.kind, next |-> j.next, parallel |-> j.parallel]

\* What an assignment to the fields of the orchestrator's record leaves.
LEMMA JobEdits ==
  ASSUME NEW j, JobShaped(j), NEW x, NEW k, NEW n
  PROVE  /\ [j EXCEPT !.pc = x] = [pc |-> x, kind |-> j.kind, next |-> j.next, parallel |-> j.parallel]
         /\ [j EXCEPT !.next = n] = [pc |-> j.pc, kind |-> j.kind, next |-> n, parallel |-> j.parallel]
         /\ [j EXCEPT !.pc = x, !.kind = k] = [pc |-> x, kind |-> k, next |-> j.next, parallel |-> j.parallel]
         /\ [j EXCEPT !.pc = x, !.kind = k, !.next = n] = [pc |-> x, kind |-> k, next |-> n, parallel |-> j.parallel]
<1>0. PICK a, b, c, d : j = [pc |-> a, kind |-> b, next |-> c, parallel |-> d]
  BY DEF JobShaped
<1>1. [j EXCEPT !.pc = x] = [pc |-> x, kind |-> j.kind, next |-> j.next, parallel |-> j.parallel]
  BY <1>0
<1>2. [j EXCEPT !.next = n] = [pc |-> j.pc, kind |-> j.kind, next |-> n, parallel |-> j.parallel]
  BY <1>0
<1>3. [j EXCEPT !.pc = x, !.kind = k] = [pc |-> x, kind |-> k, next |-> j.next, parallel |-> j.parallel]
  <2>1. PICK f : f = [j EXCEPT !.pc = x, !.kind = k]
    OBVIOUS
  <2>2. f = [pc |-> x, kind |-> k, next |-> j.next, parallel |-> j.parallel]
    BY <1>0, <2>1
  <2> QED BY <2>1, <2>2
<1>4. [j EXCEPT !.pc = x, !.kind = k, !.next = n] = [pc |-> x, kind |-> k, next |-> n, parallel |-> j.parallel]
  <2>1. PICK f : f = [j EXCEPT !.pc = x, !.kind = k, !.next = n]
    OBVIOUS
  <2>2. f = [pc |-> x, kind |-> k, next |-> n, parallel |-> j.parallel]
    BY <1>0, <2>1
  <2> QED BY <2>1, <2>2
<1> QED BY <1>1, <1>2, <1>3, <1>4


\* The scenarios of a batch are numbered from 1.
IsList(S) == \E n \in Nat : DOMAIN S = 1 .. n

\* A scenario that the loop has passed: its result says that it could not
\* run, or its process has not been collected, or its result is its own.
Settled(i, runs, p, r) ==
  \/ ~runs /\ p = "none" /\ r.of = i /\ r.status \in {"no_data", "invalid"}
  \/ runs /\ p \in {"queued", "running", "ok", "error", "lost"}
  \/ runs /\ p \in {"none", "collected"} /\ r.of = i /\ r.status \in {"ok", "error", "lost"}

\* The phases before the first scenario is handed out.
Preparing == {"config", "match", "coverage", "requirements", "load", "quality", "mount", "built", "guard"}

\* While it prepares, nothing is handed out; while it hands out, the scenarios
\* it has passed are settled; after that all are, and at the end no process is
\* left.
SlotsInv ==
  /\ IsList(scens) /\ JobShaped(job)
  /\ DOMAIN procs = DOMAIN scens /\ DOMAIN results = DOMAIN scens
  /\ job.pc \in Preparing => job.next = 1 /\ \A i \in DOMAIN scens : procs[i] = "none"
  /\ job.pc = "submit" =>
       /\ job.next \in Nat \ {0}
       /\ \A i \in DOMAIN scens : IF i < job.next THEN Settled(i, Runnable(i), procs[i], results[i]) ELSE procs[i] = "none"
  /\ job.pc \in {"collect", "done"} => \A i \in DOMAIN scens : Settled(i, Runnable(i), procs[i], results[i])
  /\ job.pc = "done" => \A i \in DOMAIN scens : procs[i] \in {"none", "collected"}

\* The preparation of a batch hands nothing out.
LEMMA PreparationKeeps ==
  ASSUME SlotsInv,
         \/ ConfigPhase \/ AvailabilityPhase \/ RequirementsPhase \/ LoadPhase \/ QualityPhase \/ MountPhase \/ MatchPhase
  PROVE  SlotsInv'
<1>0. /\ IsList(scens) /\ JobShaped(job)
      /\ DOMAIN procs = DOMAIN scens /\ DOMAIN results = DOMAIN scens
      /\ job.pc \in Preparing => job.next = 1 /\ \A i \in DOMAIN scens : procs[i] = "none"
  BY DEF SlotsInv
<1>1. job.pc \in Preparing /\ procs' = procs /\ results' = results
  BY DEF ConfigPhase, AvailabilityPhase, RequirementsPhase, LoadPhase, QualityPhase, MountPhase, MatchPhase, execVars, Preparing
<1>2. DOMAIN scens' = DOMAIN scens
  BY DEF ConfigPhase, AvailabilityPhase, RequirementsPhase, LoadPhase, QualityPhase, MountPhase, MatchPhase
<1>3. \/ \E x \in Preparing : job' = [job EXCEPT !.pc = x]
      \/ job' = [job EXCEPT !.pc = "config", !.kind = "remount"]
  <2> DEFINE Moves == \E x \in Preparing : job' = [job EXCEPT !.pc = x]
  <2>1. ConfigPhase => Moves
    BY Zenon DEF ConfigPhase, Preparing
  <2>2. AvailabilityPhase => Moves
    BY Zenon DEF AvailabilityPhase, Preparing
  <2>3. RequirementsPhase => Moves
    BY Zenon DEF RequirementsPhase, Preparing
  <2>4. LoadPhase => Moves
    BY Zenon DEF LoadPhase, Preparing
  <2>5. QualityPhase => Moves
    BY Zenon DEF QualityPhase, Preparing
  <2>6. MountPhase => Moves
    BY Zenon DEF MountPhase, Preparing
  <2>7. MatchPhase => Moves \/ job' = [job EXCEPT !.pc = "config", !.kind = "remount"]
    BY Zenon DEF MatchPhase, Preparing
  <2> QED BY <2>1, <2>2, <2>3, <2>4, <2>5, <2>6, <2>7
<1>4. PICK x \in Preparing, k \in {job.kind, "remount"} :
        job' = [pc |-> x, kind |-> k, next |-> job.next, parallel |-> job.parallel]
  <2>1. CASE \E x \in Preparing : job' = [job EXCEPT !.pc = x]
    BY <1>0, <2>1, JobEdits, Zenon
  <2>2. CASE job' = [job EXCEPT !.pc = "config", !.kind = "remount"]
    <3>1. job' = [pc |-> "config", kind |-> "remount", next |-> job.next, parallel |-> job.parallel]
      BY <1>0, <2>2, JobEdits, Zenon
    <3> QED BY <3>1, Zenon DEF Preparing
  <2> QED BY <1>3, <2>1, <2>2
<1>5. job'.pc = x /\ job'.next = 1 /\ JobShaped(job')
  BY <1>0, <1>1, <1>4 DEF JobShaped
<1>6. IsList(scens')
  BY <1>0, <1>2 DEF IsList
<1>7. x \notin {"submit", "collect", "done"}
  BY <1>4 DEF Preparing
<1> QED BY <1>0, <1>1, <1>2, <1>5, <1>6, <1>7 DEF SlotsInv

\* The loop passes a scenario: it is settled, and no other is touched.
LEMMA SubmitKeeps ==
  ASSUME SlotsInv, Submit
  PROVE  SlotsInv'
<1>0. /\ IsList(scens) /\ JobShaped(job)
      /\ DOMAIN procs = DOMAIN scens /\ DOMAIN results = DOMAIN scens
      /\ job.next \in Nat \ {0}
      /\ \A i \in DOMAIN scens : IF i < job.next THEN Settled(i, Runnable(i), procs[i], results[i]) ELSE procs[i] = "none"
  BY DEF SlotsInv, Submit
<1>1. /\ job.pc = "submit" /\ job.next \in DOMAIN scens
      /\ scens' = scens /\ valid' = valid /\ mount' = mount
  BY DEF Submit
<1>2. \A i : Runnable(i)' <=> Runnable(i)
  BY <1>1, Zenon DEF Runnable
<1>3. PICK n : n = job.next
  OBVIOUS
<1>4. n \in Nat \ {0} /\ DOMAIN scens \subseteq Nat /\ n \in DOMAIN scens
  BY <1>0, <1>1, <1>3 DEF IsList
<1>5. CASE job' = [job EXCEPT !.pc = "aborted"] /\ procs' = procs /\ results' = results
  <2>1. job' = [pc |-> "aborted", kind |-> job.kind, next |-> job.next, parallel |-> job.parallel]
    BY <1>0, <1>5, JobEdits, Zenon
  <2>2. JobShaped(job') /\ job'.pc = "aborted"
    BY <2>1 DEF JobShaped
  <2>3. job'.pc \notin Preparing \cup {"submit", "collect", "done"}
    BY <2>2 DEF Preparing
  <2> QED BY <1>0, <1>1, <1>5, <2>2, <2>3 DEF SlotsInv
<1>6. ASSUME NEW p, NEW r,
             job' = [job EXCEPT !.next = n + 1],
             DOMAIN procs' = DOMAIN procs, DOMAIN results' = DOMAIN results, procs'[n] = p, results'[n] = r,
             \A i \in DOMAIN scens \ {n} : procs'[i] = procs[i] /\ results'[i] = results[i],
             Settled(n, Runnable(n), p, r)
      PROVE  SlotsInv'
  <2>1. job' = [pc |-> job.pc, kind |-> job.kind, next |-> n + 1, parallel |-> job.parallel]
    BY <1>0, <1>6, JobEdits, Zenon
  <2>2. JobShaped(job') /\ job'.pc = "submit" /\ job'.next = n + 1
    BY <1>1, <2>1 DEF JobShaped
  <2>3. job'.pc \notin Preparing \cup {"collect", "done"}
    BY <2>2 DEF Preparing
  <2>4. DOMAIN procs' = DOMAIN scens' /\ DOMAIN results' = DOMAIN scens'
    BY <1>0, <1>1, <1>6
  <2>5. ASSUME NEW i \in DOMAIN scens
        PROVE  IF i < n + 1 THEN Settled(i, Runnable(i)', procs'[i], results'[i]) ELSE procs'[i] = "none"
    <3>1. CASE i = n
      <4>1. procs'[i] = p /\ results'[i] = r /\ i < n + 1
        BY <1>0, <1>4, <1>6, <3>1
      <4> QED BY <1>2, <1>6, <3>1, <4>1
    <3>2. CASE i # n
      <4>1. procs'[i] = procs[i] /\ results'[i] = results[i] /\ (i < n + 1 <=> i < n)
        BY <1>0, <1>4, <1>6, <2>5, <3>2
      <4>2. IF i < n THEN Settled(i, Runnable(i), procs[i], results[i]) ELSE procs[i] = "none"
        BY <1>0, <1>3, <2>5
      <4>3. Runnable(i)' <=> Runnable(i)
        BY <1>2
      <4> QED BY <4>1, <4>2, <4>3 DEF Settled
    <3> QED BY <3>1, <3>2
  <2>6. n + 1 \in Nat \ {0}
    BY <1>4
  <2>7. \A i \in DOMAIN scens' : IF i < job'.next THEN Settled(i, Runnable(i)', procs'[i], results'[i]) ELSE procs'[i] = "none"
    BY <1>1, <2>2, <2>5
  <2>8. IsList(scens')
    BY <1>0, <1>1
  <2> QED BY <2>2, <2>3, <2>4, <2>6, <2>7, <2>8 DEF SlotsInv
<1>7. procs[n] = "none"
  BY <1>0, <1>3, <1>4
<1>9. CASE ~Runnable(n) /\ results' = [results EXCEPT ![n] = FailedResult(n)]
           /\ job' = [job EXCEPT !.next = n + 1] /\ procs' = procs
  <2>1. Settled(n, Runnable(n), procs[n], FailedResult(n))
    BY <1>7, <1>9 DEF Settled, FailedResult
  <2>2. procs'[n] = procs[n] /\ results'[n] = FailedResult(n)
    BY <1>0, <1>4, <1>9
  <2>3. DOMAIN procs' = DOMAIN procs /\ DOMAIN results' = DOMAIN results
        /\ \A i \in DOMAIN scens \ {n} : procs'[i] = procs[i] /\ results'[i] = results[i]
    BY <1>0, <1>9
  <2> QED BY <1>6, <1>9, <2>1, <2>2, <2>3
<1>10. CASE Runnable(n) /\ procs' = [procs EXCEPT ![n] = "queued"]
           /\ job' = [job EXCEPT !.next = n + 1] /\ results' = results
  <2>1. Settled(n, Runnable(n), "queued", results[n])
    BY <1>10 DEF Settled
  <2>2. procs'[n] = "queued" /\ results'[n] = results[n]
    BY <1>0, <1>4, <1>10
  <2>3. DOMAIN procs' = DOMAIN procs /\ DOMAIN results' = DOMAIN results
        /\ \A i \in DOMAIN scens \ {n} : procs'[i] = procs[i] /\ results'[i] = results[i]
    BY <1>0, <1>10
  <2> QED BY <1>6, <1>10, <2>1, <2>2, <2>3
<1>11. CASE Runnable(n) /\ (\E outcome \in Outcomes(scens[n]) : results' = [results EXCEPT ![n] = [of |-> n, status |-> outcome]])
           /\ job' = [job EXCEPT !.next = n + 1] /\ procs' = procs
  <2>1. PICK outcome \in Outcomes(scens[n]) : results' = [results EXCEPT ![n] = [of |-> n, status |-> outcome]]
    BY <1>11
  <2>2. Settled(n, Runnable(n), procs[n], [of |-> n, status |-> outcome])
    BY <1>7, <1>11 DEF Settled, Outcomes
  <2>3. procs'[n] = procs[n] /\ results'[n] = [of |-> n, status |-> outcome]
    BY <1>0, <1>4, <1>11, <2>1
  <2>4. DOMAIN procs' = DOMAIN procs /\ DOMAIN results' = DOMAIN results
        /\ \A i \in DOMAIN scens \ {n} : procs'[i] = procs[i] /\ results'[i] = results[i]
    BY <1>0, <1>11, <2>1
  <2> QED BY <1>6, <1>11, <2>2, <2>3, <2>4
<1> QED BY <1>3, <1>5, <1>9, <1>10, <1>11, Zenon DEF Submit

\* The step from the loop to the collection, and to the end.
LEMMA PhasesKeep ==
  ASSUME SlotsInv, Guard \/ AllSubmitted \/ Summarize
  PROVE  SlotsInv'
<1>0. IsList(scens) /\ JobShaped(job) /\ DOMAIN procs = DOMAIN scens /\ DOMAIN results = DOMAIN scens
  BY DEF SlotsInv
<1>1. /\ scens' = scens /\ valid' = valid /\ mount' = mount /\ procs' = procs /\ results' = results
  BY DEF Guard, AllSubmitted, Summarize
<1>2. \A i : Runnable(i)' <=> Runnable(i)
  BY <1>1, Zenon DEF Runnable
<1>3. PICK x : job' = [job EXCEPT !.pc = x] /\
         \/ job.pc = "guard" /\ x \in {"submit", "aborted"}
         \/ job.pc = "submit" /\ job.next \notin DOMAIN scens /\ x = "collect"
         \/ job.pc = "collect" /\ (\A i \in DOMAIN procs : procs[i] \in {"none", "collected"}) /\ x = "done"
  BY Zenon DEF Guard, AllSubmitted, Summarize
<1>4. job' = [pc |-> x, kind |-> job.kind, next |-> job.next, parallel |-> job.parallel]
  BY <1>0, <1>3, JobEdits, Zenon
<1>5. JobShaped(job') /\ job'.pc = x /\ job'.next = job.next
  BY <1>4 DEF JobShaped
<1>6. CASE job.pc = "guard" /\ x \in {"submit", "aborted"}
  <2>1. job.next = 1 /\ \A i \in DOMAIN scens : procs[i] = "none"
    BY <1>6 DEF SlotsInv, Preparing
  <2>2. \A i \in DOMAIN scens : ~(i < 1)
    BY <1>0 DEF IsList
  <2>3. x \notin Preparing \cup {"collect", "done"}
    BY <1>6 DEF Preparing
  <2> QED BY <1>0, <1>1, <1>5, <2>1, <2>2, <2>3 DEF SlotsInv
<1>7. CASE job.pc = "submit" /\ job.next \notin DOMAIN scens /\ x = "collect"
  <2>1. /\ job.next \in Nat \ {0}
        /\ \A i \in DOMAIN scens : IF i < job.next THEN Settled(i, Runnable(i), procs[i], results[i]) ELSE procs[i] = "none"
    BY <1>7 DEF SlotsInv
  <2>2. PICK n \in Nat : DOMAIN scens = 1 .. n
    BY <1>0 DEF IsList
  <2>3. \A i \in DOMAIN scens : i < job.next
    BY <1>7, <2>1, <2>2
  <2>4. \A i \in DOMAIN scens : Settled(i, Runnable(i), procs[i], results[i])
    BY <2>1, <2>3
  <2>5. \A i \in DOMAIN scens' : Settled(i, Runnable(i)', procs'[i], results'[i])
    BY <1>1, <1>2, <2>4
  <2>6. x \notin Preparing \cup {"submit", "done"}
    BY <1>7 DEF Preparing
  <2> QED BY <1>0, <1>1, <1>5, <2>5, <2>6 DEF SlotsInv
<1>8. CASE job.pc = "collect" /\ (\A i \in DOMAIN procs : procs[i] \in {"none", "collected"}) /\ x = "done"
  <2>1. \A i \in DOMAIN scens : Settled(i, Runnable(i), procs[i], results[i])
    BY <1>8 DEF SlotsInv
  <2>2. \A i \in DOMAIN scens' : Settled(i, Runnable(i)', procs'[i], results'[i])
    BY <1>1, <1>2, <2>1
  <2>3. x \notin Preparing \cup {"submit"}
    BY <1>8 DEF Preparing
  <2> QED BY <1>0, <1>1, <1>5, <1>8, <2>2, <2>3 DEF SlotsInv
<1> QED BY <1>3, <1>6, <1>7, <1>8

\* A process of the pool moves, or its result is collected: a settled scenario
\* stays settled, and one that was not handed out has no process.
LEMMA PoolKeeps ==
  ASSUME SlotsInv, NEW i \in DOMAIN scens,
         \/ BeginProcess(i) \/ ProcessDies(i) \/ CollectResult(i)
         \/ \E outcome \in {"ok", "error"} : EndProcess(i, outcome)
  PROVE  SlotsInv'
<1>0. IsList(scens) /\ JobShaped(job) /\ DOMAIN procs = DOMAIN scens /\ DOMAIN results = DOMAIN scens
  BY DEF SlotsInv
<1>1. /\ scens' = scens /\ valid' = valid /\ mount' = mount /\ job' = job
      /\ procs[i] \in {"queued", "running", "ok", "error", "lost"}
  BY DEF BeginProcess, ProcessDies, CollectResult, EndProcess
<1>2. \A j : Runnable(j)' <=> Runnable(j)
  BY <1>1, Zenon DEF Runnable
<1>3. DOMAIN procs' = DOMAIN procs /\ DOMAIN results' = DOMAIN results
  BY DEF BeginProcess, ProcessDies, CollectResult, EndProcess
<1>4. \A j \in DOMAIN scens : procs[j] = "none" => procs'[j] = "none"
  BY <1>0, <1>1 DEF BeginProcess, ProcessDies, CollectResult, EndProcess
<1>5. ASSUME NEW j \in DOMAIN scens, Settled(j, Runnable(j), procs[j], results[j])
      PROVE  Settled(j, Runnable(j)', procs'[j], results'[j])
  <2>0. Settled(j, Runnable(j), procs'[j], results'[j])
    <3>1. CASE BeginProcess(i)
      BY <1>0, <1>5, <3>1 DEF BeginProcess, Settled
    <3>2. CASE ProcessDies(i)
      BY <1>0, <1>5, <3>2 DEF ProcessDies, Settled
    <3>3. CASE CollectResult(i)
      BY <1>0, <1>5, <3>3 DEF CollectResult, Settled, Slot
    <3>4. CASE \E outcome \in {"ok", "error"} : EndProcess(i, outcome)
      BY <1>0, <1>5, <3>4 DEF EndProcess, Settled
    <3> QED BY <3>1, <3>2, <3>3, <3>4
  <2> QED BY <1>2, <2>0
<1>6. job.pc \in Preparing => FALSE
  BY <1>1 DEF SlotsInv
<1>7. job.pc # "done"
  BY <1>1 DEF SlotsInv
<1>8. job.pc = "collect" => \A j \in DOMAIN scens' : Settled(j, Runnable(j)', procs'[j], results'[j])
  BY <1>1, <1>5 DEF SlotsInv
<1>9. job.pc = "submit" =>
       /\ job.next \in Nat \ {0}
       /\ \A j \in DOMAIN scens : IF j < job.next THEN Settled(j, Runnable(j)', procs'[j], results'[j]) ELSE procs'[j] = "none"
  BY <1>1, <1>4, <1>5 DEF SlotsInv
<1> QED BY <1>0, <1>1, <1>3, <1>6, <1>7, <1>8, <1>9 DEF SlotsInv

\* The next run of a sweep starts with nothing handed out.
LEMMA NextRunKeeps ==
  ASSUME SlotsInv, NEW S, IsList(S), NextRun(S)
  PROVE  SlotsInv'
<1>0. JobShaped(job)
  BY DEF SlotsInv
<1>1. /\ scens' = S /\ procs' = [i \in DOMAIN S |-> "none"] /\ results' = [i \in DOMAIN S |-> NoResult]
      /\ job' = [job EXCEPT !.pc = "config", !.kind = "sweep", !.next = 1]
  BY Zenon DEF NextRun, NewOrchestrator
<1>2. job' = [pc |-> "config", kind |-> "sweep", next |-> 1, parallel |-> job.parallel]
  BY <1>0, <1>1, JobEdits, Zenon
<1>3. JobShaped(job') /\ job'.pc = "config" /\ job'.next = 1
  BY <1>2 DEF JobShaped
<1>4. "config" \notin {"submit", "collect", "done"}
  OBVIOUS
<1> QED BY <1>1, <1>3, <1>4 DEF SlotsInv

\* BatchOrchestrator.run, the pool and as_completed: when a batch ends every
\* scenario has exactly one result, in its own slot, and the result says
\* whether the scenario ran - for every set, pool size and order in which the
\* processes end, fail or die, if a sweep's variants are lists as its base is.
THEOREM EveryScenarioOneResult ==
  ASSUME \A S : IsList(S) => \A V \in Variants(S) : IsList(V)
  PROVE  BatchSpec => []ResultsComplete
<1>1. BatchInit => SlotsInv
  <2> SUFFICES ASSUME BatchInit PROVE SlotsInv
    OBVIOUS
  <2>1. PICK S \in ScenarioSets, kind \in {"plain", "build"}, parallel \in BOOLEAN :
          /\ scens = S
          /\ job = [pc |-> "config", kind |-> kind, next |-> 1, parallel |-> parallel /\ Len(S) > 1]
          /\ procs = [i \in DOMAIN S |-> "none"]
          /\ results = [i \in DOMAIN S |-> NoResult]
    BY Zenon DEF BatchInit
  <2>2. IsList(S)
    BY BatchAssumption DEF IsList
  <2>3. PICK p : p = (parallel /\ Len(S) > 1)
    OBVIOUS
  <2>4. JobShaped(job) /\ job.pc = "config" /\ job.next = 1
    BY <2>1, <2>3 DEF JobShaped
  <2> QED BY <2>1, <2>2, <2>4 DEF SlotsInv
<1>2. SlotsInv /\ [BatchNext]_batchVars => SlotsInv'
  <2> SUFFICES ASSUME SlotsInv, [BatchNext]_batchVars PROVE SlotsInv'
    OBVIOUS
  <2>1. CASE UNCHANGED batchVars
    BY <2>1, Zenon DEF batchVars, SlotsInv, Runnable
  <2>2. CASE \E S \in Variants(scens) : NextRun(S)
    BY <2>2, NextRunKeeps DEF SlotsInv
  <2>3. CASE ~(UNCHANGED batchVars) /\ ~(\E S \in Variants(scens) : NextRun(S))
    BY <2>3, PreparationKeeps, SubmitKeeps, PhasesKeep, PoolKeeps, Zenon DEF BatchNext
  <2> QED BY <2>1, <2>2, <2>3
<1>3. SlotsInv => ResultsComplete
  BY DEF SlotsInv, ResultsComplete, Settled
<1> QED BY <1>1, <1>2, <1>3, PTL DEF BatchSpec

-----------------------------------------------------------------------------
(* The archive of ticks, what its index lists and the bars rendered of it  *)

\* The record of the importer.
Rec(pc, todo, file, override, processed, brokers, errors, ordered, done, runs) ==
  [pc |-> pc, todo |-> todo, file |-> file, override |-> override, processed |-> processed,
   brokers |-> brokers, errors |-> errors, ordered |-> ordered, done |-> done, runs |-> runs]

Shaped(i) ==
  i = Rec(i.pc, i.todo, i.file, i.override, i.processed, i.brokers, i.errors, i.ordered, i.done, i.runs)


\* The importer between two runs.
LEMMA IdleFields ==
  ASSUME NEW d, NEW r
  PROVE  Idle(d, r) = Rec("idle", {}, "none", FALSE, 0, {}, FALSE, FALSE, d, r) /\ Shaped(Idle(d, r))
BY DEF Rec, Shaped, Idle

-----------------------------------------------------------------------------
(* The inductive invariant *)

\* The exports whose ticks the archive has or can have again.
Mentioned(G, inb, tk) == {e \in Exports : tk[e] = "ok" \/ e \in inb \cap G}

\* Whatever is on the disk is of good exports (G), and what is torn or was
\* deleted waits in the inbox; the indexes and the bars name nothing else.
KeptAt(G, Y, inb, fin, tk, ix, bs, bi) ==
  /\ \A e \in fin \ inb : tk[e] = "ok"
  /\ \A e \in Exports : (tk[e] # "none" => e \in G) /\ (tk[e] = "torn" => e \in inb)
  /\ ix.files \subseteq Mentioned(G, inb, tk)
  /\ \A s \in bi : \E e \in Mentioned(G, inb, tk) : Y[e] = s
  /\ \A s \in Instruments : bs[s].st = "ok" => \E e \in Mentioned(G, inb, tk) : Y[e] = s

Ok(tk) == {e \in Exports : tk[e] = "ok"}
Of(Y, tk, s) == {e \in Ok(tk) : Y[e] = s}

\* While the files are converted, what the run has passed without an error is
\* in the archive.
FilesAt(G, inb, tk, pc, todo, file, errors) ==
  /\ pc \in {"files", "write", "written", "move"} =>
       todo \subseteq inb /\ (errors = FALSE => \A e \in (inb \cap G) \ todo : tk[e] = "ok")
  /\ pc \in {"write", "written", "move"} => file \in todo \cap G
  /\ pc = "move" => tk[file] = "ok"
  /\ pc \in {"index", "clean", "render"} => (errors = FALSE => \A e \in inb \cap G : tk[e] = "ok")

\* From the rebuild on the index is true of the archive, and silence about the
\* order of the files means that nothing was found.
IndexAt(tk, ix, nothing, pc, ordered, done) ==
  pc \in {"clean", "render"} \/ done = TRUE =>
    /\ (\A e \in Exports : tk[e] = "none") \/ (ix.exists /\ ix.files = Ok(tk))
    /\ ordered = TRUE => nothing

\* The bars of the symbols that are rendered are those of the ticks, for the
\* brokers that the run has seen.
BarsAt(Y, tk, ix, bs, bi, pc, todo, processed, brokers, errors, done) ==
  /\ pc = "render" => \A s \in todo : \E e \in ix.files : Y[e] = s
  /\ pc = "render" /\ errors = FALSE =>
       \A s \in Instruments \ todo : s[1] \in brokers =>
          /\ bs[s].from = Of(Y, tk, s)
          /\ IF Of(Y, tk, s) = {} THEN bs[s].st = "none" ELSE bs[s].st = "ok"
  /\ done = TRUE /\ processed > 0 /\ errors = FALSE =>
       \A s \in Instruments : s[1] \in brokers =>
          /\ bs[s].from = Of(Y, tk, s)
          /\ s \in bi <=> \E e \in Ok(tk) : Y[e] = s

GoodExports == {e \in Collectable : VerdictOf(e) = "good"}

ArchiveTypes ==
  /\ content \in Contents /\ inbox \subseteq Collectable
  /\ ticks \in [Exports -> {"none", "torn", "ok"}]
  /\ DOMAIN bars = Instruments
  /\ Shaped(imp) /\ {imp.errors, imp.ordered, imp.done} \subseteq BOOLEAN
  /\ imp.done = TRUE => imp.pc = "idle"

ArchiveInv ==
  /\ ArchiveTypes
  /\ KeptAt(GoodExports, InstrumentOf, inbox, finished, ticks, index, bars, barIndex)
  /\ FilesAt(GoodExports, inbox, ticks, imp.pc, imp.todo, imp.file, imp.errors)
  /\ IndexAt(ticks, index, MayFindNothing, imp.pc, imp.ordered, imp.done)
  /\ BarsAt(InstrumentOf, ticks, index, bars, barIndex, imp.pc, imp.todo, imp.processed, imp.brokers, imp.errors, imp.done)

\* What an export holds does not change.
LEMMA ContentStays ==
  ASSUME content' = content
  PROVE  GoodExports' = GoodExports /\ InstrumentOf' = InstrumentOf /\ Collectable' = Collectable
<1>1. Collectable' = Collectable
  BY DEF Collectable
<1>2. InstrumentOf' = InstrumentOf
  BY DEF InstrumentOf
<1>3. \A e : VerdictOf(e)' = VerdictOf(e)
  BY DEF VerdictOf
<1> QED BY <1>1, <1>2, <1>3, Zenon DEF GoodExports

\* What is found depends on the files only.
LEMMA FindingsStay ==
  ASSUME content' = content, ticks' = ticks
  PROVE  MayFindNothing' <=> MayFindNothing
<1>1. InstrumentOf' = InstrumentOf /\ Readable' = Readable
  BY DEF InstrumentOf, Readable
<1>2. \A s : FilesOf(s)' = FilesOf(s)
  BY <1>1, Zenon DEF FilesOf
<1> QED BY <1>2, Zenon DEF MayFindNothing

\* Mentioned exports stay mentioned.
LEMMA MentionedGrows ==
  ASSUME NEW G, NEW inb, NEW tk, NEW inb2, NEW tk2,
         \A e \in Exports : tk[e] = "ok" => tk2[e] = "ok" \/ e \in inb2 \cap G,
         \A e \in inb \cap G : e \in Exports => tk2[e] = "ok" \/ e \in inb2
  PROVE  Mentioned(G, inb, tk) \subseteq Mentioned(G, inb2, tk2)
BY DEF Mentioned

\* The parts of the invariant, for a step that leaves the content alone.
LEMMA InvNext ==
  ASSUME ArchiveInv, content' = content,
         inbox' \subseteq Collectable,
         ticks' \in [Exports -> {"none", "torn", "ok"}],
         DOMAIN bars' = Instruments,
         Shaped(imp'), {imp'.errors, imp'.ordered, imp'.done} \subseteq BOOLEAN,
         imp'.done = TRUE => imp'.pc = "idle",
         KeptAt(GoodExports, InstrumentOf, inbox', finished', ticks', index', bars', barIndex'),
         FilesAt(GoodExports, inbox', ticks', imp'.pc, imp'.todo, imp'.file, imp'.errors),
         IndexAt(ticks', index', MayFindNothing', imp'.pc, imp'.ordered, imp'.done),
         BarsAt(InstrumentOf, ticks', index', bars', barIndex', imp'.pc, imp'.todo, imp'.processed, imp'.brokers, imp'.errors, imp'.done)
  PROVE  ArchiveInv'
<1>1. GoodExports' = GoodExports /\ InstrumentOf' = InstrumentOf /\ Collectable' = Collectable
  BY ContentStays
<1>2. content \in Contents
  BY DEF ArchiveInv, ArchiveTypes
<1>3. ArchiveTypes'
  BY <1>1, <1>2, Zenon DEF ArchiveTypes
<1> QED BY <1>1, <1>3, Zenon DEF ArchiveInv

\* A file that comes into the inbox.
LEMMA CollectKeeps ==
  ASSUME ArchiveInv, NEW e \in Exports, Collect(e)
  PROVE  ArchiveInv'
<1>1. /\ inbox' = inbox \cup {e} /\ e \in Collectable /\ imp.pc = "idle"
      /\ content' = content /\ finished' = finished /\ ticks' = ticks /\ index' = index /\ bars' = bars /\ barIndex' = barIndex /\ imp' = imp
  BY DEF Collect, diskVars
<1>2. KeptAt(GoodExports, InstrumentOf, inbox', finished', ticks', index', bars', barIndex')
  <2>1. Mentioned(GoodExports, inbox, ticks) \subseteq Mentioned(GoodExports, inbox', ticks')
    BY <1>1 DEF Mentioned
  <2>2. KeptAt(GoodExports, InstrumentOf, inbox, finished, ticks, index, bars, barIndex)
    BY DEF ArchiveInv
  <2> QED BY <1>1, <2>1, <2>2 DEF KeptAt
<1>3. FilesAt(GoodExports, inbox', ticks', imp'.pc, imp'.todo, imp'.file, imp'.errors)
  BY <1>1 DEF FilesAt
<1>4. IndexAt(ticks', index', MayFindNothing', imp'.pc, imp'.ordered, imp'.done)
  <2>1. MayFindNothing' <=> MayFindNothing
    BY <1>1, FindingsStay
  <2> QED BY <1>1, <2>1 DEF ArchiveInv, IndexAt
<1>5. BarsAt(InstrumentOf, ticks', index', bars', barIndex', imp'.pc, imp'.todo, imp'.processed, imp'.brokers, imp'.errors, imp'.done)
  BY <1>1 DEF ArchiveInv
<1>6. /\ inbox' \subseteq Collectable /\ ticks' \in [Exports -> {"none", "torn", "ok"}] /\ DOMAIN bars' = Instruments
      /\ Shaped(imp') /\ {imp'.errors, imp'.ordered, imp'.done} \subseteq BOOLEAN /\ (imp'.done = TRUE => imp'.pc = "idle")
  BY <1>1 DEF ArchiveInv, ArchiveTypes
<1> QED BY <1>1, <1>2, <1>3, <1>4, <1>5, <1>6, InvNext

\* A step of the importer that changes its own record only, and says nothing
\* of the archive afterwards unless it did before.
LEMMA RunMoves ==
  ASSUME ArchiveInv,
         inbox' = inbox, finished' = finished, content' = content, ticks' = ticks, index' = index, bars' = bars, barIndex' = barIndex,
         Shaped(imp'), {imp'.errors, imp'.ordered} \subseteq BOOLEAN, imp'.done = FALSE,
         imp'.pc \in {"idle", "files", "write", "index"},
         FilesAt(GoodExports, inbox, ticks, imp'.pc, imp'.todo, imp'.file, imp'.errors)
  PROVE  ArchiveInv'
<1>1. KeptAt(GoodExports, InstrumentOf, inbox', finished', ticks', index', bars', barIndex')
  BY DEF ArchiveInv
<1>2. IndexAt(ticks', index', MayFindNothing', imp'.pc, imp'.ordered, imp'.done)
  BY DEF IndexAt
<1>3. BarsAt(InstrumentOf, ticks', index', bars', barIndex', imp'.pc, imp'.todo, imp'.processed, imp'.brokers, imp'.errors, imp'.done)
  BY DEF BarsAt
<1>4. /\ inbox' \subseteq Collectable /\ ticks' \in [Exports -> {"none", "torn", "ok"}] /\ DOMAIN bars' = Instruments
      /\ {imp'.errors, imp'.ordered, imp'.done} \subseteq BOOLEAN /\ (imp'.done = TRUE => imp'.pc = "idle")
  BY DEF ArchiveInv, ArchiveTypes
<1> QED BY <1>1, <1>2, <1>3, <1>4, InvNext

\* The directory is listed.
LEMMA StartKeeps ==
  ASSUME ArchiveInv, NEW o \in BOOLEAN, StartImport(o)
  PROVE  ArchiveInv'
<1>1. /\ content' = content /\ inbox' = inbox /\ finished' = finished /\ ticks' = ticks /\ index' = index /\ bars' = bars /\ barIndex' = barIndex
  BY DEF StartImport, diskVars
<1>2. PICK pc : /\ pc = IF inbox = {} THEN "index" ELSE "files"
                /\ imp' = [Idle(FALSE, imp.runs + 1) EXCEPT !.pc = pc, !.todo = inbox, !.override = o]
  BY DEF StartImport
<1>3. imp' = Rec(pc, inbox, "none", o, 0, {}, FALSE, FALSE, FALSE, imp.runs + 1)
  BY <1>2 DEF Idle, Rec
<1>4. /\ Shaped(imp') /\ imp'.pc = pc /\ imp'.todo = inbox /\ imp'.errors = FALSE
      /\ imp'.ordered = FALSE /\ imp'.done = FALSE
  BY <1>3 DEF Shaped, Rec
<1>5. FilesAt(GoodExports, inbox, ticks, imp'.pc, imp'.todo, imp'.file, imp'.errors)
  <2>1. CASE inbox = {}
    BY <1>2, <1>4, <2>1 DEF FilesAt
  <2>2. CASE inbox # {}
    <3>1. pc = "files"
      BY <1>2, <2>2
    <3>2. \A e \in (inbox \cap GoodExports) \ inbox : FALSE
      OBVIOUS
    <3> QED BY <1>4, <3>1, <3>2 DEF FilesAt
  <2> QED BY <2>1, <2>2
<1>6. imp'.pc \in {"idle", "files", "write", "index"} /\ {imp'.errors, imp'.ordered} \subseteq BOOLEAN
  BY <1>2, <1>4
<1> QED BY <1>1, <1>4, <1>5, <1>6, RunMoves

\* The process is killed.
LEMMA CrashKeeps ==
  ASSUME ArchiveInv, Crash
  PROVE  ArchiveInv'
<1>1. /\ content' = content /\ inbox' = inbox /\ finished' = finished /\ ticks' = ticks /\ index' = index /\ bars' = bars /\ barIndex' = barIndex
      /\ imp' = Idle(FALSE, imp.runs)
  BY DEF Crash, diskVars
<1>2. imp' = Rec("idle", {}, "none", FALSE, 0, {}, FALSE, FALSE, FALSE, imp.runs) /\ Shaped(imp')
  BY <1>1, IdleFields
<1>3. imp'.pc = "idle" /\ imp'.errors = FALSE /\ imp'.ordered = FALSE /\ imp'.done = FALSE
  BY <1>2 DEF Shaped, Rec
<1>4. FilesAt(GoodExports, inbox, ticks, imp'.pc, imp'.todo, imp'.file, imp'.errors)
  BY <1>3 DEF FilesAt
<1> QED BY <1>1, <1>2, <1>3, <1>4, RunMoves

\* After the last file the index is next.
LEMMA AfterFilesKeeps ==
  ASSUME ArchiveInv, AfterFiles
  PROVE  ArchiveInv'
<1>1. /\ content' = content /\ inbox' = inbox /\ finished' = finished /\ ticks' = ticks /\ index' = index /\ bars' = bars /\ barIndex' = barIndex
      /\ imp.pc = "files" /\ imp.todo = {} /\ imp' = [imp EXCEPT !.pc = "index"]
  BY DEF AfterFiles, diskVars
<1>2. /\ Shaped(imp) /\ {imp.errors, imp.ordered, imp.done} \subseteq BOOLEAN /\ (imp.done = TRUE => imp.pc = "idle")
      /\ FilesAt(GoodExports, inbox, ticks, imp.pc, imp.todo, imp.file, imp.errors)
  BY DEF ArchiveInv, ArchiveTypes
<1>3. imp' = Rec("index", imp.todo, imp.file, imp.override, imp.processed, imp.brokers, imp.errors, imp.ordered, imp.done, imp.runs)
  BY <1>1, <1>2 DEF Shaped, Rec
<1>4. /\ Shaped(imp') /\ imp'.pc = "index" /\ imp'.brokers = imp.brokers /\ imp'.errors = imp.errors
      /\ imp'.ordered = imp.ordered /\ imp'.done = imp.done
  BY <1>3 DEF Shaped, Rec
<1>5. imp'.done = FALSE /\ {imp'.errors, imp'.ordered} \subseteq BOOLEAN
  BY <1>1, <1>2, <1>4
<1>6. FilesAt(GoodExports, inbox, ticks, imp'.pc, imp'.todo, imp'.file, imp'.errors)
  BY <1>1, <1>2, <1>4 DEF FilesAt
<1> QED BY <1>1, <1>4, <1>5, <1>6, RunMoves

\* A step of the importer that touches the file of a good export in the inbox.
LEMMA TicksMove ==
  ASSUME ArchiveInv,
         inbox' = inbox, finished' = finished, content' = content, index' = index, bars' = bars, barIndex' = barIndex,
         NEW f \in inbox \cap GoodExports, NEW t \in {"none", "torn", "ok"}, ticks' = [ticks EXCEPT ![f] = t],
         Shaped(imp'), {imp'.errors, imp'.ordered} \subseteq BOOLEAN, imp'.done = FALSE,
         imp'.pc \in {"files", "write", "written", "move"},
         FilesAt(GoodExports, inbox, ticks', imp'.pc, imp'.todo, imp'.file, imp'.errors)
  PROVE  ArchiveInv'
<1>1. /\ ticks \in [Exports -> {"none", "torn", "ok"}] /\ inbox \subseteq Collectable /\ DOMAIN bars = Instruments
      /\ KeptAt(GoodExports, InstrumentOf, inbox, finished, ticks, index, bars, barIndex)
  BY DEF ArchiveInv, ArchiveTypes
<1>2. f \in Exports /\ f \in inbox /\ f \in GoodExports
  BY <1>1 DEF Collectable
<1>3. ticks' \in [Exports -> {"none", "torn", "ok"}] /\ \A e \in Exports \ {f} : ticks'[e] = ticks[e]
  BY <1>1, <1>2
<1>4. Mentioned(GoodExports, inbox, ticks) \subseteq Mentioned(GoodExports, inbox', ticks')
  BY <1>2, <1>3 DEF Mentioned
<1>5. KeptAt(GoodExports, InstrumentOf, inbox', finished', ticks', index', bars', barIndex')
  <2>1. \A e \in finished \ inbox : ticks'[e] = "ok"
    <3>1. \A e \in finished \ inbox : ticks[e] = "ok" /\ e # f
      BY <1>1, <1>2 DEF KeptAt
    <3> QED BY <1>1, <3>1
  <2>2. \A e \in Exports : (ticks'[e] # "none" => e \in GoodExports) /\ (ticks'[e] = "torn" => e \in inbox)
    BY <1>1, <1>2, <1>3 DEF KeptAt
  <2> QED BY <1>1, <1>4, <2>1, <2>2 DEF KeptAt
<1>6. IndexAt(ticks', index', MayFindNothing', imp'.pc, imp'.ordered, imp'.done)
  BY DEF IndexAt
<1>7. BarsAt(InstrumentOf, ticks', index', bars', barIndex', imp'.pc, imp'.todo, imp'.processed, imp'.brokers, imp'.errors, imp'.done)
  BY DEF BarsAt
<1>8. {imp'.errors, imp'.ordered, imp'.done} \subseteq BOOLEAN /\ (imp'.done = TRUE => imp'.pc = "idle")
  OBVIOUS
<1> QED BY <1>1, <1>3, <1>5, <1>6, <1>7, <1>8, InvNext

\* One export, up to the write.
LEMMA ConvertKeeps ==
  ASSUME ArchiveInv, NEW e \in Exports, ConvertFile(e)
  PROVE  ArchiveInv'
<1>1. /\ content' = content /\ inbox' = inbox /\ finished' = finished /\ index' = index /\ bars' = bars /\ barIndex' = barIndex
      /\ imp.pc = "files" /\ e \in imp.todo
  BY DEF ConvertFile
<1>2. /\ Shaped(imp) /\ {imp.errors, imp.ordered, imp.done} \subseteq BOOLEAN /\ (imp.done = TRUE => imp.pc = "idle")
      /\ inbox \subseteq Collectable /\ ticks \in [Exports -> {"none", "torn", "ok"}]
      /\ FilesAt(GoodExports, inbox, ticks, imp.pc, imp.todo, imp.file, imp.errors)
  BY DEF ArchiveInv, ArchiveTypes
<1>3. imp.todo \subseteq inbox /\ (imp.errors = FALSE => \A x \in (inbox \cap GoodExports) \ imp.todo : ticks[x] = "ok")
  BY <1>1, <1>2 DEF FilesAt
<1>4. e \in inbox /\ (e \in GoodExports <=> VerdictOf(e) = "good") /\ imp.done = FALSE
  BY <1>1, <1>2, <1>3 DEF GoodExports
<1>5. ASSUME NEW p, NEW b, NEW er \in BOOLEAN, ticks' = ticks,
             imp' = Rec(imp.pc, imp.todo \ {e}, imp.file, imp.override, p, b, er, imp.ordered, imp.done, imp.runs),
             er = FALSE => imp.errors = FALSE /\ (e \in GoodExports => ticks[e] = "ok")
      PROVE  ArchiveInv'
  <2>1. /\ Shaped(imp') /\ imp'.pc = "files" /\ imp'.todo = imp.todo \ {e} /\ imp'.brokers = b /\ imp'.errors = er
        /\ imp'.ordered = imp.ordered /\ imp'.done = FALSE
    BY <1>1, <1>4, <1>5 DEF Rec, Shaped
  <2>2. er = FALSE => \A x \in (inbox \cap GoodExports) \ (imp.todo \ {e}) : ticks[x] = "ok"
    BY <1>3, <1>5
  <2>3. FilesAt(GoodExports, inbox, ticks, imp'.pc, imp'.todo, imp'.file, imp'.errors)
    BY <1>3, <2>1, <2>2 DEF FilesAt
  <2>4. {imp'.errors, imp'.ordered} \subseteq BOOLEAN /\ imp'.pc \in {"idle", "files", "write", "index"}
    BY <1>2, <1>5, <2>1
  <2> QED BY <1>1, <1>5, <2>1, <2>3, <2>4, RunMoves
<1>6. ASSUME NEW p, NEW er \in BOOLEAN, imp' = Skip(imp, e, p, er)
      PROVE  imp' = Rec(imp.pc, imp.todo \ {e}, imp.file, imp.override, imp.processed + p, imp.brokers, imp.errors \/ er, imp.ordered, imp.done, imp.runs)
  BY <1>2, <1>6 DEF Skip, Shaped, Rec
<1> DEFINE bt == imp.brokers \cup {BrokerType(content[e])}
<1>7. ASSUME NEW p, NEW er \in BOOLEAN, imp' = Seen(Skip(imp, e, p, er), e)
      PROVE  imp' = Rec(imp.pc, imp.todo \ {e}, imp.file, imp.override, imp.processed + p, bt, imp.errors \/ er, imp.ordered, imp.done, imp.runs)
  BY <1>2, <1>7 DEF Skip, Seen, Shaped, Rec
<1>8. CASE VerdictOf(e) = "empty" /\ imp' = Skip(imp, e, 1, FALSE) /\ ticks' = ticks
  <2>1. imp' = Rec(imp.pc, imp.todo \ {e}, imp.file, imp.override, imp.processed + 1, imp.brokers, imp.errors, imp.ordered, imp.done, imp.runs)
    <3>1. (imp.errors \/ FALSE) = imp.errors
      BY <1>2
    <3> QED BY <1>6, <1>8, <3>1
  <2>2. e \notin GoodExports
    BY <1>4, <1>8
  <2> QED BY <1>2, <1>5, <1>8, <2>1, <2>2
<1>9. CASE VerdictOf(e) = "error" /\ imp' = Skip(imp, e, 0, TRUE) /\ ticks' = ticks
  <2>1. imp' = Rec(imp.pc, imp.todo \ {e}, imp.file, imp.override, imp.processed + 0, imp.brokers, TRUE, imp.ordered, imp.done, imp.runs)
    <3>1. (imp.errors \/ TRUE) = TRUE
      OBVIOUS
    <3> QED BY <1>6, <1>9, <3>1
  <2> QED BY <1>2, <1>5, <1>9, <2>1
<1>10. CASE VerdictOf(e) = "invalid" /\ imp' = Seen(Skip(imp, e, 0, TRUE), e) /\ ticks' = ticks
  <2>1. imp' = Rec(imp.pc, imp.todo \ {e}, imp.file, imp.override, imp.processed + 0, bt, TRUE, imp.ordered, imp.done, imp.runs)
    <3>1. (imp.errors \/ TRUE) = TRUE
      OBVIOUS
    <3> QED BY <1>7, <1>10, <3>1
  <2> QED BY <1>5, <1>10, <2>1
<1>11. CASE IsDuplicate(e) /\ imp' = Seen(Skip(imp, e, 0, FALSE), e) /\ ticks' = ticks
  <2>1. imp' = Rec(imp.pc, imp.todo \ {e}, imp.file, imp.override, imp.processed + 0, bt, imp.errors, imp.ordered, imp.done, imp.runs)
    <3>1. (imp.errors \/ FALSE) = imp.errors
      BY <1>2
    <3> QED BY <1>7, <1>11, <3>1
  <2> QED BY <1>2, <1>5, <1>11, <2>1 DEF IsDuplicate
<1>12. CASE /\ VerdictOf(e) = "good"
            /\ ticks' = IF IsDuplicate(e) THEN [ticks EXCEPT ![e] = "none"] ELSE ticks
            /\ imp' = [Seen(imp, e) EXCEPT !.pc = "write", !.file = e]
  <2>1. imp' = Rec("write", imp.todo, e, imp.override, imp.processed, bt, imp.errors, imp.ordered, imp.done, imp.runs)
    BY <1>2, <1>12 DEF Seen, Shaped, Rec
  <2>2. /\ Shaped(imp') /\ imp'.pc = "write" /\ imp'.todo = imp.todo /\ imp'.file = e /\ imp'.errors = imp.errors
        /\ imp'.ordered = imp.ordered /\ imp'.done = FALSE
    BY <1>4, <2>1 DEF Rec, Shaped
  <2>3. e \in GoodExports /\ e \in Exports
    BY <1>4, <1>12
  <2>4. \A x \in Exports : x # e => ticks'[x] = ticks[x]
    BY <1>12
  <2>5. \A x \in (inbox \cap GoodExports) \ imp.todo : x \in Exports /\ x # e
    BY <1>1, <1>2 DEF Collectable
  <2>6. FilesAt(GoodExports, inbox, ticks', imp'.pc, imp'.todo, imp'.file, imp'.errors)
    BY <1>1, <1>3, <2>2, <2>3, <2>4, <2>5 DEF FilesAt
  <2>7. {imp'.errors, imp'.ordered} \subseteq BOOLEAN
    BY <1>2, <2>2
  <2>8. CASE IsDuplicate(e)
    <3>1. ticks' = [ticks EXCEPT ![e] = "none"]
      BY <1>12, <2>8
    <3> QED BY <1>1, <1>4, <2>2, <2>3, <2>6, <2>7, <3>1, TicksMove
  <2>9. CASE ~IsDuplicate(e)
    <3>1. ticks' = ticks
      BY <1>12, <2>9
    <3>2. FilesAt(GoodExports, inbox, ticks, imp'.pc, imp'.todo, imp'.file, imp'.errors)
      BY <2>6, <3>1
    <3> QED BY <1>1, <2>2, <2>7, <3>1, <3>2, RunMoves
  <2> QED BY <2>8, <2>9
<1> QED BY <1>8, <1>9, <1>10, <1>11, <1>12, Zenon DEF ConvertFile

\* The file is opened, and complete.
LEMMA WriteKeeps ==
  ASSUME ArchiveInv, WriteTicks \/ WriteDone
  PROVE  ArchiveInv'
<1>1. PICK t \in {"torn", "ok"}, x \in {"written", "move"} :
        /\ content' = content /\ inbox' = inbox /\ finished' = finished /\ index' = index /\ bars' = bars /\ barIndex' = barIndex
        /\ imp.pc \in {"write", "written"} /\ ticks' = [ticks EXCEPT ![imp.file] = t] /\ imp' = [imp EXCEPT !.pc = x]
        /\ x = "move" => t = "ok"
  BY Zenon DEF WriteTicks, WriteDone
<1>2. /\ Shaped(imp) /\ {imp.errors, imp.ordered, imp.done} \subseteq BOOLEAN /\ (imp.done = TRUE => imp.pc = "idle")
      /\ inbox \subseteq Collectable /\ ticks \in [Exports -> {"none", "torn", "ok"}]
      /\ FilesAt(GoodExports, inbox, ticks, imp.pc, imp.todo, imp.file, imp.errors)
  BY DEF ArchiveInv, ArchiveTypes
<1>3. PICK f : f = imp.file
  OBVIOUS
<1>4. /\ imp.todo \subseteq inbox /\ (imp.errors = FALSE => \A y \in (inbox \cap GoodExports) \ imp.todo : ticks[y] = "ok")
      /\ f \in imp.todo \cap GoodExports
  BY <1>1, <1>2, <1>3 DEF FilesAt
<1>5. imp' = Rec(x, imp.todo, f, imp.override, imp.processed, imp.brokers, imp.errors, imp.ordered, imp.done, imp.runs)
  BY <1>1, <1>2, <1>3 DEF Shaped, Rec
<1>6. /\ Shaped(imp') /\ imp'.pc = x /\ imp'.todo = imp.todo /\ imp'.file = f /\ imp'.brokers = imp.brokers /\ imp'.errors = imp.errors
      /\ imp'.ordered = imp.ordered /\ imp'.done = imp.done
  BY <1>5 DEF Rec, Shaped
<1>7. ticks' = [ticks EXCEPT ![f] = t] /\ f \in Exports
  BY <1>1, <1>2, <1>3, <1>4 DEF Collectable
<1>8. ticks'[f] = t /\ \A y \in (inbox \cap GoodExports) \ imp.todo : ticks'[y] = ticks[y]
  BY <1>2, <1>4, <1>7
<1>9. FilesAt(GoodExports, inbox, ticks', imp'.pc, imp'.todo, imp'.file, imp'.errors)
  BY <1>1, <1>4, <1>6, <1>8 DEF FilesAt
<1>10. imp'.done = FALSE /\ {imp'.errors, imp'.ordered} \subseteq BOOLEAN
  BY <1>1, <1>2, <1>6
<1>11. f \in inbox \cap GoodExports
  BY <1>4
<1> QED BY <1>1, <1>6, <1>7, <1>9, <1>10, <1>11, TicksMove

\* The write raises.
LEMMA WriteFailsKeeps ==
  ASSUME ArchiveInv, WriteFails
  PROVE  ArchiveInv'
<1>1. /\ content' = content /\ inbox' = inbox /\ finished' = finished /\ ticks' = ticks /\ index' = index /\ bars' = bars /\ barIndex' = barIndex
      /\ imp.pc \in {"write", "written"}
      /\ imp' = [Skip(imp, imp.file, 0, TRUE) EXCEPT !.pc = "files", !.file = "none"]
  BY DEF WriteFails, diskVars
<1>2. /\ Shaped(imp) /\ {imp.errors, imp.ordered, imp.done} \subseteq BOOLEAN /\ (imp.done = TRUE => imp.pc = "idle")
      /\ FilesAt(GoodExports, inbox, ticks, imp.pc, imp.todo, imp.file, imp.errors)
  BY DEF ArchiveInv, ArchiveTypes
<1>3. imp.todo \subseteq inbox
  BY <1>1, <1>2 DEF FilesAt
<1>4. imp' = Rec("files", imp.todo \ {imp.file}, "none", imp.override, imp.processed + 0, imp.brokers, imp.errors \/ TRUE, imp.ordered, imp.done, imp.runs)
  BY <1>1, <1>2 DEF Skip, Shaped, Rec
<1>5. /\ Shaped(imp') /\ imp'.pc = "files" /\ imp'.todo = imp.todo \ {imp.file} /\ imp'.brokers = imp.brokers /\ imp'.errors = TRUE
      /\ imp'.ordered = imp.ordered /\ imp'.done = imp.done
  BY <1>4 DEF Rec, Shaped
<1>6. FilesAt(GoodExports, inbox, ticks, imp'.pc, imp'.todo, imp'.file, imp'.errors)
  BY <1>3, <1>5 DEF FilesAt
<1>7. imp'.done = FALSE /\ {imp'.errors, imp'.ordered} \subseteq BOOLEAN
  BY <1>1, <1>2, <1>5
<1> QED BY <1>1, <1>5, <1>6, <1>7, RunMoves

\* The export leaves the inbox, with its ticks in the archive.
LEMMA MoveKeeps ==
  ASSUME ArchiveInv, MoveToFinished
  PROVE  ArchiveInv'
<1>1. /\ content' = content /\ ticks' = ticks /\ index' = index /\ bars' = bars /\ barIndex' = barIndex
      /\ imp.pc = "move" /\ inbox' = inbox \ {imp.file} /\ finished' = finished \cup {imp.file}
      /\ imp' = [Skip(imp, imp.file, 1, FALSE) EXCEPT !.pc = "files", !.file = "none"]
  BY DEF MoveToFinished, diskVars
<1>2. /\ Shaped(imp) /\ {imp.errors, imp.ordered, imp.done} \subseteq BOOLEAN /\ (imp.done = TRUE => imp.pc = "idle")
      /\ inbox \subseteq Collectable /\ ticks \in [Exports -> {"none", "torn", "ok"}] /\ DOMAIN bars = Instruments
      /\ FilesAt(GoodExports, inbox, ticks, imp.pc, imp.todo, imp.file, imp.errors)
      /\ KeptAt(GoodExports, InstrumentOf, inbox, finished, ticks, index, bars, barIndex)
  BY DEF ArchiveInv, ArchiveTypes
<1>3. PICK f : f = imp.file
  OBVIOUS
<1>4. /\ imp.todo \subseteq inbox /\ (imp.errors = FALSE => \A y \in (inbox \cap GoodExports) \ imp.todo : ticks[y] = "ok")
      /\ f \in imp.todo \cap GoodExports /\ ticks[f] = "ok"
  BY <1>1, <1>2, <1>3 DEF FilesAt
<1>5. imp' = Rec("files", imp.todo \ {f}, "none", imp.override, imp.processed + 1, imp.brokers, imp.errors \/ FALSE, imp.ordered, imp.done, imp.runs)
  BY <1>1, <1>2, <1>3 DEF Skip, Shaped, Rec
<1>6. (imp.errors \/ FALSE) = imp.errors
  BY <1>2
<1>7. /\ Shaped(imp') /\ imp'.pc = "files" /\ imp'.todo = imp.todo \ {f} /\ imp'.brokers = imp.brokers /\ imp'.errors = imp.errors
      /\ imp'.ordered = imp.ordered /\ imp'.done = FALSE
  <2>1. imp' = Rec("files", imp.todo \ {f}, "none", imp.override, imp.processed + 1, imp.brokers, imp.errors, imp.ordered, imp.done, imp.runs)
    BY <1>5, <1>6
  <2>2. imp.done = FALSE
    BY <1>1, <1>2
  <2> QED BY <2>1, <2>2 DEF Rec, Shaped
<1>8. inbox' = inbox \ {f} /\ finished' = finished \cup {f} /\ f \in Exports /\ f \in inbox
  BY <1>1, <1>2, <1>3, <1>4 DEF Collectable
<1>9. KeptAt(GoodExports, InstrumentOf, inbox', finished', ticks', index', bars', barIndex')
  <2>1. Mentioned(GoodExports, inbox, ticks) \subseteq Mentioned(GoodExports, inbox', ticks')
    BY <1>1, <1>4, <1>8 DEF Mentioned
  <2>2. \A e \in finished' \ inbox' : ticks'[e] = "ok"
    BY <1>1, <1>2, <1>4, <1>8 DEF KeptAt
  <2>3. \A e \in Exports : (ticks'[e] # "none" => e \in GoodExports) /\ (ticks'[e] = "torn" => e \in inbox')
    BY <1>1, <1>2, <1>4, <1>8 DEF KeptAt
  <2> QED BY <1>1, <1>2, <2>1, <2>2, <2>3 DEF KeptAt
<1>10. FilesAt(GoodExports, inbox', ticks', imp'.pc, imp'.todo, imp'.file, imp'.errors)
  BY <1>1, <1>4, <1>7, <1>8 DEF FilesAt
<1>11. IndexAt(ticks', index', MayFindNothing', imp'.pc, imp'.ordered, imp'.done)
  BY <1>7 DEF IndexAt
<1>12. BarsAt(InstrumentOf, ticks', index', bars', barIndex', imp'.pc, imp'.todo, imp'.processed, imp'.brokers, imp'.errors, imp'.done)
  BY <1>7 DEF BarsAt
<1>13. inbox' \subseteq Collectable /\ {imp'.errors, imp'.ordered, imp'.done} \subseteq BOOLEAN /\ (imp'.done = TRUE => imp'.pc = "idle")
  BY <1>2, <1>7, <1>8
<1> QED BY <1>1, <1>2, <1>7, <1>9, <1>10, <1>11, <1>12, <1>13, InvNext

\* What a rebuild of the index leaves on the disk.
LEMMA RebuiltTrue ==
  ASSUME ArchiveInv
  PROVE  /\ (\A e \in Exports : ticks[e] = "none") \/ (Rebuilt.exists /\ Rebuilt.files = Ok(ticks))
         /\ Rebuilt.files \subseteq Mentioned(GoodExports, inbox, ticks)
<1>1. KeptAt(GoodExports, InstrumentOf, inbox, finished, ticks, index, bars, barIndex)
  BY DEF ArchiveInv
<1>2. CASE \A e \in Exports : ticks[e] = "none"
  BY <1>1, <1>2 DEF Rebuilt, KeptAt
<1>3. CASE ~(\A e \in Exports : ticks[e] = "none")
  BY <1>3 DEF Rebuilt, Ok, Readable, Mentioned
<1> QED BY <1>2, <1>3

\* The index, and the word about the order of the files.
LEMMA IndexRebuildKeeps ==
  ASSUME ArchiveInv, RebuildParquetIndex
  PROVE  ArchiveInv'
<1>1. PICK ordered \in BOOLEAN :
      /\ content' = content /\ inbox' = inbox /\ finished' = finished /\ ticks' = ticks /\ bars' = bars /\ barIndex' = barIndex
      /\ imp.pc = "index" /\ index' = Rebuilt
      /\ ordered => MayFindNothing
      /\ imp' = IF imp.processed > 0 THEN [imp EXCEPT !.pc = "clean", !.ordered = ordered]
                ELSE [Idle(TRUE, imp.runs) EXCEPT !.errors = imp.errors, !.brokers = imp.brokers, !.ordered = ordered]
  BY Zenon DEF RebuildParquetIndex
<1>2. /\ Shaped(imp) /\ {imp.errors, imp.ordered, imp.done} \subseteq BOOLEAN /\ (imp.done = TRUE => imp.pc = "idle")
      /\ inbox \subseteq Collectable /\ ticks \in [Exports -> {"none", "torn", "ok"}] /\ DOMAIN bars = Instruments
      /\ FilesAt(GoodExports, inbox, ticks, imp.pc, imp.todo, imp.file, imp.errors)
      /\ KeptAt(GoodExports, InstrumentOf, inbox, finished, ticks, index, bars, barIndex)
  BY DEF ArchiveInv, ArchiveTypes
<1>3. /\ Shaped(imp') /\ imp'.pc \in {"clean", "idle"} /\ imp'.errors = imp.errors
      /\ imp'.ordered = ordered /\ imp'.done \in BOOLEAN /\ (imp'.done = TRUE => imp'.pc = "idle" /\ imp'.processed = 0)
  <2>1. CASE imp' = [imp EXCEPT !.pc = "clean", !.ordered = ordered]
    <3>1. imp' = Rec("clean", imp.todo, imp.file, imp.override, imp.processed, imp.brokers, imp.errors, ordered, imp.done, imp.runs)
      BY <1>2, <2>1 DEF Shaped, Rec
    <3>2. imp.done = FALSE
      BY <1>1, <1>2
    <3> QED BY <3>1, <3>2 DEF Shaped, Rec
  <2>2. CASE imp' = [Idle(TRUE, imp.runs) EXCEPT !.errors = imp.errors, !.brokers = imp.brokers, !.ordered = ordered]
    <3>1. imp' = Rec("idle", {}, "none", FALSE, 0, imp.brokers, imp.errors, ordered, TRUE, imp.runs)
      BY <2>2 DEF Idle, Rec
    <3> QED BY <3>1 DEF Shaped, Rec
  <2> QED BY <1>1, <2>1, <2>2
<1>4. KeptAt(GoodExports, InstrumentOf, inbox', finished', ticks', index', bars', barIndex')
  BY <1>1, <1>2, RebuiltTrue DEF KeptAt
<1>5. FilesAt(GoodExports, inbox', ticks', imp'.pc, imp'.todo, imp'.file, imp'.errors)
  BY <1>1, <1>2, <1>3 DEF FilesAt
<1>6. IndexAt(ticks', index', MayFindNothing', imp'.pc, imp'.ordered, imp'.done)
  <2>1. MayFindNothing' <=> MayFindNothing
    BY <1>1, FindingsStay
  <2>2. ordered = TRUE => MayFindNothing'
    BY <1>1, <2>1
  <2> QED BY <1>1, <1>3, <2>2, RebuiltTrue DEF IndexAt
<1>7. BarsAt(InstrumentOf, ticks', index', bars', barIndex', imp'.pc, imp'.todo, imp'.processed, imp'.brokers, imp'.errors, imp'.done)
  BY <1>3 DEF BarsAt
<1>8. {imp'.errors, imp'.ordered, imp'.done} \subseteq BOOLEAN /\ (imp'.done = TRUE => imp'.pc = "idle")
  BY <1>2, <1>3
<1> QED BY <1>1, <1>2, <1>3, <1>4, <1>5, <1>6, <1>7, <1>8, InvNext

\* The index that the rendering loads is the one on the disk.
LEMMA LoadedSame ==
  ASSUME ArchiveInv, imp.pc \in {"clean", "render"}
  PROVE  LoadedIndex = index /\ (imp.errors = FALSE => index.files = Ok(ticks))
<1>1. /\ IndexAt(ticks, index, MayFindNothing, imp.pc, imp.ordered, imp.done)
      /\ FilesAt(GoodExports, inbox, ticks, imp.pc, imp.todo, imp.file, imp.errors)
      /\ KeptAt(GoodExports, InstrumentOf, inbox, finished, ticks, index, bars, barIndex)
      /\ inbox \subseteq Collectable
  BY DEF ArchiveInv, ArchiveTypes
<1>2. (\A e \in Exports : ticks[e] = "none") \/ (index.exists /\ index.files = Ok(ticks))
  BY <1>1 DEF IndexAt
<1>3. LoadedIndex = index
  BY <1>2 DEF LoadedIndex, Rebuilt
<1>4. ASSUME imp.errors = FALSE, \A e \in Exports : ticks[e] = "none"
      PROVE  index.files = Ok(ticks)
  <2>1. \A e \in inbox \cap GoodExports : ticks[e] = "ok"
    BY <1>1, <1>4 DEF FilesAt
  <2>2. Mentioned(GoodExports, inbox, ticks) \subseteq Ok(ticks)
    BY <2>1 DEF Mentioned, Ok
  <2>3. Ok(ticks) = {}
    BY <1>4 DEF Ok
  <2> QED BY <1>1, <2>2, <2>3 DEF KeptAt
<1> QED BY <1>2, <1>3, <1>4

\* The bars go.
LEMMA CleanKeeps ==
  ASSUME ArchiveInv, CleanBars
  PROVE  ArchiveInv'
<1>1. /\ content' = content /\ inbox' = inbox /\ finished' = finished /\ ticks' = ticks /\ barIndex' = barIndex
      /\ imp.pc = "clean" /\ index' = LoadedIndex
      /\ bars' = [s \in Instruments |-> IF s[1] \in imp.brokers THEN NoBars ELSE bars[s]]
      /\ imp' = [imp EXCEPT !.pc = "render", !.todo = TasksOf(imp.brokers)]
  BY DEF CleanBars
<1>2. /\ Shaped(imp) /\ {imp.errors, imp.ordered, imp.done} \subseteq BOOLEAN /\ (imp.done = TRUE => imp.pc = "idle")
      /\ inbox \subseteq Collectable /\ ticks \in [Exports -> {"none", "torn", "ok"}] /\ DOMAIN bars = Instruments
      /\ FilesAt(GoodExports, inbox, ticks, imp.pc, imp.todo, imp.file, imp.errors)
      /\ KeptAt(GoodExports, InstrumentOf, inbox, finished, ticks, index, bars, barIndex)
      /\ IndexAt(ticks, index, MayFindNothing, imp.pc, imp.ordered, imp.done)
  BY DEF ArchiveInv, ArchiveTypes
<1>3. index' = index /\ LoadedIndex = index /\ (imp.errors = FALSE => index.files = Ok(ticks))
  BY <1>1, LoadedSame
<1>4. PICK td : td = TasksOf(imp.brokers)
  OBVIOUS
<1>5. imp' = Rec("render", td, imp.file, imp.override, imp.processed, imp.brokers, imp.errors, imp.ordered, imp.done, imp.runs)
  <2>1. imp' = [imp EXCEPT !.pc = "render", !.todo = td]
    BY <1>1, <1>4
  <2> QED BY <1>2, <2>1 DEF Shaped, Rec
<1>6. /\ Shaped(imp') /\ imp'.pc = "render" /\ imp'.todo = td /\ imp'.brokers = imp.brokers /\ imp'.errors = imp.errors
      /\ imp'.ordered = imp.ordered /\ imp'.done = FALSE
  <2>1. imp.done = FALSE
    BY <1>1, <1>2
  <2> QED BY <1>5, <2>1 DEF Rec, Shaped
<1>7. \A s : s \in td <=> s[1] \in imp.brokers /\ \E e \in index.files : InstrumentOf[e] = s
  BY <1>3, <1>4, Zenon DEF TasksOf
<1>8. DOMAIN bars' = Instruments /\ \A s \in Instruments : bars'[s] = bars[s] \/ bars'[s] = NoBars
  BY <1>1, <1>2
<1>9. \A s \in Instruments : bars'[s].st = "ok" => bars[s].st = "ok"
  BY <1>8 DEF NoBars
<1>10. KeptAt(GoodExports, InstrumentOf, inbox', finished', ticks', index', bars', barIndex')
  BY <1>1, <1>2, <1>3, <1>9 DEF KeptAt
<1>11. FilesAt(GoodExports, inbox', ticks', imp'.pc, imp'.todo, imp'.file, imp'.errors)
  BY <1>1, <1>2, <1>6 DEF FilesAt
<1>12. IndexAt(ticks', index', MayFindNothing', imp'.pc, imp'.ordered, imp'.done)
  <2>1. MayFindNothing' <=> MayFindNothing
    BY <1>1, FindingsStay
  <2> QED BY <1>1, <1>2, <1>3, <1>6, <2>1 DEF IndexAt
<1>13. BarsAt(InstrumentOf, ticks', index', bars', barIndex', imp'.pc, imp'.todo, imp'.processed, imp'.brokers, imp'.errors, imp'.done)
  <2>1. \A s \in td : \E e \in index.files : InstrumentOf[e] = s
    BY <1>7
  <2>2. ASSUME imp.errors = FALSE, NEW s \in Instruments \ td, s[1] \in imp.brokers
        PROVE  bars'[s].from = Of(InstrumentOf, ticks, s) /\ Of(InstrumentOf, ticks, s) = {} /\ bars'[s].st = "none"
    <3>1. s \notin td
      BY <2>2
    <3>2. Of(InstrumentOf, ticks, s) = {}
      BY <1>3, <1>7, <2>2, <3>1 DEF Of
    <3>3. bars'[s] = NoBars
      BY <1>1, <2>2
    <3> QED BY <3>2, <3>3 DEF NoBars
  <2> QED BY <1>1, <1>3, <1>6, <2>1, <2>2 DEF BarsAt
<1>14. {imp'.errors, imp'.ordered, imp'.done} \subseteq BOOLEAN /\ (imp'.done = TRUE => imp'.pc = "idle")
  BY <1>2, <1>6
<1> QED BY <1>1, <1>2, <1>6, <1>8, <1>10, <1>11, <1>12, <1>13, <1>14, InvNext

\* The bars of one symbol.
LEMMA RenderKeeps ==
  ASSUME ArchiveInv, NEW s \in Instruments, RenderSymbol(s)
  PROVE  ArchiveInv'
<1>1. /\ content' = content /\ inbox' = inbox /\ finished' = finished /\ ticks' = ticks /\ barIndex' = barIndex /\ index' = index
      /\ imp.pc = "render" /\ s \in imp.todo
  BY DEF RenderSymbol
<1>2. /\ Shaped(imp) /\ {imp.errors, imp.ordered, imp.done} \subseteq BOOLEAN /\ (imp.done = TRUE => imp.pc = "idle")
      /\ inbox \subseteq Collectable /\ ticks \in [Exports -> {"none", "torn", "ok"}] /\ DOMAIN bars = Instruments
      /\ FilesAt(GoodExports, inbox, ticks, imp.pc, imp.todo, imp.file, imp.errors)
      /\ KeptAt(GoodExports, InstrumentOf, inbox, finished, ticks, index, bars, barIndex)
      /\ IndexAt(ticks, index, MayFindNothing, imp.pc, imp.ordered, imp.done)
      /\ BarsAt(InstrumentOf, ticks, index, bars, barIndex, imp.pc, imp.todo, imp.processed, imp.brokers, imp.errors, imp.done)
  BY DEF ArchiveInv, ArchiveTypes
<1>3. LoadedIndex = index /\ (imp.errors = FALSE => index.files = Ok(ticks))
  BY <1>1, LoadedSame
<1>4. PICK from : from = {e \in LoadedIndex.files : InstrumentOf[e] = s}
  OBVIOUS
<1>5. /\ from = {e \in index.files : InstrumentOf[e] = s} /\ from # {}
      /\ \E e \in Mentioned(GoodExports, inbox, ticks) : InstrumentOf[e] = s
  <2>1. \E e \in index.files : InstrumentOf[e] = s
    BY <1>1, <1>2 DEF BarsAt
  <2> QED BY <1>2, <1>3, <1>4, <2>1 DEF KeptAt
<1>6. ASSUME NEW b, NEW er \in BOOLEAN,
             imp' = Rec("render", imp.todo \ {s}, imp.file, imp.override, imp.processed, imp.brokers, er, imp.ordered, imp.done, imp.runs),
             DOMAIN bars' = Instruments, bars'[s] = b, \A x \in Instruments \ {s} : bars'[x] = bars[x],
             b.st = "ok" => bars[s].st = "ok" \/ b.from = from,
             er = FALSE => imp.errors = FALSE /\ b.st = "ok" /\ b.from = from
      PROVE  ArchiveInv'
  <2>1. /\ Shaped(imp') /\ imp'.pc = "render" /\ imp'.todo = imp.todo \ {s} /\ imp'.brokers = imp.brokers /\ imp'.errors = er
        /\ imp'.ordered = imp.ordered /\ imp'.done = FALSE
    BY <1>1, <1>2, <1>6 DEF Rec, Shaped
  <2>2. KeptAt(GoodExports, InstrumentOf, inbox', finished', ticks', index', bars', barIndex')
    <3>1. \A x \in Instruments : bars'[x].st = "ok" => \E e \in Mentioned(GoodExports, inbox, ticks) : InstrumentOf[e] = x
      BY <1>2, <1>5, <1>6 DEF KeptAt
    <3> QED BY <1>1, <1>2, <3>1 DEF KeptAt
  <2>3. FilesAt(GoodExports, inbox', ticks', imp'.pc, imp'.todo, imp'.file, imp'.errors)
    BY <1>1, <1>2, <1>6, <2>1 DEF FilesAt
  <2>4. IndexAt(ticks', index', MayFindNothing', imp'.pc, imp'.ordered, imp'.done)
    <3>1. MayFindNothing' <=> MayFindNothing
      BY <1>1, FindingsStay
    <3> QED BY <1>1, <1>2, <2>1, <3>1 DEF IndexAt
  <2>5. BarsAt(InstrumentOf, ticks', index', bars', barIndex', imp'.pc, imp'.todo, imp'.processed, imp'.brokers, imp'.errors, imp'.done)
    <3>1. \A x \in imp.todo \ {s} : \E e \in index.files : InstrumentOf[e] = x
      BY <1>1, <1>2 DEF BarsAt
    <3>2. ASSUME er = FALSE, NEW x \in Instruments \ (imp.todo \ {s}), x[1] \in imp.brokers
          PROVE  /\ bars'[x].from = Of(InstrumentOf, ticks, x)
                 /\ IF Of(InstrumentOf, ticks, x) = {} THEN bars'[x].st = "none" ELSE bars'[x].st = "ok"
      <4>1. CASE x = s
        <5>1. from = Of(InstrumentOf, ticks, s)
          BY <1>3, <1>5, <1>6, <3>2 DEF Of
        <5>2. bars'[x].from = from /\ bars'[x].st = "ok"
          BY <1>6, <3>2, <4>1
        <5> QED BY <1>5, <4>1, <5>1, <5>2
      <4>2. CASE x # s
        <5>1. x \in Instruments \ imp.todo /\ bars'[x] = bars[x]
          BY <1>6, <3>2, <4>2
        <5> QED BY <1>1, <1>2, <1>6, <3>2, <5>1 DEF BarsAt
      <4> QED BY <4>1, <4>2
    <3> QED BY <1>1, <2>1, <3>1, <3>2 DEF BarsAt
  <2>6. {imp'.errors, imp'.ordered, imp'.done} \subseteq BOOLEAN /\ (imp'.done = TRUE => imp'.pc = "idle")
    <3>1. imp.ordered \in BOOLEAN
      BY <1>2, Zenon
    <3>2. imp'.errors \in BOOLEAN /\ imp'.ordered \in BOOLEAN /\ imp'.done = FALSE
      BY <1>6, <2>1, <3>1, Zenon
    <3>3. FALSE \in BOOLEAN /\ FALSE # TRUE
      OBVIOUS
    <3> QED BY <3>2, <3>3, Zenon
  <2> QED BY <1>1, <1>2, <1>6, <2>1, <2>2, <2>3, <2>4, <2>5, <2>6, InvNext
<1>7. CASE bars' = [bars EXCEPT ![s] = [st |-> "ok", from |-> from]] /\ imp' = [imp EXCEPT !.todo = @ \ {s}]
  <2>1. imp' = Rec("render", imp.todo \ {s}, imp.file, imp.override, imp.processed, imp.brokers, imp.errors, imp.ordered, imp.done, imp.runs)
    BY <1>1, <1>2, <1>7 DEF Shaped, Rec
  <2>2. /\ DOMAIN bars' = Instruments /\ bars'[s] = [st |-> "ok", from |-> from] /\ \A x \in Instruments \ {s} : bars'[x] = bars[x]
    BY <1>2, <1>7
  <2>3. PICK b : b = [st |-> "ok", from |-> from]
    OBVIOUS
  <2>4. b.st = "ok" /\ b.from = from
    BY <2>3
  <2> QED BY <1>2, <1>6, <2>1, <2>2, <2>3, <2>4
<1>8. CASE bars' = bars /\ imp' = [imp EXCEPT !.todo = @ \ {s}, !.errors = TRUE]
  <2>1. imp' = Rec("render", imp.todo \ {s}, imp.file, imp.override, imp.processed, imp.brokers, TRUE, imp.ordered, imp.done, imp.runs)
    BY <1>1, <1>2, <1>8 DEF Shaped, Rec
  <2>2. PICK b : b = bars[s]
    OBVIOUS
  <2> QED BY <1>2, <1>6, <1>8, <2>1, <2>2
<1>9. CASE bars' = [bars EXCEPT ![s] = [st |-> "torn", from |-> {}]] /\ imp' = [imp EXCEPT !.todo = @ \ {s}, !.errors = TRUE]
  <2>1. imp' = Rec("render", imp.todo \ {s}, imp.file, imp.override, imp.processed, imp.brokers, TRUE, imp.ordered, imp.done, imp.runs)
    BY <1>1, <1>2, <1>9 DEF Shaped, Rec
  <2>2. /\ DOMAIN bars' = Instruments /\ bars'[s] = [st |-> "torn", from |-> {}] /\ \A x \in Instruments \ {s} : bars'[x] = bars[x]
    BY <1>2, <1>9
  <2>3. PICK b : b = [st |-> "torn", from |-> {}]
    OBVIOUS
  <2>4. b.st # "ok"
    BY <2>3
  <2> QED BY <1>2, <1>6, <2>1, <2>2, <2>3, <2>4
<1> QED BY <1>4, <1>7, <1>8, <1>9, Zenon DEF RenderSymbol

\* The bar index, and the end of the run.
LEMMA UpdateKeeps ==
  ASSUME ArchiveInv, UpdateBarIndex
  PROVE  ArchiveInv'
<1>1. /\ content' = content /\ inbox' = inbox /\ finished' = finished /\ ticks' = ticks /\ index' = index /\ bars' = bars
      /\ imp.pc = "render" /\ imp.todo = {} /\ barIndex' = RebuiltBarIndex
      /\ imp' = [Idle(TRUE, imp.runs) EXCEPT !.errors = imp.errors, !.brokers = imp.brokers,
                                            !.processed = imp.processed, !.ordered = imp.ordered]
  BY DEF UpdateBarIndex
<1>2. /\ Shaped(imp) /\ {imp.errors, imp.ordered, imp.done} \subseteq BOOLEAN /\ (imp.done = TRUE => imp.pc = "idle")
      /\ content \in Contents /\ inbox \subseteq Collectable /\ ticks \in [Exports -> {"none", "torn", "ok"}] /\ DOMAIN bars = Instruments
      /\ FilesAt(GoodExports, inbox, ticks, imp.pc, imp.todo, imp.file, imp.errors)
      /\ KeptAt(GoodExports, InstrumentOf, inbox, finished, ticks, index, bars, barIndex)
      /\ IndexAt(ticks, index, MayFindNothing, imp.pc, imp.ordered, imp.done)
      /\ BarsAt(InstrumentOf, ticks, index, bars, barIndex, imp.pc, imp.todo, imp.processed, imp.brokers, imp.errors, imp.done)
  BY DEF ArchiveInv, ArchiveTypes
<1>3. imp' = Rec("idle", {}, "none", FALSE, imp.processed, imp.brokers, imp.errors, imp.ordered, TRUE, imp.runs)
  BY <1>1 DEF Idle, Rec
<1>4. /\ Shaped(imp') /\ imp'.pc = "idle" /\ imp'.todo = {} /\ imp'.brokers = imp.brokers /\ imp'.errors = imp.errors
      /\ imp'.ordered = imp.ordered /\ imp'.done = TRUE
  BY <1>3 DEF Rec, Shaped
<1>5. \A x \in barIndex' : \E e \in Mentioned(GoodExports, inbox, ticks) : InstrumentOf[e] = x
  BY <1>1, <1>2 DEF KeptAt, RebuiltBarIndex, ReadableBars
<1>6. KeptAt(GoodExports, InstrumentOf, inbox', finished', ticks', index', bars', barIndex')
  BY <1>1, <1>2, <1>5 DEF KeptAt
<1>7. FilesAt(GoodExports, inbox', ticks', imp'.pc, imp'.todo, imp'.file, imp'.errors)
  BY <1>4 DEF FilesAt
<1>8. IndexAt(ticks', index', MayFindNothing', imp'.pc, imp'.ordered, imp'.done)
  <2>1. MayFindNothing' <=> MayFindNothing
    BY <1>1, FindingsStay
  <2> QED BY <1>1, <1>2, <1>4, <2>1 DEF IndexAt
<1>9. ASSUME imp.errors = FALSE, NEW x \in Instruments, x[1] \in imp.brokers
      PROVE  /\ bars[x].from = Of(InstrumentOf, ticks, x)
             /\ x \in barIndex' <=> \E e \in Ok(ticks) : InstrumentOf[e] = x
  <2>1. /\ bars[x].from = Of(InstrumentOf, ticks, x)
        /\ IF Of(InstrumentOf, ticks, x) = {} THEN bars[x].st = "none" ELSE bars[x].st = "ok"
    BY <1>1, <1>2, <1>9 DEF BarsAt
  <2>3. Mentioned(GoodExports, inbox, ticks) \subseteq Ok(ticks)
    BY <1>1, <1>2, <1>9 DEF FilesAt, Mentioned, Ok
  <2>4. x \in barIndex' => \E e \in Ok(ticks) : InstrumentOf[e] = x
    BY <1>5, <2>3
  <2>5. ASSUME NEW e \in Ok(ticks), InstrumentOf[e] = x
        PROVE  x \in barIndex'
    <3>1. e \in Of(InstrumentOf, ticks, x)
      BY <2>5 DEF Of
    <3>2. bars[x].st = "ok"
      BY <2>1, <3>1
    <3> QED BY <1>1, <1>9, <3>2 DEF RebuiltBarIndex, ReadableBars
  <2> QED BY <2>1, <2>4, <2>5
<1>10. BarsAt(InstrumentOf, ticks', index', bars', barIndex', imp'.pc, imp'.todo, imp'.processed, imp'.brokers, imp'.errors, imp'.done)
  BY <1>1, <1>4, <1>9 DEF BarsAt
<1>11. {imp'.errors, imp'.ordered, imp'.done} \subseteq BOOLEAN /\ (imp'.done = TRUE => imp'.pc = "idle")
  BY <1>2, <1>4
<1> QED BY <1>1, <1>2, <1>4, <1>6, <1>7, <1>8, <1>10, <1>11, InvNext

\* The empty archive.
LEMMA ArchiveStarts ==
  ASSUME ArchiveInit
  PROVE  ArchiveInv
<1>1. PICK spent \in 0 .. MaxRuns :
      /\ content \in Contents /\ inbox \in SUBSET Collectable /\ finished = {}
      /\ ticks = [e \in Exports |-> "none"] /\ index = [exists |-> FALSE, files |-> {}]
      /\ bars = [s \in Instruments |-> NoBars] /\ barIndex = {} /\ imp = Idle(FALSE, spent)
  BY DEF ArchiveInit
<1>2. /\ Shaped(imp) /\ imp.pc = "idle" /\ imp.todo = {} /\ imp.errors = FALSE
      /\ imp.ordered = FALSE /\ imp.done = FALSE
  BY <1>1 DEF Idle, Rec, Shaped
<1>3. ArchiveTypes
  BY <1>1, <1>2 DEF ArchiveTypes
<1>4. KeptAt(GoodExports, InstrumentOf, inbox, finished, ticks, index, bars, barIndex)
  BY <1>1 DEF KeptAt, NoBars
<1>5. FilesAt(GoodExports, inbox, ticks, imp.pc, imp.todo, imp.file, imp.errors)
  BY <1>2 DEF FilesAt
<1>6. IndexAt(ticks, index, MayFindNothing, imp.pc, imp.ordered, imp.done)
  BY <1>2 DEF IndexAt
<1>7. BarsAt(InstrumentOf, ticks, index, bars, barIndex, imp.pc, imp.todo, imp.processed, imp.brokers, imp.errors, imp.done)
  BY <1>2 DEF BarsAt
<1> QED BY <1>3, <1>4, <1>5, <1>6, <1>7 DEF ArchiveInv

\* No step of the importer disturbs it.
LEMMA ArchiveSteps ==
  ASSUME ArchiveInv, [ArchiveNext]_archiveVars
  PROVE  ArchiveInv'
<1>1. CASE UNCHANGED archiveVars
  <2>1. /\ content' = content /\ inbox' = inbox /\ finished' = finished /\ ticks' = ticks /\ index' = index /\ bars' = bars
        /\ barIndex' = barIndex /\ imp' = imp
    BY <1>1 DEF archiveVars
  <2>2. MayFindNothing' <=> MayFindNothing
    BY <2>1, FindingsStay
  <2>3. ArchiveTypes /\ IndexAt(ticks', index', MayFindNothing', imp'.pc, imp'.ordered, imp'.done)
    BY <2>1, <2>2 DEF ArchiveInv, IndexAt
  <2> QED BY <2>1, <2>3, InvNext DEF ArchiveInv, ArchiveTypes
<1>2. CASE ArchiveNext
  BY <1>2, CollectKeeps, ConvertKeeps, StartKeeps, WriteKeeps, WriteFailsKeeps, MoveKeeps, AfterFilesKeeps, IndexRebuildKeeps,
     CleanKeeps, RenderKeeps, UpdateKeeps, CrashKeeps, Zenon DEF ArchiveNext
<1> QED BY <1>1, <1>2

\* What the invariant says of the disk.
LEMMA ArchiveRecovers ==
  ASSUME ArchiveInv
  PROVE  NoTickLost /\ IndexTrue /\ BarsFollowTicks
<1>1. /\ {imp.errors, imp.ordered, imp.done} \subseteq BOOLEAN /\ ticks \in [Exports -> {"none", "torn", "ok"}]
      /\ KeptAt(GoodExports, InstrumentOf, inbox, finished, ticks, index, bars, barIndex)
      /\ IndexAt(ticks, index, MayFindNothing, imp.pc, imp.ordered, imp.done)
      /\ BarsAt(InstrumentOf, ticks, index, bars, barIndex, imp.pc, imp.todo, imp.processed, imp.brokers, imp.errors, imp.done)
  BY DEF ArchiveInv, ArchiveTypes
<1>2. Readable = Ok(ticks)
  BY DEF Readable, Ok
<1>3. NoTickLost
  BY <1>1 DEF NoTickLost, KeptAt
<1>4. IndexTrue
  BY <1>1, <1>2 DEF IndexTrue, IndexAt
<1>5. BarsFollowTicks
  BY <1>1, <1>2 DEF BarsFollowTicks, BarsAt, Of
<1> QED BY <1>3, <1>4, <1>5

-----------------------------------------------------------------------------
(* What the validation passes                                              *)

\* A set of numbers that is not empty has a least one: well-foundedness of <
\* without an operator as a parameter, in place of an induction over data.
LEMMA LeastNumber ==
  ASSUME NEW T \in SUBSET Nat, T # {}
  PROVE  \E n \in T : \A m \in T : n <= m
<1> DEFINE less == {ss \in Nat \X Nat : ss[1] < ss[2]}
<1>1. IsWellFoundedOn(less, Nat)
  BY NatLessThanWellFounded DEF OpToRel
<1>3. \A m \in Nat, n \in Nat : m < n => <<m, n>> \in less
  OBVIOUS
<1>2. PICK n \in T : \A m \in T : ~ (<<m, n>> \in less)
  <2> HIDE DEF less
  <2> QED BY <1>1, WFMin
<1>4. \A m \in T : ~(m < n)
  <2> HIDE DEF less
  <2> QED BY <1>2, <1>3
<1> QED BY <1>4

\* A column that never steps back between neighbours never steps back.
LEMMA NeverBack ==
  ASSUME NEW n \in Nat, NEW f, \A i \in 1 .. n : f[i] \in Int, \A i \in 1 .. n - 1 : f[i] <= f[i + 1],
         NEW i \in 1 .. n, NEW j \in 1 .. n, i <= j
  PROVE  f[i] <= f[j]
<1> DEFINE T == {k \in 1 .. n : i <= k /\ ~(f[i] <= f[k])}
<1>1. CASE T = {}
  BY <1>1
<1>2. CASE T # {}
  <2>1. T \in SUBSET Nat
    OBVIOUS
  <2>2. PICK k \in T : \A m \in T : k <= m
    <3> HIDE DEF T
    <3> QED BY <1>2, <2>1, LeastNumber
  <2>3. k # i /\ k - 1 \in 1 .. n - 1 /\ i <= k - 1
    OBVIOUS
  <2>4. f[i] <= f[k - 1]
    BY <2>2, <2>3
  <2>5. f[k - 1] <= f[k]
    BY <2>3
  <2> QED BY <2>3, <2>4, <2>5
<1> QED BY <1>1, <1>2

\* A stretch of integers has a least one.
LEMMA LeastOf ==
  ASSUME NEW a \in Nat, NEW b \in Nat, a <= b, NEW f, \A i \in a .. b : f[i] \in Int
  PROVE  \E k \in a .. b : \A i \in a .. b : f[k] <= f[i]
<1>1. PICK H : H = {m \in a .. b : \E k \in a .. m : \A i \in a .. m : f[k] <= f[i]}
  OBVIOUS
<1>2. PICK T : T = {m \in a .. b : m \notin H}
  OBVIOUS
<1>3. CASE T = {}
  BY <1>1, <1>2, <1>3
<1>4. CASE T # {}
  <2>1. T \in SUBSET Nat
    BY <1>2
  <2>2. PICK m \in T : \A x \in T : m <= x
    BY <1>4, <2>1, LeastNumber
  <2>3. a \in H
    <3>1. a \in a .. b /\ f[a] \in Int /\ \A i \in a .. a : i = a
      OBVIOUS
    <3>2. a \in a .. a
      OBVIOUS
    <3>3. f[a] <= f[a]
      BY <3>1
    <3>4. \A i \in a .. a : f[a] <= f[i]
      BY <3>1, <3>3
    <3> QED BY <1>1, <3>1, <3>2, <3>4
  <2>4. m # a /\ m - 1 \in a .. b /\ m \in a .. b /\ m \notin H
    BY <1>2, <2>3
  <2>5. m - 1 \in H
    BY <1>2, <2>2, <2>4
  <2>6. PICK k \in a .. m - 1 : \A i \in a .. m - 1 : f[k] <= f[i]
    BY <1>1, <2>5
  <2>7. f[k] \in Int /\ f[m] \in Int /\ k \in a .. m /\ m \in a .. m
    BY <2>4
  <2>8. \A i \in a .. m : i = m \/ i \in a .. m - 1
    BY <2>4
  <2>9. CASE f[k] <= f[m]
    <3>1. \A i \in a .. m : f[k] <= f[i]
      BY <2>6, <2>8, <2>9
    <3> QED BY <1>1, <2>4, <2>7, <3>1
  <2>10. CASE ~(f[k] <= f[m])
    <3>1. \A i \in a .. m - 1 : f[i] \in Int
      BY <2>4
    <3>2. \A i \in a .. m - 1 : f[m] <= f[i]
      BY <2>6, <2>7, <2>10, <3>1
    <3>3. f[m] <= f[m]
      BY <2>7
    <3>4. \A i \in a .. m : f[m] <= f[i]
      BY <2>8, <3>2, <3>3
    <3> QED BY <1>1, <2>4, <2>7, <3>4
  <2> QED BY <2>9, <2>10
<1> QED BY <1>3, <1>4

\* The columns of a file are integers.
LEMMA Columns ==
  ASSUME NEW ts \in Seq(TickRecords)
  PROVE  /\ Len(ts) \in Nat /\ DOMAIN ts = 1 .. Len(ts)
         /\ \A i \in 1 .. Len(ts) : /\ ts[i].stamp \in Int /\ ts[i].time \in Int /\ ts[i].collected \in Int
                                    /\ Lag(ts[i]) \in Int
<1>1. Len(ts) \in Nat /\ DOMAIN ts = 1 .. Len(ts)
  OBVIOUS
<1>2. \A i \in 1 .. Len(ts) : ts[i] \in TickRecords
  BY <1>1
<1>3. \A r \in TickRecords : r.stamp \in Int /\ r.time \in Int /\ r.collected \in Int
  BY DEF TickRecords
<1>4. \A r \in TickRecords : Lag(r) \in Int
  BY <1>3 DEF Lag
<1> QED BY <1>1, <1>2, <1>3, <1>4

\* Every place lies in a stretch without a break inside, that ends at one and
\* begins after one.
LEMMA Stretch ==
  ASSUME NEW n \in Nat, NEW i \in 1 .. n, NEW B, B \subseteq 1 .. n - 1
  PROVE  \E b \in i .. n, a \in 1 .. i :
           /\ b = n \/ b \in B
           /\ a = 1 \/ a - 1 \in B
           /\ \A k \in a .. b - 1 : k \notin B
           /\ i \in B => b = i
           /\ i - 1 \in B => a = i
<1>1. PICK b \in i .. n : (b = n \/ b \in B) /\ \A k \in i .. n : (k = n \/ k \in B) => b <= k
  <2>1. PICK T : T = {k \in i .. n : k = n \/ k \in B}
    OBVIOUS
  <2>2. n \in T /\ T \in SUBSET Nat
    BY <2>1
  <2>3. PICK b \in T : \A k \in T : b <= k
    BY <2>2, LeastNumber
  <2> QED BY <2>1, <2>3
<1>2. PICK d \in 0 .. i - 1 : /\ i - d = 1 \/ i - d - 1 \in B
                              /\ \A k \in 0 .. i - 1 : (i - k = 1 \/ i - k - 1 \in B) => d <= k
  <2>1. PICK T : T = {k \in 0 .. i - 1 : i - k = 1 \/ i - k - 1 \in B}
    OBVIOUS
  <2>2. i - 1 \in T /\ T \in SUBSET Nat
    BY <2>1
  <2>3. PICK d \in T : \A k \in T : d <= k
    BY <2>2, LeastNumber
  <2> QED BY <2>1, <2>3
<1>3. PICK a \in 1 .. i : a = i - d
  OBVIOUS
<1>4. a = 1 \/ a - 1 \in B
  BY <1>2, <1>3
<1>5. \A k \in i .. b - 1 : k \notin B
  BY <1>1
<1>6. ASSUME NEW k \in a .. i - 1, k \in B
      PROVE  FALSE
  <2>1. PICK m \in 0 .. i - 1 : m = i - 1 - k
    BY <1>3
  <2>2. i - m - 1 = k
    BY <2>1
  <2>3. d <= m
    BY <1>2, <1>6, <2>2
  <2> QED BY <1>3, <2>1, <2>3
<1>7. \A k \in a .. b - 1 : k \in a .. i - 1 \/ k \in i .. b - 1
  OBVIOUS
<1>8. \A k \in a .. b - 1 : k \notin B
  BY <1>5, <1>6, <1>7
<1>9. i \in B => b = i
  BY <1>1
<1>10. i - 1 \in B => a = i
  <2>1. ASSUME a # i
        PROVE  i - 1 \notin B
    <3>1. i - 1 \in a .. i - 1
      BY <2>1
    <3> QED BY <1>6, <3>1
  <2> QED BY <2>1
<1> QED BY <1>1, <1>4, <1>8, <1>9, <1>10

\* Every tick lies in a segment, which ends where the clock jumps after it and
\* begins where it jumped before it.
LEMMA SegmentOf ==
  ASSUME NEW ts \in Seq(TickRecords), NEW i \in DOMAIN ts
  PROVE  \E seg \in AnchorSegments(ts) :
           /\ seg[1] \in 1 .. i /\ seg[2] \in i .. Len(ts)
           /\ i \in Breaks(ts) => seg[2] = i
           /\ i - 1 \in Breaks(ts) => seg[1] = i
<1>0. Len(ts) \in Nat /\ DOMAIN ts = 1 .. Len(ts) /\ i \in 1 .. Len(ts) /\ Breaks(ts) \subseteq 1 .. Len(ts) - 1
  <2>1. Breaks(ts) \subseteq 1 .. Len(ts) - 1
    BY DEF Breaks, Steps
  <2> QED BY <2>1, Columns
<1>1. PICK B : B = Breaks(ts)
  OBVIOUS
<1>7. PICK n : n = Len(ts)
  OBVIOUS
<1>8. n \in Nat /\ i \in 1 .. n /\ B \subseteq 1 .. n - 1
  BY <1>0, <1>1, <1>7
<1>2. PICK b \in i .. n, a \in 1 .. i :
        /\ b = n \/ b \in B
        /\ a = 1 \/ a - 1 \in B
        /\ \A k \in a .. b - 1 : k \notin B
        /\ i \in B => b = i
        /\ i - 1 \in B => a = i
  BY <1>8, Stretch
<1>3. PICK seg : seg = <<a, b>>
  OBVIOUS
<1>4. seg[1] = a /\ seg[2] = b
  BY <1>3
<1>5. a \in DOMAIN ts /\ b \in DOMAIN ts /\ a <= b
  BY <1>0, <1>7, <1>8
<1>6. seg \in AnchorSegments(ts)
  <2>1. seg \in (DOMAIN ts) \X (DOMAIN ts)
    BY <1>3, <1>5
  <2> QED BY <1>1, <1>2, <1>4, <1>5, <1>7, <2>1 DEF AnchorSegments
<1> QED BY <1>1, <1>2, <1>4, <1>6, <1>7

\* The least delayed tick of a segment is one of its ticks.
LEMMA LeastLagTrue ==
  ASSUME NEW ts \in Seq(TickRecords), NEW seg \in AnchorSegments(ts)
  PROVE  /\ seg[1] \in 1 .. Len(ts) /\ seg[2] \in 1 .. Len(ts)
         /\ \E k \in seg[1] .. seg[2] : LeastLag(ts, seg) = Lag(ts[k])
         /\ \A k \in seg[1] .. seg[2] : Lag(ts[k]) \in Int /\ LeastLag(ts, seg) <= Lag(ts[k])
<1>1. seg \in (DOMAIN ts) \X (DOMAIN ts) /\ seg[1] <= seg[2]
  BY DEF AnchorSegments
<1>2. PICK a, b : a = seg[1] /\ b = seg[2]
  OBVIOUS
<1>3. a \in 1 .. Len(ts) /\ b \in 1 .. Len(ts) /\ a <= b /\ Len(ts) \in Nat
  BY <1>1, <1>2, Columns
<1>4. \A i \in a .. b : i \in 1 .. Len(ts)
  BY <1>3
<1>5. \A i \in a .. b : Lag(ts[i]) \in Int
  BY <1>4, Columns
<1>6. PICK f : f = [i \in a .. b |-> Lag(ts[i])]
  OBVIOUS
<1>7. \A i \in a .. b : f[i] \in Int
  BY <1>5, <1>6
<1>8. a \in Nat /\ b \in Nat /\ a <= b
  BY <1>3
<1>9. PICK k \in a .. b : \A i \in a .. b : f[k] <= f[i]
  BY <1>7, <1>8, LeastOf
<1>10. \A i \in a .. b : Lag(ts[k]) <= Lag(ts[i])
  BY <1>6, <1>9
<1>11. PICK S : S = {Lag(ts[i]) : i \in a .. b}
  OBVIOUS
<1>12. \E l \in S : \A i \in a .. b : l <= Lag(ts[i])
  BY <1>10, <1>11
<1>13. LeastLag(ts, seg) = CHOOSE l \in S : \A i \in a .. b : l <= Lag(ts[i])
  BY <1>2, <1>11 DEF LeastLag
<1>14. LeastLag(ts, seg) \in S /\ \A i \in a .. b : LeastLag(ts, seg) <= Lag(ts[i])
  BY <1>12, <1>13
<1> QED BY <1>2, <1>3, <1>5, <1>11, <1>14

\* The tolerated lag is a number; larger than the provers like to see written out.
LEMMA PlausibleNumber ==
  PlausibleLag \in Nat
BY SMT DEF PlausibleLag

\* What validate_file makes sure of in a file with the times of its ticks.
LEMMA ValidFile ==
  ASSUME NEW ts \in Seq(TickRecords), NEW x, FileValid(ts, x), x.timed
  PROVE  /\ \A i, j \in DOMAIN ts : i <= j => ts[i].time <= ts[j].time /\ ts[i].collected <= ts[j].collected
         /\ \A i \in DOMAIN ts : ts[i].stamp - ts[i].time \in -TimestampTolerance .. TimestampTolerance
         /\ AnyArrival(ts) =>
              /\ \A i \in DOMAIN ts : ts[i].collected >= ts[i].time - PlausibleLag
              /\ \A i \in 1 .. Len(ts) - 1 :
                    ts[i + 1].collected - ts[i].collected > SegmentSplitForward =>
                      (\E j \in 1 .. i : Lag(ts[j]) \in -PlausibleLag .. PlausibleLag)
                      /\ (\E j \in i + 1 .. Len(ts) : Lag(ts[j]) \in -PlausibleLag .. PlausibleLag)
<1>1. PICK n : n = Len(ts)
  OBVIOUS
<1>2. PICK f : f = [k \in DOMAIN ts |-> ts[k].time]
  OBVIOUS
<1>3. PICK g : g = [k \in DOMAIN ts |-> ts[k].collected]
  OBVIOUS
<1>4. PICK h : h = [k \in DOMAIN ts |-> ts[k].stamp]
  OBVIOUS
<1>5. DOMAIN ts = 1 .. n /\ n \in Nat
  BY <1>1, Columns
<1>6. \A k \in 1 .. n : /\ f[k] = ts[k].time /\ g[k] = ts[k].collected /\ h[k] = ts[k].stamp
                        /\ f[k] \in Int /\ g[k] \in Int /\ h[k] \in Int
  <2>1. \A k \in 1 .. n : f[k] = ts[k].time /\ g[k] = ts[k].collected /\ h[k] = ts[k].stamp
    BY <1>2, <1>3, <1>4, <1>5
  <2>2. \A k \in 1 .. n : ts[k].stamp \in Int /\ ts[k].time \in Int /\ ts[k].collected \in Int
    BY <1>1, Columns
  <2> QED BY <2>1, <2>2
<1>7. \A k \in 1 .. n : Lag(ts[k]) = g[k] - f[k]
  BY <1>6 DEF Lag
<1>8. ~StepsBack(ts) /\ ~StampsWrong(ts) /\ ~LagWrong(ts)
  BY DEF FileValid
<1>9. \A k \in 1 .. n - 1 : k \in 1 .. n /\ k + 1 \in 1 .. n
  BY <1>5
<1>10. \A k \in 1 .. n - 1 : f[k] <= f[k + 1] /\ g[k] <= g[k + 1]
  <2>1. \A k \in 1 .. n - 1 : ~(ts[k + 1].time < ts[k].time) /\ ~(ts[k + 1].collected < ts[k].collected)
    BY <1>1, <1>8 DEF StepsBack, Steps
  <2>2. \A k \in 1 .. n - 1 : ~(f[k + 1] < f[k]) /\ ~(g[k + 1] < g[k])
    BY <1>6, <1>9, <2>1
  <2> QED BY <1>6, <1>9, <2>2
<1>11. ASSUME NEW i \in 1 .. n, NEW j \in 1 .. n, i <= j
       PROVE  f[i] <= f[j] /\ g[i] <= g[j]
  <2>1. (\A k \in 1 .. n : f[k] \in Int) /\ (\A k \in 1 .. n : g[k] \in Int)
    BY <1>6
  <2>2. (\A k \in 1 .. n - 1 : f[k] <= f[k + 1]) /\ (\A k \in 1 .. n - 1 : g[k] <= g[k + 1])
    BY <1>10
  <2>3. f[i] <= f[j]
    BY <1>5, <1>11, <2>1, <2>2, NeverBack
  <2>4. g[i] <= g[j]
    BY <1>5, <1>11, <2>1, <2>2, NeverBack
  <2> QED BY <2>3, <2>4
<1>12. \A i, j \in DOMAIN ts : i <= j => ts[i].time <= ts[j].time /\ ts[i].collected <= ts[j].collected
  BY <1>5, <1>6, <1>11
<1>13. \A i \in DOMAIN ts : ts[i].stamp - ts[i].time \in -TimestampTolerance .. TimestampTolerance
  <2>1. \A i \in 1 .. n : ~(ts[i].stamp - ts[i].time > TimestampTolerance)
                          /\ ~(ts[i].time - ts[i].stamp > TimestampTolerance)
    BY <1>5, <1>8 DEF StampsWrong
  <2>2. \A i \in 1 .. n : ~(h[i] - f[i] > TimestampTolerance) /\ ~(f[i] - h[i] > TimestampTolerance)
    BY <1>6, <2>1
  <2>3. \A i \in 1 .. n : h[i] - f[i] \in -TimestampTolerance .. TimestampTolerance
    <3>1. TimestampTolerance \in Nat
      BY SMT DEF TimestampTolerance
    <3>2. \A a, b \in Int : ~(a - b > TimestampTolerance) /\ ~(b - a > TimestampTolerance) =>
                             a - b \in -TimestampTolerance .. TimestampTolerance
      BY <3>1
    <3> QED BY <1>6, <2>2, <3>2
  <2> QED BY <1>5, <1>6, <2>3
<1>14. ASSUME AnyArrival(ts), NEW seg \in AnchorSegments(ts)
       PROVE  LeastLag(ts, seg) \in -PlausibleLag .. PlausibleLag
  <2>1. PICK k \in seg[1] .. seg[2] : LeastLag(ts, seg) = Lag(ts[k]) /\ Lag(ts[k]) \in Int
    BY LeastLagTrue
  <2>2. PICK l : l = LeastLag(ts, seg)
    OBVIOUS
  <2>3. l \in Int
    BY <2>1, <2>2
  <2>4. ~(l > PlausibleLag) /\ ~(l < -PlausibleLag)
    BY <1>8, <1>14, <2>2 DEF LagWrong
  <2>5. l \in -PlausibleLag .. PlausibleLag
    BY <2>3, <2>4, PlausibleNumber
  <2> QED BY <2>2, <2>5
<1>15. ASSUME AnyArrival(ts), NEW i \in 1 .. n
       PROVE  ts[i].collected >= ts[i].time - PlausibleLag
  <2>1. PICK seg \in AnchorSegments(ts) : seg[1] \in 1 .. i /\ seg[2] \in i .. n
    BY <1>1, <1>5, SegmentOf
  <2>2. i \in seg[1] .. seg[2]
    <3>1. PICK a, b : a = seg[1] /\ b = seg[2]
      OBVIOUS
    <3>2. a \in 1 .. i /\ b \in i .. n
      BY <2>1, <3>1
    <3>3. i \in a .. b
      BY <1>5, <3>2
    <3> QED BY <3>1, <3>3
  <2>3. LeastLag(ts, seg) <= Lag(ts[i])
    BY <2>2, LeastLagTrue
  <2>4. PICK l : l = LeastLag(ts, seg)
    OBVIOUS
  <2>5. l \in -PlausibleLag .. PlausibleLag /\ l <= g[i] - f[i]
    BY <1>7, <1>14, <1>15, <2>3, <2>4
  <2>6. g[i] >= f[i] - PlausibleLag
    <3>1. \A a, b \in Int : l <= b - a => b >= a - PlausibleLag
      BY <2>5, PlausibleNumber
    <3> QED BY <1>6, <2>5, <3>1
  <2> QED BY <1>6, <2>6
<1>16. ASSUME AnyArrival(ts), NEW i \in 1 .. n - 1, ts[i + 1].collected - ts[i].collected > SegmentSplitForward
       PROVE  /\ \E j \in 1 .. i : Lag(ts[j]) \in -PlausibleLag .. PlausibleLag
              /\ \E j \in i + 1 .. n : Lag(ts[j]) \in -PlausibleLag .. PlausibleLag
  <2>1. PICK m : m = i + 1
    OBVIOUS
  <2>2. i \in 1 .. n /\ m \in 1 .. n /\ m - 1 = i
    BY <1>5, <2>1
  <2>3. i \in Breaks(ts)
    BY <1>1, <1>16 DEF Breaks, Steps
  <2>4. PICK seg \in AnchorSegments(ts) : seg[1] \in 1 .. i /\ seg[2] = i
    BY <1>5, <2>2, <2>3, SegmentOf
  <2>5. PICK k \in seg[1] .. seg[2] : LeastLag(ts, seg) = Lag(ts[k])
    BY LeastLagTrue
  <2>6. PICK seh \in AnchorSegments(ts) : seh[2] \in m .. n /\ seh[1] = m
    BY <1>1, <1>5, <2>2, <2>3, SegmentOf
  <2>7. PICK l \in seh[1] .. seh[2] : LeastLag(ts, seh) = Lag(ts[l])
    BY LeastLagTrue
  <2>8. Lag(ts[k]) \in -PlausibleLag .. PlausibleLag /\ Lag(ts[l]) \in -PlausibleLag .. PlausibleLag
    BY <1>14, <1>16, <2>5, <2>7
  <2>9. k \in 1 .. i
    <3>1. PICK a : a = seg[1]
      OBVIOUS
    <3>2. a \in 1 .. i /\ k \in a .. i
      BY <2>4, <2>5, <3>1
    <3> QED BY <3>2
  <2>10. l \in m .. n
    <3>1. PICK b : b = seh[2]
      OBVIOUS
    <3>2. b \in m .. n /\ l \in m .. b
      BY <2>6, <2>7, <3>1
    <3> QED BY <1>5, <2>2, <3>2
  <2> QED BY <2>1, <2>8, <2>9, <2>10
<1>17. AnyArrival(ts) => \A i \in DOMAIN ts : ts[i].collected >= ts[i].time - PlausibleLag
  BY <1>5, <1>15
<1>18. AnyArrival(ts) =>
         \A i \in 1 .. Len(ts) - 1 :
           ts[i + 1].collected - ts[i].collected > SegmentSplitForward =>
             (\E j \in 1 .. i : Lag(ts[j]) \in -PlausibleLag .. PlausibleLag)
             /\ (\E j \in i + 1 .. Len(ts) : Lag(ts[j]) \in -PlausibleLag .. PlausibleLag)
  BY <1>1, <1>16
<1> QED BY <1>12, <1>13, <1>17, <1>18

\* Where every stretch begins no more than d before the last one ended, one
\* that is so many places on begins no more than as many d before.
LEMMA Chained ==
  ASSUME NEW n \in Nat, NEW d \in Nat, NEW f, NEW l,
         \A k \in 1 .. n : f[k] \in Int /\ l[k] \in Int /\ f[k] <= l[k],
         \A k \in 1 .. n - 1 : f[k + 1] >= l[k] - d,
         NEW i \in 1 .. n, NEW j \in 1 .. n, i < j
  PROVE  f[j] >= l[i] - d * (j - i)
<1>1. PICK T : T = {k \in i + 1 .. n : ~(f[k] >= l[i] - d * (k - i))}
  OBVIOUS
<1>2. CASE T = {}
  BY <1>1, <1>2
<1>3. CASE T # {}
  <2>1. T \in SUBSET Nat
    BY <1>1
  <2>2. PICK k \in T : \A m \in T : k <= m
    BY <1>3, <2>1, LeastNumber
  <2>3. k \in i + 1 .. n /\ ~(f[k] >= l[i] - d * (k - i))
    BY <1>1, <2>2
  <2>4. PICK p : p = k - 1
    OBVIOUS
  <2>5. p \in i .. n - 1 /\ p \in 1 .. n /\ k = p + 1 /\ k \in 1 .. n
    BY <2>3, <2>4
  <2>6. f[k] >= l[p] - d /\ f[p] <= l[p] /\ f[k] \in Int /\ f[p] \in Int /\ l[p] \in Int /\ l[i] \in Int
    BY <2>5
  <2>7. CASE p = i
    <3>1. k - i = 1
      BY <2>5, <2>7
    <3>2. d * (k - i) = d
      BY <3>1
    <3> QED BY <2>3, <2>6, <2>7, <3>2
  <2>8. CASE p # i
    <3>1. p \in i + 1 .. n /\ p \notin T
      BY <2>2, <2>5, <2>8
    <3>2. f[p] >= l[i] - d * (p - i)
      BY <1>1, <3>1
    <3>3. PICK x \in Int : x = p - i
      BY <2>5
    <3>4. k - i = x + 1
      BY <2>5, <3>3
    <3>5. d * (x + 1) = d * x + d
      OBVIOUS
    <3>6. PICK y \in Int : y = d * x
      OBVIOUS
    <3>7. f[p] >= l[i] - y /\ ~(f[k] >= l[i] - (y + d))
      BY <2>3, <3>2, <3>3, <3>4, <3>5, <3>6
    <3> QED BY <2>6, <3>7
  <2> QED BY <2>7, <2>8
<1> QED BY <1>2, <1>3

\* A tick moved to UTC is a tick.
LEMMA MovedTick ==
  ASSUME NEW ms \in Int, NEW r \in TickRecords
  PROVE  Moved(r, ms) \in TickRecords
<1>1. r = [stamp |-> r.stamp, time |-> r.time, collected |-> r.collected, bid |-> r.bid, ask |-> r.ask]
  BY DEF TickRecords
<1>2. r.stamp \in Int /\ r.time \in Int /\ r.collected \in Int /\ r.bid \in Int /\ r.ask \in Int
  BY SMT DEF TickRecords
<1>3. PICK u, v : u = r.stamp + ms /\ v = r.time + ms
  OBVIOUS
<1>4. Moved(r, ms) = [r EXCEPT !.stamp = u, !.time = v]
  BY <1>3, Zenon DEF Moved
<1>5. PICK q : q = [r EXCEPT !.stamp = u, !.time = v]
  OBVIOUS
<1>6. q = [stamp |-> u, time |-> v, collected |-> r.collected, bid |-> r.bid, ask |-> r.ask]
  BY <1>1, <1>5
<1>7. u \in Int /\ v \in Int
  BY <1>2, <1>3, SMT
<1>8. q \in TickRecords
  BY <1>2, <1>7, <1>6, SMT DEF TickRecords
<1> QED BY <1>4, <1>5, <1>8, Zenon

\* A file in the archive: the ticks of a good export, moved to UTC.
LEMMA GoodFile ==
  ASSUME ArchiveInv, NEW e \in Readable
  PROVE  /\ ApplyTimeOffset(content[e]) \in Seq(TickRecords) /\ ApplyTimeOffset(content[e]) # <<>>
         /\ FileValid(ApplyTimeOffset(content[e]), content[e])
<1>1. e \in Exports /\ e \in GoodExports
  BY DEF ArchiveInv, KeptAt, Readable
<1>2. content[e] # NoExport /\ Verdict(content[e]) = "good" /\ content \in Contents
  BY <1>1 DEF GoodExports, Collectable, VerdictOf, ArchiveInv, ArchiveTypes
<1>3. PICK x : x = content[e]
  OBVIOUS
<1>4. x.ticks \in Seq(TickRecords)
  BY <1>1, <1>2, <1>3, ExportsAssumption
<1>5. x.ticks # <<>> /\ BrokerType(x) \in BrokerTypes /\ FileValid(ApplyTimeOffset(x), x)
  BY <1>2, <1>3 DEF Verdict
<1>6. PICK ms \in Int : ms = OffsetHours[BrokerType(x)] * 3600000
  <2>1. OffsetHours[BrokerType(x)] \in Int
    BY <1>5, ExportsAssumption
  <2> QED BY <2>1, SMT
<1>7. PICK n \in Nat : n = Len(x.ticks) /\ DOMAIN x.ticks = 1 .. n
  BY <1>4
<1>8. ApplyTimeOffset(x) = [i \in 1 .. n |-> Moved(x.ticks[i], ms)]
  BY <1>6, <1>7, SMT DEF ApplyTimeOffset
<1>9. \A i \in 1 .. n : Moved(x.ticks[i], ms) \in TickRecords
  BY <1>4, <1>7, MovedTick
<1>10. ApplyTimeOffset(x) \in [1 .. n -> TickRecords]
  BY <1>8, <1>9, Zenon
<1>11. ApplyTimeOffset(x) \in Seq(TickRecords)
  BY <1>10, SeqDef, Zenon
<1>12. n # 0
  BY <1>4, <1>5, <1>7
<1>13. ApplyTimeOffset(x) # <<>>
  <2>1. DOMAIN ApplyTimeOffset(x) = 1 .. n
    BY <1>10
  <2>2. 1 \in 1 .. n
    BY <1>7, <1>12
  <2> QED BY <2>1, <2>2
<1> QED BY <1>3, <1>5, <1>11, <1>13

\* What the validation of one file passes is so.
LEMMA ArchiveAccepted ==
  ASSUME ArchiveInv
  PROVE  AcceptedTrue
<1>1. ASSUME NEW e \in Readable, NEW ts, ts = ApplyTimeOffset(content[e]), content[e].timed
      PROVE  /\ \A i, j \in DOMAIN ts : i < j => ts[i].time <= ts[j].time /\ ts[i].collected <= ts[j].collected
             /\ AnyArrival(ts) =>
                  /\ \A i \in DOMAIN ts : ts[i].collected >= ts[i].time - PlausibleLag
                  /\ \A i \in 1 .. Len(ts) - 1 :
                        ts[i + 1].collected - ts[i].collected > SegmentSplitForward =>
                          (\E j \in 1 .. i : Lag(ts[j]) \in -PlausibleLag .. PlausibleLag)
                          /\ (\E j \in i + 1 .. Len(ts) : Lag(ts[j]) \in -PlausibleLag .. PlausibleLag)
  <2>1. ts \in Seq(TickRecords) /\ FileValid(ts, content[e])
    BY <1>1, GoodFile
  <2>2. PICK x : x = content[e]
    OBVIOUS
  <2>3. FileValid(ts, x) /\ x.timed
    BY <1>1, <2>1, <2>2
  <2>4. \A i, j \in DOMAIN ts : i <= j => ts[i].time <= ts[j].time /\ ts[i].collected <= ts[j].collected
    BY <2>1, <2>3, ValidFile
  <2>5. \A i, j \in DOMAIN ts : i < j => i <= j
    BY <2>1
  <2> QED BY <2>1, <2>3, <2>4, <2>5, ValidFile
<1> QED BY <1>1 DEF AcceptedTrue

\* Of a file with the times of its ticks: the index's bounds enclose them.
LEMMA FileBounds ==
  ASSUME NEW ts \in Seq(TickRecords), ts # <<>>, NEW x, FileValid(ts, x), x.timed
  PROVE  \E f, l \in Int :
           /\ f <= l
           /\ f >= IndexEntry(ts).start - TimestampTolerance
           /\ l <= IndexEntry(ts).end + TimestampTolerance
           /\ IndexEntry(ts).start \in Int /\ IndexEntry(ts).end \in Int
           /\ IndexEntry(ts).cstart \in Int /\ IndexEntry(ts).cend \in Int
           /\ IndexEntry(ts).cstart <= IndexEntry(ts).cend
           /\ \A a \in Range(ts) : /\ a.time \in Int /\ f <= a.time /\ a.time <= l
                                   /\ a.collected \in Int
                                   /\ IndexEntry(ts).cstart <= a.collected /\ a.collected <= IndexEntry(ts).cend
<1>1. PICK n \in Nat : n = Len(ts) /\ DOMAIN ts = 1 .. n
  BY Columns
<1>2. n # 0
  BY <1>1
<1>3. 1 \in 1 .. n /\ n \in 1 .. n
  BY <1>2
<1>4. IndexEntry(ts).start = ts[1].stamp /\ IndexEntry(ts).end = ts[n].stamp
      /\ IndexEntry(ts).cstart = ts[1].collected /\ IndexEntry(ts).cend = ts[n].collected
  <2>1. Head(ts) = ts[1] /\ Last(ts) = ts[n]
    BY <1>1 DEF Last
  <2> QED BY <2>1, Zenon DEF IndexEntry
<1>5. \A i \in 1 .. n : ts[i].stamp \in Int /\ ts[i].time \in Int /\ ts[i].collected \in Int
  BY <1>1, Columns
<1>6. \A i \in 1 .. n : /\ ts[1].time <= ts[i].time /\ ts[i].time <= ts[n].time
                        /\ ts[1].collected <= ts[i].collected /\ ts[i].collected <= ts[n].collected
  <2>1. \A i, j \in 1 .. n : i <= j => ts[i].time <= ts[j].time /\ ts[i].collected <= ts[j].collected
    BY <1>1, ValidFile
  <2>2. \A i \in 1 .. n : 1 <= i /\ i <= n
    OBVIOUS
  <2> QED BY <1>3, <2>1, <2>2
<1>7. \A i \in 1 .. n : ts[i].stamp - ts[i].time \in -TimestampTolerance .. TimestampTolerance
  BY <1>1, ValidFile
<1>8. TimestampTolerance \in Nat
  BY SMT DEF TimestampTolerance
<1>9. \A s, t \in Int : s - t \in -TimestampTolerance .. TimestampTolerance =>
                          t >= s - TimestampTolerance /\ t <= s + TimestampTolerance
  BY <1>8
<1>10. ts[1].time >= ts[1].stamp - TimestampTolerance /\ ts[n].time <= ts[n].stamp + TimestampTolerance
  BY <1>3, <1>5, <1>7, <1>9
<1>11. \A a \in Range(ts) : \E i \in 1 .. n : a = ts[i]
  BY <1>1 DEF Range
<1>12. \A a \in Range(ts) : /\ a.time \in Int /\ ts[1].time <= a.time /\ a.time <= ts[n].time
                            /\ a.collected \in Int /\ ts[1].collected <= a.collected /\ a.collected <= ts[n].collected
  BY <1>5, <1>6, <1>11
<1>13. ts[1].time <= ts[n].time /\ ts[1].collected <= ts[n].collected
  BY <1>3, <1>6
<1> QED BY <1>3, <1>4, <1>5, <1>10, <1>12, <1>13, Zenon

\* A finite set in some order is a sequence without repetitions.
LEMMA InOrder ==
  ASSUME NEW s, NEW order \in ByStart(FilesOf(s))
  PROVE  \E n \in Nat : /\ order \in [1 .. n -> FilesOf(s)] /\ Len(order) = n /\ DOMAIN order = 1 .. n
<1>1. PICK S : S = {e \in Readable : InstrumentOf[e] = s}
  OBVIOUS
<1>2. PICK f : f = [e \in S |-> ApplyTimeOffset(content[e])]
  OBVIOUS
<1>3. IsFiniteSet(S)
  <2>1. S \in SUBSET Exports
    BY <1>1 DEF Readable
  <2> QED BY <2>1, FS_Subset, ExportsAssumption
<1>4. f \in Surjection(S, FilesOf(s))
  <2>1. FilesOf(s) = {ApplyTimeOffset(content[e]) : e \in S}
    BY <1>1, Zenon DEF FilesOf
  <2>2. \A e \in S : f[e] = ApplyTimeOffset(content[e])
    BY <1>2, Zenon
  <2>3. f \in [S -> FilesOf(s)]
    BY <1>2, <2>1, Zenon
  <2>4. \A t \in FilesOf(s) : \E e \in S : f[e] = t
    BY <2>1, <2>2, Zenon
  <2> QED BY <2>3, <2>4, Zenon DEF Surjection
<1>5. IsFiniteSet(FilesOf(s))
  BY <1>3, <1>4, FS_Surjection
<1>6. PICK n \in Nat : n = Cardinality(FilesOf(s))
  BY <1>5, FS_CardinalityType
<1>7. order \in SetToSeqs(FilesOf(s))
  BY DEF ByStart
<1>8. order \in [1 .. n -> FilesOf(s)]
  BY <1>6, <1>7, Zenon DEF SetToSeqs
<1>9. DOMAIN order = 1 .. n
  BY <1>8
<1>10. order \in Seq(FilesOf(s))
  BY <1>8, SeqDef, Zenon
<1>11. Len(order) = n
  BY <1>9, <1>10, LenProperties
<1> QED BY <1>8, <1>9, <1>11

\* Silence about the order of the archive means that it can be read in one go.
LEMMA ArchiveInOrder ==
  ASSUME ArchiveInv
  PROVE  ArchiveOrdered
<1>1. ASSUME imp.done, imp.ordered
      PROVE  MayFindNothing
  <2>1. {imp.errors, imp.ordered, imp.done} \subseteq BOOLEAN
        /\ IndexAt(ticks, index, MayFindNothing, imp.pc, imp.ordered, imp.done)
    BY DEF ArchiveInv, ArchiveTypes
  <2>2. imp.done = TRUE /\ imp.ordered = TRUE
    BY <1>1, <2>1, Zenon
  <2> QED BY <2>1, <2>2, Zenon DEF IndexAt
<1>2. ASSUME NEW s \in Instruments, NEW order \in ByStart(FilesOf(s)), NoFinding(order),
             \A e \in Readable : InstrumentOf[e] = s => content[e].timed,
             NEW i \in DOMAIN order, NEW j \in DOMAIN order, i < j,
             NEW a \in Range(order[i]), NEW b \in Range(order[j])
      PROVE  /\ b.time >= a.time - 2 * TimestampTolerance * (j - i)
             /\ b.collected >= a.collected
  <2>1. PICK n \in Nat : order \in [1 .. n -> FilesOf(s)] /\ Len(order) = n /\ DOMAIN order = 1 .. n
    BY InOrder
  <2>2. ASSUME NEW k \in 1 .. n
        PROVE  \E f, l \in Int :
                 /\ f <= l
                 /\ f >= IndexEntry(order[k]).start - TimestampTolerance
                 /\ l <= IndexEntry(order[k]).end + TimestampTolerance
                 /\ IndexEntry(order[k]).start \in Int /\ IndexEntry(order[k]).end \in Int
                 /\ IndexEntry(order[k]).cstart \in Int /\ IndexEntry(order[k]).cend \in Int
                 /\ IndexEntry(order[k]).cstart <= IndexEntry(order[k]).cend
                 /\ \A c \in Range(order[k]) :
                       /\ c.time \in Int /\ f <= c.time /\ c.time <= l /\ c.collected \in Int
                       /\ IndexEntry(order[k]).cstart <= c.collected /\ c.collected <= IndexEntry(order[k]).cend
    <3>1. order[k] \in FilesOf(s)
      BY <2>1
    <3>2. PICK e \in Readable : InstrumentOf[e] = s /\ order[k] = ApplyTimeOffset(content[e])
      BY <3>1, Zenon DEF FilesOf
    <3>3. content[e].timed
      BY <1>2, <3>2
    <3>4. PICK ts : ts = order[k]
      OBVIOUS
    <3>5. ts \in Seq(TickRecords) /\ ts # <<>> /\ FileValid(ts, content[e])
      BY <3>2, <3>4, GoodFile
    <3>6. PICK x : x = content[e]
      OBVIOUS
    <3>7. FileValid(ts, x) /\ x.timed
      BY <3>3, <3>5, <3>6
    <3> QED BY <3>4, <3>5, <3>7, FileBounds
  <2>3. PICK f \in [1 .. n -> Int], l \in [1 .. n -> Int] :
          \A k \in 1 .. n :
             /\ f[k] <= l[k]
             /\ f[k] >= IndexEntry(order[k]).start - TimestampTolerance
             /\ l[k] <= IndexEntry(order[k]).end + TimestampTolerance
             /\ IndexEntry(order[k]).start \in Int /\ IndexEntry(order[k]).end \in Int
             /\ IndexEntry(order[k]).cstart \in Int /\ IndexEntry(order[k]).cend \in Int
             /\ IndexEntry(order[k]).cstart <= IndexEntry(order[k]).cend
             /\ \A c \in Range(order[k]) :
                   /\ c.time \in Int /\ f[k] <= c.time /\ c.time <= l[k] /\ c.collected \in Int
                   /\ IndexEntry(order[k]).cstart <= c.collected /\ c.collected <= IndexEntry(order[k]).cend
    <3> DEFINE Bounded(k, u, v) ==
          /\ u <= v
          /\ u >= IndexEntry(order[k]).start - TimestampTolerance
          /\ v <= IndexEntry(order[k]).end + TimestampTolerance
          /\ IndexEntry(order[k]).start \in Int /\ IndexEntry(order[k]).end \in Int
          /\ IndexEntry(order[k]).cstart \in Int /\ IndexEntry(order[k]).cend \in Int
          /\ IndexEntry(order[k]).cstart <= IndexEntry(order[k]).cend
          /\ \A c \in Range(order[k]) :
                /\ c.time \in Int /\ u <= c.time /\ c.time <= v /\ c.collected \in Int
                /\ IndexEntry(order[k]).cstart <= c.collected /\ c.collected <= IndexEntry(order[k]).cend
    <3>1. \A k \in 1 .. n : \E u, v \in Int : Bounded(k, u, v)
      BY <2>2, Zenon
    <3>2. \E f \in [1 .. n -> Int], l \in [1 .. n -> Int] : \A k \in 1 .. n : Bounded(k, f[k], l[k])
      <4> HIDE DEF Bounded
      <4>1. PICK f : f = [k \in 1 .. n |-> CHOOSE u \in Int : \E v \in Int : Bounded(k, u, v)]
        OBVIOUS
      <4>2. \A k \in 1 .. n : f[k] \in Int /\ \E v \in Int : Bounded(k, f[k], v)
        BY <3>1, <4>1, Zenon
      <4>3. PICK l : l = [k \in 1 .. n |-> CHOOSE v \in Int : Bounded(k, f[k], v)]
        OBVIOUS
      <4>4. \A k \in 1 .. n : l[k] \in Int /\ Bounded(k, f[k], l[k])
        BY <4>2, <4>3, Zenon
      <4>5. f \in [1 .. n -> Int] /\ l \in [1 .. n -> Int]
        BY <4>1, <4>2, <4>3, <4>4, Zenon
      <4> QED BY <4>4, <4>5, Zenon
    <3> QED BY <3>2, Zenon
  <2>4. TimestampTolerance \in Nat
    BY SMT DEF TimestampTolerance
  <2>5. \A k \in 1 .. n - 1 : k \in 1 .. n /\ k + 1 \in 1 .. n
    BY <2>1
  <2>6. \A k \in 1 .. n - 1 : /\ IndexEntry(order[k + 1]).start >= IndexEntry(order[k]).end
                              /\ IndexEntry(order[k + 1]).cstart >= IndexEntry(order[k]).cend
    BY <1>2, <2>1, Zenon DEF NoFinding, Steps
  <2>7. PICK d \in Nat : d = 2 * TimestampTolerance
    BY <2>4
  <2>8. \A k \in 1 .. n - 1 : f[k + 1] >= l[k] - d
    <3>1. \A u, v, x, y \in Int : u >= x - TimestampTolerance /\ v <= y + TimestampTolerance /\ x >= y => u >= v - d
      BY <2>4, <2>7
    <3> QED BY <2>3, <2>5, <2>6, <3>1
  <2>9. \A k \in 1 .. n : f[k] \in Int /\ l[k] \in Int /\ f[k] <= l[k]
    BY <2>3
  <2>10. i \in 1 .. n /\ j \in 1 .. n
    BY <2>1
  <2>11. f[j] >= l[i] - d * (j - i)
    BY <1>2, <2>8, <2>9, <2>10, Chained
  <2>12. PICK cs, ce : /\ cs = [k \in 1 .. n |-> IndexEntry(order[k]).cstart]
                       /\ ce = [k \in 1 .. n |-> IndexEntry(order[k]).cend]
    OBVIOUS
  <2>13. \A k \in 1 .. n : cs[k] \in Int /\ ce[k] \in Int /\ cs[k] <= ce[k]
    BY <2>3, <2>12
  <2>14. \A k \in 1 .. n - 1 : cs[k + 1] >= ce[k] - 0
    BY <2>5, <2>6, <2>12, <2>13
  <2>15. cs[j] >= ce[i] - 0 * (j - i)
    BY <1>2, <2>10, <2>13, <2>14, Chained
  <2>16. b.time \in Int /\ a.time \in Int /\ f[j] <= b.time /\ a.time <= l[i]
         /\ b.collected \in Int /\ a.collected \in Int /\ cs[j] <= b.collected /\ a.collected <= ce[i]
    BY <2>3, <2>10, <2>12
  <2>17. b.collected >= a.collected
    <3>1. 0 * (j - i) = 0
      BY <2>10
    <3>2. cs[j] \in Int /\ ce[i] \in Int
      BY <2>10, <2>13
    <3>3. cs[j] >= ce[i]
      BY <2>15, <3>1, <3>2
    <3>4. \A u, v, x, y \in Int : x >= y /\ x <= u /\ v <= y => u >= v
      OBVIOUS
    <3> QED BY <2>16, <3>2, <3>3, <3>4
  <2>18. b.time >= a.time - d * (j - i)
    <3>1. PICK y \in Int : y = d * (j - i)
      BY <2>7, <2>10
    <3>2. f[j] >= l[i] - y /\ f[j] \in Int /\ l[i] \in Int
      BY <2>9, <2>10, <2>11, <3>1
    <3>3. \A u, v, x, z \in Int : x >= z - y /\ x <= u /\ v <= z => u >= v - y
      OBVIOUS
    <3>4. b.time >= a.time - y
      BY <2>16, <3>2, <3>3
    <3> QED BY <3>1, <3>4
  <2> QED BY <2>7, <2>17, <2>18
<1>3. ASSUME imp.done, imp.ordered, NEW s \in Instruments, \A e \in Readable : InstrumentOf[e] = s => content[e].timed
      PROVE  \E order \in ByStart(FilesOf(s)) :
               \A i, j \in DOMAIN order : i < j =>
                 \A a \in Range(order[i]), b \in Range(order[j]) :
                    /\ b.time >= a.time - 2 * TimestampTolerance * (j - i)
                    /\ a.collected # 0 /\ b.collected # 0 => b.collected >= a.collected
  <2>1. PICK order \in ByStart(FilesOf(s)) : NoFinding(order)
    BY <1>1, <1>3, Zenon DEF MayFindNothing
  <2> QED BY <1>2, <1>3, <2>1, Zenon
<1> QED BY <1>3, Zenon DEF ArchiveOrdered

\* However imports fail, are killed and are repeated, and whatever the
\* collector wrote: no tick is lost, the index is true of the archive, the bars
\* are those of the ticks, and what the validation passes is so (the importer,
\* the index managers and TickImportValidator).
THEOREM ArchiveAlwaysSound == ArchiveInit /\ [][ArchiveNext]_archiveVars => []ArchiveSound
<1>1. ArchiveInit => ArchiveInv
  BY ArchiveStarts
<1>2. ArchiveInv /\ [ArchiveNext]_archiveVars => ArchiveInv'
  BY ArchiveSteps
<1>3. ArchiveInv => ArchiveSound
  BY ArchiveRecovers, ArchiveAccepted, ArchiveInOrder DEF ArchiveSound
<1> QED BY <1>1, <1>2, <1>3, PTL


-----------------------------------------------------------------------------
(* The archive of signals: what an import keeps and repairs *)

\* The record of the importer.
SigRec(pc, todo, name, override, errors, done, runs) ==
  [pc |-> pc, todo |-> todo, name |-> name, override |-> override, errors |-> errors, done |-> done, runs |-> runs]

SigShaped(r) == r = SigRec(r.pc, r.todo, r.name, r.override, r.errors, r.done, r.runs)

Source(inb, fin, n) == IF inb[n] # 0 THEN inb[n] ELSE fin[n]

\* What lies in the archive has a source that is kept, and what was finished
\* was in the archive and is not empty.
SigKept(inb, fin, file, ix) ==
  /\ \A n \in Buckets :
        /\ inb[n] \in Versions \cup {0} /\ fin[n] \in Versions \cup {0} /\ file[n] \in Versions \cup {0, -1}
        /\ file[n] > 0 => file[n] = inb[n] \/ file[n] = fin[n]
        /\ fin[n] # 0 => file[n] # 0 /\ Journal[n][fin[n]] # <<>>
        /\ file[n] # 0 => Source(inb, fin, n) # 0
  /\ (\A n \in Buckets : file[n] = 0) => ix = {}

Repaired(inb, fin, file, n) == IF inb[n] # 0 THEN Journal[n][inb[n]] = <<>> ELSE file[n] = fin[n]

\* A run takes what has a source, one name at a time; with override it leaves
\* nothing behind that is not repaired, unless it has noted an error.
SigGoing(inb, fin, file, ix, pc, todo, name, override, errors, done) ==
  /\ pc \in {"idle", "files", "write", "written", "move"}
  /\ todo \subseteq Buckets
  /\ pc # "idle" => done = FALSE /\ \A n \in todo : Source(inb, fin, n) # 0
  /\ pc \in {"write", "written", "move"} => name \in todo /\ name = Min(todo) /\ Journal[name][Source(inb, fin, name)] # <<>>
  /\ pc = "move" => file[name] = Source(inb, fin, name)
  /\ pc # "idle" /\ override = TRUE /\ errors = FALSE => \A n \in Buckets \ todo : Repaired(inb, fin, file, n)
  /\ done = TRUE /\ override = TRUE /\ errors = FALSE => \A n \in Buckets : Repaired(inb, fin, file, n)
  /\ done = TRUE => ix = {<<n, file[n]>> : n \in {m \in Buckets : file[m] > 0}}

SigTypes ==
  /\ DOMAIN sigInbox = Buckets /\ DOMAIN sigFinished = Buckets /\ DOMAIN sigFile = Buckets
  /\ SigShaped(sigRun) /\ {sigRun.override, sigRun.errors, sigRun.done} \subseteq BOOLEAN

SigInv ==
  /\ SigTypes
  /\ SigKept(sigInbox, sigFinished, sigFile, sigIndex)
  /\ SigGoing(sigInbox, sigFinished, sigFile, sigIndex, sigRun.pc, sigRun.todo, sigRun.name, sigRun.override, sigRun.errors, sigRun.done)

\* The importer between two runs.
LEMMA SigIdleFields ==
  ASSUME NEW d, NEW r
  PROVE  SigIdle(d, r) = SigRec("idle", {}, 0, FALSE, FALSE, d, r)
BY DEF SigIdle, SigRec

\* The fields of the record.
LEMMA SigRecFields ==
  ASSUME NEW pc, NEW todo, NEW name, NEW override, NEW errors, NEW done, NEW runs, NEW r,
         r = SigRec(pc, todo, name, override, errors, done, runs)
  PROVE  SigShaped(r) /\ r.pc = pc /\ r.todo = todo /\ r.name = name /\ r.override = override /\ r.errors = errors /\ r.done = done
BY DEF SigRec, SigShaped

\* The first name of a set is one of it.
LEMMA FirstName ==
  ASSUME NEW T, T \subseteq Buckets, T # {}
  PROVE  Min(T) \in T
<1>1. T \in SUBSET Nat
  BY SignalAssumption
<1>2. \E n \in T : \A m \in T : n <= m
  BY <1>1, LeastNumber
<1> QED BY <1>2 DEF Min

\* The invariant after a step that leaves this record.
LEMMA SigNext ==
  ASSUME NEW pc, NEW todo, NEW name, NEW override \in BOOLEAN, NEW errors \in BOOLEAN, NEW done \in BOOLEAN, NEW runs,
         sigRun' = SigRec(pc, todo, name, override, errors, done, runs),
         DOMAIN sigInbox' = Buckets, DOMAIN sigFinished' = Buckets, DOMAIN sigFile' = Buckets,
         SigKept(sigInbox', sigFinished', sigFile', sigIndex'),
         SigGoing(sigInbox', sigFinished', sigFile', sigIndex', pc, todo, name, override, errors, done)
  PROVE  SigInv'
<1>1. /\ SigShaped(sigRun') /\ sigRun'.pc = pc /\ sigRun'.todo = todo /\ sigRun'.name = name
      /\ sigRun'.override = override /\ sigRun'.errors = errors /\ sigRun'.done = done
  BY SigRecFields
<1>2. SigTypes'
  BY <1>1, Zenon DEF SigTypes
<1> QED BY <1>1, <1>2, Zenon DEF SigInv

\* The record, whose fields are what the invariant says.
LEMMA SigNow ==
  ASSUME SigInv
  PROVE  /\ DOMAIN sigInbox = Buckets /\ DOMAIN sigFinished = Buckets /\ DOMAIN sigFile = Buckets
         /\ SigKept(sigInbox, sigFinished, sigFile, sigIndex)
         /\ SigGoing(sigInbox, sigFinished, sigFile, sigIndex, sigRun.pc, sigRun.todo, sigRun.name, sigRun.override, sigRun.errors, sigRun.done)
         /\ sigRun = SigRec(sigRun.pc, sigRun.todo, sigRun.name, sigRun.override, sigRun.errors, sigRun.done, sigRun.runs)
         /\ sigRun.override \in BOOLEAN /\ sigRun.errors \in BOOLEAN /\ sigRun.done \in BOOLEAN
BY DEF SigInv, SigTypes, SigShaped

\* The sources are those of the code.
LEMMA SourceIs ==
  ASSUME NEW n
  PROVE  SourceOf(n) = Source(sigInbox, sigFinished, n) /\ FromInbox(n) = (sigInbox[n] # 0)
BY DEF SourceOf, Source, FromInbox

\* An empty archive.
LEMMA SigStarts ==
  ASSUME SignalInit
  PROVE  SigInv
<1>1. /\ sigInbox = [n \in Buckets |-> 0] /\ sigFinished = sigInbox /\ sigFile = sigInbox /\ sigIndex = {}
      /\ sigRun = SigRec("idle", {}, 0, FALSE, FALSE, FALSE, 0)
  BY SigIdleFields DEF SignalInit
<1>2. /\ SigShaped(sigRun) /\ sigRun.pc = "idle" /\ sigRun.todo = {} /\ sigRun.name = 0
      /\ sigRun.override = FALSE /\ sigRun.errors = FALSE /\ sigRun.done = FALSE
  BY <1>1 DEF SigRec, SigShaped
<1>3. SigTypes
  BY <1>1, <1>2 DEF SigTypes
<1>4. SigKept(sigInbox, sigFinished, sigFile, sigIndex)
  BY <1>1 DEF SigKept
<1>5. SigGoing(sigInbox, sigFinished, sigFile, sigIndex, sigRun.pc, sigRun.todo, sigRun.name, sigRun.override, sigRun.errors, sigRun.done)
  <2>1. SigGoing(sigInbox, sigFinished, sigFile, sigIndex, "idle", {}, 0, FALSE, FALSE, FALSE)
    BY DEF SigGoing
  <2> QED BY <1>2, <2>1
<1> QED BY <1>3, <1>4, <1>5 DEF SigInv

\* A journal file comes.
LEMMA SigCollectKeeps ==
  ASSUME SigInv, NEW n \in Buckets, NEW v \in Versions, SigCollect(n, v)
  PROVE  SigInv'
<1>1. /\ sigRun.pc = "idle" /\ sigInbox[n] = 0 /\ sigInbox' = [sigInbox EXCEPT ![n] = v]
      /\ sigRun' = [sigRun EXCEPT !.done = FALSE]
      /\ sigFinished' = sigFinished /\ sigFile' = sigFile /\ sigIndex' = sigIndex
  BY DEF SigCollect
<1>2. /\ DOMAIN sigInbox = Buckets /\ DOMAIN sigFinished = Buckets /\ DOMAIN sigFile = Buckets
      /\ SigKept(sigInbox, sigFinished, sigFile, sigIndex)
      /\ SigGoing(sigInbox, sigFinished, sigFile, sigIndex, sigRun.pc, sigRun.todo, sigRun.name, sigRun.override, sigRun.errors, sigRun.done)
      /\ sigRun = SigRec(sigRun.pc, sigRun.todo, sigRun.name, sigRun.override, sigRun.errors, sigRun.done, sigRun.runs)
      /\ sigRun.override \in BOOLEAN /\ sigRun.errors \in BOOLEAN /\ sigRun.done \in BOOLEAN
  BY SigNow
<1>3. sigRun' = SigRec("idle", sigRun.todo, sigRun.name, sigRun.override, sigRun.errors, FALSE, sigRun.runs)
  BY <1>1, <1>2 DEF SigRec
<1>4. DOMAIN sigInbox' = Buckets /\ sigInbox'[n] = v /\ \A x \in Buckets \ {n} : sigInbox'[x] = sigInbox[x]
  BY <1>1, <1>2
<1>5. v # 0 /\ v > 0
  BY SignalAssumption
<1>6. SigKept(sigInbox', sigFinished, sigFile, sigIndex)
  BY <1>1, <1>2, <1>4, <1>5 DEF SigKept, Source
<1>7. SigGoing(sigInbox', sigFinished, sigFile, sigIndex, "idle", sigRun.todo, sigRun.name, sigRun.override, sigRun.errors, FALSE)
  BY <1>2 DEF SigGoing
<1>8. /\ FALSE \in BOOLEAN /\ sigRun.override \in BOOLEAN /\ sigRun.errors \in BOOLEAN
      /\ DOMAIN sigInbox' = Buckets /\ DOMAIN sigFinished' = Buckets /\ DOMAIN sigFile' = Buckets
  BY <1>1, <1>2, <1>4
<1>9. SigKept(sigInbox', sigFinished', sigFile', sigIndex')
  BY <1>1, <1>6
<1>10. SigGoing(sigInbox', sigFinished', sigFile', sigIndex', "idle", sigRun.todo, sigRun.name, sigRun.override, sigRun.errors, FALSE)
  BY <1>1, <1>7
<1> QED BY <1>3, <1>8, <1>9, <1>10, SigNext

\* The names are listed.
LEMMA SigStartKeeps ==
  ASSUME SigInv, NEW o \in BOOLEAN, SigStart(o)
  PROVE  SigInv'
<1>1. PICK T : T = {n \in Buckets : sigInbox[n] # 0 \/ (o /\ sigFinished[n] # 0)}
  OBVIOUS
<1>2. /\ sigRun.pc = "idle"
      /\ sigRun' = [SigIdle(FALSE, sigRun.runs + 1) EXCEPT !.pc = "files", !.override = o, !.todo = T]
      /\ sigInbox' = sigInbox /\ sigFinished' = sigFinished /\ sigFile' = sigFile /\ sigIndex' = sigIndex
  BY <1>1 DEF SigStart, sigDisk
<1>3. /\ DOMAIN sigInbox = Buckets /\ DOMAIN sigFinished = Buckets /\ DOMAIN sigFile = Buckets
      /\ SigKept(sigInbox, sigFinished, sigFile, sigIndex)
  BY SigNow
<1>4. sigRun' = SigRec("files", T, 0, o, FALSE, FALSE, sigRun.runs + 1)
  BY <1>2, SigIdleFields DEF SigRec
<1>5. SigGoing(sigInbox, sigFinished, sigFile, sigIndex, "files", T, 0, o, FALSE, FALSE)
  <2>1. \A n \in T : Source(sigInbox, sigFinished, n) # 0
    BY <1>1 DEF Source
  <2>2. ASSUME o = TRUE, NEW n \in Buckets \ T
        PROVE  Repaired(sigInbox, sigFinished, sigFile, n)
    <3>1. sigInbox[n] = 0 /\ sigFinished[n] = 0
      BY <1>1, <2>2
    <3> QED BY <1>3, <3>1 DEF SigKept, Source, Repaired
  <2>3. T \subseteq Buckets
    BY <1>1
  <2> QED BY <2>1, <2>2, <2>3 DEF SigGoing
<1>6. FALSE \in BOOLEAN /\ DOMAIN sigInbox' = Buckets /\ DOMAIN sigFinished' = Buckets /\ DOMAIN sigFile' = Buckets
  BY <1>2, <1>3
<1>7. SigKept(sigInbox', sigFinished', sigFile', sigIndex')
  BY <1>2, <1>3
<1>8. SigGoing(sigInbox', sigFinished', sigFile', sigIndex', "files", T, 0, o, FALSE, FALSE)
  BY <1>2, <1>5
<1> QED BY <1>4, <1>6, <1>7, <1>8, SigNext

\* The next file, with what became of the last.
LEMMA NextFileIs ==
  ASSUME SigShaped(sigRun), NEW er
  PROVE  NextFile(sigRun, er) =
           SigRec("files", sigRun.todo \ {Min(sigRun.todo)}, 0, sigRun.override, sigRun.errors \/ er, sigRun.done, sigRun.runs)
<1>1. PICK mn : mn = Min(sigRun.todo)
  OBVIOUS
<1>2. PICK e2 : e2 = (sigRun.errors \/ er)
  OBVIOUS
<1>3. NextFile(sigRun, er) = [sigRun EXCEPT !.pc = "files", !.todo = @ \ {mn}, !.name = 0, !.errors = e2]
  BY <1>1, <1>2, Zenon DEF NextFile
<1>4. PICK q : q = [sigRun EXCEPT !.pc = "files", !.todo = @ \ {mn}, !.name = 0, !.errors = e2]
  OBVIOUS
<1>5. sigRun = SigRec(sigRun.pc, sigRun.todo, sigRun.name, sigRun.override, sigRun.errors, sigRun.done, sigRun.runs)
  BY DEF SigShaped
<1>6. q = SigRec("files", sigRun.todo \ {mn}, 0, sigRun.override, e2, sigRun.done, sigRun.runs)
  BY <1>4, <1>5 DEF SigRec
<1> QED BY <1>1, <1>2, <1>3, <1>4, <1>6

\* A file is refused, passed over or moved: what is left of the list.
LEMMA NextKeeps ==
  ASSUME SigInv, NEW er \in BOOLEAN, sigRun.pc # "idle", sigRun.todo # {}, sigRun' = NextFile(sigRun, er),
         sigFile' = sigFile, sigIndex' = sigIndex,
         DOMAIN sigInbox' = Buckets, DOMAIN sigFinished' = Buckets,
         SigKept(sigInbox', sigFinished', sigFile, sigIndex),
         \A n \in Buckets \ {Min(sigRun.todo)} : sigInbox'[n] = sigInbox[n] /\ sigFinished'[n] = sigFinished[n],
         er = TRUE \/ Repaired(sigInbox', sigFinished', sigFile, Min(sigRun.todo))
  PROVE  SigInv'
<1>1. /\ DOMAIN sigFile = Buckets
      /\ SigGoing(sigInbox, sigFinished, sigFile, sigIndex, sigRun.pc, sigRun.todo, sigRun.name, sigRun.override, sigRun.errors, sigRun.done)
      /\ SigShaped(sigRun)
      /\ sigRun.override \in BOOLEAN /\ sigRun.errors \in BOOLEAN /\ sigRun.done \in BOOLEAN
  BY SigNow DEF SigShaped
<1>2. PICK mn : mn = Min(sigRun.todo)
  OBVIOUS
<1>3. PICK e2 \in BOOLEAN : e2 = (sigRun.errors \/ er)
  BY <1>1
<1>4. sigRun' = SigRec("files", sigRun.todo \ {mn}, 0, sigRun.override, e2, sigRun.done, sigRun.runs)
  BY <1>1, <1>2, <1>3, NextFileIs, Zenon
<1>5. sigRun.todo \subseteq Buckets /\ sigRun.done = FALSE /\ \A n \in sigRun.todo : Source(sigInbox, sigFinished, n) # 0
  BY <1>1 DEF SigGoing
<1>6. e2 = FALSE => sigRun.errors = FALSE /\ er = FALSE
  BY <1>1, <1>3
<1>7. \A n \in sigRun.todo \ {mn} : Source(sigInbox', sigFinished', n) # 0
  BY <1>2, <1>5 DEF Source
<1>8. ASSUME sigRun.override = TRUE, e2 = FALSE, NEW n \in Buckets \ (sigRun.todo \ {mn})
      PROVE  Repaired(sigInbox', sigFinished', sigFile, n)
  <2>1. CASE n = mn
    BY <1>2, <1>6, <1>8, <2>1
  <2>2. CASE n # mn
    <3>1. n \in Buckets \ sigRun.todo /\ sigInbox'[n] = sigInbox[n] /\ sigFinished'[n] = sigFinished[n]
      BY <1>2, <1>8, <2>2
    <3>2. Repaired(sigInbox, sigFinished, sigFile, n)
      BY <1>1, <1>5, <1>6, <1>8, <3>1 DEF SigGoing
    <3> QED BY <3>1, <3>2 DEF Repaired
  <2> QED BY <2>1, <2>2
<1>9. SigGoing(sigInbox', sigFinished', sigFile, sigIndex, "files", sigRun.todo \ {mn}, 0, sigRun.override, e2, sigRun.done)
  BY <1>5, <1>7, <1>8 DEF SigGoing
<1> QED BY <1>1, <1>4, <1>9, SigNext

\* A file is read: it is refused, passed over or will be written.
LEMMA SigConvertKeeps ==
  ASSUME SigInv, SigConvert
  PROVE  SigInv'
<1>1. PICK n, j : n = Min(sigRun.todo) /\ j = Journal[n][SourceOf(n)]
  OBVIOUS
<1>2. /\ sigRun.pc = "files" /\ sigRun.todo # {}
      /\ sigInbox' = sigInbox /\ sigFinished' = sigFinished /\ sigFile' = sigFile /\ sigIndex' = sigIndex
      /\ \/ j = <<>> /\ sigRun' = NextFile(sigRun, FALSE)
         \/ sigRun' = NextFile(sigRun, TRUE)
         \/ j # <<>> /\ \E missing \in BOOLEAN :
              sigRun' = [sigRun EXCEPT !.pc = "write", !.name = n, !.errors = sigRun.errors \/ missing]
  <2>1. SeqMissing(j) \in BOOLEAN
    BY DEF SeqMissing
  <2> QED BY <1>1, <2>1 DEF SigConvert, sigDisk
<1>3. /\ DOMAIN sigInbox = Buckets /\ DOMAIN sigFinished = Buckets /\ DOMAIN sigFile = Buckets
      /\ SigKept(sigInbox, sigFinished, sigFile, sigIndex)
      /\ SigGoing(sigInbox, sigFinished, sigFile, sigIndex, sigRun.pc, sigRun.todo, sigRun.name, sigRun.override, sigRun.errors, sigRun.done)
      /\ sigRun = SigRec(sigRun.pc, sigRun.todo, sigRun.name, sigRun.override, sigRun.errors, sigRun.done, sigRun.runs)
      /\ sigRun.override \in BOOLEAN /\ sigRun.errors \in BOOLEAN /\ sigRun.done \in BOOLEAN
  BY SigNow
<1>4. /\ sigRun.todo \subseteq Buckets /\ sigRun.done = FALSE
      /\ \A x \in sigRun.todo : Source(sigInbox, sigFinished, x) # 0
      /\ sigRun.override = TRUE /\ sigRun.errors = FALSE =>
           \A x \in Buckets \ sigRun.todo : Repaired(sigInbox, sigFinished, sigFile, x)
  BY <1>2, <1>3 DEF SigGoing
<1>5. n \in sigRun.todo /\ n \in Buckets
  BY <1>1, <1>2, <1>4, FirstName
<1>6. j = Journal[n][Source(sigInbox, sigFinished, n)]
  BY <1>1, SourceIs
<1>7. SigKept(sigInbox', sigFinished', sigFile, sigIndex) /\ DOMAIN sigInbox' = Buckets /\ DOMAIN sigFinished' = Buckets
  BY <1>2, <1>3
<1>8. \A x \in Buckets \ {Min(sigRun.todo)} : sigInbox'[x] = sigInbox[x] /\ sigFinished'[x] = sigFinished[x]
  BY <1>2
<1>9. FALSE \in BOOLEAN /\ TRUE \in BOOLEAN /\ sigRun.pc # "idle"
  BY <1>2
<1>10. CASE j = <<>> /\ sigRun' = NextFile(sigRun, FALSE)
  <2>1. sigInbox[n] # 0
    <3>1. ASSUME sigInbox[n] = 0
          PROVE  FALSE
      <4>1. sigFinished[n] # 0 /\ j = Journal[n][sigFinished[n]]
        BY <1>4, <1>5, <1>6, <3>1 DEF Source
      <4> QED BY <1>3, <1>5, <1>10, <4>1 DEF SigKept
    <3> QED BY <3>1
  <2>2. Journal[n][sigInbox[n]] = <<>>
    BY <1>6, <1>10, <2>1 DEF Source
  <2>3. Repaired(sigInbox', sigFinished', sigFile, n)
    BY <1>2, <2>1, <2>2 DEF Repaired
  <2>4. Repaired(sigInbox', sigFinished', sigFile, Min(sigRun.todo))
    BY <1>1, <2>3
  <2> QED BY <1>2, <1>7, <1>8, <1>9, <1>10, <2>4, NextKeeps, Zenon
<1>11. CASE sigRun' = NextFile(sigRun, TRUE)
  BY <1>2, <1>7, <1>8, <1>9, <1>11, NextKeeps, Zenon
<1>12. CASE j # <<>> /\ \E missing \in BOOLEAN :
                sigRun' = [sigRun EXCEPT !.pc = "write", !.name = n, !.errors = sigRun.errors \/ missing]
  <2>0. PICK errors \in BOOLEAN : /\ sigRun' = [sigRun EXCEPT !.pc = "write", !.name = n, !.errors = errors]
                                  /\ errors = FALSE => sigRun.errors = FALSE
    <3>1. PICK missing \in BOOLEAN :
            sigRun' = [sigRun EXCEPT !.pc = "write", !.name = n, !.errors = sigRun.errors \/ missing]
      BY <1>12
    <3>2. PICK errors \in BOOLEAN : errors = (sigRun.errors \/ missing)
      BY <1>3
    <3>3. errors = FALSE => sigRun.errors = FALSE
      BY <1>3, <3>2
    <3>4. sigRun' = [sigRun EXCEPT !.pc = "write", !.name = n, !.errors = errors]
      BY <3>1, <3>2
    <3> QED BY <3>3, <3>4
  <2>1. sigRun' = SigRec("write", sigRun.todo, n, sigRun.override, errors, sigRun.done, sigRun.runs)
    BY <1>3, <2>0 DEF SigRec
  <2>2. SigGoing(sigInbox, sigFinished, sigFile, sigIndex, "write", sigRun.todo, n, sigRun.override, errors, sigRun.done)
    <3>1. errors = FALSE /\ sigRun.override = TRUE =>
            \A x \in Buckets \ sigRun.todo : Repaired(sigInbox, sigFinished, sigFile, x)
      BY <1>4, <2>0
    <3> QED BY <1>1, <1>4, <1>5, <1>6, <1>12, <3>1 DEF SigGoing
  <2>3. SigGoing(sigInbox', sigFinished', sigFile', sigIndex', "write", sigRun.todo, n, sigRun.override, errors, sigRun.done)
    BY <1>2, <2>2
  <2>4. SigKept(sigInbox', sigFinished', sigFile', sigIndex') /\ DOMAIN sigFile' = Buckets
    BY <1>2, <1>3
  <2> QED BY <1>3, <1>7, <2>1, <2>3, <2>4, SigNext
<1> QED BY <1>2, <1>10, <1>11, <1>12

\* The parquet file is begun, and is torn.
LEMMA SigWriteKeeps ==
  ASSUME SigInv, SigWrite
  PROVE  SigInv'
<1>1. PICK n : n = sigRun.name
  OBVIOUS
<1>2. /\ sigRun.pc = "write" /\ sigRun' = [sigRun EXCEPT !.pc = "written"] /\ sigFile' = [sigFile EXCEPT ![n] = -1]
      /\ sigInbox' = sigInbox /\ sigFinished' = sigFinished /\ sigIndex' = sigIndex
  BY <1>1 DEF SigWrite
<1>3. /\ DOMAIN sigInbox = Buckets /\ DOMAIN sigFinished = Buckets /\ DOMAIN sigFile = Buckets
      /\ SigKept(sigInbox, sigFinished, sigFile, sigIndex)
      /\ SigGoing(sigInbox, sigFinished, sigFile, sigIndex, sigRun.pc, sigRun.todo, sigRun.name, sigRun.override, sigRun.errors, sigRun.done)
      /\ sigRun = SigRec(sigRun.pc, sigRun.todo, sigRun.name, sigRun.override, sigRun.errors, sigRun.done, sigRun.runs)
      /\ sigRun.override \in BOOLEAN /\ sigRun.errors \in BOOLEAN /\ sigRun.done \in BOOLEAN
  BY SigNow
<1>4. /\ n \in sigRun.todo /\ n = Min(sigRun.todo) /\ Journal[n][Source(sigInbox, sigFinished, n)] # <<>>
      /\ sigRun.todo \subseteq Buckets /\ sigRun.done = FALSE
      /\ \A x \in sigRun.todo : Source(sigInbox, sigFinished, x) # 0
      /\ sigRun.override = TRUE /\ sigRun.errors = FALSE =>
           \A x \in Buckets \ sigRun.todo : Repaired(sigInbox, sigFinished, sigFile, x)
  BY <1>1, <1>2, <1>3 DEF SigGoing
<1>5. sigRun' = SigRec("written", sigRun.todo, n, sigRun.override, sigRun.errors, sigRun.done, sigRun.runs)
  BY <1>1, <1>2, <1>3 DEF SigRec
<1>6. DOMAIN sigFile' = Buckets /\ sigFile'[n] = -1 /\ \A x \in Buckets \ {n} : sigFile'[x] = sigFile[x]
  BY <1>2, <1>3, <1>4
<1>7. SigKept(sigInbox, sigFinished, sigFile', sigIndex)
  BY <1>3, <1>4, <1>6 DEF SigKept
<1>8. SigGoing(sigInbox, sigFinished, sigFile', sigIndex, "written", sigRun.todo, n, sigRun.override, sigRun.errors, sigRun.done)
  <2>1. \A x \in Buckets \ sigRun.todo : Repaired(sigInbox, sigFinished, sigFile, x) => Repaired(sigInbox, sigFinished, sigFile', x)
    BY <1>4, <1>6 DEF Repaired
  <2> QED BY <1>4, <2>1 DEF SigGoing
<1>9. /\ SigKept(sigInbox', sigFinished', sigFile', sigIndex') /\ DOMAIN sigInbox' = Buckets /\ DOMAIN sigFinished' = Buckets
      /\ SigGoing(sigInbox', sigFinished', sigFile', sigIndex', "written", sigRun.todo, n, sigRun.override, sigRun.errors, sigRun.done)
  BY <1>2, <1>3, <1>7, <1>8
<1>10. DOMAIN sigFile' = Buckets /\ sigRun.override \in BOOLEAN /\ sigRun.errors \in BOOLEAN /\ sigRun.done \in BOOLEAN
  BY <1>3, <1>6
<1> QED BY <1>5, <1>9, <1>10, SigNext

\* It is complete.
LEMMA SigWrittenKeeps ==
  ASSUME SigInv, SigWritten
  PROVE  SigInv'
<1>1. PICK n : n = sigRun.name
  OBVIOUS
<1>2. /\ sigRun.pc = "written" /\ sigRun' = [sigRun EXCEPT !.pc = "move"] /\ sigFile' = [sigFile EXCEPT ![n] = SourceOf(n)]
      /\ sigInbox' = sigInbox /\ sigFinished' = sigFinished /\ sigIndex' = sigIndex
  BY <1>1 DEF SigWritten
<1>3. /\ DOMAIN sigInbox = Buckets /\ DOMAIN sigFinished = Buckets /\ DOMAIN sigFile = Buckets
      /\ SigKept(sigInbox, sigFinished, sigFile, sigIndex)
      /\ SigGoing(sigInbox, sigFinished, sigFile, sigIndex, sigRun.pc, sigRun.todo, sigRun.name, sigRun.override, sigRun.errors, sigRun.done)
      /\ sigRun = SigRec(sigRun.pc, sigRun.todo, sigRun.name, sigRun.override, sigRun.errors, sigRun.done, sigRun.runs)
      /\ sigRun.override \in BOOLEAN /\ sigRun.errors \in BOOLEAN /\ sigRun.done \in BOOLEAN
  BY SigNow
<1>4. /\ n \in sigRun.todo /\ n = Min(sigRun.todo) /\ Journal[n][Source(sigInbox, sigFinished, n)] # <<>>
      /\ sigRun.todo \subseteq Buckets /\ sigRun.done = FALSE
      /\ \A x \in sigRun.todo : Source(sigInbox, sigFinished, x) # 0
      /\ sigRun.override = TRUE /\ sigRun.errors = FALSE =>
           \A x \in Buckets \ sigRun.todo : Repaired(sigInbox, sigFinished, sigFile, x)
  BY <1>1, <1>2, <1>3 DEF SigGoing
<1>5. sigRun' = SigRec("move", sigRun.todo, n, sigRun.override, sigRun.errors, sigRun.done, sigRun.runs)
  BY <1>1, <1>2, <1>3 DEF SigRec
<1>6. /\ DOMAIN sigFile' = Buckets /\ sigFile'[n] = Source(sigInbox, sigFinished, n)
      /\ \A x \in Buckets \ {n} : sigFile'[x] = sigFile[x]
  BY <1>2, <1>3, <1>4, SourceIs
<1>7. SigKept(sigInbox, sigFinished, sigFile', sigIndex)
  BY <1>3, <1>4, <1>6 DEF SigKept, Source
<1>8. SigGoing(sigInbox, sigFinished, sigFile', sigIndex, "move", sigRun.todo, n, sigRun.override, sigRun.errors, sigRun.done)
  <2>1. \A x \in Buckets \ sigRun.todo : Repaired(sigInbox, sigFinished, sigFile, x) => Repaired(sigInbox, sigFinished, sigFile', x)
    BY <1>4, <1>6 DEF Repaired
  <2> QED BY <1>4, <1>6, <2>1 DEF SigGoing
<1>9. /\ SigKept(sigInbox', sigFinished', sigFile', sigIndex') /\ DOMAIN sigInbox' = Buckets /\ DOMAIN sigFinished' = Buckets
      /\ SigGoing(sigInbox', sigFinished', sigFile', sigIndex', "move", sigRun.todo, n, sigRun.override, sigRun.errors, sigRun.done)
  BY <1>2, <1>3, <1>7, <1>8
<1>10. DOMAIN sigFile' = Buckets /\ sigRun.override \in BOOLEAN /\ sigRun.errors \in BOOLEAN /\ sigRun.done \in BOOLEAN
  BY <1>3, <1>6
<1> QED BY <1>5, <1>9, <1>10, SigNext

\* The write fails.
LEMMA SigFailsKeeps ==
  ASSUME SigInv, SigFails
  PROVE  SigInv'
<1>1. /\ sigRun.pc \in {"write", "written"} /\ sigRun' = NextFile(sigRun, TRUE)
      /\ sigInbox' = sigInbox /\ sigFinished' = sigFinished /\ sigFile' = sigFile /\ sigIndex' = sigIndex
  BY DEF SigFails, sigDisk
<1>2. /\ DOMAIN sigInbox = Buckets /\ DOMAIN sigFinished = Buckets /\ SigKept(sigInbox, sigFinished, sigFile, sigIndex)
      /\ SigGoing(sigInbox, sigFinished, sigFile, sigIndex, sigRun.pc, sigRun.todo, sigRun.name, sigRun.override, sigRun.errors, sigRun.done)
  BY SigNow
<1>3. sigRun.todo # {} /\ sigRun.pc # "idle" /\ TRUE \in BOOLEAN
  BY <1>1, <1>2 DEF SigGoing
<1>4. /\ SigKept(sigInbox', sigFinished', sigFile, sigIndex) /\ DOMAIN sigInbox' = Buckets /\ DOMAIN sigFinished' = Buckets
      /\ \A x \in Buckets \ {Min(sigRun.todo)} : sigInbox'[x] = sigInbox[x] /\ sigFinished'[x] = sigFinished[x]
  BY <1>1, <1>2
<1> QED BY <1>1, <1>3, <1>4, NextKeeps, Zenon

\* The journal file is moved to the finished ones.
LEMMA SigMoveKeeps ==
  ASSUME SigInv, SigMove
  PROVE  SigInv'
<1>1. PICK n : n = sigRun.name
  OBVIOUS
<1>2. /\ sigRun.pc = "move" /\ sigRun' = NextFile(sigRun, FALSE)
      /\ sigFinished' = [sigFinished EXCEPT ![n] = SourceOf(n)]
      /\ sigInbox' = [sigInbox EXCEPT ![n] = IF FromInbox(n) THEN 0 ELSE @]
      /\ sigFile' = sigFile /\ sigIndex' = sigIndex
  BY <1>1 DEF SigMove
<1>3. /\ DOMAIN sigInbox = Buckets /\ DOMAIN sigFinished = Buckets /\ DOMAIN sigFile = Buckets
      /\ SigKept(sigInbox, sigFinished, sigFile, sigIndex)
      /\ SigGoing(sigInbox, sigFinished, sigFile, sigIndex, sigRun.pc, sigRun.todo, sigRun.name, sigRun.override, sigRun.errors, sigRun.done)
  BY SigNow
<1>4. /\ n \in sigRun.todo /\ n = Min(sigRun.todo) /\ Journal[n][Source(sigInbox, sigFinished, n)] # <<>>
      /\ sigRun.todo \subseteq Buckets /\ sigRun.done = FALSE /\ n \in Buckets
      /\ Source(sigInbox, sigFinished, n) # 0 /\ sigFile[n] = Source(sigInbox, sigFinished, n)
  BY <1>1, <1>2, <1>3 DEF SigGoing
<1>5. PICK w : w = Source(sigInbox, sigFinished, n)
  OBVIOUS
<1>6. /\ DOMAIN sigFinished' = Buckets /\ sigFinished'[n] = w /\ \A x \in Buckets \ {n} : sigFinished'[x] = sigFinished[x]
  BY <1>2, <1>3, <1>4, <1>5, SourceIs
<1>7. /\ DOMAIN sigInbox' = Buckets /\ sigInbox'[n] = 0 /\ \A x \in Buckets \ {n} : sigInbox'[x] = sigInbox[x]
  <2>1. sigInbox'[n] = IF sigInbox[n] # 0 THEN 0 ELSE sigInbox[n]
    BY <1>2, <1>3, <1>4, SourceIs
  <2> QED BY <1>2, <1>3, <2>1
<1>8. w \in Versions
  BY <1>3, <1>4, <1>5 DEF SigKept, Source
<1>9. SigKept(sigInbox', sigFinished', sigFile, sigIndex)
  BY <1>3, <1>4, <1>5, <1>6, <1>7, <1>8 DEF SigKept, Source
<1>10. Repaired(sigInbox', sigFinished', sigFile, n)
  BY <1>4, <1>5, <1>6, <1>7 DEF Repaired
<1>11. /\ Repaired(sigInbox', sigFinished', sigFile, Min(sigRun.todo)) /\ sigRun.todo # {} /\ sigRun.pc # "idle" /\ FALSE \in BOOLEAN
       /\ \A x \in Buckets \ {Min(sigRun.todo)} : sigInbox'[x] = sigInbox[x] /\ sigFinished'[x] = sigFinished[x]
  BY <1>2, <1>4, <1>6, <1>7, <1>10
<1> QED BY <1>2, <1>6, <1>7, <1>9, <1>11, NextKeeps, Zenon

\* The index is built, and the run is over.
LEMMA SigBuildKeeps ==
  ASSUME SigInv, SigBuildIndex
  PROVE  SigInv'
<1>1. PICK rows : rows = {<<n, sigFile[n]>> : n \in {m \in Buckets : sigFile[m] > 0}}
  OBVIOUS
<1>2. /\ sigRun.pc = "files" /\ sigRun.todo = {} /\ sigRun' = [sigRun EXCEPT !.pc = "idle", !.done = TRUE]
      /\ sigIndex' = IF \A n \in Buckets : sigFile[n] = 0 THEN sigIndex ELSE rows
      /\ sigInbox' = sigInbox /\ sigFinished' = sigFinished /\ sigFile' = sigFile
  BY <1>1 DEF SigBuildIndex
<1>3. /\ DOMAIN sigInbox = Buckets /\ DOMAIN sigFinished = Buckets /\ DOMAIN sigFile = Buckets
      /\ SigKept(sigInbox, sigFinished, sigFile, sigIndex)
      /\ SigGoing(sigInbox, sigFinished, sigFile, sigIndex, sigRun.pc, sigRun.todo, sigRun.name, sigRun.override, sigRun.errors, sigRun.done)
      /\ sigRun = SigRec(sigRun.pc, sigRun.todo, sigRun.name, sigRun.override, sigRun.errors, sigRun.done, sigRun.runs)
      /\ sigRun.override \in BOOLEAN /\ sigRun.errors \in BOOLEAN /\ sigRun.done \in BOOLEAN
  BY SigNow
<1>4. sigRun.override = TRUE /\ sigRun.errors = FALSE => \A x \in Buckets : Repaired(sigInbox, sigFinished, sigFile, x)
  BY <1>2, <1>3 DEF SigGoing
<1>5. sigRun' = SigRec("idle", {}, sigRun.name, sigRun.override, sigRun.errors, TRUE, sigRun.runs)
  BY <1>2, <1>3 DEF SigRec
<1>6. sigIndex' = rows
  <2>1. CASE \A n \in Buckets : sigFile[n] = 0
    <3>1. sigIndex = {}
      BY <1>3, <2>1 DEF SigKept
    <3>2. rows = {}
      BY <1>1, <2>1
    <3> QED BY <1>2, <2>1, <3>1, <3>2
  <2>2. CASE ~ \A n \in Buckets : sigFile[n] = 0
    BY <1>2, <2>2
  <2> QED BY <2>1, <2>2
<1>7. SigKept(sigInbox, sigFinished, sigFile, sigIndex')
  BY <1>2, <1>3 DEF SigKept
<1>8. SigGoing(sigInbox, sigFinished, sigFile, rows, "idle", {}, sigRun.name, sigRun.override, sigRun.errors, TRUE)
  BY <1>1, <1>4 DEF SigGoing
<1>9. /\ SigKept(sigInbox', sigFinished', sigFile', sigIndex') /\ DOMAIN sigInbox' = Buckets /\ DOMAIN sigFinished' = Buckets
      /\ DOMAIN sigFile' = Buckets /\ TRUE \in BOOLEAN
      /\ SigGoing(sigInbox', sigFinished', sigFile', sigIndex', "idle", {}, sigRun.name, sigRun.override, sigRun.errors, TRUE)
  BY <1>2, <1>3, <1>6, <1>7, <1>8
<1> QED BY <1>3, <1>5, <1>9, SigNext

\* The process is killed.
LEMMA SigCrashKeeps ==
  ASSUME SigInv, SigCrash
  PROVE  SigInv'
<1>1. /\ sigRun' = SigRec("idle", {}, 0, FALSE, FALSE, FALSE, sigRun.runs)
      /\ sigInbox' = sigInbox /\ sigFinished' = sigFinished /\ sigFile' = sigFile /\ sigIndex' = sigIndex
  BY SigIdleFields DEF SigCrash, sigDisk
<1>2. /\ DOMAIN sigInbox = Buckets /\ DOMAIN sigFinished = Buckets /\ DOMAIN sigFile = Buckets
      /\ SigKept(sigInbox, sigFinished, sigFile, sigIndex)
  BY SigNow
<1>3. SigGoing(sigInbox', sigFinished', sigFile', sigIndex', "idle", {}, 0, FALSE, FALSE, FALSE)
  BY DEF SigGoing
<1>4. /\ SigKept(sigInbox', sigFinished', sigFile', sigIndex') /\ DOMAIN sigInbox' = Buckets /\ DOMAIN sigFinished' = Buckets
      /\ DOMAIN sigFile' = Buckets /\ FALSE \in BOOLEAN
  BY <1>1, <1>2
<1> QED BY <1>1, <1>3, <1>4, SigNext

\* No step of the importer disturbs the invariant.
LEMMA SigSteps ==
  ASSUME SigInv, [SignalNext]_sigVars
  PROVE  SigInv'
<1>1. CASE UNCHANGED sigVars
  <2>1. /\ sigInbox' = sigInbox /\ sigFinished' = sigFinished /\ sigFile' = sigFile /\ sigIndex' = sigIndex /\ sigRun' = sigRun
    BY <1>1 DEF sigVars
  <2> QED BY <2>1 DEF SigInv, SigTypes
<1>2. CASE SignalNext
  BY <1>2, SigCollectKeeps, SigStartKeeps, SigConvertKeeps, SigWriteKeeps, SigWrittenKeeps, SigFailsKeeps, SigMoveKeeps,
     SigBuildKeeps, SigCrashKeeps, Zenon DEF SignalNext
<1> QED BY <1>1, <1>2

\* What the invariant says of the archive.
LEMMA SigSays ==
  ASSUME SigInv
  PROVE  /\ SourcesKept /\ OverrideRepairs
         /\ sigRun.done => sigIndex = {<<n, sigFile[n]>> : n \in {m \in Buckets : sigFile[m] > 0}}
<1>1. /\ SigKept(sigInbox, sigFinished, sigFile, sigIndex)
      /\ SigGoing(sigInbox, sigFinished, sigFile, sigIndex, sigRun.pc, sigRun.todo, sigRun.name, sigRun.override, sigRun.errors, sigRun.done)
      /\ sigRun.override \in BOOLEAN /\ sigRun.errors \in BOOLEAN /\ sigRun.done \in BOOLEAN
  BY SigNow
<1>2. SourcesKept
  BY <1>1 DEF SourcesKept, SigKept
<1>3. OverrideRepairs
  BY <1>1 DEF OverrideRepairs, SigGoing, Repaired
<1>4. sigRun.done => sigIndex = {<<n, sigFile[n]>> : n \in {m \in Buckets : sigFile[m] > 0}}
  BY <1>1 DEF SigGoing
<1> QED BY <1>2, <1>3, <1>4

-----------------------------------------------------------------------------
(* The archive of signals: what a run is served *)

\* The bounds of a journal file are times of its envelopes.
LEMMA SpanEnds ==
  ASSUME NEW j \in Seq(Envelopes), j # <<>>
  PROVE  /\ Min(SpanOf(j)) \in SpanOf(j) /\ Max(SpanOf(j)) \in SpanOf(j)
         /\ \A a \in SpanOf(j) : a \in Int /\ Min(SpanOf(j)) <= a /\ a <= Max(SpanOf(j))
<1>1. PICK n \in Nat : n = Len(j) /\ DOMAIN j = 1 .. n
  OBVIOUS
<1>2. n # 0
  BY <1>1
<1>3. PICK f : f = [i \in 1 .. n |-> j[i].at]
  OBVIOUS
<1>4. PICK g : g = [i \in 1 .. n |-> 0 - j[i].at]
  OBVIOUS
<1>5. \A i \in 1 .. n : f[i] = j[i].at /\ j[i].at \in Int /\ g[i] = 0 - j[i].at
  <2>1. \A i \in 1 .. n : j[i] \in Envelopes
    BY <1>1
  <2>2. \A e \in Envelopes : e.at \in Int
    BY DEF Envelopes
  <2> QED BY <1>3, <1>4, <2>1, <2>2
<1>6. \A i \in 1 .. n : f[i] \in Int /\ g[i] \in Int
  BY <1>5
<1>7. 1 \in Nat /\ 1 <= n
  BY <1>2
<1>8. PICK lo \in 1 .. n : \A i \in 1 .. n : f[lo] <= f[i]
  BY <1>6, <1>7, LeastOf
<1>9. PICK hi \in 1 .. n : \A i \in 1 .. n : g[hi] <= g[i]
  BY <1>6, <1>7, LeastOf
<1>10. PICK S : S = SpanOf(j)
  OBVIOUS
<1>11. \A a : a \in S <=> \E i \in 1 .. n : a = j[i].at
  BY <1>1, <1>10 DEF SpanOf
<1>12. \A a \in S : a \in Int
  BY <1>5, <1>11
<1>13. \E l \in S : \A a \in S : l <= a
  <2>1. \A i \in 1 .. n : j[lo].at <= j[i].at
    BY <1>5, <1>8
  <2>2. PICK l : l = j[lo].at
    OBVIOUS
  <2>3. l \in S
    BY <1>11, <2>2
  <2>4. \A a \in S : l <= a
    BY <1>11, <2>1, <2>2
  <2> QED BY <2>3, <2>4
<1>14. \E h \in S : \A a \in S : h >= a
  <2>1. \A i \in 1 .. n : j[hi].at >= j[i].at
    <3>1. \A x, y \in Int : 0 - x <= 0 - y => x >= y
      OBVIOUS
    <3> QED BY <1>5, <1>9, <3>1
  <2>2. PICK h : h = j[hi].at
    OBVIOUS
  <2>3. h \in S
    BY <1>11, <2>2
  <2>4. \A a \in S : h >= a
    BY <1>11, <2>1, <2>2
  <2> QED BY <2>3, <2>4
<1>15. Min(S) \in S /\ \A a \in S : Min(S) <= a
  BY <1>13 DEF Min
<1>16. Max(S) \in S /\ \A a \in S : Max(S) >= a
  BY <1>14 DEF Max
<1> QED BY <1>10, <1>12, <1>15, <1>16

\* Of moments none of which comes after m there is a last.
LEMMA LastMoment ==
  ASSUME NEW E, \A e \in E : e.at \in Int, NEW m \in Int, NEW d \in E, d.at <= m
  PROVE  \E e \in E : e.at <= m /\ \A o \in E : o.at <= m => o.at <= e.at
<1>1. PICK T : T = {m - e.at : e \in {x \in E : x.at <= m}}
  OBVIOUS
<1>2. T \in SUBSET Nat /\ T # {}
  <2>1. ASSUME NEW k \in T
        PROVE  k \in Nat
    <3>1. PICK e \in E : e.at <= m /\ k = m - e.at
      BY <1>1, <2>1
    <3>2. PICK x \in Int : x = e.at
      OBVIOUS
    <3> QED BY <3>1, <3>2
  <2>2. m - d.at \in T
    BY <1>1
  <2> QED BY <2>1, <2>2
<1>3. PICK k \in T : \A i \in T : k <= i
  BY <1>2, LeastNumber
<1>4. PICK e \in E : e.at <= m /\ k = m - e.at
  BY <1>1, <1>3
<1>5. ASSUME NEW o \in E, o.at <= m
      PROVE  o.at <= e.at
  <2>1. k <= m - o.at
    BY <1>1, <1>3, <1>5
  <2>2. o.at \in Int /\ e.at \in Int
    OBVIOUS
  <2> QED BY <1>4, <2>1, <2>2
<1> QED BY <1>4, <1>5

\* If a part has the newest moments of the whole, then what is left of it after
\* the trim has them as well, wherever in the window one looks.
LEMMA NewestKept ==
  ASSUME NEW E, NEW P, P \subseteq E, \A e \in E : e.at \in Int,
         NEW s \in Int, NEW t \in Int, NEW m \in Int, s <= m, m <= t,
         AsOf(E, m) \subseteq P
  PROVE  AsOf(Trim(P, s, t), m) = AsOf(E, m)
<1>1. PICK Q : Q = Trim(P, s, t)
  OBVIOUS
<1>2. \A e : e \in Q <=> e \in P /\ e.at <= t /\ \A o \in P : o.at <= s => o.at <= e.at
  BY <1>1 DEF Trim
<1>3. \A e : e \in AsOf(E, m) <=> e \in E /\ e.at <= m /\ \A o \in E : o.at <= m => o.at <= e.at
  BY DEF AsOf
<1>4. \A e : e \in AsOf(Q, m) <=> e \in Q /\ e.at <= m /\ \A o \in Q : o.at <= m => o.at <= e.at
  BY DEF AsOf
<1>5. Q \subseteq E
  BY <1>2
<1>6. ASSUME NEW e \in AsOf(E, m)
      PROVE  e \in Q
  <2>1. e \in P /\ e \in E /\ e.at <= m /\ \A o \in E : o.at <= m => o.at <= e.at
    BY <1>3
  <2>2. e.at <= t
    BY <2>1
  <2>3. \A o \in P : o.at <= s => o.at <= m
    OBVIOUS
  <2> QED BY <1>2, <2>1, <2>2, <2>3
<1>7. ASSUME NEW e \in AsOf(E, m)
      PROVE  e \in AsOf(Q, m)
  BY <1>3, <1>4, <1>5, <1>6
<1>8. ASSUME NEW e \in AsOf(Q, m)
      PROVE  e \in AsOf(E, m)
  <2>1. e \in E /\ e.at <= m
    BY <1>4, <1>5
  <2>2. PICK x \in E : x.at <= m /\ \A o \in E : o.at <= m => o.at <= x.at
    BY <2>1, LastMoment
  <2>3. x \in AsOf(E, m)
    BY <1>3, <2>2
  <2>4. x \in Q
    BY <1>6, <2>3
  <2>5. x.at <= e.at
    BY <1>4, <2>2, <2>4
  <2>6. \A o \in E : o.at <= m => o.at <= e.at
    <3>1. x.at \in Int /\ e.at \in Int
      BY <2>1
    <3> QED BY <2>2, <2>5, <3>1
  <2> QED BY <1>3, <2>1, <2>6
<1> QED BY <1>1, <1>7, <1>8

\* What the index lists: one version of a name, with some result for the symbol.
LEMMA RowsAre ==
  ASSUME SigInv, sigRun.done, NEW y, NEW r \in RowsOf(y)
  PROVE  /\ r[1] \in Buckets /\ r[2] \in Versions /\ r[2] = sigFile[r[1]] /\ r = <<r[1], r[2]>>
         /\ Journal[r[1]][r[2]] \in Seq(Envelopes) /\ Journal[r[1]][r[2]] # <<>>
         /\ RowSpan(r) = SpanOf(Journal[r[1]][r[2]])
<1>1. PICK n \in Buckets : sigFile[n] > 0 /\ r = <<n, sigFile[n]>>
  <2>1. r \in sigIndex
    BY DEF RowsOf
  <2>2. sigIndex = {<<n, sigFile[n]>> : n \in {m \in Buckets : sigFile[m] > 0}}
    BY SigSays
  <2> QED BY <2>1, <2>2
<1>2. sigFile[n] \in Versions
  <2>1. sigFile[n] \in Versions \cup {0, -1}
    BY SigNow DEF SigKept
  <2> QED BY <1>1, <2>1
<1>3. r[1] = n /\ r[2] = sigFile[n]
  BY <1>1
<1>4. Journal[r[1]][r[2]] \in Seq(Envelopes)
  BY <1>2, <1>3, SignalAssumption
<1>5. Journal[r[1]][r[2]] # <<>>
  <2>1. PICK e : e \in EnvelopesIn({r})
    BY DEF RowsOf
  <2>2. \E i \in DOMAIN Journal[r[1]][r[2]] : TRUE
    BY <2>1, Zenon DEF EnvelopesIn
  <2>3. DOMAIN <<>> = {}
    OBVIOUS
  <2> QED BY <2>2, <2>3
<1> QED BY <1>1, <1>2, <1>3, <1>4, <1>5 DEF RowSpan

\* The times of the rows, and their order: a journal is cut by its periods.
LEMMA RowTimes ==
  ASSUME SigInv, sigRun.done, NEW y, NEW r \in RowsOf(y)
  PROVE  /\ Min(RowSpan(r)) \in RowSpan(r) /\ Max(RowSpan(r)) \in RowSpan(r)
         /\ \A a \in RowSpan(r) : a \in Int /\ Min(RowSpan(r)) <= a /\ a <= Max(RowSpan(r))
         /\ \A o \in RowsOf(y) :
               \/ o = r
               \/ \A a \in RowSpan(o), b \in RowSpan(r) : a < b
               \/ \A a \in RowSpan(o), b \in RowSpan(r) : b < a
<1>1. Journal[r[1]][r[2]] \in Seq(Envelopes) /\ Journal[r[1]][r[2]] # <<>> /\ RowSpan(r) = SpanOf(Journal[r[1]][r[2]])
  BY RowsAre
<1>2. ASSUME NEW o \in RowsOf(y)
      PROVE  \/ o = r
             \/ \A a \in RowSpan(o), b \in RowSpan(r) : a < b
             \/ \A a \in RowSpan(o), b \in RowSpan(r) : b < a
  <2>1. PICK n \in Buckets, v \in Versions : n = r[1] /\ v = r[2] /\ v = sigFile[n] /\ r = <<n, v>> /\ RowSpan(r) = SpanOf(Journal[n][v])
    BY RowsAre
  <2>2. PICK k \in Buckets, w \in Versions : k = o[1] /\ w = o[2] /\ w = sigFile[k] /\ o = <<k, w>> /\ RowSpan(o) = SpanOf(Journal[k][w])
    BY RowsAre
  <2>3. n = k \/ n < k \/ k < n
    BY SignalAssumption
  <2>4. n < k => \A a \in RowSpan(o), b \in RowSpan(r) : b < a
    BY <2>1, <2>2, BucketsApart
  <2>5. k < n => \A a \in RowSpan(o), b \in RowSpan(r) : a < b
    BY <2>1, <2>2, BucketsApart
  <2> QED BY <2>1, <2>2, <2>3, <2>4, <2>5, Zenon
<1>3. /\ Min(RowSpan(r)) \in RowSpan(r) /\ Max(RowSpan(r)) \in RowSpan(r)
      /\ \A a \in RowSpan(r) : a \in Int /\ Min(RowSpan(r)) <= a /\ a <= Max(RowSpan(r))
  BY <1>1, SpanEnds
<1> QED BY <1>2, <1>3

\* The newest envelope at a moment of the window is in a file that is loaded.
LEMMA NewestLoaded ==
  ASSUME SigInv, sigRun.done, NEW y, NEW s \in Int, NEW t \in Int, NEW m \in Int, s <= m, m <= t,
         NEW r \in RowsOf(y), NEW a \in RowSpan(r), a <= m,
         \A o \in RowsOf(y) : \A b \in RowSpan(o) : b <= m => b <= a
  PROVE  r \in RelevantSignalFiles(y, s, t)
<1>1. PICK over : over = Overlapping(y, s, t)
  OBVIOUS
<1>2. \A o : o \in over <=> o \in RowsOf(y) /\ Min(RowSpan(o)) <= t /\ Max(RowSpan(o)) >= s
  BY <1>1 DEF Overlapping
<1>3. PICK before : before = {o \in RowsOf(y) : Max(RowSpan(o)) < s}
  OBVIOUS
<1>4. PICK preceding : preceding = {o \in before : \A p \in before : Min(RowSpan(p)) <= Min(RowSpan(o))}
  OBVIOUS
<1>5. RelevantSignalFiles(y, s, t) = IF \E o \in over : Min(RowSpan(o)) <= s THEN over ELSE over \cup preceding
  BY <1>1, <1>3, <1>4 DEF RelevantSignalFiles
<1>6. \A o \in RowsOf(y) : /\ Min(RowSpan(o)) \in RowSpan(o) /\ Max(RowSpan(o)) \in RowSpan(o)
                           /\ Min(RowSpan(o)) \in Int /\ Max(RowSpan(o)) \in Int /\ Min(RowSpan(o)) <= Max(RowSpan(o))
  BY RowTimes
<1>7. a \in Int /\ Min(RowSpan(r)) <= a /\ a <= Max(RowSpan(r))
  BY RowTimes
<1>8. CASE Max(RowSpan(r)) >= s
  <2>1. Min(RowSpan(r)) <= t
    BY <1>6, <1>7
  <2> QED BY <1>2, <1>5, <1>8, <2>1
<1>9. CASE ~(Max(RowSpan(r)) >= s)
  <2>1. r \in before /\ a < s
    BY <1>3, <1>6, <1>7, <1>9
  <2>2. ASSUME NEW o \in over, Min(RowSpan(o)) <= s
        PROVE  FALSE
    <3>1. o \in RowsOf(y) /\ Max(RowSpan(o)) >= s
      BY <1>2
    <3>2. Min(RowSpan(o)) <= a
      <4>1. Min(RowSpan(o)) <= m
        BY <1>6, <2>2, <3>1
      <4> QED BY <1>6, <3>1, <4>1
    <3>3. o # r
      BY <1>9, <3>1
    <3>4. CASE \A c \in RowSpan(o), b \in RowSpan(r) : c < b
      <4>1. Max(RowSpan(o)) < a
        BY <1>6, <3>1, <3>4
      <4> QED BY <1>6, <1>7, <2>1, <3>1, <4>1
    <3>5. CASE \A c \in RowSpan(o), b \in RowSpan(r) : b < c
      <4>1. a < Min(RowSpan(o))
        BY <1>6, <3>1, <3>5
      <4> QED BY <1>6, <1>7, <3>1, <3>2, <4>1
    <3> QED BY <3>1, <3>3, <3>4, <3>5, RowTimes
  <2>3. ASSUME NEW o \in before
        PROVE  Min(RowSpan(o)) <= Min(RowSpan(r))
    <3>1. o \in RowsOf(y) /\ Max(RowSpan(o)) < s
      BY <1>3
    <3>2. Max(RowSpan(o)) <= a
      <4>1. Max(RowSpan(o)) <= m
        BY <1>6, <3>1
      <4> QED BY <1>6, <3>1, <4>1
    <3>3. CASE o = r
      BY <1>6, <3>3
    <3>4. CASE \A c \in RowSpan(o), b \in RowSpan(r) : c < b
      <4>1. Min(RowSpan(o)) < Min(RowSpan(r))
        BY <1>6, <3>1, <3>4
      <4> QED BY <1>6, <3>1, <4>1
    <3>5. CASE \A c \in RowSpan(o), b \in RowSpan(r) : b < c
      <4>1. a < Max(RowSpan(o))
        BY <1>6, <3>1, <3>5
      <4> QED BY <1>6, <1>7, <3>1, <3>2, <4>1
    <3> QED BY <3>1, <3>3, <3>4, <3>5, RowTimes
  <2> QED BY <1>4, <1>5, <2>1, <2>2, <2>3
<1> QED BY <1>8, <1>9

\* What a symbol's series takes from envelopes: time, and whether the symbol has a result.
LEMMA Projected ==
  ASSUME NEW N, NEW y, NEW e
  PROVE  e \in Project(N, y) <=> \E o \in N : e = [at |-> o.at, has |-> y \in o.syms]
<1>1. PICK M : M = Project(N, y)
  OBVIOUS
<1>2. M = {[at |-> o.at, has |-> y \in o.syms] : o \in N}
  BY <1>1 DEF Project
<1>3. e \in M <=> \E o \in N : e = [at |-> o.at, has |-> y \in o.syms]
  BY <1>2, Zenon
<1> QED BY <1>1, <1>3

\* The series a symbol has in some files: of each envelope, its time and whether it has a result.
LEMMA ProjectedRows ==
  ASSUME NEW Rs, NEW y
  PROVE  \A e : e \in Project(EnvelopesIn(Rs), y) <=>
                   \E r \in Rs : \E i \in DOMAIN Journal[r[1]][r[2]] :
                     e = [at |-> Journal[r[1]][r[2]][i].at, has |-> y \in Journal[r[1]][r[2]][i].syms]
<1>1. PICK N : N = EnvelopesIn(Rs)
  OBVIOUS
<1>2. \A o : o \in N <=> \E r \in Rs : \E i \in DOMAIN Journal[r[1]][r[2]] : o = Journal[r[1]][r[2]][i]
  BY <1>1 DEF EnvelopesIn
<1>3. ASSUME NEW e, e \in Project(N, y)
      PROVE  \E r \in Rs : \E i \in DOMAIN Journal[r[1]][r[2]] :
               e = [at |-> Journal[r[1]][r[2]][i].at, has |-> y \in Journal[r[1]][r[2]][i].syms]
  <2>1. PICK o \in N : e = [at |-> o.at, has |-> y \in o.syms]
    BY <1>3, Projected
  <2>2. PICK r \in Rs : \E i \in DOMAIN Journal[r[1]][r[2]] : o = Journal[r[1]][r[2]][i]
    BY <1>2
  <2>3. PICK i \in DOMAIN Journal[r[1]][r[2]] : o = Journal[r[1]][r[2]][i]
    BY <2>2
  <2> QED BY <2>1, <2>3, Zenon
<1>4. ASSUME NEW r \in Rs, NEW i \in DOMAIN Journal[r[1]][r[2]]
      PROVE  [at |-> Journal[r[1]][r[2]][i].at, has |-> y \in Journal[r[1]][r[2]][i].syms] \in Project(N, y)
  <2>1. PICK o : o = Journal[r[1]][r[2]][i]
    OBVIOUS
  <2>2. o \in N
    BY <1>2, <2>1
  <2>3. [at |-> o.at, has |-> y \in o.syms] \in Project(N, y)
    BY <2>2, Projected
  <2> QED BY <2>1, <2>3, Zenon
<1> QED BY <1>1, <1>3, <1>4, Zenon

\* A run sees at every moment of its window what it would have seen with all files.
LEMMA SigServes ==
  ASSUME SigInv, sigRun.done, NEW y, NEW s \in Int, NEW t \in Int, NEW m \in Int, s <= m, m <= t
  PROVE  AsOf(LoadSeries(y, s, t), m) = AsOf(Project(EnvelopesIn(RowsOf(y)), y), m)
<1>1. PICK R : R = RelevantSignalFiles(y, s, t)
  OBVIOUS
<1>2. PICK E : E = Project(EnvelopesIn(RowsOf(y)), y)
  OBVIOUS
<1>3. PICK P : P = Project(EnvelopesIn(R), y)
  OBVIOUS
<1>4. R \subseteq RowsOf(y)
  BY <1>1 DEF RelevantSignalFiles, Overlapping
<1>5. \A e : e \in E <=> \E r \in RowsOf(y) : \E i \in DOMAIN Journal[r[1]][r[2]] :
                           e = [at |-> Journal[r[1]][r[2]][i].at, has |-> y \in Journal[r[1]][r[2]][i].syms]
  BY <1>2, ProjectedRows
<1>6. \A e : e \in P <=> \E r \in R : \E i \in DOMAIN Journal[r[1]][r[2]] :
                           e = [at |-> Journal[r[1]][r[2]][i].at, has |-> y \in Journal[r[1]][r[2]][i].syms]
  BY <1>3, ProjectedRows
<1>7. P \subseteq E
  BY <1>4, <1>5, <1>6, Zenon
<1>8. \A r \in RowsOf(y) : \A a : a \in RowSpan(r) <=> \E i \in DOMAIN Journal[r[1]][r[2]] : a = Journal[r[1]][r[2]][i].at
  BY Zenon DEF RowSpan, SpanOf
<1>9. ASSUME NEW e \in E
      PROVE  \E r \in RowsOf(y) : e.at \in RowSpan(r) /\ (r \in R => e \in P)
  <2>1. PICK r \in RowsOf(y) : \E i \in DOMAIN Journal[r[1]][r[2]] :
          e = [at |-> Journal[r[1]][r[2]][i].at, has |-> y \in Journal[r[1]][r[2]][i].syms]
    BY <1>5
  <2>2. PICK i \in DOMAIN Journal[r[1]][r[2]] :
          e = [at |-> Journal[r[1]][r[2]][i].at, has |-> y \in Journal[r[1]][r[2]][i].syms]
    BY <2>1
  <2>3. e.at = Journal[r[1]][r[2]][i].at
    BY <2>2
  <2>4. e.at \in RowSpan(r)
    BY <1>8, <2>3
  <2>5. r \in R => e \in P
    BY <1>6, <2>2
  <2> QED BY <2>4, <2>5
<1>10. ASSUME NEW r \in RowsOf(y), NEW a \in RowSpan(r)
       PROVE  \E e \in E : e.at = a
  <2>1. PICK i \in DOMAIN Journal[r[1]][r[2]] : a = Journal[r[1]][r[2]][i].at
    BY <1>8
  <2>2. PICK e : e = [at |-> Journal[r[1]][r[2]][i].at, has |-> y \in Journal[r[1]][r[2]][i].syms]
    OBVIOUS
  <2>3. e \in E
    BY <1>5, <2>2
  <2> QED BY <2>1, <2>2, <2>3
<1>11. \A e \in E : e.at \in Int
  BY <1>9, RowTimes
<1>12. AsOf(E, m) \subseteq P
  <2>1. ASSUME NEW e \in AsOf(E, m)
        PROVE  e \in P
    <3>1. e \in E /\ e.at <= m /\ \A o \in E : o.at <= m => o.at <= e.at
      BY DEF AsOf
    <3>2. PICK r \in RowsOf(y) : e.at \in RowSpan(r) /\ (r \in R => e \in P)
      BY <1>9, <3>1
    <3>3. \A o \in RowsOf(y) : \A b \in RowSpan(o) : b <= m => b <= e.at
      BY <1>10, <3>1
    <3>4. r \in R
      BY <1>1, <3>1, <3>2, <3>3, NewestLoaded
    <3> QED BY <3>2, <3>4
  <2> QED BY <2>1
<1>13. LoadSeries(y, s, t) = Trim(P, s, t)
  BY <1>1, <1>3 DEF LoadSeries
<1>14. AsOf(Trim(P, s, t), m) = AsOf(E, m)
  BY <1>7, <1>11, <1>12, NewestKept
<1> QED BY <1>2, <1>13, <1>14

\* Whatever an import of signals is stopped by: what lies in the archive can be
\* made again, a run with override repairs it, the index is true of it, and a
\* run sees at each moment of its window the signal it would have seen with all
\* files of the symbol (SignalDataImporter, SignalIndexManager.get_relevant_files
\* and load_signal_series_from_parquet).
THEOREM SignalsAlwaysServed ==
  SignalInit /\ [][SignalNext]_sigVars => [](SourcesKept /\ OverrideRepairs /\ SignalServed)
<1>1. SignalInit => SigInv
  BY SigStarts
<1>2. SigInv /\ [SignalNext]_sigVars => SigInv'
  BY SigSteps
<1>3. SigInv => SourcesKept /\ OverrideRepairs /\ SignalServed
  <2> SUFFICES ASSUME SigInv PROVE SourcesKept /\ OverrideRepairs /\ SignalServed
    OBVIOUS
  <2>1. ASSUME sigRun.done, NEW y \in SignalSymbols, NEW s \in 1 .. LastInstant, NEW t \in s .. LastInstant, NEW m \in s .. t
        PROVE  AsOf(LoadSeries(y, s, t), m) = AsOf(Project(EnvelopesIn(RowsOf(y)), y), m)
    <3>1. s \in Int /\ t \in Int /\ m \in Int /\ s <= m /\ m <= t
      BY SignalAssumption DEF SignalAssumption
    <3> QED BY <2>1, <3>1, SigServes
  <2>2. SignalServed
    BY <2>1, SigSays, Zenon DEF SignalServed
  <2> QED BY <2>2, SigSays
<1> QED BY <1>1, <1>2, <1>3, PTL

\* However imports of ticks and of signals fail, are killed and are repeated,
\* and whatever was collected: no tick is lost, index and bars are those of the
\* files, what the validation passes is so; signals can be made again, a run
\* with override repairs them, and they are served as they were published.
THEOREM ArchivesAlwaysSound ==
  ArchiveInit /\ [][ArchiveNext]_archiveVars /\ SignalInit /\ [][SignalNext]_sigVars => []ArchivesSound
<1>1. ArchiveSound /\ SourcesKept /\ OverrideRepairs /\ SignalServed => ArchivesSound
  BY DEF ArchivesSound
<1> QED BY <1>1, ArchiveAlwaysSound, SignalsAlwaysServed, PTL
=============================================================================
