----------------------------- MODULE DiscoveryCache -----------------------------
(***************************************************************************)
(* The three discovery caches of a symbol - coverage report, extreme moves,*)
(* volatility profile - as a process asks for reports, one at a time, and  *)
(* an import renders the symbol's bars again meanwhile.                    *)
(*                                                                         *)
(* A version of the bar file is a number that grows with every rendering   *)
(* and stands for its content and its modification time; version 0 is a bar*)
(* file that is not there.  A cache file records the version its report is *)
(* about (of) and the modification time that was written into it (mtime).  *)
(***************************************************************************)
EXTENDS Integers, Sequences, FiniteSets

CONSTANTS
    MaxVersion,    \* bound: renderings of the bars
    MaxRequests    \* bound: requests

ASSUME CacheAssumption == MaxVersion \in Nat /\ MaxRequests \in Nat

Discoveries == <<"coverage", "moves", "profile">>

VARIABLES
    barFile,      \* [version, there]: the bar file
    cached,     \* per kind: the cache file
    asking,    \* the request a process works on
    gran,      \* the granularity the configuration names
    requests,  \* how many requests were made
    answered,  \* the last report that was handed over, with the versions that were
               \* current while it was asked for
    raced      \* kinds for which a report was stamped with a newer file's time

cacheVars == <<barFile, cached, asking, gran, requests, answered, raced>>

NoFile == [state |-> "none", of |-> 0, mtime |-> 0, gran |-> "none"]
NoRequest == [pc |-> "idle", todo |-> <<>>, saw |-> 0, stamp |-> 0, during |-> {}]
NoAnswer == [kind |-> "none", of |-> 0, during |-> {}, gran |-> "none", asked |-> "none", got |-> "none"]

CacheInit ==
    /\ barFile = [version |-> 1, there |-> TRUE]
    /\ cached = [k \in {Discoveries[i] : i \in DOMAIN Discoveries} |-> NoFile]
    /\ asking = NoRequest
    /\ gran = "M5" /\ requests = 0 /\ answered = NoAnswer
    /\ raced = {}

\* _get_source_bar_mtime: nothing when the file is not there.
Mtime == IF barFile.there THEN barFile.version ELSE 0

----------------------------------------------------------------------------
(* The bars                                                                *)

\* A request under way sees the new version as current.
SeenBars(v) == asking' = IF asking.pc = "idle" THEN asking ELSE [asking EXCEPT !.during = @ \cup {v}]

\* BarImporter with clean: the files go before the rendering writes them.
BarsRemoved ==
    /\ barFile.there /\ barFile.version < MaxVersion
    /\ barFile' = [barFile EXCEPT !.there = FALSE] /\ SeenBars(0)
    /\ UNCHANGED <<cached, answered, raced, gran, requests>>

BarsRendered ==
    /\ barFile.version < MaxVersion
    /\ barFile' = [version |-> barFile.version + 1, there |-> TRUE] /\ SeenBars(barFile.version + 1)
    /\ UNCHANGED <<cached, answered, raced, gran, requests>>

----------------------------------------------------------------------------
(* The caches                                                              *)

\* is_cache_valid of the coverage report: a file that cannot be read, was made
\* for another granularity, or is older than the bars is not valid.
CoverageValid ==
    LET f == cached["coverage"]
    IN  f.state = "ok" /\ f.gran = gran /\ barFile.there /\ Mtime <= f.mtime

\* Mutant: a readable file is a valid one.
MovesValidReadable == cached["moves"].state = "ok" /\ barFile.there

\* is_cache_valid of the extreme moves.
MovesValid == LET f == cached["moves"] IN f.state = "ok" /\ barFile.there /\ Mtime <= f.mtime

\* is_cache_valid of the volatility profile.
ProfileValid == LET f == cached["profile"] IN f.state = "ok" /\ barFile.there /\ Mtime <= f.mtime

IsCacheValid(kind) ==
    CASE kind = "coverage" -> CoverageValid
      [] kind = "moves"    -> MovesValid
      [] OTHER             -> ProfileValid

\* What is written: the coverage report carries the granularity.
CoverageFile ==
    [state |-> "ok", of |-> asking.saw, mtime |-> asking.stamp, gran |-> gran]
MovesFile == [state |-> "ok", of |-> asking.saw, mtime |-> asking.stamp, gran |-> "M5"]
ProfileFile == [state |-> "ok", of |-> asking.saw, mtime |-> asking.stamp, gran |-> "M5"]

CacheFile(kind) ==
    CASE kind = "coverage" -> CoverageFile
      [] kind = "moves"    -> MovesFile
      [] OTHER             -> ProfileFile

Asked == Head(asking.todo)

Got(of, g) ==
    answered' = [kind |-> Asked.kind, of |-> of, during |-> asking.during, gran |-> g, asked |-> gran, got |-> "report"]

\* The job is done; a rebuild goes on with the next kind.
NextAsked ==
    asking' = IF Len(asking.todo) > 1
              THEN [NoRequest EXCEPT !.pc = "check", !.todo = Tail(asking.todo), !.during = {Mtime}]
              ELSE NoRequest

\* get_report, get_extreme_moves, get_profile.
Ask(kind, force) ==
    /\ asking.pc = "idle" /\ requests < MaxRequests /\ requests' = requests + 1
    /\ asking' = [NoRequest EXCEPT !.pc = "check", !.during = {Mtime},
                              !.todo = <<[kind |-> kind, force |-> force, all |-> FALSE]>>]
    /\ UNCHANGED <<barFile, cached, answered, raced, gran>>

\* DiscoveryCacheManager.rebuild_all runs build_all of the three in turn.
RebuildAll(force) ==
    /\ asking.pc = "idle" /\ requests < MaxRequests /\ requests' = requests + 1
    /\ asking' = [NoRequest EXCEPT !.pc = "check", !.during = {Mtime},
                              !.todo = [i \in DOMAIN Discoveries |-> [kind |-> Discoveries[i], force |-> force, all |-> TRUE]]]
    /\ UNCHANGED <<barFile, cached, answered, raced, gran>>

\* The configuration names another granularity; the processes started later
\* read it.
Reconfigure ==
    /\ gran = "M5" /\ asking.pc = "idle"
    /\ gran' = "M15"
    /\ UNCHANGED <<barFile, cached, asking, requests, answered, raced>>

\* A valid file is loaded, or skipped by build_all; otherwise the report is
\* made.
CheckCache ==
    /\ asking.pc = "check"
    /\ LET hit == ~Asked.force /\ IsCacheValid(Asked.kind)
       IN  IF hit /\ Asked.all THEN NextAsked
           ELSE asking' = [asking EXCEPT !.pc = IF hit THEN "load" ELSE "analyse"]
    /\ UNCHANGED <<barFile, cached, answered, raced, gran, requests>>

\* _load_from_cache, _load_extreme_moves and _load_profile: a file that was torn or
\* removed is no report.
CoverageLoads == cached["coverage"].state = "ok"
MovesLoad == cached["moves"].state = "ok"
ProfileLoads == cached["profile"].state = "ok"

Loads(kind) ==
    CASE kind = "coverage" -> CoverageLoads
      [] kind = "moves"    -> MovesLoad
      [] OTHER             -> ProfileLoads

\* Without a report in the file, one is made.
LoadCached ==
    /\ asking.pc = "load"
    /\ LET f == cached[Asked.kind]
       IN  IF Loads(Asked.kind)
           THEN Got(f.of, f.gran) /\ NextAsked
           ELSE /\ asking' = [asking EXCEPT !.pc = "analyse"] /\ UNCHANGED answered
    /\ UNCHANGED <<barFile, cached, raced, gran, requests>>

\* DataCoverageReport.analyze: without a bar file the report is empty.
AnalyzeCoverage ==
    /\ asking.pc = "analyse" /\ Asked.kind = "coverage"
    /\ asking' = [asking EXCEPT !.pc = "stamp", !.saw = Mtime]
    /\ UNCHANGED <<barFile, cached, answered, raced, gran, requests>>

NoReport ==
    /\ answered' = [kind |-> Asked.kind, of |-> 0, during |-> asking.during, gran |-> "none", asked |-> gran, got |-> "failed"]
    /\ NextAsked

\* _load_and_prepare_bars: the report is about the bars of that moment.
LoadBars ==
    /\ asking' = [asking EXCEPT !.pc = "stamp", !.saw = Mtime]
    /\ UNCHANGED answered

\* ExtremeMoveScanner.scan raises without a bar file.
ScanMoves ==
    /\ asking.pc = "analyse" /\ Asked.kind = "moves"
    /\ IF barFile.there THEN LoadBars ELSE NoReport
    /\ UNCHANGED <<barFile, cached, raced, gran, requests>>

\* _build_profile swallows the error of a missing file; no profile, no save.
BuildProfile ==
    /\ asking.pc = "analyse" /\ Asked.kind = "profile"
    /\ IF barFile.there
       THEN /\ asking' = [asking EXCEPT !.pc = "stamp", !.saw = Mtime] /\ UNCHANGED answered
       ELSE NoReport
    /\ UNCHANGED <<barFile, cached, raced, gran, requests>>

\* The save looks up the bars' modification time after the analysis and then
\* writes the cache file in place.
StampAndOpen ==
    /\ asking.pc = "stamp"
    /\ asking' = [asking EXCEPT !.pc = "write", !.stamp = Mtime]
    /\ cached' = [cached EXCEPT ![Asked.kind].state = "torn"]
    /\ raced' = IF Mtime = asking.saw THEN raced ELSE raced \cup {Asked.kind}
    /\ UNCHANGED <<barFile, answered, gran, requests>>

Written ==
    /\ asking.pc = "write"
    /\ cached' = [cached EXCEPT ![Asked.kind] = CacheFile(Asked.kind)]
    /\ Got(asking.saw, CacheFile(Asked.kind).gran) /\ NextAsked
    /\ UNCHANGED <<barFile, raced, gran, requests>>

\* A save that fails is logged; the report is returned.
SaveFails ==
    /\ asking.pc = "write"
    /\ Got(asking.saw, CacheFile(Asked.kind).gran) /\ NextAsked
    /\ UNCHANGED <<barFile, cached, raced, gran, requests>>

\* The process ends wherever it is.
Killed ==
    /\ asking.pc # "idle"
    /\ asking' = NoRequest
    /\ UNCHANGED <<barFile, cached, answered, raced, gran, requests>>

\* DiscoveryCacheManager.clear_all.
ClearAll ==
    /\ asking.pc = "idle" /\ \E k \in DOMAIN cached : cached[k] # NoFile
    /\ cached' = [k \in DOMAIN cached |-> NoFile]
    /\ UNCHANGED <<barFile, asking, answered, raced, gran, requests>>

CacheNext ==
    \/ BarsRemoved \/ BarsRendered \/ Reconfigure
    \/ (\E kind \in DOMAIN cached, force \in BOOLEAN : Ask(kind, force))
    \/ (\E force \in BOOLEAN : RebuildAll(force))
    \/ CheckCache \/ LoadCached \/ AnalyzeCoverage \/ ScanMoves \/ BuildProfile
    \/ StampAndOpen \/ Written \/ SaveFails \/ Killed \/ ClearAll

CacheSpec == CacheInit /\ [][CacheNext]_cacheVars

----------------------------------------------------------------------------
(* Properties                                                              *)

\* A report is about bars that were current at some time while it was asked
\* for, and of the configured granularity, whatever saves failed, tore the file
\* or were cut short - unless the bars were rendered between some report's
\* analysis and its save, which stamps old content with the new time.
ServedCurrent ==
    answered.got = "report" =>
        /\ answered.of \in answered.during \/ answered.kind \in raced
        /\ answered.kind = "coverage" => answered.gran = answered.asked
=============================================================================
