----------------------------- MODULE BatchExecution -----------------------------
(***************************************************************************)
(* A batch: BatchOrchestrator validates its scenarios, MountPreparer loads *)
(* their data into a mount, and ExecutionCoordinator runs them one after   *)
(* the other or on a pool of processes.  A sweep builds the mount once from*)
(* a base set and hands it to the runs of its variants, which use it if the*)
(* data they need is the data it holds and prepare their own otherwise.    *)
(***************************************************************************)
EXTENDS DataPreparation

CONSTANTS
    ScenarioSets,  \* the scenario sets a batch may be given: sequences of scenarios
    Variants(_),   \* the sets a sweep derives from a base set
    MaxWorkers     \* default_max_parallel_scenarios

ASSUME BatchAssumption == MaxWorkers \in Nat \ {0} /\ \A S \in ScenarioSets : S \in Seq(Range(S))

VARIABLES
    scens,    \* the scenarios of the running orchestrator
    valid,    \* is_valid() of each
    reqs,     \* what its RequirementsCollector has gathered: [ticks, bars]
    load,     \* the preparation under way: [known, packages]
    mount,    \* the mount of the run
    held,     \* the mount a sweep holds between runs
    job,      \* [pc, kind, next, parallel]: where the orchestrator is
    procs,    \* per scenario: where its process is
    broken,   \* a process died and took the pool with it
    results   \* per scenario: the slot of the result list

batchVars == <<scens, valid, reqs, load, mount, held, job, procs, broken, results>>

NoMount == [packages |-> <<>>, identity |-> <<>>, bars |-> <<>>, exists |-> FALSE]
NoReqs == [ticks |-> {}, bars |-> <<>>]
NoLoad == [known |-> {}, packages |-> <<>>]
NoResult == [of |-> 0, status |-> "none"]

Valid == {i \in DOMAIN scens : valid[i]}

\* BatchOrchestrator.__init__ on a scenario set; validate_scenario_parameters
\* is the first thing run and build_mount do.
NewOrchestrator(S, kind) ==
    /\ scens' = S
    /\ valid' = [i \in DOMAIN S |-> S[i].fault # "param"]
    /\ reqs' = NoReqs /\ load' = NoLoad /\ mount' = NoMount
    /\ job' = [job EXCEPT !.pc = "config", !.kind = kind, !.next = 1]
    /\ procs' = [i \in DOMAIN S |-> "none"] /\ broken' = FALSE
    /\ results' = [i \in DOMAIN S |-> NoResult]

BatchInit ==
    \E S \in ScenarioSets, kind \in {"plain", "build"}, parallel \in BOOLEAN :
        /\ scens = S
        /\ valid = [i \in DOMAIN S |-> S[i].fault # "param"]
        /\ reqs = NoReqs /\ load = NoLoad /\ mount = NoMount /\ held = NoMount
        /\ job = [pc |-> "config", kind |-> kind, next |-> 1, parallel |-> parallel /\ Len(S) > 1]
        /\ procs = [i \in DOMAIN S |-> "none"] /\ broken = FALSE
        /\ results = [i \in DOMAIN S |-> NoResult]

execVars == <<mount, held, procs, broken, results>>

----------------------------------------------------------------------------
(* MountPreparer                                                           *)

\* prepare_scenarios.  A run that was given a mount looks at it next.
ConfigPhase ==
    /\ job.pc = "config"
    /\ valid' = [i \in DOMAIN scens |-> valid[i] /\ ~ConfigError(scens, Valid, i)]
    /\ job' = [job EXCEPT !.pc = IF job.kind = "sweep" THEN "match" ELSE "coverage"]
    /\ UNCHANGED <<scens, reqs, load, execVars>>

\* The coordinator keeps the scenarios that are valid before the availability
\* is checked.
AvailabilityPhase ==
    /\ job.pc = "coverage"
    /\ load' = [known |-> Valid, packages |-> <<>>]
    /\ valid' = [i \in DOMAIN scens |-> valid[i] /\ ~AvailabilityError(scens[i])]
    /\ job' = [job EXCEPT !.pc = "requirements"]
    /\ UNCHANGED <<scens, reqs, execVars>>

\* collect_and_validate on the valid scenarios, in order: a preflight excludes
\* a scenario before anything is gathered for it, a worker that refuses its
\* configuration only after its tick requirement is in.  The collector keeps
\* what it gathered before.
Collected ==
    LET asked == {i \in Valid : scens[i].fault # "preflight"}
        whole == SetToSortSeq({i \in asked : scens[i].fault # "worker" /\ scens[i].warm > 0}, <)
    IN  [ticks |-> reqs.ticks \cup {TickReq(scens[i]) : i \in asked},
         bars  |-> reqs.bars \o [k \in DOMAIN whole |-> BarReq(scens[whole[k]])]]

StillValid == [i \in DOMAIN scens |-> valid[i] /\ scens[i].fault \notin {"preflight", "worker"}]

RequirementsPhase ==
    /\ job.pc = "requirements"
    /\ reqs' = Collected /\ valid' = StillValid
    /\ job' = [job EXCEPT !.pc = "load"]
    /\ UNCHANGED <<scens, load, execVars>>

\* prepare_scenario_packages: every scenario the coordinator knows and that
\* has data gets a package, under its scenario_index.
LoadPhase ==
    LET packed == {i \in load.known : HasPackage(scens[i], reqs.ticks)}
    IN  /\ job.pc = "load"
        /\ load' = [load EXCEPT !.packages =
                       [i \in packed |-> Package(scens[i], reqs.ticks, reqs.bars)]]
        /\ valid' = [i \in DOMAIN scens |-> valid[i] /\ (i \in load.known => i \in packed)]
        /\ job' = [job EXCEPT !.pc = "quality"]
        /\ UNCHANGED <<scens, reqs, execVars>>

\* validate_loaded_data counts the valid scenarios, and looks the packages up
\* by that count; a scenario without one is passed over.
LookedUp(i) ==
    LET order == SetToSortSeq(Valid, <)
    IN  {k \in DOMAIN order \cap DOMAIN load.packages : order[k] = i}

QualityPhase ==
    /\ job.pc = "quality"
    /\ valid' = [i \in DOMAIN scens |->
                   valid[i] /\ \A k \in LookedUp(i) : ~QualityError(scens[i], load.packages[k], reqs.bars)]
    /\ scens' = [i \in DOMAIN scens |->
                   IF LookedUp(i) # {} THEN [scens[i] EXCEPT !.start = ShiftedStart(scens[i])] ELSE scens[i]]
    /\ job' = [job EXCEPT !.pc = "mount"]
    /\ UNCHANGED <<reqs, load, execVars>>

\* The mount: all packages, and the identity of the scenarios still valid.
NewMount ==
    [packages |-> load.packages, bars |-> reqs.bars, exists |-> TRUE,
     identity |-> [i \in Valid \cap DOMAIN load.packages |-> DataIdentity(scens[i], reqs.bars)]]

MountPhase ==
    /\ job.pc = "mount"
    /\ IF job.kind = "build"
       THEN /\ held' = NewMount /\ UNCHANGED mount
            /\ job' = [job EXCEPT !.pc = "built"]
       ELSE /\ mount' = NewMount /\ UNCHANGED held
            /\ job' = [job EXCEPT !.pc = "guard"]
    /\ UNCHANGED <<scens, valid, reqs, load, procs, broken, results>>

----------------------------------------------------------------------------
(* A sweep                                                                 *)

\* OptimizationRunner starts the next run of the sweep with the held mount.
NextRun(S) ==
    /\ job.pc = "built" /\ S \in Variants(scens)
    /\ NewOrchestrator(S, "sweep")
    /\ UNCHANGED held

\* matches_mount.
Matches(collected, ok) ==
    \A i \in ok : /\ i \in DOMAIN held.identity
                  /\ DataIdentity(scens[i], collected.bars) = held.identity[i]

\* The run collects its requirements to compare; if the mount is not its own
\* it prepares one, with the same collector.
MatchPhase ==
    /\ job.pc = "match"
    /\ reqs' = Collected /\ valid' = StillValid
    /\ LET ok == {i \in DOMAIN scens : StillValid[i]}
       IN  IF Matches(Collected, ok)
           THEN /\ mount' = held /\ job' = [job EXCEPT !.pc = "guard"]
           ELSE /\ job' = [job EXCEPT !.pc = "config", !.kind = "remount"] /\ UNCHANGED mount
    /\ UNCHANGED <<scens, load, held, procs, broken, results>>

----------------------------------------------------------------------------
(* ExecutionCoordinator                                                    *)

\* _assert_mount_identity looks at every scenario that has a package, and
\* raises if its key is not the mount's.
IdentityHolds ==
    \A i \in DOMAIN scens \cap DOMAIN mount.packages :
        i \in DOMAIN mount.identity /\ mount.identity[i] = DataIdentity(scens[i], mount.bars)

Guard ==
    /\ job.pc = "guard"
    /\ job' = [job EXCEPT !.pc = IF IdentityHolds THEN "submit" ELSE "aborted"]
    /\ UNCHANGED <<scens, valid, reqs, load, mount, held, procs, broken, results>>

\* execute_tick_loop ends: an error in the loop is kept, and the statistics
\* are collected and returned with it all the same.
LoopErrors(sc) == IF sc.fault = "run" THEN {TRUE} ELSE BOOLEAN

\* process_main returns a result whatever happens inside: a tick loop error,
\* logged errors and exceptions make it a failed one.
Outcomes(sc) == {IF failed THEN "error" ELSE "ok" : failed \in LoopErrors(sc)}

Runnable(i) == valid[i] /\ i \in DOMAIN mount.packages

\* _create_validation_failed_result, for what validation or the missing data
\* says of the scenario.
FailedResult(i) == [of |-> i, status |-> IF valid[i] THEN "no_data" ELSE "invalid"]

\* One scenario of the loop of execute_parallel or execute_sequential: without
\* validity or data it has its result at once, and otherwise it is handed to
\* the pool, which raises if it is broken, or run on the spot.
Submit ==
    LET i == job.next
    IN  /\ job.pc = "submit" /\ i \in DOMAIN scens
        /\ \/ /\ ~Runnable(i)
              /\ results' = [results EXCEPT ![i] = FailedResult(i)]
              /\ job' = [job EXCEPT !.next = i + 1] /\ UNCHANGED procs
           \/ /\ Runnable(i) /\ job.parallel /\ ~broken
              /\ procs' = [procs EXCEPT ![i] = "queued"]
              /\ job' = [job EXCEPT !.next = i + 1] /\ UNCHANGED results
           \/ /\ Runnable(i) /\ job.parallel /\ broken
              /\ job' = [job EXCEPT !.pc = "aborted"] /\ UNCHANGED <<procs, results>>
           \/ /\ Runnable(i) /\ ~job.parallel
              /\ \E outcome \in Outcomes(scens[i]) :
                    results' = [results EXCEPT ![i] = [of |-> i, status |-> outcome]]
              /\ job' = [job EXCEPT !.next = i + 1] /\ UNCHANGED procs
        /\ UNCHANGED <<scens, valid, reqs, load, mount, held, broken>>

AllSubmitted ==
    /\ job.pc = "submit" /\ job.next \notin DOMAIN scens
    /\ job' = [job EXCEPT !.pc = "collect"]
    /\ UNCHANGED <<scens, valid, reqs, load, mount, held, procs, broken, results>>

Running == {i \in DOMAIN procs : procs[i] = "running"}

\* A worker of the pool takes the next scenario.
BeginProcess(i) ==
    /\ procs[i] = "queued" /\ ~broken /\ Cardinality(Running) < MaxWorkers
    /\ \A j \in DOMAIN procs : procs[j] = "queued" => i <= j
    /\ procs' = [procs EXCEPT ![i] = "running"]
    /\ UNCHANGED <<scens, valid, reqs, load, mount, held, job, broken, results>>

EndProcess(i, outcome) ==
    /\ procs[i] = "running" /\ outcome \in Outcomes(scens[i])
    /\ procs' = [procs EXCEPT ![i] = outcome]
    /\ UNCHANGED <<scens, valid, reqs, load, mount, held, job, broken, results>>

\* Mutant: only the future of the killed process raises.
ProcessDiesAlone(i) ==
    /\ procs[i] = "running" /\ ~broken
    /\ broken' = TRUE
    /\ procs' = [procs EXCEPT ![i] = "lost"]
    /\ UNCHANGED <<scens, valid, reqs, load, mount, held, job, results>>

\* A process of the pool is killed: every future that is not done raises.
ProcessDies(i) ==
    /\ procs[i] = "running" /\ ~broken
    /\ broken' = TRUE
    /\ procs' = [j \in DOMAIN procs |-> IF procs[j] \in {"queued", "running"} THEN "lost" ELSE procs[j]]
    /\ UNCHANGED <<scens, valid, reqs, load, mount, held, job, results>>

\* Mutant: results are appended as the futures complete.
SlotAppended(i) == Min({j \in DOMAIN results : results[j] = NoResult})

\* The future remembers the position of its scenario.
Slot(i) == i

\* as_completed hands the results over in any order.
CollectResult(i) ==
    /\ job.pc = "collect" /\ procs[i] \in {"ok", "error", "lost"}
    /\ results' = [results EXCEPT ![Slot(i)] = [of |-> i, status |-> procs[i]]]
    /\ procs' = [procs EXCEPT ![i] = "collected"]
    /\ UNCHANGED <<scens, valid, reqs, load, mount, held, job, broken>>

Summarize ==
    /\ job.pc = "collect" /\ \A i \in DOMAIN procs : procs[i] \in {"none", "collected"}
    /\ job' = [job EXCEPT !.pc = "done"]
    /\ UNCHANGED <<scens, valid, reqs, load, mount, held, procs, broken, results>>

BatchNext ==
    \/ ConfigPhase \/ AvailabilityPhase \/ RequirementsPhase \/ LoadPhase \/ QualityPhase \/ MountPhase
    \/ (\E S \in Variants(scens) : NextRun(S)) \/ MatchPhase
    \/ Guard \/ Submit \/ AllSubmitted \/ Summarize
    \/ \E i \in DOMAIN scens :
          \/ BeginProcess(i) \/ ProcessDies(i) \/ CollectResult(i)
          \/ \E outcome \in {"ok", "error"} : EndProcess(i, outcome)

BatchFairness ==
    /\ WF_batchVars(ConfigPhase \/ AvailabilityPhase \/ RequirementsPhase \/ LoadPhase \/ QualityPhase
                    \/ MountPhase \/ MatchPhase \/ Guard \/ Submit \/ AllSubmitted \/ Summarize)
    /\ WF_batchVars(\E i \in DOMAIN scens : CollectResult(i))
    /\ WF_batchVars(\E i \in DOMAIN scens : BeginProcess(i))
    /\ WF_batchVars(\E i \in DOMAIN scens : \E outcome \in {"ok", "error"} : EndProcess(i, outcome))

BatchSpec == BatchInit /\ [][BatchNext]_batchVars /\ BatchFairness

----------------------------------------------------------------------------
(* Properties                                                              *)

Ran(i) == procs[i] \in {"queued", "running"} \/ results[i].status \in {"ok", "error", "lost"}

\* What a scenario asks for: its ticks in the whole archive.
Wanted(sc) ==
    LET from == {t \in TimesOf(Range(Archive[sc.broker])) : t >= sc.start}
    IN  IF sc.max # 0 THEN FirstOf(from, sc.max) ELSE {t \in from : t <= sc.end}

\* A scenario runs on its own data, also on a mount made for another run: on
\* exactly the ticks of its window, or on the first of the ticks its max_ticks
\* asks for, whatever else the batch loaded with them.
RunsOnOwnTicks ==
    \A i \in DOMAIN scens : Ran(i) =>
        LET ticks == mount.packages[i].ticks
        IN  /\ ticks # {} /\ ticks = FirstOf(Wanted(scens[i]), Cardinality(ticks))
            /\ scens[i].max = 0 => ticks = Wanted(scens[i])

\* The warmup looks ahead by one bar at most: a bar that holds ticks of the
\* scenario itself is that of the period its start lies in, and with a start
\* that is the start of a period there is none.
NoLookAhead ==
    \A i \in DOMAIN scens : Ran(i) =>
        LET p     == mount.packages[i]
            ahead == {b \in p.bars : \E t \in p.ticks : t < b + BarLength}
        IN  ahead \subseteq {BarOf(scens[i].start)} \ {scens[i].start}

\* Ticks that are not clipped are the budget apart, and a clipped one comes
\* within the budget of the last that is not.
BudgetKept ==
    \A i \in DOMAIN scens : Ran(i) /\ scens[i].budget > 0 =>
        LET p == mount.packages[i]
            kept == p.ticks \ p.clipped
        IN  \A t \in p.ticks :
                t \in p.clipped <=> \E u \in kept : u < t /\ t < u + scens[i].budget

\* When a batch ends, every scenario has exactly one result, in its own slot,
\* and the result says whether it ran.
ResultsComplete ==
    job.pc = "done" => \A i \in DOMAIN scens :
        /\ results[i].of = i
        /\ results[i].status \in {"ok", "error", "lost"} <=> Runnable(i)

\* A batch or the building of a mount comes to an end, also when a process of
\* the pool is killed.
BatchEnds == job.pc = "config" ~> job.pc \in {"done", "aborted", "built"}

\* A scenario runs on the data of its own configuration, with no look ahead but
\* in the period it starts in, within its budget, and every scenario has the result that is its own.
BatchSound == RunsOnOwnTicks /\ NoLookAhead /\ BudgetKept /\ ResultsComplete
=============================================================================
