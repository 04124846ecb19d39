----------------------------- MODULE ScenarioSetup -----------------------------
(***************************************************************************)
(* From a scenario set file to running processes.  ScenarioConfigLoader    *)
(* merges the defaults of the application, the global part of the file and *)
(* each scenario's own part; OptimizationRunner writes the values of a     *)
(* grid into copies of the result; ScenarioValidator, MountPreparer and    *)
(* RequirementsCollector refuse scenarios one by one in the main process;  *)
(* process_startup_preparation builds what is left in processes of their   *)
(* own, through WorkerFactory and DecisionLogicFactory.                    *)
(*                                                                         *)
(* A configuration is a function from paths (sequences of keys) to leaves; *)
(* its first key is the section.  A leaf is a kind and a number; the type  *)
(* of a component is a leaf of its own kind.                               *)
(***************************************************************************)
EXTENDS Integers, Sequences, FiniteSets, SequencesExt, FiniteSetsExt

CONSTANTS
    AppDefaults,   \* the execution and simulator sections of app_config.json
    SetFiles,      \* the scenario set files, with what is asked of them
    Specs,         \* symbol -> [base, quote, spot, swap, min] of the broker configuration
    Metric,        \* the activity the market of the broker reports
    Registry,      \* type -> class of the components that come with the program
    Absolute,      \* the types that are absolute paths
    UserFiles,     \* <<directory, type>> -> class of the components loaded from files
    Classes        \* class -> what its schema and its other declarations say

VARIABLES asked,   \* the file
          setup    \* [pc, base, run, combos, next, building, told]: where its run is
setupVars == <<asked, setup>>

\* ATOMIC_KEYS; the keys each section knows; the keys that are comments.
AtomicKeys == {"balances"}
KnownKeys == [execution |-> {"parallel_workers", "strict_parameter_validation", "tick_processing_budget_ms"},
              simulator |-> {"balances", "seeds", "account_currency"},
              guard |-> {"cooldown_seconds"}, stress |-> {"reject_open_order"}]
MetaKeys == {"_comment"}

----------------------------------------------------------------------------
(* Nested dictionaries                                                     *)

Below(tree, path) == {p \in DOMAIN tree : IsStrictPrefix(path, p)}
KeysAt(tree, path) == {p[Len(path) + 1] : p \in Below(tree, path)}
Related(p, q) == IsPrefix(p, q) \/ IsPrefix(q, p)

\* Mutant of DeepMerge: no key is atomic.
DeepMergeAll(base, over) ==
    LET kept == {p \in DOMAIN base : \A q \in DOMAIN over : ~Related(p, q)}
    IN  [p \in kept \cup DOMAIN over |-> IF p \in DOMAIN over THEN over[p] ELSE base[p]]

\* deep_merge: dictionaries are merged key by key, anything else is replaced,
\* and what is under an atomic key is replaced as a whole.
DeepMerge(base, over) ==
    LET Whole(p) == \E q \in DOMAIN over, n \in 1 .. Len(p) :
                       n <= Len(q) /\ p[n] \in AtomicKeys /\ SubSeq(p, 1, n) = SubSeq(q, 1, n)
        kept == {p \in DOMAIN base : ~Whole(p) /\ \A q \in DOMAIN over : ~Related(p, q)}
    IN  [p \in kept \cup DOMAIN over |-> IF p \in DOMAIN over THEN over[p] ELSE base[p]]

\* set_by_path for each of the paths, none of which is inside of another: what
\* is in the way of one, or below it, is gone.
SetByPaths(tree, leaves) ==
    LET kept == {p \in DOMAIN tree : \A q \in DOMAIN leaves : ~Related(p, q)}
    IN  [p \in kept \cup DOMAIN leaves |-> IF p \in DOMAIN leaves THEN leaves[p] ELSE tree[p]]

\* Mutant of Overridden: what the global part does not have is not reported.
OverriddenKnown(global, own) == {p \in DOMAIN own \cap DOMAIN global : own[p] # global[p]}

\* _check_dict_overrides: a key that the global part does not have, or where
\* one side is no dictionary, is reported without what is below it.
Overridden(global, own) ==
    LET Reported(p) == CHOOSE n \in 1 .. Len(p) :
                          /\ n = Len(p) \/ Below(global, SubSeq(p, 1, n)) = {}
                          /\ \A m \in 1 .. n - 1 : Below(global, SubSeq(p, 1, m)) # {}
    IN  {SubSeq(p, 1, Reported(p)) : p \in {q \in DOMAIN own :
            /\ q[1] \in {"strategy", "execution", "simulator"}
            /\ ~(q \in DOMAIN global /\ global[q] = own[q])}}

----------------------------------------------------------------------------
(* Loading                                                                 *)

\* check_unknown_keys on the four sections whose keys are fixed.
UnknownKeys(tree) ==
    \E s \in DOMAIN KnownKeys : ~(KeysAt(tree, <<s>>) \subseteq KnownKeys[s] \cup MetaKeys)

\* validate_merged_config: pydantic refuses a value it cannot convert.
Mistyped(tree) == \E p \in DOMAIN tree : p[1] \in DOMAIN KnownKeys /\ tree[p][1] = "junk"

Merged(f, e) == DeepMerge(DeepMerge(AppDefaults, f.global), e.own)

NewScenario(name, symbol, bounded, tree) ==
    [name |-> name, symbol |-> symbol, bounded |-> bounded, tree |-> tree,
     valid |-> TRUE, currency |-> "", built |-> "none", params |-> <<>>]

\* load_config.  One bad section, value or missing data_broker_type ends the
\* load of the whole file; the scenarios that are switched off are not looked at.
Enabled(f) == SelectSeq(f.entries, LAMBDA e : e.enabled)
LoadFails(f) ==
    \/ UnknownKeys(f.global)
    \/ \E i \in DOMAIN Enabled(f) :
          LET e == Enabled(f)[i]
          IN  UnknownKeys(e.own) \/ Mistyped(Merged(f, e)) \/ ~e.broker

\* detect_and_log_overrides, scenario by scenario.
LoggedOverrides(f) == [i \in DOMAIN Enabled(f) |-> Overridden(f.global, Enabled(f)[i].own)]

LoadedSet(f) ==
    [i \in DOMAIN Enabled(f) |->
        LET e == Enabled(f)[i] IN NewScenario(<<e.name, "", 0>>, e.symbol, e.bounded, Merged(f, e))]

\* load_from_profiles and WindowMaterializer.to_single_scenarios: the windows
\* of each profile, numbered from one, with the global part of the file, the
\* simulator defaults of the application, and a balance in the quote currency.
ProfileTree(f, symbol) ==
    LET simulator == [p \in {q \in DOMAIN AppDefaults : q[1] = "simulator"} |-> AppDefaults[p]]
        tree == DeepMerge(simulator, f.global)
        quote == <<"simulator", "balances", Specs[symbol].quote>>
    IN  [p \in DOMAIN tree \cup {quote} |-> IF p \in DOMAIN tree THEN tree[p] ELSE <<"float", 10000>>]
ProfileFails(f) ==
    \/ UnknownKeys(f.global) \/ Mistyped(f.global)
    \/ \E i \in DOMAIN f.profiles : f.profiles[i].symbol \notin DOMAIN Specs
LoadedProfiles(f) ==
    FlattenSeq([i \in DOMAIN f.profiles |->
        LET p == f.profiles[i]
        IN  [w \in 1 .. p.windows |->
                NewScenario(<<p.symbol, p.mode, w>>, p.symbol, TRUE, ProfileTree(f, p.symbol))]])

\* check of the sweep's grid, and its expansion.
GridFails(grid) ==
    \E p \in DOMAIN grid :
        \/ grid[p] = {}
        \/ ~(p[1] = "logic_config" /\ Len(p) >= 2) /\ ~(p[1] = "workers" /\ Len(p) >= 3)
ExpandGrid(grid) ==
    SetToSeq({c \in [DOMAIN grid -> UNION {grid[p] : p \in DOMAIN grid}] : \A p \in DOMAIN grid : c[p] \in grid[p]})

\* apply_overrides on one scenario of a copy of the base.
WithCombo(s, combo) ==
    [s EXCEPT !.tree = SetByPaths(@, [p \in {<<"strategy">> \o q : q \in DOMAIN combo} |-> combo[Tail(p)]])]

SetupInit ==
    /\ asked \in SetFiles
    /\ setup = [pc |-> "load", base |-> <<>>, run |-> <<>>, combos |-> <<>>, next |-> 1, building |-> FALSE, told |-> <<>>]

\* OptimizationRunner.run up to its loop: the base set is loaded before the
\* grid is looked at, and a base without scenarios is an error.
Load ==
    LET f == asked
        fails == IF f.kind = "profile" THEN ProfileFails(f) ELSE LoadFails(f)
        loaded == IF f.kind = "profile" THEN LoadedProfiles(f) ELSE LoadedSet(f)
    IN  /\ setup.pc = "load"
        /\ setup' =
             IF fails \/ (f.kind = "sweep" /\ (loaded = <<>> \/ GridFails(f.grid)))
             THEN [setup EXCEPT !.pc = "refused"]
             ELSE [setup EXCEPT
                     !.base = loaded,
                     !.run = IF f.kind = "sweep" /\ ~f.reuse THEN <<>> ELSE loaded,
                     !.building = (f.kind = "sweep" /\ f.reuse),
                     !.combos = IF f.kind = "sweep" THEN ExpandGrid(f.grid) ELSE <<>>,
                     !.told = IF f.kind = "profile" THEN <<>> ELSE LoggedOverrides(f),
                     !.pc = IF f.kind = "sweep" /\ ~f.reuse THEN "combine" ELSE "parameters"]
        /\ UNCHANGED asked

----------------------------------------------------------------------------
(* Components and their parameters                                         *)

NoClass == "no class"

\* resolve_worker_class, resolve_logic_class: a relative path is taken from
\* the directory given, or else from the working directory.
Located(type, dir) == <<IF type \in Absolute THEN "root" ELSE dir, type>>
Resolve(type, dir) ==
    IF type \in DOMAIN Registry THEN Registry[type]
    ELSE IF Located(type, dir) \in DOMAIN UserFiles THEN UserFiles[Located(type, dir)] ELSE NoClass

\* _normalize_worker_ref: the file a path means, wherever it is seen from.
Normalized(type, dir) ==
    IF type \in DOMAIN Registry THEN <<"core", type>>
    ELSE IF Located(type, dir) \in DOMAIN UserFiles THEN <<"file", UserFiles[Located(type, dir)]>> ELSE Located(type, dir)

LogicType(s) ==
    IF <<"strategy", "logic_type">> \in DOMAIN s.tree THEN s.tree[<<"strategy", "logic_type">>][1] ELSE ""
Instances(s) == KeysAt(s.tree, <<"strategy", "worker_instances">>)
WorkerType(s, i) == s.tree[<<"strategy", "worker_instances", i>>][1]
LogicPath == <<"strategy", "logic_config">>
WorkerPath(i) == <<"strategy", "workers", i>>

\* The directory of a logic that was loaded from a file.
LogicDir(type) == IF type \in DOMAIN Registry THEN "cwd" ELSE "algo"
Strict(s) ==
    LET p == <<"execution", "strict_parameter_validation">>
    IN  p \in DOMAIN s.tree => s.tree[p] # <<"bool", 0>>

\* _is_type_compatible: bool is an int to Python, and an int passes as a float.
Compatible(kind, type) ==
    \/ kind = type
    \/ kind = "bool" /\ type \in {"int", "float"}
    \/ kind = "int" /\ type = "float"

\* validate_parameters on what the configuration has under the path.  What is
\* missing or has the wrong type is an error always, the rest only if strict.
BadParameters(tree, path, schema, reserved, strict) ==
    LET given == KeysAt(tree, path)
        Leaf(k) == tree[path \o <<k>>]
        Is(k) == path \o <<k>> \in DOMAIN tree /\ Compatible(Leaf(k)[1], schema[k].type)
        Fits(k) == /\ Leaf(k)[2] \in schema[k].min .. schema[k].max
                   /\ schema[k].choices # {} => Leaf(k)[2] \in schema[k].choices
    IN  \/ \E k \in DOMAIN schema : schema[k].required /\ k \notin given
        \/ \E k \in DOMAIN schema \cap given : ~Is(k) \/ (strict /\ ~Fits(k))
        \/ strict /\ ~(given \subseteq DOMAIN schema \cup reserved \cup MetaKeys)

\* apply_defaults.
WithDefaults(tree, path, schema) ==
    LET given == {k \in KeysAt(tree, path) : path \o <<k>> \in DOMAIN tree}
    IN  [k \in given \cup {k \in DOMAIN schema : ~schema[k].required} |->
            IF k \in given THEN tree[path \o <<k>>] ELSE schema[k].default]

\* validate_config and validate_parameter_schema of a worker.
FieldsMissing(s, i, class) == ~(Classes[class].fields \subseteq KeysAt(s.tree, WorkerPath(i)))
BadWorker(s, i, class, strict) ==
    BadParameters(s.tree, WorkerPath(i), Classes[class].schema, Classes[class].fields \cup {"worker_type"}, strict)

\* create_logic asks for at least the smallest volume of the symbol.
LotSchema(schema, volumeMin) ==
    IF volumeMin > 0 /\ "lot_size" \in DOMAIN schema
    THEN [schema EXCEPT !["lot_size"].min = volumeMin, !["lot_size"].choices = {}] ELSE schema

----------------------------------------------------------------------------
(* The checks of the main process                                          *)

\* _collect_parameter_errors: strict whatever the scenario says; what cannot
\* be resolved is passed over.
ParameterProblem(s) ==
    LET type == LogicType(s)
        class == Resolve(type, "cwd")
        Worker(i) == Resolve(WorkerType(s, i), LogicDir(type))
    IN  /\ type # "" /\ class # NoClass
        /\ \/ BadParameters(s.tree, LogicPath, Classes[class].schema, {}, TRUE)
           \/ \E i \in Instances(s) : Worker(i) # NoClass /\ BadWorker(s, i, Worker(i), TRUE)

Balances(s) == KeysAt(s.tree, <<"simulator", "balances">>)
Explicit(s) ==
    LET p == <<"simulator", "account_currency">> IN IF p \in DOMAIN s.tree THEN s.tree[p][1] ELSE ""
SymbolCurrencies(s) == {Specs[s.symbol].base, Specs[s.symbol].quote}

\* prepare_scenarios: names, boundary, symbol, swap mode, balances, currency.
\* The names are compared among the scenarios that are still valid.
ConfigProblem(S, i) ==
    LET s == S[i]
    IN  \/ \E j \in DOMAIN S : j # i /\ S[j].valid /\ S[j].name = s.name
        \/ ~s.bounded
        \/ s.symbol \notin DOMAIN Specs
        \/ ~Specs[s.symbol].swap
        \/ Balances(s) \cap SymbolCurrencies(s) = {}
        \/ Explicit(s) # "" /\ Explicit(s) \notin SymbolCurrencies(s)

\* Mutant of AccountCurrency: a spot account in whatever was chosen.
AccountAsChosen(s) ==
    IF Explicit(s) # "" THEN Explicit(s)
    ELSE IF Specs[s.symbol].quote \in Balances(s) THEN Specs[s.symbol].quote ELSE Specs[s.symbol].base

\* set_scenario_account_currency; a spot account is kept in the quote currency.
AccountCurrency(s) ==
    LET quote == Specs[s.symbol].quote
        chosen == IF Explicit(s) # "" THEN Explicit(s)
                  ELSE IF quote \in Balances(s) THEN quote ELSE Specs[s.symbol].base
    IN  IF Specs[s.symbol].spot THEN quote ELSE chosen

\* The preflights of the logic.  One that cannot be created, or whose
\* components cannot all be found, is passed over.
LogicCreated(s, schema, strict) ==
    LET class == Resolve(LogicType(s), "cwd")
    IN  class # NoClass /\ ~BadParameters(s.tree, LogicPath, schema, {}, strict)
UnknownSignals(s, class, dir) ==
    \E i \in DOMAIN Classes[class].requires :
        LET need == Classes[class].requires[i]
            worker == Resolve(need.type, dir)
        IN  worker # NoClass /\ ~(need.signals \subseteq Classes[worker].outputs)
PreflightFails(s) ==
    LET type == LogicType(s)
        class == Resolve(type, "cwd")
        created == LogicCreated(s, Classes[class].schema, TRUE)
        workers == {Resolve(WorkerType(s, i), LogicDir(type)) : i \in Instances(s)}
    IN  /\ type # "" /\ class # NoClass
        /\ \/ created /\ ("snapshot" \in Classes[class].faults \/ UnknownSignals(s, class, LogicDir(type)))
           \/ NoClass \notin workers /\ \E c \in workers \cup {class} : "clock" \in Classes[c].faults

\* Mutant of RequirementProblem: what a worker must be given is not asked for.
RequirementSchemaOnly(s) ==
    LET Worker(i) == Resolve(WorkerType(s, i), "cwd")
    IN  \/ \E i \in Instances(s) :
              Worker(i) = NoClass \/ Classes[Worker(i)].metric \notin {"none", Metric}
        \/ PreflightFails(s)
        \/ \E i \in Instances(s) : BadWorker(s, i, Worker(i), Strict(s))

\* collect_and_validate: the market of each worker, the preflights, and each
\* worker's fields and parameters as strictly as the scenario asks.
RequirementProblem(s) ==
    LET Worker(i) == Resolve(WorkerType(s, i), "cwd")
    IN  \/ \E i \in Instances(s) :
              Worker(i) = NoClass \/ Classes[Worker(i)].metric \notin {"none", Metric}
        \/ PreflightFails(s)
        \/ \E i \in Instances(s) :
              FieldsMissing(s, i, Worker(i)) \/ BadWorker(s, i, Worker(i), Strict(s))

AfterParameters(S) == [i \in DOMAIN S |-> [S[i] EXCEPT !.valid = @ /\ ~ParameterProblem(S[i])]]
AfterConfig(S) ==
    [i \in DOMAIN S |->
        IF S[i].valid /\ ~ConfigProblem(S, i) THEN [S[i] EXCEPT !.currency = AccountCurrency(S[i])]
        ELSE [S[i] EXCEPT !.valid = FALSE]]
AfterRequirements(S) == [i \in DOMAIN S |-> [S[i] EXCEPT !.valid = @ /\ ~RequirementProblem(S[i])]]

\* The next combination of the sweep.
Combine ==
    /\ setup.pc = "combine"
    /\ setup' = [setup EXCEPT !.run = [i \in DOMAIN setup.base |-> WithCombo(setup.base[i], setup.combos[setup.next])],
                              !.pc = "parameters"]
    /\ UNCHANGED asked

\* validate_scenario_parameters, then prepare_scenarios, then the requirements.
CheckParameters ==
    /\ setup.pc = "parameters"
    /\ setup' = [setup EXCEPT !.run = AfterParameters(@), !.pc = "config"]
    /\ UNCHANGED asked

CheckConfig ==
    /\ setup.pc = "config"
    /\ setup' = [setup EXCEPT !.run = AfterConfig(@), !.pc = "requirements"]
    /\ UNCHANGED asked

CheckRequirements ==
    /\ setup.pc = "requirements"
    /\ setup' = [setup EXCEPT !.run = AfterRequirements(@), !.pc = "build"]
    /\ UNCHANGED asked

\* build_mount makes these checks on the scenarios of the base themselves:
\* what is refused here stays refused in every copy.  Without a scenario left
\* the sweep is over.
BuildMount ==
    /\ setup.pc = "build" /\ setup.building
    /\ setup' = [setup EXCEPT !.base = setup.run, !.run = <<>>, !.building = FALSE,
                              !.pc = IF \E i \in DOMAIN setup.run : setup.run[i].valid THEN "combine" ELSE "done"]
    /\ UNCHANGED asked

----------------------------------------------------------------------------
(* A process                                                               *)

\* _validate_decision_logic_requirements of the orchestrator.
OrchestratorRefuses(s, class) ==
    \/ ~Classes[class].outage
    \/ \E i \in DOMAIN Classes[class].requires :
          LET need == Classes[class].requires[i]
          IN  \/ i \notin Instances(s)
              \/ Normalized(need.type, LogicDir(LogicType(s))) # Normalized(WorkerType(s, i), "cwd")
              \/ ~(need.signals \subseteq Classes[Resolve(WorkerType(s, i), "cwd")].outputs)

\* create_worker: the class must be found and accept what it is given.
WorkerRefused(s, i) ==
    LET class == Resolve(WorkerType(s, i), "cwd")
    IN  class = NoClass \/ FieldsMissing(s, i, class) \/ BadWorker(s, i, class, Strict(s))

\* process_startup_preparation: where the start of the scenario's process
\* fails, if it does.
StartFails(s) ==
    LET class == Resolve(LogicType(s), "cwd")
        schema == LotSchema(Classes[class].schema, Specs[s.symbol].min)
    IN  CASE class = NoClass -> "logic"
          [] Instances(s) = {} -> "no workers"
          [] \E i \in Instances(s) : WorkerRefused(s, i) -> "worker"
          [] ~LogicCreated(s, schema, Strict(s)) -> "parameters"
          [] OrchestratorRefuses(s, class) -> "orchestrator"
          [] OTHER -> "running"

\* What its workers and its logic are created with.
StartParams(s) ==
    LET class == Resolve(LogicType(s), "cwd")
    IN  [logic |-> WithDefaults(s.tree, LogicPath, LotSchema(Classes[class].schema, Specs[s.symbol].min)),
         workers |-> [i \in Instances(s) |->
                        WithDefaults(s.tree, WorkerPath(i), Classes[Resolve(WorkerType(s, i), "cwd")].schema)],
         strict |-> Strict(s),
         initial |-> IF s.currency \in Balances(s) THEN s.tree[<<"simulator", "balances", s.currency>>][2] ELSE 0]

Start(i) ==
    LET s == setup.run[i]
    IN  /\ setup.pc = "build" /\ ~setup.building /\ s.valid /\ s.built = "none"
        /\ setup' = [setup EXCEPT
              !.run[i].built = StartFails(s),
              !.run[i].params = IF StartFails(s) = "running" THEN <<StartParams(s)>> ELSE <<>>]
        /\ UNCHANGED asked

\* The process is ended from outside, for want of memory.
ProcessKilled(i) ==
    /\ setup.pc = "build" /\ ~setup.building /\ setup.run[i].valid /\ setup.run[i].built = "none"
    /\ setup' = [setup EXCEPT !.run[i].built = "killed"]
    /\ UNCHANGED asked

\* Mutant of Finish: any combination that lost a process ends the sweep.
FinishAtLoss ==
    LET killed == \E i \in DOMAIN setup.run : setup.run[i].built = "killed"
    IN  /\ setup.pc = "build" /\ ~setup.building
        /\ \A i \in DOMAIN setup.run : setup.run[i].valid => setup.run[i].built # "none"
        /\ setup' = IF setup.next < Len(setup.combos) /\ ~killed
                    THEN [setup EXCEPT !.next = @ + 1, !.pc = "combine"] ELSE [setup EXCEPT !.pc = "done"]
        /\ UNCHANGED asked

\* The run is over.  A sweep whose first combination lost a process this way
\* is given up.
Finish ==
    LET killed == \E i \in DOMAIN setup.run : setup.run[i].built = "killed"
        more == setup.next < Len(setup.combos) /\ ~(asked.abort /\ setup.next = 1 /\ killed)
    IN  /\ setup.pc = "build" /\ ~setup.building
        /\ \A i \in DOMAIN setup.run : setup.run[i].valid => setup.run[i].built # "none"
        /\ setup' = IF more THEN [setup EXCEPT !.next = @ + 1, !.pc = "combine"] ELSE [setup EXCEPT !.pc = "done"]
        /\ UNCHANGED asked

SetupNext ==
    \/ Load \/ BuildMount \/ Combine \/ CheckParameters \/ CheckConfig \/ CheckRequirements \/ Finish
    \/ \E i \in DOMAIN setup.run : Start(i) \/ ProcessKilled(i)

SetupFairness == WF_setupVars(SetupNext)

----------------------------------------------------------------------------
(* Properties                                                              *)

\* A scenario that the main process admits starts: no worker fails in its
\* process, and its logic is refused there only for a lot size below the
\* smallest volume of the symbol, which the main process does not look at.
AdmittedStarts ==
    \A i \in DOMAIN setup.run :
        LET s == setup.run[i]
            lot == LogicPath \o <<"lot_size">>
        IN  /\ s.built # "worker"
            /\ s.built = "parameters" => lot \in DOMAIN s.tree /\ s.tree[lot][2] < Specs[s.symbol].min

\* What a scenario settles in is a currency of its symbol, on a spot market
\* the quote; and unless the file names the currency, the account of a margin
\* market starts with the balance the file gives it.
AccountSettles ==
    \A i \in DOMAIN setup.run :
        LET s == setup.run[i]
        IN  s.valid /\ setup.pc \in {"requirements", "build"} =>
              /\ s.currency \in SymbolCurrencies(s)
              /\ Specs[s.symbol].spot => s.currency = Specs[s.symbol].quote
              /\ Explicit(s) = "" /\ ~Specs[s.symbol].spot => s.currency \in Balances(s)
              /\ \A j \in DOMAIN setup.run \ {i} : setup.run[j].valid => setup.run[j].name # s.name

\* The value of a path that is nearest: of the combination, of the scenario,
\* of the global part, of the application, or else the default.
Layers(i) ==
    LET combo == IF setup.combos = <<>> THEN <<>> ELSE setup.combos[setup.next]
        swept == [p \in {<<"strategy">> \o q : q \in DOMAIN combo} |-> combo[Tail(p)]]
        own == IF asked.kind = "profile" THEN <<>> ELSE Enabled(asked)[i].own
        app == IF asked.kind = "profile" THEN <<>> ELSE AppDefaults
    IN  <<swept, own, asked.global, app>>
Nearest(i, path, default) ==
    LET having == {n \in 1 .. 4 : path \in DOMAIN Layers(i)[n]}
    IN  IF having = {} THEN default ELSE Layers(i)[Min(having)][path]

\* Whatever was merged, copied and overwritten on the way, a process runs with
\* the nearest value of every parameter, is as strict as the nearest setting,
\* and has the balances of one layer only.
NearestValues ==
    \A i \in DOMAIN setup.run :
        LET s == setup.run[i]
            schema == Classes[Resolve(LogicType(s), "cwd")].schema
        IN  setup.pc = "build" /\ s.built = "running" =>
              /\ \A k \in DOMAIN schema :
                    s.params[1].logic[k] = Nearest(i, LogicPath \o <<k>>, schema[k].default)
              /\ \A w \in Instances(s) :
                    LET known == Classes[Resolve(WorkerType(s, w), "cwd")].schema
                    IN  \A k \in DOMAIN known :
                          s.params[1].workers[w][k] = Nearest(i, WorkerPath(w) \o <<k>>, known[k].default)
              /\ s.params[1].strict =
                    (Nearest(i, <<"execution", "strict_parameter_validation">>, <<"bool", 1>>) # <<"bool", 0>>)
              /\ asked.kind # "profile" =>
                    \E n \in 2 .. 4 : Balances(s) = KeysAt(Layers(i)[n], <<"simulator", "balances">>)

\* The log names every value of the three sections that a scenario changes.
OverridesTold ==
    \A i \in DOMAIN setup.told :
        LET without == DeepMerge(AppDefaults, asked.global)
            tree == setup.base[i].tree
        IN  \A p \in DOMAIN tree :
              p[1] \in {"strategy", "execution", "simulator"}
              /\ ~(p \in DOMAIN without /\ without[p] = tree[p]) =>
                 \E r \in setup.told[i] : IsPrefix(r, p)

\* A sweep runs every combination, unless nothing of its base can run or its
\* first combination shows that memory does not suffice.
SweepComplete ==
    asked.kind = "sweep" /\ setup.pc = "done" =>
        \/ setup.next = Len(setup.combos)
        \/ setup.run = <<>> /\ \A i \in DOMAIN setup.base : ~setup.base[i].valid
        \/ asked.abort /\ setup.next = 1 /\ \E i \in DOMAIN setup.run : setup.run[i].built = "killed"

\* What is admitted starts, in the right currency and with the values meant,
\* and the operator is told what was changed.
SetupSound == AdmittedStarts /\ AccountSettles /\ NearestValues /\ OverridesTold /\ SweepComplete

\* A run of a file comes to its end.
SetupEnds == <>(setup.pc \in {"done", "refused"})
=============================================================================
