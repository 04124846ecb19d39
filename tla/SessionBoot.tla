----------------------------- MODULE SessionBoot -----------------------------
(***************************************************************************)
(* The start of an AutoTrader session, stage by stage, and what a session   *)
(* finds on disk: the broker configuration with its runtime cache (fetched  *)
(* symbol by symbol, merged, written in place), the adapter that is made     *)
(* from it, the balances, the checks, the parts that are started and the     *)
(* shutdown that stops them, over several sessions and crashes.             *)
(* A specification of a symbol is the version of the exchange's listing it   *)
(* was read from.  Days are counted in weeks of the cache's refresh.         *)
(***************************************************************************)
EXTENDS Integers, Sequences, FiniteSets, TLC

CONSTANTS Profiles, Markets, MaxDay, MaxSessions, RefreshAfter

ASSUME BootConstants == {MaxDay, MaxSessions, RefreshAfter} \subseteq Nat

\* dry_run of a profile is optional; the broker's entry always has one.
ASSUME ProfileAssumption ==
    \A p \in Profiles : p.dry \in {"unset", "yes", "no"} /\ p.brokerDry \in BOOLEAN

VARIABLES day, listing, cache, resting, session, boot, running, sessions
bootVars == <<day, listing, cache, resting, session, boot, running, sessions>>

NoFile == [kind |-> "absent", at |-> 0, specs |-> <<>>]
TornFile == [kind |-> "torn", at |-> 0, specs |-> <<>>]
NoBoot == [config |-> <<>>, had |-> {}, live |-> FALSE, dry |-> TRUE, balances |-> {}, currency |-> "",
           bars |-> "none", executor |-> FALSE, components |-> {}, outcome |-> "none"]

On(pc) == session.pc = pc
Goto(pc) == session' = [session EXCEPT !.pc = pc]
P == session.profile
Fail == Goto("shutdown") /\ boot' = [boot EXCEPT !.outcome = "emergency"]

----------------------------------------------------------------------------
(* The runtime cache of the broker configuration.                            *)

CacheAge == IF cache.kind = "good" THEN day - cache.at ELSE -1

CacheFresh == CacheAge >= 0 /\ CacheAge < RefreshAfter

Listed(s) == s \in DOMAIN listing /\ listing[s] > 0
FetchedSpec(s) == [version |-> listing[s], at |-> day, active |-> TRUE]

\* Mutant: a fetch replaces the file.
MergeWithNothing(s) == [kind |-> "good", at |-> day, specs |-> s :> FetchedSpec(s)]

\* Only the symbol that is asked for is fetched; the others are kept.
MergeWithCache(s) ==
    LET old == IF cache.kind = "good" THEN cache.specs ELSE <<>>
    IN  [kind |-> "good", at |-> day,
         specs |-> [x \in {s} \cup DOMAIN old |-> IF x = s THEN FetchedSpec(s) ELSE old[x]]]

\* A configuration is the file's specifications; the account of a live session
\* has no leverage.
ServeCache ==
    /\ On("config") /\ CacheFresh /\ P.symbol \in DOMAIN cache.specs
    /\ boot' = [boot EXCEPT !.config = cache.specs] /\ Goto("adapter")
    /\ UNCHANGED <<day, listing, cache, resting, running, sessions>>

\* The file is opened for writing, which empties it, and then written;
\* a write that fails leaves no file to fall back on.
FetchFresh ==
    /\ On("config") /\ ~(CacheFresh /\ P.symbol \in DOMAIN cache.specs) /\ Listed(P.symbol)
    /\ boot' = [boot EXCEPT !.config = MergeWithCache(P.symbol).specs,
                            !.had = IF cache.kind = "good" THEN DOMAIN cache.specs ELSE {}]
    /\ cache' = TornFile
    /\ Goto("write")
    /\ UNCHANGED <<day, listing, resting, running, sessions>>

WriteCache ==
    /\ On("write")
    /\ \/ cache' = [kind |-> "good", at |-> day, specs |-> boot.config] /\ Goto("adapter") /\ UNCHANGED boot
       \/ Fail /\ UNCHANGED cache
    /\ UNCHANGED <<day, listing, resting, running, sessions>>

\* The exchange is not reached, or does not know the symbol: an old file serves,
\* with a warning; without one the session does not start.
FetchFails ==
    /\ On("config") /\ ~(CacheFresh /\ P.symbol \in DOMAIN cache.specs)
    /\ IF CacheAge >= 0
       THEN boot' = [boot EXCEPT !.config = cache.specs] /\ Goto("adapter")
       ELSE Fail
    /\ UNCHANGED <<day, listing, cache, resting, running, sessions>>

----------------------------------------------------------------------------
(* The adapter: mock sessions and static brokers read the file in the        *)
(* repository; a live session asks for both balances and only then enables   *)
(* the transport, in the mode of the profile or, without one, of the broker. *)

PrepareData ==
    /\ On("data")
    /\ IF P.settings /\ P.fault = "data" THEN Fail ELSE Goto("broker") /\ UNCHANGED boot
    /\ UNCHANGED <<day, listing, cache, resting, running, sessions>>

StaticConfig == [s \in DOMAIN Markets |-> [version |-> 0, at |-> 0, active |-> TRUE]]
AsksBroker == P.adapter = "live" /\ P.mode = "dynamic"


\* No credentials for the exchange, or a file in the repository that does not
\* hold together.
ConfigUnusable == P.fault = (IF AsksBroker THEN "credentials" ELSE "integrity")

CreateBrokerConfig ==
    /\ On("broker")
    /\ IF ConfigUnusable THEN Fail
       ELSE IF AsksBroker THEN Goto("config") /\ UNCHANGED boot
       ELSE Goto("adapter") /\ boot' = [boot EXCEPT !.config = StaticConfig]
    /\ UNCHANGED <<day, listing, cache, resting, running, sessions>>

\* Mutant: the broker's setting wins.
BrokerDryRun == P.brokerDry

EffectiveDryRun == IF P.dry = "unset" THEN P.brokerDry ELSE P.dry = "yes"
Currencies == {Markets[P.symbol].base, Markets[P.symbol].quote}

\* Balances come from the exchange for a live dynamic session; a static one
\* starts from nothing; a mock one has the balances of its settings.
BalancesOf(held) ==
    (IF P.settings THEN P.balances ELSE {}) \cup
    (IF AsksBroker THEN held ELSE IF P.adapter = "live" THEN Currencies ELSE {})

EnableLive ==
    /\ On("adapter")
    /\ \E held \in SUBSET Currencies :
         IF P.symbol \in DOMAIN boot.config /\ (AsksBroker => held = Currencies)
         THEN /\ boot' = [boot EXCEPT !.balances = BalancesOf(held), !.live = AsksBroker,
                                      !.dry = AsksBroker => EffectiveDryRun]
              /\ Goto("executor")
         ELSE Fail
    /\ UNCHANGED <<day, listing, cache, resting, running, sessions>>

----------------------------------------------------------------------------
(* The pipeline.  The executor starts its request worker as it is made; the  *)
(* session owns it once the whole pipeline is.                               *)

\* Mutant: the quote currency, held or not.
AccountCurrencyQuote == IF P.currency # "" THEN P.currency ELSE Markets[P.symbol].quote

AccountCurrency ==
    IF P.currency # "" THEN P.currency
    ELSE IF Markets[P.symbol].quote \in boot.balances THEN Markets[P.symbol].quote
    ELSE IF Markets[P.symbol].base \in boot.balances THEN Markets[P.symbol].base
    ELSE CHOOSE c \in boot.balances : TRUE

LiveCapable == P.adapter = "mock" \/ boot.live

BuildExecutor ==
    /\ On("executor")
    /\ IF boot.balances # {} /\ LiveCapable
       THEN /\ boot' = [boot EXCEPT !.currency = AccountCurrency] /\ running' = running \cup {"requests"}
            /\ Goto("pipeline")
       ELSE Fail /\ UNCHANGED running
    /\ UNCHANGED <<day, listing, cache, resting, sessions>>

SignalsHaveSource == P.signals = {} \/ P.settings \/ P.poll

\* Warm-up bars that are missing or too few are warned about, no more.
WarmupBars == IF P.adapter = "live" THEN {"full", "short", "none"} ELSE {"full", "none"}

SetupPipeline ==
    /\ On("pipeline")
    /\ IF SignalsHaveSource
       THEN \E b \in WarmupBars : boot' = [boot EXCEPT !.bars = b, !.executor = TRUE] /\ Goto("checks")
       ELSE Fail
    /\ UNCHANGED <<day, listing, cache, resting, running, sessions>>

Components == (IF P.reconcile THEN {"reconciler"} ELSE {}) \cup (IF P.audit THEN {"auditor"} ELSE {})

CheckAndCompose ==
    /\ On("checks")
    /\ IF P.fault \notin {"clock", "swap", "state"}
       THEN boot' = [boot EXCEPT !.components = Components] /\ Goto("study")
       ELSE Fail
    /\ UNCHANGED <<day, listing, cache, resting, running, sessions>>

\* Mutant: the orders of the account are not asked for.
BrokerOrdersSeenNone == FALSE

\* A dry run shows an empty account, whatever rests at the exchange.
BrokerOrdersSeen == IF boot.dry THEN FALSE ELSE resting

\* The field study runs on spot only, and not beside orders of others.
StudyRefused == P.study /\ (~P.spot \/ ("reconciler" \in boot.components /\ BrokerOrdersSeen))

FieldStudyPreflight ==
    /\ On("study")
    /\ IF StudyRefused
       THEN Goto("shutdown") /\ boot' = [boot EXCEPT !.outcome = "refused"]
       ELSE Goto("transport") /\ UNCHANGED boot
    /\ UNCHANGED <<day, listing, cache, resting, running, sessions>>

SetupSignalTransport ==
    /\ On("transport")
    /\ IF ~P.poll THEN Goto("source") /\ UNCHANGED <<boot, running>>
       ELSE IF Cardinality(P.signals) # 1 \/ P.fault = "pipeline_id" THEN Fail /\ UNCHANGED running
       ELSE Goto("source") /\ running' = running \cup {"transport"} /\ UNCHANGED boot
    /\ UNCHANGED <<day, listing, cache, resting, sessions>>

StartTickSource ==
    /\ On("source")
    /\ IF P.source \in {"mock", "kraken"}
       THEN Goto("loop") /\ running' = running \cup {"ticks", "display"} /\ UNCHANGED boot
       ELSE Fail /\ UNCHANGED running
    /\ UNCHANGED <<day, listing, cache, resting, sessions>>

LoopReturns ==
    /\ On("loop") /\ Goto("shutdown")
    /\ boot' \in {[boot EXCEPT !.outcome = o] : o \in {"normal", "emergency"}}
    /\ UNCHANGED <<day, listing, cache, resting, running, sessions>>

\* Mutant: the transport is not stopped when the start failed.
StopAllButTransport ==
    /\ On("shutdown") /\ running' = IF boot.executor THEN running \cap {"transport"} ELSE running \cap {"requests"}
    /\ Goto("off")
    /\ UNCHANGED <<day, listing, cache, resting, boot, sessions>>

\* The transport, the tick source and the display are stopped if they were
\* started, the request worker if the session owns its executor.
StopAll ==
    /\ On("shutdown") /\ running' = IF boot.executor THEN {} ELSE running \cap {"requests"}
    /\ Goto("off")
    /\ UNCHANGED <<day, listing, cache, resting, boot, sessions>>

----------------------------------------------------------------------------
(* Sessions, crashes, and the world.                                         *)

StartSession ==
    /\ On("off") /\ sessions < MaxSessions
    /\ \E p \in Profiles : session' = [pc |-> "data", profile |-> p]
    /\ sessions' = sessions + 1 /\ boot' = NoBoot /\ running' = {}
    /\ UNCHANGED <<day, listing, cache, resting>>

ProcessKilled ==
    /\ ~On("off") /\ Goto("off") /\ running' = {} /\ boot' = [boot EXCEPT !.outcome = "killed"]
    /\ UNCHANGED <<day, listing, cache, resting, sessions>>

NextDay ==
    /\ On("off") /\ day < MaxDay /\ day' = day + 1
    /\ listing' \in {listing} \cup {[listing EXCEPT ![s] = v] : s \in DOMAIN listing, v \in {0, day + 1}}
    /\ resting' \in BOOLEAN
    /\ UNCHANGED <<cache, session, boot, running, sessions>>

BootInit ==
    /\ day = 1 /\ listing = [s \in DOMAIN Markets |-> 1] /\ cache = NoFile /\ resting = FALSE
    /\ session = [pc |-> "off", profile |-> CHOOSE p \in Profiles : TRUE] /\ boot = NoBoot
    /\ running = {} /\ sessions = 0

BootStage ==
    \/ PrepareData \/ CreateBrokerConfig \/ ServeCache \/ FetchFresh \/ WriteCache \/ FetchFails \/ EnableLive
    \/ BuildExecutor \/ SetupPipeline \/ CheckAndCompose \/ FieldStudyPreflight \/ SetupSignalTransport
    \/ StartTickSource \/ LoopReturns \/ StopAll

BootNext == StartSession \/ ProcessKilled \/ NextDay \/ BootStage

BootSpec == BootInit /\ [][BootNext]_bootVars

----------------------------------------------------------------------------

\* A session that trades knows the symbol it trades, from the exchange's own
\* listing unless its file is the static one (fetch_broker_config_with_cache,
\* whatever was torn or could not be fetched before).
TradesKnownSymbol ==
    On("loop") => /\ P.symbol \in DOMAIN boot.config
                  /\ boot.live => boot.config[P.symbol].version > 0

\* A refresh keeps what earlier sessions learned about other symbols: only a
\* torn file forgets (_merge_with_cache).
CacheRemembers == boot.had \subseteq DOMAIN boot.config

\* A live session never works with a specification fetched later than the age
\* of its file says.
SpecsWithinFile ==
    cache.kind = "good" => \A s \in DOMAIN cache.specs : cache.specs[s].at <= cache.at /\ cache.at <= day

\* Real orders are possible only in a session that asked for them and that knows
\* both balances from the exchange (enable_live comes last), next to what its
\* settings declare.
RealOrdersAsked ==
    ~boot.dry => /\ boot.live /\ boot.balances = Currencies \cup (IF P.settings THEN P.balances ELSE {})
                 /\ P.dry = "no" \/ (P.dry = "unset" /\ ~P.brokerDry)

\* The account is kept in a currency that has a balance, unless the profile
\* names another.
AccountFunded == On("loop") => boot.balances # {} /\ (P.currency = "" => boot.currency \in boot.balances)

\* A field study with a reconciler trades for real only on an account without
\* resting orders, and on spot (_field_study_preflight).
StudyStartsFlat ==
    On("loop") /\ P.study => P.spot /\ ("reconciler" \in boot.components /\ ~boot.dry => ~resting)

\* Wherever the start fails, what was started is stopped (_shutdown), but for the
\* idle request worker of an executor whose pipeline was never finished.
NothingLeftRunning == On("off") => running \subseteq IF boot.executor THEN {} ELSE {"requests"}

\* What a session is started on: a symbol it knows from a cache that remembers,
\* the mode that was asked for, a funded account, a flat one for a study, and
\* nothing that outlives a start that failed.
BootSound ==
    /\ TradesKnownSymbol /\ CacheRemembers /\ SpecsWithinFile /\ RealOrdersAsked
    /\ AccountFunded /\ StudyStartsFlat /\ NothingLeftRunning
=============================================================================
