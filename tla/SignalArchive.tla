----------------------------- MODULE SignalArchive -----------------------------
(***************************************************************************)
(* The signal archive: SignalDataImporter turns the producer's journal     *)
(* files into parquet, SignalIndexManager lists them by symbol, and a run  *)
(* loads the series of its window from the files the index names           *)
(* (load_signal_series_from_parquet).  SignalCoverageReport, by which a    *)
(* scenario is admitted, reads the same files on its own.  A parquet file  *)
(* is written in place; a journal file of the same name may come again     *)
(* with other content.  It lies beside the archive of ticks (DataArchive).  *)
(***************************************************************************)
EXTENDS DataArchive, FiniteSetsExt

CONSTANTS
    Buckets,      \* names of journal files, numbers in the order of their names
    Versions,     \* the contents a name may come with
    Journal,      \* per name and version: the envelopes, sorted by collected_msc
    SignalSymbols,
    SignalRuns,   \* bound of the model: runs of the importer
    SignalFaults, \* bound of the model: writes that fail
    LastInstant   \* bound of the model: the last time of a window

\* An envelope: at (collected_msc), pipe (pipeline_id), epoch and seq (0: none),
\* syms: the symbols it has a result for.
SpanOf(j) == {e.at : e \in {j[i] : i \in DOMAIN j}}

Envelopes == [at : Int, pipe : STRING, epoch : Nat, seq : Nat, syms : SUBSET SignalSymbols]

\* A name and a version are numbers, and a journal file is a sequence of envelopes;
\* times are looked at up to a last one.
ASSUME SignalAssumption ==
    /\ Buckets \subseteq Nat /\ Versions \subseteq Nat \ {0}
    /\ \A n \in Buckets, v \in Versions : Journal[n][v] \in Seq(Envelopes)
    /\ LastInstant \in Nat

\* A journal is cut into one file per period.
ASSUME BucketsApart ==
    \A n, m \in Buckets, v, w \in Versions :
        n < m => \A a \in SpanOf(Journal[n][v]), b \in SpanOf(Journal[m][w]) : a < b

VARIABLES
    sigInbox,     \* per name: the version waiting, 0 for none
    sigFinished,  \* per name: the version in the finished directory
    sigFile,      \* per name: the version in the archive, 0 for none, -1 if torn
    sigIndex,     \* what the index lists: name and version of a file
    sigRun,       \* the running importer
    sigFaults

sigVars == <<sigInbox, sigFinished, sigFile, sigIndex, sigRun, sigFaults>>
sigDisk == <<sigInbox, sigFinished, sigFile, sigIndex>>

SigIdle(done, runs) ==
    [pc |-> "idle", todo |-> {}, name |-> 0, override |-> FALSE, errors |-> FALSE, done |-> done, runs |-> runs]

SignalInit ==
    /\ sigInbox = [n \in Buckets |-> 0] /\ sigFinished = sigInbox /\ sigFile = sigInbox
    /\ sigIndex = {} /\ sigRun = SigIdle(FALSE, 0) /\ sigFaults = 0

----------------------------------------------------------------------------
(* SignalDataImporter                                                      *)

SigCollect(n, v) ==
    /\ sigRun.pc = "idle" /\ sigInbox[n] = 0
    /\ sigInbox' = [sigInbox EXCEPT ![n] = v]
    /\ sigRun' = [sigRun EXCEPT !.done = FALSE]
    /\ UNCHANGED <<sigFinished, sigFile, sigIndex, sigFaults>>

\* Mutant: with override the finished directory goes before the inbox.
FromInboxLast(n) == sigInbox[n] # 0 /\ ~(sigRun.override /\ sigFinished[n] # 0)

\* _collect_files: the inbox goes before the finished directory.
FromInbox(n) == sigInbox[n] # 0
SourceOf(n) == IF FromInbox(n) THEN sigInbox[n] ELSE sigFinished[n]

\* process_all_signals; an override takes the finished files again.
SigStart(override) ==
    /\ sigRun.pc = "idle" /\ sigRun.runs < SignalRuns
    /\ sigRun' = [SigIdle(FALSE, sigRun.runs + 1) EXCEPT
                    !.pc = "files", !.override = override,
                    !.todo = {n \in Buckets : sigInbox[n] # 0 \/ (override /\ sigFinished[n] # 0)}]
    /\ UNCHANGED <<sigDisk, sigFaults>>

\* One pipeline per file, _resolve_pipeline_id.
OnePipeline(j) == Cardinality({e.pipe : e \in {j[i] : i \in DOMAIN j}} \ {"none"}) = 1

\* The envelopes of a file that have an identity.
Identified(j) == SelectSeq(j, LAMBDA e : e.epoch # 0)

\* _validate_stream_identity, what it refuses: neither the epoch goes back nor,
\* within an epoch, the seq.
StreamInOrder(j) ==
    LET ids == Identified(j)
    IN  \A i \in 2 .. Len(ids) :
            /\ ids[i].epoch >= ids[i - 1].epoch
            /\ ids[i].epoch = ids[i - 1].epoch => ids[i].seq >= ids[i - 1].seq

\* What it reports and lets pass: a seq that is missing within an epoch.
SeqMissing(j) ==
    LET ids == Identified(j)
    IN  \E i \in 2 .. Len(ids) : ids[i].epoch = ids[i - 1].epoch /\ ids[i].seq > ids[i - 1].seq + 1

Accepted(j) == OnePipeline(j) /\ StreamInOrder(j)

NextFile(r, error) == [r EXCEPT !.pc = "files", !.todo = @ \ {Min(r.todo)}, !.name = 0, !.errors = @ \/ error]

\* convert_jsonl_to_parquet up to the write.  A file without envelopes is passed
\* over and stays; what is refused, or exists already, is an error and stays; a
\* missing seq is an error as well, and the file is written all the same.
SigConvert ==
    /\ sigRun.pc = "files" /\ sigRun.todo # {}
    /\ LET n == Min(sigRun.todo)
           j == Journal[n][SourceOf(n)]
       IN  sigRun' = IF j = <<>> THEN NextFile(sigRun, FALSE)
                     ELSE IF ~Accepted(j) \/ (sigFile[n] # 0 /\ ~sigRun.override) THEN NextFile(sigRun, TRUE)
                     ELSE [sigRun EXCEPT !.pc = "write", !.name = n, !.errors = @ \/ SeqMissing(j)]
    /\ UNCHANGED <<sigDisk, sigFaults>>

SigWrite ==
    /\ sigRun.pc = "write"
    /\ sigFile' = [sigFile EXCEPT ![sigRun.name] = -1]
    /\ sigRun' = [sigRun EXCEPT !.pc = "written"]
    /\ UNCHANGED <<sigInbox, sigFinished, sigIndex, sigFaults>>

SigWritten ==
    /\ sigRun.pc = "written"
    /\ sigFile' = [sigFile EXCEPT ![sigRun.name] = SourceOf(sigRun.name)]
    /\ sigRun' = [sigRun EXCEPT !.pc = "move"]
    /\ UNCHANGED <<sigInbox, sigFinished, sigIndex, sigFaults>>

SigFails ==
    /\ sigRun.pc \in {"write", "written"} /\ sigFaults < SignalFaults
    /\ sigFaults' = sigFaults + 1
    /\ sigRun' = NextFile(sigRun, TRUE)
    /\ UNCHANGED sigDisk

\* _move_to_finished: a file that came from there stays where it is.
SigMove ==
    /\ sigRun.pc = "move"
    /\ LET n == sigRun.name
       IN  /\ sigFinished' = [sigFinished EXCEPT ![n] = SourceOf(n)]
           /\ sigInbox' = [sigInbox EXCEPT ![n] = IF FromInbox(n) THEN 0 ELSE @]
    /\ sigRun' = NextFile(sigRun, FALSE)
    /\ UNCHANGED <<sigFile, sigIndex, sigFaults>>

\* SignalIndexManager.build_index, forced: what can be read is listed; without
\* any file nothing is saved.
SigBuildIndex ==
    /\ sigRun.pc = "files" /\ sigRun.todo = {}
    /\ sigIndex' = IF \A n \in Buckets : sigFile[n] = 0 THEN sigIndex
                   ELSE {<<n, sigFile[n]>> : n \in {m \in Buckets : sigFile[m] > 0}}
    /\ sigRun' = [sigRun EXCEPT !.pc = "idle", !.done = TRUE]
    /\ UNCHANGED <<sigInbox, sigFinished, sigFile, sigFaults>>

SigCrash ==
    /\ sigRun.pc # "idle"
    /\ sigRun' = SigIdle(FALSE, sigRun.runs)
    /\ UNCHANGED <<sigDisk, sigFaults>>

SignalNext ==
    \/ \E n \in Buckets, v \in Versions : SigCollect(n, v)
    \/ \E override \in BOOLEAN : SigStart(override)
    \/ SigConvert \/ SigWrite \/ SigWritten \/ SigFails \/ SigMove \/ SigBuildIndex \/ SigCrash

----------------------------------------------------------------------------
(* Reading the archive                                                     *)

EnvelopesIn(rows) == UNION {{Journal[r[1]][r[2]][i] : i \in DOMAIN Journal[r[1]][r[2]]} : r \in rows}

\* The files the index has for a symbol: those with some result for it.
RowsOf(y) == {r \in sigIndex : \E e \in EnvelopesIn({r}) : y \in e.syms}
RowSpan(r) == SpanOf(Journal[r[1]][r[2]])

Overlapping(y, s, t) == {r \in RowsOf(y) : Min(RowSpan(r)) <= t /\ Max(RowSpan(r)) >= s}

\* Mutant: only the files that overlap the window.
RelevantFilesOverlap(y, s, t) == Overlapping(y, s, t)

\* get_relevant_files: unless a file of the window begins at or before its
\* start, the last one that ends before it comes as well.
RelevantSignalFiles(y, s, t) ==
    LET over == Overlapping(y, s, t)
        before == {r \in RowsOf(y) : Max(RowSpan(r)) < s}
        preceding == {r \in before : \A o \in before : Min(RowSpan(o)) <= Min(RowSpan(r))}
    IN  IF \E r \in over : Min(RowSpan(r)) <= s THEN over ELSE over \cup preceding

\* What a run is given of an envelope: its time, and whether it has the symbol.
Project(E, y) == {[at |-> e.at, has |-> y \in e.syms] : e \in E}

\* Mutant: everything from the start of the window on.
TrimAfterStart(E, s, t) == {e \in E : s <= e.at /\ e.at <= t}

\* Up to the end, and of what lies at or before the start only the last.
Trim(E, s, t) ==
    {e \in E : e.at <= t /\ \A o \in E : o.at <= s => o.at <= e.at}

LoadSeries(y, s, t) == Trim(Project(EnvelopesIn(RelevantSignalFiles(y, s, t)), y), s, t)

\* The newest of E at a moment, as a set of at most one.
AsOf(E, m) == {e \in E : e.at <= m /\ \A o \in E : o.at <= m => o.at <= e.at}

----------------------------------------------------------------------------
(* SignalCoverageReport                                                    *)

\* build_report: all the files of the symbol.
Snapshots(y) == {e.at : e \in EnvelopesIn(RelevantSignalFiles(y, 0, LastInstant + 1))}

\* Mutant: a snapshot of the very moment does not count.
LatestBefore(y, m) == LET S == {a \in Snapshots(y) : a < m} IN IF S = {} THEN 0 ELSE Max(S)

LatestAtOrBefore(y, m) == LET S == {a \in Snapshots(y) : a <= m} IN IF S = {} THEN 0 ELSE Max(S)

\* Each snapshot but the first, with the time since the one before.
Delta(S, a) == a - Max({b \in S : b < a})
Deltas(S) == {<<a, Delta(S, a)>> : a \in S \ {Min(S)}}

\* Twice the median of the distances, _measure_cadence.
GapThreshold(S) ==
    LET D == Deltas(S)
        rank(d) == Cardinality({o \in D : o[2] < d[2] \/ (o[2] = d[2] /\ o[1] < d[1])})
        k == Cardinality(D)
        nth(i) == (CHOOSE d \in D : rank(d) = i)[2]
    IN  nth((k - 1) \div 2) + nth(k \div 2)

\* analyze, gaps_in_window: the gaps that lie in a window as a whole.
SignalGaps(S) == IF Cardinality(S) < 2 THEN {} ELSE {d \in Deltas(S) : d[2] > GapThreshold(S)}
GapsInWindow(S, s, t) == {d \in SignalGaps(S) : d[1] - d[2] >= s /\ d[1] <= t}

\* _measure_stream_identity: the seqs missing between the first and the last
\* of each epoch.
SeqHoles(y) ==
    LET ids == {e \in EnvelopesIn(RelevantSignalFiles(y, 0, LastInstant + 1)) : e.epoch # 0}
        seqs(x) == {e.seq : e \in {o \in ids : o.epoch = x}}
        holes(x) == MapThenSumSet(LAMBDA b : b - Max({a \in seqs(x) : a < b}) - 1, seqs(x) \ {Min(seqs(x))})
    IN  [x \in {e.epoch : e \in ids} |-> holes(x)]

----------------------------------------------------------------------------
(* Properties                                                              *)

\* Whatever run was killed or failed: a file of the archive can be made again
\* from a journal file that is kept, and one that was finished never goes.
SourcesKept ==
    \A n \in Buckets :
        /\ sigFile[n] > 0 => sigFile[n] \in {sigInbox[n], sigFinished[n]}
        /\ sigFinished[n] # 0 => sigFile[n] # 0

\* A run with override that ends without an error has repaired everything: no
\* envelope waits in the inbox, and where no empty file is in the way the
\* archive is that of the finished files.
OverrideRepairs ==
    sigRun.done /\ sigRun.override /\ ~sigRun.errors =>
        \A n \in Buckets :
            IF sigInbox[n] # 0 THEN Journal[n][sigInbox[n]] = <<>> ELSE sigFile[n] = sigFinished[n]

\* After a run the index is true of the archive, and whatever the window a
\* decision at any of its moments sees the signal it would have seen with all
\* of the symbol's files: the newest at that moment, also at the first one.
SignalServed ==
    sigRun.done =>
        /\ sigIndex = {<<n, sigFile[n]>> : n \in {m \in Buckets : sigFile[m] > 0}}
        /\ \A y \in SignalSymbols, s \in 1 .. LastInstant : \A t \in s .. LastInstant :
              \A m \in s .. t :
                 AsOf(LoadSeries(y, s, t), m) = AsOf(Project(EnvelopesIn(RowsOf(y)), y), m)

\* The coverage report a scenario is admitted by and the series it then runs on
\* agree about the first moment, the gaps of a window fit into it, and what it
\* counts as missing is what the epochs lack.
ReportAgrees ==
    sigRun.done =>
        \A y \in SignalSymbols :
            /\ \A s \in 1 .. LastInstant :
                 LatestAtOrBefore(y, s) = (LET a == AsOf(LoadSeries(y, s, LastInstant), s)
                                           IN  IF a = {} THEN 0 ELSE (CHOOSE e \in a : TRUE).at)
            /\ \A s \in 1 .. LastInstant, t \in 1 .. LastInstant :
                 LET G == GapsInWindow(Snapshots(y), s, t)
                 IN  s < t => MapThenSumSet(LAMBDA d : d[2], G) <= t - s
            /\ LET ids == {e \in EnvelopesIn(RowsOf(y)) : e.epoch # 0}
               IN  \A x \in DOMAIN SeqHoles(y) :
                     LET seqs == {e.seq : e \in {o \in ids : o.epoch = x}}
                     IN  SeqHoles(y)[x] = Cardinality({k \in Min(seqs) .. Max(seqs) : k \notin seqs})

\* However imports fail, are killed and are repeated, both archives hold what
\* was collected, and their indexes are true of them: no tick is lost and the
\* bars are those of the ticks; the signals can be made again and are served.
ArchivesSound == ArchiveSound /\ SourcesKept /\ OverrideRepairs /\ SignalServed
=============================================================================
