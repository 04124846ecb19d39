------------------------------ MODULE DataArchive ------------------------------
(***************************************************************************)
(* The tick archive: TickDataImporter turns the collector's exports into   *)
(* parquet files, TickIndexManager lists them, BarImporter renders the     *)
(* bars of every symbol from them and BarsIndexManager lists those.  A     *)
(* file is written in place, so a crash can leave it torn; the next run    *)
(* starts from what is on the disk.  Every import ends with a look at the  *)
(* order of the whole archive.                                             *)
(*                                                                         *)
(* Times are milliseconds.  An export is a record                          *)
(*   [symbol, structured, broker, collector, declared, timed, ticks]       *)
(* with ticks a sequence of [stamp, time, collected, bid, ask]: stamp is   *)
(* the timestamp column, time is time_msc and collected is collected_msc,  *)
(* zero in exports that do not have it.                                    *)
(***************************************************************************)
EXTENDS Integers, FiniteSets, Sequences, SequencesExt

CONSTANTS
    BrokerTypes, \* the broker types market_config.json maps
    OffsetHours, \* per broker type: the hours the registry adds to its times
    Exports,     \* the collector's files; each has its own parquet name
    Symbols,
    Contents,    \* what the collector may write: per export, its content or NoExport
    MaxRuns,     \* bound of the model: runs of the importer
    MaxFailures  \* bound of the model: writes that fail

NoExport == [symbol |-> "none"]
TickRecords == [stamp : Int, time : Int, collected : Int, bid : Int, ask : Int]

\* The collector's files are finitely many, of known symbols, and their columns
\* are integers (prices in points).
ASSUME ExportsAssumption ==
    /\ IsFiniteSet(Exports) /\ OffsetHours \in [BrokerTypes -> Int]
    /\ \A c \in Contents : \A e \in Exports :
          c[e] = NoExport \/ (c[e].symbol \in Symbols /\ c[e].ticks \in Seq(TickRecords))

----------------------------------------------------------------------------
(* What the importer makes of one export before it writes a file (broker   *)
(* type, UTC offset, TickImportValidator.validate_file), and what it says  *)
(* of the archive as a whole (validate_archive_ordering)                   *)

PlausibleLag == 300000
SegmentSplitForward == 7 * 24 * 3600000
TimestampTolerance == 1000
NotDeclared == -1

\* broker_type, or data_collector in a legacy file; "none" when there is neither.
BrokerType(x) == IF x.broker = "none" THEN x.collector ELSE x.broker

\* Both columns that hold the time of an event move; the arrival does not.
Moved(tick, ms) == [tick EXCEPT !.stamp = @ + ms, !.time = @ + ms]

ApplyTimeOffset(x) ==
    [i \in DOMAIN x.ticks |-> Moved(x.ticks[i], OffsetHours[BrokerType(x)] * 3600000)]

----------------------------------------------------------------------------
(* The checks of one file, on its ticks after the offset.                  *)

Steps(ts) == 1 .. Len(ts) - 1
AnyArrival(ts) == \E i \in DOMAIN ts : ts[i].collected # 0
Lag(tick) == tick.collected - tick.time

CountWrong(ts, declared) == declared # NotDeclared /\ Len(ts) # declared
PricesWrong(ts) == \E i \in DOMAIN ts : ts[i].bid <= 0 \/ ts[i].ask <= 0 \/ ts[i].ask < ts[i].bid
StepsBack(ts) ==
    \E i \in Steps(ts) : ts[i + 1].time < ts[i].time \/ ts[i + 1].collected < ts[i].collected
StampsWrong(ts) ==
    \E i \in DOMAIN ts :
        ts[i].stamp - ts[i].time > TimestampTolerance \/ ts[i].time - ts[i].stamp > TimestampTolerance

\* Mutant: one segment per file.
WholeFile(ts) == {<<1, Len(ts)>>}

\* split_anchor_segments: the last tick of every stretch under one anchor of
\* the collector's clock.
Breaks(ts) ==
    {i \in Steps(ts) : \/ ts[i + 1].collected < ts[i].collected
                       \/ ts[i + 1].collected - ts[i].collected > SegmentSplitForward}
AnchorSegments(ts) ==
    {seg \in (DOMAIN ts) \X (DOMAIN ts) :
        /\ seg[1] <= seg[2]
        /\ seg[1] = 1 \/ seg[1] - 1 \in Breaks(ts)
        /\ seg[2] = Len(ts) \/ seg[2] \in Breaks(ts)
        /\ \A i \in seg[1] .. seg[2] - 1 : i \notin Breaks(ts)}

\* The least delayed tick of a segment stands for the offset of its clock.
LeastLag(ts, seg) ==
    CHOOSE l \in {Lag(ts[i]) : i \in seg[1] .. seg[2]} : \A i \in seg[1] .. seg[2] : l <= Lag(ts[i])

\* Mutant: the first tick of every segment stands for it.
FirstLagWrong(ts) ==
    /\ AnyArrival(ts)
    /\ \E seg \in AnchorSegments(ts) : Lag(ts[seg[1]]) > PlausibleLag \/ Lag(ts[seg[1]]) < -PlausibleLag

LagWrong(ts) ==
    /\ AnyArrival(ts)
    /\ \E seg \in AnchorSegments(ts) : LeastLag(ts, seg) > PlausibleLag \/ LeastLag(ts, seg) < -PlausibleLag

\* validate_file: without time_msc nothing is said of the times.
FileValid(ts, x) ==
    /\ ~CountWrong(ts, x.declared) /\ ~PricesWrong(ts)
    /\ x.timed => ~StepsBack(ts) /\ ~StampsWrong(ts) /\ ~LagWrong(ts)

\* How convert_json_to_parquet ends before it looks for duplicates.  The order
\* is that of the code: an empty export has no broker type to be refused for.
Verdict(x) ==
    CASE ~x.structured -> "error"
      [] x.structured /\ x.ticks = <<>> -> "empty"
      [] x.structured /\ x.ticks # <<>> /\ BrokerType(x) \notin BrokerTypes -> "error"
      [] OTHER -> IF FileValid(ApplyTimeOffset(x), x) THEN "good" ELSE "invalid"

----------------------------------------------------------------------------
(* The archive: files are sequences of ticks as they were written.         *)

\* An entry of the index has the bounds of a file, first and last row.
IndexEntry(ts) ==
    [start |-> Head(ts).stamp, end |-> Last(ts).stamp,
     cstart |-> Head(ts).collected, cend |-> Last(ts).collected]

\* The orders in which the entries of a symbol of a broker may be sorted by
\* their start.
ByStart(files) ==
    {order \in SetToSeqs(files) : \A i \in Steps(order) : IndexEntry(order[i]).start <= IndexEntry(order[i + 1]).start}

\* Mutant: a transition without arrival bounds is passed over in silence.
NoFindingSilent(order) ==
    \A i \in Steps(order) :
        LET a == IndexEntry(order[i])  b == IndexEntry(order[i + 1])
        IN  /\ b.start >= a.end
            /\ a.cend # 0 /\ b.cstart # 0 => b.cstart >= a.cend

\* validate_archive_ordering finds nothing to say: neighbours do not overlap
\* in event time and, where both bounds are known, not in arrival; a bound
\* that is not known is a finding of its own.
NoFinding(order) ==
    \A i \in Steps(order) :
        LET a == IndexEntry(order[i])  b == IndexEntry(order[i + 1])
        IN  b.start >= a.end /\ a.cend # 0 /\ b.cstart # 0 /\ b.cstart >= a.cend

----------------------------------------------------------------------------
(* The importer *)

VARIABLES
    content,   \* what every export holds, chosen at the start
    inbox,     \* exports waiting in the source directory
    finished,  \* exports moved to the finished directory
    ticks,     \* per export: "none", "torn" or "ok" in the archive
    index,     \* the tick index on the disk: [exists, files]
    bars,      \* per instrument: [st |-> "none" | "torn" | "ok", from |-> exports rendered]
    barIndex,  \* the instruments the bar index on the disk lists
    imp,       \* the running importer; brokers: the broker types it has seen
    failures

archiveVars == <<content, inbox, finished, ticks, index, bars, barIndex, imp, failures>>
Collectable == {e \in Exports : content[e] # NoExport}

\* The archive keeps ticks and bars by broker type and symbol.
Instruments == BrokerTypes \X Symbols
InstrumentOf == [e \in Exports |-> <<BrokerType(content[e]), content[e].symbol>>]
VerdictOf(e) == Verdict(content[e])

diskVars == <<content, ticks, index, bars, barIndex>>

Idle(done, runs) ==
    [pc |-> "idle", todo |-> {}, file |-> "none", override |-> FALSE, processed |-> 0,
     brokers |-> {}, errors |-> FALSE, ordered |-> FALSE, done |-> done, runs |-> runs]

NoBars == [st |-> "none", from |-> {}]

\* An empty archive; part of the bounds of the model may be spent already.
ArchiveInit ==
    /\ content \in Contents
    /\ inbox \in SUBSET Collectable /\ finished = {}
    /\ ticks = [e \in Exports |-> "none"] /\ index = [exists |-> FALSE, files |-> {}]
    /\ bars = [p \in Instruments |-> NoBars] /\ barIndex = {}
    /\ imp \in {Idle(FALSE, spent) : spent \in 0 .. MaxRuns} /\ failures \in 0 .. MaxFailures

Readable == {e \in Exports : ticks[e] = "ok"}

----------------------------------------------------------------------------
(* TickDataImporter                                                        *)

\* An export is dropped into the source directory, for the first time or again.
Collect(e) ==
    /\ imp.pc = "idle" /\ e \in Collectable \ inbox
    /\ inbox' = inbox \cup {e}
    /\ UNCHANGED <<finished, diskVars, imp, failures>>

\* process_all_exports lists the source directory once.
StartImport(override) ==
    /\ imp.pc = "idle" /\ imp.runs < MaxRuns
    /\ imp' = [Idle(FALSE, imp.runs + 1) EXCEPT !.pc = IF inbox = {} THEN "index" ELSE "files",
                                               !.todo = inbox, !.override = override]
    /\ UNCHANGED <<inbox, finished, diskVars, failures>>

\* _check_for_existing_duplicate: the source a readable file names.
IsDuplicate(e) == ticks[e] = "ok"

Skip(i, e, processed, error) ==
    [i EXCEPT !.todo = @ \ {e}, !.processed = @ + processed, !.errors = @ \/ error]

\* The broker type is noted once it is known, before the file is validated.
Seen(i, e) == [i EXCEPT !.brokers = @ \cup {BrokerType(content[e])}]

\* convert_json_to_parquet up to the write: an empty file counts as processed
\* and stays; one that raises, an invalid one and a duplicate are skipped; an
\* override deletes the duplicate first.
ConvertFile(e) ==
    /\ imp.pc = "files" /\ e \in imp.todo
    /\ \/ /\ VerdictOf(e) = "empty"
          /\ imp' = Skip(imp, e, 1, FALSE) /\ UNCHANGED ticks
       \/ /\ VerdictOf(e) = "error"
          /\ imp' = Skip(imp, e, 0, TRUE) /\ UNCHANGED ticks
       \/ /\ VerdictOf(e) = "invalid"
          /\ imp' = Seen(Skip(imp, e, 0, TRUE), e) /\ UNCHANGED ticks
       \/ /\ VerdictOf(e) = "good" /\ IsDuplicate(e) /\ ~imp.override
          /\ imp' = Seen(Skip(imp, e, 0, FALSE), e) /\ UNCHANGED ticks
       \/ /\ VerdictOf(e) = "good" /\ (IsDuplicate(e) => imp.override)
          /\ ticks' = IF IsDuplicate(e) THEN [ticks EXCEPT ![e] = "none"] ELSE ticks
          /\ imp' = [Seen(imp, e) EXCEPT !.pc = "write", !.file = e]
    /\ UNCHANGED <<content, inbox, finished, index, bars, barIndex, failures>>

\* Mutant: the export leaves the inbox before its ticks are written.
WriteTicksMoved ==
    /\ imp.pc = "write"
    /\ inbox' = inbox \ {imp.file} /\ finished' = finished \cup {imp.file}
    /\ ticks' = [ticks EXCEPT ![imp.file] = "torn"]
    /\ imp' = [imp EXCEPT !.pc = "written"]
    /\ UNCHANGED <<content, index, bars, barIndex, failures>>

\* The file is torn until the write is complete.
WriteTicks ==
    /\ imp.pc = "write"
    /\ ticks' = [ticks EXCEPT ![imp.file] = "torn"]
    /\ imp' = [imp EXCEPT !.pc = "written"]
    /\ UNCHANGED <<content, inbox, finished, index, bars, barIndex, failures>>

WriteDone ==
    /\ imp.pc = "written"
    /\ ticks' = [ticks EXCEPT ![imp.file] = "ok"]
    /\ imp' = [imp EXCEPT !.pc = "move"]
    /\ UNCHANGED <<content, inbox, finished, index, bars, barIndex, failures>>

\* The write raises: the error is noted and the next file is tried.
WriteFails ==
    /\ imp.pc \in {"write", "written"} /\ failures < MaxFailures
    /\ failures' = failures + 1
    /\ imp' = [Skip(imp, imp.file, 0, TRUE) EXCEPT !.pc = "files", !.file = "none"]
    /\ UNCHANGED <<inbox, finished, diskVars>>

MoveToFinished ==
    /\ imp.pc = "move"
    /\ inbox' = inbox \ {imp.file} /\ finished' = finished \cup {imp.file}
    /\ imp' = [Skip(imp, imp.file, 1, FALSE) EXCEPT !.pc = "files", !.file = "none"]
    /\ UNCHANGED <<diskVars, failures>>

\* Mutant: the bars are rendered from the index of the run before.
AfterFilesEager ==
    /\ imp.pc = "files" /\ imp.todo = {}
    /\ imp' = [imp EXCEPT !.pc = IF imp.processed > 0 THEN "clean" ELSE "index"]
    /\ UNCHANGED <<inbox, finished, diskVars, failures>>

AfterFiles ==
    /\ imp.pc = "files" /\ imp.todo = {}
    /\ imp' = [imp EXCEPT !.pc = "index"]
    /\ UNCHANGED <<inbox, finished, diskVars, failures>>

----------------------------------------------------------------------------
(* TickIndexManager.build_index                                            *)

\* A forced rebuild lists what it can read; when the archive has no file at
\* all it returns before it saves, and the old index stays.
Rebuilt == IF \A e \in Exports : ticks[e] = "none" THEN index ELSE [exists |-> TRUE, files |-> Readable]

\* The ticks of a file are those of its export, moved to UTC.  Files that
\* start at the same time are listed in an order the file system decides.
FilesOf(p) == {ApplyTimeOffset(content[e]) : e \in {f \in Readable : InstrumentOf[f] = p}}
MayFindNothing == \A p \in Instruments : \E order \in ByStart(FilesOf(p)) : NoFinding(order)
MayFindSomething == \E p \in Instruments : \E order \in ByStart(FilesOf(p)) : ~NoFinding(order)

\* rebuild_parquet_index, and what validate_archive_ordering finds in it.
RebuildParquetIndex ==
    /\ imp.pc = "index"
    /\ index' = Rebuilt
    /\ \E ordered \in BOOLEAN :
          /\ IF ordered THEN MayFindNothing ELSE MayFindSomething
          /\ imp' = IF imp.processed > 0 THEN [imp EXCEPT !.pc = "clean", !.ordered = ordered]
                    ELSE [Idle(TRUE, imp.runs) EXCEPT !.errors = imp.errors, !.brokers = imp.brokers,
                                                       !.ordered = ordered]
    /\ UNCHANGED <<content, inbox, finished, ticks, bars, barIndex, failures>>

\* Loaded from the disk when it exists, and built otherwise.
LoadedIndex == IF index.exists THEN index ELSE Rebuilt

----------------------------------------------------------------------------
(* BarImporter                                                             *)

\* The symbols the index lists for the broker types of this run.
TasksOf(brokers) == {p \in {InstrumentOf[e] : e \in LoadedIndex.files} : p[1] \in brokers}

\* Mutant: bars that are there are kept.
CleanBarsMissingOnly ==
    /\ imp.pc = "clean"
    /\ index' = LoadedIndex
    /\ imp' = [imp EXCEPT !.pc = "render",
                          !.todo = {p \in TasksOf(imp.brokers) : bars[p].st = "none"}]
    /\ UNCHANGED <<content, inbox, finished, ticks, bars, barIndex, failures>>

\* The clean mode of _trigger_bar_rendering: every bar of the brokers seen in
\* this run goes before the first new one is written; other brokers are left.
CleanBars ==
    /\ imp.pc = "clean"
    /\ bars' = [p \in Instruments |-> IF p[1] \in imp.brokers THEN NoBars ELSE bars[p]]
    /\ index' = LoadedIndex
    /\ imp' = [imp EXCEPT !.pc = "render", !.todo = TasksOf(imp.brokers)]
    /\ UNCHANGED <<content, inbox, finished, ticks, barIndex, failures>>

\* A worker of the pool loads the ticks the index names and writes the bars;
\* if one of them cannot be read, or the write fails, it reports an error.
RenderSymbol(p) ==
    LET from == {e \in LoadedIndex.files : InstrumentOf[e] = p}
    IN  /\ imp.pc = "render" /\ p \in imp.todo
        /\ \/ /\ from \subseteq Readable
              /\ bars' = [bars EXCEPT ![p] = [st |-> "ok", from |-> from]]
              /\ imp' = [imp EXCEPT !.todo = @ \ {p}] /\ UNCHANGED failures
           \/ /\ ~(from \subseteq Readable)
              /\ imp' = [imp EXCEPT !.todo = @ \ {p}, !.errors = TRUE] /\ UNCHANGED <<bars, failures>>
           \/ /\ failures < MaxFailures /\ failures' = failures + 1
              /\ bars' = [bars EXCEPT ![p] = [st |-> "torn", from |-> {}]]
              /\ imp' = [imp EXCEPT !.todo = @ \ {p}, !.errors = TRUE]
        /\ UNCHANGED <<content, inbox, finished, ticks, index, barIndex>>

\* BarsIndexManager: a bar file is listed by what it says of itself, if it can
\* be read; without any bar file the old bar index stays as well.
ReadableBars == {p \in Instruments : bars[p].st = "ok"}
RebuiltBarIndex == IF \A p \in Instruments : bars[p].st = "none" THEN barIndex ELSE ReadableBars

\* update_bar_index, a forced rebuild.
UpdateBarIndex ==
    /\ imp.pc = "render" /\ imp.todo = {}
    /\ barIndex' = RebuiltBarIndex
    /\ imp' = [Idle(TRUE, imp.runs) EXCEPT !.errors = imp.errors, !.brokers = imp.brokers,
                                          !.processed = imp.processed, !.ordered = imp.ordered]
    /\ UNCHANGED <<content, inbox, finished, ticks, index, bars, failures>>

\* The process is killed anywhere: what is written stays as it is.
Crash ==
    /\ imp.pc # "idle"
    /\ imp' = Idle(FALSE, imp.runs)
    /\ UNCHANGED <<inbox, finished, diskVars, failures>>

ArchiveNext ==
    \/ \E e \in Exports : Collect(e) \/ ConvertFile(e)
    \/ \E override \in BOOLEAN : StartImport(override)
    \/ WriteTicks \/ WriteDone \/ WriteFails \/ MoveToFinished \/ AfterFiles
    \/ RebuildParquetIndex \/ CleanBars \/ (\E p \in Instruments : RenderSymbol(p)) \/ UpdateBarIndex
    \/ Crash

----------------------------------------------------------------------------
(* Properties                                                              *)

\* No tick is lost: the ticks of a good export that has left the inbox are
\* readable in the archive, wherever runs were killed, writes failed or
\* duplicates were deleted and written again.
NoTickLost == \A e \in finished \ inbox : ticks[e] = "ok"

\* When a run has ended, the index lists the readable files of the archive and
\* nothing else, leftovers of killed runs included; unless the archive is
\* empty, for which a rebuild writes no index.
IndexTrue ==
    imp.done /\ (\E e \in Exports : ticks[e] # "none") => index.files = Readable

\* When a run that imported something has ended without an error, the bars of
\* every symbol of the brokers it has seen come from all the ticks the archive
\* has of it, and the bar index lists exactly the symbols of theirs with ticks:
\* also those that an earlier, killed run has imported.  A broker the run has
\* not seen keeps the bars it had, and waits for an import of its own.
BarsFollowTicks ==
    imp.done /\ imp.processed > 0 /\ ~imp.errors =>
        \A p \in Instruments : p[1] \in imp.brokers =>
            /\ bars[p].from = {e \in Readable : InstrumentOf[e] = p}
            /\ p \in barIndex <=> \E e \in Readable : InstrumentOf[e] = p

\* A file that was accepted and has the times of its ticks is what it says: its
\* events and arrivals never step back, no tick arrived before it happened
\* (but for the tolerated lag), and where the clock of the collector jumped
\* there is a tick on either side that arrived at a plausible time.
AcceptedTrue ==
    \A e \in Readable :
        LET ts == ApplyTimeOffset(content[e])
            Plausible(i) == Lag(ts[i]) \in -PlausibleLag .. PlausibleLag
        IN  content[e].timed =>
              /\ \A i, j \in DOMAIN ts : i < j => ts[i].time <= ts[j].time /\ ts[i].collected <= ts[j].collected
              /\ AnyArrival(ts) =>
                    /\ \A i \in DOMAIN ts : ts[i].collected >= ts[i].time - PlausibleLag
                    /\ \A i \in 1 .. Len(ts) - 1 :
                          ts[i + 1].collected - ts[i].collected > SegmentSplitForward =>
                              (\E j \in 1 .. i : Plausible(j)) /\ (\E j \in i + 1 .. Len(ts) : Plausible(j))

\* When a run ends without a word about the order of the archive, the files of
\* a symbol of a broker can be read one after the other, if all have the times of their
\* ticks: however many there are, no tick arrived before one of an earlier
\* file, and between neighbours the events step back by no more than the
\* tolerance between the timestamp and the time allows on either side.
ArchiveOrdered ==
    imp.done /\ imp.ordered =>
        \A p \in Instruments :
            (\A e \in Readable : InstrumentOf[e] = p => content[e].timed) =>
                \E order \in ByStart(FilesOf(p)) :
                    \A i, j \in DOMAIN order : i < j =>
                        \A a \in Range(order[i]), b \in Range(order[j]) :
                            /\ b.time >= a.time - 2 * TimestampTolerance * (j - i)
                            /\ a.collected # 0 /\ b.collected # 0 => b.collected >= a.collected

\* However imports fail, are killed and are repeated: no tick is lost, the index
\* is true of the archive, the bars are those of the ticks, and what the
\* validation passes is so.
ArchiveSound == NoTickLost /\ IndexTrue /\ BarsFollowTicks /\ AcceptedTrue /\ ArchiveOrdered
=============================================================================
