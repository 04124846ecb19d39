------------------------- MODULE LiveTradeExecutor -------------------------
(***************************************************************************)
(* Order execution against a real broker: LiveTradeExecutor on the main    *)
(* thread, LiveRequestProcessor with its worker thread, and the broker.    *)
(*                                                                         *)
(* The main thread never waits for a submit, an edit, a cancel or a status *)
(* query of a limit order: it puts a job into _http_outbox, the worker     *)
(* makes the call and puts the answer into _http_inbox, and a later tick   *)
(* or heartbeat drains the inbox.  In between the broker fills or drops    *)
(* orders, other jobs overtake nothing but everything else can happen.     *)
(* The broker's reference of an order is only known once the answer to     *)
(* its submission was drained; some brokers give an edited order a new     *)
(* one.  Market orders are polled synchronously on ticks and time out.     *)
(*                                                                         *)
(* An order id is also the id of the position it opens.  A reference is    *)
(* the place of an order in the broker's book.  Lots are left out: every   *)
(* order fills and closes in full.                                         *)
(***************************************************************************)
EXTENDS Naturals, FiniteSets, Sequences, LiveAudits

CONSTANTS
  MaxOrders,      \* bound: open_order calls in a session
  MaxCalls,       \* bound: submit, edit and position jobs in a session
  OpenPrices,     \* limit prices of new orders
  Prices,         \* limit prices of modifications
  Replaces,       \* the set of what edits do: whether they give a new reference
  InstantFills,   \* whether the answer to a submission may say FILLED
  LostAnswers,    \* kinds of calls that may fail although the broker acted
  Reconciles,     \* reconciliation.enabled
  Levels          \* stop losses for positions; {} at a broker without native ones

Ids == 1..MaxOrders
Kinds == {"submit", "edit", "cancel", "query", "position", "trades"}
NoRef == 0

ASSUME LiveAssumption ==
  /\ MaxOrders \in Nat \ {0} /\ MaxCalls \in Nat
  /\ OpenPrices \cup Prices \subseteq Nat /\ Levels \subseteq Nat \ {0}
  /\ Replaces \subseteq BOOLEAN /\ InstantFills \in BOOLEAN /\ Reconciles \in BOOLEAN
  /\ LostAnswers \subseteq Kinds

VARIABLES
  phase,      \* where on_tick / heartbeat stands; "idle" between calls
  onTick,     \* whether a tick or a heartbeat is processed
  todo,       \* the orders the current loop still has to visit
  pending,    \* LiveRequestProcessor._pending_orders: market orders, closes
  limits,     \* _active_limit_orders
  positions,  \* ids of PortfolioManager.open_positions
  results,    \* per order: what the order history, or a cancel event, says of
              \* its opening (rejected closes are left out)
  sent,       \* ids used up
  calls,      \* submit, edit and position jobs so far
  outbox, worker, inbox,  \* _http_outbox, the job in the worker's hands, _http_inbox
  book,       \* the broker's orders, by reference
  level,      \* per position: its stop loss in the portfolio, 0 for none
  mods,       \* _pending_position_modifications: the stop loss asked for
  brokerLevel, \* per position: its stop loss at the broker
  lost,       \* history: per order, the kinds of calls whose answer was lost or
              \* (cancels on the main thread) that failed
  premature,  \* history: the orders that timed out before the answer to their
              \* submission; every cycle reports their rejection again, and they
              \* stay in pending (those reports are here, not in results)
  refused     \* history: the positions whose stop loss the portfolio did not
              \* take over when the broker had

local == <<pending, limits, positions, results, sent>>
queues == <<outbox, worker, inbox>>
audit == <<recon, audits>>
stops == <<level, mods, brokerLevel>>
history == <<lost, premature, refused>>
vars == <<phase, onTick, todo, local, calls, queues, book, audit, stops, history>>

-----------------------------------------------------------------------------
Outcomes == {"EXECUTED", "NO_FUNDS", "REJECTED", "CANCELLED", "EXPIRED",
             "FORCE_CLOSED", "MODIFY_REJECTED"}
Statuses == {"PENDING", "FILLED", "CANCELLED", "REJECTED"}
Refs == 0..MaxCalls

PendingRecord == [action: {"OPEN", "CLOSE"}, ref: Refs, late: BOOLEAN]
LimitRecord ==
  [ref: Refs, price: Nat, op: {"NONE", "PENDING_MODIFY", "PENDING_CANCEL"},
   mod: Nat, cancelRequested: BOOLEAN, query: BOOLEAN]
Job == [kind: Kinds, id: Ids, type: {"MARKET", "LIMIT"},
        action: {"OPEN", "CLOSE"}, ref: Refs, price: Nat]
Response == [kind: Kinds, id: Ids, type: {"MARKET", "LIMIT"},
             action: {"OPEN", "CLOSE"}, ref: Refs, status: Statuses]
BookRecord == [id: Ids, type: {"MARKET", "LIMIT"}, action: {"OPEN", "CLOSE"},
               status: {"open", "filled", "gone"}, price: Nat]

Without(f, D) == [i \in DOMAIN f \ D |-> f[i]]
Put(f, i, x) == [j \in DOMAIN f \cup {i} |-> IF j = i THEN x ELSE f[j]]
Empty == [i \in {} |-> i]

Report(i, outcome) == results' = [results EXCEPT ![i] = Append(@, outcome)]

-----------------------------------------------------------------------------
(* The algorithm's calls *)

SubmitJob(i, type, action, price) ==
  [kind |-> "submit", id |-> i, type |-> type, action |-> action,
   ref |-> NoRef, price |-> price]
OrderJob(kind, i, ref, price) ==
  [kind |-> kind, id |-> i, type |-> "LIMIT", action |-> "OPEN",
   ref |-> ref, price |-> price]

NewPending(action) == [action |-> action, ref |-> NoRef, late |-> FALSE]
NewLimit(price) ==
  [ref |-> NoRef, price |-> price, op |-> "NONE", mod |-> 0,
   cancelRequested |-> FALSE, query |-> FALSE]

\* open_order: an order is tracked without a reference from the moment its
\* job is queued, or the request is refused at once.
OpenOrder(type, price) ==
  LET id == sent + 1 IN
  /\ phase = "idle" /\ id \in Ids /\ calls < MaxCalls
  /\ sent' = id
  /\ \/ /\ type = "MARKET"
        /\ pending' = Put(pending, id, NewPending("OPEN"))
        /\ outbox' = Append(outbox, SubmitJob(id, "MARKET", "OPEN", 0))
        /\ calls' = calls + 1
        /\ UNCHANGED <<limits, results>>
     \/ /\ type = "LIMIT"
        /\ limits' = Put(limits, id, NewLimit(price))
        /\ outbox' = Append(outbox, SubmitJob(id, "LIMIT", "OPEN", price))
        /\ calls' = calls + 1
        /\ UNCHANGED <<pending, results>>
     \/ /\ Report(id, "REJECTED")
        /\ UNCHANGED <<pending, limits, outbox, calls>>
  /\ UNCHANGED <<phase, onTick, todo, positions, worker, inbox, book, audit, stops, history>>

IsPendingClose(i) == i \in DOMAIN pending /\ pending[i].action = "CLOSE"

\* close_position
ClosePosition(i) ==
  /\ phase = "idle" /\ i \in positions /\ calls < MaxCalls
  /\ pending' = Put(pending, i, NewPending("CLOSE"))
  /\ outbox' = Append(outbox, SubmitJob(i, "MARKET", "CLOSE", 0))
  /\ calls' = calls + 1
  /\ UNCHANGED <<phase, onTick, todo, limits, positions, results, sent,
                 worker, inbox, book, audit, stops, history>>

\* modify_limit_order
ModifyLimitOrder(i, price) ==
  /\ phase = "idle" /\ i \in DOMAIN limits /\ calls < MaxCalls
  /\ limits[i].ref # NoRef /\ limits[i].op = "NONE"
  /\ limits' = [limits EXCEPT ![i].op = "PENDING_MODIFY", ![i].mod = price]
  /\ outbox' = Append(outbox, OrderJob("edit", i, limits[i].ref, price))
  /\ calls' = calls + 1
  /\ UNCHANGED <<phase, onTick, todo, pending, positions, results, sent,
                 worker, inbox, book, audit, stops, history>>

\* cancel_limit_order: while the submission is in flight the wish is parked.
CancelLimitOrder(i) ==
  /\ phase = "idle" /\ i \in DOMAIN limits
  /\ \/ /\ limits[i].ref = NoRef
        /\ limits' = [limits EXCEPT ![i].cancelRequested = TRUE]
        /\ UNCHANGED outbox
     \/ /\ limits[i].ref # NoRef /\ limits[i].op = "NONE"
        /\ limits' = [limits EXCEPT ![i].op = "PENDING_CANCEL"]
        /\ outbox' = Append(outbox, OrderJob("cancel", i, limits[i].ref, 0))
  /\ UNCHANGED <<phase, onTick, todo, pending, positions, results, sent,
                 calls, worker, inbox, book, audit, stops, history>>

\* modify_position at a broker with native stops; one modification of a
\* position at a time.
ModifyPosition(i, stop) ==
  /\ phase = "idle" /\ i \in positions /\ i \notin DOMAIN mods /\ calls < MaxCalls
  /\ mods' = Put(mods, i, stop)
  /\ outbox' = Append(outbox, [OrderJob("position", i, NoRef, stop) EXCEPT !.type = "MARKET"])
  /\ calls' = calls + 1
  /\ UNCHANGED <<phase, onTick, todo, local, worker, inbox, book, audit, level,
                 brokerLevel, history>>

-----------------------------------------------------------------------------
(* The worker thread *)

\* _worker_loop takes the oldest job; a stopped worker takes no more.
WorkerTakes ==
  /\ phase # "ended" /\ worker = <<>> /\ outbox # <<>>
  /\ worker' = <<Head(outbox)>> /\ outbox' = Tail(outbox)
  /\ UNCHANGED <<phase, onTick, todo, local, calls, inbox, book, audit, stops, history>>

\* The job is done with this answer. An exception of any kind becomes a
\* REJECTED answer that carries the job's own reference.
Answered(job, ref, status) ==
  /\ worker = <<job>> /\ worker' = <<>>
  /\ inbox' = Append(inbox, [kind |-> job.kind, id |-> job.id, type |-> job.type,
                             action |-> job.action, ref |-> ref, status |-> status])
  /\ UNCHANGED <<phase, onTick, todo, local, calls, outbox, audit, level, mods,
                 premature, refused>>

\* The answer to a call of this kind for order i is lost.
Lose(i, kind) == lost' = [lost EXCEPT ![i] = @ \cup {kind}]

\* The broker acted; its answer arrives or, for some kinds, gets lost.
Acknowledged(job, ref, status) ==
  \/ Answered(job, ref, status) /\ UNCHANGED lost
  \/ job.kind \in LostAnswers /\ Answered(job, job.ref, "REJECTED") /\ Lose(job.id, job.kind)

\* The broker refuses, or the call fails before it has an effect.
Refused(job) ==
  Answered(job, job.ref, "REJECTED") /\ UNCHANGED <<book, brokerLevel, lost>>

\* _dispatch_submit_job
DispatchSubmit(job) ==
  /\ job.kind = "submit"
  /\ LET order(st) == [id |-> job.id, type |-> job.type, action |-> job.action,
                       status |-> st, price |-> job.price]
         ref == Len(book) + 1
     IN \/ /\ book' = Append(book, order("open")) /\ UNCHANGED brokerLevel
           /\ Acknowledged(job, ref, "PENDING")
        \/ /\ InstantFills
           /\ book' = Append(book, order("filled")) /\ UNCHANGED brokerLevel
           /\ Acknowledged(job, ref, "FILLED")
        \/ Refused(job)

IsOpen(ref) == ref \in DOMAIN book /\ book[ref].status = "open"

\* _dispatch_edit_job
DispatchEdit(job) ==
  /\ job.kind = "edit"
  /\ \/ /\ IsOpen(job.ref) /\ TRUE \in Replaces
        /\ book' = Append([book EXCEPT ![job.ref].status = "gone"],
                          [book[job.ref] EXCEPT !.price = job.price])
        /\ Acknowledged(job, Len(book) + 1, "PENDING") /\ UNCHANGED brokerLevel
     \/ /\ IsOpen(job.ref) /\ FALSE \in Replaces
        /\ book' = [book EXCEPT ![job.ref].price = job.price]
        /\ Acknowledged(job, job.ref, "PENDING") /\ UNCHANGED brokerLevel
     \/ Refused(job)

\* _dispatch_cancel_job
DispatchCancel(job) ==
  /\ job.kind = "cancel"
  /\ \/ /\ IsOpen(job.ref)
        /\ book' = [book EXCEPT ![job.ref].status = "gone"]
        /\ Acknowledged(job, job.ref, "CANCELLED") /\ UNCHANGED brokerLevel
     \/ Refused(job)

\* What _parse_query_response makes of the broker's status.
QueryStatus(ref) ==
  CASE book[ref].status = "open"   -> "PENDING"
    [] book[ref].status = "filled" -> "FILLED"
    [] OTHER -> "CANCELLED"

\* _dispatch_query_job
DispatchQuery(job) ==
  /\ job.kind = "query"
  /\ Acknowledged(job, job.ref, QueryStatus(job.ref))
  /\ UNCHANGED <<book, brokerLevel>>

\* _dispatch_position_modify_job
DispatchPosition(job) ==
  /\ job.kind = "position"
  /\ \/ /\ brokerLevel' = [brokerLevel EXCEPT ![job.id] = job.price]
        /\ Acknowledged(job, job.ref, "PENDING") /\ UNCHANGED book
     \/ Refused(job)

\* _dispatch_trades_query_job: the trades, or a failure.
DispatchTrades(job) ==
  /\ job.kind = "trades"
  /\ \/ Answered(job, job.ref, "FILLED") /\ UNCHANGED <<book, brokerLevel, lost>>
     \/ Refused(job)

Dispatch ==
  \E job \in {worker[k] : k \in DOMAIN worker} :
    \/ DispatchSubmit(job) \/ DispatchEdit(job) \/ DispatchCancel(job)
    \/ DispatchQuery(job) \/ DispatchPosition(job) \/ DispatchTrades(job)

-----------------------------------------------------------------------------
(* The broker, outside the program, for as long as the session runs *)

BrokerFills(ref) ==
  /\ phase # "ended" /\ IsOpen(ref)
  /\ book' = [book EXCEPT ![ref].status = "filled"]
  /\ UNCHANGED <<phase, onTick, todo, local, calls, queues, audit, stops, history>>

\* The broker cancels or expires an order of its own accord.
BrokerDrops(ref) ==
  /\ phase # "ended" /\ IsOpen(ref)
  /\ book' = [book EXCEPT ![ref].status = "gone"]
  /\ UNCHANGED <<phase, onTick, todo, local, calls, queues, audit, stops, history>>

\* timeout_at passes, be the submission answered or not.
TimeoutPasses(i) ==
  /\ i \in DOMAIN pending /\ ~pending[i].late
  /\ pending' = [pending EXCEPT ![i].late = TRUE]
  /\ UNCHANGED <<phase, onTick, todo, limits, positions, results, sent, calls,
                 queues, book, audit, stops, history>>

-----------------------------------------------------------------------------
(* Draining the inbox, one answer after the other *)

\* Nothing is opened, closed or audited.
NoFill == UNCHANGED <<positions, outbox, audits>>

\* Mutant: the position is not entered into the portfolio.
FillOpenOnlyReported(i, ref) == Report(i, "EXECUTED") /\ NoFill

\* _fill_open_order, whose own funds check may refuse what the broker has
\* filled. The auditor, a listener of the outcome, asks for the trades.
FillOpen(i, ref) ==
  \/ /\ Report(i, "EXECUTED") /\ positions' = positions \cup {i}
     /\ \/ /\ Audits(ref)
           /\ audits' = AuditBegins(i, ref)
           /\ outbox' = Append(outbox, OrderJob("trades", i, ref, 0))
        \/ ~Audits(ref) /\ UNCHANGED <<audits, outbox>>
  \/ Report(i, "NO_FUNDS") /\ NoFill

\* A fill of an opening, or of a close (_fill_close_order, which tells nobody).
Fill(i, action, ref) ==
  \/ action = "OPEN" /\ FillOpen(i, ref)
  \/ action = "CLOSE" /\ positions' = positions \ {i} /\ UNCHANGED <<results, outbox, audits>>

\* A rejection, of which the opening of the order is the subject or not.
Reject(i, action) ==
  /\ IF action = "OPEN" THEN Report(i, "REJECTED") ELSE UNCHANGED results
  /\ NoFill

\* _handle_submit_response, of a market order or a close. (The order is
\* there: before this answer nothing can remove it.)
HandleSubmitResponse(m) ==
  /\ m.kind = "submit" /\ m.type = "MARKET" /\ m.id \in DOMAIN pending
  /\ \/ /\ m.status = "REJECTED"
        /\ pending' = Without(pending, {m.id})
        /\ Reject(m.id, m.action)
     \/ /\ m.status = "FILLED"
        /\ pending' = Without(pending, {m.id})
        /\ Fill(m.id, m.action, m.ref)
     \/ /\ m.status = "PENDING"
        /\ pending' = [pending EXCEPT ![m.id].ref = m.ref]
        /\ NoFill /\ UNCHANGED results
  /\ UNCHANGED <<limits, level, mods, refused>>

\* Mutant: a parked cancel is forgotten.
ConfirmOnly(m) ==
  /\ limits' = [limits EXCEPT ![m.id].ref = m.ref]
  /\ UNCHANGED outbox

\* The reference is confirmed, and a parked cancel issued.
Confirm(m) ==
  IF limits[m.id].cancelRequested
  THEN /\ limits' = [limits EXCEPT ![m.id].ref = m.ref, ![m.id].op = "PENDING_CANCEL",
                                   ![m.id].cancelRequested = FALSE]
       /\ outbox' = Append(outbox, OrderJob("cancel", m.id, m.ref, 0))
  ELSE /\ limits' = [limits EXCEPT ![m.id].ref = m.ref]
       /\ UNCHANGED outbox

\* _handle_limit_submit_response: a fill takes precedence over a parked
\* cancel. (This order, too, is there.)
HandleLimitSubmitResponse(m) ==
  /\ m.kind = "submit" /\ m.type = "LIMIT" /\ m.id \in DOMAIN limits
  /\ \/ /\ m.status = "REJECTED"
        /\ limits' = Without(limits, {m.id})
        /\ Reject(m.id, "OPEN")
     \/ /\ m.status = "FILLED"
        /\ limits' = Without(limits, {m.id})
        /\ FillOpen(m.id, m.ref)
     \/ /\ m.status = "PENDING"
        /\ Confirm(m) /\ UNCHANGED <<positions, results, audits>>
  /\ UNCHANGED <<pending, level, mods, refused>>

\* Mutant: the new reference of an edited order is not taken over.
ModifiedKeepingRef(o, m) ==
  [o EXCEPT !.op = "NONE", !.mod = 0, !.price = IF m.status = "REJECTED" THEN @ ELSE o.mod]

\* Mutant: a refused modification is applied all the same.
ModifiedAnyway(o, m) ==
  [o EXCEPT !.op = "NONE", !.mod = 0, !.price = o.mod,
            !.ref = IF m.status = "REJECTED" THEN @ ELSE m.ref]

\* The order after its modification was answered.
Modified(o, m) ==
  [o EXCEPT !.op = "NONE", !.mod = 0,
            !.price = IF m.status = "REJECTED" THEN @ ELSE o.mod,
            !.ref = IF m.status = "REJECTED" THEN @ ELSE m.ref]

\* _handle_modify_response: a refused modification is reported as a
\* rejection while the order keeps working.
HandleModifyResponse(m) ==
  /\ m.kind = "edit"
  /\ IF m.id \in DOMAIN limits
     THEN /\ limits' = [limits EXCEPT ![m.id] = Modified(@, m)]
          /\ IF m.status = "REJECTED" THEN Report(m.id, "MODIFY_REJECTED")
                                      ELSE UNCHANGED results
     ELSE UNCHANGED <<limits, results>>
  /\ NoFill /\ UNCHANGED <<pending, level, mods, refused>>

\* _handle_cancel_response: a refused cancel leaves the order to the polls.
HandleCancelResponse(m) ==
  /\ m.kind = "cancel"
  /\ \/ /\ m.id \notin DOMAIN limits
        /\ UNCHANGED <<limits, results>>
     \/ /\ m.id \in DOMAIN limits /\ m.status = "REJECTED"
        /\ limits' = [limits EXCEPT ![m.id].op = "NONE"]
        /\ UNCHANGED results
     \/ /\ m.id \in DOMAIN limits /\ m.status # "REJECTED"
        /\ limits' = Without(limits, {m.id})
        /\ Report(m.id, "CANCELLED")
  /\ NoFill /\ UNCHANGED <<pending, level, mods, refused>>

\* Mutant: every answer counts, whichever reference it is about.
CurrentAlways(o, m) == TRUE

\* The stale-reference guard of _handle_query_response.
Current(o, m) == o.ref = m.ref

\* Mutant: a stale answer returns before in_flight_query is cleared.
AskAgainIfCurrent(o, m) == IF Current(o, m) THEN [o EXCEPT !.query = FALSE] ELSE o

\* The query is over, whatever its answer: the next poll may ask again.
AskAgain(o, m) == [o EXCEPT !.query = FALSE]

\* _handle_query_response
HandleQueryResponse(m) ==
  /\ m.kind = "query"
  /\ \/ /\ m.id \notin DOMAIN limits
        /\ NoFill /\ UNCHANGED <<limits, results>>
     \/ /\ m.id \in DOMAIN limits /\ (~Current(limits[m.id], m) \/ m.status = "PENDING")
        /\ limits' = [limits EXCEPT ![m.id] = AskAgain(@, m)]
        /\ NoFill /\ UNCHANGED results
     \/ /\ m.id \in DOMAIN limits /\ Current(limits[m.id], m) /\ m.status = "FILLED"
        /\ limits' = Without(limits, {m.id})
        /\ FillOpen(m.id, m.ref)
     \/ /\ m.id \in DOMAIN limits /\ Current(limits[m.id], m)
        /\ m.status \in {"REJECTED", "CANCELLED"}
        /\ limits' = Without(limits, {m.id})
        /\ Reject(m.id, "OPEN")
  /\ UNCHANGED <<pending, level, mods, refused>>

\* Mutant: the stop loss is taken over although the broker refused it.
AnyAnswer(m) == TRUE

\* The broker has taken the stop loss over.
TakenByBroker(m) == m.status # "REJECTED"

\* _handle_position_modify_response. The position may be closed by now; and
\* PortfolioManager.modify_position judges the level by its own prices of the
\* moment and may leave the position as it is, which nobody notices.
HandlePositionResponse(m) ==
  /\ m.kind = "position"
  /\ mods' = Without(mods, {m.id})
  /\ \/ /\ m.id \in positions /\ TakenByBroker(m)
        /\ level' = [level EXCEPT ![m.id] = mods[m.id]]
        /\ refused' = refused \ {m.id}
     \/ /\ m.id \in positions /\ TakenByBroker(m)
        /\ refused' = refused \cup {m.id} /\ UNCHANGED level
     \/ /\ m.id \notin positions \/ ~TakenByBroker(m)
        /\ UNCHANGED <<level, refused>>
  /\ NoFill /\ UNCHANGED <<pending, limits, results>>

\* _handle_trades_response: the order has left the active list, so only the
\* consumers see the answer, successful or not.
HandleTradesResponse(m) ==
  /\ m.kind = "trades"
  /\ AuditEnds(m.id, m.status # "REJECTED")
  /\ UNCHANGED <<pending, limits, positions, results, outbox, level, mods, refused>>

\* One round of drain_inbox.
DrainInbox ==
  /\ phase = "drain" /\ inbox # <<>>
  /\ LET m == Head(inbox) IN
       \/ HandleSubmitResponse(m) \/ HandleLimitSubmitResponse(m)
       \/ HandleModifyResponse(m) \/ HandleCancelResponse(m) \/ HandleQueryResponse(m)
       \/ HandlePositionResponse(m) \/ HandleTradesResponse(m)
  /\ inbox' = Tail(inbox)
  /\ UNCHANGED <<phase, onTick, todo, sent, calls, worker, book, recon, brokerLevel,
                 lost, premature>>

-----------------------------------------------------------------------------
(* The rest of a tick or heartbeat *)

\* on_tick and heartbeat start by draining.
StartCycle(tick) ==
  /\ phase = "idle"
  /\ phase' = "drain" /\ onTick' = tick /\ todo' = {}
  /\ UNCHANGED <<local, calls, queues, book, audit, stops, history>>

Opening == {i \in DOMAIN pending : pending[i].action = "OPEN"}

\* check_timeouts
TimedOut == {i \in DOMAIN pending : pending[i].late}

\* A heartbeat does not poll the market orders.
InboxDrained ==
  /\ phase = "drain" /\ inbox = <<>>
  /\ phase' = IF onTick THEN "poll" ELSE "timeouts"
  /\ todo' = IF onTick THEN {i \in DOMAIN pending : pending[i].ref # NoRef} ELSE TimedOut
  /\ UNCHANGED <<onTick, local, calls, queues, book, audit, stops, history>>

\* query_order_sync and _handle_broker_response for one order. An order the
\* broker cancelled is kept until it times out.
PollPending(i) ==
  LET p == pending[i] IN
  /\ phase = "poll" /\ i \in todo
  /\ todo' = todo \ {i}
  /\ \/ /\ book[p.ref].status = "filled"
        /\ pending' = Without(pending, {i}) /\ Fill(i, p.action, p.ref) /\ UNCHANGED lost
     \/ /\ "query" \in LostAnswers
        /\ pending' = Without(pending, {i}) /\ Reject(i, p.action) /\ Lose(i, "query")
     \/ /\ book[p.ref].status # "filled"
        /\ NoFill /\ UNCHANGED <<pending, results, lost>>
  /\ UNCHANGED <<phase, onTick, limits, sent, calls, worker, inbox, book, recon, stops,
                 premature, refused>>

PendingPolled ==
  /\ phase = "poll" /\ todo = {}
  /\ phase' = "timeouts" /\ todo' = TimedOut
  /\ UNCHANGED <<onTick, local, calls, queues, book, audit, stops, history>>

\* cancel_order_sync for some references, whose answer nobody looks at; it
\* has no effect when it comes too late or the call fails.
CancelSync(refs) ==
  \E done \in SUBSET {r \in refs : IsOpen(r)} :
    /\ "cancel" \in LostAnswers \/ done = {r \in refs : IsOpen(r)}
    /\ lost' = [i \in Ids |-> IF \E r \in refs \ done : IsOpen(r) /\ book[r].id = i
                              THEN lost[i] \cup {"cancel"} ELSE lost[i]]
    /\ book' = [r \in DOMAIN book |->
                  IF r \in done THEN [book[r] EXCEPT !.status = "gone"] ELSE book[r]]

\* Mutant: the timed-out order is reported and not removed.
DropTimedOutNever(i) == UNCHANGED pending

\* mark_rejected, which finds an order by its reference: one without a
\* reference stays where it is.
DropTimedOut(i) ==
  pending' = IF pending[i].ref # NoRef THEN Without(pending, {i}) ELSE pending

\* _handle_timeout reports a rejection either way: the last word on the order
\* if it was removed, and otherwise one that every later cycle repeats.
HandleTimeout(i) ==
  /\ phase = "timeouts" /\ i \in todo
  /\ todo' = todo \ {i}
  /\ CancelSync({pending[i].ref})
  /\ DropTimedOut(i)
  /\ \/ /\ pending[i].ref # NoRef
        /\ Reject(i, pending[i].action) /\ UNCHANGED premature
     \/ /\ pending[i].ref = NoRef
        /\ premature' = premature \cup ({i} \cap Opening)
        /\ NoFill /\ UNCHANGED results
  /\ UNCHANGED <<phase, onTick, limits, sent, calls, worker, inbox, recon, stops, refused>>

TimeoutsHandled ==
  /\ phase = "timeouts" /\ todo = {}
  /\ phase' = "active"
  /\ UNCHANGED <<onTick, todo, local, calls, queues, book, audit, stops, history>>

\* _process_active_orders for one order whose throttle window has elapsed.
PollActive(i) ==
  /\ phase = "active" /\ i \in DOMAIN limits
  /\ limits[i].ref # NoRef /\ ~limits[i].query
  /\ limits' = [limits EXCEPT ![i].query = TRUE]
  /\ outbox' = Append(outbox, OrderJob("query", i, limits[i].ref, 0))
  /\ UNCHANGED <<phase, onTick, todo, pending, positions, results, sent, calls,
                 worker, inbox, book, audit, stops, history>>

CycleEnds ==
  /\ phase = "active"
  /\ phase' = "idle" /\ onTick' = FALSE
  /\ UNCHANGED <<todo, local, calls, queues, book, audit, stops, history>>

\* The tick loop lets the reconciler look, behind a tick or a heartbeat.
LocalRefs == {limits[i].ref : i \in DOMAIN limits} \ {NoRef}
BrokerOrders == [ref \in {r \in DOMAIN book : book[r].status = "open"} |-> book[ref].id]

Reconcile ==
  /\ Reconciles /\ phase = "idle"
  /\ ReconcileWith(BrokerOrders, LocalRefs)
  /\ UNCHANGED <<phase, onTick, todo, local, calls, queues, book, audits, stops, history>>

-----------------------------------------------------------------------------
(* The end of the session: close_all_remaining_orders *)

\* Limit orders with a reference are cancelled at the broker, all are
\* recorded as EXPIRED (the list stays); positions are closed in the
\* portfolio only; what is still pending is force-closed.
CloseAllRemainingOrders ==
  /\ phase = "idle"
  /\ CancelSync({limits[i].ref : i \in DOMAIN limits})
  /\ results' = [i \in Ids |->
       CASE i \in DOMAIN limits -> Append(results[i], "EXPIRED")
         [] i \in Opening -> Append(results[i], "FORCE_CLOSED")
         [] OTHER -> results[i]]
  /\ positions' = {} /\ pending' = Empty
  /\ phase' = "stopping"
  /\ audits' = NoAudits
  /\ UNCHANGED <<onTick, todo, limits, sent, calls, queues, recon, stops, premature, refused>>

\* stop_worker. A call the worker is in the middle of is still made.
StopWorker ==
  /\ phase = "stopping"
  /\ phase' = "ended"
  /\ UNCHANGED <<onTick, todo, local, calls, queues, book, audit, stops, history>>

Done == phase = "ended" /\ worker = <<>> /\ UNCHANGED vars

-----------------------------------------------------------------------------
\* LiveRequestProcessor's queues and the orders it tracks.
ProcessorInit ==
  /\ pending = Empty
  /\ outbox = <<>> /\ worker = <<>> /\ inbox = <<>>

Init ==
  /\ phase = "idle" /\ onTick = FALSE /\ todo = {}
  /\ ProcessorInit /\ limits = Empty /\ positions = {}
  /\ results = [i \in Ids |-> <<>>]
  /\ sent = 0 /\ calls = 0
  /\ book = <<>>
  /\ recon = NothingReported /\ audits = NoAudits
  /\ level = [i \in Ids |-> 0] /\ mods = Empty /\ brokerLevel = [i \in Ids |-> 0]
  /\ lost = [i \in Ids |-> {}] /\ premature = {} /\ refused = {}

\* close_position takes a second close of a position too; the decision logics
\* ask is_pending_close first.
Algorithm ==
  \/ OpenOrder("MARKET", 0)
  \/ \E p \in OpenPrices : OpenOrder("LIMIT", p)
  \/ \E i \in Ids : ~IsPendingClose(i) /\ ClosePosition(i)
  \/ \E i \in Ids : CancelLimitOrder(i)
  \/ \E i \in Ids, p \in Prices : ModifyLimitOrder(i, p)
  \/ \E i \in Ids, l \in Levels : ModifyPosition(i, l)

\* The steps of a cycle that has begun.
Cycle ==
  \/ DrainInbox \/ InboxDrained \/ PendingPolled \/ TimeoutsHandled \/ CycleEnds
  \/ \E i \in Ids : PollPending(i) \/ HandleTimeout(i)

Worker == WorkerTakes \/ Dispatch

Next ==
  \/ Algorithm
  \/ \E tick \in BOOLEAN : StartCycle(tick)
  \/ Cycle
  \/ Reconcile
  \/ \E i \in Ids : PollActive(i) \/ TimeoutPasses(i)
  \/ Worker
  \/ \E ref \in DOMAIN book : BrokerFills(ref) \/ BrokerDrops(ref)
  \/ CloseAllRemainingOrders
  \/ StopWorker
  \/ Done

Spec == Init /\ [][Next]_vars

\* The tick loop calls on_tick or heartbeat for as long as the session runs,
\* the worker thread runs and its calls return (every request has a
\* timeout), the throttle window of an order and the reconciler's interval
\* elapse again and again, and a timeout passes.
FairSpec ==
  /\ Spec
  /\ WF_vars(Cycle) /\ WF_vars(\E tick \in BOOLEAN : StartCycle(tick))
  /\ WF_vars(Worker)
  /\ \A i \in Ids : SF_vars(PollActive(i)) /\ WF_vars(TimeoutPasses(i))
  /\ SF_vars(Reconcile)

-----------------------------------------------------------------------------
(* Properties *)

\* Orders, jobs, answers and the broker's book are well-formed, and the one
\* worker thread has at most one job in its hands.
TypeOK ==
  /\ phase \in {"idle", "drain", "poll", "timeouts", "active", "stopping", "ended"}
  /\ onTick \in BOOLEAN /\ todo \subseteq Ids
  /\ DOMAIN pending \subseteq Ids /\ pending \in [DOMAIN pending -> PendingRecord]
  /\ DOMAIN limits \subseteq Ids /\ limits \in [DOMAIN limits -> LimitRecord]
  /\ positions \subseteq Ids
  /\ results \in [Ids -> Seq(Outcomes)]
  /\ sent \in 0..MaxOrders /\ calls \in 0..MaxCalls
  /\ outbox \in Seq(Job) /\ worker \in Seq(Job) /\ Len(worker) <= 1
  /\ inbox \in Seq(Response)
  /\ book \in Seq(BookRecord) /\ Len(book) <= MaxCalls
  /\ recon \in [ghosts : SUBSET Refs, orphans : SUBSET Refs]
  /\ DOMAIN audits \subseteq Ids /\ audits \in [DOMAIN audits -> Refs]
  /\ {level, brokerLevel} \subseteq [Ids -> Nat]
  /\ DOMAIN mods \subseteq Ids /\ mods \in [DOMAIN mods -> Nat]
  /\ lost \in [Ids -> SUBSET Kinds] /\ premature \cup refused \subseteq Ids

InSession == phase \notin {"stopping", "ended"}

\* The entries of the history that end order i; a refused modification is an
\* entry about an order that goes on.
Ends(i) == {k \in DOMAIN results[i] : results[i][k] # "MODIFY_REJECTED"}
Outcome(i) == results[i][CHOOSE k \in Ends(i) : TRUE]

\* An order is tracked in one place until its end is reported, once.
EndsOnce ==
  /\ \A i \in Ids : \A j, k \in Ends(i) : j = k
  /\ InSession =>
       /\ Opening \cap DOMAIN limits = {}
       /\ (Opening \cup DOMAIN limits) \cap positions = {}
       /\ \A i \in 1..sent : Ends(i) = {} <=> i \in Opening \cup DOMAIN limits

\* An order of which a rejection is reported ahead of its end is a market
\* order, and late in pending until that end.
EarlyReportsLate ==
  premature \cap DOMAIN limits = {} /\ premature \cap Opening \subseteq TimedOut

\* However answers, polls, timeouts and cancels overlap, an order is tracked
\* in one place until its end is reported, once. Reports ahead of the end
\* there are only of market orders that timed out before their submission was
\* answered, for as long as they are late (live_trade_executor.py 316-357).
OneOutcome == EndsOnce /\ EarlyReportsLate

\* The main thread has the reference of an order at the broker, or is going
\* to learn it from an answer that is already in the inbox.
Tracked(ref) ==
  \/ \E i \in DOMAIN limits : limits[i].ref = ref
  \/ \E i \in DOMAIN pending : pending[i].ref = ref
  \/ \E k \in DOMAIN inbox :
       inbox[k].kind \in {"submit", "edit"} /\ inbox[k].ref = ref /\ inbox[k].status # "REJECTED"

\* The orders whose every answer arrived.
Heard == {i \in Ids : lost[i] = {}}

\* No order is left working at the broker that the executor no longer knows
\* of, unless one of its own answers was lost: an answer that is stale, late
\* or a refusal never makes it drop one.
NothingForgotten ==
  InSession =>
    \A ref \in DOMAIN book : IsOpen(ref) /\ book[ref].id \in Heard => Tracked(ref)

\* What the history says of a limit order is what became of it at the
\* broker: reported filled only when it was, reported cancelled or rejected
\* only when it is neither working nor filled there.
OutcomesTrue(i) ==
    LET at(st) == \E ref \in DOMAIN book :
                    book[ref].id = i /\ book[ref].type = "LIMIT" /\ book[ref].status = st
        market == \E ref \in DOMAIN book : book[ref].id = i /\ book[ref].type = "MARKET" /\ book[ref].action = "OPEN"
    IN \A k \in DOMAIN results[i] :
         /\ results[i][k] \in {"EXECUTED", "NO_FUNDS"} => at("filled") \/ market
         /\ results[i][k] \in {"REJECTED", "CANCELLED"} => ~at("open") /\ ~at("filled")

\* That is so of every order (live_trade_executor.py 852-880).
LimitOutcomesTrue == InSession => \A i \in Ids : OutcomesTrue(i)

\* The shadow state agrees with the broker: a confirmed limit order has the
\* broker's price whenever no modification is on its way, unless the answer to
\* one of its own was lost (live_trade_executor.py 478-545).
ShadowPriceTrue ==
  \A i \in DOMAIN limits :
    limits[i].ref # NoRef /\ limits[i].op # "PENDING_MODIFY" /\ "edit" \notin lost[i]
      => limits[i].price = book[limits[i].ref].price

\* A cancel that was parked while the submission was in flight is issued, or
\* the order is decided.
ParkedCancelFires ==
  \A i \in Ids :
    (i \in DOMAIN limits /\ limits[i].cancelRequested)
      ~> (i \notin DOMAIN limits \/ limits[i].op = "PENDING_CANCEL" \/ ~InSession)

\* A limit order that is filled or dropped at the broker is noticed: its
\* outcome is reported, or the session ends first.
EveryLimitResolved ==
  \A i \in Ids :
    (i \in DOMAIN limits /\ limits[i].ref # NoRef /\ ~IsOpen(limits[i].ref))
      ~> (i \notin DOMAIN limits \/ IsOpen(limits[i].ref) \/ ~InSession)

\* The portfolio's stop loss of a position is the broker's, unless a
\* modification is on its way, the answer to one was lost, or the portfolio
\* itself refused the level the broker has (live_trade_executor.py 588-624,
\* 1117-1193; portfolio_manager.py 726-801).
StopLevelTrue ==
  \A i \in positions \ refused :
    i \notin DOMAIN mods /\ "position" \notin lost[i] => level[i] = brokerLevel[i]

\* The executor's books mirror the broker's: no limit order is forgotten while
\* it works there or reported otherwise than it ended there, whatever answers
\* of other orders were lost, and a position's stop loss is the broker's.
BrokerMirrored ==
  /\ TypeOK /\ NothingForgotten /\ StopLevelTrue
  /\ InSession => \A i \in Heard : OutcomesTrue(i)

\* Every audit ends, although its query may fail: no snapshot is kept for
\* ever (drift_auditor.py _on_trades_response).
AuditsEnd ==
  \A i \in Ids : (i \in DOMAIN audits) ~> (i \notin DOMAIN audits \/ ~InSession)

\* Whatever was asked of the broker comes to an end in the running session:
\* a parked cancel, a limit order that is no longer working, a fill's audit.
RequestsResolved == ParkedCancelFires /\ EveryLimitResolved /\ AuditsEnd

\* An order at the broker that the executor does not hold, because an answer
\* was lost or a cancel failed, is reported by the reconciler, unless it ends
\* or its answer is drained after all (reconciler.py _diff).
LostOrderReported ==
  \A ref \in 1..MaxCalls :
    (IsOpen(ref) /\ ref \notin LocalRefs)
      ~> (ref \in recon.ghosts \/ ~IsOpen(ref) \/ ref \in LocalRefs \/ ~InSession)

\* As long as no answer was lost, what the reconciler complains of passes: it
\* was an order on its way, and a later comparison is clean.
DivergenceHeals ==
  (~IsClean(recon) /\ Heard = Ids) ~> (IsClean(recon) \/ Heard # Ids \/ ~InSession)

\* The reconciler finds what was lost, and nothing that was not.
Reconciled == LostOrderReported /\ DivergenceHeals

\* The live executor keeps the same promise as the simulator.
status ==
  [i \in Ids |->
     CASE i > sent -> "unsent"
       [] i <= sent /\ Ends(i) = {} -> IF i \in DOMAIN limits THEN "working" ELSE "inflight"
       [] OTHER -> CASE Outcome(i) = "EXECUTED" -> IF i \in positions THEN "open" ELSE "closed"
                     [] Outcome(i) = "NO_FUNDS" -> "REJECTED"
                     [] OTHER -> Outcome(i)]

size == [i \in Ids |-> IF status[i] \in {"inflight", "working", "open"} THEN 1 ELSE 0]

Lifecycle == INSTANCE OrderLifecycle WITH status <- status, size <- size
ImplementsLifecycle == Lifecycle!Spec

=============================================================================
