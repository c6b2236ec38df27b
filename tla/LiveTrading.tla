------------------------------ MODULE LiveTrading ------------------------------
(***************************************************************************)
(* The live order path: the worker loop and the stop tasks of              *)
(* LiveAutomation, the operator's manual orders and status checks, the     *)
(* order journal of ManualTrading, and the exchange they talk to.  One     *)
(* process runs everything on one event loop, so a step here is the code   *)
(* between two awaits; the process may be killed at any await and, inside  *)
(* a step, between its journal writes and its POST.                        *)
(*                                                                         *)
(* The markets belong to one asset whose configuration has a fixed stop    *)
(* and no take-profit, as every tracked preset has.  Prices, times and     *)
(* strategy decisions are data: whatever they may say is a choice.         *)
(***************************************************************************)
EXTENDS Integers, Sequences, FiniteSets

CONSTANTS
  Markets,     \* tickers; a ticker also names the task that executes its stop
  Worker,      \* the loop of LiveAutomation.run
  Users,       \* connections that submit manual orders
  Checkers,    \* connections that ask for the status of an order
  Nobody,      \* the holder of the free submission slot
  Size,        \* contracts of an automatic entry, and at most of a manual order
  Retries,     \* config.max_entry_retries
  Closing,     \* bound: markets whose close time may come
  MaxOrders,   \* bound: rows of the journal
  MaxFaults,   \* bound: orders given up before the POST for no cause in the model
  MaxChanges,  \* bound: operator changes to the controls
  MaxCrashes   \* bound: restarts

Loopers == Markets \cup {Worker}
Threads == Loopers \cup Users \cup Checkers

ASSUME LiveAssumption ==
  /\ Worker \notin Markets \cup Users \cup Checkers
  /\ Markets \cap Users = {} /\ Markets \cap Checkers = {} /\ Users \cap Checkers = {}
  /\ Nobody \notin Threads
  /\ Closing \subseteq Markets
  /\ Size \in Nat \ {0}
  /\ {Retries, MaxOrders, MaxFaults, MaxChanges, MaxCrashes} \subseteq Nat

Sides == {"yes", "no"}
Opposite(side) == IF side = "yes" THEN "no" ELSE "yes"
UNRESOLVED == {"submitting", "accepted", "unknown"}

VARIABLES
  journal,    \* manual_orders, in order of insertion; the index is the client order id
  control,    \* live_controls
  policy,     \* live_assets: automatic entries are on
  closed,     \* the market's close time has passed
  thread,     \* what each coroutine is doing
  venue,      \* the exchange's side of each order
  position,   \* the account's net position at the exchange, in "yes" contracts
  changes,    \* operator changes so far
  crashes     \* restarts so far

vars == <<journal, control, policy, closed, thread, venue, position, changes, crashes>>

\* A row of the journal, and the coroutine's own copy of it.
Row ==
  [state : UNRESOLVED \cup {"complete", "rejected"},
   market : Markets, action : {"buy", "sell"}, side : Sides, bot : BOOLEAN,
   count : Nat,          \* request.count
   filled : Nat,         \* exchange_order.fill_count_fp, 0 before there is one
   indexed : BOOLEAN,    \* exchange_index is known
   acked : BOOLEAN,      \* order_id is known
   submitted : BOOLEAN]  \* timing.submitted_at is set

NewRow(m, action, side, count, bot) ==
  [state |-> "submitting", market |-> m, action |-> action, side |-> side, bot |-> bot,
   count |-> count, filled |-> 0, indexed |-> FALSE, acked |-> FALSE, submitted |-> FALSE]

NoRow == NewRow(Nobody, "buy", "yes", 0, FALSE)

\* The exchange knows an order once the POST has arrived ("open"); "sent" is
\* a request still on the wire, or lost.
Phases == {"none", "sent", "open", "done", "refused"}
VenueOrder == [phase : Phases, filled : Nat, posts : Nat]
Unsent == [phase |-> "none", filled |-> 0, posts |-> 0]

(* "queued" waits for the submission slot; the later places of _submit are *)
(* inside it.  "lookup" and "found" are reconcile() called by the worker   *)
(* or by a status check, without the slot.                                 *)
SlotPlaces == {"preflight", "read", "posting", "acked", "fetched"}
Places == {"idle", "queued", "lookup", "found"} \cup SlotPlaces

\* revision: what the order was decided on; changed: a control changed since
\* (a history variable); held: the holdings read; seen: the answer to a GET.
Idle ==
  [pc |-> "idle", order |-> 0, row |-> NoRow,
   revision |-> 0, changed |-> FALSE, held |-> 0, seen |-> Unsent]

Thread ==
  [pc : Places, order : Nat, row : Row \cup {NoRow}, revision : Nat, changed : BOOLEAN,
   held : Int, seen : VenueOrder]

Control ==
  [revision : Nat,      \* 0: the market has no control yet
   enabled : BOOLEAN, paused : BOOLEAN,
   stop : BOOLEAN]      \* exit_reason is HARD_STOP

TypeOK ==
  /\ journal \in Seq(Row)
  /\ control \in [Markets -> Control]
  /\ policy \in BOOLEAN
  /\ closed \in [Markets -> BOOLEAN]
  /\ thread \in [Threads -> Thread]
  /\ venue \in Seq(VenueOrder) /\ Len(venue) = Len(journal)
  /\ position \in [Markets -> Int]
  /\ changes \in Nat /\ crashes \in Nat

Init ==
  /\ journal = <<>>
  /\ control = [m \in Markets |->
                  [revision |-> 0, enabled |-> FALSE, paused |-> FALSE, stop |-> FALSE]]
  /\ policy = TRUE
  /\ closed = [m \in Markets |-> FALSE]
  /\ thread = [t \in Threads |-> Idle]
  /\ venue = <<>>
  /\ position = [m \in Markets |-> 0]
  /\ changes = 0
  /\ crashes = 0

-----------------------------------------------------------------------------
(* The journal as the automation reads it.                                 *)

Rows == 1..Len(journal)

\* Mutant: an order of unknown fate counts as resolved.
UnresolvedIfKnown(o) == journal[o].state \in UNRESOLVED \ {"unknown"}

Unresolved(o) == journal[o].state \in UNRESOLVED
BotRows(m, action) ==
  {o \in Rows : journal[o].bot /\ journal[o].market = m /\ journal[o].action = action}

\* Contracts are counted one by one: the n-th of order o is <<o, n>>.
Fills(S) == Cardinality(UNION {{o} \X (1..journal[o].filled) : o \in S})

Bought(m) == Fills(BotRows(m, "buy"))
Sold(m) == Fills(BotRows(m, "sell"))
Held(m) == IF Bought(m) > Sold(m) THEN Bought(m) - Sold(m) ELSE 0

\* A rejection before the POST gives the entry attempt back.
ConsumesEntryAttempt(row) == ~(row.state = "rejected" /\ ~row.submitted /\ ~row.acked)

\* Mutant: claim() looks at the orders still being submitted only.
BlockedBySubmissions(row) ==
  \E o \in Rows :
    /\ journal[o].state = "submitting"
    /\ ~row.bot \/ row.action # "sell" \/ journal[o].market = row.market

\* What claim() finds in the way of a new order.
Blocked(row) ==
  \E o \in Rows :
    /\ Unresolved(o)
    /\ ~row.bot \/ row.action # "sell" \/ journal[o].market = row.market

-----------------------------------------------------------------------------
(* Operator controls.  Each handler runs without an await.                 *)

Exists(m) == control[m].revision > 0
CanChange == changes < MaxChanges /\ changes' = changes + 1

\* The revisions of all the asset's controls move together.
AllChanged ==
  [t \in Threads |->
     [thread[t] EXCEPT !.changed = @ \/ thread[t].pc \in {"queued", "preflight", "read"}]]

SyncMarkets(m) ==
  /\ policy
  /\ ~Exists(m)
  /\ ~closed[m]
  /\ control' = [control EXCEPT ![m] = [@ EXCEPT !.revision = 1, !.enabled = TRUE]]
  /\ UNCHANGED <<journal, policy, closed, thread, venue, position, changes, crashes>>

\* Mutant: switching the automation on starts from a clean control.
ConfigureAfresh(m, on) ==
  /\ CanChange
  /\ ~closed[m]
  /\ policy' = on
  /\ control' =
       [n \in Markets |->
          IF n = m
            THEN [revision |-> control[n].revision + 1, enabled |-> on, paused |-> FALSE,
                  stop |-> FALSE]
          ELSE control[n]]
  /\ thread' = AllChanged
  /\ UNCHANGED <<journal, closed, venue, position, crashes>>

Configure(m, on) ==
  /\ CanChange
  /\ ~closed[m]
  /\ policy' = on
  /\ control' =
       [n \in Markets |->
          IF n = m
            THEN [control[n] EXCEPT !.enabled = on, !.paused = @ /\ ~on, !.revision = @ + 1]
          ELSE IF Exists(n)
            THEN [control[n] EXCEPT !.enabled = on /\ ~control[n].paused, !.revision = @ + 1]
          ELSE control[n]]
  /\ thread' = AllChanged
  /\ UNCHANGED <<journal, closed, venue, position, crashes>>

\* The controls after a manual order in m took the market over.
TakenOver(m) ==
  [n \in Markets |->
     IF ~Exists(m) \/ ~Exists(n) THEN control[n]
     ELSE [control[n] EXCEPT !.enabled = FALSE, !.paused = @ \/ n = m, !.revision = @ + 1]]

\* Stopping the feeds is refused while a position or an order is managed.
PrepareShutdown ==
  /\ CanChange
  /\ \A t \in Threads : thread[t].pc \notin SlotPlaces
  /\ \A m \in Markets : Exists(m) /\ ~control[m].paused /\ ~closed[m] =>
       /\ Bought(m) <= Sold(m)
       /\ \A o \in BotRows(m, "buy") \cup BotRows(m, "sell") : ~Unresolved(o)
  /\ policy' = FALSE
  /\ control' = [m \in Markets |->
                   IF Exists(m)
                     THEN [control[m] EXCEPT !.enabled = FALSE, !.revision = @ + 1]
                     ELSE control[m]]
  /\ thread' = AllChanged
  /\ UNCHANGED <<journal, closed, venue, position, crashes>>

Close(m) ==
  /\ m \in Closing /\ ~closed[m]
  /\ closed' = [closed EXCEPT ![m] = TRUE]
  /\ UNCHANGED <<journal, control, policy, thread, venue, position, changes, crashes>>

-----------------------------------------------------------------------------
(* Deciding what to do in a market.                                        *)

\* detect_stops: commit the stop of a held position at once, whoever holds
\* the market's lock.
DetectStop(m) ==
  /\ Exists(m) /\ ~control[m].paused /\ ~closed[m]
  /\ Bought(m) > Sold(m)
  /\ ~control[m].stop
  /\ control' = [control EXCEPT ![m].stop = TRUE]
  /\ UNCHANGED <<journal, policy, closed, thread, venue, position, changes, crashes>>

MarketFree(m) ==
  \A t \in Loopers : thread[t].pc # "idle" => thread[t].row.market # m

\* The bound on the journal: no order is begun that would not find a row.
Room == Len(journal) + Cardinality({t \in Threads : thread[t].pc = "queued"}) < MaxOrders

Submit(t, row, order) ==
  [Idle EXCEPT !.pc = "queued", !.row = row, !.order = order,
               !.revision = IF row.bot THEN control[row.market].revision ELSE 0]

\* Mutant: a market that was sold out may be entered again.
ManageableAgain(m) ==
  /\ Exists(m) /\ ~closed[m] /\ ~control[m].paused
  /\ \A o \in Rows : Unresolved(o) => Held(m) > 0 /\ journal[o].market # m

Manageable(m) ==
  /\ Exists(m) /\ ~closed[m] /\ ~control[m].paused
  /\ ~(Bought(m) > 0 /\ Held(m) = 0)
  /\ \A o \in Rows : Unresolved(o) => Held(m) > 0 /\ journal[o].market # m

\* _step_market with a position: the worker may itself see the bid at or
\* below the stop; a stop task acts only on a committed stop.
StepHeld(t, m) ==
  /\ thread[t].pc = "idle" /\ t \in {m, Worker} /\ MarketFree(m)
  /\ Manageable(m) /\ Room
  /\ Held(m) > 0
  /\ control[m].stop \/ t = Worker
  /\ control' = [control EXCEPT ![m].stop = TRUE]
  /\ \E o \in BotRows(m, "buy") :
       /\ journal[o].filled > 0
       /\ thread' = [thread EXCEPT ![t] =
                       Submit(t, NewRow(m, "sell", journal[o].side, Held(m), TRUE), 0)]
  /\ UNCHANGED <<journal, policy, closed, venue, position, changes, crashes>>

\* _entry(), for what the model knows.  Its other refusals, of health,
\* freshness, window, price, probability, loss and event limits, are StepFlat
\* not being taken.
EntryAllowed(m) == control[m].enabled /\ ~control[m].paused /\ policy

\* _step_market without one.
StepFlat(m, side) ==
  /\ thread[Worker].pc = "idle" /\ MarketFree(m)
  /\ Manageable(m) /\ Room
  /\ Held(m) = 0
  /\ Cardinality({o \in BotRows(m, "buy") : ConsumesEntryAttempt(journal[o])}) <= Retries
  /\ EntryAllowed(m)
  /\ thread' = [thread EXCEPT ![Worker] =
                  Submit(Worker, NewRow(m, "buy", side, Size, TRUE), 0)]
  /\ UNCHANGED <<journal, control, policy, closed, venue, position, changes, crashes>>

\* A manual order takes the market over before anything else, and may repeat
\* the client order id of an earlier request.
UserSubmit(u, row, order) ==
  /\ thread[u].pc = "idle"
  /\ CanChange
  /\ control' = TakenOver(row.market)
  /\ policy' = (policy /\ ~Exists(row.market))
  /\ thread' = [IF Exists(row.market) THEN AllChanged ELSE thread
                  EXCEPT ![u] = Submit(u, row, order)]
  /\ UNCHANGED <<journal, closed, venue, position, crashes>>

UserRequest(u) ==
  \/ /\ Room
     /\ \E m \in Markets, action \in {"buy", "sell"}, side \in Sides, n \in 1..Size :
          UserSubmit(u, NewRow(m, action, side, n, FALSE), 0)
  \/ \E o \in Rows : ~journal[o].bot /\ UserSubmit(u, journal[o], o)

-----------------------------------------------------------------------------
(* _submit, one step per await.                                            *)

InSlot(t) == thread[t].pc \in SlotPlaces
IsStop(t) == thread[t].row.bot /\ thread[t].row.action = "sell"
SlotFree == \A t \in Threads : ~InSlot(t)
StopPending == \E t \in Threads : thread[t].pc = "queued" /\ IsStop(t)

Become(t, record) == thread' = [thread EXCEPT ![t] = record]

\* save() writes the caller's whole copy.  It keeps the timing it finds, but
\* the one that counts, submitted, is read of rejected rows only, and whoever
\* rejects an order has it.
Save(o, row) == journal' = [journal EXCEPT ![o] = row]

\* The rest of the handler is done with this order: it leaves the slot.
Finish(t, row) == Save(thread[t].order, row) /\ Become(t, Idle)

\* Mutant: the slot is granted to whoever asks.
ClaimUnordered(t) ==
  LET row == thread[t].row IN
  /\ thread[t].pc = "queued"
  /\ SlotFree
  /\ \/ /\ thread[t].order # 0 \/ Blocked(row)
        /\ Become(t, Idle)
        /\ UNCHANGED <<journal, venue>>
     \/ /\ thread[t].order = 0 /\ ~Blocked(row)
        /\ journal' = Append(journal, row)
        /\ venue' = Append(venue, Unsent)
        /\ Become(t, [thread[t] EXCEPT !.pc = "preflight", !.order = Len(journal) + 1])
  /\ UNCHANGED <<control, policy, closed, position, changes, crashes>>

\* The slot is granted; claim() decides and inserts in one transaction.
Claim(t) ==
  LET row == thread[t].row IN
  /\ thread[t].pc = "queued"
  /\ SlotFree
  /\ row.action = "buy" => ~StopPending
  /\ \/ /\ thread[t].order # 0 \/ Blocked(row)
        /\ Become(t, Idle)
        /\ UNCHANGED <<journal, venue>>
     \/ /\ thread[t].order = 0 /\ ~Blocked(row)
        /\ journal' = Append(journal, row)
        /\ venue' = Append(venue, Unsent)
        /\ Become(t, [thread[t] EXCEPT !.pc = "preflight", !.order = Len(journal) + 1])
  /\ UNCHANGED <<control, policy, closed, position, changes, crashes>>

Rejected(t) == [thread[t].row EXCEPT !.state = "rejected"]

MayFail ==
  Cardinality({o \in Rows : journal[o].state = "rejected" /\ venue[o].phase = "none"})
    < MaxFaults

\* One of the requests of the preflight fails or says no: market() finds the
\* contract closed, its identity unverified or the exchange silent.
PreflightFails(t) ==
  /\ thread[t].pc = "preflight"
  /\ MayFail
  /\ Finish(t, Rejected(t))
  /\ UNCHANGED <<control, policy, closed, venue, position, changes, crashes>>

ReadPosition(t) ==
  /\ thread[t].pc = "preflight"
  /\ Become(t, [thread[t] EXCEPT !.pc = "read", !.held = position[thread[t].row.market]])
  /\ UNCHANGED <<journal, control, policy, closed, venue, position, changes, crashes>>

Holding(net, side) ==
  LET signed == IF side = "yes" THEN net ELSE -net IN IF signed > 0 THEN signed ELSE 0

\* A stop sale is cut down to the holdings the exchange reports, if any.
Sized(row, net) ==
  IF row.bot /\ row.action = "sell" /\ Holding(net, row.side) \in 1..row.count
    THEN [row EXCEPT !.count = Holding(net, row.side)]
    ELSE row

\* Mutants: a sale is sent as it was asked for; so is a buy.
HoldingsAllowAnySale(row, net) ==
  row.action = "buy" => Holding(net, Opposite(row.side)) = 0 /\ (row.bot => net = 0)

HoldingsAllowAnyBuy(row, net) ==
  row.action = "sell" => Holding(net, row.side) >= row.count

HoldingsAllow(row, net) ==
  /\ row.action = "sell" => Holding(net, row.side) >= row.count
  /\ row.action = "buy" => Holding(net, Opposite(row.side)) = 0 /\ (row.bot => net = 0)

\* Mutants: the revision is not compared; a stop needs the automation on.
AuthorizedByState(t, row) ==
  row.bot =>
    /\ ~control[row.market].paused
    /\ ~closed[row.market]
    /\ IF row.action = "buy" THEN EntryAllowed(row.market) ELSE control[row.market].stop

AuthorizedWhileOn(t, row) ==
  row.bot =>
    /\ control[row.market].revision = thread[t].revision
    /\ ~closed[row.market]
    /\ EntryAllowed(row.market)

\* authorize(): the last check before the POST, for the bot's own orders.
Authorized(t, row) ==
  row.bot =>
    /\ control[row.market].revision = thread[t].revision
    /\ ~control[row.market].paused
    /\ ~closed[row.market]
    /\ IF row.action = "buy" THEN EntryAllowed(row.market) ELSE control[row.market].stop

Posted(order) == [order EXCEPT !.phase = "sent", !.posts = order.posts + 1]

\* From the holdings to the POST there is no await.
Post(t) ==
  LET row == [Sized(thread[t].row, thread[t].held) EXCEPT !.indexed = TRUE] IN
  /\ thread[t].pc = "read"
  /\ HoldingsAllow(row, thread[t].held)
  /\ Authorized(t, row)
  /\ Save(thread[t].order, row)
  /\ venue' = [venue EXCEPT ![thread[t].order] = Posted(@)]
  /\ Become(t, [thread[t] EXCEPT !.pc = "posting", !.row = [row EXCEPT !.submitted = TRUE]])
  /\ UNCHANGED <<control, policy, closed, position, changes, crashes>>

\* The holdings or the controls refuse it; or, for no cause in the model, the
\* tick grid or the entry's new price.  Past the holdings the exchange index
\* is already in the row.
PreflightRejects(t) ==
  LET row == Sized(thread[t].row, thread[t].held)
      allowed == HoldingsAllow(row, thread[t].held)
  IN
  /\ thread[t].pc = "read"
  /\ allowed /\ Authorized(t, row) => MayFail
  /\ Finish(t, [row EXCEPT !.state = "rejected", !.indexed = allowed])
  /\ UNCHANGED <<control, policy, closed, venue, position, changes, crashes>>

\* The answers to the POST.
Refused(t) ==
  /\ thread[t].pc = "posting"
  /\ venue[thread[t].order].phase = "refused"
  /\ Finish(t, Rejected(t))
  /\ UNCHANGED <<control, policy, closed, venue, position, changes, crashes>>

Acknowledged(t) ==
  LET row == [thread[t].row EXCEPT !.state = "accepted", !.acked = TRUE] IN
  /\ thread[t].pc = "posting"
  /\ venue[thread[t].order].phase \in {"open", "done"}
  /\ Save(thread[t].order, row)
  /\ Become(t, [thread[t] EXCEPT !.pc = "acked", !.row = row])
  /\ UNCHANGED <<control, policy, closed, venue, position, changes, crashes>>

\* Mutants: a timeout is taken for a refusal; the POST is tried again.
UnconfirmedIsRefused(t) ==
  /\ thread[t].pc \in {"posting", "acked", "fetched"}
  /\ Finish(t, Rejected(t))
  /\ UNCHANGED <<control, policy, closed, venue, position, changes, crashes>>

UnconfirmedIsRetried(t) ==
  /\ thread[t].pc = "posting"
  /\ Become(t, [thread[t] EXCEPT !.pc = "read"])
  /\ UNCHANGED <<journal, control, policy, closed, venue, position, changes, crashes>>

\* A timeout, a 5xx or an unverified acknowledgement, whatever the exchange
\* did with the order; or the reconciliation of an accepted one fails.
Unconfirmed(t) ==
  /\ thread[t].pc \in {"posting", "acked", "fetched"}
  /\ Finish(t, [thread[t].row EXCEPT !.state = "unknown"])
  /\ UNCHANGED <<control, policy, closed, venue, position, changes, crashes>>

-----------------------------------------------------------------------------
(* reconcile(): by the submission itself, by the worker's loop under the   *)
(* market's lock, or by a status check under no lock at all.               *)

\* Mutant: only an acknowledged order is looked for.
ReconcilableIfAcked(o) == Unresolved(o) /\ journal[o].acked

Reconcilable(o) == Unresolved(o) /\ journal[o].indexed

\* Each caller works on its own copy of the row.
Lookup(t, o) ==
  Become(t, [Idle EXCEPT !.pc = "lookup", !.order = o, !.row = journal[o]])

StartReconcile(o) ==
  /\ thread[Worker].pc = "idle" /\ Reconcilable(o) /\ MarketFree(journal[o].market)
  /\ Lookup(Worker, o)
  /\ UNCHANGED <<journal, control, policy, closed, venue, position, changes, crashes>>

CheckOrder(c, o) ==
  /\ thread[c].pc = "idle" /\ Reconcilable(o)
  /\ Lookup(c, o)
  /\ UNCHANGED <<journal, control, policy, closed, venue, position, changes, crashes>>

\* The exchange answers the GET.
Fetch(t) ==
  LET order == venue[thread[t].order] IN
  /\ thread[t].pc \in {"acked", "lookup"}
  /\ order.phase \in {"open", "done"}
  /\ Become(t, [thread[t] EXCEPT !.pc = IF @ = "acked" THEN "fetched" ELSE "found",
                                 !.seen = order])
  /\ UNCHANGED <<journal, control, policy, closed, venue, position, changes, crashes>>

\* Mutant: an order that is not listed is waited for.
LookupWaits(t) ==
  /\ thread[t].pc = "found"
  /\ Become(t, Idle)
  /\ UNCHANGED <<journal, control, policy, closed, venue, position, changes, crashes>>

\* The order is not listed, which proves nothing, or the GET fails: the row
\* stays as it is.
LookupFails(t) ==
  /\ thread[t].pc \in {"lookup", "found"}
  /\ Become(t, Idle)
  /\ UNCHANGED <<journal, control, policy, closed, venue, position, changes, crashes>>

\* The answer arrives, and the whole row is written from the caller's copy.
Reconcile(t) ==
  LET order == thread[t].seen IN
  /\ thread[t].pc \in {"fetched", "found"}
  /\ Finish(t, [thread[t].row EXCEPT
                  !.state = IF order.phase = "done" THEN "complete" ELSE "accepted",
                  !.filled = order.filled, !.acked = TRUE])
  /\ UNCHANGED <<control, policy, closed, venue, position, changes, crashes>>

-----------------------------------------------------------------------------
(* The exchange: buys are fill-or-kill, sells immediate-or-cancel and      *)
(* reduce-only.  A request may stay on the wire for ever.                  *)

Arrive(o) ==
  /\ venue[o].phase = "sent"
  /\ \E phase \in {"open", "refused"} : venue' = [venue EXCEPT ![o] = [@ EXCEPT !.phase = phase]]
  /\ UNCHANGED <<journal, control, policy, closed, thread, position, changes, crashes>>

Signed(side, n) == IF side = "yes" THEN n ELSE -n

Match(o) ==
  LET order == journal[o]
      net == position[order.market]
  IN
  /\ venue[o].phase = "open"
  /\ \E n \in IF order.action = "buy" THEN {0, order.count}
               ELSE {k \in 0..order.count : k <= Holding(net, order.side)} :
       /\ venue' = [venue EXCEPT ![o] = [@ EXCEPT !.phase = "done", !.filled = n]]
       /\ position' = [position EXCEPT ![order.market] =
                         IF order.action = "buy" THEN net + Signed(order.side, n)
                         ELSE net - Signed(order.side, n)]
  /\ UNCHANGED <<journal, control, policy, closed, thread, changes, crashes>>

-----------------------------------------------------------------------------
\* The process dies; the journal keeps what was committed, which for an
\* order about to be sent may or may not include its exchange index.
Crash ==
  /\ crashes < MaxCrashes
  /\ crashes' = crashes + 1
  /\ thread' = [t \in Threads |-> Idle]
  /\ \/ UNCHANGED journal
     \/ \E t \in Threads :
          /\ thread[t].pc = "read"
          /\ HoldingsAllow(Sized(thread[t].row, thread[t].held), thread[t].held)
          /\ Save(thread[t].order,
                  [Sized(thread[t].row, thread[t].held) EXCEPT !.indexed = TRUE])
  /\ UNCHANGED <<control, policy, closed, venue, position, changes>>

Submission(t) ==
  \/ Claim(t) \/ PreflightFails(t) \/ ReadPosition(t) \/ Post(t) \/ PreflightRejects(t)
  \/ Refused(t) \/ Acknowledged(t) \/ Unconfirmed(t)

Reconciliation(t) == Fetch(t) \/ LookupFails(t) \/ Reconcile(t)

Next ==
  \/ \E m \in Markets :
       \/ SyncMarkets(m) \/ Close(m) \/ DetectStop(m)
       \/ \E on \in BOOLEAN : Configure(m, on)
       \/ \E t \in Loopers : StepHeld(t, m)
       \/ \E side \in Sides : StepFlat(m, side)
  \/ PrepareShutdown
  \/ \E u \in Users : UserRequest(u)
  \/ \E t \in Threads : Submission(t) \/ Reconciliation(t)
  \/ \E o \in Rows :
       \/ StartReconcile(o) \/ Arrive(o) \/ Match(o)
       \/ \E c \in Checkers : CheckOrder(c, o)
  \/ Crash

Spec == Init /\ [][Next]_vars

(* What the process and its environment owe.  Every awaited request ends,  *)
(* by an answer or by its timeout, and the locks serve their waiters in    *)
(* turn.  The loop comes back to every unresolved row and the stop monitor *)
(* to every committed stop, and not every GET fails for ever.  The         *)
(* exchange finishes what it has accepted.  Operators and the wire owe     *)
(* nothing.                                                                *)
AwaitEnds(t) ==
  \/ PreflightFails(t) \/ ReadPosition(t) \/ Post(t) \/ PreflightRejects(t)
  \/ Refused(t) \/ Acknowledged(t) \/ Unconfirmed(t) \/ Reconciliation(t)

Fairness ==
  /\ \A t \in Threads : WF_vars(AwaitEnds(t))
  /\ WF_vars(\E t \in Threads : Claim(t))
  /\ SF_vars(Fetch(Worker)) /\ SF_vars(Reconcile(Worker))
  /\ \A o \in 1..MaxOrders :
       /\ SF_vars(o \in Rows /\ StartReconcile(o))
       /\ WF_vars(o \in Rows /\ Match(o))
  /\ \A m \in Markets : SF_vars(StepHeld(m, m))

FairSpec == Spec /\ Fairness

-----------------------------------------------------------------------------
(* Safety.                                                                 *)

Filled(S) == Cardinality(UNION {{o} \X (1..venue[o].filled) : o \in S})
AtExchange(o) == venue[o].phase \in {"sent", "open"}
InFlight(S) ==
  Cardinality(UNION {{o} \X (1..journal[o].count) : o \in {p \in S : AtExchange(p)}})

(* A resolved row tells the truth about the exchange, although timeouts,   *)
(* crashes and status checks that hold no lock all write whole rows: a     *)
(* complete order is done with exactly the recorded fills, and a rejected  *)
(* one never reached the book.                                             *)
ResolvedIsTrue ==
  \A o \in Rows :
    /\ journal[o].state = "complete" =>
         venue[o].phase = "done" /\ venue[o].filled = journal[o].filled
    /\ journal[o].state = "rejected" => venue[o].phase \in {"none", "refused"}

(* No order id is ever sent twice: not after a lost acknowledgement, not   *)
(* after a restart, not when the operator repeats a request.               *)
SentAtMostOnce == \A o \in Rows : venue[o].posts <= 1

(* What the bot has sold, plus what its sales in flight could still sell,  *)
(* never exceeds what it bought: an uncertain or partly filled exit is     *)
(* replaced by its remainder only.                                         *)
BotSellsOnlyItsOwn ==
  \A m \in Markets :
    Filled(BotRows(m, "sell")) + InFlight(BotRows(m, "sell")) <= Filled(BotRows(m, "buy"))

(* At most one bot entry fills per market, and its sent attempts stay      *)
(* within the allowance; only a rejection known to precede the POST gives  *)
(* one back.                                                               *)
OneEntryPerMarket ==
  \A m \in Markets :
    /\ Cardinality({o \in BotRows(m, "buy") : venue[o].filled > 0}) <= 1
    /\ Cardinality({o \in BotRows(m, "buy") : venue[o].posts > 0}) <= Retries + 1

(* The sales on the wire, manual and automatic together, are covered by    *)
(* the position they were sized from, and that position by the bot's       *)
(* and the user's trades alone: reduce_only never has to cut one down.     *)
SalesCovered ==
  \A m \in Markets, side \in Sides :
    InFlight({o \in Rows : journal[o].market = m /\ journal[o].action = "sell"
                            /\ journal[o].side = side})
      <= Holding(position[m], side)

(* An automatic buy fills only onto a flat position, and no buy ever nets  *)
(* out the opposite side, although the holdings were read before the POST. *)
BuysOntoFlat ==
  [][\A o \in Rows :
       venue'[o].filled > venue[o].filled /\ journal[o].action = "buy" =>
         IF journal[o].bot THEN position[journal[o].market] = 0
         ELSE Holding(position[journal[o].market], Opposite(journal[o].side)) = 0]_vars

Sends(o) == venue[o].phase = "none" /\ venue'[o].phase = "sent"

(* "Unknown orders block buys globally": when a buy goes out, no earlier   *)
(* order is still on its way to the exchange or open there, and no sale    *)
(* goes out while one of its own market's orders is.                       *)
NothingUncertainBehindABuy ==
  [][\A o \in Rows : Sends(o) =>
       \A p \in Rows \ {o} : AtExchange(p) =>
         /\ journal[o].action = "sell"
         /\ journal[o].bot
         /\ journal[p].market # journal[o].market]_vars

(* No automatic order goes out on a decision that an operator has since    *)
(* overtaken, even if the controls look the same again.                    *)
NoOvertakenOrder ==
  [][\A t \in Threads :
       thread[t].pc = "read" /\ thread'[t].pc = "posting" /\ thread[t].row.bot
         => ~thread[t].changed /\ ~control[thread[t].row.market].paused]_vars

(* "A committed stop survives ...": no operator change, reconciliation or  *)
(* restart clears it, and the bot never buys into that market again.       *)
StopIsFinal ==
  [][\A m \in Markets : control[m].stop =>
       /\ control'[m].stop
       /\ \A o \in BotRows(m, "buy") : ~Sends(o)]_vars

(* docs/LIVE_AUTOMATION.md: confirming a manual ticket "pauses automation  *)
(* before preflight".  It does not in a market that has no control yet:    *)
(* takeover() finds nothing to pause, and sync_markets() then creates the  *)
(* control enabled, while the ticket waits for the slot.                   *)
TicketPausesAutomation ==
  [][\A u \in Users :
       thread[u].pc = "queued" /\ thread'[u].pc = "preflight" =>
         LET m == thread[u].row.market IN
         ~(Exists(m) /\ policy /\ control[m].enabled /\ ~control[m].paused)]_vars

-----------------------------------------------------------------------------
(* Liveness.                                                               *)

(* Whatever went wrong while it was sent, an order the exchange has        *)
(* finished is eventually complete in the journal.                         *)
FinishedOrdersResolve ==
  \A o \in 1..MaxOrders :
    (o \in Rows /\ venue[o].phase = "done") ~>
      (o \in Rows /\ journal[o].state = "complete")

(* A committed stop of a held position reaches the exchange, although new  *)
(* buys are switched off and preflights fail, unless a person pauses the   *)
(* market or sells the position, the market closes, or an order of it left *)
(* no trace at the exchange.                                               *)
Stopped(m) == control[m].stop /\ Held(m) > 0
StopReachesExchange ==
  \A m \in Markets :
    Stopped(m) ~>
      \/ ~Stopped(m) \/ control[m].paused \/ closed[m] \/ position[m] = 0
      \/ \E o \in BotRows(m, "sell") : venue[o].posts > 0
      \/ \E o \in Rows : /\ journal[o].market = m /\ Unresolved(o)
                        /\ venue[o].phase \in {"sent", "refused"}

(* No coroutine is stuck between the market locks, the submission slot and *)
(* the network.                                                            *)
EveryTurnEnds == \A t \in Threads : thread[t].pc # "idle" ~> thread[t].pc = "idle"

-----------------------------------------------------------------------------
(* The slot as submission_slot promises it.                                *)
InterestOf(t) ==
  IF thread[t].pc # "queued" /\ ~InSlot(t) THEN "none"
  ELSE IF IsStop(t) THEN "stop"
  ELSE IF thread[t].row.action = "buy" THEN "buy"
  ELSE "other"

Slot ==
  INSTANCE PriorityLock WITH
    Requests <- Threads,
    want <- [t \in Threads |-> InterestOf(t)],
    holder <- IF SlotFree THEN Nobody ELSE CHOOSE t \in Threads : InSlot(t)

(* The order path uses the slot as the priority lock allows, restarts      *)
(* included.                                                               *)
UsesPriorityLock == Slot!SlotSpec
=============================================================================
