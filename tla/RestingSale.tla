------------------------------ MODULE RestingSale ------------------------------
(***************************************************************************)
(* The resting take-profit of a bot position: the offer that lies in the   *)
(* book at 99 cents, its cancellation, and the stop, the profit and the    *)
(* operator's own sale that may only follow it (manage_resting,            *)
(* _step_market and the stop tasks of live_automation.py, cancel_resting,  *)
(* reconcile, save and _submit of manual_trading.py).  One market; the     *)
(* account bought Size contracts in it, and what follows only sells.       *)
(*                                                                         *)
(* A step is the code between two awaits.  The loop and the stop task act  *)
(* in the market's lock and are one thread here: what a stop task does,    *)
(* the loop may do.  An offer fills one contract at a time, is not         *)
(* reduce-only and expires at the close; every other sale is               *)
(* immediate-or-cancel and reduce-only.                                    *)
(***************************************************************************)
EXTENDS Integers, Sequences, FiniteSets

CONSTANTS
  Automation,        \* LiveAutomation's loop and the market's stop task
  Connections,       \* each serves a manual order or a status check at a time
  Size,              \* contracts bought
  MaxOrders,         \* bound: rows of the journal
  MaxTrouble         \* bound: failed requests, operators' changes and restarts together

Threads == Connections \cup {Automation}

ASSUME RestingAssumption ==
  /\ Automation \notin Connections
  /\ Size \in Nat \ {0}
  /\ MaxOrders \in Nat /\ MaxTrouble \in Nat

UNRESOLVED == {"submitting", "accepted", "unknown"}
Exits == {"none", "profit", "stop"}
Bids == {"none", "stop", "low", "mid", "high"}  \* no fresh book; at the stop, below
                                                \* 70 cents, up to 98, at the take-profit

VARIABLES
  journal,    \* manual_orders, in order of insertion
  control,    \* the market's row of live_controls
  profit,     \* config.take_profit is set
  prepared,   \* prepare_shutdown succeeded, and nobody enabled the asset since (history)
  closed,     \* the market's close time has passed
  thread,     \* what each coroutine is doing
  venue,      \* the exchange's side of each order
  position,   \* contracts held at the exchange
  trouble     \* failed requests, changes and restarts so far

operator == <<profit, prepared>>
vars == <<journal, control, closed, thread, venue, position, trouble, operator>>

\* A row of the journal, and a coroutine's own copy of it.
Row ==
  [kind : {"offer", "profit", "stop", "manual"}, state : UNRESOLVED \cup {"complete", "rejected"},
   count : Nat, filled : Nat,
   indexed : BOOLEAN, acked : BOOLEAN,   \* exchange_index and order_id are known
   cancelling : BOOLEAN]                 \* cancel_requested_at is set

NewRow(kind, count) ==
  [kind |-> kind, state |-> "submitting", count |-> count, filled |-> 0,
   indexed |-> FALSE, acked |-> FALSE, cancelling |-> FALSE]

VenueOrder ==
  [phase : {"none", "sent", "open", "done", "refused"}, filled : Nat,
   deleting : BOOLEAN]                   \* a DELETE is on the wire
Unsent == [phase |-> "none", filled |-> 0, deleting |-> FALSE]

\* revision and held: what an order is decided on; seen: the answer to a GET.

SlotPlaces ==
  {"locating", "located", "deleting", "verifying", "verified",
   "preflight", "read", "posting", "acked", "fetched"}
Places ==
  {"idle", "cancelqueued", "resume", "sizing", "queued", "lookup", "found"} \cup SlotPlaces

Idle == [pc |-> "idle", order |-> 0, row |-> NewRow("manual", 0), revision |-> 0,
         held |-> 0, seen |-> Unsent]
Thread ==
  [pc : Places, order : Nat, row : Row, revision : Nat, held : Int, seen : VenueOrder]

TypeOK ==
  /\ journal \in Seq(Row) /\ venue \in Seq(VenueOrder) /\ Len(venue) = Len(journal)
  /\ control \in [revision : Nat, paused : BOOLEAN, exit : Exits, disabled : BOOLEAN]
  /\ {profit, prepared, closed} \subseteq BOOLEAN
  /\ thread \in [Threads -> Thread]
  /\ position \in Int
  /\ trouble \in Nat

Init ==
  /\ journal = <<>> /\ venue = <<>>
  /\ control = [revision |-> 1, paused |-> FALSE, exit |-> "none", disabled |-> FALSE]
  /\ profit \in BOOLEAN /\ prepared = FALSE /\ closed = FALSE
  /\ thread = [t \in Threads |-> Idle]
  /\ position = Size
  /\ trouble = 0

-----------------------------------------------------------------------------
(* The journal                                                             *)

Rows == 1..Len(journal)
Unresolved(o) == journal[o].state \in UNRESOLVED
Offers == {o \in Rows : journal[o].kind = "offer"}
Filled(record, S) == Cardinality(UNION {{o} \X (1..record[o].filled) : o \in S})
Held == Size - Filled(journal, {o \in Rows : journal[o].kind # "manual"})
AnyUnresolved == \E o \in Rows : Unresolved(o)

\* save(): an offer once complete stays so, and stays marked as cancelled.
Saved(o, row) ==
  IF journal[o].kind # "offer" THEN row
  ELSE IF journal[o].state = "complete" /\ row.state \in UNRESOLVED THEN journal[o]
  ELSE [row EXCEPT !.cancelling = @ \/ journal[o].cancelling]

\* It raises when the fills of an offer would shrink.
Regresses(o, row) == journal[o].kind = "offer" /\ Saved(o, row).filled < journal[o].filled

Save(o, row) == journal' = [journal EXCEPT ![o] = Saved(o, row)]
Become(t, record) == thread' = [thread EXCEPT ![t] = record]

\* The handler saves the row and goes on, or the exception ends it.
SaveAnd(t, row, next) ==
  LET o == thread[t].order IN
  \/ /\ ~Regresses(o, row)
     /\ Save(o, row) /\ Become(t, next)
  \/ /\ Regresses(o, row)
     /\ Become(t, Idle) /\ UNCHANGED journal

InSlot(t) == thread[t].pc \in SlotPlaces
SlotFree == \A t \in Threads : ~InSlot(t)                  \* order_lock
MarketFree == thread[Automation].pc = "idle"               \* market_lock
Trouble == trouble < MaxTrouble /\ trouble' = trouble + 1
NoTrouble == UNCHANGED trouble

-----------------------------------------------------------------------------
(* Deciding: manage_resting and the held half of _step_market              *)

\* A take-profit the configuration no longer has is dropped first.
Exit0 == IF ~profit /\ control.exit = "profit" THEN "none" ELSE control.exit

\* An offer is unresolved: what the bid commits, and whether that cancels.
Managed(bid) ==
  [control EXCEPT
     !.disabled = @ \/ bid \in {"stop", "low"},
     !.exit = IF ~control.paused /\ bid = "stop" THEN "stop"
              ELSE IF ~control.paused /\ bid = "high" /\ profit /\ Exit0 = "none" THEN "profit"
              ELSE Exit0]

Cancels(o, managed) ==
  ~profit \/ managed.paused \/ managed.disabled \/ managed.exit # "none" \/ journal[o].cancelling

Manage(bid) ==
  /\ MarketFree /\ ~closed
  /\ \E o \in Offers :
       /\ Unresolved(o) /\ Cancels(o, Managed(bid))
       /\ control' = Managed(bid)
       /\ Become(Automation, [Idle EXCEPT !.pc = "cancelqueued", !.order = o])
  /\ UNCHANGED <<journal, closed, venue, position, trouble, operator>>

\* detect_stops commits the stop at once, whoever holds the market's lock.
DetectStop ==
  /\ ~control.paused /\ ~closed /\ Held > 0 /\ control.exit # "stop"
  /\ control' = [control EXCEPT !.exit = "stop"]
  /\ UNCHANGED <<journal, closed, thread, venue, position, trouble, operator>>

\* The bound on the journal: no sale is begun that would not find a row.
Room ==
  Len(journal) + Cardinality({t \in Threads : thread[t].pc \in {"sizing", "queued"}}) < MaxOrders

Decide(pc, kind) ==
  Become(Automation, [Idle EXCEPT !.pc = pc, !.row = NewRow(kind, Held), !.revision = control.revision])

\* Nothing is unresolved: commit an exit, or make the only offer there is.
Proceed(bid) ==
  LET exit == IF bid = "stop" THEN "stop"
              ELSE IF Exit0 = "none" /\ profit /\ bid = "high" THEN "profit" ELSE Exit0 IN
  /\ thread[Automation].pc = "resume" \/ MarketFree
  /\ ~control.paused /\ ~closed /\ ~AnyUnresolved /\ Held > 0
  /\ bid = "none" => exit # "none"
  /\ \/ exit = "stop" /\ Room /\ Decide("queued", "stop")
     \/ exit = "profit" /\ Room /\ Decide("sizing", "profit")
     \/ /\ exit = "none" /\ profit
        /\ \/ bid = "low" /\ Become(Automation, Idle)
           \/ bid # "low" /\ ~control.disabled /\ Offers = {} /\ Room /\ Decide("sizing", "offer")
  /\ control' = [control EXCEPT !.exit = exit, !.disabled = @ \/ (exit = "none" /\ bid = "low")]
  /\ UNCHANGED <<journal, closed, venue, position, trouble, operator>>

\* Offers and profits are sized by the holdings, stops by the journal.
Sized(t) ==
  /\ thread[t].pc = "sizing"
  /\ LET n == IF thread[t].row.count < position THEN thread[t].row.count ELSE position IN
     Become(t, IF n > 0 THEN [thread[t] EXCEPT !.pc = "queued", !.row.count = n] ELSE Idle)
  /\ UNCHANGED <<journal, control, closed, venue, position, trouble, operator>>

\* Every other return, and every exception on the way.
Leave(t) ==
  /\ \/ thread[t].pc = "resume" /\ NoTrouble
     \/ thread[t].pc \in {"sizing", "lookup", "locating", "verifying"} /\ Trouble
  /\ Become(t, Idle)
  /\ UNCHANGED <<journal, control, closed, venue, position, operator>>

-----------------------------------------------------------------------------
(* cancel_resting, in the submission slot                                  *)

Cancelling(o) == [journal[o] EXCEPT !.cancelling = TRUE]

\* Mutant: a cancellation that was once requested is left to its requester.
CancelOnce(t) ==
  LET o == thread[t].order IN
  /\ thread[t].pc = "cancelqueued" /\ SlotFree
  /\ \/ /\ ~Unresolved(o) \/ journal[o].cancelling
        /\ Become(t, [Idle EXCEPT !.pc = "resume"]) /\ UNCHANGED <<journal, venue>>
     \/ /\ Unresolved(o) /\ ~journal[o].cancelling
        /\ Save(o, Cancelling(o))
        /\ \/ /\ journal[o].acked
              /\ Become(t, [thread[t] EXCEPT !.pc = "deleting", !.row = Cancelling(o)])
              /\ venue' = [venue EXCEPT ![o].deleting = TRUE]
           \/ /\ ~journal[o].acked
              /\ Become(t, IF journal[o].indexed
                             THEN [thread[t] EXCEPT !.pc = "locating"] ELSE Idle)
              /\ UNCHANGED venue
  /\ UNCHANGED <<control, closed, position, trouble, operator>>

CancelBegins(t) ==
  LET o == thread[t].order IN
  /\ thread[t].pc = "cancelqueued" /\ SlotFree
  /\ \/ /\ ~Unresolved(o)
        /\ Become(t, [Idle EXCEPT !.pc = "resume"]) /\ UNCHANGED <<journal, venue>>
     \/ /\ Unresolved(o) /\ Save(o, Cancelling(o))
        /\ \/ /\ journal[o].acked
              /\ Become(t, [thread[t] EXCEPT !.pc = "deleting", !.row = Cancelling(o)])
              /\ venue' = [venue EXCEPT ![o].deleting = TRUE]
           \/ /\ ~journal[o].acked
              /\ Become(t, IF journal[o].indexed
                             THEN [thread[t] EXCEPT !.pc = "locating"] ELSE Idle)
              /\ UNCHANGED venue
  /\ UNCHANGED <<control, closed, position, trouble, operator>>

\* Mutant: any answer to the DELETE counts as the cancellation.
AnsweredIsDone(t) ==
  /\ thread[t].pc = "deleting"
  /\ \/ ~venue[thread[t].order].deleting /\ NoTrouble
     \/ venue[thread[t].order].deleting /\ Trouble
  /\ SaveAnd(t, [thread[t].row EXCEPT !.state = "complete"], [Idle EXCEPT !.pc = "resume"])
  /\ UNCHANGED <<control, closed, venue, position, operator>>

\* An answer, an error or a timeout, all the same: only the order's own
\* state at the exchange decides.
DeleteAnswered(t) ==
  /\ thread[t].pc = "deleting"
  /\ \/ ~venue[thread[t].order].deleting /\ NoTrouble
     \/ venue[thread[t].order].deleting /\ Trouble
  /\ SaveAnd(t, thread[t].row, [Idle EXCEPT !.pc = "verifying", !.order = thread[t].order])
  /\ UNCHANGED <<control, closed, venue, position, operator>>

-----------------------------------------------------------------------------
(* reconcile: by the loop in the market's lock, by a check in none, by     *)
(* cancel_resting and _submit in the slot                                  *)

StartReconcile(o) ==
  /\ MarketFree /\ Unresolved(o)
  /\ IF journal[o].kind = "offer" /\ closed
       THEN Become(Automation, [Idle EXCEPT !.pc = "cancelqueued", !.order = o])
       ELSE /\ journal[o].indexed
            /\ Become(Automation, [Idle EXCEPT !.pc = "lookup", !.order = o])
  /\ UNCHANGED <<journal, control, closed, venue, position, trouble, operator>>

StartCheck(t, o) ==
  /\ thread[t].pc = "idle" /\ Unresolved(o) /\ journal[o].indexed
  /\ Become(t, [Idle EXCEPT !.pc = "lookup", !.order = o])
  /\ UNCHANGED <<journal, control, closed, venue, position, trouble, operator>>

\* The exchange answers: the order as it is, or that it has none.
Answer(t) ==
  LET order == venue[thread[t].order] IN
  /\ thread[t].pc \in {"lookup", "locating", "verifying", "acked"}
  /\ Become(t,
       IF order.phase \in {"open", "done"}
         THEN [thread[t] EXCEPT !.seen = [order EXCEPT !.deleting = FALSE],
                                !.pc = CASE @ = "lookup" -> "found" [] @ = "locating" -> "located"
                                         [] @ = "verifying" -> "verified" [] @ = "acked" -> "fetched"]
         ELSE Idle)
  /\ UNCHANGED <<journal, control, closed, venue, position, trouble, operator>>

\* Mutant: the status is taken over, the fills up to the cancellation are not.
StatusOnly(t) ==
  [journal[thread[t].order] EXCEPT !.acked = TRUE,
                                   !.state = IF thread[t].seen.phase = "done" THEN "complete" ELSE "accepted"]

\* The caller's copy of the row, the fields that change meanwhile replaced.
Reconciled(t) ==
  [journal[thread[t].order] EXCEPT !.acked = TRUE, !.filled = thread[t].seen.filled,
                                   !.state = IF thread[t].seen.phase = "done" THEN "complete" ELSE "accepted"]

\* The answer is saved; after it a cancellation goes on or ends.
Reconcile(t) ==
  LET o == thread[t].order
      row == Saved(o, Reconciled(t)) IN
  /\ \/ thread[t].pc \in {"found", "fetched"} /\ SaveAnd(t, Reconciled(t), Idle) /\ UNCHANGED venue
     \/ /\ thread[t].pc \in {"located", "verified"}
        /\ row.state \notin UNRESOLVED \/ Regresses(o, Reconciled(t))
        /\ SaveAnd(t, Reconciled(t), [Idle EXCEPT !.pc = "resume"]) /\ UNCHANGED venue
     \/ /\ thread[t].pc = "verified" /\ row.state \in UNRESOLVED
        /\ SaveAnd(t, Reconciled(t), Idle) /\ UNCHANGED venue
     \/ /\ thread[t].pc = "located" /\ row.state \in UNRESOLVED /\ ~Regresses(o, Reconciled(t))
        /\ SaveAnd(t, Reconciled(t), [Idle EXCEPT !.pc = "deleting", !.order = o, !.row = row])
        /\ venue' = [venue EXCEPT ![o].deleting = TRUE]
  /\ UNCHANGED <<control, closed, position, trouble, operator>>

-----------------------------------------------------------------------------
(* _submit                                                                 *)

\* A person takes the market over, then asks for the slot.
Paused == control' = [control EXCEPT !.paused = TRUE, !.revision = @ + 1]

ManualSale(t, n) ==
  /\ thread[t].pc = "idle" /\ Trouble /\ Room
  /\ Paused
  /\ Become(t, [Idle EXCEPT !.pc = "queued", !.row = NewRow("manual", n)])
  /\ UNCHANGED <<journal, closed, venue, position, profit, prepared>>

Claim(t) ==
  /\ thread[t].pc = "queued" /\ SlotFree
  /\ IF AnyUnresolved
       THEN Become(t, Idle) /\ UNCHANGED <<journal, venue>>
       ELSE /\ journal' = Append(journal, thread[t].row)
            /\ venue' = Append(venue, Unsent)
            /\ Become(t, [thread[t] EXCEPT !.pc = "preflight", !.order = Len(journal) + 1])
  /\ UNCHANGED <<control, closed, position, trouble, operator>>

ReadHoldings(t) ==
  /\ thread[t].pc = "preflight"
  /\ Become(t, [thread[t] EXCEPT !.pc = "read", !.held = position])
  /\ UNCHANGED <<journal, control, closed, venue, position, trouble, operator>>

\* A stop is cut to the holdings; any other sale must fit them.
Cut(t) ==
  LET row == thread[t].row IN
  IF row.kind = "stop" /\ thread[t].held < row.count
    THEN [row EXCEPT !.count = thread[t].held] ELSE row
Fits(t) == Cut(t).count > 0 /\ Cut(t).count <= thread[t].held

\* authorize(), between the last save and the POST.  The bid of an offer is
\* read here as well, so that an offer may always be refused.
Authorized(t) ==
  LET kind == thread[t].row.kind IN
  kind # "manual" =>
    /\ control.revision = thread[t].revision /\ ~control.paused /\ ~closed
    /\ IF kind = "offer" THEN control.exit = "none" /\ ~control.disabled ELSE control.exit = kind

Indexed(t) == [Cut(t) EXCEPT !.indexed = TRUE]

Post(t) ==
  LET o == thread[t].order IN
  /\ thread[t].pc = "read" /\ Fits(t) /\ Authorized(t)
  /\ Save(o, Indexed(t))
  /\ venue' = [venue EXCEPT ![o].phase = "sent"]
  /\ Become(t, [Idle EXCEPT !.pc = "posting", !.order = o, !.row = Indexed(t)])
  /\ UNCHANGED <<control, closed, position, trouble, operator>>

\* A read that fails, a count that does not fit, an order not authorized.
\* Whether the index was saved before does not matter to a rejected row.
PreflightRejects(t) ==
  /\ \/ thread[t].pc = "preflight" /\ Trouble
     \/ /\ thread[t].pc = "read" /\ NoTrouble
        /\ ~Fits(t) \/ ~Authorized(t) \/ thread[t].row.kind = "offer"
  /\ SaveAnd(t, [Cut(t) EXCEPT !.state = "rejected"], Idle)
  /\ UNCHANGED <<control, closed, venue, position, operator>>

Acknowledged(t) ==
  /\ thread[t].pc = "posting" /\ venue[thread[t].order].phase \in {"open", "done"}
  /\ LET row == [thread[t].row EXCEPT !.state = "accepted", !.acked = TRUE] IN
     SaveAnd(t, row, [thread[t] EXCEPT !.pc = "acked", !.row = row])
  /\ UNCHANGED <<control, closed, venue, position, trouble, operator>>

Refused(t) ==
  /\ thread[t].pc = "posting" /\ venue[thread[t].order].phase = "refused"
  /\ SaveAnd(t, [thread[t].row EXCEPT !.state = "rejected"], Idle)
  /\ UNCHANGED <<control, closed, venue, position, trouble, operator>>

\* The POST, or the GET after it, times out: the outcome is unknown.
Unconfirmed(t) ==
  /\ \/ thread[t].pc = "posting" /\ venue[thread[t].order].phase = "sent" /\ NoTrouble
     \/ thread[t].pc \in {"posting", "acked"} /\ Trouble
  /\ SaveAnd(t, [thread[t].row EXCEPT !.state = "unknown"], Idle)
  /\ UNCHANGED <<control, closed, venue, position, operator>>

-----------------------------------------------------------------------------
(* The exchange                                                            *)

Arrive(o) ==
  /\ venue[o].phase = "sent"
  /\ \/ venue' = [venue EXCEPT ![o].phase = "refused"] /\ UNCHANGED position
     \/ /\ journal[o].kind = "offer" /\ ~closed
        /\ venue' = [venue EXCEPT ![o].phase = "open"] /\ UNCHANGED position
     \/ /\ journal[o].kind # "offer"
        /\ \E n \in 0..journal[o].count :
             /\ n <= position
             /\ venue' = [venue EXCEPT ![o].phase = "done", ![o].filled = n]
             /\ position' = position - n
  /\ UNCHANGED <<journal, control, closed, thread, trouble, operator>>

Match(o) ==
  /\ venue[o].phase = "open"
  /\ position' = position - 1
  /\ venue' = [venue EXCEPT ![o].filled = @ + 1,
                            ![o].phase = IF venue[o].filled + 1 = journal[o].count THEN "done" ELSE @]
  /\ UNCHANGED <<journal, control, closed, thread, trouble, operator>>

\* A DELETE is carried out, or lost.
CancelArrives(o) ==
  /\ venue[o].deleting
  /\ venue' = [venue EXCEPT ![o].deleting = FALSE,
                            ![o].phase = IF @ = "open" THEN "done" ELSE @]
  /\ UNCHANGED <<journal, control, closed, thread, position, trouble, operator>>

CancelLost(o) ==
  /\ venue[o].deleting /\ Trouble
  /\ venue' = [venue EXCEPT ![o].deleting = FALSE]
  /\ UNCHANGED <<journal, control, closed, thread, position, operator>>

Expire(o) ==
  /\ closed /\ venue[o].phase = "open"
  /\ venue' = [venue EXCEPT ![o].phase = "done"]
  /\ UNCHANGED <<journal, control, closed, thread, position, trouble, operator>>

Close ==
  /\ ~closed /\ closed' = TRUE
  /\ UNCHANGED <<journal, control, thread, venue, position, trouble, operator>>

-----------------------------------------------------------------------------
(* Operators and restarts                                                  *)

\* configure keeps a committed exit and the mark of the low bid.
Configure(on) ==
  /\ Trouble /\ ~closed
  /\ control' = [control EXCEPT !.revision = @ + 1, !.paused = @ /\ ~on]
  /\ prepared' = (prepared /\ ~on)
  /\ UNCHANGED <<journal, closed, thread, venue, position, profit>>

TakeOver ==
  /\ Trouble /\ Paused
  /\ UNCHANGED <<journal, closed, thread, venue, position, profit, prepared>>

\* Mutant: the offers are not looked at.
PrepareOverOffers ==
  /\ Trouble /\ SlotFree
  /\ ~control.paused /\ ~closed => Held <= 0 /\ ~AnyUnresolved
  /\ control' = [control EXCEPT !.revision = @ + 1]
  /\ prepared' = TRUE
  /\ UNCHANGED <<journal, closed, thread, venue, position, profit>>

PrepareShutdown ==
  /\ Trouble /\ SlotFree
  /\ \A o \in Offers : ~Unresolved(o)
  /\ ~control.paused /\ ~closed =>
       Held <= 0 /\ \A o \in Rows : journal[o].kind = "manual" \/ ~Unresolved(o)
  /\ control' = [control EXCEPT !.revision = @ + 1]
  /\ prepared' = TRUE
  /\ UNCHANGED <<journal, closed, thread, venue, position, profit>>

\* The process dies anywhere, also between the save of an order's index and
\* its POST, and returns with the configuration it finds.
Crash ==
  /\ Trouble
  /\ \E S \in SUBSET {t \in Threads : thread[t].pc = "read"} :
       journal' = [o \in Rows |-> IF \E t \in S : thread[t].order = o
                                    THEN [journal[o] EXCEPT !.indexed = TRUE] ELSE journal[o]]
  /\ thread' = [t \in Threads |-> Idle]
  /\ profit' \in BOOLEAN
  /\ UNCHANGED <<control, closed, venue, position, prepared>>

AwaitEnds(t) ==
  \/ Sized(t) \/ Leave(t) \/ DeleteAnswered(t) \/ Answer(t) \/ Reconcile(t)
  \/ ReadHoldings(t) \/ Post(t) \/ PreflightRejects(t)
  \/ Acknowledged(t) \/ Refused(t) \/ Unconfirmed(t)
GetsSlot(t) == Claim(t) \/ CancelBegins(t)

Next ==
  \/ \E bid \in Bids : Manage(bid) \/ Proceed(bid)
  \/ DetectStop
  \/ \E t \in Threads : AwaitEnds(t) \/ GetsSlot(t)
  \/ \E o \in Rows : StartReconcile(o)
  \/ \E t \in Connections, o \in Rows : StartCheck(t, o)
  \/ \E t \in Connections, n \in 1..Size : ManualSale(t, n)
  \/ \E o \in Rows : Arrive(o) \/ Match(o) \/ CancelArrives(o) \/ CancelLost(o) \/ Expire(o)
  \/ Close \/ TakeOver \/ PrepareShutdown \/ Crash
  \/ \E on \in BOOLEAN : Configure(on)

Spec == Init /\ [][Next]_vars

(* Awaited requests end, the slot is granted again and again, a DELETE      *)
(* arrives or is lost, the close expires the offer.  The loop comes back   *)
(* to the market and to the unresolved offer; there is at most one.        *)
Fairness ==
  /\ \A t \in Threads : WF_vars(AwaitEnds(t))
  /\ WF_vars(\E t \in Threads : GetsSlot(t))
  /\ SF_vars(Manage("none"))
  /\ SF_vars(\E o \in Offers : StartReconcile(o))
  /\ WF_vars(\E o \in Offers : CancelArrives(o) \/ Expire(o))

FairSpec == Spec /\ Fairness

-----------------------------------------------------------------------------
(* Properties                                                              *)

AtExchange(o) == venue[o].phase \in {"sent", "open"}

(* What the account's sales could still sell is held: the offer is not     *)
(* reduce-only, so a sale beside it, or one sized before its last fill,    *)
(* would turn the position over (manual_trading.py:597-630, 288-302).      *)
OffersCovered ==
  Filled([o \in Rows |-> [filled |-> journal[o].count - venue[o].filled]],
         {o \in Rows : AtExchange(o)}) <= position

(* A resolved row is final and has every fill, those between the DELETE    *)
(* and its execution included, whatever answers of loop, check and         *)
(* cancellation crossed each other: the replacement sells the exact        *)
(* remainder (save, manual_trading.py:243-258; reconcile, 557-590).        *)
RemainderIsTrue ==
  \A o \in Rows : ~Unresolved(o) => ~AtExchange(o) /\ venue[o].filled = journal[o].filled

(* "safe shutdown waits for cancellation confirmation"                     *)
(* (docs/LIVE_AUTOMATION.md:97): once it is granted no offer lies at the   *)
(* exchange until somebody enables the automation again.                   *)
NoOfferAfterShutdown == prepared => \A o \in Offers : ~AtExchange(o)

(* An offer that has to give way to a stop, a profit, an operator or a low *)
(* bid does not block the market for ever: lost and delayed DELETEs,       *)
(* crashes and failed GETs only delay its resolution.                      *)
MustGiveWay ==
  \E o \in Offers :
    /\ Unresolved(o) /\ venue[o].phase \in {"open", "done"}
    /\ Cancels(o, control)

OfferGivesWay == MustGiveWay ~> ~MustGiveWay
=============================================================================
