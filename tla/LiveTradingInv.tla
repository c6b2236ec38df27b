---------------------------- MODULE LiveTradingInv ----------------------------
(***************************************************************************)
(* Why the safety properties of LiveTrading hold: its inductive invariant, *)
(* in named parts, each with the lock, the guard or the order of writes in *)
(* the code that keeps it.  LiveTrading_proofs proves that it is one.      *)
(***************************************************************************)
EXTENDS LiveTrading

Pending == {"queued", "preflight", "read"}
BeforePost == {"preflight", "read"}

\* The order may trade, or has traded.
Live(o) == venue[o].phase \in {"sent", "open"} \/ venue[o].filled > 0

\* What a row says once and for all: every write of it keeps this.
SameOrder(r, s) ==
  r.market = s.market /\ r.action = s.action /\ r.side = s.side /\ r.bot = s.bot

(* order_lock: one submission at a time is between its claim and its end.  *)
SlotExclusive == \A t, u \in Threads : InSlot(t) /\ InSlot(u) => t = u

(* market_lock: one of the loop and the stop tasks acts in a market.       *)
MarketExclusive ==
  \A t, u \in Loopers :
    /\ thread[t].pc # "idle" /\ thread[u].pc # "idle"
    /\ thread[t].row.market = thread[u].row.market
    => t = u

(* A coroutine's copy of a row is a copy of the row it will write.         *)
OwnCopy ==
  \A t \in Threads :
    /\ thread[t].pc # "idle" => thread[t].row \in Row
    /\ thread[t].pc = "queued" /\ (thread[t].order = 0 \/ thread[t].row.bot) =>
         /\ thread[t].order = 0
         /\ thread[t].row.state = "submitting" /\ thread[t].row.filled = 0
    /\ thread[t].pc \notin {"idle", "queued"} =>
         /\ thread[t].order \in Rows
         /\ SameOrder(thread[t].row, journal[thread[t].order])
    /\ thread[t].pc \in Pending /\ thread[t].row.bot => t \in Loopers

(* Until the POST the order is the submission's alone.                     *)
Unposted ==
  \A t \in Threads : thread[t].pc \in BeforePost =>
    /\ thread[t].row.state = "submitting"
    /\ journal[thread[t].order].state = "submitting"
    /\ venue[thread[t].order].phase = "none"

(* The exchange fills an order when it is done with it, and each is sent   *)
(* at most once.                                                           *)
VenueHistory ==
  \A o \in Rows :
    /\ venue[o].phase # "done" => venue[o].filled = 0
    /\ venue[o].posts = IF venue[o].phase = "none" THEN 0 ELSE 1

(* What a GET has returned is still true when it is written.               *)
SeenIsTrue ==
  \A t \in Threads : thread[t].pc \in {"fetched", "found"} =>
    /\ venue[thread[t].order].phase \in {"open", "done"}
    /\ thread[t].seen.phase \in {"open", "done"}
    /\ thread[t].seen.phase = "done" => venue[thread[t].order] = thread[t].seen
    /\ thread[t].seen.phase = "open" => thread[t].seen.filled = 0

(* No copy of a row, written or not, knows of fills that did not happen.   *)
FillsAreTrue ==
  /\ \A o \in Rows : journal[o].filled > 0 => venue[o].filled = journal[o].filled
  /\ \A t \in Threads :
       thread[t].pc \notin {"idle", "queued"} /\ thread[t].row.filled > 0
         => venue[thread[t].order].filled = thread[t].row.filled

(* The revision fences off what was decided before a control changed.      *)
Fenced ==
  \A t \in Threads : thread[t].pc \in Pending /\ thread[t].row.bot =>
    /\ 0 < thread[t].revision
    /\ thread[t].revision <= control[thread[t].row.market].revision
    /\ thread[t].changed => thread[t].revision < control[thread[t].row.market].revision

(* claim(): nothing that could collide is on its way.                      *)
NothingInTheWay ==
  \A t \in Threads : thread[t].pc \in BeforePost =>
    \A p \in Rows \ {thread[t].order} : AtExchange(p) =>
      /\ IsStop(t)
      /\ journal[p].market # thread[t].row.market

(* An entry is decided, and stays, behind entries that never traded.       *)
FirstEntry ==
  \A t \in Threads :
    thread[t].pc \in Pending /\ thread[t].row.bot /\ thread[t].row.action = "buy" =>
      \A o \in BotRows(thread[t].row.market, "buy") : Live(o) => o = thread[t].order

OneLiveEntry ==
  \A m \in Markets : \A o, p \in BotRows(m, "buy") : Live(o) /\ Live(p) => o = p

(* A stop is committed for a position that was really bought.              *)
StopOfAnEntry ==
  \A m \in Markets : control[m].stop => \E o \in BotRows(m, "buy") : venue[o].filled > 0

LiveInv ==
  /\ TypeOK
  /\ SlotExclusive /\ MarketExclusive
  /\ OwnCopy /\ Unposted
  /\ VenueHistory /\ SeenIsTrue /\ FillsAreTrue /\ ResolvedIsTrue
  /\ Fenced /\ NothingInTheWay
  /\ FirstEntry /\ OneLiveEntry /\ StopOfAnEntry

-----------------------------------------------------------------------------
(* The second layer: how much the orders in flight can still trade, and    *)
(* how often the bot has tried.  It is inductive beside LiveInv.           *)

\* Places where a coroutine's copy came from a row with an exchange index.
Copying == {"posting", "acked", "fetched", "lookup", "found"}

Consuming(m) == {o \in BotRows(m, "buy") : ConsumesEntryAttempt(journal[o])}

\* The bot could still sell n contracts of m, and would have bought them all.
Covered(m, n) == Filled(BotRows(m, "sell")) + n <= Filled(BotRows(m, "buy"))

(* claim() lets no two orders of one market be at the exchange at once,    *)
(* the bot's stops beside the unknown orders of other markets included.    *)
OneInFlight ==
  \A o, p \in Rows :
    AtExchange(o) /\ AtExchange(p) /\ journal[o].market = journal[p].market => o = p

(* A sale in flight fits the position as it is now, not only as the        *)
(* preflight read it.                                                      *)
SaleFits ==
  \A o \in Rows : AtExchange(o) /\ journal[o].action = "sell" =>
    journal[o].count <= Holding(position[journal[o].market], journal[o].side)

(* An attempt that reached the exchange is never given back.               *)
SentIsConsumed ==
  \A o \in Rows : venue[o].phase # "none" => ConsumesEntryAttempt(journal[o])

AttemptsAllowed == \A m \in Markets : Cardinality(Consuming(m)) <= Retries + 1

(* The bot's fills and its sale in flight stay within what it bought.      *)
SalesOwned ==
  \A m \in Markets :
    /\ Covered(m, 0)
    /\ \A o \in BotRows(m, "sell") : AtExchange(o) => Covered(m, journal[o].count)

Books == OneInFlight /\ SaleFits /\ SentIsConsumed /\ AttemptsAllowed /\ SalesOwned

(* The holdings that were read are still the position when they are used:  *)
(* nothing that could move it is at the exchange.                          *)
ReadIsTrue(t) ==
  thread[t].pc = "read" => thread[t].held = position[thread[t].row.market]

(* Only indexed rows are copied, and an index comes with the final count.  *)
CopyIsCurrent(t) ==
  /\ thread[t].pc = "queued" /\ thread[t].order = 0 => ~thread[t].row.indexed
  /\ thread[t].pc \in BeforePost => ~journal[thread[t].order].indexed
  /\ thread[t].pc \in Copying =>
       /\ thread[t].row.indexed /\ journal[thread[t].order].indexed
       /\ thread[t].row.count = journal[thread[t].order].count

(* Nobody still holds a copy of an order that was rejected unsent, so no   *)
(* write brings it back; and what was sent says so.                        *)
RejectedIsDropped(t) ==
  /\ thread[t].pc \notin {"idle", "queued"} /\ venue[thread[t].order].phase = "none" =>
       journal[thread[t].order].state # "rejected"
  /\ thread[t].pc = "posting" => thread[t].row.submitted
  /\ thread[t].pc \in {"posting", "acked", "fetched"} => venue[thread[t].order].phase # "none"

(* An entry waits for the slot with an attempt left for it.                *)
AttemptLeft(t) ==
  thread[t].pc = "queued" /\ thread[t].row.bot /\ thread[t].row.action = "buy" =>
    Cardinality(Consuming(thread[t].row.market)) <= Retries

(* A stop is decided with the bot's orders of its market settled, and      *)
(* market_lock keeps it that way until the stop is sent.                   *)
StopOwned(t) ==
  thread[t].pc \in Pending /\ IsStop(t) =>
    /\ Covered(thread[t].row.market, thread[t].row.count)
    /\ \A o \in Rows :
         AtExchange(o) /\ journal[o].bot => journal[o].market # thread[t].row.market

Sound(t) ==
  /\ ReadIsTrue(t) /\ CopyIsCurrent(t) /\ RejectedIsDropped(t)
  /\ AttemptLeft(t) /\ StopOwned(t)

CountInv == Books /\ \A t \in Threads : Sound(t)

(* A buy in flight meets the position it was checked against: the bot's a  *)
(* flat one, the user's none of the opposite side.  Inductive beside both. *)
BuysFit ==
  \A o \in Rows : AtExchange(o) /\ journal[o].action = "buy" =>
    LET net == position[journal[o].market] IN
    /\ Holding(net, Opposite(journal[o].side)) = 0
    /\ journal[o].bot => net = 0
=============================================================================
