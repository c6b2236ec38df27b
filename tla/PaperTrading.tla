------------------------------ MODULE PaperTrading ------------------------------
(***************************************************************************)
(* The paper worker: Engine in a process of its own that reads rows of the *)
(* collector, decides on every market in its loop and keeps the portfolio  *)
(* of PaperPortfolio in memory and, transaction by transaction, in the     *)
(* database.  A step is at most one transaction of one market, so a crash  *)
(* can fall between any two; the cancellations of several markets that one *)
(* event causes are one step.  Entries are submitted with a latency, so no *)
(* order matches inside submit.                                            *)
(***************************************************************************)
EXTENDS PaperPortfolio

CONSTANTS
  Markets,    \* market tickers
  Configs,    \* the configurations a run may have
  Daily,      \* max_daily_trades: orders of one UTC day, which the run is
  MaxOpen,    \* max_open_exposure, in reserved markets
  Careful,    \* the collector's lease outlives its paper worker
  NoMarket    \* no market

Config == [passive : BOOLEAN, full : BOOLEAN, oneTrade : BOOLEAN, recordAll : BOOLEAN]

\* Strategy.__post_init__ refuses full-size execution of passive entries.
ASSUME TradingAssumption ==
  /\ Configs \subseteq {c \in Config : c.full => ~c.passive}
  /\ IsFiniteSet(Markets) /\ NoMarket \notin Markets
  /\ Daily \in Nat /\ MaxOpen \in Nat
  /\ Careful \in BOOLEAN

VARIABLES
  config,     \* the run's frozen configuration
  mem,        \* PaperExecutor's portfolio, with the ledger fields of Fresh
  db,         \* the checkpoint, and the states, claims and records
  risk,       \* Risk.halted and the submitted orders of the day; both change in
              \* transactions that end with a checkpoint
  healthy,    \* Engine.healthy
  valid,      \* Book.valid of every market
  shown,      \* the depth displayed where a position can be sold
  credit,     \* of that, what no sale was matched with (history)
  closed,     \* the close time has passed
  loop,       \* _processing_tickers
  waiting,    \* _pending_settlement
  turn,       \* the row being processed
  worker,     \* the paper worker's process: "down" or "up"
  collector   \* the lease "collector": "held" by the collector or "free"

account == <<mem, db, risk>>
feed == <<healthy, valid>>
depth == <<shown, credit>>
process == <<worker, collector>>
vars == <<config, mem, db, risk, healthy, valid, shown, credit, closed,
          loop, waiting, turn, worker, collector>>

\* pc is where the worker is in the row: between rows, in the discovery of a
\* market, or in process() at the gate, at the decision's states, at the
\* resting order, at the position, at the submission or after its refusal.
\* decision is the one whose state is to be saved, entry and manage are
\* entry_healthy and management_healthy.
Places == {"idle", "discover", "gate", "decide", "decided", "match", "manage",
           "submit", "refuse"}
Kinds == {"book", "trade", "other"}
Decisions == {"NO_TRADE", "TRADE_CANDIDATE"}

Turn == [pc : Places, kind : Kinds, about : Markets \cup {NoMarket},
         todo : SUBSET Markets, m : Markets \cup {NoMarket},
         decision : Decisions \cup {"none"}, pos : BOOLEAN, entry : BOOLEAN,
         manage : BOOLEAN]

Idle == [pc |-> "idle", kind |-> "other", about |-> NoMarket, todo |-> {},
         m |-> NoMarket, decision |-> "none", pos |-> FALSE, entry |-> FALSE,
         manage |-> FALSE]

Init ==
  /\ config \in Configs
  /\ mem = [m \in Markets |-> Fresh] /\ db = mem
  /\ risk = [halted |-> FALSE, today |-> 0]
  /\ healthy = FALSE /\ valid = [m \in Markets |-> FALSE]
  /\ shown = [m \in Markets |-> 0] /\ credit = shown
  /\ closed = [m \in Markets |-> FALSE]
  /\ loop = {} /\ waiting = {} /\ turn = Idle
  /\ worker = "down" /\ collector = "free"

-----------------------------------------------------------------------------
\* The portfolio fields of p over the ledger fields of l.
Overlay(p, l) == [
  active |-> p.active, left |-> p.left, cycle |-> p.cycle, attempt |-> p.attempt,
  done |-> p.done, cancelled |-> p.cancelled,
  held |-> p.held, bought |-> p.bought, exit |-> p.exit,
  reserved |-> p.reserved, consumed |-> p.consumed,
  quarantine |-> p.quarantine, pause |-> p.pause,
  state |-> l.state, claims |-> l.claims, owed |-> l.owed, opened |-> l.opened,
  settled |-> l.settled, evidence |-> l.evidence, newest |-> l.newest, ok |-> l.ok ]

Portfolio(q) == Overlay(q, Fresh)

\* The account as the worker sees it: its own portfolio, the database's rows.
View(m) == Overlay(mem[m], db[m])

\* A transaction that leaves market m at q: the checkpoint is the snapshot of
\* the whole portfolio.
Commit(m, q) ==
  /\ mem' = [mem EXCEPT ![m] = Portfolio(q)]
  /\ db' = [k \in Markets |-> IF k = m THEN q ELSE View(k)]

\* Engine.state: a transition in a transaction of its own.
CommitState(m, target) ==
  /\ db' = [db EXCEPT ![m] = Move(@, target)]
  /\ UNCHANGED <<mem, risk>>

\* Mutant: only orders without a fill are cancelled.
CancelUnfilled ==
  /\ db' = [m \in Markets |-> IF Open(mem[m]) THEN View(m) ELSE Cancel(View(m))]
  /\ mem' = [m \in Markets |-> Portfolio(db'[m])]

\* Every active order is cancelled.
CancelAll ==
  /\ db' = [m \in Markets |-> Cancel(View(m))]
  /\ mem' = [m \in Markets |-> Portfolio(Cancel(View(m)))]

\* Engine.invalidate.
Invalidate ==
  /\ CancelAll
  /\ risk' = risk
  /\ healthy' = FALSE
  /\ valid' = [m \in Markets |-> FALSE]

\* _ingest's handler: the transaction was rolled back, the feed is invalid.
Raise ==
  /\ Invalidate
  /\ turn' = Idle
  /\ UNCHANGED <<loop, waiting, depth>>

\* The loop of a row over the markets that are left of it.
Gate(kind, about, todo) ==
  IF todo = {} THEN Idle
  ELSE [pc |-> "gate", kind |-> kind, about |-> about, todo |-> todo, m |-> NoMarket,
        decision |-> "none", pos |-> FALSE, entry |-> FALSE, manage |-> FALSE]

GoTo(t, place) == [t EXCEPT !.pc = place]

\* processing_markets: a local event skips the unrelated idle markets that
\* are not due for an evaluation.  A suspended analysis skips all of them.
Process(kind, about) ==
  \E todo \in SUBSET loop :
    /\ \/ todo = {}
       \/ /\ kind = "other" => todo = loop
          /\ \A m \in loop \ todo :
               ~View(m).active /\ ~Open(View(m)) /\ ~closed[m] /\ m # about
    /\ turn' = Gate(kind, about, todo)

\* The row goes on with the next market.
NextMarket == turn' = Gate(turn.kind, turn.about, turn.todo \ {turn.m})

BetweenRows == worker = "up" /\ turn.pc = "idle"
Known(m) == db[m].state # "UNKNOWN"

-----------------------------------------------------------------------------
(* Rows: what _ingest does before process(). *)

Reference ==
  /\ BetweenRows
  /\ healthy' = TRUE
  /\ Process("other", NoMarket)
  /\ UNCHANGED <<config, account, valid, depth, closed, loop, waiting, process>>

\* Of a unit that leaves the display unsold or sold, the history takes it that
\* the sold one left.
Displayed(m, n) ==
  /\ shown' = [shown EXCEPT ![m] = n]
  /\ credit' = [credit EXCEPT ![m] = IF n > shown[m] THEN @ + (n - shown[m])
                                     ELSE Least(@, n)]

\* A validated snapshot or delta shows n contracts; after a gap it cannot
\* tell what left the display.
BookRow(m) ==
  /\ BetweenRows /\ Known(m)
  /\ valid' = [valid EXCEPT ![m] = TRUE]
  /\ \E n \in 0 .. Depth :
       /\ Displayed(m, n)
       /\ risk' = risk
       /\ Commit(m, IF valid[m] THEN Observe(View(m), n) ELSE View(m))
  /\ Process("book", m)
  /\ UNCHANGED <<config, healthy, closed, loop, waiting, process>>

TradeRow(m) ==
  /\ BetweenRows /\ Known(m)
  /\ Process("trade", m)
  /\ UNCHANGED <<config, account, feed, depth, closed, loop, waiting, process>>

\* A gap, a new connection, an error or stale frame, a clock jump; a reversal
\* of the clock leaves the books alone.  Some of them end the row.
Interrupt ==
  /\ BetweenRows
  /\ \/ Invalidate
     \/ CancelAll /\ risk' = risk /\ healthy' = FALSE /\ UNCHANGED valid
  /\ turn' = Idle \/ Process("other", NoMarket)
  /\ UNCHANGED <<config, depth, closed, loop, waiting, process>>

\* Draining an overload, or a stop being prepared: no entry, no evaluation.
Suspend ==
  /\ BetweenRows
  /\ CancelAll /\ risk' = risk
  /\ UNCHANGED <<config, feed, depth, closed, loop, waiting, turn, process>>

\* The HALT file.
Halt ==
  /\ BetweenRows /\ ~risk.halted
  /\ risk' = [risk EXCEPT !.halted = TRUE]
  /\ CancelAll
  /\ UNCHANGED <<config, feed, depth, closed, loop, waiting, turn, process>>

\* The first metadata of a market: three states, three transactions.
Discover(m) ==
  /\ BetweenRows /\ ~Known(m)
  /\ CommitState(m, "DISCOVER_MARKET")
  /\ loop' = loop \cup {m}
  /\ turn' = GoTo([Idle EXCEPT !.m = m], "discover")
  /\ UNCHANGED <<config, feed, depth, closed, waiting, process>>

Discovering ==
  LET m == turn.m
      next == IF db[m].state = "DISCOVER_MARKET" THEN "VALIDATE_MARKET" ELSE "WARMUP"
  IN /\ worker = "up" /\ turn.pc = "discover"
     /\ CommitState(m, next)
     /\ IF next = "WARMUP" THEN Process("other", NoMarket) ELSE UNCHANGED turn
     /\ UNCHANGED <<config, feed, depth, closed, loop, waiting, process>>

\* A row that leaves market m at q, and its book unusable or as it was.
MarketRow(m, q, usable) ==
  /\ BetweenRows /\ Known(m)
  /\ risk' = risk
  /\ Commit(m, q)
  /\ valid' = [valid EXCEPT ![m] = @ /\ usable]
  /\ Process("other", NoMarket)
  /\ UNCHANGED <<config, healthy, depth, closed, loop, waiting, process>>

\* Metadata that does not parse; metadata or an event that changes the terms.
MetadataInvalid(m) == MarketRow(m, Quarantine(View(m), "invalid"), FALSE)

MetadataChanged(m) ==
  \E usable \in BOOLEAN : MarketRow(m, Quarantine(View(m), "other"), usable)

\* An active observation: it may prove a quarantine stale, on a healthy feed,
\* or end a soft pause, whose book is not used again.
MetadataActive(m) ==
  /\ ~closed[m]
  /\ \/ /\ Recoverable(View(m), risk.halted) /\ healthy /\ valid[m]
        /\ MarketRow(m, RecoverStale(View(m)), TRUE)
     \/ /\ Resumable(View(m))
        /\ MarketRow(m, ResumeMarket(View(m)), FALSE)

\* An inactive status, or a lifecycle event.
Restrict(m) == \E how \in Pauses : MarketRow(m, PauseMarket(View(m), how), FALSE)

\* A settlement with the terms that come with it; before the close it raises.
SettlementRow(m) ==
  \E result \in Outcomes, terms \in Terms :
    LET q == Settle(View(m), result, terms, FALSE) IN
    IF closed[m] /\ q.ok THEN MarketRow(m, q, TRUE)
    ELSE BetweenRows /\ Known(m) /\ Raise /\ UNCHANGED <<config, closed, process>>

-----------------------------------------------------------------------------
(* process(): the gate. *)

At(place, m) == worker = "up" /\ turn.pc = place /\ m = turn.m
AtGate(m) == worker = "up" /\ turn.pc = "gate" /\ m \in turn.todo

Reopens(m) ==
  /\ View(m).state = "CLOSED" /\ ~config.oneTrade
  /\ View(m).cycle > 0 /\ View(m).done
  /\ ~closed[m] /\ View(m).quarantine = "none"

\* A closed market is watched again, where trades may follow one another.
Reopen(m) ==
  /\ AtGate(m) /\ m \notin waiting /\ Reopens(m)
  /\ CommitState(m, "MONITORING")
  /\ UNCHANGED <<config, feed, depth, closed, loop, waiting, turn, process>>

Leave(m) ==
  /\ loop' = loop \ {m}
  /\ turn' = Gate(turn.kind, turn.about, turn.todo \ {m})

\* Pending settlement, closed and halted markets leave the loop.
Drop(m) ==
  /\ AtGate(m)
  /\ \/ m \in waiting
     \/ View(m).state \in {"ERROR", "HALTED"}
     \/ View(m).state = "CLOSED"     \* a market that reopens may be past tradable
  /\ Leave(m)
  /\ UNCHANGED <<config, account, feed, depth, closed, waiting, process>>

Past(m) == AtGate(m) /\ m \notin waiting
           /\ View(m).state \notin {"CLOSED", "ERROR", "HALTED"} /\ closed[m]

\* At the close the order is cancelled and the settlement awaited.
CloseOrder(m) ==
  /\ Past(m) /\ View(m).active
  /\ risk' = risk /\ Commit(m, Cancel(View(m)))
  /\ UNCHANGED <<config, feed, depth, closed, loop, waiting, turn, process>>

AwaitSettlement(m) ==
  /\ Past(m) /\ ~View(m).active
  /\ IF Legal(View(m).state, "SETTLEMENT_PENDING")
     THEN /\ CommitState(m, "SETTLEMENT_PENDING")
          /\ waiting' = waiting \cup {m} /\ Leave(m)
          /\ UNCHANGED <<feed, depth>>
     ELSE Raise
  /\ UNCHANGED <<config, closed, process>>

\* What a candidate needs before prices, the model and the sizing have their
\* say: each failing condition is a reason that evaluate() is handed.
MayEnter(m) ==
  LET r == View(m) IN
  /\ healthy /\ valid[m] /\ ~risk.halted /\ r.pause = "none" /\ ~r.active /\ ~Open(r)
  /\ \/ r.cycle = 0
     \/ RetryReady(r, config.oneTrade, risk.halted)
     \/ ReentryReady(r, config.oneTrade, risk.halted)

\* evaluate(): with a reason against it a market is no candidate; without
\* one the prices decide, and they may decide either way.
Verdicts(m) == {d \in Decisions : d = "TRADE_CANDIDATE" => MayEnter(m)}

\* Which decisions become a state: candidates, and the others when every
\* evaluation is recorded.
Recorded(decision) == decision = "NO_TRADE" => config.recordAll

\* Where process() goes with the order and the position it found.
Onward(t, places) ==
  turn' = CASE "submit" \in places /\ t.decision = "TRADE_CANDIDATE" ->
                 GoTo(t, "submit")
            [] "match" \in places /\ View(t.m).active /\ t.decision # "TRADE_CANDIDATE" ->
                 GoTo(t, "match")
            [] "manage" \in places /\ t.pos /\ t.manage /\ t.kind = "book"
               /\ t.about = t.m /\ ~("match" \in places /\ View(t.m).active)
               /\ t.decision # "TRADE_CANDIDATE" -> GoTo(t, "manage")
            [] OTHER -> Gate(t.kind, t.about, t.todo \ {t.m})

\* entry_healthy and management_healthy, but for what no account knows.
EntryHealthy(m) == healthy /\ valid[m] /\ ~risk.halted /\ View(m).pause = "none"
ManagementHealthy(m) == healthy /\ valid[m] /\ View(m).pause = "none"

\* The evaluation: skipped when nothing is due, else a decision, saved when
\* it is a candidate or when everything is recorded.
Evaluate(m) ==
  /\ AtGate(m) /\ m \notin waiting /\ ~closed[m]
  /\ View(m).state \notin {"CLOSED", "ERROR", "HALTED"}
  /\ \E decision \in Verdicts(m) \cup {"none"}, entry, manage \in BOOLEAN :
       LET t == [pc |-> "gate", kind |-> turn.kind, about |-> turn.about,
                 todo |-> turn.todo, m |-> m, decision |-> decision,
                 pos |-> Open(View(m)), entry |-> entry, manage |-> manage] IN
       /\ Recorded(decision)
       /\ entry => EntryHealthy(m)
       /\ manage => ManagementHealthy(m) /\ Open(View(m))
       /\ IF decision = "none" THEN Onward(t, {"match", "manage"})
          ELSE turn' = GoTo(t, "decide")
  /\ UNCHANGED <<config, account, feed, depth, closed, loop, waiting, process>>

\* A market with no order moves into the entry window and is evaluated.
Decide(m) ==
  /\ At("decide", m)
  /\ LET s == View(m).state IN
     CASE s \in {"WARMUP", "MONITORING"} ->
            CommitState(m, "ENTRY_WINDOW") /\ UNCHANGED turn
       [] s \in {"ENTRY_WINDOW", "NO_TRADE"} ->
            /\ CommitState(m, "EVALUATING")
            /\ turn' = GoTo(turn, "decided")
       [] OTHER ->
            /\ Onward(turn, {"submit", "match", "manage"})
            /\ UNCHANGED account
  /\ UNCHANGED <<config, feed, depth, closed, loop, waiting, process>>

Decided(m) ==
  /\ At("decided", m)
  /\ CommitState(m, turn.decision)
  /\ Onward(turn, {"submit", "match", "manage"})
  /\ UNCHANGED <<config, feed, depth, closed, loop, waiting, process>>

-----------------------------------------------------------------------------
(* process(): the order, the position, the entry. *)

\* revalidate(): some reason, the signal's, the health's or the time's,
\* withdraws the order; what none of them is in the model may always be found.
Withdraw(m) == Commit(m, Cancel(View(m)))

\* revalidate, then a print of the tape or the match of an aggressive order,
\* unless a reference update is pending or the latency has not passed.  A
\* recovery of the collector stops a partial match where it is.
Resting(m) ==
  /\ At("match", m)
  /\ LET r == View(m) IN
     \E n \in 0 .. r.left :
       \/ Withdraw(m)
       \/ turn.entry /\ Commit(m, r)
       \/ /\ turn.entry /\ ~config.full
          /\ config.passive => turn.kind = "trade" /\ turn.about = m
          /\ Commit(m, Trade(r, n, config.oneTrade))
       \/ /\ turn.entry /\ ~config.passive
          /\ Commit(m, Match(r, n, config.oneTrade, config.full))
  /\ risk' = risk
  /\ Onward(turn, {"manage"})
  /\ UNCHANGED <<config, feed, depth, closed, loop, waiting, process>>

\* What a monitored position becomes of market m at q.
Managed(m, q, again) ==
  /\ risk' = risk /\ Commit(m, q)
  /\ credit' = [credit EXCEPT ![m] = @ - (View(m).held - q.held)]
  /\ IF again THEN UNCHANGED turn ELSE NextMarket
  /\ UNCHANGED <<config, feed, shown, closed, loop, waiting, process>>

\* A binding intent executes or, if it is a cash-out, expires, and then the
\* triggers are looked at again.
ManageBinding(m) ==
  LET r == View(m) IN
  /\ At("manage", m) /\ Binding(r, config.full)
  /\ \/ \E ripe, reach \in BOOLEAN :
          LET q == Pursue(r, r.exit, TRUE, ripe, reach \/ config.full, shown[m], config.full)
          IN Managed(m, q, ~config.full /\ Open(q) /\ q.exit # r.exit)
     \/ ~config.full /\ Managed(m, Expire(r), TRUE)

ManageFresh(m) ==
  LET r == View(m) IN
  /\ At("manage", m) /\ Open(r) /\ ~Binding(r, config.full)
  /\ \E why \in Exits \cup {"none"}, ripe, reach, model \in BOOLEAN :
       LET trigger == Trigger(r, why) IN
       /\ why = "INVALIDATION" => model
       /\ reach \/ (~config.full /\ trigger \in {"TAKE_PROFIT", "CASHOUT"})
       /\ Managed(m, Pursue(r, trigger, model \/ r.exit # "INVALIDATION", ripe, reach,
                            shown[m], config.full), FALSE)

\* Risk.size_details.
Fundable(m) ==
  /\ ~risk.halted /\ risk.today < Daily
  /\ Cardinality({k \in Markets : mem[k].reserved}) < MaxOpen

Place(m) ==
  LET q == Submit(View(m), config.oneTrade, risk.halted) IN
  /\ At("submit", m) /\ turn.entry
  /\ Submittable(View(m), config.oneTrade, risk.halted) /\ Fundable(m)
  /\ IF q.ok
     THEN /\ risk' = [risk EXCEPT !.today = @ + 1]
          /\ Commit(m, q)
          /\ NextMarket
          /\ UNCHANGED <<feed, loop, waiting, depth>>
     ELSE Raise
  /\ UNCHANGED <<config, closed, process>>

\* submit's own checks may refuse whatever was decided.
Refuse(m) ==
  /\ At("submit", m)
  /\ turn' = GoTo(turn, "refuse")
  /\ UNCHANGED <<config, account, feed, depth, closed, loop, waiting, process>>

Refused(m) ==
  /\ At("refuse", m)
  /\ IF Legal(View(m).state, "NO_TRADE")
     THEN CommitState(m, "NO_TRADE") /\ NextMarket /\ UNCHANGED <<feed, loop, waiting, depth>>
     ELSE Raise
  /\ UNCHANGED <<config, closed, process>>

-----------------------------------------------------------------------------
(* The worker's life, the collector's lease, the operator. *)

Rest ==
  /\ healthy' = FALSE /\ valid' = [m \in Markets |-> FALSE]
  /\ waiting' = {} /\ turn' = Idle
  /\ UNCHANGED <<config, depth, closed>>

\* A start: the checkpoint is restored, contracts whose history changed are
\* quarantined and the orders of the downtime are cancelled.
Boot ==
  /\ worker = "down"
  /\ \E changed \in SUBSET {m \in Markets : Open(db[m]) \/ db[m].active} :
       db' = [m \in Markets |->
                Cancel(IF m \in changed THEN Quarantine(db[m], "other") ELSE db[m])]
  /\ mem' = [m \in Markets |-> Portfolio(db'[m])] /\ UNCHANGED risk
  /\ loop' = {m \in Markets : Known(m)}
  /\ worker' = "up" /\ collector' = "held"
  /\ Rest

\* The end of _paper_main, in order or after a failure at any point of a row.
Stop ==
  /\ worker = "up"
  /\ CancelAll /\ risk' = risk
  /\ loop' = {} /\ worker' = "down"
  /\ Rest /\ UNCHANGED collector

Crash ==
  /\ worker = "up"
  /\ mem' = [m \in Markets |-> Portfolio(db[m])] /\ UNCHANGED <<db, risk>>
  /\ loop' = {} /\ worker' = "down"
  /\ Rest /\ UNCHANGED collector

\* Mutant: the lease is freed before the worker has ended.
FreeLeaseEarly ==
  /\ collector = "held"
  /\ collector' = "free"
  /\ UNCHANGED <<config, account, feed, depth, closed, loop, waiting, turn, worker>>

\* The collector ends.  A clean end closes the paper worker first; a failure
\* frees the lease before the worker is closed, and a killed collector leaves
\* a lease that is recovered.
FreeLease ==
  /\ collector = "held" /\ (Careful => worker = "down")
  /\ collector' = "free"
  /\ UNCHANGED <<config, account, feed, depth, closed, loop, waiting, turn, worker>>

\* recover_settlement on the newest evidence of a contract that is pinned,
\* under the collector's lease.
Recover(m) ==
  \E terms \in Terms \ {"none"} :
    LET q == Settle(db[m], db[m].newest, terms, TRUE) IN
    /\ collector = "free" /\ Known(m) /\ closed[m] /\ db[m].newest # "none" /\ q.ok
    /\ db' = [db EXCEPT ![m] = q]
    /\ mem' = IF worker = "down" THEN [mem EXCEPT ![m] = Portfolio(q)] ELSE mem
    /\ UNCHANGED <<config, risk, feed, depth, closed, loop, waiting, turn, process>>

Close(m) ==
  /\ ~closed[m] /\ closed' = [closed EXCEPT ![m] = TRUE]
  /\ UNCHANGED <<config, account, feed, depth, loop, waiting, turn, process>>

RowOf(m) == BookRow(m) \/ TradeRow(m) \/ Discover(m) \/ MetadataInvalid(m)
            \/ MetadataChanged(m) \/ MetadataActive(m) \/ Restrict(m) \/ SettlementRow(m)

ProcessOf(m) == Reopen(m) \/ Drop(m) \/ CloseOrder(m) \/ AwaitSettlement(m) \/ Evaluate(m)
                \/ Decide(m) \/ Decided(m) \/ Resting(m) \/ ManageBinding(m)
                \/ ManageFresh(m) \/ Place(m) \/ Refuse(m) \/ Refused(m)

Next ==
  \/ Reference \/ Interrupt \/ Suspend \/ Halt \/ Discovering
  \/ Boot \/ Stop \/ Crash \/ FreeLease
  \/ \E m \in Markets : RowOf(m) \/ ProcessOf(m) \/ Recover(m) \/ Close(m)

Spec == Init /\ [][Next]_vars

-----------------------------------------------------------------------------
(* Properties. *)

\* Every record, flag and place has its type, and no transaction was committed
\* over a transition the table forbids (it would have been rolled back).
TypeOK ==
  /\ config \in Configs
  /\ \A m \in Markets : mem[m] \in Row /\ db[m] \in Row
  /\ DOMAIN mem = Markets /\ DOMAIN db = Markets
  /\ \A m \in Markets : db[m].ok /\ mem[m] = Portfolio(mem[m])
  /\ risk \in [halted : BOOLEAN, today : 0 .. Daily]
  /\ healthy \in BOOLEAN /\ valid \in [Markets -> BOOLEAN]
  /\ shown \in [Markets -> 0 .. Depth] /\ credit \in [Markets -> Int]
  /\ closed \in [Markets -> BOOLEAN]
  /\ loop \subseteq Markets /\ waiting \subseteq Markets
  /\ turn \in Turn
  /\ worker \in {"down", "up"} /\ collector \in {"free", "held"}

\* The durable books agree with the durable state of their market: a live
\* order is pending or part filled, a position is held where the state says
\* so or settlement is awaited, its risk is reserved exactly while there is an
\* order or a position, a market is halted exactly while it is quarantined,
\* and an exit that commits the whole position leaves no entry resting.
Exclusive(r, full) == r.exit \in {"HARD_STOP", "CASHOUT"} \/ (full /\ r.exit # "none")

RowAgrees(r, full) ==
  /\ r.active => r.state \in {"ORDER_PENDING", "ORDER_PARTIALLY_FILLED"}
  /\ r.state = "ORDER_PENDING" => r.active /\ ~Open(r)
  /\ r.state = "ORDER_PARTIALLY_FILLED" => r.active /\ Open(r)
  /\ r.state = "POSITION_OPEN" => Open(r)
  /\ Open(r) => /\ r.state \in {"ORDER_PARTIALLY_FILLED", "POSITION_OPEN",
                                "SETTLEMENT_PENDING", "HALTED"}
                /\ r.held \in 1 .. r.bought
  /\ r.reserved <=> r.active \/ Open(r)
  /\ r.state = "HALTED" <=> r.quarantine # "none"
  /\ r.active => r.quarantine = "none" /\ r.pause = "none" /\ r.left > 0
  /\ r.exit # "none" => Open(r)
  /\ Exclusive(r, full) => ~r.active

BooksAgree == \A m \in Markets : RowAgrees(db[m], config.full)

\* What the journal says was bought and neither sold nor paid out is what the
\* checkpoint says is held, across crashes, stops and settlements.
LedgerBalances == \A m \in Markets : db[m].owed = db[m].held

\* Every entry cycle of a market opens one position at most, and under
\* one_trade_per_market there is one cycle, whatever is cancelled, retried,
\* recovered or restarted in between.
OneTradePerCycle ==
  \A m \in Markets :
    /\ db[m].opened <= db[m].cycle
    /\ config.oneTrade => db[m].cycle <= 1

\* A settled market keeps no order, no position and no reserved risk.
SettledIsFlat ==
  \A m \in Markets : db[m].settled # "none" =>
    ~db[m].active /\ ~Open(db[m]) /\ ~db[m].reserved

\* No displayed contract is sold against twice: exit_consumed never falls
\* below what the sales took and the display has not replaced.
DepthSoldOnce == \A m \in Markets : credit[m] >= 0

\* No entry rests through an interruption: while one does, the feed has been
\* healthy and its book valid ever since, and nothing is halted.
NoOrderOutlivesItsFeed ==
  \A m \in Markets : worker = "up" /\ db[m].active =>
    healthy /\ valid[m] /\ ~risk.halted /\ db[m].settled = "none"

\* A hard stop, once requested, stands until the position is closed, through
\* rebounds, partial sales, restarts and quarantines.
StopStands ==
  [][\A m \in Markets : db[m].exit = "HARD_STOP" =>
       db'[m].exit = "HARD_STOP" \/ ~Open(db'[m])]_vars

===============================================================================
