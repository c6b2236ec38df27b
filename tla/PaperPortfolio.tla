----------------------------- MODULE PaperPortfolio -----------------------------
(***************************************************************************)
(* What PaperExecutor does to the account of one market, as operators on   *)
(* a record.  A transition the table of storage.py forbids is an exception *)
(* there and a FALSE `ok` here: the transaction around it is rolled back.  *)
(* Prices, fees and probabilities are left to the caller's choices, except *)
(* for what they decide; an order is for Size contracts.                   *)
(***************************************************************************)
EXTENDS Integers, FiniteSets

CONSTANTS
  Size,       \* contracts of an order: the sizing gives these or refuses
  Retries,    \* max_entry_retries
  Cycles,     \* bound on the entries of a market that follow a closed trade
  Depth       \* bound on the displayed depth of the one price level

ASSUME PortfolioAssumption ==
  /\ Size \in Nat \ {0}
  /\ Retries \in Nat
  /\ Cycles \in Nat \ {0}
  /\ Depth \in Nat

Outcomes == {"yes", "no"}
Attempts == 1 .. Retries + 1

Entering == {"DISCOVER_MARKET", "VALIDATE_MARKET", "WARMUP", "MONITORING",
             "ENTRY_WINDOW", "EVALUATING", "NO_TRADE", "TRADE_CANDIDATE"}
Ordering == {"ORDER_PENDING", "ORDER_PARTIALLY_FILLED", "ORDER_CANCELLED"}
Holding == {"POSITION_OPEN", "EXITING"}
States == Entering \cup Ordering \cup Holding
          \cup {"UNKNOWN", "SETTLEMENT_PENDING", "CLOSED", "ERROR", "HALTED"}

\* "CASHOUT" stands for PROFIT_VALUE and STANDARD_CASHOUT, whose remainder
\* expires; the others stay committed over several quotes.  Which of them the
\* economics of the quote call for is left to the caller.
Exits == {"HARD_STOP", "TAKE_PROFIT", "CASHOUT", "INVALIDATION"}

\* The restrictions of pause_market: only a new active observation lifts a
\* soft one, nothing lifts a terminal one.
Pauses == {"soft", "terminal"}

(***************************************************************************)
(* PaperOrder (cycle 0: none was ever placed), Position (it exists while   *)
(* bought > 0), the risk reservation, the depth already consumed, the      *)
(* quarantine and the pause are the portfolio, kept in memory and in the   *)
(* checkpoint.  state, claims and the totals of the records table are rows *)
(* of the database: owed is what was bought less what was sold or paid     *)
(* out, opened the number of positions, evidence the results attested by   *)
(* settlement_evidence and newest the last of them.                        *)
(***************************************************************************)
Row == [
  active : BOOLEAN, left : 0 .. Size, cycle : 0 .. Cycles, attempt : Attempts,
  done : BOOLEAN, cancelled : BOOLEAN,
  held : 0 .. Size, bought : 0 .. Size, exit : Exits \cup {"none"},
  reserved : BOOLEAN, consumed : 0 .. Depth,
  quarantine : {"none", "invalid", "other"}, pause : Pauses \cup {"none"},
  state : States, claims : SUBSET ((1 .. Cycles) \X Attempts),
  owed : Int, opened : Nat, settled : Outcomes \cup {"none"},
  evidence : SUBSET Outcomes, newest : Outcomes \cup {"none"},
  ok : BOOLEAN ]

Fresh == [
  active |-> FALSE, left |-> 0, cycle |-> 0, attempt |-> 1,
  done |-> FALSE, cancelled |-> FALSE,
  held |-> 0, bought |-> 0, exit |-> "none",
  reserved |-> FALSE, consumed |-> 0,
  quarantine |-> "none", pause |-> "none",
  state |-> "UNKNOWN", claims |-> {},
  owed |-> 0, opened |-> 0, settled |-> "none",
  evidence |-> {}, newest |-> "none",
  ok |-> TRUE ]

-----------------------------------------------------------------------------
\* TRANSITIONS, without the moves to ERROR and HALTED that are always legal.
Transitions == {
  <<"UNKNOWN", "DISCOVER_MARKET">>,
  <<"DISCOVER_MARKET", "VALIDATE_MARKET">>, <<"VALIDATE_MARKET", "WARMUP">>,
  <<"WARMUP", "MONITORING">>, <<"WARMUP", "ENTRY_WINDOW">>,
  <<"MONITORING", "ENTRY_WINDOW">>, <<"ENTRY_WINDOW", "EVALUATING">>,
  <<"EVALUATING", "NO_TRADE">>, <<"EVALUATING", "TRADE_CANDIDATE">>,
  <<"NO_TRADE", "EVALUATING">>,
  <<"TRADE_CANDIDATE", "ORDER_PENDING">>, <<"TRADE_CANDIDATE", "NO_TRADE">>,
  <<"ORDER_PENDING", "ORDER_PARTIALLY_FILLED">>,
  <<"ORDER_PENDING", "POSITION_OPEN">>, <<"ORDER_PENDING", "ORDER_CANCELLED">>,
  <<"ORDER_PARTIALLY_FILLED", "POSITION_OPEN">>,
  <<"ORDER_PARTIALLY_FILLED", "ORDER_CANCELLED">>,
  <<"ORDER_CANCELLED", "EVALUATING">>, <<"ORDER_CANCELLED", "POSITION_OPEN">>,
  <<"POSITION_OPEN", "EXITING">>,
  <<"EXITING", "POSITION_OPEN">>, <<"EXITING", "CLOSED">>,
  <<"SETTLEMENT_PENDING", "CLOSED">>, <<"CLOSED", "MONITORING">> }
  \cup ({"WARMUP", "MONITORING", "ENTRY_WINDOW", "EVALUATING", "NO_TRADE",
         "ORDER_CANCELLED", "POSITION_OPEN", "EXITING"}
        \X {"SETTLEMENT_PENDING"})

Legal(old, target) ==
  \/ old = target
  \/ <<old, target>> \in Transitions
  \/ old # "UNKNOWN" /\ target \in {"ERROR", "HALTED"}

\* Store.transition without a recovery proof.
Move(r, target) == [r EXCEPT !.state = target, !.ok = @ /\ Legal(r.state, target)]

Open(r) == r.bought > 0

-----------------------------------------------------------------------------
\* Mutant: the reservation of a part-filled order is returned too.
CancelReleasingAll(r) ==
  IF ~r.active THEN r
  ELSE LET q == Move([r EXCEPT !.active = FALSE, !.cancelled = TRUE,
                               !.reserved = FALSE], "ORDER_CANCELLED")
       IN IF Open(r) THEN Move(q, "POSITION_OPEN") ELSE q

\* Mutant: an order that has filled in part is not deactivated.
CancelLeavingOpen(r) ==
  IF ~r.active THEN r
  ELSE LET q == Move([r EXCEPT !.active = Open(r), !.cancelled = TRUE],
                     "ORDER_CANCELLED")
       IN IF Open(r) THEN Move(q, "POSITION_OPEN")
          ELSE [q EXCEPT !.reserved = FALSE]

Cancel(r) ==
  IF ~r.active THEN r
  ELSE LET q == Move([r EXCEPT !.active = FALSE, !.cancelled = TRUE],
                     "ORDER_CANCELLED")
       IN IF Open(r) THEN Move(q, "POSITION_OPEN")
          ELSE [q EXCEPT !.reserved = FALSE]

\* fill: n contracts of the order, at most what is left of it.
Fill(r, n) ==
  Move([r EXCEPT !.active = r.left > n, !.left = @ - n,
                 !.held = @ + n, !.bought = @ + n,
                 !.owed = @ + n, !.opened = @ + (IF Open(r) THEN 0 ELSE 1)],
       IF r.left > n THEN "ORDER_PARTIALLY_FILLED" ELSE "POSITION_OPEN")

\* What fill tests before it touches the order: a limit that came into force
\* cancels, a restriction leaves the order alone.
Fillable(r) == r.active /\ r.quarantine = "none" /\ r.pause = "none"

SpentCycle(r, one) == one /\ r.cycle > 1 /\ ~Open(r)

\* One print of the public tape against a resting passive order (n = 0: the
\* queue ahead took it, or it is stale, or on the wrong side).
Trade(r, n, one) ==
  IF ~Fillable(r) \/ n = 0 THEN r
  ELSE IF SpentCycle(r, one) THEN Cancel(r)
  ELSE Fill(r, n)

\* The single match of an aggressive order after its latency: n contracts are
\* offered within its cap.  A full-size entry takes all or nothing, the rest
\* of any other is cancelled.
Match(r, n, one, full) ==
  CASE ~r.active \/ r.pause # "none" -> r
    [] r.active /\ r.pause = "none" ->
         IF SpentCycle(r, one) \/ n = 0 \/ (full /\ n < r.left) THEN Cancel(r)
         ELSE Cancel(Fill(r, n))

-----------------------------------------------------------------------------
Finish(r) ==
  Move([r EXCEPT !.held = 0, !.bought = 0, !.exit = "none", !.reserved = FALSE,
                 !.done = TRUE],
       "CLOSED")

\* The first step of a new intent; a conditional one leaves a resting entry
\* alone until it executes.
Intend(r, why, full) ==
  LET q == IF full \/ why \in {"HARD_STOP", "CASHOUT"} THEN Cancel(r) ELSE r
  IN [q EXCEPT !.exit = why]

\* Mutant: depth that was sold against is not remembered.
SellForgetting(r, n, full) ==
  LET s == [Move(Cancel(r), "EXITING") EXCEPT !.held = @ - n, !.owed = @ - n]
  IN IF s.held = 0 THEN Finish(s)
     ELSE Move(IF ~full /\ r.exit = "CASHOUT" THEN [s EXCEPT !.exit = "none"] ELSE s,
               "POSITION_OPEN")

\* The ripe intent sells n contracts as one IOC.
Sell(r, n, full) ==
  LET s == [Move(Cancel(r), "EXITING") EXCEPT
              !.held = @ - n, !.owed = @ - n, !.consumed = @ + n]
  IN IF s.held = 0 THEN Finish(s)
     ELSE Move(IF ~full /\ r.exit = "CASHOUT" THEN [s EXCEPT !.exit = "none"] ELSE s,
               "POSITION_OPEN")

\* The depth on display that no earlier sale was matched with.
Available(r, shown) == IF shown > r.consumed THEN shown - r.consumed ELSE 0

Least(a, b) == IF a < b THEN a ELSE b

\* _commit_monitor for a trigger `why` ("none" when none fires): a different
\* trigger, or a cleared one, replaces the saved intent; a new intent waits
\* for its latency; a ripe one sells what is shown at a price it accepts.
Pursue(r, why, clear, ripe, reach, shown, full) ==
  LET a == IF why # r.exit /\ (why # "none" \/ clear) THEN [r EXCEPT !.exit = "none"] ELSE r
  IN CASE why = "none"       -> a
       [] why # "none" /\ a.exit = "none" -> Intend(a, why, full)
       [] OTHER -> IF ~ripe THEN a
                   ELSE Sell(a, IF reach THEN Least(a.held, Available(a, shown))
                                ELSE 0, full)

\* monitor, for an intent that binds: in full-size execution every intent,
\* else a CASHOUT, which may also expire.
Binding(r, full) == r.exit = "CASHOUT" \/ (full /\ r.exit # "none")

Expire(r) == [r EXCEPT !.exit = "none"]

\* Mutant: a rebound of the price clears a hard stop.
TriggerRebounding(r, why) == why

\* A hard stop is sticky.
Trigger(r, why) == IF r.exit = "HARD_STOP" THEN "HARD_STOP" ELSE why

\* _apply_exit_liquidity: after a continuous book event the consumption is at
\* most what is shown.
Observe(r, shown) ==
  IF Open(r) /\ r.quarantine = "none" /\ r.pause = "none" /\ r.consumed > shown
  THEN [r EXCEPT !.consumed = shown] ELSE r

-----------------------------------------------------------------------------
Quarantine(r, why) ==
  IF r.state \in {"ERROR", "HALTED"} \/ r.quarantine # "none" THEN r
  ELSE Move([Cancel(r) EXCEPT !.quarantine = why], "HALTED")

PauseMarket(r, how) ==
  IF r.pause = "terminal" THEN r ELSE [Cancel(r) EXCEPT !.pause = how]

\* A new active REST observation under the pinned terms.
Resumable(r) ==
  /\ r.pause = "soft"
  /\ r.quarantine = "none"
  /\ r.state \notin {"HALTED", "ERROR", "CLOSED", "SETTLEMENT_PENDING"}

ResumeMarket(r) == IF Resumable(r) THEN [r EXCEPT !.pause = "none"] ELSE r

\* recover_stale_metadata, once its metadata proof holds.
Recoverable(r, halted) ==
  /\ r.quarantine = "invalid" /\ ~halted
  /\ r.pause = "none" /\ r.state = "HALTED"

RecoverStale(r) ==
  [r EXCEPT !.quarantine = "none",
            !.state = IF Open(r) THEN "POSITION_OPEN" ELSE "EVALUATING"]

PaidOut(r) == [r EXCEPT !.owed = @ - r.held]

\* Mutant: a resting entry outlives the settlement.
PayKeepingOrder(r, result) ==
  LET c == [r EXCEPT !.settled = result]
      q == IF Open(c) THEN Finish(PaidOut(Move(c, "SETTLEMENT_PENDING")))
           ELSE [c EXCEPT !.state = "CLOSED"]
  IN [q EXCEPT !.quarantine = "none", !.pause = "none"]

\* The accounting half of settle: the order is cancelled, a quarantined state
\* is escaped with its proof, the position is paid and closed.
Pay(r, result) ==
  LET c == Cancel([r EXCEPT !.settled = result])
      p == IF c.quarantine = "none" THEN c
           ELSE [c EXCEPT !.state = "SETTLEMENT_PENDING", !.ok = @ /\ c.state = "HALTED"]
      q == IF Open(p) THEN Finish(PaidOut(Move(p, "SETTLEMENT_PENDING")))
           ELSE IF p.state \in {"CLOSED", "HALTED", "ERROR"} THEN p
           ELSE Move(Move(p, "SETTLEMENT_PENDING"), "CLOSED")
  IN [q EXCEPT !.quarantine = "none", !.pause = "none"]

\* What final metadata says of the contract: nothing was read, the pinned
\* terms, other terms, or nothing that parses.
Terms == {"none", "same", "changed", "invalid"}

Attested(r, result, terms) ==
  IF terms = "none" \/ result \in r.evidence THEN r
  ELSE [r EXCEPT !.evidence = @ \cup {result}, !.newest = result]

\* A quarantined contract is paid from evidence only: final metadata that
\* agrees with it and that no other evidence contradicts, or a review.
Blocked(r, result, terms, review) ==
  r.quarantine # "none" /\ ( terms = "none"
                         \/ (~review /\ (terms = "changed" \/ r.evidence # {result})) )

\* settle.  A settled market is left as it is, whatever comes later.
Settle(r, result, terms, review) ==
  LET a == Attested(r, result, terms)
      q == IF terms \in {"changed", "invalid"} THEN Quarantine(a, "other") ELSE a
  IN CASE r.settled # "none" -> r
       [] r.settled = "none" /\ r.state \in {"ERROR", "HALTED"} /\ r.quarantine = "none" -> r
       [] OTHER ->
            IF terms = "invalid" \/ Blocked(q, result, terms, review) THEN q
            ELSE IF q.quarantine = "none" /\ review THEN [q EXCEPT !.ok = FALSE]
            ELSE Pay(q, result)

-----------------------------------------------------------------------------
\* market_trade_limit_reached.
TradeLimit(r, one) ==
  one /\ (Open(r) \/ (r.cycle > 0 /\ (r.left < Size \/ r.done \/ r.cycle > 1)))

\* reentry_ready and retry_ready, but for their cooldowns.
Unrestricted(r, halted) ==
  ~r.active /\ ~Open(r) /\ r.quarantine = "none" /\ r.pause = "none" /\ ~halted

ReentryReady(r, one, halted) ==
  ~one /\ r.cycle > 0 /\ r.done /\ Unrestricted(r, halted)

RetryReady(r, one, halted) ==
  /\ ~TradeLimit(r, one)
  /\ r.cycle > 0 /\ r.left = Size /\ Unrestricted(r, halted)
  /\ r.attempt <= Retries /\ r.cancelled /\ r.state = "ORDER_CANCELLED"

\* The cycle and the attempt of the order submit would place: its claim.
NextEntry(r, one, halted) ==
  << IF ReentryReady(r, one, halted) THEN r.cycle + 1
     ELSE IF RetryReady(r, one, halted) THEN r.cycle ELSE 1,
     IF RetryReady(r, one, halted) THEN r.attempt + 1 ELSE 1 >>

\* The rejections of submit that the account decides.  Cycles bounds it.
Submittable(r, one, halted) ==
  /\ ~TradeLimit(r, one)
  /\ r.quarantine = "none" /\ r.pause = "none" /\ ~Open(r)
  /\ \/ r.cycle = 0
     \/ RetryReady(r, one, halted)
     \/ ReentryReady(r, one, halted)
  /\ NextEntry(r, one, halted)[1] <= Cycles
  /\ NextEntry(r, one, halted) \notin r.claims

\* The rest of submit: the claim, the reservation, the order and its states.
Submit(r, one, halted) ==
  LET entry == NextEntry(r, one, halted)
      q == [r EXCEPT !.active = TRUE, !.left = Size, !.cycle = entry[1],
                     !.attempt = entry[2], !.done = FALSE, !.cancelled = FALSE,
                     !.reserved = TRUE, !.claims = @ \cup {entry}]
  IN IF RetryReady(r, one, halted)
     THEN Move(Move(Move(q, "EVALUATING"), "TRADE_CANDIDATE"), "ORDER_PENDING")
     ELSE Move(q, "ORDER_PENDING")

===============================================================================
