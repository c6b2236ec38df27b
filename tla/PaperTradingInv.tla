---------------------------- MODULE PaperTradingInv ----------------------------
(***************************************************************************)
(* Why the safety properties of PaperTrading hold: its inductive           *)
(* invariant, in named parts.  PaperTrading_proofs shows that every        *)
(* operation on an account keeps the part about one row, and every step of *)
(* the worker the whole.                                                   *)
(***************************************************************************)
EXTENDS PaperTrading

\* States in which process() does nothing more with a market.
Shut == {"CLOSED", "ERROR", "HALTED", "SETTLEMENT_PENDING"}

(***************************************************************************)
(* One account.  RowAgrees is not inductive by itself: that a fill never   *)
(* exceeds the order needs the order's contracts to add up, and that a     *)
(* cycle opens one position needs that an unfilled cycle opened none.      *)
(***************************************************************************)
OrderAddsUp(r) == r.active => r.cycle > 0 /\ r.left + r.bought = Size

CycleSpent(r, one) ==
  /\ r.opened <= r.cycle
  /\ r.cycle > 0 /\ r.left = Size => r.opened < r.cycle
  /\ one => r.cycle <= 1

RowInv(r, full, one) ==
  /\ r \in Row /\ r.ok
  /\ RowAgrees(r, full)
  /\ r.held <= r.bought /\ r.owed = r.held
  /\ OrderAddsUp(r)
  /\ CycleSpent(r, one)

Flat(r) == r.settled # "none" => ~r.active /\ ~Open(r)

Accounts ==
  \A m \in Markets : RowInv(db[m], config.full, config.oneTrade) /\ Flat(db[m])

(* Every transaction saves the portfolio it leaves in memory, and the      *)
(* collector's lease keeps a recovery away from a running worker.          *)
MemorySaved ==
  /\ mem = [m \in Markets |-> Portfolio(db[m])]
  /\ collector = "free" => worker = "down"
  /\ worker = "down" => turn = Idle

(* Settlement is asked for, and paid, after the close only.                *)
SettledLate ==
  \A m \in Markets :
    db[m].settled # "none" \/ db[m].state = "SETTLEMENT_PENDING" => closed[m]

(* What a sale may still be matched with was never sold against.           *)
DepthCovered ==
  \A m \in Markets : credit[m] >= 0 /\ credit[m] >= shown[m] - db[m].consumed

(* The market a row is inside of.  Nothing but the row itself moves it on, *)
(* and an entry that was healthy when it was evaluated still is.           *)
Inside == {"decide", "decided", "match", "manage", "submit", "refuse"}

TurnAgrees ==
  LET m == turn.m IN
  /\ turn.pc = "discover" => m \in Markets /\ db[m].state \in {"DISCOVER_MARKET", "VALIDATE_MARKET"}
  /\ turn.pc \in Inside => m \in Markets /\ db[m].state \notin Shut /\ db[m].settled = "none"
  /\ turn.pc \in {"decide", "decided"} => turn.decision \in Decisions
  /\ turn.pc = "decided" => db[m].state = "EVALUATING"
  /\ turn.pc \in Inside /\ turn.entry => healthy /\ valid[m] /\ ~risk.halted

PaperTypes ==
  /\ config \in Configs
  /\ db \in [Markets -> Row]
  /\ risk \in [halted : BOOLEAN, today : 0 .. Daily]
  /\ healthy \in BOOLEAN /\ valid \in [Markets -> BOOLEAN]
  /\ shown \in [Markets -> 0 .. Depth] /\ credit \in [Markets -> Int]
  /\ closed \in [Markets -> BOOLEAN]
  /\ loop \subseteq Markets /\ waiting \subseteq Markets
  /\ turn \in Turn
  /\ worker \in {"down", "up"} /\ collector \in {"free", "held"}

PaperInv ==
  /\ PaperTypes /\ Accounts /\ MemorySaved /\ SettledLate
  /\ DepthCovered /\ TurnAgrees /\ NoOrderOutlivesItsFeed

===============================================================================
