-------------------------- MODULE PaperTrading_proofs --------------------------
(***************************************************************************)
(* Every step of PaperTrading keeps PaperInv, and with it the properties   *)
(* of the paper worker.  First the account: what each update does to the   *)
(* fields of a record, and that every operation of PaperPortfolio, from    *)
(* cancel to settle, keeps RowInv.  Then the worker: a step is described   *)
(* by what it does to the accounts (Gentle: what those operations keep),   *)
(* to the feed the orders rest on (Fed), to the types (Typed), to the      *)
(* leases (Leased) and to the row being processed (Parked).                *)
(***************************************************************************)
EXTENDS PaperTradingInv, TLAPS

SameOrder(q, r) ==
  q.active = r.active /\ q.left = r.left /\ q.cancelled = r.cancelled
SameEntry(q, r) ==
  /\ q.cycle = r.cycle /\ q.attempt = r.attempt /\ q.done = r.done
  /\ q.claims = r.claims /\ q.opened = r.opened
SamePosition(q, r) ==
  q.held = r.held /\ q.bought = r.bought /\ q.exit = r.exit /\ q.owed = r.owed
SameMarket(q, r) ==
  q.state = r.state /\ q.ok = r.ok
SameGuards(q, r) ==
  q.quarantine = r.quarantine /\ q.pause = r.pause
SameRisk(q, r) ==
  q.reserved = r.reserved /\ q.consumed = r.consumed
SameEnd(q, r) ==
  q.settled = r.settled /\ q.evidence = r.evidence /\ q.newest = r.newest

-----------------------------------------------------------------------------
(* Records. *)

\* The types of the fields of an account.
LEMMA RowTypes ==
  ASSUME NEW r \in Row
  PROVE
    /\ r.active \in BOOLEAN
    /\ r.left \in 0 .. Size
    /\ r.cycle \in 0 .. Cycles
    /\ r.attempt \in Attempts
    /\ r.done \in BOOLEAN
    /\ r.cancelled \in BOOLEAN
    /\ r.held \in 0 .. Size
    /\ r.bought \in 0 .. Size
    /\ r.exit \in Exits \cup {"none"}
    /\ r.reserved \in BOOLEAN
    /\ r.consumed \in 0 .. Depth
    /\ r.quarantine \in {"none", "invalid", "other"}
    /\ r.pause \in Pauses \cup {"none"}
    /\ r.state \in States
    /\ r.claims \in SUBSET ((1 .. Cycles) \X Attempts)
    /\ r.owed \in Int
    /\ r.opened \in Nat
    /\ r.settled \in Outcomes \cup {"none"}
    /\ r.evidence \in SUBSET Outcomes
    /\ r.newest \in Outcomes \cup {"none"}
    /\ r.ok \in BOOLEAN
BY DEF Row

\* The numbers among them.
LEMMA RowNumbers ==
  ASSUME NEW r \in Row
  PROVE /\ r.left \in Int /\ r.held \in Int /\ r.bought \in Int /\ r.consumed \in Int
        /\ r.cycle \in Int /\ r.owed \in Int /\ r.opened \in Int /\ Size \in Int
        /\ 0 <= r.left /\ r.left <= Size /\ 0 <= r.held /\ r.held <= Size
        /\ 0 <= r.bought /\ r.bought <= Size /\ 0 <= r.consumed
        /\ r.consumed <= Depth
        /\ 0 <= r.cycle /\ r.cycle <= Cycles /\ 0 <= r.opened /\ 0 < Size
        /\ Depth \in Int /\ 0 <= Depth
<1>1. /\ r.left \in 0 .. Size /\ r.held \in 0 .. Size /\ r.bought \in 0 .. Size
      /\ r.consumed \in 0 .. Depth /\ r.cycle \in 0 .. Cycles /\ r.owed \in Int
      /\ r.opened \in Nat
  BY Zenon, RowTypes
<1> QED BY <1>1, PortfolioAssumption

\* An account stays one when a field gets a value of its type.
LEMMA RowUpdate ==
  ASSUME NEW r \in Row
  PROVE
    /\ \A v \in BOOLEAN : [r EXCEPT !.active = v] \in Row
    /\ \A v \in 0 .. Size : [r EXCEPT !.left = v] \in Row
    /\ \A v \in 0 .. Cycles : [r EXCEPT !.cycle = v] \in Row
    /\ \A v \in Attempts : [r EXCEPT !.attempt = v] \in Row
    /\ \A v \in BOOLEAN : [r EXCEPT !.done = v] \in Row
    /\ \A v \in BOOLEAN : [r EXCEPT !.cancelled = v] \in Row
    /\ \A v \in 0 .. Size : [r EXCEPT !.held = v] \in Row
    /\ \A v \in 0 .. Size : [r EXCEPT !.bought = v] \in Row
    /\ \A v \in Exits \cup {"none"} : [r EXCEPT !.exit = v] \in Row
    /\ \A v \in BOOLEAN : [r EXCEPT !.reserved = v] \in Row
    /\ \A v \in 0 .. Depth : [r EXCEPT !.consumed = v] \in Row
    /\ \A v \in {"none", "invalid", "other"} : [r EXCEPT !.quarantine = v] \in Row
    /\ \A v \in Pauses \cup {"none"} : [r EXCEPT !.pause = v] \in Row
    /\ \A v \in States : [r EXCEPT !.state = v] \in Row
    /\ \A v \in SUBSET ((1 .. Cycles) \X Attempts) : [r EXCEPT !.claims = v] \in Row
    /\ \A v \in Int : [r EXCEPT !.owed = v] \in Row
    /\ \A v \in Nat : [r EXCEPT !.opened = v] \in Row
    /\ \A v \in Outcomes \cup {"none"} : [r EXCEPT !.settled = v] \in Row
    /\ \A v \in SUBSET Outcomes : [r EXCEPT !.evidence = v] \in Row
    /\ \A v \in Outcomes \cup {"none"} : [r EXCEPT !.newest = v] \in Row
    /\ \A v \in BOOLEAN : [r EXCEPT !.ok = v] \in Row
<1>1. \A v \in BOOLEAN : [r EXCEPT !.active = v] \in Row
  BY ZenonT(60) DEF Row
<1>2. \A v \in 0 .. Size : [r EXCEPT !.left = v] \in Row
  BY ZenonT(60) DEF Row
<1>3. \A v \in 0 .. Cycles : [r EXCEPT !.cycle = v] \in Row
  BY ZenonT(60) DEF Row
<1>4. \A v \in Attempts : [r EXCEPT !.attempt = v] \in Row
  BY ZenonT(60) DEF Row
<1>5. \A v \in BOOLEAN : [r EXCEPT !.done = v] \in Row
  BY ZenonT(60) DEF Row
<1>6. \A v \in BOOLEAN : [r EXCEPT !.cancelled = v] \in Row
  BY ZenonT(60) DEF Row
<1>7. \A v \in 0 .. Size : [r EXCEPT !.held = v] \in Row
  BY ZenonT(60) DEF Row
<1>8. \A v \in 0 .. Size : [r EXCEPT !.bought = v] \in Row
  BY ZenonT(60) DEF Row
<1>9. \A v \in Exits \cup {"none"} : [r EXCEPT !.exit = v] \in Row
  BY ZenonT(60) DEF Row
<1>10. \A v \in BOOLEAN : [r EXCEPT !.reserved = v] \in Row
  BY ZenonT(60) DEF Row
<1>11. \A v \in 0 .. Depth : [r EXCEPT !.consumed = v] \in Row
  BY ZenonT(60) DEF Row
<1>12. \A v \in {"none", "invalid", "other"} : [r EXCEPT !.quarantine = v] \in Row
  BY ZenonT(60) DEF Row
<1>13. \A v \in Pauses \cup {"none"} : [r EXCEPT !.pause = v] \in Row
  BY ZenonT(60) DEF Row
<1>14. \A v \in States : [r EXCEPT !.state = v] \in Row
  BY ZenonT(60) DEF Row
<1>15. \A v \in SUBSET ((1 .. Cycles) \X Attempts) : [r EXCEPT !.claims = v] \in Row
  BY ZenonT(60) DEF Row
<1>16. \A v \in Int : [r EXCEPT !.owed = v] \in Row
  BY ZenonT(60) DEF Row
<1>17. \A v \in Nat : [r EXCEPT !.opened = v] \in Row
  BY ZenonT(60) DEF Row
<1>18. \A v \in Outcomes \cup {"none"} : [r EXCEPT !.settled = v] \in Row
  BY ZenonT(60) DEF Row
<1>19. \A v \in SUBSET Outcomes : [r EXCEPT !.evidence = v] \in Row
  BY ZenonT(60) DEF Row
<1>20. \A v \in Outcomes \cup {"none"} : [r EXCEPT !.newest = v] \in Row
  BY ZenonT(60) DEF Row
<1>21. \A v \in BOOLEAN : [r EXCEPT !.ok = v] \in Row
  BY ZenonT(60) DEF Row
<1> QED BY <1>1, <1>2, <1>3, <1>4, <1>5, <1>6, <1>7, <1>8, <1>9, <1>10, <1>11,
    <1>12, <1>13, <1>14, <1>15, <1>16, <1>17, <1>18, <1>19, <1>20, <1>21

\* The cycles an order may have.
Ordinals == 1 .. Cycles

\* An order is taken off.
TakenOff(r) ==
  [r EXCEPT !.active = FALSE, !.cancelled = TRUE]

LEMMA CancelFields ==
  ASSUME NEW r \in Row
  PROVE LET q == TakenOff(r) IN
        /\ q \in Row
        /\ ~q.active /\ q.cancelled
        /\ q.left = r.left /\ SameEntry(q, r) /\ SamePosition(q, r)
        /\ SameMarket(q, r) /\ SameGuards(q, r) /\ SameRisk(q, r) /\ SameEnd(q, r)
<1> DEFINE q == TakenOff(r)
           q1 == [r EXCEPT !.active = FALSE]
           q2 == [q1 EXCEPT !.cancelled = TRUE]
<1>1. FALSE \in BOOLEAN /\ TRUE \in BOOLEAN
  BY RowTypes
<1>2. q = q2
  BY Zenon DEF Row, TakenOff
<1>3. q1 \in Row
  BY <1>1, RowUpdate
<1> HIDE DEF q1
<1>4. q2 \in Row
  BY <1>1, <1>3, RowUpdate
<1> HIDE DEF q2
<1>5. /\ ~q.active /\ q.cancelled /\ q.left = r.left /\ SameEntry(q, r)
      /\ SamePosition(q, r) /\ SameMarket(q, r) /\ SameGuards(q, r)
      /\ SameRisk(q, r) /\ SameEnd(q, r)
  BY Zenon DEF Row, TakenOff, SameEntry, SamePosition, SameMarket, SameGuards,
      SameRisk, SameEnd
<1> QED BY <1>2, <1>4, <1>5

\* The reservation is set or returned.
Reserve(r, b) ==
  [r EXCEPT !.reserved = b]

LEMMA ReservedField ==
  ASSUME NEW r \in Row, NEW b \in BOOLEAN
  PROVE LET q == Reserve(r, b) IN
        /\ q \in Row
        /\ q.reserved = b
        /\ SameOrder(q, r) /\ SameEntry(q, r) /\ SamePosition(q, r)
        /\ SameMarket(q, r) /\ SameGuards(q, r) /\ q.consumed = r.consumed
        /\ SameEnd(q, r)
<1> DEFINE q == Reserve(r, b)
           q1 == [r EXCEPT !.reserved = b]
<1>1. b \in BOOLEAN
  BY RowTypes
<1>2. q = q1
  BY Zenon DEF Row, Reserve
<1>3. q1 \in Row
  BY <1>1, RowUpdate
<1> HIDE DEF q1
<1>4. /\ q.reserved = b /\ SameOrder(q, r) /\ SameEntry(q, r)
      /\ SamePosition(q, r) /\ SameMarket(q, r) /\ SameGuards(q, r)
      /\ q.consumed = r.consumed /\ SameEnd(q, r)
  BY Zenon DEF Row, Reserve, SameOrder, SameEntry, SamePosition, SameMarket,
      SameGuards, SameEnd
<1> QED BY <1>2, <1>3, <1>4

\* An intent is saved or cleared.
WithExit(r, e) ==
  [r EXCEPT !.exit = e]

LEMMA ExitField ==
  ASSUME NEW r \in Row, NEW e \in Exits \cup {"none"}
  PROVE LET q == WithExit(r, e) IN
        /\ q \in Row
        /\ q.exit = e
        /\ SameOrder(q, r) /\ SameEntry(q, r) /\ q.held = r.held
        /\ q.bought = r.bought /\ q.owed = r.owed /\ SameMarket(q, r)
        /\ SameGuards(q, r) /\ SameRisk(q, r) /\ SameEnd(q, r)
<1> DEFINE q == WithExit(r, e)
           q1 == [r EXCEPT !.exit = e]
<1>1. e \in Exits \cup {"none"}
  BY RowTypes
<1>2. q = q1
  BY Zenon DEF Row, WithExit
<1>3. q1 \in Row
  BY <1>1, RowUpdate
<1> HIDE DEF q1
<1>4. /\ q.exit = e /\ SameOrder(q, r) /\ SameEntry(q, r) /\ q.held = r.held
      /\ q.bought = r.bought /\ q.owed = r.owed /\ SameMarket(q, r)
      /\ SameGuards(q, r) /\ SameRisk(q, r) /\ SameEnd(q, r)
  BY Zenon DEF Row, WithExit, SameOrder, SameEntry, SameMarket, SameGuards,
      SameRisk, SameEnd
<1> QED BY <1>2, <1>3, <1>4

\* The consumed depth is set.
WithConsumed(r, n) ==
  [r EXCEPT !.consumed = n]

LEMMA ConsumedField ==
  ASSUME NEW r \in Row, NEW n \in 0 .. Depth
  PROVE LET q == WithConsumed(r, n) IN
        /\ q \in Row
        /\ q.consumed = n
        /\ SameOrder(q, r) /\ SameEntry(q, r) /\ SamePosition(q, r)
        /\ SameMarket(q, r) /\ SameGuards(q, r) /\ q.reserved = r.reserved
        /\ SameEnd(q, r)
<1> DEFINE q == WithConsumed(r, n)
           q1 == [r EXCEPT !.consumed = n]
<1>1. n \in 0 .. Depth
  BY RowTypes
<1>2. q = q1
  BY Zenon DEF Row, WithConsumed
<1>3. q1 \in Row
  BY <1>1, RowUpdate
<1> HIDE DEF q1
<1>4. /\ q.consumed = n /\ SameOrder(q, r) /\ SameEntry(q, r)
      /\ SamePosition(q, r) /\ SameMarket(q, r) /\ SameGuards(q, r)
      /\ q.reserved = r.reserved /\ SameEnd(q, r)
  BY Zenon DEF Row, WithConsumed, SameOrder, SameEntry, SamePosition,
      SameMarket, SameGuards, SameEnd
<1> QED BY <1>2, <1>3, <1>4

\* A quarantine is set.
WithQuarantine(r, w) ==
  [r EXCEPT !.quarantine = w]

LEMMA QuarantineField ==
  ASSUME NEW r \in Row, NEW w \in {"none", "invalid", "other"}
  PROVE LET q == WithQuarantine(r, w) IN
        /\ q \in Row
        /\ q.quarantine = w
        /\ SameOrder(q, r) /\ SameEntry(q, r) /\ SamePosition(q, r)
        /\ SameMarket(q, r) /\ q.pause = r.pause /\ SameRisk(q, r)
        /\ SameEnd(q, r)
<1> DEFINE q == WithQuarantine(r, w)
           q1 == [r EXCEPT !.quarantine = w]
<1>1. w \in {"none", "invalid", "other"}
  BY RowTypes
<1>2. q = q1
  BY Zenon DEF Row, WithQuarantine
<1>3. q1 \in Row
  BY <1>1, RowUpdate
<1> HIDE DEF q1
<1>4. /\ q.quarantine = w /\ SameOrder(q, r) /\ SameEntry(q, r)
      /\ SamePosition(q, r) /\ SameMarket(q, r) /\ q.pause = r.pause
      /\ SameRisk(q, r) /\ SameEnd(q, r)
  BY Zenon DEF Row, WithQuarantine, SameOrder, SameEntry, SamePosition,
      SameMarket, SameRisk, SameEnd
<1> QED BY <1>2, <1>3, <1>4

\* A pause is set or lifted.
WithPause(r, p) ==
  [r EXCEPT !.pause = p]

LEMMA PauseField ==
  ASSUME NEW r \in Row, NEW p \in Pauses \cup {"none"}
  PROVE LET q == WithPause(r, p) IN
        /\ q \in Row
        /\ q.pause = p
        /\ SameOrder(q, r) /\ SameEntry(q, r) /\ SamePosition(q, r)
        /\ SameMarket(q, r) /\ q.quarantine = r.quarantine /\ SameRisk(q, r)
        /\ SameEnd(q, r)
<1> DEFINE q == WithPause(r, p)
           q1 == [r EXCEPT !.pause = p]
<1>1. p \in Pauses \cup {"none"}
  BY RowTypes
<1>2. q = q1
  BY Zenon DEF Row, WithPause
<1>3. q1 \in Row
  BY <1>1, RowUpdate
<1> HIDE DEF q1
<1>4. /\ q.pause = p /\ SameOrder(q, r) /\ SameEntry(q, r) /\ SamePosition(q, r)
      /\ SameMarket(q, r) /\ q.quarantine = r.quarantine /\ SameRisk(q, r)
      /\ SameEnd(q, r)
  BY Zenon DEF Row, WithPause, SameOrder, SameEntry, SamePosition, SameMarket,
      SameRisk, SameEnd
<1> QED BY <1>2, <1>3, <1>4

\* The result is saved.
WithResult(r, o) ==
  [r EXCEPT !.settled = o]

LEMMA SettledField ==
  ASSUME NEW r \in Row, NEW o \in Outcomes
  PROVE LET q == WithResult(r, o) IN
        /\ q \in Row
        /\ q.settled = o
        /\ SameOrder(q, r) /\ SameEntry(q, r) /\ SamePosition(q, r)
        /\ SameMarket(q, r) /\ SameGuards(q, r) /\ SameRisk(q, r)
        /\ q.evidence = r.evidence /\ q.newest = r.newest
<1> DEFINE q == WithResult(r, o)
           q1 == [r EXCEPT !.settled = o]
<1>1. o \in Outcomes \cup {"none"}
  BY RowTypes
<1>2. q = q1
  BY Zenon DEF Row, WithResult
<1>3. q1 \in Row
  BY <1>1, RowUpdate
<1> HIDE DEF q1
<1>4. /\ q.settled = o /\ SameOrder(q, r) /\ SameEntry(q, r) /\ SamePosition(q, r)
      /\ SameMarket(q, r) /\ SameGuards(q, r) /\ SameRisk(q, r)
      /\ q.evidence = r.evidence /\ q.newest = r.newest
  BY Zenon DEF Row, WithResult, SameOrder, SameEntry, SamePosition, SameMarket,
      SameGuards, SameRisk
<1> QED BY <1>2, <1>3, <1>4

\* Evidence is added.
WithEvidence(r, o) ==
  [r EXCEPT !.evidence = @ \cup {o}, !.newest = o]

LEMMA EvidenceFields ==
  ASSUME NEW r \in Row, NEW o \in Outcomes
  PROVE LET q == WithEvidence(r, o) IN
        /\ q \in Row
        /\ q.evidence = r.evidence \cup {o} /\ q.newest = o
        /\ SameOrder(q, r) /\ SameEntry(q, r) /\ SamePosition(q, r)
        /\ SameMarket(q, r) /\ SameGuards(q, r) /\ SameRisk(q, r)
        /\ q.settled = r.settled
<1> DEFINE q == WithEvidence(r, o)
           q1 == [r EXCEPT !.evidence = r.evidence \cup {o}]
           q2 == [q1 EXCEPT !.newest = o]
<1>1. r.evidence \cup {o} \in SUBSET Outcomes /\ o \in Outcomes \cup {"none"}
  BY RowTypes
<1>2. q = q2
  BY Zenon DEF Row, WithEvidence
<1>3. q1 \in Row
  BY <1>1, RowUpdate
<1> HIDE DEF q1
<1>4. q2 \in Row
  BY <1>1, <1>3, RowUpdate
<1> HIDE DEF q2
<1>5. /\ q.evidence = r.evidence \cup {o} /\ q.newest = o /\ SameOrder(q, r)
      /\ SameEntry(q, r) /\ SamePosition(q, r) /\ SameMarket(q, r)
      /\ SameGuards(q, r) /\ SameRisk(q, r) /\ q.settled = r.settled
  BY Zenon DEF Row, WithEvidence, SameOrder, SameEntry, SamePosition,
      SameMarket, SameGuards, SameRisk
<1> QED BY <1>2, <1>4, <1>5

\* The state changes.
LEMMA MoveFields ==
  ASSUME NEW r \in Row, NEW s \in States
  PROVE LET q == Move(r, s) IN
        /\ q \in Row
        /\ q.state = s /\ q.ok = (r.ok /\ Legal(r.state, s))
        /\ SameOrder(q, r) /\ SameEntry(q, r) /\ SamePosition(q, r)
        /\ SameGuards(q, r) /\ SameRisk(q, r) /\ SameEnd(q, r)
<1> DEFINE q == Move(r, s)
           q1 == [r EXCEPT !.state = s]
           q2 == [q1 EXCEPT !.ok = (r.ok /\ Legal(r.state, s))]
<1>1. s \in States /\ (r.ok /\ Legal(r.state, s)) \in BOOLEAN
  BY RowTypes
<1>2. q = q2
  BY Zenon DEF Row, Move
<1>3. q1 \in Row
  BY <1>1, RowUpdate
<1> HIDE DEF q1
<1>4. q2 \in Row
  BY <1>1, <1>3, RowUpdate
<1> HIDE DEF q2
<1>5. /\ q.state = s /\ q.ok = (r.ok /\ Legal(r.state, s)) /\ SameOrder(q, r)
      /\ SameEntry(q, r) /\ SamePosition(q, r) /\ SameGuards(q, r)
      /\ SameRisk(q, r) /\ SameEnd(q, r)
  BY Zenon DEF Row, Move, SameOrder, SameEntry, SamePosition, SameGuards,
      SameRisk, SameEnd
<1> QED BY <1>2, <1>4, <1>5

\* A quarantined state is escaped with its proof.
Escaped(r) ==
  [r EXCEPT !.state = "SETTLEMENT_PENDING", !.ok = @ /\ r.state = "HALTED"]

LEMMA EscapeFields ==
  ASSUME NEW r \in Row
  PROVE LET q == Escaped(r) IN
        /\ q \in Row
        /\ q.state = "SETTLEMENT_PENDING" /\ q.ok = (r.ok /\ r.state = "HALTED")
        /\ SameOrder(q, r) /\ SameEntry(q, r) /\ SamePosition(q, r)
        /\ SameGuards(q, r) /\ SameRisk(q, r) /\ SameEnd(q, r)
<1> DEFINE q == Escaped(r)
           q1 == [r EXCEPT !.state = "SETTLEMENT_PENDING"]
           q2 == [q1 EXCEPT !.ok = (r.ok /\ r.state = "HALTED")]
<1>1. "SETTLEMENT_PENDING" \in States /\ (r.ok /\ r.state = "HALTED") \in BOOLEAN
  BY SMT DEF States
<1>2. q = q2
  BY Zenon DEF Row, Escaped
<1>3. q1 \in Row
  BY <1>1, RowUpdate
<1> HIDE DEF q1
<1>4. q2 \in Row
  BY <1>1, <1>3, RowUpdate
<1> HIDE DEF q2
<1>5. /\ q.state = "SETTLEMENT_PENDING" /\ q.ok = (r.ok /\ r.state = "HALTED")
      /\ SameOrder(q, r) /\ SameEntry(q, r) /\ SamePosition(q, r)
      /\ SameGuards(q, r) /\ SameRisk(q, r) /\ SameEnd(q, r)
  BY Zenon DEF Row, Escaped, SameOrder, SameEntry, SamePosition, SameGuards,
      SameRisk, SameEnd
<1> QED BY <1>2, <1>4, <1>5

\* A fill of n contracts.
Filled(r, n) ==
  [r EXCEPT !.active = r.left > n, !.left = @ - n, !.held = @ + n, !.bought = @
           + n, !.owed = @ + n, !.opened = @ + (IF Open(r) THEN 0 ELSE 1)]

LEMMA FillFields ==
  ASSUME NEW r \in Row, NEW n \in 1 .. r.left, r.held + n <= Size, r.bought + n <= Size
  PROVE LET q == Filled(r, n) IN
        /\ q \in Row
        /\ q.active = (r.left > n) /\ q.left = (r.left - n)
        /\ q.held = (r.held + n) /\ q.bought = (r.bought + n)
        /\ q.owed = (r.owed + n)
        /\ q.opened = (r.opened + (IF Open(r) THEN 0 ELSE 1))
        /\ q.cancelled = r.cancelled /\ q.cycle = r.cycle /\ q.attempt = r.attempt
        /\ q.done = r.done /\ q.claims = r.claims /\ q.exit = r.exit
        /\ SameMarket(q, r) /\ SameGuards(q, r) /\ SameRisk(q, r) /\ SameEnd(q, r)
<1> DEFINE q == Filled(r, n)
           q1 == [r EXCEPT !.active = (r.left > n)]
           q2 == [q1 EXCEPT !.left = (r.left - n)]
           q3 == [q2 EXCEPT !.held = (r.held + n)]
           q4 == [q3 EXCEPT !.bought = (r.bought + n)]
           q5 == [q4 EXCEPT !.owed = (r.owed + n)]
           q6 == [q5 EXCEPT !.opened = (r.opened + (IF Open(r) THEN 0 ELSE 1))]
<1>1. /\ (r.left > n) \in BOOLEAN /\ (r.left - n) \in 0 .. Size
      /\ (r.held + n) \in 0 .. Size /\ (r.bought + n) \in 0 .. Size
      /\ (r.owed + n) \in Int /\ (r.opened + (IF Open(r) THEN 0 ELSE 1)) \in Nat
  BY RowNumbers, SMT DEF Open
<1>2. q = q6
  BY Zenon DEF Row, Filled
<1>3. q1 \in Row
  BY <1>1, RowUpdate
<1> HIDE DEF q1
<1>4. q2 \in Row
  BY <1>1, <1>3, RowUpdate
<1> HIDE DEF q2
<1>5. q3 \in Row
  BY <1>1, <1>4, RowUpdate
<1> HIDE DEF q3
<1>6. q4 \in Row
  BY <1>1, <1>5, RowUpdate
<1> HIDE DEF q4
<1>7. q5 \in Row
  BY <1>1, <1>6, RowUpdate
<1> HIDE DEF q5
<1>8. q6 \in Row
  BY <1>1, <1>7, RowUpdate
<1> HIDE DEF q6
<1>9. /\ q.active = (r.left > n) /\ q.left = (r.left - n) /\ q.held = (r.held + n)
      /\ q.bought = (r.bought + n) /\ q.owed = (r.owed + n)
      /\ q.opened = (r.opened + (IF Open(r) THEN 0 ELSE 1))
      /\ q.cancelled = r.cancelled /\ q.cycle = r.cycle /\ q.attempt = r.attempt
      /\ q.done = r.done /\ q.claims = r.claims /\ q.exit = r.exit
      /\ SameMarket(q, r) /\ SameGuards(q, r) /\ SameRisk(q, r) /\ SameEnd(q, r)
  BY Zenon DEF Row, Filled, SameMarket, SameGuards, SameRisk, SameEnd
<1> QED BY <1>2, <1>8, <1>9

\* The position is closed.
Emptied(r) ==
  [r EXCEPT !.held = 0, !.bought = 0, !.exit = "none", !.reserved = FALSE,
           !.done = TRUE]

LEMMA FinishFields ==
  ASSUME NEW r \in Row
  PROVE LET q == Emptied(r) IN
        /\ q \in Row
        /\ q.held = 0 /\ q.bought = 0 /\ q.exit = "none" /\ ~q.reserved /\ q.done
        /\ SameOrder(q, r) /\ q.cycle = r.cycle /\ q.attempt = r.attempt
        /\ q.claims = r.claims /\ q.opened = r.opened /\ q.owed = r.owed
        /\ SameMarket(q, r) /\ SameGuards(q, r) /\ q.consumed = r.consumed
        /\ SameEnd(q, r)
<1> DEFINE q == Emptied(r)
           q1 == [r EXCEPT !.held = 0]
           q2 == [q1 EXCEPT !.bought = 0]
           q3 == [q2 EXCEPT !.exit = "none"]
           q4 == [q3 EXCEPT !.reserved = FALSE]
           q5 == [q4 EXCEPT !.done = TRUE]
<1>1. /\ 0 \in 0 .. Size /\ 0 \in 0 .. Size /\ "none" \in Exits \cup {"none"}
      /\ FALSE \in BOOLEAN /\ TRUE \in BOOLEAN
  BY RowNumbers, SMT
<1>2. q = q5
  BY Zenon DEF Row, Emptied
<1>3. q1 \in Row
  BY <1>1, RowUpdate
<1> HIDE DEF q1
<1>4. q2 \in Row
  BY <1>1, <1>3, RowUpdate
<1> HIDE DEF q2
<1>5. q3 \in Row
  BY <1>1, <1>4, RowUpdate
<1> HIDE DEF q3
<1>6. q4 \in Row
  BY <1>1, <1>5, RowUpdate
<1> HIDE DEF q4
<1>7. q5 \in Row
  BY <1>1, <1>6, RowUpdate
<1> HIDE DEF q5
<1>8. /\ q.held = 0 /\ q.bought = 0 /\ q.exit = "none" /\ ~q.reserved /\ q.done
      /\ SameOrder(q, r) /\ q.cycle = r.cycle /\ q.attempt = r.attempt
      /\ q.claims = r.claims /\ q.opened = r.opened /\ q.owed = r.owed
      /\ SameMarket(q, r) /\ SameGuards(q, r) /\ q.consumed = r.consumed
      /\ SameEnd(q, r)
  BY Zenon DEF Row, Emptied, SameOrder, SameMarket, SameGuards, SameEnd
<1> QED BY <1>2, <1>7, <1>8

\* A sale of n contracts.
Sold(r, n) ==
  [r EXCEPT !.held = @ - n, !.owed = @ - n, !.consumed = @ + n]

LEMMA SellFields ==
  ASSUME NEW r \in Row, NEW n \in 0 .. r.held, r.consumed + n <= Depth
  PROVE LET q == Sold(r, n) IN
        /\ q \in Row
        /\ q.held = (r.held - n) /\ q.owed = (r.owed - n)
        /\ q.consumed = (r.consumed + n)
        /\ SameOrder(q, r) /\ SameEntry(q, r) /\ q.bought = r.bought
        /\ q.exit = r.exit /\ SameMarket(q, r) /\ SameGuards(q, r)
        /\ q.reserved = r.reserved /\ SameEnd(q, r)
<1> DEFINE q == Sold(r, n)
           q1 == [r EXCEPT !.held = (r.held - n)]
           q2 == [q1 EXCEPT !.owed = (r.owed - n)]
           q3 == [q2 EXCEPT !.consumed = (r.consumed + n)]
<1>1. /\ (r.held - n) \in 0 .. Size /\ (r.owed - n) \in Int
      /\ (r.consumed + n) \in 0 .. Depth
  BY RowNumbers, SMT
<1>2. q = q3
  BY Zenon DEF Row, Sold
<1>3. q1 \in Row
  BY <1>1, RowUpdate
<1> HIDE DEF q1
<1>4. q2 \in Row
  BY <1>1, <1>3, RowUpdate
<1> HIDE DEF q2
<1>5. q3 \in Row
  BY <1>1, <1>4, RowUpdate
<1> HIDE DEF q3
<1>6. /\ q.held = (r.held - n) /\ q.owed = (r.owed - n)
      /\ q.consumed = (r.consumed + n) /\ SameOrder(q, r) /\ SameEntry(q, r)
      /\ q.bought = r.bought /\ q.exit = r.exit /\ SameMarket(q, r)
      /\ SameGuards(q, r) /\ q.reserved = r.reserved /\ SameEnd(q, r)
  BY Zenon DEF Row, Sold, SameOrder, SameEntry, SameMarket, SameGuards, SameEnd
<1> QED BY <1>2, <1>5, <1>6

\* The settlement pays what is held.
LEMMA PaidField ==
  ASSUME NEW r \in Row
  PROVE LET q == PaidOut(r) IN
        /\ q \in Row
        /\ q.owed = (r.owed - r.held)
        /\ SameOrder(q, r) /\ SameEntry(q, r) /\ q.held = r.held
        /\ q.bought = r.bought /\ q.exit = r.exit /\ SameMarket(q, r)
        /\ SameGuards(q, r) /\ SameRisk(q, r) /\ SameEnd(q, r)
<1> DEFINE q == PaidOut(r)
           q1 == [r EXCEPT !.owed = (r.owed - r.held)]
<1>1. (r.owed - r.held) \in Int
  BY RowNumbers, SMT
<1>2. q = q1
  BY Zenon DEF Row, PaidOut
<1>3. q1 \in Row
  BY <1>1, RowUpdate
<1> HIDE DEF q1
<1>4. /\ q.owed = (r.owed - r.held) /\ SameOrder(q, r) /\ SameEntry(q, r)
      /\ q.held = r.held /\ q.bought = r.bought /\ q.exit = r.exit
      /\ SameMarket(q, r) /\ SameGuards(q, r) /\ SameRisk(q, r) /\ SameEnd(q, r)
  BY Zenon DEF Row, PaidOut, SameOrder, SameEntry, SameMarket, SameGuards,
      SameRisk, SameEnd
<1> QED BY <1>2, <1>3, <1>4

\* Settlement lifts quarantine and pause.
Released(r) ==
  [r EXCEPT !.quarantine = "none", !.pause = "none"]

LEMMA ReleaseFields ==
  ASSUME NEW r \in Row
  PROVE LET q == Released(r) IN
        /\ q \in Row
        /\ q.quarantine = "none" /\ q.pause = "none"
        /\ SameOrder(q, r) /\ SameEntry(q, r) /\ SamePosition(q, r)
        /\ SameMarket(q, r) /\ SameRisk(q, r) /\ SameEnd(q, r)
<1> DEFINE q == Released(r)
           q1 == [r EXCEPT !.quarantine = "none"]
           q2 == [q1 EXCEPT !.pause = "none"]
<1>1. "none" \in {"none", "invalid", "other"} /\ "none" \in Pauses \cup {"none"}
  BY RowTypes
<1>2. q = q2
  BY Zenon DEF Row, Released
<1>3. q1 \in Row
  BY <1>1, RowUpdate
<1> HIDE DEF q1
<1>4. q2 \in Row
  BY <1>1, <1>3, RowUpdate
<1> HIDE DEF q2
<1>5. /\ q.quarantine = "none" /\ q.pause = "none" /\ SameOrder(q, r)
      /\ SameEntry(q, r) /\ SamePosition(q, r) /\ SameMarket(q, r)
      /\ SameRisk(q, r) /\ SameEnd(q, r)
  BY Zenon DEF Row, Released, SameOrder, SameEntry, SamePosition, SameMarket,
      SameRisk, SameEnd
<1> QED BY <1>2, <1>4, <1>5

\* A quarantine ends in a state of its own.
Freed(r, s) ==
  [r EXCEPT !.quarantine = "none", !.state = s]

LEMMA RecoverFields ==
  ASSUME NEW r \in Row, NEW s \in States
  PROVE LET q == Freed(r, s) IN
        /\ q \in Row
        /\ q.quarantine = "none" /\ q.state = s
        /\ SameOrder(q, r) /\ SameEntry(q, r) /\ SamePosition(q, r) /\ q.ok = r.ok
        /\ q.pause = r.pause /\ SameRisk(q, r) /\ SameEnd(q, r)
<1> DEFINE q == Freed(r, s)
           q1 == [r EXCEPT !.quarantine = "none"]
           q2 == [q1 EXCEPT !.state = s]
<1>1. "none" \in {"none", "invalid", "other"} /\ s \in States
  BY RowTypes
<1>2. q = q2
  BY Zenon DEF Row, Freed
<1>3. q1 \in Row
  BY <1>1, RowUpdate
<1> HIDE DEF q1
<1>4. q2 \in Row
  BY <1>1, <1>3, RowUpdate
<1> HIDE DEF q2
<1>5. /\ q.quarantine = "none" /\ q.state = s /\ SameOrder(q, r)
      /\ SameEntry(q, r) /\ SamePosition(q, r) /\ q.ok = r.ok /\ q.pause = r.pause
      /\ SameRisk(q, r) /\ SameEnd(q, r)
  BY Zenon DEF Row, Freed, SameOrder, SameEntry, SamePosition, SameRisk, SameEnd
<1> QED BY <1>2, <1>4, <1>5

\* A new order and its claim.
Entered(r, c, a) ==
  [r EXCEPT !.active = TRUE, !.left = Size, !.cycle = c, !.attempt = a, !.done =
           FALSE, !.cancelled = FALSE, !.reserved = TRUE, !.claims = @ \cup
           {<<c, a>>}]

LEMMA EntryFields ==
  ASSUME NEW r \in Row, NEW c \in Ordinals, NEW a \in Attempts
  PROVE LET q == Entered(r, c, a) IN
        /\ q \in Row
        /\ q.active /\ q.left = Size /\ q.cycle = c /\ q.attempt = a /\ ~q.done
        /\ ~q.cancelled /\ q.reserved
        /\ q.opened = r.opened /\ SamePosition(q, r) /\ SameMarket(q, r)
        /\ SameGuards(q, r) /\ q.consumed = r.consumed /\ SameEnd(q, r)
<1> DEFINE q == Entered(r, c, a)
           q1 == [r EXCEPT !.active = TRUE]
           q2 == [q1 EXCEPT !.left = Size]
           q3 == [q2 EXCEPT !.cycle = c]
           q4 == [q3 EXCEPT !.attempt = a]
           q5 == [q4 EXCEPT !.done = FALSE]
           q6 == [q5 EXCEPT !.cancelled = FALSE]
           q7 == [q6 EXCEPT !.reserved = TRUE]
           q8 == [q7 EXCEPT !.claims = (r.claims \cup {<<c, a>>})]
<1>1. /\ TRUE \in BOOLEAN /\ Size \in 0 .. Size /\ c \in 0 .. Cycles
      /\ a \in Attempts /\ FALSE \in BOOLEAN /\ FALSE \in BOOLEAN
      /\ TRUE \in BOOLEAN
      /\ (r.claims \cup {<<c, a>>}) \in SUBSET ((1 .. Cycles) \X Attempts)
  <2>1. r.claims \in SUBSET ((1 .. Cycles) \X Attempts)
    BY Zenon, RowTypes
  <2>2. <<c, a>> \in (1 .. Cycles) \X Attempts
    BY DEF Ordinals
  <2>3. r.claims \cup {<<c, a>>} \in SUBSET ((1 .. Cycles) \X Attempts)
    BY <2>1, <2>2, Zenon
  <2>4. Size \in 0 .. Size /\ c \in 0 .. Cycles
    BY PortfolioAssumption DEF Ordinals
  <2> QED BY <2>3, <2>4, Zenon
<1>2. q = q8
  BY Zenon DEF Row, Entered
<1>3. q1 \in Row
  BY <1>1, RowUpdate
<1> HIDE DEF q1
<1>4. q2 \in Row
  BY <1>1, <1>3, RowUpdate
<1> HIDE DEF q2
<1>5. q3 \in Row
  BY <1>1, <1>4, RowUpdate
<1> HIDE DEF q3
<1>6. q4 \in Row
  BY <1>1, <1>5, RowUpdate
<1> HIDE DEF q4
<1>7. q5 \in Row
  BY <1>1, <1>6, RowUpdate
<1> HIDE DEF q5
<1>8. q6 \in Row
  BY <1>1, <1>7, RowUpdate
<1> HIDE DEF q6
<1>9. q7 \in Row
  BY <1>1, <1>8, RowUpdate
<1> HIDE DEF q7
<1>10. q8 \in Row
  BY <1>1, <1>9, RowUpdate
<1> HIDE DEF q8
<1>11. /\ q.active /\ q.left = Size /\ q.cycle = c /\ q.attempt = a /\ ~q.done
       /\ ~q.cancelled /\ q.reserved /\ q.opened = r.opened /\ SamePosition(q, r)
       /\ SameMarket(q, r) /\ SameGuards(q, r) /\ q.consumed = r.consumed
       /\ SameEnd(q, r)
  BY Zenon DEF Row, Entered, SamePosition, SameMarket, SameGuards, SameEnd
<1> QED BY <1>2, <1>10, <1>11


-----------------------------------------------------------------------------
(* Operations. *)

\* What every operation but an entry, a sale and a settlement leaves alone.
Kept(r, q) ==
  /\ q.settled = r.settled /\ q.consumed = r.consumed
  /\ q.active => r.active
  /\ Open(q) => Open(r) \/ r.active
  /\ q.state = "SETTLEMENT_PENDING" => r.state = "SETTLEMENT_PENDING"

\* A market that is not shut stays so.
Stays(r, q) == r.state \notin Shut => q.state \notin Shut

StopKept(r, q) == r.exit = "HARD_STOP" => q.exit = "HARD_STOP" \/ ~Open(q)

LEMMA LegalMoves ==
  /\ Legal("ORDER_PENDING", "ORDER_CANCELLED")
  /\ Legal("ORDER_PARTIALLY_FILLED", "ORDER_CANCELLED")
  /\ Legal("ORDER_CANCELLED", "POSITION_OPEN")
  /\ Legal("ORDER_PENDING", "ORDER_PARTIALLY_FILLED")
  /\ Legal("ORDER_PENDING", "POSITION_OPEN")
  /\ Legal("ORDER_PARTIALLY_FILLED", "ORDER_PARTIALLY_FILLED")
  /\ Legal("ORDER_PARTIALLY_FILLED", "POSITION_OPEN")
  /\ Legal("POSITION_OPEN", "EXITING")
  /\ Legal("EXITING", "CLOSED")
  /\ Legal("EXITING", "POSITION_OPEN")
  /\ \A s \in States : s # "UNKNOWN" => Legal(s, "HALTED")
BY DEF Legal, Transitions

LEMMA StateNames ==
  /\ Entering \subseteq States /\ Ordering \subseteq States /\ Holding \subseteq States
  /\ {"UNKNOWN", "SETTLEMENT_PENDING", "CLOSED", "HALTED"} \subseteq States
BY DEF States

\* A cancelled order leaves its position, or nothing.
LEMMA Cancelling ==
  ASSUME NEW full, NEW one, NEW r, RowInv(r, full, one)
  PROVE LET q == Cancel(r) IN
        /\ RowInv(q, full, one) /\ ~q.active
        /\ Kept(r, q) /\ Stays(r, q) /\ q.left = r.left
        /\ SameEntry(q, r) /\ SamePosition(q, r) /\ SameGuards(q, r) /\ SameEnd(q, r)
        /\ r.state # "UNKNOWN" => q.state # "UNKNOWN"
        /\ Open(r) /\ r.state \notin Shut => q.state = "POSITION_OPEN"
<1> DEFINE q == Cancel(r)
<1>0. r \in Row
  BY DEF RowInv
<1>1. CASE ~r.active
  <2>1. q = r
    BY <1>1 DEF Cancel
  <2>2. Open(r) /\ r.state \notin Shut => r.state = "POSITION_OPEN"
    BY <1>1 DEF RowInv, RowAgrees, Shut
  <2> QED BY <1>1, <2>1, <2>2 DEF Kept, Stays, SameEntry, SamePosition, SameGuards, SameEnd
<1>2. CASE r.active
  <2> DEFINE a == TakenOff(r)
             b == Move(a, "ORDER_CANCELLED")
             c == Move(b, "POSITION_OPEN")
             d == Reserve(b, FALSE)
  <2>1. q = IF Open(r) THEN c ELSE d
    BY <1>2 DEF Cancel, TakenOff, Reserve
  <2>2. /\ a \in Row /\ ~a.active /\ a.left = r.left /\ SameEntry(a, r)
        /\ SamePosition(a, r) /\ SameMarket(a, r) /\ SameGuards(a, r) /\ SameRisk(a, r)
        /\ SameEnd(a, r)
    BY <1>0, CancelFields
  <2> HIDE DEF a
  <2>3. /\ b \in Row /\ b.state = "ORDER_CANCELLED"
        /\ b.ok = (a.ok /\ Legal(a.state, "ORDER_CANCELLED"))
        /\ SameOrder(b, a) /\ SameEntry(b, a) /\ SamePosition(b, a) /\ SameGuards(b, a)
        /\ SameRisk(b, a) /\ SameEnd(b, a)
    BY <2>2, MoveFields, StateNames DEF Ordering
  <2> HIDE DEF b
  <2>4. /\ c \in Row /\ c.state = "POSITION_OPEN"
        /\ c.ok = (b.ok /\ Legal(b.state, "POSITION_OPEN"))
        /\ SameOrder(c, b) /\ SameEntry(c, b) /\ SamePosition(c, b) /\ SameGuards(c, b)
        /\ SameRisk(c, b) /\ SameEnd(c, b)
    BY <2>3, MoveFields, StateNames DEF Holding
  <2>5. /\ d \in Row /\ ~d.reserved /\ d.consumed = b.consumed
        /\ SameOrder(d, b) /\ SameEntry(d, b) /\ SamePosition(d, b) /\ SameMarket(d, b)
        /\ SameGuards(d, b) /\ SameEnd(d, b)
    BY <2>3, ReservedField
  <2> HIDE DEF c, d, q
  <2>6. r.state \in {"ORDER_PENDING", "ORDER_PARTIALLY_FILLED"} /\ r.ok
        /\ r.reserved /\ r.quarantine = "none" /\ r.pause = "none"
    BY <1>2 DEF RowInv, RowAgrees
  <2>7. b.ok /\ c.ok
    BY <2>2, <2>3, <2>4, <2>6, LegalMoves DEF SameMarket
  <2>8. CASE Open(r)
    <3>1. /\ q \in Row /\ q.ok /\ ~q.active /\ q.state = "POSITION_OPEN" /\ q.left = r.left
          /\ SameEntry(q, r) /\ SamePosition(q, r) /\ SameGuards(q, r) /\ SameRisk(q, r)
          /\ SameEnd(q, r)
      BY <2>1, <2>2, <2>3, <2>4, <2>7, <2>8
      DEF SameOrder, SameEntry, SamePosition, SameMarket, SameGuards, SameRisk, SameEnd
    <3>2. RowAgrees(q, full)
      BY <2>6, <2>8, <3>1 DEF RowInv, RowAgrees, Open, Exclusive, SamePosition, SameGuards, SameRisk
    <3>3. RowInv(q, full, one)
      BY <2>8, <3>1, <3>2
      DEF RowInv, OrderAddsUp, CycleSpent, Open, SameEntry, SamePosition, SameEnd
    <3>4. Kept(r, q) /\ Stays(r, q) /\ q.state # "UNKNOWN"
      BY <2>8, <3>1 DEF Kept, Stays, Shut, SameRisk, SameEnd
    <3> QED BY <3>1, <3>3, <3>4 DEF q
  <2>9. CASE ~Open(r)
    <3>1. /\ q \in Row /\ q.ok /\ ~q.active /\ q.state = "ORDER_CANCELLED" /\ q.left = r.left
          /\ SameEntry(q, r) /\ SamePosition(q, r) /\ SameGuards(q, r) /\ ~q.reserved
          /\ q.consumed = r.consumed /\ SameEnd(q, r)
      BY <2>1, <2>2, <2>3, <2>5, <2>7, <2>9
      DEF SameOrder, SameEntry, SamePosition, SameMarket, SameGuards, SameRisk, SameEnd
    <3>2. RowAgrees(q, full)
      BY <2>6, <2>9, <3>1 DEF RowInv, RowAgrees, Open, Exclusive, SamePosition, SameGuards
    <3>3. RowInv(q, full, one)
      BY <2>9, <3>1, <3>2
      DEF RowInv, OrderAddsUp, CycleSpent, Open, SameEntry, SamePosition, SameEnd
    <3>4. Kept(r, q) /\ Stays(r, q) /\ q.state # "UNKNOWN" /\ (Open(q) <=> Open(r))
      BY <2>9, <3>1 DEF Kept, Stays, Shut, SameEnd, SamePosition, Open
    <3> QED BY <2>9, <3>1, <3>3, <3>4 DEF q
  <2> QED BY <2>8, <2>9
<1> QED BY <1>1, <1>2, <1>0 DEF RowInv, Row

\* A fill moves contracts from the order to the position.
LEMMA Filling ==
  ASSUME NEW full, NEW one, NEW r, RowInv(r, full, one),
         r.active, NEW n \in 1 .. r.left
  PROVE LET q == Fill(r, n) IN
        /\ RowInv(q, full, one) /\ Kept(r, q) /\ Stays(r, q) /\ StopKept(r, q)
        /\ Open(q)
<1> DEFINE s == IF r.left > n THEN "ORDER_PARTIALLY_FILLED" ELSE "POSITION_OPEN"
           f == Filled(r, n)
           q == Move(f, s)
<1>0. q = Fill(r, n)
  BY DEF Fill, Filled
<1>1. /\ r \in Row /\ r.ok /\ r.state \in {"ORDER_PENDING", "ORDER_PARTIALLY_FILLED"}
      /\ r.reserved /\ r.quarantine = "none" /\ r.pause = "none" /\ r.held <= r.bought
      /\ r.left + r.bought = Size /\ r.cycle > 0
      /\ ~Exclusive(r, full) /\ r.exit # "HARD_STOP"
  BY DEF RowInv, RowAgrees, OrderAddsUp, Exclusive
<1>2. /\ r.left \in Int /\ r.held \in Int /\ r.bought \in Int /\ r.opened \in Int
      /\ r.cycle \in Int /\ Size \in Int /\ r.owed \in Int
      /\ 0 <= r.held /\ 0 <= r.bought /\ 0 <= r.left /\ n \in Int /\ 1 <= n /\ n <= r.left
  BY <1>1, RowNumbers
<1>3. r.held + n <= Size /\ r.bought + n <= Size
  BY <1>1, <1>2
<1>4. /\ f \in Row /\ f.active = (r.left > n) /\ f.left = (r.left - n)
      /\ f.held = (r.held + n) /\ f.bought = (r.bought + n) /\ f.owed = (r.owed + n)
      /\ f.opened = (r.opened + (IF Open(r) THEN 0 ELSE 1))
      /\ f.cancelled = r.cancelled /\ f.cycle = r.cycle /\ f.attempt = r.attempt
      /\ f.done = r.done /\ f.claims = r.claims /\ f.exit = r.exit
      /\ SameMarket(f, r) /\ SameGuards(f, r) /\ SameRisk(f, r) /\ SameEnd(f, r)
  BY <1>1, <1>3, FillFields
<1> HIDE DEF f
<1>5. s \in States /\ s \in {"ORDER_PARTIALLY_FILLED", "POSITION_OPEN"}
  BY StateNames DEF Ordering, Holding
<1>6. /\ q \in Row /\ q.state = s /\ q.ok = (f.ok /\ Legal(f.state, s))
      /\ SameOrder(q, f) /\ SameEntry(q, f) /\ SamePosition(q, f) /\ SameGuards(q, f)
      /\ SameRisk(q, f) /\ SameEnd(q, f)
  BY <1>4, <1>5, MoveFields
<1>7. q.ok
  BY <1>1, <1>4, <1>5, <1>6, LegalMoves DEF SameMarket
<1> HIDE DEF q
<1>8. /\ q.active = (r.left > n) /\ q.left = r.left - n /\ q.held = r.held + n
      /\ q.bought = r.bought + n /\ q.owed = r.owed + n /\ q.exit = r.exit
      /\ q.opened = r.opened + (IF Open(r) THEN 0 ELSE 1) /\ q.cycle = r.cycle
      /\ q.quarantine = "none" /\ q.pause = "none" /\ q.reserved /\ q.consumed = r.consumed
      /\ q.settled = r.settled
  BY <1>1, <1>4, <1>6
  DEF SameOrder, SameEntry, SamePosition, SameGuards, SameRisk, SameEnd
<1>9a. ~Exclusive(q, full)
  BY <1>1, <1>8 DEF Exclusive
<1>9. RowAgrees(q, full)
  <2>1. Open(q) /\ q.held \in 1 .. q.bought
    BY <1>1, <1>2, <1>8 DEF Open
  <2>2. CASE r.left > n
    <3>1. /\ q.active /\ q.left > 0 /\ q.state = "ORDER_PARTIALLY_FILLED"
          /\ q.exit = r.exit /\ q.quarantine = "none" /\ q.pause = "none" /\ q.reserved
      <4>1. q.active
        BY <1>8, <2>2, Zenon
      <4>2. q.left > 0
        BY <1>2, <1>8, <2>2
      <4>3. q.state = "ORDER_PARTIALLY_FILLED"
        BY <1>6, <2>2
      <4> QED BY <1>8, <4>1, <4>2, <4>3
    <3> QED BY <1>9a, <2>1, <3>1 DEF RowAgrees
  <2>3. CASE ~(r.left > n)
    BY <1>1, <1>2, <1>6, <1>8, <1>9a, <2>1, <2>3 DEF RowAgrees
  <2> QED BY <2>2, <2>3
<1>10. CycleSpent(q, one)
  <2>1. CycleSpent(r, one)
    BY DEF RowInv
  <2>2. ~Open(r) => r.left = Size
    BY <1>1, <1>2 DEF Open
  <2>3. q.left # Size
    BY <1>1, <1>2, <1>8
  <2>4. r.opened + (IF Open(r) THEN 0 ELSE 1) <= r.cycle
    BY <1>1, <1>2, <2>1, <2>2 DEF CycleSpent
  <2> QED BY <1>8, <2>1, <2>3, <2>4 DEF CycleSpent
<1>11. r.owed = r.held
  BY DEF RowInv
<1>12. RowInv(q, full, one)
  BY <1>1, <1>2, <1>6, <1>7, <1>8, <1>9, <1>10, <1>11 DEF RowInv, OrderAddsUp
<1>13. Open(q)
  BY <1>2, <1>8 DEF Open
<1> QED BY <1>0, <1>1, <1>5, <1>6, <1>8, <1>12, <1>13 DEF Kept, Stays, Shut, StopKept

\* A print of the tape leaves an order that keeps its position.
LEMMA Trading ==
  ASSUME NEW full, NEW one, NEW r, RowInv(r, full, one),
         NEW n \in 0 .. r.left
  PROVE LET q == Trade(r, n, one) IN
        RowInv(q, full, one) /\ Kept(r, q) /\ Stays(r, q) /\ StopKept(r, q)
<1>1. CASE ~Fillable(r) \/ n = 0
  <2>1. Trade(r, n, one) = r
    BY <1>1 DEF Trade
  <2> QED BY <2>1 DEF Kept, Stays, StopKept
<1>2. CASE Fillable(r) /\ n # 0 /\ SpentCycle(r, one)
  BY <1>2, Cancelling DEF Trade, StopKept, SamePosition
<1>3. CASE Fillable(r) /\ n # 0 /\ ~SpentCycle(r, one)
  <2>1. n \in 1 .. r.left /\ r.active
    BY <1>3, RowNumbers DEF Fillable, RowInv
  <2> QED BY <1>3, <2>1, Filling DEF Trade
<1> QED BY <1>1, <1>2, <1>3

\* So does the match of an immediate order.
LEMMA Matching ==
  ASSUME NEW full, NEW one, NEW r, RowInv(r, full, one),
         NEW n \in 0 .. r.left
  PROVE LET q == Match(r, n, one, full) IN
        RowInv(q, full, one) /\ Kept(r, q) /\ Stays(r, q) /\ StopKept(r, q)
<1>1. CASE ~r.active \/ r.pause # "none"
  BY <1>1 DEF Match, Kept, Stays, StopKept
<1>2. CASE r.active /\ r.pause = "none" /\ (SpentCycle(r, one) \/ n = 0 \/ (full /\ n < r.left))
  <2>1. Match(r, n, one, full) = Cancel(r)
    BY <1>2 DEF Match
  <2> QED BY <2>1, Cancelling DEF StopKept, SamePosition
<1>3. CASE r.active /\ r.pause = "none" /\ ~(SpentCycle(r, one) \/ n = 0 \/ (full /\ n < r.left))
  <2> DEFINE f == Fill(r, n)
  <2>1. Match(r, n, one, full) = Cancel(f)
    BY <1>3 DEF Match
  <2>2. n \in 1 .. r.left
    BY <1>3, RowNumbers DEF RowInv
  <2>3. RowInv(f, full, one) /\ Kept(r, f) /\ Stays(r, f) /\ StopKept(r, f)
    BY <1>3, <2>2, Filling
  <2> HIDE DEF f
  <2>4. /\ RowInv(Cancel(f), full, one) /\ Kept(f, Cancel(f)) /\ Stays(f, Cancel(f))
        /\ SamePosition(Cancel(f), f)
    BY <2>3, Cancelling
  <2> QED BY <1>3, <2>1, <2>3, <2>4 DEF Kept, Stays, StopKept, SamePosition, Open
<1> QED BY <1>1, <1>2, <1>3

\* The consumption is capped, and covers the display as well as it did.
LEMMA Observing ==
  ASSUME NEW full, NEW one, NEW r, RowInv(r, full, one),
         NEW n \in 0 .. Depth
  PROVE LET q == Observe(r, n) IN
        /\ RowInv(q, full, one) /\ StopKept(r, q) /\ Stays(r, q)
        /\ q.settled = r.settled /\ q.active = r.active /\ q.bought = r.bought
        /\ q.state = r.state
        /\ q.consumed = r.consumed \/ (q.consumed = n /\ n < r.consumed)
<1> DEFINE q == WithConsumed(r, n)
<1>0. r \in Row
  BY DEF RowInv
<1>1. CASE Open(r) /\ r.quarantine = "none" /\ r.pause = "none" /\ r.consumed > n
  <2>1. Observe(r, n) = q
    BY <1>1 DEF Observe, WithConsumed
  <2>2. /\ q \in Row /\ q.consumed = n /\ q.reserved = r.reserved
        /\ SameOrder(q, r) /\ SameEntry(q, r) /\ SamePosition(q, r) /\ SameMarket(q, r)
        /\ SameGuards(q, r) /\ SameEnd(q, r)
    BY <1>0, ConsumedField
  <2> HIDE DEF q
  <2>3. RowAgrees(q, full)
    BY <2>2 DEF RowInv, RowAgrees, Open, Exclusive, SameOrder, SamePosition, SameMarket, SameGuards
  <2>4. RowInv(q, full, one)
    BY <2>2, <2>3 DEF RowInv, OrderAddsUp, CycleSpent, SameOrder, SameEntry, SamePosition,
                      SameMarket
  <2> QED BY <1>0, <1>1, <2>1, <2>2, <2>4, RowNumbers
          DEF StopKept, Stays, SameOrder, SamePosition, SameMarket, SameEnd
<1>2. CASE ~(Open(r) /\ r.quarantine = "none" /\ r.pause = "none" /\ r.consumed > n)
  BY <1>2 DEF Observe, StopKept, Stays
<1> QED BY <1>1, <1>2

\* An order is inactive wherever it must not rest.
LEMMA RestsWell ==
  ASSUME NEW full, NEW one, NEW r, RowInv(r, full, one)
  PROVE /\ r \in Row /\ r.ok
        /\ r.active => /\ r.quarantine = "none" /\ r.pause = "none" /\ r.left > 0
                       /\ r.state \in {"ORDER_PENDING", "ORDER_PARTIALLY_FILLED"}
                       /\ r.exit # "HARD_STOP"
        /\ r.quarantine # "none" <=> r.state = "HALTED"
        /\ r.exit # "none" => Open(r)
        /\ r.reserved <=> r.active \/ Open(r)
        /\ ~Open(r) => r.held = 0 /\ r.bought = 0
        /\ r.owed = r.held /\ r.held <= r.bought
<1>1. /\ r \in Row /\ r.ok /\ r.owed = r.held /\ r.held <= r.bought
  BY DEF RowInv
<1>2. ~Open(r) => r.held = 0 /\ r.bought = 0
  BY <1>1, RowNumbers DEF Open
<1> QED BY <1>1, <1>2 DEF RowInv, RowAgrees, Exclusive

\* A quarantine halts the market and takes its order off.
LEMMA Quarantining ==
  ASSUME NEW full, NEW one, NEW r, RowInv(r, full, one), r.state # "UNKNOWN",
         NEW w \in {"invalid", "other"}
  PROVE LET q == Quarantine(r, w) IN
        /\ RowInv(q, full, one) /\ Kept(r, q) /\ SamePosition(q, r) /\ ~q.active
        /\ SameEnd(q, r) /\ q.state # "UNKNOWN"
<1> DEFINE c == Cancel(r)
           h == WithQuarantine(c, w)
           q == Move(h, "HALTED")
<1>1. /\ RowInv(c, full, one) /\ ~c.active /\ Kept(r, c) /\ c.left = r.left
      /\ SameEntry(c, r) /\ SamePosition(c, r) /\ SameGuards(c, r) /\ SameEnd(c, r)
      /\ c.state # "UNKNOWN"
  BY Cancelling
<1>2. CASE r.state \in {"ERROR", "HALTED"} \/ r.quarantine # "none"
  <2>1. Quarantine(r, w) = r
    BY <1>2 DEF Quarantine
  <2>2. ~r.active
    BY <1>2, RestsWell
  <2> QED BY <2>1, <2>2 DEF Kept, SamePosition, SameEnd
<1>3. CASE ~(r.state \in {"ERROR", "HALTED"} \/ r.quarantine # "none")
  <2>1. Quarantine(r, w) = q
    BY <1>3, Zenon DEF Quarantine, WithQuarantine
  <2> HIDE DEF c
  <2>2. c \in Row /\ c.ok /\ c.state \in States
    BY <1>1, RestsWell, RowTypes
  <2>3. /\ h \in Row /\ h.quarantine = w /\ h.pause = c.pause /\ SameOrder(h, c)
        /\ SameEntry(h, c) /\ SamePosition(h, c) /\ SameMarket(h, c) /\ SameRisk(h, c)
        /\ SameEnd(h, c)
    BY <2>2, QuarantineField
  <2> HIDE DEF h
  <2>4. /\ q \in Row /\ q.state = "HALTED" /\ q.ok = (h.ok /\ Legal(h.state, "HALTED"))
        /\ SameOrder(q, h) /\ SameEntry(q, h) /\ SamePosition(q, h) /\ SameGuards(q, h)
        /\ SameRisk(q, h) /\ SameEnd(q, h)
    BY <2>3, MoveFields, StateNames
  <2> HIDE DEF q
  <2>5. q.ok
    BY <1>1, <2>2, <2>3, <2>4, LegalMoves DEF SameMarket
  <2>6. /\ ~q.active /\ q.left = r.left /\ q.quarantine = w /\ w # "none"
        /\ SameEntry(q, r) /\ SamePosition(q, r) /\ SameEnd(q, r)
        /\ SameRisk(q, c)
    BY <1>1, <2>3, <2>4
    DEF SameOrder, SameEntry, SamePosition, SameGuards, SameRisk, SameEnd
  <2>7. RowAgrees(q, full)
    BY <1>1, <2>4, <2>6 DEF RowInv, RowAgrees, Open, Exclusive, SamePosition, SameRisk
  <2>8. RowInv(q, full, one)
    BY <1>1, <2>4, <2>5, <2>6, <2>7
    DEF RowInv, OrderAddsUp, CycleSpent, SameEntry, SamePosition
  <2>9. Kept(r, q)
    BY <1>1, <2>4, <2>6 DEF Kept, Open, SamePosition, SameRisk, SameEnd
  <2> QED BY <2>1, <2>4, <2>6, <2>8, <2>9
<1> QED BY <1>2, <1>3

\* A change of the pause of an account whose order is off.
LEMMA Repausing ==
  ASSUME NEW full, NEW one, NEW r, RowInv(r, full, one), ~r.active,
         NEW p \in Pauses \cup {"none"}
  PROVE LET q == WithPause(r, p) IN
        RowInv(q, full, one) /\ Kept(r, q) /\ ~q.active /\ StopKept(r, q)
<1> DEFINE q == WithPause(r, p)
<1>1. /\ q \in Row /\ q.pause = p /\ q.quarantine = r.quarantine /\ SameOrder(q, r)
      /\ SameEntry(q, r) /\ SamePosition(q, r) /\ SameMarket(q, r) /\ SameRisk(q, r)
      /\ SameEnd(q, r)
  BY RestsWell, PauseField
<1> HIDE DEF q
<1>2. RowAgrees(q, full)
  BY <1>1
  DEF RowInv, RowAgrees, Open, Exclusive, SameOrder, SamePosition, SameMarket, SameRisk
<1>3. RowInv(q, full, one)
  BY <1>1, <1>2 DEF RowInv, OrderAddsUp, CycleSpent, SameOrder, SameEntry, SamePosition,
                    SameMarket
<1>4. Kept(r, q) /\ ~q.active /\ StopKept(r, q)
  BY <1>1 DEF Kept, StopKept, Open, SameOrder, SamePosition, SameMarket, SameRisk, SameEnd
<1> QED BY <1>3, <1>4 DEF q

LEMMA Pausing ==
  ASSUME NEW full, NEW one, NEW r, RowInv(r, full, one), NEW how \in Pauses
  PROVE LET q == PauseMarket(r, how) IN
        RowInv(q, full, one) /\ Kept(r, q) /\ ~q.active /\ StopKept(r, q)
<1>1. CASE r.pause = "terminal"
  <2>1. PauseMarket(r, how) = r
    BY <1>1 DEF PauseMarket
  <2>2. ~r.active
    BY <1>1, RestsWell
  <2> QED BY <2>1, <2>2 DEF Kept, StopKept
<1>2. CASE r.pause # "terminal"
  <2> DEFINE c == Cancel(r)
  <2>1. PauseMarket(r, how) = WithPause(c, how)
    BY <1>2, Zenon DEF PauseMarket, WithPause
  <2>2. RowInv(c, full, one) /\ ~c.active /\ Kept(r, c) /\ SamePosition(c, r)
    BY Cancelling
  <2> HIDE DEF c
  <2>3. LET q == WithPause(c, how) IN
        RowInv(q, full, one) /\ Kept(c, q) /\ ~q.active /\ StopKept(c, q)
    BY <2>2, Repausing
  <2> QED BY <2>1, <2>2, <2>3 DEF Kept, StopKept, SamePosition, Open
<1> QED BY <1>1, <1>2

LEMMA Resuming ==
  ASSUME NEW full, NEW one, NEW r, RowInv(r, full, one), Resumable(r)
  PROVE LET q == ResumeMarket(r) IN
        RowInv(q, full, one) /\ Kept(r, q) /\ ~q.active /\ StopKept(r, q)
<1>1. ResumeMarket(r) = WithPause(r, "none")
  BY Zenon DEF ResumeMarket, WithPause
<1>2. ~r.active
  BY RestsWell DEF Resumable
<1> QED BY <1>1, <1>2, Repausing

\* A stale quarantine ends where the position or its absence puts the market.
LEMMA Recovering ==
  ASSUME NEW full, NEW one, NEW r, RowInv(r, full, one),
         NEW halted, Recoverable(r, halted)
  PROVE LET q == RecoverStale(r) IN
        RowInv(q, full, one) /\ Kept(r, q) /\ ~q.active /\ StopKept(r, q)
<1> DEFINE s == IF Open(r) THEN "POSITION_OPEN" ELSE "EVALUATING"
           q == Freed(r, s)
<1>1. RecoverStale(r) = q
  BY Zenon DEF RecoverStale, Freed
<1>2. s \in States
  BY StateNames DEF Holding, Entering
<1>3. /\ q \in Row /\ q.quarantine = "none" /\ q.state = s /\ q.ok = r.ok
      /\ q.pause = r.pause /\ SameOrder(q, r) /\ SameEntry(q, r) /\ SamePosition(q, r)
      /\ SameRisk(q, r) /\ SameEnd(q, r)
  BY <1>2, RestsWell, RecoverFields
<1> HIDE DEF q
<1>4. ~r.active
  BY RestsWell DEF Recoverable
<1>5. RowAgrees(q, full)
  BY <1>3, <1>4
  DEF RowInv, RowAgrees, Open, Exclusive, SameOrder, SamePosition, SameRisk
<1>6. RowInv(q, full, one)
  BY <1>3, <1>4, <1>5 DEF RowInv, OrderAddsUp, CycleSpent, SameOrder, SameEntry, SamePosition
<1>7. Kept(r, q) /\ ~q.active /\ StopKept(r, q)
  BY <1>3, <1>4 DEF Kept, StopKept, Open, SameOrder, SamePosition, SameRisk, SameEnd
<1> QED BY <1>1, <1>6, <1>7

\* A change of state on the way in, or to the settlement.
LEMMA Moving ==
  ASSUME NEW full, NEW one, NEW r, RowInv(r, full, one),
         NEW s \in Entering \cup {"SETTLEMENT_PENDING"}, Legal(r.state, s)
  PROVE LET q == Move(r, s) IN
        /\ RowInv(q, full, one) /\ ~q.active /\ ~r.active /\ q.state = s
        /\ SameOrder(q, r) /\ SameEntry(q, r) /\ SamePosition(q, r) /\ SameGuards(q, r)
        /\ SameRisk(q, r) /\ SameEnd(q, r)
<1> DEFINE q == Move(r, s)
<1>1. s \in States
  BY StateNames
<1>2. /\ q \in Row /\ q.state = s /\ q.ok = (r.ok /\ Legal(r.state, s))
      /\ SameOrder(q, r) /\ SameEntry(q, r) /\ SamePosition(q, r) /\ SameGuards(q, r)
      /\ SameRisk(q, r) /\ SameEnd(q, r)
  BY <1>1, RestsWell, MoveFields
<1> HIDE DEF q
<1>3. q.ok
  BY <1>2, RestsWell
<1>4. r.state \notin {"ORDER_PENDING", "ORDER_PARTIALLY_FILLED", "HALTED"}
  BY DEF Legal, Transitions, Entering
<1>5. ~r.active /\ r.quarantine = "none"
  BY <1>4, RestsWell
<1>6. Open(r) => s = "SETTLEMENT_PENDING"
  <2>1. Open(r) => r.state \in {"POSITION_OPEN", "SETTLEMENT_PENDING"}
    BY <1>4 DEF RowInv, RowAgrees
  <2> QED BY <2>1 DEF Legal, Transitions, Entering
<1>7. s \notin {"ORDER_PENDING", "ORDER_PARTIALLY_FILLED", "HALTED", "POSITION_OPEN"}
  BY DEF Entering
<1>8. RowAgrees(q, full)
  BY <1>2, <1>5, <1>6, <1>7 DEF RowInv, RowAgrees, Open, Exclusive, SameOrder, SamePosition,
                                SameGuards, SameRisk
<1>9. RowInv(q, full, one)
  BY <1>2, <1>3, <1>5, <1>8
  DEF RowInv, OrderAddsUp, CycleSpent, SameOrder, SameEntry, SamePosition
<1> QED BY <1>2, <1>5, <1>9 DEF q, SameOrder

\* An intent is cleared, or replaced by none.
LEMMA Clearing ==
  ASSUME NEW full, NEW one, NEW r, RowInv(r, full, one)
  PROVE LET q == Expire(r) IN
        /\ RowInv(q, full, one) /\ Kept(r, q) /\ q.exit = "none" /\ q.active = r.active
        /\ q.state = r.state /\ q.bought = r.bought /\ q.held = r.held
        /\ q.quarantine = r.quarantine
<1> DEFINE q == WithExit(r, "none")
<1>1. /\ q \in Row /\ q.exit = "none" /\ q.held = r.held /\ q.bought = r.bought
      /\ q.owed = r.owed /\ SameOrder(q, r) /\ SameEntry(q, r) /\ SameMarket(q, r)
      /\ SameGuards(q, r) /\ SameRisk(q, r) /\ SameEnd(q, r)
  BY RestsWell, ExitField
<1>2. Expire(r) = q
  BY Zenon DEF Expire, WithExit
<1> HIDE DEF q
<1>3. RowAgrees(q, full)
  BY <1>1
  DEF RowInv, RowAgrees, Open, Exclusive, SameOrder, SameMarket, SameGuards, SameRisk
<1>4. RowInv(q, full, one)
  BY <1>1, <1>3 DEF RowInv, OrderAddsUp, CycleSpent, SameOrder, SameEntry, SameMarket
<1>5. Kept(r, q)
  BY <1>1 DEF Kept, Open, SameOrder, SameMarket, SameRisk, SameEnd
<1> QED BY <1>1, <1>2, <1>4, <1>5 DEF SameOrder, SameMarket, SameGuards

\* A new intent of an open position.
LEMMA Intending ==
  ASSUME NEW full, NEW one, NEW r, RowInv(r, full, one), Open(r), r.state \notin Shut,
         NEW why \in Exits
  PROVE LET q == Intend(r, why, full) IN
        /\ RowInv(q, full, one) /\ Kept(r, q) /\ q.exit = why
        /\ q.state \notin Shut /\ q.held = r.held
<1> DEFINE c == IF full \/ why \in {"HARD_STOP", "CASHOUT"} THEN Cancel(r) ELSE r
           q == WithExit(c, why)
<1>1. Intend(r, why, full) = q
  BY Zenon DEF Intend, WithExit
<1>2. /\ RowInv(c, full, one) /\ Kept(r, c) /\ c.state \notin Shut /\ c.held = r.held
      /\ c.bought = r.bought
  <2>1. CASE full \/ why \in {"HARD_STOP", "CASHOUT"}
    BY <2>1, Cancelling DEF SamePosition, Stays
  <2>2. CASE ~(full \/ why \in {"HARD_STOP", "CASHOUT"})
    BY <2>2 DEF Kept
  <2> QED BY <2>1, <2>2
<1>3. ~c.active \/ ~(full \/ why \in {"HARD_STOP", "CASHOUT"})
  BY Cancelling
<1> HIDE DEF c
<1>4. /\ q \in Row /\ q.exit = why /\ q.held = c.held /\ q.bought = c.bought
      /\ q.owed = c.owed /\ SameOrder(q, c) /\ SameEntry(q, c) /\ SameMarket(q, c)
      /\ SameGuards(q, c) /\ SameRisk(q, c) /\ SameEnd(q, c)
  BY <1>2, RestsWell, ExitField
<1> HIDE DEF q
<1>5. Open(c) /\ Open(q)
  BY <1>2, <1>4 DEF Open
<1>6. Exclusive(q, full) => ~q.active
  BY <1>3, <1>4 DEF Exclusive, SameOrder
<1>7. RowAgrees(q, full)
  BY <1>2, <1>4, <1>5, <1>6
  DEF RowInv, RowAgrees, SameOrder, SameMarket, SameGuards, SameRisk
<1>8. RowInv(q, full, one)
  BY <1>2, <1>4, <1>7 DEF RowInv, OrderAddsUp, CycleSpent, SameOrder, SameEntry, SameMarket
<1>9. Kept(r, q) /\ q.state \notin Shut /\ q.held = r.held
  BY <1>2, <1>4, <1>5 DEF Kept, SameOrder, SameMarket, SameRisk, SameEnd
<1> QED BY <1>1, <1>4, <1>8, <1>9

\* A sale of n contracts consumes n and closes the position with the last.
LEMMA Selling ==
  ASSUME NEW full, NEW one, NEW r, RowInv(r, full, one), Open(r), r.state \notin Shut,
         NEW n \in 0 .. r.held, r.consumed + n <= Depth
  PROVE LET q == Sell(r, n, full) IN
        /\ RowInv(q, full, one) /\ ~q.active /\ StopKept(r, q)
        /\ q.settled = r.settled /\ q.consumed = r.consumed + n /\ q.held = r.held - n
        /\ q.state \in {"CLOSED", "POSITION_OPEN"} /\ (Open(q) => q.state = "POSITION_OPEN")
<1> DEFINE c == Cancel(r)
           e == Move(c, "EXITING")
           s == Sold(e, n)
           f == Emptied(s)
           x == WithExit(s, "none")
           y == IF ~full /\ r.exit = "CASHOUT" THEN x ELSE s
           q == IF s.held = 0 THEN Move(f, "CLOSED") ELSE Move(y, "POSITION_OPEN")
<1>1. Sell(r, n, full) = q
  BY Zenon DEF Sell, Sold, Emptied, WithExit, Finish
<1>2. /\ RowInv(c, full, one) /\ ~c.active /\ Kept(r, c) /\ c.state = "POSITION_OPEN"
      /\ SamePosition(c, r) /\ SameEnd(c, r) /\ SameGuards(c, r)
  BY Cancelling
<1> HIDE DEF c
<1>3. /\ c \in Row /\ c.ok /\ c.consumed = r.consumed /\ c.quarantine = "none"
      /\ c.reserved /\ c.owed = c.held /\ c.held <= c.bought
  BY <1>2, RestsWell DEF Kept, Open, SamePosition
<1>4. /\ e \in Row /\ e.state = "EXITING" /\ e.ok = (c.ok /\ Legal(c.state, "EXITING"))
      /\ SameOrder(e, c) /\ SameEntry(e, c) /\ SamePosition(e, c) /\ SameGuards(e, c)
      /\ SameRisk(e, c) /\ SameEnd(e, c)
  BY <1>3, MoveFields, StateNames DEF Holding
<1> HIDE DEF e
<1>4a. e.ok
  BY <1>2, <1>3, <1>4, LegalMoves
<1>5. n \in 0 .. e.held /\ e.consumed + n <= Depth
  BY <1>2, <1>3, <1>4 DEF SamePosition, SameRisk
<1>6. /\ s \in Row /\ s.held = e.held - n /\ s.owed = e.owed - n
      /\ s.consumed = e.consumed + n /\ s.bought = e.bought /\ s.exit = e.exit
      /\ s.reserved = e.reserved /\ SameOrder(s, e) /\ SameEntry(s, e) /\ SameMarket(s, e)
      /\ SameGuards(s, e) /\ SameEnd(s, e)
  BY <1>4, <1>5, SellFields
<1> HIDE DEF s
<1>7. /\ s \in Row /\ s.ok /\ s.state = "EXITING" /\ ~s.active /\ s.reserved
      /\ s.held = r.held - n /\ s.owed = s.held /\ s.bought = r.bought /\ s.exit = r.exit
      /\ s.consumed = r.consumed + n /\ s.settled = r.settled /\ s.quarantine = "none"
      /\ s.opened = c.opened /\ s.cycle = c.cycle /\ s.left = c.left
  <2>1. e.owed = e.held
    BY <1>3, <1>4 DEF SamePosition
  <2> QED BY <1>2, <1>3, <1>4, <1>4a, <1>6, <2>1
          DEF SameOrder, SameEntry, SamePosition, SameMarket, SameGuards, SameRisk, SameEnd
<1>8. r.held \in Int /\ r.bought \in Int /\ r.held <= r.bought /\ 0 <= n /\ n <= r.held
      /\ n \in Int /\ r.held >= 0 /\ r.bought > 0
  BY RestsWell, RowNumbers DEF Open
<1>9. CycleSpent(c, one)
  BY <1>2 DEF RowInv
<1>10. CASE s.held = 0
  <2>1. /\ f \in Row /\ f.held = 0 /\ f.bought = 0 /\ f.exit = "none" /\ ~f.reserved
        /\ f.owed = s.owed /\ f.consumed = s.consumed /\ f.cycle = s.cycle
        /\ f.opened = s.opened /\ SameOrder(f, s) /\ SameMarket(f, s) /\ SameGuards(f, s)
        /\ SameEnd(f, s)
    BY <1>7, FinishFields
  <2> HIDE DEF f
  <2>2. q = Move(f, "CLOSED")
    BY <1>10
  <2> HIDE DEF q
  <2>3. /\ q \in Row /\ q.state = "CLOSED"
        /\ q.ok = (f.ok /\ Legal(f.state, "CLOSED")) /\ SameOrder(q, f)
        /\ SameEntry(q, f) /\ SamePosition(q, f) /\ SameGuards(q, f) /\ SameRisk(q, f)
        /\ SameEnd(q, f)
    BY <2>1, <2>2, MoveFields, StateNames
  <2>3a. q.ok
    BY <1>7, <2>1, <2>3, LegalMoves DEF SameMarket
  <2>4. /\ q.ok /\ ~q.active /\ ~q.reserved /\ q.held = 0 /\ q.bought = 0 /\ q.owed = 0
        /\ q.exit = "none" /\ q.consumed = r.consumed + n /\ q.settled = r.settled
        /\ q.quarantine = "none" /\ q.opened = c.opened /\ q.cycle = c.cycle
        /\ q.left = c.left
    BY <1>7, <1>10, <2>1, <2>3, <2>3a
    DEF SameOrder, SameEntry, SamePosition, SameMarket, SameGuards, SameRisk, SameEnd
  <2>5. ~Open(q) /\ q.held = r.held - n
    BY <1>7, <1>10, <2>4 DEF Open
  <2>6. RowAgrees(q, full)
    BY <2>3, <2>4, <2>5 DEF RowAgrees, Exclusive
  <2>7. RowInv(q, full, one)
    BY <1>9, <2>3, <2>4, <2>6 DEF RowInv, OrderAddsUp, CycleSpent
  <2> QED BY <1>1, <2>3, <2>4, <2>5, <2>7 DEF StopKept
<1>11. CASE s.held # 0
  <2>1. /\ x \in Row /\ x.exit = "none" /\ x.held = s.held /\ x.bought = s.bought
        /\ x.owed = s.owed /\ SameOrder(x, s) /\ SameEntry(x, s) /\ SameMarket(x, s)
        /\ SameGuards(x, s) /\ SameRisk(x, s) /\ SameEnd(x, s)
    BY <1>7, ExitField
  <2> HIDE DEF x
  <2>2. /\ y \in Row /\ y.ok /\ y.state = "EXITING" /\ ~y.active /\ y.reserved
        /\ y.held = s.held /\ y.owed = s.held /\ y.bought = r.bought
        /\ y.exit = r.exit \/ (y.exit = "none" /\ r.exit = "CASHOUT")
        /\ y.consumed = r.consumed + n /\ y.settled = r.settled /\ y.quarantine = "none"
        /\ y.opened = c.opened /\ y.cycle = c.cycle /\ y.left = c.left
    BY <1>7, <2>1
    DEF SameOrder, SameEntry, SameMarket, SameGuards, SameRisk, SameEnd
  <2> HIDE DEF y
  <2>3. q = Move(y, "POSITION_OPEN")
    BY <1>11
  <2> HIDE DEF q
  <2>4. /\ q \in Row /\ q.state = "POSITION_OPEN"
        /\ q.ok = (y.ok /\ Legal(y.state, "POSITION_OPEN")) /\ SameOrder(q, y)
        /\ SameEntry(q, y) /\ SamePosition(q, y) /\ SameGuards(q, y) /\ SameRisk(q, y)
        /\ SameEnd(q, y)
    BY <2>2, <2>3, MoveFields, StateNames DEF Holding
  <2>5. /\ q.ok /\ ~q.active /\ q.reserved /\ q.held = s.held /\ q.owed = s.held
        /\ q.bought = r.bought /\ q.exit = y.exit /\ q.consumed = r.consumed + n
        /\ q.settled = r.settled /\ q.quarantine = "none" /\ q.opened = c.opened
        /\ q.cycle = c.cycle /\ q.left = c.left
    BY <2>2, <2>4, LegalMoves
    DEF SameOrder, SameEntry, SamePosition, SameGuards, SameRisk, SameEnd
  <2>6. Open(q) /\ q.held = r.held - n /\ q.held \in 1 .. q.bought
    BY <1>7, <1>8, <1>11, <2>5 DEF Open
  <2>7. RowAgrees(q, full)
    BY <2>4, <2>5, <2>6 DEF RowAgrees, Exclusive
  <2>8. RowInv(q, full, one)
    BY <1>8, <1>9, <2>4, <2>5, <2>6, <2>7 DEF RowInv, OrderAddsUp, CycleSpent
  <2>9. StopKept(r, q)
    BY <2>2, <2>5 DEF StopKept
  <2> QED BY <1>1, <2>4, <2>5, <2>6, <2>8, <2>9
<1> QED BY <1>10, <1>11

\* What a position is sold for is on display and was not sold against.
LEMMA Pursuing ==
  ASSUME NEW full, NEW one, NEW r, RowInv(r, full, one), Open(r), r.state \notin Shut,
         NEW why \in Exits \cup {"none"}, r.exit = "HARD_STOP" => why = "HARD_STOP",
         NEW clear, NEW ripe, NEW reach, NEW d \in 0 .. Depth
  PROVE LET q == Pursue(r, why, clear, ripe, reach, d, full) IN
        /\ RowInv(q, full, one) /\ StopKept(r, q) /\ q.settled = r.settled
        /\ q.active => r.active
        /\ Open(q) => q.state \notin Shut
        /\ q.state # "SETTLEMENT_PENDING"
        /\ \E n \in 0 .. r.held :
             /\ q.held = r.held - n /\ q.consumed = r.consumed + n
             /\ n > 0 => n <= d - r.consumed
<1> DEFINE a == IF why # r.exit /\ (why # "none" \/ clear) THEN Expire(r) ELSE r
           q == Pursue(r, why, clear, ripe, reach, d, full)
<1>0. /\ r.held \in Int /\ r.consumed \in Int /\ 0 <= r.held /\ 0 <= r.consumed
      /\ r.consumed <= Depth /\ Depth \in Int /\ d \in Int /\ 0 <= d /\ d <= Depth
  BY RestsWell, RowNumbers
<1>1. /\ RowInv(a, full, one) /\ Kept(r, a) /\ a.held = r.held /\ Open(a)
      /\ a.state \notin Shut /\ (r.exit = "HARD_STOP" => a = r)
  <2>1. CASE why # r.exit /\ (why # "none" \/ clear)
    <3>1. a = Expire(r) /\ r.exit # "HARD_STOP"
      BY <2>1
    <3> HIDE DEF a
    <3> QED BY <3>1, Clearing DEF Open
  <2>2. CASE ~(why # r.exit /\ (why # "none" \/ clear))
    <3>1. a = r
      BY <2>2
    <3> HIDE DEF a
    <3> QED BY <3>1 DEF Kept
  <2> QED BY <2>1, <2>2
<1>2. q = CASE why = "none" -> a
            [] why # "none" /\ a.exit = "none" -> Intend(a, why, full)
            [] OTHER -> IF ~ripe THEN a
                        ELSE Sell(a, IF reach THEN Least(a.held, Available(a, d)) ELSE 0,
                                  full)
  BY Zenon DEF Pursue, Expire
<1> HIDE DEF a, q
<1>3. /\ 0 \in 0 .. r.held /\ r.held = r.held - 0 /\ r.consumed = r.consumed + 0
      /\ ~(0 > 0)
  BY <1>0
<1>4. CASE q = a
  <2>1. StopKept(r, q)
    BY <1>1, <1>4 DEF StopKept
  <2>2. \E n \in 0 .. r.held : /\ q.held = r.held - n /\ q.consumed = r.consumed + n
                               /\ n > 0 => n <= d - r.consumed
    BY <1>1, <1>3, <1>4 DEF Kept
  <2> QED BY <1>1, <1>4, <2>1, <2>2 DEF q, Kept, Shut
<1>5. CASE why # "none" /\ a.exit = "none" /\ q = Intend(a, why, full)
  <2>1. why \in Exits
    BY <1>5
  <2>2. /\ RowInv(q, full, one) /\ Kept(a, q) /\ q.exit = why /\ q.state \notin Shut
        /\ q.held = a.held
    BY <1>1, <1>5, <2>1, Intending
  <2>3. StopKept(r, q)
    BY <2>2 DEF StopKept
  <2>4. \E n \in 0 .. r.held : /\ q.held = r.held - n /\ q.consumed = r.consumed + n
                               /\ n > 0 => n <= d - r.consumed
    BY <1>1, <1>3, <2>2 DEF Kept
  <2> QED BY <1>1, <2>2, <2>3, <2>4 DEF q, Kept, Shut
<1>6. CASE q = Sell(a, IF reach THEN Least(a.held, Available(a, d)) ELSE 0, full)
  <2> DEFINE n == IF reach THEN Least(a.held, Available(a, d)) ELSE 0
  <2>1. a.held = r.held /\ a.consumed = r.consumed
    BY <1>1 DEF Kept
  <2>2. /\ n \in 0 .. r.held /\ r.consumed + n <= Depth
        /\ n > 0 => n <= d - r.consumed
    BY <1>0, <2>1 DEF Least, Available
  <2> HIDE DEF n
  <2>3. /\ RowInv(q, full, one) /\ ~q.active /\ StopKept(a, q) /\ q.settled = a.settled
        /\ q.consumed = a.consumed + n /\ q.held = a.held - n
        /\ q.state \in {"CLOSED", "POSITION_OPEN"}
        /\ (Open(q) => q.state = "POSITION_OPEN")
    <3>1. q = Sell(a, n, full)
      BY <1>6 DEF n
    <3> QED BY <1>1, <2>1, <2>2, <3>1, Selling
  <2>4. StopKept(r, q)
    BY <1>1, <2>3 DEF StopKept
  <2>5. \E k \in 0 .. r.held : /\ q.held = r.held - k /\ q.consumed = r.consumed + k
                               /\ k > 0 => k <= d - r.consumed
    BY <2>1, <2>2, <2>3
  <2> QED BY <1>1, <2>3, <2>4, <2>5 DEF q, Kept, Shut
<1> QED BY <1>2, <1>4, <1>5, <1>6

\* The entry of an account that may submit adds up and claims a fresh cycle.
LEMMA Submitting ==
  ASSUME NEW full, NEW one, NEW r, RowInv(r, full, one), NEW halted,
         Submittable(r, one, halted), Submit(r, one, halted).ok
  PROVE LET q == Submit(r, one, halted) IN
        /\ RowInv(q, full, one) /\ q.settled = r.settled /\ q.consumed = r.consumed
        /\ ~Open(q) /\ ~Open(r) /\ q.state = "ORDER_PENDING" /\ r.exit = "none"
<1> DEFINE k == NextEntry(r, one, halted)
           c == k[1]
           b == k[2]
           e == Entered(r, c, b)
           v == Move(e, "EVALUATING")
           t == Move(v, "TRADE_CANDIDATE")
           u == IF RetryReady(r, one, halted) THEN t ELSE e
           q == Move(u, "ORDER_PENDING")
<1>1. /\ r \in Row /\ ~Open(r) /\ r.quarantine = "none" /\ r.pause = "none"
      /\ r.exit = "none" /\ r.held = 0 /\ r.bought = 0 /\ r.owed = 0
      /\ CycleSpent(r, one)
  BY RestsWell DEF Submittable, RowInv
<1>2. c = (IF ReentryReady(r, one, halted) THEN r.cycle + 1
           ELSE IF RetryReady(r, one, halted) THEN r.cycle ELSE 1)
      /\ b = (IF RetryReady(r, one, halted) THEN r.attempt + 1 ELSE 1)
  BY Zenon DEF NextEntry
<1>3. k = <<c, b>>
  BY DEF NextEntry
<1>4. q = Submit(r, one, halted)
  BY Zenon, <1>3 DEF Submit, Entered
<1>5. r.cycle \in 0 .. Cycles /\ r.attempt \in Attempts /\ r.opened \in Nat
  BY <1>1, RowTypes, Zenon
<1>6. r.cycle \in Int /\ r.opened \in Int /\ 0 <= r.cycle /\ Cycles \in Int /\ 1 <= Cycles
  BY <1>5, PortfolioAssumption
<1>7. c <= Cycles
  BY DEF Submittable
<1> HIDE DEF c, b, k
<1>8. c \in 1 .. Cycles
  BY <1>2, <1>6, <1>7 DEF ReentryReady, RetryReady
<1>9. b \in Attempts
  BY <1>2, <1>5, PortfolioAssumption DEF RetryReady, Attempts
<1>10. r.opened < c /\ (one => c <= 1)
  <2>1. CASE ReentryReady(r, one, halted)
    BY <1>1, <1>2, <1>6, <2>1 DEF ReentryReady, CycleSpent
  <2>2. CASE ~ReentryReady(r, one, halted) /\ RetryReady(r, one, halted)
    BY <1>1, <1>2, <1>6, <2>2 DEF RetryReady, CycleSpent
  <2>3. CASE ~ReentryReady(r, one, halted) /\ ~RetryReady(r, one, halted)
    BY <1>1, <1>2, <1>6, <2>3 DEF Submittable, CycleSpent
  <2> QED BY <2>1, <2>2, <2>3
<1>11. /\ e \in Row /\ e.active /\ e.left = Size /\ e.cycle = c /\ e.reserved
       /\ e.consumed = r.consumed /\ e.opened = r.opened
       /\ SamePosition(e, r) /\ SameGuards(e, r) /\ SameEnd(e, r)
  <2>1. r \in Row /\ c \in Ordinals /\ b \in Attempts
    BY <1>1, <1>8, <1>9 DEF Ordinals
  <2> QED BY <1>1, <2>1, EntryFields
<1> HIDE DEF e
<1>12. {"EVALUATING", "TRADE_CANDIDATE", "ORDER_PENDING"} \subseteq States
  BY StateNames DEF Entering, Ordering
<1>13. /\ v \in Row /\ SameOrder(v, e) /\ SameEntry(v, e) /\ SamePosition(v, e)
       /\ SameGuards(v, e) /\ SameRisk(v, e) /\ SameEnd(v, e)
  BY <1>11, <1>12, MoveFields
<1> HIDE DEF v
<1>14. /\ t \in Row /\ SameOrder(t, v) /\ SameEntry(t, v) /\ SamePosition(t, v)
       /\ SameGuards(t, v) /\ SameRisk(t, v) /\ SameEnd(t, v)
  BY <1>12, <1>13, MoveFields
<1> HIDE DEF t
<1>15. /\ u \in Row /\ SameOrder(u, e) /\ SameEntry(u, e) /\ SamePosition(u, e)
       /\ SameGuards(u, e) /\ SameRisk(u, e) /\ SameEnd(u, e)
  BY <1>11, <1>13, <1>14
  DEF SameOrder, SameEntry, SamePosition, SameGuards, SameRisk, SameEnd
<1> HIDE DEF u
<1>16. /\ q \in Row /\ q.state = "ORDER_PENDING" /\ SameOrder(q, u) /\ SameEntry(q, u)
       /\ SamePosition(q, u) /\ SameGuards(q, u) /\ SameRisk(q, u) /\ SameEnd(q, u)
  BY <1>12, <1>15, MoveFields
<1> HIDE DEF q
<1>17. /\ q.active /\ q.left = Size /\ q.cycle = c /\ q.reserved /\ q.opened = r.opened
       /\ q.consumed = r.consumed /\ q.held = 0 /\ q.bought = 0 /\ q.owed = 0
       /\ q.exit = "none" /\ q.quarantine = "none" /\ q.pause = "none"
       /\ q.settled = r.settled
  BY <1>1, <1>11, <1>15, <1>16
  DEF SameOrder, SameEntry, SamePosition, SameGuards, SameRisk, SameEnd
<1>18. ~Open(q) /\ q.left > 0
  BY <1>17, PortfolioAssumption DEF Open
<1>19. RowAgrees(q, full)
  BY <1>16, <1>17, <1>18 DEF RowAgrees, Exclusive
<1>20. q.ok
  BY <1>4
<1>21. OrderAddsUp(q) /\ CycleSpent(q, one)
  BY <1>6, <1>8, <1>10, <1>17, PortfolioAssumption DEF OrderAddsUp, CycleSpent
<1>22. RowInv(q, full, one)
  BY <1>16, <1>17, <1>19, <1>20, <1>21 DEF RowInv
<1> QED BY <1>1, <1>4, <1>16, <1>17, <1>18, <1>22

\* Evidence is a record beside the account.
LEMMA Attesting ==
  ASSUME NEW full, NEW one, NEW r, RowInv(r, full, one), NEW o \in Outcomes, NEW terms
  PROVE LET q == Attested(r, o, terms) IN
        /\ RowInv(q, full, one) /\ q.settled = r.settled /\ q.consumed = r.consumed
        /\ SameOrder(q, r) /\ SamePosition(q, r) /\ SameMarket(q, r) /\ SameGuards(q, r)
<1> DEFINE q == WithEvidence(r, o)
<1>1. CASE terms = "none" \/ o \in r.evidence
  <2>1. Attested(r, o, terms) = r
    BY <1>1 DEF Attested
  <2> QED BY <2>1 DEF SameOrder, SamePosition, SameMarket, SameGuards
<1>2. CASE ~(terms = "none" \/ o \in r.evidence)
  <2>1. Attested(r, o, terms) = q
    BY <1>2, Zenon DEF Attested, WithEvidence
  <2>2. /\ q \in Row /\ q.settled = r.settled /\ SameOrder(q, r) /\ SameEntry(q, r)
        /\ SamePosition(q, r) /\ SameMarket(q, r) /\ SameGuards(q, r) /\ SameRisk(q, r)
    BY RestsWell, EvidenceFields
  <2> HIDE DEF q
  <2>3. RowAgrees(q, full)
    BY <2>2 DEF RowInv, RowAgrees, Open, Exclusive, SameOrder, SamePosition, SameMarket,
                SameGuards, SameRisk
  <2>4. RowInv(q, full, one)
    BY <2>2, <2>3 DEF RowInv, OrderAddsUp, CycleSpent, SameOrder, SameEntry, SamePosition,
                      SameMarket
  <2> QED BY <2>1, <2>2, <2>4 DEF SameRisk
<1> QED BY <1>1, <1>2

\* The payment leaves nothing of the account.
LEMMA Paying ==
  ASSUME NEW full, NEW one, NEW r, RowInv(r, full, one), r.state # "UNKNOWN",
         NEW o \in Outcomes, Pay(r, o).ok
  PROVE LET q == Pay(r, o) IN
        /\ RowInv(q, full, one) /\ ~q.active /\ ~Open(q) /\ q.settled = o
        /\ q.consumed = r.consumed
<1> DEFINE w == WithResult(r, o)
           c == Cancel(w)
           x == Escaped(c)
           p == IF c.quarantine = "none" THEN c ELSE x
           a == Move(p, "SETTLEMENT_PENDING")
           b == PaidOut(a)
           d == Emptied(b)
           e == Move(d, "CLOSED")
           h == Move(a, "CLOSED")
           z == IF Open(p) THEN e
                ELSE IF p.state \in {"CLOSED", "HALTED", "ERROR"} THEN p ELSE h
           q == Released(z)
<1>1. Pay(r, o) = q
  <2>2. x = [c EXCEPT !.state = "SETTLEMENT_PENDING", !.ok = @ /\ c.state = "HALTED"]
    BY Zenon DEF Escaped
  <2>3. w = [r EXCEPT !.settled = o]
    BY Zenon DEF WithResult
  <2>4. e = Finish(b)
    BY Zenon DEF Finish, Emptied
  <2>5. q = [z EXCEPT !.quarantine = "none", !.pause = "none"]
    BY Zenon DEF Released
  <2> HIDE DEF x, w, b, e, a, h
  <2> QED BY <2>2, <2>3, <2>4, <2>5, Zenon DEF Pay, a, h, b
<1>2. /\ w \in Row /\ w.settled = o /\ SameOrder(w, r) /\ SameEntry(w, r)
      /\ SamePosition(w, r) /\ SameMarket(w, r) /\ SameGuards(w, r) /\ SameRisk(w, r)
  BY RestsWell, SettledField
<1> HIDE DEF w
<1>3. RowInv(w, full, one)
  <2>1. RowAgrees(w, full)
    BY <1>2 DEF RowInv, RowAgrees, Open, Exclusive, SameOrder, SamePosition, SameMarket,
                SameGuards, SameRisk
  <2> QED BY <1>2, <2>1 DEF RowInv, OrderAddsUp, CycleSpent, SameOrder, SameEntry,
                            SamePosition, SameMarket
<1>4. /\ RowInv(c, full, one) /\ ~c.active /\ c.settled = o /\ c.consumed = r.consumed
  BY <1>2, <1>3, Cancelling DEF Kept, SameRisk
<1> HIDE DEF c
<1>5. /\ c \in Row /\ (c.quarantine # "none" <=> c.state = "HALTED")
      /\ (c.exit # "none" => Open(c)) /\ (c.reserved <=> c.active \/ Open(c))
      /\ (~Open(c) => c.held = 0 /\ c.bought = 0) /\ c.owed = c.held
  BY <1>4, RestsWell
<1>6. /\ x \in Row /\ x.state = "SETTLEMENT_PENDING" /\ SameOrder(x, c) /\ SameEntry(x, c)
      /\ SamePosition(x, c) /\ SameGuards(x, c) /\ SameRisk(x, c) /\ SameEnd(x, c)
  BY <1>5, EscapeFields
<1> HIDE DEF x
<1>7. /\ p \in Row /\ SameOrder(p, c) /\ SameEntry(p, c) /\ SamePosition(p, c)
      /\ SameRisk(p, c) /\ SameEnd(p, c) /\ p.state # "HALTED"
  BY <1>5, <1>6 DEF SameOrder, SameEntry, SamePosition, SameRisk, SameEnd
<1> HIDE DEF p
<1>8. {"SETTLEMENT_PENDING", "CLOSED"} \subseteq States
  BY StateNames
<1>9. /\ a \in Row /\ a.state = "SETTLEMENT_PENDING" /\ SameOrder(a, p) /\ SameEntry(a, p)
      /\ SamePosition(a, p) /\ SameRisk(a, p) /\ SameEnd(a, p)
  BY <1>7, <1>8, MoveFields
<1> HIDE DEF a
<1>10. /\ b \in Row /\ b.owed = a.owed - a.held /\ SameOrder(b, a) /\ SameEntry(b, a)
       /\ SameRisk(b, a) /\ SameEnd(b, a)
  BY <1>9, PaidField
<1> HIDE DEF b
<1>11. /\ d \in Row /\ d.held = 0 /\ d.bought = 0 /\ d.exit = "none" /\ ~d.reserved
       /\ d.owed = b.owed /\ d.consumed = b.consumed /\ d.cycle = b.cycle
       /\ d.opened = b.opened /\ SameOrder(d, b) /\ SameEnd(d, b)
  BY <1>10, FinishFields
<1> HIDE DEF d
<1>12. /\ e \in Row /\ e.state = "CLOSED" /\ SameOrder(e, d) /\ SameEntry(e, d)
       /\ SamePosition(e, d) /\ SameRisk(e, d) /\ SameEnd(e, d)
  BY <1>8, <1>11, MoveFields
<1> HIDE DEF e
<1>13. /\ h \in Row /\ h.state = "CLOSED" /\ SameOrder(h, a) /\ SameEntry(h, a)
       /\ SamePosition(h, a) /\ SameRisk(h, a) /\ SameEnd(h, a)
  BY <1>8, <1>9, MoveFields
<1> HIDE DEF h
<1>14. /\ z \in Row /\ ~z.active /\ z.left = c.left /\ z.cycle = c.cycle
       /\ z.opened = c.opened /\ z.held = 0 /\ z.bought = 0 /\ z.owed = 0
       /\ z.exit = "none" /\ ~z.reserved /\ z.consumed = c.consumed /\ z.settled = o
       /\ z.state \in {"CLOSED", "ERROR"}
  <2>1. CASE Open(p)
    <3>1. z = e
      BY <2>1
    <3>2. b.owed = 0
      <4>1. a.owed = a.held
        BY <1>5, <1>7, <1>9 DEF SamePosition
      <4>2. a.held \in Int
        BY <1>9, RowNumbers
      <4> QED BY <1>10, <4>1, <4>2
    <3> HIDE DEF z
    <3> QED BY <1>4, <1>7, <1>9, <1>10, <1>11, <1>12, <3>1, <3>2
            DEF SameOrder, SameEntry, SamePosition, SameRisk, SameEnd
  <2>2. CASE ~Open(p)
    <3>1. ~Open(c)
      BY <1>7, <2>2 DEF Open, SamePosition
    <3>2. (z = p /\ p.state \in {"CLOSED", "ERROR"}) \/ z = h
      BY <1>7, <2>2
    <3> HIDE DEF z
    <3>3. /\ ~p.active /\ p.left = c.left /\ p.cycle = c.cycle /\ p.opened = c.opened
          /\ p.held = 0 /\ p.bought = 0 /\ p.owed = 0 /\ p.exit = "none" /\ ~p.reserved
          /\ p.consumed = c.consumed /\ p.settled = o
      BY <1>4, <1>5, <1>7, <3>1
      DEF SameOrder, SameEntry, SamePosition, SameRisk, SameEnd
    <3> QED BY <1>7, <1>9, <1>13, <3>2, <3>3
            DEF SameOrder, SameEntry, SamePosition, SameRisk, SameEnd
  <2> QED BY <2>1, <2>2
<1> HIDE DEF z
<1>15. /\ q \in Row /\ q.quarantine = "none" /\ SameOrder(q, z) /\ SameEntry(q, z)
       /\ SamePosition(q, z) /\ SameMarket(q, z) /\ SameRisk(q, z) /\ SameEnd(q, z)
  BY <1>14, ReleaseFields
<1> HIDE DEF q
<1>16. /\ ~q.active /\ q.left = c.left /\ q.cycle = c.cycle /\ q.opened = c.opened
       /\ q.held = 0 /\ q.bought = 0 /\ q.owed = 0 /\ q.exit = "none" /\ ~q.reserved
       /\ q.consumed = c.consumed /\ q.settled = o /\ q.state \in {"CLOSED", "ERROR"}
  BY <1>14, <1>15
  DEF SameOrder, SameEntry, SamePosition, SameMarket, SameRisk, SameEnd
<1>17. ~Open(q)
  BY <1>16 DEF Open
<1>18. RowAgrees(q, full)
  BY <1>15, <1>16, <1>17 DEF RowAgrees, Exclusive
<1>19. CycleSpent(q, one)
  BY <1>4, <1>16 DEF RowInv, CycleSpent
<1>20. RowInv(q, full, one)
  BY <1>1, <1>15, <1>16, <1>18, <1>19 DEF RowInv, OrderAddsUp
<1> QED BY <1>1, <1>4, <1>16, <1>17, <1>20

\* A settlement pays, or quarantines, or leaves the account as it is.
LEMMA Settling ==
  ASSUME NEW full, NEW one, NEW r, RowInv(r, full, one), Flat(r), r.state # "UNKNOWN",
         NEW o \in Outcomes, NEW terms, NEW review, Settle(r, o, terms, review).ok
  PROVE LET q == Settle(r, o, terms, review) IN
        /\ RowInv(q, full, one) /\ Flat(q) /\ q.consumed = r.consumed /\ StopKept(r, q)
        /\ q.active => r.active
<1> DEFINE a == Attested(r, o, terms)
           p == IF terms \in {"changed", "invalid"} THEN Quarantine(a, "other") ELSE a
           q == Settle(r, o, terms, review)
<1>1. /\ RowInv(a, full, one) /\ a.settled = r.settled /\ a.consumed = r.consumed
      /\ SameOrder(a, r) /\ SamePosition(a, r) /\ SameMarket(a, r)
  BY Attesting
<1> HIDE DEF a
<1>2. /\ RowInv(p, full, one) /\ p.settled = r.settled /\ p.consumed = r.consumed
      /\ SamePosition(p, r) /\ (p.active => r.active) /\ p.state # "UNKNOWN"
  <2>1. CASE terms \in {"changed", "invalid"}
    <3>1. a.state # "UNKNOWN" /\ "other" \in {"invalid", "other"}
      BY <1>1 DEF SameMarket
    <3>2. p = Quarantine(a, "other")
      BY <2>1
    <3> HIDE DEF p
    <3>3. /\ RowInv(p, full, one) /\ Kept(a, p) /\ SamePosition(p, a) /\ ~p.active
          /\ p.state # "UNKNOWN"
      BY <1>1, <3>1, <3>2, Quarantining
    <3> QED BY <1>1, <3>3 DEF Kept, SamePosition
  <2>2. CASE terms \notin {"changed", "invalid"}
    <3>1. p = a
      BY <2>2
    <3> HIDE DEF p
    <3> QED BY <1>1, <3>1 DEF SameOrder, SameMarket
  <2> QED BY <2>1, <2>2
<1> HIDE DEF p
<1>3. \/ q = r
      \/ r.settled = "none" /\ q = p
      \/ q = [p EXCEPT !.ok = FALSE]
      \/ q = Pay(p, o)
  BY Zenon DEF Settle, p, a
<1>4. q.ok
  OBVIOUS
<1> HIDE DEF q
<1>5. CASE q = r
  BY <1>5 DEF q, StopKept
<1>6. CASE r.settled = "none" /\ q = p
  BY <1>2, <1>6 DEF q, StopKept, Flat, SamePosition
<1>7. q # [p EXCEPT !.ok = FALSE]
  <2>1. p \in Row
    BY <1>2, RestsWell
  <2>2. [p EXCEPT !.ok = FALSE].ok = FALSE
    BY <2>1, Zenon DEF Row
  <2> QED BY <1>4, <2>2, Zenon
<1>8. CASE q = Pay(p, o)
  <2>1. /\ RowInv(q, full, one) /\ ~q.active /\ ~Open(q) /\ q.consumed = p.consumed
    BY <1>2, <1>4, <1>8, Paying
  <2> QED BY <1>2, <2>1 DEF q, StopKept, Flat
<1> QED BY <1>3, <1>5, <1>6, <1>7, <1>8

-------------------------------------------------------------------------------
(* The worker's steps.                                                     *)

Saved ==
  /\ db' \in [Markets -> Row]
  /\ mem' = [m \in Markets |-> Portfolio(db'[m])]

Gentle ==
  /\ Saved
  /\ \A m \in Markets : /\ RowInv(db'[m], config.full, config.oneTrade)
                        /\ Kept(db[m], db'[m]) /\ StopKept(db[m], db'[m])

StopsKept == \A m \in Markets : StopKept(db[m], db'[m])

Fed == \A m \in Markets : db'[m].active => healthy' /\ valid'[m] /\ ~risk'.halted

NoneRests == \A m \in Markets : ~db'[m].active

Risks == [halted : BOOLEAN, today : 0 .. Daily]

Typed ==
  /\ risk' \in Risks /\ healthy' \in BOOLEAN /\ valid' \in [Markets -> BOOLEAN]
  /\ loop' \subseteq Markets /\ waiting' \subseteq Markets

Leased ==
  /\ worker' \in {"down", "up"} /\ collector' \in {"free", "held"}
  /\ collector' = "free" => worker' = "down"
  /\ worker' = "down" => turn' = Idle

Parked == turn' \in Turn /\ turn'.pc \in {"idle", "gate"}

-----------------------------------------------------------------------------
(* The parts of the invariant and the steps that are gentle to it. *)

LEMMA Typing ==
  ASSUME PaperInv
  PROVE /\ config \in Configs /\ db \in [Markets -> Row] /\ risk \in Risks
        /\ healthy \in BOOLEAN /\ valid \in [Markets -> BOOLEAN]
        /\ shown \in [Markets -> 0 .. Depth] /\ credit \in [Markets -> Int]
        /\ closed \in [Markets -> BOOLEAN]
        /\ loop \subseteq Markets /\ waiting \subseteq Markets /\ turn \in Turn
        /\ worker \in {"down", "up"} /\ collector \in {"free", "held"}
BY DEF PaperInv, PaperTypes, Risks

LEMMA AccountOf ==
  ASSUME PaperInv, NEW m \in Markets
  PROVE /\ RowInv(db[m], config.full, config.oneTrade) /\ Flat(db[m]) /\ db[m] \in Row
        /\ db[m].settled # "none" \/ db[m].state = "SETTLEMENT_PENDING" => closed[m]
        /\ credit[m] >= 0 /\ credit[m] >= shown[m] - db[m].consumed
        /\ worker = "up" /\ db[m].active =>
             healthy /\ valid[m] /\ ~risk.halted /\ db[m].settled = "none"
<1>1. RowInv(db[m], config.full, config.oneTrade) /\ Flat(db[m])
  BY DEF PaperInv, Accounts
<1>2. db[m] \in Row
  BY <1>1 DEF RowInv
<1>3. db[m].settled # "none" \/ db[m].state = "SETTLEMENT_PENDING" => closed[m]
  BY DEF PaperInv, SettledLate
<1>4. credit[m] >= 0 /\ credit[m] >= shown[m] - db[m].consumed
  BY DEF PaperInv, DepthCovered
<1>5. worker = "up" /\ db[m].active =>
        healthy /\ valid[m] /\ ~risk.halted /\ db[m].settled = "none"
  BY DEF PaperInv, NoOrderOutlivesItsFeed
<1> QED BY <1>1, <1>2, <1>3, <1>4, <1>5

\* A transaction's overlay of a portfolio over its own ledger is the account.
LEMMA Overlaying ==
  ASSUME NEW r \in Row
  PROVE /\ Overlay(Portfolio(r), r) = r
        /\ Portfolio(r) \in Row /\ Portfolio(Portfolio(r)) = Portfolio(r)
        /\ Portfolio(r).active = r.active /\ Portfolio(r).reserved = r.reserved
        /\ Portfolio(r).bought = r.bought
<1>1. Portfolio(r) \in Row
  <2>1. Fresh \in Row
    BY PortfolioAssumption DEF Fresh, Row, Attempts, States, Outcomes
  <2> QED BY <2>1 DEF Portfolio, Overlay, Row
<1>2. Overlay(Portfolio(r), r) = r
  BY DEF Portfolio, Overlay, Row
<1>3. Portfolio(Portfolio(r)) = Portfolio(r)
  BY DEF Portfolio, Overlay
<1> QED BY <1>1, <1>2, <1>3 DEF Portfolio, Overlay

LEMMA Seen ==
  ASSUME PaperInv
  PROVE /\ mem = [m \in Markets |-> Portfolio(db[m])]
        /\ \A m \in Markets : /\ View(m) = db[m] /\ mem[m].bought = db[m].bought
                              /\ mem[m].active = db[m].active
<1>1. mem = [m \in Markets |-> Portfolio(db[m])]
  BY DEF PaperInv, MemorySaved
<1>2. ASSUME NEW m \in Markets
      PROVE /\ View(m) = db[m] /\ mem[m].bought = db[m].bought
            /\ mem[m].active = db[m].active
  BY <1>1, AccountOf, Overlaying DEF View
<1> QED BY <1>1, <1>2

\* A transaction changes the account of one market.
LEMMA Committed ==
  ASSUME PaperInv, NEW m \in Markets, NEW q \in Row, Commit(m, q)
  PROVE Saved /\ db'[m] = q /\ \A k \in Markets : k # m => db'[k] = db[k]
<1>1. db' = [k \in Markets |-> IF k = m THEN q ELSE db[k]]
  BY Seen DEF Commit
<1>2. db' \in [Markets -> Row]
  BY <1>1, Typing
<1>3. \A k \in Markets : mem'[k] = Portfolio(db'[k])
  BY <1>1, Seen DEF Commit
<1>4. mem' = [k \in Markets |-> mem'[k]]
  BY Seen DEF Commit
<1> QED BY <1>1, <1>2, <1>3, <1>4 DEF Saved

\* A transition in a transaction of its own changes the state only.
LEMMA Moved ==
  ASSUME PaperInv, NEW m \in Markets, NEW s \in Entering \cup {"SETTLEMENT_PENDING"},
         Legal(db[m].state, s), CommitState(m, s)
  PROVE /\ Saved /\ db'[m] = Move(db[m], s) /\ (\A k \in Markets : k # m => db'[k] = db[k])
        /\ RowInv(db'[m], config.full, config.oneTrade) /\ ~db'[m].active
        /\ db'[m].state = s /\ db'[m].settled = db[m].settled
        /\ db'[m].consumed = db[m].consumed /\ db'[m].bought = db[m].bought
        /\ db'[m].exit = db[m].exit /\ risk' = risk
<1> DEFINE q == Move(db[m], s)
<1>1. /\ RowInv(q, config.full, config.oneTrade) /\ ~q.active /\ ~db[m].active
      /\ q.state = s /\ SameOrder(q, db[m]) /\ SameEntry(q, db[m])
      /\ SamePosition(q, db[m]) /\ SameGuards(q, db[m]) /\ SameRisk(q, db[m])
      /\ SameEnd(q, db[m])
  BY AccountOf, Moving
<1>2. q \in Row
  BY <1>1 DEF RowInv
<1>3. db' = [db EXCEPT ![m] = q]
  BY DEF CommitState
<1> HIDE DEF q
<1>4. db' \in [Markets -> Row] /\ db'[m] = q /\ \A k \in Markets : k # m => db'[k] = db[k]
  BY <1>2, <1>3, Typing
<1>5. Portfolio(q) = Portfolio(db[m])
  BY <1>1 DEF Portfolio, Overlay, SameOrder, SameEntry, SamePosition, SameGuards, SameRisk
<1>6. mem' = [k \in Markets |-> Portfolio(db'[k])]
  BY <1>4, <1>5, Seen DEF CommitState
<1> QED BY <1>1, <1>4, <1>6
        DEF q, Saved, CommitState, SamePosition, SameRisk, SameEnd

\* A gentle step keeps the invariant when it keeps the rest of it.
LEMMA GentleStep ==
  ASSUME PaperInv, config' = config, UNCHANGED <<shown, credit, closed>>,
         Gentle, Typed, Leased, turn' \in Turn, TurnAgrees', worker' = "up" => Fed
  PROVE PaperInv' /\ StopsKept
<1>1. PaperTypes'
  BY Typing DEF PaperTypes, Typed, Leased, Gentle, Saved, Risks
<1>2. Accounts'
  <2>1. ASSUME NEW m \in Markets
        PROVE RowInv(db'[m], config.full, config.oneTrade) /\ Flat(db'[m])
    <3>1. RowInv(db'[m], config.full, config.oneTrade) /\ Kept(db[m], db'[m])
      BY DEF Gentle
    <3>2. Flat(db[m])
      BY AccountOf
    <3> QED BY <3>1, <3>2 DEF Flat, Kept
  <2> QED BY <2>1 DEF Accounts
<1>3. MemorySaved'
  BY DEF Gentle, Saved, Leased, MemorySaved
<1>4. ASSUME NEW m \in Markets
      PROVE /\ db'[m].settled # "none" \/ db'[m].state = "SETTLEMENT_PENDING" => closed'[m]
            /\ credit'[m] >= 0 /\ credit'[m] >= shown'[m] - db'[m].consumed
            /\ worker' = "up" /\ db'[m].active =>
                 healthy' /\ valid'[m] /\ ~risk'.halted /\ db'[m].settled = "none"
  <2>1. Kept(db[m], db'[m])
    BY DEF Gentle
  <2>2. /\ db'[m].settled = db[m].settled /\ db'[m].consumed = db[m].consumed
        /\ db'[m].state = "SETTLEMENT_PENDING" => db[m].state = "SETTLEMENT_PENDING"
    BY <2>1 DEF Kept
  <2>3. Flat(db'[m])
    BY <1>2 DEF Accounts
  <2>4. worker' = "up" /\ db'[m].active =>
          healthy' /\ valid'[m] /\ ~risk'.halted /\ db'[m].settled = "none"
    BY <2>3 DEF Fed, Flat
  <2> QED BY <2>2, <2>4, AccountOf
<1>5. SettledLate' /\ DepthCovered' /\ NoOrderOutlivesItsFeed'
  BY <1>4 DEF SettledLate, DepthCovered, NoOrderOutlivesItsFeed
<1>6. StopsKept
  BY DEF Gentle, StopsKept
<1> QED BY <1>1, <1>2, <1>3, <1>5, <1>6 DEF PaperInv

\* Between rows, and at the gate of a row, nothing is said of a market.
LEMMA Parking ==
  ASSUME Parked
  PROVE TurnAgrees'
BY DEF Parked, TurnAgrees, Inside

LEMMA UpLeased ==
  ASSUME PaperInv, worker = "up", UNCHANGED process
  PROVE Leased
BY Typing DEF PaperInv, MemorySaved, process, Leased

\* A row that leaves the worker up and no market in hand.
LEMMA RowStep ==
  ASSUME PaperInv, config' = config, UNCHANGED <<shown, credit, closed>>,
         worker = "up", UNCHANGED process, Gentle, Typed, Parked, Fed
  PROVE PaperInv' /\ StopsKept
BY GentleStep, Parking, UpLeased DEF Parked

LEMMA SameAccounts ==
  ASSUME PaperInv, UNCHANGED account
  PROVE Gentle
<1>1. Saved
  BY Typing, Seen DEF account, Saved
<1>2. ASSUME NEW m \in Markets
      PROVE /\ RowInv(db'[m], config.full, config.oneTrade)
            /\ Kept(db[m], db'[m]) /\ StopKept(db[m], db'[m])
  BY AccountOf DEF account, Kept, StopKept
<1> QED BY <1>1, <1>2 DEF Gentle

LEMMA AllCancelled ==
  ASSUME PaperInv, CancelAll
  PROVE Gentle /\ NoneRests
<1>1. db' = [m \in Markets |-> Cancel(db[m])] /\ mem' = [m \in Markets |-> Portfolio(db'[m])]
  BY Seen DEF CancelAll
<1>2. ASSUME NEW m \in Markets
      PROVE /\ RowInv(db'[m], config.full, config.oneTrade) /\ db'[m] \in Row
            /\ Kept(db[m], db'[m]) /\ StopKept(db[m], db'[m]) /\ ~db'[m].active
  <2> DEFINE q == Cancel(db[m])
  <2>1. /\ RowInv(q, config.full, config.oneTrade) /\ ~q.active /\ Kept(db[m], q)
        /\ SamePosition(q, db[m])
    BY AccountOf, Cancelling
  <2>2. db'[m] = q
    BY <1>1
  <2> HIDE DEF q
  <2> QED BY <2>1, <2>2 DEF RowInv, StopKept, SamePosition
<1> QED BY <1>1, <1>2 DEF Gentle, Saved, NoneRests

\* One transaction on one account that the operation keeps.
LEMMA CommittedGently ==
  ASSUME PaperInv, NEW m \in Markets, NEW q, Commit(m, q),
         RowInv(q, config.full, config.oneTrade), Kept(db[m], q), StopKept(db[m], q)
  PROVE Gentle /\ db'[m] = q /\ \A k \in Markets : k # m => db'[k] = db[k]
<1>1. Saved /\ db'[m] = q /\ \A k \in Markets : k # m => db'[k] = db[k]
  BY Committed DEF RowInv
<1>2. ASSUME NEW k \in Markets
      PROVE /\ RowInv(db'[k], config.full, config.oneTrade)
            /\ Kept(db[k], db'[k]) /\ StopKept(db[k], db'[k])
  <2>1. CASE k = m
    BY <1>1, <2>1
  <2>2. CASE k # m
    BY <1>1, <2>2, AccountOf DEF Kept, StopKept
  <2> QED BY <2>1, <2>2
<1> QED BY <1>1, <1>2 DEF Gentle

LEMMA MovedGently ==
  ASSUME PaperInv, NEW m \in Markets, NEW s \in Entering, Legal(db[m].state, s),
         CommitState(m, s)
  PROVE /\ Gentle /\ (\A k \in Markets : k # m => db'[k] = db[k])
        /\ db'[m].state = s /\ db'[m].settled = db[m].settled /\ risk' = risk
        /\ db'[m].active = FALSE
<1>1. s \in Entering \cup {"SETTLEMENT_PENDING"} /\ s # "SETTLEMENT_PENDING"
  BY DEF Entering
<1>2. /\ Saved /\ (\A k \in Markets : k # m => db'[k] = db[k])
      /\ RowInv(db'[m], config.full, config.oneTrade) /\ ~db'[m].active
      /\ db'[m].state = s /\ db'[m].settled = db[m].settled
      /\ db'[m].consumed = db[m].consumed /\ db'[m].bought = db[m].bought
      /\ db'[m].exit = db[m].exit /\ risk' = risk
  BY <1>1, Moved
<1>3. Kept(db[m], db'[m]) /\ StopKept(db[m], db'[m])
  BY <1>1, <1>2 DEF Kept, StopKept, Open
<1>4. ASSUME NEW k \in Markets
      PROVE /\ RowInv(db'[k], config.full, config.oneTrade)
            /\ Kept(db[k], db'[k]) /\ StopKept(db[k], db'[k])
  <2>1. CASE k = m
    BY <1>2, <1>3, <2>1
  <2>2. CASE k # m
    BY <1>2, <2>2, AccountOf DEF Kept, StopKept
  <2> QED BY <2>1, <2>2
<1>5. db'[m].active = FALSE
  <2>1. db'[m].active \in BOOLEAN
    BY <1>2, RestsWell, RowTypes, Zenon
  <2> QED BY <1>2, <2>1, Zenon
<1> QED BY <1>2, <1>4, <1>5 DEF Gentle

\* Orders that rested on the feed still do.
LEMMA FeedKept ==
  ASSUME PaperInv, Gentle, worker = "up", UNCHANGED <<healthy, valid>>,
         risk'.halted = risk.halted
  PROVE Fed
<1>1. ASSUME NEW m \in Markets, db'[m].active
      PROVE healthy' /\ valid'[m] /\ ~risk'.halted
  <2>1. db[m].active
    BY <1>1 DEF Gentle, Kept
  <2> QED BY <2>1, AccountOf
<1> QED BY <1>1 DEF Fed

LEMMA NothingToFeed ==
  ASSUME NoneRests
  PROVE Fed
BY DEF NoneRests, Fed

-----------------------------------------------------------------------------
(* Rows. *)

LEMMA IdleTurn == Idle \in Turn /\ Idle.pc = "idle"
BY DEF Idle, Turn, Places, Kinds

LEMMA Gating ==
  ASSUME NEW kind \in Kinds, NEW about \in Markets \cup {NoMarket},
         NEW todo \in SUBSET Markets
  PROVE Gate(kind, about, todo) \in Turn /\ Gate(kind, about, todo).pc \in {"idle", "gate"}
BY IdleTurn DEF Gate, Turn, Places

LEMMA Processing ==
  ASSUME PaperInv, NEW kind \in Kinds, NEW about \in Markets \cup {NoMarket},
         Process(kind, about)
  PROVE Parked
<1>1. PICK todo \in SUBSET loop : turn' = Gate(kind, about, todo)
  BY DEF Process
<1>2. todo \in SUBSET Markets
  BY Typing
<1> QED BY <1>1, <1>2, Gating DEF Parked

LEMMA TurnFields ==
  ASSUME NEW t \in Turn
  PROVE /\ t.pc \in Places /\ t.kind \in Kinds /\ t.about \in Markets \cup {NoMarket}
        /\ t.todo \in SUBSET Markets
        /\ t.decision \in Decisions \cup {"none"}
BY DEF Turn

LEMMA Going ==
  ASSUME NEW t \in Turn, NEW place \in Places
  PROVE LET u == GoTo(t, place) IN
        /\ u \in Turn /\ u.pc = place /\ u.m = t.m /\ u.decision = t.decision
        /\ u.entry = t.entry /\ u.todo = t.todo /\ u.kind = t.kind
BY Zenon DEF GoTo, Turn

LEMMA OnToNext ==
  ASSUME PaperInv, NextMarket
  PROVE Parked
<1>1. turn \in Turn
  BY Typing
<1>2. turn.todo \ {turn.m} \in SUBSET Markets
  BY <1>1, TurnFields
<1> QED BY <1>1, <1>2, TurnFields, Gating DEF NextMarket, Parked

LEMMA Left ==
  ASSUME PaperInv, NEW m \in Markets, Leave(m)
  PROVE Parked /\ loop' \subseteq Markets
<1>1. turn \in Turn /\ loop \subseteq Markets
  BY Typing
<1>2. turn.todo \ {turn.m} \in SUBSET Markets /\ turn.todo \ {m} \in SUBSET Markets
  BY <1>1, TurnFields
<1> QED BY <1>1, <1>2, TurnFields, Gating DEF Leave, Parked

\* The places a decided market goes to, or the next one.
LEMMA GoingOn ==
  ASSUME PaperInv, NEW t \in Turn, NEW places, Onward(t, places)
  PROVE /\ turn' \in Turn
        /\ \/ turn'.pc \in {"idle", "gate"}
           \/ /\ turn'.pc \in {"submit", "match", "manage"}
              /\ turn'.m = t.m /\ turn'.entry = t.entry
<1>1. \/ turn' = GoTo(t, "submit") \/ turn' = GoTo(t, "match") \/ turn' = GoTo(t, "manage")
      \/ turn' = Gate(t.kind, t.about, t.todo \ {t.m})
  BY DEF Onward
<1>2. {"submit", "match", "manage"} \subseteq Places
  BY DEF Places
<1>3. t.todo \ {t.m} \in SUBSET Markets
  BY TurnFields
<1>4. Gate(t.kind, t.about, t.todo \ {t.m}) \in Turn
      /\ Gate(t.kind, t.about, t.todo \ {t.m}).pc \in {"idle", "gate"}
  BY <1>3, Gating, TurnFields
<1>5. ASSUME NEW place \in {"submit", "match", "manage"}
      PROVE /\ GoTo(t, place) \in Turn /\ GoTo(t, place).pc = place
            /\ GoTo(t, place).m = t.m /\ GoTo(t, place).entry = t.entry
  BY <1>2, Going
<1>6. CASE turn' = Gate(t.kind, t.about, t.todo \ {t.m})
  BY <1>4, <1>6
<1>7. ASSUME NEW place \in {"submit", "match", "manage"}, turn' = GoTo(t, place)
      PROVE /\ turn' \in Turn /\ turn'.pc \in {"submit", "match", "manage"}
            /\ turn'.m = t.m /\ turn'.entry = t.entry
  BY <1>5, <1>7
<1> QED BY <1>1, <1>6, <1>7

LEMMA ReferenceKeeps == ASSUME PaperInv, Reference PROVE PaperInv' /\ StopsKept
<1>1. Parked
  BY Processing DEF Reference, Kinds
<1>2. Gentle
  BY SameAccounts DEF Reference
<1>3. Typed
  BY Typing DEF Reference, Typed, account
<1>4. Fed
  BY AccountOf DEF Reference, Fed, account, BetweenRows
<1> QED BY <1>1, <1>2, <1>3, <1>4, RowStep DEF Reference, BetweenRows, depth

LEMMA TradeRowKeeps ==
  ASSUME PaperInv, NEW m \in Markets, TradeRow(m)
  PROVE PaperInv' /\ StopsKept
<1>1. Parked
  BY Processing DEF TradeRow, Kinds
<1>2. Gentle
  BY SameAccounts DEF TradeRow
<1>3. Typed
  BY Typing DEF TradeRow, Typed, account, feed
<1>4. Fed
  BY <1>2, FeedKept DEF TradeRow, account, feed, BetweenRows
<1> QED BY <1>1, <1>2, <1>3, <1>4, RowStep DEF TradeRow, BetweenRows, depth

\* An observed display caps the consumption that covers it.
LEMMA BookRowKeeps ==
  ASSUME PaperInv, NEW m \in Markets, BookRow(m)
  PROVE PaperInv' /\ StopsKept
<1>1. PICK n \in 0 .. Depth :
        /\ Displayed(m, n) /\ risk' = risk
        /\ Commit(m, IF valid[m] THEN Observe(View(m), n) ELSE View(m))
  BY DEF BookRow
<1> DEFINE q == IF valid[m] THEN Observe(db[m], n) ELSE db[m]
<1>2. Commit(m, q)
  BY <1>1, Seen
<1>3. /\ RowInv(q, config.full, config.oneTrade) /\ StopKept(db[m], q)
      /\ q.settled = db[m].settled /\ q.active = db[m].active /\ q.bought = db[m].bought
      /\ q.state = db[m].state
      /\ q.consumed = db[m].consumed \/ (q.consumed = n /\ n < db[m].consumed)
  BY AccountOf, Observing DEF StopKept
<1> HIDE DEF q
<1>4. Saved /\ db'[m] = q /\ \A k \in Markets : k # m => db'[k] = db[k]
  BY <1>2, <1>3, Committed DEF RowInv
<1>5. Parked
  BY Processing DEF BookRow, Kinds
<1>6. /\ config' = config /\ closed' = closed /\ worker = "up" /\ UNCHANGED process
      /\ healthy' = healthy /\ risk' = risk /\ loop' = loop /\ waiting' = waiting
      /\ valid' = [valid EXCEPT ![m] = TRUE]
  BY <1>1 DEF BookRow, BetweenRows
<1>7. /\ shown' \in [Markets -> 0 .. Depth] /\ credit' \in [Markets -> Int]
      /\ shown'[m] = n
      /\ credit'[m] = (IF n > shown[m] THEN credit[m] + (n - shown[m])
                       ELSE Least(credit[m], n))
      /\ \A k \in Markets : k # m => shown'[k] = shown[k] /\ credit'[k] = credit[k]
  BY <1>1, Typing, PortfolioAssumption DEF Displayed, Least
<1>8. PaperTypes'
  <2>1. valid' \in [Markets -> BOOLEAN]
    BY <1>6, Typing
  <2>2. worker' = worker /\ collector' = collector
    BY <1>6 DEF process
  <2> QED BY <1>4, <1>5, <1>6, <1>7, <2>1, <2>2, Typing
          DEF PaperTypes, Saved, Parked, Risks
<1>9. ASSUME NEW k \in Markets
      PROVE /\ RowInv(db'[k], config.full, config.oneTrade) /\ Flat(db'[k])
            /\ StopKept(db[k], db'[k])
            /\ db'[k].settled # "none" \/ db'[k].state = "SETTLEMENT_PENDING" => closed[k]
            /\ db'[k].active => db[k].active
  <2>1. CASE k # m
    BY <1>4, <2>1, AccountOf DEF StopKept
  <2>2. CASE k = m
    BY <1>3, <1>4, <2>2, AccountOf DEF Flat, Open
  <2> QED BY <2>1, <2>2
<1>10. Accounts' /\ SettledLate' /\ StopsKept
  BY <1>6, <1>9 DEF Accounts, SettledLate, StopsKept
<1>11. DepthCovered'
  <2>1. ASSUME NEW k \in Markets
        PROVE credit'[k] >= 0 /\ credit'[k] >= shown'[k] - db'[k].consumed
    <3>1. CASE k # m
      BY <1>4, <1>7, <2>1, <3>1, AccountOf
    <3>2. CASE k = m
      <4>1. /\ credit[m] \in Int /\ shown[m] \in Int /\ n \in Int /\ 0 <= n
            /\ 0 <= shown[m] /\ db[m].consumed \in Int /\ 0 <= db[m].consumed
        BY Typing, AccountOf, RowNumbers, PortfolioAssumption
      <4>2. credit[m] >= 0 /\ credit[m] >= shown[m] - db[m].consumed
        BY AccountOf
      <4>3. credit'[m] >= 0 /\ credit'[m] >= n - q.consumed
        <5>1. CASE q.consumed = db[m].consumed
          BY <1>7, <4>1, <4>2, <5>1 DEF Least
        <5>2. CASE q.consumed = n
          BY <1>7, <4>1, <4>2, <5>2 DEF Least
        <5> QED BY <1>3, <5>1, <5>2
      <4> QED BY <1>4, <1>7, <3>2, <4>3
    <3> QED BY <3>1, <3>2
  <2> QED BY <2>1 DEF DepthCovered
<1>12. NoOrderOutlivesItsFeed'
  <2>1. ASSUME NEW k \in Markets, db'[k].active
        PROVE healthy' /\ valid'[k] /\ ~risk'.halted /\ db'[k].settled = "none"
    <3>1. /\ healthy /\ valid[k] /\ ~risk.halted /\ Flat(db'[k])
      BY <1>6, <1>9, <2>1, AccountOf
    <3>2. valid'[k]
      BY <1>6, <3>1, Typing
    <3> QED BY <1>6, <2>1, <3>1, <3>2 DEF Flat
  <2> QED BY <2>1 DEF NoOrderOutlivesItsFeed
<1>13. MemorySaved'
  BY <1>4, <1>6, UpLeased DEF MemorySaved, Saved, Leased
<1> QED BY <1>5, <1>8, <1>10, <1>11, <1>12, <1>13, Parking DEF PaperInv

LEMMA InterruptKeeps == ASSUME PaperInv, Interrupt PROVE PaperInv' /\ StopsKept
<1>1. CancelAll /\ risk' = risk /\ healthy' = FALSE
      /\ (valid' = valid \/ valid' = [m \in Markets |-> FALSE])
  BY DEF Interrupt, Invalidate
<1>2. Gentle /\ NoneRests
  BY <1>1, AllCancelled
<1>3. Parked
  BY Processing, IdleTurn DEF Interrupt, Kinds, Parked
<1>4. Typed
  BY <1>1, Typing DEF Interrupt, Typed
<1> QED BY <1>2, <1>3, <1>4, NothingToFeed, RowStep DEF Interrupt, BetweenRows, depth

\* Raise, wherever it ends a row.
LEMMA RaiseKeeps ==
  ASSUME PaperInv, Raise, worker = "up", UNCHANGED <<config, closed, process>>
  PROVE PaperInv' /\ StopsKept
<1>1. Gentle /\ NoneRests
  BY AllCancelled DEF Raise, Invalidate
<1>2. Parked
  BY IdleTurn DEF Raise, Parked
<1>3. Typed
  BY Typing DEF Raise, Invalidate, Typed
<1> QED BY <1>1, <1>2, <1>3, NothingToFeed, RowStep DEF Raise, depth

LEMMA BetweenParked ==
  ASSUME PaperInv, BetweenRows, UNCHANGED turn
  PROVE Parked
BY Typing DEF BetweenRows, Parked

LEMMA SuspendKeeps == ASSUME PaperInv, Suspend PROVE PaperInv' /\ StopsKept
<1>1. Gentle /\ NoneRests
  BY AllCancelled DEF Suspend
<1>2. Parked
  BY BetweenParked DEF Suspend
<1>3. Typed
  BY Typing DEF Suspend, Typed, feed
<1> QED BY <1>1, <1>2, <1>3, NothingToFeed, RowStep DEF Suspend, BetweenRows, depth

LEMMA HaltKeeps == ASSUME PaperInv, Halt PROVE PaperInv' /\ StopsKept
<1>1. Gentle /\ NoneRests
  BY AllCancelled DEF Halt
<1>2. Parked
  BY BetweenParked DEF Halt
<1>3. risk' \in Risks
  BY Typing, Zenon DEF Halt, Risks
<1>4. Typed
  BY <1>3, Typing DEF Halt, Typed, feed
<1> QED BY <1>1, <1>2, <1>4, NothingToFeed, RowStep DEF Halt, BetweenRows, depth

LEMMA DiscoverKeeps ==
  ASSUME PaperInv, NEW m \in Markets, Discover(m)
  PROVE PaperInv' /\ StopsKept
<1> DEFINE i == [Idle EXCEPT !.m = m]
<1>1. /\ db[m].state = "UNKNOWN" /\ CommitState(m, "DISCOVER_MARKET") /\ worker = "up"
      /\ loop' = loop \cup {m} /\ turn' = GoTo(i, "discover") /\ config' = config
      /\ UNCHANGED <<shown, credit, closed>> /\ UNCHANGED process
      /\ UNCHANGED <<healthy, valid>> /\ waiting' = waiting
  BY DEF Discover, Known, BetweenRows, feed, depth
<1>2. Legal("UNKNOWN", "DISCOVER_MARKET") /\ "DISCOVER_MARKET" \in Entering
  BY DEF Legal, Transitions, Entering
<1>3. Gentle /\ db'[m].state = "DISCOVER_MARKET" /\ risk' = risk
  BY <1>1, <1>2, MovedGently
<1>4. i \in Turn /\ i.m = m
  BY IdleTurn, Zenon DEF Turn
<1>5. "discover" \in Places
  BY DEF Places
<1> HIDE DEF i
<1>6. turn' \in Turn /\ turn'.pc = "discover" /\ turn'.m = m
  BY <1>1, <1>4, <1>5, Going
<1>7. TurnAgrees'
  BY <1>3, <1>6 DEF TurnAgrees, Inside
<1>8. Typed
  BY <1>1, <1>3, Typing DEF Typed
<1>9. Fed
  BY <1>1, <1>3, FeedKept
<1> QED BY <1>1, <1>3, <1>6, <1>7, <1>8, <1>9, GentleStep, UpLeased

LEMMA DiscoveringKeeps == ASSUME PaperInv, Discovering PROVE PaperInv' /\ StopsKept
<1> DEFINE m == turn.m
           next == IF db[m].state = "DISCOVER_MARKET" THEN "VALIDATE_MARKET" ELSE "WARMUP"
<1>1. /\ worker = "up" /\ turn.pc = "discover" /\ CommitState(m, next)
      /\ IF next = "WARMUP" THEN Process("other", NoMarket) ELSE UNCHANGED turn
      /\ config' = config /\ UNCHANGED <<shown, credit, closed>> /\ UNCHANGED process
      /\ UNCHANGED <<healthy, valid>> /\ waiting' = waiting /\ loop' = loop
  BY DEF Discovering, feed, depth
<1>2. m \in Markets /\ db[m].state \in {"DISCOVER_MARKET", "VALIDATE_MARKET"}
  BY <1>1 DEF PaperInv, TurnAgrees
<1>3. Legal(db[m].state, next) /\ next \in Entering
  BY <1>2 DEF Legal, Transitions, Entering
<1>4. next # "WARMUP" => next = "VALIDATE_MARKET"
  OBVIOUS
<1> HIDE DEF next, m
<1>5. Gentle /\ db'[m].state = next /\ risk' = risk
  BY <1>1, <1>2, <1>3, MovedGently
<1>6. Typed
  BY <1>1, <1>5, Typing DEF Typed
<1>7. Fed
  BY <1>1, <1>5, FeedKept
<1>8. CASE next = "WARMUP"
  <2>1. Parked
    BY <1>1, <1>8, Processing DEF Kinds
  <2> QED BY <1>1, <1>5, <1>6, <1>7, <2>1, RowStep
<1>9. CASE next # "WARMUP"
  <2>1. TurnAgrees' /\ turn' \in Turn
    BY <1>1, <1>2, <1>4, <1>5, <1>9, Typing DEF TurnAgrees, Inside, m
  <2> QED BY <1>1, <1>5, <1>6, <1>7, <2>1, GentleStep, UpLeased
<1> QED BY <1>8, <1>9

\* A row that keeps one account, and its book unless the order is off.
LEMMA MarketRowKeeps ==
  ASSUME PaperInv, NEW m \in Markets, NEW q, NEW usable \in BOOLEAN,
         MarketRow(m, q, usable), RowInv(q, config.full, config.oneTrade),
         Kept(db[m], q), StopKept(db[m], q), usable \/ ~q.active
  PROVE PaperInv' /\ StopsKept
<1>1. /\ Commit(m, q) /\ risk' = risk /\ valid' = [valid EXCEPT ![m] = @ /\ usable]
      /\ healthy' = healthy /\ worker = "up" /\ UNCHANGED process /\ config' = config
      /\ UNCHANGED <<shown, credit, closed>> /\ loop' = loop /\ waiting' = waiting
  BY DEF MarketRow, BetweenRows, depth
<1>2. Gentle /\ db'[m] = q /\ \A k \in Markets : k # m => db'[k] = db[k]
  BY <1>1, CommittedGently
<1>3. Parked
  BY Processing DEF MarketRow, Kinds
<1>4. valid' \in [Markets -> BOOLEAN] /\ (\A k \in Markets : k # m => valid'[k] = valid[k])
      /\ (usable => valid'[m] = valid[m])
  BY <1>1, Typing
<1>5. Typed
  BY <1>1, <1>4, Typing DEF Typed
<1>6. ASSUME NEW k \in Markets, db'[k].active
      PROVE healthy' /\ valid'[k] /\ ~risk'.halted
  <2>1. db[k].active
    BY <1>2, <1>6 DEF Gentle, Kept
  <2>2. healthy /\ valid[k] /\ ~risk.halted
    BY <1>1, <2>1, AccountOf
  <2>3. k # m \/ usable
    BY <1>2, <1>6
  <2> QED BY <1>1, <1>4, <2>2, <2>3
<1>7. Fed
  BY <1>6 DEF Fed
<1> QED BY <1>1, <1>2, <1>3, <1>5, <1>7, RowStep

LEMMA MetadataInvalidKeeps ==
  ASSUME PaperInv, NEW m \in Markets, MetadataInvalid(m)
  PROVE PaperInv' /\ StopsKept
<1> DEFINE q == Quarantine(db[m], "invalid")
<1>1. MarketRow(m, q, FALSE) /\ db[m].state # "UNKNOWN"
  BY Seen DEF MetadataInvalid, MarketRow, Known
<1>2. /\ RowInv(q, config.full, config.oneTrade) /\ Kept(db[m], q)
      /\ SamePosition(q, db[m]) /\ ~q.active
  BY <1>1, AccountOf, Quarantining
<1> HIDE DEF q
<1> QED BY <1>1, <1>2, MarketRowKeeps DEF StopKept, SamePosition

LEMMA MetadataChangedKeeps ==
  ASSUME PaperInv, NEW m \in Markets, MetadataChanged(m)
  PROVE PaperInv' /\ StopsKept
<1> DEFINE q == Quarantine(db[m], "other")
<1>1. PICK usable \in BOOLEAN : MarketRow(m, q, usable)
  BY Seen DEF MetadataChanged
<1>2. db[m].state # "UNKNOWN"
  BY <1>1 DEF MarketRow, Known
<1>3. /\ RowInv(q, config.full, config.oneTrade) /\ Kept(db[m], q)
      /\ SamePosition(q, db[m]) /\ ~q.active
  BY <1>2, AccountOf, Quarantining
<1> HIDE DEF q
<1> QED BY <1>1, <1>3, MarketRowKeeps DEF StopKept, SamePosition

LEMMA MetadataActiveKeeps ==
  ASSUME PaperInv, NEW m \in Markets, MetadataActive(m)
  PROVE PaperInv' /\ StopsKept
<1>1. CASE Recoverable(db[m], risk.halted) /\ MarketRow(m, RecoverStale(db[m]), TRUE)
  <2> DEFINE q == RecoverStale(db[m])
  <2>1. /\ RowInv(q, config.full, config.oneTrade) /\ Kept(db[m], q) /\ ~q.active
        /\ StopKept(db[m], q)
    BY <1>1, AccountOf, Recovering
  <2> HIDE DEF q
  <2> QED BY <1>1, <2>1, MarketRowKeeps DEF q
<1>2. CASE Resumable(db[m]) /\ MarketRow(m, ResumeMarket(db[m]), FALSE)
  <2> DEFINE q == ResumeMarket(db[m])
  <2>1. /\ RowInv(q, config.full, config.oneTrade) /\ Kept(db[m], q) /\ ~q.active
        /\ StopKept(db[m], q)
    BY <1>2, AccountOf, Resuming
  <2> HIDE DEF q
  <2> QED BY <1>2, <2>1, MarketRowKeeps DEF q
<1> QED BY <1>1, <1>2, Seen DEF MetadataActive

LEMMA RestrictKeeps ==
  ASSUME PaperInv, NEW m \in Markets, Restrict(m)
  PROVE PaperInv' /\ StopsKept
<1>1. PICK how \in Pauses : MarketRow(m, PauseMarket(db[m], how), FALSE)
  BY Seen DEF Restrict
<1> DEFINE q == PauseMarket(db[m], how)
<1>2. /\ RowInv(q, config.full, config.oneTrade) /\ Kept(db[m], q) /\ ~q.active
      /\ StopKept(db[m], q)
  BY AccountOf, Pausing
<1> HIDE DEF q
<1> QED BY <1>1, <1>2, MarketRowKeeps DEF q

\* A step that settles, or asks for the settlement of, one closed market.
LEMMA ClosedStep ==
  ASSUME PaperInv, config' = config, UNCHANGED <<shown, credit, closed>>,
         NEW m \in Markets, closed[m], Saved,
         \A k \in Markets : k # m => db'[k] = db[k],
         RowInv(db'[m], config.full, config.oneTrade), Flat(db'[m]),
         db'[m].consumed = db[m].consumed, StopKept(db[m], db'[m]),
         db'[m].active => db[m].active,
         Typed, Leased, turn' \in Turn, TurnAgrees', worker' = "up" => worker = "up",
         UNCHANGED <<healthy, valid>>, risk' = risk
  PROVE PaperInv' /\ StopsKept
<1>1. PaperTypes'
  BY Typing DEF PaperTypes, Typed, Leased, Saved, Risks
<1>2. ASSUME NEW k \in Markets
      PROVE /\ RowInv(db'[k], config.full, config.oneTrade) /\ Flat(db'[k])
            /\ StopKept(db[k], db'[k])
            /\ db'[k].settled # "none" \/ db'[k].state = "SETTLEMENT_PENDING" => closed[k]
            /\ credit[k] >= 0 /\ credit[k] >= shown[k] - db'[k].consumed
            /\ worker' = "up" /\ db'[k].active =>
                 healthy /\ valid[k] /\ ~risk.halted /\ db'[k].settled = "none"
  <2>1. CASE k # m
    BY <2>1, AccountOf DEF StopKept
  <2>2. CASE k = m
    <3>1. worker' = "up" /\ db'[m].active =>
            healthy /\ valid[m] /\ ~risk.halted /\ db'[m].settled = "none"
      BY AccountOf DEF Flat
    <3>2. credit[m] >= 0 /\ credit[m] >= shown[m] - db'[m].consumed
      BY AccountOf
    <3> QED BY <2>2, <3>1, <3>2
  <2> QED BY <2>1, <2>2
<1>3. Accounts' /\ SettledLate' /\ DepthCovered' /\ NoOrderOutlivesItsFeed' /\ StopsKept
  BY <1>2 DEF Accounts, SettledLate, DepthCovered, NoOrderOutlivesItsFeed, StopsKept
<1>4. MemorySaved'
  BY DEF Saved, Leased, MemorySaved
<1> QED BY <1>1, <1>3, <1>4 DEF PaperInv

LEMMA SettlementRowKeeps ==
  ASSUME PaperInv, NEW m \in Markets, SettlementRow(m)
  PROVE PaperInv' /\ StopsKept
<1>1. PICK result \in Outcomes, terms \in Terms :
        LET q == Settle(View(m), result, terms, FALSE) IN
        IF closed[m] /\ q.ok THEN MarketRow(m, q, TRUE)
        ELSE BetweenRows /\ Known(m) /\ Raise /\ UNCHANGED <<config, closed, process>>
  BY DEF SettlementRow
<1> DEFINE q == Settle(db[m], result, terms, FALSE)
<1>2. IF closed[m] /\ q.ok THEN MarketRow(m, q, TRUE)
      ELSE BetweenRows /\ Raise /\ UNCHANGED <<config, closed, process>>
  BY <1>1, Seen
<1>3. CASE closed[m] /\ q.ok
  <2>1. /\ Commit(m, q) /\ risk' = risk /\ valid' = [valid EXCEPT ![m] = @ /\ TRUE]
        /\ healthy' = healthy /\ worker = "up" /\ UNCHANGED process /\ config' = config
        /\ UNCHANGED <<shown, credit, closed>> /\ loop' = loop /\ waiting' = waiting
        /\ db[m].state # "UNKNOWN"
    BY <1>2, <1>3 DEF MarketRow, BetweenRows, depth, Known
  <2>2. /\ RowInv(q, config.full, config.oneTrade) /\ Flat(q)
        /\ q.consumed = db[m].consumed /\ StopKept(db[m], q) /\ (q.active => db[m].active)
    <3>1. \A review : Settle(db[m], result, terms, review).ok =>
            LET x == Settle(db[m], result, terms, review) IN
            /\ RowInv(x, config.full, config.oneTrade) /\ Flat(x)
            /\ x.consumed = db[m].consumed /\ StopKept(db[m], x)
            /\ x.active => db[m].active
      BY <2>1, AccountOf, Settling
    <3> QED BY <1>3, <3>1, Zenon
  <2>3. Parked
    BY <1>2, <1>3, Processing DEF MarketRow, Kinds
  <2> HIDE DEF q
  <2>4. Saved /\ db'[m] = q /\ \A k \in Markets : k # m => db'[k] = db[k]
    BY <2>1, <2>2, Committed DEF RowInv
  <2>5. valid' = valid
    BY <2>1, Typing
  <2>6. Typed
    BY <2>1, <2>5, Typing DEF Typed
  <2> QED BY <1>3, <2>1, <2>2, <2>3, <2>4, <2>5, <2>6, ClosedStep, Parking, UpLeased
          DEF Parked
<1>4. CASE ~(closed[m] /\ q.ok)
  BY <1>2, <1>4, RaiseKeeps DEF BetweenRows
<1> QED BY <1>3, <1>4

-----------------------------------------------------------------------------
(* process(). *)

LEMMA GateParked ==
  ASSUME PaperInv, NEW m, AtGate(m), UNCHANGED turn
  PROVE Parked
BY Typing DEF AtGate, Parked

LEMMA InHand ==
  ASSUME PaperInv, NEW m, NEW place \in Inside, At(place, m)
  PROVE /\ m \in Markets /\ db[m].state \notin Shut /\ db[m].settled = "none"
        /\ worker = "up" /\ turn.pc = place /\ turn.m = m /\ turn \in Turn
        /\ turn.entry => healthy /\ valid[m] /\ ~risk.halted
        /\ place \in {"decide", "decided"} => turn.decision \in Decisions
        /\ place = "decided" => db[m].state = "EVALUATING"
BY Typing DEF At, PaperInv, TurnAgrees

\* A market that stays in hand is neither shut nor settled.
LEMMA StillInHand ==
  ASSUME NEW m \in Markets,
         \/ turn'.pc \in {"idle", "gate"}
         \/ /\ turn'.pc \in {"submit", "match", "manage", "refuse"} /\ turn'.m = m
            /\ db'[m].state \notin Shut /\ db'[m].settled = "none"
            /\ turn'.entry => healthy' /\ valid'[m] /\ ~risk'.halted
  PROVE TurnAgrees'
BY DEF TurnAgrees, Inside

LEMMA ReopenKeeps ==
  ASSUME PaperInv, NEW m \in Markets, Reopen(m)
  PROVE PaperInv' /\ StopsKept
<1>1. /\ db[m].state = "CLOSED" /\ CommitState(m, "MONITORING") /\ worker = "up"
      /\ AtGate(m) /\ UNCHANGED turn
      /\ config' = config /\ UNCHANGED <<shown, credit, closed>> /\ UNCHANGED process
      /\ UNCHANGED <<healthy, valid>> /\ waiting' = waiting /\ loop' = loop
  BY Seen DEF Reopen, Reopens, AtGate, feed, depth
<1>2. Legal("CLOSED", "MONITORING") /\ "MONITORING" \in Entering
  BY DEF Legal, Transitions, Entering
<1>3. Gentle /\ risk' = risk
  BY <1>1, <1>2, MovedGently
<1>4. Parked
  BY <1>1, GateParked
<1>5. Typed
  BY <1>1, <1>3, Typing DEF Typed
<1>6. Fed
  BY <1>1, <1>3, FeedKept
<1> QED BY <1>1, <1>3, <1>4, <1>5, <1>6, RowStep

LEMMA DropKeeps ==
  ASSUME PaperInv, NEW m \in Markets, Drop(m)
  PROVE PaperInv' /\ StopsKept
<1>1. Parked /\ loop' \subseteq Markets
  BY Left DEF Drop
<1>2. Gentle
  BY SameAccounts DEF Drop
<1>3. Typed
  BY <1>1, Typing DEF Drop, Typed, account, feed
<1>4. Fed
  BY <1>2, FeedKept DEF Drop, AtGate, account, feed
<1> QED BY <1>1, <1>2, <1>3, <1>4, RowStep DEF Drop, AtGate, depth

LEMMA CloseOrderKeeps ==
  ASSUME PaperInv, NEW m \in Markets, CloseOrder(m)
  PROVE PaperInv' /\ StopsKept
<1> DEFINE q == Cancel(db[m])
<1>1. Commit(m, q)
  BY Seen DEF CloseOrder
<1>2. /\ RowInv(q, config.full, config.oneTrade) /\ Kept(db[m], q) /\ SamePosition(q, db[m])
  BY AccountOf, Cancelling
<1> HIDE DEF q
<1>3. Gentle
  BY <1>1, <1>2, CommittedGently DEF StopKept, SamePosition
<1>4. Parked
  BY GateParked DEF CloseOrder, Past
<1>5. Typed
  BY Typing DEF CloseOrder, Typed, feed
<1>6. Fed
  BY <1>3, FeedKept DEF CloseOrder, Past, AtGate, feed
<1> QED BY <1>3, <1>4, <1>5, <1>6, RowStep DEF CloseOrder, Past, AtGate, depth

LEMMA AwaitSettlementKeeps ==
  ASSUME PaperInv, NEW m \in Markets, AwaitSettlement(m)
  PROVE PaperInv' /\ StopsKept
<1>1. worker = "up" /\ closed[m] /\ UNCHANGED <<config, closed, process>>
  BY DEF AwaitSettlement, Past, AtGate
<1>2. CASE Legal(db[m].state, "SETTLEMENT_PENDING")
  <2>1. /\ CommitState(m, "SETTLEMENT_PENDING") /\ waiting' = waiting \cup {m} /\ Leave(m)
        /\ UNCHANGED <<healthy, valid>> /\ UNCHANGED <<shown, credit>>
    BY <1>2, Seen DEF AwaitSettlement, feed, depth
  <2>2. "SETTLEMENT_PENDING" \in Entering \cup {"SETTLEMENT_PENDING"}
    OBVIOUS
  <2>3. /\ Saved /\ (\A k \in Markets : k # m => db'[k] = db[k])
        /\ RowInv(db'[m], config.full, config.oneTrade) /\ ~db'[m].active
        /\ db'[m].settled = db[m].settled
        /\ db'[m].consumed = db[m].consumed /\ db'[m].bought = db[m].bought
        /\ db'[m].exit = db[m].exit /\ risk' = risk
    BY <1>2, <2>1, <2>2, Moved
  <2>4. Flat(db'[m]) /\ StopKept(db[m], db'[m])
    BY <2>3, AccountOf DEF Flat, StopKept, Open
  <2>5. Parked /\ loop' \subseteq Markets
    BY <2>1, Left
  <2>6. Typed
    BY <2>1, <2>3, <2>5, Typing DEF Typed
  <2>7. Leased /\ worker' = worker
    BY <1>1, UpLeased DEF process
  <2> QED BY <1>1, <2>1, <2>3, <2>4, <2>5, <2>6, <2>7, ClosedStep, Parking DEF Parked
<1>3. CASE ~Legal(db[m].state, "SETTLEMENT_PENDING")
  <2>1. Raise
    BY <1>3, Seen DEF AwaitSettlement
  <2> QED BY <1>1, <2>1, RaiseKeeps
<1> QED BY <1>2, <1>3

\* A row goes on to a place where the market stays in hand.
LEMMA OnwardStep ==
  ASSUME PaperInv, config' = config, UNCHANGED <<shown, credit, closed>>, worker = "up",
         UNCHANGED process, Gentle, Typed, Fed,
         NEW m \in Markets, NEW t \in Turn, NEW places, Onward(t, places), t.m = m,
         db'[m].state \notin Shut, db'[m].settled = "none",
         t.entry => healthy' /\ valid'[m] /\ ~risk'.halted
  PROVE PaperInv' /\ StopsKept
<1>1. /\ turn' \in Turn
      /\ \/ turn'.pc \in {"idle", "gate"}
         \/ /\ turn'.pc \in {"submit", "match", "manage"}
            /\ turn'.m = t.m /\ turn'.entry = t.entry
  BY GoingOn
<1>2. TurnAgrees'
  BY <1>1, StillInHand
<1> QED BY <1>1, <1>2, GentleStep, UpLeased

LEMMA EvaluateKeeps ==
  ASSUME PaperInv, NEW m \in Markets, Evaluate(m)
  PROVE PaperInv' /\ StopsKept
<1>1. PICK decision \in Decisions \cup {"none"}, entry \in BOOLEAN, manage \in BOOLEAN :
        LET t == [pc |-> "gate", kind |-> turn.kind, about |-> turn.about,
                  todo |-> turn.todo, m |-> m, decision |-> decision,
                  pos |-> Open(View(m)), entry |-> entry, manage |-> manage] IN
        /\ entry => EntryHealthy(m)
        /\ IF decision = "none" THEN Onward(t, {"match", "manage"})
           ELSE turn' = GoTo(t, "decide")
  BY DEF Evaluate, Verdicts
<1> DEFINE t == [pc |-> "gate", kind |-> turn.kind, about |-> turn.about,
                 todo |-> turn.todo, m |-> m, decision |-> decision,
                 pos |-> Open(View(m)), entry |-> entry, manage |-> manage]
<1>2. /\ worker = "up" /\ UNCHANGED account /\ UNCHANGED <<healthy, valid>>
      /\ config' = config /\ UNCHANGED <<shown, credit, closed>> /\ UNCHANGED process
      /\ waiting' = waiting /\ loop' = loop /\ ~closed[m]
      /\ db[m].state \notin {"CLOSED", "ERROR", "HALTED"}
  BY Seen DEF Evaluate, AtGate, feed, depth
<1>3. t \in Turn /\ t.m = m /\ t.entry = entry /\ t.decision = decision
  <2>1. Open(View(m)) \in BOOLEAN
    BY DEF Open
  <2>2. turn \in Turn
    BY Typing
  <2> QED BY <2>1, <2>2, TurnFields DEF Turn, Places
<1>4. IF decision = "none" THEN Onward(t, {"match", "manage"}) ELSE turn' = GoTo(t, "decide")
  BY <1>1
<1> HIDE DEF t
<1>5. db[m].state \notin Shut /\ db[m].settled = "none"
  BY <1>2, AccountOf DEF Shut
<1>6. entry => healthy /\ valid[m] /\ ~risk.halted
  BY <1>1 DEF EntryHealthy
<1>7. Gentle /\ risk' = risk /\ db' = db
  BY <1>2, SameAccounts DEF account
<1>8. Typed
  BY <1>2, <1>7, Typing DEF Typed
<1>9. Fed
  BY <1>2, <1>7, FeedKept
<1>10. CASE decision = "none"
  BY <1>2, <1>3, <1>4, <1>5, <1>6, <1>7, <1>8, <1>9, <1>10, OnwardStep
<1>11. CASE decision # "none"
  <2>1. "decide" \in Places
    BY DEF Places
  <2>2. /\ turn' \in Turn /\ turn'.pc = "decide" /\ turn'.m = m /\ turn'.decision = decision
        /\ turn'.entry = entry
    BY <1>3, <1>4, <1>11, <2>1, Going
  <2>3. TurnAgrees'
    BY <1>2, <1>5, <1>6, <1>7, <1>11, <2>2 DEF TurnAgrees, Inside
  <2> QED BY <1>2, <1>7, <1>8, <1>9, <2>2, <2>3, GentleStep, UpLeased
<1> QED BY <1>10, <1>11

LEMMA DecideKeeps ==
  ASSUME PaperInv, NEW m \in Markets, Decide(m)
  PROVE PaperInv' /\ StopsKept
<1>1. /\ db[m].state \notin Shut /\ db[m].settled = "none" /\ worker = "up"
      /\ turn.pc = "decide" /\ turn.m = m /\ turn \in Turn /\ turn.decision \in Decisions
      /\ turn.entry => healthy /\ valid[m] /\ ~risk.halted
  BY InHand DEF Decide, Inside
<1>2. /\ UNCHANGED <<healthy, valid>> /\ config' = config
      /\ UNCHANGED <<shown, credit, closed>> /\ UNCHANGED process
      /\ waiting' = waiting /\ loop' = loop
  BY DEF Decide, feed, depth
<1>3. CASE db[m].state \in {"WARMUP", "MONITORING"}
  <2>1. CommitState(m, "ENTRY_WINDOW") /\ UNCHANGED turn
    BY <1>3, Seen DEF Decide
  <2>2. Legal(db[m].state, "ENTRY_WINDOW") /\ "ENTRY_WINDOW" \in Entering
    BY <1>3 DEF Legal, Transitions, Entering
  <2>3. Gentle /\ db'[m].state = "ENTRY_WINDOW" /\ db'[m].settled = db[m].settled
        /\ risk' = risk
    BY <2>1, <2>2, MovedGently
  <2>4. Typed
    BY <1>2, <2>3, Typing DEF Typed
  <2>5. Fed
    BY <1>1, <1>2, <2>3, FeedKept
  <2>6. TurnAgrees'
    BY <1>1, <1>2, <2>1, <2>3 DEF TurnAgrees, Inside, Shut
  <2> QED BY <1>1, <1>2, <2>1, <2>3, <2>4, <2>5, <2>6, GentleStep, UpLeased
<1>4. CASE db[m].state \in {"ENTRY_WINDOW", "NO_TRADE"}
  <2>1. CommitState(m, "EVALUATING") /\ turn' = GoTo(turn, "decided")
    BY <1>4, Seen DEF Decide
  <2>2. Legal(db[m].state, "EVALUATING") /\ "EVALUATING" \in Entering /\ "decided" \in Places
    BY <1>4 DEF Legal, Transitions, Entering, Places
  <2>3. Gentle /\ db'[m].state = "EVALUATING" /\ db'[m].settled = db[m].settled
        /\ risk' = risk
    BY <2>1, <2>2, MovedGently
  <2>4. Typed
    BY <1>2, <2>3, Typing DEF Typed
  <2>5. Fed
    BY <1>1, <1>2, <2>3, FeedKept
  <2>6. /\ turn' \in Turn /\ turn'.pc = "decided" /\ turn'.m = m
        /\ turn'.decision = turn.decision /\ turn'.entry = turn.entry
    BY <1>1, <2>1, <2>2, Going
  <2>7. TurnAgrees'
    BY <1>1, <1>2, <2>3, <2>6 DEF TurnAgrees, Inside, Shut
  <2> QED BY <1>1, <1>2, <2>3, <2>4, <2>5, <2>6, <2>7, GentleStep, UpLeased
<1>5. CASE db[m].state \notin {"WARMUP", "MONITORING", "ENTRY_WINDOW", "NO_TRADE"}
  <2>1. Onward(turn, {"submit", "match", "manage"}) /\ UNCHANGED account
    BY <1>5, Seen DEF Decide
  <2>2. Gentle /\ db' = db /\ risk' = risk
    BY <2>1, SameAccounts DEF account
  <2>3. Typed
    BY <1>2, <2>2, Typing DEF Typed
  <2>4. Fed
    BY <1>1, <1>2, <2>2, FeedKept
  <2> QED BY <1>1, <1>2, <2>1, <2>2, <2>3, <2>4, OnwardStep
<1> QED BY <1>3, <1>4, <1>5

LEMMA DecidedKeeps ==
  ASSUME PaperInv, NEW m \in Markets, Decided(m)
  PROVE PaperInv' /\ StopsKept
<1>1. /\ db[m].state = "EVALUATING" /\ db[m].settled = "none" /\ worker = "up"
      /\ turn.m = m /\ turn \in Turn /\ turn.decision \in Decisions
      /\ turn.entry => healthy /\ valid[m] /\ ~risk.halted
  BY InHand DEF Decided, Inside
<1>2. /\ UNCHANGED <<healthy, valid>> /\ config' = config
      /\ UNCHANGED <<shown, credit, closed>> /\ UNCHANGED process
      /\ waiting' = waiting /\ loop' = loop /\ CommitState(m, turn.decision)
      /\ Onward(turn, {"submit", "match", "manage"})
  BY DEF Decided, feed, depth
<1>3. Legal("EVALUATING", turn.decision) /\ turn.decision \in Entering
      /\ turn.decision \notin Shut
  BY <1>1 DEF Legal, Transitions, Entering, Decisions, Shut
<1>4. Gentle /\ db'[m].state = turn.decision /\ db'[m].settled = db[m].settled
      /\ risk' = risk
  BY <1>1, <1>2, <1>3, MovedGently
<1>5. Typed
  BY <1>2, <1>4, Typing DEF Typed
<1>6. Fed
  BY <1>1, <1>2, <1>4, FeedKept
<1> QED BY <1>1, <1>2, <1>3, <1>4, <1>5, <1>6, OnwardStep

LEMMA RestingKeeps ==
  ASSUME PaperInv, NEW m \in Markets, Resting(m)
  PROVE PaperInv' /\ StopsKept
<1>1. /\ db[m].state \notin Shut /\ db[m].settled = "none" /\ worker = "up"
      /\ turn.m = m /\ turn \in Turn
      /\ turn.entry => healthy /\ valid[m] /\ ~risk.halted
  BY InHand DEF Resting, Inside
<1>2. /\ UNCHANGED <<healthy, valid>> /\ config' = config /\ risk' = risk
      /\ UNCHANGED <<shown, credit, closed>> /\ UNCHANGED process
      /\ waiting' = waiting /\ loop' = loop /\ Onward(turn, {"manage"})
  BY DEF Resting, feed, depth
<1>3a. PICK n \in 0 .. db[m].left :
         \E q \in {Cancel(db[m]), db[m], Trade(db[m], n, config.oneTrade),
                  Match(db[m], n, config.oneTrade, config.full)} : Commit(m, q)
  BY Seen DEF Resting, Withdraw
<1>3. PICK q \in {Cancel(db[m]), db[m], Trade(db[m], n, config.oneTrade),
                 Match(db[m], n, config.oneTrade, config.full)} : Commit(m, q)
  BY <1>3a
<1>4. /\ RowInv(q, config.full, config.oneTrade) /\ Kept(db[m], q) /\ Stays(db[m], q)
      /\ StopKept(db[m], q)
  <2>1. RowInv(db[m], config.full, config.oneTrade)
    BY AccountOf
  <2>2. CASE q = Cancel(db[m])
    BY <2>1, <2>2, Cancelling DEF StopKept, SamePosition
  <2>3. CASE q = db[m]
    BY <2>1, <2>3 DEF Kept, Stays, StopKept
  <2>4. CASE q = Trade(db[m], n, config.oneTrade)
    BY <2>1, <2>4, Trading
  <2>5. CASE q = Match(db[m], n, config.oneTrade, config.full)
    BY <2>1, <2>5, Matching
  <2> QED BY <2>2, <2>3, <2>4, <2>5
<1>5. Gentle /\ db'[m] = q
  BY <1>3, <1>4, CommittedGently
<1>6. Typed
  BY <1>2, Typing DEF Typed
<1>7. Fed
  BY <1>1, <1>2, <1>5, FeedKept
<1>8. db'[m].state \notin Shut /\ db'[m].settled = "none"
  BY <1>1, <1>4, <1>5 DEF Kept, Stays
<1> QED BY <1>1, <1>2, <1>5, <1>6, <1>7, <1>8, OnwardStep

\* A step of a monitored position sells what it may and keeps the order off.
LEMMA ManagedKeeps ==
  ASSUME PaperInv, NEW m \in Markets, At("manage", m), NEW q,
         risk' = risk, Commit(m, q),
         credit' = [credit EXCEPT ![m] = @ - (db[m].held - q.held)],
         (UNCHANGED turn /\ Open(q)) \/ NextMarket,
         UNCHANGED <<config, healthy, valid, shown, closed, loop, waiting>>,
         UNCHANGED process,
         RowInv(q, config.full, config.oneTrade), StopKept(db[m], q),
         q.settled = db[m].settled, q.active => db[m].active,
         Open(q) => q.state \notin Shut, q.state # "SETTLEMENT_PENDING",
         \E n \in 0 .. db[m].held :
           /\ q.held = db[m].held - n /\ q.consumed = db[m].consumed + n
           /\ n > 0 => n <= shown[m] - db[m].consumed
  PROVE PaperInv' /\ StopsKept
<1>1. /\ db[m].state \notin Shut /\ db[m].settled = "none" /\ worker = "up"
      /\ turn.pc = "manage" /\ turn.m = m /\ turn \in Turn
      /\ turn.entry => healthy /\ valid[m] /\ ~risk.halted
  BY InHand DEF Inside
<1>2. Saved /\ db'[m] = q /\ \A k \in Markets : k # m => db'[k] = db[k]
  BY Committed DEF RowInv
<1>3. PICK n \in 0 .. db[m].held :
        /\ q.held = db[m].held - n /\ q.consumed = db[m].consumed + n
        /\ n > 0 => n <= shown[m] - db[m].consumed
  OBVIOUS
<1>4. /\ db[m].held \in Int /\ db[m].consumed \in Int /\ n \in Int /\ 0 <= n
      /\ shown[m] \in Int /\ credit[m] \in Int
      /\ credit[m] >= 0 /\ credit[m] >= shown[m] - db[m].consumed
  BY AccountOf, RowNumbers, Typing, PortfolioAssumption
<1>5. /\ credit' \in [Markets -> Int] /\ credit'[m] = credit[m] - (db[m].held - q.held)
      /\ \A k \in Markets : k # m => credit'[k] = credit[k]
  BY <1>3, <1>4, Typing
<1>6. credit'[m] = credit[m] - n
  BY <1>3, <1>4, <1>5
<1>7. credit'[m] >= 0 /\ credit'[m] >= shown[m] - q.consumed
  BY <1>3, <1>4, <1>6
<1>8. turn' \in Turn /\ TurnAgrees'
  <2>1. CASE UNCHANGED turn /\ Open(q)
    BY <1>1, <1>2, <2>1 DEF TurnAgrees, Inside
  <2>2. CASE NextMarket
    BY <2>2, OnToNext, Parking DEF Parked
  <2> QED BY <2>1, <2>2
<1>9. PaperTypes' /\ MemorySaved'
  BY <1>1, <1>2, <1>5, <1>8, Typing, UpLeased
  DEF PaperTypes, MemorySaved, Saved, Leased, Risks
<1>10. ASSUME NEW k \in Markets
       PROVE /\ RowInv(db'[k], config.full, config.oneTrade) /\ Flat(db'[k])
             /\ StopKept(db[k], db'[k])
             /\ db'[k].settled # "none" \/ db'[k].state = "SETTLEMENT_PENDING" => closed[k]
             /\ credit'[k] >= 0 /\ credit'[k] >= shown[k] - db'[k].consumed
             /\ db'[k].active =>
                  healthy /\ valid[k] /\ ~risk.halted /\ db'[k].settled = "none"
  <2>1. CASE k # m
    BY <1>1, <1>2, <1>5, <2>1, AccountOf DEF StopKept
  <2>2. CASE k = m
    BY <1>1, <1>2, <1>7, <2>2, AccountOf DEF Flat
  <2> QED BY <2>1, <2>2
<1>11. Accounts' /\ SettledLate' /\ DepthCovered' /\ NoOrderOutlivesItsFeed' /\ StopsKept
  BY <1>10 DEF Accounts, SettledLate, DepthCovered, NoOrderOutlivesItsFeed, StopsKept
<1> QED BY <1>8, <1>9, <1>11 DEF PaperInv

LEMMA ManageBindingKeeps ==
  ASSUME PaperInv, NEW m \in Markets, ManageBinding(m)
  PROVE PaperInv' /\ StopsKept
<1> DEFINE r == db[m]
<1>1. /\ At("manage", m) /\ Binding(r, config.full) /\ UNCHANGED process
      /\ UNCHANGED <<config, healthy, valid, shown, closed, loop, waiting>>
  BY Seen DEF ManageBinding, Managed, feed
<1>2. /\ RowInv(r, config.full, config.oneTrade) /\ r.state \notin Shut
      /\ r.settled = "none" /\ Open(r) /\ r.exit \in Exits \cup {"none"}
  <2>1. RowInv(r, config.full, config.oneTrade) /\ r \in Row
    BY AccountOf
  <2>2. r.exit # "none"
    BY <1>1 DEF Binding
  <2>3. Open(r) /\ r.exit \in Exits \cup {"none"}
    BY <2>1, <2>2, RestsWell, RowTypes
  <2>4. r.state \notin Shut /\ r.settled = "none"
    BY <1>1, InHand DEF Inside
  <2> QED BY <2>1, <2>3, <2>4
<1>3. CASE \E ripe, reach \in BOOLEAN :
             LET q == Pursue(r, r.exit, TRUE, ripe, reach \/ config.full, shown[m], config.full)
             IN Managed(m, q, ~config.full /\ Open(q) /\ q.exit # r.exit)
  <2>1. PICK ripe \in BOOLEAN, reach \in BOOLEAN :
          LET q == Pursue(r, r.exit, TRUE, ripe, reach \/ config.full, shown[m], config.full)
          IN Managed(m, q, ~config.full /\ Open(q) /\ q.exit # r.exit)
    BY <1>3
  <2> DEFINE reached == reach \/ config.full
             clear == TRUE
             why == r.exit
             q == Pursue(r, why, clear, ripe, reached, shown[m], config.full)
  <2>2. /\ risk' = risk /\ Commit(m, q)
        /\ credit' = [credit EXCEPT ![m] = @ - (r.held - q.held)]
        /\ (UNCHANGED turn /\ Open(q)) \/ NextMarket
    BY <2>1, Seen DEF Managed
  <2>3. /\ shown[m] \in 0 .. Depth /\ why \in Exits \cup {"none"}
        /\ r.exit = "HARD_STOP" => why = "HARD_STOP"
    BY <1>2, Typing
  <2> HIDE DEF reached, clear, why
  <2>4. /\ RowInv(q, config.full, config.oneTrade) /\ StopKept(r, q)
        /\ q.settled = r.settled
        /\ q.active => r.active
        /\ Open(q) => q.state \notin Shut
        /\ q.state # "SETTLEMENT_PENDING"
        /\ \E n \in 0 .. r.held :
             /\ q.held = r.held - n /\ q.consumed = r.consumed + n
             /\ n > 0 => n <= shown[m] - r.consumed
    BY <1>2, <2>3, Pursuing
  <2> HIDE DEF q
  <2> QED BY <1>1, <2>2, <2>4, ManagedKeeps
<1>4. CASE ~config.full /\ Managed(m, Expire(r), TRUE)
  <2> DEFINE q == Expire(r)
  <2>1. /\ risk' = risk /\ Commit(m, q)
        /\ credit' = [credit EXCEPT ![m] = @ - (r.held - q.held)] /\ UNCHANGED turn
    BY <1>4, Seen DEF Managed
  <2>2. /\ RowInv(q, config.full, config.oneTrade) /\ Kept(r, q) /\ q.exit = "none"
        /\ q.active = r.active /\ q.state = r.state /\ q.bought = r.bought
        /\ q.held = r.held
    BY <1>2, Clearing
  <2> HIDE DEF q
  <2>3. Open(q) /\ r.exit = "CASHOUT"
    BY <1>1, <1>2, <1>4, <2>2 DEF Open, Binding
  <2>4. \E n \in 0 .. r.held :
          /\ q.held = r.held - n /\ q.consumed = r.consumed + n
          /\ n > 0 => n <= shown[m] - r.consumed
    <3>1. /\ 0 \in 0 .. r.held /\ r.held = r.held - 0 /\ r.consumed = r.consumed + 0
          /\ ~(0 > 0)
      BY AccountOf, RowNumbers
    <3> QED BY <2>2, <3>1 DEF Kept
  <2>5. /\ StopKept(r, q) /\ q.settled = r.settled /\ q.state \notin Shut
        /\ q.state # "SETTLEMENT_PENDING" /\ (q.active => r.active)
    BY <1>2, <2>2, <2>3 DEF StopKept, Kept, Shut
  <2> QED BY <1>1, <2>1, <2>2, <2>3, <2>4, <2>5, ManagedKeeps
<1> QED BY <1>3, <1>4, Seen DEF ManageBinding

LEMMA ManageFreshKeeps ==
  ASSUME PaperInv, NEW m \in Markets, ManageFresh(m)
  PROVE PaperInv' /\ StopsKept
<1> DEFINE r == db[m]
<1>1. /\ At("manage", m) /\ Open(r) /\ UNCHANGED process
      /\ UNCHANGED <<config, healthy, valid, shown, closed, loop, waiting>>
  BY Seen DEF ManageFresh, Managed, feed
<1>2. /\ RowInv(r, config.full, config.oneTrade) /\ r.state \notin Shut
      /\ r.settled = "none"
  BY <1>1, AccountOf, InHand DEF Inside
<1>3. PICK why \in Exits \cup {"none"}, ripe \in BOOLEAN, reach \in BOOLEAN,
           model \in BOOLEAN :
        Managed(m, Pursue(r, Trigger(r, why), model \/ r.exit # "INVALIDATION", ripe, reach,
                          shown[m], config.full), FALSE)
  BY Seen DEF ManageFresh
<1> DEFINE clear == model \/ r.exit # "INVALIDATION"
           trigger == Trigger(r, why)
           q == Pursue(r, trigger, clear, ripe, reach, shown[m], config.full)
<1>4. /\ risk' = risk /\ Commit(m, q)
      /\ credit' = [credit EXCEPT ![m] = @ - (r.held - q.held)] /\ NextMarket
  BY <1>3, Seen DEF Managed
<1>5. shown[m] \in 0 .. Depth
  BY Typing
<1>6. trigger \in Exits \cup {"none"} /\ (r.exit = "HARD_STOP" => trigger = "HARD_STOP")
  BY DEF Trigger, Exits
<1> HIDE DEF clear, trigger
<1>7. /\ RowInv(q, config.full, config.oneTrade) /\ StopKept(r, q)
      /\ q.settled = r.settled
      /\ q.active => r.active
      /\ Open(q) => q.state \notin Shut
      /\ q.state # "SETTLEMENT_PENDING"
      /\ \E n \in 0 .. r.held :
           /\ q.held = r.held - n /\ q.consumed = r.consumed + n
           /\ n > 0 => n <= shown[m] - r.consumed
  BY <1>1, <1>2, <1>5, <1>6, Pursuing
<1> HIDE DEF q
<1> QED BY <1>1, <1>4, <1>7, ManagedKeeps

\* An entry rests on a feed that is healthy now.
LEMMA PlaceKeeps ==
  ASSUME PaperInv, NEW m \in Markets, Place(m)
  PROVE PaperInv' /\ StopsKept
<1> DEFINE q == Submit(db[m], config.oneTrade, risk.halted)
<1>1. /\ db[m].settled = "none" /\ worker = "up" /\ turn.m = m
      /\ healthy /\ valid[m] /\ ~risk.halted
  BY InHand DEF Place, Inside
<1>2. /\ Submittable(db[m], config.oneTrade, risk.halted) /\ Fundable(m)
      /\ UNCHANGED <<config, closed, process>>
  BY Seen DEF Place
<1>3. CASE ~q.ok
  <2>1. Raise
    BY <1>3, Seen DEF Place
  <2> QED BY <1>1, <1>2, <2>1, RaiseKeeps
<1>4. CASE q.ok
  <2>1. /\ risk' = [risk EXCEPT !.today = @ + 1] /\ Commit(m, q) /\ NextMarket
        /\ UNCHANGED <<healthy, valid>> /\ UNCHANGED <<loop, waiting, shown, credit>>
    BY <1>4, Seen DEF Place, feed, depth
  <2>2. /\ RowInv(q, config.full, config.oneTrade) /\ q.settled = db[m].settled
        /\ q.consumed = db[m].consumed /\ ~Open(q) /\ ~Open(db[m])
        /\ q.state = "ORDER_PENDING" /\ db[m].exit = "none"
    BY <1>2, <1>4, AccountOf, Submitting
  <2> HIDE DEF q
  <2>3. Saved /\ db'[m] = q /\ \A k \in Markets : k # m => db'[k] = db[k]
    BY <2>1, <2>2, Committed DEF RowInv
  <2>4. risk' \in Risks /\ risk'.halted = risk.halted
    <3>1. risk.today + 1 \in 0 .. Daily
      BY <1>2, Typing, TradingAssumption DEF Fundable, Risks
    <3> QED BY <2>1, <3>1, Typing, Zenon DEF Risks
  <2>5. Parked
    BY <2>1, OnToNext
  <2>6. Leased
    BY <1>1, <1>2, UpLeased DEF process
  <2>7. PaperTypes' /\ MemorySaved'
    BY <1>2, <2>1, <2>3, <2>4, <2>5, <2>6, Typing
    DEF PaperTypes, MemorySaved, Saved, Parked, Leased, Risks
  <2>8. ASSUME NEW k \in Markets
        PROVE /\ RowInv(db'[k], config.full, config.oneTrade) /\ Flat(db'[k])
              /\ StopKept(db[k], db'[k])
              /\ db'[k].settled # "none" \/ db'[k].state = "SETTLEMENT_PENDING" => closed[k]
              /\ credit[k] >= 0 /\ credit[k] >= shown[k] - db'[k].consumed
              /\ db'[k].active =>
                   healthy /\ valid[k] /\ ~risk'.halted /\ db'[k].settled = "none"
    <3>1. CASE k # m
      BY <1>1, <2>3, <2>4, <3>1, AccountOf DEF StopKept
    <3>2. CASE k = m
      BY <1>1, <2>2, <2>3, <2>4, <3>2, AccountOf DEF Flat, StopKept
    <3> QED BY <3>1, <3>2
  <2>9. Accounts' /\ SettledLate' /\ DepthCovered' /\ NoOrderOutlivesItsFeed' /\ StopsKept
    BY <1>2, <2>1, <2>8
    DEF Accounts, SettledLate, DepthCovered, NoOrderOutlivesItsFeed, StopsKept
  <2> QED BY <2>5, <2>7, <2>9, Parking DEF PaperInv
<1> QED BY <1>3, <1>4

LEMMA RefuseKeeps ==
  ASSUME PaperInv, NEW m \in Markets, Refuse(m)
  PROVE PaperInv' /\ StopsKept
<1>1. /\ db[m].state \notin Shut /\ db[m].settled = "none" /\ worker = "up"
      /\ turn.m = m /\ turn \in Turn
      /\ turn.entry => healthy /\ valid[m] /\ ~risk.halted
  BY InHand DEF Refuse, Inside
<1>2. /\ UNCHANGED account /\ UNCHANGED <<healthy, valid>> /\ config' = config
      /\ UNCHANGED <<shown, credit, closed>> /\ UNCHANGED process
      /\ waiting' = waiting /\ loop' = loop /\ turn' = GoTo(turn, "refuse")
  BY DEF Refuse, feed, depth
<1>3. "refuse" \in Places
  BY DEF Places
<1>4. turn' \in Turn /\ turn'.pc = "refuse" /\ turn'.m = m /\ turn'.entry = turn.entry
  BY <1>1, <1>2, <1>3, Going
<1>5. Gentle /\ db' = db /\ risk' = risk
  BY <1>2, SameAccounts DEF account
<1>6. Typed
  BY <1>2, <1>5, Typing DEF Typed
<1>7. Fed
  BY <1>1, <1>2, <1>5, FeedKept
<1>8. TurnAgrees'
  BY <1>1, <1>2, <1>4, <1>5, StillInHand
<1> QED BY <1>1, <1>2, <1>4, <1>5, <1>6, <1>7, <1>8, GentleStep, UpLeased

LEMMA RefusedKeeps ==
  ASSUME PaperInv, NEW m \in Markets, Refused(m)
  PROVE PaperInv' /\ StopsKept
<1>1. worker = "up" /\ UNCHANGED <<config, closed, process>>
  BY DEF Refused, At
<1>2. CASE Legal(db[m].state, "NO_TRADE")
  <2>1. /\ CommitState(m, "NO_TRADE") /\ NextMarket /\ UNCHANGED <<healthy, valid>>
        /\ UNCHANGED <<loop, waiting, shown, credit>>
    BY <1>2, Seen DEF Refused, feed, depth
  <2>2. "NO_TRADE" \in Entering
    BY DEF Entering
  <2>3. Gentle /\ risk' = risk
    BY <1>2, <2>1, <2>2, MovedGently
  <2>4. Typed
    BY <2>1, <2>3, Typing DEF Typed
  <2>5. Fed
    BY <1>1, <2>1, <2>3, FeedKept
  <2> QED BY <1>1, <2>1, <2>3, <2>4, <2>5, OnToNext, RowStep
<1>3. CASE ~Legal(db[m].state, "NO_TRADE")
  <2>1. Raise
    BY <1>3, Seen DEF Refused
  <2> QED BY <1>1, <2>1, RaiseKeeps
<1> QED BY <1>2, <1>3

-----------------------------------------------------------------------------
(* The worker's life, the collector's lease, the operator. *)

LEMMA RestingWorker ==
  ASSUME PaperInv, Rest, loop' \subseteq Markets, risk' = risk
  PROVE Typed /\ Parked /\ turn' = Idle /\ config' = config
        /\ UNCHANGED <<shown, credit, closed>>
<1>1. Typed
  BY Typing DEF Rest, Typed
<1>2. Parked
  BY IdleTurn DEF Rest, Parked
<1> QED BY <1>1, <1>2 DEF Rest, depth

\* A start quarantines what changed and cancels what rested: nothing of what
\* was held is lost, and nothing rests.
LEMMA BootKeeps == ASSUME PaperInv, Boot PROVE PaperInv' /\ StopsKept
<1>1. PICK changed \in SUBSET {m \in Markets : Open(db[m]) \/ db[m].active} :
        db' = [m \in Markets |->
                 Cancel(IF m \in changed THEN Quarantine(db[m], "other") ELSE db[m])]
  BY DEF Boot
<1>2. ASSUME NEW m \in Markets
      PROVE /\ RowInv(db'[m], config.full, config.oneTrade) /\ ~db'[m].active
            /\ Kept(db[m], db'[m]) /\ StopKept(db[m], db'[m])
  <2> DEFINE why == "other"
             p == IF m \in changed THEN Quarantine(db[m], why) ELSE db[m]
             q == Cancel(p)
  <2>1. RowInv(db[m], config.full, config.oneTrade)
    BY AccountOf
  <2>2. ASSUME m \in changed
        PROVE db[m].state # "UNKNOWN"
    BY <1>1, <2>1, <2>2 DEF RowInv, RowAgrees
  <2>3. why \in {"invalid", "other"}
    OBVIOUS
  <2>4. db'[m] = q
    BY <1>1
  <2> HIDE DEF why
  <2>5. /\ RowInv(p, config.full, config.oneTrade) /\ Kept(db[m], p)
        /\ SamePosition(p, db[m])
    <3>1. CASE m \in changed
      BY <2>1, <2>2, <2>3, <3>1, Quarantining
    <3>2. CASE m \notin changed
      BY <2>1, <3>2 DEF Kept, SamePosition
    <3> QED BY <3>1, <3>2
  <2> HIDE DEF p
  <2>6. /\ RowInv(q, config.full, config.oneTrade) /\ ~q.active /\ Kept(p, q)
        /\ SamePosition(q, p)
    BY <2>5, Cancelling
  <2> HIDE DEF q
  <2>7. Kept(db[m], q) /\ StopKept(db[m], q)
    BY <2>5, <2>6 DEF Kept, StopKept, SamePosition
  <2> QED BY <2>4, <2>6, <2>7
<1>3. db' \in [Markets -> Row]
  <2>1. db' = [m \in Markets |-> db'[m]]
    BY <1>1
  <2>2. \A m \in Markets : db'[m] \in Row
    BY <1>2 DEF RowInv
  <2> QED BY <2>1, <2>2
<1>4. Gentle /\ NoneRests
  BY <1>2, <1>3 DEF Boot, Gentle, Saved, NoneRests
<1>5. loop' \subseteq Markets /\ risk' = risk /\ Rest
  BY DEF Boot
<1>6. Leased
  BY DEF Boot, Leased
<1> QED BY <1>4, <1>5, <1>6, RestingWorker, NothingToFeed, GentleStep, Parking DEF Parked

LEMMA DownLeased ==
  ASSUME PaperInv, worker' = "down", collector' = collector, turn' = Idle
  PROVE Leased
BY Typing DEF Leased

LEMMA StopKeeps == ASSUME PaperInv, Stop PROVE PaperInv' /\ StopsKept
<1>1. Gentle /\ NoneRests
  BY AllCancelled DEF Stop
<1>2. loop' \subseteq Markets /\ risk' = risk /\ Rest /\ worker' = "down"
      /\ collector' = collector
  BY DEF Stop
<1> QED BY <1>1, <1>2, RestingWorker, DownLeased, NothingToFeed, GentleStep, Parking DEF Parked

LEMMA CrashKeeps == ASSUME PaperInv, Crash PROVE PaperInv' /\ StopsKept
<1>1. UNCHANGED account
  BY Seen DEF Crash, account
<1>2. Gentle
  BY <1>1, SameAccounts
<1>3. loop' \subseteq Markets /\ risk' = risk /\ Rest /\ worker' = "down"
      /\ collector' = collector
  BY DEF Crash
<1> QED BY <1>2, <1>3, RestingWorker, DownLeased, GentleStep, Parking DEF Parked

\* The row in hand, while nothing the accounts, the feed or the row know of
\* changes.
LEMMA SameTurn ==
  ASSUME PaperInv, UNCHANGED <<db, risk, healthy, valid, turn>>
  PROVE TurnAgrees' /\ turn' \in Turn
BY Typing DEF PaperInv, TurnAgrees

LEMMA FreeLeaseKeeps == ASSUME PaperInv, Careful, FreeLease PROVE PaperInv' /\ StopsKept
<1>1. Gentle
  BY SameAccounts DEF FreeLease
<1>2. /\ worker = "down" /\ worker' = "down" /\ collector' = "free"
      /\ UNCHANGED <<db, risk, healthy, valid, turn, loop, waiting>>
      /\ config' = config /\ UNCHANGED <<shown, credit, closed>>
  BY DEF FreeLease, account, feed, depth
<1>3. Leased
  BY <1>2 DEF PaperInv, MemorySaved, Leased
<1>4. Typed
  BY <1>2, Typing DEF Typed
<1> QED BY <1>1, <1>2, <1>3, <1>4, SameTurn, GentleStep

\* A reviewed recovery runs while the lease is free: no worker holds another
\* copy of the account.
LEMMA RecoverKeeps ==
  ASSUME PaperInv, NEW m \in Markets, Recover(m)
  PROVE PaperInv' /\ StopsKept
<1>1. PICK terms \in Terms \ {"none"} :
        /\ db[m].newest # "none" /\ Settle(db[m], db[m].newest, terms, TRUE).ok
        /\ db' = [db EXCEPT ![m] = Settle(db[m], db[m].newest, terms, TRUE)]
        /\ mem' = IF worker = "down"
                  THEN [mem EXCEPT ![m] = Portfolio(Settle(db[m], db[m].newest, terms, TRUE))]
                  ELSE mem
  BY DEF Recover
<1> DEFINE o == db[m].newest
           q == Settle(db[m], o, terms, TRUE)
<1>2. /\ collector = "free" /\ db[m].state # "UNKNOWN" /\ closed[m]
      /\ config' = config /\ risk' = risk /\ UNCHANGED <<healthy, valid>>
      /\ UNCHANGED <<shown, credit, closed>> /\ loop' = loop /\ waiting' = waiting
      /\ turn' = turn /\ UNCHANGED process
  BY DEF Recover, Known, feed, depth
<1>3. worker = "down" /\ turn = Idle
  BY <1>2 DEF PaperInv, MemorySaved
<1>4. o \in Outcomes
  BY <1>1, AccountOf DEF Row
<1>5. /\ RowInv(q, config.full, config.oneTrade) /\ Flat(q)
      /\ q.consumed = db[m].consumed /\ StopKept(db[m], q) /\ (q.active => db[m].active)
  <2> HIDE DEF o
  <2>1. \A review : Settle(db[m], o, terms, review).ok =>
          LET x == Settle(db[m], o, terms, review) IN
          /\ RowInv(x, config.full, config.oneTrade) /\ Flat(x)
          /\ x.consumed = db[m].consumed /\ StopKept(db[m], x)
          /\ x.active => db[m].active
    BY <1>2, <1>4, AccountOf, Settling
  <2>2. Settle(db[m], o, terms, TRUE).ok
    BY <1>1 DEF o
  <2> QED BY <2>1, <2>2, Zenon
<1>6. db' = [db EXCEPT ![m] = q] /\ mem' = [mem EXCEPT ![m] = Portfolio(q)]
  BY <1>1, <1>3
<1>7. q \in Row
  BY <1>5 DEF RowInv
<1> HIDE DEF q
<1>8. db' \in [Markets -> Row] /\ db'[m] = q /\ \A k \in Markets : k # m => db'[k] = db[k]
  BY <1>6, <1>7, Typing
<1>9. mem' = [k \in Markets |-> Portfolio(db'[k])]
  BY <1>6, <1>8, Seen
<1>10. Typed
  BY <1>2, Typing DEF Typed
<1>11. Leased
  BY <1>2, <1>3, Typing DEF Leased, process
<1>12. TurnAgrees' /\ turn' \in Turn
  BY <1>2, <1>3, IdleTurn, Parking DEF Parked
<1>13. worker' = worker
  BY <1>2 DEF process
<1> QED BY <1>2, <1>5, <1>8, <1>9, <1>10, <1>11, <1>12, <1>13, ClosedStep DEF Saved

\* The close of a market only allows more.
LEMMA CloseKeeps ==
  ASSUME PaperInv, NEW m \in Markets, Close(m)
  PROVE PaperInv' /\ StopsKept
<1>1. /\ closed' = [closed EXCEPT ![m] = TRUE] /\ UNCHANGED <<mem, db, risk>>
      /\ UNCHANGED <<config, healthy, valid, shown, credit, loop, waiting, turn>>
      /\ UNCHANGED <<worker, collector>>
  BY DEF Close, account, feed, depth, process
<1>2. closed' \in [Markets -> BOOLEAN] /\ \A k \in Markets : closed[k] => closed'[k]
  BY <1>1, Typing
<1>3. PaperTypes' /\ Accounts' /\ MemorySaved' /\ DepthCovered' /\ NoOrderOutlivesItsFeed'
  BY <1>1, <1>2 DEF PaperInv, PaperTypes, Accounts, MemorySaved, DepthCovered,
                    NoOrderOutlivesItsFeed
<1>4. SettledLate'
  BY <1>1, <1>2 DEF PaperInv, SettledLate
<1>5. TurnAgrees' /\ StopsKept
  BY <1>1, SameTurn DEF StopsKept, StopKept
<1> QED BY <1>3, <1>4, <1>5 DEF PaperInv

-----------------------------------------------------------------------------
(* The invariant and the properties. *)

LEMMA FreshRow ==
  ASSUME NEW full \in BOOLEAN, NEW one
  PROVE RowInv(Fresh, full, one) /\ Flat(Fresh) /\ Portfolio(Fresh) = Fresh
<1>1. Fresh \in Row
  BY PortfolioAssumption DEF Fresh, Row, Attempts, States, Outcomes
<1>2. RowAgrees(Fresh, full)
  BY DEF RowAgrees, Fresh, Open, Exclusive
<1>3. OrderAddsUp(Fresh) /\ CycleSpent(Fresh, one)
  BY DEF OrderAddsUp, CycleSpent, Fresh
<1>4. Fresh.ok /\ Fresh.held <= Fresh.bought /\ Fresh.owed = Fresh.held /\ Flat(Fresh)
  BY DEF Fresh, Flat
<1>5. Portfolio(Fresh) = Fresh
  BY DEF Portfolio, Overlay, Fresh
<1> QED BY <1>1, <1>2, <1>3, <1>4, <1>5 DEF RowInv

LEMMA InitKeeps == ASSUME Init PROVE PaperInv
<1>1. config.full \in BOOLEAN
  BY TradingAssumption DEF Init, Config
<1>2. ASSUME NEW m \in Markets
      PROVE /\ db[m] = Fresh /\ RowInv(db[m], config.full, config.oneTrade) /\ Flat(db[m])
            /\ mem[m] = Portfolio(db[m])
  BY <1>1, FreshRow DEF Init
<1>3. db \in [Markets -> Row] /\ mem = [m \in Markets |-> Portfolio(db[m])]
  BY <1>2 DEF Init, RowInv
<1>4. PaperTypes
  <2>1. shown \in [Markets -> 0 .. Depth] /\ credit \in [Markets -> Int] /\ 0 \in 0 .. Daily
    BY PortfolioAssumption, TradingAssumption DEF Init
  <2>2. valid \in [Markets -> BOOLEAN] /\ closed \in [Markets -> BOOLEAN]
    BY DEF Init
  <2>3. risk \in [halted : BOOLEAN, today : 0 .. Daily]
    BY <2>1 DEF Init
  <2> QED BY <1>3, <2>1, <2>2, <2>3, IdleTurn DEF Init, PaperTypes
<1>5. Accounts /\ MemorySaved
  BY <1>2, <1>3 DEF Init, Accounts, MemorySaved
<1>6. SettledLate /\ DepthCovered /\ NoOrderOutlivesItsFeed
  <2>1. ASSUME NEW m \in Markets
        PROVE /\ db[m].settled = "none" /\ db[m].state # "SETTLEMENT_PENDING"
              /\ credit[m] = 0 /\ shown[m] = 0 /\ db[m].consumed = 0
    BY <1>2 DEF Init, Fresh
  <2> QED BY <2>1 DEF Init, SettledLate, DepthCovered, NoOrderOutlivesItsFeed
<1>7. TurnAgrees
  BY IdleTurn DEF Init, TurnAgrees, Inside
<1> QED BY <1>4, <1>5, <1>6, <1>7 DEF PaperInv

LEMMA RowsKeep ==
  ASSUME PaperInv, NEW m \in Markets, RowOf(m)
  PROVE PaperInv' /\ StopsKept
BY BookRowKeeps, TradeRowKeeps, DiscoverKeeps, MetadataInvalidKeeps, MetadataChangedKeeps,
   MetadataActiveKeeps, RestrictKeeps, SettlementRowKeeps DEF RowOf

LEMMA ProcessKeeps ==
  ASSUME PaperInv, NEW m \in Markets, ProcessOf(m)
  PROVE PaperInv' /\ StopsKept
BY ReopenKeeps, DropKeeps, CloseOrderKeeps, AwaitSettlementKeeps, EvaluateKeeps, DecideKeeps,
   DecidedKeeps, RestingKeeps, ManageBindingKeeps, ManageFreshKeeps, PlaceKeeps, RefuseKeeps,
   RefusedKeeps DEF ProcessOf

LEMMA StepKeeps == ASSUME PaperInv, Careful, Next PROVE PaperInv' /\ StopsKept
<1>1. CASE Reference \/ Interrupt \/ Suspend \/ Halt \/ Discovering
  BY <1>1, ReferenceKeeps, InterruptKeeps, SuspendKeeps, HaltKeeps, DiscoveringKeeps
<1>2. CASE Boot \/ Stop \/ Crash \/ FreeLease
  BY <1>2, BootKeeps, StopKeeps, CrashKeeps, FreeLeaseKeeps
<1>3. ASSUME NEW m \in Markets, RowOf(m) \/ ProcessOf(m) \/ Recover(m) \/ Close(m)
      PROVE PaperInv' /\ StopsKept
  BY <1>3, RowsKeep, ProcessKeeps, RecoverKeeps, CloseKeeps
<1> QED BY <1>1, <1>2, <1>3 DEF Next

LEMMA StutterKeeps == ASSUME PaperInv, UNCHANGED vars PROVE PaperInv'
<1>1. UNCHANGED <<config, mem, db, risk, healthy, valid, shown, credit, closed, loop, waiting,
                  turn, worker, collector>>
  BY DEF vars
<1> QED BY <1>1 DEF PaperInv, PaperTypes, Accounts, MemorySaved, SettledLate, DepthCovered,
                    TurnAgrees, NoOrderOutlivesItsFeed

\* The inductive invariant, where the collector's lease outlives its worker.
THEOREM PaperInvariant == ASSUME Careful PROVE Spec => []PaperInv
<1>1. Init => PaperInv
  BY InitKeeps
<1>2. PaperInv /\ [Next]_vars => PaperInv'
  BY StepKeeps, StutterKeeps
<1> QED BY <1>1, <1>2, PTL DEF Spec

\* Records, flags and places keep their types, and every committed state was
\* reached over transitions the table of storage.py allows.
THEOREM TypesKept == ASSUME Careful PROVE Spec => []TypeOK
<1>1. ASSUME PaperInv
      PROVE TypeOK
  <2>1. ASSUME NEW m \in Markets
        PROVE /\ mem[m] \in Row /\ db[m] \in Row /\ db[m].ok /\ mem[m] = Portfolio(mem[m])
    BY <1>1, AccountOf, Seen, Overlaying DEF RowInv
  <2>2. DOMAIN mem = Markets /\ DOMAIN db = Markets
    BY <1>1, Seen, Typing
  <2> QED BY <1>1, <2>1, <2>2 DEF PaperInv, PaperTypes, TypeOK
<1> QED BY <1>1, PaperInvariant, PTL

\* State, order, position, reservation and quarantine agree in the database,
\* at every commit, crash and restart of the worker.
THEOREM BooksAlwaysAgree == ASSUME Careful PROVE Spec => []BooksAgree
<1>1. ASSUME PaperInv
      PROVE BooksAgree
  BY <1>1, AccountOf DEF BooksAgree, RowInv
<1> QED BY <1>1, PaperInvariant, PTL

\* What the records say is held is what the checkpoint holds: no fill, sale or
\* payment is lost or counted twice.
THEOREM LedgerAlwaysBalances == ASSUME Careful PROVE Spec => []LedgerBalances
<1>1. ASSUME PaperInv
      PROVE LedgerBalances
  BY <1>1, AccountOf DEF LedgerBalances, RowInv
<1> QED BY <1>1, PaperInvariant, PTL

\* A cycle opens one position at most, and a market under
\* one_trade_per_market has one cycle.
THEOREM CyclesTradeOnce == ASSUME Careful PROVE Spec => []OneTradePerCycle
<1>1. ASSUME PaperInv
      PROVE OneTradePerCycle
  BY <1>1, AccountOf DEF OneTradePerCycle, RowInv, CycleSpent
<1> QED BY <1>1, PaperInvariant, PTL

\* Settlement leaves nothing behind, whichever way the contract got there.
THEOREM SettledAlwaysFlat == ASSUME Careful PROVE Spec => []SettledIsFlat
<1>1. ASSUME PaperInv
      PROVE SettledIsFlat
  BY <1>1, AccountOf DEF SettledIsFlat, Flat, RowInv, RowAgrees
<1> QED BY <1>1, PaperInvariant, PTL

\* The recorded consumption covers every sale the display has not replaced.
THEOREM DepthNeverSoldTwice == ASSUME Careful PROVE Spec => []DepthSoldOnce
<1>1. ASSUME PaperInv
      PROVE DepthSoldOnce
  BY <1>1, AccountOf DEF DepthSoldOnce
<1> QED BY <1>1, PaperInvariant, PTL

\* No order rests on a feed that was interrupted since it was placed.
THEOREM OrdersNeedTheirFeed == ASSUME Careful PROVE Spec => []NoOrderOutlivesItsFeed
<1>1. PaperInv => NoOrderOutlivesItsFeed
  BY DEF PaperInv
<1> QED BY <1>1, PaperInvariant, PTL

\* No step gives up a hard stop while the position it is for is open.
THEOREM StopsAlwaysStand == ASSUME Careful PROVE Spec => StopStands
<1>1. ASSUME PaperInv, Next
      PROVE \A m \in Markets : db[m].exit = "HARD_STOP" =>
              db'[m].exit = "HARD_STOP" \/ ~Open(db'[m])
  BY <1>1, StepKeeps DEF StopsKept, StopKept
<1> QED BY <1>1, PaperInvariant, PTL DEF Spec, StopStands
===============================================================================
