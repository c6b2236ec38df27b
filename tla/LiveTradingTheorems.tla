-------------------------- MODULE LiveTradingTheorems --------------------------
(***************************************************************************)
(* What follows from the inductive invariants of the order path: the       *)
(* safety properties that the runs check on small instances, for every     *)
(* number of markets, connections, orders and restarts.  The first part    *)
(* needs LiveInv alone; the second proves CountInv, the layer that counts  *)
(* contracts and attempts, and what rests on it; the third, the slot.      *)
(***************************************************************************)
EXTENDS LiveTrading_proofs

(* Every variable keeps its type, as the rows of manual_orders and         *)
(* live_controls do in their tables.                                       *)
THEOREM TypeCorrect == Spec => []TypeOK
<1>1. LiveInv => TypeOK
  BY DEF LiveInv
<1>2. QED
  BY <1>1, LiveInvariant, PTL

(* A resolved row of the journal tells the truth about the exchange: _submit,
   reconcile, the status check and a crash never leave "complete" or
   "rejected" behind for an order that could still fill.                   *)
THEOREM ResolvedRowsAreTrue == Spec => []ResolvedIsTrue
<1>1. LiveInv => ResolvedIsTrue
  BY DEF LiveInv
<1>2. QED
  BY <1>1, LiveInvariant, PTL

(* claim() and the place of the POST in _submit: no client order id is     *)
(* sent twice.                                                             *)
THEOREM SentOnce == Spec => []SentAtMostOnce
<1>1. LiveInv => SentAtMostOnce
  BY DEF LiveInv, VenueHistory, SentAtMostOnce
<1>2. QED
  BY <1>1, LiveInvariant, PTL

-----------------------------------------------------------------------------
(* Only a POST sends.                                                      *)

Quiet ==
  /\ \A o \in Rows : ~Sends(o)
  /\ \A t \in Threads : ~(thread[t].pc = "read" /\ thread'[t].pc = "posting")

(* A step that leaves the exchange alone sends nothing.                    *)
LEMMA QuietMove ==
  ASSUME TypeOK, UNCHANGED venue, NEW t \in Threads, NEW y,
         thread' = [thread EXCEPT ![t] = y], y.pc # "posting"
  PROVE  Quiet
  BY DEF Quiet, Sends, TypeOK

LEMMA QuietThreads ==
  ASSUME TypeOK, UNCHANGED <<venue, thread>>
  PROVE  Quiet
  BY DEF Quiet, Sends

LEMMA QuietChanged ==
  ASSUME TypeOK, UNCHANGED venue, thread' = AllChanged
  PROVE  Quiet
  BY AllChangedType DEF Quiet, Sends

LEMMA OperatorIsQuiet ==
  ASSUME LiveInv, NEW m \in Markets,
         \/ SyncMarkets(m) \/ Close(m) \/ DetectStop(m)
         \/ \E on \in BOOLEAN : Configure(m, on)
         \/ PrepareShutdown
  PROVE  Quiet
<1>1. TypeOK
  BY DEF LiveInv
<1>2. CASE SyncMarkets(m) \/ Close(m) \/ DetectStop(m)
  BY <1>1, <1>2, QuietThreads DEF SyncMarkets, Close, DetectStop
<1>3. CASE PrepareShutdown \/ \E on \in BOOLEAN : Configure(m, on)
  BY <1>1, <1>3, QuietChanged DEF Configure, PrepareShutdown
<1>4. QED
  BY <1>2, <1>3

LEMMA ShutdownIsQuiet == LiveInv /\ PrepareShutdown => Quiet
  BY QuietChanged DEF LiveInv, PrepareShutdown

LEMMA SubmitIsQuiet ==
  ASSUME NEW t, NEW row, NEW order
  PROVE  Submit(t, row, order).pc = "queued"
  BY DEF Submit, Idle

LEMMA StepIsQuiet ==
  ASSUME LiveInv, NEW m \in Markets,
         \/ \E t \in Loopers : StepHeld(t, m)
         \/ \E side \in Sides : StepFlat(m, side)
  PROVE  Quiet
<1>1. TypeOK
  BY DEF LiveInv
<1>2. ASSUME NEW t \in Loopers, StepHeld(t, m) PROVE Quiet
  <2>1. UNCHANGED venue
    BY <1>2 DEF StepHeld
  <2>2. PICK y : y.pc = "queued" /\ thread' = [thread EXCEPT ![t] = y]
    <3>1. PICK o \in BotRows(m, "buy") :
            thread' = [thread EXCEPT ![t] =
                         Submit(t, NewRow(m, "sell", journal[o].side, Held(m), TRUE), 0)]
      BY <1>2 DEF StepHeld
    <3> DEFINE z == Submit(t, NewRow(m, "sell", journal[o].side, Held(m), TRUE), 0)
    <3>2. z.pc = "queued"
      BY SubmitIsQuiet
    <3>3. thread' = [thread EXCEPT ![t] = z]
      BY <3>1
    <3> HIDE DEF z
    <3>4. QED
      BY <3>2, <3>3
  <2>3. t \in Threads
    BY DEF Threads
  <2>4. QED
    BY <1>1, <2>1, <2>2, <2>3, QuietMove
<1>3. ASSUME NEW side \in Sides, StepFlat(m, side) PROVE Quiet
  <2>1. UNCHANGED venue
    BY <1>3 DEF StepFlat
  <2>2. PICK y : y.pc = "queued" /\ thread' = [thread EXCEPT ![Worker] = y]
    <3> DEFINE z == Submit(Worker, NewRow(m, "buy", side, Size, TRUE), 0)
    <3>1. z.pc = "queued"
      BY SubmitIsQuiet
    <3>2. thread' = [thread EXCEPT ![Worker] = z]
      BY <1>3 DEF StepFlat
    <3> HIDE DEF z
    <3>3. QED
      BY <3>1, <3>2
  <2>3. QED
    BY <1>1, <2>1, <2>2, WorkerIsAThread, QuietMove
<1>4. QED
  BY <1>2, <1>3

LEMMA RequestIsQuiet ==
  ASSUME LiveInv, NEW u \in Users, NEW row, NEW order, UserSubmit(u, row, order)
  PROVE  Quiet
<1> DEFINE others == IF Exists(row.market) THEN AllChanged ELSE thread
<1>1. TypeOK /\ u \in Threads
  BY DEF LiveInv, Threads
<1>2. /\ others \in [Threads -> Thread]
      /\ \A t \in Threads : others[t].pc = thread[t].pc
  BY <1>1, AllChangedType DEF TypeOK
<1>3. thread' = [others EXCEPT ![u] = Submit(u, row, order)] /\ UNCHANGED venue
  BY DEF UserSubmit
<1> HIDE DEF others
<1>4. QED
  BY <1>1, <1>2, <1>3, SubmitIsQuiet DEF Quiet, Sends

LEMMA HandlersAreQuiet ==
  ASSUME LiveInv, NEW t \in Threads,
         \/ PreflightFails(t) \/ ReadPosition(t) \/ PreflightRejects(t)
         \/ Refused(t) \/ Acknowledged(t) \/ Unconfirmed(t) \/ Reconciliation(t)
  PROVE  Quiet
<1>1. TypeOK /\ Idle.pc # "posting"
  BY IdleType DEF LiveInv
<1>2. CASE \/ PreflightFails(t) \/ PreflightRejects(t) \/ Refused(t) \/ Unconfirmed(t)
           \/ LookupFails(t) \/ Reconcile(t)
  <2>1. UNCHANGED venue /\ thread' = [thread EXCEPT ![t] = Idle]
    BY <1>2 DEF PreflightFails, PreflightRejects, Refused, Unconfirmed, LookupFails, Reconcile,
                Finish, Become
  <2>2. QED
    BY <1>1, <2>1, QuietMove
<1>3. CASE ReadPosition(t)
  <2> DEFINE y == [thread[t] EXCEPT !.pc = "read", !.held = position[thread[t].row.market]]
  <2>1. y.pc # "posting"
    BY <1>1 DEF TypeOK, Thread
  <2>2. UNCHANGED venue /\ thread' = [thread EXCEPT ![t] = y]
    BY <1>3 DEF ReadPosition, Become
  <2> HIDE DEF y
  <2>3. QED
    BY <1>1, <2>1, <2>2, QuietMove
<1>4. ASSUME NEW row, Acknowledged(t),
             thread' = [thread EXCEPT ![t] = [thread[t] EXCEPT !.pc = "acked", !.row = row]]
      PROVE  Quiet
  <2> DEFINE y == [thread[t] EXCEPT !.pc = "acked", !.row = row]
  <2>1. y.pc # "posting"
    BY <1>1 DEF TypeOK, Thread
  <2>2. UNCHANGED venue /\ thread' = [thread EXCEPT ![t] = y]
    BY <1>4 DEF Acknowledged
  <2> HIDE DEF y
  <2>3. QED
    BY <1>1, <2>1, <2>2, QuietMove
<1>5. CASE Fetch(t)
  <2> DEFINE place == IF thread[t].pc = "acked" THEN "fetched" ELSE "found"
             y == [thread[t] EXCEPT !.pc = place, !.seen = venue[thread[t].order]]
  <2>1. y.pc # "posting"
    BY <1>1 DEF TypeOK, Thread
  <2>2. UNCHANGED venue /\ thread' = [thread EXCEPT ![t] = y]
    BY <1>5 DEF Fetch, Become
  <2> HIDE DEF y
  <2>3. QED
    BY <1>1, <2>1, <2>2, QuietMove
<1>6. QED
  BY <1>2, <1>3, <1>4, <1>5 DEF Reconciliation, Acknowledged, Become

LEMMA ClaimIsQuiet ==
  ASSUME LiveInv, NEW t \in Threads, Claim(t)
  PROVE  Quiet
<1>1. TypeOK /\ Idle.pc # "posting"
  BY IdleType DEF LiveInv
<1>2. CASE ClaimRefused(t)
  <2>1. UNCHANGED venue /\ thread' = [thread EXCEPT ![t] = Idle]
    BY <1>2 DEF ClaimRefused, Moves
  <2>2. QED
    BY <1>1, <2>1, QuietMove
<1>3. ASSUME NEW y, ClaimInserted(t, y) PROVE Quiet
  <2>1. \A p \in Rows : venue'[p] = venue[p]
    BY <1>1, <1>3, UnsentType, AppendRow DEF ClaimInserted, TypeOK, Rows
  <2>2. thread' = [thread EXCEPT ![t] = y] /\ y.pc # "posting"
    BY <1>3 DEF ClaimInserted
  <2>3. QED
    BY <1>1, <2>1, <2>2 DEF Quiet, Sends, TypeOK
<1>4. QED
  BY <1>2, <1>3, ClaimCases

LEMMA LookupIsQuiet ==
  ASSUME LiveInv, NEW o \in Rows,
         StartReconcile(o) \/ \E c \in Checkers : CheckOrder(c, o)
  PROVE  Quiet
<1> DEFINE y == [Idle EXCEPT !.pc = "lookup", !.order = o, !.row = journal[o]]
<1>1. TypeOK /\ y.pc # "posting"
  BY DEF LiveInv, Idle
<1>2. PICK t \in Threads : Lookup(t, o)
  BY WorkerIsAThread DEF StartReconcile, CheckOrder, Threads
<1>3. UNCHANGED venue /\ thread' = [thread EXCEPT ![t] = y]
  BY <1>2 DEF StartReconcile, CheckOrder, Lookup, Become
<1> HIDE DEF y
<1>4. QED
  BY <1>1, <1>3, QuietMove

LEMMA ExchangeIsQuiet ==
  ASSUME LiveInv, NEW o \in Rows, Arrive(o) \/ Match(o)
  PROVE  Quiet
<1>1. venue[o].phase # "none" /\ UNCHANGED thread
  BY DEF Arrive, Match
<1>2. \E v : venue' = [venue EXCEPT ![o] = v]
  BY DEF Arrive, Match
<1>3. \A p \in Rows : p # o => venue'[p] = venue[p]
  BY <1>2 DEF LiveInv, TypeOK, Rows
<1>4. QED
  BY <1>1, <1>3 DEF Quiet, Sends

(* Every other step is quiet.                                              *)
LEMMA OnlyPostSends ==
  ASSUME LiveInv, Next
  PROVE  Quiet \/ \E t \in Threads : Post(t)
<1>1. ASSUME NEW m \in Markets,
             \/ SyncMarkets(m) \/ Close(m) \/ DetectStop(m)
             \/ \E on \in BOOLEAN : Configure(m, on)
             \/ \E t \in Loopers : StepHeld(t, m)
             \/ \E side \in Sides : StepFlat(m, side)
      PROVE  Quiet
  BY <1>1, OperatorIsQuiet, StepIsQuiet
<1>2. CASE PrepareShutdown
  BY <1>2, ShutdownIsQuiet
<1>3. CASE \E u \in Users : UserRequest(u)
  BY <1>3, RequestIsQuiet DEF UserRequest
<1>4. ASSUME NEW t \in Threads, Submission(t) \/ Reconciliation(t), ~Post(t) PROVE Quiet
  BY <1>4, ClaimIsQuiet, HandlersAreQuiet DEF Submission
<1>5. ASSUME NEW o \in Rows,
             StartReconcile(o) \/ Arrive(o) \/ Match(o) \/ \E c \in Checkers : CheckOrder(c, o)
      PROVE  Quiet
  BY <1>5, LookupIsQuiet, ExchangeIsQuiet
<1>6. CASE Crash
  <2>1. UNCHANGED venue /\ \A t \in Threads : thread'[t].pc = "idle"
    BY <1>6, IdleType DEF Crash
  <2>2. QED
    BY <2>1 DEF Quiet, Sends
<1>7. QED
  BY <1>1, <1>2, <1>3, <1>4, <1>5, <1>6 DEF Next

-----------------------------------------------------------------------------
(* The POST itself.                                                        *)

(* What goes out: the order of the one submission in the slot, of which    *)
(* the exchange knew nothing.                                              *)
LEMMA PostSends ==
  ASSUME LiveInv, NEW t \in Threads, Post(t)
  PROVE  /\ thread[t].pc = "read" /\ thread[t].order \in Rows
         /\ SameOrder(thread[t].row, journal[thread[t].order])
         /\ thread[t].row \in Row
         /\ \A o \in Rows : Sends(o) => o = thread[t].order
         /\ \A u \in Threads : u # t => thread'[u] = thread[u]
<1>1. PICK v \in VenueOrder, y \in Thread :
        /\ thread[t].pc = "read" /\ thread[t].order \in Rows
        /\ thread' = [thread EXCEPT ![t] = y]
        /\ venue' = [venue EXCEPT ![thread[t].order] = v]
  BY PostEffect
<1>2. SameOrder(thread[t].row, journal[thread[t].order]) /\ thread[t].row \in Row
  BY <1>1 DEF LiveInv, OwnCopy
<1>3. \A o \in Rows : o # thread[t].order => venue'[o] = venue[o]
  BY <1>1 DEF LiveInv, TypeOK, Rows
<1>4. \A u \in Threads : u # t => thread'[u] = thread[u]
  BY <1>1 DEF LiveInv, TypeOK
<1>5. QED
  BY <1>1, <1>2, <1>3, <1>4 DEF Sends

(* authorize() fences the bot's orders: _submit calls it last, and every   *)
(* change to the controls raises their revisions.                          *)
THEOREM NoOvertakenOrderIsSent == Spec => NoOvertakenOrder
<1> DEFINE Overtaken(t) ==
             /\ thread[t].pc = "read" /\ thread'[t].pc = "posting" /\ thread[t].row.bot
             /\ thread[t].changed \/ control[thread[t].row.market].paused
<1>1. ASSUME LiveInv, [Next]_vars, NEW t \in Threads, Overtaken(t)
      PROVE  FALSE
  <2>1. PICK u \in Threads : Post(u)
    BY <1>1, OnlyPostSends DEF Quiet, vars
  <2>2. u = t
    BY <1>1, <2>1, PostSends
  <2>3. LET row == thread[t].row IN row \in Row /\ thread[t].held \in Int
    <3>1. thread[t].row \in Row
      BY <1>1, <2>1, <2>2, PostSends
    <3>2. thread[t] \in Thread
      BY <1>1 DEF LiveInv, TypeOK
    <3>3. QED
      BY <3>1, <3>2 DEF Thread
  <2> DEFINE sized == Sized(thread[t].row, thread[t].held)
             row == [sized EXCEPT !.indexed = TRUE]
  <2>4. Authorized(t, row)
    BY <2>1, <2>2 DEF Post
  <2>5. /\ control[thread[t].row.market].revision = thread[t].revision
        /\ ~control[thread[t].row.market].paused
    <3>1. sized \in Row /\ SameOrder(sized, thread[t].row)
      BY <2>3, RowSized
    <3>2. row.market = sized.market /\ row.bot = sized.bot
      BY <3>1 DEF Row
    <3>3. row.market = thread[t].row.market /\ row.bot
      BY <1>1, <3>1, <3>2 DEF SameOrder
    <3> HIDE DEF row, sized
    <3>4. QED
      BY <2>4, <3>3 DEF Authorized
  <2>6. thread[t].revision \in Nat
    BY <1>1 DEF LiveInv, TypeOK, Thread
  <2>7. QED
    BY <1>1, <2>5, <2>6 DEF LiveInv, Fenced, Pending
<1>2. LiveInv /\ [Next]_vars =>
        [\A t \in Threads :
           thread[t].pc = "read" /\ thread'[t].pc = "posting" /\ thread[t].row.bot
             => ~thread[t].changed /\ ~control[thread[t].row.market].paused]_vars
  BY <1>1
<1>3. QED
  BY <1>2, LiveInvariant, PTL DEF Spec, NoOvertakenOrder

(* claim() and the locks: nothing uncertain is behind a buy, and nothing   *)
(* of its own market behind a sale.                                        *)
THEOREM NothingUncertain == Spec => NothingUncertainBehindABuy
<1>1. ASSUME LiveInv, [Next]_vars, NEW o \in Rows, Sends(o), NEW p \in Rows \ {o}, AtExchange(p)
      PROVE  /\ journal[o].action = "sell"
             /\ journal[o].bot
             /\ journal[p].market # journal[o].market
  <2>1. PICK t \in Threads : Post(t)
    BY <1>1, OnlyPostSends DEF Quiet, vars, Sends
  <2>2. thread[t].pc = "read" /\ o = thread[t].order /\ SameOrder(thread[t].row, journal[o])
    BY <1>1, <2>1, PostSends
  <2>3. IsStop(t) /\ journal[p].market # thread[t].row.market
    BY <1>1, <2>2 DEF LiveInv, NothingInTheWay, BeforePost
  <2>4. QED
    BY <2>2, <2>3 DEF IsStop, SameOrder
<1>2. LiveInv /\ [Next]_vars =>
        [\A o \in Rows : Sends(o) =>
           \A p \in Rows \ {o} : AtExchange(p) =>
             /\ journal[o].action = "sell"
             /\ journal[o].bot
             /\ journal[p].market # journal[o].market]_vars
  BY <1>1
<1>3. QED
  BY <1>2, LiveInvariant, PTL DEF Spec, NothingUncertainBehindABuy

-----------------------------------------------------------------------------
(* Committed stops.                                                        *)

LEMMA ControlSynced ==
  ASSUME NEW c \in Control
  PROVE  [c EXCEPT !.revision = 1, !.enabled = TRUE].stop = c.stop
  BY DEF Control

LEMMA ControlReconfigured ==
  ASSUME NEW c \in Control, NEW e \in BOOLEAN, NEW p \in BOOLEAN
  PROVE  /\ [c EXCEPT !.enabled = e, !.paused = p, !.revision = @ + 1].stop = c.stop
         /\ [c EXCEPT !.enabled = e, !.revision = @ + 1].stop = c.stop
  BY ControlRevised

(* No handler writes exit_reason back to NULL.                             *)
LEMMA StopStays ==
  ASSUME LiveInv, Next, NEW m \in Markets, control[m].stop
  PROVE  control'[m].stop
<1>1. /\ control \in [Markets -> Control] /\ control[m] \in Control
      /\ \A n \in Markets : control[n].paused \in BOOLEAN
  BY DEF LiveInv, TypeOK, Control
<1>2. CASE UNCHANGED control
  BY <1>2
<1>3. ASSUME NEW n \in Markets, SyncMarkets(n) PROVE control'[m].stop
  <2> DEFINE c == [control[n] EXCEPT !.revision = 1, !.enabled = TRUE]
  <2>1. c.stop = control[n].stop
    BY <1>1, ControlSynced
  <2>2. control' = [control EXCEPT ![n] = c]
    BY <1>3 DEF SyncMarkets
  <2> HIDE DEF c
  <2>3. QED
    BY <1>1, <2>1, <2>2
<1>4. ASSUME NEW n \in Markets, DetectStop(n) \/ \E t \in Loopers : StepHeld(t, n)
      PROVE  control'[m].stop
  <2> DEFINE c == [control[n] EXCEPT !.stop = TRUE]
  <2>1. c.stop
    BY <1>1, ControlStopped
  <2>2. control' = [control EXCEPT ![n] = c]
    BY <1>4 DEF DetectStop, StepHeld
  <2> HIDE DEF c
  <2>3. QED
    BY <1>1, <2>1, <2>2
<1>5. ASSUME NEW n \in Markets, NEW on \in BOOLEAN, Configure(n, on) PROVE control'[m].stop
  <2> DEFINE c == [control[m] EXCEPT !.enabled = on, !.paused = @ /\ ~on, !.revision = @ + 1]
             d == [control[m] EXCEPT !.enabled = on /\ ~control[m].paused, !.revision = @ + 1]
  <2>1. c.stop = control[m].stop /\ d.stop = control[m].stop
    BY <1>1, ControlReconfigured
  <2>2. control'[m] = IF m = n THEN c ELSE IF Exists(m) THEN d ELSE control[m]
    BY <1>5 DEF Configure
  <2> HIDE DEF c, d
  <2>3. QED
    BY <2>1, <2>2
<1>6. CASE PrepareShutdown
  <2> DEFINE c == [control[m] EXCEPT !.enabled = FALSE, !.revision = @ + 1]
  <2>1. c.stop = control[m].stop
    BY <1>1, ControlReconfigured
  <2>2. control'[m] = IF Exists(m) THEN c ELSE control[m]
    BY <1>6 DEF PrepareShutdown
  <2> HIDE DEF c
  <2>3. QED
    BY <2>1, <2>2
<1>7. ASSUME NEW u, NEW row, NEW order, UserSubmit(u, row, order) PROVE control'[m].stop
  <2> DEFINE n == row.market
             c == [control[m] EXCEPT !.enabled = FALSE, !.paused = @ \/ m = n, !.revision = @ + 1]
  <2>1. c.stop = control[m].stop
    <3>1. (control[m].paused \/ m = n) \in BOOLEAN
      BY <1>1
    <3>2. QED
      BY <1>1, <3>1, ControlReconfigured
  <2>2. control'[m] = IF ~Exists(n) \/ ~Exists(m) THEN control[m] ELSE c
    BY <1>7 DEF UserSubmit, TakenOver
  <2> HIDE DEF c
  <2>3. QED
    BY <2>1, <2>2
<1>8. \A n \in Markets : Close(n) \/ (\E side \in Sides : StepFlat(n, side)) => UNCHANGED control
  BY DEF Close, StepFlat
<1>9. \A t \in Threads : Submission(t) \/ Reconciliation(t) => UNCHANGED control
  BY DEF Submission, Reconciliation, Claim, PreflightFails, ReadPosition, Post, PreflightRejects,
         Refused, Acknowledged, Unconfirmed, Fetch, LookupFails, Reconcile
<1>10. \A o \in Rows :
         StartReconcile(o) \/ Arrive(o) \/ Match(o) \/ (\E c \in Checkers : CheckOrder(c, o))
           => UNCHANGED control
  BY DEF StartReconcile, Arrive, Match, CheckOrder
<1>11. Crash => UNCHANGED control
  BY DEF Crash
<1>12. (\E u \in Users : UserRequest(u)) => \E u, row, order : UserSubmit(u, row, order)
  BY DEF UserRequest
<1>13. QED
  BY <1>2, <1>3, <1>4, <1>5, <1>6, <1>7, <1>8, <1>9, <1>10, <1>11, <1>12 DEF Next

(* commit_stop is for ever, and _step_market never buys behind it.         *)
THEOREM StopsAreFinal == Spec => StopIsFinal
<1>1. ASSUME LiveInv, [Next]_vars, NEW m \in Markets, control[m].stop
      PROVE  control'[m].stop
  BY <1>1, StopStays DEF vars
<1>2. ASSUME LiveInv, [Next]_vars, NEW m \in Markets, control[m].stop,
             NEW o \in BotRows(m, "buy"), Sends(o)
      PROVE  FALSE
  <2>1. o \in Rows
    BY DEF BotRows
  <2>2. PICK t \in Threads : Post(t)
    BY <1>2, <2>1, OnlyPostSends DEF Quiet, vars, Sends
  <2>3. thread[t].pc = "read" /\ o = thread[t].order /\ SameOrder(thread[t].row, journal[o])
    BY <1>2, <2>1, <2>2, PostSends
  <2>4. PICK p \in BotRows(m, "buy") : venue[p].filled > 0
    BY <1>2 DEF LiveInv, StopOfAnEntry
  <2>5. p = o
    BY <1>2, <2>3, <2>4 DEF LiveInv, FirstEntry, Live, Pending, BotRows, SameOrder
  <2>6. venue[o].filled = 0
    BY <1>2, <2>1 DEF LiveInv, VenueHistory, Sends
  <2>7. QED
    BY <2>4, <2>5, <2>6
<1>3. LiveInv /\ [Next]_vars =>
        [\A m \in Markets : control[m].stop =>
           /\ control'[m].stop
           /\ \A o \in BotRows(m, "buy") : ~Sends(o)]_vars
  BY <1>1, <1>2
<1>4. QED
  BY <1>3, LiveInvariant, PTL DEF Spec, StopIsFinal

-----------------------------------------------------------------------------
(* Counting contracts: the n-th of order o is <<o, n>>.                    *)

Tokens(S, f) == UNION {{o} \X (1..f[o]) : o \in S}
Tally(S, f) == Cardinality(Tokens(S, f))

LEMMA TokenOf ==
  ASSUME NEW S, NEW f, NEW c
  PROVE  c \in Tokens(S, f) <=> \E o \in S : c \in {o} \X (1..f[o])
  BY DEF Tokens

LEMMA TokensOfOne ==
  ASSUME NEW o, NEW n \in Nat
  PROVE  IsFiniteSet({o} \X (1..n)) /\ Cardinality({o} \X (1..n)) = n
<1>1. IsFiniteSet({o}) /\ Cardinality({o}) = 1
  BY FS_Singleton
<1>2. IsFiniteSet(1..n) /\ Cardinality(1..n) = n
  <2>1. IsFiniteSet(1..n) /\ Cardinality(1..n) = IF 1 > n THEN 0 ELSE n - 1 + 1
    BY FS_Interval
  <2>2. QED
    BY <2>1
<1> DEFINE A == {o}
           B == 1..n
<1> HIDE DEF A, B
<1>3. IsFiniteSet(A \X B) /\ Cardinality(A \X B) = Cardinality(A) * Cardinality(B)
  BY <1>1, <1>2, FS_Product DEF A, B
<1>4. Cardinality(A) = 1 /\ Cardinality(B) = n
  BY <1>1, <1>2 DEF A, B
<1>5. Cardinality(A \X B) = n
  BY <1>3, <1>4
<1>6. QED
  BY <1>3, <1>5 DEF A, B

LEMMA TokensAreFinite ==
  ASSUME NEW S, IsFiniteSet(S), NEW f, \A o \in S : f[o] \in Nat
  PROVE  IsFiniteSet(Tokens(S, f)) /\ Tally(S, f) \in Nat
<1> DEFINE of == [o \in S |-> {o} \X (1..f[o])]
           T == {{o} \X (1..f[o]) : o \in S}
<1>1. IsFiniteSet(T)
  <2>1. of \in Surjection(S, T)
    BY DEF Surjection
  <2>2. QED
    BY <2>1, FS_Surjection
<1>2. \A o \in S : IsFiniteSet({o} \X (1..f[o]))
  BY TokensOfOne
<1>3. IsFiniteSet(UNION T)
  <2>1. \A A \in T : IsFiniteSet(A)
    BY <1>2
  <2> HIDE DEF T
  <2>2. QED
    BY <1>1, <2>1, FS_UNION
<1>4. QED
  BY <1>3, FS_CardinalityType DEF Tokens, Tally, T

LEMMA TallySame ==
  ASSUME NEW S, NEW f, NEW g, \A o \in S : f[o] = g[o]
  PROVE  Tally(S, f) = Tally(S, g)
<1>1. \A c : c \in Tokens(S, f) <=> c \in Tokens(S, g)
  BY TokenOf
<1>2. Tokens(S, f) = Tokens(S, g)
  BY <1>1
<1>3. QED
  BY <1>2 DEF Tally

LEMMA TallyNothing ==
  ASSUME NEW S, NEW f, \A o \in S : f[o] = 0
  PROVE  Tally(S, f) = 0
<1>1. \A c : c \notin Tokens(S, f)
  BY TokenOf
<1>2. Tokens(S, f) = {}
  BY <1>1
<1>3. QED
  BY <1>2, FS_EmptySet DEF Tally

LEMMA TallySplit ==
  ASSUME NEW S, IsFiniteSet(S), NEW f, \A o \in S : f[o] \in Nat, NEW p \in S
  PROVE  /\ Tally(S \ {p}, f) \in Nat
         /\ Tally(S, f) = Tally(S \ {p}, f) + f[p]
<1> DEFINE A == Tokens(S \ {p}, f)
           B == {p} \X (1..f[p])
<1>1. IsFiniteSet(S \ {p})
  BY FS_Subset, S \ {p} \in SUBSET S
<1>2. IsFiniteSet(A) /\ Cardinality(A) \in Nat
  BY <1>1, TokensAreFinite DEF Tally
<1>3. IsFiniteSet(B) /\ Cardinality(B) = f[p]
  BY TokensOfOne
<1>4. A \cap B = {}
  <2>1. \A c : c \in A => \E o \in S \ {p} : c \in {o} \X (1..f[o])
    BY TokenOf
  <2>2. \A c \in B : c[1] = p
    OBVIOUS
  <2>3. \A c \in A : c[1] # p
    BY <2>1
  <2>4. QED
    BY <2>2, <2>3
<1>5. Tokens(S, f) = A \cup B
  <2>1. \A c : c \in Tokens(S, f) <=> \E o \in S : c \in {o} \X (1..f[o])
    BY TokenOf
  <2>2. \A c : c \in A <=> \E o \in S \ {p} : c \in {o} \X (1..f[o])
    BY TokenOf
  <2> HIDE DEF A
  <2>3. QED
    BY <2>1, <2>2
<1>6. Cardinality(A \cup B) = Cardinality(A) + Cardinality(B) - Cardinality(A \cap B)
  BY <1>2, <1>3, FS_Union
<1>7. Cardinality(A \cap B) = 0
  BY <1>4, FS_EmptySet
<1> HIDE DEF A, B
<1>8. f[p] \in Nat
  OBVIOUS
<1>9. Cardinality(A \cup B) = Cardinality(A) + f[p]
  BY <1>2, <1>3, <1>6, <1>7, <1>8
<1>10. QED
  BY <1>2, <1>5, <1>9 DEF Tally, A

FillsOf(S, v) == Cardinality(UNION {{o} \X (1..v[o].filled) : o \in S})

LEMMA FillsOfIsATally ==
  ASSUME NEW S, NEW v
  PROVE  FillsOf(S, v) = Tally(S, [o \in S |-> v[o].filled])
<1> DEFINE f == [o \in S |-> v[o].filled]
<1>1. {{o} \X (1..v[o].filled) : o \in S} = {{o} \X (1..f[o]) : o \in S}
  OBVIOUS
<1>2. QED
  BY <1>1 DEF FillsOf, Tally, Tokens

LEMMA FillsOfRows ==
  ASSUME NEW v, NEW S, IsFiniteSet(S), \A o \in S : v[o].filled \in Nat
  PROVE  FillsOf(S, v) \in Nat
  BY FillsOfIsATally, TokensAreFinite

LEMMA FillsOfSame ==
  ASSUME NEW v, NEW w, NEW S, \A o \in S : v[o].filled = w[o].filled
  PROVE  FillsOf(S, v) = FillsOf(S, w)
<1>1. \A o \in S : [p \in S |-> v[p].filled][o] = [p \in S |-> w[p].filled][o]
  OBVIOUS
<1>2. QED
  BY <1>1, FillsOfIsATally, TallySame

LEMMA FillsOfNone ==
  ASSUME NEW v, NEW S, \A o \in S : v[o].filled = 0
  PROVE  FillsOf(S, v) = 0
<1>1. \A o \in S : [p \in S |-> v[p].filled][o] = 0
  OBVIOUS
<1>2. QED
  BY <1>1, FillsOfIsATally, TallyNothing

LEMMA FillsOfSplit ==
  ASSUME NEW v, NEW S, IsFiniteSet(S), \A o \in S : v[o].filled \in Nat, NEW p \in S
  PROVE  /\ FillsOf(S \ {p}, v) \in Nat
         /\ FillsOf(S, v) = FillsOf(S \ {p}, v) + v[p].filled
<1> DEFINE f == [o \in S |-> v[o].filled]
           g == [o \in S \ {p} |-> v[o].filled]
<1>1. FillsOf(S, v) = Tally(S, f) /\ FillsOf(S \ {p}, v) = Tally(S \ {p}, g)
  BY FillsOfIsATally
<1>2. \A o \in S \ {p} : f[o] = g[o]
  OBVIOUS
<1>3. (\A o \in S : f[o] \in Nat) /\ f[p] = v[p].filled
  OBVIOUS
<1> HIDE DEF f, g
<1>4. Tally(S \ {p}, f) = Tally(S \ {p}, g)
  BY <1>2, TallySame
<1>5. QED
  BY <1>1, <1>3, <1>4, TallySplit

(* One order fills.                                                        *)
LEMMA FillsOfOneMore ==
  ASSUME NEW v, NEW w, NEW S, IsFiniteSet(S), NEW p \in S,
         \A o \in S : v[o].filled \in Nat /\ w[o].filled \in Nat,
         \A o \in S : o # p => w[o].filled = v[o].filled, v[p].filled = 0
  PROVE  FillsOf(S, w) = FillsOf(S, v) + w[p].filled
<1>1. FillsOf(S, v) = FillsOf(S \ {p}, v) + v[p].filled /\ FillsOf(S \ {p}, v) \in Nat
  BY FillsOfSplit
<1>2. FillsOf(S, w) = FillsOf(S \ {p}, w) + w[p].filled
  BY FillsOfSplit
<1>3. FillsOf(S \ {p}, w) = FillsOf(S \ {p}, v)
  BY FillsOfSame
<1>4. QED
  BY <1>1, <1>2, <1>3

(* A new order has not filled.                                             *)
LEMMA FillsOfNewOrder ==
  ASSUME NEW v, NEW w, NEW S, IsFiniteSet(S), NEW p, p \notin S,
         \A o \in S : v[o].filled \in Nat /\ w[o].filled = v[o].filled, w[p].filled = 0
  PROVE  FillsOf(S \cup {p}, w) = FillsOf(S, v)
<1>1. IsFiniteSet(S \cup {p})
  BY FS_AddElement
<1>2. FillsOf(S \cup {p}, w) = FillsOf((S \cup {p}) \ {p}, w) + w[p].filled
      /\ FillsOf((S \cup {p}) \ {p}, w) \in Nat
  BY <1>1, FillsOfSplit, \A o \in S \cup {p} : w[o].filled \in Nat
<1>3. (S \cup {p}) \ {p} = S
  OBVIOUS
<1>4. FillsOf(S, w) = FillsOf(S, v)
  BY FillsOfSame
<1>5. FillsOf(S \cup {p}, w) = FillsOf(S, w) + 0 /\ FillsOf(S, w) \in Nat
  BY <1>2, <1>3
<1>6. QED
  BY <1>4, <1>5

-----------------------------------------------------------------------------
(* The second layer of the invariant.                                      *)

LEMMA RowsAreFinite ==
  ASSUME LiveInv, NEW S \in SUBSET Rows
  PROVE  IsFiniteSet(S)
<1>1. IsFiniteSet(Rows)
  BY FS_Interval DEF LiveInv, TypeOK, Rows
<1>2. QED
  BY <1>1, FS_Subset

LEMMA OrderType ==
  ASSUME LiveInv, NEW o \in Rows
  PROVE  /\ journal[o] \in Row /\ venue[o] \in VenueOrder
         /\ journal[o].count \in Nat /\ journal[o].filled \in Nat
         /\ journal[o].market \in Markets /\ venue[o].filled \in Nat
<1>1. journal[o] \in Row /\ venue[o] \in VenueOrder
  BY DEF LiveInv, TypeOK, Rows
<1>2. QED
  BY <1>1 DEF Row, VenueOrder

LEMMA FilledType ==
  ASSUME LiveInv, NEW S \in SUBSET Rows
  PROVE  Filled(S) \in Nat
<1>1. \A o \in S : venue[o].filled \in Nat
  BY OrderType
<1>2. Filled(S) = FillsOf(S, venue)
  BY DEF Filled, FillsOf
<1>3. QED
  BY <1>1, <1>2, RowsAreFinite, FillsOfRows

LEMMA FilledPrimed == \A S : Filled(S)' = FillsOf(S', venue')
  BY DEF Filled, FillsOf

LEMMA FilledNow == \A S : Filled(S) = FillsOf(S, venue)
  BY DEF Filled, FillsOf

(* Steps that leave the orders alone.                                      *)
LEMMA BooksUntouched ==
  ASSUME Books, UNCHANGED <<journal, venue, position>>
  PROVE  Books' /\ Rows' = Rows /\ \A m : Consuming(m)' = Consuming(m)
<1>1. Rows' = Rows
  BY DEF Rows
<1>2. \A m, a : BotRows(m, a)' = BotRows(m, a)
  BY <1>1 DEF BotRows
<1>3. \A m : Consuming(m)' = Consuming(m)
  BY <1>2 DEF Consuming
<1>4. \A m, n : Covered(m, n)' = Covered(m, n)
  BY <1>2, FilledPrimed, FilledNow DEF Covered
<1>5. OneInFlight' /\ SaleFits' /\ SentIsConsumed'
  BY <1>1 DEF Books, OneInFlight, SaleFits, SentIsConsumed, AtExchange
<1>6. AttemptsAllowed'
  BY <1>3 DEF Books, AttemptsAllowed
<1>7. SalesOwned'
  BY <1>2, <1>4 DEF Books, SalesOwned, AtExchange
<1>8. QED
  BY <1>1, <1>3, <1>5, <1>6, <1>7 DEF Books

SameWork(u) ==
  /\ thread'[u].pc = thread[u].pc /\ thread'[u].order = thread[u].order
  /\ thread'[u].row = thread[u].row /\ thread'[u].held = thread[u].held

LEMMA SoundUntouched ==
  ASSUME NEW u \in Threads, Sound(u), SameWork(u), UNCHANGED <<journal, venue, position>>
  PROVE  Sound(u)'
<1>1. Rows' = Rows
  BY DEF Rows
<1>2. \A m, a : BotRows(m, a)' = BotRows(m, a)
  BY <1>1 DEF BotRows
<1>3. \A m : Consuming(m)' = Consuming(m)
  BY <1>2 DEF Consuming
<1>4. \A m, n : Covered(m, n)' = Covered(m, n)
  BY <1>2, FilledPrimed, FilledNow DEF Covered
<1>5. ReadIsTrue(u)' /\ CopyIsCurrent(u)' /\ RejectedIsDropped(u)'
  BY DEF Sound, SameWork, ReadIsTrue, CopyIsCurrent, RejectedIsDropped
<1>6. AttemptLeft(u)'
  BY <1>3 DEF Sound, SameWork, AttemptLeft
<1>7. StopOwned(u)'
  BY <1>1, <1>4 DEF Sound, SameWork, StopOwned, IsStop, AtExchange
<1>8. QED
  BY <1>5, <1>6, <1>7 DEF Sound

LEMMA SoundIdle ==
  ASSUME NEW u \in Threads, thread'[u].pc = "idle"
  PROVE  Sound(u)'
  BY DEF Sound, ReadIsTrue, CopyIsCurrent, RejectedIsDropped, AttemptLeft, StopOwned, BeforePost,
         Copying, Pending

(* One coroutine moves along and the orders stay as they are.              *)
LEMMA MoveCounts ==
  ASSUME LiveInv, CountInv, NEW t \in Threads, NEW y, thread' = [thread EXCEPT ![t] = y],
         UNCHANGED <<journal, venue, position>>, Sound(t)'
  PROVE  CountInv'
<1>1. \A u \in Threads : u # t => SameWork(u)
  BY DEF SameWork, LiveInv, TypeOK
<1>2. \A u \in Threads : Sound(u)'
  BY <1>1, SoundUntouched DEF CountInv
<1>3. QED
  BY <1>2, BooksUntouched DEF CountInv

(* A coroutine writes its row back: before the POST as it likes, after it  *)
(* with the count and the index of the row in the journal.                 *)
Writes(t, r) ==
  LET o == thread[t].order IN
  /\ thread[t].pc \notin {"idle", "queued"}
  /\ r \in Row /\ SameOrder(r, journal[o])
  /\ \/ thread[t].pc \in BeforePost
     \/ /\ thread[t].pc \in Copying
        /\ r.count = journal[o].count /\ r.indexed
        /\ r.state = "rejected" => venue[o].phase # "none"
  /\ venue[o].phase # "none" => ConsumesEntryAttempt(r)
  /\ journal' = [journal EXCEPT ![o] = r]
  /\ UNCHANGED <<venue, position>>

LEMMA WriteEffect ==
  ASSUME LiveInv, CountInv, NEW t \in Threads, NEW r, Writes(t, r),
         NEW o, o = thread[t].order
  PROVE  /\ o \in Rows /\ journal'[o] = r /\ Rows' = Rows
         /\ \A p \in Rows : p # o => journal'[p] = journal[p]
         /\ \A p \in Rows : SameOrder(journal'[p], journal[p])
         /\ \A m, a : BotRows(m, a)' = BotRows(m, a)
         /\ \A m, n : Covered(m, n)' = Covered(m, n)
         /\ \A m : Consuming(m)' \subseteq Consuming(m)
         /\ thread[t].pc \in BeforePost => ~AtExchange(o)
<1>1. o \in Rows
  BY DEF Writes, LiveInv, OwnCopy
<1>2. journal'[o] = r /\ Rows' = Rows /\ \A p \in Rows : p # o => journal'[p] = journal[p]
  BY <1>1 DEF Writes, LiveInv, TypeOK, Rows
<1>3. \A p \in Rows : SameOrder(journal'[p], journal[p])
  BY <1>1, <1>2 DEF Writes, SameOrder
<1>4. \A m, a : BotRows(m, a)' = BotRows(m, a)
  BY <1>2, <1>3 DEF BotRows, SameOrder
<1>5. \A m, n : Covered(m, n)' = Covered(m, n)
  BY <1>4, FilledPrimed, FilledNow DEF Covered, Writes
<1>6. ConsumesEntryAttempt(journal[o])
  <2>1. CASE venue[o].phase = "none"
    BY <2>1 DEF CountInv, Sound, RejectedIsDropped, Writes, ConsumesEntryAttempt
  <2>2. CASE venue[o].phase # "none"
    BY <1>1, <2>2 DEF CountInv, Books, SentIsConsumed
  <2>3. QED
    BY <2>1, <2>2
<1>7. \A m : Consuming(m)' \subseteq Consuming(m)
  <2>1. ASSUME NEW m, NEW p \in Consuming(m)' PROVE p \in Consuming(m)
    <3>1. p \in BotRows(m, "buy") /\ p \in Rows
      BY <1>4 DEF Consuming, BotRows
    <3>2. CASE p = o
      BY <1>6, <3>1, <3>2 DEF Consuming
    <3>3. CASE p # o
      <4>1. journal'[p] = journal[p]
        BY <1>2, <3>1, <3>3
      <4>2. ConsumesEntryAttempt(journal'[p])
        BY DEF Consuming
      <4>3. QED
        BY <3>1, <4>1, <4>2 DEF Consuming
    <3>4. QED
      BY <3>2, <3>3
  <2>2. QED
    BY <2>1
<1>8. thread[t].pc \in BeforePost => ~AtExchange(o)
  BY DEF LiveInv, Unposted, AtExchange
<1>9. QED
  BY <1>1, <1>2, <1>3, <1>4, <1>5, <1>7, <1>8

LEMMA FewerAttempts ==
  ASSUME LiveInv, NEW m, NEW n \in Nat, NEW S, S \subseteq Consuming(m),
         Cardinality(Consuming(m)) <= n
  PROVE  Cardinality(S) <= n
<1>1. Consuming(m) \subseteq Rows
  BY DEF Consuming, BotRows
<1>2. IsFiniteSet(Consuming(m)) /\ IsFiniteSet(S)
  BY <1>1, RowsAreFinite
<1>3. Cardinality(S) <= Cardinality(Consuming(m))
  BY <1>2, FS_Subset
<1>4. Cardinality(S) \in Nat /\ Cardinality(Consuming(m)) \in Nat
  BY <1>2, FS_CardinalityType
<1>5. QED
  BY <1>3, <1>4

LEMMA WriteBooks ==
  ASSUME LiveInv, CountInv, NEW t \in Threads, NEW r, Writes(t, r)
  PROVE  Books'
<1> DEFINE o == thread[t].order
<1>1. /\ o \in Rows /\ journal'[o] = r /\ Rows' = Rows
      /\ \A p \in Rows : p # o => journal'[p] = journal[p]
      /\ \A p \in Rows : SameOrder(journal'[p], journal[p])
      /\ \A m, a : BotRows(m, a)' = BotRows(m, a)
      /\ \A m, n : Covered(m, n)' = Covered(m, n)
      /\ \A m : Consuming(m)' \subseteq Consuming(m)
      /\ thread[t].pc \in BeforePost => ~AtExchange(o)
  BY WriteEffect
<1>2. venue' = venue /\ position' = position
  BY DEF Writes
<1>3. \A p \in Rows : AtExchange(p)' <=> AtExchange(p)
  BY <1>2 DEF AtExchange
<1>4. \A p \in Rows : AtExchange(p) => journal'[p].count = journal[p].count
  BY <1>1 DEF Writes
<1>5. OneInFlight'
  BY <1>1, <1>3 DEF CountInv, Books, OneInFlight, SameOrder
<1>6. SaleFits'
  BY <1>1, <1>2, <1>3, <1>4 DEF CountInv, Books, SaleFits, SameOrder
<1>7. SentIsConsumed'
  BY <1>1, <1>2 DEF CountInv, Books, SentIsConsumed, Writes
<1>8. AttemptsAllowed'
  <2>1. Retries + 1 \in Nat
    BY LiveAssumption
  <2>2. \A m \in Markets : Cardinality(Consuming(m)') <= Retries + 1
    BY <1>1, <2>1, FewerAttempts DEF CountInv, Books, AttemptsAllowed
  <2>3. QED
    BY <2>2 DEF AttemptsAllowed
<1>9. SalesOwned'
  <2>1. \A m : BotRows(m, "sell") \subseteq Rows
    BY BotRowsAreRows
  <2>2. QED
    BY <1>1, <1>3, <1>4, <2>1 DEF CountInv, Books, SalesOwned
<1>10. QED
  BY <1>5, <1>6, <1>7, <1>8, <1>9 DEF Books

LEMMA WriteSound ==
  ASSUME LiveInv, CountInv, NEW t \in Threads, NEW r, Writes(t, r),
         NEW u \in Threads, u # t, thread'[u] = thread[u]
  PROVE  Sound(u)'
<1> DEFINE o == thread[t].order
           p == thread[u].order
<1>1. /\ o \in Rows /\ journal'[o] = r /\ Rows' = Rows
      /\ \A q \in Rows : q # o => journal'[q] = journal[q]
      /\ \A q \in Rows : SameOrder(journal'[q], journal[q])
      /\ \A m, n : Covered(m, n)' = Covered(m, n)
      /\ \A m : Consuming(m)' \subseteq Consuming(m)
  BY WriteEffect
<1>2. venue' = venue /\ position' = position
  BY DEF Writes
<1>3. Sound(u) /\ Sound(t)
  BY DEF CountInv
<1>4. thread[u].pc \notin {"idle", "queued"} => p \in Rows
  BY DEF LiveInv, OwnCopy
<1>5. ~(thread[u].pc \in BeforePost /\ thread[t].pc \in BeforePost)
  BY DEF LiveInv, SlotExclusive, InSlot, SlotPlaces, BeforePost
<1>6. thread[u].pc \in BeforePost => p # o
  BY <1>3, <1>5 DEF Writes, Sound, CopyIsCurrent
<1>7. thread[u].pc \in Copying /\ p = o => thread[t].pc \in Copying
  BY <1>3 DEF Writes, Sound, CopyIsCurrent
<1>8. ReadIsTrue(u)'
  BY <1>2, <1>3 DEF Sound, ReadIsTrue
<1>9. CopyIsCurrent(u)'
  <2>1. thread[u].pc \in BeforePost => ~journal'[p].indexed
    BY <1>1, <1>3, <1>4, <1>6 DEF Sound, CopyIsCurrent, BeforePost
  <2>2. thread[u].pc \in Copying =>
          /\ thread[u].row.indexed /\ journal'[p].indexed
          /\ thread[u].row.count = journal'[p].count
    <3>1. CASE p = o
      BY <1>1, <1>3, <1>7, <3>1 DEF Sound, CopyIsCurrent, Writes, BeforePost, Copying
    <3>2. CASE p # o
      BY <1>1, <1>3, <1>4, <3>2 DEF Sound, CopyIsCurrent, Copying
    <3>3. QED
      BY <3>1, <3>2
  <2>3. thread[u].pc = "queued" /\ thread[u].order = 0 => ~thread[u].row.indexed
    BY <1>3 DEF Sound, CopyIsCurrent
  <2>4. QED
    BY <2>1, <2>2, <2>3 DEF CopyIsCurrent
<1>10. RejectedIsDropped(u)'
  <2>1. ASSUME thread[u].pc \notin {"idle", "queued"}, venue[p].phase = "none"
        PROVE  journal'[p].state # "rejected"
    <3>1. CASE p = o
      <4>1. thread[u].pc \in BeforePost \cup Copying
        BY <2>1 DEF LiveInv, TypeOK, Thread, Places, SlotPlaces, BeforePost, Copying
      <4>2. thread[t].pc \in Copying
        BY <1>6, <1>7, <3>1, <4>1
      <4>3. QED
        BY <1>1, <2>1, <3>1, <4>2 DEF Writes, BeforePost, Copying
    <3>2. CASE p # o
      BY <1>1, <1>3, <1>4, <2>1, <3>2 DEF Sound, RejectedIsDropped
    <3>3. QED
      BY <3>1, <3>2
  <2>2. QED
    BY <1>2, <1>3, <2>1 DEF Sound, RejectedIsDropped
<1>11. AttemptLeft(u)'
  <2>1. Retries \in Nat
    BY LiveAssumption
  <2>2. ASSUME thread[u].pc = "queued", thread[u].row.bot, thread[u].row.action = "buy"
        PROVE  Cardinality(Consuming(thread[u].row.market)') <= Retries
    <3>1. Cardinality(Consuming(thread[u].row.market)) <= Retries
      BY <1>3, <2>2 DEF Sound, AttemptLeft
    <3>2. QED
      BY <1>1, <2>1, <3>1, FewerAttempts
  <2>3. QED
    BY <2>2 DEF AttemptLeft
<1>12. StopOwned(u)'
  <2>1. IsStop(u)' <=> IsStop(u)
    BY DEF IsStop
  <2>2. \A q \in Rows : AtExchange(q)' <=> AtExchange(q)
    BY <1>2 DEF AtExchange
  <2>3. QED
    BY <1>1, <1>3, <2>1, <2>2 DEF Sound, StopOwned, SameOrder
<1>13. QED
  BY <1>8, <1>9, <1>10, <1>11, <1>12 DEF Sound

LEMMA RowStateKeeps ==
  ASSUME NEW r \in Row, NEW s \in States
  PROVE  LET q == [r EXCEPT !.state = s]
         IN  /\ q \in Row /\ SameOrder(q, r) /\ q.state = s /\ q.count = r.count
             /\ q.indexed = r.indexed /\ q.submitted = r.submitted
  BY DEF Row, States, SameOrder

LEMMA RowAckedKeeps ==
  ASSUME NEW r \in Row
  PROVE  LET q == [r EXCEPT !.state = "accepted", !.acked = TRUE]
         IN  /\ q \in Row /\ SameOrder(q, r) /\ q.state = "accepted" /\ q.count = r.count
             /\ q.indexed = r.indexed
  BY DEF Row, UNRESOLVED, SameOrder

LEMMA RowReconciledKeeps ==
  ASSUME NEW r \in Row, NEW s \in States, NEW n \in Nat
  PROVE  LET q == [r EXCEPT !.state = s, !.filled = n, !.acked = TRUE]
         IN  /\ q \in Row /\ SameOrder(q, r) /\ q.state = s /\ q.count = r.count
             /\ q.indexed = r.indexed
  BY DEF Row, States, SameOrder

(* A handler that ends with its row written.                               *)
LEMMA EndCounts ==
  ASSUME LiveInv, CountInv, NEW t \in Threads, NEW r, Writes(t, r),
         thread' = [thread EXCEPT ![t] = Idle]
  PROVE  CountInv'
<1>1. thread'[t].pc = "idle" /\ \A u \in Threads : u # t => thread'[u] = thread[u]
  BY IdleType DEF LiveInv, TypeOK
<1>2. \A u \in Threads : Sound(u)'
  BY <1>1, SoundIdle, WriteSound
<1>3. QED
  BY <1>2, WriteBooks DEF CountInv

LEMMA OwnRow ==
  ASSUME LiveInv, CountInv, NEW t \in Threads, thread[t].pc \notin {"idle", "queued"}
  PROVE  /\ thread[t].row \in Row /\ thread[t].order \in Rows
         /\ SameOrder(thread[t].row, journal[thread[t].order])
         /\ thread[t].pc \in Copying => 
              /\ thread[t].row.count = journal[thread[t].order].count /\ thread[t].row.indexed
  BY DEF LiveInv, OwnCopy, CountInv, Sound, CopyIsCurrent

(* What a handler writes at its end keeps the terms of the order.           *)
LEMMA HandlersWrite ==
  ASSUME LiveInv, CountInv, NEW t \in Threads,
         PreflightFails(t) \/ PreflightRejects(t) \/ Refused(t) \/ Unconfirmed(t) \/ Reconcile(t)
  PROVE  (\E r : Writes(t, r)) /\ thread' = [thread EXCEPT ![t] = Idle]
<1> DEFINE o == thread[t].order
           row == thread[t].row
<1>1. thread[t].pc \notin {"idle", "queued"} /\ UNCHANGED <<venue, position>>
      /\ thread' = [thread EXCEPT ![t] = Idle]
  BY DEF PreflightFails, PreflightRejects, Refused, Unconfirmed, Reconcile, Finish, Become
<1>2. /\ row \in Row /\ o \in Rows /\ SameOrder(row, journal[o])
      /\ thread[t].pc \in Copying => row.count = journal[o].count /\ row.indexed
  BY <1>1, OwnRow
<1>3. \A x \in States :
        LET q == [row EXCEPT !.state = x]
        IN  /\ q \in Row /\ SameOrder(q, row) /\ q.state = x /\ q.count = row.count
            /\ q.indexed = row.indexed /\ q.submitted = row.submitted
  BY <1>2, RowStateKeeps
<1>4. CASE PreflightFails(t)
  <2> DEFINE r == [row EXCEPT !.state = "rejected"]
  <2>1. r \in Row /\ SameOrder(r, row)
    BY <1>3 DEF States
  <2>2. SameOrder(r, journal[o])
    BY <1>2, <2>1, SameOrderTransitive
  <2>3. journal' = [journal EXCEPT ![o] = r] /\ thread[t].pc \in BeforePost
    BY <1>4 DEF PreflightFails, Rejected, Finish, Save, BeforePost
  <2>4. venue[o].phase = "none"
    BY <2>3 DEF LiveInv, Unposted
  <2> HIDE DEF r
  <2>5. Writes(t, r)
    BY <1>1, <2>1, <2>2, <2>3, <2>4 DEF Writes
  <2>6. QED
    BY <1>1, <2>5
<1>5. CASE PreflightRejects(t)
  <2> DEFINE sized == Sized(row, thread[t].held)
             allowed == HoldingsAllow(sized, thread[t].held)
             r == [sized EXCEPT !.state = "rejected", !.indexed = allowed]
  <2>1. sized \in Row /\ SameOrder(sized, row)
    BY <1>2, <1>5, RowSized DEF LiveInv, PreflightRejects, TypeOK, Thread
  <2>2. allowed \in BOOLEAN
    BY DEF HoldingsAllow
  <2>3. r \in Row /\ SameOrder(r, sized)
    BY <2>1, <2>2 DEF Row, SameOrder
  <2>4. SameOrder(r, journal[o])
    BY <1>2, <2>1, <2>3 DEF SameOrder
  <2>5. journal' = [journal EXCEPT ![o] = r] /\ thread[t].pc \in BeforePost
    BY <1>5 DEF PreflightRejects, Finish, Save, BeforePost
  <2>6. venue[o].phase = "none"
    BY <2>5 DEF LiveInv, Unposted
  <2> HIDE DEF r
  <2>7. Writes(t, r)
    BY <1>1, <2>3, <2>4, <2>5, <2>6 DEF Writes
  <2>8. QED
    BY <1>1, <2>7
<1>6. CASE Refused(t)
  <2> DEFINE r == [row EXCEPT !.state = "rejected"]
  <2>1. /\ r \in Row /\ SameOrder(r, row) /\ r.count = row.count
        /\ r.indexed = row.indexed /\ r.submitted = row.submitted
    BY <1>3 DEF States
  <2>2. SameOrder(r, journal[o])
    BY <1>2, <2>1, SameOrderTransitive
  <2>3. journal' = [journal EXCEPT ![o] = r] /\ thread[t].pc = "posting"
        /\ venue[o].phase # "none"
    BY <1>6 DEF Refused, Rejected, Finish, Save
  <2>4. row.submitted
    BY <2>3 DEF CountInv, Sound, RejectedIsDropped
  <2> HIDE DEF r
  <2>5. ConsumesEntryAttempt(r)
    BY <2>1, <2>4 DEF ConsumesEntryAttempt
  <2>6. Writes(t, r)
    BY <1>1, <1>2, <2>1, <2>2, <2>3, <2>5 DEF Writes, Copying
  <2>7. QED
    BY <1>1, <2>6
<1>7. CASE Unconfirmed(t)
  <2> DEFINE r == [row EXCEPT !.state = "unknown"]
  <2>1. /\ r \in Row /\ SameOrder(r, row) /\ r.count = row.count
        /\ r.indexed = row.indexed /\ r.state = "unknown"
    BY <1>3 DEF States, UNRESOLVED
  <2>2. SameOrder(r, journal[o])
    BY <1>2, <2>1, SameOrderTransitive
  <2>3. journal' = [journal EXCEPT ![o] = r] /\ thread[t].pc \in Copying
    BY <1>7 DEF Unconfirmed, Finish, Save, Copying
  <2> HIDE DEF r
  <2>4. ConsumesEntryAttempt(r)
    BY <2>1 DEF ConsumesEntryAttempt
  <2>5. Writes(t, r)
    BY <1>1, <1>2, <2>1, <2>2, <2>3, <2>4 DEF Writes
  <2>6. QED
    BY <1>1, <2>5
<1>8. CASE Reconcile(t)
  <2> DEFINE state == IF thread[t].seen.phase = "done" THEN "complete" ELSE "accepted"
             n == thread[t].seen.filled
             r == [row EXCEPT !.state = state, !.filled = n, !.acked = TRUE]
  <2>1. n \in Nat /\ state \in States /\ state # "rejected"
    BY <1>8 DEF LiveInv, Reconcile, TypeOK, Thread, VenueOrder, States, UNRESOLVED
  <2>2. journal' = [journal EXCEPT ![o] = r] /\ thread[t].pc \in Copying
    BY <1>8 DEF Reconcile, Finish, Save, Copying
  <2> HIDE DEF state, n
  <2>3. /\ r \in Row /\ SameOrder(r, row) /\ r.count = row.count
        /\ r.indexed = row.indexed /\ r.state = state
    <3>1. \A s \in States, k \in Nat :
            LET q == [row EXCEPT !.state = s, !.filled = k, !.acked = TRUE]
            IN  /\ q \in Row /\ SameOrder(q, row) /\ q.state = s /\ q.count = row.count
                /\ q.indexed = row.indexed
      BY <1>2, RowReconciledKeeps
    <3>2. QED
      BY <2>1, <3>1
  <2> HIDE DEF r
  <2>4. SameOrder(r, journal[o])
    BY <1>2, <2>3, SameOrderTransitive
  <2>5. ConsumesEntryAttempt(r)
    BY <2>1, <2>3 DEF ConsumesEntryAttempt
  <2>6. Writes(t, r)
    BY <1>1, <1>2, <2>1, <2>2, <2>3, <2>4, <2>5 DEF Writes
  <2>7. QED
    BY <1>1, <2>6
<1>9. QED
  BY <1>4, <1>5, <1>6, <1>7, <1>8

LEMMA HandlersCount ==
  ASSUME LiveInv, CountInv, NEW t \in Threads,
         PreflightFails(t) \/ PreflightRejects(t) \/ Refused(t) \/ Unconfirmed(t) \/ Reconcile(t)
  PROVE  CountInv'
  BY HandlersWrite, EndCounts

LEMMA AcknowledgedWrites ==
  ASSUME LiveInv, CountInv, NEW t \in Threads, Acknowledged(t)
  PROVE  \E r, y :
           /\ r \in Row /\ Writes(t, r) /\ ConsumesEntryAttempt(r)
           /\ r.count = journal[thread[t].order].count /\ r.indexed
           /\ thread' = [thread EXCEPT ![t] = y]
           /\ y.pc = "acked" /\ y.order = thread[t].order /\ y.row = r
           /\ venue[thread[t].order].phase # "none"
<1> DEFINE o == thread[t].order
           row == thread[t].row
           r == [row EXCEPT !.state = "accepted", !.acked = TRUE]
           y == [thread[t] EXCEPT !.pc = "acked", !.row = r]
<1>1. thread[t].pc = "posting" /\ UNCHANGED <<venue, position>>
      /\ journal' = [journal EXCEPT ![o] = r] /\ thread' = [thread EXCEPT ![t] = y]
      /\ venue[o].phase # "none"
  BY DEF Acknowledged, Save, Become
<1>2. /\ row \in Row /\ o \in Rows /\ SameOrder(row, journal[o])
      /\ row.count = journal[o].count /\ row.indexed
  BY <1>1, OwnRow DEF Copying
<1>3. /\ r \in Row /\ SameOrder(r, row) /\ r.count = row.count
      /\ r.indexed = row.indexed /\ r.state = "accepted"
  BY <1>2, RowAckedKeeps
<1> HIDE DEF r
<1>4. y.pc = "acked" /\ y.order = o /\ y.row = r
  BY DEF LiveInv, TypeOK, Thread
<1> HIDE DEF y
<1>5. SameOrder(r, journal[o])
  BY <1>2, <1>3, SameOrderTransitive
<1>6. ConsumesEntryAttempt(r)
  BY <1>3 DEF ConsumesEntryAttempt
<1>7. Writes(t, r)
  BY <1>1, <1>2, <1>3, <1>5, <1>6 DEF Writes, Copying
<1>8. QED
  BY <1>1, <1>2, <1>3, <1>4, <1>6, <1>7

LEMMA AcknowledgedCounts ==
  ASSUME LiveInv, CountInv, NEW t \in Threads, Acknowledged(t)
  PROVE  CountInv'
<1> DEFINE o == thread[t].order
<1>1. PICK r, y :
        /\ r \in Row /\ Writes(t, r) /\ ConsumesEntryAttempt(r)
        /\ r.count = journal[o].count /\ r.indexed
        /\ thread' = [thread EXCEPT ![t] = y]
        /\ y.pc = "acked" /\ y.order = o /\ y.row = r
        /\ venue[o].phase # "none"
  BY AcknowledgedWrites
<1>2. thread'[t] = y /\ \A u \in Threads : u # t => thread'[u] = thread[u]
  BY <1>1 DEF LiveInv, TypeOK
<1>3. \A u \in Threads : u # t => Sound(u)'
  BY <1>1, <1>2, WriteSound
<1>4. journal'[o] = r /\ venue' = venue
  <2>1. journal'[o] = r
    BY <1>1, WriteEffect
  <2>2. QED
    BY <1>1, <2>1 DEF Writes
<1>5. Sound(t)'
  <2>1. thread'[t].pc = "acked" /\ thread'[t].order = o /\ thread'[t].row = r
    BY <1>1, <1>2
  <2>2. CopyIsCurrent(t)'
    BY <1>1, <1>4, <2>1 DEF CopyIsCurrent, BeforePost, Copying
  <2>3. RejectedIsDropped(t)'
    BY <1>1, <1>4, <2>1 DEF RejectedIsDropped
  <2>4. ReadIsTrue(t)' /\ AttemptLeft(t)' /\ StopOwned(t)'
    BY <2>1 DEF ReadIsTrue, AttemptLeft, StopOwned, Pending
  <2>5. QED
    BY <2>2, <2>3, <2>4 DEF Sound
<1>6. QED
  BY <1>1, <1>3, <1>5, WriteBooks DEF CountInv

LEMMA ReadPositionCounts ==
  ASSUME LiveInv, CountInv, NEW t \in Threads, ReadPosition(t)
  PROVE  CountInv'
<1> DEFINE y == [thread[t] EXCEPT !.pc = "read", !.held = position[thread[t].row.market]]
<1>1. thread[t].pc = "preflight" /\ UNCHANGED <<journal, venue, position>>
      /\ thread' = [thread EXCEPT ![t] = y]
  BY DEF ReadPosition, Become
<1>2. y.pc = "read" /\ y.order = thread[t].order /\ y.row = thread[t].row
      /\ y.held = position[thread[t].row.market]
  BY DEF LiveInv, TypeOK, Thread
<1> HIDE DEF y
<1>3. thread'[t].pc = "read" /\ thread'[t].order = thread[t].order
      /\ thread'[t].row = thread[t].row /\ thread'[t].held = position[thread[t].row.market]
  BY <1>1, <1>2 DEF LiveInv, TypeOK
<1>4. Sound(t)
  BY DEF CountInv
<1>5. ReadIsTrue(t)'
  BY <1>1, <1>3 DEF ReadIsTrue
<1>6. CopyIsCurrent(t)'
  BY <1>1, <1>3, <1>4 DEF Sound, CopyIsCurrent, BeforePost, Copying
<1>7. RejectedIsDropped(t)' /\ AttemptLeft(t)'
  BY <1>1, <1>3, <1>4 DEF Sound, RejectedIsDropped, AttemptLeft
<1>8. StopOwned(t)'
  <2>1. Rows' = Rows
    BY <1>1 DEF Rows
  <2>2. \A m, a : BotRows(m, a)' = BotRows(m, a)
    BY <1>1, <2>1 DEF BotRows
  <2>3. \A m, n : Covered(m, n)' = Covered(m, n)
    BY <1>1, <2>2, FilledPrimed, FilledNow DEF Covered
  <2>4. IsStop(t)' <=> IsStop(t)
    BY <1>3 DEF IsStop
  <2>5. \A q \in Rows : AtExchange(q)' <=> AtExchange(q)
    BY <1>1 DEF AtExchange
  <2>6. QED
    BY <1>1, <1>3, <1>4, <2>1, <2>3, <2>4, <2>5 DEF Sound, StopOwned, Pending
<1>9. Sound(t)'
  BY <1>5, <1>6, <1>7, <1>8 DEF Sound
<1>10. QED
  BY <1>1, <1>9, MoveCounts

(* A copy that is neither of an order before its POST nor of one on the    *)
(* way there has only to be current.                                       *)
LEMMA CopySound ==
  ASSUME LiveInv, NEW t \in Threads, UNCHANGED <<journal, venue, position>>,
         thread'[t].pc \in {"fetched", "found", "lookup"},
         NEW o, o = thread'[t].order, NEW row, row = thread'[t].row,
         row.indexed, journal[o].indexed, row.count = journal[o].count,
         journal[o].state # "rejected" \/ venue[o].phase # "none",
         thread'[t].pc = "fetched" => venue[o].phase # "none"
  PROVE  Sound(t)'
<1>1. ReadIsTrue(t)' /\ AttemptLeft(t)' /\ StopOwned(t)'
  BY DEF ReadIsTrue, AttemptLeft, StopOwned, Pending
<1>2. CopyIsCurrent(t)'
  BY DEF CopyIsCurrent, BeforePost, Copying
<1>3. RejectedIsDropped(t)'
  BY DEF RejectedIsDropped
<1>4. QED
  BY <1>1, <1>2, <1>3 DEF Sound

LEMMA FetchCounts ==
  ASSUME LiveInv, CountInv, NEW t \in Threads, Fetch(t)
  PROVE  CountInv'
<1> DEFINE place == IF thread[t].pc = "acked" THEN "fetched" ELSE "found"
           o == thread[t].order
           y == [thread[t] EXCEPT !.pc = place, !.seen = venue[thread[t].order]]
<1>1. /\ thread[t].pc \in {"acked", "lookup"} /\ venue[o].phase \in {"open", "done"}
      /\ UNCHANGED <<journal, venue, position>>
      /\ thread' = [thread EXCEPT ![t] = y]
  BY DEF Fetch, Become
<1>2. y.pc = place /\ y.order = o /\ y.row = thread[t].row
  BY DEF LiveInv, TypeOK, Thread
<1> HIDE DEF y
<1>3. thread'[t].pc = place /\ thread'[t].order = o /\ thread'[t].row = thread[t].row
  BY <1>1, <1>2 DEF LiveInv, TypeOK
<1>4. /\ thread[t].row.indexed /\ journal[o].indexed
      /\ thread[t].row.count = journal[o].count
  BY <1>1 DEF CountInv, Sound, CopyIsCurrent, Copying
<1>5. Sound(t)'
  BY <1>1, <1>3, <1>4, CopySound
<1>6. QED
  BY <1>1, <1>5, MoveCounts

LEMMA LookupCounts ==
  ASSUME LiveInv, CountInv, NEW o \in Rows,
         StartReconcile(o) \/ \E c \in Checkers : CheckOrder(c, o)
  PROVE  CountInv'
<1> DEFINE y == [Idle EXCEPT !.pc = "lookup", !.order = o, !.row = journal[o]]
<1>1. PICK t \in Threads : Lookup(t, o)
  BY WorkerIsAThread DEF StartReconcile, CheckOrder, Threads
<1>2. thread' = [thread EXCEPT ![t] = y] /\ UNCHANGED <<journal, venue, position>>
      /\ Reconcilable(o)
  BY <1>1 DEF StartReconcile, CheckOrder, Lookup, Become
<1>3. y.pc = "lookup" /\ y.order = o /\ y.row = journal[o]
  BY DEF Idle
<1> HIDE DEF y
<1>4. thread'[t].pc = "lookup" /\ thread'[t].order = o /\ thread'[t].row = journal[o]
  BY <1>2, <1>3 DEF LiveInv, TypeOK
<1>5. journal[o].indexed /\ journal[o].state # "rejected"
  BY <1>2 DEF Reconcilable, Unresolved, UNRESOLVED
<1>6. Sound(t)'
  BY <1>2, <1>4, <1>5, CopySound
<1>7. QED
  BY <1>2, <1>6, MoveCounts

LEMMA IdleCounts ==
  ASSUME LiveInv, CountInv, NEW t \in Threads, thread' = [thread EXCEPT ![t] = Idle],
         UNCHANGED <<journal, venue, position>>
  PROVE  CountInv'
<1>1. thread'[t].pc = "idle"
  BY IdleType DEF LiveInv, TypeOK
<1>2. QED
  BY <1>1, SoundIdle, MoveCounts

-----------------------------------------------------------------------------
(* Decisions.                                                              *)

LEMMA SameWorkCounts ==
  ASSUME LiveInv, CountInv, UNCHANGED <<journal, venue, position>>,
         \A u \in Threads : SameWork(u)
  PROVE  CountInv'
  BY SoundUntouched, BooksUntouched DEF CountInv

LEMMA AllChangedHeld ==
  ASSUME TypeOK, NEW u \in Threads
  PROVE  AllChanged[u].held = thread[u].held
<1>1. \A b : [thread[u] EXCEPT !.changed = b].held = thread[u].held
  BY DEF TypeOK, Thread
<1>2. QED
  BY <1>1 DEF AllChanged

LEMMA OperatorCounts ==
  ASSUME LiveInv, CountInv, NEW m \in Markets,
         \/ SyncMarkets(m) \/ Close(m) \/ DetectStop(m)
         \/ \E on \in BOOLEAN : Configure(m, on)
  PROVE  CountInv'
<1>1. UNCHANGED <<journal, venue, position>> /\ (thread' = thread \/ thread' = AllChanged)
  BY DEF SyncMarkets, Close, DetectStop, Configure
<1>2. \A u \in Threads : SameWork(u)
  BY <1>1, AllChangedType, AllChangedHeld DEF SameWork, LiveInv
<1>3. QED
  BY <1>1, <1>2, SameWorkCounts

LEMMA ShutdownCounts == LiveInv /\ CountInv /\ PrepareShutdown => CountInv'
<1> SUFFICES ASSUME LiveInv, CountInv, PrepareShutdown PROVE CountInv'
  OBVIOUS
<1>1. UNCHANGED <<journal, venue, position>> /\ thread' = AllChanged
  BY DEF PrepareShutdown
<1>2. \A u \in Threads : SameWork(u)
  BY <1>1, AllChangedType, AllChangedHeld DEF SameWork, LiveInv
<1>3. QED
  BY <1>1, <1>2, SameWorkCounts

(* A new order is sound when it waits for the slot.                        *)
LEMMA QueuedSound ==
  ASSUME NEW t \in Threads, thread'[t].pc = "queued",
         NEW row, row = thread'[t].row, thread'[t].order = 0 => ~row.indexed,
         UNCHANGED <<journal, venue, position>>,
         row.bot /\ row.action = "buy" => Cardinality(Consuming(row.market)) <= Retries,
         row.bot /\ row.action = "sell" =>
           /\ Covered(row.market, row.count)
           /\ \A o \in Rows : AtExchange(o) /\ journal[o].bot => journal[o].market # row.market
  PROVE  Sound(t)'
<1>1. Rows' = Rows
  BY DEF Rows
<1>2. \A m, a : BotRows(m, a)' = BotRows(m, a)
  BY <1>1 DEF BotRows
<1>3. \A m : Consuming(m)' = Consuming(m)
  BY <1>2 DEF Consuming
<1>4. \A m, n : Covered(m, n)' = Covered(m, n)
  BY <1>2, FilledPrimed, FilledNow DEF Covered
<1>5. ReadIsTrue(t)' /\ CopyIsCurrent(t)' /\ RejectedIsDropped(t)'
  BY DEF ReadIsTrue, CopyIsCurrent, RejectedIsDropped, BeforePost, Copying
<1>6. AttemptLeft(t)'
  BY <1>3 DEF AttemptLeft
<1>7. StopOwned(t)'
  <2>1. \A q \in Rows : AtExchange(q)' <=> AtExchange(q)
    BY DEF AtExchange
  <2>2. QED
    BY <1>1, <1>4, <2>1 DEF StopOwned, IsStop
<1>8. QED
  BY <1>5, <1>6, <1>7 DEF Sound

SettledIn(m) == \A o \in Rows : Unresolved(o) => journal[o].market # m

(* With every order of a market resolved, the journal's fills are the      *)
(* exchange's.                                                             *)
LEMMA SettledRows ==
  ASSUME LiveInv, NEW m, SettledIn(m), NEW o \in Rows, journal[o].market = m
  PROVE  ~AtExchange(o) /\ journal[o].filled = venue[o].filled
<1>1. journal[o].state \in {"complete", "rejected"}
  <2>1. journal[o] \in Row
    BY OrderType
  <2>2. journal[o].state \notin UNRESOLVED
    BY DEF SettledIn, Unresolved
  <2>3. QED
    BY <2>1, <2>2 DEF Row
<1>2. CASE journal[o].state = "complete"
  BY <1>2 DEF LiveInv, ResolvedIsTrue, AtExchange
<1>3. CASE journal[o].state = "rejected"
  <2>1. venue[o].phase \in {"none", "refused"}
    BY <1>3 DEF LiveInv, ResolvedIsTrue
  <2>2. venue[o].filled = 0
    BY <2>1 DEF LiveInv, VenueHistory
  <2>3. ~(journal[o].filled > 0)
    BY <2>2 DEF LiveInv, FillsAreTrue
  <2>4. journal[o].filled \in Nat
    BY OrderType
  <2>5. QED
    BY <2>1, <2>2, <2>3, <2>4 DEF AtExchange
<1>4. QED
  BY <1>1, <1>2, <1>3

LEMMA SettledFills ==
  ASSUME LiveInv, NEW m, SettledIn(m), NEW a
  PROVE  Fills(BotRows(m, a)) = Filled(BotRows(m, a))
<1> DEFINE S == BotRows(m, a)
<1>1. \A o \in S : journal[o].filled = venue[o].filled
  BY SettledRows DEF BotRows
<1>2. FillsOf(S, journal) = FillsOf(S, venue)
  BY <1>1, FillsOfSame
<1>3. QED
  BY <1>2 DEF Fills, Filled, FillsOf

LEMMA ManageableSettled ==
  ASSUME NEW m, Manageable(m)
  PROVE  SettledIn(m)
  BY DEF Manageable, SettledIn

LEMMA SubmitOf ==
  ASSUME NEW t, NEW row, NEW order
  PROVE  LET y == Submit(t, row, order)
         IN  y.pc = "queued" /\ y.row = row /\ y.order = order
  BY DEF Submit, Idle

LEMMA HeldCounts ==
  ASSUME LiveInv, CountInv, NEW m \in Markets, NEW t \in Loopers, StepHeld(t, m)
  PROVE  CountInv'
<1>1. t \in Threads /\ Manageable(m) /\ Held(m) > 0 /\ UNCHANGED <<journal, venue, position>>
  BY DEF StepHeld, Threads
<1>2. PICK o \in BotRows(m, "buy") :
        thread' = [thread EXCEPT ![t] =
                     Submit(t, NewRow(m, "sell", journal[o].side, Held(m), TRUE), 0)]
  BY DEF StepHeld
<1> DEFINE row == NewRow(m, "sell", journal[o].side, Held(m), TRUE)
           y == Submit(t, row, 0)
<1>3. /\ row.market = m /\ row.action = "sell" /\ row.bot /\ row.count = Held(m)
      /\ ~row.indexed
  BY DEF NewRow
<1> HIDE DEF row
<1>4. y.pc = "queued" /\ y.row = row /\ y.order = 0
  BY SubmitOf
<1>5. thread' = [thread EXCEPT ![t] = y]
  BY <1>2 DEF row
<1> HIDE DEF y
<1>6. thread'[t].pc = "queued" /\ thread'[t].row = row
  BY <1>1, <1>4, <1>5 DEF LiveInv, TypeOK
<1>7. SettledIn(m)
  BY <1>1, ManageableSettled
<1>8. Covered(m, Held(m))
  <2>1. Bought(m) = Filled(BotRows(m, "buy")) /\ Sold(m) = Filled(BotRows(m, "sell"))
    BY <1>7, SettledFills DEF Bought, Sold
  <2>2. Bought(m) \in Nat /\ Sold(m) \in Nat
    BY BoughtAndSold DEF LiveInv
  <2>3. Held(m) = Bought(m) - Sold(m)
    BY <1>1, <2>2 DEF Held
  <2>4. Sold(m) + Held(m) <= Bought(m)
    BY <2>2, <2>3
  <2>5. QED
    BY <2>1, <2>4 DEF Covered
<1>9. \A p \in Rows : AtExchange(p) /\ journal[p].bot => journal[p].market # m
  BY <1>7, SettledRows
<1>10. Sound(t)'
  BY <1>1, <1>3, <1>6, <1>8, <1>9, QueuedSound
<1>11. QED
  BY <1>1, <1>5, <1>10, MoveCounts

LEMMA FlatCounts ==
  ASSUME LiveInv, CountInv, NEW m \in Markets, NEW side \in Sides, StepFlat(m, side)
  PROVE  CountInv'
<1> DEFINE row == NewRow(m, "buy", side, Size, TRUE)
           y == Submit(Worker, row, 0)
<1>1. /\ Cardinality(Consuming(m)) <= Retries /\ UNCHANGED <<journal, venue, position>>
      /\ thread' = [thread EXCEPT ![Worker] = y]
  BY DEF StepFlat, Consuming
<1>2. row.market = m /\ row.action = "buy" /\ ~row.indexed
  BY DEF NewRow
<1> HIDE DEF row
<1>3. y.pc = "queued" /\ y.row = row
  BY SubmitOf
<1> HIDE DEF y
<1>4. thread'[Worker].pc = "queued" /\ thread'[Worker].row = row
  BY <1>1, <1>3, WorkerIsAThread DEF LiveInv, TypeOK
<1>5. Sound(Worker)'
  BY <1>1, <1>2, <1>4, WorkerIsAThread, QueuedSound
<1>6. QED
  BY <1>1, <1>5, WorkerIsAThread, MoveCounts

LEMMA UserSubmitCounts ==
  ASSUME LiveInv, CountInv, NEW u \in Users, NEW row, NEW order, ~row.bot,
         order = 0 => ~row.indexed, UserSubmit(u, row, order)
  PROVE  CountInv'
<1> DEFINE others == IF Exists(row.market) THEN AllChanged ELSE thread
           y == Submit(u, row, order)
<1>1. u \in Threads /\ UNCHANGED <<journal, venue, position>>
      /\ thread' = [others EXCEPT ![u] = y]
  BY DEF UserSubmit, Threads
<1>2. /\ others \in [Threads -> Thread]
      /\ \A t \in Threads :
           /\ others[t].pc = thread[t].pc /\ others[t].order = thread[t].order
           /\ others[t].row = thread[t].row /\ others[t].held = thread[t].held
  BY AllChangedType, AllChangedHeld DEF LiveInv, TypeOK
<1>3. y.pc = "queued" /\ y.row = row /\ y.order = order
  BY SubmitOf
<1> HIDE DEF others, y
<1>4. thread'[u] = y /\ \A t \in Threads : t # u => SameWork(t)
  BY <1>1, <1>2 DEF SameWork
<1>5. Sound(u)'
  BY <1>1, <1>3, <1>4, QueuedSound
<1>6. \A t \in Threads : t # u => Sound(t)'
  BY <1>1, <1>4, SoundUntouched DEF CountInv
<1>7. QED
  BY <1>1, <1>5, <1>6, BooksUntouched DEF CountInv

LEMMA UserRequestCounts ==
  ASSUME LiveInv, CountInv, NEW u \in Users, UserRequest(u)
  PROVE  CountInv'
<1>1. ASSUME NEW m \in Markets, NEW action, NEW side, NEW n,
             UserSubmit(u, NewRow(m, action, side, n, FALSE), 0)
      PROVE  CountInv'
  <2> DEFINE row == NewRow(m, action, side, n, FALSE)
  <2>1. ~row.bot /\ ~row.indexed
    BY DEF NewRow
  <2> HIDE DEF row
  <2>2. UserSubmit(u, row, 0)
    BY <1>1 DEF row
  <2>3. QED
    BY <2>1, <2>2, UserSubmitCounts
<1>2. ASSUME NEW o \in Rows, ~journal[o].bot, UserSubmit(u, journal[o], o) PROVE CountInv'
  <2>1. o # 0
    BY DEF Rows
  <2>2. QED
    BY <1>2, <2>1, UserSubmitCounts
<1>3. QED
  BY <1>1, <1>2 DEF UserRequest

LEMMA SalesOwnedKept ==
  ASSUME SalesOwned, \A m, a : Filled(BotRows(m, a))' = Filled(BotRows(m, a)),
         \A m : \A p \in BotRows(m, "sell")' : AtExchange(p)' =>
           p \in BotRows(m, "sell") /\ AtExchange(p) /\ journal'[p] = journal[p]
  PROVE  SalesOwned'
  BY DEF SalesOwned, Covered

LEMMA InsertEffect ==
  ASSUME LiveInv, NEW t \in Threads, NEW y, ClaimInserted(t, y),
         NEW o, o = Len(journal) + 1, NEW row, row = thread[t].row
  PROVE  /\ row \in Row /\ o \notin Rows /\ Rows' = Rows \cup {o}
         /\ journal'[o] = row /\ \A p \in Rows : journal'[p] = journal[p]
         /\ venue'[o] = Unsent /\ \A p \in Rows : venue'[p] = venue[p]
         /\ thread'[t] = y /\ \A u \in Threads : u # t => thread'[u] = thread[u]
         /\ \A m, a : BotRows(m, a) \subseteq Rows
         /\ \A m, a :
              BotRows(m, a)' = IF row.bot /\ row.market = m /\ row.action = a
                                 THEN BotRows(m, a) \cup {o} ELSE BotRows(m, a)
<1>1. row \in Row
  BY DEF LiveInv, ClaimInserted, OwnCopy
<1>2. o \notin Rows /\ Rows' = Rows \cup {o}
      /\ journal'[o] = row /\ \A p \in Rows : journal'[p] = journal[p]
  <2>1. /\ Len(journal') = Len(journal) + 1 /\ journal'[o] = row
        /\ \A i \in 1..Len(journal) : journal'[i] = journal[i]
    BY <1>1, AppendRow DEF LiveInv, TypeOK, ClaimInserted
  <2>2. Len(journal) \in Nat
    BY DEF LiveInv, TypeOK
  <2>3. QED
    BY <2>1, <2>2 DEF Rows
<1>3. venue'[o] = Unsent /\ \A p \in Rows : venue'[p] = venue[p]
  BY UnsentType, AppendRow DEF LiveInv, TypeOK, ClaimInserted, Rows
<1>4. thread'[t] = y /\ \A u \in Threads : u # t => thread'[u] = thread[u]
  BY DEF LiveInv, TypeOK, ClaimInserted
<1>5. \A m, a : BotRows(m, a) \subseteq Rows
  BY BotRowsAreRows
<1>6. ASSUME NEW m, NEW a
      PROVE  BotRows(m, a)' = IF row.bot /\ row.market = m /\ row.action = a
                                THEN BotRows(m, a) \cup {o} ELSE BotRows(m, a)
  <2>1. \A p \in Rows : p \in BotRows(m, a)' <=> p \in BotRows(m, a)
    BY <1>2 DEF BotRows
  <2>2. o \in BotRows(m, a)' <=> row.bot /\ row.market = m /\ row.action = a
    BY <1>2 DEF BotRows
  <2>3. BotRows(m, a)' \subseteq Rows \cup {o} /\ o \notin BotRows(m, a)
    BY <1>2, <1>5 DEF BotRows
  <2>4. CASE row.bot /\ row.market = m /\ row.action = a
    <3>1. BotRows(m, a)' = BotRows(m, a) \cup {o}
      BY <1>5, <2>1, <2>2, <2>3, <2>4
    <3>2. QED
      BY <2>4, <3>1
  <2>5. CASE ~(row.bot /\ row.market = m /\ row.action = a)
    <3>1. o \notin BotRows(m, a)'
      BY <2>2, <2>5
    <3>2. \A p : p \in BotRows(m, a)' <=> p \in BotRows(m, a)
      BY <1>5, <2>1, <2>3, <3>1
    <3>3. BotRows(m, a)' = BotRows(m, a)
      BY <3>2
    <3>4. QED
      BY <2>5, <3>3
  <2>6. QED
    BY <2>4, <2>5
<1>7. QED
  BY <1>1, <1>2, <1>3, <1>4, <1>5, <1>6

LEMMA InsertFills ==
  ASSUME LiveInv, NEW t \in Threads, NEW y, ClaimInserted(t, y),
         NEW o, o = Len(journal) + 1, NEW row, row = thread[t].row, NEW m, NEW a
  PROVE  Filled(BotRows(m, a))' = Filled(BotRows(m, a))
<1>1. /\ o \notin Rows /\ venue'[o] = Unsent /\ \A p \in Rows : venue'[p] = venue[p]
      /\ \A n, b : BotRows(n, b) \subseteq Rows
      /\ \A n, b :
           BotRows(n, b)' = IF row.bot /\ row.market = n /\ row.action = b
                              THEN BotRows(n, b) \cup {o} ELSE BotRows(n, b)
  BY InsertEffect
<1>2. Filled(BotRows(m, a))' = Filled(BotRows(m, a))
  <2> DEFINE S == BotRows(m, a)
  <2>1. IsFiniteSet(S) /\ S \subseteq Rows
    BY <1>1, RowsAreFinite
  <2>2. \A p \in S : venue[p].filled \in Nat /\ venue'[p].filled = venue[p].filled
    BY <1>1, <2>1, OrderType
  <2>3. venue'[o].filled = 0 /\ o \notin S
    BY <1>1, <2>1, UnsentType
  <2>4. FillsOf(S \cup {o}, venue') = FillsOf(S, venue)
    BY <2>1, <2>2, <2>3, FillsOfNewOrder
  <2>5. FillsOf(S, venue') = FillsOf(S, venue)
    BY <2>2, FillsOfSame
  <2>6. BotRows(m, a)' = S \cup {o} \/ BotRows(m, a)' = S
    BY <1>1
  <2>7. FillsOf(BotRows(m, a)', venue') = FillsOf(S, venue)
    BY <2>4, <2>5, <2>6
  <2>8. QED
    BY <2>7 DEF FillsOf, Filled
<1>3. QED
  BY <1>2

LEMMA InsertConsuming ==
  ASSUME LiveInv, NEW t \in Threads, NEW y, ClaimInserted(t, y),
         NEW o, o = Len(journal) + 1, NEW row, row = thread[t].row, NEW m
  PROVE  /\ Consuming(m)' \subseteq Consuming(m) \cup {o}
         /\ ~(row.bot /\ row.market = m /\ row.action = "buy")
              => Consuming(m)' \subseteq Consuming(m)
<1>1. /\ \A p \in Rows : journal'[p] = journal[p]
      /\ BotRows(m, "buy") \subseteq Rows
      /\ BotRows(m, "buy")' = IF row.bot /\ row.market = m /\ row.action = "buy"
                                THEN BotRows(m, "buy") \cup {o} ELSE BotRows(m, "buy")
  BY InsertEffect
<1>2. ASSUME NEW p \in Consuming(m)', p \in BotRows(m, "buy") PROVE p \in Consuming(m)
  <2>1. ConsumesEntryAttempt(journal'[p]) /\ journal'[p] = journal[p]
    BY <1>1, <1>2 DEF Consuming
  <2>2. QED
    BY <1>2, <2>1 DEF Consuming
<1>3. \A p \in Consuming(m)' : p \in BotRows(m, "buy")'
  BY DEF Consuming
<1>4. QED
  BY <1>1, <1>2, <1>3

LEMMA InsertBooks ==
  ASSUME LiveInv, CountInv, NEW t \in Threads, NEW y, ClaimInserted(t, y),
         NEW o, o = Len(journal) + 1, NEW row, row = thread[t].row
  PROVE  Books'
<1>1. /\ o \notin Rows /\ Rows' = Rows \cup {o}
      /\ journal'[o] = row /\ \A p \in Rows : journal'[p] = journal[p]
      /\ venue'[o] = Unsent /\ \A p \in Rows : venue'[p] = venue[p]
      /\ \A m, a : BotRows(m, a) \subseteq Rows
      /\ \A m, a :
           BotRows(m, a)' = IF row.bot /\ row.market = m /\ row.action = a
                              THEN BotRows(m, a) \cup {o} ELSE BotRows(m, a)
  BY InsertEffect
<1>2. thread[t].pc = "queued" /\ thread[t].order = 0 /\ position' = position
  BY DEF ClaimInserted
<1>3. \A m : /\ Consuming(m)' \subseteq Consuming(m) \cup {o}
             /\ ~(row.bot /\ row.market = m /\ row.action = "buy")
                  => Consuming(m)' \subseteq Consuming(m)
  BY InsertConsuming
<1>4. \A m, a : Filled(BotRows(m, a))' = Filled(BotRows(m, a))
  BY InsertFills
<1>5. \A p \in Rows' : AtExchange(p)' => p \in Rows /\ AtExchange(p)
  BY <1>1, UnsentType DEF AtExchange
<1>6. OneInFlight'
  BY <1>1, <1>5 DEF CountInv, Books, OneInFlight
<1>7. SaleFits'
  BY <1>1, <1>2, <1>5 DEF CountInv, Books, SaleFits
<1>8. SentIsConsumed'
  BY <1>1, UnsentType DEF CountInv, Books, SentIsConsumed
<1>9. AttemptsAllowed'
  <2> SUFFICES ASSUME NEW m \in Markets
               PROVE  Cardinality(Consuming(m)') <= Retries + 1
    BY DEF AttemptsAllowed
  <2>1. Retries \in Nat /\ Retries + 1 \in Nat
    BY LiveAssumption
  <2>2. CASE Consuming(m)' \subseteq Consuming(m)
    BY <2>1, <2>2, FewerAttempts DEF CountInv, Books, AttemptsAllowed
  <2>3. CASE row.bot /\ row.market = m /\ row.action = "buy"
    <3>1. Cardinality(Consuming(m)) <= Retries
      BY <1>2, <2>3 DEF CountInv, Sound, AttemptLeft
    <3>2. IsFiniteSet(Consuming(m))
      BY RowsAreFinite DEF Consuming, BotRows
    <3>3. Cardinality(Consuming(m)) \in Nat
      BY <3>2, FS_CardinalityType
    <3>4. /\ IsFiniteSet(Consuming(m) \cup {o})
          /\ Cardinality(Consuming(m) \cup {o}) <= Cardinality(Consuming(m)) + 1
      <4>1. Cardinality(Consuming(m) \cup {o}) = IF o \in Consuming(m) THEN Cardinality(Consuming(m))
                                                ELSE Cardinality(Consuming(m)) + 1
        BY <3>2, FS_AddElement
      <4>2. IsFiniteSet(Consuming(m) \cup {o})
        BY <3>2, FS_AddElement
      <4>3. QED
        BY <3>3, <4>1, <4>2
    <3>5. IsFiniteSet(Consuming(m)')
          /\ Cardinality(Consuming(m)') <= Cardinality(Consuming(m) \cup {o})
      BY <1>3, <3>4, FS_Subset
    <3>6. Cardinality(Consuming(m)') \in Nat /\ Cardinality(Consuming(m) \cup {o}) \in Nat
      BY <3>4, <3>5, FS_CardinalityType
    <3>7. QED
      BY <2>1, <3>1, <3>3, <3>4, <3>5, <3>6
  <2>4. QED
    BY <1>3, <2>2, <2>3
<1>10. SalesOwned'
  <2>1. ASSUME NEW m, NEW p \in BotRows(m, "sell")', AtExchange(p)'
        PROVE  p \in BotRows(m, "sell") /\ AtExchange(p) /\ journal'[p] = journal[p]
    <3>1. p \in Rows' /\ journal'[p].bot /\ journal'[p].market = m /\ journal'[p].action = "sell"
      BY <2>1 DEF BotRows
    <3>2. p \in Rows /\ AtExchange(p)
      BY <1>5, <2>1, <3>1
    <3>3. QED
      BY <1>1, <3>1, <3>2 DEF BotRows
  <2>2. QED
    BY <1>4, <2>1, SalesOwnedKept DEF CountInv, Books
<1>11. QED
  BY <1>6, <1>7, <1>8, <1>9, <1>10 DEF Books

LEMMA InsertSound ==
  ASSUME LiveInv, CountInv, NEW t \in Threads, NEW y, ClaimInserted(t, y),
         NEW o, o = Len(journal) + 1, NEW row, row = thread[t].row
  PROVE  \A u \in Threads : Sound(u)'
<1>1. /\ row \in Row /\ o \notin Rows /\ Rows' = Rows \cup {o}
      /\ journal'[o] = row /\ \A p \in Rows : journal'[p] = journal[p]
      /\ venue'[o] = Unsent /\ \A p \in Rows : venue'[p] = venue[p]
      /\ thread'[t] = y /\ \A u \in Threads : u # t => thread'[u] = thread[u]
  BY InsertEffect
<1>2. /\ thread[t].pc = "queued" /\ thread[t].order = 0 /\ position' = position
      /\ y.pc = "preflight" /\ y.order = o /\ y.row = row
  BY DEF ClaimInserted
<1>3. \A m, a : Filled(BotRows(m, a))' = Filled(BotRows(m, a))
  BY InsertFills
<1>4. \A m, n : Filled(BotRows(m, "sell")) + n <= Filled(BotRows(m, "buy"))
                => (Filled(BotRows(m, "sell")))' + n <= (Filled(BotRows(m, "buy")))'
  BY <1>3
<1>5. \A p \in Rows' : AtExchange(p)' => p \in Rows /\ AtExchange(p)
  BY <1>1, UnsentType DEF AtExchange
<1>6. Sound(t)
  BY DEF CountInv
<1>7. Sound(t)'
  <2>1. ReadIsTrue(t)' /\ AttemptLeft(t)'
    BY <1>1, <1>2 DEF ReadIsTrue, AttemptLeft
  <2>2. CopyIsCurrent(t)'
    BY <1>1, <1>2, <1>6 DEF Sound, CopyIsCurrent, Copying
  <2>3. RejectedIsDropped(t)'
    BY <1>1, <1>2 DEF RejectedIsDropped, LiveInv, OwnCopy
  <2>4. StopOwned(t)'
    <3>1. thread'[t].row = thread[t].row /\ (IsStop(t)' <=> IsStop(t))
      BY <1>1, <1>2 DEF IsStop
    <3>2. thread[t].pc \in Pending
      BY <1>2 DEF Pending
    <3>3. IsStop(t) =>
            /\ Filled(BotRows(row.market, "sell")) + row.count <= Filled(BotRows(row.market, "buy"))
            /\ \A p \in Rows :
                 AtExchange(p) /\ journal[p].bot => journal[p].market # row.market
      BY <1>6, <3>2 DEF Sound, StopOwned, Covered
    <3>4. IsStop(t) => \A p \in Rows' :
                 AtExchange(p)' /\ journal'[p].bot => journal'[p].market # row.market
      BY <1>1, <1>5, <3>3
    <3>5. QED
      BY <1>4, <3>1, <3>3, <3>4 DEF StopOwned, Covered
  <2>5. QED
    BY <2>1, <2>2, <2>3, <2>4 DEF Sound
<1>8. ASSUME NEW u \in Threads, u # t PROVE Sound(u)'
  <2>1. thread'[u] = thread[u] /\ Sound(u)
    BY <1>1, <1>8 DEF CountInv
  <2>2. thread[u].pc \notin {"idle", "queued"} => thread[u].order \in Rows
    BY DEF LiveInv, OwnCopy
  <2>3. ReadIsTrue(u)'
    BY <1>2, <2>1 DEF Sound, ReadIsTrue
  <2>4. CopyIsCurrent(u)'
    BY <1>1, <2>1, <2>2 DEF Sound, CopyIsCurrent, BeforePost, Copying
  <2>5. RejectedIsDropped(u)'
    BY <1>1, <2>1, <2>2 DEF Sound, RejectedIsDropped
  <2>6. AttemptLeft(u)'
    <3>1. ASSUME thread[u].pc = "queued", thread[u].row.bot, thread[u].row.action = "buy"
          PROVE  Cardinality(Consuming(thread[u].row.market)') <= Retries
      <4>1. Cardinality(Consuming(thread[u].row.market)) <= Retries
        BY <2>1, <3>1 DEF Sound, AttemptLeft
      <4>2. ~(row.bot /\ row.market = thread[u].row.market)
        <5>1. thread[u].pc \in Pending /\ thread[t].pc \in Pending
          BY <1>2, <3>1 DEF Pending
        <5>2. u \in Loopers /\ (row.bot => t \in Loopers)
          BY <3>1, <5>1 DEF LiveInv, OwnCopy
        <5>3. QED
          BY <1>2, <1>8, <3>1, <5>2 DEF LiveInv, MarketExclusive
      <4>3. Consuming(thread[u].row.market)' \subseteq Consuming(thread[u].row.market)
        <5>1. \A m : ~(row.bot /\ row.market = m /\ row.action = "buy")
                       => Consuming(m)' \subseteq Consuming(m)
          BY InsertConsuming
        <5>2. QED
          BY <2>1, <4>2, <5>1 DEF Consuming, BotRows
      <4>4. Retries \in Nat
        BY LiveAssumption
      <4>5. QED
        BY <4>1, <4>3, <4>4, FewerAttempts
    <3>2. QED
      BY <2>1, <3>1 DEF AttemptLeft
  <2>7. StopOwned(u)'
    <3>1. ASSUME thread[u].pc \in Pending, IsStop(u), NEW m, m = thread[u].row.market
          PROVE  /\ Filled(BotRows(m, "sell"))' + thread[u].row.count <= Filled(BotRows(m, "buy"))'
                 /\ \A p \in Rows' : AtExchange(p)' /\ journal'[p].bot => journal'[p].market # m
      <4>1. Covered(m, thread[u].row.count)
            /\ \A p \in Rows : AtExchange(p) /\ journal[p].bot => journal[p].market # m
        BY <2>1, <3>1 DEF Sound, StopOwned
      <4>2. QED
        BY <1>1, <1>4, <1>5, <4>1 DEF Covered
    <3>2. IsStop(u)' <=> IsStop(u)
      BY <2>1 DEF IsStop
    <3>3. QED
      BY <2>1, <3>1, <3>2 DEF StopOwned, Covered
  <2>8. QED
    BY <2>3, <2>4, <2>5, <2>6, <2>7 DEF Sound
<1>9. QED
  BY <1>7, <1>8

LEMMA ClaimCounts ==
  ASSUME LiveInv, CountInv, NEW t \in Threads, Claim(t)
  PROVE  CountInv'
<1>1. CASE ClaimRefused(t)
  BY <1>1, IdleCounts DEF ClaimRefused, Moves
<1>2. ASSUME NEW y, ClaimInserted(t, y) PROVE CountInv'
  BY <1>2, InsertBooks, InsertSound DEF CountInv
<1>3. QED
  BY <1>1, <1>2, ClaimCases

-----------------------------------------------------------------------------
(* The POST.                                                               *)

LEMMA SizedCount ==
  ASSUME NEW r \in Row, NEW net \in Int
  PROVE  Sized(r, net).count <= r.count
<1>1. \A n \in Nat : [r EXCEPT !.count = n].count = n
  BY DEF Row
<1>2. r.count \in Nat /\ Holding(net, r.side) \in Nat
  BY HoldingType DEF Row
<1>3. QED
  BY <1>1, <1>2 DEF Sized

(* What goes out is indexed, fits the holdings that were read and is no    *)
(* more than was decided.                                                  *)
LEMMA PostRow ==
  ASSUME LiveInv, NEW t \in Threads, Post(t),
         NEW o, o = thread[t].order
  PROVE  /\ o \in Rows /\ thread[t].pc = "read" /\ position' = position
         /\ journal'[o].indexed /\ journal'[o].count <= thread[t].row.count
         /\ journal'[o].count \in Nat /\ journal'[o].state = "submitting"
         /\ journal'[o].action = "sell" =>
              Holding(thread[t].held, journal'[o].side) >= journal'[o].count
         /\ journal'[o].action = "buy" =>
              /\ Holding(thread[t].held, Opposite(journal'[o].side)) = 0
              /\ journal'[o].bot => thread[t].held = 0
         /\ SameOrder(journal'[o], thread[t].row) /\ SameOrder(journal'[o], journal[o])
         /\ thread'[t].pc = "posting" /\ thread'[t].order = o
         /\ thread'[t].row.indexed /\ thread'[t].row.submitted
         /\ thread'[t].row.count = journal'[o].count
         /\ venue'[o].phase = "sent" /\ venue'[o].filled = venue[o].filled
         /\ \A p \in Rows : p # o => journal'[p] = journal[p] /\ venue'[p] = venue[p]
         /\ \A u \in Threads : u # t => thread'[u] = thread[u]
         /\ Rows' = Rows
<1> DEFINE row == thread[t].row
           sized == Sized(row, thread[t].held)
           r == [sized EXCEPT !.indexed = TRUE]
           sent == [r EXCEPT !.submitted = TRUE]
           y == [thread[t] EXCEPT !.pc = "posting", !.row = sent]
           v == Posted(venue[o])
<1>1. /\ thread[t].pc = "read" /\ thread[t] \in Thread /\ row \in Row /\ thread[t].held \in Int
      /\ o \in Rows /\ SameOrder(row, journal[o]) /\ row.state = "submitting"
  BY DEF LiveInv, Post, TypeOK, OwnCopy, Unposted, BeforePost, Thread
<1>2. /\ journal' = [journal EXCEPT ![o] = r]
      /\ thread' = [thread EXCEPT ![t] = y]
      /\ venue' = [venue EXCEPT ![o] = v]
      /\ position' = position
      /\ HoldingsAllow(r, thread[t].held)
  BY DEF Post, Save, Become
<1>3. sized \in Row /\ SameOrder(sized, row) /\ sized.state = row.state /\ sized.count <= row.count
  BY <1>1, RowSized, SizedCount
<1> HIDE DEF sized
<1>4. r \in Row /\ SameOrder(r, sized) /\ r.state = sized.state /\ r.count = sized.count /\ r.indexed
  BY <1>3 DEF Row, SameOrder
<1> HIDE DEF r
<1>5. sent.count = r.count /\ sent.indexed /\ sent.submitted
  BY <1>4 DEF Row
<1> HIDE DEF sent
<1>6. y.pc = "posting" /\ y.order = o /\ y.row = sent
  BY <1>1 DEF Thread
<1> HIDE DEF y
<1>7. v.phase = "sent" /\ v.filled = venue[o].filled
  BY <1>1, OrderType, VenueSent
<1> HIDE DEF v
<1>8. SameOrder(r, row) /\ SameOrder(r, journal[o])
  BY <1>1, <1>3, <1>4 DEF SameOrder
<1>9. journal'[o] = r /\ venue'[o] = v /\ Rows' = Rows
      /\ \A p \in Rows : p # o => journal'[p] = journal[p] /\ venue'[p] = venue[p]
  BY <1>1, <1>2 DEF LiveInv, TypeOK, Rows
<1>10. thread'[t] = y /\ \A u \in Threads : u # t => thread'[u] = thread[u]
  BY <1>2 DEF LiveInv, TypeOK
<1>11. /\ r.action = "sell" => Holding(thread[t].held, r.side) >= r.count
       /\ r.action = "buy" =>
            Holding(thread[t].held, Opposite(r.side)) = 0 /\ (r.bot => thread[t].held = 0)
  BY <1>2 DEF HoldingsAllow
<1>12. r.count \in Nat
  BY <1>4 DEF Row
<1>13. r.count <= row.count /\ r.state = "submitting"
  BY <1>1, <1>3, <1>4
<1>14. QED
  BY <1>1, <1>2, <1>4, <1>5, <1>6, <1>7, <1>8, <1>9, <1>10, <1>11, <1>12, <1>13

LEMMA SameFills ==
  ASSUME \A m, a : BotRows(m, a)' = BotRows(m, a),
         \A p \in Rows : venue'[p].filled = venue[p].filled
  PROVE  \A m, a : Filled(BotRows(m, a))' = Filled(BotRows(m, a))
<1> TAKE m, a
<1> DEFINE S == BotRows(m, a)
<1>1. FillsOf(S, venue') = FillsOf(S, venue)
  BY BotRowsAreRows, FillsOfSame
<1>2. QED
  BY <1>1 DEF FillsOf, Filled

LEMMA PostCounts ==
  ASSUME LiveInv, CountInv, NEW t \in Threads, Post(t)
  PROVE  CountInv'
<1> SUFFICES ASSUME NEW o, o = thread[t].order, NEW m, m = thread[t].row.market
             PROVE  CountInv'
  OBVIOUS
<1>1. /\ o \in Rows /\ thread[t].pc = "read" /\ position' = position
      /\ journal'[o].indexed /\ journal'[o].count <= thread[t].row.count
      /\ journal'[o].count \in Nat /\ journal'[o].state = "submitting"
      /\ journal'[o].action = "sell" =>
           Holding(thread[t].held, journal'[o].side) >= journal'[o].count
      /\ SameOrder(journal'[o], thread[t].row) /\ SameOrder(journal'[o], journal[o])
  BY PostRow
<1>2. /\ thread'[t].pc = "posting" /\ thread'[t].order = o
      /\ thread'[t].row.indexed /\ thread'[t].row.submitted
      /\ thread'[t].row.count = journal'[o].count
      /\ \A u \in Threads : u # t => thread'[u] = thread[u]
  BY PostRow
<1>3. /\ venue'[o].phase = "sent" /\ venue'[o].filled = venue[o].filled
      /\ \A p \in Rows : p # o => journal'[p] = journal[p] /\ venue'[p] = venue[p]
      /\ Rows' = Rows
  BY PostRow
<1>4. Sound(t) /\ journal[o].state = "submitting" /\ ~journal[o].indexed /\ venue[o].phase = "none"
  BY <1>1 DEF LiveInv, Unposted, BeforePost, CountInv, Sound, CopyIsCurrent
<1>5. \A p \in Rows : SameOrder(journal'[p], journal[p])
  BY <1>1, <1>3 DEF SameOrder
<1>6. \A n, a : BotRows(n, a)' = BotRows(n, a)
  BY <1>3, <1>5 DEF BotRows, SameOrder
<1>7. \A n, a : Filled(BotRows(n, a))' = Filled(BotRows(n, a))
  BY <1>3, <1>6, SameFills
<1>8. \A n : Consuming(n)' \subseteq Consuming(n)
  <2>1. ASSUME NEW n, NEW p \in Consuming(n)' PROVE p \in Consuming(n)
    <3>1. p \in BotRows(n, "buy") /\ p \in Rows
      BY <1>6 DEF Consuming, BotRows
    <3>2. CASE p = o
      BY <1>4, <3>1, <3>2 DEF Consuming, ConsumesEntryAttempt
    <3>3. CASE p # o
      <4>1. journal'[p] = journal[p] /\ ConsumesEntryAttempt(journal'[p])
        BY <1>3, <3>1, <3>3 DEF Consuming
      <4>2. QED
        BY <3>1, <4>1 DEF Consuming
    <3>4. QED
      BY <3>2, <3>3
  <2>2. QED
    BY <2>1
<1>9. \A p \in Rows : p # o => (AtExchange(p)' <=> AtExchange(p))
  BY <1>3 DEF AtExchange
<1>10. \A p \in Rows : p # o /\ AtExchange(p) => journal[p].market # m
  BY <1>1 DEF LiveInv, NothingInTheWay, BeforePost
<1>11. journal'[o].market = m /\ journal[o].market = m
  BY <1>1 DEF SameOrder
<1>12. OneInFlight'
  BY <1>3, <1>9, <1>10, <1>11 DEF CountInv, Books, OneInFlight
<1>13. SaleFits'
  <2>1. thread[t].held = position[m]
    BY <1>1, <1>4 DEF Sound, ReadIsTrue
  <2>2. m \in Markets /\ position[m] \in Int
    BY <1>1, <1>11, OrderType DEF LiveInv, TypeOK
  <2>3. Holding(position[m], journal'[o].side) \in Nat
    BY <2>2, HoldingType
  <2>4. journal'[o].action = "sell" => journal'[o].count <= Holding(position[m], journal'[o].side)
    BY <1>1, <2>1, <2>3
  <2>5. QED
    BY <1>1, <1>3, <1>9, <1>11, <2>4 DEF CountInv, Books, SaleFits
<1>14. SentIsConsumed'
  BY <1>1, <1>3 DEF CountInv, Books, SentIsConsumed, ConsumesEntryAttempt
<1>15. AttemptsAllowed'
  <2>1. Retries + 1 \in Nat
    BY LiveAssumption
  <2>2. \A n \in Markets : Cardinality(Consuming(n)') <= Retries + 1
    BY <1>8, <2>1, FewerAttempts DEF CountInv, Books, AttemptsAllowed
  <2>3. QED
    BY <2>2 DEF AttemptsAllowed
<1>16. SalesOwned'
  <2> SUFFICES ASSUME NEW n \in Markets
               PROVE  /\ Filled(BotRows(n, "sell"))' + 0 <= Filled(BotRows(n, "buy"))'
                      /\ \A p \in BotRows(n, "sell")' : AtExchange(p)' =>
                           Filled(BotRows(n, "sell"))' + journal'[p].count
                             <= Filled(BotRows(n, "buy"))'
    BY DEF SalesOwned, Covered
  <2>1. Filled(BotRows(n, "sell")) + 0 <= Filled(BotRows(n, "buy"))
    BY DEF CountInv, Books, SalesOwned, Covered
  <2>2. ASSUME NEW p \in BotRows(n, "sell"), AtExchange(p)', p # o
        PROVE  Filled(BotRows(n, "sell")) + journal'[p].count <= Filled(BotRows(n, "buy"))
    <3>1. p \in Rows
      BY DEF BotRows
    <3>2. AtExchange(p) /\ journal'[p] = journal[p]
      BY <1>3, <1>9, <2>2, <3>1
    <3>3. QED
      BY <3>2 DEF CountInv, Books, SalesOwned, Covered
  <2>3. ASSUME o \in BotRows(n, "sell")
        PROVE  Filled(BotRows(n, "sell")) + journal'[o].count <= Filled(BotRows(n, "buy"))
    <3>1. n = m /\ IsStop(t)
      BY <1>1, <1>11, <2>3 DEF BotRows, IsStop, SameOrder
    <3>2. Filled(BotRows(m, "sell")) + thread[t].row.count <= Filled(BotRows(m, "buy"))
      BY <1>1, <1>4, <3>1 DEF Sound, StopOwned, Covered, Pending
    <3>3. /\ Filled(BotRows(m, "sell")) \in Nat /\ Filled(BotRows(m, "buy")) \in Nat
          /\ thread[t].row.count \in Nat
      <4>1. thread[t].row \in Row
        BY <1>1 DEF LiveInv, OwnCopy
      <4>2. QED
        BY <4>1, BotRowsAreRows, FilledType DEF Row
    <3>4. QED
      BY <1>1, <3>1, <3>2, <3>3
  <2>4. QED
    BY <1>6, <1>7, <2>1, <2>2, <2>3
<1>17. Sound(t)'
  <2>1. ReadIsTrue(t)' /\ AttemptLeft(t)' /\ StopOwned(t)'
    BY <1>2 DEF ReadIsTrue, AttemptLeft, StopOwned, Pending
  <2>2. CopyIsCurrent(t)'
    BY <1>1, <1>2 DEF CopyIsCurrent, BeforePost
  <2>3. RejectedIsDropped(t)'
    BY <1>2, <1>3 DEF RejectedIsDropped
  <2>4. QED
    BY <2>1, <2>2, <2>3 DEF Sound
<1>18. ASSUME NEW u \in Threads, u # t PROVE Sound(u)'
  <2>1. thread'[u] = thread[u] /\ Sound(u)
    BY <1>2, <1>18 DEF CountInv
  <2>2. ~InSlot(u)
    BY <1>1, <1>18 DEF LiveInv, SlotExclusive, InSlot, SlotPlaces
  <2>3. thread[u].pc \notin BeforePost /\ thread[u].pc \notin {"posting", "acked", "fetched", "read"}
    BY <2>2 DEF InSlot, SlotPlaces, BeforePost
  <2>4. thread[u].pc \notin {"idle", "queued"} => thread[u].order \in Rows /\ thread[u].pc \in Copying
    BY <2>2 DEF LiveInv, OwnCopy, TypeOK, Thread, Places, InSlot, SlotPlaces, Copying
  <2>5. thread[u].pc \in Copying => thread[u].order # o
    BY <1>4, <2>1 DEF Sound, CopyIsCurrent
  <2>6. ReadIsTrue(u)'
    BY <2>1, <2>3 DEF ReadIsTrue
  <2>7. CopyIsCurrent(u)'
    <3>1. thread[u].pc \in Copying => thread[u].order \in Rows
      BY <2>4 DEF Copying
    <3>2. QED
      BY <1>3, <2>1, <2>3, <2>5, <3>1 DEF Sound, CopyIsCurrent
  <2>8. RejectedIsDropped(u)'
    BY <1>3, <2>1, <2>3, <2>4, <2>5 DEF Sound, RejectedIsDropped
  <2>9. AttemptLeft(u)'
    <3>1. ASSUME thread[u].pc = "queued", thread[u].row.bot, thread[u].row.action = "buy"
          PROVE  Cardinality(Consuming(thread[u].row.market)') <= Retries
      BY <1>8, <2>1, <3>1, LiveAssumption, FewerAttempts DEF Sound, AttemptLeft
    <3>2. QED
      BY <2>1, <3>1 DEF AttemptLeft
  <2>10. StopOwned(u)'
    <3>1. ASSUME thread[u].pc \in Pending, IsStop(u), NEW n, n = thread[u].row.market
          PROVE  /\ Filled(BotRows(n, "sell"))' + thread[u].row.count <= Filled(BotRows(n, "buy"))'
                 /\ \A p \in Rows' : AtExchange(p)' /\ journal'[p].bot => journal'[p].market # n
      <4>1. /\ Filled(BotRows(n, "sell")) + thread[u].row.count <= Filled(BotRows(n, "buy"))
            /\ \A p \in Rows : AtExchange(p) /\ journal[p].bot => journal[p].market # n
        BY <2>1, <3>1 DEF Sound, StopOwned, Covered
      <4>2. ~(journal'[o].bot /\ m = n)
        <5>1. thread[u].pc \in Pending /\ thread[t].pc \in Pending
          BY <1>1, <3>1 DEF Pending
        <5>2. u \in Loopers /\ (thread[t].row.bot => t \in Loopers)
          BY <3>1, <5>1 DEF LiveInv, OwnCopy, IsStop
        <5>3. thread[t].row.bot => m # n
          BY <1>1, <1>18, <3>1, <5>1, <5>2 DEF LiveInv, MarketExclusive, Pending
        <5>4. QED
          BY <1>1, <5>3 DEF SameOrder
      <4>3. \A p \in Rows' : AtExchange(p)' /\ journal'[p].bot => journal'[p].market # n
        BY <1>3, <1>9, <1>11, <4>1, <4>2
      <4>4. QED
        BY <1>7, <4>1, <4>3
    <3>2. IsStop(u)' <=> IsStop(u)
      BY <2>1 DEF IsStop
    <3>3. QED
      BY <2>1, <3>1, <3>2 DEF StopOwned, Covered
  <2>11. QED
    BY <2>6, <2>7, <2>8, <2>9, <2>10 DEF Sound
<1>19. QED
  BY <1>12, <1>13, <1>14, <1>15, <1>16, <1>17, <1>18 DEF CountInv, Books

-----------------------------------------------------------------------------
(* The exchange and restarts.                                              *)

(* What the exchange does with an order: it arrives, or it is done with n  *)
(* contracts, within its count and, for a sale, within the position.       *)
LEMMA ArriveCounts ==
  ASSUME LiveInv, CountInv, NEW o \in Rows, Arrive(o)
  PROVE  CountInv'
<1>1. PICK phase \in {"open", "refused"} :
        venue' = [venue EXCEPT ![o] = [@ EXCEPT !.phase = phase]]
  BY DEF Arrive
<1> DEFINE v == [venue[o] EXCEPT !.phase = phase]
<1>2. v.phase = phase /\ v.filled = venue[o].filled
  BY OrderType DEF VenueOrder
<1>3. venue' = [venue EXCEPT ![o] = v]
  BY <1>1
<1> HIDE DEF v
<1>4. /\ venue[o].phase = "sent" /\ UNCHANGED <<journal, thread, position>>
      /\ venue'[o].phase # "none" /\ venue'[o].filled = venue[o].filled
      /\ \A p \in Rows : p # o => venue'[p] = venue[p]
      /\ Rows' = Rows
  BY <1>2, <1>3 DEF Arrive, LiveInv, TypeOK, Rows
<1>5. \A p \in Rows : AtExchange(p)' => AtExchange(p)
  BY <1>4 DEF AtExchange
<1>6. \A m, a : BotRows(m, a)' = BotRows(m, a)
  BY <1>4 DEF BotRows
<1>7. \A m, a : Filled(BotRows(m, a))' = Filled(BotRows(m, a))
  BY <1>4, <1>6, SameFills
<1>8. \A m : Consuming(m)' = Consuming(m)
  BY <1>4, <1>6 DEF Consuming
<1>9. OneInFlight' /\ SaleFits'
  BY <1>4, <1>5 DEF CountInv, Books, OneInFlight, SaleFits
<1>10. SentIsConsumed'
  BY <1>4 DEF CountInv, Books, SentIsConsumed
<1>11. AttemptsAllowed'
  BY <1>8 DEF CountInv, Books, AttemptsAllowed
<1>12. SalesOwned'
  <2>1. \A m : \A p \in BotRows(m, "sell")' : AtExchange(p)' =>
           p \in BotRows(m, "sell") /\ AtExchange(p) /\ journal'[p] = journal[p]
    BY <1>4, <1>5, <1>6, BotRowsAreRows
  <2>2. QED
    BY <1>7, <2>1, SalesOwnedKept DEF CountInv, Books
<1>13. ASSUME NEW u \in Threads PROVE Sound(u)'
  <2>1. Sound(u)
    BY DEF CountInv
  <2>2. ReadIsTrue(u)' /\ CopyIsCurrent(u)'
    BY <1>4, <2>1 DEF Sound, ReadIsTrue, CopyIsCurrent
  <2>3. RejectedIsDropped(u)'
    <3>1. thread[u].pc \notin {"idle", "queued"} => thread[u].order \in Rows
      BY DEF LiveInv, OwnCopy
    <3>2. QED
      BY <1>4, <2>1, <3>1 DEF Sound, RejectedIsDropped
  <2>4. AttemptLeft(u)'
    BY <1>4, <1>8, <2>1 DEF Sound, AttemptLeft
  <2>5. StopOwned(u)'
    <3>1. IsStop(u)' <=> IsStop(u)
      BY <1>4 DEF IsStop
    <3>2. QED
      BY <1>4, <1>5, <1>7, <2>1, <3>1 DEF Sound, StopOwned, Covered
  <2>6. QED
    BY <2>2, <2>3, <2>4, <2>5 DEF Sound
<1>14. QED
  BY <1>9, <1>10, <1>11, <1>12, <1>13 DEF CountInv, Books

LEMMA MatchEffect ==
  ASSUME LiveInv, NEW o \in Rows, Match(o)
  PROVE  /\ venue[o].phase = "open" /\ venue[o].filled = 0
         /\ UNCHANGED <<journal, thread>> /\ Rows' = Rows
         /\ venue'[o].phase = "done" /\ venue'[o].filled \in Nat
         /\ venue'[o].filled <= journal[o].count
         /\ \A p \in Rows : p # o => venue'[p] = venue[p]
         /\ \A m \in Markets : m # journal[o].market => position'[m] = position[m]
<1> DEFINE m == journal[o].market
           v(n) == [venue[o] EXCEPT !.phase = "done", !.filled = n]
<1>1. journal[o] \in Row /\ venue[o] \in VenueOrder /\ journal[o].count \in Nat
  BY OrderType
<1> DEFINE fills == IF journal[o].action = "buy" THEN {0, journal[o].count}
                    ELSE {k \in 0..journal[o].count : k <= Holding(position[m], journal[o].side)}
<1>2. \A n \in fills : n \in Nat /\ n <= journal[o].count
  BY <1>1
<1>3. PICK n \in fills :
        /\ venue' = [venue EXCEPT ![o] = v(n)]
        /\ position' = [position EXCEPT ![m] =
                          IF journal[o].action = "buy" THEN position[m] + Signed(journal[o].side, n)
                          ELSE position[m] - Signed(journal[o].side, n)]
  BY DEF Match
<1>4. n \in Nat /\ n <= journal[o].count
  BY <1>2
<1>5. v(n).phase = "done" /\ v(n).filled = n
  BY <1>1, <1>4 DEF VenueOrder, Phases
<1> HIDE DEF v
<1>6. venue'[o] = v(n) /\ \A p \in Rows : p # o => venue'[p] = venue[p]
  BY <1>3 DEF LiveInv, TypeOK, Rows
<1>7. \A k \in Markets : k # m => position'[k] = position[k]
  BY <1>3 DEF LiveInv, TypeOK
<1>8. venue[o].phase = "open" /\ UNCHANGED <<journal, thread>> /\ Rows' = Rows
  BY DEF Match, Rows
<1>9. venue[o].filled = 0
  BY <1>8 DEF LiveInv, VenueHistory
<1>10. QED
  BY <1>4, <1>5, <1>6, <1>7, <1>8, <1>9

LEMMA MatchCounts ==
  ASSUME LiveInv, CountInv, NEW o \in Rows, Match(o)
  PROVE  CountInv'
<1>1. /\ venue[o].phase = "open" /\ venue[o].filled = 0
      /\ UNCHANGED <<journal, thread>> /\ Rows' = Rows
      /\ venue'[o].phase = "done" /\ venue'[o].filled \in Nat
      /\ venue'[o].filled <= journal[o].count
      /\ \A p \in Rows : p # o => venue'[p] = venue[p]
      /\ \A m \in Markets : m # journal[o].market => position'[m] = position[m]
  BY MatchEffect
<1>2. AtExchange(o) /\ \A p \in Rows : AtExchange(p)' => AtExchange(p) /\ p # o
  BY <1>1 DEF AtExchange
<1>3. \A p \in Rows : AtExchange(p)' => journal[p].market # journal[o].market
  BY <1>2 DEF CountInv, Books, OneInFlight
<1>4. \A m, a : BotRows(m, a)' = BotRows(m, a) /\ BotRows(m, a) \subseteq Rows
  BY <1>1, BotRowsAreRows DEF BotRows
<1>5. \A m : Consuming(m)' = Consuming(m)
  BY <1>1, <1>4 DEF Consuming
<1>6. ASSUME NEW m, NEW a, o \notin BotRows(m, a)
      PROVE  Filled(BotRows(m, a))' = Filled(BotRows(m, a))
  <2> DEFINE S == BotRows(m, a)
  <2>1. \A p \in S : venue'[p].filled = venue[p].filled
    BY <1>1, <1>4, <1>6
  <2>2. FillsOf(S, venue') = FillsOf(S, venue)
    BY <2>1, FillsOfSame
  <2>3. QED
    BY <1>4, <2>2 DEF FillsOf, Filled
<1>7. ASSUME NEW m, NEW a, o \in BotRows(m, a)
      PROVE  Filled(BotRows(m, a))' = Filled(BotRows(m, a)) + venue'[o].filled
  <2> DEFINE S == BotRows(m, a)
  <2>1. IsFiniteSet(S)
    BY <1>4, RowsAreFinite
  <2>2. \A p \in S : venue[p].filled \in Nat /\ venue'[p].filled \in Nat
    BY <1>1, <1>4, OrderType
  <2>3. \A p \in S : p # o => venue'[p].filled = venue[p].filled
    BY <1>1, <1>4
  <2>4. FillsOf(S, venue') = FillsOf(S, venue) + venue'[o].filled
    BY <1>1, <1>7, <2>1, <2>2, <2>3, FillsOfOneMore
  <2>5. QED
    BY <1>4, <2>4 DEF FillsOf, Filled
<1>8. \A m, a : Filled(BotRows(m, a)) \in Nat
  BY <1>4, FilledType
<1>9. journal[o].count \in Nat /\ journal[o].market \in Markets
  BY OrderType
<1>10. OneInFlight' /\ SentIsConsumed' /\ AttemptsAllowed'
  BY <1>1, <1>2, <1>5
     DEF CountInv, Books, OneInFlight, SentIsConsumed, AttemptsAllowed
<1>11. SaleFits'
  <2>1. \A p \in Rows : AtExchange(p)' => position'[journal[p].market] = position[journal[p].market]
    BY <1>1, <1>3, OrderType
  <2>2. QED
    BY <1>1, <1>2, <2>1 DEF CountInv, Books, SaleFits
<1>12. SalesOwned'
  <2> SUFFICES ASSUME NEW m \in Markets
               PROVE  /\ Filled(BotRows(m, "sell"))' + 0 <= Filled(BotRows(m, "buy"))'
                      /\ \A p \in BotRows(m, "sell") : AtExchange(p)' =>
                           Filled(BotRows(m, "sell"))' + journal[p].count
                             <= Filled(BotRows(m, "buy"))'
    BY <1>1, <1>4 DEF SalesOwned, Covered
  <2> DEFINE sold == Filled(BotRows(m, "sell"))
             bought == Filled(BotRows(m, "buy"))
  <2>1. /\ sold \in Nat /\ bought \in Nat /\ sold + 0 <= bought
        /\ \A p \in BotRows(m, "sell") : AtExchange(p) => sold + journal[p].count <= bought
    BY <1>8 DEF CountInv, Books, SalesOwned, Covered
  <2>2. \A p \in Rows : journal[p].count \in Nat
    BY OrderType
  <2>3. CASE o \notin BotRows(m, "sell")
    <3>1. sold' = sold
      BY <1>6, <2>3
    <3>2. bought' \in Nat /\ bought <= bought'
      <4>1. CASE o \in BotRows(m, "buy")
        BY <1>1, <1>7, <2>1, <4>1
      <4>2. CASE o \notin BotRows(m, "buy")
        BY <1>6, <2>1, <4>2
      <4>3. QED
        BY <4>1, <4>2
    <3> HIDE DEF sold, bought
    <3>3. sold' + 0 <= bought'
      BY <2>1, <3>1, <3>2
    <3>4. ASSUME NEW p \in BotRows(m, "sell"), AtExchange(p)'
          PROVE  sold' + journal[p].count <= bought'
      <4>1. AtExchange(p) /\ journal[p].count \in Nat
        BY <1>2, <1>4, <2>2, <3>4
      <4>2. sold + journal[p].count <= bought
        BY <2>1, <4>1
      <4>3. QED
        BY <2>1, <3>1, <3>2, <4>1, <4>2
    <3>5. QED
      BY <3>3, <3>4 DEF sold, bought
  <2>4. CASE o \in BotRows(m, "sell")
    <3>1. journal[o].market = m /\ o \notin BotRows(m, "buy")
      BY <2>4 DEF BotRows
    <3>2. sold' = sold + venue'[o].filled /\ bought' = bought
      BY <1>6, <1>7, <2>4, <3>1
    <3>3. sold + journal[o].count <= bought
      BY <1>2, <2>1, <2>4
    <3>4. \A p \in BotRows(m, "sell") : ~AtExchange(p)'
      BY <1>3, <3>1 DEF BotRows
    <3>5. sold' + 0 <= bought'
      <4> HIDE DEF sold, bought
      <4>1. QED
        BY <1>1, <1>9, <2>1, <3>2, <3>3
    <3>6. QED
      BY <3>4, <3>5
  <2>5. QED
    BY <2>3, <2>4
<1>13. ASSUME NEW u \in Threads PROVE Sound(u)'
  <2>1. Sound(u)
    BY DEF CountInv
  <2>2. ReadIsTrue(u)'
    <3>1. ASSUME thread[u].pc = "read"
          PROVE  position'[thread[u].row.market] = position[thread[u].row.market]
      <4>1. thread[u].row.market \in Markets /\ venue[thread[u].order].phase = "none"
        BY <3>1 DEF LiveInv, OwnCopy, Unposted, BeforePost, Row
      <4>2. journal[o].market # thread[u].row.market
        BY <1>1, <1>2, <3>1, <4>1 DEF LiveInv, NothingInTheWay, BeforePost
      <4>3. QED
        BY <1>1, <4>1, <4>2
    <3>2. QED
      BY <1>1, <2>1, <3>1 DEF Sound, ReadIsTrue
  <2>3. CopyIsCurrent(u)'
    BY <1>1, <2>1 DEF Sound, CopyIsCurrent
  <2>4. RejectedIsDropped(u)'
    <3>1. thread[u].pc \notin {"idle", "queued"} => thread[u].order \in Rows
      BY DEF LiveInv, OwnCopy
    <3>2. QED
      BY <1>1, <2>1, <3>1 DEF Sound, RejectedIsDropped
  <2>5. AttemptLeft(u)'
    BY <1>1, <1>5, <2>1 DEF Sound, AttemptLeft
  <2>6. StopOwned(u)'
    <3>1. ASSUME thread[u].pc \in Pending, IsStop(u), NEW m, m = thread[u].row.market
          PROVE  /\ Filled(BotRows(m, "sell"))' + thread[u].row.count <= Filled(BotRows(m, "buy"))'
                 /\ \A p \in Rows : AtExchange(p)' /\ journal[p].bot => journal[p].market # m
      <4>1. /\ Filled(BotRows(m, "sell")) + thread[u].row.count <= Filled(BotRows(m, "buy"))
            /\ \A p \in Rows : AtExchange(p) /\ journal[p].bot => journal[p].market # m
        BY <2>1, <3>1 DEF Sound, StopOwned, Covered
      <4>2. \A a : o \notin BotRows(m, a)
        BY <1>2, <4>1 DEF BotRows
      <4>3. \A a : Filled(BotRows(m, a))' = Filled(BotRows(m, a))
        BY <1>6, <4>2
      <4>4. QED
        BY <1>2, <4>1, <4>3
    <3>2. IsStop(u)' <=> IsStop(u)
      BY <1>1 DEF IsStop
    <3>3. QED
      BY <1>1, <3>1, <3>2 DEF StopOwned, Covered
  <2>7. QED
    BY <2>2, <2>3, <2>4, <2>5, <2>6 DEF Sound
<1>14. QED
  BY <1>10, <1>11, <1>12, <1>13 DEF CountInv, Books

LEMMA CrashCounts ==
  ASSUME LiveInv, CountInv, Crash
  PROVE  CountInv'
<1>1. \A u \in Threads : thread'[u].pc = "idle"
  BY IdleType DEF Crash
<1>2. \A u \in Threads : Sound(u)'
  BY <1>1, SoundIdle
<1>3. UNCHANGED <<venue, position>>
  BY DEF Crash
<1>4. Books'
  <2>1. CASE UNCHANGED journal
    BY <1>3, <2>1, BooksUntouched DEF CountInv
  <2>2. ASSUME NEW t \in Threads, NEW r \in Row, thread[t].pc = "read",
               SameOrder(r, journal[thread[t].order]), r.state = "submitting",
               journal' = [journal EXCEPT ![thread[t].order] = r]
        PROVE  Books'
    <3>1. ConsumesEntryAttempt(r)
      BY <2>2 DEF ConsumesEntryAttempt
    <3>2. Writes(t, r)
      BY <1>3, <2>2, <3>1 DEF Writes, BeforePost
    <3>3. QED
      BY <3>2, WriteBooks
  <2>3. QED
    BY <2>1, <2>2, CrashEffect
<1>5. QED
  BY <1>2, <1>4 DEF CountInv

-----------------------------------------------------------------------------
(* The second layer is an invariant too.                                   *)

LEMMA InitCount == Init => CountInv
<1> SUFFICES ASSUME Init PROVE CountInv
  OBVIOUS
<1>1. Rows = {} /\ \A m, a : BotRows(m, a) = {}
  BY DEF Init, Rows, BotRows
<1>2. \A t \in Threads : thread[t].pc = "idle"
  BY IdleType DEF Init
<1>3. \A m, a : Filled(BotRows(m, a)) = 0
  <2>1. FillsOf({}, venue) = 0
    BY FillsOfNone
  <2>2. QED
    BY <1>1, <2>1, FilledNow
<1>4. OneInFlight /\ SaleFits /\ SentIsConsumed
  BY <1>1 DEF OneInFlight, SaleFits, SentIsConsumed
<1>5. AttemptsAllowed
  <2>1. \A m : Consuming(m) = {}
    BY <1>1 DEF Consuming
  <2>2. Retries + 1 \in Nat /\ 0 <= Retries + 1
    BY LiveAssumption
  <2>3. QED
    BY <2>1, <2>2, FS_EmptySet DEF AttemptsAllowed
<1>6. SalesOwned
  BY <1>1, <1>3 DEF SalesOwned, Covered
<1>7. \A t \in Threads : Sound(t)
  BY <1>2 DEF Sound, ReadIsTrue, CopyIsCurrent, RejectedIsDropped, AttemptLeft, StopOwned,
              BeforePost, Copying, Pending
<1>8. QED
  BY <1>4, <1>5, <1>6, <1>7 DEF CountInv, Books

LEMMA NextCount == LiveInv /\ CountInv /\ [Next]_vars => CountInv'
<1> SUFFICES ASSUME LiveInv, CountInv, [Next]_vars PROVE CountInv'
  OBVIOUS
<1>1. CASE UNCHANGED vars
  <2>1. UNCHANGED <<journal, venue, position>> /\ \A u \in Threads : SameWork(u)
    BY <1>1 DEF vars, SameWork
  <2>2. QED
    BY <2>1, SameWorkCounts
<1>2. ASSUME NEW m \in Markets,
             \/ SyncMarkets(m) \/ Close(m) \/ DetectStop(m)
             \/ \E on \in BOOLEAN : Configure(m, on)
             \/ \E t \in Loopers : StepHeld(t, m)
             \/ \E side \in Sides : StepFlat(m, side)
      PROVE  CountInv'
  BY <1>2, OperatorCounts, HeldCounts, FlatCounts
<1>3. CASE PrepareShutdown
  BY <1>3, ShutdownCounts
<1>4. CASE \E u \in Users : UserRequest(u)
  BY <1>4, UserRequestCounts
<1>5. ASSUME NEW t \in Threads, Submission(t) PROVE CountInv'
  BY <1>5, ClaimCounts, HandlersCount, ReadPositionCounts, PostCounts, AcknowledgedCounts
     DEF Submission
<1>6. ASSUME NEW t \in Threads, Reconciliation(t) PROVE CountInv'
  <2>1. CASE LookupFails(t)
    BY <2>1, IdleCounts DEF LookupFails, Become
  <2>2. QED
    BY <1>6, <2>1, FetchCounts, HandlersCount DEF Reconciliation
<1>7. ASSUME NEW o \in Rows,
             StartReconcile(o) \/ Arrive(o) \/ Match(o) \/ \E c \in Checkers : CheckOrder(c, o)
      PROVE  CountInv'
  BY <1>7, LookupCounts, ArriveCounts, MatchCounts
<1>8. CASE Crash
  BY <1>8, CrashCounts
<1>9. QED
  BY <1>1, <1>2, <1>3, <1>4, <1>5, <1>6, <1>7, <1>8 DEF Next

(* The order path's books: what the slot, the market locks and the         *)
(* preflight of _submit keep about counts holds for ever.                  *)
THEOREM CountInvariant == Spec => [](LiveInv /\ CountInv)
<1>1. Init => LiveInv /\ CountInv
  BY InitInv, InitCount
<1>2. (LiveInv /\ CountInv) /\ [Next]_vars => (LiveInv /\ CountInv)'
  BY NextInv, NextCount
<1>3. QED
  BY <1>1, <1>2, PTL DEF Spec

-----------------------------------------------------------------------------
(* What the books are for.                                                 *)

(* At most one order of a market is in flight, so what is in flight is     *)
(* nothing or one order's count.                                           *)
LEMMA InFlightOfOne ==
  ASSUME LiveInv, CountInv, NEW S \in SUBSET Rows, NEW m,
         \A o \in S : journal[o].market = m
  PROVE  \/ InFlight(S) = 0 /\ \A o \in S : ~AtExchange(o)
         \/ \E o \in S : AtExchange(o) /\ InFlight(S) = journal[o].count
<1> DEFINE F == {p \in S : AtExchange(p)}
           f == [o \in F |-> journal[o].count]
<1>1. InFlight(S) = Tally(F, f)
  <2>1. {{o} \X (1..journal[o].count) : o \in F} = {{o} \X (1..f[o]) : o \in F}
    OBVIOUS
  <2>2. QED
    BY <2>1 DEF InFlight, Tally, Tokens
<1>2. CASE F = {}
  BY <1>1, <1>2, TallyNothing
<1>3. ASSUME NEW o \in F PROVE InFlight(S) = journal[o].count
  <2>1. \A p \in F : p = o
    BY <1>3 DEF CountInv, Books, OneInFlight
  <2>2. IsFiniteSet(F)
    BY RowsAreFinite
  <2>3. \A p \in F : f[p] \in Nat
    BY OrderType
  <2> HIDE DEF f, F
  <2>4. Tally(F, f) = Tally(F \ {o}, f) + f[o] /\ f[o] \in Nat
    BY <1>3, <2>2, <2>3, TallySplit
  <2>5. Tally(F \ {o}, f) = 0
    BY <2>1, TallyNothing
  <2>6. f[o] = journal[o].count
    BY <1>3 DEF f
  <2>7. QED
    BY <1>1, <2>4, <2>5, <2>6
<1>4. QED
  BY <1>2, <1>3

(* claim() and the preflight: the sales on the wire, the user's and the    *)
(* bot's together, never exceed the position at the exchange.              *)
THEOREM SalesAreCovered == Spec => []SalesCovered
<1>1. ASSUME LiveInv, CountInv PROVE SalesCovered
  <2> SUFFICES ASSUME NEW m \in Markets, NEW side \in Sides,
                      NEW S, S = {o \in Rows : journal[o].market = m /\ journal[o].action = "sell"
                                               /\ journal[o].side = side}
               PROVE  InFlight(S) <= Holding(position[m], side)
    BY <1>1 DEF SalesCovered
  <2>1. Holding(position[m], side) \in Nat
    BY <1>1, HoldingType DEF LiveInv, TypeOK
  <2>2. \A o \in S : AtExchange(o) => journal[o].count <= Holding(position[m], side)
    BY <1>1 DEF CountInv, Books, SaleFits
  <2>3. QED
    BY <1>1, <2>1, <2>2, InFlightOfOne
<1>2. QED
  BY <1>1, CountInvariant, PTL

(* The exits of _step_locked and the stop monitor: what the bot has sold,  *)
(* and could still sell with the orders on the wire, it has bought.        *)
THEOREM BotSellsItsOwn == Spec => []BotSellsOnlyItsOwn
<1>1. ASSUME LiveInv, CountInv PROVE BotSellsOnlyItsOwn
  <2> SUFFICES ASSUME NEW m \in Markets, NEW S, S = BotRows(m, "sell")
               PROVE  Filled(S) + InFlight(S) <= Filled(BotRows(m, "buy"))
    BY <1>1 DEF BotSellsOnlyItsOwn
  <2>1. Filled(S) + 0 <= Filled(BotRows(m, "buy"))
    BY <1>1 DEF CountInv, Books, SalesOwned, Covered
  <2>2. \A o \in S : AtExchange(o) => Filled(S) + journal[o].count <= Filled(BotRows(m, "buy"))
    BY <1>1 DEF CountInv, Books, SalesOwned, Covered
  <2>3. S \in SUBSET Rows /\ \A o \in S : journal[o].market = m
    BY BotRowsAreRows DEF BotRows
  <2>4. QED
    BY <1>1, <2>1, <2>2, <2>3, InFlightOfOne
<1>2. QED
  BY <1>1, CountInvariant, PTL

(* _step_locked and claim(): one entry of the bot fills in a market, and   *)
(* the attempts that were sent stay within entry_retries.                  *)
THEOREM OneEntry == Spec => []OneEntryPerMarket
<1>1. ASSUME LiveInv, CountInv PROVE OneEntryPerMarket
  <2> SUFFICES ASSUME NEW m \in Markets
               PROVE  /\ Cardinality({o \in BotRows(m, "buy") : venue[o].filled > 0}) <= 1
                      /\ Cardinality({o \in BotRows(m, "buy") : venue[o].posts > 0}) <= Retries + 1
    BY <1>1 DEF OneEntryPerMarket
  <2> DEFINE E == {o \in BotRows(m, "buy") : venue[o].filled > 0}
             P == {o \in BotRows(m, "buy") : venue[o].posts > 0}
  <2>1. Cardinality(E) <= 1
    <3>1. \A o, p \in E : o = p
      BY <1>1 DEF LiveInv, OneLiveEntry, Live
    <3>2. CASE E = {}
      BY <3>2, FS_EmptySet
    <3>3. ASSUME NEW o \in E PROVE Cardinality(E) <= 1
      <4>1. E = {o}
        BY <3>1
      <4>2. Cardinality({o}) = 1
        BY FS_Singleton
      <4> HIDE DEF E
      <4>3. QED
        BY <4>1, <4>2
    <3>4. QED
      BY <3>2, <3>3
  <2>2. P \subseteq Consuming(m)
    <3>1. \A o \in P : venue[o].phase # "none"
      BY <1>1, BotRowsAreRows DEF LiveInv, VenueHistory
    <3>2. QED
      BY <1>1, <3>1, BotRowsAreRows DEF CountInv, Books, SentIsConsumed, Consuming
  <2>3. Retries + 1 \in Nat /\ Cardinality(Consuming(m)) <= Retries + 1
    BY <1>1, LiveAssumption DEF CountInv, Books, AttemptsAllowed
  <2>4. Cardinality(P) <= Retries + 1
    BY <1>1, <2>2, <2>3, FewerAttempts
  <2>5. QED
    BY <2>1, <2>4
<1>2. QED
  BY <1>1, CountInvariant, PTL

-----------------------------------------------------------------------------
(* Buys meet the position they were checked against.                       *)

\* Nothing new is at the exchange, and nothing there has other terms.
SameFlight ==
  /\ UNCHANGED position
  /\ \A o \in Rows' : AtExchange(o)' =>
       o \in Rows /\ AtExchange(o) /\ SameOrder(journal'[o], journal[o])

LEMMA SameFlightFits ==
  ASSUME BuysFit, SameFlight
  PROVE  BuysFit'
  BY DEF BuysFit, SameFlight, SameOrder

LEMMA UntouchedFlight ==
  ASSUME UNCHANGED <<journal, venue, position>>
  PROVE  SameFlight
  BY DEF SameFlight, SameOrder, Rows, AtExchange

LEMMA WrittenFlight ==
  ASSUME LiveInv, CountInv, NEW t \in Threads, NEW r, Writes(t, r)
  PROVE  SameFlight
<1>1. Rows' = Rows /\ \A p \in Rows : SameOrder(journal'[p], journal[p])
  BY WriteEffect
<1>2. QED
  BY <1>1 DEF SameFlight, AtExchange, Writes

LEMMA ClaimedFlight ==
  ASSUME LiveInv, NEW t \in Threads, Claim(t)
  PROVE  SameFlight
<1>1. CASE ClaimRefused(t)
  BY <1>1, UntouchedFlight DEF ClaimRefused, Moves
<1>2. ASSUME NEW y, ClaimInserted(t, y), NEW o, o = Len(journal) + 1
      PROVE  SameFlight
  <2>1. /\ Rows' = Rows \cup {o} /\ \A p \in Rows : journal'[p] = journal[p]
        /\ venue'[o] = Unsent /\ \A p \in Rows : venue'[p] = venue[p]
    BY <1>2, InsertEffect
  <2>2. position' = position
    BY <1>2 DEF ClaimInserted
  <2>3. QED
    BY <2>1, <2>2, UnsentType DEF SameFlight, AtExchange, SameOrder
<1>3. QED
  BY <1>1, <1>2, ClaimCases

LEMMA DecidedFlight ==
  ASSUME NEW m \in Markets,
         \/ SyncMarkets(m) \/ Close(m) \/ DetectStop(m)
         \/ \E on \in BOOLEAN : Configure(m, on)
         \/ \E t \in Loopers : StepHeld(t, m)
         \/ \E side \in Sides : StepFlat(m, side)
  PROVE  SameFlight
<1>1. UNCHANGED <<journal, venue, position>>
  BY DEF SyncMarkets, Close, DetectStop, Configure, StepHeld, StepFlat
<1>2. QED
  BY <1>1, UntouchedFlight

LEMMA CrashedFlight ==
  ASSUME LiveInv, Crash
  PROVE  SameFlight
<1>1. UNCHANGED <<venue, position>>
  BY DEF Crash
<1>2. CASE UNCHANGED journal
  BY <1>1, <1>2, UntouchedFlight
<1>3. ASSUME NEW t \in Threads, NEW r \in Row, NEW o \in Rows,
             SameOrder(r, journal[o]), journal' = [journal EXCEPT ![o] = r]
      PROVE  SameFlight
  <2>1. Rows' = Rows /\ \A p \in Rows : SameOrder(journal'[p], journal[p])
    BY <1>3 DEF LiveInv, TypeOK, Rows, SameOrder
  <2>2. QED
    BY <1>1, <2>1 DEF SameFlight, AtExchange
<1>4. QED
  BY <1>2, <1>3, CrashEffect

LEMMA ArrivedFlight ==
  ASSUME LiveInv, NEW o \in Rows, Arrive(o)
  PROVE  SameFlight
<1>1. PICK v :
        venue' = [venue EXCEPT ![o] = v]
  BY DEF Arrive
<1>2. AtExchange(o) /\ UNCHANGED <<journal, position>> /\ Rows' = Rows
  BY DEF Arrive, AtExchange, Rows
<1>3. \A p \in Rows : p # o => venue'[p] = venue[p]
  BY <1>1 DEF LiveInv, TypeOK, Rows
<1>4. QED
  BY <1>2, <1>3 DEF SameFlight, AtExchange, SameOrder

(* What is sent was just checked, and the holdings it was checked against  *)
(* are still the position.                                                 *)
LEMMA PostFits ==
  ASSUME LiveInv, CountInv, BuysFit, NEW t \in Threads, Post(t)
  PROVE  BuysFit'
<1> SUFFICES ASSUME NEW o, o = thread[t].order
             PROVE  BuysFit'
  OBVIOUS
<1>1. /\ o \in Rows /\ thread[t].pc = "read" /\ position' = position /\ Rows' = Rows
      /\ journal'[o].action = "buy" =>
           /\ Holding(thread[t].held, Opposite(journal'[o].side)) = 0
           /\ journal'[o].bot => thread[t].held = 0
      /\ SameOrder(journal'[o], thread[t].row)
      /\ \A p \in Rows : p # o => journal'[p] = journal[p] /\ venue'[p] = venue[p]
  BY PostRow
<1>2. thread[t].held = position[journal'[o].market]
  BY <1>1 DEF CountInv, Sound, ReadIsTrue, SameOrder
<1>3. ASSUME NEW p \in Rows, p # o, AtExchange(p)', journal'[p].action = "buy"
      PROVE  /\ Holding(position[journal'[p].market], Opposite(journal'[p].side)) = 0
             /\ journal'[p].bot => position[journal'[p].market] = 0
  <2>1. journal'[p] = journal[p] /\ AtExchange(p)
    BY <1>1, <1>3 DEF AtExchange
  <2>2. QED
    BY <1>3, <2>1 DEF BuysFit
<1>4. QED
  BY <1>1, <1>2, <1>3 DEF BuysFit

(* A fill moves the position of its own market only, in which nothing else *)
(* is at the exchange.                                                     *)
LEMMA MatchFits ==
  ASSUME LiveInv, CountInv, BuysFit, NEW o \in Rows, Match(o)
  PROVE  BuysFit'
<1>1. /\ venue[o].phase = "open"
      /\ UNCHANGED <<journal, thread>> /\ Rows' = Rows
      /\ venue'[o].phase = "done"
      /\ \A p \in Rows : p # o => venue'[p] = venue[p]
      /\ \A m \in Markets : m # journal[o].market => position'[m] = position[m]
  BY MatchEffect
<1>2. ASSUME NEW p \in Rows, AtExchange(p)'
      PROVE  AtExchange(p) /\ position'[journal[p].market] = position[journal[p].market]
  <2>1. p # o
    BY <1>1, <1>2 DEF AtExchange
  <2>2. AtExchange(p) /\ AtExchange(o)
    BY <1>1, <1>2, <2>1 DEF AtExchange
  <2>3. journal[p].market # journal[o].market
    BY <2>1, <2>2 DEF CountInv, Books, OneInFlight
  <2>4. journal[p].market \in Markets
    BY OrderType DEF Row
  <2>5. QED
    BY <1>1, <2>2, <2>3, <2>4
<1>3. QED
  BY <1>1, <1>2 DEF BuysFit

LEMMA NextFits ==
  ASSUME LiveInv, CountInv, BuysFit, [Next]_vars
  PROVE  BuysFit'
<1>1. CASE UNCHANGED vars
  BY <1>1, UntouchedFlight, SameFlightFits DEF vars
<1>2. ASSUME NEW m \in Markets,
             \/ SyncMarkets(m) \/ Close(m) \/ DetectStop(m)
             \/ \E on \in BOOLEAN : Configure(m, on)
             \/ \E t \in Loopers : StepHeld(t, m)
             \/ \E side \in Sides : StepFlat(m, side)
      PROVE  BuysFit'
  BY <1>2, DecidedFlight, SameFlightFits
<1>3. CASE PrepareShutdown
  BY <1>3, UntouchedFlight, SameFlightFits DEF PrepareShutdown
<1>4. CASE \E u \in Users : UserRequest(u)
  BY <1>4, UntouchedFlight, SameFlightFits DEF UserRequest, UserSubmit
<1>5. ASSUME NEW t \in Threads, Submission(t) PROVE BuysFit'
  <2>1. CASE Claim(t)
    BY <2>1, ClaimedFlight, SameFlightFits
  <2>2. CASE ReadPosition(t)
    BY <2>2, UntouchedFlight, SameFlightFits DEF ReadPosition
  <2>3. CASE Post(t)
    BY <2>3, PostFits
  <2>4. CASE PreflightFails(t) \/ PreflightRejects(t) \/ Refused(t) \/ Unconfirmed(t)
    BY <2>4, HandlersWrite, WrittenFlight, SameFlightFits
  <2>5. CASE Acknowledged(t)
    BY <2>5, AcknowledgedWrites, WrittenFlight, SameFlightFits
  <2>6. QED
    BY <1>5, <2>1, <2>2, <2>3, <2>4, <2>5 DEF Submission
<1>6. ASSUME NEW t \in Threads, Reconciliation(t) PROVE BuysFit'
  <2>1. CASE Fetch(t) \/ LookupFails(t)
    BY <2>1, UntouchedFlight, SameFlightFits DEF Fetch, LookupFails
  <2>2. CASE Reconcile(t)
    BY <2>2, HandlersWrite, WrittenFlight, SameFlightFits
  <2>3. QED
    BY <1>6, <2>1, <2>2 DEF Reconciliation
<1>7. ASSUME NEW o \in Rows,
             StartReconcile(o) \/ Arrive(o) \/ Match(o) \/ \E c \in Checkers : CheckOrder(c, o)
      PROVE  BuysFit'
  <2>1. CASE StartReconcile(o) \/ \E c \in Checkers : CheckOrder(c, o)
    BY <2>1, UntouchedFlight, SameFlightFits DEF StartReconcile, CheckOrder
  <2>2. CASE Arrive(o)
    BY <2>2, ArrivedFlight, SameFlightFits
  <2>3. CASE Match(o)
    BY <2>3, MatchFits
  <2>4. QED
    BY <1>7, <2>1, <2>2, <2>3
<1>8. CASE Crash
  BY <1>8, CrashedFlight, SameFlightFits
<1>9. QED
  BY <1>1, <1>2, <1>3, <1>4, <1>5, <1>6, <1>7, <1>8 DEF Next

(* Only the exchange's match fills an order, which was at the exchange.    *)
LEMMA OnlyMatchFills ==
  ASSUME LiveInv, [Next]_vars, NEW o \in Rows, venue'[o].filled > venue[o].filled
  PROVE  venue[o].phase = "open"
<1>0. venue[o].filled \in Nat
  BY OrderType DEF VenueOrder
<1>1. venue'[o] # venue[o]
  BY <1>0
<1>2. CASE \E p \in Rows : Match(p)
  <2>1. PICK p \in Rows : Match(p)
    BY <1>2
  <2>2. p = o /\ venue[p].phase = "open"
    BY <1>1, <2>1, MatchEffect
  <2>3. QED
    BY <2>2
<1>3. CASE \E p \in Rows : Arrive(p)
  <2>1. PICK p \in Rows, phase \in {"open", "refused"} :
          venue' = [venue EXCEPT ![p] = [venue[p] EXCEPT !.phase = phase]]
    BY <1>3 DEF Arrive
  <2>2. [venue[p] EXCEPT !.phase = phase].filled = venue[p].filled
    BY OrderType DEF VenueOrder
  <2>3. venue'[o].filled = venue[o].filled
    BY <2>1, <2>2 DEF LiveInv, TypeOK, Rows
  <2>4. QED
    BY <1>0, <2>3
<1>4. CASE \E t \in Threads : Post(t)
  <2>1. PICK t \in Threads : Post(t)
    BY <1>4
  <2>2. venue'[o].filled = venue[o].filled
    <3>1. /\ venue'[thread[t].order].filled = venue[thread[t].order].filled
          /\ \A p \in Rows : p # thread[t].order => venue'[p] = venue[p]
      BY <2>1, PostRow
    <3>2. QED
      BY <3>1
  <2>3. QED
    BY <1>0, <2>2
<1>5. CASE \E t \in Threads : Claim(t)
  <2>1. PICK t \in Threads : Claim(t)
    BY <1>5
  <2>2. CASE ClaimRefused(t)
    BY <1>1, <2>2 DEF ClaimRefused, Moves
  <2>3. ASSUME NEW y, ClaimInserted(t, y) PROVE FALSE
    BY <1>1, <2>3, InsertEffect
  <2>4. QED
    BY <2>1, <2>2, <2>3, ClaimCases
<1>6. CASE UNCHANGED venue
  BY <1>1, <1>6
<1>7. QED
  <2>1. ASSUME NEW t \in Threads, Submission(t) \/ Reconciliation(t)
        PROVE  Claim(t) \/ Post(t) \/ UNCHANGED venue
    BY <2>1 DEF Submission, Reconciliation, PreflightFails, ReadPosition, PreflightRejects,
                Refused, Acknowledged, Unconfirmed, Fetch, LookupFails, Reconcile
  <2>2. ASSUME NEW m \in Markets,
               \/ SyncMarkets(m) \/ Close(m) \/ DetectStop(m)
               \/ \E on \in BOOLEAN : Configure(m, on)
               \/ \E t \in Loopers : StepHeld(t, m)
               \/ \E side \in Sides : StepFlat(m, side)
        PROVE  UNCHANGED venue
    BY <2>2 DEF SyncMarkets, Close, DetectStop, Configure, StepHeld, StepFlat
  <2>3. PrepareShutdown \/ Crash \/ (\E u \in Users : UserRequest(u)) => UNCHANGED venue
    BY DEF PrepareShutdown, Crash, UserRequest, UserSubmit
  <2>4. ASSUME NEW p \in Rows, StartReconcile(p) \/ \E c \in Checkers : CheckOrder(c, p)
        PROVE  UNCHANGED venue
    BY <2>4 DEF StartReconcile, CheckOrder
  <2>5. QED
    BY <1>2, <1>3, <1>4, <1>5, <1>6, <2>1, <2>2, <2>3, <2>4 DEF Next, vars

(* The holdings check of the preflight: although it is made before the     *)
(* POST, an automatic buy fills only onto a flat position, and no buy nets *)
(* out the opposite side.                                                  *)
THEOREM BuysAreOntoFlat == Spec => BuysOntoFlat
<1>1. Init => LiveInv /\ CountInv /\ BuysFit
  BY InitInv, InitCount DEF BuysFit, Init, Rows
<1>2. (LiveInv /\ CountInv /\ BuysFit) /\ [Next]_vars => (LiveInv /\ CountInv /\ BuysFit)'
  BY NextInv, NextCount, NextFits
<1>3. (LiveInv /\ CountInv /\ BuysFit) /\ [Next]_vars =>
        [\A o \in Rows :
           venue'[o].filled > venue[o].filled /\ journal[o].action = "buy" =>
             IF journal[o].bot THEN position[journal[o].market] = 0
             ELSE Holding(position[journal[o].market], Opposite(journal[o].side)) = 0]_vars
  <2>1. ASSUME LiveInv, BuysFit, [Next]_vars, NEW o \in Rows,
               venue'[o].filled > venue[o].filled, journal[o].action = "buy"
        PROVE  /\ Holding(position[journal[o].market], Opposite(journal[o].side)) = 0
               /\ journal[o].bot => position[journal[o].market] = 0
    BY <2>1, OnlyMatchFills DEF BuysFit, AtExchange
  <2>2. QED
    BY <2>1
<1>4. QED
  BY <1>1, <1>2, <1>3, PTL DEF Spec, BuysOntoFlat

-----------------------------------------------------------------------------
(* The order path uses the slot as the priority lock allows.               *)

wantBar == [t \in Threads |-> InterestOf(t)]
holderBar == IF SlotFree THEN Nobody ELSE CHOOSE t \in Threads : InSlot(t)

\* As far as the slot is concerned nothing happened to u.
SameInterest(u) == InterestOf(u)' = InterestOf(u) /\ (InSlot(u)' <=> InSlot(u))

LEMMA FreeBar == (SlotFree => holderBar = Nobody) /\ (SlotFree' => holderBar' = Nobody)
  BY DEF holderBar

LEMMA HolderBar ==
  ASSUME SlotExclusive, NEW t \in Threads, InSlot(t)
  PROVE  holderBar = t
<1>1. \A u \in Threads : InSlot(u) => u = t
  BY DEF SlotExclusive
<1>2. (CHOOSE u \in Threads : InSlot(u)) = t
  BY <1>1
<1>3. QED
  BY <1>2 DEF holderBar, SlotFree

LEMMA NextHolderBar ==
  ASSUME SlotExclusive', NEW t \in Threads, InSlot(t)'
  PROVE  holderBar' = t
<1>1. \A u \in Threads : InSlot(u)' => u = t
  BY DEF SlotExclusive
<1>2. (CHOOSE u \in Threads : InSlot(u)') = t
  BY <1>1
<1>3. QED
  BY <1>2 DEF holderBar, SlotFree

LEMMA SameHolder ==
  ASSUME SlotExclusive, SlotExclusive', \A u \in Threads : InSlot(u)' <=> InSlot(u)
  PROVE  holderBar' = holderBar
<1>1. CASE SlotFree
  <2>1. SlotFree'
    BY <1>1 DEF SlotFree
  <2>2. QED
    BY <1>1, <2>1, FreeBar
<1>2. CASE ~SlotFree
  <2>1. PICK t \in Threads : InSlot(t)
    BY <1>2 DEF SlotFree
  <2>2. QED
    BY <2>1, HolderBar, NextHolderBar
<1>3. QED
  BY <1>1, <1>2

LEMMA SlotStays ==
  ASSUME SlotExclusive, SlotExclusive', \A u \in Threads : SameInterest(u)
  PROVE  UNCHANGED <<wantBar, holderBar>>
<1>1. holderBar' = holderBar
  BY SameHolder DEF SameInterest
<1>2. wantBar' = wantBar
  BY DEF wantBar, SameInterest
<1>3. QED
  BY <1>1, <1>2

LEMMA OthersStay ==
  ASSUME TypeOK, NEW t \in Threads, NEW y, thread' = [thread EXCEPT ![t] = y]
  PROVE  thread'[t] = y /\ \A u \in Threads : u # t => SameInterest(u)
<1>1. thread'[t] = y /\ \A u \in Threads : u # t => thread'[u] = thread[u]
  BY DEF TypeOK
<1>2. QED
  BY <1>1 DEF SameInterest, InterestOf, InSlot, IsStop

(* The interest of a coroutine, place by place.                            *)
LEMMA Interests ==
  ASSUME NEW t \in Threads
  PROVE  /\ thread[t].pc \in {"idle", "lookup", "found"} => InterestOf(t) = "none" /\ ~InSlot(t)
         /\ thread[t].pc = "queued" \/ InSlot(t) =>
              /\ InterestOf(t) = IF IsStop(t) THEN "stop"
                                 ELSE IF thread[t].row.action = "buy" THEN "buy" ELSE "other"
              /\ InterestOf(t) # "none" /\ InterestOf(t) \in Slot!Kinds
              /\ InterestOf(t) = "stop" => IsStop(t)
         /\ thread[t].pc = "queued" => ~InSlot(t)
  BY DEF InterestOf, InSlot, SlotPlaces, Slot!Kinds

LEMMA NextInterests ==
  ASSUME NEW t \in Threads
  PROVE  /\ thread'[t].pc \in {"idle", "lookup", "found"} =>
              InterestOf(t)' = "none" /\ ~InSlot(t)'
         /\ thread'[t].pc = "queued" =>
              InterestOf(t)' # "none" /\ InterestOf(t)' \in Slot!Kinds /\ ~InSlot(t)'
         /\ thread'[t].pc \in SlotPlaces =>
              /\ InSlot(t)'
              /\ InterestOf(t)' = IF IsStop(t)' THEN "stop"
                                  ELSE IF thread'[t].row.action = "buy" THEN "buy" ELSE "other"
  BY DEF InterestOf, InSlot, SlotPlaces, Slot!Kinds

(* A step of a coroutine that is not about the slot.                       *)
LEMMA ElsewhereStays ==
  ASSUME LiveInv, SlotExclusive', NEW t \in Threads, NEW y,
         thread' = [thread EXCEPT ![t] = y],
         \/ /\ thread[t].pc \in {"idle", "lookup", "found"}
            /\ y.pc \in {"idle", "lookup", "found"}
         \/ /\ InSlot(t) /\ y.pc \in SlotPlaces
            /\ SameOrder(y.row, thread[t].row)
  PROVE  UNCHANGED <<wantBar, holderBar>>
<1>1. thread'[t] = y /\ \A u \in Threads : u # t => SameInterest(u)
  BY OthersStay DEF LiveInv
<1>2. SameInterest(t)
  <2>1. CASE thread[t].pc \in {"idle", "lookup", "found"} /\ y.pc \in {"idle", "lookup", "found"}
    BY <1>1, <2>1, Interests, NextInterests DEF SameInterest
  <2>2. CASE InSlot(t) /\ y.pc \in SlotPlaces /\ SameOrder(y.row, thread[t].row)
    <3>1. (IsStop(t)' <=> IsStop(t)) /\ thread'[t].row.action = thread[t].row.action
      BY <1>1, <2>2 DEF IsStop, SameOrder
    <3>2. QED
      BY <1>1, <2>2, <3>1, Interests, NextInterests DEF SameInterest
  <2>3. QED
    BY <2>1, <2>2
<1>3. QED
  BY <1>1, <1>2, SlotStays DEF LiveInv

(* An order is decided: its coroutine asks for the slot.                   *)
LEMMA AskingIsARequest ==
  ASSUME LiveInv, SlotExclusive', NEW t \in Threads,
         \A u \in Threads : u # t => SameInterest(u),
         thread[t].pc = "idle", thread'[t].pc = "queued"
  PROVE  \E k \in Slot!Kinds : Slot!Request(t, k)
<1> DEFINE k == InterestOf(t)'
<1>1. InterestOf(t) = "none" /\ ~InSlot(t) /\ k \in Slot!Kinds /\ ~InSlot(t)'
  BY Interests, NextInterests
<1>2. \A u \in Threads : InSlot(u)' <=> InSlot(u)
  BY <1>1 DEF SameInterest
<1>3. holderBar' = holderBar
  BY <1>2, SameHolder DEF LiveInv
<1>4. wantBar[t] = "none" /\ wantBar' = [wantBar EXCEPT ![t] = k]
  <2>1. \A u \in Threads : u # t => InterestOf(u)' = InterestOf(u)
    BY DEF SameInterest
  <2> HIDE DEF k
  <2>2. \A u \in Threads : InterestOf(u)' = IF u = t THEN k ELSE InterestOf(u)
    BY <2>1 DEF k
  <2>3. QED
    BY <1>1, <2>2 DEF wantBar
<1> HIDE DEF k
<1>5. Slot!Request(t, k)
  BY <1>3, <1>4 DEF Slot!Request, wantBar, holderBar
<1>6. QED
  BY <1>1, <1>5

(* claim() inserts the row: its coroutine has the slot.                    *)
LEMMA ClaimingEnters ==
  ASSUME LiveInv, SlotExclusive', NEW t \in Threads,
         \A u \in Threads : u # t => SameInterest(u),
         thread[t].pc = "queued", SlotFree, thread[t].row.action = "buy" => ~StopPending,
         thread'[t].pc = "preflight", thread'[t].row = thread[t].row
  PROVE  Slot!Enter(t)
<1>1. InSlot(t)' /\ InterestOf(t)' = InterestOf(t) /\ InterestOf(t) # "none"
      /\ (InterestOf(t) = "buy" => thread[t].row.action = "buy")
  <2>1. IsStop(t)' <=> IsStop(t)
    BY DEF IsStop
  <2>2. thread'[t].pc \in SlotPlaces
    BY DEF SlotPlaces
  <2>3. QED
    BY <2>1, <2>2, Interests, NextInterests
<1>2. holderBar = Nobody /\ holderBar' = t
  BY <1>1, FreeBar, NextHolderBar
<1>3. wantBar' = wantBar /\ wantBar[t] # "none"
  BY <1>1 DEF wantBar, SameInterest
<1>4. wantBar[t] = "buy" => ~Slot!StopWanted
  <2> SUFFICES ASSUME NEW u \in Threads, wantBar[u] = "stop", wantBar[t] = "buy" PROVE FALSE
    BY DEF Slot!StopWanted, wantBar
  <2>1. InterestOf(u) = "stop" /\ ~InSlot(u)
    BY DEF wantBar, SlotFree
  <2>2. thread[u].pc = "queued" /\ IsStop(u)
    BY <2>1 DEF InterestOf
  <2>3. QED
    BY <1>1, <2>2 DEF StopPending, wantBar
<1>5. QED
  BY <1>2, <1>3, <1>4 DEF Slot!Enter, wantBar, holderBar

LEMMA Forgets ==
  ASSUME NEW t \in Threads, \A u \in Threads : u # t => SameInterest(u),
         thread'[t].pc = "idle"
  PROVE  wantBar' = [wantBar EXCEPT ![t] = "none"] /\ ~InSlot(t)'
<1>1. InterestOf(t)' = "none" /\ ~InSlot(t)'
  BY NextInterests
<1>2. QED
  BY <1>1 DEF wantBar, SameInterest

(* claim() refuses it.                                                     *)
LEMMA RefusalAbandons ==
  ASSUME LiveInv, NEW t \in Threads,
         \A u \in Threads : u # t => SameInterest(u),
         thread[t].pc = "queued", SlotFree, thread'[t].pc = "idle"
  PROVE  Slot!Abandon(t)
<1>1. wantBar' = [wantBar EXCEPT ![t] = "none"] /\ ~InSlot(t)'
  BY Forgets
<1>2. SlotFree'
  BY <1>1 DEF SlotFree, SameInterest
<1>3. holderBar = Nobody /\ holderBar' = holderBar /\ Nobody # t
  BY <1>2, FreeBar, LiveAssumption
<1>4. wantBar[t] # "none"
  BY Interests DEF wantBar
<1>5. QED
  BY <1>1, <1>3, <1>4 DEF Slot!Abandon, wantBar, holderBar

(* _submit ends.                                                           *)
LEMMA EndingLeaves ==
  ASSUME LiveInv, NEW t \in Threads,
         \A u \in Threads : u # t => SameInterest(u),
         InSlot(t), thread'[t].pc = "idle"
  PROVE  Slot!Leave(t)
<1>1. wantBar' = [wantBar EXCEPT ![t] = "none"] /\ ~InSlot(t)'
  BY Forgets
<1>2. \A u \in Threads : ~InSlot(u)'
  BY <1>1 DEF LiveInv, SlotExclusive, SameInterest
<1>3. holderBar = t /\ holderBar' = Nobody
  BY <1>2, FreeBar, HolderBar DEF LiveInv, SlotFree
<1>4. QED
  BY <1>1, <1>3 DEF Slot!Leave, wantBar, holderBar

SlotMoves == Slot!SlotNext \/ UNCHANGED <<wantBar, holderBar>>

LEMMA QuietForTheSlot ==
  ASSUME LiveInv, SlotExclusive', thread' = thread \/ thread' = AllChanged
  PROVE  SlotMoves
<1>1. \A u \in Threads : thread'[u].pc = thread[u].pc /\ thread'[u].row = thread[u].row
  BY AllChangedType DEF LiveInv
<1>2. \A u \in Threads : SameInterest(u)
  BY <1>1 DEF SameInterest, InterestOf, InSlot, IsStop
<1>3. QED
  BY <1>2, SlotStays DEF SlotMoves, LiveInv

LEMMA DecisionMovesSlot ==
  ASSUME LiveInv, SlotExclusive', NEW t \in Threads, thread[t].pc = "idle",
         NEW row, NEW order, thread' = [thread EXCEPT ![t] = Submit(t, row, order)]
  PROVE  SlotMoves
<1> DEFINE y == Submit(t, row, order)
<1>1. y.pc = "queued"
  BY SubmitOf
<1>2. thread' = [thread EXCEPT ![t] = y]
  OBVIOUS
<1> HIDE DEF y
<1>3. thread'[t].pc = "queued" /\ \A u \in Threads : u # t => SameInterest(u)
  BY <1>1, <1>2, OthersStay DEF LiveInv
<1>4. QED
  BY <1>3, AskingIsARequest DEF SlotMoves, Slot!SlotNext

LEMMA UserMovesSlot ==
  ASSUME LiveInv, SlotExclusive', NEW u \in Users, NEW row, NEW order, UserSubmit(u, row, order)
  PROVE  SlotMoves
<1> DEFINE others == IF Exists(row.market) THEN AllChanged ELSE thread
           y == Submit(u, row, order)
<1>1. u \in Threads /\ thread' = [others EXCEPT ![u] = y] /\ thread[u].pc = "idle"
  BY DEF UserSubmit, Threads
<1>2. /\ others \in [Threads -> Thread]
      /\ \A t \in Threads :
           others[t].pc = thread[t].pc /\ others[t].row = thread[t].row
  BY AllChangedType DEF LiveInv, TypeOK
<1>3. y.pc = "queued"
  BY SubmitOf
<1> HIDE DEF others, y
<1>4. thread'[u].pc = "queued"
  BY <1>1, <1>2, <1>3
<1>5. \A t \in Threads : t # u => thread'[t].pc = thread[t].pc /\ thread'[t].row = thread[t].row
  BY <1>1, <1>2
<1>6. \A t \in Threads : t # u => SameInterest(t)
  BY <1>5 DEF SameInterest, InterestOf, InSlot, IsStop
<1>7. QED
  BY <1>1, <1>4, <1>6, AskingIsARequest DEF SlotMoves, Slot!SlotNext

LEMMA ClaimMovesSlot ==
  ASSUME LiveInv, SlotExclusive', NEW t \in Threads, Claim(t)
  PROVE  SlotMoves
<1>1. thread[t].pc = "queued" /\ SlotFree /\ (thread[t].row.action = "buy" => ~StopPending)
  BY DEF Claim
<1>2. CASE ClaimRefused(t)
  <2>1. thread' = [thread EXCEPT ![t] = Idle]
    BY <1>2 DEF ClaimRefused, Moves
  <2>2. thread'[t].pc = "idle" /\ \A u \in Threads : u # t => SameInterest(u)
    BY <2>1, OthersStay, IdleType DEF LiveInv
  <2>3. QED
    BY <1>1, <2>2, RefusalAbandons DEF SlotMoves, Slot!SlotNext
<1>3. ASSUME NEW y, ClaimInserted(t, y) PROVE SlotMoves
  <2>1. thread' = [thread EXCEPT ![t] = y] /\ y.pc = "preflight" /\ y.row = thread[t].row
    BY <1>3 DEF ClaimInserted
  <2>2. thread'[t] = y /\ \A u \in Threads : u # t => SameInterest(u)
    BY <2>1, OthersStay DEF LiveInv
  <2>3. QED
    BY <1>1, <2>1, <2>2, ClaimingEnters DEF SlotMoves, Slot!SlotNext
<1>4. QED
  BY <1>2, <1>3, ClaimCases

LEMMA SubmissionMovesSlot ==
  ASSUME LiveInv, CountInv, SlotExclusive', NEW t \in Threads,
         Submission(t) \/ Reconciliation(t)
  PROVE  SlotMoves
<1>1. CASE Claim(t)
  BY <1>1, ClaimMovesSlot
<1>2. CASE ReadPosition(t)
  <2> DEFINE y == [thread[t] EXCEPT !.pc = "read", !.held = position[thread[t].row.market]]
  <2>1. y.pc = "read" /\ y.row = thread[t].row
    BY DEF LiveInv, TypeOK, Thread
  <2>2. thread' = [thread EXCEPT ![t] = y] /\ InSlot(t)
    BY <1>2 DEF ReadPosition, Become, InSlot, SlotPlaces
  <2> HIDE DEF y
  <2>3. y.pc \in SlotPlaces /\ SameOrder(y.row, thread[t].row)
    BY <2>1 DEF SlotPlaces, SameOrder
  <2>4. QED
    BY <2>2, <2>3, ElsewhereStays DEF SlotMoves
<1>3. CASE Post(t)
  <2>1. PICK r \in Row, y \in Thread :
          /\ thread[t].pc = "read" /\ SameOrder(r, thread[t].row)
          /\ y.pc = "posting" /\ SameOrder(y.row, r)
          /\ thread' = [thread EXCEPT ![t] = y]
    BY <1>3, PostEffect
  <2>2. SameOrder(y.row, thread[t].row)
    BY <2>1, SameOrderTransitive
  <2>3. QED
    BY <2>1, <2>2, ElsewhereStays DEF SlotMoves, InSlot, SlotPlaces
<1>4. CASE Acknowledged(t)
  <2>1. PICK r, y :
          /\ r \in Row /\ Writes(t, r)
          /\ thread' = [thread EXCEPT ![t] = y]
          /\ y.pc = "acked" /\ y.row = r
    BY <1>4, AcknowledgedWrites
  <2>2. thread[t].pc = "posting" /\ SameOrder(thread[t].row, journal[thread[t].order])
    BY <1>4 DEF Acknowledged, LiveInv, OwnCopy
  <2>3. SameOrder(y.row, thread[t].row)
    BY <2>1, <2>2 DEF Writes, SameOrder
  <2>4. QED
    BY <2>1, <2>2, <2>3, ElsewhereStays DEF SlotMoves, InSlot, SlotPlaces
<1>5. CASE Fetch(t)
  <2> DEFINE place == IF thread[t].pc = "acked" THEN "fetched" ELSE "found"
             y == [thread[t] EXCEPT !.pc = place, !.seen = venue[thread[t].order]]
  <2>1. y.pc = place /\ y.row = thread[t].row
    BY DEF LiveInv, TypeOK, Thread
  <2>2. thread' = [thread EXCEPT ![t] = y] /\ thread[t].pc \in {"acked", "lookup"}
    BY <1>5 DEF Fetch, Become
  <2> HIDE DEF y
  <2>3. SameOrder(y.row, thread[t].row)
    BY <2>1 DEF SameOrder
  <2>4. CASE thread[t].pc = "acked"
    BY <2>1, <2>2, <2>3, <2>4, ElsewhereStays DEF SlotMoves, InSlot, SlotPlaces
  <2>5. CASE thread[t].pc = "lookup"
    BY <2>1, <2>2, <2>5, ElsewhereStays DEF SlotMoves
  <2>6. QED
    BY <2>2, <2>4, <2>5
<1>6. CASE PreflightFails(t) \/ PreflightRejects(t) \/ Refused(t) \/ Unconfirmed(t) \/ Reconcile(t)
           \/ LookupFails(t)
  <2>1. thread' = [thread EXCEPT ![t] = Idle] /\ (InSlot(t) \/ thread[t].pc \in {"lookup", "found"})
    BY <1>6 DEF PreflightFails, PreflightRejects, Refused, Unconfirmed, Reconcile, LookupFails,
                Finish, Become, InSlot, SlotPlaces
  <2>2. CASE InSlot(t)
    <3>1. thread'[t].pc = "idle" /\ \A u \in Threads : u # t => SameInterest(u)
      BY <2>1, OthersStay, IdleType DEF LiveInv
    <3>2. QED
      BY <2>2, <3>1, EndingLeaves DEF SlotMoves, Slot!SlotNext
  <2>3. CASE thread[t].pc \in {"lookup", "found"}
    BY <2>1, <2>3, IdleType, ElsewhereStays DEF SlotMoves
  <2>4. QED
    BY <2>1, <2>2, <2>3
<1>7. QED
  BY <1>1, <1>2, <1>3, <1>4, <1>5, <1>6 DEF Submission, Reconciliation

LEMMA LookupMovesSlot ==
  ASSUME LiveInv, SlotExclusive', NEW o \in Rows,
         StartReconcile(o) \/ \E c \in Checkers : CheckOrder(c, o)
  PROVE  SlotMoves
<1> DEFINE y == [Idle EXCEPT !.pc = "lookup", !.order = o, !.row = journal[o]]
<1>1. PICK t \in Threads : Lookup(t, o) /\ thread[t].pc = "idle"
  BY WorkerIsAThread DEF StartReconcile, CheckOrder, Threads
<1>2. thread' = [thread EXCEPT ![t] = y]
  BY <1>1 DEF Lookup, Become
<1>3. y.pc = "lookup"
  BY DEF Idle
<1> HIDE DEF y
<1>4. QED
  BY <1>1, <1>2, <1>3, ElsewhereStays DEF SlotMoves

LEMMA CrashMovesSlot ==
  ASSUME Crash
  PROVE  SlotMoves
<1>1. \A u \in Threads : thread'[u].pc = "idle"
  BY IdleType DEF Crash
<1>2. \A u \in Threads : InterestOf(u)' = "none" /\ ~InSlot(u)'
  BY <1>1, NextInterests
<1>3. holderBar' = Nobody
  BY <1>2, FreeBar DEF SlotFree
<1>4. wantBar' = [u \in Threads |-> "none"]
  BY <1>2 DEF wantBar
<1>5. Slot!Restart
  BY <1>3, <1>4 DEF Slot!Restart, wantBar, holderBar
<1>6. QED
  BY <1>5 DEF SlotMoves, Slot!SlotNext

(* _submit, the loop, the stop tasks and the user's requests together use  *)
(* submission_slot as the lock it promises to be: one inside at a time,    *)
(* and no buy while a stop waits.                                          *)
THEOREM OrdersUsePriorityLock == Spec => UsesPriorityLock
<1>1. Init => Slot!SlotInit
  <2> SUFFICES ASSUME Init PROVE Slot!SlotInit
    OBVIOUS
  <2>1. \A u \in Threads : thread[u].pc = "idle"
    BY IdleType DEF Init
  <2>2. \A u \in Threads : InterestOf(u) = "none" /\ ~InSlot(u)
    BY <2>1, Interests
  <2>3. holderBar = Nobody
    BY <2>2, FreeBar DEF SlotFree
  <2>4. wantBar = [u \in Threads |-> "none"]
    BY <2>2 DEF wantBar
  <2>5. QED
    BY <2>3, <2>4 DEF Slot!SlotInit, wantBar, holderBar
<1>2. (LiveInv /\ CountInv) /\ (LiveInv /\ CountInv)' /\ [Next]_vars =>
        [Slot!SlotNext]_(Slot!slotVars)
  <2> SUFFICES ASSUME LiveInv, CountInv, SlotExclusive', [Next]_vars
               PROVE  SlotMoves
    BY DEF LiveInv, SlotMoves, Slot!slotVars, wantBar, holderBar
  <2>1. CASE UNCHANGED vars
    BY <2>1, QuietForTheSlot DEF vars
  <2>2. ASSUME NEW m \in Markets,
               \/ SyncMarkets(m) \/ Close(m) \/ DetectStop(m)
               \/ \E on \in BOOLEAN : Configure(m, on)
        PROVE  SlotMoves
    BY <2>2, QuietForTheSlot DEF SyncMarkets, Close, DetectStop, Configure
  <2>3. ASSUME NEW m \in Markets, NEW t \in Loopers, StepHeld(t, m) PROVE SlotMoves
    BY <2>3, DecisionMovesSlot DEF StepHeld, Threads
  <2>4. ASSUME NEW m \in Markets, NEW side \in Sides, StepFlat(m, side) PROVE SlotMoves
    BY <2>4, WorkerIsAThread, DecisionMovesSlot DEF StepFlat
  <2>5. CASE PrepareShutdown
    BY <2>5, QuietForTheSlot DEF PrepareShutdown
  <2>6. CASE \E u \in Users : UserRequest(u)
    BY <2>6, UserMovesSlot DEF UserRequest
  <2>7. ASSUME NEW t \in Threads, Submission(t) \/ Reconciliation(t) PROVE SlotMoves
    BY <2>7, SubmissionMovesSlot
  <2>8. ASSUME NEW o \in Rows,
               StartReconcile(o) \/ Arrive(o) \/ Match(o) \/ \E c \in Checkers : CheckOrder(c, o)
        PROVE  SlotMoves
    <3>1. CASE Arrive(o) \/ Match(o)
      BY <3>1, QuietForTheSlot DEF Arrive, Match
    <3>2. QED
      BY <2>8, <3>1, LookupMovesSlot
  <2>9. CASE Crash
    BY <2>9, CrashMovesSlot
  <2>10. QED
    BY <2>1, <2>2, <2>3, <2>4, <2>5, <2>6, <2>7, <2>8, <2>9 DEF Next
<1>3. QED
  BY <1>1, <1>2, CountInvariant, PTL DEF Spec, UsesPriorityLock, Slot!SlotSpec
=============================================================================
