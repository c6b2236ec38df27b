-------------------------- MODULE LiveTrading_proofs --------------------------
(***************************************************************************)
(* Proofs about LiveTrading for any number of markets, connections, orders *)
(* and restarts.  LiveInv is shown to be inductive, one lemma per action   *)
(* or per kind of action; the theorems at the end follow from it.          *)
(***************************************************************************)
EXTENDS LiveTradingInv, FiniteSetTheorems, TLAPS

-----------------------------------------------------------------------------
(* Records: what an update of a row or of a control keeps.                 *)

States == UNRESOLVED \cup {"complete", "rejected"}

LEMMA IdleType == Idle \in Thread /\ Idle.pc = "idle"
  BY DEF Idle, Thread, Places, SlotPlaces, NoRow, NewRow, Unsent, VenueOrder, Phases

LEMMA UnsentType ==
  Unsent \in VenueOrder /\ Unsent.phase = "none" /\ Unsent.filled = 0 /\ Unsent.posts = 0
  BY DEF Unsent, VenueOrder, Phases

LEMMA RowState ==
  ASSUME NEW r \in Row, NEW s \in States
  PROVE  LET q == [r EXCEPT !.state = s]
         IN  q \in Row /\ SameOrder(q, r) /\ q.state = s /\ q.filled = r.filled
  BY DEF Row, States, SameOrder

LEMMA RowAcked ==
  ASSUME NEW r \in Row
  PROVE  LET q == [r EXCEPT !.state = "accepted", !.acked = TRUE]
         IN  q \in Row /\ SameOrder(q, r) /\ q.state = "accepted" /\ q.filled = r.filled
  BY DEF Row, UNRESOLVED, SameOrder

LEMMA HoldingType ==
  ASSUME NEW net \in Int, NEW side
  PROVE  Holding(net, side) \in Nat
  BY DEF Holding

LEMMA RowSized ==
  ASSUME NEW r \in Row, NEW net \in Int
  PROVE  LET q == Sized(r, net)
         IN  q \in Row /\ SameOrder(q, r) /\ q.state = r.state /\ q.filled = r.filled
<1>1. ASSUME NEW n \in Nat
      PROVE  LET q == [r EXCEPT !.count = n]
             IN  q \in Row /\ SameOrder(q, r) /\ q.state = r.state /\ q.filled = r.filled
  BY DEF Row, SameOrder
<1>2. Holding(net, r.side) \in Nat
  BY HoldingType
<1>3. SameOrder(r, r)
  BY DEF SameOrder
<1>4. QED
  BY <1>1, <1>2, <1>3 DEF Sized

LEMMA RowIndexed ==
  ASSUME NEW r \in Row, NEW b \in BOOLEAN
  PROVE  LET q == [r EXCEPT !.indexed = b]
         IN  q \in Row /\ SameOrder(q, r) /\ q.state = r.state /\ q.filled = r.filled
  BY DEF Row, SameOrder

LEMMA RowSubmitted ==
  ASSUME NEW r \in Row
  PROVE  LET q == [r EXCEPT !.submitted = TRUE]
         IN  q \in Row /\ SameOrder(q, r) /\ q.state = r.state /\ q.filled = r.filled
  BY DEF Row, SameOrder

LEMMA VenueSent ==
  ASSUME NEW v \in VenueOrder
  PROVE  /\ Posted(v) \in VenueOrder /\ Posted(v).phase = "sent"
         /\ Posted(v).filled = v.filled /\ Posted(v).posts = v.posts + 1
<1>1. v.posts + 1 \in Nat
  BY DEF VenueOrder
<1>2. \A n \in Nat : LET q == [v EXCEPT !.phase = "sent", !.posts = n]
                    IN  /\ q \in VenueOrder /\ q.phase = "sent"
                        /\ q.filled = v.filled /\ q.posts = n
  BY DEF VenueOrder, Phases
<1>3. QED
  BY <1>1, <1>2 DEF Posted

LEMMA SameOrderTransitive ==
  ASSUME NEW q, NEW r, NEW s, SameOrder(q, r), SameOrder(r, s)
  PROVE  SameOrder(q, s)
  BY DEF SameOrder

-----------------------------------------------------------------------------
(* A handler leaves the slot, or a status check ends, with a row that says *)
(* nothing the exchange does not confirm.                                  *)

Truthful(r, o) ==
  /\ r.filled > 0 => venue[o].filled = r.filled
  /\ r.state = "complete" => venue[o].phase = "done" /\ venue[o].filled = r.filled
  /\ r.state = "rejected" => venue[o].phase \in {"none", "refused"}

Ends(t, r) ==
  LET o == thread[t].order IN
  /\ thread[t].pc \notin {"idle", "queued"}
  /\ r \in Row /\ SameOrder(r, thread[t].row) /\ Truthful(r, o)
  /\ InSlot(t) \/ venue[o].phase # "none"
  /\ journal' = [journal EXCEPT ![o] = r]
  /\ thread' = [thread EXCEPT ![t] = Idle]
  /\ UNCHANGED <<control, policy, closed, venue, position, changes, crashes>>

LEMMA EndPreserves ==
  ASSUME LiveInv, NEW t \in Threads, NEW r, Ends(t, r)
  PROVE  LiveInv'
<1> DEFINE o == thread[t].order
<1> USE DEF LiveInv
<1>1. /\ o \in Rows /\ journal \in Seq(Row) /\ o \in Nat
      /\ journal' \in Seq(Row) /\ Len(journal') = Len(journal)
      /\ journal'[o] = r
      /\ \A p \in Rows : p # o => journal'[p] = journal[p]
  BY DEF Ends, OwnCopy, TypeOK, Rows
<1>2. /\ thread' \in [Threads -> Thread]
      /\ thread'[t].pc = "idle"
      /\ \A u \in Threads : u # t => thread'[u] = thread[u]
  BY IdleType DEF Ends, TypeOK
<1>3. Rows' = Rows
  BY <1>1 DEF Rows
<1>4. \A p \in Rows : SameOrder(journal'[p], journal[p])
  BY <1>1 DEF Ends, SameOrder, OwnCopy
<1>5. \A m, a : BotRows(m, a)' = BotRows(m, a)
  BY <1>3, <1>4 DEF BotRows, SameOrder
<1>6. TypeOK'
  BY <1>1, <1>2 DEF TypeOK, Ends
<1>7. SlotExclusive' /\ MarketExclusive'
  BY <1>2 DEF SlotExclusive, MarketExclusive, InSlot, SlotPlaces, Loopers, Threads
<1>8. OwnCopy'
  BY <1>2, <1>3, <1>4 DEF OwnCopy, SameOrder, Pending
<1>9. Unposted'
  BY <1>1, <1>2 DEF Unposted, SlotExclusive, InSlot, SlotPlaces, BeforePost, Ends
<1>10. VenueHistory' /\ SeenIsTrue'
  BY <1>2, <1>3 DEF VenueHistory, SeenIsTrue, Ends
<1>11. FillsAreTrue' /\ ResolvedIsTrue'
  BY <1>1, <1>2, <1>3 DEF FillsAreTrue, ResolvedIsTrue, Ends, Truthful
<1>12. Fenced'
  BY <1>2 DEF Fenced, Pending, Ends
<1>13. NothingInTheWay'
  BY <1>2, <1>3, <1>4 DEF NothingInTheWay, BeforePost, AtExchange, IsStop, SameOrder, Ends
<1>14. FirstEntry' /\ OneLiveEntry' /\ StopOfAnEntry'
  BY <1>2, <1>3, <1>5 DEF FirstEntry, OneLiveEntry, StopOfAnEntry, Live, Pending, Ends
<1>15. QED
  BY <1>6, <1>7, <1>8, <1>9, <1>10, <1>11, <1>12, <1>13, <1>14

LEMMA HandlersEnd ==
  ASSUME LiveInv, NEW t \in Threads,
         PreflightFails(t) \/ PreflightRejects(t) \/ Refused(t) \/ Unconfirmed(t) \/ Reconcile(t)
  PROVE  LiveInv'
<1> DEFINE o == thread[t].order
           row == thread[t].row
<1> USE DEF LiveInv
<1>0. thread[t].pc # "idle" => row \in Row
  BY DEF OwnCopy
<1>25. \A x \in States : thread[t].pc # "idle" =>
        LET q == [row EXCEPT !.state = x]
        IN  q \in Row /\ SameOrder(q, row) /\ q.state = x /\ q.filled = row.filled
  BY <1>0, RowState
<1>b. thread[t].pc \notin {"idle", "queued"} /\ row.filled > 0 => venue[o].filled = row.filled
  BY DEF FillsAreTrue
<1>1. CASE PreflightFails(t)
  <2>1. Ends(t, Rejected(t))
    BY <1>1, <1>25, <1>b
       DEF PreflightFails, Rejected, Ends, Truthful, Finish, Save, Become, States,
           InSlot, SlotPlaces, Unposted, BeforePost
  <2>2. QED  BY <2>1, EndPreserves
<1>2. CASE Refused(t)
  <2>1. Ends(t, Rejected(t))
    BY <1>2, <1>25, <1>b
       DEF Refused, Rejected, Ends, Truthful, Finish, Save, Become, States,
           InSlot, SlotPlaces
  <2>2. QED  BY <2>1, EndPreserves
<1>3. CASE Unconfirmed(t)
  <2>1. Ends(t, [row EXCEPT !.state = "unknown"])
    BY <1>3, <1>25, <1>b
       DEF Unconfirmed, Ends, Truthful, Finish, Save, Become, States, UNRESOLVED,
           InSlot, SlotPlaces
  <2>2. QED  BY <2>1, EndPreserves
<1>4. CASE Reconcile(t)
  <2> DEFINE state == IF thread[t].seen.phase = "done" THEN "complete" ELSE "accepted"
             filled == thread[t].seen.filled
             r == [row EXCEPT !.state = state, !.filled = filled, !.acked = TRUE]
  <2>1. row \in Row /\ filled \in Nat /\ state \in States
    BY <1>0, <1>4 DEF Reconcile, TypeOK, Thread, VenueOrder, States, UNRESOLVED
  <2> HIDE DEF state, filled, row
  <2>2. r \in Row /\ SameOrder(r, row) /\ r.state = state /\ r.filled = filled
    BY <2>1 DEF Row, States, SameOrder
  <2> USE DEF state, filled, row
  <2>3. Truthful(r, o) /\ venue[o].phase # "none"
    BY <1>4, <2>2 DEF Truthful, Reconcile, SeenIsTrue
  <2>4. Ends(t, r)
    BY <1>4, <2>2, <2>3 DEF Ends, Reconcile, Finish, Save, Become
  <2>5. QED  BY <2>4, EndPreserves
<1>5. CASE PreflightRejects(t)
  <2> DEFINE sized == Sized(row, thread[t].held)
             allowed == HoldingsAllow(sized, thread[t].held)
             r == [sized EXCEPT !.state = "rejected", !.indexed = allowed]
  <2>1. /\ sized \in Row /\ SameOrder(sized, row) /\ sized.filled = row.filled
    BY <1>0, <1>5, RowSized DEF PreflightRejects, TypeOK, Thread
  <2>2. allowed \in BOOLEAN
    BY DEF HoldingsAllow
  <2>3. r \in Row /\ SameOrder(r, sized) /\ r.state = "rejected" /\ r.filled = sized.filled
    BY <2>1, <2>2 DEF Row, SameOrder
  <2>4. SameOrder(r, row)
    BY <2>1, <2>3, SameOrderTransitive
  <2>5. Ends(t, r)
    BY <1>5, <1>b, <2>1, <2>3, <2>4
       DEF PreflightRejects, Ends, Truthful, Finish, Save, Become,
           InSlot, SlotPlaces, Unposted, BeforePost
  <2>6. QED  BY <2>5, EndPreserves
<1>6. QED
  BY <1>1, <1>2, <1>3, <1>4, <1>5

-----------------------------------------------------------------------------
(* Steps that only move one coroutine along.                               *)

Moves(t, y) ==
  /\ y \in Thread
  /\ thread' = [thread EXCEPT ![t] = y]
  /\ UNCHANGED <<journal, control, policy, closed, venue, position, changes, crashes>>

LEMMA MoveFrame ==
  ASSUME LiveInv, NEW t \in Threads, NEW y, Moves(t, y)
  PROVE  /\ TypeOK'
         /\ thread'[t] = y
         /\ \A u \in Threads : u # t => thread'[u] = thread[u]
         /\ Rows' = Rows
         /\ VenueHistory' /\ ResolvedIsTrue' /\ OneLiveEntry' /\ StopOfAnEntry'
<1>1. \A m, a : BotRows(m, a)' = BotRows(m, a)
  BY DEF Moves, BotRows, Rows
<1>2. QED
  BY <1>1
     DEF Moves, LiveInv, TypeOK, Rows, VenueHistory, ResolvedIsTrue, OneLiveEntry,
         StopOfAnEntry, Live

LEMMA ReadPositionPreserves ==
  ASSUME LiveInv, NEW t \in Threads, ReadPosition(t)
  PROVE  LiveInv'
<1> DEFINE y == [thread[t] EXCEPT !.pc = "read", !.held = position[thread[t].row.market]]
<1> USE DEF LiveInv
<1>1. thread[t].pc = "preflight" /\ thread[t] \in Thread /\ thread[t].row \in Row
  BY DEF ReadPosition, TypeOK, OwnCopy
<1>2. position[thread[t].row.market] \in Int
  BY <1>1 DEF TypeOK, Row
<1>3. /\ y \in Thread /\ y.pc = "read" /\ y.order = thread[t].order /\ y.row = thread[t].row
      /\ y.revision = thread[t].revision /\ y.changed = thread[t].changed
  BY <1>1, <1>2 DEF Thread, Places, SlotPlaces
<1>4. Moves(t, y)
  BY <1>3 DEF Moves, ReadPosition, Become
<1> HIDE DEF y
<1>5. /\ TypeOK' /\ thread'[t] = y
      /\ \A u \in Threads : u # t => thread'[u] = thread[u]
      /\ Rows' = Rows
      /\ VenueHistory' /\ ResolvedIsTrue' /\ OneLiveEntry' /\ StopOfAnEntry'
  BY <1>4, MoveFrame
<1>6. SlotExclusive' /\ MarketExclusive'
  BY <1>1, <1>3, <1>5 DEF SlotExclusive, MarketExclusive, InSlot, SlotPlaces, Loopers, Threads
<1>7. OwnCopy' /\ Unposted'
  BY <1>1, <1>3, <1>4, <1>5 DEF OwnCopy, Unposted, SameOrder, Pending, BeforePost, Moves
<1>8. SeenIsTrue' /\ FillsAreTrue'
  BY <1>1, <1>3, <1>4, <1>5 DEF SeenIsTrue, FillsAreTrue, Moves
<1>9. Fenced' /\ NothingInTheWay'
  BY <1>1, <1>3, <1>4, <1>5
     DEF Fenced, NothingInTheWay, Pending, BeforePost, AtExchange, IsStop, Moves
<1>10. \A m, a : BotRows(m, a)' = BotRows(m, a)
  BY <1>4, <1>5 DEF Moves, BotRows
<1>11. FirstEntry'
  BY <1>1, <1>3, <1>4, <1>5, <1>10 DEF FirstEntry, Pending, Live, Moves
<1>12. QED
  BY <1>5, <1>6, <1>7, <1>8, <1>9, <1>11

LEMMA IdlePreserves ==
  ASSUME LiveInv, NEW t \in Threads, Moves(t, Idle)
  PROVE  LiveInv'
<1> USE DEF LiveInv
<1>1. /\ TypeOK' /\ thread'[t] = Idle /\ Idle.pc = "idle"
      /\ \A u \in Threads : u # t => thread'[u] = thread[u]
      /\ Rows' = Rows
      /\ VenueHistory' /\ ResolvedIsTrue' /\ OneLiveEntry' /\ StopOfAnEntry'
  BY MoveFrame, IdleType
<1> HIDE DEF Idle
<1>2. SlotExclusive' /\ MarketExclusive'
  BY <1>1 DEF SlotExclusive, MarketExclusive, InSlot, SlotPlaces, Loopers, Threads
<1>3. OwnCopy' /\ Unposted'
  BY <1>1 DEF OwnCopy, Unposted, SameOrder, Pending, BeforePost, Moves
<1>4. SeenIsTrue' /\ FillsAreTrue'
  BY <1>1 DEF SeenIsTrue, FillsAreTrue, Moves
<1>5. Fenced' /\ NothingInTheWay'
  BY <1>1 DEF Fenced, NothingInTheWay, Pending, BeforePost, AtExchange, IsStop, Moves
<1>6. \A m, a : BotRows(m, a)' = BotRows(m, a)
  BY <1>1 DEF Moves, BotRows
<1>7. FirstEntry'
  BY <1>1, <1>6 DEF FirstEntry, Pending, Live, Moves
<1>8. QED
  BY <1>1, <1>2, <1>3, <1>4, <1>5, <1>7

LEMMA LookupFailsPreserves ==
  ASSUME LiveInv, NEW t \in Threads, LookupFails(t)
  PROVE  LiveInv'
<1>1. Moves(t, Idle)
  BY IdleType DEF Moves, LookupFails, Become
<1>2. QED
  BY <1>1, IdlePreserves

LEMMA LookupPreserves ==
  ASSUME LiveInv, NEW t \in Threads, NEW o \in Rows,
         (t = Worker /\ StartReconcile(o)) \/ (t \in Checkers /\ CheckOrder(t, o))
  PROVE  LiveInv'
<1> DEFINE y == [Idle EXCEPT !.pc = "lookup", !.order = o, !.row = journal[o]]
<1> USE DEF LiveInv
<1>1. o \in Nat /\ journal[o] \in Row /\ thread[t].pc = "idle"
  BY DEF TypeOK, Rows, StartReconcile, CheckOrder
<1>2. y \in Thread /\ y.pc = "lookup" /\ y.order = o /\ y.row = journal[o]
  BY <1>1, IdleType DEF Thread, Places, SlotPlaces
<1>3. Moves(t, y)
  BY <1>2 DEF Moves, StartReconcile, CheckOrder, Lookup, Become
<1>4. t \in Loopers => t = Worker /\ MarketFree(journal[o].market)
  BY LiveAssumption DEF Loopers, StartReconcile
<1> HIDE DEF y
<1>5. /\ TypeOK' /\ thread'[t] = y
      /\ \A u \in Threads : u # t => thread'[u] = thread[u]
      /\ Rows' = Rows
      /\ VenueHistory' /\ ResolvedIsTrue' /\ OneLiveEntry' /\ StopOfAnEntry'
  BY <1>3, MoveFrame
<1>6. SlotExclusive'
  BY <1>2, <1>5 DEF SlotExclusive, InSlot, SlotPlaces
<1>7. MarketExclusive'
  BY <1>2, <1>4, <1>5 DEF MarketExclusive, MarketFree, Loopers, Threads
<1>8. OwnCopy' /\ Unposted'
  BY <1>1, <1>2, <1>3, <1>5 DEF OwnCopy, Unposted, SameOrder, Pending, BeforePost, Moves
<1>9. SeenIsTrue' /\ FillsAreTrue'
  BY <1>1, <1>2, <1>3, <1>5 DEF SeenIsTrue, FillsAreTrue, Moves
<1>10. Fenced' /\ NothingInTheWay'
  BY <1>1, <1>2, <1>3, <1>5
     DEF Fenced, NothingInTheWay, Pending, BeforePost, AtExchange, IsStop, Moves
<1>11. \A m, a : BotRows(m, a)' = BotRows(m, a)
  BY <1>3, <1>5 DEF Moves, BotRows
<1>12. FirstEntry'
  BY <1>1, <1>2, <1>3, <1>5, <1>11 DEF FirstEntry, Pending, Live, Moves
<1>13. QED
  BY <1>5, <1>6, <1>7, <1>8, <1>9, <1>10, <1>12

LEMMA FetchPreserves ==
  ASSUME LiveInv, NEW t \in Threads, Fetch(t)
  PROVE  LiveInv'
<1> DEFINE y == [thread[t] EXCEPT !.pc = IF @ = "acked" THEN "fetched" ELSE "found",
                                  !.seen = venue[thread[t].order]]
<1> USE DEF LiveInv
<1>1. /\ thread[t].pc \in {"acked", "lookup"} /\ thread[t] \in Thread
      /\ thread[t].order \in Rows
      /\ venue[thread[t].order].phase \in {"open", "done"}
      /\ venue[thread[t].order] \in VenueOrder
  <2>1. thread[t].pc \in {"acked", "lookup"} /\ venue[thread[t].order].phase \in {"open", "done"}
    BY DEF Fetch
  <2>2. thread[t] \in Thread
    BY DEF TypeOK
  <2>3. thread[t].order \in Rows
    BY <2>1 DEF OwnCopy
  <2>4. venue[thread[t].order] \in VenueOrder
    BY <2>3 DEF TypeOK, Rows
  <2>5. QED
    BY <2>1, <2>2, <2>3, <2>4
<1>2. /\ y \in Thread /\ y.order = thread[t].order /\ y.row = thread[t].row
      /\ y.pc = IF thread[t].pc = "acked" THEN "fetched" ELSE "found"
      /\ y.seen = venue[thread[t].order]
  BY <1>1 DEF Thread, Places, SlotPlaces
<1>3. Moves(t, y)
  BY <1>2 DEF Moves, Fetch, Become
<1> HIDE DEF y
<1>4. /\ TypeOK' /\ thread'[t] = y
      /\ \A u \in Threads : u # t => thread'[u] = thread[u]
      /\ Rows' = Rows
      /\ VenueHistory' /\ ResolvedIsTrue' /\ OneLiveEntry' /\ StopOfAnEntry'
  BY <1>3, MoveFrame
<1>5. SlotExclusive' /\ MarketExclusive'
  BY <1>1, <1>2, <1>4 DEF SlotExclusive, MarketExclusive, InSlot, SlotPlaces, Loopers, Threads
<1>6. OwnCopy' /\ Unposted'
  BY <1>1, <1>2, <1>3, <1>4 DEF OwnCopy, Unposted, SameOrder, Pending, BeforePost, Moves
<1>7. SeenIsTrue' /\ FillsAreTrue'
  BY <1>1, <1>2, <1>3, <1>4 DEF SeenIsTrue, FillsAreTrue, VenueHistory, Moves
<1>8. Fenced' /\ NothingInTheWay'
  BY <1>1, <1>2, <1>3, <1>4
     DEF Fenced, NothingInTheWay, Pending, BeforePost, AtExchange, IsStop, Moves
<1>9. \A m, a : BotRows(m, a)' = BotRows(m, a)
  BY <1>3, <1>4 DEF Moves, BotRows
<1>10. FirstEntry'
  BY <1>1, <1>2, <1>3, <1>4, <1>9 DEF FirstEntry, Pending, Live, Moves
<1>11. QED
  BY <1>4, <1>5, <1>6, <1>7, <1>8, <1>10

-----------------------------------------------------------------------------
(* The POST and its acknowledgement.                                       *)

LEMMA AcknowledgedPreserves ==
  ASSUME LiveInv, NEW t \in Threads, Acknowledged(t)
  PROVE  LiveInv'
<1> DEFINE o == thread[t].order
           r == [thread[t].row EXCEPT !.state = "accepted", !.acked = TRUE]
           y == [thread[t] EXCEPT !.pc = "acked", !.row = r]
<1> USE DEF LiveInv
<1>1. /\ thread[t].pc = "posting" /\ thread[t] \in Thread /\ thread[t].row \in Row
      /\ o \in Rows /\ SameOrder(thread[t].row, journal[o])
  BY DEF Acknowledged, TypeOK, OwnCopy
<1>2. /\ r \in Row /\ SameOrder(r, thread[t].row)
      /\ r.state = "accepted" /\ r.filled = thread[t].row.filled
  BY <1>1, RowAcked
<1>3. /\ journal' = [journal EXCEPT ![o] = r]
      /\ thread' = [thread EXCEPT ![t] = y]
      /\ UNCHANGED <<control, policy, closed, venue, position, changes, crashes>>
  BY DEF Acknowledged, Save, Become
<1> HIDE DEF r
<1>4. y \in Thread /\ y.pc = "acked" /\ y.row = r /\ y.order = o
  BY <1>1, <1>2 DEF Thread, Places, SlotPlaces
<1> HIDE DEF y
<1>5. /\ journal' \in Seq(Row) /\ Len(journal') = Len(journal)
      /\ journal'[o] = r
      /\ \A p \in Rows : p # o => journal'[p] = journal[p]
      /\ Rows' = Rows
  BY <1>1, <1>2, <1>3 DEF TypeOK, Rows
<1>6. /\ thread' \in [Threads -> Thread]
      /\ thread'[t] = y
      /\ \A u \in Threads : u # t => thread'[u] = thread[u]
  BY <1>3, <1>4 DEF TypeOK
<1>7. \A p \in Rows : SameOrder(journal'[p], journal[p])
  BY <1>1, <1>2, <1>5 DEF SameOrder
<1>8. \A m, a : BotRows(m, a)' = BotRows(m, a)
  BY <1>5, <1>7 DEF BotRows, SameOrder
<1>9. TypeOK'
  BY <1>3, <1>5, <1>6 DEF TypeOK
<1>10. SlotExclusive'
  BY <1>1, <1>4, <1>6 DEF SlotExclusive, InSlot, SlotPlaces
<1>11. MarketExclusive'
  BY <1>1, <1>2, <1>4, <1>6 DEF MarketExclusive, SameOrder, Loopers, Threads
<1>12. OwnCopy'
  BY <1>1, <1>2, <1>4, <1>5, <1>6, <1>7 DEF OwnCopy, SameOrder, Pending
<1>13. Unposted'
  BY <1>1, <1>3, <1>4, <1>5, <1>6 DEF Unposted, SlotExclusive, InSlot, SlotPlaces, BeforePost
<1>14. VenueHistory' /\ SeenIsTrue'
  BY <1>3, <1>4, <1>5, <1>6 DEF VenueHistory, SeenIsTrue
<1>15. FillsAreTrue' /\ ResolvedIsTrue'
  BY <1>1, <1>2, <1>3, <1>4, <1>5, <1>6 DEF FillsAreTrue, ResolvedIsTrue
<1>16. Fenced'
  BY <1>3, <1>4, <1>6 DEF Fenced, Pending
<1>17. NothingInTheWay'
  BY <1>3, <1>4, <1>5, <1>6, <1>7 DEF NothingInTheWay, BeforePost, AtExchange, IsStop, SameOrder
<1>18. FirstEntry' /\ OneLiveEntry' /\ StopOfAnEntry'
  BY <1>3, <1>4, <1>6, <1>8 DEF FirstEntry, OneLiveEntry, StopOfAnEntry, Live, Pending
<1>19. QED
  BY <1>9, <1>10, <1>11, <1>12, <1>13, <1>14, <1>15, <1>16, <1>17, <1>18

(* What a POST does, as far as the invariant is concerned.                 *)
LEMMA PostEffect ==
  ASSUME LiveInv, NEW t \in Threads, Post(t)
  PROVE  \E r \in Row, y \in Thread, v \in VenueOrder :
           LET o == thread[t].order IN
           /\ thread[t].pc = "read" /\ o \in Rows
           /\ SameOrder(r, journal[o]) /\ SameOrder(r, thread[t].row)
           /\ r.state = "submitting" /\ r.filled = thread[t].row.filled
           /\ y.pc = "posting" /\ y.order = o /\ y.row \in Row /\ SameOrder(y.row, r)
           /\ y.row.filled = r.filled
           /\ journal' = [journal EXCEPT ![o] = r]
           /\ thread' = [thread EXCEPT ![t] = y]
           /\ v.phase = "sent" /\ v.filled = venue[o].filled /\ v.posts = venue[o].posts + 1
           /\ venue' = [venue EXCEPT ![o] = v]
           /\ UNCHANGED <<control, policy, closed, position, changes, crashes>>
<1> DEFINE o == thread[t].order
           row == thread[t].row
           sized == Sized(row, thread[t].held)
           r == [sized EXCEPT !.indexed = TRUE]
           sent == [r EXCEPT !.submitted = TRUE]
           y == [thread[t] EXCEPT !.pc = "posting", !.row = sent]
           v == Posted(venue[o])
<1> USE DEF LiveInv
<1>1. /\ thread[t].pc = "read" /\ thread[t] \in Thread /\ row \in Row /\ thread[t].held \in Int
      /\ o \in Rows /\ SameOrder(row, journal[o]) /\ row.state = "submitting"
  BY DEF Post, TypeOK, OwnCopy, Unposted, BeforePost, Thread
<1>2. /\ journal' = [journal EXCEPT ![o] = r]
      /\ thread' = [thread EXCEPT ![t] = y]
      /\ venue' = [venue EXCEPT ![o] = v]
      /\ UNCHANGED <<control, policy, closed, position, changes, crashes>>
  BY DEF Post, Save, Become
<1>3. /\ sized \in Row /\ SameOrder(sized, row)
      /\ sized.state = row.state /\ sized.filled = row.filled
  BY <1>1, RowSized
<1> HIDE DEF sized
<1>4. /\ r \in Row /\ SameOrder(r, sized) /\ r.state = sized.state /\ r.filled = sized.filled
  BY <1>3, RowIndexed
<1> HIDE DEF r
<1>5. sent \in Row /\ SameOrder(sent, r) /\ sent.filled = r.filled
  BY <1>4, RowSubmitted
<1> HIDE DEF sent
<1>6. y \in Thread /\ y.pc = "posting" /\ y.order = o /\ y.row = sent
  BY <1>1, <1>5 DEF Thread, Places, SlotPlaces
<1> HIDE DEF y
<1>7. SameOrder(r, row) /\ SameOrder(r, journal[o])
  BY <1>1, <1>3, <1>4 DEF SameOrder
<1>8. venue[o] \in VenueOrder
  BY <1>1 DEF TypeOK, Rows
<1>9. /\ v \in VenueOrder /\ v.phase = "sent"
      /\ v.filled = venue[o].filled /\ v.posts = venue[o].posts + 1
  BY <1>8, VenueSent
<1> HIDE DEF v
<1>10. QED
  BY <1>1, <1>2, <1>3, <1>4, <1>5, <1>6, <1>7, <1>9

LEMMA PostPreserves ==
  ASSUME LiveInv, NEW t \in Threads, Post(t)
  PROVE  LiveInv'
<1> DEFINE o == thread[t].order
<1> USE DEF LiveInv
<1>1. PICK r \in Row, y \in Thread, v \in VenueOrder :
           /\ thread[t].pc = "read" /\ o \in Rows
           /\ SameOrder(r, journal[o]) /\ SameOrder(r, thread[t].row)
           /\ r.state = "submitting" /\ r.filled = thread[t].row.filled
           /\ y.pc = "posting" /\ y.order = o /\ y.row \in Row /\ SameOrder(y.row, r)
           /\ y.row.filled = r.filled
           /\ journal' = [journal EXCEPT ![o] = r]
           /\ thread' = [thread EXCEPT ![t] = y]
           /\ v.phase = "sent" /\ v.filled = venue[o].filled /\ v.posts = venue[o].posts + 1
           /\ venue' = [venue EXCEPT ![o] = v]
           /\ UNCHANGED <<control, policy, closed, position, changes, crashes>>
  BY PostEffect
<1>2. /\ journal' \in Seq(Row) /\ Len(journal') = Len(journal)
      /\ journal'[o] = r
      /\ \A p \in Rows : p # o => journal'[p] = journal[p]
      /\ Rows' = Rows
  BY <1>1 DEF TypeOK, Rows
<1>3. /\ thread' \in [Threads -> Thread]
      /\ thread'[t] = y
      /\ \A u \in Threads : u # t => thread'[u] = thread[u]
  BY <1>1 DEF TypeOK
<1>4. venue[o] \in VenueOrder /\ venue[o].phase = "none" /\ venue[o].filled = 0 /\ venue[o].posts = 0
  BY <1>1 DEF TypeOK, Rows, Unposted, BeforePost, VenueHistory
<1>5. /\ venue' \in Seq(VenueOrder) /\ Len(venue') = Len(venue)
      /\ venue'[o].phase = "sent" /\ venue'[o].filled = 0 /\ venue'[o].posts = 1
      /\ \A p \in Rows : p # o => venue'[p] = venue[p]
  BY <1>1, <1>4 DEF TypeOK, Rows
<1>6. \A p \in Rows : SameOrder(journal'[p], journal[p])
  BY <1>1, <1>2 DEF SameOrder
<1>7. \A m, a : BotRows(m, a)' = BotRows(m, a)
  BY <1>2, <1>6 DEF BotRows, SameOrder
<1>8. TypeOK'
  BY <1>1, <1>2, <1>3, <1>5 DEF TypeOK
<1>9. SlotExclusive'
  BY <1>1, <1>3 DEF SlotExclusive, InSlot, SlotPlaces
<1>10. MarketExclusive'
  BY <1>1, <1>3 DEF MarketExclusive, SameOrder, Loopers, Threads
<1>11. OwnCopy'
  BY <1>1, <1>2, <1>3, <1>6 DEF OwnCopy, SameOrder, Pending
<1>12. \A u \in Threads : thread'[u].pc \notin BeforePost
  BY <1>1, <1>3 DEF SlotExclusive, InSlot, SlotPlaces, BeforePost
<1>13. Unposted' /\ NothingInTheWay'
  BY <1>12 DEF Unposted, NothingInTheWay
<1>14. VenueHistory'
  BY <1>2, <1>5 DEF VenueHistory
<1>15. SeenIsTrue'
  <2>1. ASSUME NEW u \in Threads, thread[u].pc \in {"fetched", "found"}
        PROVE  thread[u].order # o /\ thread[u].order \in Rows
    <3>1. venue[thread[u].order].phase # "none"
      BY <2>1 DEF SeenIsTrue
    <3>2. thread[u].order \in Rows
      BY <2>1 DEF OwnCopy
    <3>3. QED
      BY <1>4, <3>1, <3>2
  <2>2. QED
    BY <1>1, <1>3, <1>5, <2>1 DEF SeenIsTrue
<1>25. \A p \in Rows : venue'[p].filled = venue[p].filled
  BY <1>4, <1>5
<1>16. FillsAreTrue' /\ ResolvedIsTrue'
  <2> HIDE DEF o
  <2>2. ~(r.filled > 0)
    BY <1>1, <1>4 DEF FillsAreTrue, Row, o
  <2>3. \A p \in Rows : journal'[p].filled > 0 => venue'[p].filled = journal'[p].filled
    BY <1>2, <1>25, <2>2 DEF FillsAreTrue
  <2>4. \A u \in Threads :
          thread'[u].pc \notin {"idle", "queued"} /\ thread'[u].row.filled > 0
            => venue'[thread'[u].order].filled = thread'[u].row.filled
    BY <1>1, <1>3, <1>25, <2>2 DEF FillsAreTrue, OwnCopy
  <2>5. ResolvedIsTrue'
    BY <1>1, <1>2, <1>5 DEF ResolvedIsTrue
  <2>6. QED
    BY <1>2, <2>3, <2>4, <2>5 DEF FillsAreTrue
<1>17. Fenced'
  BY <1>1, <1>3 DEF Fenced, Pending
<1>18. \A p \in Rows : p # o => (Live(p)' <=> Live(p))
  BY <1>5 DEF Live
<1>19. ~Live(o)
  BY <1>4 DEF Live
<1>20. \A m \in Markets :
         o \in BotRows(m, "buy") =>
           /\ t \in Loopers /\ thread[t].row.market = m
           /\ \A p \in BotRows(m, "buy") : p # o => ~Live(p)
  BY <1>1 DEF BotRows, OwnCopy, FirstEntry, SameOrder, Pending
<1>21. FirstEntry'
  <2> SUFFICES ASSUME NEW u \in Threads, thread'[u].pc \in Pending,
                      thread'[u].row.bot, thread'[u].row.action = "buy",
                      NEW p \in BotRows(thread'[u].row.market, "buy"), Live(p)'
               PROVE  p = thread'[u].order
    BY <1>7 DEF FirstEntry
  <2>1. u # t /\ thread'[u] = thread[u]
    BY <1>1, <1>3 DEF Pending
  <2>2. u \in Loopers /\ thread[u].row.market \in Markets
    BY <2>1 DEF OwnCopy, Pending, Row
  <2>3. p # o
    BY <1>1, <1>20, <2>1, <2>2 DEF MarketExclusive, Pending
  <2>4. Live(p)
    BY <1>18, <2>3 DEF BotRows
  <2>5. QED
    BY <2>1, <2>4 DEF FirstEntry
<1>22. OneLiveEntry'
  <2> SUFFICES ASSUME NEW m \in Markets, NEW p \in BotRows(m, "buy"), NEW q \in BotRows(m, "buy"),
                      Live(p)', Live(q)'
               PROVE  p = q
    BY <1>7 DEF OneLiveEntry
  <2> HIDE DEF o
  <2>1. p \in Rows /\ q \in Rows
    BY DEF BotRows
  <2>2. p # o => Live(p)
    BY <1>18, <2>1
  <2>3. q # o => Live(q)
    BY <1>18, <2>1
  <2>4. p = o \/ q = o => p = q
    BY <1>20, <2>2, <2>3
  <2>5. QED
    BY <2>2, <2>3, <2>4 DEF OneLiveEntry
<1>23. StopOfAnEntry'
  <2>1. \A m : BotRows(m, "buy") \subseteq Rows
    BY DEF BotRows
  <2>2. QED
    BY <1>1, <1>25, <1>7, <2>1 DEF StopOfAnEntry
<1>24. QED
  BY <1>8, <1>9, <1>10, <1>11, <1>13, <1>14, <1>15, <1>16, <1>17, <1>21, <1>22, <1>23

-----------------------------------------------------------------------------
(* The slot is granted.                                                    *)

LEMMA AppendRow ==
  ASSUME NEW S, NEW s \in Seq(S), NEW e \in S
  PROVE  /\ Append(s, e) \in Seq(S)
         /\ Len(Append(s, e)) = Len(s) + 1
         /\ Append(s, e)[Len(s) + 1] = e
         /\ \A i \in 1..Len(s) : Append(s, e)[i] = s[i]
  OBVIOUS

ClaimRefused(t) ==
  /\ thread[t].pc = "queued"
  /\ Moves(t, Idle)

(* What claim() inserts, and that nothing is in its way.                   *)
ClaimInserted(t, y) ==
  LET row == thread[t].row
      o == Len(journal) + 1
  IN
  /\ thread[t].pc = "queued" /\ thread[t].order = 0
  /\ SlotFree /\ ~Blocked(row)
  /\ journal' = Append(journal, row)
  /\ venue' = Append(venue, Unsent)
  /\ y \in Thread /\ y.pc = "preflight" /\ y.order = o /\ y.row = row
  /\ y.revision = thread[t].revision /\ y.changed = thread[t].changed
  /\ thread' = [thread EXCEPT ![t] = y]
  /\ UNCHANGED <<control, policy, closed, position, changes, crashes>>

LEMMA ClaimCases ==
  ASSUME LiveInv, NEW t \in Threads, Claim(t)
  PROVE  ClaimRefused(t) \/ \E y : ClaimInserted(t, y)
<1> DEFINE y == [thread[t] EXCEPT !.pc = "preflight", !.order = Len(journal) + 1]
<1>1. thread[t] \in Thread /\ Len(journal) + 1 \in Nat
  BY DEF LiveInv, TypeOK
<1>2. /\ y \in Thread /\ y.pc = "preflight" /\ y.order = Len(journal) + 1
      /\ y.row = thread[t].row
      /\ y.revision = thread[t].revision /\ y.changed = thread[t].changed
  BY <1>1 DEF Thread, Places, SlotPlaces
<1>3. CASE thread[t].order # 0 \/ Blocked(thread[t].row)
  BY <1>3, IdleType DEF Claim, ClaimRefused, Moves, Become
<1>4. CASE thread[t].order = 0 /\ ~Blocked(thread[t].row)
  <2>1. ClaimInserted(t, y)
    BY <1>2, <1>4 DEF Claim, ClaimInserted, Become
  <2>2. QED
    BY <2>1
<1>5. QED
  BY <1>3, <1>4

LEMMA InsertPreserves ==
  ASSUME LiveInv, NEW t \in Threads, NEW y, ClaimInserted(t, y),
         NEW o, o = Len(journal) + 1, NEW row, row = thread[t].row
  PROVE  LiveInv'
<1> USE DEF LiveInv
<1>1. /\ thread[t].pc = "queued" /\ thread[t].order = 0 /\ row \in Row
      /\ row.state = "submitting" /\ row.filled = 0
      /\ row.bot => t \in Loopers
      /\ o \in Nat /\ o \notin Rows
  BY DEF ClaimInserted, OwnCopy, Pending, TypeOK, Rows
<1>2. /\ journal' \in Seq(Row) /\ Len(journal') = Len(journal) + 1
      /\ journal'[o] = row
      /\ \A p \in Rows : journal'[p] = journal[p]
  BY <1>1, AppendRow DEF ClaimInserted, TypeOK, Rows
<1>3. /\ venue' \in Seq(VenueOrder) /\ Len(venue') = Len(journal) + 1
      /\ venue'[o] = Unsent
      /\ \A p \in Rows : venue'[p] = venue[p]
  BY UnsentType, AppendRow DEF ClaimInserted, TypeOK, Rows
<1>4. Rows' = Rows \cup {o} /\ o \in Rows'
  BY <1>1, <1>2 DEF Rows, TypeOK
<1>5. /\ thread' \in [Threads -> Thread]
      /\ thread'[t] = y /\ y.pc = "preflight" /\ y.order = o /\ y.row = row
      /\ y.revision = thread[t].revision /\ y.changed = thread[t].changed
      /\ \A u \in Threads : u # t => thread'[u] = thread[u]
  BY DEF ClaimInserted, TypeOK
<1>6. TypeOK'
  BY <1>2, <1>3, <1>5 DEF ClaimInserted, TypeOK
<1>7. SlotExclusive'
  BY <1>5 DEF SlotExclusive, SlotFree, InSlot, SlotPlaces, ClaimInserted
<1>8. MarketExclusive'
  BY <1>1, <1>5 DEF MarketExclusive, Loopers, Threads
<1>9. OwnCopy'
  <2>1. \A u \in Threads : thread[u].pc \notin {"idle", "queued"} =>
          thread[u].order \in Rows' /\ SameOrder(thread[u].row, journal'[thread[u].order])
    BY <1>2, <1>4 DEF OwnCopy, SameOrder
  <2>2. SameOrder(row, journal'[o])
    BY <1>2 DEF SameOrder
  <2>3. QED
    BY <1>1, <1>4, <1>5, <2>1, <2>2 DEF OwnCopy, Pending
<1>10. \A u \in Threads : thread[u].pc \notin {"idle", "queued"} => thread[u].order \in Rows
  BY DEF OwnCopy
<1>11. Unposted'
  BY <1>1, <1>2, <1>3, <1>5, <1>10, UnsentType DEF Unposted, BeforePost
<1>12. VenueHistory'
  BY <1>3, <1>4, UnsentType DEF VenueHistory
<1>13. SeenIsTrue'
  BY <1>3, <1>5, <1>10 DEF SeenIsTrue
<1>14. FillsAreTrue'
  <2>1. \A p \in Rows' : journal'[p].filled > 0 => venue'[p].filled = journal'[p].filled
    BY <1>1, <1>2, <1>3, <1>4 DEF FillsAreTrue
  <2>2. \A u \in Threads :
          thread'[u].pc \notin {"idle", "queued"} /\ thread'[u].row.filled > 0
            => venue'[thread'[u].order].filled = thread'[u].row.filled
    BY <1>1, <1>3, <1>5, <1>10 DEF FillsAreTrue
  <2>3. QED
    BY <2>1, <2>2 DEF FillsAreTrue
<1>15. ResolvedIsTrue'
  BY <1>1, <1>2, <1>3, <1>4 DEF ResolvedIsTrue
<1>16. Fenced'
  BY <1>1, <1>5 DEF Fenced, Pending, ClaimInserted
<1>17. NothingInTheWay'
  <2> SUFFICES ASSUME NEW u \in Threads, thread'[u].pc \in BeforePost,
                      NEW p \in Rows', p # thread'[u].order, AtExchange(p)'
               PROVE  IsStop(u)' /\ journal'[p].market # thread'[u].row.market
    BY DEF NothingInTheWay
  <2>1. u = t
    BY <1>5 DEF ClaimInserted, SlotFree, InSlot, SlotPlaces, BeforePost
  <2>2. p \in Rows /\ AtExchange(p)
    BY <1>3, <1>4, <1>5, <2>1 DEF AtExchange
  <2>3. Unresolved(p)
    <3>1. journal[p] \in Row
      BY <2>2 DEF TypeOK, Rows
    <3>2. journal[p].state \notin {"complete", "rejected"}
      BY <2>2 DEF AtExchange, ResolvedIsTrue
    <3>3. QED
      BY <3>1, <3>2 DEF Unresolved, Row
  <2>4. row.bot /\ row.action = "sell" /\ journal[p].market # row.market
    BY <2>2, <2>3 DEF ClaimInserted, Blocked
  <2>5. QED
    BY <1>2, <1>5, <2>1, <2>2, <2>4 DEF IsStop
<1>18. \A p \in Rows : Live(p)' <=> Live(p)
  BY <1>3 DEF Live
<1>19. ~Live(o)'
  BY <1>3, UnsentType DEF Live
<1>20. \A m, a : \A p \in BotRows(m, a)' : p # o => p \in BotRows(m, a)
  BY <1>2, <1>4 DEF BotRows
<1>21. \A m, a : BotRows(m, a) \subseteq Rows /\ BotRows(m, a) \subseteq BotRows(m, a)'
  BY <1>2, <1>4 DEF BotRows
<1>22. FirstEntry'
  <2> SUFFICES ASSUME NEW u \in Threads, thread'[u].pc \in Pending,
                      thread'[u].row.bot, thread'[u].row.action = "buy",
                      NEW m, m = thread'[u].row.market, NEW p \in BotRows(m, "buy")', Live(p)'
               PROVE  p = thread'[u].order
    BY DEF FirstEntry
  <2>1. /\ thread[u].pc \in Pending /\ thread[u].row = thread'[u].row
        /\ u # t => thread'[u] = thread[u]
    BY <1>1, <1>5 DEF Pending
  <2>2. p # o
    BY <1>19
  <2>3. m = thread[u].row.market /\ p \in BotRows(m, "buy") /\ Live(p)
    BY <1>18, <1>20, <1>21, <2>1, <2>2
  <2>4. p = thread[u].order /\ p \in Rows
    BY <1>21, <2>1, <2>3 DEF FirstEntry
  <2>5. u # t
    BY <1>1, <2>4 DEF Rows
  <2>6. QED
    BY <2>1, <2>4, <2>5
<1>23. OneLiveEntry'
  BY <1>18, <1>19, <1>20, <1>21 DEF OneLiveEntry
<1>24. StopOfAnEntry'
  BY <1>3, <1>21 DEF StopOfAnEntry, ClaimInserted
<1>25. QED
  BY <1>6, <1>7, <1>8, <1>9, <1>11, <1>12, <1>13, <1>14, <1>15, <1>16, <1>17, <1>22, <1>23, <1>24

LEMMA ClaimPreserves ==
  ASSUME LiveInv, NEW t \in Threads, Claim(t)
  PROVE  LiveInv'
  BY ClaimCases, InsertPreserves, IdlePreserves DEF ClaimRefused

-----------------------------------------------------------------------------
(* Operators change controls, and coroutines decide on orders.             *)

LEMMA FillsType ==
  ASSUME TypeOK, NEW S \in SUBSET Rows
  PROVE  /\ Fills(S) \in Nat
         /\ Fills(S) = 0 => \A o \in S : ~(journal[o].filled > 0)
         /\ Fills(S) > 0 => \E o \in S : journal[o].filled > 0
<1> DEFINE of == [o \in S |-> {o} \X (1..journal[o].filled)]
           T == {{o} \X (1..journal[o].filled) : o \in S}
<1>1. ASSUME NEW o \in S PROVE journal[o].filled \in Nat
  <2>1. journal[o] \in Row
    BY DEF TypeOK, Rows
  <2>2. QED
    BY <2>1 DEF Row
<1>2. IsFiniteSet(S)
  <2>1. IsFiniteSet(Rows)
    BY FS_Interval DEF Rows, TypeOK
  <2>2. QED
    BY <2>1, FS_Subset
<1>3. IsFiniteSet(T)
  <2>1. of \in Surjection(S, T)
    BY DEF Surjection
  <2>2. QED
    BY <1>2, <2>1, FS_Surjection
<1>4. \A o \in S : IsFiniteSet({o} \X (1..journal[o].filled))
  <2> TAKE o \in S
  <2>1. IsFiniteSet({o})
    BY FS_Singleton
  <2>2. \A n \in Nat : IsFiniteSet(1..n)
    BY FS_Interval
  <2>3. IsFiniteSet(1..journal[o].filled)
    BY <1>1, <2>2
  <2>4. QED
    BY <2>1, <2>3, FS_Product
<1>5. IsFiniteSet(UNION T)
  <2>1. \A A \in T : IsFiniteSet(A)
    BY <1>4
  <2> HIDE DEF T
  <2>2. QED
    BY <1>3, <2>1, FS_UNION
<1>6. Fills(S) = Cardinality(UNION T) /\ Fills(S) \in Nat /\ (Fills(S) = 0 <=> UNION T = {})
  BY <1>5, FS_CardinalityType, FS_EmptySet DEF Fills
<1>7. \A o \in S : journal[o].filled > 0 => <<o, 1>> \in UNION T
  BY <1>1
<1>8. (\A o \in S : ~(journal[o].filled > 0)) => UNION T = {}
  BY <1>1
<1> HIDE DEF T
<1>9. Fills(S) = 0 => \A o \in S : ~(journal[o].filled > 0)
  BY <1>6, <1>7
<1>10. Fills(S) > 0 => UNION T # {}
  BY <1>6
<1>11. Fills(S) > 0 => \E o \in S : journal[o].filled > 0
  BY <1>8, <1>10
<1>12. QED
  BY <1>6, <1>9, <1>11

LEMMA BotRowsAreRows == \A m, a : BotRows(m, a) \in SUBSET Rows
  BY DEF BotRows

(* The controls only move on, and a stop is committed only for an entry.   *)
ControlsMoveOn ==
  /\ control' \in [Markets -> Control] /\ policy' \in BOOLEAN
  /\ \A m \in Markets :
       /\ control'[m].revision >= control[m].revision
       /\ control'[m].stop /\ ~control[m].stop =>
            \E o \in BotRows(m, "buy") : venue[o].filled > 0
  /\ closed' \in [Markets -> BOOLEAN] /\ changes' \in Nat
  /\ UNCHANGED <<journal, venue, position, crashes>>

(* A coroutine stays where it is; at most it has been overtaken.           *)
Undisturbed(u) ==
  /\ thread'[u].pc = thread[u].pc /\ thread'[u].order = thread[u].order
  /\ thread'[u].row = thread[u].row /\ thread'[u].seen = thread[u].seen
  /\ thread'[u].revision = thread[u].revision
  /\ thread[u].pc \in Pending /\ thread[u].row.bot
       /\ thread'[u].changed /\ ~thread[u].changed =>
         control'[thread[u].row.market].revision > control[thread[u].row.market].revision

(* A coroutine has decided on an order.                                    *)
Decides(t) ==
  LET y == thread'[t] IN
  /\ thread[t].pc = "idle" /\ y.pc = "queued" /\ y.row \in Row
  /\ y.order = 0 => y.row.state = "submitting" /\ y.row.filled = 0
  /\ t \in Loopers => MarketFree(y.row.market)
  /\ y.row.bot =>
       /\ y.order = 0 /\ t \in Loopers
       /\ 0 < y.revision /\ y.revision = control'[y.row.market].revision /\ ~y.changed
       /\ y.row.action = "buy" => \A o \in BotRows(y.row.market, "buy") : ~Live(o)

LEMMA DecisionPreserves ==
  ASSUME LiveInv, ControlsMoveOn, thread' \in [Threads -> Thread],
         NEW t \in Threads, Undisturbed(t) \/ Decides(t),
         \A u \in Threads : u # t => Undisturbed(u)
  PROVE  LiveInv'
<1> USE DEF LiveInv
<1>1. TypeOK' /\ Rows' = Rows
  BY DEF TypeOK, ControlsMoveOn, Rows
<1>2. \A m, a : BotRows(m, a)' = BotRows(m, a)
  BY DEF BotRows, ControlsMoveOn, Rows
<1>3. \A m \in Markets : control[m].revision \in Nat /\ control'[m].revision \in Nat
  BY DEF TypeOK, ControlsMoveOn, Control
<1>4. \A u \in Threads : Undisturbed(u) \/ (u = t /\ Decides(u))
  OBVIOUS
<1>5. SlotExclusive'
  <2>1. \A u \in Threads : InSlot(u)' => InSlot(u)
    BY <1>4 DEF InSlot, SlotPlaces, Undisturbed, Decides
  <2>2. QED
    BY <2>1 DEF SlotExclusive
<1>6. MarketExclusive'
  <2> SUFFICES ASSUME NEW u \in Loopers, NEW v \in Loopers,
                      thread'[u].pc # "idle", thread'[v].pc # "idle",
                      thread'[u].row.market = thread'[v].row.market
               PROVE  u = v
    BY DEF MarketExclusive
  <2>1. u \in Threads /\ v \in Threads
    BY DEF Loopers, Threads
  <2>2. CASE Undisturbed(u) /\ Undisturbed(v)
    BY <2>2 DEF MarketExclusive, Undisturbed
  <2>3. CASE u = t /\ Decides(u) /\ Undisturbed(v)
    BY <2>3 DEF MarketFree, Decides, Undisturbed
  <2>4. CASE v = t /\ Decides(v) /\ Undisturbed(u)
    BY <2>4 DEF MarketFree, Decides, Undisturbed
  <2>5. QED
    BY <1>4, <2>1, <2>2, <2>3, <2>4
<1>7. OwnCopy'
  <2> SUFFICES ASSUME NEW u \in Threads
               PROVE  /\ thread'[u].pc # "idle" => thread'[u].row \in Row
                      /\ thread'[u].pc = "queued"
                           /\ (thread'[u].order = 0 \/ thread'[u].row.bot) =>
                           /\ thread'[u].order = 0
                           /\ thread'[u].row.state = "submitting" /\ thread'[u].row.filled = 0
                      /\ thread'[u].pc \notin {"idle", "queued"} =>
                           /\ thread'[u].order \in Rows
                           /\ SameOrder(thread'[u].row, journal[thread'[u].order])
                      /\ thread'[u].pc \in Pending /\ thread'[u].row.bot => u \in Loopers
    BY <1>1 DEF OwnCopy, SameOrder, ControlsMoveOn
  <2>1. CASE Undisturbed(u)
    BY <2>1 DEF OwnCopy, Undisturbed
  <2>2. CASE u = t /\ Decides(u)
    BY <2>2 DEF Decides
  <2>3. QED
    BY <1>4, <2>1, <2>2
<1>8. Unposted'
  BY <1>4 DEF Unposted, BeforePost, Undisturbed, Decides, ControlsMoveOn
<1>9. VenueHistory' /\ ResolvedIsTrue'
  BY <1>1 DEF VenueHistory, ResolvedIsTrue, ControlsMoveOn
<1>10. SeenIsTrue' /\ FillsAreTrue'
  <2>1. \A u \in Threads : thread'[u].pc \notin {"idle", "queued"} =>
          /\ thread'[u].pc = thread[u].pc /\ thread'[u].order = thread[u].order
          /\ thread'[u].row = thread[u].row /\ thread'[u].seen = thread[u].seen
    BY <1>4 DEF Undisturbed, Decides
  <2>2. journal' = journal /\ venue' = venue
    BY DEF ControlsMoveOn
  <2>3. SeenIsTrue'
    BY <2>1, <2>2 DEF SeenIsTrue
  <2>4. FillsAreTrue'
    BY <1>1, <2>1, <2>2 DEF FillsAreTrue
  <2>5. QED
    BY <2>3, <2>4
<1>11. Fenced'
  <2> SUFFICES ASSUME NEW u \in Threads, thread'[u].pc \in Pending, thread'[u].row.bot
               PROVE  LET rev == control'[thread'[u].row.market].revision
                      IN  /\ 0 < thread'[u].revision /\ thread'[u].revision <= rev
                          /\ thread'[u].changed => thread'[u].revision < rev
    BY DEF Fenced
  <2>1. thread[u].revision \in Nat /\ thread'[u].revision \in Nat
    BY DEF TypeOK, Thread
  <2>2. CASE Undisturbed(u)
    <3>1. thread[u].row.market \in Markets
      BY <2>2 DEF OwnCopy, Pending, Undisturbed, Row
    <3>2. QED
      BY <1>3, <2>1, <2>2, <3>1 DEF Fenced, Undisturbed, ControlsMoveOn
  <2>3. CASE Decides(u)
    <3>1. thread'[u].row.market \in Markets
      BY <2>3 DEF Decides, Row
    <3>2. QED
      BY <1>3, <2>1, <2>3, <3>1 DEF Decides
  <2>4. QED
    BY <1>4, <2>2, <2>3
<1>12. NothingInTheWay'
  <2>1. \A u \in Threads : thread'[u].pc \in BeforePost => Undisturbed(u)
    BY <1>4 DEF BeforePost, Decides
  <2>2. \A u \in Threads : thread'[u].pc \in BeforePost =>
          /\ thread[u].pc \in BeforePost /\ thread'[u].order = thread[u].order
          /\ thread'[u].row.market = thread[u].row.market /\ IsStop(u)' = IsStop(u)
    BY <2>1 DEF Undisturbed, IsStop
  <2>3. \A p : AtExchange(p)' = AtExchange(p) /\ journal'[p].market = journal[p].market
    BY DEF AtExchange, ControlsMoveOn
  <2>4. QED
    BY <1>1, <2>2, <2>3 DEF NothingInTheWay
<1>13. FirstEntry'
  <2> SUFFICES ASSUME NEW u \in Threads,
                      thread'[u].pc \in Pending, thread'[u].row.bot,
                      thread'[u].row.action = "buy",
                      NEW o \in BotRows(thread'[u].row.market, "buy"), Live(o)
               PROVE  o = thread'[u].order
    BY <1>2 DEF FirstEntry, Live, ControlsMoveOn
  <2>1. CASE Undisturbed(u)
    BY <2>1 DEF FirstEntry, Undisturbed
  <2>2. CASE Decides(u)
    BY <2>2 DEF Decides
  <2>3. QED
    BY <1>4, <2>1, <2>2
<1>14. OneLiveEntry' /\ StopOfAnEntry'
  <2>1. \A o : Live(o)' <=> Live(o)
    BY DEF Live, ControlsMoveOn
  <2>2. OneLiveEntry'
    BY <1>2, <2>1 DEF OneLiveEntry
  <2>3. StopOfAnEntry'
    BY <1>2 DEF StopOfAnEntry, ControlsMoveOn
  <2>4. QED
    BY <2>2, <2>3
<1>15. QED
  BY <1>1, <1>5, <1>6, <1>7, <1>8, <1>9, <1>10, <1>11, <1>12, <1>13, <1>14

LEMMA ControlRevised ==
  ASSUME NEW c \in Control, NEW e \in BOOLEAN, NEW p \in BOOLEAN
  PROVE  /\ LET d == [c EXCEPT !.enabled = e, !.paused = p, !.revision = @ + 1]
            IN  d \in Control /\ d.revision = c.revision + 1 /\ d.stop = c.stop
         /\ LET d == [c EXCEPT !.enabled = e, !.revision = @ + 1]
            IN  d \in Control /\ d.revision = c.revision + 1 /\ d.stop = c.stop
<1>1. c.revision + 1 \in Nat
  BY DEF Control
<1>2. ASSUME NEW n \in Nat
      PROVE  LET d == [c EXCEPT !.enabled = e, !.paused = p, !.revision = n]
             IN  d \in Control /\ d.revision = n /\ d.stop = c.stop
  BY DEF Control
<1>3. ASSUME NEW n \in Nat
      PROVE  LET d == [c EXCEPT !.enabled = e, !.revision = n]
             IN  d \in Control /\ d.revision = n /\ d.stop = c.stop
  BY DEF Control
<1>4. QED
  BY <1>1, <1>2, <1>3

LEMMA ControlStopped ==
  ASSUME NEW c \in Control
  PROVE  LET d == [c EXCEPT !.stop = TRUE]
         IN  d \in Control /\ d.revision = c.revision /\ d.stop
  BY DEF Control

LEMMA AllChangedType ==
  ASSUME TypeOK
  PROVE  /\ AllChanged \in [Threads -> Thread]
         /\ \A u \in Threads :
              /\ AllChanged[u].pc = thread[u].pc /\ AllChanged[u].order = thread[u].order
              /\ AllChanged[u].row = thread[u].row /\ AllChanged[u].seen = thread[u].seen
              /\ AllChanged[u].revision = thread[u].revision
<1> DEFINE y(u, b) == [thread[u] EXCEPT !.changed = b]
<1>1. ASSUME NEW u \in Threads, NEW b \in BOOLEAN
      PROVE  /\ y(u, b) \in Thread
             /\ y(u, b).pc = thread[u].pc /\ y(u, b).order = thread[u].order
             /\ y(u, b).row = thread[u].row /\ y(u, b).seen = thread[u].seen
             /\ y(u, b).revision = thread[u].revision
  <2>1. thread[u] \in Thread
    BY DEF TypeOK
  <2>2. QED
    BY <2>1 DEF Thread
<1>2. AllChanged =
        [u \in Threads |-> y(u, thread[u].changed \/ thread[u].pc \in {"queued", "preflight", "read"})]
  BY DEF AllChanged
<1>3. \A u \in Threads :
        (thread[u].changed \/ thread[u].pc \in {"queued", "preflight", "read"}) \in BOOLEAN
  OBVIOUS
<1> HIDE DEF y
<1>4. QED
  BY <1>1, <1>2, <1>3

(* After an operator's change every control that exists has moved on.      *)
LEMMA RevisedControls ==
  ASSUME LiveInv, ControlsMoveOn, thread' = AllChanged,
         \A m \in Markets : Exists(m) => control'[m].revision > control[m].revision
  PROVE  /\ thread' \in [Threads -> Thread]
         /\ \A u \in Threads : Undisturbed(u)
<1>1. ASSUME NEW u \in Threads, thread[u].pc \in Pending, thread[u].row.bot
      PROVE  control'[thread[u].row.market].revision > control[thread[u].row.market].revision
  <2>1. thread[u].row.market \in Markets
    BY <1>1 DEF LiveInv, OwnCopy, Pending, Row
  <2>2. thread[u].revision \in Nat /\ control[thread[u].row.market].revision \in Nat
    BY <2>1 DEF LiveInv, TypeOK, Thread, Control
  <2>3. Exists(thread[u].row.market)
    BY <1>1, <2>2 DEF LiveInv, Fenced, Exists
  <2>4. QED
    BY <2>1, <2>3
<1>2. QED
  BY <1>1, AllChangedType DEF LiveInv, Undisturbed

LEMMA SameThreads ==
  ASSUME TypeOK, UNCHANGED thread
  PROVE  thread' \in [Threads -> Thread] /\ \A u \in Threads : Undisturbed(u)
  BY DEF TypeOK, Undisturbed

LEMMA WorkerIsAThread == Worker \in Threads
  BY DEF Threads, Loopers

(* A position means an entry that was really filled.                       *)
LEMMA PositionWasBought ==
  ASSUME LiveInv, NEW m \in Markets, Bought(m) > 0
  PROVE  \E o \in BotRows(m, "buy") : venue[o].filled > 0
<1>1. \E o \in BotRows(m, "buy") : journal[o].filled > 0
  BY BotRowsAreRows, FillsType DEF LiveInv, Bought
<1>2. QED
  BY <1>1, BotRowsAreRows DEF LiveInv, FillsAreTrue

LEMMA BoughtAndSold ==
  ASSUME TypeOK, NEW m \in Markets
  PROVE  Bought(m) \in Nat /\ Sold(m) \in Nat /\ Held(m) \in Nat
<1>1. Bought(m) \in Nat /\ Sold(m) \in Nat
  BY BotRowsAreRows, FillsType DEF Bought, Sold
<1>2. QED
  BY <1>1 DEF Held

LEMMA ShutdownPreserves ==
  ASSUME LiveInv, PrepareShutdown
  PROVE  LiveInv'
<1> SUFFICES ControlsMoveOn /\ thread' \in [Threads -> Thread] /\ \A u \in Threads : Undisturbed(u)
  BY DecisionPreserves, WorkerIsAThread
<1> USE DEF LiveInv
<1>h1. \A n \in Markets : control[n] \in Control /\ control[n].revision \in Nat
  BY DEF TypeOK, Control
<1>h2. control \in [Markets -> Control] /\ closed \in [Markets -> BOOLEAN] /\ changes \in Nat
  BY DEF TypeOK
<1> DEFINE c(n) == [control[n] EXCEPT !.enabled = FALSE, !.revision = @ + 1]
<1>1. \A n \in Markets : /\ c(n) \in Control /\ c(n).revision = control[n].revision + 1
                        /\ c(n).stop = control[n].stop
  BY <1>h1, ControlRevised
<1>2. control' = [n \in Markets |-> IF Exists(n) THEN c(n) ELSE control[n]]
  BY DEF PrepareShutdown
<1> HIDE DEF c
<1>a. control' \in [Markets -> Control]
  BY <1>h1, <1>1, <1>2
<1>b. \A n \in Markets :
        /\ control'[n].revision >= control[n].revision
        /\ Exists(n) => control'[n].revision > control[n].revision
        /\ control'[n].stop = control[n].stop
  BY <1>h1, <1>1, <1>2
<1>c. policy' \in BOOLEAN
  BY DEF PrepareShutdown
<1>d. changes' \in Nat
  <2>1. changes' = changes + 1
    BY DEF PrepareShutdown, CanChange
  <2>2. QED
    BY <1>h2, <2>1
<1>e. closed' \in [Markets -> BOOLEAN] /\ UNCHANGED <<journal, venue, position, crashes>>
  BY <1>h2 DEF PrepareShutdown
<1>3. ControlsMoveOn
  BY <1>a, <1>b, <1>c, <1>d, <1>e DEF ControlsMoveOn
<1>4. QED
  BY <1>b, <1>3, RevisedControls DEF PrepareShutdown

LEMMA OperatorPreserves ==
  ASSUME LiveInv, NEW m \in Markets,
         \/ SyncMarkets(m) \/ Close(m) \/ DetectStop(m)
         \/ \E on \in BOOLEAN : Configure(m, on)
  PROVE  LiveInv'
<1> SUFFICES ControlsMoveOn /\ thread' \in [Threads -> Thread] /\ \A u \in Threads : Undisturbed(u)
  BY DecisionPreserves, WorkerIsAThread
<1> USE DEF LiveInv
<1>1. \A n \in Markets : control[n] \in Control /\ control[n].revision \in Nat
  BY DEF TypeOK, Control
<1>2. control \in [Markets -> Control] /\ policy \in BOOLEAN /\ closed \in [Markets -> BOOLEAN]
      /\ changes \in Nat
  BY DEF TypeOK
<1>3. CASE SyncMarkets(m)
  <2> DEFINE c == [control[m] EXCEPT !.revision = 1, !.enabled = TRUE]
  <2>1. c \in Control /\ c.revision = 1 /\ c.stop = control[m].stop
    BY <1>1 DEF Control
  <2>2. control' = [control EXCEPT ![m] = c] /\ control[m].revision <= 1
    BY <1>1, <1>3 DEF SyncMarkets, Exists
  <2> HIDE DEF c
  <2>3. ControlsMoveOn
    BY <1>1, <1>2, <1>3, <2>1, <2>2 DEF ControlsMoveOn, SyncMarkets
  <2>4. QED
    BY <1>3, <2>3, SameThreads DEF SyncMarkets
<1>4. CASE Close(m)
  <2>1. ControlsMoveOn
    BY <1>1, <1>2, <1>4 DEF ControlsMoveOn, Close
  <2>2. QED
    BY <1>4, <2>1, SameThreads DEF Close
<1>5. CASE DetectStop(m)
  <2> DEFINE c == [control[m] EXCEPT !.stop = TRUE]
  <2>1. c \in Control /\ c.revision = control[m].revision
    BY <1>1, ControlStopped
  <2>2. control' = [control EXCEPT ![m] = c]
    BY <1>5 DEF DetectStop
  <2>3. \E o \in BotRows(m, "buy") : venue[o].filled > 0
    BY <1>5, BoughtAndSold, PositionWasBought DEF DetectStop
  <2> HIDE DEF c
  <2>a. control' \in [Markets -> Control]
    BY <1>2, <2>1, <2>2
  <2>b. \A n \in Markets : control'[n].revision = control[n].revision
    BY <1>2, <2>1, <2>2
  <2>c. \A n \in Markets : n # m => control'[n] = control[n]
    BY <1>2, <2>2
  <2>4. ControlsMoveOn
    BY <1>1, <1>2, <1>5, <2>a, <2>b, <2>c, <2>3 DEF ControlsMoveOn, DetectStop
  <2>5. QED
    BY <1>5, <2>4, SameThreads DEF DetectStop
<1>7. ASSUME NEW on \in BOOLEAN, Configure(m, on)
      PROVE  ControlsMoveOn /\ thread' \in [Threads -> Thread] /\ \A u \in Threads : Undisturbed(u)
  <2> DEFINE c(n) == [control[n] EXCEPT !.enabled = on, !.paused = @ /\ ~on, !.revision = @ + 1]
             d(n) == [control[n] EXCEPT !.enabled = on /\ ~control[n].paused, !.revision = @ + 1]
  <2>1. \A n \in Markets :
          /\ c(n) \in Control /\ c(n).revision = control[n].revision + 1 /\ c(n).stop = control[n].stop
          /\ d(n) \in Control /\ d(n).revision = control[n].revision + 1 /\ d(n).stop = control[n].stop
    BY <1>1, ControlRevised
  <2>2. control' = [n \in Markets |-> IF n = m THEN c(n) ELSE IF Exists(n) THEN d(n) ELSE control[n]]
    BY <1>7 DEF Configure
  <2> HIDE DEF c, d
  <2>a. control' \in [Markets -> Control]
    BY <1>1, <2>1, <2>2
  <2>b. \A n \in Markets :
          /\ control'[n].revision >= control[n].revision
          /\ Exists(n) => control'[n].revision > control[n].revision
          /\ control'[n].stop = control[n].stop
    BY <1>1, <2>1, <2>2
  <2>c. policy' \in BOOLEAN
    BY <1>7 DEF Configure
  <2>d. changes' \in Nat
    <3>1. changes' = changes + 1
      BY <1>7 DEF Configure, CanChange
    <3>2. QED
      BY <1>2, <3>1
  <2>e. closed' \in [Markets -> BOOLEAN] /\ UNCHANGED <<journal, venue, position, crashes>>
    BY <1>2, <1>7 DEF Configure
  <2>3. ControlsMoveOn
    BY <2>a, <2>b, <2>c, <2>d, <2>e DEF ControlsMoveOn
  <2>4. QED
    BY <1>7, <2>b, <2>3, RevisedControls DEF Configure
<1>8. QED
  BY <1>3, <1>4, <1>5, <1>7

LEMMA SubmitType ==
  ASSUME TypeOK, NEW t \in Threads, NEW row \in Row, NEW order \in Nat
  PROVE  LET y == Submit(t, row, order)
         IN  /\ y \in Thread /\ y.pc = "queued" /\ y.row = row /\ y.order = order
             /\ ~y.changed
             /\ row.bot => y.revision = control[row.market].revision
<1> DEFINE n == IF row.bot THEN control[row.market].revision ELSE 0
<1>1. n \in Nat
  BY DEF TypeOK, Row, Control
<1> DEFINE y == [Idle EXCEPT !.pc = "queued", !.row = row, !.order = order, !.revision = n]
<1>2. Submit(t, row, order) = y
  BY DEF Submit
<1> HIDE DEF n
<1>3. /\ y \in Thread /\ y.pc = "queued" /\ y.row = row /\ y.order = order
      /\ ~y.changed /\ y.revision = n
  BY <1>1, IdleType DEF Idle, Thread, Places, SlotPlaces
<1>4. row.bot => n = control[row.market].revision
  BY DEF n
<1> HIDE DEF y
<1>5. QED
  BY <1>2, <1>3, <1>4

LEMMA HeldPreserves ==
  ASSUME LiveInv, NEW m \in Markets, NEW t \in Loopers, StepHeld(t, m)
  PROVE  LiveInv'
<1> DEFINE c == [control[m] EXCEPT !.stop = TRUE]
<1> USE DEF LiveInv
<1>1. t \in Threads /\ thread[t].pc = "idle" /\ MarketFree(m) /\ Exists(m)
  BY DEF Threads, StepHeld, Manageable
<1>2. PICK o \in BotRows(m, "buy") :
        thread' = [thread EXCEPT ![t] =
                     Submit(t, NewRow(m, "sell", journal[o].side, Held(m), TRUE), 0)]
  BY DEF StepHeld
<1> DEFINE row == NewRow(m, "sell", journal[o].side, Held(m), TRUE)
           y == Submit(t, row, 0)
<1>3. journal[o].side \in Sides /\ Held(m) \in Nat
  <2>1. o \in Rows
    BY BotRowsAreRows
  <2>2. journal[o] \in Row
    BY <2>1 DEF TypeOK, Rows
  <2>3. QED
    BY <2>2, BoughtAndSold DEF Row
<1>4. /\ row \in Row /\ row.market = m /\ row.action = "sell" /\ row.bot
      /\ row.state = "submitting" /\ row.filled = 0
  BY <1>3 DEF NewRow, Row, UNRESOLVED
<1> HIDE DEF row
<1>5. /\ y \in Thread /\ y.pc = "queued" /\ y.row = row /\ y.order = 0 /\ ~y.changed
      /\ y.revision = control[m].revision
  BY <1>1, <1>4, SubmitType
<1>6. c \in Control /\ c.revision = control[m].revision
  BY ControlStopped DEF TypeOK
<1>7. control' = [control EXCEPT ![m] = c] /\ thread' = [thread EXCEPT ![t] = y]
  BY <1>2 DEF StepHeld, row
<1> HIDE DEF c, y
<1>8. /\ control' \in [Markets -> Control]
      /\ \A n \in Markets : control'[n].revision = control[n].revision
      /\ \A n \in Markets : n # m => control'[n] = control[n]
      /\ \A n \in Markets : control[n].revision \in Nat
  BY <1>6, <1>7 DEF TypeOK, Control
<1>9. \E p \in BotRows(m, "buy") : venue[p].filled > 0
  <2>1. Bought(m) > 0
    BY BoughtAndSold DEF StepHeld, Held
  <2>2. QED
    BY <2>1, PositionWasBought
<1>10. policy' \in BOOLEAN /\ closed' \in [Markets -> BOOLEAN] /\ changes' \in Nat
       /\ UNCHANGED <<journal, venue, position, crashes>>
  BY DEF StepHeld, TypeOK
<1>11. ControlsMoveOn
  BY <1>8, <1>9, <1>10 DEF ControlsMoveOn
<1>12. /\ thread' \in [Threads -> Thread] /\ thread'[t] = y
       /\ \A u \in Threads : u # t => thread'[u] = thread[u]
  BY <1>1, <1>5, <1>7 DEF TypeOK
<1>13. \A u \in Threads : u # t => Undisturbed(u)
  BY <1>12 DEF Undisturbed
<1>14. Decides(t)
  BY <1>1, <1>4, <1>5, <1>8, <1>12 DEF Decides, Exists
<1>15. QED
  BY <1>1, <1>11, <1>12, <1>13, <1>14, DecisionPreserves

LEMMA FlatPreserves ==
  ASSUME LiveInv, NEW m \in Markets, NEW side \in Sides, StepFlat(m, side)
  PROVE  LiveInv'
<1> DEFINE row == NewRow(m, "buy", side, Size, TRUE)
           y == Submit(Worker, row, 0)
<1> USE DEF LiveInv
<1>1. /\ thread[Worker].pc = "idle" /\ MarketFree(m) /\ Exists(m) /\ Manageable(m) /\ Held(m) = 0
      /\ thread' = [thread EXCEPT ![Worker] = y]
      /\ UNCHANGED <<journal, control, policy, closed, venue, position, changes, crashes>>
  BY DEF StepFlat, Manageable
<1>2. /\ row \in Row /\ row.market = m /\ row.action = "buy" /\ row.bot
      /\ row.state = "submitting" /\ row.filled = 0
  BY LiveAssumption DEF NewRow, Row, UNRESOLVED
<1> HIDE DEF row
<1>3. /\ y \in Thread /\ y.pc = "queued" /\ y.row = row /\ y.order = 0 /\ ~y.changed
      /\ y.revision = control[m].revision
  BY <1>2, WorkerIsAThread, SubmitType
<1> HIDE DEF y
<1>4. \A n \in Markets : control[n].revision \in Nat
  BY DEF TypeOK, Control
<1>5. ControlsMoveOn
  BY <1>1, <1>4 DEF ControlsMoveOn, TypeOK
<1>6. /\ thread' \in [Threads -> Thread] /\ thread'[Worker] = y
      /\ \A u \in Threads : u # Worker => thread'[u] = thread[u]
  BY <1>1, <1>3, WorkerIsAThread DEF TypeOK
<1>7. \A u \in Threads : u # Worker => Undisturbed(u)
  BY <1>6 DEF Undisturbed
<1>8. \A o \in BotRows(m, "buy") : ~Live(o)
  <2> SUFFICES ASSUME NEW o \in BotRows(m, "buy") PROVE ~Live(o)
    OBVIOUS
  <2>1. o \in Rows /\ journal[o] \in Row /\ venue[o] \in VenueOrder
    BY BotRowsAreRows DEF TypeOK, Rows
  <2>2. ~Unresolved(o)
    BY <1>1, <2>1 DEF Manageable
  <2>3. ~(journal[o].filled > 0)
    <3>1. ~(Bought(m) > 0) /\ Bought(m) \in Nat
      BY <1>1, BoughtAndSold DEF Manageable
    <3>2. Bought(m) = 0
      BY <3>1
    <3>3. QED
      BY <3>2, BotRowsAreRows, FillsType DEF Bought
  <2>4. journal[o].state \in {"complete", "rejected"}
    BY <2>1, <2>2 DEF Unresolved, Row
  <2>5. CASE journal[o].state = "complete"
    BY <2>1, <2>3, <2>5 DEF ResolvedIsTrue, Live
  <2>6. CASE journal[o].state = "rejected"
    BY <2>1, <2>6 DEF ResolvedIsTrue, VenueHistory, Live
  <2>7. QED
    BY <2>4, <2>5, <2>6
<1>9. Decides(Worker)
  BY <1>1, <1>2, <1>3, <1>4, <1>6, <1>8 DEF Decides, Exists, Loopers
<1>10. QED
  BY <1>5, <1>6, <1>7, <1>9, WorkerIsAThread, DecisionPreserves

LEMMA UserSubmitPreserves ==
  ASSUME LiveInv, NEW u \in Users, NEW row \in Row, NEW order \in Nat, ~row.bot,
         order = 0 => row.state = "submitting" /\ row.filled = 0,
         UserSubmit(u, row, order)
  PROVE  LiveInv'
<1> DEFINE m == row.market
           y == Submit(u, row, order)
           others == IF Exists(m) THEN AllChanged ELSE thread
           c(n) == [control[n] EXCEPT !.enabled = FALSE, !.paused = @ \/ n = m, !.revision = @ + 1]
<1> USE DEF LiveInv
<1>1. u \in Threads /\ u \notin Loopers /\ thread[u].pc = "idle" /\ m \in Markets
  BY LiveAssumption DEF Threads, Loopers, UserSubmit, Row
<1>2. y \in Thread /\ y.pc = "queued" /\ y.row = row /\ y.order = order /\ ~y.changed
  BY <1>1, SubmitType
<1>3. thread' = [others EXCEPT ![u] = y]
  BY DEF UserSubmit
<1> HIDE DEF y
<1>4. /\ others \in [Threads -> Thread]
      /\ \A t \in Threads :
           /\ others[t].pc = thread[t].pc /\ others[t].order = thread[t].order
           /\ others[t].row = thread[t].row /\ others[t].seen = thread[t].seen
           /\ others[t].revision = thread[t].revision
           /\ ~Exists(m) => others[t].changed = thread[t].changed
  BY AllChangedType DEF TypeOK
<1> HIDE DEF others
<1>5. /\ thread' \in [Threads -> Thread] /\ thread'[u] = y
      /\ \A t \in Threads : t # u => thread'[t] = others[t]
  BY <1>1, <1>2, <1>3, <1>4
<1>6. \A n \in Markets : control[n] \in Control /\ control[n].revision \in Nat
  BY DEF TypeOK, Control
<1>7. \A n \in Markets :
        c(n) \in Control /\ c(n).revision = control[n].revision + 1 /\ c(n).stop = control[n].stop
  <2> TAKE n \in Markets
  <2>1. (control[n].paused \/ n = m) \in BOOLEAN /\ control[n] \in Control
    BY <1>6
  <2>2. QED
    BY <2>1, ControlRevised
<1>8. control' = [n \in Markets |-> IF ~Exists(m) \/ ~Exists(n) THEN control[n] ELSE c(n)]
  BY DEF UserSubmit, TakenOver
<1> HIDE DEF c
<1>9. /\ control' \in [Markets -> Control]
      /\ \A n \in Markets :
           /\ control'[n].revision >= control[n].revision
           /\ Exists(m) /\ Exists(n) => control'[n].revision > control[n].revision
           /\ control'[n].stop = control[n].stop
  BY <1>6, <1>7, <1>8
<1>10. policy' \in BOOLEAN
  BY DEF UserSubmit
<1>11. changes' \in Nat
  <2>1. changes' = changes + 1
    BY DEF UserSubmit, CanChange
  <2>2. QED
    BY <2>1 DEF TypeOK
<1>12. closed' \in [Markets -> BOOLEAN] /\ UNCHANGED <<journal, venue, position, crashes>>
  BY DEF UserSubmit, TypeOK
<1>13. ControlsMoveOn
  BY <1>9, <1>10, <1>11, <1>12 DEF ControlsMoveOn
<1>14. ASSUME NEW t \in Threads, t # u PROVE Undisturbed(t)
  <2>1. ASSUME thread[t].pc \in Pending, thread[t].row.bot
        PROVE  thread[t].row.market \in Markets /\ Exists(thread[t].row.market)
    <3>1. thread[t].row.market \in Markets
      BY <2>1 DEF OwnCopy, Pending, Row
    <3>2. thread[t].revision \in Nat /\ control[thread[t].row.market].revision \in Nat
      BY <1>6, <3>1 DEF TypeOK, Thread
    <3>3. QED
      BY <2>1, <3>1, <3>2 DEF Fenced, Exists
  <2>2. QED
    BY <1>4, <1>5, <1>9, <1>14, <2>1 DEF Undisturbed
<1>15. Decides(u)
  BY <1>1, <1>2, <1>5 DEF Decides
<1>16. QED
  BY <1>1, <1>5, <1>13, <1>14, <1>15, DecisionPreserves

LEMMA UserRequestPreserves ==
  ASSUME LiveInv, NEW u \in Users, UserRequest(u)
  PROVE  LiveInv'
<1>1. CASE \E m \in Markets, action \in {"buy", "sell"}, side \in Sides, n \in 1..Size :
             UserSubmit(u, NewRow(m, action, side, n, FALSE), 0)
  <2>1. PICK m \in Markets, action \in {"buy", "sell"}, side \in Sides, n \in 1..Size :
             UserSubmit(u, NewRow(m, action, side, n, FALSE), 0)
    BY <1>1
  <2>2. n \in Nat
    BY LiveAssumption
  <2> DEFINE row == NewRow(m, action, side, n, FALSE)
  <2>3. row \in Row /\ ~row.bot /\ row.state = "submitting" /\ row.filled = 0
    BY <2>2 DEF NewRow, Row, UNRESOLVED
  <2> HIDE DEF row
  <2>4. UserSubmit(u, row, 0)
    BY <2>1 DEF row
  <2>5. QED
    BY <2>3, <2>4, UserSubmitPreserves
<1>2. CASE \E o \in Rows : ~journal[o].bot /\ UserSubmit(u, journal[o], o)
  <2>1. PICK o \in Rows : ~journal[o].bot /\ UserSubmit(u, journal[o], o)
    BY <1>2
  <2>2. journal[o] \in Row /\ o \in Nat /\ o # 0
    BY DEF LiveInv, TypeOK, Rows
  <2>3. QED
    BY <2>1, <2>2, UserSubmitPreserves
<1>3. QED
  BY <1>1, <1>2 DEF UserRequest

-----------------------------------------------------------------------------
(* The exchange and restarts.                                              *)

Advances(o, v) ==
  /\ v \in VenueOrder /\ v.posts = venue[o].posts
  /\ \/ venue[o].phase = "sent" /\ v.phase \in {"open", "refused"} /\ v.filled = venue[o].filled
     \/ venue[o].phase = "open" /\ v.phase = "done"
  /\ venue' = [venue EXCEPT ![o] = v]
  /\ position' \in [Markets -> Int]
  /\ UNCHANGED <<journal, control, policy, closed, thread, changes, crashes>>

LEMMA AdvancePreserves ==
  ASSUME LiveInv, NEW o \in Rows, NEW v, Advances(o, v)
  PROVE  LiveInv'
<1> USE DEF LiveInv
<1>1. /\ venue' \in Seq(VenueOrder) /\ Len(venue') = Len(venue)
      /\ venue'[o] = v
      /\ \A p \in Rows : p # o => venue'[p] = venue[p]
  BY DEF Advances, TypeOK, Rows
<1>2. Rows' = Rows /\ \A m, a : BotRows(m, a)' = BotRows(m, a)
  BY DEF Advances, BotRows, Rows
<1>3. /\ venue[o].phase \in {"sent", "open"} /\ venue[o].filled = 0 /\ venue[o].posts = 1
      /\ v.phase \in {"open", "refused", "done"} /\ v.posts = 1
      /\ v.phase # "done" => v.filled = 0
  BY DEF Advances, VenueHistory
<1>4. TypeOK'
  BY <1>1 DEF TypeOK, Advances
<1>5. SlotExclusive' /\ MarketExclusive' /\ Fenced'
  BY DEF SlotExclusive, MarketExclusive, InSlot, Fenced, Advances
<1>6. OwnCopy'
  BY <1>2 DEF OwnCopy, SameOrder, Advances
<1>7. \A t \in Threads : thread[t].pc \notin {"idle", "queued"} => thread[t].order \in Rows
  BY DEF OwnCopy
<1>8. Unposted'
  BY <1>1, <1>3, <1>7 DEF Unposted, BeforePost, Advances
<1>9. VenueHistory'
  BY <1>1, <1>2, <1>3 DEF VenueHistory
<1>10. SeenIsTrue'
  BY <1>1, <1>3, <1>7 DEF SeenIsTrue, Advances
<1>11. FillsAreTrue'
  <2>1. \A p \in Rows : journal[p].filled > 0 => p # o
    <3>1. journal[o] \in Row
      BY DEF TypeOK, Rows
    <3>2. QED
      BY <1>3, <3>1 DEF FillsAreTrue, Row
  <2>2. \A t \in Threads :
          thread[t].pc \notin {"idle", "queued"} /\ thread[t].row.filled > 0
            => thread[t].order \in Rows /\ thread[t].order # o
    <3> SUFFICES ASSUME NEW t \in Threads, thread[t].pc \notin {"idle", "queued"},
                        thread[t].row.filled > 0, thread[t].order = o
                 PROVE  FALSE
      BY <1>7
    <3>1. venue[o].filled = thread[t].row.filled
      BY DEF FillsAreTrue
    <3>2. QED
      BY <1>3, <3>1
  <2>3. QED
    BY <1>1, <1>2, <2>1, <2>2 DEF FillsAreTrue, Advances
<1>12. ResolvedIsTrue'
  BY <1>1, <1>2, <1>3 DEF ResolvedIsTrue, Advances
<1>13. \A p \in Rows : (AtExchange(p)' => AtExchange(p)) /\ (Live(p)' => Live(p))
  BY <1>1, <1>3 DEF AtExchange, Live
<1>14. NothingInTheWay'
  BY <1>2, <1>13 DEF NothingInTheWay, BeforePost, IsStop, Advances
<1>15. \A m, a : BotRows(m, a) \subseteq Rows
  BY DEF BotRows
<1>16. FirstEntry' /\ OneLiveEntry'
  BY <1>2, <1>13, <1>15 DEF FirstEntry, OneLiveEntry, Pending, Advances
<1>17. StopOfAnEntry'
  <2>1. \A p \in Rows : venue[p].filled > 0 => venue'[p].filled > 0
    BY <1>1, <1>3
  <2>2. QED
    BY <1>2, <1>15, <2>1 DEF StopOfAnEntry, Advances
<1>18. QED
  BY <1>4, <1>5, <1>6, <1>8, <1>9, <1>10, <1>11, <1>12, <1>14, <1>16, <1>17

LEMMA ArrivePreserves ==
  ASSUME LiveInv, NEW o \in Rows, Arrive(o)
  PROVE  LiveInv'
<1>1. PICK phase \in {"open", "refused"} :
        venue' = [venue EXCEPT ![o] = [@ EXCEPT !.phase = phase]]
  BY DEF Arrive
<1> DEFINE v == [venue[o] EXCEPT !.phase = phase]
<1>2. venue[o] \in VenueOrder
  BY DEF LiveInv, TypeOK, Rows
<1>3. v \in VenueOrder /\ v.phase = phase /\ v.filled = venue[o].filled /\ v.posts = venue[o].posts
  BY <1>2 DEF VenueOrder, Phases
<1>4. venue' = [venue EXCEPT ![o] = v]
  BY <1>1
<1> HIDE DEF v
<1>5. Advances(o, v)
  BY <1>3, <1>4 DEF Advances, Arrive, LiveInv, TypeOK
<1>6. QED
  BY <1>5, AdvancePreserves

LEMMA MatchPreserves ==
  ASSUME LiveInv, NEW o \in Rows, Match(o)
  PROVE  LiveInv'
<1> DEFINE m == journal[o].market
           v(n) == [venue[o] EXCEPT !.phase = "done", !.filled = n]
<1>1. journal[o] \in Row /\ venue[o] \in VenueOrder /\ position \in [Markets -> Int]
  BY DEF LiveInv, TypeOK, Rows
<1>2. m \in Markets /\ journal[o].count \in Nat /\ position[m] \in Int
  BY <1>1 DEF Row
<1> DEFINE fills == IF journal[o].action = "buy" THEN {0, journal[o].count}
                    ELSE {k \in 0..journal[o].count : k <= Holding(position[m], journal[o].side)}
<1>9. fills \subseteq Nat
  BY <1>2
<1>10. PICK n \in fills :
        /\ venue' = [venue EXCEPT ![o] = v(n)]
        /\ position' = [position EXCEPT ![m] =
                          IF journal[o].action = "buy" THEN position[m] + Signed(journal[o].side, n)
                          ELSE position[m] - Signed(journal[o].side, n)]
  BY DEF Match
<1>3. n \in Nat
  BY <1>9
<1>4. v(n) \in VenueOrder /\ v(n).phase = "done" /\ v(n).posts = venue[o].posts
  BY <1>1, <1>3 DEF VenueOrder, Phases
<1> HIDE DEF v
<1>5. Signed(journal[o].side, n) \in Int
  BY <1>3 DEF Signed
<1>6. position' \in [Markets -> Int]
  BY <1>1, <1>2, <1>10, <1>5
<1>7. Advances(o, v(n))
  BY <1>10, <1>4, <1>6 DEF Advances, Match
<1>8. QED
  BY <1>7, AdvancePreserves

(* The journal a crash leaves: as it was, or with the index of an order    *)
(* that was about to be sent.                                              *)
LEMMA CrashEffect ==
  ASSUME LiveInv, Crash
  PROVE  \/ UNCHANGED journal
         \/ \E t \in Threads, r \in Row :
              /\ thread[t].pc = "read" /\ thread[t].order \in Rows
              /\ SameOrder(r, journal[thread[t].order])
              /\ r.state = "submitting" /\ ~(r.filled > 0)
              /\ journal' = [journal EXCEPT ![thread[t].order] = r]
<1> SUFFICES ASSUME NEW t \in Threads, thread[t].pc = "read",
                    Save(thread[t].order,
                         [Sized(thread[t].row, thread[t].held) EXCEPT !.indexed = TRUE])
             PROVE  \E r \in Row :
                      /\ thread[t].order \in Rows
                      /\ SameOrder(r, journal[thread[t].order])
                      /\ r.state = "submitting" /\ ~(r.filled > 0)
                      /\ journal' = [journal EXCEPT ![thread[t].order] = r]
  BY DEF Crash
<1> DEFINE o == thread[t].order
           sized == Sized(thread[t].row, thread[t].held)
           r == [sized EXCEPT !.indexed = TRUE]
<1>1. /\ thread[t].row \in Row /\ thread[t].held \in Int /\ o \in Rows
      /\ SameOrder(thread[t].row, journal[o]) /\ thread[t].row.state = "submitting"
  BY DEF LiveInv, TypeOK, OwnCopy, Unposted, BeforePost, Thread
<1>2. ~(thread[t].row.filled > 0)
  <2>1. venue[o].phase = "none"
    BY DEF LiveInv, Unposted, BeforePost
  <2>2. venue[o].filled = 0
    BY <1>1, <2>1 DEF LiveInv, VenueHistory
  <2>3. thread[t].row.filled > 0 => venue[o].filled = thread[t].row.filled
    BY DEF LiveInv, FillsAreTrue
  <2>4. QED
    BY <2>2, <2>3
<1>3. /\ sized \in Row /\ SameOrder(sized, thread[t].row)
      /\ sized.state = thread[t].row.state /\ sized.filled = thread[t].row.filled
  BY <1>1, RowSized
<1> HIDE DEF sized
<1>4. r \in Row /\ SameOrder(r, sized) /\ r.state = sized.state /\ r.filled = sized.filled
  BY <1>3, RowIndexed
<1>5. journal' = [journal EXCEPT ![o] = r]
  BY DEF Save, sized
<1> HIDE DEF r
<1>6. SameOrder(r, journal[o])
  BY <1>1, <1>3, <1>4 DEF SameOrder
<1>7. QED
  BY <1>1, <1>2, <1>3, <1>4, <1>5, <1>6

LEMMA CrashPreserves ==
  ASSUME LiveInv, Crash
  PROVE  LiveInv'
<1> USE DEF LiveInv
<1>1. /\ journal' \in Seq(Row) /\ Len(journal') = Len(journal)
      /\ \A p \in Rows :
           /\ SameOrder(journal'[p], journal[p])
           /\ \/ journal'[p] = journal[p]
              \/ journal'[p].state = "submitting" /\ ~(journal'[p].filled > 0)
  <2>1. CASE UNCHANGED journal
    BY <2>1 DEF TypeOK, SameOrder
  <2>2. ASSUME NEW t \in Threads, NEW r \in Row,
               thread[t].order \in Rows, SameOrder(r, journal[thread[t].order]),
               r.state = "submitting", ~(r.filled > 0),
               journal' = [journal EXCEPT ![thread[t].order] = r]
        PROVE  /\ journal' \in Seq(Row) /\ Len(journal') = Len(journal)
               /\ \A p \in Rows :
                    /\ SameOrder(journal'[p], journal[p])
                    /\ \/ journal'[p] = journal[p]
                       \/ journal'[p].state = "submitting" /\ ~(journal'[p].filled > 0)
    <3> DEFINE o == thread[t].order
    <3>1. /\ journal' \in Seq(Row) /\ Len(journal') = Len(journal) /\ journal'[o] = r
          /\ \A p \in Rows : p # o => journal'[p] = journal[p]
      BY <2>2 DEF TypeOK, Rows
    <3>2. QED
      BY <2>2, <3>1 DEF SameOrder
  <2>3. QED
    BY <2>1, <2>2, CrashEffect
<1>2. Rows' = Rows
  BY <1>1 DEF Rows
<1>3. \A m, a : BotRows(m, a)' = BotRows(m, a)
  BY <1>1, <1>2 DEF BotRows, SameOrder
<1>4. /\ thread' \in [Threads -> Thread]
      /\ \A t \in Threads : thread'[t].pc = "idle"
  BY IdleType DEF Crash
<1>5. TypeOK'
  <2>1. crashes' \in Nat
    <3>1. crashes' = crashes + 1
      BY DEF Crash
    <3>2. QED
      BY <3>1 DEF TypeOK
  <2>2. UNCHANGED <<control, policy, closed, venue, position, changes>>
    BY DEF Crash
  <2>3. QED
    BY <1>1, <1>4, <2>1, <2>2 DEF TypeOK
<1>6. SlotExclusive' /\ MarketExclusive' /\ OwnCopy' /\ Unposted' /\ SeenIsTrue'
  BY <1>4
     DEF SlotExclusive, MarketExclusive, OwnCopy, Unposted, SeenIsTrue, InSlot, SlotPlaces,
         Pending, BeforePost, Loopers, Threads
<1>7. Fenced' /\ NothingInTheWay' /\ FirstEntry'
  BY <1>4 DEF Fenced, NothingInTheWay, FirstEntry, Pending, BeforePost
<1>8. UNCHANGED <<control, venue>>
  BY DEF Crash
<1>9. VenueHistory'
  BY <1>2, <1>8 DEF VenueHistory
<1>10. FillsAreTrue' /\ ResolvedIsTrue'
  BY <1>1, <1>2, <1>4, <1>8 DEF FillsAreTrue, ResolvedIsTrue
<1>11. OneLiveEntry' /\ StopOfAnEntry'
  BY <1>3, <1>8 DEF OneLiveEntry, StopOfAnEntry, Live
<1>12. QED
  BY <1>5, <1>6, <1>7, <1>9, <1>10, <1>11

-----------------------------------------------------------------------------
(* The invariant.                                                          *)

LEMMA InitInv == Init => LiveInv
<1> SUFFICES ASSUME Init PROVE LiveInv
  OBVIOUS
<1>1. Rows = {} /\ \A m, a : BotRows(m, a) = {}
  BY DEF Init, Rows, BotRows
<1>2. thread \in [Threads -> Thread] /\ \A t \in Threads : thread[t].pc = "idle"
  BY IdleType DEF Init
<1>3. TypeOK
  BY <1>2 DEF Init, TypeOK, Control
<1>4. SlotExclusive /\ MarketExclusive /\ OwnCopy /\ Unposted /\ SeenIsTrue
  BY <1>2
     DEF SlotExclusive, MarketExclusive, OwnCopy, Unposted, SeenIsTrue, InSlot, SlotPlaces,
         Pending, BeforePost, Loopers, Threads
<1>5. VenueHistory /\ FillsAreTrue /\ ResolvedIsTrue
  BY <1>1, <1>2 DEF VenueHistory, FillsAreTrue, ResolvedIsTrue
<1>6. Fenced /\ NothingInTheWay /\ FirstEntry /\ OneLiveEntry
  BY <1>1, <1>2 DEF Fenced, NothingInTheWay, FirstEntry, OneLiveEntry, Pending, BeforePost
<1>7. StopOfAnEntry
  BY DEF Init, StopOfAnEntry
<1>8. QED
  BY <1>3, <1>4, <1>5, <1>6, <1>7 DEF LiveInv

LEMMA StutterInv == LiveInv /\ UNCHANGED vars => LiveInv'
  BY DEF vars, LiveInv, TypeOK, SlotExclusive, MarketExclusive, OwnCopy, Unposted, VenueHistory,
         SeenIsTrue, FillsAreTrue, ResolvedIsTrue, Fenced, NothingInTheWay, FirstEntry,
         OneLiveEntry, StopOfAnEntry, InSlot, Rows, SameOrder, AtExchange, IsStop, Live, BotRows

LEMMA NextInv == LiveInv /\ [Next]_vars => LiveInv'
<1> SUFFICES ASSUME LiveInv, [Next]_vars PROVE LiveInv'
  OBVIOUS
<1>1. CASE UNCHANGED vars
  BY <1>1, StutterInv
<1>2. ASSUME NEW m \in Markets,
             \/ SyncMarkets(m) \/ Close(m) \/ DetectStop(m)
             \/ \E on \in BOOLEAN : Configure(m, on)
             \/ \E t \in Loopers : StepHeld(t, m)
             \/ \E side \in Sides : StepFlat(m, side)
      PROVE  LiveInv'
  BY <1>2, OperatorPreserves, HeldPreserves, FlatPreserves
<1>3. CASE PrepareShutdown
  BY <1>3, ShutdownPreserves
<1>4. CASE \E u \in Users : UserRequest(u)
  BY <1>4, UserRequestPreserves
<1>5. ASSUME NEW t \in Threads, Submission(t) PROVE LiveInv'
  BY <1>5, ClaimPreserves, HandlersEnd, ReadPositionPreserves, PostPreserves, AcknowledgedPreserves
     DEF Submission
<1>6. ASSUME NEW t \in Threads, Reconciliation(t) PROVE LiveInv'
  BY <1>6, FetchPreserves, LookupFailsPreserves, HandlersEnd DEF Reconciliation
<1>7. ASSUME NEW o \in Rows,
             StartReconcile(o) \/ Arrive(o) \/ Match(o) \/ \E c \in Checkers : CheckOrder(c, o)
      PROVE  LiveInv'
  <2>1. Worker \in Threads /\ \A c \in Checkers : c \in Threads
    BY DEF Threads, Loopers
  <2>2. QED
    BY <1>7, <2>1, LookupPreserves, ArrivePreserves, MatchPreserves
<1>8. CASE Crash
  BY <1>8, CrashPreserves
<1>9. QED
  BY <1>1, <1>2, <1>3, <1>4, <1>5, <1>6, <1>7, <1>8 DEF Next

(* LiveInv is an invariant of the order path.                              *)
THEOREM LiveInvariant == Spec => []LiveInv
  BY InitInv, NextInv, PTL DEF Spec
=============================================================================
