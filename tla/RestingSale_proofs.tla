--------------------------- MODULE RestingSale_proofs ---------------------------
(***************************************************************************)
(* The resting take-profit for every number of connections, contracts,     *)
(* rows and faults: offers are covered, remainders are true, and no offer  *)
(* outlives a granted shutdown.                                            *)
(*                                                                         *)
(* The argument.  A coroutine that claims a row in the submission slot     *)
(* finds every other row resolved (Alone), and only Claim makes a row      *)
(* unresolved, so one order is at the exchange at most and the holdings    *)
(* read for it cannot change before its POST (Covered).  A row is saved    *)
(* only from a copy or an answer that is still true of the order           *)
(* (ThreadOk), so a resolved row is exact (RowOk).  A granted shutdown     *)
(* found no offer open and raised the revision over every decision taken   *)
(* before; a later one needs contracts that the journal shows held, and    *)
(* the exchange has sold them (Prepared).                                  *)
(***************************************************************************)
EXTENDS RestingSale, FiniteSetTheorems, TLAPS

-----------------------------------------------------------------------------
(* The inductive invariant                                                 *)

Claimed == {"preflight", "read", "posting", "acked", "fetched"}
Ahead == {"sizing", "queued", "preflight", "read"}
Copying == {"preflight", "read", "posting", "acked", "deleting"}
Answered == {"found", "located", "verified", "fetched"}
Aimless == {"idle", "resume", "sizing", "queued"}
Reached == {"open", "done"}

\* The submission slot has one holder.
SlotExclusive == \A t, u \in Threads : InSlot(t) /\ InSlot(u) => t = u

\* A row against its order: fills are behind, resolved rows are exact, and
\* only an offer that the exchange has seen lies open.
RowOk(j, v) ==
  /\ j.filled <= v.filled
  /\ v.phase \in {"none", "sent", "refused"} => v.filled = 0
  /\ v.phase = "sent" => j.count > 0
  /\ v.phase = "open" => j.kind = "offer" /\ v.filled < j.count
  /\ j.acked => v.phase \in Reached
  /\ j.state = "complete" => v.phase = "done" /\ j.filled = v.filled
  /\ j.state = "rejected" => v.phase \in {"none", "refused"}
RowsTrue == \A o \in Rows : RowOk(journal[o], venue[o])

\* What is unresolved, and so may be at the exchange, is one row.
OneUnresolved == \A o, p \in Rows : Unresolved(o) /\ Unresolved(p) => o = p

\* The poster's row is the only one that is not resolved.
Alone ==
  \A t \in Threads : thread[t].pc \in Claimed =>
    \A o \in Rows : Unresolved(o) => o = thread[t].order

\* A sale at the exchange fits, and holdings read for the next are current.
Covered ==
  /\ position >= 0
  /\ \A o \in Rows : AtExchange(o) => journal[o].count - venue[o].filled <= position
  /\ \A t \in Threads : thread[t].pc = "read" => thread[t].held = position

\* What a coroutine r keeps over an await is true of the row j and the order
\* v it is about: a new sale is not at the exchange before its POST, the copy
\* that will be saved has its row's identity and no fill too many, and what a
\* GET found of a finished order stays so.
ThreadOk(r, j, v) ==
  /\ r.held >= 0
  /\ r.pc \in Ahead \cup {"posting"} =>
       r.row.state = "submitting" /\ r.row.filled = 0 /\ ~r.row.acked
  /\ r.pc \in {"preflight", "read"} => v.phase = "none"
  /\ r.pc \in Copying =>
       /\ r.row.kind = j.kind /\ r.row.count = j.count
       /\ r.row.state \in UNRESOLVED
       /\ r.row.filled <= v.filled
  /\ r.pc = "posting" => v.phase # "none"
  /\ r.pc \in {"acked", "deleting"} \cup Answered => v.phase \in Reached
  /\ r.pc \in {"cancelqueued", "deleting"} => j.kind = "offer"
  /\ r.pc \in Answered =>
       /\ r.seen.phase \in Reached /\ r.seen.filled <= v.filled
       /\ r.seen.phase = "done" => v.phase = "done" /\ r.seen.filled = v.filled
       /\ r.seen.phase = "open" => j.kind = "offer"

ThreadsTrue ==
  \A t \in Threads :
    /\ thread[t].pc \notin Aimless => thread[t].order \in Rows
    /\ ThreadOk(thread[t], journal[thread[t].order], venue[thread[t].order])

\* No offer lies or will lie at the exchange after a prepared shutdown: one
\* that was decided before is fenced, and none is decided as the market is
\* paused or closed or what the bot bought is sold.
Fenced(t) == thread[t].revision < control.revision \/ control.paused \/ closed
BotRows == {o \in Rows : journal[o].kind # "manual"}
Sold == Size <= Filled(venue, BotRows)
Prepared ==
  prepared =>
    /\ \A o \in Offers : ~AtExchange(o)
    /\ \A t \in Threads : thread[t].pc \in Ahead /\ thread[t].row.kind = "offer" => Fenced(t)
    /\ control.paused \/ closed \/ Sold

\* Nothing was decided on a revision that does not exist yet.
Revisions == \A t \in Threads : thread[t].revision <= control.revision

RestingInv ==
  /\ TypeOK /\ SlotExclusive /\ RowsTrue /\ OneUnresolved /\ Alone
  /\ Covered /\ ThreadsTrue /\ Prepared /\ Revisions

-----------------------------------------------------------------------------
(* Counting fills                                                          *)

Units(record, S) == UNION {{o} \X (1..record[o].filled) : o \in S}

LEMMA UnitsFinite ==
  ASSUME NEW n \in Nat, NEW S \in SUBSET (1..n), NEW f, \A o \in S : f[o].filled \in Int
  PROVE  IsFiniteSet(Units(f, S)) /\ Filled(f, S) \in Nat
<1> DEFINE part == [o \in S |-> {o} \X (1..f[o].filled)]
           parts == {{o} \X (1..f[o].filled) : o \in S}
<1>1. IsFiniteSet(S)
  <2>1. IsFiniteSet(1..n)
    BY FS_Interval, 1 \in Int, n \in Int
  <2>2. QED
    BY <2>1, FS_Subset
<1>2. part \in Surjection(S, parts)
  BY DEF Surjection
<1>3. IsFiniteSet(parts)
  BY <1>1, <1>2, FS_Surjection
<1>4. \A o \in S : IsFiniteSet({o} \X (1..f[o].filled))
  <2> TAKE o \in S
  <2>1. IsFiniteSet({o}) /\ IsFiniteSet(1..f[o].filled)
    BY FS_Singleton, FS_Interval, 1 \in Int
  <2>2. QED
    BY <2>1, FS_Product
<1>5. \A T \in parts : IsFiniteSet(T)
  BY <1>4
<1>6. IsFiniteSet(UNION parts)
  <2> HIDE DEF parts
  <2>1. QED
    BY <1>3, <1>5, FS_UNION
<1>7. QED
  BY <1>6, FS_CardinalityType DEF Units, Filled

LEMMA FilledGrows ==
  ASSUME NEW n \in Nat, NEW S \in SUBSET (1..n), NEW T \in SUBSET (1..n), NEW f, NEW g,
         S \subseteq T,
         \A o \in S : f[o].filled \in Int,
         \A o \in T : g[o].filled \in Int,
         \A o \in S : f[o].filled <= g[o].filled
  PROVE  Filled(f, S) <= Filled(g, T)
<1>1. IsFiniteSet(Units(g, T))
  BY UnitsFinite
<1>2. ASSUME NEW o \in S, NEW i \in 1..f[o].filled
      PROVE  i \in 1..g[o].filled
  BY <1>2
<1>3. Units(f, S) \subseteq Units(g, T)
  BY <1>2 DEF Units
<1>4. QED
  BY <1>1, <1>3, FS_Subset DEF Units, Filled

LEMMA FilledSame ==
  ASSUME NEW S, NEW f, NEW g, \A o \in S : f[o].filled = g[o].filled
  PROVE  Filled(f, S) = Filled(g, S)
<1>1. Units(f, S) = Units(g, S)
  BY DEF Units
<1>2. QED
  BY <1>1 DEF Units, Filled

LEMMA FilledOfOne ==
  ASSUME NEW S, NEW f, NEW p \in Nat,
         \A o \in S : f[o].filled \in Int /\ f[o].filled <= p,
         \A o, q \in S : o = q
  PROVE  Filled(f, S) <= p
<1>1. CASE S = {}
  <2>1. Units(f, S) = {}
    BY <1>1 DEF Units
  <2>2. QED
    BY <2>1, FS_EmptySet DEF Units, Filled
<1>2. CASE S # {}
  <2>1. PICK o \in S : TRUE
    BY <1>2
  <2>2. S = {o}
    BY <2>1
  <2>3. Units(f, S) = {o} \X (1..f[o].filled)
    BY <2>2 DEF Units
  <2> DEFINE m == f[o].filled
  <2>a. m \in Int /\ m <= p
    BY <2>1
  <2> HIDE DEF m
  <2>b. IsFiniteSet(1..m) /\ Cardinality(1..m) <= p
    <3>1. /\ IsFiniteSet(1..m)
          /\ Cardinality(1..m) = IF 1 > m THEN 0 ELSE m - 1 + 1
      BY <2>a, FS_Interval, 1 \in Int, Zenon
    <3>2. QED
      BY <3>1, <2>a
  <2>4. /\ IsFiniteSet({o}) /\ Cardinality({o}) = 1
        /\ IsFiniteSet(1..f[o].filled) /\ Cardinality(1..f[o].filled) <= p
    BY <2>b, FS_Singleton DEF m
  <2>5. Cardinality(1..f[o].filled) \in Nat
    BY <2>4, FS_CardinalityType
  <2>6. Cardinality({o} \X (1..f[o].filled)) = 1 * Cardinality(1..f[o].filled)
    BY <2>4, FS_Product
  <2>7. Cardinality({o} \X (1..f[o].filled)) <= p
    BY <2>4, <2>5, <2>6
  <2>8. QED
    BY <2>3, <2>7 DEF Units, Filled
<1>3. QED
  BY <1>1, <1>2
-----------------------------------------------------------------------------
(* What the steps have in common                                           *)

LEMMA RestingTypes ==
  ASSUME TypeOK
  PROVE  /\ Automation \in Threads
         /\ \A o \in Rows : journal[o] \in Row /\ venue[o] \in VenueOrder /\ o \in Nat
         /\ \A t \in Threads : thread[t] \in Thread
         /\ Len(journal) \in Nat /\ Rows = DOMAIN journal /\ Rows = DOMAIN venue
  BY DEF TypeOK, Rows, Threads

LEMMA AtExchangeUnresolved ==
  ASSUME TypeOK, RowsTrue, NEW o \in Rows, AtExchange(o)
  PROVE  Unresolved(o)
<1>1. journal[o] \in Row /\ venue[o] \in VenueOrder /\ RowOk(journal[o], venue[o])
  BY RestingTypes DEF RowsTrue
<1>2. QED
  BY <1>1 DEF AtExchange, Unresolved, RowOk, Row, VenueOrder

\* One order is at the exchange at most.
LEMMA OneAtExchange ==
  ASSUME RestingInv, NEW o \in Rows, NEW p \in Rows, AtExchange(o), AtExchange(p)
  PROVE  o = p
  BY AtExchangeUnresolved DEF RestingInv, OneUnresolved

LEMMA ResolvedIsExact ==
  ASSUME TypeOK, RowsTrue, NEW o \in Rows, ~Unresolved(o)
  PROVE  ~AtExchange(o) /\ venue[o].filled = journal[o].filled
<1>1. journal[o] \in Row /\ venue[o] \in VenueOrder /\ RowOk(journal[o], venue[o])
  BY RestingTypes DEF RowsTrue
<1>2. QED
  BY <1>1 DEF AtExchange, Unresolved, RowOk, Row, VenueOrder, UNRESOLVED

LEMMA HeldType ==
  ASSUME TypeOK
  PROVE  /\ Filled(journal, BotRows) \in Nat /\ Filled(venue, BotRows) \in Nat
         /\ Held = Size - Filled(journal, BotRows) /\ Held \in Int
<1>1. \A o \in BotRows : journal[o].filled \in Int /\ venue[o].filled \in Int
  BY RestingTypes DEF BotRows, Row, VenueOrder
<1>2. BotRows \in SUBSET (1..Len(journal)) /\ Len(journal) \in Nat
  BY RestingTypes DEF BotRows, Rows
<1>3. Filled(journal, BotRows) \in Nat /\ Filled(venue, BotRows) \in Nat
  BY <1>1, <1>2, UnitsFinite
<1>4. QED
  BY <1>3, RestingAssumption DEF Held, BotRows

\* What the journal says sold is sold.
LEMMA HeldBounds ==
  ASSUME TypeOK, RowsTrue
  PROVE  /\ Held <= 0 => Sold
         /\ Sold /\ ~AnyUnresolved => Held <= 0
<1>1. \A o \in BotRows : /\ journal[o].filled \in Int /\ venue[o].filled \in Int
                         /\ journal[o].filled <= venue[o].filled
  BY RestingTypes DEF BotRows, Row, VenueOrder, RowsTrue, RowOk
<1>2. BotRows \in SUBSET (1..Len(journal)) /\ Len(journal) \in Nat
  BY RestingTypes DEF BotRows, Rows
<1>3. Filled(journal, BotRows) <= Filled(venue, BotRows)
  BY <1>1, <1>2, FilledGrows
<1>4. ASSUME ~AnyUnresolved
      PROVE  Filled(journal, BotRows) = Filled(venue, BotRows)
  <2>1. \A o \in BotRows : journal[o].filled = venue[o].filled
    BY <1>4, ResolvedIsExact DEF BotRows, AnyUnresolved
  <2>2. QED
    BY <2>1, FilledSame
<1>5. QED
  BY <1>3, <1>4, HeldType, RestingAssumption DEF Sold

\* An order at the exchange only goes on.
Grows(v, w) ==
  /\ v.filled <= w.filled
  /\ v.phase \in Reached => w.phase \in Reached
  /\ v.phase = "done" => w.phase = "done" /\ w.filled = v.filled
  /\ v.phase # "none" => w.phase # "none"

RowStep(t, p) ==
  /\ journal'[p].kind = journal[p].kind
  /\ journal'[p].count = journal[p].count \/ InSlot(t)
  /\ Grows(venue[p], venue'[p])
  /\ venue[p].phase = "none" => venue'[p].phase = "none" \/ InSlot(t)
  /\ RowOk(journal'[p], venue'[p])
  /\ journal'[p].state \in UNRESOLVED =>
       Unresolved(p) \/ (thread[t].pc \in Claimed /\ p = thread[t].order)

LEMMA SameRow ==
  ASSUME RestingInv, NEW t \in Threads, NEW p \in Rows,
         journal'[p] = journal[p], venue'[p] = venue[p]
  PROVE  RowStep(t, p)
<1>1. journal[p] \in Row /\ venue[p] \in VenueOrder /\ RowOk(journal[p], venue[p])
  BY RestingTypes DEF RestingInv, RowsTrue
<1>2. venue[p].filled <= venue[p].filled
  BY <1>1 DEF VenueOrder
<1>3. QED
  BY <1>1, <1>2 DEF RowStep, Grows, Unresolved

LEMMA ThreadKeeps ==
  ASSUME NEW r \in Thread, NEW j \in Row, NEW k \in Row, NEW v \in VenueOrder, NEW w \in VenueOrder,
         ThreadOk(r, j, v), Grows(v, w), k.kind = j.kind,
         r.pc \in SlotPlaces => k.count = j.count /\ (v.phase = "none" => w.phase = "none")
  PROVE  ThreadOk(r, k, w)
  BY DEF ThreadOk, Grows, Thread, Row, VenueOrder, Reached, Answered, Copying, Ahead, SlotPlaces

LEMMA AimlessOk ==
  ASSUME NEW r, NEW j, NEW k, NEW v, NEW w, r.pc \in Aimless, ThreadOk(r, j, v)
  PROVE  ThreadOk(r, k, w)
  BY DEF ThreadOk, Aimless, Reached, Answered, Copying, Ahead

LEMMA IdleOk ==
  ASSUME NEW j, NEW v
  PROVE  Idle \in Thread /\ ThreadOk(Idle, j, v) /\ Idle.pc = "idle" /\ Idle.revision = 0
  BY DEF ThreadOk, Idle, Thread, Row, VenueOrder, Unsent, NewRow, Places, SlotPlaces,
         Reached, Answered, Copying, Ahead, UNRESOLVED

LEMMA Follow ==
  ASSUME RestingInv, TypeOK', NEW t \in Threads, NEW r \in Thread,
         thread' = [thread EXCEPT ![t] = r],
         Len(journal') = Len(journal),
         \A p \in Rows : RowStep(t, p),
         r.pc \in SlotPlaces => InSlot(t) \/ SlotFree,
         r.pc \in Claimed => thread[t].pc \in Claimed /\ r.order = thread[t].order,
         r.pc \notin Aimless => r.order \in Rows,
         ThreadOk(r, journal'[r.order], venue'[r.order]),
         Covered', Prepared', Revisions'
  PROVE  RestingInv'
<1>1. Rows' = Rows
  BY DEF Rows
<1>2. /\ \A u \in Threads : u # t => thread'[u] = thread[u]
      /\ thread'[t] = r
  BY DEF RestingInv, TypeOK
<1>3. SlotExclusive'
  BY <1>2 DEF RestingInv, SlotExclusive, InSlot, SlotFree
<1>4. RowsTrue'
  BY <1>1 DEF RowsTrue, RowStep
<1>5. OneUnresolved'
  BY <1>1 DEF RestingInv, OneUnresolved, RowStep, Unresolved, Alone
<1>6. ASSUME NEW u \in Threads, u # t, InSlot(u)
      PROVE  ~InSlot(t) /\ thread[t].pc \notin Claimed
  BY <1>6 DEF RestingInv, SlotExclusive, InSlot, SlotPlaces, Claimed
<1>7. Alone'
  <2> SUFFICES ASSUME NEW u \in Threads, thread'[u].pc \in Claimed,
                      NEW o \in Rows, journal'[o].state \in UNRESOLVED
               PROVE  o = thread'[u].order
    BY <1>1 DEF Alone, Unresolved
  <2>1. CASE u = t
    BY <2>1, <1>2 DEF RestingInv, Alone, RowStep
  <2>2. CASE u # t
    BY <2>2, <1>2, <1>6 DEF RestingInv, Alone, RowStep, InSlot, SlotPlaces, Claimed
  <2>3. QED
    BY <2>1, <2>2
<1>8. ThreadsTrue'
  <2> SUFFICES ASSUME NEW u \in Threads
               PROVE  /\ thread'[u].pc \notin Aimless => thread'[u].order \in Rows
                      /\ ThreadOk(thread'[u], journal'[thread'[u].order], venue'[thread'[u].order])
    BY <1>1 DEF ThreadsTrue
  <2>1. CASE u = t
    BY <2>1, <1>2
  <2>2. CASE u # t
    <3> DEFINE o == thread[u].order
    <3>1. /\ thread'[u] = thread[u] /\ thread[u] \in Thread
          /\ thread[u].pc \notin Aimless => o \in Rows
          /\ ThreadOk(thread[u], journal[o], venue[o])
      BY <2>2, <1>2, RestingTypes DEF RestingInv, ThreadsTrue
    <3>2. CASE thread[u].pc \in Aimless
      BY <3>1, <3>2, AimlessOk
    <3>3. CASE thread[u].pc \notin Aimless
      <4>1. o \in Rows
        BY <3>1, <3>3
      <4>2. journal[o] \in Row /\ venue[o] \in VenueOrder /\ journal'[o] \in Row /\ venue'[o] \in VenueOrder
        BY <4>1, <1>1, RestingTypes DEF RestingInv, TypeOK, Rows
      <4>3. /\ Grows(venue[o], venue'[o]) /\ journal'[o].kind = journal[o].kind
            /\ InSlot(u) => /\ journal'[o].count = journal[o].count
                            /\ venue[o].phase = "none" => venue'[o].phase = "none"
        BY <4>1, <1>6, <2>2 DEF RowStep
      <4> HIDE DEF o
      <4>4. ThreadOk(thread[u], journal'[o], venue'[o])
        BY <3>1, <4>2, <4>3, ThreadKeeps DEF InSlot
      <4>5. QED
        BY <3>1, <4>1, <4>4 DEF o
    <3>4. QED
      BY <3>2, <3>3
  <2>3. QED
    BY <2>1, <2>2
<1>9. QED
  BY <1>3, <1>4, <1>5, <1>7, <1>8 DEF RestingInv

LEMMA SoldStays ==
  ASSUME TypeOK, TypeOK', Len(journal) <= Len(journal'), Sold,
         \A p \in Rows : journal'[p].kind = journal[p].kind /\ venue[p].filled <= venue'[p].filled
  PROVE  Sold'
<1>1. Rows \subseteq Rows' /\ Len(journal') \in Nat
  BY DEF TypeOK, Rows
<1>2. BotRows \subseteq BotRows' /\ BotRows \in SUBSET (1..Len(journal')) /\ BotRows' \in SUBSET (1..Len(journal'))
  BY <1>1 DEF BotRows, Rows
<1>3. \A o \in BotRows : venue[o].filled \in Int /\ venue[o].filled <= venue'[o].filled
  BY RestingTypes DEF BotRows, VenueOrder
<1>4. \A o \in BotRows' : venue'[o].filled \in Int
  <2>1. venue' \in Seq(VenueOrder) /\ Len(venue') = Len(journal')
    BY DEF TypeOK
  <2>2. \A o \in 1..Len(venue') : venue'[o] \in VenueOrder
    BY <2>1
  <2>3. QED
    BY <1>2, <2>1, <2>2 DEF VenueOrder
<1>5. Filled(venue, BotRows) <= Filled(venue', BotRows')
  <2> DEFINE S == BotRows
             T == BotRows'
             g == venue'
             n == Len(journal')
  <2>1. /\ n \in Nat /\ S \in SUBSET (1..n) /\ T \in SUBSET (1..n) /\ S \subseteq T
        /\ \A o \in S : venue[o].filled \in Int /\ venue[o].filled <= g[o].filled
        /\ \A o \in T : g[o].filled \in Int
    BY <1>1, <1>2, <1>3, <1>4
  <2>2. Filled(venue, S) <= Filled(g, T)
    <3> HIDE DEF S, T, g, n
    <3>1. QED
      BY <2>1, FilledGrows
  <2>3. QED
    BY <2>2
<1>6. Filled(venue', BotRows') \in Nat
  <2> DEFINE T == BotRows'
             g == venue'
             n == Len(journal')
  <2>1. n \in Nat /\ T \in SUBSET (1..n) /\ \A o \in T : g[o].filled \in Int
    BY <1>1, <1>2, <1>4
  <2>2. Filled(g, T) \in Nat
    <3> HIDE DEF T, g, n
    <3>1. QED
      BY <2>1, UnitsFinite
  <2>3. QED
    BY <2>2
<1>7. Size \in Nat /\ Size <= Filled(venue, BotRows) /\ Filled(venue, BotRows) \in Nat
  BY HeldType, RestingAssumption DEF Sold
<1>8. Size <= Filled(venue', BotRows')
  BY <1>5, <1>6, <1>7
<1>9. QED
  BY <1>8 DEF Sold, Filled, BotRows, Rows

LEMMA PreparedStays ==
  ASSUME RestingInv, TypeOK', NEW t \in Threads, NEW r \in Thread,
         thread' = [thread EXCEPT ![t] = r],
         Len(journal') = Len(journal),
         \A p \in Rows : /\ journal'[p].kind = journal[p].kind
                         /\ venue[p].filled <= venue'[p].filled
                         /\ prepared /\ journal[p].kind = "offer" /\ AtExchange(p)' => AtExchange(p),
         prepared' => prepared /\ (control.paused => control'.paused),
         control.revision <= control'.revision, closed => closed',
         prepared /\ r.pc \in Ahead /\ r.row.kind = "offer" =>
           r.revision < control'.revision \/ control'.paused \/ closed'
  PROVE  Prepared'
<1> SUFFICES ASSUME prepared' PROVE Prepared'
  BY DEF Prepared
<1>1. prepared /\ (control.paused => control'.paused)
  OBVIOUS
<1>2. Rows' = Rows /\ Offers' = Offers
  BY DEF Rows, Offers
<1>3. \A o \in Offers' : ~AtExchange(o)'
  BY <1>1, <1>2 DEF RestingInv, Prepared, Offers
<1>4. ASSUME NEW u \in Threads, thread'[u].pc \in Ahead, thread'[u].row.kind = "offer"
      PROVE  Fenced(u)'
  <2>1. CASE u = t
    <3>1. thread'[u] = r
      BY <2>1 DEF RestingInv, TypeOK
    <3>2. QED
      BY <1>1, <1>4, <3>1 DEF Fenced
  <2>2. CASE u # t
    <3>1. thread'[u] = thread[u] /\ thread[u].revision \in Nat
      BY <2>2, RestingTypes DEF RestingInv, TypeOK, Thread
    <3>2. Fenced(u)
      BY <1>1, <1>4, <3>1 DEF RestingInv, Prepared
    <3>3. control.revision \in Nat /\ control'.revision \in Nat
      BY DEF RestingInv, TypeOK
    <3>4. thread[u].revision < control'.revision \/ control'.paused \/ closed'
      BY <1>1, <3>1, <3>2, <3>3 DEF Fenced
    <3>5. QED
      BY <3>1, <3>4 DEF Fenced
  <2>3. QED
    BY <2>1, <2>2
<1>5. control'.paused \/ closed' \/ Sold'
  <2>1. control.paused \/ closed \/ Sold
    BY <1>1 DEF RestingInv, Prepared
  <2>2. Sold => Sold'
    BY SoldStays DEF RestingInv, TypeOK
  <2>3. QED
    BY <1>1, <2>1, <2>2
<1>6. QED
  BY <1>3, <1>4, <1>5 DEF Prepared

Control == [revision : Nat, paused : BOOLEAN, exit : Exits, disabled : BOOLEAN]

\* A coroutine goes on; journal and exchange stay as they are.
LEMMA Turn ==
  ASSUME RestingInv, NEW t \in Threads, NEW r \in Thread,
         thread' = [thread EXCEPT ![t] = r],
         UNCHANGED <<journal, venue, position, closed, operator>>, trouble' \in Nat,
         control' \in Control,
         control.revision <= control'.revision, control.paused => control'.paused,
         r.pc \in SlotPlaces => InSlot(t) \/ SlotFree,
         r.pc \in Claimed => thread[t].pc \in Claimed /\ r.order = thread[t].order,
         r.pc \notin Aimless => r.order \in Rows,
         ThreadOk(r, journal[r.order], venue[r.order]),
         r.pc = "read" => r.held = position,
         r.revision <= control'.revision,
         prepared /\ r.pc \in Ahead /\ r.row.kind = "offer" =>
           r.revision < control'.revision \/ control'.paused \/ closed
  PROVE  RestingInv'
<1>1. /\ journal' = journal /\ venue' = venue /\ position' = position /\ closed' = closed
      /\ profit' = profit /\ prepared' = prepared
  BY DEF operator
<1>2. TypeOK'
  BY <1>1 DEF RestingInv, TypeOK, Control
<1>3. \A p \in Rows : RowStep(t, p)
  BY <1>1, SameRow
<1>4. /\ \A u \in Threads : u # t => thread'[u] = thread[u]
      /\ thread'[t] = r
  BY DEF RestingInv, TypeOK
<1>5. Covered'
  <2>1. /\ position >= 0 /\ \A u \in Threads : thread[u].pc = "read" => thread[u].held = position
        /\ \A o \in Rows : AtExchange(o) => journal[o].count - venue[o].filled <= position
    BY DEF RestingInv, Covered
  <2>2. \A u \in Threads : thread'[u].pc = "read" => thread'[u].held = position
    BY <1>4, <2>1
  <2>3. \A o \in Rows' : AtExchange(o)' => journal'[o].count - venue'[o].filled <= position'
    BY <1>1, <2>1 DEF Rows, AtExchange
  <2>4. QED
    BY <1>1, <2>1, <2>2, <2>3 DEF Covered
<1>6. Prepared'
  <2>1. \A p \in Rows : /\ journal'[p].kind = journal[p].kind
                        /\ venue[p].filled <= venue'[p].filled
                        /\ prepared /\ journal[p].kind = "offer" /\ AtExchange(p)' => AtExchange(p)
    BY <1>1, RestingTypes DEF RestingInv, AtExchange, VenueOrder
  <2>2. /\ prepared' => prepared /\ (control.paused => control'.paused)
        /\ closed => closed' /\ Len(journal') = Len(journal)
    BY <1>1
  <2>3. prepared /\ r.pc \in Ahead /\ r.row.kind = "offer" =>
          r.revision < control'.revision \/ control'.paused \/ closed'
    BY <1>1
  <2>4. QED
    BY <1>2, <2>1, <2>2, <2>3, PreparedStays
<1>7. Revisions'
  <2> SUFFICES ASSUME NEW u \in Threads PROVE thread'[u].revision <= control'.revision
    BY DEF Revisions
  <2>1. thread[u].revision \in Nat /\ control.revision \in Nat /\ control'.revision \in Nat
    BY RestingTypes DEF RestingInv, TypeOK, Thread, Control
  <2>2. thread[u].revision <= control.revision
    BY DEF RestingInv, Revisions
  <2>3. QED
    BY <1>4, <2>1, <2>2
<1>8. ThreadOk(r, journal'[r.order], venue'[r.order]) /\ Len(journal') = Len(journal)
  BY <1>1
<1>9. QED
  BY <1>2, <1>3, <1>5, <1>6, <1>7, <1>8, Follow

\* save() and what it leaves of a row.
LEMMA SavedRow ==
  ASSUME NEW o, journal[o] \in Row, NEW row \in Row
  PROVE  /\ Saved(o, row) \in Row
         /\ \/ /\ Saved(o, row) = journal[o] /\ row.state \in UNRESOLVED
               /\ journal[o].kind = "offer" /\ journal[o].state = "complete"
            \/ /\ journal[o].kind = "offer" /\ row.state \in UNRESOLVED => journal[o].state # "complete"
               /\ Saved(o, row).kind = row.kind /\ Saved(o, row).state = row.state
               /\ Saved(o, row).count = row.count /\ Saved(o, row).filled = row.filled
               /\ Saved(o, row).acked = row.acked
<1> DEFINE kept == [row EXCEPT !.cancelling = row.cancelling \/ journal[o].cancelling]
<1>1. kept \in Row /\ kept.kind = row.kind /\ kept.state = row.state /\ kept.count = row.count
      /\ kept.filled = row.filled /\ kept.acked = row.acked
  BY DEF Row
<1>2. CASE journal[o].kind = "offer" /\ journal[o].state = "complete" /\ row.state \in UNRESOLVED
  <2>1. Saved(o, row) = journal[o]
    BY <1>2 DEF Saved
  <2>2. QED
    BY <1>2, <2>1
<1>3. CASE journal[o].kind # "offer"
  <2>1. Saved(o, row) = row
    BY <1>3 DEF Saved
  <2>2. QED
    BY <1>3, <2>1
<1>4. CASE journal[o].kind = "offer" /\ ~(journal[o].state = "complete" /\ row.state \in UNRESOLVED)
  <2>1. Saved(o, row) = kept
    BY <1>4 DEF Saved
  <2> HIDE DEF kept
  <2>2. QED
    BY <1>1, <1>4, <2>1
<1>5. QED
  BY <1>2, <1>3, <1>4

\* A coroutine saves a row; the order itself may start or be asked to end.
LEMMA SaveTurn ==
  ASSUME RestingInv, NEW t \in Threads, NEW r \in Thread, NEW o \in Rows, NEW row \in Row,
         thread' = [thread EXCEPT ![t] = r],
         Save(o, row),
         venue' \in Seq(VenueOrder), Len(venue') = Len(venue),
         \A p \in Rows : p # o => venue'[p] = venue[p],
         UNCHANGED <<position, control, closed, operator>>, trouble' \in Nat,
         row.kind = journal[o].kind,
         row.count = journal[o].count \/ InSlot(t),
         RowOk(row, venue'[o]), RowOk(journal[o], venue'[o]) \/ journal[o].state # "complete",
         row.state \in UNRESOLVED =>
           \/ Unresolved(o) \/ (thread[t].pc \in Claimed /\ o = thread[t].order)
           \/ journal[o].kind = "offer" /\ journal[o].state = "complete",
         Grows(venue[o], venue'[o]),
         venue[o].phase = "none" => venue'[o].phase = "none" \/ InSlot(t),
         venue'[o].phase \in {"sent", "open"} =>
           /\ row.count - venue'[o].filled <= position
           /\ prepared /\ row.kind = "offer" => AtExchange(o),
         r.pc \in SlotPlaces => InSlot(t) \/ SlotFree,
         r.pc \in Claimed => thread[t].pc \in Claimed /\ r.order = thread[t].order,
         r.pc \notin Aimless => r.order \in Rows,
         ThreadOk(r, journal'[r.order], venue'[r.order]),
         r.pc \notin Ahead,
         r.revision <= control.revision
  PROVE  RestingInv'
<1>1. /\ position' = position /\ closed' = closed /\ control' = control
      /\ profit' = profit /\ prepared' = prepared
  BY DEF operator
<1> DEFINE j == Saved(o, row)
<1>2. /\ \A p \in Rows : journal[p] \in Row /\ venue[p] \in VenueOrder
      /\ \A p \in Rows : venue'[p] \in VenueOrder
      /\ \A u \in Threads : thread[u] \in Thread
  BY RestingTypes DEF RestingInv, TypeOK, Rows
<1>3. /\ j \in Row
      /\ \/ /\ j = journal[o] /\ row.state \in UNRESOLVED
            /\ journal[o].kind = "offer" /\ journal[o].state = "complete"
         \/ /\ journal[o].kind = "offer" /\ row.state \in UNRESOLVED => journal[o].state # "complete"
            /\ j.kind = row.kind /\ j.state = row.state /\ j.count = row.count
            /\ j.filled = row.filled /\ j.acked = row.acked
  BY <1>2, SavedRow
<1>4. /\ journal' = [journal EXCEPT ![o] = j]
      /\ journal'[o] = j /\ \A p \in Rows : p # o => journal'[p] = journal[p]
      /\ journal' \in Seq(Row) /\ Len(journal') = Len(journal)
  BY <1>3 DEF Save, RestingInv, TypeOK, Rows
<1> HIDE DEF j
<1>5. TypeOK'
  BY <1>1, <1>4 DEF RestingInv, TypeOK, Control
<1>6. RowOk(j, venue'[o])
  BY <1>3 DEF RowOk
<1>7. RowStep(t, o)
  <2>1. j.state \in UNRESOLVED => Unresolved(o) \/ (thread[t].pc \in Claimed /\ o = thread[t].order)
    BY <1>3 DEF Unresolved, UNRESOLVED
  <2>2. j.kind = journal[o].kind /\ (j.count = journal[o].count \/ InSlot(t))
    BY <1>3
  <2>3. QED
    BY <1>4, <1>6, <2>1, <2>2 DEF RowStep
<1>8. \A p \in Rows : RowStep(t, p)
  BY <1>4, <1>7, SameRow
<1>9. /\ \A u \in Threads : u # t => thread'[u] = thread[u]
      /\ thread'[t] = r
  BY DEF RestingInv, TypeOK
<1>10. venue'[o].phase \in {"sent", "open"} =>
         /\ j.count - venue'[o].filled <= position
         /\ prepared /\ j.kind = "offer" => AtExchange(o)
  BY <1>3, <1>6 DEF RowOk
<1>11. Covered'
  <2>1. /\ position >= 0 /\ \A u \in Threads : thread[u].pc = "read" => thread[u].held = position
        /\ \A p \in Rows : AtExchange(p) => journal[p].count - venue[p].filled <= position
    BY DEF RestingInv, Covered
  <2>2. \A u \in Threads : thread'[u].pc = "read" => thread'[u].held = position
    BY <1>9, <2>1 DEF Ahead
  <2>3. \A p \in Rows' : AtExchange(p)' => journal'[p].count - venue'[p].filled <= position'
    BY <1>1, <1>4, <1>10, <2>1 DEF Rows, AtExchange
  <2>4. QED
    BY <1>1, <2>1, <2>2, <2>3 DEF Covered
<1>12. Prepared'
  <2>1. \A p \in Rows : /\ journal'[p].kind = journal[p].kind
                        /\ venue[p].filled <= venue'[p].filled
                        /\ prepared /\ journal[p].kind = "offer" /\ AtExchange(p)' => AtExchange(p)
    <3> TAKE p \in Rows
    <3>1. RowStep(t, p)
      BY <1>8
    <3>2. journal'[p].kind = journal[p].kind /\ venue[p].filled <= venue'[p].filled
      BY <3>1 DEF RowStep, Grows
    <3>3. prepared /\ journal[p].kind = "offer" /\ AtExchange(p)' => AtExchange(p)
      <4>1. CASE p = o
        BY <4>1, <1>4, <1>10, <3>2 DEF AtExchange
      <4>2. CASE p # o
        BY <4>2 DEF AtExchange
      <4>3. QED
        BY <4>1, <4>2
    <3>4. QED
      BY <3>2, <3>3
  <2>2. /\ prepared' => prepared /\ (control.paused => control'.paused)
        /\ closed => closed'
        /\ control.revision <= control'.revision
    BY <1>1 DEF RestingInv, TypeOK
  <2>3. prepared /\ r.pc \in Ahead /\ r.row.kind = "offer" =>
          r.revision < control'.revision \/ control'.paused \/ closed'
    OBVIOUS
  <2>4. Len(journal') = Len(journal)
    BY <1>4
  <2>5. QED
    BY <1>5, <2>1, <2>2, <2>3, <2>4, PreparedStays
<1>13. Revisions'
  BY <1>1, <1>9 DEF RestingInv, Revisions
<1>14. QED
  BY <1>4, <1>5, <1>8, <1>11, <1>12, <1>13, Follow

-----------------------------------------------------------------------------
(* The actions: deciding                                                   *)

LEMMA Pointing ==
  ASSUME NEW pc \in Places, NEW o \in Nat
  PROVE  /\ [Idle EXCEPT !.pc = pc, !.order = o] \in Thread
         /\ [Idle EXCEPT !.pc = pc, !.order = o].pc = pc
         /\ [Idle EXCEPT !.pc = pc, !.order = o].order = o
         /\ [Idle EXCEPT !.pc = pc, !.order = o].revision = 0
         /\ \A j, v : /\ pc \in {"lookup", "verifying", "locating", "resume"} =>
                           ThreadOk([Idle EXCEPT !.pc = pc, !.order = o], j, v)
                      /\ pc = "cancelqueued" /\ j.kind = "offer" =>
                           ThreadOk([Idle EXCEPT !.pc = pc, !.order = o], j, v)
<1> DEFINE r == [Idle EXCEPT !.pc = pc, !.order = o]
<1>1. r \in Thread /\ r.pc = pc /\ r.order = o /\ r.revision = 0 /\ r.held = 0
  BY IdleOk DEF Thread, Idle
<1> HIDE DEF r
<1>2. \A j, v : /\ pc \in {"lookup", "verifying", "locating", "resume"} => ThreadOk(r, j, v)
                /\ pc = "cancelqueued" /\ j.kind = "offer" => ThreadOk(r, j, v)
  BY <1>1 DEF ThreadOk, Ahead, Copying, Answered
<1>3. QED
  BY <1>1, <1>2 DEF r

LEMMA ResumeOk ==
  /\ [Idle EXCEPT !.pc = "resume"] \in Thread
  /\ [Idle EXCEPT !.pc = "resume"].pc = "resume"
  /\ [Idle EXCEPT !.pc = "resume"].revision = 0
  /\ \A j, v : ThreadOk([Idle EXCEPT !.pc = "resume"], j, v)
<1> DEFINE r == [Idle EXCEPT !.pc = "resume"]
<1>1. r \in Thread /\ r.pc = "resume" /\ r.revision = 0 /\ r.held = 0
  BY IdleOk DEF Thread, Idle, Places
<1> HIDE DEF r
<1>2. \A j, v : ThreadOk(r, j, v)
  BY <1>1 DEF ThreadOk, Ahead, Copying, Answered
<1>3. QED
  BY <1>1, <1>2 DEF r

LEMMA ControlSet ==
  ASSUME NEW c \in Control, NEW e \in Exits, NEW d \in BOOLEAN
  PROVE  /\ [c EXCEPT !.disabled = d, !.exit = e] \in Control
         /\ [c EXCEPT !.disabled = d, !.exit = e].revision = c.revision
         /\ c.paused => [c EXCEPT !.disabled = d, !.exit = e].paused
  BY DEF Control

LEMMA ControlOf ==
  ASSUME TypeOK
  PROVE  control \in Control /\ control.revision \in Nat /\ Exit0 \in Exits /\ control.exit \in Exits
  BY DEF TypeOK, Control, Exit0, Exits

LEMMA ManagedControl ==
  ASSUME TypeOK, NEW bid
  PROVE  /\ Managed(bid) \in Control /\ Managed(bid).revision = control.revision
         /\ control.paused => Managed(bid).paused
<1> DEFINE e == IF ~control.paused /\ bid = "stop" THEN "stop"
                ELSE IF ~control.paused /\ bid = "high" /\ profit /\ Exit0 = "none" THEN "profit"
                ELSE Exit0
           d == control.disabled \/ bid \in {"stop", "low"}
<1>1. e \in Exits /\ d \in BOOLEAN
  BY ControlOf DEF Exits
<1>2. Managed(bid) = [control EXCEPT !.disabled = d, !.exit = e]
  BY DEF Managed
<1> HIDE DEF e, d
<1>3. control \in Control
  BY ControlOf
<1>4. /\ [control EXCEPT !.disabled = d, !.exit = e] \in Control
      /\ [control EXCEPT !.disabled = d, !.exit = e].revision = control.revision
      /\ control.paused => [control EXCEPT !.disabled = d, !.exit = e].paused
  BY <1>1, <1>3, ControlSet
<1>5. QED
  BY <1>2, <1>4, Zenon

\* The coroutine stops here: an early return or an exception.
LEMMA GoesIdle ==
  ASSUME RestingInv, NEW t \in Threads, Become(t, Idle),
         UNCHANGED <<journal, venue, position, closed, control, operator>>, trouble' \in Nat
  PROVE  RestingInv'
<1>1. /\ Idle.pc \notin SlotPlaces /\ Idle.pc \notin Claimed /\ Idle.pc \in Aimless
      /\ Idle.pc # "read" /\ Idle.pc \notin Ahead
  BY IdleOk DEF SlotPlaces, Claimed, Aimless, Ahead
<1>2. control' \in Control /\ control.revision <= control'.revision
      /\ (control.paused => control'.paused) /\ Idle.revision <= control'.revision
  BY ControlOf, IdleOk DEF RestingInv
<1>3. QED
  BY <1>1, <1>2, IdleOk, Turn DEF Become

LEMMA ManageStep ==
  ASSUME RestingInv, NEW bid \in Bids, Manage(bid)
  PROVE  RestingInv'
<1>1. PICK o \in Offers : /\ control' = Managed(bid)
                          /\ Become(Automation, [Idle EXCEPT !.pc = "cancelqueued", !.order = o])
  BY DEF Manage
<1> DEFINE r == [Idle EXCEPT !.pc = "cancelqueued", !.order = o]
<1>2. o \in Rows /\ o \in Nat /\ journal[o].kind = "offer"
  BY RestingTypes DEF Offers, RestingInv
<1>3. /\ r \in Thread /\ r.pc = "cancelqueued" /\ r.order = o /\ r.revision = 0
      /\ ThreadOk(r, journal[o], venue[o])
  BY <1>2, Pointing DEF Places
<1>4. thread' = [thread EXCEPT ![Automation] = r]
  BY <1>1 DEF Become
<1> HIDE DEF r
<1>5. /\ control' \in Control /\ control.revision <= control'.revision
      /\ (control.paused => control'.paused) /\ r.revision <= control'.revision
  BY <1>1, <1>3, ManagedControl, ControlOf DEF RestingInv
<1>6. /\ r.pc \notin SlotPlaces /\ r.pc \notin Claimed /\ r.pc \notin Ahead /\ r.pc # "read"
  BY <1>3 DEF SlotPlaces, Claimed, Ahead
<1>7. /\ UNCHANGED <<journal, venue, position, closed, operator>> /\ trouble' \in Nat
      /\ Automation \in Threads
  BY RestingTypes DEF Manage, RestingInv, TypeOK
<1>8. QED
  BY <1>2, <1>3, <1>4, <1>5, <1>6, <1>7, Turn

LEMMA ProceedStep ==
  ASSUME RestingInv, NEW bid \in Bids, Proceed(bid)
  PROVE  RestingInv'
<1> DEFINE exit == IF bid = "stop" THEN "stop"
                   ELSE IF Exit0 = "none" /\ profit /\ bid = "high" THEN "profit" ELSE Exit0
           low == control.disabled \/ (exit = "none" /\ bid = "low")
<1>1. exit \in Exits /\ low \in BOOLEAN /\ control \in Control /\ control.revision \in Nat
  BY ControlOf DEF RestingInv, Exits
<1>2. control' = [control EXCEPT !.exit = exit, !.disabled = low]
  BY DEF Proceed
<1>3. /\ ~control.paused /\ ~closed /\ ~AnyUnresolved /\ Held > 0
      /\ UNCHANGED <<journal, venue, position, closed, operator>> /\ trouble' \in Nat
      /\ thread[Automation].pc \in {"resume", "idle"}
  BY DEF Proceed, MarketFree, RestingInv, TypeOK
<1>4. \/ Become(Automation, Idle)
      \/ \E pc \in {"sizing", "queued"}, kind \in {"offer", "profit", "stop"} : Decide(pc, kind)
  BY DEF Proceed
<1> HIDE DEF exit, low
<1>5. /\ control' \in Control /\ control'.revision = control.revision
      /\ (control.paused => control'.paused)
  <2>1. /\ [control EXCEPT !.exit = exit, !.disabled = low] \in Control
        /\ [control EXCEPT !.exit = exit, !.disabled = low].revision = control.revision
    BY <1>1 DEF Control
  <2>2. QED
    BY <1>2, <1>3, <2>1
<1>6. control.revision <= control'.revision
  BY <1>1, <1>5
<1>7. ~prepared
  BY <1>3, HeldBounds, HeldType DEF RestingInv, Prepared
<1>8. CASE Become(Automation, Idle)
  <2>1. /\ Idle.pc \notin SlotPlaces /\ Idle.pc \notin Claimed /\ Idle.pc \in Aimless
        /\ Idle.pc # "read" /\ Idle.revision <= control'.revision
    BY <1>1, <1>5, IdleOk DEF SlotPlaces, Claimed, Aimless
  <2>2. Automation \in Threads
    BY DEF Threads
  <2>3. QED
    BY <1>3, <1>5, <1>6, <1>7, <1>8, <2>1, <2>2, IdleOk, Turn DEF Become
<1>9. ASSUME NEW pc \in {"sizing", "queued"}, NEW kind \in {"offer", "profit", "stop"},
             Decide(pc, kind)
      PROVE  RestingInv'
  <2> DEFINE n == Held
             r == [Idle EXCEPT !.pc = pc, !.row = NewRow(kind, n), !.revision = control.revision]
  <2>1. n \in Nat
    BY <1>3, HeldType DEF RestingInv
  <2>2. thread' = [thread EXCEPT ![Automation] = r]
    BY <1>9 DEF Decide, Become
  <2> HIDE DEF n
  <2>3. NewRow(kind, n) \in Row /\ NewRow(kind, n).state = "submitting" /\ NewRow(kind, n).filled = 0
        /\ ~NewRow(kind, n).acked
    BY <2>1 DEF NewRow, Row, UNRESOLVED
  <2>4. r \in Thread /\ r.pc = pc /\ r.row = NewRow(kind, n) /\ r.revision = control.revision
        /\ r.held = 0
    BY <1>1, <2>3, IdleOk DEF Thread, Idle, Places
  <2> HIDE DEF r
  <2>5. ThreadOk(r, journal[r.order], venue[r.order])
    BY <2>3, <2>4 DEF ThreadOk, Ahead, Copying, Answered
  <2>6. /\ r.pc \notin SlotPlaces /\ r.pc \notin Claimed /\ r.pc \in Aimless
        /\ r.pc # "read" /\ r.revision <= control'.revision
    BY <1>1, <1>5, <2>4 DEF SlotPlaces, Claimed, Aimless
  <2>7. Automation \in Threads
    BY DEF Threads
  <2>8. QED
    BY <1>3, <1>5, <1>6, <1>7, <2>2, <2>4, <2>5, <2>6, <2>7, Turn
<1>10. QED
  BY <1>4, <1>8, <1>9

LEMMA SizedStep ==
  ASSUME RestingInv, NEW t \in Threads, Sized(t)
  PROVE  RestingInv'
<1> DEFINE n == IF thread[t].row.count < position THEN thread[t].row.count ELSE position
           r == [thread[t] EXCEPT !.pc = "queued", !.row.count = n]
<1>1. /\ thread[t] \in Thread /\ thread[t].pc = "sizing" /\ position \in Int
      /\ thread[t].row \in Row /\ trouble' \in Nat /\ control' = control
      /\ UNCHANGED <<journal, control, venue, position, closed, operator>>
  BY RestingTypes DEF Sized, RestingInv, TypeOK, Thread
<1>2. /\ control' \in Control /\ control.revision <= control'.revision
      /\ (control.paused => control'.paused) /\ control.revision \in Nat
  BY <1>1, ControlOf DEF RestingInv
<1>3. CASE n > 0 /\ Become(t, r)
  <2>1. n \in Nat
    BY <1>1, <1>3 DEF Row
  <2>2. thread' = [thread EXCEPT ![t] = r]
    BY <1>3 DEF Become
  <2> HIDE DEF n
  <2>3. [thread[t].row EXCEPT !.count = n] \in Row /\ [thread[t].row EXCEPT !.count = n].kind = thread[t].row.kind
        /\ [thread[t].row EXCEPT !.count = n].state = thread[t].row.state
        /\ [thread[t].row EXCEPT !.count = n].filled = thread[t].row.filled
        /\ [thread[t].row EXCEPT !.count = n].acked = thread[t].row.acked
    BY <1>1, <2>1 DEF Row
  <2>4. r \in Thread /\ r.pc = "queued" /\ r.row = [thread[t].row EXCEPT !.count = n]
        /\ r.revision = thread[t].revision /\ r.held = thread[t].held
    BY <1>1, <2>3 DEF Thread, Places
  <2> HIDE DEF r
  <2>5. ThreadOk(r, journal[r.order], venue[r.order])
    <3>1. ThreadOk(thread[t], journal[thread[t].order], venue[thread[t].order])
      BY DEF RestingInv, ThreadsTrue
    <3>2. QED
      BY <1>1, <2>3, <2>4, <3>1 DEF ThreadOk, Ahead, Copying, Answered
  <2>6. /\ r.pc \notin SlotPlaces /\ r.pc \notin Claimed /\ r.pc \in Aimless /\ r.pc # "read"
    BY <2>4 DEF SlotPlaces, Claimed, Aimless
  <2>7. r.revision <= control'.revision
    BY <1>1, <2>4 DEF RestingInv, Revisions
  <2>8. prepared /\ r.row.kind = "offer" => r.revision < control'.revision \/ control'.paused \/ closed
    BY <1>1, <2>3, <2>4 DEF RestingInv, Prepared, Fenced, Ahead
  <2>9. QED
    BY <1>1, <1>2, <2>2, <2>4, <2>5, <2>6, <2>7, <2>8, Turn
<1>4. CASE ~(n > 0) /\ Become(t, Idle)
  BY <1>1, <1>4, GoesIdle
<1>5. QED
  BY <1>3, <1>4 DEF Sized

LEMMA LeaveStep ==
  ASSUME RestingInv, NEW t \in Threads, Leave(t)
  PROVE  RestingInv'
<1>1. trouble' \in Nat
  BY DEF Leave, NoTrouble, Trouble, RestingInv, TypeOK
<1>2. QED
  BY <1>1, GoesIdle DEF Leave

LEMMA SaveInPlace ==
  ASSUME RestingInv, NEW t \in Threads, NEW r \in Thread, NEW o \in Rows, NEW row \in Row,
         thread' = [thread EXCEPT ![t] = r],
         Save(o, row),
         UNCHANGED <<venue, position, control, closed, operator>>, trouble' \in Nat,
         row.kind = journal[o].kind,
         row.count = journal[o].count \/ (InSlot(t) /\ ~AtExchange(o)),
         RowOk(row, venue[o]),
         row.state \in UNRESOLVED =>
           \/ Unresolved(o) \/ (thread[t].pc \in Claimed /\ o = thread[t].order)
           \/ journal[o].kind = "offer" /\ journal[o].state = "complete",
         r.pc \in SlotPlaces => InSlot(t) \/ SlotFree,
         r.pc \in Claimed => thread[t].pc \in Claimed /\ r.order = thread[t].order,
         r.pc \notin Aimless => r.order \in Rows,
         ThreadOk(r, journal'[r.order], venue[r.order]),
         r.pc \notin Ahead,
         r.revision <= control.revision
  PROVE  RestingInv'
<1>1. /\ venue' = venue /\ venue' \in Seq(VenueOrder) /\ Len(venue') = Len(venue)
      /\ \A p \in Rows : p # o => venue'[p] = venue[p]
      /\ venue'[o] = venue[o] /\ venue[o] \in VenueOrder
      /\ UNCHANGED <<position, control, closed, operator>>
  BY RestingTypes DEF RestingInv, TypeOK
<1>2. RowOk(row, venue'[o]) /\ RowOk(journal[o], venue'[o])
  BY <1>1 DEF RestingInv, RowsTrue
<1>3. venue[o].filled <= venue[o].filled
  BY <1>1 DEF VenueOrder
<1>4. Grows(venue[o], venue'[o]) /\ (venue[o].phase = "none" => venue'[o].phase = "none" \/ InSlot(t))
  BY <1>1, <1>3 DEF Grows
<1>5. AtExchange(o) => journal[o].count - venue[o].filled <= position
  BY DEF RestingInv, Covered
<1>6. venue'[o].phase \in {"sent", "open"} =>
        /\ row.count - venue'[o].filled <= position
        /\ prepared /\ row.kind = "offer" => AtExchange(o)
  BY <1>1, <1>5 DEF AtExchange
<1>7. ThreadOk(r, journal'[r.order], venue'[r.order])
  BY <1>1
<1>8. row.count = journal[o].count \/ InSlot(t)
  OBVIOUS
<1>9. QED
  BY <1>1, <1>2, <1>4, <1>6, <1>7, <1>8, SaveTurn

\* What is known of the coroutine that acts, and of its row.
LEMMA Acting ==
  ASSUME RestingInv, NEW t \in Threads, thread[t].pc \notin Aimless
  PROVE  LET o == thread[t].order IN
         /\ o \in Rows /\ o \in Nat /\ journal[o] \in Row /\ venue[o] \in VenueOrder
         /\ thread[t] \in Thread /\ thread[t].row \in Row
         /\ RowOk(journal[o], venue[o])
         /\ ThreadOk(thread[t], journal[o], venue[o])
         /\ thread[t].revision \in Nat /\ thread[t].revision <= control.revision
         /\ control.revision \in Nat /\ 0 <= control.revision
<1>1. thread[t].order \in Rows /\ ThreadOk(thread[t], journal[thread[t].order], venue[thread[t].order])
  BY DEF RestingInv, ThreadsTrue
<1>2. thread[t] \in Thread
  BY RestingTypes DEF RestingInv
<1>3. QED
  BY <1>1, <1>2, RestingTypes, ControlOf DEF RestingInv, RowsTrue, Revisions, Thread

\* Save the row and go where nothing is kept, or end.
LEMMA SaveAndRest ==
  ASSUME RestingInv, NEW t \in Threads, thread[t].pc \notin Aimless, NEW r \in Thread, NEW row \in Row,
         SaveAnd(t, row, r),
         UNCHANGED <<venue, position, control, closed, operator>>, trouble' \in Nat,
         row.kind = journal[thread[t].order].kind,
         row.count = journal[thread[t].order].count \/ (InSlot(t) /\ ~AtExchange(thread[t].order)),
         RowOk(row, venue[thread[t].order]),
         row.state \in UNRESOLVED =>
           \/ Unresolved(thread[t].order) \/ thread[t].pc \in Claimed
           \/ journal[thread[t].order].kind = "offer" /\ journal[thread[t].order].state = "complete",
         r.pc \in {"idle", "resume", "verifying"}, r.pc = "verifying" => InSlot(t),
         r.order = thread[t].order \/ r.pc # "verifying",
         \A j, v : ThreadOk(r, j, v),
         r.revision = 0
  PROVE  RestingInv'
<1>1. /\ thread[t].order \in Rows /\ 0 <= control.revision
  BY Acting
<1>2. CASE Save(thread[t].order, row) /\ Become(t, r)
  <2>1. /\ r.pc \in SlotPlaces => InSlot(t) \/ SlotFree
        /\ r.pc \notin Claimed
        /\ r.pc \notin Ahead
        /\ r.pc \notin Aimless => r.order \in Rows
        /\ r.revision <= control.revision
    BY <1>1 DEF SlotPlaces, Claimed, Ahead, Aimless
  <2>2. thread' = [thread EXCEPT ![t] = r]
    BY <1>2 DEF Become
  <2>3. QED
    BY <1>1, <1>2, <2>1, <2>2, SaveInPlace
<1>3. CASE Become(t, Idle) /\ UNCHANGED journal
  BY <1>3, GoesIdle
<1>4. QED
  BY <1>2, <1>3 DEF SaveAnd

LEMMA DeleteAnsweredStep ==
  ASSUME RestingInv, NEW t \in Threads, DeleteAnswered(t)
  PROVE  RestingInv'
<1> DEFINE o == thread[t].order
           row == thread[t].row
           r == [Idle EXCEPT !.pc = "verifying", !.order = o]
<1>1. thread[t].pc = "deleting" /\ SaveAnd(t, row, r)
      /\ UNCHANGED <<venue, position, control, closed, operator>>
  BY DEF DeleteAnswered
<1>2. trouble' \in Nat
  BY DEF DeleteAnswered, Trouble, NoTrouble, RestingInv, TypeOK
<1>3. thread[t].pc \notin Aimless
  BY <1>1 DEF Aimless
<1>4. /\ o \in Nat /\ journal[o] \in Row /\ venue[o] \in VenueOrder /\ row \in Row
      /\ RowOk(journal[o], venue[o]) /\ ThreadOk(thread[t], journal[o], venue[o])
  BY <1>3, Acting
<1>5. /\ r \in Thread /\ r.pc = "verifying" /\ r.order = o /\ r.revision = 0
      /\ \A j, v : ThreadOk(r, j, v)
  <2>1. "verifying" \in Places
    BY DEF Places, SlotPlaces
  <2>2. QED
    BY <1>4, <2>1, Pointing, Zenon
<1>6. /\ row.kind = journal[o].kind /\ row.count = journal[o].count /\ journal[o].kind = "offer"
      /\ row.state \in UNRESOLVED /\ row.filled <= venue[o].filled /\ venue[o].phase \in Reached
  BY <1>1, <1>4 DEF ThreadOk, Copying
<1>7. RowOk(row, venue[o])
  BY <1>4, <1>6 DEF RowOk, Reached, UNRESOLVED
<1>8. Unresolved(o) \/ journal[o].state = "complete"
  BY <1>4, <1>6 DEF RowOk, Reached, Unresolved, Row
<1>9. InSlot(t)
  BY <1>1 DEF InSlot, SlotPlaces
<1> HIDE DEF r, row
<1>10. QED
  BY <1>1, <1>2, <1>3, <1>4, <1>5, <1>6, <1>7, <1>8, <1>9, SaveAndRest

LEMMA StartReconcileStep ==
  ASSUME RestingInv, NEW o \in Rows, StartReconcile(o)
  PROVE  RestingInv'
<1>1. PICK pc \in {"cancelqueued", "lookup"} :
        /\ Become(Automation, [Idle EXCEPT !.pc = pc, !.order = o])
        /\ pc = "cancelqueued" => journal[o].kind = "offer"
  BY DEF StartReconcile
<1> DEFINE r == [Idle EXCEPT !.pc = pc, !.order = o]
<1>2. o \in Nat /\ pc \in Places /\ Automation \in Threads /\ control \in Control /\ 0 <= control.revision
  BY RestingTypes, ControlOf DEF RestingInv, Places
<1>3. /\ r \in Thread /\ r.pc = pc /\ r.order = o /\ r.revision = 0
      /\ ThreadOk(r, journal[o], venue[o])
  BY <1>1, <1>2, Pointing
<1>4. thread' = [thread EXCEPT ![Automation] = r]
  BY <1>1 DEF Become
<1> HIDE DEF r
<1>5. /\ control' = control /\ control.revision <= control.revision
      /\ UNCHANGED <<journal, venue, position, closed, operator>> /\ trouble' \in Nat
  BY <1>2 DEF StartReconcile, RestingInv, TypeOK, Control
<1>6. /\ r.pc \notin SlotPlaces /\ r.pc \notin Claimed /\ r.pc \notin Ahead /\ r.pc # "read"
  BY <1>3 DEF SlotPlaces, Claimed, Ahead
<1>7. QED
  BY <1>2, <1>3, <1>4, <1>5, <1>6, Turn

LEMMA StartCheckStep ==
  ASSUME RestingInv, NEW t \in Connections, NEW o \in Rows, StartCheck(t, o)
  PROVE  RestingInv'
<1> DEFINE r == [Idle EXCEPT !.pc = "lookup", !.order = o]
<1>2. o \in Nat /\ "lookup" \in Places /\ t \in Threads /\ control \in Control /\ 0 <= control.revision
  BY RestingTypes, ControlOf DEF RestingInv, Places, Threads
<1>3. /\ r \in Thread /\ r.pc = "lookup" /\ r.order = o /\ r.revision = 0
      /\ ThreadOk(r, journal[o], venue[o])
  BY <1>2, Pointing
<1>4. thread' = [thread EXCEPT ![t] = r]
  BY DEF Become, StartCheck
<1> HIDE DEF r
<1>5. /\ control' = control /\ control.revision <= control.revision
      /\ UNCHANGED <<journal, venue, position, closed, operator>> /\ trouble' \in Nat
  BY <1>2 DEF StartCheck, RestingInv, TypeOK, Control
<1>6. /\ r.pc \notin SlotPlaces /\ r.pc \notin Claimed /\ r.pc \notin Ahead /\ r.pc # "read"
  BY <1>3 DEF SlotPlaces, Claimed, Ahead
<1>7. QED
  BY <1>2, <1>3, <1>4, <1>5, <1>6, Turn

LEMMA AnswerStep ==
  ASSUME RestingInv, NEW t \in Threads, Answer(t)
  PROVE  RestingInv'
<1> DEFINE o == thread[t].order
           a == thread[t].pc
           to == CASE a = "lookup" -> "found" [] a = "locating" -> "located"
                   [] a = "verifying" -> "verified" [] a = "acked" -> "fetched"
           seen == [venue[o] EXCEPT !.deleting = FALSE]
           r == [thread[t] EXCEPT !.seen = seen, !.pc = to]
<1>1. /\ a \in {"lookup", "locating", "verifying", "acked"}
      /\ Become(t, IF venue[o].phase \in {"open", "done"} THEN r ELSE Idle)
      /\ UNCHANGED <<journal, venue, position, closed, control, operator>> /\ trouble' \in Nat
  BY DEF Answer, RestingInv, TypeOK
<1>2. a \notin Aimless
  BY <1>1 DEF Aimless
<1>3. /\ o \in Rows /\ journal[o] \in Row /\ venue[o] \in VenueOrder /\ thread[t] \in Thread
      /\ RowOk(journal[o], venue[o]) /\ ThreadOk(thread[t], journal[o], venue[o])
      /\ thread[t].revision <= control.revision /\ control.revision \in Nat
  BY <1>2, Acting
<1>4. CASE venue[o].phase \notin {"open", "done"}
  BY <1>1, <1>4, GoesIdle
<1>5. CASE venue[o].phase \in {"open", "done"}
  <2>1. /\ to \in {"found", "located", "verified", "fetched"}
        /\ to = "found" <=> a = "lookup"
        /\ to = "fetched" <=> a = "acked"
    BY <1>1
  <2> HIDE DEF to
  <2>2. /\ seen \in VenueOrder /\ seen.phase = venue[o].phase /\ seen.filled = venue[o].filled
    BY <1>3 DEF VenueOrder
  <2> HIDE DEF seen
  <2>3. /\ r \in Thread /\ r.pc = to /\ r.seen = seen /\ r.order = o /\ r.held = thread[t].held
        /\ r.revision = thread[t].revision
    BY <1>3, <2>1, <2>2 DEF Thread, Places, SlotPlaces
  <2>4. thread' = [thread EXCEPT ![t] = r]
    BY <1>1, <1>5 DEF Become
  <2> HIDE DEF r
  <2>5. ThreadOk(r, journal[r.order], venue[r.order])
    <3>1. thread[t].held >= 0 /\ seen.filled <= venue[o].filled
      BY <1>3, <2>2 DEF ThreadOk, VenueOrder
    <3>2. seen.phase = "open" => journal[o].kind = "offer"
      BY <1>3, <2>2 DEF RowOk
    <3> HIDE DEF o, a
    <3>3. QED
      BY <1>5, <2>1, <2>2, <2>3, <3>1, <3>2 DEF ThreadOk, Ahead, Copying, Answered, Reached
  <2>6. /\ r.pc \in SlotPlaces => InSlot(t)
        /\ r.pc \in Claimed => thread[t].pc \in Claimed /\ r.order = thread[t].order
        /\ r.pc \notin Ahead /\ r.pc # "read"
    BY <1>1, <2>1, <2>3 DEF InSlot, SlotPlaces, Claimed, Ahead
  <2>7. /\ control' \in Control /\ control.revision <= control'.revision
        /\ control.paused => control'.paused
        /\ r.revision <= control'.revision
    BY <1>1, <1>3, <2>3, ControlOf DEF RestingInv
  <2>8. r.order \in Rows
    BY <1>3, <2>3
  <2> HIDE DEF o
  <2>9. QED
    BY <1>1, <2>3, <2>4, <2>5, <2>6, <2>7, <2>8, Turn
<1>6. QED
  BY <1>4, <1>5

\* A row taken over from an answer.
LEMMA ReconciledRow ==
  ASSUME RestingInv, NEW t \in Threads, thread[t].pc \in Answered
  PROVE  LET o == thread[t].order IN
         /\ Reconciled(t) \in Row
         /\ Reconciled(t).kind = journal[o].kind /\ Reconciled(t).count = journal[o].count
         /\ RowOk(Reconciled(t), venue[o])
         /\ Reconciled(t).state \in UNRESOLVED => journal[o].kind = "offer"
         /\ Reconciled(t).state \in UNRESOLVED => Unresolved(o) \/ journal[o].state = "complete"
<1> DEFINE o == thread[t].order
           seen == thread[t].seen
           state == IF seen.phase = "done" THEN "complete" ELSE "accepted"
           row == [journal[o] EXCEPT !.acked = TRUE, !.filled = seen.filled, !.state = state]
<1>1. thread[t].pc \notin Aimless
  BY DEF Aimless, Answered
<1>2. /\ o \in Rows /\ journal[o] \in Row /\ venue[o] \in VenueOrder /\ seen \in VenueOrder
      /\ RowOk(journal[o], venue[o]) /\ ThreadOk(thread[t], journal[o], venue[o])
  BY <1>1, Acting DEF Thread
<1>3. /\ seen.phase \in Reached /\ seen.filled <= venue[o].filled /\ venue[o].phase \in Reached
      /\ seen.phase = "done" => venue[o].phase = "done" /\ seen.filled = venue[o].filled
      /\ seen.phase = "open" => journal[o].kind = "offer"
  BY <1>2 DEF ThreadOk
<1>4. state \in {"complete", "accepted"} /\ (state = "complete" <=> seen.phase = "done")
  OBVIOUS
<1> HIDE DEF state
<1>5. /\ row \in Row /\ row.kind = journal[o].kind /\ row.count = journal[o].count
      /\ row.filled = seen.filled /\ row.state = state
  BY <1>2, <1>4 DEF Row, UNRESOLVED, VenueOrder
<1>6. Reconciled(t) = row
  BY DEF Reconciled, state
<1> HIDE DEF row
<1>7. RowOk(row, venue[o])
  BY <1>2, <1>3, <1>4, <1>5 DEF RowOk, Reached
<1>8. row.state \in UNRESOLVED => journal[o].kind = "offer"
  BY <1>3, <1>4, <1>5 DEF UNRESOLVED, Reached
<1>9. Unresolved(o) \/ journal[o].state = "complete"
  BY <1>2, <1>3 DEF Unresolved, RowOk, Reached, Row
<1>10. QED
  BY <1>5, <1>6, <1>7, <1>8, <1>9

LEMMA ReconcileStep ==
  ASSUME RestingInv, NEW t \in Threads, Reconcile(t)
  PROVE  RestingInv'
<1> DEFINE o == thread[t].order
           row == Reconciled(t)
           kept == Saved(o, row)
           r == [Idle EXCEPT !.pc = "deleting", !.order = o, !.row = kept]
<1>1. thread[t].pc \in Answered /\ UNCHANGED <<position, control, closed, operator>> /\ trouble' \in Nat
  BY DEF Reconcile, Answered, RestingInv, TypeOK
<1>2. thread[t].pc \notin Aimless
  BY <1>1 DEF Answered, Aimless
<1>3. /\ o \in Rows /\ o \in Nat /\ journal[o] \in Row /\ venue[o] \in VenueOrder
      /\ RowOk(journal[o], venue[o]) /\ ThreadOk(thread[t], journal[o], venue[o])
      /\ 0 <= control.revision
  BY <1>2, Acting
<1>4. /\ row \in Row /\ row.kind = journal[o].kind /\ row.count = journal[o].count
      /\ RowOk(row, venue[o])
      /\ row.state \in UNRESOLVED => journal[o].kind = "offer"
      /\ row.state \in UNRESOLVED => Unresolved(o) \/ journal[o].state = "complete"
  BY <1>1, ReconciledRow
<1>5. CASE UNCHANGED venue /\ (SaveAnd(t, row, Idle) \/ SaveAnd(t, row, [Idle EXCEPT !.pc = "resume"]))
  <2>1. PICK x \in Thread : /\ SaveAnd(t, row, x) /\ x.pc \in {"idle", "resume"} /\ x.revision = 0
                            /\ \A j, v : ThreadOk(x, j, v)
    BY <1>5, IdleOk, ResumeOk
  <2> HIDE DEF row
  <2>2. QED
    BY <1>1, <1>2, <1>3, <1>4, <1>5, <2>1, SaveAndRest
<1>6. CASE /\ thread[t].pc = "located" /\ kept.state \in UNRESOLVED /\ ~Regresses(o, row)
           /\ SaveAnd(t, row, r)
           /\ venue' = [venue EXCEPT ![o].deleting = TRUE]
  <2>1. Save(o, row) /\ thread' = [thread EXCEPT ![t] = r]
    BY <1>6 DEF SaveAnd, Become
  <2>2. /\ kept \in Row /\ kept.kind = row.kind /\ kept.count = row.count
        /\ RowOk(kept, venue[o])
    BY <1>3, <1>4, SavedRow DEF RowOk
  <2>3. journal[o].kind = "offer" /\ (Unresolved(o) \/ journal[o].state = "complete")
    <3>1. row.state \in UNRESOLVED \/ (kept = journal[o] /\ journal[o].kind = "offer")
      BY <1>3, <1>4, <1>6, SavedRow
    <3>2. QED
      BY <1>4, <1>6, <3>1 DEF Unresolved
  <2>4. journal'[o] = kept
    BY <1>3, <2>1, <2>2 DEF Save, RestingInv, TypeOK, Rows
  <2> DEFINE w == [venue[o] EXCEPT !.deleting = TRUE]
  <2>5. w \in VenueOrder /\ w.phase = venue[o].phase /\ w.filled = venue[o].filled
    BY <1>3 DEF VenueOrder
  <2>6. venue' = [venue EXCEPT ![o] = w]
    BY <1>6
  <2> HIDE DEF w, kept
  <2>7. /\ venue' \in Seq(VenueOrder) /\ Len(venue') = Len(venue)
        /\ \A p \in Rows : p # o => venue'[p] = venue[p]
        /\ venue'[o] = w
    BY <1>3, <2>5, <2>6 DEF RestingInv, TypeOK, Rows
  <2>8. /\ r \in Thread /\ r.pc = "deleting" /\ r.order = o /\ r.row = kept /\ r.held = 0
        /\ r.revision = 0
    BY <1>3, <2>2, IdleOk DEF Thread, Idle, Places, SlotPlaces
  <2> HIDE DEF r, row, o
  <2>9. /\ RowOk(row, venue'[o]) /\ RowOk(journal[o], venue'[o]) /\ Grows(venue[o], venue'[o])
    BY <1>3, <1>4, <2>5, <2>7 DEF RowOk, Grows, VenueOrder
  <2>10. ThreadOk(r, journal'[r.order], venue'[r.order])
    <3>1. venue[o].phase \in Reached
      BY <1>1, <1>3 DEF ThreadOk
    <3>2. kept.filled <= venue[o].filled
      BY <2>2 DEF RowOk
    <3>3. QED
      BY <1>4, <1>6, <2>2, <2>3, <2>4, <2>5, <2>7, <2>8, <3>1, <3>2 DEF ThreadOk, Ahead, Copying, Answered
  <2>11. AtExchange(o) => journal[o].count - venue[o].filled <= position
    BY <1>3 DEF RestingInv, Covered
  <2>12. venue'[o].phase \in {"sent", "open"} =>
           /\ row.count - venue'[o].filled <= position
           /\ prepared /\ row.kind = "offer" => AtExchange(o)
    BY <1>4, <2>5, <2>7, <2>11 DEF AtExchange
  <2>13. /\ r.pc \in SlotPlaces => InSlot(t) \/ SlotFree
         /\ r.pc \notin Claimed /\ r.pc \notin Ahead /\ r.order \in Rows /\ r.revision <= control.revision
    BY <1>3, <1>6, <2>8 DEF InSlot, SlotPlaces, Claimed, Ahead
  <2>14. venue[o].phase = "none" => venue'[o].phase = "none" \/ InSlot(t)
    BY <2>5, <2>7
  <2>15. row.state \in UNRESOLVED => Unresolved(o) \/ (journal[o].kind = "offer" /\ journal[o].state = "complete")
    BY <1>4
  <2>16. QED
    BY <1>1, <1>3, <1>4, <2>1, <2>7, <2>8, <2>9, <2>10, <2>12, <2>13, <2>14, <2>15, SaveTurn
<1>7. QED
  BY <1>5, <1>6 DEF Reconcile

LEMMA CancelBeginsStep ==
  ASSUME RestingInv, NEW t \in Threads, CancelBegins(t)
  PROVE  RestingInv'
<1> DEFINE o == thread[t].order
           row == [journal[o] EXCEPT !.cancelling = TRUE]
           kept == Saved(o, row)
           r == [thread[t] EXCEPT !.pc = "deleting", !.row = row]
           w == [venue[o] EXCEPT !.deleting = TRUE]
<1>1. /\ thread[t].pc = "cancelqueued" /\ SlotFree
      /\ UNCHANGED <<position, control, closed, operator>> /\ trouble' \in Nat
      /\ Cancelling(o) = row
  BY DEF CancelBegins, RestingInv, TypeOK, Cancelling
<1>2. thread[t].pc \notin Aimless
  BY <1>1 DEF Aimless
<1>3. /\ o \in Rows /\ o \in Nat /\ journal[o] \in Row /\ venue[o] \in VenueOrder
      /\ thread[t] \in Thread
      /\ RowOk(journal[o], venue[o]) /\ ThreadOk(thread[t], journal[o], venue[o])
      /\ thread[t].revision <= control.revision /\ 0 <= control.revision
  BY <1>2, Acting
<1>4. /\ row \in Row /\ row.kind = journal[o].kind /\ row.count = journal[o].count
      /\ row.state = journal[o].state /\ row.filled = journal[o].filled /\ row.acked = journal[o].acked
  BY <1>3 DEF Row
<1>5. CASE Become(t, [Idle EXCEPT !.pc = "resume"]) /\ UNCHANGED <<journal, venue>>
  <2> DEFINE x == [Idle EXCEPT !.pc = "resume"]
  <2>1. /\ x \in Thread /\ x.pc = "resume" /\ x.revision = 0 /\ ThreadOk(x, journal[x.order], venue[x.order])
    BY ResumeOk
  <2>2. thread' = [thread EXCEPT ![t] = x]
    BY <1>5 DEF Become
  <2> HIDE DEF x
  <2>3. /\ x.pc \notin SlotPlaces /\ x.pc \notin Claimed /\ x.pc \in Aimless /\ x.pc # "read"
        /\ x.pc \notin Ahead
    BY <2>1 DEF SlotPlaces, Claimed, Aimless, Ahead
  <2>4. /\ control' \in Control /\ control.revision <= control'.revision
        /\ control.paused => control'.paused
        /\ x.revision <= control'.revision
    BY <1>1, <1>3, <2>1, ControlOf DEF RestingInv
  <2>5. QED
    BY <1>1, <1>5, <2>1, <2>2, <2>3, <2>4, Turn
<1> HIDE DEF row
<1>6. RowOk(row, venue[o])
  BY <1>3, <1>4 DEF RowOk
<1>7. CASE /\ Unresolved(o) /\ Save(o, row) /\ UNCHANGED venue
           /\ Become(t, [thread[t] EXCEPT !.pc = "locating"]) \/ Become(t, Idle)
  <2>1. PICK x \in Thread :
          /\ Become(t, x) /\ x.pc \in {"idle", "locating"} /\ x.revision <= control.revision
          /\ x.pc # "idle" => x.order = o
          /\ \A j, v : ThreadOk(x, j, v)
    <3>1. CASE Become(t, Idle)
      BY <1>3, <3>1, IdleOk
    <3>2. CASE Become(t, [thread[t] EXCEPT !.pc = "locating"])
      <4> DEFINE x == [thread[t] EXCEPT !.pc = "locating"]
      <4>1. x \in Thread /\ x.pc = "locating" /\ x.revision <= control.revision /\ x.order = o
            /\ x.held = thread[t].held
        BY <1>3 DEF Thread, Places, SlotPlaces
      <4>2. Become(t, x)
        BY <3>2
      <4> HIDE DEF x
      <4>3. \A j, v : ThreadOk(x, j, v)
        BY <1>3, <4>1 DEF ThreadOk, Ahead, Copying, Answered
      <4>4. QED
        BY <4>1, <4>2, <4>3
    <3>3. QED
      BY <1>7, <3>1, <3>2
  <2>2. /\ x.pc \in SlotPlaces => InSlot(t) \/ SlotFree
        /\ x.pc \notin Claimed /\ x.pc \notin Ahead
        /\ x.pc \notin Aimless => x.order \in Rows
    BY <1>1, <1>3, <2>1 DEF Claimed, Ahead, Aimless
  <2>3. thread' = [thread EXCEPT ![t] = x]
    BY <2>1 DEF Become
  <2> HIDE DEF o
  <2>4. QED
    BY <1>1, <1>3, <1>4, <1>6, <1>7, <2>1, <2>2, <2>3, SaveInPlace
<1>8. CASE /\ Unresolved(o) /\ Save(o, row) /\ journal[o].acked
           /\ Become(t, r) /\ venue' = [venue EXCEPT ![o].deleting = TRUE]
  <2>1. w \in VenueOrder /\ w.phase = venue[o].phase /\ w.filled = venue[o].filled
    BY <1>3 DEF VenueOrder
  <2>2. venue' = [venue EXCEPT ![o] = w]
    BY <1>8
  <2>3. kept \in Row /\ kept.kind = row.kind /\ kept.count = row.count
    BY <1>3, <1>4, SavedRow
  <2>4. journal'[o] = kept
    BY <1>3, <1>8, <2>3 DEF Save, RestingInv, TypeOK, Rows
  <2> HIDE DEF w, kept
  <2>5. /\ venue' \in Seq(VenueOrder) /\ Len(venue') = Len(venue)
        /\ \A p \in Rows : p # o => venue'[p] = venue[p]
        /\ venue'[o] = w
    BY <1>3, <2>1, <2>2 DEF RestingInv, TypeOK, Rows
  <2>6. /\ r \in Thread /\ r.pc = "deleting" /\ r.order = o /\ r.row = row
        /\ r.held = thread[t].held /\ r.revision = thread[t].revision
    BY <1>3, <1>4 DEF Thread, Places, SlotPlaces
  <2>7. thread' = [thread EXCEPT ![t] = r]
    BY <1>8 DEF Become
  <2> HIDE DEF r, o
  <2>8. /\ RowOk(row, venue'[o]) /\ RowOk(journal[o], venue'[o]) /\ Grows(venue[o], venue'[o])
    BY <1>3, <1>6, <2>1, <2>5 DEF RowOk, Grows, VenueOrder
  <2>9. ThreadOk(r, journal'[r.order], venue'[r.order])
    <3>1. venue[o].phase \in Reached /\ row.filled <= venue[o].filled /\ row.state \in UNRESOLVED
      BY <1>3, <1>4, <1>8 DEF RowOk, Unresolved
    <3>2. thread[t].held >= 0 /\ journal[o].kind = "offer"
      BY <1>1, <1>3 DEF ThreadOk
    <3>3. QED
      BY <1>4, <2>1, <2>3, <2>4, <2>5, <2>6, <3>1, <3>2 DEF ThreadOk, Ahead, Copying, Answered
  <2>10. AtExchange(o) => journal[o].count - venue[o].filled <= position
    BY <1>3 DEF RestingInv, Covered
  <2>11. venue'[o].phase \in {"sent", "open"} =>
           /\ row.count - venue'[o].filled <= position
           /\ prepared /\ row.kind = "offer" => AtExchange(o)
    BY <1>4, <2>1, <2>5, <2>10 DEF AtExchange
  <2>12. /\ r.pc \in SlotPlaces => InSlot(t) \/ SlotFree
         /\ r.pc \notin Claimed /\ r.pc \notin Ahead /\ r.order \in Rows /\ r.revision <= control.revision
    BY <1>1, <1>3, <2>6 DEF Claimed, Ahead
  <2>13. venue[o].phase = "none" => venue'[o].phase = "none" \/ InSlot(t)
    BY <2>1, <2>5
  <2>14. QED
    BY <1>1, <1>3, <1>4, <1>8, <2>5, <2>6, <2>7, <2>8, <2>9, <2>11, <2>12, <2>13, SaveTurn
<1>9. QED
  BY <1>1, <1>5, <1>7, <1>8 DEF CancelBegins

-----------------------------------------------------------------------------
(* The actions: selling                                                    *)

LEMMA PausedControl ==
  ASSUME NEW c \in Control
  PROVE  LET d == [c EXCEPT !.paused = TRUE, !.revision = c.revision + 1] IN
         d \in Control /\ d.paused /\ d.revision = c.revision + 1 /\ c.revision <= d.revision
<1> DEFINE next == c.revision + 1
           d == [c EXCEPT !.paused = TRUE, !.revision = next]
<1>1. next \in Nat /\ c.revision <= next
  BY DEF Control
<1> HIDE DEF next
<1>2. d \in Control /\ d.revision = next
  BY <1>1 DEF Control
<1>3. d.paused
  BY DEF Control
<1>4. QED
  BY <1>1, <1>2, <1>3 DEF next

LEMMA ManualSaleStep ==
  ASSUME RestingInv, NEW t \in Connections, NEW n \in 1..Size, ManualSale(t, n)
  PROVE  RestingInv'
<1> DEFINE r == [Idle EXCEPT !.pc = "queued", !.row = NewRow("manual", n)]
           c == [control EXCEPT !.paused = TRUE, !.revision = control.revision + 1]
<1>1. /\ t \in Threads /\ n \in Nat /\ control \in Control /\ control.revision \in Nat
  BY RestingAssumption, ControlOf DEF Threads, RestingInv
<1>2. c \in Control /\ c.paused /\ c.revision = control.revision + 1
  BY <1>1, PausedControl
<1>3. /\ control' = c /\ thread' = [thread EXCEPT ![t] = r]
      /\ UNCHANGED <<journal, venue, position, closed, operator>> /\ trouble' \in Nat
  BY DEF ManualSale, Paused, Become, Trouble, RestingInv, TypeOK, operator
<1> HIDE DEF c
<1>4. NewRow("manual", n) \in Row /\ NewRow("manual", n).state = "submitting"
      /\ NewRow("manual", n).filled = 0 /\ ~NewRow("manual", n).acked /\ NewRow("manual", n).kind = "manual"
  BY <1>1 DEF NewRow, Row, UNRESOLVED
<1>5. r \in Thread /\ r.pc = "queued" /\ r.row = NewRow("manual", n) /\ r.revision = 0 /\ r.held = 0
  BY <1>4, IdleOk DEF Thread, Idle, Places
<1> HIDE DEF r
<1>6. ThreadOk(r, journal[r.order], venue[r.order])
  BY <1>4, <1>5 DEF ThreadOk, Ahead, Copying, Answered
<1>7. /\ r.pc \notin SlotPlaces /\ r.pc \notin Claimed /\ r.pc \in Aimless /\ r.pc # "read"
      /\ r.row.kind # "offer" /\ r.revision <= control'.revision
      /\ control' \in Control /\ control.revision <= control'.revision
      /\ control.paused => control'.paused
  BY <1>1, <1>2, <1>3, <1>4, <1>5 DEF SlotPlaces, Claimed, Aimless
<1>8. QED
  BY <1>1, <1>3, <1>5, <1>6, <1>7, Turn

LEMMA ReadHoldingsStep ==
  ASSUME RestingInv, NEW t \in Threads, ReadHoldings(t)
  PROVE  RestingInv'
<1> DEFINE o == thread[t].order
           r == [thread[t] EXCEPT !.pc = "read", !.held = position]
<1>1. /\ thread[t].pc = "preflight" /\ thread' = [thread EXCEPT ![t] = r]
      /\ UNCHANGED <<journal, venue, position, closed, control, operator>> /\ trouble' \in Nat
  BY DEF ReadHoldings, Become, RestingInv, TypeOK
<1>2. thread[t].pc \notin Aimless
  BY <1>1 DEF Aimless
<1>3. /\ o \in Rows /\ thread[t] \in Thread
      /\ ThreadOk(thread[t], journal[o], venue[o])
      /\ thread[t].revision <= control.revision
  BY <1>2, Acting
<1>4. position \in Int /\ position >= 0
  BY DEF RestingInv, TypeOK, Covered
<1>5. /\ r \in Thread /\ r.pc = "read" /\ r.held = position /\ r.order = o
      /\ r.row = thread[t].row /\ r.revision = thread[t].revision
  BY <1>3, <1>4 DEF Thread, Places, SlotPlaces
<1> HIDE DEF r, o
<1>6. ThreadOk(r, journal[r.order], venue[r.order])
  BY <1>1, <1>3, <1>4, <1>5 DEF ThreadOk, Ahead, Copying, Answered
<1>7. /\ InSlot(t) /\ thread[t].pc \in Claimed /\ r.order = thread[t].order /\ r.order \in Rows
  BY <1>1, <1>3, <1>5 DEF InSlot, SlotPlaces, Claimed, o
<1>8. /\ control' \in Control /\ control.revision <= control'.revision
      /\ control.paused => control'.paused
      /\ r.revision <= control'.revision
  BY <1>1, <1>3, <1>5, ControlOf DEF RestingInv
<1>9. prepared /\ r.row.kind = "offer" => r.revision < control'.revision \/ control'.paused \/ closed
  <2>1. prepared /\ r.row.kind = "offer" => Fenced(t)
    BY <1>1, <1>5 DEF RestingInv, Prepared, Ahead
  <2>2. QED
    BY <1>1, <1>5, <2>1 DEF Fenced
<1>10. QED
  BY <1>1, <1>5, <1>6, <1>7, <1>8, <1>9, Turn

\* The cut of a stop to the holdings.
LEMMA CutRow ==
  ASSUME RestingInv, NEW t \in Threads, thread[t].pc \in {"preflight", "read"}
  PROVE  /\ Cut(t) \in Row /\ Cut(t).kind = thread[t].row.kind
         /\ Cut(t).state = thread[t].row.state /\ Cut(t).filled = thread[t].row.filled
         /\ Cut(t).acked = thread[t].row.acked
<1>1. thread[t].pc \notin Aimless
  BY DEF Aimless
<1>2. /\ thread[t] \in Thread /\ thread[t].row \in Row
      /\ thread[t].held >= 0 /\ thread[t].held \in Int
  BY <1>1, Acting DEF ThreadOk, Thread
<1>3. QED
  BY <1>2 DEF Cut, Row

LEMMA PreflightRejectsStep ==
  ASSUME RestingInv, NEW t \in Threads, PreflightRejects(t)
  PROVE  RestingInv'
<1> DEFINE o == thread[t].order
           row == [Cut(t) EXCEPT !.state = "rejected"]
<1>1. /\ thread[t].pc \in {"preflight", "read"} /\ SaveAnd(t, row, Idle)
      /\ UNCHANGED <<venue, position, control, closed, operator>> /\ trouble' \in Nat
  BY DEF PreflightRejects, Trouble, NoTrouble, RestingInv, TypeOK
<1>2. thread[t].pc \notin Aimless
  BY <1>1 DEF Aimless
<1>3. /\ o \in Rows /\ venue[o] \in VenueOrder
      /\ RowOk(journal[o], venue[o]) /\ ThreadOk(thread[t], journal[o], venue[o])
  BY <1>2, Acting
<1>4. /\ row \in Row /\ row.kind = thread[t].row.kind /\ row.state = "rejected"
      /\ row.filled = thread[t].row.filled /\ row.acked = thread[t].row.acked
  BY <1>1, CutRow DEF Row
<1> HIDE DEF row
<1>5. /\ venue[o].phase = "none" /\ thread[t].row.kind = journal[o].kind
      /\ thread[t].row.filled = 0 /\ ~thread[t].row.acked /\ venue[o].filled = 0
  BY <1>1, <1>3 DEF ThreadOk, RowOk, Ahead, Copying
<1>6. RowOk(row, venue[o]) /\ ~AtExchange(o)
  BY <1>4, <1>5 DEF RowOk, AtExchange
<1>7. InSlot(t) /\ row.kind = journal[o].kind /\ row.state \notin UNRESOLVED
  BY <1>1, <1>4, <1>5 DEF InSlot, SlotPlaces, UNRESOLVED
<1>8. QED
  BY <1>1, <1>2, <1>4, <1>6, <1>7, IdleOk, SaveAndRest

LEMMA RefusedStep ==
  ASSUME RestingInv, NEW t \in Threads, Refused(t)
  PROVE  RestingInv'
<1> DEFINE o == thread[t].order
           row == [thread[t].row EXCEPT !.state = "rejected"]
<1>1. /\ thread[t].pc = "posting" /\ venue[o].phase = "refused" /\ SaveAnd(t, row, Idle)
      /\ UNCHANGED <<venue, position, control, closed, operator>> /\ trouble' \in Nat
  BY DEF Refused, RestingInv, TypeOK
<1>2. thread[t].pc \notin Aimless
  BY <1>1 DEF Aimless
<1>3. /\ o \in Rows /\ venue[o] \in VenueOrder /\ thread[t].row \in Row
      /\ RowOk(journal[o], venue[o]) /\ ThreadOk(thread[t], journal[o], venue[o])
  BY <1>2, Acting
<1>4. /\ row \in Row /\ row.kind = thread[t].row.kind /\ row.state = "rejected"
      /\ row.filled = thread[t].row.filled /\ row.acked = thread[t].row.acked
      /\ row.count = thread[t].row.count
  BY <1>3 DEF Row
<1> HIDE DEF row
<1>5. /\ thread[t].row.kind = journal[o].kind /\ thread[t].row.count = journal[o].count
      /\ thread[t].row.filled = 0 /\ ~thread[t].row.acked /\ venue[o].filled = 0
  BY <1>1, <1>3 DEF ThreadOk, RowOk, Ahead, Copying
<1>6. RowOk(row, venue[o])
  BY <1>1, <1>4, <1>5 DEF RowOk
<1>7. row.kind = journal[o].kind /\ row.state \notin UNRESOLVED /\ row.count = journal[o].count
  BY <1>1, <1>4, <1>5 DEF UNRESOLVED
<1>8. QED
  BY <1>1, <1>2, <1>4, <1>6, <1>7, IdleOk, SaveAndRest

LEMMA UnconfirmedStep ==
  ASSUME RestingInv, NEW t \in Threads, Unconfirmed(t)
  PROVE  RestingInv'
<1> DEFINE o == thread[t].order
           row == [thread[t].row EXCEPT !.state = "unknown"]
<1>1. /\ thread[t].pc \in {"posting", "acked"} /\ SaveAnd(t, row, Idle)
      /\ UNCHANGED <<venue, position, control, closed, operator>> /\ trouble' \in Nat
  BY DEF Unconfirmed, Trouble, NoTrouble, RestingInv, TypeOK
<1>2. thread[t].pc \notin Aimless
  BY <1>1 DEF Aimless
<1>3. /\ o \in Rows /\ venue[o] \in VenueOrder /\ thread[t].row \in Row /\ journal[o] \in Row
      /\ RowOk(journal[o], venue[o]) /\ ThreadOk(thread[t], journal[o], venue[o])
  BY <1>2, Acting
<1>4. /\ row \in Row /\ row.kind = thread[t].row.kind /\ row.state = "unknown"
      /\ row.filled = thread[t].row.filled /\ row.acked = thread[t].row.acked
      /\ row.count = thread[t].row.count
  BY <1>3 DEF Row, UNRESOLVED
<1> HIDE DEF row
<1>5. /\ thread[t].row.kind = journal[o].kind /\ thread[t].row.count = journal[o].count
      /\ thread[t].row.filled <= venue[o].filled
      /\ thread[t].row.acked => venue[o].phase \in Reached
  BY <1>1, <1>3 DEF ThreadOk, Ahead, Copying
<1>6. RowOk(row, venue[o])
  BY <1>3, <1>4, <1>5 DEF RowOk
<1>7. row.kind = journal[o].kind /\ row.count = journal[o].count /\ thread[t].pc \in Claimed
  BY <1>1, <1>4, <1>5 DEF Claimed
<1>8. QED
  BY <1>1, <1>2, <1>4, <1>6, <1>7, IdleOk, SaveAndRest

LEMMA AcknowledgedStep ==
  ASSUME RestingInv, NEW t \in Threads, Acknowledged(t)
  PROVE  RestingInv'
<1> DEFINE o == thread[t].order
           row == [thread[t].row EXCEPT !.state = "accepted", !.acked = TRUE]
           kept == Saved(o, row)
           r == [thread[t] EXCEPT !.pc = "acked", !.row = row]
<1>1. /\ thread[t].pc = "posting" /\ venue[o].phase \in {"open", "done"}
      /\ SaveAnd(t, row, r)
      /\ UNCHANGED <<venue, position, control, closed, operator>> /\ trouble' \in Nat
  BY DEF Acknowledged, RestingInv, TypeOK
<1>2. thread[t].pc \notin Aimless
  BY <1>1 DEF Aimless
<1>3. /\ o \in Rows /\ venue[o] \in VenueOrder /\ thread[t].row \in Row /\ journal[o] \in Row
      /\ thread[t] \in Thread /\ thread[t].revision <= control.revision
      /\ RowOk(journal[o], venue[o]) /\ ThreadOk(thread[t], journal[o], venue[o])
  BY <1>2, Acting
<1>4. /\ row \in Row /\ row.kind = thread[t].row.kind /\ row.state = "accepted"
      /\ row.filled = thread[t].row.filled /\ row.count = thread[t].row.count
  BY <1>3 DEF Row, UNRESOLVED
<1> HIDE DEF row
<1>5. /\ row.kind = journal[o].kind /\ row.count = journal[o].count
      /\ row.filled <= venue[o].filled /\ thread[t].held >= 0
  BY <1>1, <1>3, <1>4 DEF ThreadOk, Ahead, Copying
<1>6. RowOk(row, venue[o])
  BY <1>1, <1>3, <1>4, <1>5 DEF RowOk, Reached
<1>7. CASE Become(t, Idle) /\ UNCHANGED journal
  BY <1>1, <1>7, GoesIdle
<1>8. CASE Save(o, row) /\ Become(t, r)
  <2>1. kept \in Row /\ kept.kind = row.kind /\ kept.count = row.count
    BY <1>3, <1>4, <1>5, SavedRow
  <2>2. journal'[o] = kept
    BY <1>3, <1>8, <2>1 DEF Save, RestingInv, TypeOK, Rows
  <2> HIDE DEF kept
  <2>3. /\ r \in Thread /\ r.pc = "acked" /\ r.row = row /\ r.order = o
        /\ r.held = thread[t].held /\ r.revision = thread[t].revision
    BY <1>3, <1>4 DEF Thread, Places, SlotPlaces
  <2>4. thread' = [thread EXCEPT ![t] = r]
    BY <1>8 DEF Become
  <2> HIDE DEF r
  <2>5. ThreadOk(r, journal'[r.order], venue[r.order])
    BY <1>1, <1>4, <1>5, <2>1, <2>2, <2>3 DEF ThreadOk, Ahead, Copying, Answered, Reached, UNRESOLVED
  <2>6. /\ InSlot(t) /\ thread[t].pc \in Claimed /\ r.pc \notin Ahead
    BY <1>1, <2>3 DEF InSlot, SlotPlaces, Claimed, Ahead
  <2>7. r.order = thread[t].order /\ o = thread[t].order /\ r.revision <= control.revision
    BY <1>3, <2>3
  <2> HIDE DEF o
  <2>8. QED
    BY <1>1, <1>3, <1>4, <1>5, <1>6, <1>8, <2>3, <2>4, <2>5, <2>6, <2>7, SaveInPlace
<1>9. QED
  BY <1>1, <1>7, <1>8 DEF SaveAnd

LEMMA PostStep ==
  ASSUME RestingInv, NEW t \in Threads, Post(t)
  PROVE  RestingInv'
<1> DEFINE o == thread[t].order
           row == [Cut(t) EXCEPT !.indexed = TRUE]
           kept == Saved(o, row)
           r == [Idle EXCEPT !.pc = "posting", !.order = o, !.row = row]
           w == [venue[o] EXCEPT !.phase = "sent"]
<1>1. /\ thread[t].pc = "read" /\ Fits(t) /\ Authorized(t) /\ Indexed(t) = row
      /\ Save(o, row) /\ venue' = [venue EXCEPT ![o] = w] /\ thread' = [thread EXCEPT ![t] = r]
      /\ UNCHANGED <<position, control, closed, operator>> /\ trouble' \in Nat
  BY DEF Post, Indexed, Become, RestingInv, TypeOK
<1>2. thread[t].pc \notin Aimless
  BY <1>1 DEF Aimless
<1>3. /\ o \in Rows /\ o \in Nat /\ journal[o] \in Row /\ venue[o] \in VenueOrder
      /\ thread[t] \in Thread /\ 0 <= control.revision
      /\ RowOk(journal[o], venue[o]) /\ ThreadOk(thread[t], journal[o], venue[o])
  BY <1>2, Acting
<1>4. /\ Cut(t) \in Row /\ Cut(t).kind = thread[t].row.kind
      /\ Cut(t).state = thread[t].row.state /\ Cut(t).filled = thread[t].row.filled
      /\ Cut(t).acked = thread[t].row.acked
  BY <1>1, CutRow
<1>5. /\ row \in Row /\ row.kind = thread[t].row.kind /\ row.state = thread[t].row.state
      /\ row.filled = thread[t].row.filled /\ row.count = Cut(t).count
      /\ row.acked = thread[t].row.acked
  BY <1>4 DEF Row
<1>6. /\ thread[t].row.kind = journal[o].kind /\ thread[t].row.state = "submitting"
      /\ thread[t].row.filled = 0 /\ ~thread[t].row.acked
      /\ venue[o].phase = "none" /\ venue[o].filled = 0
  BY <1>1, <1>3 DEF ThreadOk, RowOk, Ahead, Copying
<1>7. position \in Int /\ row.count \in Nat /\ row.count > 0 /\ row.count <= position
  <2>1. thread[t].held = position /\ position \in Int
    BY <1>1 DEF RestingInv, TypeOK, Covered
  <2>2. QED
    BY <1>1, <1>5, <2>1 DEF Fits, Row
<1> HIDE DEF row
<1>8. w \in VenueOrder /\ w.phase = "sent" /\ w.filled = 0
  BY <1>3, <1>6 DEF VenueOrder
<1> HIDE DEF w
<1>9. /\ venue' \in Seq(VenueOrder) /\ Len(venue') = Len(venue)
      /\ \A p \in Rows : p # o => venue'[p] = venue[p]
      /\ venue'[o] = w
  BY <1>1, <1>3, <1>8 DEF RestingInv, TypeOK, Rows
<1>10. journal[o].state # "complete"
  BY <1>3, <1>6 DEF RowOk
<1>11. /\ kept \in Row /\ kept.kind = row.kind /\ kept.count = row.count
  BY <1>3, <1>5, <1>10, SavedRow
<1>12. journal'[o] = kept
  BY <1>1, <1>3, <1>11 DEF Save, RestingInv, TypeOK, Rows
<1> HIDE DEF kept
<1>13. /\ r \in Thread /\ r.pc = "posting" /\ r.order = o /\ r.row = row /\ r.held = 0 /\ r.revision = 0
  BY <1>3, <1>5, IdleOk DEF Thread, Idle, Places, SlotPlaces
<1> HIDE DEF r
<1>14. ~(prepared /\ row.kind = "offer")
  <2> SUFFICES ASSUME prepared, row.kind = "offer" PROVE FALSE
    OBVIOUS
  <2>1. Fenced(t)
    BY <1>1, <1>5 DEF RestingInv, Prepared, Ahead
  <2>2. control.revision = thread[t].revision /\ ~control.paused /\ ~closed
    BY <1>1, <1>5 DEF Authorized
  <2>3. control.revision \in Nat
    BY ControlOf DEF RestingInv
  <2>4. QED
    BY <2>1, <2>2, <2>3 DEF Fenced
<1>15. RowOk(row, venue'[o]) /\ Grows(venue[o], venue'[o])
  BY <1>3, <1>5, <1>6, <1>7, <1>8, <1>9 DEF RowOk, Grows, Reached
<1>16. ThreadOk(r, journal'[r.order], venue'[r.order])
  BY <1>5, <1>6, <1>8, <1>9, <1>11, <1>12, <1>13 DEF ThreadOk, Ahead, Copying, Answered, UNRESOLVED
<1>17. venue'[o].phase \in {"sent", "open"} =>
         /\ row.count - venue'[o].filled <= position
         /\ prepared /\ row.kind = "offer" => AtExchange(o)
  BY <1>7, <1>8, <1>9, <1>14
<1>18. /\ InSlot(t) /\ thread[t].pc \in Claimed /\ r.pc \notin Ahead /\ r.order = thread[t].order
       /\ o = thread[t].order /\ r.revision <= control.revision /\ r.order \in Rows
  BY <1>1, <1>3, <1>13 DEF InSlot, SlotPlaces, Claimed, Ahead
<1>19. row.kind = journal[o].kind
  BY <1>5, <1>6
<1> HIDE DEF o
<1>20. QED
  BY <1>1, <1>3, <1>5, <1>9, <1>10, <1>13, <1>15, <1>16, <1>17, <1>18, <1>19, SaveTurn

LEMMA ClaimStep ==
  ASSUME RestingInv, NEW t \in Threads, Claim(t)
  PROVE  RestingInv'
<1> DEFINE n == Len(journal) + 1
           row == thread[t].row
           r == [thread[t] EXCEPT !.pc = "preflight", !.order = n]
<1>1. /\ thread[t].pc = "queued" /\ SlotFree
      /\ UNCHANGED <<position, control, closed, operator>> /\ trouble' \in Nat
  BY DEF Claim, RestingInv, TypeOK
<1>2. CASE Become(t, Idle) /\ UNCHANGED <<journal, venue>>
  BY <1>1, <1>2, GoesIdle
<1>3. CASE /\ ~AnyUnresolved
           /\ journal' = Append(journal, row) /\ venue' = Append(venue, Unsent) /\ Become(t, r)
  <2>1. /\ thread[t] \in Thread /\ row \in Row /\ n \in Nat /\ Len(journal) \in Nat
        /\ ThreadOk(thread[t], journal[thread[t].order], venue[thread[t].order])
        /\ Unsent \in VenueOrder /\ Unsent.phase = "none" /\ Unsent.filled = 0
    BY RestingTypes DEF RestingInv, ThreadsTrue, Thread, Unsent, VenueOrder
  <2>2. row.state = "submitting" /\ row.filled = 0 /\ ~row.acked /\ thread[t].held >= 0
    BY <1>1, <2>1 DEF ThreadOk, Ahead
  <2> HIDE DEF row
  <2>3. /\ journal' \in Seq(Row) /\ venue' \in Seq(VenueOrder) /\ Len(journal') = n /\ Len(venue') = n
        /\ journal'[n] = row /\ venue'[n] = Unsent
        /\ \A p \in Rows : journal'[p] = journal[p] /\ venue'[p] = venue[p]
    BY <1>3, <2>1 DEF RestingInv, TypeOK, Rows
  <2>4. Rows' = Rows \cup {n} /\ n \notin Rows
    BY <2>1, <2>3 DEF Rows
  <2>5. /\ r \in Thread /\ r.pc = "preflight" /\ r.order = n /\ r.row = row
        /\ r.held = thread[t].held /\ r.revision = thread[t].revision
    BY <2>1 DEF Thread, Places, SlotPlaces, row
  <2>6. /\ thread' = [thread EXCEPT ![t] = r] /\ thread'[t] = r
        /\ \A u \in Threads : u # t => thread'[u] = thread[u]
    BY <1>3 DEF Become, RestingInv, TypeOK
  <2> HIDE DEF r, n
  <2>7. TypeOK'
    BY <1>1, <2>3, <2>5, <2>6 DEF RestingInv, TypeOK, operator
  <2>8. SlotExclusive'
    BY <1>1, <2>6 DEF SlotExclusive, SlotFree, InSlot
  <2>9. RowsTrue'
    <3>1. RowOk(row, Unsent)
      BY <2>1, <2>2 DEF RowOk
    <3>2. \A p \in Rows : RowOk(journal'[p], venue'[p])
      BY <2>3 DEF RestingInv, RowsTrue
    <3>3. QED
      BY <2>3, <2>4, <3>1, <3>2 DEF RowsTrue
  <2>10. \A p \in Rows' : journal'[p].state \in UNRESOLVED => p = n
    BY <1>3, <2>3, <2>4 DEF AnyUnresolved, Unresolved
  <2>11. OneUnresolved'
    BY <2>10 DEF OneUnresolved, Unresolved
  <2>12. Alone'
    <3> SUFFICES ASSUME NEW u \in Threads, thread'[u].pc \in Claimed,
                        NEW p \in Rows', journal'[p].state \in UNRESOLVED
                 PROVE  p = thread'[u].order
      BY DEF Alone, Unresolved
    <3>1. u = t
      BY <1>1, <2>6 DEF SlotFree, InSlot, SlotPlaces, Claimed
    <3>2. QED
      BY <2>5, <2>6, <2>10, <3>1
  <2>13. Covered'
    <3>1. /\ position' = position /\ position >= 0
          /\ \A u \in Threads : thread'[u].pc = "read" => thread'[u].held = position
      BY <1>1, <2>5, <2>6 DEF RestingInv, Covered
    <3>2. \A p \in Rows' : ~(venue'[p].phase \in {"sent", "open"})
      <4>1. \A p \in Rows : ~AtExchange(p)
        BY <1>3, AtExchangeUnresolved DEF RestingInv, AnyUnresolved
      <4>2. QED
        BY <2>1, <2>3, <2>4, <4>1 DEF AtExchange
    <3>3. QED
      BY <3>1, <3>2 DEF Covered, AtExchange
  <2>14. ThreadsTrue'
    <3> SUFFICES ASSUME NEW u \in Threads
                 PROVE  /\ thread'[u].pc \notin Aimless => thread'[u].order \in Rows'
                        /\ ThreadOk(thread'[u], journal'[thread'[u].order], venue'[thread'[u].order])
      BY DEF ThreadsTrue
    <3>1. CASE u = t
      <4>1. ThreadOk(r, row, Unsent)
        BY <2>1, <2>2, <2>5 DEF ThreadOk, Ahead, Copying, Answered, UNRESOLVED, VenueOrder, Row
      <4>2. QED
        BY <2>3, <2>4, <2>5, <2>6, <3>1, <4>1
    <3>2. CASE u # t
      <4>1. /\ thread'[u] = thread[u]
            /\ thread[u].pc \notin Aimless => thread[u].order \in Rows
            /\ ThreadOk(thread[u], journal[thread[u].order], venue[thread[u].order])
        BY <2>6, <3>2 DEF RestingInv, ThreadsTrue
      <4>2. CASE thread[u].pc \in Aimless
        BY <4>1, <4>2, AimlessOk
      <4>3. CASE thread[u].pc \notin Aimless
        BY <2>3, <2>4, <4>1, <4>3
      <4>4. QED
        BY <4>2, <4>3
    <3>3. QED
      BY <3>1, <3>2
  <2>15. Prepared'
    <3> SUFFICES ASSUME prepared' PROVE Prepared'
      BY DEF Prepared
    <3>1. prepared /\ control' = control /\ closed' = closed
      BY <1>1 DEF operator
    <3>2. \A p \in Offers' : ~AtExchange(p)'
      <4>1. \A p \in Rows : ~AtExchange(p)
        BY <1>3, AtExchangeUnresolved DEF RestingInv, AnyUnresolved
      <4>2. QED
        BY <2>1, <2>3, <2>4, <4>1 DEF AtExchange, Offers
    <3>3. \A u \in Threads : thread'[u].pc \in Ahead /\ thread'[u].row.kind = "offer" => Fenced(u)'
      <4>1. \A u \in Threads : thread[u].pc \in Ahead /\ thread[u].row.kind = "offer" => Fenced(u)
        BY <3>1 DEF RestingInv, Prepared
      <4>2. thread[t].pc \in Ahead /\ thread[t].row = row
        BY <1>1 DEF Ahead, row
      <4>3. row.kind = "offer" => Fenced(t)'
        BY <2>5, <2>6, <3>1, <4>1, <4>2 DEF Fenced
      <4>4. \A u \in Threads : u # t /\ thread[u].pc \in Ahead /\ thread[u].row.kind = "offer" => Fenced(u)'
        BY <2>6, <3>1, <4>1 DEF Fenced
      <4>5. QED
        BY <2>5, <2>6, <4>3, <4>4
    <3>4. Sold => Sold'
      <4>1. Len(journal) <= Len(journal')
        BY <2>1, <2>3 DEF n
      <4>2. \A p \in Rows : journal'[p].kind = journal[p].kind /\ venue[p].filled <= venue'[p].filled
        BY <2>3, RestingTypes DEF RestingInv, VenueOrder
      <4>3. QED
        BY <2>7, <4>1, <4>2, SoldStays DEF RestingInv
    <3>5. QED
      BY <3>1, <3>2, <3>3, <3>4 DEF RestingInv, Prepared
  <2>16. Revisions'
    BY <1>1, <2>5, <2>6 DEF RestingInv, Revisions
  <2>17. QED
    BY <2>7, <2>8, <2>9, <2>11, <2>12, <2>13, <2>14, <2>15, <2>16 DEF RestingInv
<1>4. QED
  BY <1>2, <1>3 DEF Claim

-----------------------------------------------------------------------------
(* The actions: the exchange                                               *)

\* An order goes on at the exchange.  If contracts change hands it was there,
\* so no other one is and no coroutine has just read the holdings.
LEMMA VenueTurn ==
  ASSUME RestingInv, NEW o \in Rows, NEW w \in VenueOrder,
         venue' = [venue EXCEPT ![o] = w],
         UNCHANGED <<journal, control, closed, thread, operator>>, trouble' \in Nat,
         position' \in Int, position' >= 0, position' # position => AtExchange(o),
         RowOk(journal[o], w), Grows(venue[o], w), venue[o].phase = "none" => w.phase = "none",
         w.phase \in {"sent", "open"} => AtExchange(o) /\ journal[o].count - w.filled <= position'
  PROVE  RestingInv'
<1> DEFINE t == Automation
           r == thread[t]
<1>1. /\ journal' = journal /\ control' = control /\ closed' = closed /\ thread' = thread
      /\ prepared' = prepared /\ profit' = profit
  BY DEF operator
<1>2. /\ venue' \in Seq(VenueOrder) /\ Len(venue') = Len(venue)
      /\ \A p \in Rows : p # o => venue'[p] = venue[p]
      /\ venue'[o] = w
  BY DEF RestingInv, TypeOK, Rows
<1>3. TypeOK'
  BY <1>1, <1>2 DEF RestingInv, TypeOK
<1>4. \A p \in Rows : RowStep(t, p) /\ (venue[p].phase = "none" => venue'[p].phase = "none")
  <2>1. RowStep(t, o)
    BY <1>1, <1>2 DEF RowStep, Unresolved
  <2>2. \A p \in Rows : p # o => RowStep(t, p)
    BY <1>1, <1>2, RestingTypes, SameRow DEF RestingInv
  <2>3. QED
    BY <1>2, <2>1, <2>2
<1>5. Covered'
  <2>1. \A p \in Rows : AtExchange(p)' => journal'[p].count - venue'[p].filled <= position'
    <3> SUFFICES ASSUME NEW p \in Rows, venue'[p].phase \in {"sent", "open"}
                 PROVE  journal[p].count - venue'[p].filled <= position'
      BY <1>1 DEF AtExchange
    <3>1. CASE p = o
      BY <1>2, <3>1
    <3>2. CASE p # o
      <4>1. venue'[p] = venue[p] /\ AtExchange(p)
        BY <1>2, <3>2 DEF AtExchange
      <4>2. position' = position
        BY <3>2, <4>1, OneAtExchange
      <4>3. QED
        BY <4>1, <4>2 DEF RestingInv, Covered
    <3>3. QED
      BY <3>1, <3>2
  <2>2. \A u \in Threads : thread[u].pc = "read" => thread[u].held = position'
    <3> SUFFICES ASSUME NEW u \in Threads, thread[u].pc = "read"
                 PROVE  thread[u].held = position'
      OBVIOUS
    <3>1. thread[u].held = position
      BY DEF RestingInv, Covered
    <3>2. ~AtExchange(o)
      <4> SUFFICES ASSUME AtExchange(o) PROVE FALSE
        OBVIOUS
      <4>1. Unresolved(o)
        BY AtExchangeUnresolved DEF RestingInv
      <4>2. o = thread[u].order
        BY <4>1 DEF RestingInv, Alone, Claimed
      <4>3. venue[thread[u].order].phase = "none"
        BY DEF RestingInv, ThreadsTrue, ThreadOk
      <4>4. QED
        BY <4>2, <4>3 DEF AtExchange
    <3>3. QED
      BY <3>1, <3>2
  <2>3. QED
    BY <1>1, <2>1, <2>2 DEF Covered, Rows
<1>6. t \in Threads /\ r \in Thread /\ thread' = [thread EXCEPT ![t] = r]
      /\ Len(journal') = Len(journal)
  BY <1>1, RestingTypes DEF RestingInv, TypeOK
<1>7. Prepared'
  <2>1. \A p \in Rows : /\ journal'[p].kind = journal[p].kind
                        /\ venue[p].filled <= venue'[p].filled
                        /\ prepared /\ journal[p].kind = "offer" /\ AtExchange(p)' => AtExchange(p)
    BY <1>1, <1>2, <1>4 DEF RowStep, Grows, AtExchange
  <2>2. prepared /\ r.pc \in Ahead /\ r.row.kind = "offer" =>
          r.revision < control'.revision \/ control'.paused \/ closed'
    BY <1>1, <1>6 DEF RestingInv, Prepared, Fenced
  <2>3. /\ prepared' => prepared /\ (control.paused => control'.paused)
        /\ closed => closed'
        /\ control.revision <= control'.revision
    BY <1>1, ControlOf DEF RestingInv
  <2>4. QED
    BY <1>3, <1>6, <2>1, <2>2, <2>3, PreparedStays
<1>8. Revisions'
  BY <1>1 DEF RestingInv, Revisions
<1>9. /\ r.pc \notin Aimless => r.order \in Rows
      /\ ThreadOk(r, journal'[r.order], venue'[r.order])
  <2>1. /\ r.pc \notin Aimless => r.order \in Rows
        /\ ThreadOk(r, journal[r.order], venue[r.order])
    BY <1>6 DEF RestingInv, ThreadsTrue
  <2>2. CASE r.pc \in Aimless
    BY <2>1, <2>2, AimlessOk
  <2>3. CASE r.pc \notin Aimless
    <3> DEFINE p == r.order
    <3>1. /\ p \in Rows /\ journal[p] \in Row /\ venue[p] \in VenueOrder /\ venue'[p] \in VenueOrder
      BY <1>2, <2>1, <2>3, RestingTypes DEF RestingInv, TypeOK, Rows
    <3>2. Grows(venue[p], venue'[p]) /\ (venue[p].phase = "none" => venue'[p].phase = "none")
      BY <1>4, <3>1 DEF RowStep
    <3> HIDE DEF p, r
    <3>3. ThreadOk(r, journal[p], venue'[p])
      BY <1>6, <2>1, <3>1, <3>2, ThreadKeeps DEF p
    <3>4. QED
      BY <1>1, <2>1, <3>3 DEF p
  <2>4. QED
    BY <2>2, <2>3
<1>10. /\ r.pc \in SlotPlaces => InSlot(t) \/ SlotFree
       /\ r.pc \in Claimed => thread[t].pc \in Claimed /\ r.order = thread[t].order
  BY DEF InSlot
<1> HIDE DEF t, r
<1>11. QED
  BY <1>3, <1>4, <1>5, <1>6, <1>7, <1>8, <1>9, <1>10, Follow

LEMMA AtVenue ==
  ASSUME RestingInv, NEW o \in Rows
  PROVE  /\ journal[o] \in Row /\ venue[o] \in VenueOrder /\ RowOk(journal[o], venue[o])
         /\ position \in Int /\ position >= 0 /\ trouble \in Nat
         /\ AtExchange(o) => journal[o].count - venue[o].filled <= position
  BY RestingTypes DEF RestingInv, RowsTrue, Covered, TypeOK

LEMMA ArriveStep ==
  ASSUME RestingInv, NEW o \in Rows, Arrive(o)
  PROVE  RestingInv'
<1>1. /\ journal[o] \in Row /\ venue[o] \in VenueOrder /\ RowOk(journal[o], venue[o])
      /\ position \in Int /\ position >= 0 /\ venue[o].phase = "sent" /\ AtExchange(o)
      /\ journal[o].count - venue[o].filled <= position /\ venue[o].filled = 0
      /\ UNCHANGED <<journal, control, closed, thread, operator>> /\ trouble' \in Nat
  BY AtVenue DEF Arrive, AtExchange, RowOk
<1>2. CASE venue' = [venue EXCEPT ![o].phase = "refused"] /\ UNCHANGED position
  <2> DEFINE w == [venue[o] EXCEPT !.phase = "refused"]
  <2>1. venue' = [venue EXCEPT ![o] = w]
    BY <1>2
  <2>2. w \in VenueOrder /\ w.phase = "refused" /\ w.filled = 0
    BY <1>1 DEF VenueOrder
  <2> HIDE DEF w
  <2>3. RowOk(journal[o], w) /\ Grows(venue[o], w)
    BY <1>1, <2>2 DEF RowOk, Grows, Reached
  <2>4. QED
    BY <1>1, <1>2, <2>1, <2>2, <2>3, VenueTurn
<1>3. CASE /\ journal[o].kind = "offer"
           /\ venue' = [venue EXCEPT ![o].phase = "open"] /\ UNCHANGED position
  <2> DEFINE w == [venue[o] EXCEPT !.phase = "open"]
  <2>1. venue' = [venue EXCEPT ![o] = w]
    BY <1>3
  <2>2. w \in VenueOrder /\ w.phase = "open" /\ w.filled = 0
    BY <1>1 DEF VenueOrder
  <2> HIDE DEF w
  <2>3. RowOk(journal[o], w) /\ Grows(venue[o], w)
    BY <1>1, <1>3, <2>2 DEF RowOk, Grows, Reached
  <2>4. QED
    BY <1>1, <1>3, <2>1, <2>2, <2>3, VenueTurn
<1>4. ASSUME NEW n \in 0..journal[o].count, n <= position,
             venue' = [venue EXCEPT ![o].phase = "done", ![o].filled = n],
             position' = position - n
      PROVE  RestingInv'
  <2> DEFINE w == [venue[o] EXCEPT !.phase = "done", !.filled = n]
  <2>1. venue' = [venue EXCEPT ![o] = w]
    BY <1>1, <1>4 DEF RestingInv, TypeOK, Rows
  <2>2. n \in Nat
    BY <1>1 DEF Row
  <2>3. w \in VenueOrder /\ w.phase = "done" /\ w.filled = n
    BY <1>1, <2>2 DEF VenueOrder
  <2> HIDE DEF w
  <2>4. RowOk(journal[o], w) /\ Grows(venue[o], w)
    BY <1>1, <2>2, <2>3 DEF RowOk, Grows, Reached, Row
  <2>5. position' \in Int /\ position' >= 0
    BY <1>1, <1>4, <2>2
  <2>6. QED
    BY <1>1, <2>1, <2>3, <2>4, <2>5, VenueTurn
<1>5. QED
  BY <1>2, <1>3, <1>4 DEF Arrive

LEMMA MatchStep ==
  ASSUME RestingInv, NEW o \in Rows, Match(o)
  PROVE  RestingInv'
<1> DEFINE n == venue[o].filled + 1
           phase == IF n = journal[o].count THEN "done" ELSE "open"
           w == [venue[o] EXCEPT !.filled = n, !.phase = phase]
<1>1. /\ journal[o] \in Row /\ venue[o] \in VenueOrder /\ RowOk(journal[o], venue[o])
      /\ position \in Int /\ venue[o].phase = "open" /\ AtExchange(o)
      /\ journal[o].count - venue[o].filled <= position
      /\ journal[o].kind = "offer" /\ venue[o].filled < journal[o].count
      /\ position' = position - 1
      /\ UNCHANGED <<journal, control, closed, thread, operator>> /\ trouble' \in Nat
  BY AtVenue DEF Match, AtExchange, RowOk
<1>2. venue' = [venue EXCEPT ![o] = w]
  BY <1>1 DEF Match, RestingInv, TypeOK, Rows
<1>3. /\ n \in Nat /\ phase \in {"open", "done"} /\ n <= journal[o].count
      /\ phase = "open" => n < journal[o].count
      /\ venue[o].filled <= n
  BY <1>1 DEF Row, VenueOrder
<1>4. position' \in Int /\ position' >= 0 /\ journal[o].count - n <= position'
  BY <1>1 DEF Row, VenueOrder
<1> HIDE DEF n, phase
<1>5. w \in VenueOrder /\ w.phase = phase /\ w.filled = n
  BY <1>1, <1>3 DEF VenueOrder
<1> HIDE DEF w
<1>6. RowOk(journal[o], w)
  <2>1. journal[o].filled <= n /\ journal[o].state \notin {"complete", "rejected"}
    BY <1>1, <1>3 DEF RowOk, Row, VenueOrder
  <2>2. QED
    BY <1>1, <1>3, <1>5, <2>1 DEF RowOk, Reached
<1>7. Grows(venue[o], w)
  BY <1>1, <1>3, <1>5 DEF Grows, Reached
<1>8. QED
  BY <1>1, <1>2, <1>4, <1>5, <1>6, <1>7, VenueTurn

\* A DELETE arrives or is lost, the close expires the offer: no fill changes.
LEMMA EndsAtVenue ==
  ASSUME RestingInv, NEW o \in Rows, NEW w \in VenueOrder,
         venue' = [venue EXCEPT ![o] = w],
         UNCHANGED <<journal, control, closed, thread, position, operator>>, trouble' \in Nat,
         w.filled = venue[o].filled,
         w.phase = venue[o].phase \/ (venue[o].phase = "open" /\ w.phase = "done")
  PROVE  RestingInv'
<1>1. /\ journal[o] \in Row /\ venue[o] \in VenueOrder /\ RowOk(journal[o], venue[o])
      /\ position \in Int /\ position >= 0
      /\ AtExchange(o) => journal[o].count - venue[o].filled <= position
  BY AtVenue
<1>2. RowOk(journal[o], w) /\ Grows(venue[o], w) /\ (venue[o].phase = "none" => w.phase = "none")
  BY <1>1 DEF RowOk, Grows, Reached, VenueOrder
<1>3. w.phase \in {"sent", "open"} => AtExchange(o) /\ journal[o].count - w.filled <= position
  BY <1>1 DEF AtExchange
<1>4. QED
  BY <1>1, <1>2, <1>3, VenueTurn

LEMMA CancelArrivesStep ==
  ASSUME RestingInv, NEW o \in Rows, CancelArrives(o)
  PROVE  RestingInv'
<1> DEFINE phase == IF venue[o].phase = "open" THEN "done" ELSE venue[o].phase
           w == [venue[o] EXCEPT !.deleting = FALSE, !.phase = phase]
<1>1. venue[o] \in VenueOrder /\ trouble \in Nat
  BY AtVenue
<1>2. venue' = [venue EXCEPT ![o] = w]
  BY <1>1 DEF CancelArrives, RestingInv, TypeOK, Rows
<1>3. w \in VenueOrder /\ w.phase = phase /\ w.filled = venue[o].filled
  BY <1>1 DEF VenueOrder
<1> HIDE DEF w
<1>4. QED
  BY <1>1, <1>2, <1>3, EndsAtVenue DEF CancelArrives

LEMMA CancelLostStep ==
  ASSUME RestingInv, NEW o \in Rows, CancelLost(o)
  PROVE  RestingInv'
<1> DEFINE w == [venue[o] EXCEPT !.deleting = FALSE]
<1>1. venue[o] \in VenueOrder /\ trouble' \in Nat
  BY AtVenue DEF CancelLost, Trouble
<1>2. venue' = [venue EXCEPT ![o] = w]
  BY DEF CancelLost
<1>3. w \in VenueOrder /\ w.phase = venue[o].phase /\ w.filled = venue[o].filled
  BY <1>1 DEF VenueOrder
<1> HIDE DEF w
<1>4. QED
  BY <1>1, <1>2, <1>3, EndsAtVenue DEF CancelLost

LEMMA ExpireStep ==
  ASSUME RestingInv, NEW o \in Rows, Expire(o)
  PROVE  RestingInv'
<1> DEFINE w == [venue[o] EXCEPT !.phase = "done"]
<1>1. venue[o] \in VenueOrder /\ trouble' \in Nat /\ venue[o].phase = "open"
  BY AtVenue DEF Expire
<1>2. venue' = [venue EXCEPT ![o] = w]
  BY DEF Expire
<1>3. w \in VenueOrder /\ w.phase = "done" /\ w.filled = venue[o].filled
  BY <1>1 DEF VenueOrder
<1> HIDE DEF w
<1>4. QED
  BY <1>1, <1>2, <1>3, EndsAtVenue DEF Expire

-----------------------------------------------------------------------------
(* The actions: the close, operators, restarts                             *)

LEMMA FlagTurn ==
  ASSUME RestingInv, UNCHANGED <<journal, thread, venue, position>>, trouble' \in Nat,
         control' \in Control, control.revision <= control'.revision,
         profit' \in BOOLEAN, prepared' \in BOOLEAN, closed' \in BOOLEAN,
         Prepared'
  PROVE  RestingInv'
<1>1. journal' = journal /\ thread' = thread /\ venue' = venue /\ position' = position
  OBVIOUS
<1>2. TypeOK'
  BY <1>1 DEF RestingInv, TypeOK, Control
<1>3. SlotExclusive' /\ RowsTrue' /\ OneUnresolved' /\ Alone'
  BY <1>1 DEF RestingInv, SlotExclusive, InSlot, RowsTrue, Rows, OneUnresolved, Unresolved, Alone
<1>4. Covered' /\ ThreadsTrue'
  BY <1>1 DEF RestingInv, Covered, AtExchange, Rows, ThreadsTrue
<1>5. Revisions'
  <2> SUFFICES ASSUME NEW t \in Threads PROVE thread'[t].revision <= control'.revision
    BY DEF Revisions
  <2>1. thread[t].revision \in Nat /\ control.revision \in Nat /\ control'.revision \in Nat
        /\ thread[t].revision <= control.revision
    BY RestingTypes, ControlOf DEF RestingInv, Revisions, Thread, Control
  <2>2. QED
    BY <1>1, <2>1
<1>6. QED
  BY <1>2, <1>3, <1>4, <1>5 DEF RestingInv

\* The promise of a prepared shutdown stands while nobody enables the market.
LEMMA PromiseKept ==
  ASSUME RestingInv, UNCHANGED <<journal, thread, venue, position>>,
         control' \in Control, control.revision <= control'.revision,
         prepared' => prepared /\ (control.paused => control'.paused),
         closed => closed'
  PROVE  Prepared'
<1> SUFFICES ASSUME prepared' PROVE Prepared'
  BY DEF Prepared
<1>1. prepared /\ (control.paused => control'.paused)
  OBVIOUS
<1>2. journal' = journal /\ thread' = thread /\ venue' = venue
  OBVIOUS
<1>3. \A o \in Offers' : ~AtExchange(o)'
  BY <1>1, <1>2 DEF RestingInv, Prepared, Offers, Rows, AtExchange
<1>4. ASSUME NEW t \in Threads, thread'[t].pc \in Ahead, thread'[t].row.kind = "offer"
      PROVE  Fenced(t)'
  <2>1. thread[t].revision \in Nat /\ control.revision \in Nat /\ control'.revision \in Nat
    BY RestingTypes, ControlOf DEF RestingInv, Thread, Control
  <2>2. Fenced(t)
    BY <1>1, <1>2, <1>4 DEF RestingInv, Prepared
  <2>3. thread[t].revision < control'.revision \/ control'.paused \/ closed'
    BY <1>1, <2>1, <2>2 DEF Fenced
  <2>4. QED
    BY <1>2, <2>3 DEF Fenced
<1>5. Sold => Sold'
  BY <1>2 DEF Sold, Filled, BotRows, Rows
<1>6. control'.paused \/ closed' \/ Sold'
  BY <1>1, <1>5 DEF RestingInv, Prepared
<1>7. QED
  BY <1>3, <1>4, <1>6 DEF Prepared

LEMMA DetectStopStep == ASSUME RestingInv, DetectStop PROVE RestingInv'
<1>1. /\ UNCHANGED <<journal, thread, venue, position>> /\ closed' = closed
      /\ profit' = profit /\ prepared' = prepared /\ trouble' = trouble
      /\ control' = [control EXCEPT !.exit = "stop"]
  BY DEF DetectStop, operator
<1>2. control \in Control /\ control.revision \in Nat
  BY ControlOf DEF RestingInv
<1>3. [control EXCEPT !.exit = "stop"] \in Control
      /\ [control EXCEPT !.exit = "stop"].revision = control.revision
      /\ (control.paused => [control EXCEPT !.exit = "stop"].paused)
  BY <1>2 DEF Control, Exits
<1>4. control' \in Control /\ control.revision <= control'.revision /\ (control.paused => control'.paused)
  BY <1>1, <1>2, <1>3
<1>5. Prepared'
  BY <1>1, <1>4, PromiseKept
<1>6. profit' \in BOOLEAN /\ prepared' \in BOOLEAN /\ closed' \in BOOLEAN /\ trouble' \in Nat
  BY <1>1 DEF RestingInv, TypeOK
<1>7. QED
  BY <1>1, <1>4, <1>5, <1>6, FlagTurn

LEMMA CloseStep == ASSUME RestingInv, Close PROVE RestingInv'
<1>1. /\ UNCHANGED <<journal, thread, venue, position>> /\ closed'
      /\ profit' = profit /\ prepared' = prepared /\ trouble' = trouble /\ control' = control
      /\ closed' \in BOOLEAN
  BY DEF Close, operator
<1>2. control' \in Control /\ control.revision <= control'.revision
  BY <1>1, ControlOf DEF RestingInv
<1>3. Prepared'
  BY <1>1, <1>2, PromiseKept
<1>4. profit' \in BOOLEAN /\ prepared' \in BOOLEAN /\ trouble' \in Nat
  BY <1>1 DEF RestingInv, TypeOK
<1>5. QED
  BY <1>1, <1>2, <1>3, <1>4, FlagTurn

LEMMA NextRevision ==
  ASSUME NEW c \in Control, NEW p \in BOOLEAN
  PROVE  LET d == [c EXCEPT !.revision = c.revision + 1, !.paused = p] IN
         d \in Control /\ d.revision = c.revision + 1 /\ (d.paused <=> p) /\ c.revision <= d.revision
<1> DEFINE next == c.revision + 1
           d == [c EXCEPT !.revision = next, !.paused = p]
<1>1. next \in Nat /\ c.revision <= next
  BY DEF Control
<1> HIDE DEF next
<1>2. d \in Control /\ d.revision = next
  BY <1>1 DEF Control
<1>3. d.paused <=> p
  BY DEF Control
<1>4. QED
  BY <1>1, <1>2, <1>3 DEF next

LEMMA ConfigureStep ==
  ASSUME RestingInv, NEW on \in BOOLEAN, Configure(on)
  PROVE  RestingInv'
<1> DEFINE p == control.paused /\ ~on
           c == [control EXCEPT !.revision = control.revision + 1, !.paused = p]
<1>1. /\ control' = c /\ prepared' = (prepared /\ ~on)
      /\ UNCHANGED <<journal, thread, venue, position, closed, profit>> /\ trouble' \in Nat
  BY DEF Configure, Trouble, RestingInv, TypeOK
<1>2. control \in Control /\ p \in BOOLEAN
  BY ControlOf DEF RestingInv
<1>3. prepared' => ~on /\ prepared
  BY <1>1
<1>4. p <=> control.paused /\ ~on
  OBVIOUS
<1> HIDE DEF p
<1>5. c \in Control /\ control.revision <= c.revision /\ (c.paused <=> p)
  BY <1>2, NextRevision
<1>6. /\ control' \in Control /\ control.revision <= control'.revision
      /\ prepared' => prepared /\ (control.paused => control'.paused)
      /\ closed => closed'
  BY <1>1, <1>3, <1>4, <1>5
<1>7. Prepared'
  BY <1>1, <1>6, PromiseKept
<1>8. profit' \in BOOLEAN /\ prepared' \in BOOLEAN /\ closed' \in BOOLEAN
  BY <1>1 DEF RestingInv, TypeOK
<1>9. QED
  BY <1>1, <1>6, <1>7, <1>8, FlagTurn

LEMMA TakeOverStep == ASSUME RestingInv, TakeOver PROVE RestingInv'
<1> DEFINE c == [control EXCEPT !.paused = TRUE, !.revision = control.revision + 1]
<1>1. control \in Control
  BY ControlOf DEF RestingInv
<1>2. /\ control' = c
      /\ UNCHANGED <<journal, thread, venue, position, closed, profit, prepared>> /\ trouble' \in Nat
  BY DEF TakeOver, Paused, Trouble, RestingInv, TypeOK
<1>3. c \in Control /\ control.revision <= c.revision /\ c.paused
  BY <1>1, PausedControl
<1> HIDE DEF c
<1>4. /\ control' \in Control /\ control.revision <= control'.revision
      /\ prepared' => prepared /\ (control.paused => control'.paused)
      /\ closed => closed'
  BY <1>2, <1>3
<1>5. Prepared'
  BY <1>2, <1>4, PromiseKept
<1>6. profit' \in BOOLEAN /\ prepared' \in BOOLEAN /\ closed' \in BOOLEAN
  BY <1>2 DEF RestingInv, TypeOK
<1>7. QED
  BY <1>2, <1>4, <1>5, <1>6, FlagTurn

\* Safe shutdown finds no offer open, nobody in the slot, and raises the
\* revision over whatever was decided before.
LEMMA PrepareShutdownStep == ASSUME RestingInv, PrepareShutdown PROVE RestingInv'
<1> DEFINE c == [control EXCEPT !.revision = control.revision + 1]
<1>1. /\ control' = c /\ prepared' = TRUE /\ SlotFree
      /\ \A o \in Offers : ~Unresolved(o)
      /\ ~control.paused /\ ~closed => Held <= 0
      /\ UNCHANGED <<journal, thread, venue, position, closed, profit>> /\ trouble' \in Nat
  BY DEF PrepareShutdown, Trouble, RestingInv, TypeOK
<1>2. control \in Control /\ control.revision \in Nat
  BY ControlOf DEF RestingInv
<1>3. c \in Control /\ c.revision = control.revision + 1 /\ (control.paused => c.paused)
  BY <1>2 DEF Control
<1> HIDE DEF c
<1>4. control' \in Control /\ control.revision < control'.revision /\ control.revision <= control'.revision
      /\ (control.paused => control'.paused)
  BY <1>1, <1>2, <1>3
<1>5. Prepared'
  <2>1. \A o \in Offers' : ~AtExchange(o)'
    <3>1. \A o \in Offers : ~AtExchange(o)
      BY <1>1, AtExchangeUnresolved DEF RestingInv, Offers
    <3>2. QED
      BY <1>1, <3>1 DEF Offers, Rows, AtExchange
  <2>2. \A t \in Threads : Fenced(t)'
    <3> TAKE t \in Threads
    <3>1. thread[t].revision \in Nat /\ control'.revision \in Nat /\ thread[t].revision <= control.revision
      BY <1>4, RestingTypes DEF RestingInv, Revisions, Thread, Control
    <3>2. thread'[t].revision < control'.revision
      BY <1>1, <1>2, <1>4, <3>1
    <3>3. QED
      BY <3>2 DEF Fenced
  <2>3. control'.paused \/ closed' \/ Sold'
    <3>1. control.paused \/ closed \/ Sold
      BY <1>1, HeldBounds DEF RestingInv
    <3>2. Sold => Sold'
      BY <1>1 DEF Sold, Filled, BotRows, Rows
    <3>3. QED
      BY <1>1, <1>4, <3>1, <3>2
  <2>4. QED
    BY <2>1, <2>2, <2>3 DEF Prepared
<1>6. profit' \in BOOLEAN /\ prepared' \in BOOLEAN /\ closed' \in BOOLEAN
  BY <1>1 DEF RestingInv, TypeOK
<1>7. QED
  BY <1>1, <1>4, <1>5, <1>6, FlagTurn

LEMMA CrashStep == ASSUME RestingInv, Crash PROVE RestingInv'
<1>1. /\ UNCHANGED <<control, closed, venue, position, prepared>> /\ profit' \in BOOLEAN
      /\ thread' = [t \in Threads |-> Idle] /\ trouble' \in Nat
  BY DEF Crash, Trouble, RestingInv, TypeOK
<1>2. PICK S : journal' = [o \in Rows |-> IF \E t \in S : thread[t].order = o
                             THEN [journal[o] EXCEPT !.indexed = TRUE] ELSE journal[o]]
  BY DEF Crash
<1>3. \A o \in Rows :
        /\ [journal[o] EXCEPT !.indexed = TRUE] \in Row
        /\ [journal[o] EXCEPT !.indexed = TRUE].kind = journal[o].kind
        /\ [journal[o] EXCEPT !.indexed = TRUE].state = journal[o].state
        /\ [journal[o] EXCEPT !.indexed = TRUE].count = journal[o].count
        /\ [journal[o] EXCEPT !.indexed = TRUE].filled = journal[o].filled
        /\ [journal[o] EXCEPT !.indexed = TRUE].acked = journal[o].acked
  BY RestingTypes DEF RestingInv, Row
<1>4. \A o \in Rows :
        /\ journal'[o] \in Row
        /\ journal'[o].kind = journal[o].kind /\ journal'[o].state = journal[o].state
        /\ journal'[o].count = journal[o].count /\ journal'[o].filled = journal[o].filled
        /\ journal'[o].acked = journal[o].acked
  <2> TAKE o \in Rows
  <2>1. journal'[o] = [journal[o] EXCEPT !.indexed = TRUE] \/ journal'[o] = journal[o]
    BY <1>2
  <2>2. QED
    BY <1>3, <2>1, RestingTypes DEF RestingInv
<1>5. /\ journal' \in Seq(Row) /\ Len(journal') = Len(journal) /\ Rows' = Rows
  <2>1. Len(journal) \in Nat /\ DOMAIN journal' = 1..Len(journal)
    BY <1>2, RestingTypes DEF RestingInv, Rows
  <2>2. journal' \in [1..Len(journal) -> Row]
    BY <1>2, <1>4, <2>1 DEF Rows
  <2>3. QED
    BY <2>1, <2>2 DEF Rows
<1>6. \A t \in Threads : thread'[t] = Idle
  BY <1>1
<1>7. Idle \in Thread /\ Idle.pc = "idle" /\ Idle.revision = 0
  BY IdleOk
<1>8. TypeOK'
  BY <1>1, <1>5, <1>7 DEF RestingInv, TypeOK
<1>9. SlotExclusive' /\ Alone'
  BY <1>6, <1>7 DEF SlotExclusive, InSlot, SlotPlaces, Alone, Claimed
<1>10. RowsTrue'
  BY <1>1, <1>4, <1>5 DEF RestingInv, RowsTrue, RowOk
<1>11. OneUnresolved'
  BY <1>4, <1>5 DEF RestingInv, OneUnresolved, Unresolved
<1>12. Covered'
  BY <1>1, <1>4, <1>5, <1>6, <1>7 DEF RestingInv, Covered, AtExchange
<1>13. ThreadsTrue'
  BY <1>6, <1>7, IdleOk DEF ThreadsTrue, Aimless
<1>14. Prepared'
  <2> SUFFICES ASSUME prepared' PROVE Prepared'
    BY DEF Prepared
  <2>1. prepared /\ control' = control /\ closed' = closed
    BY <1>1
  <2>2. \A o \in Offers' : ~AtExchange(o)'
    BY <1>1, <1>4, <1>5, <2>1 DEF RestingInv, Prepared, Offers, AtExchange
  <2>3. \A t \in Threads : thread'[t].pc \notin Ahead
    BY <1>6, <1>7 DEF Ahead
  <2>4. Sold => Sold'
    <3>1. \A p \in Rows : journal'[p].kind = journal[p].kind /\ venue[p].filled <= venue'[p].filled
      BY <1>1, <1>4, RestingTypes DEF RestingInv, VenueOrder
    <3>2. Len(journal) <= Len(journal')
      BY <1>5, RestingTypes DEF RestingInv
    <3>3. QED
      BY <1>8, <3>1, <3>2, SoldStays DEF RestingInv
  <2>5. QED
    BY <2>1, <2>2, <2>3, <2>4 DEF RestingInv, Prepared
<1>15. Revisions'
  BY <1>1, <1>6, <1>7, ControlOf DEF RestingInv, Revisions
<1>16. QED
  BY <1>8, <1>9, <1>10, <1>11, <1>12, <1>13, <1>14, <1>15 DEF RestingInv

-----------------------------------------------------------------------------
(* The theorems                                                            *)

LEMMA InitHolds == Init => RestingInv
<1> SUFFICES ASSUME Init PROVE RestingInv
  OBVIOUS
<1>1. /\ journal = <<>> /\ venue = <<>> /\ Rows = {} /\ position = Size /\ prepared = FALSE
      /\ thread = [t \in Threads |-> Idle] /\ \A t \in Threads : thread[t] = Idle
  BY DEF Init, Rows
<1>2. Idle \in Thread /\ Idle.pc = "idle" /\ Idle.revision = 0
  BY IdleOk
<1>3. /\ control \in Control /\ control.revision = 1
      /\ profit \in BOOLEAN /\ closed \in BOOLEAN /\ trouble \in Nat
  BY DEF Init, Control, Exits
<1>4. TypeOK
  <2>1. /\ journal \in Seq(Row) /\ venue \in Seq(VenueOrder) /\ Len(venue) = Len(journal)
        /\ position \in Int
    BY <1>1, RestingAssumption
  <2>2. thread \in [Threads -> Thread]
    BY <1>1, <1>2
  <2>3. QED
    BY <1>1, <1>3, <2>1, <2>2 DEF TypeOK, Control
<1>5. SlotExclusive /\ Alone /\ RowsTrue /\ OneUnresolved
  BY <1>1, <1>2 DEF SlotExclusive, InSlot, SlotPlaces, Alone, Claimed, RowsTrue, OneUnresolved
<1>6. Covered
  BY <1>1, <1>2, RestingAssumption DEF Covered
<1>7. ThreadsTrue
  BY <1>1, <1>2, IdleOk DEF ThreadsTrue, Aimless
<1>8. Prepared /\ Revisions
  BY <1>1, <1>2, <1>3 DEF Prepared, Revisions
<1>9. QED
  BY <1>4, <1>5, <1>6, <1>7, <1>8 DEF RestingInv

LEMMA Stutter == RestingInv /\ UNCHANGED vars => RestingInv'
<1> SUFFICES ASSUME RestingInv, UNCHANGED vars PROVE RestingInv'
  OBVIOUS
<1>1. /\ UNCHANGED <<journal, thread, venue, position>> /\ control' = control /\ closed' = closed
      /\ profit' = profit /\ prepared' = prepared /\ trouble' = trouble
  BY DEF vars, operator
<1>2. /\ control' \in Control /\ control.revision <= control'.revision
      /\ profit' \in BOOLEAN /\ prepared' \in BOOLEAN /\ closed' \in BOOLEAN /\ trouble' \in Nat
  BY <1>1, ControlOf DEF RestingInv, TypeOK
<1>3. Prepared'
  BY <1>1, <1>2, PromiseKept
<1>4. QED
  BY <1>1, <1>2, <1>3, FlagTurn

LEMMA NextKeeps == RestingInv /\ [Next]_vars => RestingInv'
<1> SUFFICES ASSUME RestingInv, [Next]_vars PROVE RestingInv'
  OBVIOUS
<1>1. CASE UNCHANGED vars
  BY <1>1, Stutter
<1>2. ASSUME NEW bid \in Bids, Manage(bid) \/ Proceed(bid) PROVE RestingInv'
  BY <1>2, ManageStep, ProceedStep
<1>3. ASSUME NEW t \in Threads, AwaitEnds(t) \/ GetsSlot(t) PROVE RestingInv'
  <2>1. CASE AwaitEnds(t)
    BY <2>1, SizedStep, LeaveStep, DeleteAnsweredStep, AnswerStep, ReconcileStep, ReadHoldingsStep,
       PostStep, PreflightRejectsStep, AcknowledgedStep, RefusedStep, UnconfirmedStep DEF AwaitEnds
  <2>2. CASE GetsSlot(t)
    BY <2>2, ClaimStep, CancelBeginsStep DEF GetsSlot
  <2>3. QED
    BY <1>3, <2>1, <2>2
<1>4. ASSUME NEW o \in Rows, StartReconcile(o) PROVE RestingInv'
  BY <1>4, StartReconcileStep
<1>5. ASSUME NEW t \in Connections, NEW o \in Rows, StartCheck(t, o) PROVE RestingInv'
  BY <1>5, StartCheckStep
<1>6. ASSUME NEW t \in Connections, NEW n \in 1..Size, ManualSale(t, n) PROVE RestingInv'
  BY <1>6, ManualSaleStep
<1>7. ASSUME NEW o \in Rows, Arrive(o) \/ Match(o) \/ CancelArrives(o) \/ CancelLost(o) \/ Expire(o)
      PROVE  RestingInv'
  BY <1>7, ArriveStep, MatchStep, CancelArrivesStep, CancelLostStep, ExpireStep
<1>8. ASSUME NEW on \in BOOLEAN, Configure(on) PROVE RestingInv'
  BY <1>8, ConfigureStep
<1>9. CASE DetectStop \/ Close \/ TakeOver \/ PrepareShutdown \/ Crash
  BY <1>9, DetectStopStep, CloseStep, TakeOverStep, PrepareShutdownStep, CrashStep
<1>10. CASE Next
  BY <1>10, <1>2, <1>3, <1>4, <1>5, <1>6, <1>7, <1>8, <1>9 DEF Next
<1>11. QED
  BY <1>1, <1>10

\* The invariant above is one of the specification: what the journal, the
\* exchange and the coroutines' own copies know of each other.
THEOREM RestingInvariant == Spec => []RestingInv
<1>1. QED
  BY InitHolds, NextKeeps, PTL DEF Spec

\* Every sale lying at the exchange fits the position it sells
\* (manual_trading.py:597-630): at most one does, and it was sized by holdings
\* nothing has touched since.
THEOREM OffersAreCovered == Spec => []OffersCovered
<1>1. RestingInv => OffersCovered
  <2> SUFFICES ASSUME RestingInv PROVE OffersCovered
    OBVIOUS
  <2> DEFINE f == [o \in Rows |-> [filled |-> journal[o].count - venue[o].filled]]
             S == {o \in Rows : AtExchange(o)}
  <2>1. position \in Nat
    BY DEF RestingInv, TypeOK, Covered
  <2>2. \A o \in S : f[o].filled = journal[o].count - venue[o].filled
    OBVIOUS
  <2>3. \A o \in S : journal[o].count - venue[o].filled \in Int
                     /\ journal[o].count - venue[o].filled <= position
    BY RestingTypes DEF RestingInv, Covered, Row, VenueOrder
  <2>4. \A o, p \in S : o = p
    BY OneAtExchange
  <2> HIDE DEF f, S
  <2>5. \A o \in S : f[o].filled \in Int /\ f[o].filled <= position
    BY <2>2, <2>3
  <2>6. Filled(f, S) <= position
    BY <2>1, <2>4, <2>5, FilledOfOne
  <2>7. QED
    BY <2>6 DEF OffersCovered, f, S
<1>2. QED
  BY <1>1, RestingInvariant, PTL

\* A resolved row has every fill of its order, which is done for good
\* (save and reconcile, manual_trading.py:243-258, 557-590).
THEOREM RemaindersAreTrue == Spec => []RemainderIsTrue
<1>1. RestingInv => RemainderIsTrue
  BY ResolvedIsExact DEF RestingInv, RemainderIsTrue
<1>2. QED
  BY <1>1, RestingInvariant, PTL

\* After a granted shutdown no offer lies at the exchange
\* (docs/LIVE_AUTOMATION.md:97), whatever was decided or asked for before.
THEOREM NoOfferStays == Spec => []NoOfferAfterShutdown
<1>1. RestingInv => NoOfferAfterShutdown
  BY DEF RestingInv, Prepared, NoOfferAfterShutdown
<1>2. QED
  BY <1>1, RestingInvariant, PTL
================================================================================
