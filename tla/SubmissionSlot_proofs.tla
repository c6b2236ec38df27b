-------------------------- MODULE SubmissionSlot_proofs --------------------------
(***************************************************************************)
(* Proofs about submission_slot, for any finite set of stops and any sets  *)
(* of buys and of other requests.                                          *)
(***************************************************************************)
EXTENDS SubmissionSlot, FiniteSetTheorems, TLAPS

ActiveStops == {s \in Stops : pc[s] # "outside"}

(* What counting in and out does to the set the counter stands for.        *)
LEMMA ActiveStopsFinite ==
  ASSUME SlotAssumption
  PROVE  IsFiniteSet(ActiveStops) /\ Cardinality(ActiveStops) \in Nat
BY FS_Subset, FS_CardinalityType DEF ActiveStops, SlotAssumption

LEMMA QueueShrinks ==
  ASSUME NEW S, NEW q \in Seq(S), NEW i \in 1..Len(q)
  PROVE  RemoveAt(q, i) \in Seq(S)
BY DEF RemoveAt

(* An acquire() leaves its caller inside, waiting or (a buy that found a   *)
(* pending stop) draining, and touches no other request.                   *)
LEMMA AcquireEffect ==
  ASSUME SlotAssumption, TypeOK, NEW r \in Requests, Acquire(r)
  PROVE  /\ pc' \in [Requests -> Places] /\ locked' \in BOOLEAN /\ queue' \in Seq(Requests)
         /\ \E p \in {"inside", "waiting", "draining"} :
              /\ pc' = [pc EXCEPT ![r] = p]
              /\ p = "inside" => ~locked /\ locked'
              /\ p # "inside" => locked' = locked
              /\ p = "draining" => r \in Buys /\ pendingStops > 0
              /\ p = "inside" => ~(r \in Buys /\ pendingStops > 0)
<1>1. CASE ~locked /\ queue = <<>> /\ Granted(r) /\ UNCHANGED queue
  BY <1>1 DEF Granted, TypeOK, Places
<1>2. CASE /\ locked \/ queue # <<>>
           /\ pc' = [pc EXCEPT ![r] = "waiting"]
           /\ queue' = Append(queue, r)
           /\ UNCHANGED locked
  BY <1>2 DEF TypeOK, Places
<1>3. QED
  BY <1>1, <1>2 DEF Acquire

(* The finally clause keeps the counter and the event right.               *)
LEMMA UnwindEffect ==
  ASSUME SlotAssumption, SlotInv, NEW r \in Requests, pc[r] # "outside", Unwind(r)
  PROVE  /\ pc' \in [Requests -> Places]
         /\ pendingStops' \in Nat /\ stopsDrained' \in BOOLEAN
         /\ pendingStops' = Cardinality(ActiveStops')
         /\ stopsDrained' <=> pendingStops' = 0
         /\ \A q \in Requests : pc'[q] = "draining" => q \in Buys /\ ~stopsDrained'
         /\ \A q \in Requests : pc'[q] = "resuming" => q \in Buys
         /\ pc'[r] = "outside"
         /\ \A q \in Requests \ {r} : pc'[q] = "inside" <=> pc[q] = "inside"
<1> USE DEF SlotInv, TypeOK, Consistent, NoLostWakeup, Unwind, LastStop
<1>0. pendingStops = Cardinality(ActiveStops) /\ IsFiniteSet(ActiveStops)
  BY ActiveStopsFinite DEF ActiveStops
<1>1. /\ pc' \in [Requests -> Places]
      /\ pc'[r] = "outside"
      /\ \A q \in Requests \ {r} : pc'[q] = "inside" <=> pc[q] = "inside"
      /\ \A q \in Requests \ {r} : pc'[q] = "outside" <=> pc[q] = "outside"
  BY DEF Places
<1>2. CASE r \in Stops
  <2>1. ActiveStops' = ActiveStops \ {r} /\ r \in ActiveStops
    BY <1>1, <1>2 DEF ActiveStops, Requests
  <2>2. Cardinality(ActiveStops') = Cardinality(ActiveStops) - 1
    BY <1>0, <2>1, FS_RemoveElement
  <2>3. pendingStops \in Nat \ {0}
    BY <1>0, <2>1, FS_EmptySet
  <2>4. pendingStops' = pendingStops - 1
    BY <1>2
  <2>5. stopsDrained' <=> (stopsDrained \/ pendingStops = 1)
    BY <1>2, Zenon
  <2>6. stopsDrained' <=> pendingStops' = 0
    BY <2>3, <2>4, <2>5
  <2>7. \A q \in Requests : pc'[q] = "draining" => q \in Buys /\ ~stopsDrained'
    BY <1>1, <1>2, <2>3, <2>5
  <2>8. \A q \in Requests : pc'[q] = "resuming" => q \in Buys
    BY <1>1
  <2>9. QED
    BY <1>0, <1>1, <1>2, <2>2, <2>3, <2>4, <2>6, <2>7, <2>8
<1>3. CASE r \notin Stops
  <2>1. ActiveStops' = ActiveStops
    BY <1>1, <1>3 DEF ActiveStops, Requests
  <2>2. pendingStops' = pendingStops /\ stopsDrained' = stopsDrained
    BY <1>3
  <2>3. QED
    BY <1>0, <1>1, <1>3, <2>1, <2>2
<1>4. QED
  BY <1>2, <1>3

(* At every step: only one request changes where it is, or a finally       *)
(* clause runs; what enters the slot finds it empty.                       *)
LEMMA CallStep ==
  ASSUME SlotAssumption, SlotInv, NEW r \in Requests, Call(r)
  PROVE  SlotInv'
<1> USE DEF SlotInv, TypeOK, Consistent, NoLostWakeup
<1>0. pc[r] = "outside" /\ Acquire(r)
  BY DEF Call
<1>1. PICK p \in {"inside", "waiting", "draining"} :
        /\ pc' = [pc EXCEPT ![r] = p]
        /\ p = "inside" => ~locked /\ locked'
        /\ p # "inside" => locked' = locked
        /\ p = "draining" => r \in Buys /\ pendingStops > 0
        /\ p = "inside" => ~(r \in Buys /\ pendingStops > 0)
  BY <1>0, AcquireEffect
<1>2. pc' \in [Requests -> Places] /\ locked' \in BOOLEAN /\ queue' \in Seq(Requests)
  BY <1>0, AcquireEffect
<1>3. /\ pendingStops' \in Nat /\ stopsDrained' \in BOOLEAN
      /\ pendingStops' = Cardinality(ActiveStops')
      /\ stopsDrained' <=> pendingStops' = 0
      /\ r \notin Stops => UNCHANGED <<pendingStops, stopsDrained>>
      /\ r \in Stops => ~stopsDrained'
  <2>1. IsFiniteSet(ActiveStops) /\ pendingStops = Cardinality(ActiveStops)
    BY ActiveStopsFinite DEF ActiveStops
  <2>2. CASE r \in Stops
    <3>1. ActiveStops' = ActiveStops \cup {r} /\ r \notin ActiveStops
      BY <1>0, <1>1, <2>2 DEF ActiveStops, Requests
    <3>2. Cardinality(ActiveStops') = pendingStops + 1
      BY <2>1, <3>1, FS_AddElement
    <3>3. pendingStops' = pendingStops + 1 /\ stopsDrained' = FALSE
      BY <2>2 DEF Call
    <3>4. pendingStops' \in Nat /\ pendingStops' # 0
      BY <3>3
    <3>5. stopsDrained' \in BOOLEAN /\ ~stopsDrained'
      BY <3>3, Zenon
    <3>6. QED
      BY <2>2, <3>2, <3>3, <3>4, <3>5, Zenon
  <2>3. CASE r \notin Stops
    <3>1. ActiveStops' = ActiveStops
      BY <1>0, <1>1, <2>3 DEF ActiveStops, Requests
    <3>2. pendingStops' = pendingStops /\ stopsDrained' = stopsDrained
      BY <2>3 DEF Call
    <3>3. QED
      BY <2>1, <2>3, <3>1, <3>2
  <2>4. QED
    BY <2>2, <2>3
<1>4. TypeOK'
  BY <1>2, <1>3
<1>5. /\ \A x, q \in Inside' : x = q
      /\ locked' <=> Inside' # {}
  BY <1>0, <1>1 DEF Inside
<1>6. NoLostWakeup'
  <2>1. ASSUME NEW q \in Requests, pc'[q] = "draining"
        PROVE  q \in Buys /\ ~stopsDrained'
    <3>1. CASE q = r
      BY <1>1, <1>3, <2>1, <3>1 DEF SlotAssumption
    <3>2. CASE q # r
      BY <1>1, <1>3, <2>1, <3>2
    <3>3. QED
      BY <3>1, <3>2
  <2>2. QED
    BY <2>1
<1>7. \A q \in Requests : pc'[q] = "resuming" => q \in Buys
  BY <1>0, <1>1
<1>8. QED
  BY <1>3, <1>4, <1>5, <1>6, <1>7 DEF ActiveStops

LEMMA ResumeStep ==
  ASSUME SlotAssumption, SlotInv, NEW r \in Requests,
         \/ Resume(r)
         \/ Woken(r)
  PROVE  SlotInv'
<1> USE DEF SlotInv, TypeOK, Consistent, NoLostWakeup
<1>1. PICK p \in {"inside", "waiting", "draining"} :
        /\ pc' = [pc EXCEPT ![r] = p]
        /\ p = "inside" => ~locked /\ locked'
        /\ p # "inside" => locked' = locked
        /\ p = "draining" => r \in Buys /\ pendingStops > 0
        /\ p = "inside" => ~(r \in Buys /\ pendingStops > 0)
  <2>1. CASE Resume(r)
    BY <2>1, AcquireEffect DEF Resume
  <2>2. CASE Woken(r)
    BY <2>2 DEF Woken, Granted
  <2>3. QED
    BY <2>1, <2>2
<1>2. pc' \in [Requests -> Places] /\ locked' \in BOOLEAN /\ queue' \in Seq(Requests)
  <2>1. CASE Resume(r)
    BY <2>1, AcquireEffect DEF Resume
  <2>2. CASE Woken(r) /\ queue # <<>>
    <3>1. Tail(queue) \in Seq(Requests)
      BY <2>2
    <3>2. QED
      BY <2>2, <3>1 DEF Woken, Granted, Places
  <2>3. CASE Woken(r) /\ queue = <<>>
    <3>1. Tail(queue) = queue
      BY <2>3
    <3>2. QED
      BY <2>3, <3>1 DEF Woken, Granted, Places
  <2>4. QED
    BY <2>1, <2>2, <2>3
<1>3. pc[r] \in {"resuming", "waiting"} /\ UNCHANGED <<pendingStops, stopsDrained>>
  BY DEF Resume, Woken
<1>4. ActiveStops' = ActiveStops
  BY <1>1, <1>3 DEF ActiveStops, Requests
<1>5. TypeOK'
  BY <1>2, <1>3
<1>6. /\ \A x, q \in Inside' : x = q
      /\ locked' <=> Inside' # {}
  BY <1>1, <1>3 DEF Inside
<1>7. NoLostWakeup'
  BY <1>1, <1>3
<1>8. \A q \in Requests : pc'[q] = "resuming" => q \in Buys
  BY <1>1
<1>9. QED
  BY <1>3, <1>4, <1>5, <1>6, <1>7, <1>8 DEF ActiveStops

LEMMA LeaveStep ==
  ASSUME SlotAssumption, SlotInv, NEW r \in Requests,
         \/ Exit(r)
         \/ CancelWaiting(r)
         \/ CancelDraining(r)
  PROVE  SlotInv'
<1> USE DEF SlotInv, TypeOK
<1>1. pc[r] # "outside" /\ Unwind(r)
  BY DEF Exit, CancelWaiting, CancelDraining
<1>2. /\ pc' \in [Requests -> Places]
      /\ pendingStops' \in Nat /\ stopsDrained' \in BOOLEAN
      /\ pendingStops' = Cardinality(ActiveStops')
      /\ stopsDrained' <=> pendingStops' = 0
      /\ \A q \in Requests : pc'[q] = "draining" => q \in Buys /\ ~stopsDrained'
      /\ \A q \in Requests : pc'[q] = "resuming" => q \in Buys
      /\ pc'[r] = "outside"
      /\ \A q \in Requests \ {r} : pc'[q] = "inside" <=> pc[q] = "inside"
  BY <1>1, UnwindEffect
<1>3. queue' \in Seq(Requests)
  BY QueueShrinks DEF Exit, CancelWaiting, CancelDraining
<1>4. /\ locked' \in BOOLEAN
      /\ \A x, q \in Inside' : x = q
      /\ locked' <=> Inside' # {}
  <2>1. CASE Exit(r)
    <3>1. Inside = {r}
      BY <2>1 DEF Exit, Consistent, Inside
    <3>2. Inside' = {}
      BY <1>2, <3>1 DEF Inside
    <3>3. QED
      BY <2>1, <3>2 DEF Exit
  <2>2. CASE CancelWaiting(r) \/ CancelDraining(r)
    <3>1. Inside' = Inside /\ locked' = locked
      BY <1>2, <2>2 DEF Inside, CancelWaiting, CancelDraining
    <3>2. QED
      BY <3>1 DEF Consistent
  <2>3. QED
    BY <2>1, <2>2
<1>5. QED
  BY <1>2, <1>3, <1>4 DEF Consistent, NoLostWakeup, ActiveStops

(* submission_slot keeps its counter, event and lock right, whatever the   *)
(* order of calls, failures and cancellations.                             *)
THEOREM SlotInvariant == Spec => []SlotInv
<1>1. Init => SlotInv
  <2> SUFFICES ASSUME Init PROVE SlotInv
    OBVIOUS
  <2>1. ActiveStops = {}
    BY DEF Init, ActiveStops, Requests
  <2>2. pendingStops = Cardinality(ActiveStops)
    BY <2>1, FS_EmptySet DEF Init
  <2>3. TypeOK
    <3>1. locked \in BOOLEAN /\ stopsDrained \in BOOLEAN
      BY Zenon DEF Init
    <3>2. pc \in [Requests -> Places]
      BY DEF Init, Places
    <3>3. QED
      BY <3>1, <3>2 DEF Init, TypeOK
  <2>4. Inside = {}
    BY DEF Init, Inside, Requests
  <2>5. stopsDrained <=> pendingStops = 0
    BY DEF Init
  <2>6. Consistent
    BY <2>2, <2>4, <2>5 DEF Init, Consistent, ActiveStops
  <2>7. QED
    BY <2>3, <2>6 DEF Init, SlotInv, NoLostWakeup
<1>2. SlotInv /\ [Next]_vars => SlotInv'
  <2> SUFFICES ASSUME SlotInv, [Next]_vars PROVE SlotInv'
    OBVIOUS
  <2>1. CASE UNCHANGED vars
    BY <2>1 DEF vars, SlotInv, TypeOK, Consistent, NoLostWakeup, Inside
  <2>2. ASSUME NEW r \in Requests, Call(r) PROVE SlotInv'
    BY <2>2, SlotAssumption, CallStep
  <2>3. ASSUME NEW r \in Requests, Resume(r) \/ Woken(r) PROVE SlotInv'
    BY <2>3, SlotAssumption, ResumeStep
  <2>4. ASSUME NEW r \in Requests, Exit(r) \/ CancelWaiting(r) \/ CancelDraining(r)
        PROVE  SlotInv'
    BY <2>4, SlotAssumption, LeaveStep
  <2>5. QED
    BY <2>1, <2>2, <2>3, <2>4 DEF Next
<1>3. QED
  BY <1>1, <1>2, PTL DEF Spec

(* What the checks call the invariants of submission_slot hold for any     *)
(* number of requests.                                                     *)
COROLLARY SlotConsistent == Spec => [](Consistent /\ NoLostWakeup)
<1>1. SlotInv => Consistent /\ NoLostWakeup
  BY DEF SlotInv
<1>2. QED
  BY <1>1, SlotInvariant, PTL

(* No buy gets inside while a stop is between its call and its end.        *)
THEOREM StopsFirst == Spec => StopsPrecedeBuys
<1>1. SlotInv /\ [Next]_vars =>
        [(\E s \in Stops : pc[s] # "outside" /\ pc'[s] # "outside")
           => \A b \in Buys : pc'[b] = "inside" => pc[b] = "inside"]_vars
  <2> SUFFICES ASSUME SlotInv, Next,
                      NEW s \in Stops, pc[s] # "outside", pc'[s] # "outside",
                      NEW b \in Buys, pc'[b] = "inside", pc[b] # "inside"
               PROVE  FALSE
    BY DEF vars
  <2>1. pendingStops > 0
    <3>1. s \in ActiveStops
      BY DEF ActiveStops
    <3>2. Cardinality(ActiveStops) # 0
      BY <3>1, ActiveStopsFinite, SlotAssumption, FS_EmptySet
    <3>3. QED
      BY <3>2 DEF SlotInv, TypeOK, Consistent, ActiveStops
  <2>2. ASSUME NEW r \in Requests, Acquire(r) \/ Granted(r) PROVE FALSE
    <3>1. r = b
      BY <2>2 DEF Acquire, Granted, SlotInv, TypeOK, Requests
    <3>2. QED
      BY <2>1, <2>2, <3>1 DEF Acquire, Granted, SlotInv, TypeOK, Requests
  <2>3. ASSUME NEW r \in Requests, Unwind(r) PROVE FALSE
    BY <2>3 DEF Unwind, Requests
  <2>4. QED
    BY <2>2, <2>3 DEF Next, Call, Resume, Woken, Exit, CancelWaiting, CancelDraining
<1>2. QED
  BY <1>1, SlotInvariant, PTL DEF Spec, StopsPrecedeBuys

-----------------------------------------------------------------------------
(* The refinement.  The holder is the one request inside.                  *)
LEMMA HolderBar ==
  ASSUME SlotInv
  PROVE  /\ \A r \in Requests : pc[r] = "inside" => holderBar = r
         /\ (\A r \in Requests : pc[r] # "inside") => holderBar = Nobody
BY DEF SlotInv, Consistent, Inside, holderBar

LEMMA StopWantedBar ==
  ASSUME SlotAssumption, SlotInv
  PROVE  Lock!StopWanted => pendingStops > 0
<1> SUFFICES ASSUME NEW s \in Requests, wantBar[s] = "stop" PROVE pendingStops > 0
  BY DEF Lock!StopWanted
<1>1. s \in ActiveStops
  BY DEF wantBar, KindOf, ActiveStops
<1>2. Cardinality(ActiveStops) # 0
  BY <1>1, ActiveStopsFinite, FS_EmptySet
<1>3. QED
  BY <1>2 DEF SlotInv, TypeOK, Consistent, ActiveStops

(* Who wants the slot changes only for the request that takes the step.    *)
LEMMA CallRefines ==
  ASSUME SlotAssumption, SlotInv, SlotInv', NEW r \in Requests, Call(r)
  PROVE  Lock!Request(r, KindOf(r)) \/ Lock!EnterAtOnce(r, KindOf(r))
<1> USE DEF SlotInv, TypeOK
<1>0. pc[r] = "outside" /\ Acquire(r)
  BY DEF Call
<1>1. PICK p \in {"inside", "waiting", "draining"} :
        /\ pc' = [pc EXCEPT ![r] = p]
        /\ p = "inside" => ~locked /\ locked'
        /\ p # "inside" => locked' = locked
        /\ p = "draining" => r \in Buys /\ pendingStops > 0
        /\ p = "inside" => ~(r \in Buys /\ pendingStops > 0)
  BY <1>0, AcquireEffect
<1>2. wantBar[r] = "none" /\ wantBar' = [wantBar EXCEPT ![r] = KindOf(r)]
  BY <1>0, <1>1 DEF wantBar, KindOf
<1>3. CASE p = "inside"
  <2>1. \A q \in Requests : pc[q] # "inside"
    BY <1>1, <1>3 DEF Consistent, Inside
  <2>2. holderBar = Nobody
    BY <2>1, HolderBar
  <2>3. \A q \in Requests : pc'[q] = "inside" <=> q = r
    BY <1>1, <1>3, <2>1
  <2>4. holderBar' = r
    BY <2>3 DEF holderBar, Inside
  <2>5. KindOf(r) = "buy" => ~Lock!StopWanted
    BY <1>1, <1>3, StopWantedBar DEF KindOf, Requests
  <2>6. QED
    BY <1>2, <2>2, <2>4, <2>5 DEF Lock!EnterAtOnce
<1>4. CASE p # "inside"
  <2>1. \A q \in Requests : pc'[q] = "inside" <=> pc[q] = "inside"
    BY <1>0, <1>1, <1>4
  <2>2. Inside' = Inside
    BY <2>1 DEF Inside
  <2>3. holderBar' = holderBar
    BY <2>2 DEF holderBar
  <2>4. QED
    BY <1>2, <2>3 DEF Lock!Request
<1>5. QED
  BY <1>3, <1>4

LEMMA ResumeRefines ==
  ASSUME SlotAssumption, SlotInv, SlotInv', NEW r \in Requests,
         \/ Resume(r)
         \/ Woken(r)
  PROVE  Lock!Enter(r) \/ UNCHANGED <<wantBar, holderBar>>
<1> USE DEF SlotInv, TypeOK
<1>1. PICK p \in {"inside", "waiting", "draining"} :
        /\ pc' = [pc EXCEPT ![r] = p]
        /\ p = "inside" => ~locked /\ locked'
        /\ p = "inside" => ~(r \in Buys /\ pendingStops > 0)
  <2>1. CASE Resume(r)
    BY <2>1, AcquireEffect DEF Resume
  <2>2. CASE Woken(r)
    BY <2>2 DEF Woken, Granted
  <2>3. QED
    BY <2>1, <2>2
<1>2. pc[r] \in {"resuming", "waiting"}
  BY DEF Resume, Woken
<1>3. wantBar[r] # "none" /\ wantBar' = wantBar
  BY <1>1, <1>2 DEF wantBar, KindOf
<1>4. CASE p = "inside"
  <2>1. \A q \in Requests : pc[q] # "inside"
    BY <1>1, <1>4 DEF Consistent, Inside
  <2>2. holderBar = Nobody
    BY <2>1, HolderBar
  <2>3. \A q \in Requests : pc'[q] = "inside" <=> q = r
    BY <1>1, <1>4, <2>1
  <2>4. holderBar' = r
    BY <2>3 DEF holderBar, Inside
  <2>5. wantBar[r] = "buy" => ~Lock!StopWanted
    BY <1>1, <1>2, <1>4, StopWantedBar DEF wantBar, KindOf, Requests
  <2>6. QED
    BY <1>3, <2>2, <2>4, <2>5 DEF Lock!Enter
<1>5. CASE p # "inside"
  <2>1. \A q \in Requests : pc'[q] = "inside" <=> pc[q] = "inside"
    BY <1>1, <1>2, <1>5
  <2>2. Inside' = Inside
    BY <2>1 DEF Inside
  <2>3. holderBar' = holderBar
    BY <2>2 DEF holderBar
  <2>4. QED
    BY <1>3, <2>3
<1>6. QED
  BY <1>4, <1>5

LEMMA LeaveRefines ==
  ASSUME SlotAssumption, SlotInv, SlotInv', NEW r \in Requests,
         \/ Exit(r)
         \/ CancelWaiting(r)
         \/ CancelDraining(r)
  PROVE  Lock!Leave(r) \/ Lock!Abandon(r)
<1> USE DEF SlotInv, TypeOK
<1>1. /\ pc[r] # "outside"
      /\ pc' = [q \in Requests |->
                  IF q = r THEN "outside"
                  ELSE IF LastStop(r) /\ pc[q] = "draining" THEN "resuming"
                  ELSE pc[q]]
  BY DEF Exit, CancelWaiting, CancelDraining, Unwind
<1>2. wantBar[r] # "none" /\ wantBar' = [wantBar EXCEPT ![r] = "none"]
  BY <1>1 DEF wantBar, KindOf
<1>3. CASE Exit(r)
  <2>1. pc[r] = "inside" /\ \A q \in Requests : pc'[q] # "inside"
    BY <1>1, <1>3 DEF Exit, Consistent, Inside
  <2>2. holderBar = r
    BY <2>1, HolderBar
  <2>3. holderBar' = Nobody
    BY <2>1 DEF holderBar, Inside
  <2>4. QED
    BY <1>2, <2>2, <2>3 DEF Lock!Leave
<1>4. CASE CancelWaiting(r) \/ CancelDraining(r)
  <2>1. pc[r] # "inside"
    BY <1>4 DEF CancelWaiting, CancelDraining
  <2>2. \A q \in Requests : pc'[q] = "inside" <=> pc[q] = "inside"
    BY <1>1, <2>1
  <2>3. Inside' = Inside
    BY <2>2 DEF Inside
  <2>4. holderBar' = holderBar
    BY <2>3 DEF holderBar
  <2>5. holderBar # r
    <3>1. CASE Inside = {}
      BY <3>1 DEF holderBar, SlotAssumption
    <3>2. CASE Inside # {}
      BY <2>1, <3>2, HolderBar DEF Inside
    <3>3. QED
      BY <3>1, <3>2
  <2>6. QED
    BY <1>2, <2>4, <2>5 DEF Lock!Abandon
<1>5. QED
  BY <1>3, <1>4

(* The FIFO lock, the counter and the event together behave as the         *)
(* priority lock.                                                          *)
THEOREM SlotRefinesPriorityLock == Spec => ImplementsPriorityLock
<1>1. Init => Lock!SlotInit
  BY DEF Init, Lock!SlotInit, wantBar, holderBar, Inside
<1>2. SlotInv /\ SlotInv' /\ [Next]_vars => [Lock!SlotNext]_(Lock!slotVars)
  <2> SUFFICES ASSUME SlotInv, SlotInv', [Next]_vars
               PROVE  Lock!SlotNext \/ UNCHANGED <<wantBar, holderBar>>
    BY DEF Lock!slotVars
  <2> USE DEF Lock!SlotNext
  <2>1. CASE UNCHANGED vars
    BY <2>1 DEF vars, wantBar, holderBar, Inside
  <2>2. ASSUME NEW r \in Requests, Call(r) PROVE Lock!SlotNext
    <3>1. KindOf(r) \in Lock!Kinds
      BY DEF KindOf, Lock!Kinds
    <3>2. QED
      BY <2>2, <3>1, SlotAssumption, CallRefines
  <2>3. ASSUME NEW r \in Requests, Resume(r) \/ Woken(r)
        PROVE  Lock!SlotNext \/ UNCHANGED <<wantBar, holderBar>>
    BY <2>3, SlotAssumption, ResumeRefines
  <2>4. ASSUME NEW r \in Requests, Exit(r) \/ CancelWaiting(r) \/ CancelDraining(r)
        PROVE  Lock!SlotNext
    BY <2>4, SlotAssumption, LeaveRefines
  <2>5. QED
    BY <2>1, <2>2, <2>3, <2>4 DEF Next
<1>3. QED
  BY <1>1, <1>2, SlotInvariant, PTL DEF Spec, ImplementsPriorityLock, Lock!SlotSpec
=============================================================================
