--------------------------- MODULE SafeShutdown_proofs ---------------------------
(***************************************************************************)
(* What a safe shutdown acknowledges, who writes the simulation's ledger   *)
(* and what a dashboard says of it, for any owners, dashboards, capacity   *)
(* of the pipe and bounds.                                                 *)
(***************************************************************************)
EXTENDS SafeShutdown, TLAPS

\* Where a collector is between its lease and its release of it.
Holding == {"starting", "running", "draining", "closing", "failing"}

(* The worker applies in order: what it applied ends where its batch goes  *)
(* on, and it takes the next batch only with this one applied.             *)
InOrder ==
  \A o \in Owners :
    /\ applied[o] = 1..processed[o]
    /\ hand[o].from = processed[o] + 1 /\ hand[o].from <= hand[o].to + 1
    /\ worker[o] \in {"none", "spawned", "ready"} => processed[o] = hand[o].to
    /\ worker[o] = "applying" => processed[o] < hand[o].to

(* The batches in the pipe continue one another, from the one the worker   *)
(* has in hand to the last row submitted; the end goes in at the close.    *)
Linked(o) ==
  /\ inputs[o] = << >> => hand[o].to = submitted[o]
  /\ inputs[o] # << >> =>
       /\ inputs[o][1].from = hand[o].to + 1
       /\ inputs[o][Len(inputs[o])].to = submitted[o]
  /\ \A i \in 1..Len(inputs[o]) :
       /\ inputs[o][i].from <= inputs[o][i].to + 1
       /\ IsEnd(inputs[o][i]) => closing[o] # "open" /\ inputs[o][i].to = submitted[o]
       /\ i > 1 => inputs[o][i].from = inputs[o][i - 1].to + 1

PipeLinked == \A o \in Owners : Linked(o)

(* Nothing is left out of the pipe while its event is not set, nothing is  *)
(* left in the queue when the collector leaves its task group in order,    *)
(* and nothing is received after either.                                   *)
CollectorAgrees ==
  \A o \in Owners :
    /\ ~failed[o] => submitted[o] = taken[o]
    /\ clean[o] => taken[o] = received[o] /\ collector[o] \in {"closing", "gone", "dead"}
    /\ collector[o] \in {"new", "starting", "running"} => received[o] <= MaxRows
    /\ collector[o] = "new" => worker[o] = "none"
    /\ closing[o] # "open" => collector[o] \in {"closing", "sweeping", "gone", "dead"}

(* A loop that ended in order has applied everything submitted, and the    *)
(* join that finds another end than that sets the event.                   *)
EndAgrees ==
  \A o \in Owners :
    /\ sound[o] => /\ worker[o] \in {"ending", "exited", "killed"}
                   /\ closing[o] # "open" /\ processed[o] = submitted[o]
    /\ worker[o] = "exited" => sound[o] /\ saved[o] = applied[o]
    /\ closing[o] = "closed" /\ ~failed[o] => worker[o] = "exited"
    /\ o \in completes => collector[o] = "gone"

(* Both leases are held by those who work under them, and the collector's  *)
(* by nobody who has not started.                                          *)
LeasesHeld ==
  \A o \in Owners :
    /\ Writing(o) => paperLease = o
    /\ collector[o] \in Holding => lease = o
    /\ collector[o] = "new" => lease # o

(* A task knows an owner that had started; what it read at its last look   *)
(* still tells whether that owner has gone; nobody who was not there is    *)
(* called unclean.                                                         *)
TasksKnow ==
  \A d \in Dashboards :
    /\ task[d].status = "unclean" => task[d].owner # None
    /\ task[d].owner # None =>
         /\ collector[task[d].owner] # "new"
         /\ task[d].at = "looked" /\ task[d].current # task[d].owner => lease # task[d].owner

ShutdownInv ==
  /\ TypeOK /\ InOrder /\ PipeLinked /\ CollectorAgrees /\ EndAgrees /\ LeasesHeld
  /\ TasksKnow /\ AckIsTrue /\ DashboardIsRight

-----------------------------------------------------------------------------
(* What needs more than the step's own definition: types first. *)

LEMMA StartTypes ==
  ASSUME ShutdownInv, NEW o \in Owners, Start(o)
  PROVE  TypeOK'
<1>1. lease' = o \/ lease' = lease
  BY DEF Start
<1>2. lease' \in OwnerOrNone
  BY <1>1 DEF ShutdownInv, TypeOK, OwnerOrNone
<1>3. collector' = [collector EXCEPT ![o] = "starting"] \/ collector' = [collector EXCEPT ![o] = "gone"]
  BY DEF Start
<1>4. worker' = [worker EXCEPT ![o] = "spawned"] \/ worker' = worker
  BY DEF Start
<1>5. collector' \in [Owners -> {"new", "starting", "running", "draining", "closing",
                                 "failing", "sweeping", "gone", "dead"}]
  BY <1>3 DEF ShutdownInv, TypeOK
<1>6. worker' \in [Owners -> {"none", "spawned", "ready", "applying", "ending",
                              "exited", "broken", "killed"}]
  BY <1>4 DEF ShutdownInv, TypeOK
<1> QED
  BY <1>2, <1>5, <1>6, SMTT(10) DEF ShutdownInv, TypeOK, Start, pipe, views

LEMMA StartCollector ==
  ASSUME ShutdownInv, NEW o \in Owners, Start(o)
  PROVE  CollectorAgrees'
<1>1. CASE Free(lease)
  BY <1>1, SMTT(10) DEF ShutdownInv, TypeOK, CollectorAgrees, Start, pipe, views
<1>2. CASE ~Free(lease)
  BY <1>2, SMTT(10) DEF ShutdownInv, TypeOK, CollectorAgrees, Start, pipe, views
<1> QED
  BY <1>1, <1>2

\* Nobody becomes new again, and nobody gets the lease a second time.
LEMMA TasksStay ==
  ASSUME TypeOK, TasksKnow, UNCHANGED task,
         \A p \in Owners : collector[p] # "new" => collector'[p] # "new",
         \A p \in Owners : collector[p] # "new" /\ lease # p => lease' # p
  PROVE  TasksKnow'
BY DEF TypeOK, TasksKnow, OwnerOrNone

LEMMA StartTasks ==
  ASSUME ShutdownInv, NEW o \in Owners, Start(o)
  PROVE  TasksKnow'
<1>1. TypeOK /\ TasksKnow /\ UNCHANGED task
  BY DEF ShutdownInv, Start, views
<1>2. collector' = [collector EXCEPT ![o] = "starting"] \/ collector' = [collector EXCEPT ![o] = "gone"]
  BY DEF Start
<1>3. \A p \in Owners : collector[p] # "new" => collector'[p] # "new"
  BY <1>1, <1>2 DEF TypeOK
<1>4. lease' = o \/ lease' = lease
  BY DEF Start
<1>5. \A p \in Owners : collector[p] # "new" /\ lease # p => lease' # p
  BY <1>4 DEF Start
<1> QED
  BY <1>1, <1>3, <1>5, TasksStay

LEMMA BatchFields ==
  ASSUME NEW b \in Batch
  PROVE  b.from \in Nat /\ b.to \in Nat /\ 1 <= b.from /\ b.from <= MaxRows + 2 /\ b.to <= MaxRows + 1
BY ShutdownAssumption DEF Batch, Row

LEMMA BatchMade ==
  ASSUME NEW f \in Nat, NEW l \in Nat, 1 <= f, f <= MaxRows + 2, l <= MaxRows + 1
  PROVE  [from |-> f, to |-> l] \in Batch
BY ShutdownAssumption DEF Batch, Row

LEMMA PipeType ==
  ASSUME TypeOK, NEW o \in Owners, NEW b \in Batch,
         inputs' = [inputs EXCEPT ![o] = Append(@, b)] \/ inputs' = inputs
  PROVE  inputs' \in [Owners -> Seq(Batch)]
<1>1. inputs[o] \in Seq(Batch) /\ inputs \in [Owners -> Seq(Batch)]
  BY DEF TypeOK
<1>2. Append(inputs[o], b) \in Seq(Batch)
  BY <1>1
<1> HIDE DEF Batch
<1> QED
  BY <1>1, <1>2

LEMMA TakeBatchTypes ==
  ASSUME ShutdownInv, NEW o \in Owners, TakeBatch(o)
  PROVE  TypeOK'
<1>1. TypeOK
  BY DEF ShutdownInv
<1>2. PICK last \in (taken[o] + 1)..received[o] :
        /\ Submit(o, [from |-> taken[o] + 1, to |-> last])
        /\ taken' = [taken EXCEPT ![o] = last]
  BY DEF TakeBatch
<1>3. taken[o] \in Row /\ received[o] \in Row /\ last \in Row
  BY <1>1, <1>2, ShutdownAssumption DEF TypeOK, Row
<1>4. [from |-> taken[o] + 1, to |-> last] \in Batch
  BY <1>3, BatchMade, ShutdownAssumption DEF Row
<1>5. taken' \in [Owners -> Row] /\ submitted' \in [Owners -> Row]
<2> DEFINE batch == [from |-> taken[o] + 1, to |-> last]
<2>1. submitted' = [submitted EXCEPT ![o] = batch.to] \/ submitted' = submitted
  BY <1>2 DEF Submit
<2>2. batch.to = last
  OBVIOUS
<2> HIDE DEF batch
<2>3. submitted' = [submitted EXCEPT ![o] = last] \/ submitted' = submitted
  BY <2>1, <2>2
<2>4. submitted \in [Owners -> Row] /\ taken \in [Owners -> Row]
  BY <1>1 DEF TypeOK
<2> QED
  BY <1>2, <1>3, <2>3, <2>4
<1>6. inputs' \in [Owners -> Seq(Batch)]
<2> DEFINE batch == [from |-> taken[o] + 1, to |-> last]
<2>1. inputs' = [inputs EXCEPT ![o] = Append(@, batch)] \/ inputs' = inputs
  BY <1>2 DEF Submit
<2>2. batch \in Batch
  BY <1>4
<2> HIDE DEF batch
<2> QED
  BY <1>1, <2>1, <2>2, PipeType DEF TypeOK
<1>7. failed' \in [Owners -> BOOLEAN]
  BY <1>1, <1>2 DEF Submit, TypeOK
<1> QED
  BY <1>1, <1>5, <1>6, <1>7 DEF TakeBatch, TypeOK, database, child, views

LEMMA StopTypes ==
  ASSUME ShutdownInv, NEW o \in Owners, Stop(o)
  PROVE  TypeOK'
<1>1. received[o] \in Nat /\ received[o] <= MaxRows
  BY ShutdownAssumption DEF ShutdownInv, TypeOK, CollectorAgrees, Stop, Row
<1>2. received' \in [Owners -> Row]
  BY <1>1, ShutdownAssumption DEF ShutdownInv, TypeOK, Stop, Row
<1> QED
  BY <1>2, SMTT(10) DEF ShutdownInv, TypeOK, Stop, database, child, pipe, views

LEMMA CloseAsksTypes ==
  ASSUME ShutdownInv, NEW o \in Owners, CloseAsks(o)
  PROVE  TypeOK'
<1>1. submitted[o] \in Row
  BY DEF ShutdownInv, TypeOK
<1>2. [from |-> submitted[o] + 1, to |-> submitted[o]] \in Batch
  BY <1>1, BatchMade, ShutdownAssumption DEF Row
<1> DEFINE end == [from |-> submitted[o] + 1, to |-> submitted[o]]
<1>3. inputs' = [inputs EXCEPT ![o] = Append(@, end)] \/ inputs' = inputs
  BY DEF CloseAsks, pipe
<1>4. failed' = [failed EXCEPT ![o] = TRUE] \/ failed' = failed
  BY DEF CloseAsks, pipe
<1>5. closing' = [closing EXCEPT ![o] = "asked"]
      /\ UNCHANGED <<database, collector, clean, received, taken, submitted, child, views, faults>>
  BY DEF CloseAsks
<1>6. end \in Batch
  BY <1>2
<1> HIDE DEF end
<1>7. inputs' \in [Owners -> Seq(Batch)]
  BY <1>3, <1>6, PipeType DEF ShutdownInv, TypeOK
<1>8. failed' \in [Owners -> BOOLEAN]
  BY <1>4 DEF ShutdownInv, TypeOK
<1> QED
<2>1. closing' \in [Owners -> {"open", "asked", "closed"}]
  BY <1>5 DEF ShutdownInv, TypeOK
<2> QED
  BY <1>5, <1>7, <1>8, <2>1, SMTT(10) DEF ShutdownInv, TypeOK, database, child, views

LEMMA FinishTypes ==
  ASSUME ShutdownInv, NEW o \in Owners, Finish(o)
  PROVE  TypeOK'
<1>1. lease' \in OwnerOrNone /\ completes' \subseteq Owners
  BY DEF ShutdownInv, TypeOK, OwnerOrNone, Finish, Release
<1>2. UNCHANGED <<paperLease, requests>>
  BY DEF Finish, Release
<1> QED
  BY <1>1, <1>2, SMTT(10) DEF ShutdownInv, TypeOK, Finish, child, pipe, views

LEMMA ReleaseEarlyTypes ==
  ASSUME ShutdownInv, NEW o \in Owners, ReleaseEarly(o)
  PROVE  TypeOK'
<1>1. lease' \in OwnerOrNone /\ completes' \subseteq Owners
  BY DEF ShutdownInv, TypeOK, OwnerOrNone, ReleaseEarly, Release
<1>2. UNCHANGED <<paperLease, requests>>
  BY DEF ReleaseEarly, Release
<1> QED
  BY <1>1, <1>2, SMTT(10) DEF ShutdownInv, TypeOK, ReleaseEarly, child, pipe, views

LEMMA WorkerStartsTypes ==
  ASSUME ShutdownInv, NEW o \in Owners, WorkerStarts(o)
  PROVE  TypeOK'
<1>1. paperLease' \in OwnerOrNone
  BY DEF ShutdownInv, TypeOK, OwnerOrNone, WorkerStarts
<1>2. worker' = [worker EXCEPT ![o] = "ready"] \/ worker' = [worker EXCEPT ![o] = "broken"]
  BY DEF WorkerStarts
<1>3. failed' \in [Owners -> BOOLEAN]
  BY DEF ShutdownInv, TypeOK, WorkerStarts
<1>4. faults' \in 0..MaxFaults
  BY ShutdownAssumption DEF ShutdownInv, TypeOK, WorkerStarts, Fault, NoFault
<1>5. worker' \in [Owners -> {"none", "spawned", "ready", "applying", "ending",
                              "exited", "broken", "killed"}]
  BY <1>2 DEF ShutdownInv, TypeOK
<1> QED
  BY <1>1, <1>5, <1>3, <1>4, SMTT(10) DEF ShutdownInv, TypeOK, WorkerStarts, parent, views

LEMMA WorkerTakesTypes ==
  ASSUME ShutdownInv, NEW o \in Owners, WorkerTakes(o)
  PROVE  TypeOK'
<1>1. inputs[o] \in Seq(Batch) /\ inputs[o] # << >>
  BY DEF ShutdownInv, TypeOK, WorkerTakes
<1>2. Head(inputs[o]) \in Batch /\ Tail(inputs[o]) \in Seq(Batch)
  BY <1>1
<1>3. inputs' \in [Owners -> Seq(Batch)]
  BY <1>2 DEF ShutdownInv, TypeOK, WorkerTakes
<1>4. hand' \in [Owners -> Batch]
  <2>1. hand' = [hand EXCEPT ![o] = Head(inputs[o])] \/ hand' = hand
    BY DEF WorkerTakes
  <2>2. hand \in [Owners -> Batch]
    BY DEF ShutdownInv, TypeOK
  <2> QED
    BY <1>2, <2>1, <2>2
<1>5. worker' = [worker EXCEPT ![o] = "applying"] \/ worker' = [worker EXCEPT ![o] = "ending"]
  BY DEF WorkerTakes
<1>6. sound' \in [Owners -> BOOLEAN]
  BY Zenon DEF ShutdownInv, TypeOK, WorkerTakes
<1>7. worker' \in [Owners -> {"none", "spawned", "ready", "applying", "ending",
                              "exited", "broken", "killed"}]
  BY <1>5 DEF ShutdownInv, TypeOK
<1> QED
  BY <1>3, <1>4, <1>7, <1>6, SMTT(10) DEF ShutdownInv, TypeOK, WorkerTakes, database, parent, views

LEMMA WorkerAppliesTypes ==
  ASSUME ShutdownInv, NEW o \in Owners, WorkerApplies(o)
  PROVE  TypeOK'
<1>1. hand[o] \in Batch /\ hand \in [Owners -> Batch] /\ processed[o] \in Nat
  BY DEF ShutdownInv, TypeOK, Row
<1>2. hand[o].from = processed[o] + 1 /\ processed[o] < hand[o].to
  BY DEF ShutdownInv, InOrder, WorkerApplies
<1>3. hand[o].from \in Row /\ hand[o].from + 1 \in Nat /\ hand[o].to \in Nat
      /\ 1 <= hand[o].from + 1 /\ hand[o].from + 1 <= MaxRows + 2 /\ hand[o].to <= MaxRows + 1
  BY <1>1, <1>2, BatchFields, ShutdownAssumption DEF Row
<1>4. [from |-> hand[o].from + 1, to |-> hand[o].to] \in Batch
  BY <1>3, BatchMade
<1>5. hand' \in [Owners -> Batch]
  BY <1>1, <1>4 DEF WorkerApplies
<1>6. processed' \in [Owners -> Row] /\ applied' \in [Owners -> SUBSET Row]
  BY <1>3 DEF ShutdownInv, TypeOK, WorkerApplies
<1>7. worker' \in [Owners -> {"none", "spawned", "ready", "applying", "ending",
                              "exited", "broken", "killed"}]
  BY DEF ShutdownInv, TypeOK, WorkerApplies
<1> QED
  BY <1>5, <1>6, <1>7, SMTT(10) DEF ShutdownInv, TypeOK, WorkerApplies, database, parent, pipe, views

LEMMA WorkerLeavesTypes ==
  ASSUME ShutdownInv, NEW o \in Owners, WorkerLeaves(o)
  PROVE  TypeOK'
<1>1. paperLease' \in OwnerOrNone
  BY DEF ShutdownInv, TypeOK, OwnerOrNone, WorkerLeaves
<1>2. worker' \in [Owners -> {"none", "spawned", "ready", "applying", "ending",
                              "exited", "broken", "killed"}]
  BY DEF ShutdownInv, TypeOK, WorkerLeaves
<1>3. saved' \in [Owners -> SUBSET Row]
  BY DEF ShutdownInv, TypeOK, WorkerLeaves
<1> QED
  BY <1>1, <1>2, <1>3, SMTT(10) DEF ShutdownInv, TypeOK, WorkerLeaves, parent, pipe, views

-----------------------------------------------------------------------------
(* The pipe: it stays linked when it grows at its end and is taken from at  *)
(* its head.                                                               *)

LEMMA EmptyMeansNoLength ==
  ASSUME NEW S, NEW s \in Seq(S)
  PROVE  s = << >> <=> Len(s) = 0
OBVIOUS

LEMMA LinkedStays ==
  ASSUME NEW p \in Owners, Linked(p), inputs'[p] = inputs[p], hand'[p].to = hand[p].to,
         submitted'[p] = submitted[p], closing[p] # "open" => closing'[p] # "open"
  PROVE  Linked(p)'
BY DEF Linked, IsEnd

LEMMA LinkedGrows ==
  ASSUME TypeOK, NEW o \in Owners, Linked(o), closing[o] = "open", NEW b \in Batch,
         b.from = submitted[o] + 1, b.from <= b.to + 1, IsEnd(b) => closing'[o] # "open",
         inputs'[o] = Append(inputs[o], b), submitted'[o] = b.to, hand'[o] = hand[o]
  PROVE  Linked(o)'
<1> DEFINE old == inputs[o]
           new == inputs'[o]
<1>1. old \in Seq(Batch) /\ submitted[o] \in Nat
  BY ShutdownAssumption DEF TypeOK, Row
<1>2. /\ new \in Seq(Batch) /\ Len(new) = Len(old) + 1 /\ new # << >>
      /\ Len(old) \in Nat /\ (old = << >> <=> Len(old) = 0)
  BY <1>1
<1>3. new[Len(new)] = b /\ \A i \in 1..Len(old) : new[i] = old[i]
  BY <1>1, <1>2
<1>4. \A i \in 1..Len(old) : ~IsEnd(old[i])
  BY DEF Linked
<1>5. \A i \in 1..Len(new) : i = Len(new) \/ i \in 1..Len(old)
  BY <1>2
<1>6. b.to \in Nat /\ b.from \in Nat
  BY BatchFields
<1>7. ASSUME NEW i \in 1..Len(new)
      PROVE  /\ new[i].from <= new[i].to + 1
             /\ IsEnd(new[i]) => closing'[o] # "open" /\ new[i].to = submitted'[o]
             /\ i > 1 => new[i].from = new[i - 1].to + 1
  <2>1. CASE i \in 1..Len(old)
    <3>1. i > 1 => i - 1 \in 1..Len(old)
      BY <2>1, <1>2
    <3> QED
      BY <2>1, <3>1, <1>3, <1>4 DEF Linked
  <2>2. CASE i = Len(new)
    <3>1. i > 1 => i - 1 = Len(old) /\ Len(old) \in 1..Len(old) /\ old # << >>
      BY <2>2, <1>2
    <3>2. i > 1 => new[i - 1].to = submitted[o]
      BY <3>1, <1>3 DEF Linked
    <3> QED
      BY <2>2, <3>2, <1>3
  <2> QED
    BY <2>1, <2>2, <1>5
<1>8. new[1].from = hand'[o].to + 1
  <2>1. CASE old = << >>
    BY <2>1, <1>2, <1>3 DEF Linked
  <2>2. CASE old # << >>
    <3>1. 1 \in 1..Len(old)
      BY <2>2, <1>2
    <3> QED
      BY <2>2, <3>1, <1>3 DEF Linked
  <2> QED
    BY <2>1, <2>2
<1>9. new[Len(new)].to = submitted'[o]
  BY <1>3
<1> QED
  BY <1>2, <1>7, <1>8, <1>9 DEF Linked, IsEnd

LEMMA LinkedShrinks ==
  ASSUME TypeOK, NEW o \in Owners, Linked(o), inputs[o] # << >>,
         inputs'[o] = Tail(inputs[o]), hand'[o].to = Head(inputs[o]).to,
         submitted'[o] = submitted[o], closing'[o] = closing[o]
  PROVE  Linked(o)'
<1> DEFINE old == inputs[o]
           new == inputs'[o]
<1>1. old \in Seq(Batch) /\ old # << >> /\ new = Tail(old)
  BY DEF TypeOK
<1> HIDE DEF old, new
<1>11. Len(old) \in Nat /\ Len(old) >= 1 /\ Head(old) = old[1]
  BY <1>1
<1>12. new \in Seq(Batch) /\ Len(new) = Len(old) - 1
  BY <1>1
<1>13. new = << >> <=> Len(new) = 0
  BY <1>12, EmptyMeansNoLength
<1>2. /\ new \in Seq(Batch) /\ Len(new) = Len(old) - 1 /\ Len(old) \in Nat /\ Len(old) >= 1
      /\ Head(old) = old[1] /\ (new = << >> <=> Len(old) = 1)
  BY <1>11, <1>12, <1>13
<1>3. \A i \in 1..Len(new) : new[i] = old[i + 1] /\ i + 1 \in 1..Len(old)
  BY <1>1, <1>2
<1> USE DEF old, new
<1>4. ASSUME NEW i \in 1..Len(new)
      PROVE  /\ new[i].from <= new[i].to + 1
             /\ IsEnd(new[i]) => closing'[o] # "open" /\ new[i].to = submitted'[o]
             /\ i > 1 => new[i].from = new[i - 1].to + 1
  <2>1. new[i] = old[i + 1] /\ i + 1 \in 1..Len(old) /\ i + 1 > 1
    BY <1>3
  <2>2. i > 1 => i - 1 \in 1..Len(new) /\ (i - 1) + 1 = i /\ (i + 1) - 1 = i
    BY <1>2
  <2>3. i > 1 => new[i - 1] = old[i]
    BY <2>2, <1>3
  <2>4. old[i + 1].from = old[(i + 1) - 1].to + 1
    BY <2>1 DEF Linked
  <2>5. (i + 1) - 1 = i
    BY <1>2
  <2> QED
    BY <2>1, <2>3, <2>4, <2>5 DEF Linked
<1>5. new # << >> => new[1].from = hand'[o].to + 1
  <2> SUFFICES ASSUME new # << >>  PROVE new[1].from = hand'[o].to + 1
    OBVIOUS
  <2>1. 2 \in 1..Len(old) /\ 1 \in 1..Len(new)
    BY <1>2
  <2>2. new[1] = old[2]
    BY <2>1, <1>3
  <2>3. old[2].from = old[2 - 1].to + 1
    BY <2>1 DEF Linked
  <2> QED
    BY <2>2, <2>3, <1>2
<1>6. new # << >> => new[Len(new)].to = submitted'[o]
  <2> SUFFICES ASSUME new # << >>  PROVE new[Len(new)].to = submitted'[o]
    OBVIOUS
  <2>1. Len(new) \in 1..Len(new) /\ Len(new) + 1 = Len(old)
    BY <1>2
  <2>2. new[Len(new)] = old[Len(old)]
    BY <2>1, <1>3
  <2> QED
    BY <2>2 DEF Linked
<1>7. new = << >> => hand'[o].to = submitted'[o]
  BY <1>2 DEF Linked
<1> QED
  BY <1>4, <1>5, <1>6, <1>7 DEF Linked, IsEnd

LEMMA TakeBatchLinks ==
  ASSUME ShutdownInv, NEW o \in Owners, TakeBatch(o)
  PROVE  PipeLinked'
<1>1. TypeOK /\ PipeLinked /\ CollectorAgrees
  BY DEF ShutdownInv
<1>2. PICK last \in (taken[o] + 1)..received[o] :
        /\ Submit(o, [from |-> taken[o] + 1, to |-> last])
        /\ taken' = [taken EXCEPT ![o] = last]
  BY DEF TakeBatch
<1>3. UNCHANGED <<hand, closing>> /\ closing[o] = "open"
  BY <1>1 DEF TakeBatch, CollectorAgrees, child
<1> DEFINE batch == [from |-> taken[o] + 1, to |-> last]
<1>4. taken[o] \in Row /\ received[o] \in Row /\ last \in Row /\ taken[o] \in Nat /\ last \in Nat
  BY <1>1, <1>2, ShutdownAssumption DEF TypeOK, Row
<1>5. batch \in Batch
  BY <1>4, BatchMade, ShutdownAssumption DEF Row
<1>6. /\ batch.from = taken[o] + 1 /\ batch.to = last /\ batch.from <= batch.to + 1
      /\ ~IsEnd(batch)
  BY <1>2, <1>4 DEF IsEnd
<1> HIDE DEF batch
<1>7. CASE /\ ~failed[o] /\ inputs' = [inputs EXCEPT ![o] = Append(@, batch)]
           /\ submitted' = [submitted EXCEPT ![o] = batch.to]
  <2>1. submitted[o] = taken[o]
    BY <1>1, <1>7 DEF CollectorAgrees
  <2>2. inputs'[o] = Append(inputs[o], batch) /\ submitted'[o] = batch.to
    BY <1>1, <1>7 DEF TypeOK
  <2>3. Linked(o)'
    BY <1>1, <1>3, <1>5, <1>6, <2>1, <2>2, LinkedGrows DEF PipeLinked
  <2>4. ASSUME NEW p \in Owners, p # o
        PROVE  Linked(p)'
    BY <1>1, <1>3, <1>7, <2>4, LinkedStays DEF PipeLinked, TypeOK
  <2> QED
    BY <2>3, <2>4 DEF PipeLinked
<1>8. CASE UNCHANGED <<inputs, submitted>>
  BY <1>1, <1>3, <1>8, LinkedStays DEF PipeLinked
<1> QED
  BY <1>2, <1>7, <1>8 DEF Submit, batch

LEMMA CloseAsksLinks ==
  ASSUME ShutdownInv, NEW o \in Owners, CloseAsks(o)
  PROVE  PipeLinked'
<1>1. TypeOK /\ PipeLinked
  BY DEF ShutdownInv
<1>2. /\ UNCHANGED <<hand, submitted>> /\ closing[o] = "open"
      /\ closing' = [closing EXCEPT ![o] = "asked"]
  BY DEF CloseAsks, child
<1>3. closing'[o] # "open" /\ \A p \in Owners : p # o => closing'[p] = closing[p]
  BY <1>1, <1>2 DEF TypeOK
<1> DEFINE end == [from |-> submitted[o] + 1, to |-> submitted[o]]
<1>4. submitted[o] \in Row /\ submitted[o] \in Nat
  BY <1>1, ShutdownAssumption DEF TypeOK, Row
<1>5. end \in Batch
  BY <1>4, BatchMade, ShutdownAssumption DEF Row
<1>6. end.from = submitted[o] + 1 /\ end.to = submitted[o] /\ end.from <= end.to + 1
  BY <1>4
<1>7. inputs' = [inputs EXCEPT ![o] = Append(@, end)] \/ inputs' = inputs
  BY DEF CloseAsks, pipe
<1> HIDE DEF end
<1>8. CASE inputs' = [inputs EXCEPT ![o] = Append(@, end)]
  <2>1. inputs'[o] = Append(inputs[o], end) /\ \A p \in Owners : p # o => inputs'[p] = inputs[p]
    BY <1>1, <1>8 DEF TypeOK
  <2>2. Linked(o)'
    BY <1>1, <1>2, <1>3, <1>5, <1>6, <2>1, LinkedGrows DEF PipeLinked
  <2>3. ASSUME NEW p \in Owners, p # o
        PROVE  Linked(p)'
    BY <1>1, <1>2, <1>3, <2>1, <2>3, LinkedStays DEF PipeLinked
  <2> QED
    BY <2>2, <2>3 DEF PipeLinked
<1>9. CASE inputs' = inputs
  BY <1>1, <1>2, <1>3, <1>9, LinkedStays DEF PipeLinked
<1> QED
  BY <1>7, <1>8, <1>9

\* What a worker that takes a batch, or the end, does to its own pipe.
LEMMA TakesAtHead ==
  ASSUME ShutdownInv, NEW o \in Owners, WorkerTakes(o)
  PROVE  /\ inputs[o] # << >> /\ inputs'[o] = Tail(inputs[o])
         /\ Head(inputs[o]).from = hand[o].to + 1
         /\ hand[o].from = hand[o].to + 1 /\ processed[o] = hand[o].to
         /\ Head(inputs[o]).from <= Head(inputs[o]).to + 1
         /\ hand[o].to \in Nat /\ Head(inputs[o]).to \in Nat
         /\ IsEnd(Head(inputs[o])) =>
              /\ Head(inputs[o]).to = hand[o].to /\ submitted[o] = hand[o].to
              /\ closing[o] # "open" /\ hand' = hand
         /\ ~IsEnd(Head(inputs[o])) => hand' = [hand EXCEPT ![o] = Head(inputs[o])]
         /\ \A p \in Owners : p # o => inputs'[p] = inputs[p]
<1>1. inputs[o] \in Seq(Batch) /\ inputs[o] # << >> /\ hand[o] \in Batch
  BY DEF ShutdownInv, TypeOK, WorkerTakes
<1>2. 1 \in 1..Len(inputs[o]) /\ Head(inputs[o]) = inputs[o][1] /\ Head(inputs[o]) \in Batch
  BY <1>1
<1>3. hand[o].to \in Nat /\ hand[o].from \in Nat
      /\ Head(inputs[o]).to \in Nat /\ Head(inputs[o]).from \in Nat
  BY <1>1, <1>2, BatchFields
<1>4. Linked(o)
  BY DEF ShutdownInv, PipeLinked
<1>5. Head(inputs[o]).from = hand[o].to + 1 /\ Head(inputs[o]).from <= Head(inputs[o]).to + 1
      /\ (IsEnd(Head(inputs[o])) => closing[o] # "open" /\ Head(inputs[o]).to = submitted[o])
  BY <1>2, <1>4 DEF Linked
<1>6. hand[o].from = hand[o].to + 1 /\ processed[o] = hand[o].to
  BY DEF ShutdownInv, InOrder, WorkerTakes
<1>7. IsEnd(Head(inputs[o])) => Head(inputs[o]).to = hand[o].to
  BY <1>3, <1>5 DEF IsEnd
<1>8. inputs'[o] = Tail(inputs[o]) /\ \A p \in Owners : p # o => inputs'[p] = inputs[p]
  BY DEF ShutdownInv, TypeOK, WorkerTakes
<1>9. /\ IsEnd(Head(inputs[o])) => hand' = hand
      /\ ~IsEnd(Head(inputs[o])) => hand' = [hand EXCEPT ![o] = Head(inputs[o])]
  BY DEF WorkerTakes
<1> QED
  BY <1>1, <1>3, <1>5, <1>6, <1>7, <1>8, <1>9

LEMMA WorkerTakesLinks ==
  ASSUME ShutdownInv, NEW o \in Owners, WorkerTakes(o)
  PROVE  PipeLinked'
<1>1. TypeOK /\ PipeLinked
  BY DEF ShutdownInv
<1>2. UNCHANGED <<submitted, closing>>
  BY DEF WorkerTakes, parent
<1>3. hand'[o].to = Head(inputs[o]).to /\ \A p \in Owners : p # o => hand'[p] = hand[p]
  BY <1>1, TakesAtHead DEF TypeOK
<1>4. Linked(o)'
  BY <1>1, <1>2, <1>3, TakesAtHead, LinkedShrinks DEF PipeLinked
<1>5. ASSUME NEW p \in Owners, p # o
      PROVE  Linked(p)'
  BY <1>1, <1>2, <1>3, <1>5, TakesAtHead, LinkedStays DEF PipeLinked
<1> QED
  BY <1>4, <1>5 DEF PipeLinked

LEMMA WorkerTakesInOrder ==
  ASSUME ShutdownInv, NEW o \in Owners, WorkerTakes(o)
  PROVE  InOrder'
<1>1. TypeOK /\ InOrder
  BY DEF ShutdownInv
<1>2. UNCHANGED <<applied, processed>>
  BY DEF WorkerTakes
<1>3. CASE IsEnd(Head(inputs[o]))
  <2>1. hand' = hand /\ worker' = [worker EXCEPT ![o] = "ending"]
    BY <1>3 DEF WorkerTakes
  <2> QED
    BY <1>1, <1>2, <2>1 DEF InOrder, TypeOK
<1>4. CASE ~IsEnd(Head(inputs[o]))
  <2>1. worker' = [worker EXCEPT ![o] = "applying"] /\ hand' = [hand EXCEPT ![o] = Head(inputs[o])]
    BY <1>4 DEF WorkerTakes
  <2>2. hand'[o] = Head(inputs[o])
    BY <1>1, <2>1 DEF TypeOK
  <2>3. hand[o].to + 1 <= Head(inputs[o]).to
    BY <1>4, TakesAtHead DEF IsEnd
  <2> QED
    BY <1>1, <1>2, <2>1, <2>2, <2>3, TakesAtHead DEF InOrder, TypeOK
<1> QED
  BY <1>3, <1>4

LEMMA WorkerTakesEnds ==
  ASSUME ShutdownInv, NEW o \in Owners, WorkerTakes(o)
  PROVE  EndAgrees'
<1>1. TypeOK /\ EndAgrees
  BY DEF ShutdownInv
<1>2. UNCHANGED <<processed, applied, saved, collector, closing, submitted, failed, completes>>
  BY DEF WorkerTakes, parent, database
<1>3. CASE IsEnd(Head(inputs[o]))
  <2>1. worker' = [worker EXCEPT ![o] = "ending"] /\ worker[o] = "ready"
    BY <1>3 DEF WorkerTakes
  <2>2. processed[o] = submitted[o] /\ closing[o] # "open"
    BY <1>3, TakesAtHead
  <2>3. \A p \in Owners : p # o => sound'[p] = sound[p]
    BY <1>1, <1>3 DEF WorkerTakes, TypeOK
  <2> QED
    BY <1>1, <1>2, <2>1, <2>2, <2>3 DEF EndAgrees, TypeOK
<1>4. CASE ~IsEnd(Head(inputs[o]))
  <2>1. worker' = [worker EXCEPT ![o] = "applying"] /\ worker[o] = "ready" /\ sound' = sound
    BY <1>4 DEF WorkerTakes
  <2> QED
    BY <1>1, <1>2, <2>1 DEF EndAgrees, TypeOK
<1> QED
  BY <1>3, <1>4

LEMMA WorkerAppliesInOrder ==
  ASSUME ShutdownInv, NEW o \in Owners, WorkerApplies(o)
  PROVE  InOrder'
<1> DEFINE next == [from |-> hand[o].from + 1, to |-> hand[o].to]
<1>1. TypeOK /\ InOrder
  BY DEF ShutdownInv
<1>2. hand[o].from = processed[o] + 1 /\ processed[o] < hand[o].to /\ applied[o] = 1..processed[o]
  BY <1>1 DEF InOrder, WorkerApplies
<1>3. processed[o] \in Nat /\ hand[o].to \in Nat
  BY <1>1, BatchFields, ShutdownAssumption DEF TypeOK, Row
<1>4. applied'[o] = (1..processed[o]) \cup {processed[o] + 1}
  BY <1>1, <1>2 DEF WorkerApplies, TypeOK
<1>5. processed'[o] = processed[o] + 1 /\ applied'[o] = 1..processed'[o]
  BY <1>1, <1>2, <1>3, <1>4 DEF WorkerApplies, TypeOK
<1>6. hand' = [hand EXCEPT ![o] = next]
  BY DEF WorkerApplies
<1>7. next.from = hand[o].from + 1 /\ next.to = hand[o].to
  OBVIOUS
<1> HIDE DEF next
<1>8. hand'[o].from = processed'[o] + 1 /\ hand'[o].to = hand[o].to
  BY <1>1, <1>2, <1>3, <1>5, <1>6, <1>7 DEF TypeOK
<1>9. worker'[o] = IF hand[o].from = hand[o].to THEN "ready" ELSE worker[o]
  BY <1>1 DEF WorkerApplies, TypeOK
<1>10. worker[o] = "applying"
  BY DEF WorkerApplies
<1>11. /\ hand'[o].from <= hand'[o].to + 1
       /\ worker'[o] \in {"none", "spawned", "ready"} => processed'[o] = hand'[o].to
       /\ worker'[o] = "applying" => processed'[o] < hand'[o].to
  BY <1>2, <1>3, <1>5, <1>8, <1>9, <1>10
<1>12. ASSUME NEW p \in Owners, p # o
       PROVE  /\ applied'[p] = applied[p] /\ processed'[p] = processed[p] /\ hand'[p] = hand[p]
              /\ worker'[p] = worker[p]
  BY <1>1, <1>6, <1>12 DEF WorkerApplies, TypeOK
<1> QED
  BY <1>1, <1>5, <1>8, <1>11, <1>12 DEF InOrder

(* What the ends of worker and collector leave agreed, and what a release  *)
(* does to the dashboards' knowledge.                                      *)

LEMMA CloseJoinsEnds ==
  ASSUME ShutdownInv, NEW o \in Owners, CloseJoins(o)
  PROVE  EndAgrees'
<1>1. TypeOK /\ EndAgrees
  BY DEF ShutdownInv
<1>2. UNCHANGED <<processed, applied, saved, sound, collector, submitted, completes>>
      /\ closing' = [closing EXCEPT ![o] = "closed"]
  BY DEF CloseJoins, database
<1>3. worker'[o] = (IF Alive(o) THEN "killed" ELSE worker[o])
      /\ \A p \in Owners : p # o => worker'[p] = worker[p]
  BY <1>1 DEF CloseJoins, TypeOK
<1>4. ~failed'[o] => ~failed[o] /\ worker[o] = "exited"
  BY <1>1 DEF CloseJoins, TypeOK
<1>5. \A p \in Owners : p # o => failed'[p] = failed[p]
  BY <1>1 DEF CloseJoins, TypeOK
<1>6. worker[o] = "exited" => ~Alive(o)
  BY DEF Alive
<1>7. worker'[o] = "exited" => worker[o] = "exited"
  BY <1>3
<1>8. worker[o] \in {"ending", "exited", "killed"} => worker'[o] \in {"ending", "exited", "killed"}
  BY <1>3
<1> QED
  BY <1>1, <1>2, <1>3, <1>4, <1>5, <1>6, <1>7, <1>8 DEF EndAgrees, TypeOK

LEMMA WorkerStartsEnds ==
  ASSUME ShutdownInv, NEW o \in Owners, WorkerStarts(o)
  PROVE  EndAgrees'
<1>1. TypeOK /\ EndAgrees
  BY DEF ShutdownInv
<1>2. UNCHANGED <<processed, applied, saved, sound, collector, closing, submitted, completes>>
  BY DEF WorkerStarts, parent
<1>3. worker' = [worker EXCEPT ![o] = "ready"] \/ worker' = [worker EXCEPT ![o] = "broken"]
  BY DEF WorkerStarts
<1>4. failed' = failed \/ failed' = [failed EXCEPT ![o] = TRUE]
  BY DEF WorkerStarts
<1>5. worker[o] = "spawned" /\ ~sound[o]
  BY <1>1 DEF EndAgrees, WorkerStarts
<1>6. worker'[o] # "exited" /\ \A p \in Owners : p # o => worker'[p] = worker[p]
  BY <1>1, <1>3 DEF TypeOK
<1>7. \A p \in Owners : failed[p] => failed'[p]
  BY <1>1, <1>4 DEF TypeOK
<1> QED
  BY <1>1, <1>2, <1>5, <1>6, <1>7 DEF EndAgrees

LEMMA WorkerDiesCollector ==
  ASSUME ShutdownInv, NEW o \in Owners, WorkerDies(o)
  PROVE  CollectorAgrees'
<1>1. TypeOK /\ CollectorAgrees
  BY DEF ShutdownInv
<1>2. UNCHANGED <<failed, submitted, taken, clean, received, collector, closing>>
  BY DEF WorkerDies, parent, pipe
<1>3. collector[o] # "new" /\ \A p \in Owners : p # o => worker'[p] = worker[p]
  BY <1>1 DEF WorkerDies, TypeOK, CollectorAgrees, Alive
<1> QED
  BY <1>1, <1>2, <1>3 DEF CollectorAgrees

LEMMA FinishDashboards ==
  ASSUME ShutdownInv, NEW o \in Owners, Finish(o)
  PROVE  DashboardIsRight'
<1>1. DashboardIsRight /\ TasksKnow /\ LeasesHeld
  BY DEF ShutdownInv
<1>2. /\ collector[o] = "closing" /\ UNCHANGED task
      /\ lease' = IF lease = o THEN None ELSE lease
      /\ completes' = completes \cup {o} \/ completes' = completes
  BY DEF Finish, Release, views
<1>3. lease = o /\ lease' = None
  BY <1>1, <1>2 DEF LeasesHeld, Holding
<1> QED
  BY <1>1, <1>2, <1>3, ShutdownAssumption DEF DashboardIsRight, TasksKnow

LEMMA ReleaseEarlyDashboards ==
  ASSUME ShutdownInv, NEW o \in Owners, ReleaseEarly(o)
  PROVE  DashboardIsRight'
<1>1. DashboardIsRight /\ TasksKnow
  BY DEF ShutdownInv
<1>2. /\ UNCHANGED <<task, completes>>
      /\ lease' = None \/ lease' = lease
  BY DEF ReleaseEarly, Release, views
<1> QED
  BY <1>1, <1>2 DEF DashboardIsRight, TasksKnow

LEMMA FinishTasks ==
  ASSUME ShutdownInv, NEW o \in Owners, Finish(o)
  PROVE  TasksKnow'
<1>1. TypeOK /\ TasksKnow /\ UNCHANGED task
  BY DEF ShutdownInv, Finish, views
<1>2. collector' = [collector EXCEPT ![o] = "gone"]
  BY DEF Finish
<1>3. \A p \in Owners : collector[p] # "new" => collector'[p] # "new"
  BY <1>1, <1>2 DEF TypeOK
<1>4. lease' = None \/ lease' = lease
  BY DEF Finish, Release
<1>5. \A p \in Owners : lease # p => lease' # p
  BY <1>4, ShutdownAssumption
<1> QED
  BY <1>1, <1>3, <1>5, TasksStay

LEMMA ReleaseEarlyTasks ==
  ASSUME ShutdownInv, NEW o \in Owners, ReleaseEarly(o)
  PROVE  TasksKnow'
<1>1. TypeOK /\ TasksKnow /\ UNCHANGED task
  BY DEF ShutdownInv, ReleaseEarly, views
<1>2. collector' = [collector EXCEPT ![o] = "sweeping"]
  BY DEF ReleaseEarly
<1>3. \A p \in Owners : collector[p] # "new" => collector'[p] # "new"
  BY <1>1, <1>2 DEF TypeOK
<1>4. lease' = None \/ lease' = lease
  BY DEF ReleaseEarly, Release
<1>5. \A p \in Owners : lease # p => lease' # p
  BY <1>4, ShutdownAssumption
<1> QED
  BY <1>1, <1>3, <1>5, TasksStay

LEMMA FaultType ==
  ASSUME TypeOK, Fault \/ NoFault
  PROVE  faults' \in 0..MaxFaults
BY ShutdownAssumption DEF TypeOK, Fault, NoFault

LEMMA CrashTypes ==
  ASSUME ShutdownInv, NEW o \in Owners, Crash(o)
  PROVE  TypeOK'
<1>1. faults' \in 0..MaxFaults
  BY FaultType DEF ShutdownInv, Crash
<1> QED
  BY <1>1 DEF ShutdownInv, TypeOK, Crash, database, child, pipe, views

LEMMA FailsWorkerTypes ==
  ASSUME ShutdownInv, NEW o \in Owners, FailsWorker(o)
  PROVE  TypeOK'
<1>1. faults' \in 0..MaxFaults
  BY FaultType DEF ShutdownInv, FailsWorker
<1> QED
  BY <1>1 DEF ShutdownInv, TypeOK, FailsWorker, database, parent, child, views

LEMMA FailsTypes ==
  ASSUME ShutdownInv, NEW o \in Owners, Fails(o)
  PROVE  TypeOK'
<1>1. faults' \in 0..MaxFaults
  BY FaultType DEF ShutdownInv, Fails
<1> QED
  BY <1>1 DEF ShutdownInv, TypeOK, Fails, database, child, pipe, views

LEMMA WorkerDiesTypes ==
  ASSUME ShutdownInv, NEW o \in Owners, WorkerDies(o)
  PROVE  TypeOK'
<1>1. faults' \in 0..MaxFaults
  BY FaultType DEF ShutdownInv, WorkerDies
<1> QED
  BY <1>1 DEF ShutdownInv, TypeOK, WorkerDies, database, parent, pipe, views

LEMMA WorkerRaisesTypes ==
  ASSUME ShutdownInv, NEW o \in Owners, WorkerRaises(o)
  PROVE  TypeOK'
<1>1. faults' \in 0..MaxFaults
  BY FaultType DEF ShutdownInv, WorkerRaises
<1> QED
  BY <1>1 DEF ShutdownInv, TypeOK, WorkerRaises, database, parent, views

LEMMA ReceiveTypes ==
  ASSUME ShutdownInv, NEW o \in Owners, Receive(o)
  PROVE  TypeOK'
<1>1. received \in [Owners -> Row] /\ received[o] < MaxRows
      /\ received' = [received EXCEPT ![o] = @ + 1]
  BY DEF ShutdownInv, TypeOK, Receive
<1>2. received' \in [Owners -> Row]
  BY <1>1, ShutdownAssumption DEF Row
<1> QED
  BY <1>2 DEF ShutdownInv, TypeOK, Receive, database, child, pipe, views

LEMMA ReceiveCollector ==
  ASSUME ShutdownInv, NEW o \in Owners, Receive(o)
  PROVE  CollectorAgrees'
<1>1. received[o] \in Nat /\ received[o] < MaxRows /\ collector[o] = "running"
  BY ShutdownAssumption DEF ShutdownInv, TypeOK, Receive, Row
<1>2. received'[o] = received[o] + 1 /\ \A p \in Owners : p # o => received'[p] = received[p]
  BY DEF ShutdownInv, TypeOK, Receive
<1>3. received'[o] <= MaxRows
  BY <1>1, <1>2, ShutdownAssumption
<1>4. ~clean[o]
  BY <1>1 DEF ShutdownInv, CollectorAgrees
<1>5. UNCHANGED <<failed, submitted, taken, clean, collector, closing, worker>>
  BY DEF Receive, child, pipe
<1> QED
  BY <1>2, <1>3, <1>4, <1>5 DEF ShutdownInv, CollectorAgrees

LEMMA TakeBatchEnds ==
  ASSUME ShutdownInv, NEW o \in Owners, TakeBatch(o)
  PROVE  EndAgrees'
<1>1. TypeOK /\ EndAgrees /\ closing[o] = "open"
  BY DEF ShutdownInv, CollectorAgrees, TakeBatch
<1>2. UNCHANGED <<sound, worker, closing, processed, saved, applied, completes, collector>>
  BY DEF TakeBatch, child, database
<1>3. \A p \in Owners : p # o => submitted'[p] = submitted[p]
  BY <1>1 DEF TakeBatch, Submit, TypeOK
<1>4. \A p \in Owners : failed[p] => failed'[p]
  BY <1>1 DEF TakeBatch, Submit, TypeOK
<1> QED
  BY <1>1, <1>2, <1>3, <1>4 DEF EndAgrees

\* The collector's lease changes hands only from one that is over.
LEMMA StartLeases ==
  ASSUME ShutdownInv, NEW o \in Owners, Start(o)
  PROVE  LeasesHeld'
<1>1. TypeOK /\ LeasesHeld /\ collector[o] = "new" /\ paperLease' = paperLease
  BY DEF ShutdownInv, Start
<1>2. worker[o] = "none"
  BY <1>1 DEF ShutdownInv, CollectorAgrees
<1>3. CASE Free(lease)
  <2>1. lease' = o /\ collector' = [collector EXCEPT ![o] = "starting"]
        /\ worker' = [worker EXCEPT ![o] = "spawned"]
    BY <1>3 DEF Start
  <2>2. \A p \in Owners : p # o => collector[p] \notin Holding
    BY <1>1, <1>3, ShutdownAssumption DEF LeasesHeld, Holding, Free, Over
  <2>3. /\ collector'[o] = "starting" /\ worker'[o] = "spawned"
        /\ \A p \in Owners : p # o => collector'[p] = collector[p] /\ worker'[p] = worker[p]
    BY <1>1, <2>1 DEF TypeOK
  <2> QED
    BY <1>1, <2>1, <2>2, <2>3 DEF LeasesHeld, Holding, Writing
<1>4. CASE ~Free(lease)
  <2>1. lease' = lease /\ collector' = [collector EXCEPT ![o] = "gone"] /\ worker' = worker
    BY <1>4 DEF Start
  <2>2. collector'[o] = "gone" /\ \A p \in Owners : p # o => collector'[p] = collector[p]
    BY <1>1, <2>1 DEF TypeOK
  <2> QED
    BY <1>1, <2>1, <2>2 DEF LeasesHeld, Holding, Writing
<1> QED
  BY <1>3, <1>4

LEMMA FinishLeases ==
  ASSUME ShutdownInv, NEW o \in Owners, Finish(o)
  PROVE  LeasesHeld'
<1>1. TypeOK /\ LeasesHeld /\ UNCHANGED <<paperLease, worker>>
  BY DEF ShutdownInv, Finish, Release, child
<1>2. lease' = (IF lease = o THEN None ELSE lease) /\ collector' = [collector EXCEPT ![o] = "gone"]
  BY DEF Finish, Release
<1>3. collector'[o] = "gone" /\ \A p \in Owners : p # o => collector'[p] = collector[p]
  BY <1>1, <1>2 DEF TypeOK
<1> QED
  BY <1>1, <1>2, <1>3, ShutdownAssumption DEF LeasesHeld, Holding, Writing

LEMMA ReleaseEarlyLeases ==
  ASSUME ShutdownInv, NEW o \in Owners, ReleaseEarly(o)
  PROVE  LeasesHeld'
<1>1. TypeOK /\ LeasesHeld /\ UNCHANGED <<paperLease, worker>>
  BY DEF ShutdownInv, ReleaseEarly, Release, child
<1>2. lease' = (IF lease = o THEN None ELSE lease) /\ collector' = [collector EXCEPT ![o] = "sweeping"]
  BY DEF ReleaseEarly, Release
<1>3. collector'[o] = "sweeping" /\ \A p \in Owners : p # o => collector'[p] = collector[p]
  BY <1>1, <1>2 DEF TypeOK
<1> QED
  BY <1>1, <1>2, <1>3, ShutdownAssumption DEF LeasesHeld, Holding, Writing

\* The worker's lease changes hands only from one that is not alive.
LEMMA WorkerStartsLeases ==
  ASSUME ShutdownInv, NEW o \in Owners, WorkerStarts(o)
  PROVE  LeasesHeld'
<1>1. TypeOK /\ LeasesHeld /\ UNCHANGED <<lease, collector>> /\ worker[o] = "spawned"
  BY DEF ShutdownInv, WorkerStarts, parent
<1>2. CASE PaperFree /\ paperLease' = o /\ worker' = [worker EXCEPT ![o] = "ready"]
  <2>1. \A p \in Owners : ~Writing(p)
    BY <1>1, <1>2, ShutdownAssumption DEF PaperFree, LeasesHeld, Writing, Alive
  <2>2. worker'[o] = "ready" /\ \A p \in Owners : p # o => worker'[p] = worker[p]
    BY <1>1, <1>2 DEF TypeOK
  <2>3. \A p \in Owners : Writing(p)' => p = o
    BY <2>1, <2>2 DEF Writing
  <2> QED
    BY <1>1, <1>2, <2>3 DEF LeasesHeld
<1>3. CASE paperLease' = paperLease /\ worker' = [worker EXCEPT ![o] = "broken"]
  <2>1. worker'[o] = "broken" /\ \A p \in Owners : p # o => worker'[p] = worker[p]
    BY <1>1, <1>3 DEF TypeOK
  <2>2. \A p \in Owners : Writing(p)' => Writing(p)
    BY <2>1 DEF Writing
  <2> QED
    BY <1>1, <1>3, <2>2 DEF LeasesHeld
<1> QED
  BY <1>2, <1>3 DEF WorkerStarts

LEMMA WorkerStartsLinks ==
  ASSUME ShutdownInv, NEW o \in Owners, WorkerStarts(o)
  PROVE  PipeLinked'
<1>1. PipeLinked /\ UNCHANGED <<inputs, hand, submitted, closing>>
  BY DEF ShutdownInv, WorkerStarts, parent
<1> QED
  BY <1>1, LinkedStays DEF PipeLinked

-----------------------------------------------------------------------------
(* One step per part of the invariant, for every action of an owner. *)

LEMMA StartKeeps ==
  ASSUME ShutdownInv, NEW o \in Owners, Start(o)
  PROVE  ShutdownInv'
<1>1. TypeOK'
  BY StartTypes
<1>2. InOrder'
  BY DEF ShutdownInv, TypeOK, InOrder, CollectorAgrees, Start, Free, Over, pipe, views
<1>3. PipeLinked'
  BY DEF ShutdownInv, TypeOK, PipeLinked, Linked, Start, Free, Over, pipe, views
<1>4. CollectorAgrees'
  BY StartCollector
<1>5. EndAgrees'
  BY DEF ShutdownInv, TypeOK, EndAgrees, CollectorAgrees, Start, Free, Over, pipe, views
<1>6. LeasesHeld'
  BY StartLeases
<1>7. TasksKnow'
  BY StartTasks
<1>8. AckIsTrue'
  BY DEF ShutdownInv, TypeOK, AckIsTrue, EndAgrees, Start, Free, Over, pipe, views
<1>9. DashboardIsRight'
  BY DEF ShutdownInv, TypeOK, DashboardIsRight, LeasesHeld, Holding, TasksKnow, Start, Free,
       Over, pipe, views
<1> QED
  BY <1>1, <1>2, <1>3, <1>4, <1>5, <1>6, <1>7, <1>8, <1>9 DEF ShutdownInv

LEMMA ReadyKeeps ==
  ASSUME ShutdownInv, NEW o \in Owners, Ready(o)
  PROVE  ShutdownInv'
<1>1. TypeOK'
  BY DEF ShutdownInv, TypeOK, Row, Ready, database, child, pipe, views
<1>2. InOrder'
  BY DEF ShutdownInv, TypeOK, InOrder, Ready, database, child, pipe, views
<1>3. PipeLinked'
  BY DEF ShutdownInv, TypeOK, PipeLinked, Linked, Ready, database, child, pipe, views
<1>4. CollectorAgrees'
  BY DEF ShutdownInv, TypeOK, CollectorAgrees, Ready, database, child, pipe, views
<1>5. EndAgrees'
  BY DEF ShutdownInv, TypeOK, EndAgrees, Ready, database, child, pipe, views
<1>6. LeasesHeld'
  BY DEF ShutdownInv, TypeOK, LeasesHeld, Writing, Holding, Ready, database, child, pipe, views
<1>7. TasksKnow'
  <2>1. TypeOK /\ TasksKnow /\ UNCHANGED <<task, lease>>
    BY DEF ShutdownInv, Ready, database, views
  <2>2. \A p \in Owners : collector[p] # "new" => collector'[p] # "new"
    BY DEF ShutdownInv, TypeOK, Ready
  <2> QED
    BY <2>1, <2>2, TasksStay
<1>8. AckIsTrue'
  BY DEF ShutdownInv, TypeOK, AckIsTrue, Ready, database, child, pipe, views
<1>9. DashboardIsRight'
  BY DEF ShutdownInv, DashboardIsRight, Ready, database, child, pipe, views
<1> QED
  BY <1>1, <1>2, <1>3, <1>4, <1>5, <1>6, <1>7, <1>8, <1>9 DEF ShutdownInv

LEMMA NotReadyKeeps ==
  ASSUME ShutdownInv, NEW o \in Owners, NotReady(o)
  PROVE  ShutdownInv'
<1>1. TypeOK'
  BY DEF ShutdownInv, TypeOK, Row, NotReady, database, child, pipe, views
<1>2. InOrder'
  BY DEF ShutdownInv, TypeOK, InOrder, NotReady, database, child, pipe, views
<1>3. PipeLinked'
  BY DEF ShutdownInv, TypeOK, PipeLinked, Linked, NotReady, database, child, pipe, views
<1>4. CollectorAgrees'
  BY DEF ShutdownInv, TypeOK, CollectorAgrees, NotReady, database, child, pipe, views
<1>5. EndAgrees'
  BY DEF ShutdownInv, TypeOK, EndAgrees, NotReady, database, child, pipe, views
<1>6. LeasesHeld'
  BY DEF ShutdownInv, TypeOK, LeasesHeld, Writing, Holding, NotReady, database, child, pipe,
       views
<1>7. TasksKnow'
  <2>1. TypeOK /\ TasksKnow /\ UNCHANGED <<task, lease>>
    BY DEF ShutdownInv, NotReady, database, views
  <2>2. \A p \in Owners : collector[p] # "new" => collector'[p] # "new"
    BY DEF ShutdownInv, TypeOK, NotReady
  <2> QED
    BY <2>1, <2>2, TasksStay
<1>8. AckIsTrue'
  BY DEF ShutdownInv, TypeOK, AckIsTrue, NotReady, database, child, pipe, views
<1>9. DashboardIsRight'
  BY DEF ShutdownInv, DashboardIsRight, NotReady, database, child, pipe, views
<1> QED
  BY <1>1, <1>2, <1>3, <1>4, <1>5, <1>6, <1>7, <1>8, <1>9 DEF ShutdownInv

LEMMA CrashKeeps ==
  ASSUME ShutdownInv, NEW o \in Owners, Crash(o)
  PROVE  ShutdownInv'
<1>1. TypeOK'
  BY CrashTypes
<1>2. InOrder'
  BY DEF ShutdownInv, TypeOK, InOrder, Crash, Fault, database, child, pipe, views
<1>3. PipeLinked'
  BY DEF ShutdownInv, TypeOK, PipeLinked, Linked, Crash, Fault, database, child, pipe, views
<1>4. CollectorAgrees'
  BY DEF ShutdownInv, TypeOK, CollectorAgrees, Crash, Fault, database, child, pipe, views
<1>5. EndAgrees'
  BY DEF ShutdownInv, TypeOK, EndAgrees, Crash, Fault, database, child, pipe, views
<1>6. LeasesHeld'
  BY DEF ShutdownInv, TypeOK, LeasesHeld, Writing, Holding, Crash, Fault, database, child, pipe,
       views
<1>7. TasksKnow'
  <2>1. TypeOK /\ TasksKnow /\ UNCHANGED <<task, lease>>
    BY DEF ShutdownInv, Crash, database, views
  <2>2. \A p \in Owners : collector[p] # "new" => collector'[p] # "new"
    BY DEF ShutdownInv, TypeOK, Crash
  <2> QED
    BY <2>1, <2>2, TasksStay
<1>8. AckIsTrue'
  BY DEF ShutdownInv, TypeOK, AckIsTrue, Crash, Fault, database, child, pipe, views
<1>9. DashboardIsRight'
  BY DEF ShutdownInv, DashboardIsRight, Crash, Fault, database, child, pipe, views
<1> QED
  BY <1>1, <1>2, <1>3, <1>4, <1>5, <1>6, <1>7, <1>8, <1>9 DEF ShutdownInv

LEMMA ReceiveKeeps ==
  ASSUME ShutdownInv, NEW o \in Owners, Receive(o)
  PROVE  ShutdownInv'
<1>1. TypeOK'
  BY ReceiveTypes
<1>2. InOrder'
  BY DEF ShutdownInv, TypeOK, InOrder, Receive, database, child, pipe, views
<1>3. PipeLinked'
  BY DEF ShutdownInv, TypeOK, PipeLinked, Linked, Receive, database, child, pipe, views
<1>4. CollectorAgrees'
  BY ReceiveCollector
<1>5. EndAgrees'
  BY DEF ShutdownInv, TypeOK, EndAgrees, Receive, database, child, pipe, views
<1>6. LeasesHeld'
  BY DEF ShutdownInv, TypeOK, LeasesHeld, Writing, Holding, Receive, database, child, pipe,
       views
<1>7. TasksKnow'
  <2>1. TypeOK /\ TasksKnow /\ UNCHANGED <<task, lease>>
    BY DEF ShutdownInv, Receive, database, views
  <2>2. \A p \in Owners : collector[p] # "new" => collector'[p] # "new"
    BY DEF ShutdownInv, TypeOK, Receive
  <2> QED
    BY <2>1, <2>2, TasksStay
<1>8. AckIsTrue'
  BY DEF ShutdownInv, TypeOK, AckIsTrue, EndAgrees, Receive, database, child, pipe, views
<1>9. DashboardIsRight'
  BY DEF ShutdownInv, DashboardIsRight, Receive, database, child, pipe, views
<1> QED
  BY <1>1, <1>2, <1>3, <1>4, <1>5, <1>6, <1>7, <1>8, <1>9 DEF ShutdownInv

LEMMA TakeBatchKeeps ==
  ASSUME ShutdownInv, NEW o \in Owners, TakeBatch(o)
  PROVE  ShutdownInv'
<1>1. TypeOK'
  BY TakeBatchTypes
<1>2. InOrder'
  BY DEF ShutdownInv, TypeOK, InOrder, TakeBatch, Submit, database, child, views
<1>3. PipeLinked'
  BY TakeBatchLinks
<1>4. CollectorAgrees'
  BY DEF ShutdownInv, TypeOK, CollectorAgrees, TakeBatch, Submit, database, child, views
<1>5. EndAgrees'
  BY TakeBatchEnds
<1>6. LeasesHeld'
  BY DEF ShutdownInv, TypeOK, LeasesHeld, Writing, Holding, TakeBatch, Submit, database, child,
       views
<1>7. TasksKnow'
  <2>1. TypeOK /\ TasksKnow /\ UNCHANGED <<task, lease>>
    BY DEF ShutdownInv, TakeBatch, database, views
  <2>2. \A p \in Owners : collector[p] # "new" => collector'[p] # "new"
    BY DEF ShutdownInv, TypeOK, TakeBatch
  <2> QED
    BY <2>1, <2>2, TasksStay
<1>8. AckIsTrue'
  BY DEF ShutdownInv, TypeOK, AckIsTrue, TakeBatch, Submit, database, child, views
<1>9. DashboardIsRight'
  BY DEF ShutdownInv, DashboardIsRight, TakeBatch, Submit, database, child, views
<1> QED
  BY <1>1, <1>2, <1>3, <1>4, <1>5, <1>6, <1>7, <1>8, <1>9 DEF ShutdownInv

LEMMA FailsWorkerKeeps ==
  ASSUME ShutdownInv, NEW o \in Owners, FailsWorker(o)
  PROVE  ShutdownInv'
<1>1. TypeOK'
  BY FailsWorkerTypes
<1>2. InOrder'
  BY DEF ShutdownInv, TypeOK, InOrder, FailsWorker, Fault, database, parent, child, views
<1>3. PipeLinked'
  BY DEF ShutdownInv, TypeOK, PipeLinked, Linked, FailsWorker, Fault, database, parent, child,
       views
<1>4. CollectorAgrees'
  BY DEF ShutdownInv, TypeOK, CollectorAgrees, FailsWorker, Fault, database, parent, child,
       views
<1>5. EndAgrees'
  BY DEF ShutdownInv, TypeOK, EndAgrees, FailsWorker, Fault, database, parent, child, views
<1>6. LeasesHeld'
  BY DEF ShutdownInv, TypeOK, LeasesHeld, Writing, Holding, FailsWorker, Fault, database,
       parent, child, views
<1>7. TasksKnow'
  <2>1. TypeOK /\ TasksKnow /\ UNCHANGED <<task, lease>>
    BY DEF ShutdownInv, FailsWorker, database, views
  <2>2. \A p \in Owners : collector[p] # "new" => collector'[p] # "new"
    BY DEF ShutdownInv, TypeOK, FailsWorker, parent
  <2> QED
    BY <2>1, <2>2, TasksStay
<1>8. AckIsTrue'
  BY DEF ShutdownInv, TypeOK, AckIsTrue, FailsWorker, Fault, database, parent, child, views
<1>9. DashboardIsRight'
  BY DEF ShutdownInv, DashboardIsRight, FailsWorker, Fault, database, parent, child, views
<1> QED
  BY <1>1, <1>2, <1>3, <1>4, <1>5, <1>6, <1>7, <1>8, <1>9 DEF ShutdownInv

LEMMA StopKeeps ==
  ASSUME ShutdownInv, NEW o \in Owners, Stop(o)
  PROVE  ShutdownInv'
<1>1. TypeOK'
  BY StopTypes
<1>2. InOrder'
  BY DEF ShutdownInv, TypeOK, InOrder, Stop, database, child, pipe, views
<1>3. PipeLinked'
  BY DEF ShutdownInv, TypeOK, PipeLinked, Linked, Stop, database, child, pipe, views
<1>4. CollectorAgrees'
  BY DEF ShutdownInv, TypeOK, CollectorAgrees, Stop, database, child, pipe, views
<1>5. EndAgrees'
  BY DEF ShutdownInv, TypeOK, EndAgrees, Stop, database, child, pipe, views
<1>6. LeasesHeld'
  BY DEF ShutdownInv, TypeOK, LeasesHeld, Writing, Holding, Stop, database, child, pipe, views
<1>7. TasksKnow'
  <2>1. TypeOK /\ TasksKnow /\ UNCHANGED <<task, lease>>
    BY DEF ShutdownInv, Stop, database, views
  <2>2. \A p \in Owners : collector[p] # "new" => collector'[p] # "new"
    BY DEF ShutdownInv, TypeOK, Stop
  <2> QED
    BY <2>1, <2>2, TasksStay
<1>8. AckIsTrue'
  BY DEF ShutdownInv, TypeOK, AckIsTrue, EndAgrees, Stop, database, child, pipe, views
<1>9. DashboardIsRight'
  BY DEF ShutdownInv, DashboardIsRight, Stop, database, child, pipe, views
<1> QED
  BY <1>1, <1>2, <1>3, <1>4, <1>5, <1>6, <1>7, <1>8, <1>9 DEF ShutdownInv

LEMMA DrainedKeeps ==
  ASSUME ShutdownInv, NEW o \in Owners, Drained(o)
  PROVE  ShutdownInv'
<1>1. TypeOK'
  BY DEF ShutdownInv, TypeOK, Row, Drained, database, child, pipe, views
<1>2. InOrder'
  BY DEF ShutdownInv, TypeOK, InOrder, Drained, database, child, pipe, views
<1>3. PipeLinked'
  BY DEF ShutdownInv, TypeOK, PipeLinked, Linked, Drained, database, child, pipe, views
<1>4. CollectorAgrees'
  BY DEF ShutdownInv, TypeOK, CollectorAgrees, Drained, database, child, pipe, views
<1>5. EndAgrees'
  BY DEF ShutdownInv, TypeOK, EndAgrees, Drained, database, child, pipe, views
<1>6. LeasesHeld'
  BY DEF ShutdownInv, TypeOK, LeasesHeld, Writing, Holding, Drained, database, child, pipe,
       views
<1>7. TasksKnow'
  <2>1. TypeOK /\ TasksKnow /\ UNCHANGED <<task, lease>>
    BY DEF ShutdownInv, Drained, database, views
  <2>2. \A p \in Owners : collector[p] # "new" => collector'[p] # "new"
    BY DEF ShutdownInv, TypeOK, Drained
  <2> QED
    BY <2>1, <2>2, TasksStay
<1>8. AckIsTrue'
  BY DEF ShutdownInv, TypeOK, AckIsTrue, Drained, database, child, pipe, views
<1>9. DashboardIsRight'
  BY DEF ShutdownInv, DashboardIsRight, Drained, database, child, pipe, views
<1> QED
  BY <1>1, <1>2, <1>3, <1>4, <1>5, <1>6, <1>7, <1>8, <1>9 DEF ShutdownInv

LEMMA FailsKeeps ==
  ASSUME ShutdownInv, NEW o \in Owners, Fails(o)
  PROVE  ShutdownInv'
<1>1. TypeOK'
  BY FailsTypes
<1>2. InOrder'
  BY DEF ShutdownInv, TypeOK, InOrder, Fails, Fault, database, child, pipe, views
<1>3. PipeLinked'
  BY DEF ShutdownInv, TypeOK, PipeLinked, Linked, Fails, Fault, database, child, pipe, views
<1>4. CollectorAgrees'
  BY DEF ShutdownInv, TypeOK, CollectorAgrees, Fails, Fault, database, child, pipe, views
<1>5. EndAgrees'
  BY DEF ShutdownInv, TypeOK, EndAgrees, Fails, Fault, database, child, pipe, views
<1>6. LeasesHeld'
  BY DEF ShutdownInv, TypeOK, LeasesHeld, Writing, Holding, Fails, Fault, database, child, pipe,
       views
<1>7. TasksKnow'
  <2>1. TypeOK /\ TasksKnow /\ UNCHANGED <<task, lease>>
    BY DEF ShutdownInv, Fails, database, views
  <2>2. \A p \in Owners : collector[p] # "new" => collector'[p] # "new"
    BY DEF ShutdownInv, TypeOK, Fails
  <2> QED
    BY <2>1, <2>2, TasksStay
<1>8. AckIsTrue'
  BY DEF ShutdownInv, TypeOK, AckIsTrue, Fails, Fault, database, child, pipe, views
<1>9. DashboardIsRight'
  BY DEF ShutdownInv, DashboardIsRight, Fails, Fault, database, child, pipe, views
<1> QED
  BY <1>1, <1>2, <1>3, <1>4, <1>5, <1>6, <1>7, <1>8, <1>9 DEF ShutdownInv

LEMMA CloseAsksKeeps ==
  ASSUME ShutdownInv, NEW o \in Owners, CloseAsks(o)
  PROVE  ShutdownInv'
<1>1. TypeOK'
  BY CloseAsksTypes
<1>2. InOrder'
  BY DEF ShutdownInv, TypeOK, InOrder, CloseAsks, database, child, pipe, views
<1>3. PipeLinked'
  BY CloseAsksLinks
<1>4. CollectorAgrees'
  BY DEF ShutdownInv, TypeOK, CollectorAgrees, CloseAsks, database, child, pipe, views
<1>5. EndAgrees'
  BY DEF ShutdownInv, TypeOK, EndAgrees, CloseAsks, database, child, pipe, views
<1>6. LeasesHeld'
  BY DEF ShutdownInv, TypeOK, LeasesHeld, Writing, Holding, CloseAsks, database, child, pipe,
       views
<1>7. TasksKnow'
  <2>1. TypeOK /\ TasksKnow /\ UNCHANGED <<task, lease>>
    BY DEF ShutdownInv, CloseAsks, database, views
  <2>2. \A p \in Owners : collector[p] # "new" => collector'[p] # "new"
    BY DEF ShutdownInv, TypeOK, CloseAsks
  <2> QED
    BY <2>1, <2>2, TasksStay
<1>8. AckIsTrue'
  BY DEF ShutdownInv, TypeOK, AckIsTrue, CloseAsks, database, child, pipe, views
<1>9. DashboardIsRight'
  BY DEF ShutdownInv, TypeOK, DashboardIsRight, LeasesHeld, Holding, TasksKnow, CloseAsks,
       database, child, pipe, views
<1> QED
  BY <1>1, <1>2, <1>3, <1>4, <1>5, <1>6, <1>7, <1>8, <1>9 DEF ShutdownInv

LEMMA CloseJoinsKeeps ==
  ASSUME ShutdownInv, NEW o \in Owners, CloseJoins(o)
  PROVE  ShutdownInv'
<1>1. TypeOK'
  BY DEF ShutdownInv, TypeOK, Row, CloseJoins, database, views
<1>2. InOrder'
  BY DEF ShutdownInv, TypeOK, InOrder, CloseJoins, database, views
<1>3. PipeLinked'
  BY DEF ShutdownInv, TypeOK, PipeLinked, Linked, CloseJoins, database, views
<1>4. CollectorAgrees'
  BY DEF ShutdownInv, TypeOK, CollectorAgrees, CloseJoins, database, views
<1>5. EndAgrees'
  BY CloseJoinsEnds
<1>6. LeasesHeld'
  BY DEF ShutdownInv, TypeOK, LeasesHeld, Writing, Holding, CloseJoins, database, views
<1>7. TasksKnow'
  <2>1. TypeOK /\ TasksKnow /\ UNCHANGED <<task, lease>>
    BY DEF ShutdownInv, CloseJoins, database, views
  <2>2. \A p \in Owners : collector[p] # "new" => collector'[p] # "new"
    BY DEF ShutdownInv, TypeOK, CloseJoins
  <2> QED
    BY <2>1, <2>2, TasksStay
<1>8. AckIsTrue'
  BY DEF ShutdownInv, TypeOK, AckIsTrue, EndAgrees, CloseJoins, database, views
<1>9. DashboardIsRight'
  BY DEF ShutdownInv, DashboardIsRight, CloseJoins, database, views
<1> QED
  BY <1>1, <1>2, <1>3, <1>4, <1>5, <1>6, <1>7, <1>8, <1>9 DEF ShutdownInv

LEMMA FinishKeeps ==
  ASSUME ShutdownInv, NEW o \in Owners, Finish(o)
  PROVE  ShutdownInv'
<1>1. TypeOK'
  BY FinishTypes
<1>2. InOrder'
  BY DEF ShutdownInv, TypeOK, InOrder, Finish, Release, child, pipe, views
<1>3. PipeLinked'
  BY DEF ShutdownInv, TypeOK, PipeLinked, Linked, Finish, Release, child, pipe, views
<1>4. CollectorAgrees'
  BY DEF ShutdownInv, TypeOK, CollectorAgrees, Finish, Release, child, pipe, views
<1>5. EndAgrees'
  BY DEF ShutdownInv, TypeOK, EndAgrees, Finish, Release, child, pipe, views
<1>6. LeasesHeld'
  BY FinishLeases
<1>7. TasksKnow'
  BY FinishTasks
<1>8. AckIsTrue'
  BY DEF ShutdownInv, TypeOK, AckIsTrue, EndAgrees, InOrder, CollectorAgrees, Finish, Release,
       child, pipe, views
<1>9. DashboardIsRight'
  BY FinishDashboards
<1> QED
  BY <1>1, <1>2, <1>3, <1>4, <1>5, <1>6, <1>7, <1>8, <1>9 DEF ShutdownInv

LEMMA ReleaseEarlyKeeps ==
  ASSUME ShutdownInv, NEW o \in Owners, ReleaseEarly(o)
  PROVE  ShutdownInv'
<1>1. TypeOK'
  BY ReleaseEarlyTypes
<1>2. InOrder'
  BY DEF ShutdownInv, TypeOK, InOrder, ReleaseEarly, Release, child, pipe, views
<1>3. PipeLinked'
  BY DEF ShutdownInv, TypeOK, PipeLinked, Linked, ReleaseEarly, Release, child, pipe, views
<1>4. CollectorAgrees'
  BY DEF ShutdownInv, TypeOK, CollectorAgrees, ReleaseEarly, Release, child, pipe, views
<1>5. EndAgrees'
  BY DEF ShutdownInv, TypeOK, EndAgrees, ReleaseEarly, Release, child, pipe, views
<1>6. LeasesHeld'
  BY ReleaseEarlyLeases
<1>7. TasksKnow'
  BY ReleaseEarlyTasks
<1>8. AckIsTrue'
  BY DEF ShutdownInv, TypeOK, AckIsTrue, ReleaseEarly, Release, child, pipe, views
<1>9. DashboardIsRight'
  BY ReleaseEarlyDashboards
<1> QED
  BY <1>1, <1>2, <1>3, <1>4, <1>5, <1>6, <1>7, <1>8, <1>9 DEF ShutdownInv

LEMMA SweptKeeps ==
  ASSUME ShutdownInv, NEW o \in Owners, Swept(o)
  PROVE  ShutdownInv'
<1>1. TypeOK'
  BY DEF ShutdownInv, TypeOK, Row, Swept, database, child, pipe, views
<1>2. InOrder'
  BY DEF ShutdownInv, TypeOK, InOrder, Swept, database, child, pipe, views
<1>3. PipeLinked'
  BY DEF ShutdownInv, TypeOK, PipeLinked, Linked, Swept, database, child, pipe, views
<1>4. CollectorAgrees'
  BY DEF ShutdownInv, TypeOK, CollectorAgrees, Swept, database, child, pipe, views
<1>5. EndAgrees'
  BY DEF ShutdownInv, TypeOK, EndAgrees, Swept, database, child, pipe, views
<1>6. LeasesHeld'
  BY DEF ShutdownInv, TypeOK, LeasesHeld, Writing, Holding, Swept, database, child, pipe, views
<1>7. TasksKnow'
  <2>1. TypeOK /\ TasksKnow /\ UNCHANGED <<task, lease>>
    BY DEF ShutdownInv, Swept, database, views
  <2>2. \A p \in Owners : collector[p] # "new" => collector'[p] # "new"
    BY DEF ShutdownInv, TypeOK, Swept
  <2> QED
    BY <2>1, <2>2, TasksStay
<1>8. AckIsTrue'
  BY DEF ShutdownInv, TypeOK, AckIsTrue, Swept, database, child, pipe, views
<1>9. DashboardIsRight'
  BY DEF ShutdownInv, DashboardIsRight, Swept, database, child, pipe, views
<1> QED
  BY <1>1, <1>2, <1>3, <1>4, <1>5, <1>6, <1>7, <1>8, <1>9 DEF ShutdownInv

LEMMA WorkerStartsKeeps ==
  ASSUME ShutdownInv, NEW o \in Owners, WorkerStarts(o)
  PROVE  ShutdownInv'
<1>1. TypeOK'
  BY WorkerStartsTypes
<1>2. InOrder'
  BY DEF ShutdownInv, TypeOK, InOrder, WorkerStarts, Fault, NoFault, PaperFree, parent, views
<1>3. PipeLinked'
  BY WorkerStartsLinks
<1>4. CollectorAgrees'
  BY DEF ShutdownInv, TypeOK, CollectorAgrees, WorkerStarts, Fault, NoFault, PaperFree, parent,
       views
<1>5. EndAgrees'
  BY WorkerStartsEnds
<1>6. LeasesHeld'
  BY WorkerStartsLeases
<1>7. TasksKnow'
  <2>1. TypeOK /\ TasksKnow /\ UNCHANGED <<task, lease>>
    BY DEF ShutdownInv, WorkerStarts, views
  <2>2. \A p \in Owners : collector[p] # "new" => collector'[p] # "new"
    BY DEF ShutdownInv, TypeOK, WorkerStarts, parent
  <2> QED
    BY <2>1, <2>2, TasksStay
<1>8. AckIsTrue'
  BY DEF ShutdownInv, TypeOK, AckIsTrue, WorkerStarts, Fault, NoFault, PaperFree, parent, views
<1>9. DashboardIsRight'
  BY DEF ShutdownInv, DashboardIsRight, WorkerStarts, Fault, NoFault, PaperFree, parent, views
<1> QED
  BY <1>1, <1>2, <1>3, <1>4, <1>5, <1>6, <1>7, <1>8, <1>9 DEF ShutdownInv

LEMMA WorkerTakesKeeps ==
  ASSUME ShutdownInv, NEW o \in Owners, WorkerTakes(o)
  PROVE  ShutdownInv'
<1>1. TypeOK'
  BY WorkerTakesTypes
<1>2. InOrder'
  BY WorkerTakesInOrder
<1>3. PipeLinked'
  BY WorkerTakesLinks
<1>4. CollectorAgrees'
  BY DEF ShutdownInv, TypeOK, CollectorAgrees, WorkerTakes, database, parent, views
<1>5. EndAgrees'
  BY WorkerTakesEnds
<1>6. LeasesHeld'
  BY DEF ShutdownInv, TypeOK, LeasesHeld, Writing, Holding, WorkerTakes, database, parent, views
<1>7. TasksKnow'
  <2>1. TypeOK /\ TasksKnow /\ UNCHANGED <<task, lease>>
    BY DEF ShutdownInv, WorkerTakes, database, views
  <2>2. \A p \in Owners : collector[p] # "new" => collector'[p] # "new"
    BY DEF ShutdownInv, TypeOK, WorkerTakes, parent
  <2> QED
    BY <2>1, <2>2, TasksStay
<1>8. AckIsTrue'
  BY DEF ShutdownInv, TypeOK, AckIsTrue, WorkerTakes, database, parent, views
<1>9. DashboardIsRight'
  BY DEF ShutdownInv, DashboardIsRight, WorkerTakes, database, parent, views
<1> QED
  BY <1>1, <1>2, <1>3, <1>4, <1>5, <1>6, <1>7, <1>8, <1>9 DEF ShutdownInv

LEMMA WorkerAppliesKeeps ==
  ASSUME ShutdownInv, NEW o \in Owners, WorkerApplies(o)
  PROVE  ShutdownInv'
<1>1. TypeOK'
  BY WorkerAppliesTypes
<1>2. InOrder'
  BY WorkerAppliesInOrder
<1>3. PipeLinked'
  BY DEF ShutdownInv, TypeOK, PipeLinked, Linked, WorkerApplies, database, parent, pipe, views
<1>4. CollectorAgrees'
  BY DEF ShutdownInv, TypeOK, CollectorAgrees, WorkerApplies, database, parent, pipe, views
<1>5. EndAgrees'
  BY DEF ShutdownInv, TypeOK, EndAgrees, WorkerApplies, database, parent, pipe, views
<1>6. LeasesHeld'
  BY DEF ShutdownInv, TypeOK, LeasesHeld, Writing, Holding, WorkerApplies, database, parent,
       pipe, views
<1>7. TasksKnow'
  <2>1. TypeOK /\ TasksKnow /\ UNCHANGED <<task, lease>>
    BY DEF ShutdownInv, WorkerApplies, database, views
  <2>2. \A p \in Owners : collector[p] # "new" => collector'[p] # "new"
    BY DEF ShutdownInv, TypeOK, WorkerApplies, parent
  <2> QED
    BY <2>1, <2>2, TasksStay
<1>8. AckIsTrue'
  BY DEF ShutdownInv, TypeOK, AckIsTrue, WorkerApplies, database, parent, pipe, views
<1>9. DashboardIsRight'
  BY DEF ShutdownInv, DashboardIsRight, WorkerApplies, database, parent, pipe, views
<1> QED
  BY <1>1, <1>2, <1>3, <1>4, <1>5, <1>6, <1>7, <1>8, <1>9 DEF ShutdownInv

LEMMA WorkerRaisesKeeps ==
  ASSUME ShutdownInv, NEW o \in Owners, WorkerRaises(o)
  PROVE  ShutdownInv'
<1>1. TypeOK'
  BY WorkerRaisesTypes
<1>2. InOrder'
  BY DEF ShutdownInv, TypeOK, InOrder, WorkerRaises, Fault, NoFault, database, parent, views
<1>3. PipeLinked'
  BY DEF ShutdownInv, TypeOK, PipeLinked, Linked, WorkerRaises, Fault, NoFault, database,
       parent, views
<1>4. CollectorAgrees'
  BY DEF ShutdownInv, TypeOK, CollectorAgrees, WorkerRaises, Fault, NoFault, database, parent,
       views
<1>5. EndAgrees'
  BY DEF ShutdownInv, TypeOK, EndAgrees, WorkerRaises, Fault, NoFault, database, parent, views
<1>6. LeasesHeld'
  BY DEF ShutdownInv, TypeOK, LeasesHeld, Writing, Holding, WorkerRaises, Fault, NoFault,
       database, parent, views
<1>7. TasksKnow'
  <2>1. TypeOK /\ TasksKnow /\ UNCHANGED <<task, lease>>
    BY DEF ShutdownInv, WorkerRaises, database, views
  <2>2. \A p \in Owners : collector[p] # "new" => collector'[p] # "new"
    BY DEF ShutdownInv, TypeOK, WorkerRaises, parent
  <2> QED
    BY <2>1, <2>2, TasksStay
<1>8. AckIsTrue'
  BY DEF ShutdownInv, TypeOK, AckIsTrue, WorkerRaises, Fault, NoFault, database, parent, views
<1>9. DashboardIsRight'
  BY DEF ShutdownInv, DashboardIsRight, WorkerRaises, Fault, NoFault, database, parent, views
<1> QED
  BY <1>1, <1>2, <1>3, <1>4, <1>5, <1>6, <1>7, <1>8, <1>9 DEF ShutdownInv

LEMMA WorkerLeavesKeeps ==
  ASSUME ShutdownInv, NEW o \in Owners, WorkerLeaves(o)
  PROVE  ShutdownInv'
<1>1. TypeOK'
  BY WorkerLeavesTypes
<1>2. InOrder'
  BY DEF ShutdownInv, TypeOK, InOrder, WorkerLeaves, parent, pipe, views
<1>3. PipeLinked'
  BY DEF ShutdownInv, TypeOK, PipeLinked, Linked, WorkerLeaves, parent, pipe, views
<1>4. CollectorAgrees'
  BY DEF ShutdownInv, TypeOK, CollectorAgrees, WorkerLeaves, parent, pipe, views
<1>5. EndAgrees'
  BY DEF ShutdownInv, TypeOK, EndAgrees, WorkerLeaves, parent, pipe, views
<1>6. LeasesHeld'
  BY DEF ShutdownInv, TypeOK, LeasesHeld, Writing, Holding, WorkerLeaves, parent, pipe, views
<1>7. TasksKnow'
  <2>1. TypeOK /\ TasksKnow /\ UNCHANGED <<task, lease>>
    BY DEF ShutdownInv, WorkerLeaves, views
  <2>2. \A p \in Owners : collector[p] # "new" => collector'[p] # "new"
    BY DEF ShutdownInv, TypeOK, WorkerLeaves, parent
  <2> QED
    BY <2>1, <2>2, TasksStay
<1>8. AckIsTrue'
  BY DEF ShutdownInv, TypeOK, AckIsTrue, WorkerLeaves, parent, pipe, views
<1>9. DashboardIsRight'
  BY DEF ShutdownInv, DashboardIsRight, WorkerLeaves, parent, pipe, views
<1> QED
  BY <1>1, <1>2, <1>3, <1>4, <1>5, <1>6, <1>7, <1>8, <1>9 DEF ShutdownInv

LEMMA WorkerDiesKeeps ==
  ASSUME ShutdownInv, NEW o \in Owners, WorkerDies(o)
  PROVE  ShutdownInv'
<1>1. TypeOK'
  BY WorkerDiesTypes
<1>2. InOrder'
  BY DEF ShutdownInv, TypeOK, InOrder, WorkerDies, Fault, database, parent, pipe, views
<1>3. PipeLinked'
  BY DEF ShutdownInv, TypeOK, PipeLinked, Linked, WorkerDies, Fault, database, parent, pipe,
       views
<1>4. CollectorAgrees'
  BY WorkerDiesCollector
<1>5. EndAgrees'
  BY DEF ShutdownInv, TypeOK, EndAgrees, InOrder, CollectorAgrees, Alive, WorkerDies, Fault,
       database, parent, pipe, views
<1>6. LeasesHeld'
  BY DEF ShutdownInv, TypeOK, LeasesHeld, Writing, Holding, WorkerDies, Fault, database, parent,
       pipe, views
<1>7. TasksKnow'
  <2>1. TypeOK /\ TasksKnow /\ UNCHANGED <<task, lease>>
    BY DEF ShutdownInv, WorkerDies, database, views
  <2>2. \A p \in Owners : collector[p] # "new" => collector'[p] # "new"
    BY DEF ShutdownInv, TypeOK, WorkerDies, parent
  <2> QED
    BY <2>1, <2>2, TasksStay
<1>8. AckIsTrue'
  BY DEF ShutdownInv, TypeOK, AckIsTrue, EndAgrees, Alive, WorkerDies, Fault, database, parent,
       pipe, views
<1>9. DashboardIsRight'
  BY DEF ShutdownInv, DashboardIsRight, WorkerDies, Fault, database, parent, pipe, views
<1> QED
  BY <1>1, <1>2, <1>3, <1>4, <1>5, <1>6, <1>7, <1>8, <1>9 DEF ShutdownInv

-----------------------------------------------------------------------------
(* The dashboards touch their own tasks and the rows that ask for the end. *)

LEMMA OwnersStay ==
  ASSUME ShutdownInv, UNCHANGED <<lease, paperLease, completes, parent, child, pipe>>
  PROVE  /\ InOrder' /\ PipeLinked' /\ CollectorAgrees' /\ EndAgrees' /\ LeasesHeld'
         /\ AckIsTrue'
<1>1. InOrder'
  BY DEF ShutdownInv, InOrder, child
<1>2. PipeLinked'
  BY DEF ShutdownInv, PipeLinked, Linked, IsEnd, parent, child, pipe
<1>3. CollectorAgrees'
  BY DEF ShutdownInv, CollectorAgrees, parent, child, pipe
<1>4. EndAgrees'
  BY DEF ShutdownInv, EndAgrees, parent, child, pipe
<1>5. LeasesHeld'
  BY DEF ShutdownInv, LeasesHeld, Holding, Writing, parent, child
<1>6. AckIsTrue'
  BY DEF ShutdownInv, AckIsTrue, parent, child
<1> QED
  BY <1>1, <1>2, <1>3, <1>4, <1>5, <1>6

Statuses == {"idle", "stopping", "stopped", "another", "unclean", "late"}
Task == [status : Statuses, at : {"idle", "looking", "looked", "ended"},
         owner : OwnerOrNone, current : OwnerOrNone]

\* A task is replaced as a whole.
LEMMA TaskType ==
  ASSUME TypeOK, NEW d \in Dashboards, NEW s \in Statuses,
         NEW a \in {"idle", "looking", "looked", "ended"},
         NEW w \in OwnerOrNone, NEW c \in OwnerOrNone,
         task' = [task EXCEPT ![d] = [status |-> s, at |-> a, owner |-> w, current |-> c]]
  PROVE  /\ task' \in [Dashboards -> Task]
         /\ task'[d].status = s /\ task'[d].at = a /\ task'[d].owner = w /\ task'[d].current = c
         /\ \A e \in Dashboards : e # d => task'[e] = task[e]
<1> DEFINE new == [status |-> s, at |-> a, owner |-> w, current |-> c]
<1>1. new \in Task /\ new.status = s /\ new.at = a /\ new.owner = w /\ new.current = c
  BY DEF Task
<1>2. task \in [Dashboards -> Task]
  BY DEF TypeOK, Task, Statuses
<1>3. task' = [task EXCEPT ![d] = new]
  OBVIOUS
<1> HIDE DEF new
<1>4. /\ task' \in [Dashboards -> Task] /\ task'[d] = new
      /\ \A e \in Dashboards : e # d => task'[e] = task[e]
  BY <1>1, <1>2, <1>3
<1> QED
  BY <1>1, <1>4

LEMMA TaskFields ==
  ASSUME TypeOK, NEW d \in Dashboards
  PROVE  task[d].status \in Statuses /\ task[d].owner \in OwnerOrNone /\ task[d].current \in OwnerOrNone
BY DEF TypeOK, Task, Statuses

LEMMA ConfirmKeeps ==
  ASSUME ShutdownInv, NEW d \in Dashboards, Confirm(d)
  PROVE  ShutdownInv'
<1>1. TypeOK /\ TasksKnow /\ DashboardIsRight /\ LeasesHeld /\ lease \in OwnerOrNone /\ None \in OwnerOrNone
  BY DEF ShutdownInv, TypeOK, OwnerOrNone
<1>2. UNCHANGED <<lease, paperLease, completes, parent, child, pipe, faults>>
  BY DEF Confirm
<1>3. task' = [task EXCEPT ![d] = [status |-> "stopping", at |-> "looking",
                                   owner |-> lease, current |-> None]]
  BY DEF Confirm
<1>4. /\ task' \in [Dashboards -> Task]
      /\ task'[d].status = "stopping" /\ task'[d].at = "looking" /\ task'[d].owner = lease
      /\ \A e \in Dashboards : e # d => task'[e] = task[e]
  BY <1>1, <1>3, TaskType DEF Statuses
<1>5. requests' \subseteq Owners /\ confirms' \in 0..MaxConfirms
  BY ShutdownAssumption DEF ShutdownInv, TypeOK, OwnerOrNone, Confirm
<1>6. TypeOK'
  BY <1>1, <1>2, <1>4, <1>5 DEF TypeOK, Task, Statuses, parent, child, pipe
<1>7. TasksKnow'
  BY <1>1, <1>2, <1>4 DEF TasksKnow, LeasesHeld, OwnerOrNone, parent
<1>8. DashboardIsRight'
  BY <1>1, <1>2, <1>4 DEF DashboardIsRight
<1> QED
  BY <1>2, <1>6, <1>7, <1>8, OwnersStay DEF ShutdownInv

LEMMA LookKeeps ==
  ASSUME ShutdownInv, NEW d \in Dashboards, Look(d)
  PROVE  ShutdownInv'
<1>1. TypeOK /\ TasksKnow /\ DashboardIsRight /\ lease \in OwnerOrNone
  BY DEF ShutdownInv, TypeOK
<1>2. UNCHANGED <<database, parent, child, pipe, confirms, faults>>
  BY DEF Look
<1>3. task' = [task EXCEPT ![d] = [status |-> task[d].status, at |-> "looked",
                                   owner |-> task[d].owner, current |-> lease]]
  BY DEF Look
<1>4. /\ task' \in [Dashboards -> Task]
      /\ task'[d].status = task[d].status /\ task'[d].at = "looked"
      /\ task'[d].owner = task[d].owner /\ task'[d].current = lease
      /\ \A e \in Dashboards : e # d => task'[e] = task[e]
  <2>1. task[d].status \in Statuses /\ task[d].owner \in OwnerOrNone
    BY <1>1, TaskFields
  <2> QED
    BY <1>1, <1>3, <2>1, TaskType
<1>5. TypeOK'
  BY <1>1, <1>2, <1>4 DEF TypeOK, Task, Statuses, database, parent, child, pipe
<1>6. TasksKnow'
  BY <1>1, <1>2, <1>4 DEF TasksKnow, database, parent
<1>7. DashboardIsRight'
  BY <1>1, <1>2, <1>4 DEF DashboardIsRight, database
<1>8. UNCHANGED <<lease, paperLease, completes, parent, child, pipe>>
  BY <1>2 DEF database
<1> QED
  BY <1>5, <1>6, <1>7, <1>8, OwnersStay DEF ShutdownInv

(* Every verdict follows from the lease at the last look, the owner's going *)
(* being for good, and from the acknowledgement read after it.              *)
LEMMA DecideKeeps ==
  ASSUME ShutdownInv, NEW d \in Dashboards, Decide(d)
  PROVE  ShutdownInv'
<1>1. TypeOK /\ TasksKnow /\ DashboardIsRight /\ None \in OwnerOrNone
  BY DEF ShutdownInv, OwnerOrNone
<1>2. UNCHANGED <<database, parent, child, pipe, confirms, faults>> /\ task[d].at = "looked"
  BY DEF Decide
<1>3. PICK s \in Statuses, a \in {"looking", "ended"} :
        /\ Verdict(d, s, a)
        /\ s = "stopped" => task[d].current = None /\ (task[d].owner = None \/ task[d].owner \in completes)
        /\ s = "another" => task[d].current # task[d].owner
        /\ s = "unclean" => /\ task[d].current = None /\ task[d].owner # None
                            /\ task[d].owner \notin completes
  BY DEF Decide, Statuses
<1>4. /\ task' \in [Dashboards -> Task]
      /\ task'[d].status = s /\ task'[d].at = a /\ task'[d].owner = task[d].owner
      /\ \A e \in Dashboards : e # d => task'[e] = task[e]
  BY <1>1, <1>3, TaskType, TaskFields DEF Verdict
<1>5. TypeOK'
  BY <1>1, <1>2, <1>4 DEF TypeOK, Task, Statuses, database, parent, child, pipe
<1>6. TasksKnow'
  BY <1>1, <1>2, <1>3, <1>4 DEF TasksKnow, database, parent
<1>7. task[d].owner # None /\ task[d].current # task[d].owner => lease # task[d].owner
  BY <1>1, <1>2 DEF TasksKnow
<1>8. DashboardIsRight'
  BY <1>1, <1>2, <1>3, <1>4, <1>7 DEF DashboardIsRight, database
<1>9. UNCHANGED <<lease, paperLease, completes, parent, child, pipe>>
  BY <1>2 DEF database
<1> QED
  BY <1>5, <1>6, <1>8, <1>9, OwnersStay DEF ShutdownInv

-----------------------------------------------------------------------------

LEMMA ShutdownInit == Init => ShutdownInv
<1> SUFFICES ASSUME Init PROVE ShutdownInv
  OBVIOUS
<1>1. [from |-> 1, to |-> 0] \in Batch
  BY BatchMade, ShutdownAssumption
<1>2. hand = [o \in Owners |-> [from |-> 1, to |-> 0]]
  BY DEF Init
<1>3. hand \in [Owners -> Batch] /\ \A o \in Owners : hand[o].from = 1 /\ hand[o].to = 0
  BY <1>1, <1>2
<1>4. task \in [Dashboards -> [status : {"idle", "stopping", "stopped", "another", "unclean", "late"},
                               at : {"idle", "looking", "looked", "ended"},
                               owner : OwnerOrNone, current : OwnerOrNone]]
      /\ \A d \in Dashboards : task[d].status = "idle" /\ task[d].owner = None
  BY DEF Init, OwnerOrNone
<1>5. inputs \in [Owners -> Seq(Batch)]
  BY DEF Init
<1>6. TypeOK
  BY <1>3, <1>4, <1>5, ShutdownAssumption DEF Init, TypeOK, OwnerOrNone, Row
<1>7. InOrder
  <2>1. \A o \in Owners : applied[o] = {} /\ processed[o] = 0 /\ worker[o] = "none"
    BY DEF Init
  <2>2. \A o \in Owners : applied[o] = 1..processed[o]
    <3>1. 1..0 = {}
      OBVIOUS
    <3> QED
      BY <2>1, <3>1, Zenon
  <2>3. \A o \in Owners : hand[o].from = 1 /\ hand[o].to = 0
    BY <1>3
  <2>4. \A o \in Owners : /\ hand[o].from = processed[o] + 1 /\ hand[o].from <= hand[o].to + 1
                         /\ processed[o] = hand[o].to /\ worker[o] # "applying"
    <3>1. 0 + 1 = 1 /\ 1 <= 1 /\ "none" # "applying"
      OBVIOUS
    <3> QED
      BY <2>1, <2>3, <3>1, Zenon
  <2> QED
    BY <2>2, <2>4, Zenon DEF InOrder
<1>8. PipeLinked
  <2>1. \A o \in Owners : inputs[o] = << >> /\ submitted[o] = 0
    BY DEF Init
  <2>2. Len(<< >>) = 0 /\ 1..0 = {}
    OBVIOUS
  <2>3. \A o \in Owners : 1..Len(inputs[o]) = {}
    BY <2>1, <2>2
  <2> QED
    BY <1>3, <2>1, <2>3 DEF PipeLinked, Linked
<1>9. CollectorAgrees /\ EndAgrees
  BY ShutdownAssumption DEF Init, CollectorAgrees, EndAgrees
<1>10. LeasesHeld
  BY ShutdownAssumption DEF Init, LeasesHeld, Holding, Writing
<1>11. TasksKnow /\ AckIsTrue /\ DashboardIsRight
  BY <1>4 DEF Init, TasksKnow, AckIsTrue, DashboardIsRight
<1> QED
  BY <1>6, <1>7, <1>8, <1>9, <1>10, <1>11 DEF ShutdownInv

LEMMA ShutdownNext == ShutdownInv /\ [Next]_vars => ShutdownInv'
<1> SUFFICES ASSUME ShutdownInv, [Next]_vars PROVE ShutdownInv'
  OBVIOUS
<1>1. ASSUME NEW o \in Owners, Collector(o) PROVE ShutdownInv'
  BY <1>1, StartKeeps, ReadyKeeps, NotReadyKeeps, CrashKeeps, ReceiveKeeps, TakeBatchKeeps,
     FailsWorkerKeeps, StopKeeps, DrainedKeeps, FailsKeeps, CloseAsksKeeps, CloseJoinsKeeps,
     FinishKeeps, ReleaseEarlyKeeps, SweptKeeps DEF Collector
<1>2. ASSUME NEW o \in Owners, Simulation(o) PROVE ShutdownInv'
  BY <1>2, WorkerStartsKeeps, WorkerTakesKeeps, WorkerAppliesKeeps, WorkerRaisesKeeps,
     WorkerLeavesKeeps, WorkerDiesKeeps DEF Simulation
<1>3. ASSUME NEW d \in Dashboards, Dashboard(d) PROVE ShutdownInv'
  BY <1>3, ConfirmKeeps, LookKeeps, DecideKeeps DEF Dashboard
<1>4. CASE UNCHANGED vars
  <2>1. TypeOK'
    BY <1>4 DEF ShutdownInv, TypeOK, vars, database, parent, child, pipe, views
  <2>2. TasksKnow' /\ DashboardIsRight'
    BY <1>4 DEF ShutdownInv, TasksKnow, DashboardIsRight, vars, database, parent, views
  <2>3. UNCHANGED <<lease, paperLease, completes, parent, child, pipe>>
    BY <1>4 DEF vars, database
  <2> QED
    BY <2>1, <2>2, <2>3, OwnersStay DEF ShutdownInv
<1> QED
  BY <1>1, <1>2, <1>3, <1>4 DEF Next

(* ShutdownInv is an inductive invariant of the collector's start and end, *)
(* its worker's and the dashboards'.                                       *)
THEOREM ShutdownInvariant == Spec => []ShutdownInv
BY ShutdownInit, ShutdownNext, PTL DEF Spec

(* Every variable of the leases, the pipe, both processes and the tasks    *)
(* has its type.                                                           *)
THEOREM ShutdownTypes == Spec => []TypeOK
<1>1. ShutdownInv => TypeOK
  BY DEF ShutdownInv
<1> QED
  BY <1>1, ShutdownInvariant, PTL

(* No row is passed over by _paper_main: what a simulation applied is a    *)
(* prefix of what its collector received.                                  *)
THEOREM NoRowIsSkipped == Spec => []NothingSkipped
<1>1. ShutdownInv => NothingSkipped
  BY ShutdownAssumption DEF ShutdownInv, TypeOK, InOrder, NothingSkipped, Row
<1> QED
  BY <1>1, ShutdownInvariant, PTL

(* collect() acknowledges a shutdown only with every row applied and saved *)
(* by a worker that ended without an error.                                *)
THEOREM AcknowledgementIsTrue == Spec => []AckIsTrue
<1>1. ShutdownInv => AckIsTrue
  BY DEF ShutdownInv
<1> QED
  BY <1>1, ShutdownInvariant, PTL

(* The paper-simulation lease keeps two workers from writing one ledger,   *)
(* whatever became of their collectors.                                    *)
THEOREM OnlyOneWriter == Spec => []OneWriter
<1>1. ShutdownInv => OneWriter
  BY DEF ShutdownInv, LeasesHeld, OneWriter
<1> QED
  BY <1>1, ShutdownInvariant, PTL

(* What finish_shutdown and the fleet's watch report of an owner is so.    *)
THEOREM ReportsAreRight == Spec => []DashboardIsRight
<1>1. ShutdownInv => DashboardIsRight
  BY DEF ShutdownInv
<1> QED
  BY <1>1, ShutdownInvariant, PTL

=============================================================================
