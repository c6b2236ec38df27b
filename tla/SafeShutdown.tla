------------------------------ MODULE SafeShutdown ------------------------------
(***************************************************************************)
(* How a collector with a separate paper simulation starts and stops: the  *)
(* writer leases (storage.py), the pipe to the paper worker's process and  *)
(* its end (paper_worker.py, runner.py), and the dashboards that ask for a *)
(* safe shutdown and wait for its acknowledgement (fleet.py, dashboard.py, *)
(* shutdown.py).  One asset's database; an owner is one collector process  *)
(* together with the worker process it spawns.                             *)
(*                                                                         *)
(* The rows an owner receives are numbered from 1.  A batch is an interval *)
(* of them; the None that ends the pipe is the empty batch.                *)
(***************************************************************************)
EXTENDS Integers, Sequences

CONSTANTS Owners, None,
          Dashboards,    \* subset of {"all", "asset", "single"}
          Capacity,      \* batches the pipe holds
          MaxRows,       \* bound: rows an owner receives before its stop
          MaxConfirms,   \* bound: shutdowns the operators ask for
          MaxFaults      \* bound: what goes wrong by itself

ASSUME ShutdownAssumption ==
  /\ None \notin Owners
  /\ Dashboards \subseteq {"all", "asset", "single"}
  /\ Capacity \in Nat \ {0} /\ MaxRows \in Nat
  /\ MaxConfirms \in Nat /\ MaxFaults \in Nat

VARIABLES
  lease, paperLease,     \* rows "collector" and "paper-simulation" of leases
  requests, completes,   \* owners with a shutdown_request, a shutdown_complete
  collector,             \* where collect() is
  clean,                 \* it left its task group without an exception
  closing,               \* where PaperWorker.close() is
  received, taken,       \* rows emitted, rows given to process_batch
  submitted,             \* the last row put into the pipe
  inputs, failed,        \* the pipe and the event both processes share
  worker,                \* where _paper_main is
  hand, processed,       \* the batch it works on, the last row applied
  applied, saved,        \* rows the engine applied, those of the final checkpoint
  sound,                 \* its loop ended without an exception
  task, confirms,        \* the dashboards' stop tasks
  faults                 \* faults so far

database == <<lease, paperLease, requests, completes>>
parent == <<collector, clean, closing, received, taken, submitted>>
child == <<worker, hand, processed, applied, saved, sound>>
pipe == <<inputs, failed>>
views == <<task, confirms>>
vars == <<database, parent, child, pipe, views, faults>>

Alive(o) == worker[o] \in {"spawned", "ready", "applying", "ending"}
Writing(o) == worker[o] \in {"ready", "applying", "ending"}
Over(o) == collector[o] \in {"gone", "dead"}
OwnerOrNone == Owners \cup {None}
Row == 0..(MaxRows + 1)
Batch == [from : 1..(MaxRows + 2), to : Row]
IsEnd(batch) == batch.from > batch.to

Init ==
  /\ lease = None /\ paperLease = None /\ requests = {} /\ completes = {}
  /\ collector = [o \in Owners |-> "new"]
  /\ clean = [o \in Owners |-> FALSE]
  /\ closing = [o \in Owners |-> "open"]
  /\ received = [o \in Owners |-> 0]
  /\ taken = [o \in Owners |-> 0]
  /\ submitted = [o \in Owners |-> 0]
  /\ inputs = [o \in Owners |-> << >>]
  /\ failed = [o \in Owners |-> FALSE]
  /\ worker = [o \in Owners |-> "none"]
  /\ hand = [o \in Owners |-> [from |-> 1, to |-> 0]]
  /\ processed = [o \in Owners |-> 0]
  /\ applied = [o \in Owners |-> {}]
  /\ saved = [o \in Owners |-> {}]
  /\ sound = [o \in Owners |-> FALSE]
  /\ task = [d \in Dashboards |-> [status |-> "idle", at |-> "idle",
                                   owner |-> None, current |-> None]]
  /\ confirms = 0 /\ faults = 0

Fault == faults < MaxFaults /\ faults' = faults + 1
NoFault == UNCHANGED faults

-----------------------------------------------------------------------------
(* Leases: acquire() takes a free row, or one whose process is proved dead *)

Free(key) == key = None \/ (key \in Owners /\ Over(key))
\* Mutant: the holder is judged by its collector's process.
PaperFreeByCollector ==
  paperLease = None \/ (paperLease \in Owners /\ Over(paperLease))

PaperFree == paperLease = None \/ (paperLease \in Owners /\ ~Alive(paperLease))

Fresh == CHOOSE o \in Owners : collector[o] = "new"   \* uuid4()

(* collect() takes the lease and spawns the worker, or finds it owned. *)
Start(o) ==
  /\ collector[o] = "new" /\ o = Fresh
  /\ \/ /\ Free(lease)
        /\ lease' = o
        /\ collector' = [collector EXCEPT ![o] = "starting"]
        /\ worker' = [worker EXCEPT ![o] = "spawned"]
     \/ /\ ~Free(lease)
        /\ collector' = [collector EXCEPT ![o] = "gone"]
        /\ UNCHANGED <<lease, worker>>
  /\ UNCHANGED <<paperLease, requests, completes, clean, closing, received, taken,
                 submitted, hand, processed, applied, saved, sound, pipe, views, faults>>

(* start() polls until READY; a failure or its 30 seconds close the worker. *)
Ready(o) ==
  /\ collector[o] = "starting" /\ closing[o] = "open"
  /\ Writing(o) /\ ~failed[o]
  /\ collector' = [collector EXCEPT ![o] = "running"]
  /\ UNCHANGED <<database, clean, closing, received, taken, submitted, child, pipe, views, faults>>

NotReady(o) ==
  /\ collector[o] = "starting"
  /\ collector' = [collector EXCEPT ![o] = "closing"]
  /\ UNCHANGED <<database, clean, closing, received, taken, submitted, child, pipe, views, faults>>

(* SIGKILL, power loss: the lease stays, and so does the worker's process. *)
Crash(o) ==
  /\ Fault
  /\ collector[o] \notin {"new", "gone", "dead"}
  /\ collector' = [collector EXCEPT ![o] = "dead"]
  /\ UNCHANGED <<database, clean, closing, received, taken, submitted, child, pipe, views>>

-----------------------------------------------------------------------------
(* The collector while it runs *)

Receive(o) ==
  /\ collector[o] = "running"
  /\ received[o] < MaxRows
  /\ received' = [received EXCEPT ![o] = @ + 1]
  /\ UNCHANGED <<database, collector, clean, closing, taken, submitted, child, pipe, views, faults>>

(* submit(): poll() first, which finds a worker that has ended. *)
Submit(o, batch) ==
  \/ /\ ~failed[o] /\ Alive(o) /\ Len(inputs[o]) < Capacity
     /\ inputs' = [inputs EXCEPT ![o] = Append(@, batch)]
     /\ submitted' = [submitted EXCEPT ![o] = batch.to]
     /\ UNCHANGED failed
  \/ /\ failed[o] \/ ~Alive(o) \/ Len(inputs[o]) >= Capacity
     /\ failed' = [failed EXCEPT ![o] = TRUE]
     /\ UNCHANGED <<inputs, submitted>>

TakeBatch(o) ==
  /\ collector[o] \in {"running", "draining"}
  /\ \E last \in (taken[o] + 1)..received[o] :
       /\ Submit(o, [from |-> taken[o] + 1, to |-> last])
       /\ taken' = [taken EXCEPT ![o] = last]
  /\ UNCHANGED <<database, collector, clean, closing, received, child, views, faults>>

(* poll() for the status, and reference() without its lock in time. *)
FailsWorker(o) ==
  /\ Fault
  /\ collector[o] \in {"running", "draining"}
  /\ failed' = [failed EXCEPT ![o] = TRUE]
  /\ UNCHANGED <<database, parent, child, inputs, views>>

(* The clock finds the request, the duration ends, a signal comes: producers
   are cancelled and the disconnection is the last row. *)
Stop(o) ==
  /\ collector[o] = "running"
  /\ collector' = [collector EXCEPT ![o] = "draining"]
  /\ received' = [received EXCEPT ![o] = @ + 1]
  /\ UNCHANGED <<database, clean, closing, taken, submitted, child, pipe, views, faults>>

Drained(o) ==
  /\ collector[o] = "draining" /\ taken[o] = received[o]
  /\ collector' = [collector EXCEPT ![o] = "closing"]
  /\ clean' = [clean EXCEPT ![o] = TRUE]
  /\ UNCHANGED <<database, closing, received, taken, submitted, child, pipe, views, faults>>

(* Any exception: overflow, disk, database, a task of the group. *)
Fails(o) ==
  /\ Fault
  /\ collector[o] \in {"running", "draining"}
  /\ collector' = [collector EXCEPT ![o] = "failing"]
  /\ UNCHANGED <<database, clean, closing, received, taken, submitted, child, pipe, views>>

-----------------------------------------------------------------------------
(* close(): ask for the end, join for 30 seconds, terminate *)

CloseAsks(o) ==
  /\ collector[o] \in {"closing", "sweeping"} /\ closing[o] = "open"
  /\ closing' = [closing EXCEPT ![o] = "asked"]
  /\ \/ /\ Alive(o) /\ ~failed[o] /\ Len(inputs[o]) < Capacity
        /\ inputs' = [inputs EXCEPT ![o] =
             Append(@, [from |-> submitted[o] + 1, to |-> submitted[o]])]
        /\ UNCHANGED failed
     \/ /\ Alive(o) /\ ~failed[o] /\ Len(inputs[o]) >= Capacity
        /\ failed' = [failed EXCEPT ![o] = TRUE]
        /\ UNCHANGED inputs
     \/ (~Alive(o) \/ failed[o]) /\ UNCHANGED pipe
  /\ UNCHANGED <<database, collector, clean, received, taken, submitted, child, views, faults>>

\* Mutant: the join has no time limit.
CloseJoinsForEver(o) ==
  /\ collector[o] \in {"closing", "sweeping"} /\ closing[o] = "asked"
  /\ ~Alive(o)
  /\ closing' = [closing EXCEPT ![o] = "closed"]
  /\ failed' = [failed EXCEPT ![o] = @ \/ worker[o] # "exited"]
  /\ UNCHANGED <<database, collector, clean, received, taken, submitted, inputs,
                 child, views, faults>>

CloseJoins(o) ==
  /\ collector[o] \in {"closing", "sweeping"} /\ closing[o] = "asked"
  /\ closing' = [closing EXCEPT ![o] = "closed"]
  /\ worker' = [worker EXCEPT ![o] = IF Alive(o) THEN "killed" ELSE @]
  /\ failed' = [failed EXCEPT ![o] = @ \/ worker[o] # "exited"]
  /\ UNCHANGED <<database, collector, clean, received, taken, submitted, inputs,
                 hand, processed, applied, saved, sound, views, faults>>

(* The acknowledgement and the release are one transaction.  What flushes
   before it may fail, and takes the acknowledgement away. *)
Release(o, ack) ==
  /\ completes' = IF ack THEN completes \cup {o} ELSE completes
  /\ lease' = IF lease = o THEN None ELSE lease
  /\ UNCHANGED <<paperLease, requests>>

\* Mutant: the worker's failure is not looked at.
FinishAnyway(o) ==
  /\ collector[o] = "closing" /\ closing[o] = "closed"
  /\ collector' = [collector EXCEPT ![o] = "gone"]
  /\ Release(o, clean[o])
  /\ UNCHANGED <<clean, closing, received, taken, submitted, child, pipe, views, faults>>

Finish(o) ==
  /\ collector[o] = "closing" /\ closing[o] = "closed"
  /\ collector' = [collector EXCEPT ![o] = "gone"]
  /\ \/ clean[o] /\ ~failed[o] /\ Release(o, TRUE)
     \/ Release(o, FALSE)
  /\ UNCHANGED <<clean, closing, received, taken, submitted, child, pipe, views, faults>>

(* After an exception the lease goes first and the worker is closed last. *)
ReleaseEarly(o) ==
  /\ collector[o] = "failing"
  /\ collector' = [collector EXCEPT ![o] = "sweeping"]
  /\ Release(o, FALSE)
  /\ UNCHANGED <<clean, closing, received, taken, submitted, child, pipe, views, faults>>

Swept(o) ==
  /\ collector[o] = "sweeping" /\ closing[o] = "closed"
  /\ collector' = [collector EXCEPT ![o] = "gone"]
  /\ UNCHANGED <<database, clean, closing, received, taken, submitted, child, pipe, views, faults>>

-----------------------------------------------------------------------------
(* _paper_main: its own lease, one row at a time, one checkpoint at the end *)

(* The lease is held by a live process, or the engine does not start. *)
WorkerStarts(o) ==
  /\ worker[o] = "spawned"
  /\ \/ /\ PaperFree
        /\ paperLease' = o
        /\ worker' = [worker EXCEPT ![o] = "ready"]
        /\ UNCHANGED failed /\ NoFault
     \/ /\ worker' = [worker EXCEPT ![o] = "broken"]
        /\ failed' = [failed EXCEPT ![o] = TRUE]
        /\ UNCHANGED paperLease
        /\ IF PaperFree THEN Fault ELSE NoFault
  /\ UNCHANGED <<lease, requests, completes, parent, inputs, hand, processed, applied,
                 saved, sound, views>>

WorkerTakes(o) ==
  /\ worker[o] = "ready" /\ inputs[o] # << >>
  /\ inputs' = [inputs EXCEPT ![o] = Tail(@)]
  /\ \/ /\ ~IsEnd(Head(inputs[o]))
        /\ worker' = [worker EXCEPT ![o] = "applying"]
        /\ hand' = [hand EXCEPT ![o] = Head(inputs[o])]
        /\ UNCHANGED sound
     \/ /\ IsEnd(Head(inputs[o]))
        /\ worker' = [worker EXCEPT ![o] = "ending"]
        /\ sound' = [sound EXCEPT ![o] = ~failed[o]]
        /\ UNCHANGED hand
  /\ UNCHANGED <<database, parent, failed, processed, applied, saved, views, faults>>

\* Mutant: a row that raises is passed over.
WorkerPassesOver(o) ==
  /\ worker[o] = "applying" /\ ~failed[o]
  /\ \/ applied' = [applied EXCEPT ![o] = @ \cup {hand[o].from}]
     \/ UNCHANGED applied
  /\ processed' = [processed EXCEPT ![o] = hand[o].from]
  /\ hand' = [hand EXCEPT ![o] = [from |-> hand[o].from + 1, to |-> hand[o].to]]
  /\ worker' = [worker EXCEPT ![o] =
       IF hand[o].from = hand[o].to THEN "ready" ELSE @]
  /\ UNCHANGED <<database, parent, pipe, saved, sound, views, faults>>

WorkerApplies(o) ==
  /\ worker[o] = "applying" /\ ~failed[o]
  /\ applied' = [applied EXCEPT ![o] = @ \cup {hand[o].from}]
  /\ processed' = [processed EXCEPT ![o] = hand[o].from]
  /\ hand' = [hand EXCEPT ![o] = [from |-> hand[o].from + 1, to |-> hand[o].to]]
  /\ worker' = [worker EXCEPT ![o] =
       IF hand[o].from = hand[o].to THEN "ready" ELSE @]
  /\ UNCHANGED <<database, parent, pipe, saved, sound, views, faults>>

(* The event, a vanished parent, a lock held too long, a failing database. *)
WorkerRaises(o) ==
  /\ worker[o] \in {"ready", "applying"}
  /\ worker' = [worker EXCEPT ![o] = "ending"]
  /\ failed' = [failed EXCEPT ![o] = TRUE]
  /\ sound' = [sound EXCEPT ![o] = FALSE]
  /\ IF failed[o] \/ Over(o) THEN NoFault ELSE Fault
  /\ UNCHANGED <<database, parent, inputs, hand, processed, applied, saved, views>>

WorkerLeaves(o) ==
  /\ worker[o] = "ending"
  /\ saved' = [saved EXCEPT ![o] = applied[o]]
  /\ paperLease' = IF paperLease = o THEN None ELSE paperLease
  /\ worker' = [worker EXCEPT ![o] = IF sound[o] THEN "exited" ELSE "broken"]
  /\ UNCHANGED <<lease, requests, completes, parent, hand, processed, applied, sound,
                 pipe, views, faults>>

(* Killed, or an exception in the finally clause: the lease stays. *)
WorkerDies(o) ==
  /\ Fault
  /\ Alive(o)
  /\ worker' = [worker EXCEPT ![o] = "killed"]
  /\ UNCHANGED <<database, parent, hand, processed, applied, saved, sound, pipe, views>>

-----------------------------------------------------------------------------
(* Dashboards: confirm, disable live entries, ask the owner, watch the rows *)

Status(d) == IF d \in Dashboards THEN task[d].status ELSE "idle"

(* The fleet's handlers run under shutdown_lock; the execution service has
   disabled live entries first (its error leaves everything as it was). *)
MayConfirm(d) ==
  \/ d # "asset" /\ Status(d) \notin {"stopping", "stopped"}
  \/ d = "asset" /\ Status("all") # "stopping" /\ Status(d) # "stopping"

(* The owner is read and asked in one transaction; nothing of a confirmation
   is visible before it. *)
Confirm(d) ==
  /\ confirms < MaxConfirms /\ MayConfirm(d)
  /\ confirms' = confirms + 1
  /\ requests' = requests \cup (IF lease = None THEN {} ELSE {lease})
  /\ task' = [task EXCEPT ![d] = [status |-> "stopping", at |-> "looking",
                                  owner |-> lease, current |-> None]]
  /\ UNCHANGED <<lease, paperLease, completes, parent, child, pipe, faults>>

(* finish_shutdown: the lease is read first, the acknowledgement after it. *)
Look(d) ==
  /\ task[d].at = "looking"
  /\ task' = [task EXCEPT ![d] = [status |-> task[d].status, at |-> "looked",
                                  owner |-> task[d].owner, current |-> lease]]
  /\ UNCHANGED <<database, parent, child, pipe, confirms, faults>>

Verdict(d, status, at) ==
  task' = [task EXCEPT ![d] = [status |-> status, at |-> at,
                               owner |-> task[d].owner, current |-> None]]

\* Mutant: any collector's acknowledgement will do.
DecideByAny(d) ==
  LET owner == task[d].owner
      current == task[d].current
      completed == completes # {}
  IN
  /\ task[d].at = "looked"
  /\ \/ current = None /\ (owner = None \/ completed) /\ Verdict(d, "stopped", "ended")
     \/ current \notin {None, owner} /\ Verdict(d, "another", "ended")
     \/ current = None /\ owner # None /\ ~completed /\ Verdict(d, "unclean", "ended")
     \/ current = owner /\ owner # None /\ Verdict(d, "late", "ended")
     \/ current = owner /\ owner # None /\ Verdict(d, "stopping", "looking")
  /\ UNCHANGED <<database, parent, child, pipe, confirms, faults>>

Decide(d) ==
  LET owner == task[d].owner
      current == task[d].current
      completed == owner \in completes
  IN
  /\ task[d].at = "looked"
  /\ \/ current = None /\ (owner = None \/ completed) /\ Verdict(d, "stopped", "ended")
     \/ current \notin {None, owner} /\ Verdict(d, "another", "ended")
     \/ current = None /\ owner # None /\ ~completed /\ Verdict(d, "unclean", "ended")
     \/ current = owner /\ owner # None /\ Verdict(d, "late", "ended")
     \/ current = owner /\ owner # None /\ Verdict(d, "stopping", "looking")
  /\ UNCHANGED <<database, parent, child, pipe, confirms, faults>>

-----------------------------------------------------------------------------
Collector(o) ==
  \/ Start(o) \/ Ready(o) \/ NotReady(o) \/ Crash(o)
  \/ Receive(o) \/ TakeBatch(o) \/ FailsWorker(o) \/ Stop(o) \/ Drained(o) \/ Fails(o)
  \/ CloseAsks(o) \/ CloseJoins(o) \/ Finish(o) \/ ReleaseEarly(o) \/ Swept(o)

Simulation(o) ==
  \/ WorkerStarts(o) \/ WorkerTakes(o) \/ WorkerApplies(o) \/ WorkerRaises(o)
  \/ WorkerLeaves(o) \/ WorkerDies(o)

Dashboard(d) ==
  Confirm(d) \/ Look(d) \/ Decide(d)

Next ==
  \/ \E o \in Owners : Collector(o) \/ Simulation(o)
  \/ \E d \in Dashboards : Dashboard(d)

Spec == Init /\ [][Next]_vars

(* The clock reads the requests twice a second; start() and close() have time
   limits; batches and what ends a collector are finite.  Nothing is assumed
   of the worker, of a failure or of the dashboards. *)
Fairness ==
  \A o \in Owners :
    /\ WF_vars(Ready(o) \/ NotReady(o))
    /\ WF_vars(o \in requests /\ Stop(o))
    /\ WF_vars(TakeBatch(o)) /\ WF_vars(Drained(o))
    /\ WF_vars(CloseAsks(o)) /\ WF_vars(CloseJoins(o))
    /\ WF_vars(Finish(o)) /\ WF_vars(ReleaseEarly(o)) /\ WF_vars(Swept(o))

FairSpec == Spec /\ Fairness

-----------------------------------------------------------------------------
TypeOK ==
  /\ lease \in OwnerOrNone /\ paperLease \in OwnerOrNone
  /\ requests \subseteq Owners /\ completes \subseteq Owners
  /\ collector \in [Owners -> {"new", "starting", "running", "draining", "closing",
                               "failing", "sweeping", "gone", "dead"}]
  /\ clean \in [Owners -> BOOLEAN]
  /\ closing \in [Owners -> {"open", "asked", "closed"}]
  /\ received \in [Owners -> Row] /\ taken \in [Owners -> Row]
  /\ submitted \in [Owners -> Row]
  /\ inputs \in [Owners -> Seq(Batch)] /\ failed \in [Owners -> BOOLEAN]
  /\ worker \in [Owners -> {"none", "spawned", "ready", "applying", "ending",
                            "exited", "broken", "killed"}]
  /\ hand \in [Owners -> Batch] /\ processed \in [Owners -> Row]
  /\ applied \in [Owners -> SUBSET Row] /\ saved \in [Owners -> SUBSET Row]
  /\ sound \in [Owners -> BOOLEAN]
  /\ task \in [Dashboards -> [
       status : {"idle", "stopping", "stopped", "another", "unclean", "late"},
       at : {"idle", "looking", "looked", "ended"},
       owner : OwnerOrNone, current : OwnerOrNone]]
  /\ confirms \in 0..MaxConfirms /\ faults \in 0..MaxFaults

(* "No events may be skipped": what the simulation has applied is a prefix of
   what the collector received, whatever overflowed, failed or was refused. *)
NothingSkipped ==
  \A o \in Owners : \A r \in applied[o] : r >= 1 /\ \A q \in 1..r : q \in applied[o]

(* A shutdown is acknowledged only by a collector every row of which, the last
   disconnection included, was applied by a simulation that saved them all and
   ended without an error. *)
AckIsTrue ==
  \A o \in completes :
    /\ worker[o] = "exited" /\ saved[o] = applied[o]
    /\ applied[o] = 1..received[o]

(* Two simulations never write the same ledger: not while an orphan outlives
   its collector, and not when the lease was released before the worker ended. *)
OneWriter ==
  \A o, p \in Owners : Writing(o) /\ Writing(p) => o = p

(* What a dashboard tells the operator is so: "stopped" for an owner that
   acknowledged, "without acknowledgement" for one that never will, "another
   collector" only when the one asked has left. *)
DashboardIsRight ==
  \A d \in Dashboards :
    LET owner == task[d].owner IN
    /\ task[d].status = "stopped" => (owner = None \/ (owner \in completes /\ lease # owner))
    /\ task[d].status = "unclean" => (owner \notin completes /\ lease # owner)
    /\ task[d].status = "another" => (owner = None \/ lease # owner)

(* A collector that was asked to stop ends, however full the pipe and however
   stuck the simulation. *)
RequestEnds ==
  \A o \in Owners : (o \in requests) ~> Over(o)

=============================================================================
