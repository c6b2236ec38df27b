----------------------------- MODULE SubmissionSlot -----------------------------
(***************************************************************************)
(* ManualTrading.submission_slot: the asynchronous context manager every   *)
(* order passes through.  Its coroutines run on one event loop, so a step  *)
(* here is the code between two awaits.  The state is the order lock (an   *)
(* asyncio.Lock, which serves its waiters in order of arrival), the count  *)
(* of pending stops and the event that says there is none.                 *)
(***************************************************************************)
EXTENDS Naturals, FiniteSets, Sequences, SequencesExt

CONSTANTS
  Stops,      \* requests that carry a HARD_STOP sale
  Buys,       \* requests that carry a buy
  Others,     \* every other request (manual sales)
  Nobody      \* the holder of a free slot, for the abstract lock

Requests == Stops \cup Buys \cup Others

ASSUME SlotAssumption ==
  /\ IsFiniteSet(Stops)
  /\ Stops \cap Buys = {}
  /\ Stops \cap Others = {}
  /\ Buys \cap Others = {}
  /\ Nobody \notin Requests

VARIABLES
  pc,             \* where each request is in submission_slot
  locked,         \* order_lock is held
  queue,          \* order_lock's waiters, in order of arrival
  pendingStops,   \* _pending_stops
  stopsDrained    \* _stops_drained.is_set()

vars == <<pc, locked, queue, pendingStops, stopsDrained>>

(* "outside": no call; "waiting": queued on the lock; "draining": in       *)
(* _stops_drained.wait(); "resuming": the event was set, the loop is about *)
(* to ask for the lock again; "inside": at the yield.                      *)
Places == {"outside", "waiting", "draining", "resuming", "inside"}

TypeOK ==
  /\ pc \in [Requests -> Places]
  /\ locked \in BOOLEAN
  /\ queue \in Seq(Requests)
  /\ pendingStops \in Nat
  /\ stopsDrained \in BOOLEAN

Init ==
  /\ pc = [r \in Requests |-> "outside"]
  /\ locked = FALSE
  /\ queue = <<>>
  /\ pendingStops = 0
  /\ stopsDrained = TRUE

-----------------------------------------------------------------------------
\* Mutant: the order of arrival decides.
GrantedInOrder(r) ==
  /\ pc' = [pc EXCEPT ![r] = "inside"]
  /\ locked' = TRUE

\* What a request does once order_lock.acquire() has returned: a buy that
\* finds a pending stop gives the lock back and waits for the event.
Granted(r) ==
  IF r \in Buys /\ pendingStops > 0
    THEN /\ pc' = [pc EXCEPT ![r] = "draining"]
         /\ locked' = FALSE
    ELSE /\ pc' = [pc EXCEPT ![r] = "inside"]
         /\ locked' = TRUE

\* order_lock.acquire(): it suspends unless the lock is free and nobody waits.
Acquire(r) ==
  \/ /\ ~locked
     /\ queue = <<>>
     /\ Granted(r)
     /\ UNCHANGED queue
  \/ /\ locked \/ queue # <<>>
     /\ pc' = [pc EXCEPT ![r] = "waiting"]
     /\ queue' = Append(queue, r)
     /\ UNCHANGED locked

\* A stop is counted before it asks for the lock.
Call(r) ==
  /\ pc[r] = "outside"
  /\ IF r \in Stops
       THEN pendingStops' = pendingStops + 1 /\ stopsDrained' = FALSE
       ELSE UNCHANGED <<pendingStops, stopsDrained>>
  /\ Acquire(r)

\* The event woke this buy: it goes round the loop.
Resume(r) ==
  /\ pc[r] = "resuming"
  /\ Acquire(r)
  /\ UNCHANGED <<pendingStops, stopsDrained>>

\* release() wakes the first waiter, which takes the lock when it runs.
Woken(r) ==
  /\ pc[r] = "waiting"
  /\ ~locked
  /\ r = Head(queue)
  /\ queue' = Tail(queue)
  /\ Granted(r)
  /\ UNCHANGED <<pendingStops, stopsDrained>>

-----------------------------------------------------------------------------
\* Mutant: the count is compared before the stop is taken off it.
LastStopTooLate(r) == r \in Stops /\ pendingStops = 0

LastStop(r) == r \in Stops /\ pendingStops = 1

\* The finally clause: one pending stop fewer; when it was the last one the
\* event is set, which wakes every buy that waits for it.
Unwind(r) ==
  /\ pc' = [q \in Requests |->
              IF q = r THEN "outside"
              ELSE IF LastStop(r) /\ pc[q] = "draining" THEN "resuming"
              ELSE pc[q]]
  /\ pendingStops' = IF r \in Stops THEN pendingStops - 1 ELSE pendingStops
  /\ stopsDrained' = (stopsDrained \/ LastStop(r))

\* The request is done, or failed, or was cancelled inside the slot.
Exit(r) ==
  /\ pc[r] = "inside"
  /\ locked' = FALSE
  /\ Unwind(r)
  /\ UNCHANGED queue

\* Cancelled at an await of the loop; it leaves the lock's waiters.
CancelWaiting(r) ==
  /\ pc[r] = "waiting"
  /\ \E i \in 1..Len(queue) : queue[i] = r /\ queue' = RemoveAt(queue, i)
  /\ Unwind(r)
  /\ UNCHANGED locked

CancelDraining(r) ==
  /\ pc[r] \in {"draining", "resuming"}
  /\ Unwind(r)
  /\ UNCHANGED <<queue, locked>>

Next ==
  \E r \in Requests :
    \/ Call(r)
    \/ Resume(r)
    \/ Woken(r)
    \/ Exit(r)
    \/ CancelWaiting(r)
    \/ CancelDraining(r)

Spec == Init /\ [][Next]_vars

(* The event loop runs every ready coroutine, and a submission ends: each  *)
(* request it makes has a timeout.  Nobody has to call or to cancel.       *)
Fairness ==
  \A r \in Requests :
    /\ WF_vars(Resume(r))
    /\ WF_vars(Woken(r))
    /\ WF_vars(Exit(r))

FairSpec == Spec /\ Fairness

-----------------------------------------------------------------------------
Inside == {r \in Requests : pc[r] = "inside"}

(* The count, the event and the lock say what the requests are doing: the  *)
(* count is the stops between their call and the end of their finally      *)
(* clause, the event is set exactly when there is none, and the lock is    *)
(* held exactly by the one request inside.  A cancelled or failed stop     *)
(* that left its count behind would hold up every later buy.               *)
Consistent ==
  /\ pendingStops = Cardinality({s \in Stops : pc[s] # "outside"})
  /\ stopsDrained <=> pendingStops = 0
  /\ \A r, q \in Inside : r = q
  /\ locked <=> Inside # {}

(* No buy sleeps on the event when no stop is there to set it: the window  *)
(* between giving the lock back and waiting loses no wakeup.               *)
NoLostWakeup ==
  \A r \in Requests : pc[r] = "draining" => r \in Buys /\ ~stopsDrained

(* The inductive form: a stop never sleeps on the event either, and a      *)
(* resuming request is a buy.                                              *)
SlotInv ==
  /\ TypeOK
  /\ Consistent
  /\ NoLostWakeup
  /\ \A r \in Requests : pc[r] = "resuming" => r \in Buys

(* "Queued stop submissions precede queued buys at the shared account      *)
(* lock": while any stop is between its call and its finally clause, no    *)
(* buy gets inside, whatever the order of arrival at the lock.             *)
StopsPrecedeBuys ==
  [][(\E s \in Stops : pc[s] # "outside" /\ pc'[s] # "outside")
       => \A b \in Buys : pc'[b] = "inside" => pc[b] = "inside"]_vars

(* Every stop or manual sale that asks for the slot gets it, or is         *)
(* cancelled; and once stops cease, so does every buy, bounced or not.     *)
EveryRequestServed ==
  /\ \A r \in Stops \cup Others : pc[r] = "waiting" ~> pc[r] \in {"inside", "outside"}
  /\ <>[](pendingStops = 0) =>
       \A b \in Buys : pc[b] # "outside" ~> pc[b] \in {"inside", "outside"}

-----------------------------------------------------------------------------
KindOf(r) == IF r \in Stops THEN "stop" ELSE IF r \in Buys THEN "buy" ELSE "other"

\* The abstract lock this implements: a request wants the slot from its call
\* to the end of its finally clause.
wantBar == [r \in Requests |-> IF pc[r] = "outside" THEN "none" ELSE KindOf(r)]
holderBar == IF Inside = {} THEN Nobody ELSE CHOOSE r \in Inside : TRUE

Lock == INSTANCE PriorityLock WITH want <- wantBar, holder <- holderBar

(* submission_slot implements the priority lock.                           *)
ImplementsPriorityLock == Lock!SlotSpec
=============================================================================
