------------------------------ MODULE PriorityLock ------------------------------
(***************************************************************************)
(* What ManualTrading.submission_slot promises its callers: one request at *)
(* a time is inside the slot, and a buy is never let in while a hard stop  *)
(* has asked for it.  How the promise is kept (a FIFO asyncio.Lock, a      *)
(* counter and an event) is the business of SubmissionSlot.                *)
(***************************************************************************)
CONSTANTS
  Requests,   \* the coroutines that may be inside submission_slot
  Nobody      \* the holder when the slot is free, not a request

Kinds == {"stop", "buy", "other"}

VARIABLES
  want,       \* the kind each request asked with, or "none"
  holder      \* the request inside the slot

slotVars == <<want, holder>>

SlotTypeOK ==
  /\ want \in [Requests -> Kinds \cup {"none"}]
  /\ holder \in Requests \cup {Nobody}

SlotInit ==
  /\ want = [r \in Requests |-> "none"]
  /\ holder = Nobody

StopWanted == \E r \in Requests : want[r] = "stop"

Request(r, k) ==
  /\ want[r] = "none"
  /\ want' = [want EXCEPT ![r] = k]
  /\ UNCHANGED holder

Enter(r) ==
  /\ holder = Nobody
  /\ want[r] # "none"
  /\ want[r] = "buy" => ~StopWanted
  /\ holder' = r
  /\ UNCHANGED want

\* A request that does not have to wait.
EnterAtOnce(r, k) ==
  /\ want[r] = "none"
  /\ holder = Nobody
  /\ k = "buy" => ~StopWanted
  /\ want' = [want EXCEPT ![r] = k]
  /\ holder' = r

Leave(r) ==
  /\ holder = r
  /\ holder' = Nobody
  /\ want' = [want EXCEPT ![r] = "none"]

\* A request cancelled while it waits.
Abandon(r) ==
  /\ want[r] # "none"
  /\ holder # r
  /\ want' = [want EXCEPT ![r] = "none"]
  /\ UNCHANGED holder

\* The process that owns the lock restarts: nobody is left to want it.
Restart ==
  /\ want' = [r \in Requests |-> "none"]
  /\ holder' = Nobody

SlotNext ==
  \/ \E r \in Requests :
       \/ \E k \in Kinds : Request(r, k) \/ EnterAtOnce(r, k)
       \/ Enter(r)
       \/ Leave(r)
       \/ Abandon(r)
  \/ Restart

SlotSpec == SlotInit /\ [][SlotNext]_slotVars
=============================================================================
