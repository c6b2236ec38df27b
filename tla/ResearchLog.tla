------------------------------- MODULE ResearchLog -------------------------------
(***************************************************************************)
(* The research recorder: threads of the trading process emit records into *)
(* a bounded queue under a lock, one writer thread archives them, and what *)
(* is lost on the way shows as a gap in the archive and as a number in its *)
(* status.  A record is its sequence number and has the size one.  A step  *)
(* of a thread lies between two points at which another one could see it:  *)
(* the queue has a lock of its own, and close(), the writer's loop and its *)
(* last status use `stopping` and the counters without the recorder's.     *)
(***************************************************************************)
EXTENDS Integers, Sequences

CONSTANTS
  Producers,   \* threads that capture inputs and decisions
  MaxBytes,    \* max_queue_bytes
  QueueSize,   \* the queue's maxsize
  MaxSeq,      \* bound on the numbers taken for inputs, decisions and journal rows
  MaxPauses    \* bound on the intervals in which recording is switched off

ASSUME RecorderAssumption ==
  /\ "writer" \notin Producers
  /\ MaxBytes \in Nat \ {0} /\ QueueSize \in Nat \ {0}
  /\ MaxSeq \in Nat /\ MaxPauses \in Nat \ {0}

VARIABLES
  captureSeq,       \* capture_seq
  holding,          \* the number a thread has taken and not yet queued, or 0:
                    \* it is inside the lock
  dropped, error,
  queue,            \* the numbers of the records queued
  queuedBytes,
  paused, pausedIntervals,
  stopping,
  closed,           \* close() was called
  records, gaps,    \* the numbers archived as a record, or as part of a gap
  lastWritten, written,
  pc,               \* the writer's place in _writer and the calls it makes
  inflight,         \* the number the writer took off the queue, or 0
  allowed,          \* whether there was disk space at the last look
  failed, drained,  \* how the loop ended
  lastSeq,          \* the tail of the session
  finalSeq, complete  \* status.json of the closed session

emitting == <<captureSeq, holding, dropped, error>>
queueing == <<queue, queuedBytes>>
pausing == <<paused, pausedIntervals>>
life == <<stopping, closed>>
archiving == <<records, gaps, lastWritten, written>>
taking == <<inflight, allowed>>
outcome == <<failed, drained, lastSeq, finalSeq, complete>>
vars == <<captureSeq, holding, dropped, error, queue, queuedBytes, paused, pausedIntervals,
          stopping, closed, records, gaps, lastWritten, written, pc, inflight, allowed,
          failed, drained, lastSeq, finalSeq, complete>>

Threads == Producers \cup {"writer"}

Places == {"start", "turn", "control", "sync", "pausing", "resuming", "journal", "reading",
           "delivering", "maintain", "get", "got", "losing", "gap", "record", "leaving",
           "finally", "tail", "status", "claim", "over"}

\* Recording may be off from the start: the stop record is then queued and the
\* gap's number taken.
Init ==
  /\ paused \in BOOLEAN
  /\ pausedIntervals = (IF paused THEN 1 ELSE 0)
  /\ captureSeq = (IF paused THEN 2 ELSE 0)
  /\ queue = (IF paused THEN <<1>> ELSE <<>>) /\ queuedBytes = Len(queue)
  /\ holding = [t \in Threads |-> 0] /\ dropped = 0 /\ error = "none"
  /\ stopping = FALSE /\ closed = FALSE
  /\ records = {} /\ gaps = {} /\ lastWritten = 0 /\ written = 0
  /\ pc = "start" /\ inflight = 0 /\ allowed = "unknown"
  /\ failed = FALSE /\ drained = FALSE /\ lastSeq = 0
  /\ finalSeq = 0 /\ complete = FALSE

-----------------------------------------------------------------------------
(* emit *)

\* Mutant: numbers are given out under the lock and queued outside it.
NeverHeld == TRUE

LockFree == \A t \in Threads : holding[t] = 0

\* Numbers on their way that no queue holds.
InLock == IF LockFree THEN 0 ELSE 1
InHand == IF inflight = 0 THEN 0 ELSE 1

Lose(n) == dropped' = dropped + n

\* A number is taken.  The record is refused, or goes on to the queue; one that
\* cannot be serialized is an error besides.
Admit(t) ==
  /\ LockFree /\ ~paused
  /\ captureSeq' = captureSeq + 1
  /\ \E serialized \in BOOLEAN :
       /\ error' = IF serialized THEN error ELSE "other"
       /\ IF serialized /\ ~stopping /\ queuedBytes < MaxBytes
          THEN holding' = [holding EXCEPT ![t] = captureSeq'] /\ Lose(0)
          ELSE Lose(1) /\ UNCHANGED holding

\* Mutant: a full queue loses a record that nobody counts.
PutOrForget(t) ==
  /\ holding[t] # 0
  /\ holding' = [holding EXCEPT ![t] = 0]
  /\ IF Len(queue) < QueueSize
     THEN queue' = Append(queue, holding[t]) /\ queuedBytes' = queuedBytes + 1 /\ Lose(0)
     ELSE Lose(0) /\ UNCHANGED queueing
  /\ UNCHANGED <<captureSeq, error>>

\* put_nowait
Put(t) ==
  /\ holding[t] # 0
  /\ holding' = [holding EXCEPT ![t] = 0]
  /\ IF Len(queue) < QueueSize
     THEN queue' = Append(queue, holding[t]) /\ queuedBytes' = queuedBytes + 1 /\ Lose(0)
     ELSE Lose(1) /\ UNCHANGED queueing
  /\ UNCHANGED <<captureSeq, error>>

\* A record of a producer; while recording is off nothing is taken of it.
Capture(t) ==
  /\ captureSeq < MaxSeq /\ Admit(t)
  /\ UNCHANGED <<queueing, pausing, life, archiving, taking, outcome, pc>>

Enqueue(t) ==
  /\ Put(t)
  /\ UNCHANGED <<pausing, life, archiving, taking, outcome, pc>>

\* fail: a capture that raised is a lost number.
CaptureFails ==
  /\ LockFree /\ captureSeq < MaxSeq
  /\ captureSeq' = captureSeq + 1 /\ Lose(1) /\ error' = "other"
  /\ UNCHANGED <<holding, queueing, pausing, life, archiving, taking, outcome, pc>>

\* close: an emit that has passed its test of `stopping` still puts its record.
Close ==
  /\ ~closed
  /\ closed' = TRUE /\ stopping' = TRUE
  /\ UNCHANGED <<emitting, queueing, pausing, archiving, taking, outcome, pc>>

-----------------------------------------------------------------------------
(* The writer's loop. *)

At(place) == pc = place /\ holding["writer"] = 0
GoTo(place) == pc' = place

Setup ==
  /\ At("start") /\ GoTo("turn")
  /\ UNCHANGED <<emitting, queueing, pausing, life, archiving, taking, outcome>>

\* The loop ends when it is stopped and drained, or two seconds after close().
Turn ==
  /\ At("turn")
  /\ \/ stopping /\ queue = <<>> /\ GoTo("leaving") /\ UNCHANGED error
     \/ ~(stopping /\ queue = <<>>) /\ closed /\ GoTo("leaving") /\ error' = "other"
     \/ ~(stopping /\ queue = <<>>) /\ GoTo("control") /\ UNCHANGED error
  /\ UNCHANGED <<captureSeq, holding, dropped, queueing, pausing, life, archiving, taking,
                 outcome>>

\* The parts of a turn are due now and then, two of them not while stopping.
Look ==
  /\ ~stopping
  /\ \/ At("control") /\ GoTo("sync")
     \/ At("journal") /\ ~paused /\ GoTo("reading")
  /\ UNCHANGED <<emitting, queueing, pausing, life, archiving, taking, outcome>>

\* The first look at the disk is due at once.
Skip ==
  /\ \/ (At("control") \/ At("sync")) /\ GoTo("journal")
     \/ (At("journal") \/ At("reading")) /\ GoTo("maintain")
     \/ At("maintain") /\ allowed # "unknown" /\ GoTo("get")
  /\ UNCHANGED <<emitting, queueing, pausing, life, archiving, taking, outcome>>

\* _sync_control: the stop record comes before the pause, the start record
\* after it, and the pause reserves a number for its gap.
SwitchOff ==
  /\ At("sync") /\ pausedIntervals < MaxPauses
  /\ Admit("writer") /\ GoTo("pausing")
  /\ UNCHANGED <<queueing, pausing, life, archiving, taking, outcome>>

Pause ==
  /\ At("pausing") /\ LockFree
  /\ paused' = TRUE /\ pausedIntervals' = pausedIntervals + 1
  /\ captureSeq' = captureSeq + 1 /\ GoTo("journal")
  /\ UNCHANGED <<holding, dropped, error, queueing, life, archiving, taking, outcome>>

SwitchOn ==
  /\ At("sync") /\ paused /\ LockFree
  /\ paused' = FALSE /\ GoTo("resuming")
  /\ UNCHANGED <<emitting, pausedIntervals, queueing, life, archiving, taking, outcome>>

Resume ==
  /\ At("resuming")
  /\ Admit("writer") /\ GoTo("journal")
  /\ UNCHANGED <<queueing, pausing, life, archiving, taking, outcome>>

\* Rows of the settlement and execution journals, until one is refused: its
\* cursor stays, and it is read again.
Backfill ==
  /\ At("reading") /\ captureSeq < MaxSeq
  /\ Admit("writer")
  /\ GoTo(IF holding' = holding THEN "maintain" ELSE "delivering")
  /\ UNCHANGED <<queueing, pausing, life, archiving, taking, outcome>>

Delivered ==
  /\ At("delivering")
  /\ GoTo("reading") \/ GoTo("maintain")
  /\ UNCHANGED <<emitting, queueing, pausing, life, archiving, taking, outcome>>

\* _retention and the running status.  Space that is found again clears the
\* error, and with it another one that it hid.
Maintain ==
  /\ At("maintain")
  /\ allowed' \in {"yes", "no"}
  /\ error' = CASE allowed' = "no" -> "LOW_DISK"
                [] allowed' = "yes" /\ error = "LOW_DISK" -> "none"
                [] OTHER -> error
  /\ GoTo("get")
  /\ UNCHANGED <<captureSeq, holding, dropped, inflight, queueing, pausing, life, archiving,
                 outcome>>

Get ==
  /\ At("get")
  /\ IF queue = <<>>
     THEN GoTo("turn") /\ UNCHANGED <<queue, inflight>>
     ELSE GoTo("got") /\ inflight' = Head(queue) /\ queue' = Tail(queue)
  /\ UNCHANGED <<emitting, queuedBytes, allowed, pausing, life, archiving, outcome>>

\* Without disk space the record is lost.
Got ==
  /\ At("got") /\ LockFree
  /\ queuedBytes' = queuedBytes - 1
  /\ GoTo(IF allowed = "yes" THEN "gap" ELSE "losing")
  /\ UNCHANGED <<emitting, queue, pausing, life, archiving, taking, outcome>>

LowDisk ==
  /\ At("losing") /\ LockFree
  /\ Lose(1) /\ inflight' = 0 /\ GoTo("turn")
  /\ UNCHANGED <<captureSeq, holding, error, allowed, queueing, pausing, life, archiving, outcome>>

\* Whatever was lost before number `upto` + 1 becomes a gap.
Gap(upto) ==
  /\ gaps' = gaps \cup (lastWritten + 1 .. upto)
  /\ lastWritten' = IF upto > lastWritten THEN upto ELSE lastWritten
  /\ UNCHANGED <<records, written>>

WriteGap ==
  /\ At("gap") /\ Gap(inflight - 1) /\ GoTo("record")
  /\ UNCHANGED <<emitting, queueing, pausing, life, taking, outcome>>

WriteRecord ==
  /\ At("record")
  /\ records' = records \cup {inflight}
  /\ lastWritten' = inflight /\ written' = written + 1
  /\ inflight' = 0 /\ GoTo("turn")
  /\ UNCHANGED <<gaps, emitting, allowed, queueing, pausing, life, outcome>>

-----------------------------------------------------------------------------
(* The end of the writer. *)

\* An exception leaves the loop: at a flush after a record ("turn"), say.  The
\* gap's may come after it was written.
Fails ==
  /\ \E place \in {"start", "turn", "maintain", "get", "gap", "record"} : At(place)
  /\ \/ UNCHANGED archiving
     \/ /\ pc = "gap" /\ gaps' = gaps \cup (lastWritten + 1 .. inflight - 1)
        /\ UNCHANGED <<records, lastWritten, written>>
  /\ failed' = TRUE /\ error' = "other" /\ GoTo("finally")
  /\ UNCHANGED <<captureSeq, holding, dropped, queueing, pausing, life, taking,
                 drained, lastSeq, finalSeq, complete>>

Leave ==
  /\ At("leaving")
  /\ drained' = (queue = <<>>) /\ GoTo("finally")
  /\ UNCHANGED <<emitting, queueing, pausing, life, archiving, taking, failed, lastSeq,
                 finalSeq, complete>>

\* Mutant: what is still queued at the end is thrown away uncounted.
FinallyForgetting ==
  /\ At("finally") /\ LockFree
  /\ stopping' = TRUE
  /\ Lose(InHand) /\ inflight' = 0
  /\ queue' = <<>> /\ queuedBytes' = queuedBytes - Len(queue)
  /\ lastSeq' = captureSeq /\ GoTo("tail")
  /\ UNCHANGED <<captureSeq, holding, error, closed, allowed, pausing, archiving,
                 failed, drained, finalSeq, complete>>

\* No record is admitted after this; what is still queued is lost.
Finally ==
  /\ At("finally") /\ LockFree
  /\ stopping' = TRUE
  /\ Lose(InHand + Len(queue)) /\ inflight' = 0
  /\ queue' = <<>> /\ queuedBytes' = queuedBytes - Len(queue)
  /\ lastSeq' = captureSeq /\ GoTo("tail")
  /\ UNCHANGED <<captureSeq, holding, error, closed, allowed, pausing, archiving,
                 failed, drained, finalSeq, complete>>

\* Losses at the end are a gap too, if it can be written.
WriteTail ==
  /\ At("tail") /\ GoTo("status")
  /\ IF allowed = "yes" /\ ~failed THEN Gap(lastSeq) ELSE UNCHANGED archiving
  /\ UNCHANGED <<emitting, queueing, pausing, life, taking, outcome>>

\* The final status: first status() under the lock, then the claim, from the
\* counters as they are then.
WriteStatus ==
  /\ At("status") /\ LockFree /\ GoTo("claim")
  /\ finalSeq' = captureSeq
  /\ UNCHANGED <<emitting, queueing, pausing, life, archiving, taking, failed, drained, lastSeq,
                 complete>>

Claim ==
  /\ At("claim") /\ GoTo("over")
  /\ complete' = (~failed /\ drained /\ dropped = 0 /\ pausedIntervals = 0 /\ error = "none")
  /\ UNCHANGED <<emitting, queueing, pausing, life, archiving, taking, failed, drained, lastSeq,
                 finalSeq>>

\* The end of the archive or its status cannot be written.
EndFails ==
  /\ At("tail") \/ At("status") \/ At("claim")
  /\ error' = "other" /\ GoTo("over")
  /\ UNCHANGED <<captureSeq, holding, dropped, queueing, pausing, life, archiving, taking,
                 outcome>>

Writer == Setup \/ Turn \/ Look \/ Skip \/ SwitchOff \/ Pause \/ SwitchOn \/ Resume \/ Backfill
          \/ Delivered \/ Maintain \/ Get \/ Got \/ LowDisk \/ WriteGap \/ WriteRecord \/ Fails
          \/ Leave \/ Finally \/ WriteTail \/ WriteStatus \/ Claim \/ EndFails

Next ==
  \/ \E t \in Producers : Capture(t)
  \/ \E t \in Threads : Enqueue(t)
  \/ CaptureFails \/ Close \/ Writer

Spec == Init /\ [][Next]_vars

-----------------------------------------------------------------------------
(* Properties. *)

Queued == {queue[i] : i \in 1 .. Len(queue)}
Waiting == Queued \cup (({inflight} \cup {holding[t] : t \in Threads}) \ {0})

\* The counters tell the whole story: every number taken was archived, counted
\* as dropped, reserved by a pause or is on its way, and the bytes of the queue
\* are those of the records in it.
Accounted ==
  /\ captureSeq = written + dropped + pausedIntervals + Len(queue) + InHand
                  + InLock
  /\ queuedBytes = Len(queue) + (IF pc = "got" THEN 1 ELSE 0)

\* A gap is never declared over a record that is still on its way or written,
\* and nothing is archived behind what was: the archive is in order.
NoFalseGap ==
  /\ \A w \in Waiting : \A s \in records \cup gaps : s < w
  /\ records \cap gaps = {}

\* A session that claims a complete capture has a record for every number it
\* gave out up to its last status.
CompleteIsComplete ==
  complete => 1 .. finalSeq \subseteq records

===============================================================================
