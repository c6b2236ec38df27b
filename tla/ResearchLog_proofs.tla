--------------------------- MODULE ResearchLog_proofs ---------------------------
(***************************************************************************)
(* The recorder's counters and archive tell what was lost, for any number  *)
(* of producers, limits and pauses.                                        *)
(***************************************************************************)
EXTENDS ResearchLog, TLAPS

\* The places between the end of the loop and the end of the thread.
Closing == {"tail", "status", "claim", "over"}

Types ==
  /\ captureSeq \in Nat /\ holding \in [Threads -> Nat]
  /\ dropped \in Nat /\ written \in Nat /\ pausedIntervals \in Nat
  /\ queue \in Seq(Nat) /\ queuedBytes \in Int
  /\ records \in SUBSET Nat /\ gaps \in SUBSET Nat
  /\ lastWritten \in Nat /\ inflight \in Nat /\ lastSeq \in Nat /\ finalSeq \in Nat

(* The number a thread holds in the lock is the newest one.                *)
OneHolder ==
  \A t \in Threads : holding[t] # 0 =>
    /\ holding[t] = captureSeq
    /\ \A u \in Threads : holding[u] # 0 => t = u

(* The numbers in the queue are older than that, and in order behind the   *)
(* one in flight.                                                          *)
QueueInOrder ==
  /\ \A i \in 1 .. Len(queue) :
       /\ inflight < queue[i] /\ queue[i] <= captureSeq
       /\ (~LockFree => queue[i] < captureSeq)
       /\ \A j \in 1 .. Len(queue) : i < j => queue[i] < queue[j]
  /\ inflight <= captureSeq /\ (inflight # 0 /\ ~LockFree => inflight < captureSeq)

(* The archive is older than all of them.  Only a failed writer leaves a   *)
(* gap it has not accounted for, and it writes no more.                    *)
ArchiveBehind ==
  /\ \A s \in records \cup gaps :
       /\ s <= captureSeq /\ (~LockFree => s < captureSeq)
       /\ (inflight # 0 => s < inflight)
       /\ \A i \in 1 .. Len(queue) : s < queue[i]
  /\ \A s \in records : s <= lastWritten
  /\ ~failed => \A s \in gaps : s <= lastWritten
  /\ lastWritten <= captureSeq /\ (~LockFree => lastWritten < captureSeq)
  /\ inflight # 0 => lastWritten < inflight
  /\ \A i \in 1 .. Len(queue) : lastWritten < queue[i]
  /\ records \cap gaps = {}

(* No number vanishes while nothing was counted.                           *)
NothingVanishes ==
  dropped + pausedIntervals = 0 =>
    \A n \in 1 .. captureSeq :
      \/ n \in records \/ n = inflight
      \/ \E t \in Threads : holding[t] = n
      \/ \E i \in 1 .. Len(queue) : queue[i] = n

Numbers == captureSeq = written + dropped + pausedIntervals + Len(queue) + InHand + InLock

(* What the writer has in hand, by where it is.                            *)
WriterAgrees ==
  /\ pc \in Places
  /\ inflight # 0 => pc \in {"got", "losing", "gap", "record", "finally"}
  /\ pc \in {"got", "losing", "gap", "record"} => inflight # 0
  /\ failed => pc \in {"finally"} \cup Closing
  /\ pc \in Closing => /\ queue = <<>> /\ inflight = 0 /\ LockFree /\ stopping
                       /\ lastSeq <= captureSeq
  /\ finalSeq <= captureSeq
  /\ complete => pc = "over"

Bytes == queuedBytes = Len(queue) + (IF pc = "got" THEN 1 ELSE 0)

LogInv ==
  /\ Types /\ OneHolder /\ QueueInOrder /\ ArchiveBehind /\ NothingVanishes
  /\ Numbers /\ WriterAgrees /\ Bytes /\ CompleteIsComplete

\* The part of it that is about the numbers and not about the writer's place.
DataInv ==
  /\ Types /\ OneHolder /\ QueueInOrder /\ ArchiveBehind /\ NothingVanishes /\ Numbers

Data == <<captureSeq, holding, dropped, pausedIntervals, queue, records, gaps, lastWritten,
          written, inflight>>

-----------------------------------------------------------------------------
(* Steps by what they do to the numbers. *)

LEMMA InLockValues ==
  /\ (LockFree => InLock = 0) /\ (~LockFree => InLock = 1)
  /\ InLock \in Nat /\ InHand \in Nat
  /\ (inflight = 0 => InHand = 0) /\ (inflight # 0 => InHand = 1)
BY DEF InLock, InHand

LEMMA InLockValuesNext ==
  /\ (LockFree' => InLock' = 0) /\ (~LockFree' => InLock' = 1)
  /\ InLock' \in Nat /\ InHand' \in Nat
  /\ (inflight' = 0 => InHand' = 0) /\ (inflight' # 0 => InHand' = 1)
BY DEF InLock, InHand

\* Nothing happens to the numbers; the writer may have failed.
LEMMA DataStays ==
  ASSUME DataInv, UNCHANGED Data, failed => failed',
         queuedBytes' \in Int, lastSeq' \in Nat, finalSeq' \in Nat
  PROVE  DataInv'
<1>1. LockFree' <=> LockFree
  BY DEF Data, LockFree
<1>2. InLock' = InLock /\ InHand' = InHand
  BY <1>1 DEF Data, InLock, InHand, LockFree
<1>3. Types'
  BY DEF DataInv, Types, Data
<1>4. OneHolder' /\ QueueInOrder' /\ NothingVanishes'
  BY <1>1 DEF DataInv, Data, OneHolder, QueueInOrder, NothingVanishes
<1>5. ArchiveBehind'
  BY <1>1 DEF DataInv, Data, ArchiveBehind
<1>6. Numbers'
  BY <1>2 DEF DataInv, Data, Numbers
<1> QED
  BY <1>3, <1>4, <1>5, <1>6 DEF DataInv

\* A number is lost, or reserved by a pause.
LEMMA DataCounts ==
  ASSUME DataInv, LockFree, captureSeq' = captureSeq + 1,
         UNCHANGED <<holding, queue, queuedBytes, records, gaps, lastWritten, written, inflight,
                     failed, lastSeq, finalSeq>>,
         \/ dropped' = dropped + 1 /\ pausedIntervals' = pausedIntervals
         \/ dropped' = dropped /\ pausedIntervals' = pausedIntervals + 1
  PROVE  DataInv' /\ LockFree'
<1>1. LockFree'
  BY DEF LockFree
<1>2. InLock' = InLock /\ InHand' = InHand
  BY <1>1, InLockValues, InLockValuesNext DEF InHand
<1>3. Types'
  BY DEF DataInv, Types
<1>4. OneHolder'
  BY DEF OneHolder, LockFree
<1>5. QueueInOrder'
  BY <1>1 DEF DataInv, Types, QueueInOrder
<1>6. ArchiveBehind'
  BY <1>1 DEF DataInv, Types, ArchiveBehind
<1>7. NothingVanishes'
  BY DEF DataInv, Types, NothingVanishes
<1>8. Numbers'
  BY <1>2, InLockValues DEF DataInv, Types, Numbers
<1> QED
  BY <1>1, <1>3, <1>4, <1>5, <1>6, <1>7, <1>8 DEF DataInv

\* A number is taken on its way to the queue.
LEMMA DataAdmits ==
  ASSUME DataInv, LockFree, NEW t \in Threads, captureSeq' = captureSeq + 1,
         holding' = [holding EXCEPT ![t] = captureSeq + 1],
         UNCHANGED <<queue, queuedBytes, records, gaps, lastWritten, written, inflight,
                     failed, lastSeq, finalSeq, dropped, pausedIntervals>>
  PROVE  DataInv'
<1>0. /\ holding'[t] = captureSeq + 1
      /\ \A u \in Threads : u # t => holding'[u] = 0
  BY DEF DataInv, Types, LockFree
<1>1. ~LockFree'
  BY <1>0 DEF DataInv, Types, LockFree
<1>2. InLock' = InLock + 1 /\ InHand' = InHand
  BY <1>1, InLockValues, InLockValuesNext DEF InHand
<1>3. Types'
  BY DEF DataInv, Types
<1>4. OneHolder'
  BY <1>0 DEF OneHolder
<1>5. QueueInOrder'
  BY <1>1 DEF DataInv, Types, QueueInOrder
<1>6. ArchiveBehind'
  BY <1>1 DEF DataInv, Types, ArchiveBehind
<1>7. NothingVanishes'
  <2> SUFFICES ASSUME dropped + pausedIntervals = 0, NEW n \in 1 .. captureSeq + 1
               PROVE  \/ n \in records \/ n = inflight
                      \/ \E u \in Threads : holding'[u] = n
                      \/ \E i \in 1 .. Len(queue) : queue[i] = n
    BY DEF NothingVanishes
  <2>1. CASE n = captureSeq + 1
    BY <2>1, <1>0
  <2>2. CASE n # captureSeq + 1
    <3>1. n \in 1 .. captureSeq
      BY <2>2 DEF DataInv, Types
    <3>2. \A u \in Threads : holding[u] # n
      BY <3>1 DEF LockFree
    <3> QED
      BY <3>1, <3>2 DEF DataInv, NothingVanishes
  <2> QED
    BY <2>1, <2>2
<1>8. Numbers'
  BY <1>2, InLockValues DEF DataInv, Types, Numbers
<1> QED
  BY <1>3, <1>4, <1>5, <1>6, <1>7, <1>8 DEF DataInv

\* The number taken joins the queue, or is lost because the queue is full.
LEMMA DataPuts ==
  ASSUME DataInv, NEW t \in Threads, Put(t),
         UNCHANGED <<records, gaps, lastWritten, written, inflight, failed, lastSeq, finalSeq,
                     pausedIntervals>>
  PROVE  DataInv' /\ LockFree'
<1>0. /\ holding[t] # 0 /\ holding[t] = captureSeq /\ holding[t] \in Nat
      /\ \A u \in Threads : u # t => holding[u] = 0
      /\ ~LockFree
  BY DEF DataInv, OneHolder, Put, Types, LockFree
<1>1. LockFree' /\ (\A u \in Threads : holding'[u] = 0)
  BY <1>0 DEF DataInv, Types, LockFree, Put
<1>2. InLock = InLock' + 1 /\ InHand' = InHand
  BY <1>0, <1>1, InLockValues, InLockValuesNext DEF InHand
<1>3. CASE Len(queue) < QueueSize
  <2>0. queue' = Append(queue, holding[t]) /\ queuedBytes' = queuedBytes + 1 /\ dropped' = dropped
    BY <1>3 DEF Put, Lose, DataInv, Types
  <2>1. /\ Len(queue') = Len(queue) + 1
        /\ \A i \in 1 .. Len(queue) : queue'[i] = queue[i]
        /\ queue'[Len(queue) + 1] = captureSeq
        /\ queue' \in Seq(Nat)
    BY <2>0, <1>0 DEF DataInv, Types
  <2>2. Len(queue) \in Nat
    BY DEF DataInv, Types
  <2>3. Types'
    BY <2>0, <2>1 DEF DataInv, Types, Put
  <2>4. OneHolder'
    BY <1>1 DEF OneHolder
  <2>5. captureSeq' = captureSeq
    BY DEF Put
  <2>6. \A i \in 1 .. Len(queue') : i # Len(queue') => i \in 1 .. Len(queue)
    BY <2>1, <2>2
  <2>7. inflight < captureSeq /\ (\A i \in 1 .. Len(queue) : queue[i] < captureSeq)
    BY <1>0 DEF DataInv, QueueInOrder, Types
  <2>8. QueueInOrder'
    <3>1. inflight' <= captureSeq'
      BY <2>5 DEF DataInv, QueueInOrder
    <3>2. ASSUME NEW i \in 1 .. Len(queue')
          PROVE  /\ inflight < queue'[i] /\ queue'[i] <= captureSeq
                 /\ \A j \in 1 .. Len(queue') : i < j => queue'[i] < queue'[j]
      <4>1. CASE i = Len(queue')
        BY <4>1, <2>1, <2>2, <2>7, <1>0
      <4>2. CASE i # Len(queue')
        BY <4>2, <2>1, <2>2, <2>6, <2>7 DEF DataInv, QueueInOrder
      <4> QED
        BY <4>1, <4>2
    <3> QED
      BY <3>1, <3>2, <2>5, <1>1 DEF QueueInOrder
  <2>9. ArchiveBehind'
    <3>1. \A s \in records \cup gaps : s < captureSeq /\ s <= captureSeq
      BY <1>0 DEF DataInv, ArchiveBehind, Types
    <3>2. lastWritten < captureSeq /\ lastWritten <= captureSeq
      BY <1>0 DEF DataInv, ArchiveBehind, Types
    <3>3. ASSUME NEW i \in 1 .. Len(queue')
          PROVE  lastWritten < queue'[i] /\ \A s \in records \cup gaps : s < queue'[i]
      BY <3>1, <3>2, <2>1, <2>2, <2>6 DEF DataInv, ArchiveBehind
    <3> QED
      BY <3>1, <3>2, <3>3, <2>5, <1>1 DEF DataInv, ArchiveBehind
  <2>10. NothingVanishes'
    <3> SUFFICES ASSUME dropped + pausedIntervals = 0, NEW n \in 1 .. captureSeq
                 PROVE  \/ n \in records \/ n = inflight
                        \/ \E i \in 1 .. Len(queue') : queue'[i] = n
      BY <2>0, <2>5 DEF NothingVanishes
    <3>1. n \in records \/ n = inflight \/ (\E u \in Threads : holding[u] = n)
          \/ (\E i \in 1 .. Len(queue) : queue[i] = n)
      BY DEF DataInv, NothingVanishes
    <3>2. CASE \E u \in Threads : holding[u] = n
      BY <3>2, <1>0, <2>1, <2>2
    <3>3. CASE \E i \in 1 .. Len(queue) : queue[i] = n
      BY <3>3, <2>1, <2>2
    <3> QED
      BY <3>1, <3>2, <3>3
  <2>11. Numbers'
    BY <1>2, <2>0, <2>1, <2>2, <2>5, InLockValues, InLockValuesNext DEF DataInv, Types, Numbers
  <2> QED
    BY <1>1, <2>3, <2>4, <2>8, <2>9, <2>10, <2>11 DEF DataInv
<1>4. CASE ~(Len(queue) < QueueSize)
  <2>0. /\ queue' = queue /\ queuedBytes' = queuedBytes /\ dropped' = dropped + 1
        /\ captureSeq' = captureSeq
    BY <1>4 DEF Put, Lose, queueing
  <2>1. Types'
    BY <2>0 DEF DataInv, Types, Put
  <2>2. OneHolder'
    BY <1>1 DEF OneHolder
  <2>3. QueueInOrder'
    BY <1>1, <2>0 DEF DataInv, Types, QueueInOrder
  <2>4. ArchiveBehind'
    BY <1>1, <2>0 DEF DataInv, Types, ArchiveBehind
  <2>5. NothingVanishes'
    BY <2>0 DEF DataInv, Types, NothingVanishes
  <2>6. Numbers'
    BY <1>2, <2>0, InLockValues, InLockValuesNext DEF DataInv, Types, Numbers
  <2> QED
    BY <1>1, <2>1, <2>2, <2>3, <2>4, <2>5, <2>6 DEF DataInv
<1> QED
  BY <1>3, <1>4

\* The writer takes the oldest number off the queue.
LEMMA DataTakes ==
  ASSUME DataInv, inflight = 0, queue # <<>>, inflight' = Head(queue), queue' = Tail(queue),
         UNCHANGED <<captureSeq, holding, dropped, pausedIntervals, queuedBytes, records, gaps,
                     lastWritten, written, failed, lastSeq, finalSeq>>
  PROVE  DataInv' /\ inflight' # 0
<1>0. LockFree' <=> LockFree
  BY DEF LockFree
<1>1. /\ Len(queue) \in Nat /\ Len(queue) >= 1 /\ Len(queue') = Len(queue) - 1
      /\ queue' \in Seq(Nat) /\ inflight' = queue[1] /\ inflight' \in Nat
      /\ \A i \in 1 .. Len(queue') : queue'[i] = queue[i + 1]
  BY DEF DataInv, Types
<1>2. \A i \in 1 .. Len(queue') : i + 1 \in 1 .. Len(queue) /\ 1 < i + 1
  BY <1>1
<1>3. 1 \in 1 .. Len(queue)
  BY <1>1
<1>4. inflight' # 0
  BY <1>1, <1>3 DEF DataInv, QueueInOrder
<1>5. InLock' = InLock /\ InHand' = InHand + 1
  BY <1>0, <1>4, InLockValues, InLockValuesNext
<1>6. Types'
  BY <1>1 DEF DataInv, Types
<1>7. OneHolder'
  BY DEF DataInv, OneHolder
<1>8. QueueInOrder'
  <2>1. ASSUME NEW i \in 1 .. Len(queue')
        PROVE  /\ inflight' < queue'[i] /\ queue'[i] <= captureSeq
               /\ (~LockFree => queue'[i] < captureSeq)
    BY <1>1, <1>2, <1>3 DEF DataInv, QueueInOrder
  <2>2. ASSUME NEW i \in 1 .. Len(queue'), NEW j \in 1 .. Len(queue'), i < j
        PROVE  queue'[i] < queue'[j]
    <3>1. i + 1 < j + 1
      BY <2>2, <1>1
    <3> QED
      BY <3>1, <1>1, <1>2 DEF DataInv, QueueInOrder
  <2>3. inflight' <= captureSeq /\ (~LockFree => inflight' < captureSeq)
    BY <1>1, <1>3 DEF DataInv, QueueInOrder
  <2> QED
    BY <2>1, <2>2, <2>3, <1>0 DEF QueueInOrder
<1>9. ArchiveBehind'
  <2>1. ASSUME NEW s \in records \cup gaps
        PROVE  s < inflight' /\ \A i \in 1 .. Len(queue') : s < queue'[i]
    BY <1>1, <1>2, <1>3 DEF DataInv, ArchiveBehind
  <2>2. lastWritten < inflight' /\ \A i \in 1 .. Len(queue') : lastWritten < queue'[i]
    BY <1>1, <1>2, <1>3 DEF DataInv, ArchiveBehind
  <2> QED
    BY <2>1, <2>2, <1>0 DEF DataInv, ArchiveBehind
<1>10. NothingVanishes'
  <2> SUFFICES ASSUME dropped + pausedIntervals = 0, NEW n \in 1 .. captureSeq,
                      NEW i \in 1 .. Len(queue), queue[i] = n
               PROVE  n = inflight' \/ \E k \in 1 .. Len(queue') : queue'[k] = n
    BY DEF DataInv, Types, NothingVanishes
  <2>1. CASE i = 1
    BY <2>1, <1>1
  <2>2. CASE i # 1
    <3>1. i - 1 \in 1 .. Len(queue') /\ queue'[i - 1] = queue[(i - 1) + 1]
      BY <2>2, <1>1
    <3> QED
      BY <3>1, <1>1
  <2> QED
    BY <2>1, <2>2
<1>11. Numbers'
  BY <1>5, <1>1, InLockValues DEF DataInv, Types, Numbers
<1> QED
  BY <1>4, <1>6, <1>7, <1>8, <1>9, <1>10, <1>11 DEF DataInv

\* The record in flight is lost for want of disk space.
LEMMA DataLoses ==
  ASSUME DataInv, LockFree, inflight # 0, inflight' = 0, dropped' = dropped + 1,
         queuedBytes' \in Int,
         UNCHANGED <<captureSeq, holding, pausedIntervals, queue, records, gaps,
                     lastWritten, written, failed, lastSeq, finalSeq>>
  PROVE  DataInv' /\ LockFree'
<1>1. LockFree'
  BY DEF LockFree
<1>2. InLock' = InLock /\ InHand = InHand' + 1
  BY <1>1, InLockValues, InLockValuesNext
<1>3. Types'
  BY DEF DataInv, Types
<1>4. OneHolder'
  BY DEF DataInv, OneHolder
<1>5. QueueInOrder'
  BY <1>1 DEF DataInv, Types, QueueInOrder
<1>6. ArchiveBehind'
  BY <1>1 DEF DataInv, Types, ArchiveBehind
<1>7. NothingVanishes'
  BY DEF DataInv, Types, NothingVanishes
<1>8. Numbers'
  BY <1>2, InLockValues, InLockValuesNext DEF DataInv, Types, Numbers
<1> QED
  BY <1>1, <1>3, <1>4, <1>5, <1>6, <1>7, <1>8 DEF DataInv

\* A gap is written up to the number before the one in flight.  A writer that
\* fails may have written it without knowing.
LEMMA DataGaps ==
  ASSUME DataInv, inflight # 0,
         gaps' = gaps \cup (lastWritten + 1 .. inflight - 1),
         \/ lastWritten' = (IF inflight - 1 > lastWritten THEN inflight - 1 ELSE lastWritten)
            /\ failed' = failed
         \/ lastWritten' = lastWritten /\ failed' = TRUE,
         UNCHANGED <<captureSeq, holding, dropped, pausedIntervals, queue, queuedBytes, records,
                     written, inflight, lastSeq, finalSeq>>
  PROVE  DataInv'
<1>0. LockFree' <=> LockFree
  BY DEF LockFree
<1>1. InLock' = InLock /\ InHand' = InHand
  BY <1>0, InLockValues, InLockValuesNext DEF InHand
<1>2. /\ lastWritten' \in Nat /\ lastWritten' >= lastWritten /\ lastWritten' < inflight
      /\ \A s \in gaps' : s \in gaps \/ (s \in Nat /\ lastWritten < s /\ s < inflight)
  BY DEF DataInv, Types, ArchiveBehind
<1>3. Types'
  BY <1>2 DEF DataInv, Types
<1>4. OneHolder' /\ QueueInOrder' /\ NothingVanishes'
  BY <1>0 DEF DataInv, OneHolder, QueueInOrder, NothingVanishes
<1>5. ArchiveBehind'
  <2>0. inflight <= captureSeq /\ (~LockFree => inflight < captureSeq)
        /\ inflight \in Nat /\ captureSeq \in Nat /\ lastWritten \in Nat
        /\ (\A i \in 1 .. Len(queue) : inflight < queue[i])
        /\ (\A i \in 1 .. Len(queue) : queue[i] \in Nat)
    BY DEF DataInv, QueueInOrder, Types
  <2>1. ASSUME NEW s \in records \cup gaps'
        PROVE  /\ s <= captureSeq /\ (~LockFree => s < captureSeq) /\ s < inflight
               /\ \A i \in 1 .. Len(queue) : s < queue[i]
    BY <1>2, <2>0 DEF DataInv, ArchiveBehind
  <2>2. \A s \in records : s <= lastWritten'
    BY <1>2, <2>0 DEF DataInv, ArchiveBehind, Types
  <2>3. ~failed' => \A s \in gaps' : s <= lastWritten'
    BY <1>2, <2>0 DEF DataInv, ArchiveBehind, Types
  <2>4. records \cap gaps' = {}
    BY <1>2, <2>0 DEF DataInv, ArchiveBehind, Types
  <2>5. /\ lastWritten' <= captureSeq /\ (~LockFree => lastWritten' < captureSeq)
        /\ \A i \in 1 .. Len(queue) : lastWritten' < queue[i]
    BY <1>2, <2>0
  <2> QED
    BY <1>0, <1>2, <2>1, <2>2, <2>3, <2>4, <2>5 DEF ArchiveBehind
<1>6. Numbers'
  BY <1>1 DEF DataInv, Numbers
<1> QED
  BY <1>3, <1>4, <1>5, <1>6 DEF DataInv

\* The record in flight is archived.
LEMMA DataWrites ==
  ASSUME DataInv, inflight # 0, ~failed, inflight' = 0, records' = records \cup {inflight},
         lastWritten' = inflight, written' = written + 1,
         UNCHANGED <<captureSeq, holding, dropped, pausedIntervals, queue, queuedBytes, gaps,
                     failed, lastSeq, finalSeq>>
  PROVE  DataInv'
<1>0. LockFree' <=> LockFree
  BY DEF LockFree
<1>1. InLock' = InLock /\ InHand = InHand' + 1
  BY <1>0, InLockValues, InLockValuesNext
<1>2. Types'
  BY DEF DataInv, Types
<1>3. OneHolder'
  BY DEF DataInv, OneHolder
<1>4. QueueInOrder'
  BY <1>0 DEF DataInv, Types, QueueInOrder
<1>5. NothingVanishes'
  BY DEF DataInv, NothingVanishes
<1>6. ArchiveBehind'
  <2>0. inflight <= captureSeq /\ (~LockFree => inflight < captureSeq)
        /\ inflight \in Nat /\ captureSeq \in Nat
        /\ (\A i \in 1 .. Len(queue) : inflight < queue[i])
    BY DEF DataInv, QueueInOrder, Types
  <2>1. \A s \in records \cup gaps : s < inflight /\ s <= inflight
    BY DEF DataInv, ArchiveBehind, Types
  <2> QED
    BY <1>0, <2>0, <2>1 DEF DataInv, ArchiveBehind
<1>7. Numbers'
  BY <1>1, InLockValues, InLockValuesNext DEF DataInv, Types, Numbers
<1> QED
  BY <1>2, <1>3, <1>4, <1>5, <1>6, <1>7 DEF DataInv

\* At the end the record in flight and those still queued are lost.
LEMMA DataEnds ==
  ASSUME DataInv, LockFree, inflight' = 0, queue' = <<>>,
         dropped' = dropped + (InHand + Len(queue)),
         queuedBytes' \in Int, lastSeq' = captureSeq,
         UNCHANGED <<captureSeq, holding, pausedIntervals, records, gaps, lastWritten, written,
                     failed, finalSeq>>
  PROVE  DataInv' /\ LockFree'
<1>1. LockFree'
  BY DEF LockFree
<1>2. InLock' = InLock /\ InHand' = 0
  BY <1>1, InLockValues, InLockValuesNext
<1>3. Len(queue) \in Nat /\ Len(queue') = 0 /\ queue' \in Seq(Nat)
      /\ (Len(queue) = 0 => queue = <<>>)
  BY DEF DataInv, Types
<1>4. Types'
  BY <1>3, InLockValues DEF DataInv, Types
<1>5. OneHolder'
  BY DEF DataInv, OneHolder
<1>6. QueueInOrder'
  BY <1>1, <1>3 DEF DataInv, Types, QueueInOrder
<1>7. ArchiveBehind'
  BY <1>1, <1>3 DEF DataInv, Types, ArchiveBehind
<1>8. NothingVanishes'
  <2> SUFFICES ASSUME dropped' + pausedIntervals = 0, NEW n \in 1 .. captureSeq
               PROVE  n \in records
    BY DEF NothingVanishes
  <2>1. dropped + pausedIntervals = 0 /\ Len(queue) = 0 /\ inflight = 0
    BY <1>3, InLockValues DEF DataInv, Types
  <2>2. \A t \in Threads : holding[t] # n
    BY DEF LockFree, DataInv, Types
  <2> QED
    BY <2>1, <2>2 DEF DataInv, NothingVanishes, Types
<1>9. Numbers'
  BY <1>2, <1>3, InLockValues DEF DataInv, Types, Numbers
<1> QED
  BY <1>1, <1>4, <1>5, <1>6, <1>7, <1>8, <1>9 DEF DataInv

\* What was lost at the end becomes a gap.
LEMMA DataTail ==
  ASSUME DataInv, LockFree, ~failed, inflight = 0, queue = <<>>, lastSeq <= captureSeq,
         gaps' = gaps \cup (lastWritten + 1 .. lastSeq),
         lastWritten' = (IF lastSeq > lastWritten THEN lastSeq ELSE lastWritten),
         UNCHANGED <<captureSeq, holding, dropped, pausedIntervals, queue, queuedBytes, records,
                     written, inflight, failed, lastSeq, finalSeq>>
  PROVE  DataInv'
<1>0. LockFree'
  BY DEF LockFree
<1>1. InLock' = InLock /\ InHand' = InHand
  BY <1>0, InLockValues, InLockValuesNext DEF InHand
<1>2. Types'
  BY DEF DataInv, Types
<1>3. OneHolder' /\ QueueInOrder' /\ NothingVanishes'
  BY <1>0 DEF DataInv, OneHolder, QueueInOrder, NothingVanishes
<1>4. ArchiveBehind'
  BY <1>0 DEF DataInv, Types, ArchiveBehind
<1>5. Numbers'
  BY <1>1 DEF DataInv, Numbers
<1> QED
  BY <1>2, <1>3, <1>4, <1>5 DEF DataInv

-----------------------------------------------------------------------------
(* The steps of the specification. *)

LEMMA LogParts ==
  /\ LogInv <=> DataInv /\ WriterAgrees /\ Bytes /\ CompleteIsComplete
  /\ LogInv' <=> DataInv' /\ WriterAgrees' /\ Bytes' /\ CompleteIsComplete'
BY DEF LogInv, DataInv

\* Steps that only move the writer on, or switch something off.
Moves == Setup \/ Turn \/ Look \/ Skip \/ SwitchOn \/ Delivered \/ Maintain \/ Leave
         \/ EndFails \/ Close

LEMMA MovesKeep ==
  ASSUME LogInv, Moves
  PROVE  LogInv'
<1>1. /\ UNCHANGED Data /\ UNCHANGED <<queuedBytes, lastSeq, finalSeq, failed, complete>>
      /\ (stopping => stopping')
  BY DEF Moves, Setup, Turn, Look, Skip, SwitchOn, Delivered, Maintain, Leave, EndFails, Close,
         Data, emitting, queueing, pausing, life, archiving, taking, outcome
<1>2. DataInv'
  BY <1>1, DataStays, LogParts DEF DataInv, Types
<1>3. \/ /\ pc \notin Closing \cup {"got", "losing", "gap", "record", "finally"}
         /\ pc' \in Places \ (Closing \cup {"got", "losing", "gap", "record"})
      \/ pc \in {"tail", "status", "claim"} /\ pc' = "over"
      \/ pc' = pc
  BY DEF Moves, Setup, Turn, Look, Skip, SwitchOn, Delivered, Maintain, Leave, EndFails, Close,
         At, GoTo, Places, Closing
<1>4. WriterAgrees /\ Bytes /\ CompleteIsComplete
  BY LogParts
<1>5. LockFree' <=> LockFree
  BY <1>1 DEF Data, LockFree
<1>6. WriterAgrees'
  <2>1. CASE pc' = pc
    BY <2>1, <1>1, <1>4, <1>5 DEF WriterAgrees, Data
  <2>2. CASE pc \in {"tail", "status", "claim"} /\ pc' = "over"
    BY <2>2, <1>1, <1>4, <1>5 DEF WriterAgrees, Data, Closing, Places
  <2>3. CASE /\ pc \notin Closing \cup {"got", "losing", "gap", "record", "finally"}
             /\ pc' \in Places \ (Closing \cup {"got", "losing", "gap", "record"})
    BY <2>3, <1>1, <1>4, <1>5 DEF WriterAgrees, Data, Closing, Places
  <2> QED
    BY <1>3, <2>1, <2>2, <2>3
<1>7. Bytes'
  BY <1>1, <1>3, <1>4 DEF Bytes, Data, Closing
<1>8. CompleteIsComplete'
  BY <1>1, <1>4 DEF CompleteIsComplete, Data
<1> QED
  BY <1>2, <1>6, <1>7, <1>8, LogParts

\* Steps that take a number: it is lost, or on its way to the queue.
LEMMA AdmitKeeps ==
  ASSUME LogInv, NEW t \in Threads, Admit(t),
         UNCHANGED <<queueing, pausing, life, archiving, taking, outcome>>,
         \/ pc' = pc
         \/ pc \in {"sync", "resuming", "reading"}
            /\ pc' \in {"pausing", "journal", "maintain", "delivering"}
  PROVE  LogInv'
<1>0. DataInv /\ WriterAgrees /\ Bytes /\ CompleteIsComplete
  BY LogParts
<1>1. PICK serialized \in BOOLEAN :
        IF serialized /\ ~stopping /\ queuedBytes < MaxBytes
        THEN holding' = [holding EXCEPT ![t] = captureSeq'] /\ Lose(0)
        ELSE Lose(1) /\ UNCHANGED holding
  BY DEF Admit
<1>2. captureSeq' = captureSeq + 1 /\ LockFree
  BY DEF Admit
<1>3. UNCHANGED <<queue, queuedBytes, records, gaps, lastWritten, written, inflight, failed,
                  lastSeq, finalSeq, complete, pausedIntervals, stopping>>
  BY DEF queueing, pausing, life, archiving, taking, outcome
<1>4. \/ holding' = [holding EXCEPT ![t] = captureSeq + 1] /\ dropped' = dropped /\ ~stopping
      \/ dropped' = dropped + 1 /\ holding' = holding
  BY <1>1, <1>2, <1>0 DEF Lose, DataInv, Types
<1>5. DataInv'
  <2>1. CASE holding' = [holding EXCEPT ![t] = captureSeq + 1] /\ dropped' = dropped
    BY <2>1, <1>0, <1>2, <1>3, DataAdmits
  <2>2. CASE dropped' = dropped + 1 /\ holding' = holding
    BY <2>2, <1>0, <1>2, <1>3, DataCounts
  <2> QED
    BY <1>4, <2>1, <2>2
<1>6. pc \in Closing => LockFree'
  BY <1>0, <1>2, <1>4 DEF WriterAgrees, LockFree
<1>7. WriterAgrees'
  <2>1. finalSeq <= captureSeq' /\ (lastSeq <= captureSeq => lastSeq <= captureSeq')
    BY <1>0, <1>2 DEF WriterAgrees, DataInv, Types
  <2>2. CASE pc' = pc
    BY <2>1, <2>2, <1>0, <1>3, <1>6 DEF WriterAgrees
  <2>3. CASE /\ pc \in {"sync", "resuming", "reading"}
             /\ pc' \in {"pausing", "journal", "maintain", "delivering"}
    BY <2>1, <2>3, <1>0, <1>3 DEF WriterAgrees, Closing, Places
  <2> QED
    BY <2>2, <2>3
<1>8. Bytes'
  BY <1>0, <1>3 DEF Bytes
<1>9. CompleteIsComplete'
  BY <1>0, <1>3 DEF CompleteIsComplete
<1> QED
  BY <1>5, <1>7, <1>8, <1>9, LogParts

LEMMA CountKeeps ==
  ASSUME LogInv, CaptureFails \/ Pause
  PROVE  LogInv'
<1>0. DataInv /\ WriterAgrees /\ Bytes /\ CompleteIsComplete
  BY LogParts
<1>1. LockFree /\ captureSeq' = captureSeq + 1
  BY DEF CaptureFails, Pause
<1>2. UNCHANGED <<holding, queue, queuedBytes, records, gaps, lastWritten, written, inflight,
                  failed, lastSeq, finalSeq, complete, stopping>>
  BY DEF CaptureFails, Pause, queueing, life, archiving, taking, outcome
<1>3. \/ dropped' = dropped + 1 /\ pausedIntervals' = pausedIntervals
      \/ dropped' = dropped /\ pausedIntervals' = pausedIntervals + 1
  BY DEF CaptureFails, Pause, Lose, pausing
<1>4. DataInv' /\ LockFree'
  BY <1>0, <1>1, <1>2, <1>3, DataCounts
<1>5. pc' = pc \/ (pc = "pausing" /\ pc' = "journal")
  BY DEF CaptureFails, Pause, At, GoTo
<1>6. WriterAgrees'
  <2>1. finalSeq <= captureSeq' /\ (lastSeq <= captureSeq => lastSeq <= captureSeq')
    BY <1>0, <1>1 DEF WriterAgrees, DataInv, Types
  <2> QED
    BY <2>1, <1>0, <1>2, <1>4, <1>5 DEF WriterAgrees, Closing, Places
<1>7. Bytes'
  BY <1>0, <1>2, <1>5 DEF Bytes
<1>8. CompleteIsComplete'
  BY <1>0, <1>2 DEF CompleteIsComplete
<1> QED
  BY <1>4, <1>6, <1>7, <1>8, LogParts

LEMMA EnqueueKeeps ==
  ASSUME LogInv, NEW t \in Threads, Enqueue(t)
  PROVE  LogInv'
<1>0. DataInv /\ WriterAgrees /\ Bytes /\ CompleteIsComplete
  BY LogParts
<1>1. Put(t) /\ holding[t] # 0 /\ ~LockFree
  BY DEF Enqueue, Put, LockFree
<1>2. UNCHANGED <<captureSeq, records, gaps, lastWritten, written, inflight, failed, lastSeq,
                  finalSeq, complete, pausedIntervals, stopping, pc>>
  BY DEF Enqueue, Put, pausing, life, archiving, taking, outcome
<1>3. DataInv' /\ LockFree'
  BY <1>0, <1>1, <1>2, DataPuts
<1>4. pc \notin Closing
  BY <1>0, <1>1 DEF WriterAgrees
<1>5. WriterAgrees'
  BY <1>0, <1>2, <1>4 DEF WriterAgrees
<1>6. queuedBytes' - Len(queue') = queuedBytes - Len(queue)
      /\ queuedBytes' \in Int /\ Len(queue') \in Nat
  BY <1>1, <1>0 DEF Put, queueing, DataInv, Types
<1>7. Bytes'
  <2> DEFINE taken == IF pc = "got" THEN 1 ELSE 0
  <2>1. taken' = taken /\ taken \in Nat /\ queuedBytes = Len(queue) + taken
    BY <1>0, <1>2 DEF Bytes
  <2>2. Len(queue) \in Nat
    BY <1>0 DEF DataInv, Types
  <2>3. Bytes' <=> queuedBytes' = Len(queue') + taken'
    BY DEF Bytes
  <2> HIDE DEF taken
  <2> QED
    BY <2>1, <2>2, <2>3, <1>6
<1>8. CompleteIsComplete'
  BY <1>0, <1>2 DEF CompleteIsComplete
<1> QED
  BY <1>3, <1>5, <1>7, <1>8, LogParts

LEMMA GetKeeps ==
  ASSUME LogInv, Get
  PROVE  LogInv'
<1>0. DataInv /\ WriterAgrees /\ Bytes /\ CompleteIsComplete
  BY LogParts
<1>1. /\ UNCHANGED <<captureSeq, holding, dropped, pausedIntervals, queuedBytes, records, gaps,
                     lastWritten, written, failed, lastSeq, finalSeq, complete, stopping>>
      /\ pc = "get" /\ inflight = 0 /\ ~complete /\ ~failed
  BY <1>0 DEF Get, At, WriterAgrees, emitting, pausing, life, archiving, outcome, Closing
<1>2. CASE queue = <<>>
  <2>1. queue' = queue /\ inflight' = inflight /\ pc' = "turn"
    BY <1>2 DEF Get, GoTo
  <2>2. DataInv'
    BY <2>1, <1>0, <1>1, DataStays DEF Data, DataInv, Types
  <2>3. WriterAgrees' /\ Bytes' /\ CompleteIsComplete'
    BY <2>1, <1>0, <1>1 DEF WriterAgrees, Bytes, CompleteIsComplete, Closing, Places
  <2> QED
    BY <2>2, <2>3, LogParts
<1>3. CASE queue # <<>>
  <2>1. queue' = Tail(queue) /\ inflight' = Head(queue) /\ pc' = "got"
    BY <1>3 DEF Get, GoTo
  <2>2. DataInv' /\ inflight' # 0
    BY <2>1, <1>0, <1>1, <1>3, DataTakes
  <2>3. WriterAgrees'
    BY <2>1, <2>2, <1>0, <1>1 DEF WriterAgrees, Closing, Places
  <2>4. Len(queue) \in Nat /\ Len(queue') = Len(queue) - 1
    BY <2>1, <1>0, <1>3 DEF DataInv, Types
  <2>5. Bytes'
    BY <2>1, <2>4, <1>0, <1>1 DEF Bytes
  <2>6. CompleteIsComplete'
    BY <1>1 DEF CompleteIsComplete
  <2> QED
    BY <2>2, <2>3, <2>5, <2>6, LogParts
<1> QED
  BY <1>2, <1>3

LEMMA GotKeeps ==
  ASSUME LogInv, Got
  PROVE  LogInv'
<1>0. DataInv /\ WriterAgrees /\ Bytes /\ CompleteIsComplete
  BY LogParts
<1>1. /\ UNCHANGED Data /\ UNCHANGED <<failed, lastSeq, finalSeq, complete, stopping>>
      /\ pc = "got" /\ pc' \in {"gap", "losing"} /\ inflight # 0 /\ LockFree /\ ~complete
      /\ ~failed /\ queuedBytes' = queuedBytes - 1
  BY <1>0 DEF Got, At, GoTo, Data, WriterAgrees, emitting, pausing, archiving, life, taking,
              outcome, Closing
<1>2. queuedBytes = Len(queue) + 1 /\ Len(queue) \in Nat
  BY <1>0, <1>1 DEF Bytes, DataInv, Types
<1>3. queuedBytes' = Len(queue') /\ queuedBytes' \in Int
  BY <1>1, <1>2 DEF Data
<1>4. DataInv'
  BY <1>0, <1>1, <1>3, DataStays DEF DataInv, Types
<1>5. WriterAgrees' /\ Bytes'
  BY <1>0, <1>1, <1>3 DEF Data, WriterAgrees, Bytes, Closing, Places
<1>6. CompleteIsComplete'
  BY <1>1 DEF CompleteIsComplete
<1> QED
  BY <1>4, <1>5, <1>6, LogParts

LEMMA LowDiskKeeps ==
  ASSUME LogInv, LowDisk
  PROVE  LogInv'
<1>0. DataInv /\ WriterAgrees /\ Bytes /\ CompleteIsComplete
  BY LogParts
<1>1. /\ UNCHANGED <<captureSeq, holding, queue, queuedBytes, pausedIntervals, records, gaps,
                     lastWritten, written, failed, lastSeq, finalSeq, complete, stopping>>
      /\ pc = "losing" /\ pc' = "turn" /\ inflight # 0 /\ inflight' = 0 /\ LockFree
      /\ dropped' = dropped + 1 /\ ~complete /\ ~failed
  BY <1>0 DEF LowDisk, Lose, At, GoTo, WriterAgrees, queueing, pausing, life, archiving, outcome,
              Closing
<1>2. DataInv'
  BY <1>0, <1>1, DataLoses DEF DataInv, Types
<1>3. WriterAgrees' /\ Bytes'
  BY <1>0, <1>1 DEF WriterAgrees, Bytes, Closing, Places
<1>4. CompleteIsComplete'
  BY <1>1 DEF CompleteIsComplete
<1> QED
  BY <1>2, <1>3, <1>4, LogParts

LEMMA WriteGapKeeps ==
  ASSUME LogInv, WriteGap
  PROVE  LogInv'
<1>0. DataInv /\ WriterAgrees /\ Bytes /\ CompleteIsComplete
  BY LogParts
<1>1. /\ UNCHANGED <<captureSeq, holding, dropped, pausedIntervals, queue, queuedBytes, records,
                     written, inflight, failed, lastSeq, finalSeq, complete, stopping>>
      /\ pc = "gap" /\ pc' = "record" /\ inflight # 0
      /\ gaps' = gaps \cup (lastWritten + 1 .. inflight - 1)
      /\ lastWritten' = (IF inflight - 1 > lastWritten THEN inflight - 1 ELSE lastWritten)
  BY <1>0 DEF WriteGap, Gap, At, GoTo, WriterAgrees, emitting, queueing, pausing, life, taking,
              outcome
<1>2. DataInv'
  BY <1>0, <1>1, DataGaps
<1>3. WriterAgrees' /\ Bytes'
  BY <1>0, <1>1 DEF WriterAgrees, Bytes, Closing, Places
<1>4. CompleteIsComplete'
  BY <1>0, <1>1 DEF CompleteIsComplete
<1> QED
  BY <1>2, <1>3, <1>4, LogParts

LEMMA WriteRecordKeeps ==
  ASSUME LogInv, WriteRecord
  PROVE  LogInv'
<1>0. DataInv /\ WriterAgrees /\ Bytes /\ CompleteIsComplete
  BY LogParts
<1>1. /\ UNCHANGED <<captureSeq, holding, dropped, pausedIntervals, queue, queuedBytes, gaps,
                     failed, lastSeq, finalSeq, complete, stopping>>
      /\ pc = "record" /\ pc' = "turn" /\ inflight # 0 /\ inflight' = 0 /\ ~failed /\ ~complete
      /\ records' = records \cup {inflight} /\ lastWritten' = inflight /\ written' = written + 1
  BY <1>0 DEF WriteRecord, At, GoTo, WriterAgrees, emitting, queueing, pausing, life, outcome,
              Closing
<1>2. DataInv'
  BY <1>0, <1>1, DataWrites
<1>3. WriterAgrees' /\ Bytes'
  BY <1>0, <1>1 DEF WriterAgrees, Bytes, Closing, Places
<1>4. CompleteIsComplete'
  BY <1>1 DEF CompleteIsComplete
<1> QED
  BY <1>2, <1>3, <1>4, LogParts

LEMMA FailsKeeps ==
  ASSUME LogInv, Fails
  PROVE  LogInv'
<1>0. DataInv /\ WriterAgrees /\ Bytes /\ CompleteIsComplete
  BY LogParts
<1>1. /\ UNCHANGED <<captureSeq, holding, dropped, pausedIntervals, queue, queuedBytes, records,
                     written, lastWritten, inflight, lastSeq, finalSeq, complete, stopping>>
      /\ pc \in {"start", "turn", "maintain", "get", "gap", "record"} /\ pc' = "finally"
      /\ failed' = TRUE /\ ~complete
  BY <1>0 DEF Fails, At, GoTo, WriterAgrees, emitting, queueing, pausing, life, archiving, taking
<1>2. DataInv'
  <2>1. CASE UNCHANGED archiving
    BY <2>1, <1>0, <1>1, DataStays DEF archiving, Data, DataInv, Types
  <2>2. CASE pc = "gap" /\ gaps' = gaps \cup (lastWritten + 1 .. inflight - 1)
    <3>1. inflight # 0
      BY <2>2, <1>0 DEF WriterAgrees
    <3> QED
      BY <3>1, <2>2, <1>0, <1>1, DataGaps
  <2> QED
    BY <2>1, <2>2 DEF Fails
<1>3. WriterAgrees' /\ Bytes'
  BY <1>0, <1>1 DEF WriterAgrees, Bytes, Closing, Places
<1>4. CompleteIsComplete'
  BY <1>1 DEF CompleteIsComplete
<1> QED
  BY <1>2, <1>3, <1>4, LogParts

LEMMA FinallyKeeps ==
  ASSUME LogInv, Finally
  PROVE  LogInv'
<1>0. DataInv /\ WriterAgrees /\ Bytes /\ CompleteIsComplete
  BY LogParts
<1>1. /\ UNCHANGED <<captureSeq, holding, pausedIntervals, records, gaps, lastWritten, written,
                     failed, finalSeq, complete>>
      /\ pc = "finally" /\ pc' = "tail" /\ LockFree /\ stopping' = TRUE
      /\ inflight' = 0 /\ queue' = <<>> /\ queuedBytes' = queuedBytes - Len(queue)
      /\ dropped' = dropped + (InHand + Len(queue)) /\ lastSeq' = captureSeq /\ ~complete
  BY <1>0 DEF Finally, Lose, At, GoTo, WriterAgrees, pausing, archiving
<1>2. queuedBytes = Len(queue) /\ Len(queue) \in Nat
  BY <1>0, <1>1 DEF Bytes, DataInv, Types
<1>3. queuedBytes' = 0 /\ Len(queue') = 0
  BY <1>1, <1>2
<1>4. DataInv' /\ LockFree'
  BY <1>0, <1>1, <1>3, DataEnds
<1>5. WriterAgrees' /\ Bytes'
  BY <1>0, <1>1, <1>3, <1>4 DEF WriterAgrees, Bytes, Closing, Places, DataInv, Types
<1>6. CompleteIsComplete'
  BY <1>1 DEF CompleteIsComplete
<1> QED
  BY <1>4, <1>5, <1>6, LogParts

LEMMA WriteTailKeeps ==
  ASSUME LogInv, WriteTail
  PROVE  LogInv'
<1>0. DataInv /\ WriterAgrees /\ Bytes /\ CompleteIsComplete
  BY LogParts
<1>1. /\ UNCHANGED <<captureSeq, holding, dropped, pausedIntervals, queue, queuedBytes,
                     records, written, inflight, failed, lastSeq, finalSeq, complete, stopping>>
      /\ pc = "tail" /\ pc' = "status" /\ ~complete /\ LockFree /\ inflight = 0 /\ queue = <<>>
      /\ lastSeq <= captureSeq
  BY <1>0 DEF WriteTail, Gap, At, GoTo, WriterAgrees, emitting, queueing, pausing, life, archiving,
              taking, outcome, Closing
<1>2. LockFree'
  BY <1>1 DEF LockFree
<1>3. DataInv'
  <2>1. CASE allowed = "yes" /\ ~failed
    BY <2>1, <1>0, <1>1, DataTail DEF WriteTail, Gap
  <2>2. CASE ~(allowed = "yes" /\ ~failed)
    BY <2>2, <1>0, <1>1, DataStays DEF WriteTail, archiving, Data, DataInv, Types
  <2> QED
    BY <2>1, <2>2
<1>4. WriterAgrees' /\ Bytes'
  BY <1>0, <1>1, <1>2 DEF WriterAgrees, Bytes, Closing, Places
<1>5. CompleteIsComplete'
  BY <1>1 DEF CompleteIsComplete
<1> QED
  BY <1>3, <1>4, <1>5, LogParts

LEMMA WriteStatusKeeps ==
  ASSUME LogInv, WriteStatus
  PROVE  LogInv'
<1>0. DataInv /\ WriterAgrees /\ Bytes /\ CompleteIsComplete
  BY LogParts
<1>1. /\ UNCHANGED Data
      /\ UNCHANGED <<queuedBytes, failed, lastSeq, complete, stopping>>
      /\ pc = "status" /\ pc' = "claim" /\ ~complete /\ finalSeq' = captureSeq
  BY <1>0 DEF WriteStatus, Data, At, GoTo, WriterAgrees, emitting, queueing, pausing, life,
              archiving, taking
<1>2. DataInv'
  BY <1>0, <1>1, DataStays DEF DataInv, Types
<1>3. LockFree' <=> LockFree
  BY <1>1 DEF Data, LockFree
<1>4. finalSeq' <= captureSeq'
  BY <1>0, <1>1 DEF Data, DataInv, Types
<1>5. WriterAgrees' /\ Bytes'
  BY <1>0, <1>1, <1>3, <1>4 DEF Data, WriterAgrees, Bytes, Closing, Places
<1>6. CompleteIsComplete'
  BY <1>1 DEF CompleteIsComplete
<1> QED
  BY <1>2, <1>5, <1>6, LogParts

\* The claim is made from the counters: nothing was counted, so nothing vanished.
LEMMA ClaimKeeps ==
  ASSUME LogInv, Claim
  PROVE  LogInv'
<1>0. DataInv /\ WriterAgrees /\ Bytes /\ CompleteIsComplete
  BY LogParts
<1>1. /\ UNCHANGED Data
      /\ UNCHANGED <<queuedBytes, failed, lastSeq, finalSeq, stopping>>
      /\ pc = "claim" /\ pc' = "over"
      /\ (complete' => dropped = 0 /\ pausedIntervals = 0)
  BY DEF Claim, Data, At, GoTo, emitting, queueing, pausing, life, archiving, taking
<1>2. DataInv'
  BY <1>0, <1>1, DataStays DEF DataInv, Types
<1>3. LockFree' <=> LockFree
  BY <1>1 DEF Data, LockFree
<1>4. WriterAgrees' /\ Bytes'
  BY <1>0, <1>1, <1>3 DEF Data, WriterAgrees, Bytes, Closing, Places
<1>5. CompleteIsComplete'
  <2> SUFFICES ASSUME complete', NEW n \in 1 .. finalSeq
               PROVE  n \in records
    BY <1>1 DEF CompleteIsComplete, Data
  <2>1. /\ queue = <<>> /\ inflight = 0 /\ LockFree /\ finalSeq <= captureSeq
    BY <1>0, <1>1 DEF WriterAgrees, Closing
  <2>2. n \in 1 .. captureSeq /\ dropped + pausedIntervals = 0 /\ Len(queue) = 0
    BY <2>1, <1>0, <1>1 DEF DataInv, Types
  <2>3. \A t \in Threads : holding[t] # n
    BY <2>1, <2>2 DEF LockFree
  <2> QED
    BY <2>1, <2>2, <2>3, <1>0 DEF DataInv, NothingVanishes
<1> QED
  BY <1>2, <1>4, <1>5, LogParts

-----------------------------------------------------------------------------
(* The invariant and what follows from it. *)

LEMMA InitHolds ==
  ASSUME Init
  PROVE  LogInv
<1>1. /\ captureSeq \in Nat /\ pausedIntervals \in Nat /\ queue \in Seq(Nat)
      /\ \/ captureSeq = 0 /\ pausedIntervals = 0 /\ queue = <<>>
         \/ captureSeq = 2 /\ pausedIntervals = 1 /\ queue = <<1>>
  BY DEF Init
<1>2. LockFree /\ (\A t \in Threads : holding[t] = 0) /\ holding \in [Threads -> Nat]
  BY DEF Init, LockFree
<1>3. InLock = 0 /\ InHand = 0
  BY <1>2, InLockValues DEF Init
<1>4. Types
  BY <1>1, <1>2 DEF Init, Types
<1>5. OneHolder
  BY <1>2 DEF OneHolder
<1>6. QueueInOrder /\ ArchiveBehind
  BY <1>1, <1>2 DEF Init, QueueInOrder, ArchiveBehind
<1>7. NothingVanishes
  BY <1>1, <1>2 DEF Init, NothingVanishes
<1>8. Numbers
  BY <1>1, <1>3 DEF Init, Numbers
<1>9. WriterAgrees /\ Bytes /\ CompleteIsComplete
  BY <1>1, <1>2 DEF Init, WriterAgrees, Bytes, CompleteIsComplete, Closing, Places
<1> QED
  BY <1>4, <1>5, <1>6, <1>7, <1>8, <1>9 DEF LogInv

LEMMA StepHolds ==
  ASSUME LogInv, [Next]_vars
  PROVE  LogInv'
<1>1. CASE \E t \in Producers : Capture(t)
  BY <1>1, AdmitKeeps DEF Capture, Threads
<1>2. CASE \E t \in Threads : Enqueue(t)
  BY <1>2, EnqueueKeeps
<1>3. CASE CaptureFails \/ Pause
  BY <1>3, CountKeeps
<1>4. CASE SwitchOff
  BY <1>4, AdmitKeeps DEF SwitchOff, At, GoTo, Threads
<1>5. CASE Resume
  BY <1>5, AdmitKeeps DEF Resume, At, GoTo, Threads
<1>6. CASE Backfill
  <2>1. Admit("writer") /\ pc = "reading" /\ pc' \in {"maintain", "delivering"}
        /\ UNCHANGED <<queueing, pausing, life, archiving, taking, outcome>>
    BY <1>6 DEF Backfill, At, GoTo
  <2> QED
    BY <2>1, AdmitKeeps DEF Threads
<1>7. CASE Moves
  BY <1>7, MovesKeep
<1>8. CASE Get \/ Got \/ LowDisk \/ WriteGap \/ WriteRecord \/ Fails \/ Finally \/ WriteTail
           \/ WriteStatus \/ Claim
  BY <1>8, GetKeeps, GotKeeps, LowDiskKeeps, WriteGapKeeps, WriteRecordKeeps, FailsKeeps, FinallyKeeps,
     WriteTailKeeps, WriteStatusKeeps, ClaimKeeps
<1>9. CASE UNCHANGED vars
  BY <1>9 DEF vars, LogInv, Types, OneHolder, QueueInOrder, ArchiveBehind, NothingVanishes, Numbers,
              WriterAgrees, Bytes, CompleteIsComplete, LockFree, InLock, InHand
<1> QED
  BY <1>1, <1>2, <1>3, <1>4, <1>5, <1>6, <1>7, <1>8, <1>9 DEF Next, Writer, Moves

THEOREM LogInvariant == Spec => []LogInv
<1>1. Init => LogInv
  BY InitHolds
<1>2. LogInv /\ [Next]_vars => LogInv'
  BY StepHolds
<1> QED
  BY <1>1, <1>2, PTL DEF Spec

LEMMA InvShows ==
  ASSUME LogInv
  PROVE  Accounted /\ NoFalseGap /\ CompleteIsComplete
<1>1. Accounted
  BY DEF LogInv, Numbers, Bytes, Accounted
<1>2. NoFalseGap
  <2>1. ASSUME NEW w \in Waiting, NEW s \in records \cup gaps
        PROVE  s < w
    <3>1. CASE w \in Queued
      BY <3>1 DEF Queued, LogInv, ArchiveBehind
    <3>2. CASE w = inflight /\ w # 0
      BY <3>2 DEF LogInv, ArchiveBehind
    <3>3. CASE \E t \in Threads : w = holding[t] /\ w # 0
      <4>1. w = captureSeq /\ ~LockFree
        BY <3>3 DEF LogInv, OneHolder, LockFree
      <4> QED
        BY <4>1 DEF LogInv, ArchiveBehind
    <3> QED
      BY <3>1, <3>2, <3>3 DEF Waiting
  <2> QED
    BY <2>1 DEF NoFalseGap, LogInv, ArchiveBehind
<1> QED
  BY <1>1, <1>2 DEF LogInv

(* The counters tell what became of every number taken, for any number of  *)
(* producers, limits of the queue and pauses (research_log.py emit,        *)
(* _writer).                                                               *)
THEOREM EverythingAccounted == Spec => []Accounted
BY LogInvariant, InvShows, PTL

(* A gap is declared over what was lost only, and the archive is in order, *)
(* whatever the threads do between taking a number and queueing it.        *)
THEOREM GapsAreLosses == Spec => []NoFalseGap
BY LogInvariant, InvShows, PTL

(* A session that claims a complete capture has every record it numbered,  *)
(* whenever close() was called and however the writer ended.               *)
THEOREM ClaimsHold == Spec => []CompleteIsComplete
BY LogInvariant, InvShows, PTL
===============================================================================
