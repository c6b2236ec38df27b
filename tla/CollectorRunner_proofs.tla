------------------------ MODULE CollectorRunner_proofs ------------------------
(***************************************************************************)
(* The collector's entry gate under any number of connections, any queue   *)
(* capacity and any thresholds: its type, that it is shut in every         *)
(* recovery and for good once the capture ends, and, from a second         *)
(* invariant about the frames outstanding, that it opens on one connection *)
(* only and that the streams of two connections never mix.                 *)
(***************************************************************************)
EXTENDS CollectorRunner, TLAPS

(* What a handler that only ever closes the gate keeps of it.              *)
Shut(g) == g.drain \/ g.catchingUp => g.paused

Closes(g, h) ==
  /\ h \in Gates
  /\ g.paused => h.paused
  /\ g.drain => h.drain
  /\ Shut(g) => Shut(h)

LEMMA GateInitType == GateInit \in Gates /\ GateInit.paused /\ EngineInit \in Engines
  BY DEF GateInit, Gates, EngineInit, Engines

LEMMA SameGate == ASSUME NEW g \in Gates PROVE Closes(g, g)
  BY DEF Closes

LEMMA ClosesTransitive ==
  ASSUME NEW f, NEW g, NEW h, Closes(f, g), Closes(g, h)
  PROVE  Closes(f, h)
  BY DEF Closes

LEMMA RequestCloses ==
  ASSUME NEW g \in Gates
  PROVE  /\ Closes(g, Request(g))
         /\ Request(g).paused /\ Request(g).drain
<1> DEFINE h == [g EXCEPT !.paused = TRUE, !.drain = TRUE]
<1>1. h \in Gates /\ h.paused /\ h.drain
  BY DEF Gates
<1>2. Request(g) = h
  BY DEF Request
<1> HIDE DEF h
<1>3. QED
  BY <1>1, <1>2 DEF Closes, Shut

LEMMA RequestIfCloses ==
  ASSUME NEW g \in Gates, NEW c \in BOOLEAN
  PROVE  /\ Closes(g, RequestIf(c, g))
         /\ c => RequestIf(c, g).paused /\ RequestIf(c, g).drain
  BY RequestCloses, SameGate DEF RequestIf

LEMMA PressureCloses ==
  ASSUME NEW g \in Gates, NEW lag \in Lags, NEW depth \in Nat
  PROVE  /\ Closes(g, Pressure(g, lag, depth))
         /\ depth >= Overload => /\ Pressure(g, lag, depth).paused
                                 /\ Pressure(g, lag, depth).drain
<1> DEFINE late == depth < Overload /\ lag = Limit
           full == depth >= Overload
           lagging == Backlog(lag # Low, depth) /\ (g.catchingUp \/ late)
<1>1. ASSUME NEW a \in BOOLEAN, NEW b \in BOOLEAN, NEW c \in BOOLEAN
      PROVE  LET h == [g EXCEPT !.paused = g.paused \/ a \/ b, !.drain = g.drain \/ b,
                                !.catchingUp = g.catchingUp \/ a, !.lagging = c]
             IN  /\ Closes(g, h)
                 /\ b => h.paused /\ h.drain
  BY DEF Gates, Closes, Shut
<1>2. late \in BOOLEAN /\ full \in BOOLEAN /\ lagging \in BOOLEAN
  OBVIOUS
<1>3. Pressure(g, lag, depth) =
        [g EXCEPT !.paused = g.paused \/ late \/ full, !.drain = g.drain \/ full,
                  !.catchingUp = g.catchingUp \/ late, !.lagging = lagging]
  BY DEF Pressure
<1> HIDE DEF late, lagging
<1>4. QED
  BY <1>1, <1>2, <1>3

LEMMA ObserveCloses ==
  ASSUME NEW g \in Gates, NEW f \in Frames, NEW outcome
  PROVE  Closes(g, Observe(g, f, outcome))
<1> DEFINE opened == IF f.kind = "connected"
                       THEN [g EXCEPT !.connection = f.conn, !.seen = g.seen \cap {"metadata"}]
                       ELSE g
           counts == /\ outcome # "invalid"
                     /\ \/ f.kind = "metadata"
                        \/ f.kind \in Streams /\ f.conn = opened.connection
           forgets == counts /\ f.kind = "reference"
           seen == (opened.seen \ {k \in {"reference"} : forgets})
                     \cup {k \in {f.kind} : counts /\ Shows(f, outcome)}
           h == [opened EXCEPT !.seen = seen]
<1>1. ASSUME NEW c \in Connections, NEW s \in SUBSET (Streams \cup {"metadata"})
      PROVE  LET o == [g EXCEPT !.connection = c, !.seen = s]
             IN  o \in Gates /\ Closes(g, o)
  BY DEF Gates, Closes, Shut
<1>2. opened \in Gates /\ Closes(g, opened)
<2>1. f.conn \in Connections /\ g.seen \cap {"metadata"} \in SUBSET (Streams \cup {"metadata"})
  BY DEF Frames
<2>2. QED
  BY <1>1, <2>1, SameGate
<1>3. seen \in SUBSET (Streams \cup {"metadata"})
<2>1. opened.seen \in SUBSET (Streams \cup {"metadata"})
  BY <1>2 DEF Gates
<2>2. counts => f.kind \in Streams \cup {"metadata"}
  OBVIOUS
<2> HIDE DEF opened, counts
<2>3. QED
  BY <2>1, <2>2
<1>4. ASSUME NEW o \in Gates, NEW s \in SUBSET (Streams \cup {"metadata"})
      PROVE  Closes(o, [o EXCEPT !.seen = s])
  BY DEF Gates, Closes, Shut
<1>5. Observe(g, f, outcome) = IF g.drain THEN g ELSE h
  BY DEF Observe
<1> HIDE DEF opened, seen
<1>6. Closes(opened, h)
  BY <1>2, <1>3, <1>4
<1>7. QED
  BY <1>2, <1>5, <1>6, SameGate, ClosesTransitive

LEMMA ReconnectedType ==
  ASSUME NEW g \in Gates
  PROVE  /\ Reconnected(g) \in Gates
         /\ Reconnected(g).paused = g.paused
         /\ ~Reconnected(g).drain /\ ~Reconnected(g).catchingUp
  BY DEF Reconnected, Gates

LEMMA InvalidatedType ==
  ASSUME NEW c \in Connections
  PROVE  Invalidated(c) \in Engines
  BY DEF Invalidated, Engines

LEMMA IngestType ==
  ASSUME NEW e \in Engines, NEW f \in Frames, NEW outcome \in Outcomes
  PROVE  Ingest(e, f, outcome) \in Engines
<1> DEFINE changed == f.conn # e.connection
           entered == CASE changed /\ f.kind = "connected" ->
                             [Invalidated(f.conn) EXCEPT !.integrity = FALSE]
                        [] (changed /\ f.kind # "connected") \/ outcome = "jump" ->
                             Invalidated(f.conn)
                        [] OTHER -> e
           usable == (entered.usable \ Withdraws(outcome)) \cup Restores(f, outcome)
<1>1. f.conn \in Connections
  BY DEF Frames
<1>2. Invalidated(f.conn) \in Engines
  BY <1>1, InvalidatedType
<1>3. \A x \in Engines : [x EXCEPT !.integrity = FALSE] \in Engines
  BY DEF Engines
<1>4. entered \in Engines
  BY <1>2, <1>3
<1> HIDE DEF entered
<1>5. usable \in SUBSET Streams
  BY <1>4 DEF Engines, Restores
<1>6. \A x \in Engines, s \in SUBSET Streams : [x EXCEPT !.usable = s] \in Engines
  BY DEF Engines
<1>7. Ingest(e, f, outcome) =
        IF f.kind = "interrupt" \/ outcome = "invalid" THEN Invalidated(f.conn)
        ELSE [entered EXCEPT !.usable = usable]
  BY DEF Ingest, entered
<1> HIDE DEF usable
<1>8. QED
  BY <1>2, <1>4, <1>5, <1>6, <1>7

-----------------------------------------------------------------------------
(* Frames outstanding.                                                     *)

LEMMA OvertakenType ==
  ASSUME NEW frames \in Seq(Frames)
  PROVE  Overtaken(frames) \in Seq(Frames) /\ Len(Overtaken(frames)) = Len(frames)
<1> DEFINE moved == SinceMoves(gate, gate')
           frame(i) == [frames[i] EXCEPT !.recent =
                          frames[i].recent /\ ~(moved /\ frames[i].kind \in Dated)]
<1>1. \A x \in Frames, b \in BOOLEAN : [x EXCEPT !.recent = b] \in Frames
  BY DEF Frames
<1>2. ASSUME NEW i \in 1..Len(frames)
      PROVE  frame(i) \in Frames
<2>1. frames[i] \in Frames
  OBVIOUS
<2>2. QED
  BY <1>1, <2>1
<1>3. DOMAIN frames = 1..Len(frames) /\ Len(frames) \in Nat
  OBVIOUS
<1>4. Overtaken(frames) = [i \in 1..Len(frames) |-> frame(i)]
  BY <1>3 DEF Overtaken
<1> HIDE DEF frame
<1>5. QED
  BY <1>2, <1>3, <1>4

LEMMA PendingLagType ==
  ASSUME CollectorAssumption
  PROVE  PendingLag \subseteq Lags
  BY DEF PendingLag, CollectorAssumption

LEMMA EmitKeeps ==
  ASSUME CollectorAssumption, RunnerTypeOK,
         NEW kind \in Kinds, NEW recent \in BOOLEAN, NEW conn \in Connections,
         NEW g \in Gates, NEW r \in BOOLEAN,
         Emit(kind, recent, conn, g, r)
  PROVE  /\ Closes(g, gate') /\ reconnect' \in BOOLEAN
         /\ queue' \in Seq(Frames) /\ Len(queue') <= Capacity
         /\ batch' \in Seq(Frames) /\ Len(batch') <= Capacity
         /\ Len(queue') = Capacity => gate'.paused /\ gate'.drain
<1> DEFINE added == Append(queue, [kind |-> kind, conn |-> conn, recent |-> recent])
           depth == Len(Pending) + 1
<1>1. PICK lag \in PendingLag : gate' = Pressure(g, lag, depth)
  BY DEF Emit
<1>2. [kind |-> kind, conn |-> conn, recent |-> recent] \in Frames
  BY DEF Frames
<1>3. /\ queue \in Seq(Frames) /\ batch \in Seq(Frames) /\ Len(batch) <= Capacity
      /\ Len(queue) < Capacity /\ Capacity \in Nat /\ Overload <= Capacity /\ Overload \in Nat
  BY DEF RunnerTypeOK, Emit, CollectorAssumption
<1>4. added \in Seq(Frames) /\ Len(added) = Len(queue) + 1
  BY <1>2, <1>3
<1>5. /\ queue' = Overtaken(added) /\ batch' = Overtaken(batch)
      /\ reconnect' = (r \/ gate'.drain)
  BY DEF Emit
<1> HIDE DEF added
<1>6. Len(Pending) = Len(batch) + Len(queue)
  BY <1>3 DEF Pending
<1>7. depth \in Nat /\ depth >= Len(queue) + 1
  BY <1>3, <1>6
<1> HIDE DEF depth
<1>8. /\ Closes(g, gate')
      /\ depth >= Overload => gate'.paused /\ gate'.drain
  BY <1>1, <1>7, PendingLagType, PressureCloses
<1>9. /\ queue' \in Seq(Frames) /\ Len(queue') = Len(queue) + 1
      /\ batch' \in Seq(Frames) /\ Len(batch') = Len(batch)
  BY <1>3, <1>4, <1>5, OvertakenType
<1>10. reconnect' \in BOOLEAN
  BY <1>5
<1>11. Len(queue') = Capacity => depth >= Overload
  BY <1>3, <1>7, <1>9
<1>12. Len(queue') <= Capacity /\ Len(batch') <= Capacity
  BY <1>3, <1>9
<1>13. QED
  BY <1>8, <1>9, <1>10, <1>11, <1>12

-----------------------------------------------------------------------------
(* The invariant.  Once the capture ends, or the queue is full, the gate is *)
(* shut, and a check that had found no reason against opening it will see   *)
(* a drain under its lock.                                                  *)
Ending == Len(queue) = Capacity \/ life \in {"stopping", "over"}

EndsShut ==
  Ending => gate.paused /\ (worker.pc = "decide" /\ worker.ready => gate.drain)

CollectorInv == RunnerTypeOK /\ ClosedInRecovery /\ EndsShut

LEMMA InitCollector == CollectorAssumption /\ RunnerInit => CollectorInv
<1> SUFFICES ASSUME CollectorAssumption, RunnerInit PROVE CollectorInv
  OBVIOUS
<1>1. gate \in Gates /\ engine \in Engines /\ gate.paused
  BY GateInitType DEF RunnerInit
<1>2. Len(queue) = 0 /\ Len(batch) = 0 /\ Capacity \in Nat /\ queue = <<>> /\ batch = <<>>
  BY DEF RunnerInit, CollectorAssumption
<1>3. queue \in Seq(Frames) /\ batch \in Seq(Frames)
  BY <1>2
<1>4. RunnerTypeOK
<2>1. worker \in [pc : {"idle", "apply", "pressure", "check", "decide",
                       "finished", "resetting"},
                 valid : BOOLEAN, late : BOOLEAN, ready : BOOLEAN]
  BY DEF RunnerInit
<2>2. Len(queue) <= Capacity /\ Len(batch) <= Capacity
  BY <1>2
<2>3. /\ connection \in Connections
      /\ connected \in BOOLEAN /\ snapshotDue \in BOOLEAN
      /\ reconnect \in BOOLEAN /\ drained \in BOOLEAN /\ metadataReady \in BOOLEAN
      /\ asked \in BOOLEAN /\ settled \in BOOLEAN
      /\ receiver \in {"starting", "draining", "drained", "reset", "metadata", "handshake",
                       "open", "backoff", "ended"}
      /\ refresher \in {"waiting", "asking", "polling"}
      /\ life \in {"running", "stop", "stopping", "over"}
  BY DEF RunnerInit
<2>4. QED
  BY <1>1, <1>3, <2>1, <2>2, <2>3 DEF RunnerTypeOK
<1>5. worker.pc # "decide"
  BY DEF RunnerInit
<1>6. QED
  BY <1>1, <1>4, <1>5 DEF CollectorInv, ClosedInRecovery, EndsShut

\* A step that only closes the gate, and ends nothing without a drain.
ClosingStep ==
  /\ Closes(gate, gate')
  /\ worker'.pc = "decide" /\ worker'.ready => worker.pc = "decide" /\ worker.ready
  /\ Ending' => Ending \/ (gate'.paused /\ gate'.drain)

LEMMA ClosingStepShuts ==
  ASSUME CollectorInv, ClosingStep
  PROVE  ClosedInRecovery' /\ EndsShut'
<1>1. Shut(gate')
  BY DEF CollectorInv, ClosingStep, Closes, ClosedInRecovery, Shut
<1>2. ClosedInRecovery'
  BY <1>1 DEF ClosedInRecovery, Shut
<1>3. EndsShut'
  BY DEF CollectorInv, ClosingStep, Closes, EndsShut
<1>4. QED
  BY <1>2, <1>3

\* Such a step that receives at most one frame.
LEMMA EmitShuts ==
  ASSUME CollectorAssumption, CollectorInv,
         NEW kind \in Kinds, NEW recent \in BOOLEAN, NEW conn \in Connections,
         NEW g \in Gates, NEW r \in BOOLEAN,
         Closes(gate, g), Emit(kind, recent, conn, g, r),
         UNCHANGED worker,
         life' = life \/ (g.paused /\ g.drain)
  PROVE  /\ gate' \in Gates /\ reconnect' \in BOOLEAN
         /\ queue' \in Seq(Frames) /\ Len(queue') <= Capacity
         /\ batch' \in Seq(Frames) /\ Len(batch') <= Capacity
         /\ ClosedInRecovery' /\ EndsShut'
<1>1. RunnerTypeOK
  BY DEF CollectorInv
<1>2. /\ Closes(g, gate') /\ reconnect' \in BOOLEAN
      /\ queue' \in Seq(Frames) /\ Len(queue') <= Capacity
      /\ batch' \in Seq(Frames) /\ Len(batch') <= Capacity
      /\ Len(queue') = Capacity => gate'.paused /\ gate'.drain
  BY <1>1, EmitKeeps
<1>3. Closes(gate, gate')
  BY <1>2, ClosesTransitive
<1>4. gate' \in Gates /\ (g.paused /\ g.drain => gate'.paused /\ gate'.drain)
  BY <1>2 DEF Closes
<1>5. ClosingStep
  BY <1>2, <1>3, <1>4 DEF ClosingStep, Ending
<1>6. QED
  BY <1>2, <1>4, <1>5, ClosingStepShuts

\* The worker's handlers that move the gate.
LEMMA WorkerShuts ==
  ASSUME CollectorAssumption, CollectorInv,
         NEW g, Closes(gate, g), WorkerMoves(g), UNCHANGED life,
         worker'.pc # "decide"
  PROVE  /\ gate' \in Gates /\ asked' \in BOOLEAN
         /\ queue' \in Seq(Frames) /\ Len(queue') = Len(queue)
         /\ ClosedInRecovery' /\ EndsShut'
<1>1. gate' = g /\ queue' = Overtaken(queue)
  BY DEF WorkerMoves
<1>2. queue \in Seq(Frames)
  BY DEF CollectorInv, RunnerTypeOK
<1>3. queue' \in Seq(Frames) /\ Len(queue') = Len(queue)
  BY <1>1, <1>2, OvertakenType
<1>4. asked' \in BOOLEAN
  BY DEF WorkerMoves, KeepAsked
<1>5. ClosingStep
  BY <1>1, <1>3 DEF ClosingStep, Ending
<1>6. QED
  BY <1>1, <1>3, <1>4, <1>5, ClosingStepShuts DEF Closes

-----------------------------------------------------------------------------
(* One lemma per handler: receipt.                                         *)

LEMMA Types == ASSUME CollectorInv
  PROVE  /\ RunnerTypeOK /\ gate \in Gates /\ Closes(gate, gate)
         /\ reconnect \in BOOLEAN /\ asked \in BOOLEAN /\ connection \in Connections
         /\ "other" \in Kinds /\ "metadata" \in Kinds /\ "interrupt" \in Kinds
         /\ "connected" \in Kinds /\ Streams \subseteq Kinds
  BY SameGate DEF CollectorInv, RunnerTypeOK, Kinds

LEMMA HeartbeatKeeps ==
  ASSUME CollectorAssumption, CollectorInv, Heartbeat
  PROVE  CollectorInv'
<1>1. Emit("other", TRUE, connection, gate, reconnect)
      /\ UNCHANGED worker /\ (life' = life)
  BY DEF Heartbeat
<1>2. /\ gate' \in Gates /\ reconnect' \in BOOLEAN
      /\ queue' \in Seq(Frames) /\ Len(queue') <= Capacity
      /\ batch' \in Seq(Frames) /\ Len(batch') <= Capacity
      /\ ClosedInRecovery' /\ EndsShut'
  BY <1>1, Types, EmitShuts
<1>3. /\ engine' = engine /\ asked' \in BOOLEAN /\ snapshotDue' \in BOOLEAN
      /\ UNCHANGED <<worker, drained, metadataReady, settled>>
  BY Types DEF RunnerTypeOK, socket, Heartbeat, KeepAsked
<1>4. /\ connection' \in Connections /\ connected' \in BOOLEAN
      /\ receiver' \in {"starting", "draining", "drained", "reset", "metadata", "handshake",
                       "open", "backoff", "ended"}
      /\ refresher' \in {"waiting", "asking", "polling"}
      /\ life' \in {"running", "stop", "stopping", "over"}
  BY Types DEF RunnerTypeOK, socket, Heartbeat
<1>5. RunnerTypeOK'
  BY <1>2, <1>3, <1>4, Types DEF RunnerTypeOK
<1>6. QED
  BY <1>2, <1>5 DEF CollectorInv

LEMMA ReceiveFrameKeeps ==
  ASSUME CollectorAssumption, CollectorInv, NEW kind \in Streams, ReceiveFrame(kind)
  PROVE  CollectorInv'
<1>1. Emit(kind, TRUE, connection, gate, reconnect)
      /\ UNCHANGED worker /\ (life' = life)
  BY DEF ReceiveFrame
<1>2. /\ gate' \in Gates /\ reconnect' \in BOOLEAN
      /\ queue' \in Seq(Frames) /\ Len(queue') <= Capacity
      /\ batch' \in Seq(Frames) /\ Len(batch') <= Capacity
      /\ ClosedInRecovery' /\ EndsShut'
  BY <1>1, Types, EmitShuts
<1>3. /\ engine' = engine /\ asked' \in BOOLEAN /\ snapshotDue' \in BOOLEAN
      /\ UNCHANGED <<worker, drained, metadataReady, settled>>
  BY Types DEF RunnerTypeOK, socket, ReceiveFrame, KeepAsked
<1>4. /\ connection' \in Connections /\ connected' \in BOOLEAN
      /\ receiver' \in {"starting", "draining", "drained", "reset", "metadata", "handshake",
                       "open", "backoff", "ended"}
      /\ refresher' \in {"waiting", "asking", "polling"}
      /\ life' \in {"running", "stop", "stopping", "over"}
  BY Types DEF RunnerTypeOK, socket, ReceiveFrame
<1>5. RunnerTypeOK'
  BY <1>2, <1>3, <1>4, Types DEF RunnerTypeOK
<1>6. QED
  BY <1>2, <1>5 DEF CollectorInv

LEMMA AnsweredKeeps ==
  ASSUME CollectorAssumption, CollectorInv, Answered
  PROVE  CollectorInv'
<1>1. Emit("metadata", asked, connection, gate, reconnect)
      /\ UNCHANGED worker /\ (life' = life)
  BY DEF Answered
<1>2. /\ gate' \in Gates /\ reconnect' \in BOOLEAN
      /\ queue' \in Seq(Frames) /\ Len(queue') <= Capacity
      /\ batch' \in Seq(Frames) /\ Len(batch') <= Capacity
      /\ ClosedInRecovery' /\ EndsShut'
  BY <1>1, Types, EmitShuts
<1>3. /\ engine' = engine /\ asked' \in BOOLEAN /\ snapshotDue' \in BOOLEAN
      /\ UNCHANGED <<worker, drained, metadataReady, settled>>
  BY Types DEF RunnerTypeOK, socket, Answered
<1>4. /\ connection' \in Connections /\ connected' \in BOOLEAN
      /\ receiver' \in {"starting", "draining", "drained", "reset", "metadata", "handshake",
                       "open", "backoff", "ended"}
      /\ refresher' \in {"waiting", "asking", "polling"}
      /\ life' \in {"running", "stop", "stopping", "over"}
  BY Types DEF RunnerTypeOK, socket, Answered
<1>5. RunnerTypeOK'
  BY <1>2, <1>3, <1>4, Types DEF RunnerTypeOK
<1>6. QED
  BY <1>2, <1>5 DEF CollectorInv

LEMMA RefreshFailsKeeps ==
  ASSUME CollectorAssumption, CollectorInv, RefreshFails
  PROVE  CollectorInv'
<1>1. Emit("interrupt", TRUE, connection, gate, reconnect)
      /\ UNCHANGED worker /\ (life' = life)
  BY DEF RefreshFails
<1>2. /\ gate' \in Gates /\ reconnect' \in BOOLEAN
      /\ queue' \in Seq(Frames) /\ Len(queue') <= Capacity
      /\ batch' \in Seq(Frames) /\ Len(batch') <= Capacity
      /\ ClosedInRecovery' /\ EndsShut'
  BY <1>1, Types, EmitShuts
<1>3. /\ engine' = engine /\ asked' \in BOOLEAN /\ snapshotDue' \in BOOLEAN
      /\ UNCHANGED <<worker, drained, metadataReady, settled>>
  BY Types DEF RunnerTypeOK, socket, RefreshFails
<1>4. /\ connection' \in Connections /\ connected' \in BOOLEAN
      /\ receiver' \in {"starting", "draining", "drained", "reset", "metadata", "handshake",
                       "open", "backoff", "ended"}
      /\ refresher' \in {"waiting", "asking", "polling"}
      /\ life' \in {"running", "stop", "stopping", "over"}
  BY Types DEF RunnerTypeOK, socket, RefreshFails
<1>5. RunnerTypeOK'
  BY <1>2, <1>3, <1>4, Types DEF RunnerTypeOK
<1>6. QED
  BY <1>2, <1>5 DEF CollectorInv

LEMMA LoseKeeps ==
  ASSUME CollectorAssumption, CollectorInv, Lose
  PROVE  CollectorInv'
<1>1. Emit("interrupt", TRUE, connection, gate, reconnect)
      /\ UNCHANGED worker /\ (life' = life)
  BY DEF Lose
<1>2. /\ gate' \in Gates /\ reconnect' \in BOOLEAN
      /\ queue' \in Seq(Frames) /\ Len(queue') <= Capacity
      /\ batch' \in Seq(Frames) /\ Len(batch') <= Capacity
      /\ ClosedInRecovery' /\ EndsShut'
  BY <1>1, Types, EmitShuts
<1>3. /\ engine' = engine /\ asked' \in BOOLEAN /\ snapshotDue' \in BOOLEAN
      /\ UNCHANGED <<worker, drained, metadataReady, settled>>
  BY Types DEF RunnerTypeOK, socket, Lose, KeepAsked
<1>4. /\ connection' \in Connections /\ connected' \in BOOLEAN
      /\ receiver' \in {"starting", "draining", "drained", "reset", "metadata", "handshake",
                       "open", "backoff", "ended"}
      /\ refresher' \in {"waiting", "asking", "polling"}
      /\ life' \in {"running", "stop", "stopping", "over"}
  BY Types DEF RunnerTypeOK, socket, Lose
<1>5. RunnerTypeOK'
  BY <1>2, <1>3, <1>4, Types DEF RunnerTypeOK
<1>6. QED
  BY <1>2, <1>5 DEF CollectorInv

LEMMA AskKeeps ==
  ASSUME CollectorInv, Ask
  PROVE  CollectorInv'
<1>1. RunnerTypeOK'
  BY Types DEF RunnerTypeOK, Ask, pipe, socket, events
<1>2. ClosingStep
  BY Types DEF Ask, ClosingStep, Ending, pipe, socket, events
<1>3. QED
  BY <1>1, <1>2, ClosingStepShuts DEF CollectorInv

LEMMA PolledKeeps ==
  ASSUME CollectorInv, Polled
  PROVE  CollectorInv'
<1>1. RunnerTypeOK'
  BY Types DEF RunnerTypeOK, Polled, pipe, socket
<1>2. ClosingStep
  BY Types DEF Polled, ClosingStep, Ending, pipe, socket
<1>3. QED
  BY <1>1, <1>2, ClosingStepShuts DEF CollectorInv

LEMMA StartKeeps ==
  ASSUME CollectorInv, Start
  PROVE  CollectorInv'
<1>1. RunnerTypeOK'
  BY Types DEF RunnerTypeOK, Start, pipe, socket, refresh, TurnsTo, Turn
<1>2. ClosingStep
  BY Types DEF Start, ClosingStep, Ending, pipe, socket, refresh, TurnsTo, Turn
<1>3. QED
  BY <1>1, <1>2, ClosingStepShuts DEF CollectorInv

LEMMA AskMetadataKeeps ==
  ASSUME CollectorInv, AskMetadata
  PROVE  CollectorInv'
<1>1. receiver' = "metadata" /\ metadataReady' = FALSE
  BY DEF AskMetadata
<1>2. UNCHANGED <<gate, engine, queue, batch, worker, connection, connected, snapshotDue,
                  reconnect, drained, refresher, asked, life, settled>>
  BY DEF AskMetadata, pipe, socket, refresh
<1>3. /\ receiver' \in {"starting", "draining", "drained", "reset", "metadata", "handshake",
                       "open", "backoff", "ended"}
      /\ metadataReady' \in BOOLEAN
  BY <1>1
<1>4. RunnerTypeOK'
  BY <1>2, <1>3, Types DEF RunnerTypeOK
<1>5. ClosingStep
  BY <1>2, Types DEF ClosingStep, Ending
<1>6. QED
  BY <1>4, <1>5, ClosingStepShuts DEF CollectorInv

LEMMA MetadataReadyKeeps ==
  ASSUME CollectorInv, MetadataReady
  PROVE  CollectorInv'
<1>1. RunnerTypeOK'
  BY Types DEF RunnerTypeOK, MetadataReady, pipe, socket, refresh, TurnsTo, Turn
<1>2. ClosingStep
  BY Types DEF MetadataReady, ClosingStep, Ending, pipe, socket, refresh, TurnsTo, Turn
<1>3. QED
  BY <1>1, <1>2, ClosingStepShuts DEF CollectorInv

LEMMA SetStopKeeps ==
  ASSUME CollectorInv, SetStop
  PROVE  CollectorInv'
<1>1. RunnerTypeOK'
  BY Types DEF RunnerTypeOK, SetStop, pipe, socket, events, refresh
<1>2. ClosingStep
  BY Types DEF SetStop, ClosingStep, Ending, pipe, socket, events, refresh
<1>3. QED
  BY <1>1, <1>2, ClosingStepShuts DEF CollectorInv

LEMMA OverflowKeeps ==
  ASSUME CollectorInv, Overflow
  PROVE  CollectorInv'
<1>1. RunnerTypeOK'
  BY Types DEF RunnerTypeOK, Overflow, pipe, socket, events, refresh
<1>2. ClosingStep
  BY Types DEF Overflow, ClosingStep, Ending, pipe, socket, events, refresh
<1>3. QED
  BY <1>1, <1>2, ClosingStepShuts DEF CollectorInv

LEMMA FinishKeeps ==
  ASSUME CollectorInv, Finish
  PROVE  CollectorInv'
<1>1. RunnerTypeOK'
  BY Types DEF RunnerTypeOK, Finish, pipe, socket, events, refresh
<1>2. ClosingStep
  BY Types DEF Finish, ClosingStep, Ending, pipe, socket, events, refresh
<1>3. QED
  BY <1>1, <1>2, ClosingStepShuts DEF CollectorInv

LEMMA OpenKeeps ==
  ASSUME CollectorAssumption, CollectorInv, Open
  PROVE  CollectorInv'
<1>1. PICK c \in Connections : /\ connection' = c
                               /\ Emit("connected", TRUE, c, gate, reconnect) /\ KeepAsked
  BY DEF Open
<1>2. /\ receiver' = "open" /\ connected' = TRUE
      /\ UNCHANGED <<engine, worker, drained, metadataReady, refresher, life, settled>>
  BY DEF Open
<1>3. snapshotDue' \in BOOLEAN /\ asked' \in BOOLEAN /\ connection' \in Connections
  BY <1>1 DEF Open, KeepAsked
<1>4. /\ gate' \in Gates /\ reconnect' \in BOOLEAN
      /\ queue' \in Seq(Frames) /\ Len(queue') <= Capacity
      /\ batch' \in Seq(Frames) /\ Len(batch') <= Capacity
      /\ ClosedInRecovery' /\ EndsShut'
  BY <1>1, <1>2, Types, EmitShuts
<1>5. RunnerTypeOK'
  BY <1>2, <1>3, <1>4, Types DEF RunnerTypeOK
<1>6. QED
  BY <1>4, <1>5 DEF CollectorInv

LEMMA LeaveKeeps ==
  ASSUME CollectorAssumption, CollectorInv, Leave
  PROVE  CollectorInv'
<1> DEFINE lost == life = "running"
           g == RequestIf(lost, gate)
<1>1. Emit("interrupt", TRUE, connection, g, reconnect \/ lost)
      /\ UNCHANGED worker /\ life' = life
  BY DEF Leave
<1>2. /\ engine' \in Engines /\ worker' = worker /\ connection' \in Connections
      /\ connected' \in BOOLEAN /\ snapshotDue' \in BOOLEAN /\ drained' \in BOOLEAN
      /\ metadataReady' \in BOOLEAN /\ asked' \in BOOLEAN /\ settled' \in BOOLEAN
      /\ receiver' \in {"starting", "draining", "drained", "reset", "metadata", "handshake",
                       "open", "backoff", "ended"}
      /\ refresher' \in {"waiting", "asking", "polling"}
      /\ life' \in {"running", "stop", "stopping", "over"}
  BY Types DEF RunnerTypeOK, Leave, KeepAsked
<1>3. lost \in BOOLEAN
  OBVIOUS
<1>4. Closes(gate, g) /\ g \in Gates
  BY <1>3, Types, RequestIfCloses DEF Closes
<1>5. (reconnect \/ lost) \in BOOLEAN
  OBVIOUS
<1> HIDE DEF lost, g
<1>6. /\ gate' \in Gates /\ reconnect' \in BOOLEAN
      /\ queue' \in Seq(Frames) /\ Len(queue') <= Capacity
      /\ batch' \in Seq(Frames) /\ Len(batch') <= Capacity
      /\ ClosedInRecovery' /\ EndsShut'
  BY <1>1, <1>4, <1>5, Types, EmitShuts
<1>7. RunnerTypeOK'
  BY <1>2, <1>6, Types DEF RunnerTypeOK
<1>8. QED
  BY <1>6, <1>7 DEF CollectorInv

LEMMA ShutDownKeeps ==
  ASSUME CollectorAssumption, CollectorInv, ShutDown
  PROVE  CollectorInv'
<1>1. /\ Emit("interrupt", TRUE, connection, Request(gate), reconnect)
      /\ worker' = worker /\ life' = "stopping"
  BY DEF ShutDown
<1>2. /\ Closes(gate, Request(gate)) /\ Request(gate) \in Gates
      /\ Request(gate).paused /\ Request(gate).drain
  BY Types, RequestCloses DEF Closes
<1>3. /\ engine' \in Engines /\ worker' = worker /\ connection' \in Connections
      /\ connected' \in BOOLEAN /\ snapshotDue' \in BOOLEAN /\ drained' \in BOOLEAN
      /\ metadataReady' \in BOOLEAN /\ asked' \in BOOLEAN /\ settled' \in BOOLEAN
      /\ receiver' \in {"starting", "draining", "drained", "reset", "metadata", "handshake",
                       "open", "backoff", "ended"}
      /\ refresher' \in {"waiting", "asking", "polling"}
      /\ life' \in {"running", "stop", "stopping", "over"}
  BY Types DEF RunnerTypeOK, ShutDown, KeepAsked
<1>4. /\ gate' \in Gates /\ reconnect' \in BOOLEAN
      /\ queue' \in Seq(Frames) /\ Len(queue') <= Capacity
      /\ batch' \in Seq(Frames) /\ Len(batch') <= Capacity
      /\ ClosedInRecovery' /\ EndsShut'
  BY <1>1, <1>2, Types, EmitShuts
<1>5. RunnerTypeOK'
  BY <1>3, <1>4, Types DEF RunnerTypeOK
<1>6. QED
  BY <1>4, <1>5 DEF CollectorInv

-----------------------------------------------------------------------------
(* One lemma per handler: the worker.                                      *)

Places == {"idle", "apply", "pressure", "check", "decide", "finished", "resetting"}
Worker == [pc : Places, valid : BOOLEAN, late : BOOLEAN, ready : BOOLEAN]

LEMMA WorkerType ==
  ASSUME CollectorInv
  PROVE  worker \in Worker /\ (worker' \in Worker => worker' \in
           [pc : {"idle", "apply", "pressure", "check", "decide", "finished", "resetting"},
            valid : BOOLEAN, late : BOOLEAN, ready : BOOLEAN])
  BY DEF CollectorInv, RunnerTypeOK, Worker, Places

LEMMA WorkerAt ==
  ASSUME NEW w \in Worker, NEW p \in Places
  PROVE  [w EXCEPT !.pc = p] \in Worker /\ [w EXCEPT !.pc = p].pc = p
  BY DEF Worker

LEMMA WorkerValid ==
  ASSUME NEW w \in Worker, NEW p \in Places, NEW a \in BOOLEAN
  PROVE  LET v == [w EXCEPT !.pc = p, !.valid = a]
         IN  v \in Worker /\ v.pc = p
  BY DEF Worker

LEMMA WorkerReady ==
  ASSUME NEW w \in Worker, NEW p \in Places, NEW a \in BOOLEAN, NEW b \in BOOLEAN
  PROVE  LET v == [w EXCEPT !.pc = p, !.late = a, !.ready = b]
         IN  v \in Worker /\ v.pc = p /\ v.ready = b
  BY DEF Worker

LEMMA BeginResetKeeps ==
  ASSUME CollectorInv, BeginReset
  PROVE  CollectorInv'
<1>1. UNCHANGED <<gate, engine, queue, batch, connection, connected, snapshotDue, receiver,
                     reconnect, drained, metadataReady, refresher, asked, life, settled>>
  BY DEF BeginReset, pipe, socket, events, refresh
<1>2. worker' \in Worker /\ worker'.pc = "resetting"
<2>1. "resetting" \in Places
  BY DEF Places
<2>2. QED
  BY <2>1, WorkerType, WorkerAt, Zenon DEF BeginReset
<1>3. RunnerTypeOK'
  BY <1>1, <1>2, Types, WorkerType DEF RunnerTypeOK
<1>4. ClosingStep
  BY <1>1, <1>2, Types DEF ClosingStep, Ending
<1>5. QED
  BY <1>3, <1>4, ClosingStepShuts DEF CollectorInv

LEMMA ResetKeeps ==
  ASSUME CollectorInv, Reset
  PROVE  CollectorInv'
<1>1. /\ gate' = Reconnected(gate)
      /\ UNCHANGED <<engine, queue, batch, connection, connected, snapshotDue,
                     reconnect, drained, metadataReady, refresher, asked, life, settled>>
  BY DEF Reset, pipe, socket, events, refresh
<1>2. receiver' = "reset" \/ receiver' = receiver
  BY DEF Reset
<1>3. worker' \in Worker /\ worker'.pc = "idle"
<2>1. "idle" \in Places
  BY DEF Places
<2>2. QED
  BY <2>1, WorkerType, WorkerAt, Zenon DEF Reset
<1>4. gate' \in Gates /\ gate'.paused = gate.paused /\ ~gate'.drain /\ ~gate'.catchingUp
  BY <1>1, Types, ReconnectedType
<1>5. RunnerTypeOK'
  BY <1>1, <1>2, <1>3, <1>4, Types, WorkerType DEF RunnerTypeOK
<1>6. ClosedInRecovery'
  BY <1>4 DEF ClosedInRecovery
<1>7. EndsShut'
  BY <1>1, <1>3, <1>4 DEF CollectorInv, EndsShut, Ending
<1>8. QED
  BY <1>5, <1>6, <1>7 DEF CollectorInv

LEMMA TakeBatchKeeps ==
  ASSUME CollectorAssumption, CollectorInv, TakeBatch
  PROVE  CollectorInv'
<1>1. /\ batch' = queue /\ queue' = <<>>
      /\ UNCHANGED <<gate, engine, connection, connected, snapshotDue, receiver,
                     reconnect, drained, metadataReady, refresher, asked, life, settled>>
  BY DEF TakeBatch, socket, events, refresh
<1>2. worker' \in Worker /\ worker'.pc = "apply"
<2>1. "apply" \in Places /\ TRUE \in BOOLEAN
  BY DEF Places
<2>2. QED
  BY <2>1, WorkerType, WorkerValid, Zenon DEF TakeBatch
<1>3. /\ queue' \in Seq(Frames) /\ Len(queue') <= Capacity /\ Len(queue') # Capacity
      /\ batch' \in Seq(Frames) /\ Len(batch') <= Capacity
<2>1. queue \in Seq(Frames) /\ Len(queue) <= Capacity
  BY Types DEF RunnerTypeOK
<2>2. Len(queue') = 0 /\ Capacity \in Nat /\ Capacity > 0 /\ queue' \in Seq(Frames)
  BY <1>1 DEF CollectorAssumption
<2>3. QED
  BY <1>1, <2>1, <2>2
<1>4. RunnerTypeOK'
  BY <1>1, <1>2, <1>3, Types, WorkerType DEF RunnerTypeOK
<1>5. ClosingStep
  BY <1>1, <1>2, <1>3, Types DEF ClosingStep, Ending
<1>6. QED
  BY <1>4, <1>5, ClosingStepShuts DEF CollectorInv

LEMMA ApplyKeeps ==
  ASSUME CollectorAssumption, CollectorInv, Apply
  PROVE  CollectorInv'
<1> DEFINE f == Head(batch)
<1>1. batch # <<>>
  BY DEF Apply
<1>2. PICK outcome \in Possible(engine, f) :
        LET failed == outcome = "invalid" \/ f.kind = "interrupt"
            g == RequestIf(life = "running" /\ failed, gate)
        IN /\ engine' = Ingest(engine, f, outcome)
           /\ WorkerMoves(Observe(g, f, outcome))
           /\ batch' = Overtaken(Tail(batch))
           /\ worker' = [worker EXCEPT !.valid = worker.valid /\ outcome # "invalid",
                                       !.pc = IF Tail(batch) = <<>> THEN "pressure" ELSE "apply"]
  BY DEF Apply
<1>3. /\ f \in Frames /\ Tail(batch) \in Seq(Frames) /\ Len(Tail(batch)) <= Capacity
      /\ engine \in Engines /\ outcome \in Outcomes
<2>1. batch \in Seq(Frames) /\ Len(batch) <= Capacity /\ Capacity \in Nat /\ engine \in Engines
  BY Types DEF RunnerTypeOK, CollectorAssumption
<2>2. outcome \in Outcomes
  BY DEF Possible
<2>3. QED
  BY <1>1, <2>1, <2>2
<1> HIDE DEF f
<1> DEFINE failed == outcome = "invalid" \/ f.kind = "interrupt"
           g == RequestIf(life = "running" /\ failed, gate)
           h == Observe(g, f, outcome)
<1>4. Closes(gate, h)
<2>1. (life = "running" /\ failed) \in BOOLEAN
  OBVIOUS
<2> HIDE DEF failed
<2>2. Closes(gate, g)
  BY <2>1, Types, RequestIfCloses
<2>3. g \in Gates
  BY <2>2 DEF Closes
<2> HIDE DEF g
<2>4. Closes(g, h)
  BY <1>3, <2>3, ObserveCloses
<2>5. QED
  BY <2>2, <2>4, ClosesTransitive
<1>5. WorkerMoves(h) /\ engine' = Ingest(engine, f, outcome) /\ batch' = Overtaken(Tail(batch))
  BY <1>2
<1> HIDE DEF h
<1>6. worker' \in Worker /\ worker'.pc # "decide"
<2> DEFINE v == worker.valid /\ outcome # "invalid"
           q == IF Tail(batch) = <<>> THEN "pressure" ELSE "apply"
<2>1. q \in Places /\ q # "decide" /\ v \in BOOLEAN
  BY DEF Places
<2>2. worker' = [worker EXCEPT !.valid = v, !.pc = q]
  BY <1>2
<2> HIDE DEF v, q
<2>3. \A w \in Worker : /\ [w EXCEPT !.valid = v, !.pc = q] \in Worker
                        /\ [w EXCEPT !.valid = v, !.pc = q].pc = q
  BY <2>1 DEF Worker
<2>4. QED
  BY <2>1, <2>2, <2>3, WorkerType, Zenon
<1>7. /\ UNCHANGED <<connection, connected, snapshotDue, receiver, reconnect, drained,
                     metadataReady, refresher, life, settled>>
  BY DEF Apply, socket, events
<1>8. /\ gate' \in Gates /\ asked' \in BOOLEAN
      /\ queue' \in Seq(Frames) /\ Len(queue') = Len(queue)
      /\ ClosedInRecovery' /\ EndsShut'
  BY <1>4, <1>5, <1>6, <1>7, WorkerShuts
<1>9. engine' \in Engines
  BY <1>3, <1>5, IngestType
<1>10. batch' \in Seq(Frames) /\ Len(batch') <= Capacity
  BY <1>3, <1>5, OvertakenType
<1> HIDE DEF f
<1>11. RunnerTypeOK'
  BY <1>6, <1>7, <1>8, <1>9, <1>10, Types, WorkerType DEF RunnerTypeOK
<1>12. QED
  BY <1>8, <1>11 DEF CollectorInv

LEMMA WorkerPressureKeeps ==
  ASSUME CollectorAssumption, CollectorInv, WorkerPressure
  PROVE  CollectorInv'
<1>1. PICK lag \in PendingLag :
        /\ worker' = [worker EXCEPT !.pc = "check", !.late = lag # Low]
        /\ WorkerMoves(Pressure(gate, lag, Len(Pending)))
  BY DEF WorkerPressure
<1>2. lag \in Lags /\ Len(Pending) \in Nat
<2>1. batch \in Seq(Frames) /\ queue \in Seq(Frames)
  BY Types DEF RunnerTypeOK
<2>2. QED
  BY <2>1, PendingLagType DEF Pending
<1> DEFINE g == Pressure(gate, lag, Len(Pending))
<1>3. Closes(gate, g) /\ WorkerMoves(g)
  BY <1>1, <1>2, Types, PressureCloses
<1>4. worker' \in Worker /\ worker'.pc = "check"
<2> DEFINE late == lag # Low
<2>1. "check" \in Places /\ late \in BOOLEAN
  BY DEF Places
<2>2. worker' = [worker EXCEPT !.pc = "check", !.late = late]
  BY <1>1
<2> HIDE DEF late
<2>3. \A w \in Worker : /\ [w EXCEPT !.pc = "check", !.late = late] \in Worker
                        /\ [w EXCEPT !.pc = "check", !.late = late].pc = "check"
  BY <2>1 DEF Worker
<2>4. QED
  BY <2>2, <2>3, WorkerType, Zenon
<1>5. UNCHANGED <<engine, batch, connection, connected, snapshotDue, receiver, reconnect,
                  drained, metadataReady, refresher, life, settled>>
  BY DEF WorkerPressure, socket, events
<1> HIDE DEF g
<1>6. /\ gate' \in Gates /\ asked' \in BOOLEAN
      /\ queue' \in Seq(Frames) /\ Len(queue') = Len(queue)
      /\ ClosedInRecovery' /\ EndsShut'
  BY <1>3, <1>4, <1>5, WorkerShuts
<1>7. RunnerTypeOK'
  BY <1>4, <1>5, <1>6, Types, WorkerType DEF RunnerTypeOK
<1>8. QED
  BY <1>6, <1>7 DEF CollectorInv

LEMMA BatchDoneKeeps ==
  ASSUME CollectorAssumption, CollectorInv, BatchDone
  PROVE  CollectorInv'
<1> DEFINE g == RequestIf(~worker.valid, gate)
<1>1. WorkerMoves(g)
      /\ UNCHANGED <<engine, batch, connection, connected, snapshotDue, metadataReady,
                     refresher, life, settled>>
  BY DEF BatchDone, socket
<1>2. reconnect' \in BOOLEAN /\ drained' \in BOOLEAN
      /\ (receiver' = "drained" \/ receiver' = receiver)
  BY DEF BatchDone
<1>3. worker' \in Worker /\ worker'.pc = "idle"
<2>1. "idle" \in Places /\ TRUE \in BOOLEAN
  BY DEF Places
<2>2. QED
  BY <2>1, WorkerType, WorkerValid, Zenon DEF BatchDone
<1>4. Closes(gate, g)
<2>1. (~worker.valid) \in BOOLEAN
  OBVIOUS
<2>2. QED
  BY <2>1, Types, RequestIfCloses
<1> HIDE DEF g
<1>5. /\ gate' \in Gates /\ asked' \in BOOLEAN
      /\ queue' \in Seq(Frames) /\ Len(queue') = Len(queue)
      /\ ClosedInRecovery' /\ EndsShut'
  BY <1>1, <1>3, <1>4, WorkerShuts
<1>6. RunnerTypeOK'
  BY <1>1, <1>2, <1>3, <1>5, Types, WorkerType DEF RunnerTypeOK
<1>7. QED
  BY <1>5, <1>6 DEF CollectorInv

\* A check that finds no reason has seen a short queue in a running capture.
LEMMA CheckStartKeeps ==
  ASSUME CollectorAssumption, CollectorInv, CheckStart
  PROVE  CollectorInv'
<1> DEFINE stopping == life # "running"
           latched == ~stopping /\ gate.connection # None /\ engine.integrity
                        /\ gate.connection = engine.connection
           g == RequestIf(latched, gate)
           unready == Unready(gate, engine, worker.late, Len(queue), connected)
<1>1. PICK other \in BOOLEAN, stalled \in BOOLEAN :
        /\ WorkerMoves(RequestIf(stalled, g))
        /\ worker' = [worker EXCEPT
                        !.pc = IF g.drain THEN "finished" ELSE "decide", !.late = FALSE,
                        !.ready = ~(g.drain \/ stopping \/ unready \/ other)]
  BY DEF CheckStart
<1>2. UNCHANGED <<engine, batch, connection, connected, snapshotDue, receiver, reconnect,
                  drained, metadataReady, refresher, life, settled>>
  BY DEF CheckStart, socket, events
<1> DEFINE ready == ~(g.drain \/ stopping \/ unready \/ other)
           place == IF g.drain THEN "finished" ELSE "decide"
<1>3. worker' \in Worker /\ worker'.ready = ready
<2>1. place \in Places /\ ready \in BOOLEAN /\ FALSE \in BOOLEAN
  BY DEF Places
<2>2. worker' = [worker EXCEPT !.pc = place, !.late = FALSE, !.ready = ready]
  BY <1>1
<2> HIDE DEF place, ready
<2>3. QED
  BY <2>1, <2>2, WorkerType, WorkerReady, Zenon
<1>4. Len(queue) = Capacity => unready
<2>1. Len(queue) = Capacity => Len(queue) > Calm
  BY DEF CollectorAssumption
<2>2. QED
  BY <2>1 DEF Unready, Backlog
<1> HIDE DEF unready
<1>5. ready => ~Ending
  BY <1>4 DEF Ending
<1> HIDE DEF ready
<1>6. Closes(gate, RequestIf(stalled, g))
<2>1. latched \in BOOLEAN
  OBVIOUS
<2> HIDE DEF latched
<2>2. Closes(gate, g)
  BY <2>1, Types, RequestIfCloses
<2>3. g \in Gates
  BY <2>2 DEF Closes
<2> HIDE DEF g
<2>4. Closes(g, RequestIf(stalled, g))
  BY <2>3, RequestIfCloses
<2>5. QED
  BY <2>2, <2>4, ClosesTransitive
<1> DEFINE h == RequestIf(stalled, g)
<1>7. WorkerMoves(h) /\ Closes(gate, h)
  BY <1>1, <1>6
<1> HIDE DEF h
<1>8. /\ gate' = h /\ gate' \in Gates /\ asked' \in BOOLEAN
      /\ queue' \in Seq(Frames) /\ Len(queue') = Len(queue)
<2>1. queue \in Seq(Frames)
  BY Types DEF RunnerTypeOK
<2>2. queue' = Overtaken(queue) /\ gate' = h /\ asked' \in BOOLEAN
  BY <1>7 DEF WorkerMoves, KeepAsked
<2>3. QED
  BY <1>7, <2>1, <2>2, OvertakenType DEF Closes
<1>9. Ending' => Ending
  BY <1>2, <1>8 DEF Ending
<1>10. ClosedInRecovery'
  BY <1>7, <1>8 DEF CollectorInv, ClosedInRecovery, Closes, Shut
<1>11. EndsShut'
  BY <1>3, <1>5, <1>7, <1>8, <1>9 DEF CollectorInv, EndsShut, Closes
<1>12. RunnerTypeOK'
  BY <1>2, <1>3, <1>8, Types, WorkerType DEF RunnerTypeOK
<1>13. QED
  BY <1>10, <1>11, <1>12 DEF CollectorInv

LEMMA CheckEndKeeps ==
  ASSUME CollectorInv, CheckEnd
  PROVE  CollectorInv'
<1> DEFINE opens == ~gate.drain /\ worker.ready /\ ~(gate.catchingUp /\ gate.lagging)
<1>1. /\ gate' = [gate EXCEPT !.paused = ~opens, !.catchingUp = gate.catchingUp /\ ~opens,
                             !.lagging = gate.lagging /\ ~opens]
      /\ worker.pc = "decide"
  BY DEF CheckEnd
<1>2. UNCHANGED <<engine, queue, batch, connection, connected, snapshotDue, receiver,
                  reconnect, drained, metadataReady, refresher, asked, life, settled>>
  BY DEF CheckEnd, pipe, socket, events, refresh
<1>3. worker' \in Worker /\ worker'.pc = "finished"
<2>1. "finished" \in Places
  BY DEF Places
<2>2. \A w \in Worker : /\ [w EXCEPT !.pc = "finished", !.ready = FALSE] \in Worker
                        /\ [w EXCEPT !.pc = "finished", !.ready = FALSE].pc = "finished"
  BY <2>1 DEF Worker
<2>3. QED
  BY <2>2, WorkerType, Zenon DEF CheckEnd
<1>4. opens \in BOOLEAN /\ (Ending => ~opens) /\ (opens => ~gate.drain)
  BY <1>1 DEF CollectorInv, EndsShut
<1> HIDE DEF opens
<1>5. /\ gate' \in Gates /\ gate'.paused = ~opens /\ gate'.drain = gate.drain
      /\ gate'.catchingUp = (gate.catchingUp /\ ~opens)
<2>1. ASSUME NEW a \in BOOLEAN, NEW b \in BOOLEAN, NEW c \in BOOLEAN,
             gate' = [gate EXCEPT !.paused = a, !.catchingUp = b, !.lagging = c]
      PROVE  /\ gate' \in Gates /\ gate'.paused = a /\ gate'.drain = gate.drain
             /\ gate'.catchingUp = b
  BY <2>1, Types DEF Gates
<2>2. /\ (~opens) \in BOOLEAN /\ (gate.catchingUp /\ ~opens) \in BOOLEAN
      /\ (gate.lagging /\ ~opens) \in BOOLEAN
  OBVIOUS
<2> DEFINE a == ~opens
           b == gate.catchingUp /\ ~opens
           c == gate.lagging /\ ~opens
<2>3. /\ gate \in Gates /\ a \in BOOLEAN /\ b \in BOOLEAN /\ c \in BOOLEAN
      /\ gate' = [gate EXCEPT !.paused = a, !.catchingUp = b, !.lagging = c]
  BY <1>1, <2>2, Types
<2> HIDE DEF a, b, c
<2>4. /\ gate' \in Gates /\ gate'.paused = a /\ gate'.drain = gate.drain
      /\ gate'.catchingUp = b
  BY <2>1, <2>3, Zenon
<2>5. QED
  BY <2>4 DEF a, b
<1>6. ClosedInRecovery'
  BY <1>4, <1>5 DEF ClosedInRecovery
<1>7. EndsShut'
  BY <1>2, <1>3, <1>4, <1>5 DEF EndsShut, Ending
<1>8. RunnerTypeOK'
  BY <1>2, <1>3, <1>5, Types, WorkerType DEF RunnerTypeOK
<1>9. QED
  BY <1>6, <1>7, <1>8 DEF CollectorInv

-----------------------------------------------------------------------------
(* The theorems.                                                           *)

LEMMA RunnerStep ==
  CollectorAssumption /\ CollectorInv /\ [RunnerNext]_runnerVars => CollectorInv'
<1> SUFFICES ASSUME CollectorAssumption, CollectorInv, [RunnerNext]_runnerVars
             PROVE  CollectorInv'
  OBVIOUS
<1>1. CASE Receipt
  BY <1>1, HeartbeatKeeps, ReceiveFrameKeeps, AskKeeps, AnsweredKeeps, PolledKeeps,
     RefreshFailsKeeps, StartKeeps, AskMetadataKeeps, MetadataReadyKeeps, OpenKeeps,
     LoseKeeps, LeaveKeeps DEF Receipt
<1>2. CASE Work
  BY <1>2, TakeBatchKeeps, ApplyKeeps, WorkerPressureKeeps, CheckStartKeeps, CheckEndKeeps,
     BatchDoneKeeps, BeginResetKeeps, ResetKeeps DEF Work
<1>3. CASE Stopping
  BY <1>3, SetStopKeeps, ShutDownKeeps, OverflowKeeps, FinishKeeps DEF Stopping
<1>4. CASE UNCHANGED runnerVars
<2>1. UNCHANGED <<gate, engine, queue, batch, worker, connection, connected, receiver,
                  snapshotDue, reconnect, drained, metadataReady, refresher, asked, life,
                  settled>>
  BY <1>4 DEF runnerVars
<2>2. RunnerTypeOK'
  BY <2>1, Types DEF RunnerTypeOK
<2>3. ClosingStep
  BY <2>1, Types DEF ClosingStep, Ending
<2>4. QED
  BY <2>2, <2>3, ClosingStepShuts DEF CollectorInv
<1>5. QED
  BY <1>1, <1>2, <1>3, <1>4 DEF RunnerNext

(* The collector's invariant holds in every reachable state.               *)
THEOREM CollectorInvariant == RunnerSpec => []CollectorInv
<1>1. RunnerInit => CollectorInv
  BY InitCollector, CollectorAssumption
<1>2. CollectorInv /\ [RunnerNext]_runnerVars => CollectorInv'
  BY RunnerStep, CollectorAssumption
<1>3. QED
  BY <1>1, <1>2, PTL DEF RunnerSpec

(* Every variable has its type and the receipt queue stays within its      *)
(* capacity (emit, consume).                                               *)
THEOREM RunnerTypeCorrect == RunnerSpec => []RunnerTypeOK
<1>1. CollectorInv => RunnerTypeOK
  BY DEF CollectorInv
<1>2. QED
  BY <1>1, CollectorInvariant, PTL

(* The gate is shut while it drains or catches up (CollectorRecovery).     *)
THEOREM GateClosedInRecovery == RunnerSpec => []ClosedInRecovery
<1>1. CollectorInv => ClosedInRecovery
  BY DEF CollectorInv
<1>2. QED
  BY <1>1, CollectorInvariant, PTL

(* The gate stays shut from the handling of the stop on, and when the      *)
(* capture ends in an overflow (collect, emit).                            *)
THEOREM GateClosedWhenStopped == RunnerSpec => []ClosedWhenStopped
<1>1. CollectorInv => ClosedWhenStopped
  BY DEF CollectorInv, EndsShut, Ending, ClosedWhenStopped
<1>2. QED
  BY <1>1, CollectorInvariant, PTL

-----------------------------------------------------------------------------
(* The streams.  Where no socket has been used since the last reset, what   *)
(* is outstanding holds no market frame and the gate follows no connection; *)
(* a frame of another connection is outstanding only before the one that    *)
(* announces the present connection; and whatever opens the gate, or is     *)
(* about to, was seen on the connection that the engine and the gate share. *)
Quiet == {"interrupt", "metadata", "other"}

BatchInHand == worker.pc # "apply" => batch = <<>>

DrainStands ==
  /\ receiver \in {"draining", "drained"} \/ worker.pc = "resetting" => gate.drain
  /\ worker.pc = "resetting" => receiver \in {"drained", "ended"}

NoneFollowed ==
  receiver \in {"starting", "reset", "metadata", "handshake"} => gate.connection = None

NoMarketFrames ==
  receiver \in {"starting", "drained", "reset", "metadata", "handshake"} =>
    \A i \in 1..Len(Pending) : Pending[i].kind \in Quiet

OldFramesFirst ==
  \A i \in 1..Len(Pending) :
    \/ Pending[i].conn = connection
    \/ \E j \in (i + 1)..Len(Pending) : Pending[j].kind = "connected"

OneHandshake ==
  \A i \in 1..Len(Pending) : Pending[i].kind = "connected" =>
    /\ Pending[i].conn = connection /\ gate.connection = None
    /\ \A j \in 1..Len(Pending) : Pending[j].kind = "connected" => j = i

FollowsReceipt == gate.connection \in {None, connection}

SeenApplied == engine.connection = None => gate.seen = {}

Agreed ==
  /\ gate.connection # None /\ gate.connection = engine.connection
  /\ {"metadata"} \cup (Streams \cap {"snapshot"}) \subseteq gate.seen

OpenAgreed ==
  /\ ~gate.paused => Agreed
  /\ worker.pc = "decide" /\ worker.ready /\ ~gate.drain => Agreed

StreamInv ==
  /\ BatchInHand /\ DrainStands /\ NoneFollowed /\ NoMarketFrames
  /\ OldFramesFirst /\ OneHandshake /\ FollowsReceipt /\ SeenApplied /\ OpenAgreed

\* Two lists of frames of the same kinds on the same connections.
Alike(p, q) ==
  /\ Len(q) = Len(p)
  /\ \A i \in 1..Len(p) : q[i].kind = p[i].kind /\ q[i].conn = p[i].conn

LEMMA OvertakenAlike ==
  ASSUME NEW frames \in Seq(Frames)
  PROVE  Alike(frames, Overtaken(frames))
<1> DEFINE moved == SinceMoves(gate, gate')
           frame(i) == [frames[i] EXCEPT !.recent =
                          frames[i].recent /\ ~(moved /\ frames[i].kind \in Dated)]
<1>1. \A x \in Frames, b \in BOOLEAN :
        /\ [x EXCEPT !.recent = b].kind = x.kind
        /\ [x EXCEPT !.recent = b].conn = x.conn
  BY DEF Frames
<1>2. ASSUME NEW i \in 1..Len(frames)
      PROVE  frame(i).kind = frames[i].kind /\ frame(i).conn = frames[i].conn
<2>1. frames[i] \in Frames
  OBVIOUS
<2>2. (frames[i].recent /\ ~(moved /\ frames[i].kind \in Dated)) \in BOOLEAN
  OBVIOUS
<2>3. QED
  BY <1>1, <2>1, <2>2
<1>3. DOMAIN frames = 1..Len(frames) /\ Len(frames) \in Nat
  OBVIOUS
<1>4. Overtaken(frames) = [i \in 1..Len(frames) |-> frame(i)]
  BY <1>3 DEF Overtaken
<1>5. Len(Overtaken(frames)) = Len(frames)
  BY OvertakenType
<1> HIDE DEF frame
<1>6. QED
  BY <1>2, <1>4, <1>5 DEF Alike

LEMMA OutstandingFrames ==
  ASSUME CollectorInv
  PROVE  /\ batch \in Seq(Frames) /\ queue \in Seq(Frames)
         /\ Pending \in Seq(Frames) /\ Len(Pending) = Len(batch) + Len(queue)
         /\ \A i \in 1..Len(batch) : Pending[i] = batch[i]
         /\ \A i \in 1..Len(queue) : Pending[Len(batch) + i] = queue[i]
  BY DEF CollectorInv, RunnerTypeOK, Pending

\* emit() adds a frame at the end.
Received(p, q, kind, conn) ==
  /\ Len(q) = Len(p) + 1
  /\ \A i \in 1..Len(p) : q[i].kind = p[i].kind /\ q[i].conn = p[i].conn
  /\ q[Len(p) + 1].kind = kind /\ q[Len(p) + 1].conn = conn

LEMMA EmitReceives ==
  ASSUME CollectorInv, NEW kind \in Kinds, NEW recent \in BOOLEAN, NEW conn \in Connections,
         NEW g, NEW r, Emit(kind, recent, conn, g, r)
  PROVE  Received(Pending, Pending', kind, conn)
<1> DEFINE f == [kind |-> kind, conn |-> conn, recent |-> recent]
           b == Overtaken(batch)
           q == Overtaken(Append(queue, f))
<1>1. batch \in Seq(Frames) /\ queue \in Seq(Frames) /\ f \in Frames
  BY OutstandingFrames DEF Frames
<1>2. Append(queue, f) \in Seq(Frames)
  BY <1>1
<1>3. /\ Alike(batch, b) /\ Alike(Append(queue, f), q)
      /\ b \in Seq(Frames) /\ q \in Seq(Frames)
  BY <1>1, <1>2, OvertakenAlike, OvertakenType
<1>4. Pending' = b \o q /\ Pending = batch \o queue
  BY DEF Emit, Pending
<1>5. f.kind = kind /\ f.conn = conn
  OBVIOUS
<1> HIDE DEF f, b, q
<1>6. Len(b) = Len(batch) /\ Len(q) = Len(queue) + 1
  BY <1>1, <1>3 DEF Alike
<1>7. \A i \in 1..Len(b) : (b \o q)[i] = b[i]
  BY <1>3
<1>8. \A i \in 1..Len(q) : (b \o q)[Len(b) + i] = q[i]
  BY <1>3
<1>9. /\ \A i \in 1..Len(b) : b[i].kind = batch[i].kind /\ b[i].conn = batch[i].conn
      /\ \A i \in 1..Len(queue) : q[i].kind = queue[i].kind /\ q[i].conn = queue[i].conn
      /\ q[Len(queue) + 1].kind = kind /\ q[Len(queue) + 1].conn = conn
  BY <1>1, <1>3, <1>5, <1>6 DEF Alike
<1>10. /\ Len(Pending) = Len(batch) + Len(queue) /\ Len(Pending') = Len(Pending) + 1
  <2>1. Len(b \o q) = Len(b) + Len(q)
    BY <1>3
  <2> QED BY <1>1, <1>4, <1>6, <2>1, OutstandingFrames
<1>11. ASSUME NEW i \in 1..Len(Pending)
       PROVE  Pending'[i].kind = Pending[i].kind /\ Pending'[i].conn = Pending[i].conn
  <2>1. CASE i <= Len(batch)
    BY <1>1, <1>4, <1>6, <1>7, <1>9, <2>1, OutstandingFrames
  <2>2. CASE i > Len(batch)
    <3>1. PICK k \in 1..Len(queue) : i = Len(batch) + k
      <4>1. i - Len(batch) \in 1..Len(queue) /\ i = Len(batch) + (i - Len(batch))
        BY <1>1, <1>10, <2>2
      <4> QED BY <4>1
    <3>2. Pending[i] = queue[k] /\ Pending'[i] = q[k]
      BY <1>1, <1>4, <1>6, <1>8, <3>1, OutstandingFrames
    <3> QED BY <1>9, <3>2
  <2> QED BY <1>1, <2>1, <2>2
<1>12. Pending'[Len(Pending) + 1] = q[Len(queue) + 1]
  <2>1. Len(Pending) + 1 = Len(b) + (Len(queue) + 1) /\ Len(queue) + 1 \in 1..Len(q)
    BY <1>1, <1>6, <1>10
  <2> QED BY <1>4, <1>8, <2>1
<1> QED BY <1>9, <1>10, <1>11, <1>12 DEF Received

\* The worker's moves leave the list alone; Apply takes its head.
LEMMA MovesAlike ==
  ASSUME CollectorInv, NEW g, WorkerMoves(g), batch = <<>>, batch' = <<>>
  PROVE  Alike(Pending, Pending')
<1>1. queue' = Overtaken(queue) /\ queue \in Seq(Frames)
  BY OutstandingFrames DEF WorkerMoves
<1>2. queue' \in Seq(Frames)
  BY <1>1, OvertakenType
<1>3. Pending = queue /\ Pending' = queue'
  BY <1>1, <1>2 DEF Pending
<1> QED BY <1>1, <1>3, OvertakenAlike

LEMMA ApplyTakesHead ==
  ASSUME CollectorInv, NEW g, WorkerMoves(g), batch # <<>>, batch' = Overtaken(Tail(batch))
  PROVE  /\ Head(batch) = Pending[1] /\ Len(Pending) \in Nat \ {0}
         /\ Len(Pending') = Len(Pending) - 1
         /\ \A i \in 1..Len(Pending') : /\ Pending'[i].kind = Pending[i + 1].kind
                                        /\ Pending'[i].conn = Pending[i + 1].conn
<1>1. /\ queue' = Overtaken(queue) /\ queue \in Seq(Frames) /\ batch \in Seq(Frames)
  BY OutstandingFrames DEF WorkerMoves
<1>2. /\ Tail(batch) \in Seq(Frames) /\ Len(Tail(batch)) = Len(batch) - 1 /\ Len(batch) > 0
      /\ \A i \in 1..Len(Tail(batch)) : Tail(batch)[i] = batch[i + 1]
      /\ Head(batch) = batch[1]
  BY <1>1
<1> DEFINE b == Tail(batch)
<1> HIDE DEF b
<1>3. /\ b \in Seq(Frames) /\ Len(b) = Len(batch) - 1
      /\ \A i \in 1..Len(b) : b[i] = batch[i + 1]
  BY <1>2 DEF b
<1>4. batch' = Overtaken(b)
  BY DEF b
<1>5. /\ queue' \in Seq(Frames) /\ batch' \in Seq(Frames)
      /\ Alike(b, batch') /\ Alike(queue, queue')
  BY <1>1, <1>3, <1>4, OvertakenAlike, OvertakenType
<1>6. Len(batch') = Len(batch) - 1 /\ Len(queue') = Len(queue)
  BY <1>3, <1>5 DEF Alike
<1>7. Pending' = batch' \o queue'
  BY DEF Pending
<1>8. /\ Len(Pending) = Len(batch) + Len(queue) /\ Len(Pending') = Len(Pending) - 1
      /\ Len(Pending) \in Nat \ {0} /\ Head(batch) = Pending[1]
  BY <1>1, <1>2, <1>5, <1>6, <1>7, OutstandingFrames
<1>9. /\ \A i \in 1..Len(batch') : Pending'[i] = batch'[i]
      /\ \A i \in 1..Len(queue') : Pending'[Len(batch') + i] = queue'[i]
  BY <1>5, <1>7
<1>10. ASSUME NEW i \in 1..Len(Pending')
       PROVE  /\ Pending'[i].kind = Pending[i + 1].kind
              /\ Pending'[i].conn = Pending[i + 1].conn
  <2>1. CASE i <= Len(batch')
    <3>1. /\ i \in 1..Len(batch') /\ i \in 1..Len(b) /\ i + 1 \in 1..Len(batch)
      BY <1>1, <1>3, <1>6, <2>1
    <3>2. Pending'[i] = batch'[i] /\ Pending[i + 1] = b[i]
      BY <1>3, <1>9, <3>1, OutstandingFrames
    <3> QED BY <1>5, <3>1, <3>2 DEF Alike
  <2>2. CASE i > Len(batch')
    <3>1. PICK k \in 1..Len(queue) : i = Len(batch') + k
      <4>1. i - Len(batch') \in 1..Len(queue) /\ i = Len(batch') + (i - Len(batch'))
        BY <1>1, <1>5, <1>6, <1>8, <2>2
      <4> QED BY <4>1
    <3>2. k \in 1..Len(queue') /\ i + 1 = Len(batch) + k
      BY <1>1, <1>6, <3>1
    <3>3. Pending'[i] = queue'[k] /\ Pending[i + 1] = queue[k]
      BY <1>9, <3>1, <3>2, OutstandingFrames
    <3> QED BY <1>5, <3>1, <3>3 DEF Alike
  <2> QED BY <1>5, <2>1, <2>2
<1> QED BY <1>8, <1>10

\* What a handler that only closes the gate keeps of what it follows.
Follows(g, h) == h.connection = g.connection /\ h.seen = g.seen

LEMMA RequestFollows ==
  ASSUME NEW g \in Gates, NEW c
  PROVE  Follows(g, Request(g)) /\ Follows(g, RequestIf(c, g))
<1> DEFINE h == [g EXCEPT !.paused = TRUE, !.drain = TRUE]
<1>1. h.connection = g.connection /\ h.seen = g.seen
  BY DEF Gates
<1>2. Request(g) = h
  BY DEF Request
<1> HIDE DEF h
<1> QED BY <1>1, <1>2 DEF Follows, RequestIf

LEMMA PressureFollows ==
  ASSUME NEW g \in Gates, NEW lag, NEW depth
  PROVE  Follows(g, Pressure(g, lag, depth))
<1>1. ASSUME NEW a, NEW b, NEW c, NEW d
      PROVE  Follows(g, [g EXCEPT !.paused = a, !.drain = b, !.catchingUp = c,
                                  !.lagging = d])
  BY DEF Gates, Follows
<1> DEFINE late == depth < Overload /\ lag = Limit
           a == g.paused \/ late \/ depth >= Overload
           b == g.drain \/ depth >= Overload
           c == g.catchingUp \/ late
           d == Backlog(lag # Low, depth) /\ (g.catchingUp \/ late)
<1>2. Pressure(g, lag, depth) =
        [g EXCEPT !.paused = a, !.drain = b, !.catchingUp = c, !.lagging = d]
  BY DEF Pressure
<1> HIDE DEF a, b, c, d
<1> DEFINE h == [g EXCEPT !.paused = a, !.drain = b, !.catchingUp = c, !.lagging = d]
<1>3. Follows(g, h)
  BY <1>1, Zenon
<1>4. Pressure(g, lag, depth) = h
  BY <1>2, Zenon
<1> HIDE DEF h
<1> QED BY <1>3, <1>4

LEMMA FollowsTransitive ==
  ASSUME NEW f, NEW g, NEW h, Follows(f, g), Follows(g, h)
  PROVE  Follows(f, h)
  BY DEF Follows

-----------------------------------------------------------------------------
(* The streams' invariant, by the kind of step.                             *)

Unopened == {"starting", "reset", "metadata", "handshake"}

LEMMA InitStreams == RunnerInit => StreamInv
<1> SUFFICES ASSUME RunnerInit PROVE StreamInv
  OBVIOUS
<1>1. /\ queue = <<>> /\ batch = <<>> /\ receiver = "starting" /\ worker.pc = "idle"
      /\ gate = GateInit /\ engine = EngineInit
  BY DEF RunnerInit
<1>2. /\ gate.connection = None /\ gate.seen = {} /\ gate.paused
  BY <1>1 DEF GateInit
<1>3. Pending = <<>> /\ Len(Pending) = 0
  BY <1>1 DEF Pending
<1>4. OldFramesFirst /\ OneHandshake /\ NoMarketFrames
  BY <1>3 DEF OldFramesFirst, OneHandshake, NoMarketFrames
<1> QED
  BY <1>1, <1>2, <1>4 DEF StreamInv, BatchInHand, DrainStands, NoneFollowed, FollowsReceipt,
     SeenApplied, OpenAgreed

\* Nothing outstanding, followed or known changes; only who is where.
LEMMA StillStreams ==
  ASSUME StreamInv, UNCHANGED <<gate, engine, Pending, connection>>,
         worker'.pc # "apply" => batch' = <<>>,
         worker'.pc = "decide" => worker' = worker,
         receiver' \in Unopened => receiver \in Unopened,
         receiver' = "drained" => receiver \in Unopened \cup {"drained"},
         receiver' \in {"draining", "drained"} \/ worker'.pc = "resetting" => gate.drain,
         worker'.pc = "resetting" => receiver' \in {"drained", "ended"}
  PROVE  StreamInv'
<1>1. BatchInHand' /\ DrainStands' /\ SeenApplied' /\ FollowsReceipt'
  BY DEF StreamInv, BatchInHand, DrainStands, SeenApplied, FollowsReceipt
<1>2. NoneFollowed' /\ NoMarketFrames'
  BY DEF StreamInv, NoneFollowed, NoMarketFrames, Unopened
<1>3. OldFramesFirst' /\ OneHandshake'
  BY DEF StreamInv, OldFramesFirst, OneHandshake
<1>4. OpenAgreed'
  BY DEF StreamInv, OpenAgreed, Agreed
<1> QED BY <1>1, <1>2, <1>3, <1>4 DEF StreamInv

\* A frame of the connection in use is received, and no handshake.
LEMMA ReceiptStreams ==
  ASSUME CollectorInv, StreamInv,
         NEW kind \in Kinds \ {"connected"}, NEW recent \in BOOLEAN, NEW g \in Gates, NEW r,
         Closes(gate, gate'), Follows(gate, g), Emit(kind, recent, connection, g, r),
         gate'.drain \/ ~g.drain,
         UNCHANGED <<connection, engine, worker>>,
         kind \in Quiet \/ receiver = "open",
         \/ receiver' = receiver
         \/ receiver' \in {"backoff", "ended"}
         \/ receiver' = "draining" /\ g.drain,
         worker.pc = "resetting" => receiver' \in {"drained", "ended"}
  PROVE  StreamInv'
<1> DEFINE n == Len(Pending)
<1>1. Received(Pending, Pending', kind, connection) /\ n \in Nat
  <2>1. connection \in Connections
    BY Types
  <2>2. n \in Nat
    BY OutstandingFrames
  <2> QED BY <2>1, <2>2, EmitReceives
<1>2. Follows(gate, gate')
  <2>1. PICK lag \in PendingLag : gate' = Pressure(g, lag, n + 1)
    BY DEF Emit
  <2> QED BY <2>1, PressureFollows, FollowsTransitive
<1>3. Len(Pending') = n + 1
  BY <1>1 DEF Received
<1>4. /\ \A i \in 1..n : Pending'[i].kind = Pending[i].kind /\ Pending'[i].conn = Pending[i].conn
      /\ Pending'[n + 1].kind = kind /\ Pending'[n + 1].conn = connection
  BY <1>1 DEF Received
<1>5. /\ gate.paused => gate'.paused
      /\ gate.drain => gate'.drain
  BY DEF Closes
<1>6. gate'.connection = gate.connection /\ gate'.seen = gate.seen
  BY <1>2 DEF Follows
<1> HIDE DEF n
<1>7. BatchInHand'
  <2>1. batch' = Overtaken(batch)
    BY DEF Emit
  <2>2. batch = <<>> => batch' = <<>>
    <3>1. ASSUME batch = <<>> PROVE batch' = <<>>
      <4>1. batch \in Seq(Frames) /\ batch' \in Seq(Frames) /\ Len(batch') = 0
        BY <2>1, <3>1, OutstandingFrames, OvertakenType
      <4> QED BY <4>1
    <3> QED BY <3>1
  <2> QED BY <2>2 DEF StreamInv, BatchInHand
<1>8. DrainStands'
  BY <1>5 DEF StreamInv, DrainStands
<1>9. NoneFollowed' /\ SeenApplied' /\ FollowsReceipt'
  BY <1>6 DEF StreamInv, NoneFollowed, SeenApplied, FollowsReceipt
<1>10. NoMarketFrames'
  <2> SUFFICES ASSUME receiver' \in Unopened \cup {"drained"}, NEW i \in 1..Len(Pending')
               PROVE  Pending'[i].kind \in Quiet
    BY DEF NoMarketFrames, Unopened
  <2>1. receiver' = receiver /\ kind \in Quiet
    BY DEF Unopened
  <2>2. CASE i \in 1..n
    BY <1>4, <2>1, <2>2 DEF StreamInv, NoMarketFrames, Unopened, n
  <2>3. CASE i = n + 1
    BY <1>4, <2>1, <2>3
  <2> QED BY <1>1, <1>3, <2>2, <2>3
<1>11. OldFramesFirst'
  <2> SUFFICES ASSUME NEW i \in 1..Len(Pending')
               PROVE  \/ Pending'[i].conn = connection
                      \/ \E j \in (i + 1)..Len(Pending') : Pending'[j].kind = "connected"
    BY DEF OldFramesFirst
  <2>1. CASE i \in 1..n
    <3>1. \/ Pending[i].conn = connection
          \/ \E j \in (i + 1)..n : Pending[j].kind = "connected"
      BY <2>1 DEF StreamInv, OldFramesFirst, n
    <3> QED BY <1>1, <1>3, <1>4, <2>1, <3>1
  <2>2. CASE i = n + 1
    BY <1>4, <2>2
  <2> QED BY <1>1, <1>3, <2>1, <2>2
<1>12. OneHandshake'
  <2> SUFFICES ASSUME NEW i \in 1..Len(Pending'), Pending'[i].kind = "connected"
               PROVE  /\ Pending'[i].conn = connection /\ gate'.connection = None
                      /\ \A j \in 1..Len(Pending') : Pending'[j].kind = "connected" => j = i
    BY DEF OneHandshake
  <2>1. \A j \in 1..Len(Pending') : Pending'[j].kind = "connected" =>
          j \in 1..n /\ Pending[j].kind = "connected"
    BY <1>1, <1>3, <1>4
  <2>2. i \in 1..n /\ Pending[i].kind = "connected"
    BY <2>1
  <2>3. /\ Pending[i].conn = connection /\ gate.connection = None
        /\ \A j \in 1..n : Pending[j].kind = "connected" => j = i
    BY <2>2 DEF StreamInv, OneHandshake, n
  <2> QED BY <1>4, <1>6, <2>1, <2>2, <2>3
<1>13. OpenAgreed'
  BY <1>5, <1>6 DEF StreamInv, OpenAgreed, Agreed
<1> QED BY <1>7, <1>8, <1>9, <1>10, <1>11, <1>12, <1>13 DEF StreamInv

LEMMA OpenStreams ==
  ASSUME CollectorAssumption, CollectorInv, StreamInv, Open
  PROVE  StreamInv'
<1> DEFINE n == Len(Pending)
<1>1. PICK c \in Connections : /\ connection' = c
                               /\ Emit("connected", TRUE, c, gate, reconnect)
  BY DEF Open
<1>2. /\ receiver = "handshake" /\ receiver' = "open"
      /\ engine' = engine /\ worker' = worker
  BY DEF Open
<1>3. Received(Pending, Pending', "connected", c) /\ n \in Nat
  <2>1. n \in Nat
    BY OutstandingFrames
  <2> QED BY <1>1, <2>1, EmitReceives, Types
<1>4. Follows(gate, gate') /\ Closes(gate, gate')
  <2>1. PICK lag \in PendingLag : gate' = Pressure(gate, lag, n + 1)
    BY <1>1 DEF Emit
  <2>2. lag \in Lags /\ n + 1 \in Nat
    BY <1>3, PendingLagType
  <2> QED BY <2>1, <2>2, Types, PressureFollows, PressureCloses
<1>5. /\ gate.connection = None /\ gate'.connection = None /\ gate'.seen = gate.seen
      /\ gate.paused => gate'.paused
      /\ gate.drain => gate'.drain
  BY <1>2, <1>4 DEF StreamInv, NoneFollowed, Follows, Closes
<1>6. \A i \in 1..n : Pending[i].kind # "connected"
  BY <1>2 DEF StreamInv, NoMarketFrames, Quiet, n
<1>7. /\ Len(Pending') = n + 1
      /\ \A i \in 1..n : Pending'[i].kind = Pending[i].kind
      /\ Pending'[n + 1].kind = "connected" /\ Pending'[n + 1].conn = connection'
  BY <1>1, <1>3 DEF Received
<1> HIDE DEF n
<1>8. BatchInHand'
  <2>1. batch' = Overtaken(batch)
    BY <1>1 DEF Emit
  <2>2. ASSUME batch = <<>> PROVE batch' = <<>>
    <3>1. batch \in Seq(Frames) /\ batch' \in Seq(Frames) /\ Len(batch') = 0
      BY <2>1, <2>2, OutstandingFrames, OvertakenType
    <3> QED BY <3>1
  <2> QED BY <1>2, <2>2 DEF StreamInv, BatchInHand
<1>9. DrainStands' /\ NoneFollowed' /\ NoMarketFrames' /\ FollowsReceipt' /\ SeenApplied'
  BY <1>2, <1>5 DEF StreamInv, DrainStands, NoneFollowed, NoMarketFrames, FollowsReceipt,
     SeenApplied
<1>10. OldFramesFirst'
  <2> SUFFICES ASSUME NEW i \in 1..Len(Pending')
               PROVE  \/ Pending'[i].conn = connection'
                      \/ \E j \in (i + 1)..Len(Pending') : Pending'[j].kind = "connected"
    BY DEF OldFramesFirst
  <2>1. CASE i = n + 1
    BY <1>7, <2>1
  <2>2. CASE i # n + 1
    <3>1. n + 1 \in (i + 1)..Len(Pending')
      BY <1>3, <1>7, <2>2
    <3> QED BY <1>7, <3>1
  <2> QED BY <2>1, <2>2
<1>11. OneHandshake'
  <2> SUFFICES ASSUME NEW i \in 1..Len(Pending'), Pending'[i].kind = "connected"
               PROVE  /\ Pending'[i].conn = connection' /\ gate'.connection = None
                      /\ \A j \in 1..Len(Pending') : Pending'[j].kind = "connected" => j = i
    BY DEF OneHandshake
  <2>1. \A j \in 1..Len(Pending') : Pending'[j].kind = "connected" => j = n + 1
    BY <1>3, <1>6, <1>7
  <2> QED BY <1>5, <1>7, <2>1
<1>12. OpenAgreed'
  BY <1>2, <1>5 DEF StreamInv, OpenAgreed, Agreed
<1> QED BY <1>8, <1>9, <1>10, <1>11, <1>12 DEF StreamInv

\* The worker closes the gate or leaves it, with no frame in hand.
LEMMA MoveStreams ==
  ASSUME CollectorInv, StreamInv, NEW g, Closes(gate, g), Follows(gate, g), WorkerMoves(g),
         batch = <<>>, batch' = <<>>, UNCHANGED <<engine, connection>>,
         worker'.pc \notin {"apply", "resetting"}, worker.pc # "resetting",
         worker'.pc = "decide" /\ worker'.ready => Agreed,
         \/ receiver' = receiver
         \/ receiver' = "drained" /\ g.drain /\ queue = <<>>
  PROVE  StreamInv'
<1>1. gate' = g
  BY DEF WorkerMoves
<1>2. Alike(Pending, Pending') /\ Len(Pending) \in Nat
  BY MovesAlike, OutstandingFrames
<1>3. /\ Len(Pending') = Len(Pending)
      /\ \A i \in 1..Len(Pending) : /\ Pending'[i].kind = Pending[i].kind
                                    /\ Pending'[i].conn = Pending[i].conn
  BY <1>2 DEF Alike
<1>4. /\ gate'.connection = gate.connection /\ gate'.seen = gate.seen
      /\ gate.paused => gate'.paused
      /\ gate.drain => gate'.drain
  BY <1>1 DEF Closes, Follows
<1>5. BatchInHand' /\ DrainStands' /\ FollowsReceipt' /\ SeenApplied' /\ NoneFollowed'
  BY <1>1, <1>4 DEF StreamInv, BatchInHand, DrainStands, FollowsReceipt, SeenApplied, NoneFollowed
<1>6. NoMarketFrames'
  <2>1. CASE receiver' = receiver
    BY <1>3, <2>1 DEF StreamInv, NoMarketFrames
  <2>2. CASE queue = <<>>
    <3>1. Len(Pending') = 0
      BY <1>3, <2>2, OutstandingFrames
    <3> QED BY <3>1 DEF NoMarketFrames
  <2> QED BY <2>1, <2>2
<1>7. OldFramesFirst'
  <2> SUFFICES ASSUME NEW i \in 1..Len(Pending)
               PROVE  \/ Pending'[i].conn = connection
                      \/ \E j \in (i + 1)..Len(Pending) : Pending'[j].kind = "connected"
    BY <1>3 DEF OldFramesFirst
  <2>1. \/ Pending[i].conn = connection
        \/ \E j \in (i + 1)..Len(Pending) : Pending[j].kind = "connected"
    BY DEF StreamInv, OldFramesFirst
  <2> QED BY <1>2, <1>3, <2>1
<1>8. OneHandshake'
  BY <1>3, <1>4 DEF StreamInv, OneHandshake
<1>9. OpenAgreed'
  BY <1>4 DEF StreamInv, OpenAgreed, Agreed
<1> QED BY <1>5, <1>6, <1>7, <1>8, <1>9 DEF StreamInv

\* A frame leaves what is followed alone, unless it announces a connection.
LEMMA ObserveFollows ==
  ASSUME NEW g \in Gates, NEW f \in Frames, NEW outcome
  PROVE  LET h == Observe(g, f, outcome) IN
         /\ f.kind # "connected" =>
              h.connection = g.connection /\ g.seen \ {"reference"} \subseteq h.seen
         /\ h.connection \in {g.connection, f.conn}
<1> DEFINE opened == IF f.kind = "connected"
                       THEN [g EXCEPT !.connection = f.conn, !.seen = g.seen \cap {"metadata"}]
                       ELSE g
           counts == /\ outcome # "invalid"
                     /\ \/ f.kind = "metadata"
                        \/ f.kind \in Streams /\ f.conn = opened.connection
           forgets == counts /\ f.kind = "reference"
           seen == (opened.seen \ {k \in {"reference"} : forgets})
                     \cup {k \in {f.kind} : counts /\ Shows(f, outcome)}
           h == [opened EXCEPT !.seen = seen]
<1>1. Observe(g, f, outcome) = IF g.drain THEN g ELSE h
  BY DEF Observe
<1>3. opened \in Gates /\ opened.connection \in {g.connection, f.conn}
  <2>1. ASSUME NEW c \in Connections, NEW z \in SUBSET (Streams \cup {"metadata"})
        PROVE  /\ [g EXCEPT !.connection = c, !.seen = z] \in Gates
               /\ [g EXCEPT !.connection = c, !.seen = z].connection = c
    BY DEF Gates
  <2>2. f.conn \in Connections /\ g.seen \cap {"metadata"} \in SUBSET (Streams \cup {"metadata"})
    BY DEF Frames
  <2> QED BY <2>1, <2>2
<1>4. f.kind # "connected" => opened = g
  OBVIOUS
<1>5. opened.seen \ {"reference"} \subseteq seen
  OBVIOUS
<1> HIDE DEF opened, seen
<1>6. h.connection = opened.connection /\ h.seen = seen
  BY <1>3 DEF Gates
<1> HIDE DEF h
<1> QED BY <1>1, <1>3, <1>4, <1>5, <1>6

LEMMA IngestFollows ==
  ASSUME NEW e \in Engines, NEW f \in Frames, NEW outcome \in Outcomes
  PROVE  Ingest(e, f, outcome).connection = f.conn
<1> DEFINE changed == f.conn # e.connection
           entered == CASE changed /\ f.kind = "connected" ->
                             [Invalidated(f.conn) EXCEPT !.integrity = FALSE]
                        [] (changed /\ f.kind # "connected") \/ outcome = "jump" ->
                             Invalidated(f.conn)
                        [] OTHER -> e
           usable == (entered.usable \ Withdraws(outcome)) \cup Restores(f, outcome)
<1>1. f.conn \in Connections
  BY DEF Frames
<1>2. Invalidated(f.conn) \in Engines /\ Invalidated(f.conn).connection = f.conn
  BY <1>1, InvalidatedType DEF Invalidated
<1>3. \A x \in Engines : /\ [x EXCEPT !.integrity = FALSE] \in Engines
                         /\ [x EXCEPT !.integrity = FALSE].connection = x.connection
  BY DEF Engines
<1>4. entered \in Engines /\ entered.connection = f.conn
  <2>1. ~changed => e.connection = f.conn
    OBVIOUS
  <2>2. \/ entered = [Invalidated(f.conn) EXCEPT !.integrity = FALSE]
        \/ entered = Invalidated(f.conn)
        \/ ~changed /\ entered = e
    OBVIOUS
  <2> HIDE DEF entered, changed
  <2> QED BY <1>2, <1>3, <2>1, <2>2
<1> HIDE DEF entered
<1>5. \A x \in Engines : \A z : [x EXCEPT !.usable = z].connection = x.connection
  BY DEF Engines
<1>6. Ingest(e, f, outcome) =
        IF f.kind = "interrupt" \/ outcome = "invalid" THEN Invalidated(f.conn)
        ELSE [entered EXCEPT !.usable = usable]
  BY DEF Ingest, entered
<1> HIDE DEF usable
<1> QED BY <1>2, <1>4, <1>5, <1>6

LEMMA ApplyStreams ==
  ASSUME CollectorAssumption, CollectorInv, StreamInv, Apply
  PROVE  StreamInv'
<1> DEFINE f == Head(batch)
           n == Len(Pending)
<1>1. batch # <<>> /\ UNCHANGED <<connection, receiver>>
  BY DEF Apply, socket
<1>2. PICK outcome \in Possible(engine, f) :
        LET failed == outcome = "invalid" \/ f.kind = "interrupt"
            g == RequestIf(life = "running" /\ failed, gate)
        IN /\ engine' = Ingest(engine, f, outcome)
           /\ WorkerMoves(Observe(g, f, outcome))
           /\ batch' = Overtaken(Tail(batch))
           /\ worker' = [worker EXCEPT !.valid = worker.valid /\ outcome # "invalid",
                                       !.pc = IF Tail(batch) = <<>> THEN "pressure" ELSE "apply"]
  BY DEF Apply
<1>3. f \in Frames /\ engine \in Engines /\ outcome \in Outcomes /\ gate \in Gates
  <2>1. batch \in Seq(Frames)
    BY OutstandingFrames
  <2>2. engine \in Engines
    BY DEF CollectorInv, RunnerTypeOK
  <2> QED BY <1>1, <2>1, <2>2, Types DEF Possible
<1> DEFINE failed == outcome = "invalid" \/ f.kind = "interrupt"
           g == RequestIf(life = "running" /\ failed, gate)
           h == Observe(g, f, outcome)
<1>4. gate' = h /\ WorkerMoves(h) /\ batch' = Overtaken(Tail(batch))
  BY <1>2 DEF WorkerMoves
<1>5. /\ f = Pending[1] /\ n \in Nat \ {0} /\ Len(Pending') = n - 1
      /\ \A i \in 1..n - 1 : /\ Pending'[i].kind = Pending[i + 1].kind
                             /\ Pending'[i].conn = Pending[i + 1].conn
  <2> HIDE DEF h
  <2> QED BY <1>1, <1>4, ApplyTakesHead
<1>6. engine'.connection = f.conn /\ f.conn \in Connections
  BY <1>2, <1>3, IngestFollows DEF Frames
<1>7. /\ Closes(gate, gate') /\ gate'.connection \in {gate.connection, f.conn}
      /\ f.kind # "connected" => /\ gate'.connection = gate.connection
                                 /\ gate.seen \ {"reference"} \subseteq gate'.seen
  <2>1. (life = "running" /\ failed) \in BOOLEAN
    OBVIOUS
  <2> HIDE DEF failed, f
  <2>2. Closes(gate, g) /\ Follows(gate, g)
    BY <1>3, <2>1, RequestIfCloses, RequestFollows
  <2>3. g \in Gates
    BY <2>2 DEF Closes
  <2> HIDE DEF g
  <2>4. /\ Closes(g, h) /\ h.connection \in {g.connection, f.conn}
        /\ f.kind # "connected" => /\ h.connection = g.connection
                                   /\ g.seen \ {"reference"} \subseteq h.seen
    BY <1>3, <2>3, ObserveCloses, ObserveFollows
  <2> QED BY <1>4, <2>2, <2>4, ClosesTransitive DEF Follows
<1>8. /\ worker'.pc \in {"pressure", "apply"}
      /\ worker'.pc = "pressure" => Tail(batch) = <<>>
  <2> DEFINE v == worker.valid /\ outcome # "invalid"
             q == IF Tail(batch) = <<>> THEN "pressure" ELSE "apply"
  <2>1. worker' = [worker EXCEPT !.valid = v, !.pc = q]
    BY <1>2
  <2>2. q \in {"pressure", "apply"} /\ (q = "pressure" => Tail(batch) = <<>>)
    OBVIOUS
  <2> HIDE DEF v, q
  <2>3. \A w \in Worker : [w EXCEPT !.valid = v, !.pc = q].pc = q
    BY DEF Worker
  <2>4. worker'.pc = q
    BY <2>1, <2>3, WorkerType, Zenon
  <2> QED BY <2>2, <2>4
<1> HIDE DEF f, n, failed, g, h
<1>9. BatchInHand'
  <2> SUFFICES ASSUME worker'.pc # "apply" PROVE batch' = <<>>
    BY DEF BatchInHand
  <2>1. Tail(batch) \in Seq(Frames) /\ Len(Tail(batch)) = 0
    <3>1. Tail(batch) = <<>>
      BY <1>8
    <3>2. Len(<<>>) = 0 /\ <<>> \in Seq(Frames)
      OBVIOUS
    <3> QED BY <3>1, <3>2
  <2>2. batch' \in Seq(Frames) /\ Len(batch') = 0
    BY <1>4, <2>1, OvertakenType
  <2> QED BY <2>2
<1>10. /\ gate.drain => gate'.drain
       /\ gate.paused => gate'.paused
  BY <1>7 DEF Closes
<1>11. DrainStands'
  <2>1. worker.pc = "apply"
    BY DEF Apply
  <2> QED BY <1>1, <1>8, <1>10, <2>1 DEF StreamInv, DrainStands
<1>12. receiver \in Unopened \cup {"drained"} => \A i \in 1..n : Pending[i].kind \in Quiet
  BY DEF StreamInv, NoMarketFrames, Unopened, n
<1>13. NoneFollowed'
  BY <1>1, <1>5, <1>7, <1>12 DEF StreamInv, NoneFollowed, Unopened, Quiet
<1>14. NoMarketFrames'
  BY <1>1, <1>5, <1>12 DEF NoMarketFrames, Unopened
<1>15. OldFramesFirst'
  <2> SUFFICES ASSUME NEW i \in 1..n - 1
               PROVE  \/ Pending'[i].conn = connection
                      \/ \E j \in (i + 1)..n - 1 : Pending'[j].kind = "connected"
    BY <1>1, <1>5 DEF OldFramesFirst
  <2>1. i + 1 \in 1..n
    BY <1>5
  <2>2. \/ Pending[i + 1].conn = connection
        \/ \E j \in (i + 2)..n : Pending[j].kind = "connected"
    BY <1>5, <2>1 DEF StreamInv, OldFramesFirst, n
  <2>3. ASSUME NEW j \in (i + 2)..n, Pending[j].kind = "connected"
        PROVE  \E k \in (i + 1)..n - 1 : Pending'[k].kind = "connected"
    <3>1. j - 1 \in (i + 1)..n - 1 /\ j - 1 \in 1..n - 1 /\ (j - 1) + 1 = j
      BY <1>5
    <3> QED BY <1>5, <2>3, <3>1
  <2> QED BY <1>5, <2>2, <2>3
<1>16. \A i, j \in 1..n : Pending[i].kind = "connected" =>
         /\ Pending[i].conn = connection /\ gate.connection = None
         /\ Pending[j].kind = "connected" => j = i
  BY DEF StreamInv, OneHandshake, n
<1>17. OneHandshake'
  <2> SUFFICES ASSUME NEW i \in 1..n - 1, Pending'[i].kind = "connected"
               PROVE  /\ Pending'[i].conn = connection /\ gate'.connection = None
                      /\ \A j \in 1..n - 1 : Pending'[j].kind = "connected" => j = i
    BY <1>1, <1>5 DEF OneHandshake
  <2>1. i + 1 \in 1..n /\ 1 \in 1..n /\ i + 1 # 1 /\ Pending[i + 1].kind = "connected"
        /\ Pending'[i].conn = Pending[i + 1].conn
    BY <1>5
  <2>2. Pending[i + 1].conn = connection /\ gate.connection = None /\ f.kind # "connected"
    BY <1>5, <1>16, <2>1
  <2>3. ASSUME NEW j \in 1..n - 1, Pending'[j].kind = "connected" PROVE j = i
    <3>1. j + 1 \in 1..n /\ Pending[j + 1].kind = "connected"
      BY <1>5, <2>3
    <3>2. j + 1 = i + 1
      BY <1>16, <2>1, <3>1
    <3> QED BY <1>5, <3>2
  <2> QED BY <1>7, <2>1, <2>2, <2>3
<1>18. FollowsReceipt' /\ SeenApplied'
  <2>1. gate.connection \in {None, connection}
    BY DEF StreamInv, FollowsReceipt
  <2>2. f.kind = "connected" => f.conn = connection
    BY <1>5, <1>16
  <2>3. f.conn # None
    BY <1>6 DEF CollectorAssumption
  <2> QED BY <1>1, <1>6, <1>7, <2>1, <2>2, <2>3 DEF FollowsReceipt, SeenApplied
<1>19. OpenAgreed'
  <2> SUFFICES ASSUME ~gate'.paused PROVE Agreed'
    BY <1>8 DEF OpenAgreed
  <2>1. Agreed /\ gate.connection = connection
    BY <1>10 DEF StreamInv, OpenAgreed, Agreed, FollowsReceipt
  <2>2. gate.connection # None /\ {"metadata"} \cup (Streams \cap {"snapshot"}) \subseteq gate.seen
    BY <2>1 DEF Agreed
  <2>3. \A i \in 1..n : Pending[i].kind # "connected"
    BY <1>16, <2>2
  <2>4. f.kind # "connected" /\ f.conn = connection
    <3>1. 1 \in 1..n /\ \A j \in 2..n : j \in 1..n
      BY <1>5
    <3>2. \/ Pending[1].conn = connection
          \/ \E j \in 2..n : Pending[j].kind = "connected"
      BY <3>1 DEF StreamInv, OldFramesFirst, n
    <3> QED BY <1>5, <2>3, <3>1, <3>2
  <2> QED BY <1>6, <1>7, <2>1, <2>2, <2>4 DEF Agreed
<1> QED BY <1>9, <1>11, <1>13, <1>14, <1>15, <1>17, <1>18, <1>19 DEF StreamInv

\* A new connection is followed by none yet; only a shut gate is reset.
LEMMA ResetStreams ==
  ASSUME CollectorInv, StreamInv, Reset
  PROVE  StreamInv'
<1>1. /\ worker.pc = "resetting" /\ gate' = Reconnected(gate)
      /\ receiver' = IF receiver = "drained" THEN "reset" ELSE receiver
      /\ UNCHANGED <<engine, queue, batch, connection>>
  BY DEF Reset, pipe, socket
<1>2. gate'.connection = None /\ gate'.seen = {} /\ gate'.paused = gate.paused
  BY <1>1, Types DEF Reconnected, Gates
<1>3. worker'.pc = "idle"
  <2>1. "idle" \in Places
    BY DEF Places
  <2> QED BY <2>1, WorkerType, WorkerAt, Zenon DEF Reset
<1>4. receiver \in {"drained", "ended"} /\ receiver' \in {"reset", "ended"} /\ gate.paused
      /\ (receiver' = "reset" => receiver = "drained")
  BY <1>1 DEF StreamInv, DrainStands, CollectorInv, ClosedInRecovery
<1>5. Pending' = Pending
  BY <1>1 DEF Pending
<1>6. BatchInHand' /\ DrainStands' /\ NoneFollowed' /\ FollowsReceipt' /\ SeenApplied'
  BY <1>1, <1>2, <1>3, <1>4 DEF StreamInv, BatchInHand, DrainStands, NoneFollowed,
     FollowsReceipt, SeenApplied
<1>7. NoMarketFrames' /\ OldFramesFirst' /\ OneHandshake'
  BY <1>1, <1>2, <1>4, <1>5 DEF StreamInv, NoMarketFrames, OldFramesFirst, OneHandshake
<1>8. OpenAgreed'
  BY <1>2, <1>3, <1>4 DEF OpenAgreed
<1> QED BY <1>6, <1>7, <1>8 DEF StreamInv

\* The gate opens on what the check had found, and on nothing else.
LEMMA CheckEndStreams ==
  ASSUME CollectorInv, StreamInv, CheckEnd
  PROVE  StreamInv'
<1> DEFINE opens == ~gate.drain /\ worker.ready /\ ~(gate.catchingUp /\ gate.lagging)
           a == ~opens
           b == gate.catchingUp /\ ~opens
           c == gate.lagging /\ ~opens
<1>1. /\ gate' = [gate EXCEPT !.paused = a, !.catchingUp = b, !.lagging = c]
      /\ worker.pc = "decide"
      /\ UNCHANGED <<engine, queue, batch, connection, receiver>>
  BY DEF CheckEnd, pipe, socket
<1>2. a = ~opens /\ (opens => ~gate.drain /\ worker.ready)
  OBVIOUS
<1> HIDE DEF a, b, c, opens
<1>3. \A g \in Gates : LET h == [g EXCEPT !.paused = a, !.catchingUp = b, !.lagging = c] IN
        /\ h.paused = a /\ h.drain = g.drain
        /\ h.connection = g.connection /\ h.seen = g.seen
  BY DEF Gates
<1>4. /\ gate'.paused = a /\ gate'.drain = gate.drain
      /\ gate'.connection = gate.connection /\ gate'.seen = gate.seen
  BY <1>1, <1>3, Types, Zenon
<1>5. worker'.pc = "finished"
  <2>1. \A w \in Worker : [w EXCEPT !.pc = "finished", !.ready = FALSE].pc = "finished"
    BY DEF Worker
  <2> QED BY <2>1, WorkerType, Zenon DEF CheckEnd
<1>6. Pending' = Pending
  BY <1>1 DEF Pending
<1>7. BatchInHand' /\ DrainStands' /\ NoneFollowed' /\ FollowsReceipt' /\ SeenApplied'
  BY <1>1, <1>4, <1>5 DEF StreamInv, BatchInHand, DrainStands, NoneFollowed, FollowsReceipt,
     SeenApplied
<1>8. NoMarketFrames' /\ OldFramesFirst' /\ OneHandshake'
  BY <1>1, <1>4, <1>6 DEF StreamInv, NoMarketFrames, OldFramesFirst, OneHandshake
<1>9. OpenAgreed'
  <2> SUFFICES ASSUME ~gate'.paused PROVE Agreed'
    BY <1>5 DEF OpenAgreed
  <2>1. opens
    BY <1>2, <1>4
  <2>2. Agreed
    BY <1>1, <1>2, <2>1 DEF StreamInv, OpenAgreed
  <2> QED BY <1>1, <1>4, <2>2 DEF Agreed
<1> QED BY <1>7, <1>8, <1>9 DEF StreamInv

\* A check that finds no reason against it has seen the streams agree.
LEMMA CheckStartStreams ==
  ASSUME CollectorAssumption, CollectorInv, StreamInv, CheckStart
  PROVE  StreamInv'
<1> DEFINE stopping == life # "running"
           latched == ~stopping /\ gate.connection # None /\ engine.integrity
                        /\ gate.connection = engine.connection
           g == RequestIf(latched, gate)
           unready == Unready(gate, engine, worker.late, Len(queue), connected)
<1>1. PICK other \in BOOLEAN, stalled \in BOOLEAN :
        /\ WorkerMoves(RequestIf(stalled, g))
        /\ worker' = [worker EXCEPT
                        !.pc = IF g.drain THEN "finished" ELSE "decide", !.late = FALSE,
                        !.ready = ~(g.drain \/ stopping \/ unready \/ other)]
  BY DEF CheckStart
<1> DEFINE ready == ~(g.drain \/ stopping \/ unready \/ other)
           place == IF g.drain THEN "finished" ELSE "decide"
           h == RequestIf(stalled, g)
<1>2. worker' \in Worker /\ worker'.ready = ready /\ worker'.pc = place
  <2>1. place \in Places /\ ready \in BOOLEAN /\ FALSE \in BOOLEAN
    BY DEF Places
  <2>2. worker' = [worker EXCEPT !.pc = place, !.late = FALSE, !.ready = ready]
    BY <1>1
  <2> HIDE DEF place, ready
  <2> QED BY <2>1, <2>2, WorkerType, WorkerReady, Zenon
<1>3. worker'.pc \in {"finished", "decide"}
  BY <1>2
<1>4. ready => Agreed
  <2> SUFFICES ASSUME ~unready PROVE Agreed
    OBVIOUS
  <2>1. /\ gate.connection = engine.connection /\ "metadata" \in gate.seen
        /\ Streams \subseteq gate.seen
    BY DEF Unready
  <2> QED BY <2>1 DEF StreamInv, SeenApplied, Agreed
<1>5. /\ worker.pc = "check" /\ UNCHANGED <<engine, batch, connection, receiver>>
  BY DEF CheckStart, socket
<1>6. Closes(gate, h) /\ Follows(gate, h) /\ WorkerMoves(h)
  <2>1. latched \in BOOLEAN /\ WorkerMoves(h)
    BY <1>1
  <2> HIDE DEF latched
  <2>2. Closes(gate, g) /\ Follows(gate, g)
    BY <2>1, Types, RequestIfCloses, RequestFollows
  <2>3. g \in Gates
    BY <2>2 DEF Closes
  <2> HIDE DEF g
  <2>4. Closes(g, RequestIf(stalled, g)) /\ Follows(g, RequestIf(stalled, g))
    BY <2>3, RequestIfCloses, RequestFollows
  <2> QED BY <2>1, <2>2, <2>4, ClosesTransitive, FollowsTransitive
<1>7. batch = <<>> /\ batch' = <<>>
  BY <1>5 DEF StreamInv, BatchInHand
<1> HIDE DEF h, ready, place
<1> QED BY <1>2, <1>3, <1>4, <1>5, <1>6, <1>7, MoveStreams

LEMMA WorkerPressureStreams ==
  ASSUME CollectorAssumption, CollectorInv, StreamInv, WorkerPressure
  PROVE  StreamInv'
<1>1. PICK lag \in PendingLag :
        /\ worker' = [worker EXCEPT !.pc = "check", !.late = lag # Low]
        /\ WorkerMoves(Pressure(gate, lag, Len(Pending)))
  BY DEF WorkerPressure
<1> DEFINE g == Pressure(gate, lag, Len(Pending))
<1>2. Closes(gate, g) /\ Follows(gate, g) /\ WorkerMoves(g)
  <2>1. lag \in Lags /\ Len(Pending) \in Nat
    BY PendingLagType, OutstandingFrames
  <2> QED BY <1>1, <2>1, Types, PressureCloses, PressureFollows
<1>3. worker'.pc = "check"
  <2> DEFINE late == lag # Low
  <2>1. worker' = [worker EXCEPT !.pc = "check", !.late = late]
    BY <1>1
  <2> HIDE DEF late
  <2>2. \A w \in Worker : [w EXCEPT !.pc = "check", !.late = late].pc = "check"
    BY DEF Worker
  <2> QED BY <2>1, <2>2, WorkerType, Zenon
<1>4. worker.pc = "pressure" /\ UNCHANGED <<engine, batch, connection, receiver>>
  BY DEF WorkerPressure, socket
<1>5. batch = <<>> /\ batch' = <<>>
  BY <1>4 DEF StreamInv, BatchInHand
<1> HIDE DEF g
<1> QED BY <1>2, <1>3, <1>4, <1>5, MoveStreams

LEMMA BatchDoneStreams ==
  ASSUME CollectorInv, StreamInv, BatchDone
  PROVE  StreamInv'
<1> DEFINE g == RequestIf(~worker.valid, gate)
<1>1. /\ WorkerMoves(g) /\ worker.pc = "finished"
      /\ receiver' = IF receiver = "draining" /\ Empties(g) THEN "drained" ELSE receiver
      /\ UNCHANGED <<engine, batch, connection>>
  BY DEF BatchDone, socket
<1>2. Closes(gate, g) /\ Follows(gate, g)
  <2>1. (~worker.valid) \in BOOLEAN
    OBVIOUS
  <2> QED BY <2>1, Types, RequestIfCloses, RequestFollows
<1>3. worker'.pc = "idle"
  <2>1. "idle" \in Places /\ TRUE \in BOOLEAN
    BY DEF Places
  <2> QED BY <2>1, WorkerType, WorkerValid, Zenon DEF BatchDone
<1>4. batch = <<>> /\ batch' = <<>>
  BY <1>1 DEF StreamInv, BatchInHand
<1> HIDE DEF g
<1>5. \/ receiver' = receiver
      \/ receiver' = "drained" /\ g.drain /\ queue = <<>>
  BY <1>1 DEF Empties
<1> QED BY <1>1, <1>2, <1>3, <1>4, <1>5, MoveStreams

\* The worker takes the whole queue, so what is outstanding stays the same.
LEMMA TakeBatchStreams ==
  ASSUME CollectorInv, StreamInv, TakeBatch
  PROVE  StreamInv'
<1>1. /\ worker.pc = "idle" /\ batch' = queue /\ queue' = <<>>
      /\ UNCHANGED <<gate, engine, connection, receiver>>
  BY DEF TakeBatch, socket
<1>2. worker'.pc = "apply"
  <2>1. "apply" \in Places /\ TRUE \in BOOLEAN
    BY DEF Places
  <2> QED BY <2>1, WorkerType, WorkerValid, Zenon DEF TakeBatch
<1>3. Pending' = Pending
  <2>1. batch = <<>> /\ queue \in Seq(Frames)
    BY <1>1, OutstandingFrames DEF StreamInv, BatchInHand
  <2>2. queue \o <<>> = queue /\ <<>> \o queue = queue
    BY <2>1
  <2> QED BY <1>1, <2>1, <2>2 DEF Pending
<1>4. receiver' \in {"draining", "drained"} => gate.drain
  BY <1>1 DEF StreamInv, DrainStands
<1> QED BY <1>1, <1>2, <1>3, <1>4, StillStreams

LEMMA BeginResetStreams ==
  ASSUME CollectorInv, StreamInv, BeginReset
  PROVE  StreamInv'
<1>1. /\ worker.pc = "idle" /\ receiver = "drained"
      /\ UNCHANGED <<gate, engine, queue, batch, connection, receiver>>
  BY DEF BeginReset, pipe, socket
<1>2. worker'.pc = "resetting"
  <2>1. "resetting" \in Places
    BY DEF Places
  <2> QED BY <2>1, WorkerType, WorkerAt, Zenon DEF BeginReset
<1>3. Pending' = Pending /\ batch' = <<>> /\ gate.drain
  BY <1>1 DEF Pending, StreamInv, BatchInHand, DrainStands
<1> QED BY <1>1, <1>2, <1>3, StillStreams

\* The receiver goes on, or the rest changes; nothing is received or applied.
LEMMA WaitStreams ==
  ASSUME CollectorInv, StreamInv,
         UNCHANGED <<gate, engine, queue, batch, connection, worker>>,
         \/ receiver' = receiver
         \/ /\ receiver \in Unopened
            /\ \/ receiver' \in Unopened \cup {"ended"}
               \/ receiver' \in {"draining", "drained"} /\ gate.drain
  PROVE  StreamInv'
<1>1. Pending' = Pending
  BY DEF Pending
<1>2. /\ worker'.pc # "apply" => batch' = <<>>
      /\ receiver' \in {"draining", "drained"} \/ worker'.pc = "resetting" => gate.drain
      /\ worker'.pc = "resetting" => receiver' \in {"drained", "ended"}
  BY DEF StreamInv, BatchInHand, DrainStands, Unopened
<1>3. /\ receiver' \in Unopened => receiver \in Unopened
      /\ receiver' = "drained" => receiver \in Unopened \cup {"drained"}
  BY DEF Unopened
<1> QED BY <1>1, <1>2, <1>3, StillStreams

LEMMA TurnPlaces ==
  ASSUME RunnerTypeOK
  PROVE  \/ Turn \in {"handshake", "ended"}
         \/ Turn \in {"draining", "drained"} /\ gate.drain
<1>1. gate.drain \in BOOLEAN /\ drained \in BOOLEAN
  BY DEF RunnerTypeOK, Gates
<1> QED BY <1>1 DEF Turn

LEMMA StartStreams ==
  ASSUME CollectorInv, StreamInv, Start \/ MetadataReady
  PROVE  StreamInv'
<1>1. /\ UNCHANGED <<gate, engine, queue, batch, connection, worker>>
      /\ receiver \in {"starting", "metadata"} /\ receiver' \in {Turn, "handshake"}
  BY DEF Start, MetadataReady, TurnsTo, pipe, socket
<1> QED BY <1>1, Types, TurnPlaces, WaitStreams DEF Unopened

LEMMA RestStreams ==
  ASSUME CollectorInv, StreamInv,
         \/ Ask \/ Polled \/ AskMetadata
         \/ SetStop \/ Overflow \/ Finish
         \/ UNCHANGED runnerVars
  PROVE  StreamInv'
<1>1. UNCHANGED <<gate, engine, queue, batch, connection, worker>>
  BY DEF Ask, Polled, AskMetadata, SetStop, Overflow, Finish, runnerVars, pipe, socket
<1>2. \/ receiver' = receiver
      \/ receiver = "reset" /\ receiver' = "metadata"
  BY DEF Ask, Polled, AskMetadata, SetStop, Overflow, Finish, runnerVars
<1> QED BY <1>1, <1>2, WaitStreams DEF Unopened

\* emit() after the caller has brought the gate to g.
LEMMA EmitMoves ==
  ASSUME CollectorAssumption, CollectorInv, NEW kind \in Kinds, NEW recent \in BOOLEAN,
         NEW g \in Gates, Closes(gate, g), NEW r \in BOOLEAN,
         Emit(kind, recent, connection, g, r)
  PROVE  Closes(gate, gate') /\ (gate'.drain \/ ~g.drain)
<1>1. Closes(g, gate')
  BY Types, EmitKeeps
<1> QED BY <1>1, ClosesTransitive DEF Closes

LEMMA ReceivingStreams ==
  ASSUME CollectorAssumption, CollectorInv, StreamInv,
         \/ Heartbeat \/ Answered \/ RefreshFails \/ Lose
         \/ \E k \in Streams : ReceiveFrame(k)
  PROVE  StreamInv'
<1>1. PICK kind \in Kinds, recent \in BOOLEAN :
        /\ Emit(kind, recent, connection, gate, reconnect)
        /\ kind \in Quiet \/ (kind \in Streams /\ receiver = "open")
  <2>1. "other" \in Kinds /\ "metadata" \in Kinds /\ "interrupt" \in Kinds
        /\ Streams \subseteq Kinds /\ asked \in BOOLEAN
    BY Types
  <2> QED BY <2>1 DEF Heartbeat, Answered, RefreshFails, Lose, ReceiveFrame, Quiet
<1>2. kind # "connected"
  BY <1>1 DEF Quiet, CollectorAssumption
<1>3. /\ UNCHANGED <<connection, engine, worker>>
      /\ \/ receiver' = receiver
         \/ receiver \in {"handshake", "open"} /\ receiver' = "backoff"
  BY DEF Heartbeat, Answered, RefreshFails, Lose, ReceiveFrame, socket
<1>4. worker.pc = "resetting" => receiver' \in {"drained", "ended"}
  BY <1>3 DEF StreamInv, DrainStands
<1>5. Follows(gate, gate) /\ (gate'.drain \/ ~gate.drain) /\ Closes(gate, gate')
  BY <1>1, Types, EmitMoves DEF Follows
<1> QED BY <1>1, <1>2, <1>3, <1>4, <1>5, Types, ReceiptStreams

LEMMA LeaveStreams ==
  ASSUME CollectorAssumption, CollectorInv, StreamInv, Leave
  PROVE  StreamInv'
<1> DEFINE lost == life = "running"
           g == RequestIf(lost, gate)
           r == reconnect \/ lost
<1>1. /\ Emit("interrupt", TRUE, connection, g, r)
      /\ UNCHANGED <<connection, engine, worker>>
      /\ receiver \in {"open", "backoff"}
      /\ receiver' = IF lost THEN "draining" ELSE "ended"
  BY DEF Leave
<1>2. /\ Closes(gate, g) /\ Follows(gate, g) /\ g \in Gates
      /\ lost => g.drain
  <2>1. lost \in BOOLEAN
    OBVIOUS
  <2> HIDE DEF lost
  <2> QED BY <2>1, Types, RequestIfCloses, RequestFollows DEF Closes
<1>3. r \in BOOLEAN /\ "interrupt" \in Kinds \ {"connected"} /\ "interrupt" \in Quiet
  BY Types DEF Quiet
<1>4. worker.pc # "resetting"
  BY <1>1 DEF StreamInv, DrainStands
<1> HIDE DEF g, lost, r
<1>5. Closes(gate, gate') /\ (gate'.drain \/ ~g.drain)
  BY <1>1, <1>2, <1>3, Types, EmitMoves
<1>6. receiver' = "ended" \/ (receiver' = "draining" /\ g.drain)
  BY <1>1, <1>2
<1> QED BY <1>1, <1>2, <1>3, <1>4, <1>5, <1>6, ReceiptStreams

LEMMA ShutDownStreams ==
  ASSUME CollectorAssumption, CollectorInv, StreamInv, ShutDown
  PROVE  StreamInv'
<1> DEFINE g == Request(gate)
<1>1. /\ Emit("interrupt", TRUE, connection, g, reconnect)
      /\ UNCHANGED <<connection, engine, worker>>
      /\ receiver' = "ended"
  BY DEF ShutDown
<1>2. Closes(gate, g) /\ Follows(gate, g) /\ g \in Gates
  BY Types, RequestCloses, RequestFollows DEF Closes
<1>3. "interrupt" \in Kinds \ {"connected"} /\ "interrupt" \in Quiet /\ reconnect \in BOOLEAN
  BY Types DEF Quiet
<1> HIDE DEF g
<1>4. Closes(gate, gate') /\ (gate'.drain \/ ~g.drain)
  BY <1>1, <1>2, <1>3, Types, EmitMoves
<1> QED BY <1>1, <1>2, <1>3, <1>4, ReceiptStreams

LEMMA StreamStep ==
  CollectorAssumption /\ CollectorInv /\ StreamInv /\ [RunnerNext]_runnerVars => StreamInv'
<1> SUFFICES ASSUME CollectorAssumption, CollectorInv, StreamInv, [RunnerNext]_runnerVars
             PROVE  StreamInv'
  OBVIOUS
<1>1. CASE Receipt
  BY <1>1, ReceivingStreams, RestStreams, StartStreams, OpenStreams, LeaveStreams
     DEF Receipt
<1>2. CASE Work
  BY <1>2, TakeBatchStreams, ApplyStreams, WorkerPressureStreams, CheckStartStreams,
     CheckEndStreams, BatchDoneStreams, BeginResetStreams, ResetStreams DEF Work
<1>3. CASE Stopping
  BY <1>3, RestStreams, ShutDownStreams DEF Stopping
<1>4. CASE UNCHANGED runnerVars
  BY <1>4, RestStreams
<1> QED BY <1>1, <1>2, <1>3, <1>4 DEF RunnerNext

(* In every reachable state old frames are outstanding only before the one  *)
(* that announces the present connection, and what opens the gate, or is    *)
(* about to, was seen on the connection that gate and engine share (emit,   *)
(* process_batch, CollectorRecovery.check).                                 *)
THEOREM StreamInvariant == RunnerSpec => []StreamInv
<1>1. RunnerInit => StreamInv
  BY InitStreams
<1>2. CollectorInv /\ StreamInv /\ [RunnerNext]_runnerVars => StreamInv'
  BY StreamStep, CollectorAssumption
<1> QED
  BY <1>1, <1>2, CollectorInvariant, PTL DEF RunnerSpec

(* Entries are open only while receipt, gate and engine agree on one        *)
(* connection whose snapshot and metadata have been seen, with no frame of  *)
(* another connection outstanding (emit, receive, process_batch, check).    *)
THEOREM OpensOnOneConnection == RunnerSpec => []OpenOnOneConnection
<1>1. CollectorInv /\ StreamInv => OpenOnOneConnection
  <2> SUFFICES ASSUME CollectorInv, StreamInv, EntriesOpen(gate, engine)
               PROVE  /\ gate.connection = engine.connection /\ gate.connection = connection
                      /\ {"metadata"} \cup (Streams \cap {"snapshot"}) \subseteq gate.seen
                      /\ \A i \in 1..Len(Pending) : Pending[i].conn = connection
    BY DEF OpenOnOneConnection
  <2>1. Agreed
    BY DEF StreamInv, OpenAgreed, EntriesOpen
  <2>2. gate.connection # None /\ gate.connection = connection
    BY <2>1 DEF Agreed, StreamInv, FollowsReceipt
  <2>3. \A i \in 1..Len(Pending) : Pending[i].kind # "connected"
    BY <2>2 DEF StreamInv, OneHandshake
  <2>4. ASSUME NEW i \in 1..Len(Pending) PROVE Pending[i].conn = connection
    <3>1. \A j \in (i + 1)..Len(Pending) : j \in 1..Len(Pending)
      BY OutstandingFrames
    <3> QED BY <2>3, <3>1 DEF StreamInv, OldFramesFirst
  <2> QED BY <2>1, <2>2, <2>4 DEF Agreed
<1> QED
  BY <1>1, CollectorInvariant, StreamInvariant, PTL

\* Only receive() changes the connection, in its handshake.
LEMMA HandshakeChanges ==
  ASSUME [RunnerNext]_runnerVars, connection' # connection
  PROVE  receiver = "handshake"
<1>1. CASE Receipt
  BY <1>1 DEF Receipt, Heartbeat, ReceiveFrame, Ask, Answered, Polled, RefreshFails, Start,
     AskMetadata, MetadataReady, Open, Lose, Leave, socket
<1>2. CASE Work
  BY <1>2 DEF Work, TakeBatch, Apply, WorkerPressure, CheckStart, CheckEnd, BatchDone,
     BeginReset, Reset, socket
<1>3. CASE Stopping
  BY <1>3 DEF Stopping, SetStop, ShutDown, Overflow, Finish, socket
<1> QED BY <1>1, <1>2, <1>3 DEF RunnerNext, runnerVars

(* A new connection is opened when no market frame of the one before is     *)
(* left in the queue or in the batch (receive, consume).                    *)
THEOREM StreamsStayApart == RunnerSpec => StreamsNeverMix
<1>1. StreamInv /\ [RunnerNext]_runnerVars =>
        [connection' # connection =>
           \A i \in 1..Len(Pending) : Pending[i].kind \in {"interrupt", "metadata", "other"}
        ]_runnerVars
  BY HandshakeChanges DEF StreamInv, NoMarketFrames, Quiet
<1> QED
  BY <1>1, StreamInvariant, PTL DEF RunnerSpec, StreamsNeverMix
===============================================================================
