---------------------------- MODULE CollectorRunner ----------------------------
(***************************************************************************)
(* The collector's two threads (runner.py, collect).  The event loop       *)
(* receives frames into a bounded queue, opens and leaves websocket        *)
(* connections (receive), asks for metadata (refresh) and beats (clock);   *)
(* one worker thread applies the queue in batches and decides whether the  *)
(* entry gate opens (process_batch), and resets the gate for a new         *)
(* connection.  A step of the loop is the code between two awaits; the     *)
(* worker's steps end where it reads what the loop may have changed.       *)
(***************************************************************************)
EXTENDS CollectorGate

CONSTANT MaxPending   \* bound: frames outstanding, queued and in the batch

VARIABLES
  gate, engine,
  queue,          \* frames received and not taken
  batch,          \* frames taken and not applied, the rest of pending_receipts
  worker,         \* the worker thread and consume(), which awaits it
  connection,     \* identity given to the frames received now
  connected,      \* whether the receiver holds a socket, as the worker reads it
  receiver,       \* where receive() is
  snapshotDue,    \* the exchange still owes the subscription its snapshot
  reconnect, drained, metadataReady,    \* asyncio events
  refresher,      \* where refresh() is
  asked,          \* it has no request out that is older than the gate's `since'
  life,           \* "running", "stop" (event set), "stopping", "over"
  settled         \* the environment has stopped disturbing

runnerVars == <<gate, engine, queue, batch, worker, connection, connected,
                receiver, snapshotDue, reconnect, drained, metadataReady, refresher,
                asked, life, settled>>

pipe == <<queue, batch>>
socket == <<connection, connected, snapshotDue>>
events == <<reconnect, drained, metadataReady>>
refresh == <<refresher, asked>>

Pending == batch \o queue

Receiving == life \in {"running", "stop"}

RunnerInit ==
  /\ gate = GateInit /\ engine = EngineInit
  /\ queue = <<>> /\ batch = <<>>
  /\ worker = [pc |-> "idle", valid |-> TRUE, late |-> FALSE, ready |-> FALSE]
  /\ connection \in Connections /\ connected = FALSE /\ snapshotDue = FALSE
  /\ receiver = "starting"
  /\ reconnect = FALSE /\ drained = FALSE /\ metadataReady = FALSE
  /\ refresher = "asking" /\ asked = TRUE
  /\ life = "running" /\ settled = FALSE

-----------------------------------------------------------------------------
(* Receipt.                                                                *)

\* The age of the oldest outstanding frame: any, as time passes at will.
PendingLag == IF Pending = <<>> \/ settled THEN {Low} ELSE Lags

\* What is outstanding, or asked, when `since' moves is older than it.
Overtaken(frames) ==
  [i \in DOMAIN frames |->
     [frames[i] EXCEPT !.recent =
        @ /\ ~(SinceMoves(gate, gate') /\ frames[i].kind \in Dated)]]

KeepAsked == asked' = (asked /\ ~(refresher = "asking" /\ SinceMoves(gate, gate')))

\* emit: queue a frame and check the pressure.  The caller has already brought
\* gate and reconnect to g and r.
Emit(kind, recent, conn, g, r) ==
  /\ Len(queue) < Capacity /\ Len(Pending) < MaxPending
  /\ \E lag \in PendingLag : gate' = Pressure(g, lag, Len(Pending) + 1)
  /\ reconnect' = (r \/ gate'.drain)
  /\ queue' = Overtaken(Append(queue, [kind |-> kind, conn |-> conn, recent |-> recent]))
  /\ batch' = Overtaken(batch)

\* emit finds the queue full: the capture stops, as a crash of its tasks.
Overflow ==
  /\ Receiving
  /\ Len(queue) = Capacity
  /\ life' = "over"
  /\ UNCHANGED <<gate, engine, pipe, worker, socket, receiver, events, refresh, settled>>

\* When all has settled, a frame is applied before the next one comes.
KeepsUp == settled => queue = <<>> /\ worker.pc = "idle"

Heartbeat ==
  /\ life = "running" /\ KeepsUp
  /\ Emit("other", TRUE, connection, gate, reconnect) /\ KeepAsked
  /\ UNCHANGED <<engine, worker, socket, receiver, drained, metadataReady, refresher,
                 life, settled>>

\* The subscription's snapshot comes once; ticks keep coming.
ReceiveFrame(kind) ==
  /\ Receiving /\ receiver = "open" /\ KeepsUp
  /\ kind = "snapshot" => snapshotDue
  /\ snapshotDue' = (snapshotDue /\ kind # "snapshot")
  /\ Emit(kind, TRUE, connection, gate, reconnect) /\ KeepAsked
  /\ UNCHANGED <<engine, worker, connection, connected, receiver, drained,
                 metadataReady, refresher, life, settled>>

-----------------------------------------------------------------------------
(* Metadata.                                                               *)

Ask ==
  /\ life = "running" /\ refresher = "waiting"
  /\ refresher' = "asking" /\ asked' = TRUE
  /\ UNCHANGED <<gate, engine, pipe, worker, socket, receiver, events, life, settled>>

Answered ==
  /\ Receiving /\ refresher = "asking" /\ KeepsUp
  /\ refresher' = "polling" /\ asked' = TRUE
  /\ Emit("metadata", asked, connection, gate, reconnect)
  /\ UNCHANGED <<engine, worker, socket, receiver, drained, metadataReady, life, settled>>

\* Mutant: only a refresh that receive() asked for is told to it.
PolledOnRequest ==
  /\ Receiving /\ refresher = "polling"
  /\ refresher' = "waiting" /\ metadataReady' = (metadataReady \/ receiver = "metadata")
  /\ UNCHANGED <<gate, engine, pipe, worker, socket, receiver, reconnect, drained, asked,
                 life, settled>>

\* The settlement polls that follow are over.
Polled ==
  /\ Receiving /\ refresher = "polling"
  /\ refresher' = "waiting" /\ metadataReady' = TRUE
  /\ UNCHANGED <<gate, engine, pipe, worker, socket, receiver, reconnect, drained, asked,
                 life, settled>>

RefreshFails ==
  /\ Receiving /\ refresher \in {"asking", "polling"} /\ ~settled
  /\ refresher' = "waiting" /\ asked' = TRUE
  /\ Emit("interrupt", TRUE, connection, gate, reconnect)
  /\ UNCHANGED <<engine, worker, socket, receiver, drained, metadataReady, life, settled>>

-----------------------------------------------------------------------------
(* Connections.                                                            *)

\* The head of receive()'s loop, with drained as it stands.
Turn == CASE life # "running" -> "ended"
          [] life = "running" /\ gate.drain -> IF drained THEN "drained" ELSE "draining"
          [] OTHER -> "handshake"

\* A handshake starts with the wakeup of the connection before cleared.
TurnsTo(place) ==
  /\ receiver' = place
  /\ reconnect' = (reconnect /\ place # "handshake")

Start ==
  /\ Receiving /\ receiver = "starting" /\ metadataReady
  /\ TurnsTo(Turn)
  /\ UNCHANGED <<gate, engine, pipe, worker, socket, drained, metadataReady, refresh,
                 life, settled>>

\* The worker runs recovery.reconnect between two batches.
BeginReset ==
  /\ life = "running" /\ receiver = "drained" /\ worker.pc = "idle"
  /\ worker' = [worker EXCEPT !.pc = "resetting"]
  /\ UNCHANGED <<gate, engine, pipe, socket, receiver, events, refresh, life, settled>>

Reset ==
  /\ worker.pc = "resetting"
  /\ worker' = [worker EXCEPT !.pc = "idle"]
  /\ gate' = Reconnected(gate)
  /\ receiver' = IF receiver = "drained" THEN "reset" ELSE receiver
  /\ UNCHANGED <<engine, pipe, socket, events, refresh, life, settled>>

\* refresh_requested only shortens refresh()'s wait, which Ask leaves open.
AskMetadata ==
  /\ Receiving /\ receiver = "reset"
  /\ receiver' = "metadata" /\ metadataReady' = FALSE
  /\ UNCHANGED <<gate, engine, pipe, worker, socket, reconnect, drained, refresh, life,
                 settled>>

\* Without a drain the handshake follows, whatever else has come.
MetadataReady ==
  /\ Receiving /\ receiver = "metadata" /\ metadataReady
  /\ TurnsTo(IF gate.drain THEN Turn ELSE "handshake")
  /\ UNCHANGED <<gate, engine, pipe, worker, socket, drained, metadataReady, refresh,
                 life, settled>>

Unused(c) ==
  /\ c \notin {connection, engine.connection, gate.connection}
  /\ \A i \in 1..Len(Pending) : Pending[i].conn # c

Open ==
  /\ Receiving /\ receiver = "handshake" /\ KeepsUp
  /\ receiver' = "open" /\ connected' = TRUE
  /\ snapshotDue' = ("snapshot" \in Streams)
  /\ \E c \in Connections :
       /\ Unused(c)
       /\ connection' = c
       /\ Emit("connected", TRUE, c, gate, reconnect) /\ KeepAsked
  /\ UNCHANGED <<engine, worker, drained, metadataReady, refresher, life, settled>>

\* A failed handshake or a lost socket: the frame first, then the backoff.
Lose ==
  /\ Receiving /\ receiver \in {"handshake", "open"} /\ ~settled
  /\ receiver' = "backoff"
  /\ Emit("interrupt", TRUE, connection, gate, reconnect) /\ KeepAsked
  /\ UNCHANGED <<engine, worker, socket, drained, metadataReady, refresher, life, settled>>

\* receive()'s finally clause, and the head of the loop after it.
Leave ==
  LET lost == life = "running"
  IN /\ Receiving
     /\ \/ receiver = "open" /\ (reconnect \/ life = "stop")
        \/ receiver = "backoff"
     /\ connected' = FALSE /\ snapshotDue' = FALSE
     /\ drained' = (drained /\ ~lost)
     /\ receiver' = IF lost THEN "draining" ELSE "ended"
     /\ Emit("interrupt", TRUE, connection, RequestIf(lost, gate), reconnect \/ lost)
     /\ KeepAsked
     /\ UNCHANGED <<engine, worker, connection, metadataReady, refresher,
                    life, settled>>

-----------------------------------------------------------------------------
(* The worker.                                                             *)

\* The worker moves the gate to g; `since' may move with it.
WorkerMoves(g) == gate' = g /\ queue' = Overtaken(queue) /\ KeepAsked

\* A reset goes first: the receiver is woken, and the pool serves, in order.
TakeBatch ==
  /\ life # "over" /\ worker.pc = "idle" /\ queue # <<>>
  /\ receiver # "drained"
  /\ worker' = [worker EXCEPT !.pc = "apply", !.valid = TRUE]
  /\ batch' = queue /\ queue' = <<>>
  /\ UNCHANGED <<gate, engine, socket, receiver, events, refresh, life, settled>>

\* One frame: ingest, request if it shows a failure, observe, retire.
Apply ==
  LET f == Head(batch)
      rest == Tail(batch)
  IN /\ worker.pc = "apply" /\ batch # <<>>
     /\ \E outcome \in Possible(engine, f) :
          LET failed == outcome = "invalid" \/ f.kind = "interrupt"
              g == RequestIf(life = "running" /\ failed, gate)
          IN /\ settled => outcome = "ok"
             /\ engine' = Ingest(engine, f, outcome)
             /\ WorkerMoves(Observe(g, f, outcome))
             /\ batch' = Overtaken(rest)
             /\ worker' = [worker EXCEPT !.valid = @ /\ outcome # "invalid",
                                         !.pc = IF rest = <<>> THEN "pressure" ELSE "apply"]
     /\ UNCHANGED <<socket, receiver, events, refresher, life, settled>>

\* The lag was read just before: a receipt in between is one before it.
WorkerPressure ==
  /\ worker.pc = "pressure"
  /\ \E lag \in PendingLag :
       /\ worker' = [worker EXCEPT !.pc = "check", !.late = lag # Low]
       /\ WorkerMoves(Pressure(gate, lag, Len(Pending)))
  /\ UNCHANGED <<engine, batch, socket, receiver, events, refresher, life, settled>>

\* A snapshot that nothing outstanding or owed can restore: ten seconds pass.
Stuck ==
  /\ "snapshot" \in Streams \ (gate.seen \cap engine.usable)
  /\ ~snapshotDue
  /\ \A i \in 1..Len(Pending) : Pending[i].kind # "snapshot"

\* check() up to its lock: the reasons are found on what is read here.
\* `other' is what time and other parts decide (ages, clock, halt, markets),
\* `stalled' a required stream that has not progressed for ten seconds.
CheckStart ==
  LET stopping == life # "running"
      latched == ~stopping /\ gate.connection # None /\ engine.integrity
                   /\ gate.connection = engine.connection
      g == RequestIf(latched, gate)
      depth == Len(queue)
      unready == Unready(gate, engine, worker.late, depth, connected)
      mayStall == /\ ~stopping /\ ~g.drain
                  /\ MayStall(gate, engine, worker.late, depth, connected)
  IN /\ worker.pc = "check"
     /\ \E other, stalled \in BOOLEAN :
          /\ settled => ~other /\ (stalled <=> mayStall /\ Stuck)
          /\ stalled => mayStall /\ (other \/ unready)
          /\ WorkerMoves(RequestIf(stalled, g))
          /\ worker' = [worker EXCEPT
                          !.pc = IF g.drain THEN "finished" ELSE "decide", !.late = FALSE,
                          !.ready = ~(g.drain \/ stopping \/ unready \/ other)]
     /\ UNCHANGED <<engine, batch, socket, receiver, events, refresher, life,
                    settled>>

\* Mutant: what was found before decides.
CheckEndAnyway ==
  LET opens == worker.ready /\ ~(gate.catchingUp /\ gate.lagging)
  IN /\ worker.pc = "decide"
     /\ worker' = [worker EXCEPT !.pc = "finished", !.ready = FALSE]
     /\ gate' = [gate EXCEPT !.paused = ~opens, !.catchingUp = @ /\ ~opens,
                            !.lagging = @ /\ ~opens]
     /\ UNCHANGED <<engine, pipe, socket, receiver, events, refresh, life, settled>>

\* check() under its lock: a drain or a burst since CheckStart keeps it shut.
CheckEnd ==
  LET opens == ~gate.drain /\ worker.ready /\ ~(gate.catchingUp /\ gate.lagging)
  IN /\ worker.pc = "decide"
     /\ worker' = [worker EXCEPT !.pc = "finished", !.ready = FALSE]
     /\ gate' = [gate EXCEPT !.paused = ~opens, !.catchingUp = @ /\ ~opens,
                            !.lagging = @ /\ ~opens]
     /\ UNCHANGED <<engine, pipe, socket, receiver, events, refresh, life, settled>>

\* Mutant: the queue is drained when the batch is applied.
EmptiesAfterBatch(g) == g.drain /\ ~connected
Empties(g) == g.drain /\ ~connected /\ queue = <<>>

\* consume() resumes; a receiver waiting for drained is woken by its set().
BatchDone ==
  LET g == RequestIf(~worker.valid, gate)
  IN /\ life # "over" /\ worker.pc = "finished"
     /\ worker' = [worker EXCEPT !.pc = "idle", !.valid = TRUE]
     /\ WorkerMoves(g)
     /\ reconnect' = (reconnect \/ ~worker.valid)
     /\ drained' = ((drained /\ worker.valid) \/ Empties(g))
     /\ receiver' = IF receiver = "draining" /\ Empties(g) THEN "drained" ELSE receiver
     /\ UNCHANGED <<engine, batch, socket, metadataReady, refresher, life, settled>>

-----------------------------------------------------------------------------
(* Shutdown, and the environment.                                          *)

SetStop ==
  /\ life = "running"
  /\ life' = "stop"
  /\ UNCHANGED <<gate, engine, pipe, worker, socket, receiver, events, refresh, settled>>

\* Mutant: the stop cancels and does not drain.
ShutDownOpen ==
  /\ life = "stop"
  /\ life' = "stopping"
  /\ receiver' = "ended" /\ connected' = FALSE
  /\ Emit("interrupt", TRUE, connection, gate, reconnect) /\ KeepAsked
  /\ UNCHANGED <<engine, worker, connection, snapshotDue, drained, metadataReady,
                 refresher, settled>>

\* collect() resumes: it requests a recovery, cancels the producers (the
\* receiver's finally clause included) and reports the disconnection, here once.
ShutDown ==
  /\ life = "stop"
  /\ life' = "stopping"
  /\ receiver' = "ended" /\ connected' = FALSE
  /\ Emit("interrupt", TRUE, connection, Request(gate), reconnect) /\ KeepAsked
  /\ UNCHANGED <<engine, worker, connection, snapshotDue, drained, metadataReady,
                 refresher, settled>>

Finish ==
  /\ life = "stopping" /\ worker.pc = "idle" /\ queue = <<>>
  /\ life' = "over"
  /\ UNCHANGED <<gate, engine, pipe, worker, socket, receiver, events, refresh, settled>>

Settle ==
  /\ ~settled /\ settled' = TRUE
  /\ UNCHANGED <<gate, engine, pipe, worker, socket, receiver, events, refresh, life>>

Receipt ==
  \/ Heartbeat \/ \E k \in Streams : ReceiveFrame(k)
  \/ Ask \/ Answered \/ Polled \/ RefreshFails
  \/ Start \/ AskMetadata \/ MetadataReady \/ Open \/ Lose \/ Leave

Work ==
  \/ TakeBatch \/ Apply \/ WorkerPressure \/ CheckStart \/ CheckEnd
  \/ BatchDone \/ BeginReset \/ Reset

Stopping == SetStop \/ ShutDown \/ Overflow \/ Finish

RunnerNext == Receipt \/ Work \/ Stopping

RunnerSpec == RunnerInit /\ [][RunnerNext]_runnerVars

\* What receive() goes on with by itself; a healthy socket need not fail.
Receiver ==
  \/ Start \/ BeginReset \/ AskMetadata \/ MetadataReady \/ Open \/ Leave
  \/ receiver = "handshake" /\ Lose

(* The worker and the coroutines are scheduled; a wait for room in the      *)
(* queue ends; refresh() asks again within 15 seconds and its requests time *)
(* out; the exchange sends what it owes.  The end of the capture is left    *)
(* out: it ends what the properties ask.                                    *)
RunnerFairness ==
  /\ WF_runnerVars(Work) /\ WF_runnerVars(Heartbeat)
  /\ WF_runnerVars(Ask \/ Polled \/ RefreshFails) /\ SF_runnerVars(Answered)
  /\ SF_runnerVars(Receiver)
  /\ SF_runnerVars(\E k \in Streams : ReceiveFrame(k))

RunnerFairSpec ==
  RunnerInit /\ [][Receipt \/ Work \/ Settle]_runnerVars /\ RunnerFairness

-----------------------------------------------------------------------------
RunnerTypeOK ==
  /\ gate \in Gates /\ engine \in Engines
  /\ queue \in Seq(Frames) /\ Len(queue) <= Capacity
  /\ batch \in Seq(Frames) /\ Len(batch) <= Capacity
  /\ worker \in [pc : {"idle", "apply", "pressure", "check", "decide",
                       "finished", "resetting"},
                 valid : BOOLEAN, late : BOOLEAN, ready : BOOLEAN]
  /\ connection \in Connections
  /\ connected \in BOOLEAN /\ snapshotDue \in BOOLEAN
  /\ reconnect \in BOOLEAN /\ drained \in BOOLEAN /\ metadataReady \in BOOLEAN
  /\ asked \in BOOLEAN /\ settled \in BOOLEAN
  /\ receiver \in {"starting", "draining", "drained", "reset", "metadata", "handshake",
                   "open", "backoff", "ended"}
  /\ refresher \in {"waiting", "asking", "polling"}
  /\ life \in {"running", "stop", "stopping", "over"}

(* A drain or a catching up that either thread has called for keeps the     *)
(* entry gate shut until it is over, whatever a readiness check in progress *)
(* had found.                                                               *)
ClosedInRecovery == gate.drain \/ gate.catchingUp => gate.paused

(* Entries are open only while receipt, gate and engine agree on one        *)
(* connection: its snapshot and metadata have been seen, and no frame of    *)
(* another connection is outstanding.                                       *)
OpenOnOneConnection ==
  EntriesOpen(gate, engine) =>
    /\ gate.connection = engine.connection /\ gate.connection = connection
    /\ {"metadata"} \cup (Streams \cap {"snapshot"}) \subseteq gate.seen
    /\ \A i \in 1..Len(Pending) : Pending[i].conn = connection

(* A replacement connection opens when no market frame of the old one is    *)
(* left, neither queued nor in the batch: the two streams never mix.        *)
StreamsNeverMix ==
  [][connection' # connection =>
       \A i \in 1..Len(Pending) : Pending[i].kind \in {"interrupt", "metadata", "other"}
    ]_runnerVars

(* Once the stop has been handled the gate stays shut, although the worker  *)
(* still applies the queue, checks, and may even finish a reset.            *)
ClosedWhenStopped == life \in {"stopping", "over"} => gate.paused

(* When nothing disturbs the feed any more, entries open again: no latched  *)
(* failure, stale event or lost wakeup keeps the collector shut for ever.   *)
Reopens == settled ~> EntriesOpen(gate, engine)
=============================================================================
