----------------------------- MODULE CollectorGate -----------------------------
(***************************************************************************)
(* The collector's entry gate (CollectorRecovery) and what it reads of the *)
(* engine: each handler as an operator from the gate's and the engine's    *)
(* state to the next.  CollectorRunner runs them on two threads.           *)
(*                                                                         *)
(* One market is followed.  Times are kept as answers: a frame or a        *)
(* metadata request is `recent' while it is not older than the gate's      *)
(* `since'; lag and depth are kept relative to their thresholds.           *)
(***************************************************************************)
EXTENDS Naturals, Sequences

CONSTANTS
  Connections,   \* identities of websocket connections
  Streams,       \* required market data: {"reference", "snapshot"} or one of them
  None,          \* no connection
  Lags,          \* ages of the oldest outstanding frame that are told apart
  Capacity,      \* frames the receipt queue holds
  Overload,      \* outstanding frames that request a recovery (80%)
  Calm           \* outstanding frames above which the gate stays shut (20%)

\* Fresh, over WARNING_LAG, over the limit.
Low == 0
Warning == 1
Limit == 2

ASSUME CollectorAssumption ==
  /\ None \notin Connections
  /\ Low \in Lags /\ Lags \subseteq {Low, Warning, Limit}
  /\ Streams \subseteq {"reference", "snapshot"}
  /\ Capacity \in Nat /\ Overload \in Nat /\ Calm \in Nat
  /\ Calm < Overload /\ Overload <= Capacity

\* "other" is a heartbeat or a lifecycle event, "interrupt" disconnect, stale or error.
Kinds == {"connected", "metadata", "interrupt", "other"} \cup Streams
Dated == {"reference", "metadata"}    \* frames whose age the gate looks at
Frames == [kind : Kinds, conn : Connections, recent : BOOLEAN]

\* What applying a frame may find: it is refused (a sequence gap, unusable data),
\* a tick already seen, a local clock jump or reversal, or an event that takes a
\* market's book out of use.  A refused delta is the same as another refused frame.
Outcomes == {"ok", "invalid", "duplicate", "jump", "reversal", "withdrawn"}

Gates == [paused : BOOLEAN, drain : BOOLEAN, catchingUp : BOOLEAN, lagging : BOOLEAN,
          connection : Connections \cup {None},
          seen : SUBSET (Streams \cup {"metadata"})]    \* reference, snapshots, metadata_at

GateInit ==
  [paused |-> TRUE, drain |-> FALSE, catchingUp |-> FALSE, lagging |-> FALSE,
   connection |-> None, seen |-> {}]

Engines == [connection : Connections \cup {None}, integrity : BOOLEAN,
            usable : SUBSET Streams]      \* healthy for the ticks, the book's valid

EngineInit == [connection |-> None, integrity |-> FALSE, usable |-> {}]

-----------------------------------------------------------------------------
(* The gate.                                                               *)

\* Mutant: the next check closes the gate.
RequestLeavingOpen(g) == [g EXCEPT !.drain = TRUE]

Request(g) == [g EXCEPT !.paused = TRUE, !.drain = TRUE]

RequestIf(condition, g) == IF condition THEN Request(g) ELSE g

Backlog(late, depth) == late \/ depth > Calm

\* Too many frames ask for a new connection; old frames only for patience.
\* The lag and depth kept for check() are read while catching up only.
Pressure(g, lag, depth) ==
  LET late == depth < Overload /\ lag = Limit
  IN [g EXCEPT !.paused = @ \/ late \/ depth >= Overload,
               !.drain = @ \/ depth >= Overload,
               !.catchingUp = @ \/ late,
               !.lagging = Backlog(lag # Low, depth) /\ (g.catchingUp \/ late)]

\* `since' moves to now, and what was received or asked before is not recent.
SinceMoves(g, h) ==
  /\ ~g.drain
  /\ h.drain \/ (h.catchingUp /\ ~g.catchingUp)

Reconnected(g) ==
  [g EXCEPT !.connection = None, !.seen = {},
            !.drain = FALSE, !.catchingUp = FALSE, !.lagging = FALSE]

\* A tick shows the reference stream alive when it is new and recent.
Shows(f, outcome) ==
  /\ f.kind = "metadata" => f.recent
  /\ f.kind = "reference" => f.recent /\ outcome # "duplicate"

Observe(g, f, outcome) ==
  LET opened == IF f.kind = "connected"
                  THEN [g EXCEPT !.connection = f.conn, !.seen = @ \cap {"metadata"}]
                  ELSE g
      counts == /\ outcome # "invalid"
                /\ \/ f.kind = "metadata"
                   \/ f.kind \in Streams /\ f.conn = opened.connection
      forgets == counts /\ f.kind = "reference"
  IN IF g.drain
       THEN g
       ELSE [opened EXCEPT !.seen = (@ \ {k \in {"reference"} : forgets})
                                      \cup {k \in {f.kind} : counts /\ Shows(f, outcome)}]

-----------------------------------------------------------------------------
(* The engine, as far as the gate and the entry conditions read it.        *)

Invalidated(conn) == [connection |-> conn, integrity |-> TRUE, usable |-> {}]

\* What the outcome of a frame takes out of use, and what the frame restores.
Withdraws(outcome) ==
  CASE outcome = "reversal" -> {"reference"}
    [] outcome = "withdrawn" -> {"snapshot"}
    [] OTHER -> {}
Restores(f, outcome) == {k \in Streams : k = f.kind /\ outcome # "duplicate"}

Ingest(e, f, outcome) ==
  LET changed == f.conn # e.connection
      entered == CASE changed /\ f.kind = "connected" ->
                        [Invalidated(f.conn) EXCEPT !.integrity = FALSE]
                   [] (changed /\ f.kind # "connected") \/ outcome = "jump" ->
                        Invalidated(f.conn)
                   [] OTHER -> e
  IN IF f.kind = "interrupt" \/ outcome = "invalid"
       THEN Invalidated(f.conn)
       ELSE [entered EXCEPT
               !.usable = (@ \ Withdraws(outcome)) \cup Restores(f, outcome)]

\* A local clock jump is seen between two frames of one connection.
Possible(e, f) ==
  {outcome \in Outcomes :
     /\ outcome = "invalid" => f.kind \in Streams \cup {"metadata"}
     /\ outcome = "duplicate" => f.kind = "reference"
     /\ outcome = "withdrawn" => f.kind \in {"metadata", "other"}
     /\ outcome = "jump" => f.conn = e.connection /\ f.kind # "connected"}

\* An entry decided or filled now passes the collector's conditions.
EntriesOpen(g, e) == ~g.paused /\ ~e.integrity

\* The reasons that check() finds, apart from what time and other parts decide.
Unready(g, e, late, depth, connected) ==
  \/ ~connected \/ g.connection # e.connection
  \/ "metadata" \notin g.seen
  \/ ~(Streams \subseteq g.seen \cap e.usable)
  \/ Backlog(late, depth)

\* A stall is diagnosed on an established connection without backlog only.
MayStall(g, e, late, depth, connected) ==
  /\ connected
  /\ g.connection # None /\ g.connection = e.connection
  /\ ~Backlog(late, depth)
=============================================================================
