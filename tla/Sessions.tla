------------------------------ MODULE Sessions ------------------------------
(***************************************************************************)
(* The life of a connection inside BridgeServer (core/service.cpp): the    *)
(* accept thread with its slot limits and its reaping, a reader and a      *)
(* writer thread per session, the outbound queue between them, the socket  *)
(* handles of core/tcp.cpp, and stop() followed by start().                *)
(*                                                                         *)
(* What the frames say is CommandPath's business; here a session only      *)
(* authenticates or not, queues outbound frames, and ends. Handles are     *)
(* small numbers; the lowest free one is given out first, as POSIX does.   *)
(*                                                                         *)
(* Time is kept as the ticks a thread has waited, saturating at the limit  *)
(* it compares with. closedFor and astray are history variables.        *)
(***************************************************************************)
EXTENDS Integers, FiniteSets, FiniteSetsExt

CONSTANTS
  MaxSessions,       \* sessions accepted in a run (bound)
  MaxStops,          \* calls of stop() in a run (bound)
  MaxConnections,    \* ServiceConfig::maxConnections
  MaxUnauth,         \* ServiceConfig::maxUnauthConnections
  HandshakeTimeout,  \* handshakeTimeoutMs, in ticks
  FlushWait,         \* the second a teardown grants the writer, in ticks
  OutboundCap,       \* capacity of Session::outbound
  Handles            \* socket handle numbers, positive

ASSUME SessionsAssumption ==
  /\ {MaxSessions, MaxStops, MaxConnections, MaxUnauth, HandshakeTimeout, FlushWait, OutboundCap}
       \subseteq Nat
  /\ IsFiniteSet(Handles) /\ Handles \subseteq Nat \ {0}

Ids == 1..MaxSessions

VARIABLES
  server,      \* "running", then stop(): "stopping", "flushing", "joining", "stopped"
  stops,       \* calls of stop() so far
  acceptor,    \* the accept thread: "looping" or "exited"
  nextId,      \* nextConnectionId_
  slots,       \* sessions_
  dying,       \* sessions reapDefunct has taken out and not yet joined
  stopList,    \* the sessions stop() has swapped out and not yet joined
  stopWait,    \* ticks stop() has waited for the writers
  reader,      \* "none", "loop", "flush" (outbound closed), "done" (defunct)
  writer,      \* "none", "idle", "sending", "done" (writerDone)
  authed,      \* Session::authed, as the set of sessions
  age,         \* ticks since accept
  readerWait,  \* ticks the reader has waited for its writer
  queued,      \* frames in outbound
  closed,      \* sessions whose outbound is closed
  closedFor,   \* ticks since outbound was closed
  handle,      \* TcpStream::fd_, 0 once closed
  sendingOn,   \* the handle writeAll loaded before it began to send
  astray       \* pairs <<i, j>>: a frame of session i went to the peer of j # i

vars == <<server, stops, acceptor, nextId, slots, dying, stopList, stopWait, reader, writer,
          authed, age, readerWait, queued, closed, closedFor, handle, sendingOn, astray>>

serverVars == <<server, stops, acceptor, stopList, stopWait>>
slotVars   == <<nextId, slots, dying>>
timeVars   == <<age, readerWait, closedFor>>
queueVars  == <<queued, closed>>
writerVars == <<writer, sendingOn, astray>>

Init ==
  /\ server = "running" /\ stops = 0 /\ acceptor = "looping"
  /\ nextId = 1 /\ slots = {} /\ dying = {}
  /\ stopList = {} /\ stopWait = 0
  /\ reader = [i \in Ids |-> "none"]
  /\ writer = [i \in Ids |-> "none"]
  /\ authed = {}
  /\ age = [i \in Ids |-> 0]
  /\ readerWait = [i \in Ids |-> 0]
  /\ queued = [i \in Ids |-> 0]
  /\ closed = {}
  /\ closedFor = [i \in Ids |-> 0]
  /\ handle = [i \in Ids |-> 0]
  /\ sendingOn = [i \in Ids |-> 0]
  /\ astray = {}

-----------------------------------------------------------------------------
(* The accept thread. *)

\* reapDefunct takes every defunct session out of the map in one critical
\* section and then joins its threads; the accept thread does nothing else
\* meanwhile. It runs before each accepted connection is looked at.
Reap ==
  /\ acceptor = "looping" /\ dying = {}
  /\ \E i \in slots : reader[i] = "done"
  /\ dying' = {i \in slots : reader[i] = "done"}
  /\ slots' = slots \ dying'
  /\ UNCHANGED <<serverVars, nextId, reader, authed, timeVars, queueVars, handle, writerVars>>

JoinReaped(i) ==
  /\ i \in dying /\ writer[i] = "done"
  /\ dying' = dying \ {i}
  /\ UNCHANGED <<serverVars, nextId, slots, reader, authed, timeVars, queueVars, handle, writerVars>>

\* Faulty variant: unauthenticated sessions have no limit of their own.
RoomIgnoringAuth == Cardinality(slots) < MaxConnections

\* A connection that finds no room is closed at once (connectionsRefused).
Room == /\ Cardinality(slots) < MaxConnections
        /\ Cardinality(slots \ authed) < MaxUnauth

FreeHandles == Handles \ {handle[i] : i \in Ids}

\* The listener is closed before the accept thread is joined, but a connection
\* accepted before that is still turned into a session.
Accept ==
  /\ acceptor = "looping" /\ dying = {} /\ server \in {"running", "stopping"}
  /\ nextId \in Ids /\ Room
  /\ FreeHandles # {}
  /\ handle' = [handle EXCEPT ![nextId] = Min(FreeHandles)]
  /\ slots' = slots \cup {nextId}
  /\ nextId' = nextId + 1
  /\ reader' = [reader EXCEPT ![nextId] = "loop"]
  /\ writer' = [writer EXCEPT ![nextId] = "idle"]
  /\ UNCHANGED <<serverVars, dying, authed, timeVars, queueVars, sendingOn, astray>>

AcceptorExits ==
  /\ acceptor = "looping" /\ dying = {} /\ server = "stopping"
  /\ acceptor' = "exited"
  /\ UNCHANGED <<server, stops, stopList, stopWait, slotVars, reader, authed, timeVars, queueVars,
                 handle, writerVars>>

-----------------------------------------------------------------------------
(* The reader thread. *)

\* Faulty variant: only the peer ends a handshake.
NeverOverdue(i) == FALSE

HandshakeOverdue(i) == i \notin authed /\ age[i] >= HandshakeTimeout

Authenticate(i) ==
  /\ reader[i] = "loop" /\ i \notin authed
  /\ authed' = authed \cup {i}
  /\ UNCHANGED <<serverVars, slotVars, reader, timeVars, queueVars, handle, writerVars>>

\* Faulty variant: a full queue is not noticed.
QueueFrameUnbounded(i) ==
  /\ reader[i] = "loop" \/ (server = "running" /\ i \in slots)
  /\ i \notin closed
  /\ queued' = [queued EXCEPT ![i] = @ + 1]
  /\ UNCHANGED <<serverVars, slotVars, reader, authed, timeVars, closed, handle, writerVars>>

\* A reply by the reader, a result or an event by the UI thread: dropped and
\* counted when the queue is full or closed.
QueueFrame(i) ==
  /\ reader[i] = "loop" \/ (server = "running" /\ i \in slots)
  /\ i \notin closed /\ queued[i] < OutboundCap
  /\ queued' = [queued EXCEPT ![i] = @ + 1]
  /\ UNCHANGED <<serverVars, slotVars, reader, authed, timeVars, closed, handle, writerVars>>

\* Faulty variant: the outbound queue is left open.
ReaderEndsQueueOpen(i) ==
  /\ reader[i] = "loop"
  /\ reader' = [reader EXCEPT ![i] = "flush"]
  /\ UNCHANGED <<serverVars, slotVars, authed, timeVars, queueVars, handle, writerVars>>

\* The loop ends on a closed or failed connection, a protocol error, a refused
\* or overdue handshake, or stopping_; outbound.close() follows.
ReaderEnds(i) ==
  /\ reader[i] = "loop"
  /\ reader' = [reader EXCEPT ![i] = "flush"]
  /\ closed' = closed \cup {i}
  /\ UNCHANGED <<serverVars, slotVars, authed, timeVars, queued, handle, writerVars>>

\* Faulty variant: the socket goes as soon as the reader is done with it.
ReaderTeardownAtOnce(i) ==
  /\ reader[i] = "flush"
  /\ handle' = [handle EXCEPT ![i] = 0]
  /\ reader' = [reader EXCEPT ![i] = "done"]
  /\ UNCHANGED <<serverVars, slotVars, authed, timeVars, queueVars, writerVars>>

\* Faulty variant: the reader waits for its writer however long that takes.
ReaderTeardownPatient(i) ==
  /\ reader[i] = "flush"
  /\ writer[i] = "done"
  /\ handle' = [handle EXCEPT ![i] = 0]
  /\ reader' = [reader EXCEPT ![i] = "done"]
  /\ UNCHANGED <<serverVars, slotVars, authed, timeVars, queueVars, writerVars>>

ReaderTeardown(i) ==
  /\ reader[i] = "flush"
  /\ writer[i] = "done" \/ readerWait[i] >= FlushWait
  /\ handle' = [handle EXCEPT ![i] = 0]
  /\ reader' = [reader EXCEPT ![i] = "done"]
  /\ UNCHANGED <<serverVars, slotVars, authed, timeVars, queueVars, writerVars>>

-----------------------------------------------------------------------------
(* The writer thread. *)

\* popWait, then writeAll loads the handle.
WriterTakes(i) ==
  /\ writer[i] = "idle" /\ queued[i] > 0
  /\ queued' = [queued EXCEPT ![i] = @ - 1]
  /\ writer' = [writer EXCEPT ![i] = "sending"]
  /\ sendingOn' = [sendingOn EXCEPT ![i] = handle[i]]
  /\ UNCHANGED <<serverVars, slotVars, reader, authed, timeVars, closed, handle, astray>>

\* send() reaches whichever connection has the handle by now.
WriterSends(i) ==
  /\ writer[i] = "sending"
  /\ \E j \in Ids : /\ handle[j] = sendingOn[i] /\ handle[j] # 0
                    /\ astray' = IF j = i THEN astray ELSE astray \cup {<<i, j>>}
  /\ writer' = [writer EXCEPT ![i] = "idle"]
  /\ sendingOn' = [sendingOn EXCEPT ![i] = 0]
  /\ UNCHANGED <<serverVars, slotVars, reader, authed, timeVars, queueVars, handle>>

\* send() fails: the peer is gone, or the handle was closed (which also ends a
\* send that was blocked on a peer that does not read).
WriterFails(i) ==
  /\ writer[i] = "sending"
  /\ writer' = [writer EXCEPT ![i] = "done"]
  /\ sendingOn' = [sendingOn EXCEPT ![i] = 0]
  /\ UNCHANGED <<serverVars, slotVars, reader, authed, timeVars, queueVars, handle, astray>>

WriterExits(i) ==
  /\ writer[i] = "idle" /\ i \in closed /\ queued[i] = 0
  /\ writer' = [writer EXCEPT ![i] = "done"]
  /\ UNCHANGED <<serverVars, slotVars, reader, authed, timeVars, queueVars, handle, sendingOn,
                 astray>>

-----------------------------------------------------------------------------
(* stop() and start(), on the UI thread. *)

BeginStop ==
  /\ server = "running" /\ stops < MaxStops
  /\ server' = "stopping" /\ stops' = stops + 1
  /\ UNCHANGED <<acceptor, stopList, stopWait, slotVars, reader, authed, timeVars, queueVars,
                 handle, writerVars>>

\* Faulty variant: the map is emptied without waiting for the accept thread.
StopSwapsEarly ==
  /\ server = "stopping"
  /\ server' = "flushing"
  /\ stopList' = slots /\ slots' = {}
  /\ closed' = closed \cup slots
  /\ stopWait' = 0
  /\ UNCHANGED <<stops, acceptor, nextId, dying, reader, authed, timeVars, queued, handle, writerVars>>

StopSwaps ==
  /\ server = "stopping" /\ acceptor = "exited"
  /\ server' = "flushing"
  /\ stopList' = slots /\ slots' = {}
  /\ closed' = closed \cup slots
  /\ stopWait' = 0
  /\ UNCHANGED <<stops, acceptor, nextId, dying, reader, authed, timeVars, queued, handle, writerVars>>

\* Faulty variant: the streams are closed before the writers had their second.
StopDoesNotWait ==
  /\ server = "flushing"
  /\ server' = "joining"
  /\ UNCHANGED <<stops, acceptor, stopList, stopWait, slotVars, reader, authed, timeVars, queueVars,
                 handle, writerVars>>

\* One deadline shared by all sessions.
StopFlushed ==
  /\ server = "flushing"
  /\ stopWait >= FlushWait \/ \A i \in stopList : writer[i] = "done"
  /\ server' = "joining"
  /\ UNCHANGED <<stops, acceptor, stopList, stopWait, slotVars, reader, authed, timeVars, queueVars,
                 handle, writerVars>>

\* The sessions are closed and joined one after another, in the map's order.
Joining(i) == server = "joining" /\ stopList # {} /\ i = Min(stopList)

StopCloses(i) ==
  /\ Joining(i) /\ handle[i] # 0
  /\ handle' = [handle EXCEPT ![i] = 0]
  /\ UNCHANGED <<serverVars, slotVars, reader, authed, timeVars, queueVars, writerVars>>

StopJoins(i) ==
  /\ Joining(i) /\ handle[i] = 0
  /\ reader[i] = "done" /\ writer[i] = "done"
  /\ stopList' = stopList \ {i}
  /\ UNCHANGED <<server, stops, acceptor, stopWait, slotVars, reader, authed, timeVars, queueVars,
                 handle, writerVars>>

StopReturns ==
  /\ server = "joining" /\ stopList = {}
  /\ server' = "stopped"
  /\ UNCHANGED <<stops, acceptor, stopList, stopWait, slotVars, reader, authed, timeVars, queueVars,
                 handle, writerVars>>

Start ==
  /\ server = "stopped"
  /\ server' = "running" /\ acceptor' = "looping"
  /\ UNCHANGED <<stops, stopList, stopWait, slotVars, reader, authed, timeVars, queueVars, handle,
                 writerVars>>

-----------------------------------------------------------------------------
Saturate(n, limit) == IF n < limit THEN n + 1 ELSE n

Tick ==
  /\ age' = [i \in Ids |-> IF reader[i] = "loop" /\ i \notin authed
                             THEN Saturate(age[i], HandshakeTimeout) ELSE 0]
  /\ readerWait' = [i \in Ids |-> IF reader[i] = "flush" THEN Saturate(readerWait[i], FlushWait) ELSE 0]
  /\ closedFor' = [i \in Ids |-> IF i \in closed /\ handle[i] # 0 THEN Saturate(closedFor[i], FlushWait) ELSE 0]
  /\ stopWait' = IF server = "flushing" THEN Saturate(stopWait, FlushWait) ELSE 0
  /\ UNCHANGED <<server, stops, acceptor, stopList, slotVars, reader, authed, queueVars, handle,
                 writerVars>>

Session(i) ==
  \/ Authenticate(i) \/ QueueFrame(i) \/ ReaderEnds(i) \/ ReaderTeardown(i)
  \/ WriterTakes(i) \/ WriterSends(i) \/ WriterFails(i) \/ WriterExits(i)

Server ==
  \/ Reap \/ Accept \/ AcceptorExits
  \/ BeginStop \/ StopSwaps \/ StopFlushed \/ StopReturns \/ Start
  \/ \E i \in Ids : JoinReaped(i) \/ StopCloses(i) \/ StopJoins(i)

Next == Server \/ (\E i \in Ids : Session(i)) \/ Tick

Spec == Init /\ [][Next]_vars

\* The accept thread and stop() keep going; a reader leaves its loop once its
\* handshake is overdue or stopping_ is set, because it polls; writers take what
\* is queued and see a closed handle. A peer owes nothing: it may never read,
\* never authenticate and never disconnect. (start() is up to the user.)
Fairness ==
  /\ WF_vars(Reap) /\ WF_vars(AcceptorExits)
  /\ WF_vars(StopSwaps) /\ WF_vars(StopFlushed) /\ WF_vars(StopReturns)
  /\ WF_vars(Tick)
  /\ \A i \in Ids :
       /\ WF_vars(JoinReaped(i)) /\ WF_vars(StopCloses(i)) /\ WF_vars(StopJoins(i))
       /\ WF_vars((HandshakeOverdue(i) \/ server # "running") /\ ReaderEnds(i))
       /\ WF_vars(ReaderTeardown(i))
       /\ WF_vars(WriterTakes(i)) /\ WF_vars(WriterExits(i))
       /\ WF_vars(handle[i] = 0 /\ WriterFails(i))

FairSpec == Spec /\ Fairness

-----------------------------------------------------------------------------
TypeOK ==
  /\ server \in {"running", "stopping", "flushing", "joining", "stopped"}
  /\ stops \in 0..MaxStops
  /\ acceptor \in {"looping", "exited"}
  /\ nextId \in 1..(MaxSessions + 1)
  /\ {slots, dying, stopList, authed, closed} \subseteq SUBSET Ids
  /\ stopWait \in 0..FlushWait
  /\ reader \in [Ids -> {"none", "loop", "flush", "done"}]
  /\ writer \in [Ids -> {"none", "idle", "sending", "done"}]
  /\ age \in [Ids -> 0..HandshakeTimeout]
  /\ readerWait \in [Ids -> 0..FlushWait]
  /\ closedFor \in [Ids -> 0..FlushWait]
  /\ queued \in [Ids -> 0..OutboundCap]
  /\ handle \in [Ids -> Handles \cup {0}]
  /\ sendingOn \in [Ids -> Handles \cup {0}]
  /\ astray \subseteq Ids \X Ids

\* Peers that have not authenticated never hold more than their share of the
\* slots, nor all sessions together more than the limit, although sessions
\* authenticate, end and are reaped while the accept thread counts.
SlotLimits ==
  /\ Cardinality(slots) <= MaxConnections
  /\ Cardinality(slots \ authed) <= MaxUnauth

\* service.hpp of stop(): "joins every thread before returning". Sessions the
\* accept thread was still creating or reaping are included.
StoppedMeansJoined ==
  server = "stopped" =>
    /\ slots \cup dying = {}
    /\ \A i \in Ids : /\ reader[i] \in {"none", "done"} /\ writer[i] \in {"none", "done"}
                      /\ handle[i] = 0

\* The session table is well formed and within its limits, and empty once stopped.
Consistent == TypeOK /\ SlotLimits /\ StoppedMeansJoined

\* Whoever closes a socket, reader or stop(), its writer has finished or has had
\* FlushWait since the queue was closed to send what was in it.
WritersGetTheirSecond ==
  [][\A i \in Ids : (handle[i] # 0 /\ handle'[i] = 0)
       => writer[i] = "done" \/ closedFor[i] >= FlushWait]_vars

\* Slots come back: a session that has ended gives its slot up even when its peer
\* never reads and its writer is blocked in send(), and a peer that does not
\* authenticate in time loses it.
SlotsComeBack ==
  \A i \in Ids :
    /\ (i \in slots /\ reader[i] \in {"flush", "done"}) ~> i \notin slots
    /\ i \in slots ~> (i \in authed \/ i \notin slots)

\* stop() returns.
StopCompletes == server = "stopping" ~> server = "stopped"

\* tcp.hpp of close(): "Thread-safe". A write under way on a stream that is
\* closed reaches that stream's peer or fails.
FramesReachOwnPeer == astray = {}
=============================================================================
