---------------------------- MODULE SessionsProofs ----------------------------
(***************************************************************************)
(* Proofs about Sessions for every number of sessions, handles and calls   *)
(* of stop(), every slot limit and every wait.                             *)
(*                                                                         *)
(* stop() joins everything because no session is ever out of sight: one    *)
(* that still has a thread or a socket is in the map, among those being    *)
(* reaped, or on the list of stop(), and the server's progress empties one *)
(* after the other. A socket is closed with regard for its writer because  *)
(* the waits of reader and stop() both begin after the queue was closed.   *)
(***************************************************************************)
EXTENDS Sessions, FiniteSetTheorems, WellFoundedInduction, TLAPS

\* Sessions not accepted yet have no reader.
Unaccepted == \A i \in Ids : i >= nextId => reader[i] = "none" /\ readerWait[i] = 0

\* Nothing of session i is left.
Over(i) == reader[i] \in {"none", "done"} /\ writer[i] \in {"none", "done"} /\ handle[i] = 0

InSight == \A i \in Ids : i \in slots \cup dying \cup stopList \/ Over(i)

\* What the accept thread and stop() have emptied by each point of stop().
Emptied ==
  /\ server \in {"flushing", "joining", "stopped"} => acceptor = "exited" /\ slots = {}
  /\ acceptor = "exited" => dying = {}
  /\ server \notin {"flushing", "joining"} => stopList = {}

\* What a reader has done to its session.
ReadersLeave ==
  /\ \A i \in Ids : reader[i] = "flush" => i \in closed
  /\ \A i \in Ids : reader[i] = "done" => handle[i] = 0
  /\ \A i \in dying : reader[i] = "done"

\* No wait for a writer is ahead of the time its queue has been closed.
WaitsSinceClosed ==
  /\ stopList \subseteq closed
  /\ \A i \in Ids : handle[i] # 0 => readerWait[i] <= closedFor[i]
  /\ \A i \in stopList : handle[i] # 0 =>
       /\ server = "flushing" => stopWait <= closedFor[i]
       /\ server = "joining" => writer[i] = "done" \/ closedFor[i] >= FlushWait

IInv == TypeOK /\ SlotLimits /\ Unaccepted /\ InSight /\ Emptied /\ ReadersLeave /\ WaitsSinceClosed

-----------------------------------------------------------------------------
LEMMA Numbers ==
  /\ MaxSessions \in Nat /\ MaxStops \in Nat /\ MaxConnections \in Nat /\ MaxUnauth \in Nat
  /\ HandshakeTimeout \in Nat /\ FlushWait \in Nat /\ OutboundCap \in Nat
  BY SessionsAssumption

\* The sets of sessions, one by one.
LEMMA SetsTyped ==
  ASSUME NEW S, NEW A, NEW B, NEW C, NEW D, NEW E
  PROVE  {A, B, C, D, E} \subseteq SUBSET S
           <=> A \subseteq S /\ B \subseteq S /\ C \subseteq S /\ D \subseteq S /\ E \subseteq S
  OBVIOUS

Below == {p \in Nat \X Nat : p[1] < p[2]}

\* A set of numbers has a lowest member.
LEMMA LowestIn ==
  ASSUME NEW S, S \subseteq Nat, S # {}
  PROVE  Min(S) \in S
<1>1. OpToRel(<, Nat) = Below
  BY DEF OpToRel, Below
<1>2. IsWellFoundedOn(Below, Nat)
  BY <1>1, NatLessThanWellFounded
<1>3. PICK x \in S : \A y \in S : ~ (<<y, x>> \in Below)
  BY <1>2, WFMin
<1>4. \A y \in S : x =< y
  <2>1. ASSUME NEW y \in S, ~ (x =< y) PROVE FALSE
    <3>1. x \in Nat /\ y \in Nat /\ y < x
      BY <2>1
    <3>2. <<y, x>> \in Below
      BY <3>1 DEF Below
    <3> QED
      BY <3>2, <1>3
  <2> QED
    BY <2>1
<1> QED
  BY <1>4 DEF Min

LEMMA LowestHandle ==
  ASSUME FreeHandles # {}
  PROVE  Min(FreeHandles) \in FreeHandles
  BY LowestIn, SessionsAssumption DEF FreeHandles

LEMMA LowestListed ==
  ASSUME TypeOK, stopList # {}
  PROVE  Min(stopList) \in stopList
<1>1. stopList \subseteq Nat
  BY DEF TypeOK, Ids
<1> QED
  BY <1>1, LowestIn


\* Every value stays in its set.
LEMMA TypeStep ==
  ASSUME TypeOK, [Next]_vars
  PROVE  TypeOK'
<1> USE DEF serverVars, slotVars, timeVars, queueVars, writerVars
<1>0. {slots, dying, stopList, authed, closed} \subseteq SUBSET Ids /\ slots \subseteq Ids /\ dying \subseteq Ids
        /\ stopList \subseteq Ids /\ authed \subseteq Ids /\ closed \subseteq Ids
  BY DEF TypeOK
<1>1. CASE Reap
  <2>1. {slots, dying, stopList, authed, closed}' \subseteq SUBSET Ids
    BY <1>0, <1>1 DEF Reap
  <2> QED
    BY <1>1 DEF Reap, TypeOK
<1>2. CASE Accept
  <2>1. {slots, dying, stopList, authed, closed}' \subseteq SUBSET Ids
    BY <1>0, <1>2 DEF Accept
  <2>2. nextId' \in 1..(MaxSessions + 1)
    BY <1>2, Numbers DEF Accept, Ids
  <2>3. Min(FreeHandles) \in Handles
    BY <1>2, LowestHandle DEF Accept, FreeHandles
  <2>4. handle' \in [Ids -> Handles \cup {0}]
    BY <1>2, <2>3 DEF Accept, TypeOK
  <2> QED
    BY <1>2, <2>2, <2>4 DEF Accept, TypeOK
<1>3. CASE AcceptorExits
  BY <1>3 DEF AcceptorExits, TypeOK
<1>4. CASE BeginStop
  <2>1. stops' \in 0..MaxStops
    BY <1>4, Numbers DEF BeginStop, TypeOK
  <2> QED
    BY <1>4, <2>1 DEF BeginStop, TypeOK
<1>5. CASE StopSwaps
  <2>1. {slots, dying, stopList, authed, closed}' \subseteq SUBSET Ids
    BY <1>0, <1>5 DEF StopSwaps
  <2>2. stopWait' \in 0..FlushWait
    BY <1>5, Numbers DEF StopSwaps
  <2> QED
    BY <1>5, <2>2 DEF StopSwaps, TypeOK
<1>6. CASE StopFlushed
  BY <1>6 DEF StopFlushed, TypeOK
<1>7. CASE StopReturns
  BY <1>7 DEF StopReturns, TypeOK
<1>8. CASE Start
  BY <1>8 DEF Start, TypeOK
<1>9. CASE Tick
  <2>1. ASSUME NEW limit \in Nat, NEW n \in 0..limit PROVE Saturate(n, limit) \in 0..limit /\ 0 \in 0..limit
    BY DEF Saturate
  <2>2. age' \in [Ids -> 0..HandshakeTimeout]
    BY <1>9, <2>1, Numbers DEF Tick, TypeOK
  <2>3. readerWait' \in [Ids -> 0..FlushWait]
    BY <1>9, <2>1, Numbers DEF Tick, TypeOK
  <2>4. closedFor' \in [Ids -> 0..FlushWait]
    BY <1>9, <2>1, Numbers DEF Tick, TypeOK
  <2>5. stopWait' \in 0..FlushWait
    BY <1>9, <2>1, Numbers DEF Tick, TypeOK
  <2> QED
    BY <1>9, <2>2, <2>3, <2>4, <2>5 DEF Tick, TypeOK
<1>10. ASSUME NEW i \in Ids, JoinReaped(i) PROVE TypeOK'
  <2>1. {slots, dying, stopList, authed, closed}' \subseteq SUBSET Ids
    BY <1>0, <1>10 DEF JoinReaped
  <2> QED
    BY <1>10 DEF JoinReaped, TypeOK
<1>11. ASSUME NEW i \in Ids, StopCloses(i) PROVE TypeOK'
  BY <1>11 DEF StopCloses, TypeOK
<1>12. ASSUME NEW i \in Ids, StopJoins(i) PROVE TypeOK'
  <2>1. {slots, dying, stopList, authed, closed}' \subseteq SUBSET Ids
    BY <1>0, <1>12 DEF StopJoins
  <2> QED
    BY <1>12 DEF StopJoins, TypeOK
<1>13. ASSUME NEW i \in Ids, Authenticate(i) PROVE TypeOK'
  <2>1. {slots, dying, stopList, authed, closed}' \subseteq SUBSET Ids
    BY <1>0, <1>13 DEF Authenticate
  <2> QED
    BY <1>13 DEF Authenticate, TypeOK
<1>14. ASSUME NEW i \in Ids, QueueFrame(i) PROVE TypeOK'
  <2>1. queued[i] + 1 \in 0..OutboundCap
    BY <1>14, Numbers DEF QueueFrame, TypeOK
  <2>2. queued' \in [Ids -> 0..OutboundCap]
    BY <1>14, <2>1 DEF QueueFrame, TypeOK
  <2> QED
    BY <1>14, <2>2 DEF QueueFrame, TypeOK
<1>15. ASSUME NEW i \in Ids, ReaderEnds(i) PROVE TypeOK'
  <2>1. {slots, dying, stopList, authed, closed}' \subseteq SUBSET Ids
    BY <1>0, <1>15 DEF ReaderEnds
  <2> QED
    BY <1>15 DEF ReaderEnds, TypeOK
<1>16. ASSUME NEW i \in Ids, ReaderTeardown(i) PROVE TypeOK'
  BY <1>16 DEF ReaderTeardown, TypeOK
<1>17. ASSUME NEW i \in Ids, WriterTakes(i) PROVE TypeOK'
  <2>1. queued[i] - 1 \in 0..OutboundCap /\ handle[i] \in Handles \cup {0}
    BY <1>17, Numbers DEF WriterTakes, TypeOK
  <2>2. queued' \in [Ids -> 0..OutboundCap] /\ sendingOn' \in [Ids -> Handles \cup {0}]
    BY <1>17, <2>1 DEF WriterTakes, TypeOK
  <2> QED
    BY <1>17, <2>2 DEF WriterTakes, TypeOK
<1>18. ASSUME NEW i \in Ids, WriterSends(i) PROVE TypeOK'
  <2>1. PICK j \in Ids : astray' = IF j = i THEN astray ELSE astray \cup {<<i, j>>}
    BY <1>18 DEF WriterSends
  <2>2. astray' \subseteq Ids \X Ids
    BY <2>1 DEF TypeOK
  <2> QED
    BY <1>18 DEF WriterSends, TypeOK
<1>19. ASSUME NEW i \in Ids, WriterFails(i) PROVE TypeOK'
  BY <1>19 DEF WriterFails, TypeOK
<1>20. ASSUME NEW i \in Ids, WriterExits(i) PROVE TypeOK'
  BY <1>20 DEF WriterExits, TypeOK
<1>21. CASE UNCHANGED vars
  BY <1>21 DEF vars, TypeOK
<1> QED
  BY <1>1, <1>2, <1>3, <1>4, <1>5, <1>6, <1>7, <1>8, <1>9, <1>10, <1>11, <1>12, <1>13, <1>14, <1>15,
     <1>16, <1>17, <1>18, <1>19, <1>20, <1>21 DEF Next, Server, Session

\* A session that is not accepted stays as it is.
LEMMA UnacceptedStep ==
  ASSUME TypeOK, Unaccepted, [Next]_vars
  PROVE  Unaccepted'
<1> USE DEF serverVars, slotVars, timeVars, queueVars, writerVars
<1>0. slots \subseteq Ids /\ dying \subseteq Ids /\ stopList \subseteq Ids /\ closed \subseteq Ids
  BY DEF TypeOK
<1>1. CASE Reap
  BY <1>1 DEF Reap, Unaccepted
<1>2. CASE Accept
  BY <1>2 DEF Accept, Unaccepted, Ids
<1>3. CASE AcceptorExits
  BY <1>3 DEF AcceptorExits, Unaccepted
<1>4. CASE BeginStop
  BY <1>4 DEF BeginStop, Unaccepted
<1>5. CASE StopSwaps
  BY <1>5 DEF StopSwaps, Unaccepted
<1>6. CASE StopFlushed
  BY <1>6 DEF StopFlushed, Unaccepted
<1>7. CASE StopReturns
  BY <1>7 DEF StopReturns, Unaccepted
<1>8. CASE Start
  BY <1>8 DEF Start, Unaccepted
<1>9. CASE Tick
  BY <1>9 DEF Tick, Unaccepted
<1>10. ASSUME NEW i \in Ids, JoinReaped(i) PROVE Unaccepted'
  BY <1>10 DEF JoinReaped, Unaccepted
<1>11. ASSUME NEW i \in Ids, StopCloses(i) PROVE Unaccepted'
  BY <1>11 DEF StopCloses, Unaccepted
<1>12. ASSUME NEW i \in Ids, StopJoins(i) PROVE Unaccepted'
  BY <1>12 DEF StopJoins, Unaccepted
<1>13. ASSUME NEW i \in Ids, Authenticate(i) PROVE Unaccepted'
  BY <1>13 DEF Authenticate, Unaccepted
<1>14. ASSUME NEW i \in Ids, QueueFrame(i) PROVE Unaccepted'
  BY <1>14 DEF QueueFrame, Unaccepted
<1>15. ASSUME NEW i \in Ids, ReaderEnds(i) PROVE Unaccepted'
  BY <1>15 DEF ReaderEnds, Unaccepted
<1>16. ASSUME NEW i \in Ids, ReaderTeardown(i) PROVE Unaccepted'
  BY <1>16 DEF ReaderTeardown, Unaccepted
<1>17. ASSUME NEW i \in Ids, WriterTakes(i) PROVE Unaccepted'
  BY <1>17 DEF WriterTakes, Unaccepted
<1>18. ASSUME NEW i \in Ids, WriterSends(i) PROVE Unaccepted'
  BY <1>18 DEF WriterSends, Unaccepted
<1>19. ASSUME NEW i \in Ids, WriterFails(i) PROVE Unaccepted'
  BY <1>19 DEF WriterFails, Unaccepted
<1>20. ASSUME NEW i \in Ids, WriterExits(i) PROVE Unaccepted'
  BY <1>20 DEF WriterExits, Unaccepted
<1>21. CASE UNCHANGED vars
  BY <1>21 DEF vars, Unaccepted
<1> QED
  BY <1>1, <1>2, <1>3, <1>4, <1>5, <1>6, <1>7, <1>8, <1>9, <1>10, <1>11, <1>12, <1>13, <1>14, <1>15,
     <1>16, <1>17, <1>18, <1>19, <1>20, <1>21 DEF Next, Server, Session

\* A session leaves the tables when nothing is left of it.
LEMMA InSightStep ==
  ASSUME TypeOK, Emptied, ReadersLeave, InSight, [Next]_vars
  PROVE  InSight'
<1> USE DEF serverVars, slotVars, timeVars, queueVars, writerVars
<1>0. slots \subseteq Ids /\ dying \subseteq Ids /\ stopList \subseteq Ids /\ closed \subseteq Ids
  BY DEF TypeOK
<1>1. CASE Reap
  BY <1>1 DEF Reap, InSight, Over
<1>2. CASE Accept
  BY <1>2 DEF Accept, InSight, Over
<1>3. CASE AcceptorExits
  BY <1>3 DEF AcceptorExits, InSight, Over
<1>4. CASE BeginStop
  BY <1>4 DEF BeginStop, InSight, Over
<1>5. CASE StopSwaps
  BY <1>5 DEF StopSwaps, InSight, Emptied, Over
<1>6. CASE StopFlushed
  BY <1>6 DEF StopFlushed, InSight, Over
<1>7. CASE StopReturns
  BY <1>7 DEF StopReturns, InSight, Over
<1>8. CASE Start
  BY <1>8 DEF Start, InSight, Over
<1>9. CASE Tick
  BY <1>9 DEF Tick, InSight, Over
<1>10. ASSUME NEW i \in Ids, JoinReaped(i) PROVE InSight'
  BY <1>10 DEF JoinReaped, InSight, ReadersLeave, Over
<1>11. ASSUME NEW i \in Ids, StopCloses(i) PROVE InSight'
  BY <1>11 DEF StopCloses, InSight, Over
<1>12. ASSUME NEW i \in Ids, StopJoins(i) PROVE InSight'
  BY <1>12 DEF StopJoins, InSight, Over
<1>13. ASSUME NEW i \in Ids, Authenticate(i) PROVE InSight'
  BY <1>13 DEF Authenticate, InSight, Over
<1>14. ASSUME NEW i \in Ids, QueueFrame(i) PROVE InSight'
  BY <1>14 DEF QueueFrame, InSight, Over
<1>15. ASSUME NEW i \in Ids, ReaderEnds(i) PROVE InSight'
  BY <1>15 DEF ReaderEnds, InSight, Over
<1>16. ASSUME NEW i \in Ids, ReaderTeardown(i) PROVE InSight'
  BY <1>16 DEF ReaderTeardown, InSight, Over
<1>17. ASSUME NEW i \in Ids, WriterTakes(i) PROVE InSight'
  BY <1>17 DEF WriterTakes, InSight, Over
<1>18. ASSUME NEW i \in Ids, WriterSends(i) PROVE InSight'
  BY <1>18 DEF WriterSends, InSight, Over
<1>19. ASSUME NEW i \in Ids, WriterFails(i) PROVE InSight'
  BY <1>19 DEF WriterFails, InSight, Over
<1>20. ASSUME NEW i \in Ids, WriterExits(i) PROVE InSight'
  BY <1>20 DEF WriterExits, InSight, Over
<1>21. CASE UNCHANGED vars
  BY <1>21 DEF vars, InSight, Over
<1> QED
  BY <1>1, <1>2, <1>3, <1>4, <1>5, <1>6, <1>7, <1>8, <1>9, <1>10, <1>11, <1>12, <1>13, <1>14, <1>15,
     <1>16, <1>17, <1>18, <1>19, <1>20, <1>21 DEF Next, Server, Session

\* stop() empties one table after the other.
LEMMA EmptiedStep ==
  ASSUME TypeOK, Emptied, [Next]_vars
  PROVE  Emptied'
<1> USE DEF serverVars, slotVars, timeVars, queueVars, writerVars
<1>0. slots \subseteq Ids /\ dying \subseteq Ids /\ stopList \subseteq Ids /\ closed \subseteq Ids
  BY DEF TypeOK
<1>1. CASE Reap
  BY <1>1 DEF Reap, Emptied
<1>2. CASE Accept
  BY <1>2 DEF Accept, Emptied
<1>3. CASE AcceptorExits
  BY <1>3 DEF AcceptorExits, Emptied
<1>4. CASE BeginStop
  BY <1>4 DEF BeginStop, Emptied
<1>5. CASE StopSwaps
  BY <1>5 DEF StopSwaps, Emptied
<1>6. CASE StopFlushed
  BY <1>6 DEF StopFlushed, Emptied
<1>7. CASE StopReturns
  BY <1>7 DEF StopReturns, Emptied
<1>8. CASE Start
  BY <1>8 DEF Start, Emptied
<1>9. CASE Tick
  BY <1>9 DEF Tick, Emptied
<1>10. ASSUME NEW i \in Ids, JoinReaped(i) PROVE Emptied'
  BY <1>10 DEF JoinReaped, Emptied
<1>11. ASSUME NEW i \in Ids, StopCloses(i) PROVE Emptied'
  BY <1>11 DEF StopCloses, Emptied
<1>12. ASSUME NEW i \in Ids, StopJoins(i) PROVE Emptied'
  BY <1>12 DEF StopJoins, Emptied
<1>13. ASSUME NEW i \in Ids, Authenticate(i) PROVE Emptied'
  BY <1>13 DEF Authenticate, Emptied
<1>14. ASSUME NEW i \in Ids, QueueFrame(i) PROVE Emptied'
  BY <1>14 DEF QueueFrame, Emptied
<1>15. ASSUME NEW i \in Ids, ReaderEnds(i) PROVE Emptied'
  BY <1>15 DEF ReaderEnds, Emptied
<1>16. ASSUME NEW i \in Ids, ReaderTeardown(i) PROVE Emptied'
  BY <1>16 DEF ReaderTeardown, Emptied
<1>17. ASSUME NEW i \in Ids, WriterTakes(i) PROVE Emptied'
  BY <1>17 DEF WriterTakes, Emptied
<1>18. ASSUME NEW i \in Ids, WriterSends(i) PROVE Emptied'
  BY <1>18 DEF WriterSends, Emptied
<1>19. ASSUME NEW i \in Ids, WriterFails(i) PROVE Emptied'
  BY <1>19 DEF WriterFails, Emptied
<1>20. ASSUME NEW i \in Ids, WriterExits(i) PROVE Emptied'
  BY <1>20 DEF WriterExits, Emptied
<1>21. CASE UNCHANGED vars
  BY <1>21 DEF vars, Emptied
<1> QED
  BY <1>1, <1>2, <1>3, <1>4, <1>5, <1>6, <1>7, <1>8, <1>9, <1>10, <1>11, <1>12, <1>13, <1>14, <1>15,
     <1>16, <1>17, <1>18, <1>19, <1>20, <1>21 DEF Next, Server, Session

\* A reader closes the queue before it waits, and the socket before it is done.
LEMMA ReadersLeaveStep ==
  ASSUME TypeOK, ReadersLeave, [Next]_vars
  PROVE  ReadersLeave'
<1> USE DEF serverVars, slotVars, timeVars, queueVars, writerVars
<1>0. slots \subseteq Ids /\ dying \subseteq Ids /\ stopList \subseteq Ids /\ closed \subseteq Ids
  BY DEF TypeOK
<1>1. CASE Reap
  BY <1>1 DEF Reap, ReadersLeave
<1>2. CASE Accept
  BY <1>2 DEF Accept, TypeOK, ReadersLeave
<1>3. CASE AcceptorExits
  BY <1>3 DEF AcceptorExits, ReadersLeave
<1>4. CASE BeginStop
  BY <1>4 DEF BeginStop, ReadersLeave
<1>5. CASE StopSwaps
  BY <1>5 DEF StopSwaps, ReadersLeave
<1>6. CASE StopFlushed
  BY <1>6 DEF StopFlushed, ReadersLeave
<1>7. CASE StopReturns
  BY <1>7 DEF StopReturns, ReadersLeave
<1>8. CASE Start
  BY <1>8 DEF Start, ReadersLeave
<1>9. CASE Tick
  BY <1>9 DEF Tick, ReadersLeave
<1>10. ASSUME NEW i \in Ids, JoinReaped(i) PROVE ReadersLeave'
  BY <1>10 DEF JoinReaped, ReadersLeave
<1>11. ASSUME NEW i \in Ids, StopCloses(i) PROVE ReadersLeave'
  BY <1>11 DEF StopCloses, ReadersLeave
<1>12. ASSUME NEW i \in Ids, StopJoins(i) PROVE ReadersLeave'
  BY <1>12 DEF StopJoins, ReadersLeave
<1>13. ASSUME NEW i \in Ids, Authenticate(i) PROVE ReadersLeave'
  BY <1>13 DEF Authenticate, ReadersLeave
<1>14. ASSUME NEW i \in Ids, QueueFrame(i) PROVE ReadersLeave'
  BY <1>14 DEF QueueFrame, ReadersLeave
<1>15. ASSUME NEW i \in Ids, ReaderEnds(i) PROVE ReadersLeave'
  BY <1>15 DEF ReaderEnds, ReadersLeave
<1>16. ASSUME NEW i \in Ids, ReaderTeardown(i) PROVE ReadersLeave'
  BY <1>16 DEF ReaderTeardown, TypeOK, ReadersLeave
<1>17. ASSUME NEW i \in Ids, WriterTakes(i) PROVE ReadersLeave'
  BY <1>17 DEF WriterTakes, ReadersLeave
<1>18. ASSUME NEW i \in Ids, WriterSends(i) PROVE ReadersLeave'
  BY <1>18 DEF WriterSends, ReadersLeave
<1>19. ASSUME NEW i \in Ids, WriterFails(i) PROVE ReadersLeave'
  BY <1>19 DEF WriterFails, ReadersLeave
<1>20. ASSUME NEW i \in Ids, WriterExits(i) PROVE ReadersLeave'
  BY <1>20 DEF WriterExits, ReadersLeave
<1>21. CASE UNCHANGED vars
  BY <1>21 DEF vars, ReadersLeave
<1> QED
  BY <1>1, <1>2, <1>3, <1>4, <1>5, <1>6, <1>7, <1>8, <1>9, <1>10, <1>11, <1>12, <1>13, <1>14, <1>15,
     <1>16, <1>17, <1>18, <1>19, <1>20, <1>21 DEF Next, Server, Session

\* Waits begin after the queue was closed, and pass no faster.
LEMMA WaitsStep ==
  ASSUME TypeOK, Unaccepted, Emptied, ReadersLeave, WaitsSinceClosed, [Next]_vars
  PROVE  WaitsSinceClosed'
<1> USE DEF serverVars, slotVars, timeVars, queueVars, writerVars
<1>0. slots \subseteq Ids /\ dying \subseteq Ids /\ stopList \subseteq Ids /\ closed \subseteq Ids
  BY DEF TypeOK
<1>1. CASE Reap
  BY <1>1 DEF Reap, WaitsSinceClosed
<1>2. CASE Accept
  BY <1>2 DEF Accept, TypeOK, Unaccepted, WaitsSinceClosed
<1>3. CASE AcceptorExits
  BY <1>3 DEF AcceptorExits, WaitsSinceClosed
<1>4. CASE BeginStop
  BY <1>4 DEF BeginStop, WaitsSinceClosed
<1>5. CASE StopSwaps
  BY <1>5 DEF StopSwaps, TypeOK, WaitsSinceClosed
<1>6. CASE StopFlushed
  <2>1. ASSUME NEW i \in stopList, handle[i] # 0 PROVE writer[i] = "done" \/ closedFor[i] >= FlushWait
    <3>1. stopWait <= closedFor[i] /\ stopWait \in Nat /\ closedFor[i] \in Nat
      BY <1>6, <2>1 DEF StopFlushed, WaitsSinceClosed, TypeOK
    <3> QED
      BY <1>6, <3>1, Numbers DEF StopFlushed
  <2> QED
    BY <1>6, <2>1 DEF StopFlushed, WaitsSinceClosed
<1>7. CASE StopReturns
  BY <1>7 DEF StopReturns, WaitsSinceClosed
<1>8. CASE Start
  BY <1>8 DEF Start, WaitsSinceClosed
<1>9. CASE Tick
  <2>1. ASSUME NEW limit \in Nat, NEW m \in 0..limit, NEW n \in 0..limit, m <= n
        PROVE  Saturate(m, limit) <= Saturate(n, limit)
    BY <2>1 DEF Saturate
  <2>2. ASSUME NEW limit \in Nat, NEW n \in 0..limit, n >= limit PROVE Saturate(n, limit) >= limit
    BY <2>2 DEF Saturate
  <2>3. ASSUME NEW i \in Ids
        PROVE  readerWait[i] \in 0..FlushWait /\ closedFor[i] \in 0..FlushWait /\ stopWait \in 0..FlushWait
    BY DEF TypeOK
  <2>4. ASSUME NEW i \in Ids, handle[i] # 0 PROVE readerWait'[i] <= closedFor'[i]
    <3>1. readerWait[i] <= closedFor[i]
      BY <2>4 DEF WaitsSinceClosed
    <3>2. CASE reader[i] = "flush"
      <4>1. readerWait'[i] = Saturate(readerWait[i], FlushWait) /\ closedFor'[i] = Saturate(closedFor[i], FlushWait)
        BY <1>9, <2>4, <3>2 DEF Tick, ReadersLeave
      <4> QED
        BY <2>1, <2>3, <3>1, <4>1, Numbers
    <3>3. CASE reader[i] # "flush"
      <4>1. readerWait'[i] = 0 /\ closedFor'[i] \in 0..FlushWait
        BY <1>9, <2>3, <3>3, Numbers DEF Tick, Saturate
      <4> QED
        BY <4>1
    <3> QED
      BY <3>2, <3>3
  <2>5. ASSUME NEW i \in stopList, handle[i] # 0
        PROVE  /\ server = "flushing" => stopWait' <= closedFor'[i]
               /\ server = "joining" => writer[i] = "done" \/ closedFor'[i] >= FlushWait
    <3>1. i \in Ids /\ i \in closed
      BY <1>0 DEF WaitsSinceClosed
    <3>2. closedFor'[i] = Saturate(closedFor[i], FlushWait)
      BY <1>9, <2>5, <3>1 DEF Tick
    <3>3. CASE server = "flushing"
      <4>1. stopWait <= closedFor[i] /\ stopWait' = Saturate(stopWait, FlushWait)
        BY <1>9, <2>5, <3>3 DEF Tick, WaitsSinceClosed
      <4> QED
        BY <2>1, <2>3, <3>1, <3>2, <3>3, <4>1, Numbers
    <3>4. CASE server = "joining"
      <4>1. writer[i] = "done" \/ closedFor[i] >= FlushWait
        BY <2>5, <3>4 DEF WaitsSinceClosed
      <4> QED
        BY <2>2, <2>3, <3>1, <3>2, <3>4, <4>1, Numbers
    <3> QED
      BY <3>3, <3>4
  <2> QED
    BY <1>9, <2>4, <2>5 DEF Tick, WaitsSinceClosed
<1>10. ASSUME NEW i \in Ids, JoinReaped(i) PROVE WaitsSinceClosed'
  BY <1>10 DEF JoinReaped, WaitsSinceClosed
<1>11. ASSUME NEW i \in Ids, StopCloses(i) PROVE WaitsSinceClosed'
  BY <1>11 DEF StopCloses, WaitsSinceClosed
<1>12. ASSUME NEW i \in Ids, StopJoins(i) PROVE WaitsSinceClosed'
  BY <1>12 DEF StopJoins, WaitsSinceClosed
<1>13. ASSUME NEW i \in Ids, Authenticate(i) PROVE WaitsSinceClosed'
  BY <1>13 DEF Authenticate, WaitsSinceClosed
<1>14. ASSUME NEW i \in Ids, QueueFrame(i) PROVE WaitsSinceClosed'
  BY <1>14 DEF QueueFrame, WaitsSinceClosed
<1>15. ASSUME NEW i \in Ids, ReaderEnds(i) PROVE WaitsSinceClosed'
  BY <1>15 DEF ReaderEnds, WaitsSinceClosed
<1>16. ASSUME NEW i \in Ids, ReaderTeardown(i) PROVE WaitsSinceClosed'
  BY <1>16 DEF ReaderTeardown, WaitsSinceClosed
<1>17. ASSUME NEW i \in Ids, WriterTakes(i) PROVE WaitsSinceClosed'
  BY <1>17 DEF WriterTakes, WaitsSinceClosed
<1>18. ASSUME NEW i \in Ids, WriterSends(i) PROVE WaitsSinceClosed'
  BY <1>18 DEF WriterSends, WaitsSinceClosed
<1>19. ASSUME NEW i \in Ids, WriterFails(i) PROVE WaitsSinceClosed'
  BY <1>19 DEF WriterFails, WaitsSinceClosed
<1>20. ASSUME NEW i \in Ids, WriterExits(i) PROVE WaitsSinceClosed'
  BY <1>20 DEF WriterExits, WaitsSinceClosed
<1>21. CASE UNCHANGED vars
  BY <1>21 DEF vars, WaitsSinceClosed
<1> QED
  BY <1>1, <1>2, <1>3, <1>4, <1>5, <1>6, <1>7, <1>8, <1>9, <1>10, <1>11, <1>12, <1>13, <1>14, <1>15,
     <1>16, <1>17, <1>18, <1>19, <1>20, <1>21 DEF Next, Server, Session

-----------------------------------------------------------------------------
\* The slots are finite, and so is what the limits count.
LEMMA SlotsFinite ==
  ASSUME TypeOK
  PROVE  /\ IsFiniteSet(slots) /\ IsFiniteSet(slots \ authed)
         /\ Cardinality(slots) \in Nat /\ Cardinality(slots \ authed) \in Nat
<1>1. IsFiniteSet(Ids)
  BY Numbers, FS_Interval DEF Ids
<1>2. slots \subseteq Ids /\ slots \ authed \subseteq Ids
  BY DEF TypeOK
<1>3. IsFiniteSet(slots) /\ IsFiniteSet(slots \ authed)
  BY <1>1, <1>2, FS_Subset
<1> QED
  BY <1>3, FS_CardinalityType

\* Whoever loses members stays within a limit.
LEMMA LimitsOfFewer ==
  ASSUME TypeOK, SlotLimits, slots' \subseteq slots, slots' \ authed' \subseteq slots \ authed
  PROVE  SlotLimits'
<1>1. Cardinality(slots') <= Cardinality(slots) /\ Cardinality(slots') \in Nat
  BY SlotsFinite, FS_Subset, FS_CardinalityType
<1>2. /\ Cardinality(slots' \ authed') <= Cardinality(slots \ authed)
      /\ Cardinality(slots' \ authed') \in Nat
  BY SlotsFinite, FS_Subset, FS_CardinalityType
<1> QED
  BY <1>1, <1>2, SlotsFinite, Numbers DEF SlotLimits

\* Only Accept adds to the slots, one session, when there is room for it; nothing
\* takes back an authentication.
LEMMA SlotLimitsStep ==
  ASSUME TypeOK, SlotLimits, [Next]_vars
  PROVE  SlotLimits'
<1> USE DEF serverVars, slotVars, timeVars, queueVars, writerVars
<1>1. CASE Accept
  <2>1. Cardinality(slots \cup {nextId}) <= Cardinality(slots) + 1
    <3>1. Cardinality(slots \cup {nextId}) = IF nextId \in slots THEN Cardinality(slots) ELSE Cardinality(slots) + 1
      BY SlotsFinite, FS_AddElement
    <3> QED
      BY <3>1, SlotsFinite
  <2>2. Cardinality((slots \ authed) \cup {nextId}) <= Cardinality(slots \ authed) + 1
    <3> DEFINE unauth == slots \ authed
    <3>1. Cardinality(unauth \cup {nextId}) = IF nextId \in unauth THEN Cardinality(unauth) ELSE Cardinality(unauth) + 1
      BY SlotsFinite, FS_AddElement
    <3> QED
      BY <3>1, SlotsFinite
  <2>3. /\ Cardinality(slots' \ authed') <= Cardinality((slots \ authed) \cup {nextId})
        /\ Cardinality(slots' \ authed') \in Nat
        /\ Cardinality((slots \ authed) \cup {nextId}) \in Nat
        /\ Cardinality(slots \cup {nextId}) \in Nat
    <3>1. slots' \ authed' \subseteq (slots \ authed) \cup {nextId}
      BY <1>1 DEF Accept
    <3>2. IsFiniteSet((slots \ authed) \cup {nextId})
      BY SlotsFinite, FS_AddElement
    <3>3. IsFiniteSet(slots \cup {nextId})
      BY SlotsFinite, FS_AddElement
    <3> QED
      BY <3>1, <3>3, FS_Subset, FS_CardinalityType
  <2>4. Cardinality(slots) + 1 <= MaxConnections /\ Cardinality(slots \ authed) + 1 <= MaxUnauth
    BY <1>1, SlotsFinite, Numbers DEF Accept, Room
  <2>5. slots' = slots \cup {nextId}
    BY <1>1 DEF Accept
  <2> QED
    BY <2>1, <2>2, <2>3, <2>4, <2>5, SlotsFinite, Numbers DEF SlotLimits
<1>2. ASSUME ~ Accept PROVE slots' \subseteq slots /\ slots' \ authed' \subseteq slots \ authed
  <2>1. CASE Reap \/ StopSwaps
    BY <2>1 DEF Reap, StopSwaps
  <2>2. CASE AcceptorExits \/ BeginStop \/ StopFlushed \/ StopReturns \/ Start \/ Tick
    BY <2>2 DEF AcceptorExits, BeginStop, StopFlushed, StopReturns, Start, Tick
  <2>3. ASSUME NEW i \in Ids, JoinReaped(i) \/ StopCloses(i) \/ StopJoins(i) PROVE slots' \subseteq slots /\ slots' \ authed' \subseteq slots \ authed
    BY <2>3 DEF JoinReaped, StopCloses, StopJoins
  <2>4. ASSUME NEW i \in Ids, Session(i) PROVE slots' \subseteq slots /\ slots' \ authed' \subseteq slots \ authed
    BY <2>4 DEF Session, Authenticate, QueueFrame, ReaderEnds, ReaderTeardown, WriterTakes,
       WriterSends, WriterFails, WriterExits
  <2>5. CASE UNCHANGED vars
    BY <2>5 DEF vars
  <2> QED
    BY <1>2, <2>1, <2>2, <2>3, <2>4, <2>5 DEF Next, Server
<1> QED
  BY <1>1, <1>2, LimitsOfFewer

-----------------------------------------------------------------------------
LEMMA Initially == Init => IInv
<1> SUFFICES ASSUME Init PROVE IInv
  OBVIOUS
<1>1. TypeOK
  <2>1. {slots, dying, stopList, authed, closed} \subseteq SUBSET Ids
    BY DEF Init
  <2> QED
    BY Numbers DEF Init, TypeOK
<1>2. SlotLimits
  BY Numbers, FS_EmptySet DEF Init, SlotLimits
<1>3. Unaccepted /\ InSight /\ Emptied /\ ReadersLeave
  BY DEF Init, Unaccepted, InSight, Over, Emptied, ReadersLeave
<1>4. WaitsSinceClosed
  BY DEF Init, WaitsSinceClosed
<1> QED
  BY <1>1, <1>2, <1>3, <1>4 DEF IInv

LEMMA Stepwise == IInv /\ [Next]_vars => IInv'
  BY TypeStep, SlotLimitsStep, UnacceptedStep, InSightStep, EmptiedStep, ReadersLeaveStep, WaitsStep
     DEF IInv

\* The tables, the threads and the waits are as stop() and the readers count on.
THEOREM Invariance == Spec => []IInv
  BY Initially, Stepwise, PTL DEF Spec

\* When stop() has returned every thread has been joined and every socket closed,
\* and the slot limits hold all the while.
THEOREM ConsistentCorrect == Spec => []Consistent
<1>1. IInv => Consistent
  <2> SUFFICES ASSUME IInv PROVE Consistent
    OBVIOUS
  <2>1. StoppedMeansJoined
    <3> SUFFICES ASSUME server = "stopped"
                 PROVE  slots \cup dying \cup stopList = {}
      BY DEF StoppedMeansJoined, IInv, InSight, Over
    <3> QED
      BY DEF IInv, Emptied
  <2> QED
    BY <2>1 DEF IInv, Consistent
<1> QED
  BY <1>1, Invariance, PTL

\* A socket with a writer at work is closed after FlushWait at the earliest.
THEOREM WritersGetTheirSecondCorrect == Spec => WritersGetTheirSecond
<1>1. ASSUME IInv, Next, NEW i \in Ids, handle[i] # 0, handle'[i] = 0
      PROVE  writer[i] = "done" \/ closedFor[i] >= FlushWait
  <2> USE DEF serverVars, slotVars, timeVars, queueVars, writerVars
  <2>1. handle \in [Ids -> Handles \cup {0}]
    BY <1>1 DEF IInv, TypeOK
  <2>2. CASE Accept
    BY <1>1, <2>2, LowestHandle, SessionsAssumption DEF Accept, FreeHandles
  <2>3. ASSUME NEW j \in Ids, ReaderTeardown(j) PROVE writer[i] = "done" \/ closedFor[i] >= FlushWait
    <3>1. j = i
      BY <1>1, <2>3 DEF ReaderTeardown
    <3>2. readerWait[i] <= closedFor[i] /\ readerWait[i] \in Nat /\ closedFor[i] \in Nat
      BY <1>1 DEF IInv, WaitsSinceClosed, TypeOK
    <3> QED
      BY <2>3, <3>1, <3>2, Numbers DEF ReaderTeardown
  <2>4. ASSUME NEW j \in Ids, StopCloses(j) PROVE writer[i] = "done" \/ closedFor[i] >= FlushWait
    <3>1. j = i
      BY <1>1, <2>4 DEF StopCloses
    <3>2. server = "joining" /\ i \in stopList
      BY <1>1, <2>4, LowestListed DEF StopCloses, Joining, IInv
    <3> QED
      BY <1>1, <3>2 DEF IInv, WaitsSinceClosed
  <2>5. ASSUME handle' = handle PROVE FALSE
    BY <1>1, <2>5
  <2>6. CASE Reap \/ AcceptorExits \/ BeginStop \/ StopSwaps \/ StopFlushed \/ StopReturns \/ Start \/ Tick
    BY <2>5, <2>6 DEF Reap, AcceptorExits, BeginStop, StopSwaps, StopFlushed, StopReturns, Start, Tick
  <2>7. ASSUME NEW j \in Ids,
               \/ JoinReaped(j) \/ StopJoins(j) \/ Authenticate(j) \/ QueueFrame(j) \/ ReaderEnds(j)
               \/ WriterTakes(j) \/ WriterSends(j) \/ WriterFails(j) \/ WriterExits(j)
        PROVE  FALSE
    BY <2>5, <2>7 DEF JoinReaped, StopJoins, Authenticate, QueueFrame, ReaderEnds, WriterTakes,
       WriterSends, WriterFails, WriterExits
  <2> QED
    BY <1>1, <2>2, <2>3, <2>4, <2>6, <2>7 DEF Next, Server, Session
<1>2. IInv /\ [Next]_vars
      => [\A i \in Ids : (handle[i] # 0 /\ handle'[i] = 0) => writer[i] = "done" \/ closedFor[i] >= FlushWait]_vars
  BY <1>1
<1> QED
  BY <1>2, Invariance, PTL DEF Spec, WritersGetTheirSecond

=============================================================================
