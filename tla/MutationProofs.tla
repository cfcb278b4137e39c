--------------------------- MODULE MutationProofs ---------------------------
(***************************************************************************)
(* Proofs about the two halves of a mutation: that it may run              *)
(* (CommandPath), for every number of connections, requests, grants and    *)
(* resets, every lease time, deadline and queue capacity; and what it does *)
(* to the patch (Transaction), for every number of modules, plans and      *)
(* operations of a plan and every length of the undo history.              *)
(*                                                                         *)
(* CommandPath: the inductive invariant ties the lease to the sessions:    *)
(* the holder is a ready session, its lease is the newest grant and was    *)
(* made after the last reset. A command the pump admits therefore carries  *)
(* the newest lease, which no earlier mutation can exceed, and this        *)
(* survives until the command executes whatever happens to the lease in    *)
(* between.                                                                *)
(*                                                                         *)
(* Transaction: an edit leads from the contents of one patch to those of   *)
(* another, and what it recorded is enough to go back. The invariant says  *)
(* that the recorded edits of the open transaction lead from the patch it  *)
(* found to the live one and its pending edits on from there, and that     *)
(* those of the entries of the undo history lead from one to the next.     *)
(* It is stated for as much of the patch as the edits account for: all of  *)
(* it; all but settings, once a worker thread has set one; only which      *)
(* modules there are, once an edit was lost.                               *)
(***************************************************************************)
EXTENDS CommandPath, Transaction, SequenceTheorems, FiniteSetTheorems, WellFoundedInduction, TLAPS

-----------------------------------------------------------------------------
(* The way of a command *)

ReadySet == {c \in Conns : phase[c] = "ready"}

\* Connections not yet accepted have no session.
FreshConns == \A c \in Conns : c >= nextConn => phase[c] = "none"

\* A ready session authenticated with the secret the server runs with.
ReadyPaired == \A c \in Conns : phase[c] = "ready" => pairedWith[c] = secret

\* No mutation and no revocation is ahead of the grants.
TenureBounds ==
  /\ applied.tenure <= Len(owner)
  /\ revoked <= Len(owner)
  /\ Held(lease) => lease.leaseId > revoked

\* The command being executed, when it mutates, has a lease that was granted to
\* its connection, has not been revoked and is no older than the last mutation's.
RunningAdmissible ==
  Mutating(running) =>
    /\ running.leaseId \in 1..Len(owner)
    /\ owner[running.leaseId] = running.conn
    /\ running.leaseId > revoked
    /\ running.leaseId >= applied.tenure
    /\ pairedWith[running.conn] = secret

\* The UI thread does not execute while it waits for a reset.
ResetExclusive == server = "stopping" => running = NoCmd

IInv ==
  /\ TypeOK
  /\ FreshConns
  /\ ReadyPaired
  /\ LeaseHolderLive
  /\ TenureBounds
  /\ RunningAdmissible
  /\ ResetExclusive

-----------------------------------------------------------------------------
\* The ready sessions are a finite set, whatever MaxConns is.
LEMMA ReadyFinite == IsFiniteSet(ReadySet)
<1>1. IsFiniteSet(Conns)
  BY PathAssumption, FS_Interval DEF Conns
<1>2. ReadySet \subseteq Conns
  BY DEF ReadySet
<1>. QED  BY <1>1, <1>2, FS_Subset

-----------------------------------------------------------------------------
\* How the number of ready sessions changes with one session's phase.
ReadyWeight(p) == IF p = "ready" THEN 1 ELSE 0

LEMMA ReadyCount ==
  ASSUME TypeOK, NEW c \in Conns, NEW p, phase' = [phase EXCEPT ![c] = p]
  PROVE  /\ Cardinality(ReadySet) \in Nat
         /\ Cardinality(ReadySet) >= ReadyWeight(phase[c])
         /\ Cardinality(ReadySet') = Cardinality(ReadySet) + ReadyWeight(p) - ReadyWeight(phase[c])
<1>1. Cardinality(ReadySet) \in Nat
  BY ReadyFinite, FS_CardinalityType
<1>2. CASE phase[c] = "ready"
  <2>1. c \in ReadySet
    BY <1>2 DEF ReadySet
  <2>2. Cardinality(ReadySet) # 0
    BY <2>1, ReadyFinite, FS_EmptySet
  <2>3. CASE p = "ready"
    <3>1. ReadySet' = ReadySet
      BY <1>2, <2>3 DEF ReadySet, TypeOK
    <3>. QED  BY <1>1, <1>2, <2>2, <2>3, <3>1 DEF ReadyWeight
  <2>4. CASE p # "ready"
    <3>1. ReadySet' = ReadySet \ {c}
      BY <1>2, <2>4 DEF ReadySet, TypeOK
    <3>2. Cardinality(ReadySet') = Cardinality(ReadySet) - 1
      BY <2>1, <3>1, ReadyFinite, FS_RemoveElement
    <3>. QED  BY <1>1, <1>2, <2>2, <2>4, <3>2 DEF ReadyWeight
  <2>. QED  BY <2>3, <2>4
<1>3. CASE phase[c] # "ready"
  <2>1. c \notin ReadySet
    BY <1>3 DEF ReadySet
  <2>3. CASE p = "ready"
    <3>1. ReadySet' = ReadySet \cup {c}
      BY <1>3, <2>3 DEF ReadySet, TypeOK
    <3>2. Cardinality(ReadySet') = Cardinality(ReadySet) + 1
      BY <2>1, <3>1, ReadyFinite, FS_AddElement
    <3>. QED  BY <1>1, <1>3, <2>3, <3>2 DEF ReadyWeight
  <2>4. CASE p # "ready"
    <3>1. ReadySet' = ReadySet
      BY <1>3, <2>4 DEF ReadySet, TypeOK
    <3>. QED  BY <1>1, <1>3, <2>4, <3>1 DEF ReadyWeight
  <2>. QED  BY <2>3, <2>4
<1>. QED  BY <1>2, <1>3

-----------------------------------------------------------------------------
LEMMA InitTypeOK == Init => TypeOK
BY PathAssumption
DEF Init, TypeOK, Conns, Reqs, NoHolder, LeaseHolder, NoCmd, Status, Live, Refused, Kinds

LEMMA NextTypeOK == TypeOK /\ AuthedCountExact /\ [Next]_vars => TypeOK'
<1> SUFFICES ASSUME TypeOK, AuthedCountExact, [Next]_vars PROVE TypeOK'
  OBVIOUS
<1> USE PathAssumption DEF TypeOK, sessionVars, uiVars, reqVars
<1>1. CASE AcceptSession
  <2>1. phase' \in [Conns -> {"none", "hello", "auth", "ready", "gone"}]
    BY <1>1 DEF AcceptSession
  <2>. QED  BY <1>1, <2>1, SMTT(90) DEF AcceptSession
<1>2. ASSUME NEW c \in Conns, HandleHello(c) PROVE TypeOK'
  BY <1>2 DEF HandleHello
<1>3. ASSUME NEW c \in Conns, NEW key \in 0..secret, HandleAuth(c, key) PROVE TypeOK'
  BY <1>3 DEF HandleAuth
<1>4. ASSUME NEW c \in Conns, ReaderExit(c) PROVE TypeOK'
  <2>1. phase' = [phase EXCEPT ![c] = "gone"]
    BY <1>4 DEF ReaderExit
  <2>0. Cardinality(ReadySet) >= ReadyWeight(phase[c]) /\ authed = Cardinality(ReadySet)
    BY <2>1, ReadyCount DEF AuthedCountExact, ReadySet
  <2>2. phase[c] = "ready" => authed > 0
    BY <2>0 DEF ReadyWeight
  <2>3. authed' \in Nat /\ phase' \in [Conns -> {"none", "hello", "auth", "ready", "gone"}]
    BY <1>4, <2>2 DEF ReaderExit
  <2>4. lease' \in LeaseHolder(Conns)
    BY <1>4 DEF ReaderExit, Dropped, NoHolder, LeaseHolder
  <2>. QED  BY <1>4, <2>3, <2>4 DEF ReaderExit
<1>5. ASSUME NEW c \in Conns, LeaseAcquire(c) PROVE TypeOK'
  <2>1. owner' = Append(owner, c) \/ owner' = owner
    BY <1>5 DEF LeaseAcquire
  <2>4. Append(owner, c) \in Seq(Conns)
    OBVIOUS
  <2>3. owner' \in Seq(Conns)
    BY <2>1, <2>4
  <2>2. lease' \in LeaseHolder(Conns)
    BY <1>5, SMTT(90) DEF LeaseAcquire, Acquired, Extended, LeaseHolder
  <2>. QED  BY <1>5, <2>3, <2>2 DEF LeaseAcquire
<1>6. ASSUME NEW c \in Conns, NEW id \in 1..Len(owner), LeaseRenew(c, id) PROVE TypeOK'
  <2>1. lease' \in LeaseHolder(Conns)
    BY <1>6 DEF LeaseRenew, Renewed, Extended, LeaseHolder
  <2>. QED  BY <1>6, <2>1 DEF LeaseRenew
<1>7. ASSUME NEW c \in Conns, NEW id \in 1..Len(owner), LeaseRelease(c, id) PROVE TypeOK'
  <2>1. lease' \in LeaseHolder(Conns)
    BY <1>7 DEF LeaseRelease, Released, NoHolder, LeaseHolder
  <2>. QED  BY <1>7, <2>1 DEF LeaseRelease
<1>8. ASSUME NEW c \in Conns, GateRefused(c) PROVE TypeOK'
  <2>1. /\ nextReq' \in Nat \ {0} /\ sender' \in [Reqs -> Conns \cup {0}]
        /\ status' \in [Reqs -> Status]
    BY <1>8, SMTT(90) DEF GateRefused, Arrive, Status, Refused
  <2>. QED  BY <1>8, <2>1 DEF GateRefused
<1>9. ASSUME NEW c \in Conns, NEW k \in Kinds, GateAdmitted(c, k) PROVE TypeOK'
  <2>1. /\ nextReq' \in Nat \ {0} /\ sender' \in [Reqs -> Conns \cup {0}]
        /\ status' \in [Reqs -> Status]
    BY <1>9 DEF GateAdmitted, Arrive, Status, Live
  <2>2. NewCommand(c, k, IF k = "write" THEN lease.leaseId ELSE 0) \in Command
    BY <1>9, SMTT(90) DEF GateAdmitted, Arrive, NewCommand, Command, LeaseHolder
  <2>3. gated' \in [Conns -> Command \cup {NoCmd}]
    BY <1>9, <2>2 DEF GateAdmitted
  <2>. QED  BY <1>9, <2>1, <2>3 DEF GateAdmitted
<1>10. ASSUME NEW c \in Conns, EnqueueCommand(c) PROVE TypeOK'
  <2>1. gated[c] \in Command /\ gated[c].req \in Reqs
    BY <1>10 DEF EnqueueCommand, Command
  <2>2. Append(queue, gated[c]) \in Seq(Command)
    BY <2>1
  <2>4. queue' \in Seq(Command)
    BY <1>10, <2>2 DEF EnqueueCommand
  <2>3. status' \in [Reqs -> Status] /\ gated' \in [Conns -> Command \cup {NoCmd}]
    BY <1>10, <2>1 DEF EnqueueCommand, Status, Live, Refused
  <2>. QED  BY <1>10, <2>4, <2>3 DEF EnqueueCommand
<1>11. CASE PumpTake
  <2>0. queue \in Seq(Command) /\ queue # <<>>
    BY <1>11 DEF PumpTake
  <2>4. Head(queue) \in Command /\ Tail(queue) \in Seq(Command)
    BY <2>0
  <2>1. Head(queue) \in Command /\ Head(queue).req \in Reqs /\ Tail(queue) \in Seq(Command)
    BY <2>4 DEF Command
  <2>2. queue' \in Seq(Command) /\ running' \in Command \cup {NoCmd}
    BY <1>11, <2>1 DEF PumpTake
  <2>3. status' \in [Reqs -> Status]
    BY <1>11, <2>1 DEF PumpTake, Status, Live, Refused
  <2>. QED  BY <1>11, <2>2, <2>3 DEF PumpTake
<1>12. CASE PumpExecute
  <2>1. running \in Command /\ running.req \in Reqs /\ running.leaseId \in Nat /\ running.conn \in Conns
    BY <1>12 DEF PumpExecute, Command
  <2>2. status' \in [Reqs -> Status] /\ applied' \in [tenure : Nat, conn : Conns \cup {0}]
    BY <1>12, <2>1 DEF PumpExecute, Status
  <2>. QED  BY <1>12, <2>2 DEF PumpExecute
<1>13. CASE AttachPump \/ DetachPump \/ BeginReset
  BY <1>13 DEF AttachPump, DetachPump, BeginReset
<1>14. ASSUME NEW o \in {"up", "down"}, FinishReset(o) PROVE TypeOK'
  <2>1. secret' \in Nat /\ revoked' \in Nat /\ server' \in {"up", "stopping", "down"}
    BY <1>14 DEF FinishReset
  <2>. QED  BY <1>14, <2>1 DEF FinishReset
<1>15. CASE Tick
  <2>1. now' \in Nat
    BY <1>15 DEF Tick
  <2>. QED  BY <1>15, <2>1 DEF Tick
<1>16. CASE UNCHANGED vars
  BY <1>16 DEF vars
<1>. QED
  BY <1>1, <1>2, <1>3, <1>4, <1>5, <1>6, <1>7, <1>8, <1>9, <1>10, <1>11, <1>12, <1>13, <1>14,
     <1>15, <1>16
  DEF Next, Reader, UiThread

LEMMA InitIInv == Init => IInv /\ AuthedCountExact
<1> SUFFICES ASSUME Init PROVE IInv /\ AuthedCountExact
  OBVIOUS
<1>1. TypeOK
  BY InitTypeOK
<1>2. ReadySet = {}
  BY DEF Init, ReadySet
<1>3. AuthedCountExact
  BY <1>2, FS_EmptySet DEF AuthedCountExact, Init, ReadySet
<1>4. FreshConns /\ ReadyPaired /\ LeaseHolderLive /\ ResetExclusive
  BY DEF Init, FreshConns, ReadyPaired, LeaseHolderLive, ResetExclusive, NoHolder, Held
<1>5. TenureBounds
  BY DEF Init, TenureBounds, NoHolder, Held
<1>6. RunningAdmissible
  BY DEF Init, RunningAdmissible, NoCmd, Mutating
<1>. QED  BY <1>1, <1>3, <1>4, <1>5, <1>6 DEF IInv

\* A step that moves one session and accounts for it keeps the count exact.
LEMMA CountFollowsPhase ==
  ASSUME TypeOK, AuthedCountExact, NEW c \in Conns, NEW p,
         phase' = [phase EXCEPT ![c] = p],
         authed' = authed + ReadyWeight(p) - ReadyWeight(phase[c])
  PROVE  AuthedCountExact'
<1>1. /\ Cardinality(ReadySet) \in Nat
      /\ Cardinality(ReadySet') = Cardinality(ReadySet) + ReadyWeight(p) - ReadyWeight(phase[c])
  BY ReadyCount
<1>2. authed = Cardinality(ReadySet)
  BY DEF AuthedCountExact, ReadySet
<1>3. authed' = Cardinality(ReadySet')
  BY <1>1, <1>2
<1>. QED  BY <1>3 DEF AuthedCountExact, ReadySet

LEMMA NextAuthedCount == TypeOK /\ FreshConns /\ AuthedCountExact /\ [Next]_vars => AuthedCountExact'
<1> SUFFICES ASSUME TypeOK, FreshConns, AuthedCountExact, [Next]_vars PROVE AuthedCountExact'
  OBVIOUS
<1>0. authed \in Nat
  BY DEF TypeOK
<1>1. CASE AcceptSession
  <2>0. nextConn \in Conns
    BY <1>1, PathAssumption DEF AcceptSession, TypeOK, Conns
  <2>1. phase[nextConn] = "none"
    BY <2>0, PathAssumption DEF FreshConns, TypeOK, Conns
  <2>2. /\ phase' = [phase EXCEPT ![nextConn] = "hello"]
        /\ authed' = authed + ReadyWeight("hello") - ReadyWeight(phase[nextConn])
    BY <1>0, <1>1, <2>1 DEF AcceptSession, ReadyWeight
  <2>. QED  BY <2>0, <2>2, CountFollowsPhase
<1>2. ASSUME NEW c \in Conns, HandleHello(c) PROVE AuthedCountExact'
  <2>1. /\ phase' = [phase EXCEPT ![c] = "auth"]
        /\ authed' = authed + ReadyWeight("auth") - ReadyWeight(phase[c])
    BY <1>0, <1>2 DEF HandleHello, ReadyWeight
  <2>. QED  BY <2>1, CountFollowsPhase
<1>3. ASSUME NEW c \in Conns, NEW key \in 0..secret, HandleAuth(c, key) PROVE AuthedCountExact'
  <2>1. /\ phase' = [phase EXCEPT ![c] = "ready"]
        /\ authed' = authed + ReadyWeight("ready") - ReadyWeight(phase[c])
    BY <1>0, <1>3 DEF HandleAuth, ReadyWeight
  <2>. QED  BY <2>1, CountFollowsPhase
<1>4. ASSUME NEW c \in Conns, ReaderExit(c) PROVE AuthedCountExact'
  <2>1. /\ phase' = [phase EXCEPT ![c] = "gone"]
        /\ authed' = authed + ReadyWeight("gone") - ReadyWeight(phase[c])
    BY <1>0, <1>4 DEF ReaderExit, ReadyWeight
  <2>. QED  BY <2>1, CountFollowsPhase
<1>5. CASE UNCHANGED <<phase, authed>>
  BY <1>5 DEF AuthedCountExact
<1>. QED
  BY <1>1, <1>2, <1>3, <1>4, <1>5
  DEF Next, Reader, UiThread, LeaseAcquire, LeaseRenew, LeaseRelease, GateRefused, GateAdmitted,
      EnqueueCommand, PumpTake, PumpExecute, AttachPump, DetachPump, BeginReset, FinishReset,
      Tick, vars, sessionVars

\* The steps that leave a state function alone are settled by expanding them.
LEMMA NextFreshConns == TypeOK /\ FreshConns /\ [Next]_vars => FreshConns'
<1> SUFFICES ASSUME TypeOK, FreshConns, [Next]_vars PROVE FreshConns'
  OBVIOUS
<1>1. CASE AcceptSession
  <2>1. nextConn \in Nat /\ DOMAIN phase = Conns /\ \A c \in Conns : c \in Nat
    BY PathAssumption DEF TypeOK, Conns
  <2>2. phase' = [phase EXCEPT ![nextConn] = "hello"] /\ nextConn' = nextConn + 1
    BY <1>1 DEF AcceptSession
  <2>3. ASSUME NEW c \in Conns, c >= nextConn' PROVE phase'[c] = "none"
    <3>1. c >= nextConn /\ c # nextConn
      BY <2>1, <2>2, <2>3
    <3>2. phase[c] = "none"
      BY <3>1 DEF FreshConns
    <3> QED
      BY <2>1, <2>2, <3>1, <3>2
  <2> QED
    BY <2>3 DEF FreshConns
<1>2. ASSUME NEW c \in Conns, NEW p, phase[c] # "none", phase' = [phase EXCEPT ![c] = p],
             nextConn' = nextConn
      PROVE  FreshConns'
  BY <1>2 DEF FreshConns, TypeOK
<1>3. CASE UNCHANGED <<phase, nextConn>>
  BY <1>3 DEF FreshConns
<1>. QED
  BY <1>1, <1>2, <1>3
  DEF Next, Reader, UiThread, HandleHello, HandleAuth, ReaderExit, LeaseAcquire, LeaseRenew,
      LeaseRelease, GateRefused, GateAdmitted, EnqueueCommand, PumpTake, PumpExecute, AttachPump,
      DetachPump, BeginReset, FinishReset, Tick, vars, sessionVars

LEMMA NextReadyPaired == TypeOK /\ ReadyPaired /\ [Next]_vars => ReadyPaired'
<1> SUFFICES ASSUME TypeOK, ReadyPaired, [Next]_vars PROVE ReadyPaired'
  OBVIOUS
<1>1. CASE AcceptSession
  BY <1>1 DEF AcceptSession, ReadyPaired, TypeOK, uiVars
<1>2. ASSUME NEW c \in Conns, HandleHello(c) \/ ReaderExit(c) PROVE ReadyPaired'
  BY <1>2 DEF HandleHello, ReaderExit, ReadyPaired, TypeOK, uiVars
<1>3. ASSUME NEW c \in Conns, NEW key \in 0..secret, HandleAuth(c, key) PROVE ReadyPaired'
  BY <1>3 DEF HandleAuth, ReadyPaired, TypeOK, uiVars
<1>4. ASSUME NEW o \in {"up", "down"}, FinishReset(o) PROVE ReadyPaired'
  BY <1>4 DEF FinishReset, ReadyPaired, TypeOK, sessionVars
<1>5. CASE UNCHANGED <<phase, pairedWith, secret>>
  BY <1>5 DEF ReadyPaired
<1>. QED
  BY <1>1, <1>2, <1>3, <1>4, <1>5
  DEF Next, Reader, UiThread, LeaseAcquire, LeaseRenew, LeaseRelease, GateRefused, GateAdmitted,
      EnqueueCommand, PumpTake, PumpExecute, AttachPump, DetachPump, BeginReset, Tick, vars,
      sessionVars, uiVars

LEMMA NextLeaseHolderLive ==
  TypeOK /\ TypeOK' /\ FreshConns /\ ReadyPaired /\ LeaseHolderLive /\ [Next]_vars => LeaseHolderLive'
<1> SUFFICES ASSUME TypeOK, TypeOK', FreshConns, ReadyPaired, LeaseHolderLive, [Next]_vars
             PROVE  LeaseHolderLive'
  OBVIOUS
<1> USE DEF LeaseHolderLive, TypeOK, LeaseHolder, Held
<1>1. CASE AcceptSession
  BY <1>1 DEF AcceptSession, FreshConns, uiVars
<1>2. ASSUME NEW c \in Conns, HandleHello(c) PROVE LeaseHolderLive'
  BY <1>2 DEF HandleHello, uiVars
<1>3. ASSUME NEW c \in Conns, NEW key \in 0..secret, HandleAuth(c, key) PROVE LeaseHolderLive'
  BY <1>3 DEF HandleAuth, uiVars
<1>4. ASSUME NEW c \in Conns, ReaderExit(c) PROVE LeaseHolderLive'
  BY <1>4 DEF ReaderExit, Dropped, NoHolder, uiVars
<1>5. ASSUME NEW c \in Conns, LeaseAcquire(c) PROVE LeaseHolderLive'
  <2>1. phase[c] = "ready" /\ pairedWith[c] = secret
    BY <1>5 DEF LeaseAcquire, ReadyPaired
  <2>2. CASE IsWriter(lease, c, now)
    BY <1>5, <2>1, <2>2
    DEF LeaseAcquire, Acquired, Extended, IsNewGrant, IsWriter, HeldAt, sessionVars, uiVars
  <2>3. CASE ~IsWriter(lease, c, now)
    <3>1. owner' = Append(owner, c) /\ lease'.conn = c /\ lease'.leaseId = Len(owner) + 1
      BY <1>5, <2>3 DEF LeaseAcquire, Acquired, IsNewGrant
    <3>2. Len(owner') = Len(owner) + 1 /\ owner'[Len(owner) + 1] = c
      BY <3>1
    <3>. QED  BY <1>5, <2>1, <3>1, <3>2 DEF LeaseAcquire, sessionVars, uiVars
  <2>. QED  BY <2>2, <2>3
<1>6. ASSUME NEW c \in Conns, NEW id \in 1..Len(owner), LeaseRenew(c, id) PROVE LeaseHolderLive'
  BY <1>6 DEF LeaseRenew, Renewed, Extended, sessionVars, uiVars
<1>7. ASSUME NEW c \in Conns, NEW id \in 1..Len(owner), LeaseRelease(c, id) PROVE LeaseHolderLive'
  BY <1>7 DEF LeaseRelease, Released, NoHolder, sessionVars, uiVars
<1>8. ASSUME NEW o \in {"up", "down"}, FinishReset(o) PROVE LeaseHolderLive'
  BY <1>8 DEF FinishReset, sessionVars
<1>9. CASE UNCHANGED <<phase, pairedWith, secret, lease, owner>>
  BY <1>9
<1>. QED
  BY <1>1, <1>2, <1>3, <1>4, <1>5, <1>6, <1>7, <1>8, <1>9, ZenonT(60)
  DEF Next, Reader, UiThread, GateRefused, GateAdmitted, EnqueueCommand, PumpTake, PumpExecute,
      AttachPump, DetachPump, BeginReset, Tick, vars, sessionVars, uiVars
LEMMA NextTenureBounds ==
  TypeOK /\ LeaseHolderLive /\ TenureBounds /\ RunningAdmissible /\ [Next]_vars => TenureBounds'
<1> SUFFICES ASSUME TypeOK, LeaseHolderLive, TenureBounds, RunningAdmissible, [Next]_vars
             PROVE  TenureBounds'
  OBVIOUS
<1> USE DEF TenureBounds, TypeOK, LeaseHolder, Held
<1>1. ASSUME NEW c \in Conns, ReaderExit(c) PROVE TenureBounds'
  BY <1>1 DEF ReaderExit, Dropped, NoHolder, uiVars
<1>2. ASSUME NEW c \in Conns, LeaseAcquire(c) PROVE TenureBounds'
  <2>1. CASE IsWriter(lease, c, now)
    BY <1>2, <2>1 DEF LeaseAcquire, Acquired, Extended, IsNewGrant, IsWriter, HeldAt, uiVars
  <2>2. CASE ~IsWriter(lease, c, now)
    <3>1. owner' = Append(owner, c) /\ lease'.leaseId = Len(owner) + 1
      BY <1>2, <2>2 DEF LeaseAcquire, Acquired, IsNewGrant
    <3>2. Len(owner') = Len(owner) + 1
      BY <3>1
    <3>. QED  BY <1>2, <3>1, <3>2 DEF LeaseAcquire, uiVars
  <2>. QED  BY <2>1, <2>2
<1>3. ASSUME NEW c \in Conns, NEW id \in 1..Len(owner), LeaseRenew(c, id) PROVE TenureBounds'
  BY <1>3 DEF LeaseRenew, Renewed, Extended, uiVars
<1>4. ASSUME NEW c \in Conns, NEW id \in 1..Len(owner), LeaseRelease(c, id) PROVE TenureBounds'
  BY <1>4 DEF LeaseRelease, Released, NoHolder, uiVars
<1>5. CASE PumpExecute
  BY <1>5 DEF PumpExecute, RunningAdmissible, Mutating
<1>6. ASSUME NEW o \in {"up", "down"}, FinishReset(o) PROVE TenureBounds'
  <2>1. ~Held(lease)
    BY <1>6 DEF FinishReset, LeaseHolderLive
  <2>2. lease' = lease /\ owner' = owner /\ applied' = applied /\ revoked' = Len(owner)
    BY <1>6 DEF FinishReset, reqVars
  <2>3. Len(owner) \in Nat
    OBVIOUS
  <2>. QED  BY <2>1, <2>2, <2>3
<1>7. CASE UNCHANGED <<lease, owner, applied, revoked>>
  BY <1>7
<1>. QED
  BY <1>1, <1>2, <1>3, <1>4, <1>5, <1>6, <1>7
  DEF Next, Reader, UiThread, AcceptSession, HandleHello, HandleAuth, GateRefused, GateAdmitted,
      EnqueueCommand, PumpTake, AttachPump, DetachPump, BeginReset, Tick, vars, uiVars

\* A grant keeps the owners on record.
LEMMA AppendKeeps ==
  ASSUME NEW S, NEW s \in Seq(S), NEW x \in S
  PROVE  \A t \in 1..Len(s) : t \in 1..Len(Append(s, x)) /\ Append(s, x)[t] = s[t]
OBVIOUS

\* The pump admits a command only with the newest lease in hand.
LEMMA NextRunningAdmissible ==
  TypeOK /\ ReadyPaired /\ LeaseHolderLive /\ TenureBounds /\ RunningAdmissible /\ ResetExclusive
    /\ [Next]_vars => RunningAdmissible' /\ ResetExclusive'
<1> SUFFICES ASSUME TypeOK, ReadyPaired, LeaseHolderLive, TenureBounds, RunningAdmissible,
                    ResetExclusive, [Next]_vars
             PROVE  RunningAdmissible' /\ ResetExclusive'
  OBVIOUS
<1> USE DEF RunningAdmissible, ResetExclusive, TypeOK, Mutating
<1>1. ASSUME NEW c \in Conns, NEW key \in 0..secret, HandleAuth(c, key)
      PROVE  RunningAdmissible' /\ ResetExclusive'
  BY <1>1 DEF HandleAuth, uiVars
<1>2. ASSUME NEW c \in Conns, LeaseAcquire(c) PROVE RunningAdmissible' /\ ResetExclusive'
  <2>1. owner' = Append(owner, c) \/ owner' = owner
    BY <1>2 DEF LeaseAcquire
  <2>2. owner \in Seq(Conns)
    OBVIOUS
  <2>3. \A t \in 1..Len(owner) : t \in 1..Len(owner') /\ owner'[t] = owner[t]
    <3>1. CASE owner' = Append(owner, c)
      <4>1. \A t \in 1..Len(owner) : t \in 1..Len(Append(owner, c))
                                    /\ Append(owner, c)[t] = owner[t]
        BY <2>2, AppendKeeps
      <4>. QED  BY <3>1, <4>1, Zenon
    <3>2. CASE owner' = owner
      BY <3>2
    <3>. QED  BY <2>1, <3>1, <3>2, Zenon
  <2>. QED  BY <1>2, <2>3 DEF LeaseAcquire, uiVars, sessionVars
<1>3. CASE PumpTake
  <2>1. CASE running' = Head(queue) /\ CommandLeaseStillValid(Head(queue))
    <3>1. Mutating(running') =>
            /\ running'.leaseId = Len(owner) /\ owner[Len(owner)] = running'.conn
            /\ Len(owner) > revoked /\ pairedWith[running'.conn] = secret
      BY <2>1 DEF CommandLeaseStillValid, IsWriter, HeldAt, LeaseHolderLive, TenureBounds
    <3>. QED  BY <1>3, <3>1 DEF PumpTake, TenureBounds, sessionVars, UiFree
  <2>2. CASE running' = running
    BY <1>3, <2>2 DEF PumpTake, sessionVars, UiFree
  <2>. QED  BY <1>3, <2>1, <2>2 DEF PumpTake
<1>4. CASE PumpExecute
  BY <1>4 DEF PumpExecute, NoCmd
<1>5. CASE BeginReset
  BY <1>5 DEF BeginReset, UiFree, sessionVars
<1>6. ASSUME NEW o \in {"up", "down"}, FinishReset(o) PROVE RunningAdmissible' /\ ResetExclusive'
  BY <1>6 DEF FinishReset, NoCmd
<1>7. CASE UNCHANGED <<pairedWith, owner, uiVars, applied>>
  BY <1>7 DEF uiVars
<1>8. CASE AttachPump \/ DetachPump
  BY <1>8 DEF AttachPump, DetachPump, sessionVars
<1>. QED
  BY <1>1, <1>2, <1>3, <1>4, <1>5, <1>6, <1>7, <1>8
  DEF Next, Reader, UiThread, AcceptSession, HandleHello, ReaderExit, LeaseRenew, LeaseRelease,
      GateRefused, GateAdmitted, EnqueueCommand, Tick, vars, sessionVars, uiVars

-----------------------------------------------------------------------------
\* The inductive invariant, from which the results below follow.
THEOREM Invariance == Spec => [](IInv /\ AuthedCountExact)
<1>1. Init => IInv /\ AuthedCountExact
  BY InitIInv
<1>2. IInv /\ AuthedCountExact /\ [Next]_vars => (IInv /\ AuthedCountExact)'
  BY NextTypeOK, NextFreshConns, NextReadyPaired, NextLeaseHolderLive, NextTenureBounds,
     NextRunningAdmissible, NextAuthedCount
  DEF IInv
<1>. QED  BY <1>1, <1>2, PTL DEF Spec

\* Every variable keeps its type; in particular authedSessions_ never goes negative.
THEOREM TypeCorrect == Spec => []TypeOK
BY Invariance, PTL DEF IInv

\* authedSessions_ is the number of ready sessions.
THEOREM AuthedCountCorrect == Spec => []AuthedCountExact
BY Invariance, PTL

\* Both together: the type invariant and the count of authenticated sessions.
THEOREM ConsistentCorrect == Spec => []Consistent
<1>1. TypeOK /\ AuthedCountExact => Consistent  BY DEF Consistent
<1>. QED  BY <1>1, TypeCorrect, AuthedCountCorrect, PTL

\* The writer lease is held only by a live session of the current pairing.
THEOREM LeaseHolderLiveCorrect == Spec => []LeaseHolderLive
BY Invariance, PTL DEF IInv

\* No command of a connection dropped by a pairing reset mutates the patch after it.
THEOREM PairedPeersOnly == Spec => []MutationsComeFromPairedPeers
<1>1. IInv => MutationsComeFromPairedPeers
  BY DEF IInv, RunningAdmissible, MutationsComeFromPairedPeers
<1>. QED  BY <1>1, Invariance, PTL

\* Mutations follow lease tenures: the command path implements WriterTenure.
THEOREM WriterTenuresCorrect == Spec => WriterTenures
<1>1. Init => Tenure!Init
  BY DEF Init, Tenure!Init, Tenure!NoMutation
<1>2. IInv /\ [Next]_vars => [Tenure!Next]_Tenure!vars
  <2> SUFFICES ASSUME IInv, [Next]_vars PROVE Tenure!Next \/ UNCHANGED Tenure!vars
    OBVIOUS
  <2> USE DEF Tenure!vars
  <2>1. ASSUME NEW c \in Conns, LeaseAcquire(c) PROVE Tenure!Next \/ UNCHANGED Tenure!vars
    BY <2>1 DEF LeaseAcquire, uiVars, Tenure!Next, Tenure!Issue
  <2>2. CASE PumpExecute
    <3>1. CASE Mutating(running)
      <4>1. Tenure!Mutate(running.leaseId) /\ running.leaseId \in 1..Len(owner)
        BY <2>2, <3>1 DEF PumpExecute, IInv, RunningAdmissible, Tenure!Mutate
      <4>. QED  BY <4>1 DEF Tenure!Next
    <3>2. CASE ~Mutating(running)
      BY <2>2, <3>2 DEF PumpExecute
    <3>. QED  BY <3>1, <3>2
  <2>3. ASSUME NEW o \in {"up", "down"}, FinishReset(o) PROVE Tenure!Next \/ UNCHANGED Tenure!vars
    BY <2>3 DEF FinishReset, Tenure!Next, Tenure!Revoke
  <2>4. CASE UNCHANGED <<owner, applied, revoked>>
    BY <2>4
  <2>. QED
    BY <2>1, <2>2, <2>3, <2>4
    DEF Next, Reader, UiThread, AcceptSession, HandleHello, HandleAuth, ReaderExit, LeaseRenew,
        LeaseRelease, GateRefused, GateAdmitted, EnqueueCommand, PumpTake, AttachPump, DetachPump,
        BeginReset, Tick, vars, uiVars
<1>. QED  BY <1>1, <1>2, Invariance, PTL DEF Spec, WriterTenures, Tenure!Spec

-----------------------------------------------------------------------------
(* Sequences *)

\* A sequence with one more element, and with one less.
LEMMA OneLonger ==
  ASSUME NEW S, NEW s \in Seq(S), NEW e \in S, NEW n \in Nat, n = Len(s)
  PROVE  /\ Append(s, e) \in Seq(S) /\ Len(Append(s, e)) = n + 1 /\ DOMAIN Append(s, e) = 1..n + 1
         /\ \A i \in 1..n : Append(s, e)[i] = s[i]
         /\ Append(s, e)[n + 1] = e
<1>1. Append(s, e) \in Seq(S) /\ Len(Append(s, e)) = n + 1
  BY AppendProperties
<1>2. DOMAIN Append(s, e) = 1..Len(Append(s, e))
  BY <1>1, LenProperties
<1> QED
  BY <1>1, <1>2, AppendProperties

\* All of a sequence but its last element.
LEMMA AllButLast ==
  ASSUME NEW S, NEW s \in Seq(S), NEW n \in Nat, n = Len(s), s # <<>>
  PROVE  /\ n > 0 /\ Last(s) = s[n] /\ s[n] \in S
         /\ Front(s) \in Seq(S) /\ Len(Front(s)) = n - 1 /\ DOMAIN Front(s) = 1..n - 1
         /\ \A i \in 1..n - 1 : Front(s)[i] = s[i]
<1>1. n > 0
  BY EmptySeq
<1>2. \A i \in 1..n - 1 : s[i] \in S
  BY ElementOfSeq
<1>3. Front(s) = SubSeq(s, 1, n - 1) /\ Last(s) = s[n]
  BY DEF Front, Last
<1>4. Front(s) \in Seq(S) /\ Len(Front(s)) = n - 1
  BY <1>1, <1>2, <1>3, SubSeqProperties
<1>5. DOMAIN Front(s) = 1..n - 1
  BY <1>4, LenProperties
<1>6. \A i \in 1..(n - 1) - 1 + 1 : Front(s)[i] = s[1 + i - 1]
  BY <1>1, <1>2, <1>3, SubSeqProperties
<1>7. s[n] \in S
  BY <1>1, ElementOfSeq
<1> QED
  BY <1>1, <1>3, <1>4, <1>5, <1>6, <1>7

\* All of a sequence but its first element.
LEMMA AllButFirst ==
  ASSUME NEW S, NEW s \in Seq(S), NEW n \in Nat, n = Len(s), s # <<>>
  PROVE  /\ n > 0 /\ Head(s) = s[1] /\ s[1] \in S
         /\ Tail(s) \in Seq(S) /\ Len(Tail(s)) = n - 1 /\ DOMAIN Tail(s) = 1..n - 1
         /\ \A i \in 1..n - 1 : Tail(s)[i] = s[i + 1]
<1>1. n > 0
  BY EmptySeq
<1>2. s[1] \in S /\ Head(s) = s[1]
  BY <1>1, ElementOfSeq
<1>3. Tail(s) \in Seq(S) /\ Len(Tail(s)) = n - 1 /\ \A i \in 1..Len(Tail(s)) : Tail(s)[i] = s[i + 1]
  BY HeadTailProperties
<1>4. DOMAIN Tail(s) = 1..Len(Tail(s))
  BY <1>3, LenProperties
<1> QED
  BY <1>1, <1>2, <1>3, <1>4

\* The elements after the first m, up to the n-th.
Between(s, m, n) == SubSeq(s, m + 1, n)

\* A stretch of a sequence.
LEMMA Stretch ==
  ASSUME NEW S, NEW s \in Seq(S), NEW l \in Nat, l = Len(s), NEW m \in Nat, NEW n \in Nat, m <= n, n <= l,
         NEW k \in Nat, k = n - m
  PROVE  Between(s, m, n) \in Seq(S) /\ Len(Between(s, m, n)) = k
<1>2. \A i \in m + 1..n : s[i] \in S
  BY ElementOfSeq
<1>3. SubSeq(s, m + 1, n) \in Seq(S) /\ Len(SubSeq(s, m + 1, n)) = n - m
  BY <1>2, SubSeqProperties
<1> QED
  BY <1>3 DEF Between

\* What is where in a stretch.
LEMMA StretchAt ==
  ASSUME NEW S, NEW s \in Seq(S), NEW l \in Nat, l = Len(s), NEW m \in Nat, NEW n \in Nat, n <= l,
         NEW i \in Nat, i > 0, NEW j \in Nat, j = m + i, j <= n
  PROVE  Between(s, m, n)[i] = s[j]
<1>1. \A x \in m + 1..n : s[x] \in S
  BY ElementOfSeq
<1>2. \A x \in 1..n - (m + 1) + 1 : SubSeq(s, m + 1, n)[x] = s[m + 1 + x - 1]
  BY <1>1, SubSeqProperties
<1>3. i \in 1..n - (m + 1) + 1 /\ m + 1 + i - 1 = j
  OBVIOUS
<1> QED
  BY <1>2, <1>3 DEF Between

\* Two sequences, one after the other.
LEMMA Joined ==
  ASSUME NEW S, NEW s \in Seq(S), NEW t \in Seq(S)
  PROVE  /\ s \o t \in Seq(S) /\ Len(s \o t) = Len(s) + Len(t) /\ DOMAIN (s \o t) = 1..Len(s) + Len(t)
         /\ \A i \in 1..Len(s) : (s \o t)[i] = s[i]
         /\ \A i \in 1..Len(t) : (s \o t)[Len(s) + i] = t[i]
<1>1. PICK m \in Nat, n \in Nat : m = Len(s) /\ n = Len(t)
  BY LenProperties
<1>2. s \o t \in Seq(S) /\ Len(s \o t) = m + n
  BY <1>1, ConcatProperties
<1>3. DOMAIN (s \o t) = 1..m + n
  BY <1>2, LenProperties
<1>4. \A i \in 1..m + n : (s \o t)[i] = IF i <= m THEN s[i] ELSE t[i - m]
  BY <1>1, ConcatProperties
<1>5. ASSUME NEW i \in 1..m PROVE (s \o t)[i] = s[i]
  <2>1. i \in 1..m + n /\ i <= m
    OBVIOUS
  <2> QED
    BY <1>4, <2>1
<1>6. ASSUME NEW i \in 1..n PROVE (s \o t)[m + i] = t[i]
  <2>1. m + i \in 1..m + n /\ ~ (m + i <= m) /\ (m + i) - m = i
    OBVIOUS
  <2> QED
    BY <1>4, <2>1
<1> QED
  BY <1>1, <1>2, <1>3, <1>5, <1>6

\* What is where in two joined sequences.
LEMMA JoinedAt ==
  ASSUME NEW S, NEW s \in Seq(S), NEW t \in Seq(S), NEW m \in Nat, m = Len(s), NEW n \in Nat, n = Len(t),
         NEW i \in Nat, i > 0
  PROVE  /\ s \o t \in Seq(S) /\ Len(s \o t) = m + n
         /\ i <= m => (s \o t)[i] = s[i]
         /\ \A j \in Nat : j = m + i /\ i <= n => (s \o t)[j] = t[i]
<1>1. i <= m => (s \o t)[i] = s[i]
  BY Joined
<1>2. i <= n => (s \o t)[m + i] = t[i]
  BY Joined
<1> QED
  BY <1>1, <1>2, Joined

\* The elements of a sequence without repetitions, with one more and one less.
LEMMA DistinctLonger ==
  ASSUME NEW S, NEW s \in Seq(S), IsInjective(s), NEW e \in S, e \notin Range(s)
  PROVE  /\ Append(s, e) \in Seq(S) /\ IsInjective(Append(s, e))
         /\ Range(Append(s, e)) = Range(s) \cup {e}
<1>1. PICK n \in Nat : n = Len(s) /\ DOMAIN s = 1..n
  BY LenProperties
<1>2. PICK t : t = Append(s, e)
  OBVIOUS
<1>3. t \in Seq(S) /\ DOMAIN t = 1..n + 1 /\ (\A i \in 1..n : t[i] = s[i]) /\ t[n + 1] = e
  BY <1>1, <1>2, OneLonger
<1>4. \A i \in 1..n : s[i] # e
  BY <1>1 DEF Range
<1>5. \A i, j \in 1..n : s[i] = s[j] => i = j
  BY <1>1 DEF IsInjective
<1>6. IsInjective(t)
  <2> SUFFICES ASSUME NEW i \in 1..n + 1, NEW j \in 1..n + 1, t[i] = t[j] PROVE i = j
    BY <1>3 DEF IsInjective
  <2>1. (i \in 1..n \/ i = n + 1) /\ (j \in 1..n \/ j = n + 1)
    OBVIOUS
  <2> QED
    BY <1>3, <1>4, <1>5, <2>1
<1>7. Range(t) = Range(s) \cup {e}
  <2>1. (\A i \in 1..n : i \in 1..n + 1) /\ (\A i \in 1..n + 1 : i \in 1..n \/ i = n + 1) /\ n + 1 \in 1..n + 1
    OBVIOUS
  <2>2. Range(t) = {t[i] : i \in 1..n + 1} /\ Range(s) = {s[i] : i \in 1..n}
    BY <1>1, <1>3 DEF Range
  <2> QED
    BY <1>3, <2>1, <2>2
<1> QED
  BY <1>2, <1>3, <1>6, <1>7

\* Taking an element out of a sequence without repetitions.
LEMMA DistinctShorter ==
  ASSUME NEW S, NEW s \in Seq(S), IsInjective(s), NEW k \in DOMAIN s
  PROVE  /\ RemoveAt(s, k) \in Seq(S) /\ IsInjective(RemoveAt(s, k))
         /\ Range(RemoveAt(s, k)) = Range(s) \ {s[k]}
<1>1. PICK n \in Nat : n = Len(s) /\ DOMAIN s = 1..n
  BY LenProperties
<1>2. PICK l \in Nat : k = l + 1 /\ l < n
  <2>1. k \in 1..n
    BY <1>1
  <2> QED
    BY <2>1
<1>3. PICK a, b : a = SubSeq(s, 1, k - 1) /\ b = SubSeq(s, k + 1, n)
  OBVIOUS
<1>4. a \in Seq(S) /\ Len(a) = l /\ \A i \in 1..l : a[i] = s[i]
  <2>1. PICK z \in Nat : z = 0 /\ a = Between(s, z, l)
    BY <1>2, <1>3 DEF Between
  <2>2. a \in Seq(S) /\ Len(a) = l
    BY <1>1, <1>2, <2>1, Stretch
  <2>3. ASSUME NEW i \in 1..l PROVE a[i] = s[i]
    <3>1. i \in Nat /\ i > 0 /\ i = z + i /\ i <= l /\ l <= n
      BY <1>2, <2>1
    <3> QED
      BY <1>1, <2>1, <3>1, StretchAt
  <2> QED
    BY <1>2, <2>1, <2>2, <2>3
<1>5. b \in Seq(S) /\ Len(b) = n - k /\ \A i \in 1..n - k : b[i] = s[k + i]
  <2>1. b = Between(s, k, n)
    BY <1>3 DEF Between
  <2>2. k \in Nat /\ k <= n
    BY <1>2
  <2>3. PICK r \in Nat : r = n - k /\ n <= n
    BY <2>2
  <2>4. b \in Seq(S) /\ Len(b) = r
    BY <1>1, <2>1, <2>2, <2>3, Stretch
  <2>5. ASSUME NEW i \in 1..n - k PROVE b[i] = s[k + i]
    <3>1. PICK j \in Nat : j = k + i /\ j <= n /\ i \in Nat /\ i > 0
      <4>1. k + i \in Nat /\ k + i <= n /\ i \in Nat /\ i > 0
        BY <2>2
      <4> QED
        BY <4>1
    <3> QED
      BY <1>1, <2>1, <2>2, <3>1, StretchAt
  <2> QED
    BY <2>3, <2>4, <2>5
<1>6. PICK t : t = RemoveAt(s, k) /\ t = a \o b
  BY <1>1, <1>3 DEF RemoveAt
<1>7. t \in Seq(S) /\ DOMAIN t = 1..n - 1 /\ (\A i \in 1..l : t[i] = a[i]) /\ (\A i \in 1..n - k : t[l + i] = b[i])
  <2>1. PICK r \in Nat : r = n - k /\ l + r = n - 1
    BY <1>2
  <2>2. Len(a) = l /\ Len(b) = r
    BY <1>4, <1>5, <2>1
  <2>3. t \in Seq(S) /\ DOMAIN t = 1..l + r /\ (\A i \in 1..l : t[i] = a[i]) /\ (\A i \in 1..r : t[l + i] = b[i])
    <3>1. a \in Seq(S) /\ b \in Seq(S) /\ t = a \o b
      BY <1>4, <1>5, <1>6
    <3>2. /\ a \o b \in Seq(S) /\ DOMAIN (a \o b) = 1..Len(a) + Len(b)
          /\ \A i \in 1..Len(a) : (a \o b)[i] = a[i]
          /\ \A i \in 1..Len(b) : (a \o b)[Len(a) + i] = b[i]
      BY <3>1, Joined
    <3> QED
      BY <2>2, <3>1, <3>2
  <2> QED
    BY <2>1, <2>3
<1>8. \A i \in 1..n - 1 : (i < k => t[i] = s[i]) /\ (i >= k => t[i] = s[i + 1])
  <2> TAKE i \in 1..n - 1
  <2>1. ASSUME i < k PROVE t[i] = s[i]
    <3>1. i \in 1..l
      BY <1>2, <2>1
    <3> QED
      BY <1>4, <1>7, <3>1
  <2>2. ASSUME i >= k PROVE t[i] = s[i + 1]
    <3>1. PICK j \in 1..n - k : l + j = i /\ k + j = i + 1
      <4>1. i - l \in 1..n - k /\ l + (i - l) = i /\ k + (i - l) = i + 1
        BY <1>2, <2>2
      <4> QED
        BY <4>1
    <3>2. t[l + j] = s[k + j]
      BY <1>5, <1>7
    <3> QED
      BY <3>1, <3>2
  <2> QED
    BY <2>1, <2>2
<1>9. \A x, y \in 1..n : s[x] = s[y] => x = y
  BY <1>1 DEF IsInjective
<1>10. IsInjective(t)
  <2> SUFFICES ASSUME NEW i \in 1..n - 1, NEW j \in 1..n - 1, t[i] = t[j] PROVE i = j
    BY <1>7 DEF IsInjective
  <2>1. i \in 1..n /\ i + 1 \in 1..n /\ j \in 1..n /\ j + 1 \in 1..n /\ k \in Nat
    BY <1>2
  <2>2. PICK x \in 1..n : t[i] = s[x] /\ ((i < k /\ x = i) \/ (i >= k /\ x = i + 1))
    BY <1>8, <2>1
  <2>3. PICK y \in 1..n : t[j] = s[y] /\ ((j < k /\ y = j) \/ (j >= k /\ y = j + 1))
    BY <1>8, <2>1
  <2>4. x = y
    BY <1>9, <2>2, <2>3
  <2> QED
    BY <2>1, <2>2, <2>3, <2>4
<1>11. Range(t) = Range(s) \ {s[k]}
  <2>1. ASSUME NEW i \in 1..n - 1 PROVE \E x \in 1..n : x # k /\ t[i] = s[x]
    <3>1. i \in 1..n /\ i + 1 \in 1..n /\ k \in Nat
      BY <1>2
    <3> QED
      BY <1>8, <3>1
  <2>2. ASSUME NEW x \in 1..n, x # k PROVE \E i \in 1..n - 1 : t[i] = s[x]
    <3>1. CASE x < k
      <4>1. x \in 1..n - 1
        BY <1>2, <3>1
      <4> QED
        BY <1>8, <3>1, <4>1
    <3>2. CASE x > k
      <4>1. x - 1 \in 1..n - 1 /\ x - 1 >= k /\ (x - 1) + 1 = x
        BY <1>2, <3>2
      <4> QED
        BY <1>8, <4>1
    <3> QED
      BY <1>2, <2>2, <3>1, <3>2
  <2>3. k \in 1..n
    BY <1>1
  <2>4. \A x \in 1..n : s[x] = s[k] => x = k
    BY <1>9, <2>3
  <2>5. Range(t) = {t[i] : i \in 1..n - 1} /\ Range(s) = {s[i] : i \in 1..n}
    BY <1>1, <1>7 DEF Range
  <2>6. \A i \in 1..n - 1 : t[i] \in Range(s) \ {s[k]}
    BY <2>1, <2>4, <2>5
  <2>7. \A e \in Range(s) \ {s[k]} : e \in Range(t)
    <3> TAKE e \in Range(s) \ {s[k]}
    <3>1. PICK x \in 1..n : e = s[x] /\ x # k
      BY <2>5
    <3>2. PICK i \in 1..n - 1 : t[i] = e
      BY <2>2, <3>1
    <3> QED
      BY <2>5, <3>2
  <2> QED
    BY <2>5, <2>6, <2>7
<1> QED
  BY <1>6, <1>7, <1>10, <1>11

\* Every element of a finite set is at one place of the set as a sequence.
LEMMA InOrder ==
  ASSUME NEW S, IsFiniteSet(S), NEW n \in Nat, n = Cardinality(S), NEW f \in [1..n -> S], IsInjective(f)
  PROVE  f \in Seq(S) /\ Len(f) = n /\ DOMAIN f = 1..n /\ Range(f) = S
<1>1. f \in Seq(S) /\ Len(f) = n /\ DOMAIN f = 1..n
  OBVIOUS
<1>2. f \in Injection(1..n, S)
  BY DEF Injection, IsInjective
<1>3. IsFiniteSet(1..n) /\ Cardinality(1..n) = n
  BY FS_Interval
<1>4. f \in Surjection(1..n, S)
  BY <1>2, <1>3, FS_Injection
<1> QED
  BY <1>1, <1>4 DEF Surjection, Range

\* The elements of a finite set, one after the other.
LEMMA SetInOrder ==
  ASSUME NEW S, IsFiniteSet(S)
  PROVE  /\ SetToSeq(S) \in Seq(S) /\ IsInjective(SetToSeq(S)) /\ Range(SetToSeq(S)) = S
<1>1. PICK n \in Nat : n = Cardinality(S)
  BY FS_CardinalityType
<1>2. \E f \in [1..n -> S] : IsInjective(f)
  <2>1. PICK f \in Bijection(1..n, S) : TRUE
    BY <1>1, FS_CardinalityType DEF ExistsBijection
  <2> QED
    BY <2>1 DEF Bijection, Injection, IsInjective
<1>3. SetToSeq(S) \in [1..n -> S] /\ IsInjective(SetToSeq(S))
  BY <1>1, <1>2 DEF SetToSeq
<1> QED
  BY <1>1, <1>3, InOrder
\* Induction, as far as it concerns one set.
Below == {p \in Nat \X Nat : p[1] < p[2]}

\* Induction up to m, for a set of numbers.
LEMMA Reaches ==
  ASSUME NEW m \in Nat, NEW S, 0 \in S, \A n \in 0..m : n \in S /\ n < m => n + 1 \in S
  PROVE  \A n \in 0..m : n \in S
<1> SUFFICES ASSUME {n \in 0..m : n \notin S} # {} PROVE FALSE
  OBVIOUS
<1> DEFINE T == {n \in 0..m : n \notin S}
<1>1. T \subseteq Nat /\ T # {}
  OBVIOUS
<1>2. OpToRel(<, Nat) = Below
  BY DEF OpToRel, Below
<1>3. IsWellFoundedOn(Below, Nat)
  BY <1>2, NatLessThanWellFounded
<1> HIDE DEF T
<1>4. PICK x \in T : \A y \in T : ~ (<<y, x>> \in Below)
  BY <1>1, <1>3, WFMin
<1>5. x \in 0..m /\ x \notin S /\ x # 0 /\ x - 1 \in 0..m /\ x - 1 < m /\ (x - 1) + 1 = x
  BY <1>4 DEF T
<1>6. x - 1 \notin S
  BY <1>5
<1>7. x - 1 \in T /\ <<x - 1, x>> \in Below
  BY <1>5, <1>6 DEF T, Below
<1> QED
  BY <1>4, <1>7

\* Some function iterates other functions.
Follows(h, d, f, m) == h[0] = d /\ \A n \in 1..m : h[n] = f[n][h[n - 1]]
Paths(m, D) == [0..m -> D]
Steps(m, D) == [1..m -> [D -> D]]

\* Functions applied one after the other to an element.
LEMMA Iterates ==
  ASSUME NEW m \in Nat, NEW D, NEW d \in D, NEW f \in Steps(m, D)
  PROVE  \E h \in Paths(m, D) : Follows(h, d, f, m)
<1> DEFINE S == {k \in 0..m : \E h \in [0..k -> D] : h[0] = d /\ \A n \in 1..k : h[n] = f[n][h[n - 1]]}
<1>1. 0 \in S
  <2>1. [n \in 0..0 |-> d] \in [0..0 -> D] /\ [n \in 0..0 |-> d][0] = d
    OBVIOUS
  <2>2. \A n \in 1..0 : FALSE
    OBVIOUS
  <2>3. \E h \in [0..0 -> D] : h[0] = d /\ \A n \in 1..0 : h[n] = f[n][h[n - 1]]
    BY <2>1, <2>2
  <2> QED
    BY <2>3
<1>2. ASSUME NEW k \in 0..m, k \in S, k < m PROVE k + 1 \in S
  <2>1. PICK g \in [0..k -> D] : g[0] = d /\ \A n \in 1..k : g[n] = f[n][g[n - 1]]
    BY <1>2
  <2>2. k + 1 \in 1..m /\ k \in 0..k /\ k + 1 \in 0..m
    BY <1>2
  <2>3. f[k + 1] \in [D -> D] /\ g[k] \in D
    BY <2>2 DEF Steps
  <2>4. f[k + 1][g[k]] \in D
    BY <2>3
  <2> DEFINE h == [n \in 0..k + 1 |-> IF n = k + 1 THEN f[k + 1][g[k]] ELSE g[n]]
  <2>5. h \in [0..k + 1 -> D]
    <3>1. \A n \in 0..k + 1 : n # k + 1 => n \in 0..k
      BY <1>2
    <3> QED
      BY <2>4, <3>1
  <2>6. h[0] = d
    BY <1>2, <2>1
  <2>7. ASSUME NEW n \in 1..k + 1 PROVE h[n] = f[n][h[n - 1]]
    <3>1. CASE n = k + 1
      <4>1. h[n] = f[k + 1][g[k]] /\ n - 1 = k /\ h[k] = g[k]
        BY <1>2, <3>1
      <4> QED
        BY <3>1, <4>1
    <3>2. CASE n # k + 1
      <4>1. n \in 1..k /\ n - 1 \in 0..k /\ n \in 0..k
        BY <1>2, <3>2
      <4>2. h[n] = g[n] /\ h[n - 1] = g[n - 1]
        BY <1>2, <4>1
      <4> QED
        BY <2>1, <4>1, <4>2
    <3> QED
      BY <3>1, <3>2
  <2> HIDE DEF h
  <2> QED
    BY <2>2, <2>5, <2>6, <2>7
<1>3. \A n \in 0..m : n \in S
  <2> HIDE DEF S
  <2> QED
    BY <1>1, <1>2, Reaches
<1>4. m \in S
  BY <1>3
<1> QED
  BY <1>4 DEF Follows, Paths

\* The same, as long as it has stayed in the sets G.
FollowsIn(h, d, f, n, G) ==
  h[0] = d /\ \A k \in 1..n : h[k - 1] \in G[k - 1] => h[k] = f[k][h[k - 1]]
Stays(h, n, G) == \A k \in 0..n : h[k] \in G[k]

\* What a function that carries a set into the next is repeated on.
LEMMA Carried ==
  ASSUME NEW n \in Nat, NEW D, NEW G \in [0..n -> SUBSET D], NEW d \in G[0], NEW f,
         \A k \in 1..n : \A q \in G[k - 1] : f[k][q] \in G[k]
  PROVE  /\ \E h \in Paths(n, D) : Follows(h, d, f, n)
         /\ \A h : FollowsIn(h, d, f, n, G) => Stays(h, n, G)
<1>1. ASSUME NEW h, h[0] = d, \A k \in 1..n : h[k - 1] \in G[k - 1] => h[k] = f[k][h[k - 1]]
      PROVE  \A k \in 0..n : h[k] \in G[k]
  <2> DEFINE S == {k \in 0..n : h[k] \in G[k]}
  <2>1. 0 \in S
    BY <1>1
  <2>2. ASSUME NEW k \in 0..n, k \in S, k < n PROVE k + 1 \in S
    <3>1. PICK l \in 1..n : l = k + 1 /\ l - 1 = k /\ l \in 0..n
      <4>1. k + 1 \in 1..n /\ (k + 1) - 1 = k
        BY <2>2
      <4> QED
        BY <4>1
    <3>2. h[l - 1] \in G[l - 1]
      BY <2>2, <3>1
    <3>3. h[l] = f[l][h[l - 1]] /\ f[l][h[l - 1]] \in G[l]
      BY <1>1, <3>2
    <3> QED
      BY <3>1, <3>3
  <2>3. \A k \in 0..n : k \in S
    <3> HIDE DEF S
    <3> QED
      BY <2>1, <2>2, Reaches
  <2> QED
    BY <2>3
<1>2. \A k \in 0..n : G[k] \subseteq D
  OBVIOUS
<1> DEFINE g == [k \in 1..n |-> [q \in D |-> IF f[k][q] \in D THEN f[k][q] ELSE q]]
<1>3. g \in Steps(n, D)
  BY DEF Steps
<1>4. \A k \in 1..n : \A q \in D : f[k][q] \in D => g[k][q] = f[k][q]
  OBVIOUS
<1>5. d \in D
  BY <1>2
<1> HIDE DEF g
<1>6. PICK h \in Paths(n, D) : Follows(h, d, g, n)
  BY <1>3, <1>5, Iterates
<1>7. ASSUME NEW k \in 1..n, h[k - 1] \in G[k - 1] PROVE h[k] = f[k][h[k - 1]]
  <2>1. k \in 0..n /\ k - 1 \in 0..n
    OBVIOUS
  <2>2. f[k][h[k - 1]] \in D /\ h[k - 1] \in D
    BY <1>2, <1>7, <2>1
  <2>3. h[k] = g[k][h[k - 1]]
    BY <1>6 DEF Follows
  <2> QED
    BY <1>4, <2>2, <2>3
<1>8. \A k \in 0..n : h[k] \in G[k]
  <2>1. h[0] = d
    BY <1>6 DEF Follows
  <2> QED
    BY <1>1, <1>7, <2>1
<1>9. \A k \in 1..n : h[k] = f[k][h[k - 1]]
  <2> TAKE k \in 1..n
  <2>1. k - 1 \in 0..n
    OBVIOUS
  <2> QED
    BY <1>7, <1>8, <2>1
<1>10. Follows(h, d, f, n)
  BY <1>6, <1>9 DEF Follows
<1>11. ASSUME NEW x, FollowsIn(x, d, f, n, G) PROVE Stays(x, n, G)
  BY <1>1, <1>11 DEF FollowsIn, Stays
<1> QED
  BY <1>6, <1>10, <1>11

-----------------------------------------------------------------------------
(* What an edit does to a patch *)

\* What the modules of a patch may be.
Racks   == UNION {[S -> Module] : S \in SUBSET Modules}
Content == [modules : Racks, cables : SUBSET Cable]

\* The patches the engine can hold.
Patches ==
  {p \in [modules : Racks, cables : SUBSET Cable, order : Seq(Modules)] :
     IsInjective(p.order) /\ Range(p.order) = DOMAIN p.modules}

Edits ==
  [kind : {"ModuleAdd", "ModuleRemove"}, id : Modules, module : Module]
    \cup [kind : {"CableAdd", "CableRemove"}, cable : Cable]
    \cup [kind : {"Change"}, fields : SUBSET {"param", "bypass", "column"}, old : Racks, new : Racks]

\* What Racks holds.
LEMMA RackFacts ==
  /\ \A r \in Racks : DOMAIN r \subseteq Modules /\ r \in [DOMAIN r -> Module]
  /\ \A S \in SUBSET Modules : \A r \in [S -> Module] : r \in Racks /\ DOMAIN r = S
<1>1. ASSUME NEW r \in Racks PROVE DOMAIN r \subseteq Modules /\ r \in [DOMAIN r -> Module]
  <2>1. PICK S \in SUBSET Modules : r \in [S -> Module]
    BY DEF Racks
  <2> QED
    BY <2>1
<1>2. ASSUME NEW S \in SUBSET Modules, NEW r \in [S -> Module] PROVE r \in Racks /\ DOMAIN r = S
  BY DEF Racks
<1> QED
  BY <1>1, <1>2

\* What a patch is made of.
LEMMA PatchFacts ==
  ASSUME NEW p \in Patches
  PROVE  /\ p \in [modules : Racks, cables : SUBSET Cable, order : Seq(Modules)]
         /\ p.modules \in Racks /\ p.cables \subseteq Cable /\ p.order \in Seq(Modules)
         /\ Present(p) \subseteq Modules /\ p.modules \in [Present(p) -> Module]
         /\ IsInjective(p.order) /\ Range(p.order) = Present(p)
         /\ Contents(p) \in Content
         /\ Contents(p).modules = p.modules /\ Contents(p).cables = p.cables /\ Present(Contents(p)) = Present(p)
<1>1. /\ p \in [modules : Racks, cables : SUBSET Cable, order : Seq(Modules)]
      /\ p.modules \in Racks /\ p.cables \in SUBSET Cable /\ p.order \in Seq(Modules)
      /\ IsInjective(p.order) /\ Range(p.order) = DOMAIN p.modules
  BY DEF Patches
<1> QED
  BY <1>1, RackFacts DEF Contents, Content, Present

\* A patch with other cables.
LEMMA OtherCables ==
  ASSUME NEW p \in Patches, NEW c \in SUBSET Cable, NEW q, q = [p EXCEPT !.cables = c]
  PROVE  q \in Patches /\ q.modules = p.modules /\ q.cables = c
<1>1. p \in [modules : Racks, cables : SUBSET Cable, order : Seq(Modules)] /\ IsInjective(p.order) /\ Range(p.order) = DOMAIN p.modules
  BY PatchFacts DEF Present
<1>2. q \in [modules : Racks, cables : SUBSET Cable, order : Seq(Modules)] /\ q.modules = p.modules /\ q.cables = c /\ q.order = p.order
  BY <1>1
<1> QED
  BY <1>1, <1>2 DEF Patches

\* A module put into a patch.
LEMMA InsertDone ==
  ASSUME NEW p \in Patches, NEW id \in Modules, id \notin Present(p), NEW m \in Module
  PROVE  /\ Insert(p, id, m) \in Patches /\ Present(Insert(p, id, m)) = Present(p) \cup {id}
         /\ Insert(p, id, m).cables = p.cables
         /\ Insert(p, id, m).modules[id] = m
         /\ \A i \in Present(p) : Insert(p, id, m).modules[i] = p.modules[i]
<1> DEFINE r == [i \in Present(p) \cup {id} |-> IF i = id THEN m ELSE p.modules[i]]
           o == Append(p.order, id)
<1>2. Insert(p, id, m) = [p EXCEPT !.modules = r, !.order = o]
  BY DEF Insert
<1>3. Present(p) \cup {id} \in SUBSET Modules /\ r \in [Present(p) \cup {id} -> Module]
  BY PatchFacts
<1>4. r \in Racks /\ DOMAIN r = Present(p) \cup {id}
  BY <1>3, RackFacts
<1>5. o \in Seq(Modules) /\ IsInjective(o) /\ Range(o) = Present(p) \cup {id}
  BY PatchFacts, DistinctLonger
<1> HIDE DEF o
<1>6. /\ \A i \in Present(p) : r[i] = p.modules[i]
      /\ r[id] = m
  OBVIOUS
<1> HIDE DEF r
<1>7. PICK q : q = Insert(p, id, m)
  OBVIOUS
<1>8. q \in Patches /\ q.modules = r /\ q.cables = p.cables
  <2>1. q = [p EXCEPT !.modules = r, !.order = o]
    BY <1>2, <1>7
  <2>2. r \in Racks /\ o \in Seq(Modules) /\ IsInjective(o) /\ Range(o) = DOMAIN r
    BY <1>4, <1>5
  <2>3. p \in [modules : Racks, cables : SUBSET Cable, order : Seq(Modules)]
    BY PatchFacts
  <2>4. q \in [modules : Racks, cables : SUBSET Cable, order : Seq(Modules)] /\ q.modules = r /\ q.cables = p.cables /\ q.order = o
    BY <2>1, <2>2, <2>3
  <2> QED
    BY <2>2, <2>4 DEF Patches
<1> QED
  BY <1>4, <1>6, <1>7, <1>8 DEF Present

\* A module taken out of a patch.
LEMMA DeleteDone ==
  ASSUME NEW p \in Patches, NEW id \in Present(p)
  PROVE  /\ Delete(p, id) \in Patches /\ Present(Delete(p, id)) = Present(p) \ {id}
         /\ Delete(p, id).cables = p.cables
         /\ \A i \in Present(p) \ {id} : Delete(p, id).modules[i] = p.modules[i]
<1> DEFINE r == [i \in Present(p) \ {id} |-> p.modules[i]]
           k == CHOOSE n \in DOMAIN p.order : p.order[n] = id
           o == RemoveAt(p.order, k)
<1>2. Delete(p, id) = [p EXCEPT !.modules = r, !.order = o]
  BY DEF Delete
<1>3. k \in DOMAIN p.order /\ p.order[k] = id
  <2>1. \E n \in DOMAIN p.order : p.order[n] = id
    BY PatchFacts DEF Range
  <2> QED
    BY <2>1
<1>4. Present(p) \ {id} \in SUBSET Modules /\ r \in [Present(p) \ {id} -> Module]
  BY PatchFacts
<1>5. r \in Racks /\ DOMAIN r = Present(p) \ {id}
  BY <1>4, RackFacts
<1> HIDE DEF k
<1>6. o \in Seq(Modules) /\ IsInjective(o) /\ Range(o) = Present(p) \ {id}
  BY <1>3, PatchFacts, DistinctShorter
<1> HIDE DEF o
<1>7. \A i \in Present(p) \ {id} : r[i] = p.modules[i]
  OBVIOUS
<1> HIDE DEF r
<1>8. PICK q : q = Delete(p, id)
  OBVIOUS
<1>9. q \in Patches /\ q.modules = r /\ q.cables = p.cables
  <2>1. q = [p EXCEPT !.modules = r, !.order = o]
    BY <1>2, <1>8
  <2>2. r \in Racks /\ o \in Seq(Modules) /\ IsInjective(o) /\ Range(o) = DOMAIN r
    BY <1>5, <1>6
  <2>3. p \in [modules : Racks, cables : SUBSET Cable, order : Seq(Modules)]
    BY PatchFacts
  <2>4. q \in [modules : Racks, cables : SUBSET Cable, order : Seq(Modules)] /\ q.modules = r /\ q.cables = p.cables /\ q.order = o
    BY <2>1, <2>2, <2>3
  <2> QED
    BY <2>2, <2>4 DEF Patches
<1> QED
  BY <1>5, <1>7, <1>8, <1>9 DEF Present

\* Mixing two modules gives a module.
LEMMA WithModule ==
  ASSUME NEW m \in Module, NEW v \in Module, NEW fields
  PROVE  With(m, fields, v) \in Module
  BY DEF With, Module

\* Values that were there take the place of others.
LEMMA WithBack ==
  ASSUME NEW m \in Module, NEW v \in Module, NEW w \in Module, NEW fields, With(m, fields, w) = m
  PROVE  With(With(m, fields, v), fields, w) = m
  BY DEF With, Module

\* Values given to modules of a patch.
LEMMA AssignDone ==
  ASSUME NEW p \in Patches, NEW fields, NEW values \in Racks
  PROVE  /\ Assign(p, fields, values) \in Patches /\ Present(Assign(p, fields, values)) = Present(p)
         /\ Assign(p, fields, values).cables = p.cables
         /\ \A i \in Present(p) : Assign(p, fields, values).modules[i] =
              IF i \in DOMAIN values THEN With(p.modules[i], fields, values[i]) ELSE p.modules[i]
<1> DEFINE r == [i \in Present(p) |-> IF i \in DOMAIN values THEN With(p.modules[i], fields, values[i]) ELSE p.modules[i]]
<1>2. Assign(p, fields, values) = [p EXCEPT !.modules = r]
  BY DEF Assign, Present
<1>3. \A i \in DOMAIN values : values[i] \in Module
  BY RackFacts
<1>4. Present(p) \in SUBSET Modules /\ \A i \in Present(p) : p.modules[i] \in Module
  BY PatchFacts
<1>5. r \in [Present(p) -> Module]
  BY <1>3, <1>4, WithModule
<1>6. r \in Racks /\ DOMAIN r = Present(p)
  BY <1>4, <1>5, RackFacts
<1>7. \A i \in Present(p) : r[i] = IF i \in DOMAIN values THEN With(p.modules[i], fields, values[i]) ELSE p.modules[i]
  OBVIOUS
<1> HIDE DEF r
<1>8. PICK q : q = [p EXCEPT !.modules = r] /\ q = Assign(p, fields, values)
  BY <1>2
<1>9. p \in [modules : Racks, cables : SUBSET Cable, order : Seq(Modules)] /\ IsInjective(p.order) /\ Range(p.order) = Present(p)
  BY PatchFacts
<1>10. q \in [modules : Racks, cables : SUBSET Cable, order : Seq(Modules)] /\ q.modules = r /\ q.cables = p.cables /\ q.order = p.order
  BY <1>6, <1>8, <1>9
<1>11. q \in Patches
  BY <1>6, <1>9, <1>10 DEF Patches
<1> QED
  BY <1>6, <1>7, <1>8, <1>10, <1>11 DEF Present

\* A cable plugged and unplugged.
LEMMA CablesDone ==
  ASSUME NEW p \in Patches, NEW c \in Cable
  PROVE  /\ Plug(p, c) \in Patches /\ Plug(p, c).modules = p.modules /\ Plug(p, c).cables = p.cables \cup {c}
         /\ Unplug(p, c) \in Patches /\ Unplug(p, c).modules = p.modules /\ Unplug(p, c).cables = p.cables \ {c}
<1>1. p.cables \cup {c} \in SUBSET Cable /\ p.cables \ {c} \in SUBSET Cable
  BY PatchFacts
<1>2. Plug(p, c) = [p EXCEPT !.cables = p.cables \cup {c}] /\ Unplug(p, c) = [p EXCEPT !.cables = p.cables \ {c}]
  BY DEF Plug, Unplug
<1> QED
  BY <1>1, <1>2, OtherCables

(* Walks: from patch to patch, one edit at a time. How much of the patches  *)
(* a walk is about depends on who has interfered: their modules always,     *)
(* their cables unless an edit went unrecorded, and the settings of the     *)
(* modules unless a worker thread set one.                                  *)

\* c and d agree on which modules there are, and on what is seen of the rest.
Alike(c, d, seen) ==
  /\ Present(c) = Present(d)
  /\ "cables" \in seen => c.cables = d.cables
  /\ "settings" \in seen => c.modules = d.modules

\* d has one module more than c.
Gains(c, id, m, d, seen) ==
  /\ id \notin Present(c) /\ Present(d) = Present(c) \cup {id}
  /\ "cables" \in seen => c.cables = d.cables
  /\ "settings" \in seen => d.modules[id] = m /\ \A i \in Present(c) : d.modules[i] = c.modules[i]

\* d has one cable more than c.
Takes(c, cable, d, seen) ==
  /\ Present(d) = Present(c)
  /\ "cables" \in seen => cable \notin c.cables /\ d.cables = c.cables \cup {cable}
  /\ "settings" \in seen => c.modules = d.modules

\* d has some values of modules of c replaced.
Alters(c, fields, old, new, d, seen) ==
  /\ Present(d) = Present(c) /\ DOMAIN old = DOMAIN new
  /\ "cables" \in seen => c.cables = d.cables
  /\ "settings" \in seen =>
       \A i \in Present(c) :
         IF i \in DOMAIN old
         THEN With(c.modules[i], fields, old[i]) = c.modules[i] /\ d.modules[i] = With(c.modules[i], fields, new[i])
         ELSE d.modules[i] = c.modules[i]

\* Redoing the edit a leads from c to d, undoing it back. A module goes
\* after its cables; a cable joins modules that exist, at a free input.
Moves(c, a, d, seen) ==
  CASE a.kind = "ModuleAdd"    -> Gains(c, a.id, a.module, d, seen)
    [] a.kind = "ModuleRemove" -> /\ Gains(d, a.id, a.module, c, seen)
                                  /\ "cables" \in seen => Attached(c, a.id) = {}
    [] a.kind = "CableAdd"     -> /\ Takes(c, a.cable, d, seen)
                                  /\ {a.cable.out, a.cable.in} \subseteq Present(c)
                                  /\ "cables" \in seen => \A e \in c.cables : e.in # a.cable.in
    [] a.kind = "CableRemove"  -> Takes(d, a.cable, c, seen)
    [] a.kind = "Change"       -> Alters(c, a.fields, a.old, a.new, d, seen)

\* The edits es lead from each of the contents ps to the next.
Walk(es, ps, seen) ==
  /\ es \in Seq(Edits) /\ ps \in [0..Len(es) -> Content]
  /\ \A n \in 1..Len(es) : Moves(ps[n - 1], es[n], ps[n], seen)

\* The kinds of edits.
LEMMA EditFacts ==
  ASSUME NEW a \in Edits
  PROVE  \/ a.kind = "ModuleAdd" /\ a.id \in Modules /\ a.module \in Module
         \/ a.kind = "ModuleRemove" /\ a.id \in Modules /\ a.module \in Module
         \/ a.kind = "CableAdd" /\ a.cable \in Cable
         \/ a.kind = "CableRemove" /\ a.cable \in Cable
         \/ a.kind = "Change" /\ a.old \in Racks /\ a.new \in Racks
  BY DEF Edits

\* What contents are made of.
LEMMA ContentFacts ==
  ASSUME NEW c \in Content
  PROVE  c.modules \in [Present(c) -> Module] /\ Present(c) \subseteq Modules /\ c.modules \in Racks /\ c.cables \subseteq Cable
  BY RackFacts DEF Content, Present

\* Being alike is an equivalence.
LEMMA AlikeEquivalence ==
  ASSUME NEW seen
  PROVE  /\ \A c : Alike(c, c, seen)
         /\ \A c, d : Alike(c, d, seen) => Alike(d, c, seen)
         /\ \A c, d, e : Alike(c, d, seen) /\ Alike(d, e, seen) => Alike(c, e, seen)
  BY DEF Alike

\* Knowing less.
LEMMA AlikeLess ==
  ASSUME NEW seen, NEW less \in SUBSET seen, NEW c, NEW d, Alike(c, d, seen)
  PROVE  Alike(c, d, less)
  BY DEF Alike

\* An edit leads where it leads, also for who sees less.
LEMMA MovesLess ==
  ASSUME NEW seen, NEW less \in SUBSET seen, NEW a \in Edits, NEW c, NEW d, Moves(c, a, d, seen)
  PROVE  Moves(c, a, d, less)
<1>1. CASE a.kind = "ModuleAdd"
  BY <1>1 DEF Moves, Gains
<1>2. CASE a.kind = "ModuleRemove"
  BY <1>2 DEF Moves, Gains
<1>3. CASE a.kind = "CableAdd"
  BY <1>3 DEF Moves, Takes
<1>4. CASE a.kind = "CableRemove"
  BY <1>4 DEF Moves, Takes
<1>5. CASE a.kind = "Change"
  BY <1>5 DEF Moves, Alters
<1> QED
  BY <1>1, <1>2, <1>3, <1>4, <1>5, EditFacts

\* It leads there from contents alike.
LEMMA MovesAlike ==
  ASSUME NEW seen, NEW a \in Edits, NEW c, NEW d, NEW e, Moves(c, a, d, seen), Alike(e, c, seen)
  PROVE  Moves(e, a, d, seen)
<1>1. CASE a.kind = "ModuleAdd"
  BY <1>1 DEF Moves, Gains, Alike
<1>2. CASE a.kind = "ModuleRemove"
  BY <1>2 DEF Moves, Gains, Alike, Attached
<1>3. CASE a.kind = "CableAdd"
  BY <1>3 DEF Moves, Takes, Alike
<1>4. CASE a.kind = "CableRemove"
  BY <1>4 DEF Moves, Takes, Alike
<1>5. CASE a.kind = "Change"
  BY <1>5 DEF Moves, Alters, Alike
<1> QED
  BY <1>1, <1>2, <1>3, <1>4, <1>5, EditFacts

\* Racks that agree on every module are the same.
LEMMA SameSettings ==
  ASSUME NEW c \in Content, NEW d \in Content, Present(c) = Present(d), \A i \in Present(c) : c.modules[i] = d.modules[i]
  PROVE  c.modules = d.modules
<1>1. c.modules \in [Present(c) -> Module] /\ d.modules \in [Present(c) -> Module]
  BY ContentFacts
<1> QED
  BY <1>1

\* Redo goes where an edit leads.
LEMMA RedoMoves ==
  ASSUME NEW seen, NEW a \in Edits, NEW p \in Patches, NEW c \in Content, NEW d \in Content,
         Moves(c, a, d, seen), Alike(Contents(p), c, seen)
  PROVE  Redo(p, a) \in Patches /\ Alike(Contents(Redo(p, a)), d, seen)
<1>1. /\ Present(p) = Present(c)
      /\ "cables" \in seen => p.cables = c.cables
      /\ "settings" \in seen => p.modules = c.modules
  BY PatchFacts DEF Alike
<1>2. ASSUME NEW q \in Patches, Present(q) = Present(d), "cables" \in seen => q.cables = d.cables,
             "settings" \in seen => \A i \in Present(d) : q.modules[i] = d.modules[i]
      PROVE  Alike(Contents(q), d, seen)
  <2>1. /\ Contents(q) \in Content /\ Present(Contents(q)) = Present(d) /\ Contents(q).cables = q.cables
        /\ Contents(q).modules = q.modules
    BY <1>2, PatchFacts
  <2>2. "settings" \in seen => Contents(q).modules = d.modules
    BY <1>2, <2>1, SameSettings
  <2> QED
    BY <1>2, <2>1, <2>2 DEF Alike
<1>3. CASE a.kind = "ModuleAdd"
  <2>1. Gains(c, a.id, a.module, d, seen) /\ a.id \in Modules /\ a.module \in Module /\ Redo(p, a) = Insert(p, a.id, a.module)
    BY <1>3, EditFacts DEF Moves, Redo
  <2>2. a.id \notin Present(p)
    BY <1>1, <2>1 DEF Gains
  <2> QED
    BY <1>1, <1>2, <2>1, <2>2, InsertDone DEF Gains
<1>4. CASE a.kind = "ModuleRemove"
  <2>1. Gains(d, a.id, a.module, c, seen) /\ Redo(p, a) = Delete(p, a.id)
    BY <1>4, EditFacts DEF Moves, Redo
  <2>2. a.id \in Present(p) /\ Present(d) = Present(p) \ {a.id}
    BY <1>1, <2>1 DEF Gains
  <2> QED
    BY <1>1, <1>2, <2>1, <2>2, DeleteDone DEF Gains
<1>5. CASE a.kind = "CableAdd"
  <2>1. Takes(c, a.cable, d, seen) /\ a.cable \in Cable /\ Redo(p, a) = Plug(p, a.cable)
    BY <1>5, EditFacts DEF Moves, Redo
  <2>2. PICK q \in Patches : q = Plug(p, a.cable) /\ q.modules = p.modules /\ q.cables = p.cables \cup {a.cable}
    BY <2>1, CablesDone
  <2>3. Present(q) = Present(p)
    BY <2>2 DEF Present
  <2>4. Present(q) = Present(d) /\ ("cables" \in seen => q.cables = d.cables)
    BY <1>1, <2>1, <2>2, <2>3 DEF Takes
  <2>5. "settings" \in seen => \A i \in Present(d) : q.modules[i] = d.modules[i]
    BY <1>1, <2>1, <2>2 DEF Takes
  <2> QED
    BY <1>2, <2>1, <2>2, <2>4, <2>5
<1>6. CASE a.kind = "CableRemove"
  <2>1. Takes(d, a.cable, c, seen) /\ a.cable \in Cable /\ Redo(p, a) = Unplug(p, a.cable)
    BY <1>6, EditFacts DEF Moves, Redo
  <2>2. PICK q \in Patches : q = Unplug(p, a.cable) /\ q.modules = p.modules /\ q.cables = p.cables \ {a.cable}
    BY <2>1, CablesDone
  <2>3. Present(q) = Present(p)
    BY <2>2 DEF Present
  <2>4. Present(q) = Present(d) /\ ("cables" \in seen => q.cables = d.cables)
    BY <1>1, <2>1, <2>2, <2>3 DEF Takes
  <2>5. "settings" \in seen => \A i \in Present(d) : q.modules[i] = d.modules[i]
    BY <1>1, <2>1, <2>2 DEF Takes
  <2> QED
    BY <1>2, <2>1, <2>2, <2>4, <2>5
<1>7. CASE a.kind = "Change"
  <2>1. Alters(c, a.fields, a.old, a.new, d, seen) /\ a.new \in Racks /\ Redo(p, a) = Assign(p, a.fields, a.new)
    BY <1>7, EditFacts DEF Moves, Redo
  <2> QED
    BY <1>1, <1>2, <2>1, AssignDone DEF Alters
<1> QED
  BY <1>3, <1>4, <1>5, <1>6, <1>7, EditFacts

\* Undo goes back.
LEMMA UndoMoves ==
  ASSUME NEW seen, NEW a \in Edits, NEW p \in Patches, NEW c \in Content, NEW d \in Content,
         Moves(c, a, d, seen), Alike(Contents(p), d, seen)
  PROVE  Undo(p, a) \in Patches /\ Alike(Contents(Undo(p, a)), c, seen)
<1>1. /\ Present(p) = Present(d)
      /\ "cables" \in seen => p.cables = d.cables
      /\ "settings" \in seen => p.modules = d.modules
  BY PatchFacts DEF Alike
<1>2. ASSUME NEW q \in Patches, Present(q) = Present(c), "cables" \in seen => q.cables = c.cables,
             "settings" \in seen => \A i \in Present(c) : q.modules[i] = c.modules[i]
      PROVE  Alike(Contents(q), c, seen)
  <2>1. /\ Contents(q) \in Content /\ Present(Contents(q)) = Present(c) /\ Contents(q).cables = q.cables
        /\ Contents(q).modules = q.modules
    BY <1>2, PatchFacts
  <2>2. "settings" \in seen => Contents(q).modules = c.modules
    BY <1>2, <2>1, SameSettings
  <2> QED
    BY <1>2, <2>1, <2>2 DEF Alike
<1>3. CASE a.kind = "ModuleAdd"
  <2>1. Gains(c, a.id, a.module, d, seen) /\ Undo(p, a) = Delete(p, a.id)
    BY <1>3, EditFacts DEF Moves, Undo
  <2>2. a.id \in Present(p) /\ Present(c) = Present(p) \ {a.id}
    BY <1>1, <2>1 DEF Gains
  <2> QED
    BY <1>1, <1>2, <2>1, <2>2, DeleteDone DEF Gains
<1>4. CASE a.kind = "ModuleRemove"
  <2>1. Gains(d, a.id, a.module, c, seen) /\ a.id \in Modules /\ a.module \in Module /\ Undo(p, a) = Insert(p, a.id, a.module)
    BY <1>4, EditFacts DEF Moves, Undo
  <2>2. a.id \notin Present(p)
    BY <1>1, <2>1 DEF Gains
  <2> QED
    BY <1>1, <1>2, <2>1, <2>2, InsertDone DEF Gains
<1>5. CASE a.kind = "CableAdd"
  <2>1. Takes(c, a.cable, d, seen) /\ a.cable \in Cable /\ Undo(p, a) = Unplug(p, a.cable)
    BY <1>5, EditFacts DEF Moves, Undo
  <2>2. PICK q \in Patches : q = Unplug(p, a.cable) /\ q.modules = p.modules /\ q.cables = p.cables \ {a.cable}
    BY <2>1, CablesDone
  <2>3. Present(q) = Present(p)
    BY <2>2 DEF Present
  <2>4. Present(q) = Present(c) /\ ("cables" \in seen => q.cables = c.cables)
    BY <1>1, <2>1, <2>2, <2>3 DEF Takes
  <2>5. "settings" \in seen => \A i \in Present(c) : q.modules[i] = c.modules[i]
    BY <1>1, <2>1, <2>2 DEF Takes
  <2> QED
    BY <1>2, <2>1, <2>2, <2>4, <2>5
<1>6. CASE a.kind = "CableRemove"
  <2>1. Takes(d, a.cable, c, seen) /\ a.cable \in Cable /\ Undo(p, a) = Plug(p, a.cable)
    BY <1>6, EditFacts DEF Moves, Undo
  <2>2. PICK q \in Patches : q = Plug(p, a.cable) /\ q.modules = p.modules /\ q.cables = p.cables \cup {a.cable}
    BY <2>1, CablesDone
  <2>3. Present(q) = Present(p)
    BY <2>2 DEF Present
  <2>4. Present(q) = Present(c) /\ ("cables" \in seen => q.cables = c.cables)
    BY <1>1, <2>1, <2>2, <2>3 DEF Takes
  <2>5. "settings" \in seen => \A i \in Present(c) : q.modules[i] = c.modules[i]
    BY <1>1, <2>1, <2>2 DEF Takes
  <2> QED
    BY <1>2, <2>1, <2>2, <2>4, <2>5
<1>7. CASE a.kind = "Change"
  <2>1. Alters(c, a.fields, a.old, a.new, d, seen) /\ a.new \in Racks /\ a.old \in Racks /\ Undo(p, a) = Assign(p, a.fields, a.old)
    BY <1>7, EditFacts DEF Moves, Undo
  <2>2. PICK q \in Patches : q = Assign(p, a.fields, a.old)
    BY <2>1, AssignDone
  <2>3. /\ Present(q) = Present(c) /\ q.cables = p.cables
        /\ \A i \in Present(p) : q.modules[i] =
             IF i \in DOMAIN a.old THEN With(p.modules[i], a.fields, a.old[i]) ELSE p.modules[i]
    BY <1>1, <2>1, <2>2, AssignDone DEF Alters
  <2>4. ASSUME "settings" \in seen, NEW i \in Present(c) PROVE q.modules[i] = c.modules[i]
    <3>1. c.modules[i] \in Module
      BY ContentFacts
    <3>2. \A j \in DOMAIN a.old : a.old[j] \in Module /\ a.new[j] \in Module
      BY <2>1, RackFacts DEF Alters
    <3>3. CASE i \in DOMAIN a.old
      <4>1. With(c.modules[i], a.fields, a.old[i]) = c.modules[i] /\ d.modules[i] = With(c.modules[i], a.fields, a.new[i])
        BY <2>1, <2>4, <3>3 DEF Alters
      <4>2. With(With(c.modules[i], a.fields, a.new[i]), a.fields, a.old[i]) = c.modules[i]
        BY <3>1, <3>2, <3>3, <4>1, WithBack
      <4> QED
        BY <1>1, <2>1, <2>3, <2>4, <3>3, <4>1, <4>2 DEF Alters
    <3>4. CASE i \notin DOMAIN a.old
      BY <1>1, <2>1, <2>3, <2>4, <3>4 DEF Alters
    <3> QED
      BY <3>3, <3>4
  <2>5. "cables" \in seen => q.cables = c.cables
    BY <1>1, <2>1, <2>3 DEF Alters
  <2> QED
    BY <1>2, <2>1, <2>2, <2>3, <2>4, <2>5
<1> QED
  BY <1>3, <1>4, <1>5, <1>6, <1>7, EditFacts

-----------------------------------------------------------------------------
(* Sequences of edits *)

\* What a walk is made of.
LEMMA WalkFacts ==
  ASSUME NEW seen, NEW es \in Seq(Edits), NEW ps, Walk(es, ps, seen), NEW n \in Nat, n = Len(es)
  PROVE  /\ \A i \in 0..n : ps[i] \in Content
         /\ \A i \in 1..n : es[i] \in Edits /\ Moves(ps[i - 1], es[i], ps[i], seen)
<1>1. \A i \in 1..n : es[i] \in Edits
  BY ElementOfSeq
<1> QED
  BY <1>1 DEF Walk

\* Numbers of a stretch.
LEMMA WithinStretch ==
  ASSUME NEW l \in Nat, NEW m \in Nat, NEW n \in Nat, NEW k \in Nat, m <= n, n <= l, k = n - m
  PROVE  /\ \A i \in 0..k : m + i \in 0..l
         /\ \A i \in 1..k : i \in 0..k /\ i - 1 \in 0..k /\ m + i \in 1..l /\ (m + i) - 1 = m + (i - 1)
  OBVIOUS

\* A stretch of a walk is a walk.
LEMMA WalkStretch ==
  ASSUME NEW seen, NEW es \in Seq(Edits), NEW ps, Walk(es, ps, seen),
         NEW l \in Nat, l = Len(es), NEW m \in Nat, NEW n \in Nat, m <= n, n <= l
  PROVE  Walk(Between(es, m, n), [i \in 0..n - m |-> ps[m + i]], seen)
<1> DEFINE bs == Between(es, m, n)
<1>1. PICK k \in Nat : k = n - m
  OBVIOUS
<1>2. /\ \A i \in 0..l : ps[i] \in Content
      /\ \A i \in 1..l : Moves(ps[i - 1], es[i], ps[i], seen)
  BY <1>1, WalkFacts
<1>3. bs \in Seq(Edits) /\ Len(bs) = k /\ \A i \in 1..k : bs[i] = es[m + i]
  <2>1. bs \in Seq(Edits) /\ Len(bs) = k
    BY <1>1, Stretch
  <2>2. ASSUME NEW i \in 1..k PROVE bs[i] = es[m + i]
    <3>1. PICK j \in Nat : j = m + i /\ j <= n /\ i \in Nat /\ i > 0
      <4>1. m + i \in Nat /\ m + i <= n /\ i \in Nat /\ i > 0
        BY <1>1
      <4> QED
        BY <4>1
    <3> QED
      BY <3>1, StretchAt
  <2> QED
    BY <2>1, <2>2
<1> HIDE DEF bs
<1> DEFINE qs == [i \in 0..k |-> ps[m + i]]
<1>4. \A i \in 0..k : m + i \in 0..l
  BY <1>1, WithinStretch
<1>5. qs \in [0..k -> Content]
  BY <1>1, <1>2, <1>4
<1>6. ASSUME NEW i \in 1..k PROVE Moves(qs[i - 1], bs[i], qs[i], seen)
  <2>1. i \in 0..k /\ i - 1 \in 0..k /\ m + i \in 1..l /\ (m + i) - 1 = m + (i - 1)
    BY <1>1, WithinStretch
  <2>2. qs[i] = ps[m + i] /\ qs[i - 1] = ps[(m + i) - 1]
    BY <1>1, <2>1
  <2>3. Moves(ps[(m + i) - 1], es[m + i], ps[m + i], seen)
    BY <1>2, <2>1
  <2> QED
    BY <1>3, <2>2, <2>3
<1> HIDE DEF qs
<1>7. Walk(bs, qs, seen)
  BY <1>3, <1>5, <1>6 DEF Walk
<1>8. qs = [i \in 0..n - m |-> ps[m + i]]
  BY <1>1 DEF qs
<1> QED
  BY <1>7, <1>8 DEF bs

\* Two walks, the second from where the first ends.
LEMMA WalksJoined ==
  ASSUME NEW seen, NEW es \in Seq(Edits), NEW ps, Walk(es, ps, seen), NEW bs \in Seq(Edits), NEW qs, Walk(bs, qs, seen),
         Alike(ps[Len(es)], qs[0], seen)
  PROVE  \E rs : /\ Walk(es \o bs, rs, seen) /\ rs[0] = ps[0]
                 /\ Alike(rs[Len(es \o bs)], qs[Len(bs)], seen)
<1> DEFINE cs == es \o bs
<1>1. PICK m \in Nat, n \in Nat : m = Len(es) /\ n = Len(bs)
  <2>1. Len(es) \in Nat /\ Len(bs) \in Nat
    BY LenProperties
  <2> QED
    BY <2>1
<1>2. /\ (\A i \in 0..m : ps[i] \in Content)
      /\ (\A i \in 1..m : es[i] \in Edits /\ Moves(ps[i - 1], es[i], ps[i], seen))
      /\ (\A i \in 0..n : qs[i] \in Content)
      /\ (\A i \in 1..n : bs[i] \in Edits /\ Moves(qs[i - 1], bs[i], qs[i], seen))
  BY <1>1, WalkFacts
<1>3. cs \in Seq(Edits) /\ Len(cs) = m + n /\ (\A i \in 1..m : cs[i] = es[i]) /\ (\A i \in 1..n : cs[m + i] = bs[i])
  <2>1. cs \in Seq(Edits) /\ Len(cs) = m + n
    BY <1>1, JoinedAt
  <2>2. ASSUME NEW i \in 1..m PROVE cs[i] = es[i]
    <3>1. i \in Nat /\ i > 0 /\ i <= m
      OBVIOUS
    <3> QED
      BY <1>1, <3>1, JoinedAt
  <2>3. ASSUME NEW i \in 1..n PROVE cs[m + i] = bs[i]
    <3>1. i \in Nat /\ i > 0 /\ i <= n /\ m + i \in Nat
      OBVIOUS
    <3> QED
      BY <1>1, <3>1, JoinedAt
  <2> QED
    BY <2>1, <2>2, <2>3
<1> HIDE DEF cs
<1> DEFINE rs == [i \in 0..m + n |-> IF i <= m THEN ps[i] ELSE qs[i - m]]
<1>4. rs \in [0..m + n -> Content]
  <2>1. \A i \in 0..m + n : (i <= m /\ i \in 0..m) \/ (~ (i <= m) /\ i - m \in 0..n)
    OBVIOUS
  <2> QED
    BY <1>2, <2>1
<1>5. (\A i \in 0..m : rs[i] = ps[i]) /\ (\A i \in 1..n : rs[m + i] = qs[i])
  <2>1. \A i \in 0..m : i \in 0..m + n /\ i <= m
    OBVIOUS
  <2>2. ASSUME NEW i \in 1..n PROVE rs[m + i] = qs[i]
    <3>1. m + i \in 0..m + n /\ ~ (m + i <= m) /\ (m + i) - m = i
      OBVIOUS
    <3> QED
      BY <3>1
  <2> QED
    BY <2>1, <2>2
<1> HIDE DEF rs
<1>6. \A i \in 0..n : Alike(rs[m + i], qs[i], seen)
  <2> TAKE i \in 0..n
  <2>1. CASE i = 0
    <3>1. m \in 0..m /\ m + 0 = m
      OBVIOUS
    <3> QED
      BY <1>1, <1>5, <2>1, <3>1
  <2>2. CASE i # 0
    <3>1. i \in 1..n
      BY <2>2
    <3> QED
      BY <1>5, <3>1, AlikeEquivalence
  <2> QED
    BY <2>1, <2>2
<1>7. ASSUME NEW i \in 1..m + n PROVE Moves(rs[i - 1], cs[i], rs[i], seen)
  <2>1. CASE i \in 1..m
    <3>1. i - 1 \in 0..m /\ i \in 0..m
      BY <2>1
    <3> QED
      BY <1>2, <1>3, <1>5, <2>1, <3>1
  <2>2. CASE i \notin 1..m
    <3>1. PICK j \in 1..n : i = m + j /\ i - 1 = m + (j - 1) /\ j - 1 \in 0..n
      <4>1. i - m \in 1..n /\ i = m + (i - m) /\ i - 1 = m + ((i - m) - 1) /\ (i - m) - 1 \in 0..n
        BY <2>2
      <4> QED
        BY <4>1
    <3>2. Alike(rs[i - 1], qs[j - 1], seen) /\ rs[i] = qs[j] /\ cs[i] = bs[j]
      BY <1>3, <1>5, <1>6, <3>1
    <3>3. Moves(qs[j - 1], bs[j], qs[j], seen) /\ bs[j] \in Edits
      BY <1>2
    <3> QED
      BY <3>2, <3>3, MovesAlike
  <2> QED
    BY <2>1, <2>2
<1>8. Walk(cs, rs, seen)
  BY <1>3, <1>4, <1>7 DEF Walk
<1>9. rs[0] = ps[0] /\ Alike(rs[m + n], qs[n], seen)
  <2>1. 0 \in 0..m /\ n \in 0..n
    OBVIOUS
  <2> QED
    BY <1>5, <1>6, <2>1
<1> QED
  BY <1>1, <1>3, <1>8, <1>9 DEF cs

\* The edits lead from c to d.
Leads(es, c, d, seen) ==
  \E ps : Walk(es, ps, seen) /\ Alike(ps[0], c, seen) /\ Alike(ps[Len(es)], d, seen)

\* No edit leads nowhere.
LEMMA LeadsNowhere ==
  ASSUME NEW seen, NEW c \in Content, NEW d, Alike(c, d, seen)
  PROVE  Leads(<<>>, c, d, seen)
<1> DEFINE ps == [n \in 0..0 |-> c]
<1>1. <<>> \in Seq(Edits) /\ Len(<<>>) = 0
  BY EmptySeq
<1>2. ps \in [0..0 -> Content] /\ ps[0] = c
  OBVIOUS
<1> HIDE DEF ps
<1>3. Walk(<<>>, ps, seen)
  BY <1>1, <1>2 DEF Walk
<1> QED
  BY <1>1, <1>2, <1>3, AlikeEquivalence DEF Leads

\* One edit leads where it leads.
LEMMA LeadsOneStep ==
  ASSUME NEW seen, NEW c \in Content, NEW d \in Content, NEW a \in Edits, Moves(c, a, d, seen)
  PROVE  Leads(<<a>>, c, d, seen)
<1> DEFINE ps == [n \in 0..1 |-> IF n = 0 THEN c ELSE d]
<1>1. <<a>> \in Seq(Edits) /\ Len(<<a>>) = 1 /\ <<a>>[1] = a
  OBVIOUS
<1>2. ps \in [0..1 -> Content] /\ ps[0] = c /\ ps[1] = d
  OBVIOUS
<1> HIDE DEF ps
<1>3. \A n \in 1..1 : n = 1 /\ n - 1 = 0
  OBVIOUS
<1>4. Walk(<<a>>, ps, seen)
  BY <1>1, <1>2, <1>3 DEF Walk
<1> QED
  BY <1>1, <1>2, <1>4, AlikeEquivalence DEF Leads

\* Edits, and others from where they lead.
LEMMA LeadsFarther ==
  ASSUME NEW seen, NEW c, NEW d, NEW e, NEW es \in Seq(Edits), Leads(es, c, d, seen), NEW bs \in Seq(Edits), Leads(bs, d, e, seen)
  PROVE  Leads(es \o bs, c, e, seen)
<1>1. PICK ps : Walk(es, ps, seen) /\ Alike(ps[0], c, seen) /\ Alike(ps[Len(es)], d, seen)
  BY DEF Leads
<1>2. PICK qs : Walk(bs, qs, seen) /\ Alike(qs[0], d, seen) /\ Alike(qs[Len(bs)], e, seen)
  BY DEF Leads
<1>3. Alike(ps[Len(es)], qs[0], seen)
  BY <1>1, <1>2, AlikeEquivalence
<1>4. PICK rs : Walk(es \o bs, rs, seen) /\ rs[0] = ps[0] /\ Alike(rs[Len(es \o bs)], qs[Len(bs)], seen)
  BY <1>1, <1>2, <1>3, WalksJoined
<1>5. Alike(rs[Len(es \o bs)], e, seen) /\ Alike(rs[0], c, seen)
  BY <1>1, <1>2, <1>4, AlikeEquivalence
<1> QED
  BY <1>4, <1>5 DEF Leads

\* Edits, and one more.
LEMMA LeadsAppend ==
  ASSUME NEW seen, NEW c, NEW d \in Content, NEW e \in Content, NEW es \in Seq(Edits), Leads(es, c, d, seen),
         NEW a \in Edits, Moves(d, a, e, seen)
  PROVE  Leads(Append(es, a), c, e, seen)
<1>1. Leads(<<a>>, d, e, seen)
  BY LeadsOneStep
<1>2. PICK b \in Seq(Edits) : b = <<a>>
  <2>1. <<a>> \in Seq(Edits)
    OBVIOUS
  <2> QED
    BY <2>1
<1>3. Leads(es \o b, c, e, seen)
  BY <1>1, <1>2, LeadsFarther
<1>4. Append(es, a) = es \o b
  BY <1>2, AppendIsConcat
<1> QED
  BY <1>3, <1>4

\* Edits lead from and to whatever is alike.
LEMMA LeadsAlike ==
  ASSUME NEW seen, NEW es \in Seq(Edits), NEW c, NEW d, Leads(es, c, d, seen), NEW e, Alike(c, e, seen), NEW f, Alike(d, f, seen)
  PROVE  Leads(es, e, f, seen)
  BY AlikeEquivalence DEF Leads

\* They do so also for who sees less.
LEMMA LeadsLess ==
  ASSUME NEW seen, NEW less \in SUBSET seen, NEW es \in Seq(Edits), NEW c, NEW d, Leads(es, c, d, seen)
  PROVE  Leads(es, c, d, less)
<1>1. PICK ps : Walk(es, ps, seen) /\ Alike(ps[0], c, seen) /\ Alike(ps[Len(es)], d, seen)
  BY DEF Leads
<1>2. PICK n \in Nat : n = Len(es)
  BY LenProperties
<1>3. ASSUME NEW i \in 1..n PROVE Moves(ps[i - 1], es[i], ps[i], less)
  <2>1. es[i] \in Edits /\ Moves(ps[i - 1], es[i], ps[i], seen)
    BY <1>1, <1>2, WalkFacts
  <2>2. PICK a \in Edits : a = es[i] /\ Moves(ps[i - 1], a, ps[i], seen)
    BY <2>1
  <2>3. Moves(ps[i - 1], a, ps[i], less)
    BY <2>2, MovesLess
  <2> QED
    BY <2>2, <2>3
<1>4. Walk(es, ps, less)
  BY <1>1, <1>2, <1>3 DEF Walk
<1>5. Alike(ps[0], c, less) /\ Alike(ps[Len(es)], d, less)
  BY <1>1, AlikeLess
<1> QED
  BY <1>4, <1>5 DEF Leads

\* A walk leads from each of its patches to each later one.
LEMMA WalkLeads ==
  ASSUME NEW seen, NEW es \in Seq(Edits), NEW ps, Walk(es, ps, seen),
         NEW l \in Nat, l = Len(es), NEW m \in Nat, NEW n \in Nat, m <= n, n <= l
  PROVE  Leads(Between(es, m, n), ps[m], ps[n], seen)
<1> DEFINE qs == [i \in 0..n - m |-> ps[m + i]]
<1>1. Walk(Between(es, m, n), qs, seen)
  BY WalkStretch
<1>2. Len(Between(es, m, n)) = n - m
  <2>1. PICK k \in Nat : k = n - m
    OBVIOUS
  <2>2. Between(es, m, n) \in Seq(Edits) /\ Len(Between(es, m, n)) = k
    BY <2>1, Stretch
  <2> QED
    BY <2>1, <2>2
<1>3. qs[0] = ps[m] /\ qs[n - m] = ps[n]
  <2>1. 0 \in 0..n - m /\ m + 0 = m /\ n - m \in 0..n - m /\ m + (n - m) = n
    OBVIOUS
  <2> QED
    BY <2>1
<1> HIDE DEF qs
<1> QED
  BY <1>1, <1>2, <1>3, AlikeEquivalence DEF Leads

\* The first edit, and the others from where it leads.
LEMMA LeadsFirst ==
  ASSUME NEW seen, NEW es \in Seq(Edits), es # <<>>, NEW c, NEW d, Leads(es, c, d, seen)
  PROVE  /\ Head(es) \in Edits /\ Tail(es) \in Seq(Edits)
         /\ \E e \in Content : Moves(c, Head(es), e, seen) /\ Leads(Tail(es), e, d, seen)
<1>1. PICK ps : Walk(es, ps, seen) /\ Alike(ps[0], c, seen) /\ Alike(ps[Len(es)], d, seen)
  BY DEF Leads
<1>2. PICK n \in Nat : n = Len(es)
  BY LenProperties
<1>3. n > 0 /\ Head(es) = es[1] /\ es[1] \in Edits /\ Tail(es) \in Seq(Edits) /\ Tail(es) = Between(es, 1, n)
  <2>1. n > 0 /\ Head(es) = es[1] /\ es[1] \in Edits /\ Tail(es) \in Seq(Edits)
    BY <1>2, AllButFirst
  <2>2. Tail(es) = SubSeq(es, 2, Len(es)) /\ 1 + 1 = 2
    BY TailIsSubSeq
  <2> QED
    BY <1>2, <2>1, <2>2 DEF Between
<1>4. Moves(ps[0], es[1], ps[1], seen) /\ ps[1] \in Content
  <2>1. 1 \in 1..n /\ 1 - 1 = 0 /\ 1 \in 0..n
    BY <1>3
  <2>2. Moves(ps[1 - 1], es[1], ps[1], seen) /\ ps[1] \in Content
    BY <1>1, <1>2, <2>1, WalkFacts
  <2> QED
    BY <2>1, <2>2
<1>5. Moves(c, Head(es), ps[1], seen)
  BY <1>1, <1>3, <1>4, MovesAlike, AlikeEquivalence
<1>6. Leads(Tail(es), ps[1], ps[n], seen)
  <2>1. PICK z \in Nat : z = 1
    OBVIOUS
  <2>2. z <= n /\ n <= n
    BY <1>3, <2>1
  <2>3. Leads(Between(es, z, n), ps[z], ps[n], seen)
    BY <1>1, <1>2, <2>2, WalkLeads
  <2> QED
    BY <1>3, <2>1, <2>3
<1>7. Leads(Tail(es), ps[1], d, seen)
  <2>1. Alike(ps[1], ps[1], seen) /\ Alike(ps[n], d, seen)
    BY <1>1, <1>2, AlikeEquivalence
  <2> QED
    BY <1>3, <1>6, <2>1, LeadsAlike, Zenon
<1> QED
  BY <1>3, <1>4, <1>5, <1>7

\* The last edit, from where the others lead.
LEMMA LeadsLast ==
  ASSUME NEW seen, NEW es \in Seq(Edits), es # <<>>, NEW c, NEW d, Leads(es, c, d, seen)
  PROVE  /\ Last(es) \in Edits /\ Front(es) \in Seq(Edits)
         /\ \E e \in Content, f \in Content : /\ Leads(Front(es), c, e, seen) /\ Moves(e, Last(es), f, seen)
                                              /\ Alike(f, d, seen)
<1>1. PICK ps : Walk(es, ps, seen) /\ Alike(ps[0], c, seen) /\ Alike(ps[Len(es)], d, seen)
  BY DEF Leads
<1>2. PICK n \in Nat : n = Len(es)
  BY LenProperties
<1>3. n > 0 /\ Last(es) = es[n] /\ es[n] \in Edits /\ Front(es) \in Seq(Edits)
  BY <1>2, AllButLast
<1>4. PICK k \in Nat : k = n - 1 /\ k <= n
  BY <1>3
<1>5. Moves(ps[k], es[n], ps[n], seen) /\ ps[k] \in Content /\ ps[n] \in Content
  <2>1. n \in 1..n /\ n \in 0..n /\ k \in 0..n
    BY <1>3, <1>4
  <2>2. Moves(ps[n - 1], es[n], ps[n], seen) /\ ps[n] \in Content /\ ps[k] \in Content
    BY <1>1, <1>2, <2>1, WalkFacts
  <2> QED
    BY <1>4, <2>2
<1>6. Front(es) = Between(es, 0, k)
  BY <1>2, <1>4 DEF Front, Between
<1>7. Leads(Front(es), ps[0], ps[k], seen)
  <2>1. PICK z \in Nat : z = 0
    OBVIOUS
  <2>2. z <= k /\ k <= n
    BY <1>4, <2>1
  <2>3. Leads(Between(es, z, k), ps[z], ps[k], seen)
    BY <1>1, <1>2, <2>2, WalkLeads
  <2> QED
    BY <1>6, <2>1, <2>3
<1>8. Leads(Front(es), c, ps[k], seen)
  <2>1. Alike(ps[k], ps[k], seen)
    BY AlikeEquivalence
  <2> QED
    BY <1>1, <1>3, <1>7, <2>1, LeadsAlike, Zenon
<1> QED
  BY <1>1, <1>2, <1>3, <1>5, <1>8

\* A patch like the one the edits lead to is, when they are undone, like the
\* one they lead from.
LEMMA UndoneAll ==
  ASSUME NEW seen, NEW es \in Seq(Edits), NEW c, NEW d, Leads(es, c, d, seen),
         NEW p \in Patches, Alike(Contents(p), d, seen)
  PROVE  UndoAll(p, es) \in Patches /\ Alike(Contents(UndoAll(p, es)), c, seen)
<1>1. PICK ps : Walk(es, ps, seen) /\ Alike(ps[0], c, seen) /\ Alike(ps[Len(es)], d, seen)
  BY DEF Leads
<1>2. PICK n \in Nat : n = Len(es)
  BY LenProperties
<1> DEFINE G == [k \in 0..n |-> {q \in Patches : Alike(Contents(q), ps[n - k], seen)}]
           f == [k \in 1..n |-> [q \in Patches |-> Undo(q, es[n - k + 1])]]
<1>3. G \in [0..n -> SUBSET Patches]
  OBVIOUS
<1>4. \A k \in 0..n : G[k] = {q \in Patches : Alike(Contents(q), ps[n - k], seen)}
  OBVIOUS
<1>5. \A k \in 1..n : \A q \in Patches : f[k][q] = Undo(q, es[n - k + 1])
  OBVIOUS
<1> HIDE DEF G, f
<1>6. p \in G[0]
  <2>1. 0 \in 0..n /\ n - 0 = n
    OBVIOUS
  <2>2. Alike(Contents(p), ps[n], seen)
    BY <1>1, <1>2, AlikeEquivalence
  <2> QED
    BY <1>4, <2>1, <2>2
<1>7. ASSUME NEW k \in 1..n, NEW q \in G[k - 1] PROVE q \in Patches /\ f[k][q] \in G[k]
  <2>1. PICK i \in 1..n : i = n - k + 1 /\ i - 1 = n - k /\ i = n - (k - 1)
    <3>1. n - k + 1 \in 1..n /\ (n - k + 1) - 1 = n - k /\ n - k + 1 = n - (k - 1)
      OBVIOUS
    <3> QED
      BY <3>1
  <2>2. k \in 0..n /\ k - 1 \in 0..n /\ i \in 0..n /\ i - 1 \in 0..n
    OBVIOUS
  <2>3. es[i] \in Edits /\ Moves(ps[i - 1], es[i], ps[i], seen) /\ ps[i] \in Content /\ ps[i - 1] \in Content
    BY <1>1, <1>2, <2>2, WalkFacts
  <2>4. q \in Patches /\ Alike(Contents(q), ps[i], seen)
    BY <1>4, <2>1, <2>2
  <2>5. Undo(q, es[i]) \in Patches /\ Alike(Contents(Undo(q, es[i])), ps[i - 1], seen)
    BY <2>3, <2>4, UndoMoves
  <2>6. f[k][q] = Undo(q, es[i])
    BY <1>5, <2>1, <2>4
  <2>7. G[k] = {x \in Patches : Alike(Contents(x), ps[i - 1], seen)}
    BY <1>4, <2>1, <2>2
  <2> QED
    BY <2>4, <2>5, <2>6, <2>7
<1>8. \A k \in 1..n : \A q \in G[k - 1] : f[k][q] \in G[k]
  BY <1>7
<1> DEFINE Before(b) == [k \in 0..n |-> IF k = 0 THEN p ELSE Undo(b[k - 1], es[n - k + 1])]
<1>9. \E b : b = Before(b)
  <2>1. PICK h \in Paths(n, Patches) : Follows(h, p, f, n)
    BY <1>3, <1>6, <1>8, Carried
  <2>2. ASSUME NEW k \in 0..n PROVE h[k] = IF k = 0 THEN p ELSE Undo(h[k - 1], es[n - k + 1])
    <3>1. CASE k = 0
      BY <2>1, <3>1 DEF Follows
    <3>2. CASE k # 0
      <4>1. k \in 1..n /\ k - 1 \in 0..n
        BY <3>2
      <4>2. h[k - 1] \in Patches
        BY <4>1 DEF Paths
      <4>3. h[k] = f[k][h[k - 1]]
        BY <2>1, <4>1 DEF Follows
      <4> QED
        BY <1>5, <3>2, <4>1, <4>2, <4>3
    <3> QED
      BY <3>1, <3>2
  <2>3. h = Before(h)
    BY <2>2 DEF Paths
  <2> QED
    BY <2>3
<1> DEFINE before == CHOOSE b : b = Before(b)
<1>10. before = Before(before)
  <2> HIDE DEF Before
  <2> QED
    BY <1>9
<1>11. UndoAll(p, es) = before[n]
  BY <1>2 DEF UndoAll
<1> HIDE DEF before
<1>12. before[0] = p /\ \A k \in 1..n : before[k] = Undo(before[k - 1], es[n - k + 1])
  <2>1. \A k \in 0..n : before[k] = IF k = 0 THEN p ELSE Undo(before[k - 1], es[n - k + 1])
    BY <1>10
  <2>2. \A k \in 1..n : k \in 0..n /\ k # 0
    OBVIOUS
  <2>3. 0 \in 0..n
    OBVIOUS
  <2> QED
    BY <2>1, <2>2, <2>3
<1> HIDE DEF Before
<1>13. FollowsIn(before, p, f, n, G)
  BY <1>5, <1>7, <1>12 DEF FollowsIn
<1>14. Stays(before, n, G)
  BY <1>3, <1>6, <1>8, <1>13, Carried
<1>15. before[n] \in G[n] /\ n \in 0..n /\ n - n = 0
  BY <1>14 DEF Stays
<1>16. before[n] \in Patches /\ Alike(Contents(before[n]), ps[0], seen)
  BY <1>4, <1>15
<1> QED
  BY <1>1, <1>11, <1>16, AlikeEquivalence
\* And redoing them.
LEMMA RedoneAll ==
  ASSUME NEW seen, NEW es \in Seq(Edits), NEW c, NEW d, Leads(es, c, d, seen),
         NEW p \in Patches, Alike(Contents(p), c, seen)
  PROVE  RedoAll(p, es) \in Patches /\ Alike(Contents(RedoAll(p, es)), d, seen)
<1>1. PICK ps : Walk(es, ps, seen) /\ Alike(ps[0], c, seen) /\ Alike(ps[Len(es)], d, seen)
  BY DEF Leads
<1>2. PICK n \in Nat : n = Len(es)
  BY LenProperties
<1> DEFINE G == [k \in 0..n |-> {q \in Patches : Alike(Contents(q), ps[k], seen)}]
           f == [k \in 1..n |-> [q \in Patches |-> Redo(q, es[k])]]
<1>3. G \in [0..n -> SUBSET Patches]
  OBVIOUS
<1>4. \A k \in 0..n : G[k] = {q \in Patches : Alike(Contents(q), ps[k], seen)}
  OBVIOUS
<1>5. \A k \in 1..n : \A q \in Patches : f[k][q] = Redo(q, es[k])
  OBVIOUS
<1> HIDE DEF G, f
<1>6. p \in G[0]
  <2>1. 0 \in 0..n
    OBVIOUS
  <2>2. Alike(Contents(p), ps[0], seen)
    BY <1>1, <1>2, AlikeEquivalence
  <2> QED
    BY <1>4, <2>1, <2>2
<1>7. ASSUME NEW k \in 1..n, NEW q \in G[k - 1] PROVE q \in Patches /\ f[k][q] \in G[k]
  <2>1. k \in 0..n /\ k - 1 \in 0..n
    OBVIOUS
  <2>2. es[k] \in Edits /\ Moves(ps[k - 1], es[k], ps[k], seen) /\ ps[k] \in Content /\ ps[k - 1] \in Content
    BY <1>1, <1>2, <2>1, WalkFacts
  <2>3. q \in Patches /\ Alike(Contents(q), ps[k - 1], seen)
    BY <1>4, <2>1
  <2>4. Redo(q, es[k]) \in Patches /\ Alike(Contents(Redo(q, es[k])), ps[k], seen)
    BY <2>2, <2>3, RedoMoves
  <2>5. f[k][q] = Redo(q, es[k])
    BY <1>5, <2>3
  <2>6. G[k] = {x \in Patches : Alike(Contents(x), ps[k], seen)}
    BY <1>4, <2>1
  <2> QED
    BY <2>3, <2>4, <2>5, <2>6
<1>8. \A k \in 1..n : \A q \in G[k - 1] : f[k][q] \in G[k]
  BY <1>7
<1> DEFINE After(b) == [k \in 0..n |-> IF k = 0 THEN p ELSE Redo(b[k - 1], es[k])]
<1>9. \E b : b = After(b)
  <2>1. PICK h \in Paths(n, Patches) : Follows(h, p, f, n)
    BY <1>3, <1>6, <1>8, Carried
  <2>2. ASSUME NEW k \in 0..n PROVE h[k] = IF k = 0 THEN p ELSE Redo(h[k - 1], es[k])
    <3>1. CASE k = 0
      BY <2>1, <3>1 DEF Follows
    <3>2. CASE k # 0
      <4>1. k \in 1..n /\ k - 1 \in 0..n
        BY <3>2
      <4>2. h[k - 1] \in Patches
        BY <4>1 DEF Paths
      <4>3. h[k] = f[k][h[k - 1]]
        BY <2>1, <4>1 DEF Follows
      <4> QED
        BY <1>5, <3>2, <4>1, <4>2, <4>3
    <3> QED
      BY <3>1, <3>2
  <2>3. h = After(h)
    BY <2>2 DEF Paths
  <2> QED
    BY <2>3
<1> DEFINE after == CHOOSE b : b = After(b)
<1>10. after = After(after)
  <2> HIDE DEF After
  <2> QED
    BY <1>9
<1>11. RedoAll(p, es) = after[n]
  BY <1>2 DEF RedoAll
<1> HIDE DEF after
<1>12. after[0] = p /\ \A k \in 1..n : after[k] = Redo(after[k - 1], es[k])
  <2>1. \A k \in 0..n : after[k] = IF k = 0 THEN p ELSE Redo(after[k - 1], es[k])
    BY <1>10
  <2>2. \A k \in 1..n : k \in 0..n /\ k # 0
    OBVIOUS
  <2>3. 0 \in 0..n
    OBVIOUS
  <2> QED
    BY <2>1, <2>2, <2>3
<1> HIDE DEF After
<1>13. FollowsIn(after, p, f, n, G)
  BY <1>5, <1>7, <1>12 DEF FollowsIn
<1>14. Stays(after, n, G)
  BY <1>3, <1>6, <1>8, <1>13, Carried
<1>15. after[n] \in G[n] /\ n \in 0..n
  BY <1>14 DEF Stays
<1>16. after[n] \in Patches /\ Alike(Contents(after[n]), ps[n], seen)
  BY <1>4, <1>15
<1> QED
  BY <1>1, <1>2, <1>11, <1>16, AlikeEquivalence
\* And undoing the first m entries of a history, newest first.
LedBack(p, entries, m) ==
  LET before[n \in 0..m] == IF n = 0 THEN p ELSE UndoAll(before[n - 1], entries[m - n + 1].actions)
  IN before[m]

\* Undoing n entries, each of which leads from one content to the next.
LEMMA UndoneHistory ==
  ASSUME NEW seen, NEW n \in Nat, NEW entries, NEW ps,
         \A i \in 1..n : entries[i].actions \in Seq(Edits) /\ Leads(entries[i].actions, ps[i - 1], ps[i], seen),
         NEW p \in Patches, Alike(Contents(p), ps[n], seen)
  PROVE  LedBack(p, entries, n) \in Patches /\ Alike(Contents(LedBack(p, entries, n)), ps[0], seen)
<1> DEFINE G == [k \in 0..n |-> {q \in Patches : Alike(Contents(q), ps[n - k], seen)}]
           f == [k \in 1..n |-> [q \in Patches |-> UndoAll(q, entries[n - k + 1].actions)]]
<1>3. G \in [0..n -> SUBSET Patches]
  OBVIOUS
<1>4. \A k \in 0..n : G[k] = {q \in Patches : Alike(Contents(q), ps[n - k], seen)}
  OBVIOUS
<1>5. \A k \in 1..n : \A q \in Patches : f[k][q] = UndoAll(q, entries[n - k + 1].actions)
  OBVIOUS
<1> HIDE DEF G, f
<1>6. p \in G[0]
  <2>1. 0 \in 0..n /\ n - 0 = n
    OBVIOUS
  <2> QED
    BY <1>4, <2>1
<1>7. ASSUME NEW k \in 1..n, NEW q \in G[k - 1] PROVE q \in Patches /\ f[k][q] \in G[k]
  <2>1. PICK i \in 1..n : i = n - k + 1 /\ i - 1 = n - k /\ i = n - (k - 1)
    <3>1. n - k + 1 \in 1..n /\ (n - k + 1) - 1 = n - k /\ n - k + 1 = n - (k - 1)
      OBVIOUS
    <3> QED
      BY <3>1
  <2>2. k \in 0..n /\ k - 1 \in 0..n /\ i \in 0..n /\ i - 1 \in 0..n
    OBVIOUS
  <2>3. entries[i].actions \in Seq(Edits) /\ Leads(entries[i].actions, ps[i - 1], ps[i], seen)
    OBVIOUS
  <2>4. q \in Patches /\ Alike(Contents(q), ps[i], seen)
    BY <1>4, <2>1, <2>2
  <2>5. UndoAll(q, entries[i].actions) \in Patches /\ Alike(Contents(UndoAll(q, entries[i].actions)), ps[i - 1], seen)
    BY <2>3, <2>4, UndoneAll
  <2>6. f[k][q] = UndoAll(q, entries[i].actions)
    BY <1>5, <2>1, <2>4
  <2>7. G[k] = {x \in Patches : Alike(Contents(x), ps[i - 1], seen)}
    BY <1>4, <2>1, <2>2
  <2> QED
    BY <2>4, <2>5, <2>6, <2>7
<1>8. \A k \in 1..n : \A q \in G[k - 1] : f[k][q] \in G[k]
  BY <1>7
<1> DEFINE Before(b) == [k \in 0..n |-> IF k = 0 THEN p ELSE UndoAll(b[k - 1], entries[n - k + 1].actions)]
<1>9. \E b : b = Before(b)
  <2>1. PICK h \in Paths(n, Patches) : Follows(h, p, f, n)
    BY <1>3, <1>6, <1>8, Carried
  <2>2. ASSUME NEW k \in 0..n PROVE h[k] = IF k = 0 THEN p ELSE UndoAll(h[k - 1], entries[n - k + 1].actions)
    <3>1. CASE k = 0
      BY <2>1, <3>1 DEF Follows
    <3>2. CASE k # 0
      <4>1. k \in 1..n /\ k - 1 \in 0..n
        BY <3>2
      <4>2. h[k - 1] \in Patches
        BY <4>1 DEF Paths
      <4>3. h[k] = f[k][h[k - 1]]
        BY <2>1, <4>1 DEF Follows
      <4> QED
        BY <1>5, <3>2, <4>1, <4>2, <4>3
    <3> QED
      BY <3>1, <3>2
  <2>3. h = Before(h)
    BY <2>2 DEF Paths
  <2> QED
    BY <2>3
<1> DEFINE before == CHOOSE b : b = Before(b)
<1>10. before = Before(before)
  <2> HIDE DEF Before
  <2> QED
    BY <1>9
<1>11. LedBack(p, entries, n) = before[n]
  BY DEF LedBack
<1> HIDE DEF before
<1>12. before[0] = p /\ \A k \in 1..n : before[k] = UndoAll(before[k - 1], entries[n - k + 1].actions)
  <2>1. \A k \in 0..n : before[k] = IF k = 0 THEN p ELSE UndoAll(before[k - 1], entries[n - k + 1].actions)
    BY <1>10
  <2>2. \A k \in 1..n : k \in 0..n /\ k # 0
    OBVIOUS
  <2>3. 0 \in 0..n
    OBVIOUS
  <2> QED
    BY <2>1, <2>2, <2>3
<1> HIDE DEF Before
<1>13. FollowsIn(before, p, f, n, G)
  BY <1>5, <1>7, <1>12 DEF FollowsIn
<1>14. Stays(before, n, G)
  BY <1>3, <1>6, <1>8, <1>13, Carried
<1>15. before[n] \in G[n] /\ n \in 0..n /\ n - n = 0
  BY <1>14 DEF Stays
<1>16. before[n] \in Patches /\ Alike(Contents(before[n]), ps[0], seen)
  BY <1>4, <1>15
<1> QED
  BY <1>11, <1>16

-----------------------------------------------------------------------------
(* Cables *)

\* Cables join modules that exist and no input has two.
Wired(c) ==
  /\ \A e \in c.cables : {e.out, e.in} \subseteq Present(c)
  /\ \A e, f \in c.cables : e.in = f.in => e = f

\* It is seen with the cables.
LEMMA WiredAlike ==
  ASSUME NEW seen, "cables" \in seen, NEW c, NEW d, Alike(c, d, seen), Wired(c)
  PROVE  Wired(d)
  BY DEF Alike, Wired

\* An edit leaves the patch wired.
LEMMA WiredOn ==
  ASSUME NEW seen, "cables" \in seen, NEW a \in Edits, NEW c, NEW d, Moves(c, a, d, seen), Wired(c)
  PROVE  Wired(d)
<1>1. CASE a.kind = "ModuleAdd"
  BY <1>1 DEF Moves, Gains, Wired
<1>2. CASE a.kind = "ModuleRemove"
  <2>1. Present(c) = Present(d) \cup {a.id} /\ d.cables = c.cables /\ Attached(c, a.id) = {}
    BY <1>2 DEF Moves, Gains
  <2>2. \A e \in c.cables : a.id \notin {e.out, e.in}
    BY <2>1 DEF Attached
  <2> QED
    BY <2>1, <2>2 DEF Wired
<1>3. CASE a.kind = "CableAdd"
  <2>1. /\ Present(d) = Present(c) /\ d.cables = c.cables \cup {a.cable}
        /\ {a.cable.out, a.cable.in} \subseteq Present(c) /\ \A e \in c.cables : e.in # a.cable.in
    BY <1>3 DEF Moves, Takes
  <2> QED
    BY <2>1 DEF Wired
<1>4. CASE a.kind = "CableRemove"
  <2>1. Present(d) = Present(c) /\ d.cables \subseteq c.cables
    BY <1>4 DEF Moves, Takes
  <2> QED
    BY <2>1 DEF Wired
<1>5. CASE a.kind = "Change"
  BY <1>5 DEF Moves, Alters, Wired
<1> QED
  BY <1>1, <1>2, <1>3, <1>4, <1>5, EditFacts

\* Edits lead from a wired patch to a wired one.
LEMMA LeadsWired ==
  ASSUME NEW seen, "cables" \in seen, NEW es \in Seq(Edits), NEW c, NEW d, Leads(es, c, d, seen), Wired(c)
  PROVE  Wired(d)
<1>1. PICK ps : Walk(es, ps, seen) /\ Alike(ps[0], c, seen) /\ Alike(ps[Len(es)], d, seen)
  BY DEF Leads
<1>2. PICK n \in Nat : n = Len(es)
  BY LenProperties
<1> DEFINE S == {k \in 0..n : Wired(ps[k])}
<1>3. 0 \in S
  <2>1. Wired(ps[0])
    BY <1>1, WiredAlike, AlikeEquivalence
  <2> QED
    BY <2>1
<1>4. ASSUME NEW k \in 0..n, k \in S, k < n PROVE k + 1 \in S
  <2>1. PICK i \in 1..n : i = k + 1 /\ i - 1 = k /\ i \in 0..n
    <3>1. k + 1 \in 1..n /\ (k + 1) - 1 = k
      BY <1>4
    <3> QED
      BY <3>1
  <2>2. es[i] \in Edits /\ Moves(ps[k], es[i], ps[i], seen)
    BY <1>1, <1>2, <2>1, WalkFacts
  <2>3. Wired(ps[i])
    BY <1>4, <2>2, WiredOn
  <2> QED
    BY <2>1, <2>3
<1>5. \A k \in 0..n : k \in S
  <2> HIDE DEF S
  <2> QED
    BY <1>3, <1>4, Reaches
<1>6. Wired(ps[n])
  BY <1>5
<1> QED
  BY <1>1, <1>2, <1>6, WiredAlike

\* There are finitely many cables.
LEMMA FiniteCables == IsFiniteSet(Cable)
<1>1. IsFiniteSet(Modules)
  BY IdAssumption, FS_Union DEF Modules
<1>2. IsFiniteSet(Modules \X Modules)
  BY <1>1, FS_Product
<1> DEFINE f == [c \in Cable |-> <<c.out, c.in>>]
<1>3. f \in Injection(Cable, Modules \X Modules)
  <2>1. \A c \in Cable : c.out \in Modules /\ c.in \in Modules
    BY DEF Cable
  <2>2. \A c, d \in Cable : c.out = d.out /\ c.in = d.in => c = d
    BY DEF Cable
  <2>3. f \in [Cable -> Modules \X Modules]
    BY <2>1
  <2>4. \A c, d \in Cable : f[c] = f[d] => c = d
    BY <2>2
  <2> QED
    BY <2>3, <2>4 DEF Injection, IsInjective
<1> QED
  BY <1>2, <1>3, FS_Injection

\* Nothing hidden.
Everything == {"cables", "settings"}

\* Removing cables one by one.
LEMMA CablesRemoved ==
  ASSUME NEW c \in Content, NEW cables \in SUBSET c.cables, NEW d \in Content,
         d.modules = c.modules, d.cables = c.cables \ cables
  PROVE  /\ CableRemoves(cables) \in Seq(Edits) /\ Leads(CableRemoves(cables), c, d, Everything)
         /\ \A i \in DOMAIN CableRemoves(cables) : CableRemoves(cables)[i].kind = "CableRemove"
<1>1. PICK order \in Seq(cables) : order = SetToSeq(cables) /\ IsInjective(order) /\ Range(order) = cables
  <2>1. cables \subseteq Cable
    BY ContentFacts
  <2>2. IsFiniteSet(cables)
    BY <2>1, FiniteCables, FS_Subset
  <2> QED
    BY <2>2, SetInOrder
<1>2. PICK n \in Nat : n = Len(order) /\ DOMAIN order = 1..n
  BY LenProperties
<1>3. \A i \in 1..n : order[i] \in cables /\ order[i] \in Cable /\ order[i] \in c.cables
  BY <1>1, <1>2, ContentFacts DEF Range
<1>4. \A i, j \in 1..n : order[i] = order[j] => i = j
  BY <1>1, <1>2 DEF IsInjective
<1>5. PICK es : es = CableRemoves(cables)
  OBVIOUS
<1>6. es = [i \in 1..n |-> CableRemove(order[i])]
  BY <1>1, <1>2, <1>5 DEF CableRemoves
<1>7. \A i \in 1..n : CableRemove(order[i]) \in Edits
  BY <1>3 DEF CableRemove, Edits
<1>8. es \in Seq(Edits) /\ Len(es) = n
  BY <1>6, <1>7
<1>9. \A i \in 1..n : es[i].kind = "CableRemove" /\ es[i].cable = order[i]
  BY <1>6 DEF CableRemove
<1> DEFINE gone(k) == {order[i] : i \in 1..k}
           ps == [k \in 0..n |-> [modules |-> c.modules, cables |-> c.cables \ gone(k)]]
<1>10. ps \in [0..n -> Content] /\ \A k \in 0..n : ps[k].modules = c.modules /\ ps[k].cables = c.cables \ gone(k)
  BY DEF Content
<1> HIDE DEF ps
<1>11. ASSUME NEW k \in 1..n PROVE Moves(ps[k - 1], es[k], ps[k], Everything)
  <2>1. PICK j \in 0..n : j = k - 1 /\ k \in 0..n
    <3>1. k - 1 \in 0..n /\ k \in 0..n
      OBVIOUS
    <3> QED
      BY <3>1
  <2>2. gone(k) = gone(j) \cup {order[k]}
    <3>1. \A i \in 1..k : i \in 1..j \/ i = k
      BY <2>1
    <3>2. \A i \in 1..j : i \in 1..k
      BY <2>1
    <3>3. k \in 1..k
      OBVIOUS
    <3> QED
      BY <3>1, <3>2, <3>3
  <2>3. order[k] \notin gone(j)
    <3>1. \A i \in 1..j : i \in 1..n /\ i # k
      BY <2>1
    <3> QED
      BY <1>4, <3>1
  <2> HIDE DEF gone
  <2>4. ps[j].modules = ps[k].modules /\ ps[j].cables = ps[k].cables \cup {order[k]} /\ order[k] \notin ps[k].cables
    BY <1>3, <1>10, <2>1, <2>2, <2>3
  <2>5. Takes(ps[k], order[k], ps[j], Everything)
    BY <2>4 DEF Takes, Present
  <2>6. Moves(ps[j], es[k], ps[k], Everything)
    BY <1>9, <2>5 DEF Moves
  <2> QED
    BY <2>1, <2>6
<1>12. Walk(es, ps, Everything)
  BY <1>8, <1>10, <1>11 DEF Walk
<1>13. Alike(ps[0], c, Everything) /\ Alike(ps[n], d, Everything)
  <2>1. gone(0) = {} /\ gone(n) = cables
    <3>1. \A i \in 1..0 : FALSE
      OBVIOUS
    <3>2. gone(n) = Range(order)
      BY <1>2 DEF Range
    <3> QED
      BY <1>1, <3>1, <3>2
  <2> HIDE DEF gone
  <2>2. 0 \in 0..n /\ n \in 0..n
    OBVIOUS
  <2> QED
    BY <1>10, <2>1, <2>2 DEF Alike, Present
<1>14. DOMAIN es = 1..n
  BY <1>6
<1> QED
  BY <1>5, <1>8, <1>9, <1>12, <1>13, <1>14 DEF Leads

-----------------------------------------------------------------------------
(* The operations of a plan *)

\* The edits lead from c to d; only the first may add a module, one of ids.
Performs(es, c, d, ids) ==
  /\ es \in Seq(Edits) /\ Leads(es, c, d, Everything)
  /\ \A i \in DOMAIN es : es[i].kind = "ModuleAdd" => i = 1 /\ es[i].id \in ids

\* No edit.
LEMMA PerformedNothing ==
  ASSUME NEW c \in Content, NEW ids
  PROVE  Performs(<<>>, c, c, ids)
<1>1. Leads(<<>>, c, c, Everything)
  BY LeadsNowhere, AlikeEquivalence
<1> QED
  BY <1>1 DEF Performs

\* One edit.
LEMMA PerformedOne ==
  ASSUME NEW c \in Content, NEW d \in Content, NEW ids, NEW a \in Edits, Moves(c, a, d, Everything),
         a.kind = "ModuleAdd" => a.id \in ids
  PROVE  Performs(<<a>>, c, d, ids)
<1>1. Leads(<<a>>, c, d, Everything)
  BY LeadsOneStep
<1>2. <<a>> \in Seq(Edits) /\ DOMAIN <<a>> = 1..1 /\ <<a>>[1] = a
  OBVIOUS
<1> QED
  BY <1>1, <1>2 DEF Performs

\* More modules may be added than are.
LEMMA PerformedOnMore ==
  ASSUME NEW ids, NEW es, NEW c, NEW d, Performs(es, c, d, {})
  PROVE  Performs(es, c, d, ids)
  BY DEF Performs

\* An operation made of two.
LEMMA PerformedBoth ==
  ASSUME NEW ids, NEW es, NEW c, NEW d, Performs(es, c, d, ids), NEW fs, NEW e, Performs(fs, d, e, {})
  PROVE  Performs(es \o fs, c, e, ids)
<1>1. es \in Seq(Edits) /\ fs \in Seq(Edits) /\ Leads(es, c, d, Everything) /\ Leads(fs, d, e, Everything)
  BY DEF Performs
<1>2. PICK m \in Nat : m = Len(es) /\ DOMAIN es = 1..m
  BY <1>1, LenProperties
<1>3. PICK n \in Nat : n = Len(fs) /\ DOMAIN fs = 1..n
  BY <1>1, LenProperties
<1>4. PICK gs \in Seq(Edits) : gs = es \o fs /\ Len(gs) = m + n
  <2>1. es \o fs \in Seq(Edits) /\ Len(es \o fs) = Len(es) + Len(fs)
    BY <1>1, ConcatProperties
  <2> QED
    BY <1>2, <1>3, <2>1
<1>5. ASSUME NEW i \in 1..m + n, gs[i].kind = "ModuleAdd" PROVE i = 1 /\ gs[i].id \in ids
  <2>1. CASE i <= m
    <3>1. i \in DOMAIN es /\ gs[i] = es[i]
      BY <1>1, <1>2, <1>3, <1>4, <2>1, JoinedAt
    <3> QED
      BY <1>5, <3>1 DEF Performs
  <2>2. CASE i > m
    <3>1. PICK j \in Nat : i = m + j /\ j > 0 /\ j <= n
      <4>1. i - m \in Nat /\ i = m + (i - m) /\ i - m > 0 /\ i - m <= n
        BY <2>2
      <4> QED
        BY <4>1
    <3>2. j \in DOMAIN fs /\ gs[i] = fs[j]
      BY <1>1, <1>2, <1>3, <1>4, <3>1, JoinedAt
    <3> QED
      BY <1>5, <3>2 DEF Performs
  <2> QED
    BY <2>1, <2>2
<1>6. DOMAIN gs = 1..m + n
  BY <1>4, LenProperties
<1>7. Leads(gs, c, e, Everything)
  BY <1>1, <1>4, LeadsFarther
<1> QED
  BY <1>4, <1>5, <1>6, <1>7 DEF Performs

\* Every edit is one of the five kinds.
LEMMA EditsMade ==
  /\ \A c \in Cable : /\ CableAdd(c) \in Edits /\ CableAdd(c).kind = "CableAdd" /\ CableAdd(c).cable = c
                      /\ CableRemove(c) \in Edits /\ CableRemove(c).kind = "CableRemove" /\ CableRemove(c).cable = c
  /\ \A id \in Modules : \A m \in Module :
       /\ ModuleAdd(id, m) \in Edits /\ ModuleAdd(id, m).kind = "ModuleAdd"
       /\ ModuleAdd(id, m).id = id /\ ModuleAdd(id, m).module = m
       /\ ModuleRemove(id, m) \in Edits /\ ModuleRemove(id, m).kind = "ModuleRemove"
       /\ ModuleRemove(id, m).id = id /\ ModuleRemove(id, m).module = m
  /\ \A fields \in SUBSET {"param", "bypass", "column"} : \A old, new \in Racks :
       /\ Change(fields, old, new) \in Edits /\ Change(fields, old, new).kind = "Change"
       /\ Change(fields, old, new).fields = fields
       /\ Change(fields, old, new).old = old /\ Change(fields, old, new).new = new
<1>1. ASSUME NEW c \in Cable
      PROVE  /\ CableAdd(c) \in Edits /\ CableAdd(c).kind = "CableAdd" /\ CableAdd(c).cable = c
             /\ CableRemove(c) \in Edits /\ CableRemove(c).kind = "CableRemove" /\ CableRemove(c).cable = c
  BY DEF CableAdd, CableRemove, Edits
<1>2. ASSUME NEW id \in Modules, NEW m \in Module
      PROVE  /\ ModuleAdd(id, m) \in Edits /\ ModuleAdd(id, m).kind = "ModuleAdd"
             /\ ModuleAdd(id, m).id = id /\ ModuleAdd(id, m).module = m
             /\ ModuleRemove(id, m) \in Edits /\ ModuleRemove(id, m).kind = "ModuleRemove"
             /\ ModuleRemove(id, m).id = id /\ ModuleRemove(id, m).module = m
  BY DEF ModuleAdd, ModuleRemove, Edits
<1>3. ASSUME NEW fields \in SUBSET {"param", "bypass", "column"}, NEW old \in Racks, NEW new \in Racks
      PROVE  /\ Change(fields, old, new) \in Edits /\ Change(fields, old, new).kind = "Change"
             /\ Change(fields, old, new).fields = fields
             /\ Change(fields, old, new).old = old /\ Change(fields, old, new).new = new
  BY DEF Change, Edits
<1> QED
  BY <1>1, <1>2, <1>3

\* Unplugging cables.
LEMMA Unplugged ==
  ASSUME NEW c \in Content, NEW cables \in SUBSET c.cables
  PROVE  \E d \in Content : /\ Performs(CableRemoves(cables), c, d, {})
                            /\ d.modules = c.modules /\ d.cables = c.cables \ cables
<1>1. PICK d \in Content : d.modules = c.modules /\ d.cables = c.cables \ cables
  <2>1. [modules |-> c.modules, cables |-> c.cables \ cables] \in Content
    BY DEF Content
  <2> QED
    BY <2>1
<1>2. /\ CableRemoves(cables) \in Seq(Edits) /\ Leads(CableRemoves(cables), c, d, Everything)
      /\ \A i \in DOMAIN CableRemoves(cables) : CableRemoves(cables)[i].kind = "CableRemove"
  BY <1>1, CablesRemoved
<1> QED
  BY <1>1, <1>2 DEF Performs

\* Plugging in a cable.
LEMMA PluggedIn ==
  ASSUME NEW c \in Content, NEW cable \in Cable, {cable.out, cable.in} \subseteq Present(c),
         \A e \in c.cables : e.in # cable.in
  PROVE  \E d \in Content : Performs(<<CableAdd(cable)>>, c, d, {})
<1>1. PICK d \in Content : d.modules = c.modules /\ d.cables = c.cables \cup {cable}
  <2>1. [modules |-> c.modules, cables |-> c.cables \cup {cable}] \in Content
    BY DEF Content
  <2> QED
    BY <2>1
<1>2. PICK a \in Edits : a = CableAdd(cable) /\ a.kind = "CableAdd" /\ a.cable = cable
  BY EditsMade
<1>3. Takes(c, cable, d, Everything)
  BY <1>1 DEF Takes, Present
<1>4. Moves(c, a, d, Everything)
  BY <1>2, <1>3 DEF Moves
<1> QED
  BY <1>2, <1>4, PerformedOne

\* Removing a module that has no cables.
LEMMA ModuleRemoved ==
  ASSUME NEW c \in Content, NEW id \in Present(c), Attached(c, id) = {}
  PROVE  \E d \in Content : Performs(<<ModuleRemove(id, c.modules[id])>>, c, d, {})
<1> DEFINE r == [i \in Present(c) \ {id} |-> c.modules[i]]
<1>1. Present(c) \ {id} \in SUBSET Modules /\ r \in [Present(c) \ {id} -> Module]
  BY ContentFacts
<1>2. r \in Racks /\ DOMAIN r = Present(c) \ {id} /\ \A i \in Present(c) \ {id} : r[i] = c.modules[i]
  BY <1>1, RackFacts
<1> HIDE DEF r
<1>3. PICK d \in Content : d.modules = r /\ d.cables = c.cables
  <2>1. [modules |-> r, cables |-> c.cables] \in Content
    BY <1>2 DEF Content
  <2> QED
    BY <2>1
<1>4. id \in Modules /\ c.modules[id] \in Module
  BY ContentFacts
<1>5. PICK a \in Edits : a = ModuleRemove(id, c.modules[id]) /\ a.kind = "ModuleRemove" /\ a.id = id /\ a.module = c.modules[id]
  BY <1>4, EditsMade
<1>6. Present(d) = Present(c) \ {id}
  BY <1>2, <1>3 DEF Present
<1>7. Gains(d, id, c.modules[id], c, Everything)
  BY <1>2, <1>3, <1>6 DEF Gains
<1>8. Moves(c, a, d, Everything)
  BY <1>5, <1>7 DEF Moves
<1> QED
  BY <1>5, <1>8, PerformedOne

\* Adding a module.
LEMMA ModuleAdded ==
  ASSUME NEW c \in Content, NEW ids, NEW id \in Modules, id \in ids, id \notin Present(c), NEW m \in Module
  PROVE  \E d \in Content : /\ Performs(<<ModuleAdd(id, m)>>, c, d, ids)
                            /\ Present(d) = Present(c) \cup {id} /\ d.modules[id] = m
                            /\ \A i \in Present(c) : d.modules[i] = c.modules[i]
<1> DEFINE r == [i \in Present(c) \cup {id} |-> IF i = id THEN m ELSE c.modules[i]]
<1>1. Present(c) \cup {id} \in SUBSET Modules /\ r \in [Present(c) \cup {id} -> Module]
  BY ContentFacts
<1>2. /\ r \in Racks /\ DOMAIN r = Present(c) \cup {id} /\ r[id] = m
      /\ \A i \in Present(c) : r[i] = c.modules[i]
  BY <1>1, RackFacts
<1> HIDE DEF r
<1>3. PICK d \in Content : d.modules = r /\ d.cables = c.cables
  <2>1. [modules |-> r, cables |-> c.cables] \in Content
    BY <1>2 DEF Content
  <2> QED
    BY <2>1
<1>4. PICK a \in Edits : a = ModuleAdd(id, m) /\ a.kind = "ModuleAdd" /\ a.id = id /\ a.module = m
  BY EditsMade
<1>5. Present(d) = Present(c) \cup {id}
  BY <1>2, <1>3 DEF Present
<1>6. Gains(c, id, m, d, Everything)
  BY <1>2, <1>3, <1>5 DEF Gains
<1>7. Moves(c, a, d, Everything)
  BY <1>4, <1>6 DEF Moves
<1>8. Performs(<<a>>, c, d, ids)
  BY <1>4, <1>7, PerformedOne
<1> QED
  BY <1>2, <1>3, <1>4, <1>5, <1>8

\* Recorded values that are there give way to others.
ChangedTo(c, fields, old, new, d) ==
  /\ Performs(<<Change(fields, old, new)>>, c, d, {}) /\ Present(d) = Present(c)
  /\ \A i \in Present(c) : d.modules[i] =
       IF i \in DOMAIN old THEN With(c.modules[i], fields, new[i]) ELSE c.modules[i]

\* Changing values of modules.
LEMMA ValuesChanged ==
  ASSUME NEW c \in Content, NEW fields \in SUBSET {"param", "bypass", "column"}, NEW old \in Racks, NEW new \in Racks,
         DOMAIN old = DOMAIN new,
         \A i \in Present(c) : i \in DOMAIN old => With(c.modules[i], fields, old[i]) = c.modules[i]
  PROVE  \E d \in Content : ChangedTo(c, fields, old, new, d)
<1> DEFINE r == [i \in Present(c) |-> IF i \in DOMAIN old THEN With(c.modules[i], fields, new[i]) ELSE c.modules[i]]
<1>1. \A i \in DOMAIN new : new[i] \in Module
  BY RackFacts
<1>2. Present(c) \in SUBSET Modules /\ r \in [Present(c) -> Module]
  BY <1>1, ContentFacts, WithModule
<1>3. /\ r \in Racks /\ DOMAIN r = Present(c)
      /\ \A i \in Present(c) : r[i] = IF i \in DOMAIN old THEN With(c.modules[i], fields, new[i]) ELSE c.modules[i]
  BY <1>2, RackFacts
<1> HIDE DEF r
<1>4. PICK d \in Content : d.modules = r /\ d.cables = c.cables
  <2>1. [modules |-> r, cables |-> c.cables] \in Content
    BY <1>3 DEF Content
  <2> QED
    BY <2>1
<1>5. PICK a \in Edits : /\ a = Change(fields, old, new)
                         /\ a.kind = "Change" /\ a.fields = fields /\ a.old = old /\ a.new = new
  BY EditsMade
<1>6. Present(d) = Present(c)
  BY <1>3, <1>4 DEF Present
<1>7. Alters(c, fields, old, new, d, Everything)
  BY <1>3, <1>4, <1>6 DEF Alters
<1>8. Moves(c, a, d, Everything)
  BY <1>5, <1>7 DEF Moves
<1>9. Performs(<<a>>, c, d, {})
  BY <1>5, <1>8, PerformedOne
<1> QED
  BY <1>3, <1>4, <1>5, <1>6, <1>9 DEF ChangedTo

\* Changing values of one module.
LEMMA OneValueChanged ==
  ASSUME NEW c \in Content, NEW id \in Present(c), NEW fields \in SUBSET {"param", "bypass", "column"},
         NEW m \in Module, NEW w \in Module, With(c.modules[id], fields, m) = c.modules[id]
  PROVE  \E d \in Content :
           /\ Performs(<<Change(fields, At(id, m), At(id, w))>>, c, d, {}) /\ Present(d) = Present(c)
           /\ d.modules[id] = With(c.modules[id], fields, w)
<1>1. PICK old \in Racks : old = At(id, m) /\ DOMAIN old = {id} /\ old[id] = m
  <2>1. {id} \in SUBSET Modules /\ At(id, m) = [i \in {id} |-> m]
    BY ContentFacts DEF At
  <2> QED
    BY <2>1, RackFacts
<1>2. PICK new \in Racks : new = At(id, w) /\ DOMAIN new = {id} /\ new[id] = w
  <2>1. {id} \in SUBSET Modules /\ At(id, w) = [i \in {id} |-> w]
    BY ContentFacts DEF At
  <2> QED
    BY <2>1, RackFacts
<1>3. \A i \in Present(c) : i \in DOMAIN old => With(c.modules[i], fields, old[i]) = c.modules[i]
  BY <1>1
<1>4. PICK d \in Content : ChangedTo(c, fields, old, new, d)
  BY <1>1, <1>2, <1>3, ValuesChanged
<1>5. d.modules[id] = With(c.modules[id], fields, w)
  BY <1>1, <1>2, <1>4 DEF ChangedTo
<1> QED
  BY <1>1, <1>2, <1>4, <1>5 DEF ChangedTo

\* Values put back, and values replaced.
LEMMA SettingsOf ==
  ASSUME NEW m \in Module, NEW w \in Module
  PROVE  /\ w.param = m.param => With(m, {"param"}, w) = m
         /\ w.bypass = m.bypass => With(m, {"bypass"}, w) = m
         /\ w.column = m.column => With(m, {"column"}, w) = m
         /\ With(m, {"param", "bypass"}, m) = m
         /\ With(m, {"param"}, w).bypass = m.bypass
  BY DEF With, Module

\* A module with one value replaced is a module.
LEMMA ModuleFacts ==
  ASSUME NEW m \in Module
  PROVE  /\ m.bypass \in {"on", "off"}
         /\ \A v \in Settings : [m EXCEPT !.param = v] \in Module
         /\ \A b \in {"on", "off"} : [m EXCEPT !.bypass = b] \in Module
         /\ \A x \in Columns : [m EXCEPT !.column = x] \in Module
  BY DEF Module

\* So is a new one.
LEMMA NewModuleFacts ==
  ASSUME NEW x \in Columns
  PROVE  NewModule(x) \in Module /\ NewModule(x).bypass = "off"
  BY DEF NewModule, Module, Settings

\* Setting a parameter.
LEMMA ParamSet ==
  ASSUME NEW c \in Content, NEW id \in Present(c), NEW m \in Module, NEW v \in Settings,
         m.param = c.modules[id].param
  PROVE  \E d \in Content : /\ Performs(SetParam(id, m, v), c, d, {}) /\ Present(d) = Present(c)
                            /\ d.modules[id].bypass = c.modules[id].bypass
<1>1. PICK w \in Module : w = [m EXCEPT !.param = v]
  BY ModuleFacts
<1>2. c.modules[id] \in Module
  BY ContentFacts
<1>3. With(c.modules[id], {"param"}, m) = c.modules[id]
  BY <1>2, SettingsOf
<1>4. PICK fields \in SUBSET {"param", "bypass", "column"} : fields = {"param"}
  OBVIOUS
<1>5. PICK d \in Content :
        /\ Performs(<<Change(fields, At(id, m), At(id, w))>>, c, d, {}) /\ Present(d) = Present(c)
        /\ d.modules[id] = With(c.modules[id], fields, w)
  BY <1>3, <1>4, OneValueChanged
<1>6. d.modules[id].bypass = c.modules[id].bypass
  BY <1>2, <1>4, <1>5, SettingsOf
<1> QED
  BY <1>1, <1>4, <1>5, <1>6 DEF SetParam

\* Setting the bypass.
LEMMA BypassSet ==
  ASSUME NEW c \in Content, NEW id \in Present(c), NEW m \in Module, NEW b \in {"on", "off"},
         m.bypass = c.modules[id].bypass
  PROVE  \E d \in Content : Performs(SetBypass(id, m, b), c, d, {})
<1>1. CASE m.bypass = b
  <2>1. SetBypass(id, m, b) = <<>>
    BY <1>1 DEF SetBypass
  <2> QED
    BY <2>1, PerformedNothing
<1>2. CASE m.bypass # b
  <2>1. PICK w \in Module : w = [m EXCEPT !.bypass = b]
    BY ModuleFacts
  <2>2. c.modules[id] \in Module
    BY ContentFacts
  <2>3. With(c.modules[id], {"bypass"}, m) = c.modules[id]
    BY <2>2, SettingsOf
  <2>4. PICK fields \in SUBSET {"param", "bypass", "column"} : fields = {"bypass"}
    OBVIOUS
  <2>5. PICK d \in Content : Performs(<<Change(fields, At(id, m), At(id, w))>>, c, d, {})
    BY <2>3, <2>4, OneValueChanged
  <2> QED
    BY <1>2, <2>1, <2>4, <2>5 DEF SetBypass
<1> QED
  BY <1>1, <1>2

\* A drag moves the modules whose values it recorded.
LEMMA Dragged ==
  ASSUME NEW c \in Content, NEW old \in Racks, NEW layout,
         \A i \in DOMAIN old : layout[i] \in Columns,
         \A i \in Present(c) : i \in DOMAIN old => c.modules[i] = old[i]
  PROVE  \E d \in Content : /\ Performs(DragTo(old, layout), c, d, {}) /\ Present(d) = Present(c)
                            /\ \A i \in Present(c) : i \notin DOMAIN old => d.modules[i] = c.modules[i]
<1> DEFINE moved == {i \in DOMAIN old : layout[i] # old[i].column}
<1>1. CASE moved = {}
  <2>1. DragTo(old, layout) = <<>>
    BY <1>1 DEF DragTo
  <2> QED
    BY <2>1, PerformedNothing
<1>2. CASE moved # {}
  <2>1. moved \in SUBSET Modules /\ \A i \in moved : old[i] \in Module
    BY RackFacts
  <2>2. PICK was \in Racks : was = [i \in moved |-> old[i]] /\ DOMAIN was = moved /\ \A i \in moved : was[i] = old[i]
    <3> DEFINE w == [i \in moved |-> old[i]]
    <3>1. w \in [moved -> Module]
      BY <2>1
    <3>2. w \in Racks /\ DOMAIN w = moved
      BY <2>1, <3>1, RackFacts
    <3>3. \A i \in moved : w[i] = old[i]
      OBVIOUS
    <3> QED
      BY <3>2, <3>3
  <2>3. PICK new \in Racks : new = [i \in moved |-> [old[i] EXCEPT !.column = layout[i]]] /\ DOMAIN new = moved
    <3>1. \A i \in moved : [old[i] EXCEPT !.column = layout[i]] \in Module
      BY <2>1, ModuleFacts
    <3>2. [i \in moved |-> [old[i] EXCEPT !.column = layout[i]]] \in [moved -> Module]
      BY <3>1
    <3> QED
      BY <2>1, <3>2, RackFacts
  <2>4. PICK fields \in SUBSET {"param", "bypass", "column"} : fields = {"column"}
    OBVIOUS
  <2>5. ASSUME NEW i \in Present(c), i \in DOMAIN was PROVE With(c.modules[i], fields, was[i]) = c.modules[i]
    <3>1. c.modules[i] \in Module /\ was[i] = c.modules[i]
      BY <2>2, <2>5, ContentFacts
    <3> QED
      BY <2>4, <3>1, SettingsOf
  <2>6. DragTo(old, layout) = <<Change(fields, was, new)>>
    BY <1>2, <2>2, <2>3, <2>4 DEF DragTo
  <2> HIDE DEF moved
  <2>7. PICK d \in Content : ChangedTo(c, fields, was, new, d)
    BY <2>2, <2>3, <2>5, ValuesChanged
  <2>8. \A i \in Present(c) : i \notin DOMAIN old => d.modules[i] = c.modules[i]
    BY <2>2, <2>7 DEF ChangedTo, moved
  <2> QED
    BY <2>6, <2>7, <2>8 DEF ChangedTo
<1> QED
  BY <1>1, <1>2

\* The edits of applyAdd fit the patch.
LEMMA AddedDone ==
  ASSUME NEW p \in Patches, NEW ids \in SUBSET Modules, NEW es \in Added(p, ids), ids \cap Present(p) = {}
  PROVE  \E d \in Content : Performs(es, Contents(p), d, ids)
<1>1. PICK id \in ids : \E l \in [Present(p) \cup {id} -> Columns] : es \in AddedAt(p, id, l)
  BY DEF Added
<1>2. PICK l \in [Present(p) \cup {id} -> Columns] : es \in AddedAt(p, id, l)
  BY <1>1
<1>3. PICK m \in Module : m = NewModule(l[id]) /\ m.bypass = "off"
  BY <1>2, NewModuleFacts
<1>4. PICK c \in Content : c = Contents(p) /\ c.modules = p.modules /\ Present(c) = Present(p)
  BY PatchFacts
<1>5. PICK initial \in {<<>>, SetParam(id, m, 1)} : \E b \in {"on", "off"} :
        es = <<ModuleAdd(id, m)>> \o DragTo(p.modules, l) \o initial \o SetBypass(id, m, b)
  BY <1>2, <1>3 DEF AddedAt
<1>6. PICK b \in {"on", "off"} : es = <<ModuleAdd(id, m)>> \o DragTo(p.modules, l) \o initial \o SetBypass(id, m, b)
  BY <1>5
<1> DEFINE bypass == SetBypass(id, m, b)
<1>7. PICK d \in Content : /\ Performs(<<ModuleAdd(id, m)>>, c, d, ids)
                           /\ Present(d) = Present(c) \cup {id} /\ d.modules[id] = m
                           /\ \A i \in Present(c) : d.modules[i] = c.modules[i]
  <2>1. id \in Modules /\ id \in ids /\ id \notin Present(c)
    BY <1>4
  <2> QED
    BY <2>1, ModuleAdded
<1>8. PICK e \in Content : /\ Performs(DragTo(p.modules, l), d, e, {}) /\ Present(e) = Present(d)
                           /\ \A i \in Present(d) : i \notin DOMAIN p.modules => e.modules[i] = d.modules[i]
  <2>1. p.modules \in Racks /\ DOMAIN p.modules = Present(p)
    BY PatchFacts DEF Present
  <2>2. \A i \in DOMAIN p.modules : l[i] \in Columns
    BY <2>1
  <2>3. \A i \in Present(d) : i \in DOMAIN p.modules => d.modules[i] = p.modules[i]
    BY <1>4, <1>7, <2>1
  <2> QED
    BY <2>1, <2>2, <2>3, Dragged
<1>9. id \in Present(e) /\ e.modules[id] = m
  BY <1>4, <1>7, <1>8 DEF Present
<1>10. PICK f \in Content : /\ Performs(initial, e, f, {}) /\ Present(f) = Present(e)
                           /\ f.modules[id].bypass = m.bypass
  <2>1. CASE initial = <<>>
    BY <1>9, <2>1, PerformedNothing
  <2>2. CASE initial = SetParam(id, m, 1)
    <3>1. 1 \in Settings
      BY DEF Settings
    <3> QED
      BY <1>9, <2>2, <3>1, ParamSet
  <2> QED
    BY <1>5, <2>1, <2>2
<1>11. PICK g \in Content : Performs(bypass, f, g, {})
  BY <1>9, <1>10, BypassSet
<1>12. Performs(<<ModuleAdd(id, m)>> \o DragTo(p.modules, l), c, e, ids)
  BY <1>7, <1>8, PerformedBoth
<1>13. Performs(<<ModuleAdd(id, m)>> \o DragTo(p.modules, l) \o initial, c, f, ids)
  BY <1>10, <1>12, PerformedBoth
<1>14. Performs(<<ModuleAdd(id, m)>> \o DragTo(p.modules, l) \o initial \o bypass, c, g, ids)
  BY <1>11, <1>13, PerformedBoth
<1> QED
  BY <1>4, <1>6, <1>14

\* Those of applyRemove do.
LEMMA RemovedDone ==
  ASSUME NEW p \in Patches, NEW es \in Removed(p)
  PROVE  \E d \in Content : Performs(es, Contents(p), d, {})
<1>1. PICK c \in Content : c = Contents(p) /\ c.modules = p.modules /\ c.cables = p.cables /\ Present(c) = Present(p)
  BY PatchFacts
<1>2. PICK id \in Present(c) : es = CableRemoves(Attached(p, id)) \o <<ModuleRemove(id, c.modules[id])>>
  BY <1>1 DEF Removed
<1>3. PICK cables \in SUBSET c.cables : cables = Attached(p, id) /\ cables = {e \in c.cables : id \in {e.out, e.in}}
  BY <1>1 DEF Attached
<1>4. PICK d \in Content : /\ Performs(CableRemoves(cables), c, d, {})
                           /\ d.modules = c.modules /\ d.cables = c.cables \ cables
  BY Unplugged
<1>5. id \in Present(d) /\ Attached(d, id) = {} /\ d.modules[id] = c.modules[id]
  BY <1>3, <1>4 DEF Present, Attached
<1>6. PICK e \in Content : Performs(<<ModuleRemove(id, d.modules[id])>>, d, e, {})
  BY <1>5, ModuleRemoved
<1>7. Performs(CableRemoves(cables) \o <<ModuleRemove(id, d.modules[id])>>, c, e, {})
  BY <1>4, <1>6, PerformedBoth
<1> QED
  BY <1>1, <1>2, <1>3, <1>5, <1>7

\* Those of applyConnect do.
LEMMA ConnectedDone ==
  ASSUME NEW p \in Patches, NEW es \in Connected(p)
  PROVE  \E d \in Content : Performs(es, Contents(p), d, {})
<1>1. PICK c \in Content : c = Contents(p) /\ c.modules = p.modules /\ c.cables = p.cables /\ Present(c) = Present(p)
  BY PatchFacts
<1>2. PICK i \in Present(p) : \E o \in Present(p) :
        es = CableRemoves({e \in p.cables : e.in = i}) \o <<CableAdd([out |-> o, in |-> i])>>
  BY DEF Connected
<1>3. PICK o \in Present(p) :
        es = CableRemoves({e \in p.cables : e.in = i}) \o <<CableAdd([out |-> o, in |-> i])>>
  BY <1>2
<1>4. PICK cable \in Cable : cable = [out |-> o, in |-> i] /\ cable.out = o /\ cable.in = i
  <2>1. o \in Modules /\ i \in Modules
    BY PatchFacts
  <2>2. [out |-> o, in |-> i] \in Cable
    BY <2>1 DEF Cable
  <2> QED
    BY <2>2
<1>5. PICK cables \in SUBSET c.cables : cables = {e \in p.cables : e.in = i}
  BY <1>1
<1>6. PICK d \in Content : /\ Performs(CableRemoves(cables), c, d, {})
                           /\ d.modules = c.modules /\ d.cables = c.cables \ cables
  BY Unplugged
<1>7. {cable.out, cable.in} \subseteq Present(d) /\ \A e \in d.cables : e.in # cable.in
  BY <1>1, <1>4, <1>5, <1>6 DEF Present
<1>8. PICK e \in Content : Performs(<<CableAdd(cable)>>, d, e, {})
  BY <1>7, PluggedIn
<1>9. Performs(CableRemoves(cables) \o <<CableAdd(cable)>>, c, e, {})
  BY <1>6, <1>8, PerformedBoth
<1> QED
  BY <1>1, <1>3, <1>4, <1>5, <1>9

\* Those of applyDisconnect do.
LEMMA DisconnectedDone ==
  ASSUME NEW p \in Patches, NEW es \in Disconnected(p)
  PROVE  \E d \in Content : Performs(es, Contents(p), d, {})
<1>1. PICK c \in Content : c = Contents(p) /\ c.cables = p.cables
  BY PatchFacts
<1>2. PICK cables \in SUBSET c.cables : es = CableRemoves(cables)
  <2>1. CASE \E e \in p.cables : es = CableRemoves({e})
    BY <1>1, <2>1
  <2>2. CASE \E o \in Present(p) : es = CableRemoves({e \in p.cables : e.out = o})
    BY <1>1, <2>2
  <2> QED
    BY <2>1, <2>2 DEF Disconnected
<1> QED
  BY <1>1, <1>2, Unplugged

\* Those of applySetParam do.
LEMMA ParamSetDone ==
  ASSUME NEW p \in Patches, NEW id \in Present(p), NEW v \in Settings
  PROVE  \E d \in Content : Performs(SetParam(id, p.modules[id], v), Contents(p), d, {})
<1>1. PICK c \in Content : c = Contents(p) /\ c.modules = p.modules /\ Present(c) = Present(p)
  BY PatchFacts
<1>2. PICK m \in Module : m = p.modules[id]
  BY PatchFacts
<1> QED
  BY <1>1, <1>2, ParamSet

\* So do those of what else adjusts a module.
LEMMA AdjustedDone ==
  ASSUME NEW p \in Patches, NEW es \in Adjusted(p)
  PROVE  \E d \in Content : Performs(es, Contents(p), d, {})
<1>1. PICK c \in Content : c = Contents(p) /\ c.modules = p.modules /\ Present(c) = Present(p)
  BY PatchFacts
<1>2. PICK id \in Present(p) : \E m :
        /\ m = p.modules[id]
        /\ \/ \E v \in Settings : es = SetParam(id, m, v)
           \/ \E b \in {"on", "off"} : es = SetBypass(id, m, b)
           \/ \E v \in Settings : es = <<Change({"param", "bypass"}, At(id, m), At(id, [m EXCEPT !.param = v]))>>
  BY DEF Adjusted
<1> DEFINE m == p.modules[id]
<1>3. m \in Module /\ id \in Present(c) /\ c.modules[id] = m
  BY <1>1, <1>2, PatchFacts
<1> HIDE DEF m
<1>4. CASE \E v \in Settings : es = SetParam(id, m, v)
  BY <1>2, <1>4, ParamSetDone DEF m
<1>5. CASE \E b \in {"on", "off"} : es = SetBypass(id, m, b)
  BY <1>1, <1>3, <1>5, BypassSet
<1>6. CASE \E v \in Settings : es = <<Change({"param", "bypass"}, At(id, m), At(id, [m EXCEPT !.param = v]))>>
  <2>1. PICK v \in Settings : es = <<Change({"param", "bypass"}, At(id, m), At(id, [m EXCEPT !.param = v]))>>
    BY <1>6
  <2>2. PICK w \in Module : w = [m EXCEPT !.param = v]
    BY <1>3, ModuleFacts
  <2>3. PICK fields \in SUBSET {"param", "bypass", "column"} : fields = {"param", "bypass"}
    OBVIOUS
  <2>4. With(c.modules[id], fields, m) = c.modules[id]
    BY <1>3, <2>3, SettingsOf
  <2>5. \E d \in Content : Performs(<<Change(fields, At(id, m), At(id, w))>>, c, d, {})
    BY <1>3, <2>4, OneValueChanged
  <2> QED
    BY <1>1, <2>1, <2>2, <2>3, <2>5
<1> QED
  BY <1>2, <1>4, <1>5, <1>6 DEF m

\* Those of a placement do.
LEMMA PlacedDone ==
  ASSUME NEW p \in Patches, NEW es \in Placed(p)
  PROVE  \E d \in Content : Performs(es, Contents(p), d, {})
<1>1. PICK c \in Content : c = Contents(p) /\ c.modules = p.modules /\ Present(c) = Present(p)
  BY PatchFacts
<1>2. PICK id \in Present(p), policy \in {"fail", "nearest", "force"} : es \in Moved(p, id, policy)
  BY DEF Placed
<1>3. p.modules \in Racks /\ DOMAIN p.modules = Present(p) /\ \A i \in Present(p) : p.modules[i].column \in Columns
  BY PatchFacts DEF Present, Module
<1>4. PICK l : es = DragTo(p.modules, l) /\ \A i \in Present(p) : l[i] \in Columns
  <2>1. CASE policy # "force"
    <3>1. PICK x \in Columns : es = DragTo(p.modules, [i \in Present(p) |-> IF i = id THEN x ELSE p.modules[i].column])
      BY <1>2, <2>1 DEF Moved
    <3> DEFINE stay == [i \in Present(p) |-> IF i = id THEN x ELSE p.modules[i].column]
    <3>2. \A i \in Present(p) : stay[i] \in Columns
      BY <1>3
    <3>3. es = DragTo(p.modules, stay)
      BY <3>1
    <3> HIDE DEF stay
    <3> QED
      BY <3>2, <3>3
  <2>2. CASE policy = "force"
    <3>1. PICK x \in Columns : \E l \in Forced(Present(p), id, x) : es = DragTo(p.modules, l)
      BY <1>2, <2>2 DEF Moved
    <3>2. PICK l \in Forced(Present(p), id, x) : es = DragTo(p.modules, l)
      BY <3>1
    <3>3. l \in [Present(p) -> Columns]
      BY DEF Forced
    <3> QED
      BY <3>2, <3>3
  <2> QED
    BY <2>1, <2>2
<1>5. \E d \in Content : Performs(DragTo(p.modules, l), c, d, {})
  BY <1>1, <1>3, <1>4, Dragged
<1> QED
  BY <1>1, <1>4, <1>5

\* Whatever the plan, its edits fit the patch.
LEMMA OperationDone ==
  ASSUME NEW p \in Patches, NEW ids \in SUBSET Modules, ids \cap Present(p) = {}, NEW es \in Operations(p, ids)
  PROVE  \E d \in Content : Performs(es, Contents(p), d, ids)
<1>1. CASE es \in Added(p, ids)
  BY <1>1, AddedDone
<1>2. CASE es \notin Added(p, ids)
  <2>1. \E d \in Content : Performs(es, Contents(p), d, {})
    BY <1>2, RemovedDone, ConnectedDone, DisconnectedDone, AdjustedDone, PlacedDone DEF Operations
  <2> QED
    BY <2>1, PerformedOnMore
<1> QED
  BY <1>1, <1>2

-----------------------------------------------------------------------------
(* The history and the open transaction *)

\* The entries of the undo history.
Entries == [op : Nat, actions : Seq(Edits), from : Patches, disturbed : BOOLEAN]

\* The entries of the history, one after the other.
Chained(cs, entries, seen) ==
  /\ cs \in [0..Len(entries) -> Content]
  /\ \A n \in 1..Len(entries) : Leads(entries[n].actions, cs[n - 1], cs[n], seen)
  /\ \A n \in 0..Len(entries) : Wired(cs[n])
  /\ "settings" \in seen /\ Len(entries) > 0 => Alike(cs[0], Contents(entries[1].from), seen)

\* The patch p is where the entries of the history, `at` of them done, lead.
Recorded(entries, at, p, seen) ==
  \E cs : Chained(cs, entries, seen) /\ Alike(cs[at], Contents(p), seen)

\* What Push makes of a history.
LEMMA Pushed ==
  ASSUME NEW S, NEW s \in Seq(S), NEW at \in Nat, at <= Len(s), NEW e \in S
  PROVE  /\ Append(SubSeq(s, 1, at), e) \in Seq(S) /\ Len(Append(SubSeq(s, 1, at), e)) = at + 1
         /\ \A n \in 1..at : Append(SubSeq(s, 1, at), e)[n] = s[n]
         /\ Append(SubSeq(s, 1, at), e)[at + 1] = e
<1>1. PICK l \in Nat : l = Len(s)
  OBVIOUS
<1>2. Between(s, 0, at) = SubSeq(s, 1, at)
  BY DEF Between
<1> DEFINE t == Between(s, 0, at)
<1>3. t \in Seq(S) /\ Len(t) = at
  <2>1. 0 <= at /\ at <= l /\ at = at - 0
    BY <1>1
  <2> QED
    BY <1>1, <2>1, Stretch
<1>4. \A n \in 1..at : t[n] = s[n]
  <2> TAKE n \in 1..at
  <2>1. n \in Nat /\ n > 0 /\ n = 0 + n /\ n <= at /\ at <= l
    BY <1>1
  <2> QED
    BY <1>1, <2>1, StretchAt
<1> HIDE DEF t
<1>5. /\ Append(t, e) \in Seq(S) /\ Len(Append(t, e)) = at + 1
      /\ \A n \in 1..at : Append(t, e)[n] = t[n]
      /\ Append(t, e)[at + 1] = e
  BY <1>3, OneLonger
<1> QED
  BY <1>2, <1>4, <1>5 DEF t

\* The elements of a sequence.
LEMMA InSequence ==
  ASSUME NEW S, NEW s \in Seq(S), NEW l \in Nat, l = Len(s)
  PROVE  \A n \in 1..l : s[n] \in S
  OBVIOUS

\* What an entry is made of.
LEMMA EntryFacts ==
  ASSUME NEW entries \in Seq(Entries), NEW l \in Nat, l = Len(entries), NEW n \in 1..l
  PROVE  /\ entries[n] \in Entries /\ entries[n].op \in Nat /\ entries[n].actions \in Seq(Edits)
         /\ entries[n].from \in Patches /\ entries[n].disturbed \in BOOLEAN
<1>1. entries[n] \in Entries
  BY InSequence
<1> QED
  BY <1>1 DEF Entries

\* What a chain is made of.
LEMMA ChainFacts ==
  ASSUME NEW entries, NEW l \in Nat, l = Len(entries), NEW seen, NEW cs, Chained(cs, entries, seen)
  PROVE  /\ \A n \in 0..l : cs[n] \in Content /\ Wired(cs[n])
         /\ \A n \in 1..l : Leads(entries[n].actions, cs[n - 1], cs[n], seen)
         /\ "settings" \in seen /\ l > 0 => Alike(cs[0], Contents(entries[1].from), seen)
  BY DEF Chained

\* A history leads to whatever is alike.
LEMMA RecordedAlike ==
  ASSUME NEW entries, NEW at, NEW seen, NEW p, NEW q, Alike(Contents(p), Contents(q), seen), Recorded(entries, at, p, seen)
  PROVE  Recorded(entries, at, q, seen)
<1>1. PICK cs : Chained(cs, entries, seen) /\ Alike(cs[at], Contents(p), seen)
  BY DEF Recorded
<1>2. Alike(cs[at], Contents(q), seen)
  BY <1>1, AlikeEquivalence
<1> QED
  BY <1>1, <1>2 DEF Recorded

\* It does so also when settings no longer count.
LEMMA RecordedLess ==
  ASSUME NEW entries \in Seq(Entries), NEW at, NEW p, NEW seen, "cables" \in seen, Recorded(entries, at, p, seen)
  PROVE  Recorded(entries, at, p, {"cables"})
<1>1. PICK cs : Chained(cs, entries, seen) /\ Alike(cs[at], Contents(p), seen)
  BY DEF Recorded
<1>2. PICK l \in Nat : l = Len(entries)
  OBVIOUS
<1>3. {"cables"} \in SUBSET seen
  OBVIOUS
<1>4. PICK less \in SUBSET seen : less = {"cables"}
  BY <1>3
<1>5. \A n \in 1..l : Leads(entries[n].actions, cs[n - 1], cs[n], less)
  <2> TAKE n \in 1..l
  <2>1. entries[n].actions \in Seq(Edits)
    BY <1>2, EntryFacts
  <2> QED
    BY <1>1, <1>2, <2>1, ChainFacts, LeadsLess
<1>6. Alike(cs[at], Contents(p), less)
  BY <1>1, AlikeLess
<1>7. Chained(cs, entries, less)
  BY <1>1, <1>2, <1>4, <1>5 DEF Chained
<1> QED
  BY <1>4, <1>6, <1>7 DEF Recorded

\* The patch it leads to is wired.
LEMMA RecordedWired ==
  ASSUME NEW entries \in Seq(Entries), NEW at \in 0..Len(entries), NEW p, NEW seen, "cables" \in seen, Recorded(entries, at, p, seen)
  PROVE  Wired(Contents(p))
<1>1. PICK cs : Chained(cs, entries, seen) /\ Alike(cs[at], Contents(p), seen)
  BY DEF Recorded
<1>2. Wired(cs[at])
  BY <1>1 DEF Chained
<1> QED
  BY <1>1, <1>2, WiredAlike

\* A history to which an entry is pushed.
LEMMA RecordedPushed ==
  ASSUME NEW entries \in Seq(Entries), NEW at \in Nat, at <= Len(entries), NEW p \in Patches, NEW q \in Patches,
         NEW seen, "cables" \in seen, Recorded(entries, at, p, seen),
         NEW e \in Entries, Leads(e.actions, Contents(p), Contents(q), seen),
         "settings" \in seen => Alike(Contents(p), Contents(e.from), seen)
  PROVE  Recorded(Append(SubSeq(entries, 1, at), e), at + 1, q, seen)
<1>1. PICK cs : Chained(cs, entries, seen) /\ Alike(cs[at], Contents(p), seen)
  BY DEF Recorded
<1>2. PICK l \in Nat : l = Len(entries)
  OBVIOUS
<1>3. PICK d \in Content : d = Contents(q)
  BY PatchFacts
<1> DEFINE new == Append(SubSeq(entries, 1, at), e)
<1>4. /\ new \in Seq(Entries) /\ Len(new) = at + 1
      /\ \A n \in 1..at : new[n] = entries[n]
      /\ new[at + 1] = e
  BY Pushed
<1> HIDE DEF new
<1> DEFINE ds == [n \in 0..at + 1 |-> IF n <= at THEN cs[n] ELSE d]
<1>5. e.actions \in Seq(Edits)
  BY DEF Entries
<1>6. \A n \in 0..at : n \in 0..l /\ ds[n] = cs[n] /\ cs[n] \in Content /\ Wired(cs[n])
  BY <1>1, <1>2, ChainFacts
<1>7. ds[at + 1] = d /\ at + 1 \in 0..at + 1
  OBVIOUS
<1>8. ds \in [0..at + 1 -> Content]
  <2>1. \A n \in 0..at + 1 : n <= at => cs[n] \in Content
    <3> TAKE n \in 0..at + 1
    <3>1. n <= at => n \in 0..l
      BY <1>2
    <3> QED
      BY <1>1, <1>2, <3>1, ChainFacts
  <2> QED
    BY <1>3, <2>1
<1> HIDE DEF ds
<1>9. Wired(d)
  <2>1. Alike(Contents(p), cs[at], seen)
    BY <1>1, AlikeEquivalence
  <2>2. Wired(Contents(p))
    BY <1>1, <1>6, WiredAlike
  <2> QED
    BY <1>3, <1>5, <2>2, LeadsWired
<1>10. \A n \in 1..at + 1 : Leads(new[n].actions, ds[n - 1], ds[n], seen)
  <2> TAKE n \in 1..at + 1
  <2>1. CASE n <= at
    <3>1. n \in 1..at /\ n \in 0..at /\ n - 1 \in 0..at /\ n \in 1..l
      BY <1>2, <2>1
    <3> QED
      BY <1>1, <1>2, <1>4, <1>6, <3>1, ChainFacts
  <2>2. CASE n = at + 1
    <3>1. n - 1 = at /\ at \in 0..at
      BY <2>2
    <3>2. Alike(Contents(p), cs[at], seen)
      BY <1>1, AlikeEquivalence
    <3>3. Alike(d, d, seen)
      BY AlikeEquivalence
    <3>4. Leads(e.actions, cs[at], d, seen)
      BY <1>3, <1>5, <3>2, <3>3, LeadsAlike
    <3> QED
      BY <1>4, <1>6, <1>7, <2>2, <3>1, <3>4
  <2> QED
    BY <2>1, <2>2
<1>11. \A n \in 0..at + 1 : Wired(ds[n])
  <2> TAKE n \in 0..at + 1
  <2>1. n \in 0..at \/ n = at + 1
    OBVIOUS
  <2> QED
    BY <1>6, <1>7, <1>9, <2>1
<1>12. "settings" \in seen => Alike(ds[0], Contents(new[1].from), seen)
  <2>0. 0 \in 0..at /\ ds[0] = cs[0]
    BY <1>6
  <2>1. CASE at = 0
    <3>1. new[1] = e
      BY <1>4, <2>1
    <3> QED
      BY <1>1, <2>0, <2>1, <3>1, AlikeEquivalence
  <2>2. CASE at > 0
    <3>1. 1 \in 1..at /\ l > 0
      BY <1>2, <2>2
    <3> QED
      BY <1>1, <1>2, <1>4, <2>0, <3>1, ChainFacts
  <2> QED
    BY <2>1, <2>2
<1>13. Chained(ds, new, seen)
  BY <1>4, <1>8, <1>10, <1>11, <1>12 DEF Chained
<1>14. Alike(ds[at + 1], Contents(q), seen)
  BY <1>3, <1>7, AlikeEquivalence
<1> QED
  BY <1>13, <1>14 DEF Recorded, new

\* Undoing the entry on top.
LEMMA RecordedUndone ==
  ASSUME NEW entries \in Seq(Entries), NEW at \in Nat, at > 0, at <= Len(entries), NEW p \in Patches,
         NEW seen, Recorded(entries, at, p, seen)
  PROVE  /\ UndoAll(p, entries[at].actions) \in Patches
         /\ Recorded(entries, at - 1, UndoAll(p, entries[at].actions), seen)
<1>1. PICK cs : Chained(cs, entries, seen) /\ Alike(cs[at], Contents(p), seen)
  BY DEF Recorded
<1>2. PICK l \in Nat : l = Len(entries)
  OBVIOUS
<1>3. at \in 1..l /\ entries[at].actions \in Seq(Edits)
  <2>1. at \in 1..l
    BY <1>2
  <2> QED
    BY <1>2, <2>1, EntryFacts
<1>4. Leads(entries[at].actions, cs[at - 1], cs[at], seen)
  BY <1>1, <1>2, <1>3, ChainFacts
<1>5. Alike(Contents(p), cs[at], seen)
  BY <1>1, AlikeEquivalence
<1>6. UndoAll(p, entries[at].actions) \in Patches /\ Alike(Contents(UndoAll(p, entries[at].actions)), cs[at - 1], seen)
  BY <1>3, <1>4, <1>5, UndoneAll
<1>7. Alike(cs[at - 1], Contents(UndoAll(p, entries[at].actions)), seen)
  BY <1>6, AlikeEquivalence
<1> QED
  BY <1>1, <1>6, <1>7 DEF Recorded

\* Redoing the entry above.
LEMMA RecordedRedone ==
  ASSUME NEW entries \in Seq(Entries), NEW at \in Nat, at < Len(entries), NEW p \in Patches,
         NEW seen, Recorded(entries, at, p, seen)
  PROVE  /\ RedoAll(p, entries[at + 1].actions) \in Patches
         /\ Recorded(entries, at + 1, RedoAll(p, entries[at + 1].actions), seen)
<1>1. PICK cs : Chained(cs, entries, seen) /\ Alike(cs[at], Contents(p), seen)
  BY DEF Recorded
<1>2. PICK l \in Nat : l = Len(entries)
  OBVIOUS
<1>3. PICK n \in 1..l : n = at + 1
  BY <1>2
<1>4. entries[n].actions \in Seq(Edits) /\ n - 1 = at
  BY <1>2, <1>3, EntryFacts
<1>5. Leads(entries[n].actions, cs[at], cs[n], seen)
  BY <1>1, <1>2, <1>4, ChainFacts
<1>6. Alike(Contents(p), cs[at], seen)
  BY <1>1, AlikeEquivalence
<1>7. RedoAll(p, entries[n].actions) \in Patches /\ Alike(Contents(RedoAll(p, entries[n].actions)), cs[n], seen)
  BY <1>4, <1>5, <1>6, RedoneAll
<1>8. Alike(cs[n], Contents(RedoAll(p, entries[n].actions)), seen)
  BY <1>7, AlikeEquivalence
<1> QED
  BY <1>1, <1>3, <1>7, <1>8 DEF Recorded

\* Contents alike in everything are the same.
LEMMA SameContents ==
  ASSUME NEW c \in Content, NEW d \in Content, Alike(c, d, Everything)
  PROVE  c = d
  BY DEF Content, Alike, Everything

\* Undoing the whole history.
LEMMA RecordedLeadsBack ==
  ASSUME NEW entries \in Seq(Entries), NEW at \in Nat, at > 0, at <= Len(entries), NEW p \in Patches,
         Recorded(entries, at, p, Everything)
  PROVE  Contents(LedBack(p, entries, at)) = Contents(entries[1].from)
<1>1. PICK cs : Chained(cs, entries, Everything) /\ Alike(cs[at], Contents(p), Everything)
  BY DEF Recorded
<1>2. PICK l \in Nat : l = Len(entries)
  OBVIOUS
<1>3. \A i \in 1..at : /\ entries[i].actions \in Seq(Edits)
                       /\ Leads(entries[i].actions, cs[i - 1], cs[i], Everything)
  <2> TAKE i \in 1..at
  <2>1. i \in 1..l
    BY <1>2
  <2>2. entries[i].actions \in Seq(Edits)
    BY <1>2, <2>1, EntryFacts
  <2> QED
    BY <1>1, <1>2, <2>1, <2>2, ChainFacts
<1>4. Alike(Contents(p), cs[at], Everything)
  BY <1>1, AlikeEquivalence
<1>5. LedBack(p, entries, at) \in Patches /\ Alike(Contents(LedBack(p, entries, at)), cs[0], Everything)
  BY <1>3, <1>4, UndoneHistory
<1>6. entries[1].from \in Patches
  <2>1. 1 \in 1..l
    BY <1>2
  <2> QED
    BY <1>2, <2>1, EntryFacts
<1>7. Alike(cs[0], Contents(entries[1].from), Everything)
  <2>1. "settings" \in Everything /\ l > 0
    BY <1>2 DEF Everything
  <2> QED
    BY <1>1, <1>2, <2>1, ChainFacts
<1>8. Alike(Contents(LedBack(p, entries, at)), Contents(entries[1].from), Everything)
  BY <1>5, <1>7, AlikeEquivalence
<1>9. Contents(LedBack(p, entries, at)) \in Content /\ Contents(entries[1].from) \in Content
  BY <1>5, <1>6, PatchFacts
<1> QED
  BY <1>8, <1>9, SameContents

\* What of a patch the recorded edits account for, when something else may
\* have changed settings, or not.
Seen(disturbed) == IF disturbed THEN {"cables"} ELSE Everything

\* The open transaction.
Txns ==
  [phase : {"applying", "rolling back"}, pre : Patches, actions : Seq(Edits), pending : Seq(Edits),
   applied : Nat, disturbed : BOOLEAN]

\* The recorded edits lead to the patch p, and the pending ones go on from there.
Applying(t, p) ==
  /\ Leads(t.actions, Contents(t.pre), Contents(p), Seen(t.disturbed))
  /\ \E d \in Content : Leads(t.pending, Contents(p), d, Seen(t.disturbed))
  /\ \A i \in DOMAIN t.pending : t.pending[i].kind = "ModuleAdd" => i = 1 /\ t.pending[i].id \notin Names(t.actions)

\* The modules of p are those the edits lead to, but for some they do not name.
Undoable(actions, p) ==
  \E c \in Content, d \in Content, new \in SUBSET Modules :
    Leads(actions, c, d, {}) /\ Present(p) = Present(d) \cup new /\ new \cap Names(actions) = {}

\* While rolling back: unless an edit was lost, the recorded edits still lead to p.
RollingBack(t, p, lost) ==
  /\ t.pending = <<>>
  /\ ~t.disturbed \/ ~lost => Leads(t.actions, Contents(t.pre), Contents(p), Seen(t.disturbed))
  /\ Undoable(t.actions, p)

\* The open transaction fits the patch.
Ongoing(t, p, lost) ==
  /\ t.phase = "applying" => Applying(t, p)
  /\ t.phase = "rolling back" => RollingBack(t, p, lost)

\* What is seen, with settings and without.
LEMMA SeenFacts ==
  /\ \A b \in BOOLEAN : "cables" \in Seen(b) /\ {"cables"} \in SUBSET Seen(b) /\ {} \in SUBSET Seen(b)
  /\ Seen(TRUE) = {"cables"} /\ Seen(FALSE) = Everything
  /\ "settings" \in Everything /\ "settings" \notin {"cables"}
  BY DEF Seen, Everything

\* What a transaction is made of.
LEMMA TxnFacts ==
  ASSUME NEW t \in Txns
  PROVE  /\ t.phase \in {"applying", "rolling back"} /\ t.pre \in Patches /\ t.actions \in Seq(Edits)
         /\ t.pending \in Seq(Edits) /\ t.applied \in Nat /\ t.disturbed \in BOOLEAN
         /\ t.phase # "idle"
  BY DEF Txns

\* What the edits name.
LEMMA NamesOf ==
  ASSUME NEW S, NEW actions \in Seq(S), actions # <<>>
  PROVE  /\ Names(Front(actions)) \subseteq Names(actions)
         /\ Last(actions).kind \in {"ModuleAdd", "ModuleRemove"} => Last(actions).id \in Names(actions)
<1>1. PICK n \in Nat : n = Len(actions)
  OBVIOUS
<1>2. /\ n > 0 /\ Last(actions) = actions[n] /\ actions[n] \in S
      /\ Front(actions) \in Seq(S) /\ Len(Front(actions)) = n - 1 /\ DOMAIN Front(actions) = 1..n - 1
      /\ \A i \in 1..n - 1 : Front(actions)[i] = actions[i]
  BY <1>1, AllButLast
<1>3. DOMAIN actions = 1..n
  BY <1>1
<1>4. Range(Front(actions)) \subseteq Range(actions) /\ Last(actions) \in Range(actions)
  BY <1>2, <1>3 DEF Range
<1> QED
  BY <1>4 DEF Names

\* Undoing the newest edit while rolling back.
LEMMA UndoableUndone ==
  ASSUME NEW actions \in Seq(Edits), actions # <<>>, NEW p \in Patches, Undoable(actions, p)
  PROVE  Undo(p, Last(actions)) \in Patches /\ Undoable(Front(actions), Undo(p, Last(actions)))
<1>1. PICK c \in Content : \E d \in Content, new \in SUBSET Modules :
        Leads(actions, c, d, {}) /\ Present(p) = Present(d) \cup new /\ new \cap Names(actions) = {}
  BY DEF Undoable
<1>2. PICK d \in Content, new \in SUBSET Modules :
        Leads(actions, c, d, {}) /\ Present(p) = Present(d) \cup new /\ new \cap Names(actions) = {}
  BY <1>1
<1>3. PICK e \in Content, f \in Content :
        Leads(Front(actions), c, e, {}) /\ Moves(e, Last(actions), f, {}) /\ Alike(f, d, {})
  BY <1>2, LeadsLast
<1>4. PICK a \in Edits : a = Last(actions)
  BY LeadsLast, <1>2
<1>5. Present(f) = Present(d) /\ Moves(e, a, f, {})
  BY <1>3, <1>4 DEF Alike
<1>6. /\ Names(Front(actions)) \subseteq Names(actions)
      /\ a.kind \in {"ModuleAdd", "ModuleRemove"} => a.id \in Names(actions)
  BY <1>4, NamesOf
<1>7. Undo(p, a) \in Patches /\ Present(Undo(p, a)) = Present(e) \cup new
  <2>1. CASE a.kind = "ModuleAdd"
    <3>1. a.id \notin Present(e) /\ Present(f) = Present(e) \cup {a.id}
      BY <1>5, <2>1 DEF Moves, Gains
    <3>2. Undo(p, a) = Delete(p, a.id)
      BY <2>1 DEF Undo
    <3>3. a.id \in Present(p) /\ a.id \notin new
      BY <1>2, <1>5, <1>6, <2>1, <3>1
    <3>4. Delete(p, a.id) \in Patches /\ Present(Delete(p, a.id)) = Present(p) \ {a.id}
      BY <3>3, DeleteDone
    <3> QED
      BY <1>2, <1>5, <3>1, <3>2, <3>3, <3>4
  <2>2. CASE a.kind = "ModuleRemove"
    <3>1. a.id \notin Present(f) /\ Present(e) = Present(f) \cup {a.id}
      BY <1>5, <2>2 DEF Moves, Gains
    <3>2. Undo(p, a) = Insert(p, a.id, a.module) /\ a.id \in Modules /\ a.module \in Module
      BY <2>2, EditFacts DEF Undo
    <3>3. a.id \notin Present(p)
      BY <1>2, <1>5, <1>6, <2>2, <3>1
    <3>4. Insert(p, a.id, a.module) \in Patches /\ Present(Insert(p, a.id, a.module)) = Present(p) \cup {a.id}
      BY <3>2, <3>3, InsertDone
    <3> QED
      BY <1>2, <1>5, <3>1, <3>2, <3>3, <3>4
  <2>3. CASE a.kind = "CableAdd"
    <3>1. Present(f) = Present(e) /\ Undo(p, a) = Unplug(p, a.cable) /\ a.cable \in Cable
      BY <1>5, <2>3, EditFacts DEF Moves, Takes, Undo
    <3> QED
      BY <1>2, <1>5, <3>1, CablesDone DEF Present
  <2>4. CASE a.kind = "CableRemove"
    <3>1. Present(f) = Present(e) /\ Undo(p, a) = Plug(p, a.cable) /\ a.cable \in Cable
      BY <1>5, <2>4, EditFacts DEF Moves, Takes, Undo
    <3> QED
      BY <1>2, <1>5, <3>1, CablesDone DEF Present
  <2>5. CASE a.kind = "Change"
    <3>1. Present(f) = Present(e) /\ Undo(p, a) = Assign(p, a.fields, a.old) /\ a.old \in Racks
      BY <1>5, <2>5, EditFacts DEF Moves, Alters, Undo
    <3> QED
      BY <1>2, <1>5, <3>1, AssignDone
  <2> QED
    BY <2>1, <2>2, <2>3, <2>4, <2>5, EditFacts
<1>8. new \cap Names(Front(actions)) = {}
  BY <1>2, <1>6
<1> QED
  BY <1>3, <1>4, <1>7, <1>8 DEF Undoable

\* The edits that a throw leaves unrecorded.
LEMMA ThrownEdits ==
  ASSUME NEW t \in Txns, NEW p \in Patches, Applying(t, p), NEW k \in Unrecorded(t.pending)
  PROVE  /\ RedoAll(p, SubSeq(t.pending, 1, k)) \in Patches
         /\ Undoable(t.actions, RedoAll(p, SubSeq(t.pending, 1, k)))
         /\ k = 0 => Leads(t.actions, Contents(t.pre), Contents(RedoAll(p, SubSeq(t.pending, 1, k))), Seen(t.disturbed))
<1> DEFINE seen == Seen(t.disturbed)
           es == t.pending
<1>1. es \in Seq(Edits) /\ t.actions \in Seq(Edits) /\ t.pre \in Patches /\ t.disturbed \in BOOLEAN
  BY TxnFacts
<1>2. {} \in SUBSET seen
  BY <1>1, SeenFacts
<1>3. PICK d \in Content : Leads(es, Contents(p), d, seen)
  BY DEF Applying
<1> HIDE DEF seen, es
<1>4. PICK ps : Walk(es, ps, seen) /\ Alike(ps[0], Contents(p), seen)
  BY <1>3 DEF Leads
<1>5. PICK l \in Nat : l = Len(es)
  BY <1>1
<1>6. k \in Nat /\ k <= l
  BY <1>5 DEF Unrecorded, es
<1>7. Between(es, 0, k) \in Seq(Edits) /\ Between(es, 0, k) = SubSeq(es, 1, k)
  <2>1. 0 <= k /\ k = k - 0
    BY <1>6
  <2>2. Between(es, 0, k) \in Seq(Edits)
    BY <1>1, <1>5, <1>6, <2>1, Stretch
  <2> QED
    BY <2>2 DEF Between
<1>8. Leads(Between(es, 0, k), ps[0], ps[k], seen)
  <2>1. 0 <= k
    BY <1>6
  <2> QED
    BY <1>1, <1>4, <1>5, <1>6, <2>1, WalkLeads
<1> DEFINE q == RedoAll(p, Between(es, 0, k))
<1>9. q \in Patches /\ Alike(Contents(q), ps[k], seen)
  <2>1. Alike(Contents(p), ps[0], seen)
    BY <1>4, AlikeEquivalence
  <2> QED
    BY <1>7, <1>8, <2>1, RedoneAll
<1> HIDE DEF q
<1>10. Present(q) = Present(ps[k]) /\ Present(ps[0]) = Present(p)
  BY <1>4, <1>9, PatchFacts DEF Alike
<1>11. \A i \in 1..l : es[i] \in Edits /\ Moves(ps[i - 1], es[i], ps[i], seen)
  BY <1>1, <1>4, <1>5, WalkFacts
<1>12. \E new \in SUBSET Modules : Present(q) = Present(p) \cup new /\ new \cap Names(t.actions) = {}
  <2>1. CASE k = 0
    <3>1. Present(q) = Present(p) \cup {}
      BY <1>10, <2>1
    <3>2. {} \in SUBSET Modules /\ {} \cap Names(t.actions) = {}
      OBVIOUS
    <3> QED
      BY <3>1, <3>2
  <2>2. CASE k > 0
    <3>1. /\ es[1].kind # "ModuleRemove" /\ es[1] \in Edits /\ Moves(ps[0], es[1], ps[1], seen)
          /\ k = 1 \/ (k = 2 /\ es[2].kind = "Change" /\ es[2] \in Edits /\ Moves(ps[1], es[2], ps[2], seen))
      <4>1. /\ k \in 1..l /\ es[1].kind # "ModuleRemove"
            /\ k = 1 \/ (k = 2 /\ es[2].kind = "Change")
        BY <1>5, <2>2 DEF Unrecorded, es
      <4>2. 1 \in 1..l /\ 1 - 1 = 0 /\ 2 - 1 = 1 /\ (k = 2 => 2 \in 1..l)
        BY <1>5, <4>1
      <4> QED
        BY <1>11, <4>1, <4>2
    <3>2. Present(ps[k]) = Present(ps[1])
      BY <3>1 DEF Moves, Alters
    <3>3. CASE es[1].kind = "ModuleAdd"
      <4>1. 1 \in DOMAIN es
        BY <1>1, <1>5, <1>6, <2>2
      <4>2. es[1].id \in Modules /\ es[1].id \notin Names(t.actions)
        BY <3>1, <3>3, <4>1, EditFacts DEF Applying, es
      <4>3. Present(ps[1]) = Present(ps[0]) \cup {es[1].id}
        BY <3>1, <3>3 DEF Moves, Gains
      <4>4. {es[1].id} \in SUBSET Modules /\ {es[1].id} \cap Names(t.actions) = {}
        BY <4>2
      <4> QED
        BY <1>10, <3>2, <4>3, <4>4
    <3>4. CASE es[1].kind # "ModuleAdd"
      <4>1. Present(ps[1]) = Present(ps[0])
        BY <3>1, <3>4, EditFacts DEF Moves, Takes, Alters
      <4>2. Present(q) = Present(p) \cup {}
        BY <1>10, <3>2, <4>1
      <4>3. {} \in SUBSET Modules /\ {} \cap Names(t.actions) = {}
        OBVIOUS
      <4> QED
        BY <4>2, <4>3
    <3> QED
      BY <3>3, <3>4
  <2> QED
    BY <1>6, <2>1, <2>2
<1>13. PICK new \in SUBSET Modules : Present(q) = Present(p) \cup new /\ new \cap Names(t.actions) = {}
  BY <1>12
<1>14. Leads(t.actions, Contents(t.pre), Contents(p), seen)
  BY DEF Applying, seen
<1>15. Undoable(t.actions, q)
  <2>1. Leads(t.actions, Contents(t.pre), Contents(p), {})
    BY <1>1, <1>2, <1>14, LeadsLess
  <2>2. Contents(t.pre) \in Content /\ Contents(p) \in Content /\ Present(Contents(p)) = Present(p)
    BY <1>1, PatchFacts
  <2> QED
    BY <1>13, <2>1, <2>2 DEF Undoable
<1>16. k = 0 => Leads(t.actions, Contents(t.pre), Contents(q), seen)
  <2>1. SUFFICES ASSUME k = 0 PROVE Leads(t.actions, Contents(t.pre), Contents(q), seen)
    OBVIOUS
  <2>2. Alike(Contents(q), ps[0], seen)
    BY <1>9, <2>1
  <2>3. Alike(Contents(p), Contents(q), seen) /\ Alike(Contents(t.pre), Contents(t.pre), seen)
    BY <1>4, <2>2, AlikeEquivalence
  <2> QED
    BY <1>1, <1>14, <2>3, LeadsAlike
<1>17. q = RedoAll(p, SubSeq(t.pending, 1, k))
  BY <1>7 DEF q, es
<1> QED
  BY <1>9, <1>15, <1>16, <1>17 DEF seen

\* Making the next pending edit, and recording it.
LEMMA ApplyingEdited ==
  ASSUME NEW t \in Txns, NEW p \in Patches, Applying(t, p), t.pending # <<>>,
         NEW u, u = [t EXCEPT !.pending = Tail(@), !.actions = Append(@, Head(t.pending))]
  PROVE  /\ Redo(p, Head(t.pending)) \in Patches
         /\ u \in Txns /\ u.phase = t.phase /\ u.pre = t.pre /\ u.disturbed = t.disturbed
         /\ Applying(u, Redo(p, Head(t.pending)))
<1> DEFINE seen == Seen(t.disturbed)
           es == t.pending
           a == Head(es)
           q == Redo(p, a)
<1>1. es \in Seq(Edits) /\ es # <<>> /\ t.actions \in Seq(Edits) /\ t.pre \in Patches
  BY TxnFacts
<1>2. PICK d \in Content : Leads(es, Contents(p), d, seen)
  BY DEF Applying
<1>3. Leads(t.actions, Contents(t.pre), Contents(p), seen)
  BY DEF Applying
<1>4. \A i \in DOMAIN es : es[i].kind = "ModuleAdd" => i = 1
  BY DEF Applying
<1>5. /\ u \in Txns /\ u.phase = t.phase /\ u.pre = t.pre /\ u.disturbed = t.disturbed
      /\ u.pending = Tail(es) /\ u.actions = Append(t.actions, a)
  <2>1. Tail(es) \in Seq(Edits) /\ Append(t.actions, a) \in Seq(Edits)
    <3> HIDE DEF es
    <3>1. a \in Edits /\ Tail(es) \in Seq(Edits)
      BY <1>1, <1>2, LeadsFirst
    <3> QED
      BY <1>1, <3>1
  <2> QED
    BY <2>1 DEF Txns
<1> HIDE DEF seen, es
<1>6. a \in Edits /\ Tail(es) \in Seq(Edits) /\ \E e \in Content : Moves(Contents(p), a, e, seen) /\ Leads(Tail(es), e, d, seen)
  BY <1>1, <1>2, LeadsFirst
<1> HIDE DEF a
<1>7. PICK e \in Content : Moves(Contents(p), a, e, seen) /\ Leads(Tail(es), e, d, seen)
  BY <1>6
<1>8. q \in Patches /\ Alike(Contents(q), e, seen)
  <2>1. Contents(p) \in Content /\ Alike(Contents(p), Contents(p), seen)
    BY PatchFacts, AlikeEquivalence
  <2> QED
    BY <1>6, <1>7, <2>1, RedoMoves
<1> HIDE DEF q
<1>9. Alike(e, Contents(q), seen) /\ Alike(d, d, seen) /\ Alike(Contents(t.pre), Contents(t.pre), seen)
  BY <1>8, AlikeEquivalence
<1>10. Leads(Append(t.actions, a), Contents(t.pre), Contents(q), seen)
  <2>1. Leads(Append(t.actions, a), Contents(t.pre), e, seen)
    BY <1>1, <1>3, <1>6, <1>7, PatchFacts, LeadsAppend
  <2>2. Append(t.actions, a) \in Seq(Edits)
    BY <1>1, <1>6
  <2> QED
    BY <1>9, <2>1, <2>2, LeadsAlike
<1>11. Leads(Tail(es), Contents(q), d, seen)
  BY <1>6, <1>7, <1>9, LeadsAlike
<1>12. \A i \in DOMAIN Tail(es) : Tail(es)[i].kind # "ModuleAdd"
  <2>1. PICK n \in Nat : n = Len(es)
    BY <1>1
  <2>2. n > 0 /\ DOMAIN Tail(es) = 1..n - 1 /\ \A i \in 1..n - 1 : Tail(es)[i] = es[i + 1]
    BY <1>1, <2>1, AllButFirst
  <2>3. DOMAIN es = 1..n
    BY <1>1, <2>1
  <2> TAKE i \in DOMAIN Tail(es)
  <2>4. i + 1 \in DOMAIN es /\ i + 1 # 1 /\ Tail(es)[i] = es[i + 1]
    BY <2>1, <2>2, <2>3
  <2> QED
    BY <1>4, <2>4
<1>13. Applying(u, q)
  BY <1>5, <1>10, <1>11, <1>12 DEF Applying, seen
<1> QED
  BY <1>5, <1>8, <1>13 DEF q, a, es

\* A change of settings behind the engine's back.
LEMMA OngoingTouched ==
  ASSUME NEW t \in Txns, NEW p \in Patches, NEW q \in Patches, Alike(Contents(p), Contents(q), {"cables"}),
         NEW lost \in BOOLEAN, Ongoing(t, p, lost), NEW u, u = [t EXCEPT !.disturbed = TRUE]
  PROVE  u \in Txns /\ u.pre = t.pre /\ Ongoing(u, q, lost)
<1>1. /\ t.actions \in Seq(Edits) /\ t.pending \in Seq(Edits) /\ t.pre \in Patches /\ t.disturbed \in BOOLEAN
      /\ t.phase \in {"applying", "rolling back"}
  BY TxnFacts
<1>2. /\ u \in Txns /\ u.phase = t.phase /\ u.pre = t.pre /\ u.disturbed = TRUE
      /\ u.pending = t.pending /\ u.actions = t.actions
  BY DEF Txns
<1>3. PICK seen : seen = Seen(t.disturbed)
  OBVIOUS
<1>4. {"cables"} \in SUBSET seen /\ Seen(TRUE) = {"cables"}
  BY <1>1, <1>3, SeenFacts
<1>5. \A c : Alike(c, c, {"cables"})
  BY AlikeEquivalence
<1>6. ASSUME NEW es \in Seq(Edits), NEW c, Leads(es, c, Contents(p), seen)
      PROVE  Leads(es, c, Contents(q), {"cables"})
  <2>1. Leads(es, c, Contents(p), {"cables"})
    BY <1>4, <1>6, LeadsLess
  <2> QED
    BY <1>5, <2>1, LeadsAlike
<1>7. CASE t.phase = "applying"
  <2>1. Applying(t, p)
    BY <1>7 DEF Ongoing
  <2>2. PICK d \in Content : Leads(t.pending, Contents(p), d, seen)
    BY <1>3, <2>1 DEF Applying
  <2>3. Leads(t.actions, Contents(t.pre), Contents(q), {"cables"})
    BY <1>1, <1>3, <1>6, <2>1 DEF Applying
  <2>4. Leads(t.pending, Contents(p), d, {"cables"})
    BY <1>1, <1>4, <2>2, LeadsLess
  <2>5. Leads(t.pending, Contents(q), d, {"cables"})
    BY <1>1, <1>5, <2>4, LeadsAlike
  <2>6. Applying(u, q)
    BY <1>2, <1>4, <2>1, <2>3, <2>5 DEF Applying
  <2> QED
    BY <1>2, <1>7, <2>6 DEF Ongoing
<1>8. CASE t.phase = "rolling back"
  <2>1. RollingBack(t, p, lost)
    BY <1>8 DEF Ongoing
  <2>2. ~lost => Leads(t.actions, Contents(t.pre), Contents(q), {"cables"})
    BY <1>1, <1>3, <1>6, <2>1 DEF RollingBack
  <2>3. Present(q) = Present(p)
    BY PatchFacts DEF Alike
  <2>4. Undoable(t.actions, q)
    BY <2>1, <2>3 DEF RollingBack, Undoable
  <2>5. RollingBack(u, q, lost)
    BY <1>2, <1>4, <2>1, <2>2, <2>4 DEF RollingBack
  <2> QED
    BY <1>2, <1>8, <2>5 DEF Ongoing
<1> QED
  BY <1>1, <1>7, <1>8

-----------------------------------------------------------------------------
(* The invariant *)

\* The edits of an entry of the history lead to the patch p.
Arrives(e, p) == Leads(e.actions, Contents(e.from), Contents(p), Seen(e.disturbed))

\* The types.
Shaped ==
  /\ patch \in Patches
  /\ history \in [entries : Seq(Entries), at : Nat]
  /\ history.at <= Len(history.entries) /\ Len(history.entries) <= MaxHistory
  /\ reply.flagged \in BOOLEAN /\ reply.rolledBack \in {"no", "complete", "threw", "unreadable", "differs"}
  /\ begun \in 0..MaxEvents /\ touches \in Nat /\ astray \in BOOLEAN

\* The transaction t, if one is open, fits the patch p.
Transacting(t, p, at, lost, sets) ==
  \/ t = NoTxn
  \/ t \in Txns /\ Ongoing(t, p, lost) /\ at < MaxHistory /\ (~lost /\ sets = 0 => ~t.disturbed)

\* Entries have the number of their transaction, and the open one is newer.
Numbered(entries, newest, idle) ==
  /\ ~idle => newest > 0
  /\ \A n \in 1..Len(entries) : entries[n].op <= newest /\ (~idle => entries[n].op < newest)

\* The transaction remembered as the last one is the one whose edits lead
\* to the patch remembered.
Remembered(l, entries, newest, idle) ==
  \/ l = NoLast
  \/ /\ l.op \in 1..newest /\ l.post \in Patches /\ (~idle => l.op < newest)
     /\ \A n \in 1..Len(entries) : entries[n].op = l.op => Arrives(entries[n], l.post)

\* The history leads to the patch, but for the open transaction, unless an
\* edit was lost; settings count until a worker thread sets one.
Known(entries, at, p, t, lost, sets) ==
  ~lost => Recorded(entries, at, IF t.phase = "idle" THEN p ELSE t.pre, Seen(sets > 0))

\* The inductive invariant.
TxnInv ==
  /\ Shaped
  /\ Transacting(txn, patch, history.at, astray, touches)
  /\ Numbered(history.entries, begun, Idle)
  /\ Remembered(last, history.entries, begun, Idle)
  /\ Known(history.entries, history.at, patch, txn, astray, touches)

\* With no transaction open, and with one.
LEMMA IdleFacts ==
  ASSUME TxnInv
  PROVE  /\ NoTxn.phase = "idle"
         /\ Idle => txn = NoTxn
         /\ ~Idle => /\ txn \in Txns /\ Ongoing(txn, patch, astray) /\ history.at < MaxHistory
                     /\ ~astray /\ touches = 0 => ~txn.disturbed
<1>1. NoTxn.phase = "idle"
  BY DEF NoTxn
<1>2. txn = NoTxn \/ (txn \in Txns /\ txn.phase # "idle")
  BY TxnFacts DEF TxnInv, Transacting
<1> QED
  BY <1>1, <1>2 DEF TxnInv, Transacting, Idle

\* The history has room.
LEMMA HistoryFacts ==
  ASSUME TxnInv
  PROVE  /\ history.entries \in Seq(Entries) /\ history.at \in Nat /\ Len(history.entries) \in Nat
         /\ history.at <= Len(history.entries) /\ Len(history.entries) <= MaxHistory
         /\ history.at \in 0..Len(history.entries)
  BY DEF TxnInv, Shaped

\* The parts of a reply.
LEMMA SaidFacts ==
  ASSUME NEW to, NEW code, NEW flagged, NEW rolledBack
  PROVE  /\ Say(to, code, flagged, rolledBack).to = to /\ Say(to, code, flagged, rolledBack).code = code
         /\ Say(to, code, flagged, rolledBack).flagged = flagged
         /\ Say(to, code, flagged, rolledBack).rolledBack = rolledBack
         /\ NoReply.to = "nobody" /\ NoReply.flagged = FALSE /\ NoReply.rolledBack = "no" /\ NoReply.code = "NONE"
  BY DEF Say, NoReply

\* Beginning another transaction.
LEMMA NumberedLater ==
  ASSUME NEW entries \in Seq(Entries), NEW b \in Nat, NEW i \in BOOLEAN, Numbered(entries, b, i), NEW j \in BOOLEAN
  PROVE  Numbered(entries, b + 1, j)
<1>1. PICK l \in Nat : l = Len(entries)
  OBVIOUS
<1>2. \A n \in 1..l : entries[n].op \in Nat
  BY <1>1, EntryFacts
<1> QED
  BY <1>1, <1>2 DEF Numbered

\* It leaves the last one remembered.
LEMMA RememberedLater ==
  ASSUME NEW l, NEW entries, NEW b \in Nat, NEW i \in BOOLEAN, Remembered(l, entries, b, i), NEW j \in BOOLEAN
  PROVE  Remembered(l, entries, b + 1, j)
<1>1. \A n \in 1..b : n \in 1..b + 1 /\ n < b + 1
  OBVIOUS
<1> QED
  BY <1>1 DEF Remembered

\* The open transaction ends.
LEMMA Ended ==
  ASSUME NEW l, NEW entries, NEW b, NEW i
  PROVE  /\ Numbered(entries, b, i) => Numbered(entries, b, TRUE)
         /\ Remembered(l, entries, b, i) => Remembered(l, entries, b, TRUE)
  BY DEF Numbered, Remembered

\* A push keeps the numbers in order,
LEMMA NumberedPushed ==
  ASSUME NEW entries \in Seq(Entries), NEW at \in Nat, at <= Len(entries), NEW e \in Entries,
         NEW b \in Nat, NEW i \in BOOLEAN, Numbered(entries, b, i), e.op <= b
  PROVE  Numbered(Append(SubSeq(entries, 1, at), e), b, TRUE)
<1> DEFINE new == Append(SubSeq(entries, 1, at), e)
<1>1. Len(new) = at + 1 /\ (\A n \in 1..at : new[n] = entries[n]) /\ new[at + 1] = e
  BY Pushed
<1> HIDE DEF new
<1>2. \A n \in 1..at : n \in 1..Len(entries)
  OBVIOUS
<1>3. \A n \in 1..at + 1 : n \in 1..at \/ n = at + 1
  OBVIOUS
<1>4. Numbered(new, b, TRUE)
  BY <1>1, <1>2, <1>3 DEF Numbered
<1> QED
  BY <1>4 DEF new

\* and the last transaction remembered,
LEMMA RememberedPushed ==
  ASSUME NEW entries \in Seq(Entries), NEW at \in Nat, at <= Len(entries), NEW e \in Entries,
         NEW l, NEW b \in Nat, NEW i \in BOOLEAN, Remembered(l, entries, b, i), l = NoLast \/ e.op # l.op
  PROVE  Remembered(l, Append(SubSeq(entries, 1, at), e), b, TRUE)
<1> DEFINE new == Append(SubSeq(entries, 1, at), e)
<1>1. Len(new) = at + 1 /\ (\A n \in 1..at : new[n] = entries[n]) /\ new[at + 1] = e
  BY Pushed
<1> HIDE DEF new
<1>2. \A n \in 1..at : n \in 1..Len(entries)
  OBVIOUS
<1>3. \A n \in 1..at + 1 : n \in 1..at \/ n = at + 1
  OBVIOUS
<1>4. Remembered(l, new, b, TRUE)
  BY <1>1, <1>2, <1>3 DEF Remembered
<1> QED
  BY <1>4 DEF new

\* or remembers the one just committed.
LEMMA RememberedCommitted ==
  ASSUME NEW entries \in Seq(Entries), NEW at \in Nat, at <= Len(entries), NEW e \in Entries,
         NEW b \in Nat, Numbered(entries, b, FALSE), e.op = b, NEW p \in Patches, Arrives(e, p),
         NEW l, l.op = b, l.post = p
  PROVE  Remembered(l, Append(SubSeq(entries, 1, at), e), b, TRUE)
<1> DEFINE new == Append(SubSeq(entries, 1, at), e)
<1>1. Len(new) = at + 1 /\ (\A n \in 1..at : new[n] = entries[n]) /\ new[at + 1] = e
  BY Pushed
<1> HIDE DEF new
<1>2. PICK len \in Nat : len = Len(entries)
  OBVIOUS
<1>3. \A n \in 1..at : new[n].op # b
  <2> TAKE n \in 1..at
  <2>1. n \in 1..len
    BY <1>2
  <2>2. entries[n].op \in Nat /\ entries[n].op < b
    BY <1>2, <2>1, EntryFacts DEF Numbered
  <2>3. entries[n].op # b
    BY <2>2
  <2> QED
    BY <1>1, <2>3
<1>4. \A n \in 1..at + 1 : n \in 1..at \/ n = at + 1
  OBVIOUS
<1>5. b \in 1..b
  BY DEF Numbered
<1>6. Remembered(l, new, b, TRUE)
  BY <1>1, <1>3, <1>4, <1>5 DEF Remembered
<1> QED
  BY <1>6 DEF new

\* What txnUndoLast's guards make sure of.
LEMMA MayUndoFacts ==
  ASSUME TxnInv, NEW op, MayUndo(op)
  PROVE  /\ Newest \in Entries /\ Newest.actions \in Seq(Edits) /\ Newest.from \in Patches /\ Newest.disturbed \in BOOLEAN
         /\ history.at > 0 /\ Newest.op = last.op /\ Arrives(Newest, patch)
<1>1. PICK l \in Nat : l = Len(history.entries)
  BY HistoryFacts
<1>2. history.at \in 1..l
  BY <1>1, HistoryFacts DEF MayUndo
<1>3. /\ Newest \in Entries /\ Newest.actions \in Seq(Edits) /\ Newest.from \in Patches /\ Newest.disturbed \in BOOLEAN
  BY <1>1, <1>2, HistoryFacts, EntryFacts DEF Newest
<1>4. \A n \in 1..l : history.entries[n].op = last.op => Arrives(history.entries[n], last.post)
  BY <1>1 DEF TxnInv, Remembered, MayUndo
<1>5. Newest.op = last.op /\ patch = last.post
  BY DEF MayUndo, Fingerprint
<1>6. Arrives(Newest, patch)
  BY <1>2, <1>4, <1>5 DEF Newest
<1> QED
  BY <1>3, <1>5, <1>6 DEF MayUndo

-----------------------------------------------------------------------------
(* Every step keeps the invariant *)

LEMMA BeginKeeps ==
  ASSUME TxnInv, Begin
  PROVE  TxnInv'
<1>1. Idle /\ txn = NoTxn /\ NoTxn.phase = "idle" /\ Idle' = FALSE /\ patch \in Patches /\ begun \in Nat
  BY IdleFacts, BoundAssumption DEF Begin, Idle, TxnInv, Shaped
<1>2. Shaped'
  <2>1. begun + 1 \in 0..MaxEvents
    BY BoundAssumption DEF Begin, TxnInv, Shaped
  <2> QED
    BY <2>1, SaidFacts DEF Begin, TxnInv, Shaped
<1>3. Transacting(txn', patch', history'.at, astray', touches')
  <2>1. /\ txn' \in Txns /\ txn'.phase = "applying" /\ txn'.pre = patch /\ txn'.actions = <<>>
        /\ txn'.pending = <<>> /\ txn'.disturbed = FALSE
    BY <1>1 DEF Begin, Txns
  <2>2. Contents(patch) \in Content /\ Alike(Contents(patch), Contents(patch), Seen(FALSE))
    BY <1>1, PatchFacts, AlikeEquivalence
  <2>3. Leads(<<>>, Contents(patch), Contents(patch), Seen(FALSE))
    BY <2>2, LeadsNowhere
  <2>4. \A i \in DOMAIN <<>> : <<>>[i].kind = "ModuleAdd" => i = 1 /\ <<>>[i].id \notin Names(<<>>)
    OBVIOUS
  <2>5. Applying(txn', patch)
    BY <2>1, <2>2, <2>3, <2>4 DEF Applying
  <2> QED
    BY <1>1, <2>1, <2>5 DEF Begin, Transacting, Ongoing
<1>4. Numbered(history'.entries, begun', FALSE)
  BY <1>1, HistoryFacts, NumberedLater DEF Begin, TxnInv
<1>5. Remembered(last', history'.entries, begun', FALSE)
  BY <1>1, RememberedLater DEF Begin, TxnInv
<1>6. Known(history'.entries, history'.at, patch', txn', astray', touches')
  BY <1>1 DEF Begin, TxnInv, Known
<1> QED
  BY <1>1, <1>2, <1>3, <1>4, <1>5, <1>6 DEF TxnInv

LEMMA RefuseKeeps ==
  ASSUME TxnInv, Refuse
  PROVE  TxnInv'
<1>1. Idle /\ txn = NoTxn /\ Idle' /\ begun \in Nat
  BY IdleFacts, BoundAssumption DEF Refuse, Idle, TxnInv, Shaped
<1>2. Shaped'
  <2>1. begun + 1 \in 0..MaxEvents
    BY BoundAssumption DEF Refuse, TxnInv, Shaped
  <2> QED
    BY <2>1 DEF Refuse, TxnInv, Shaped, Say
<1>3. Transacting(txn', patch', history'.at, astray', touches')
  BY <1>1 DEF Refuse, Transacting
<1>4. Numbered(history'.entries, begun', TRUE)
  BY <1>1, HistoryFacts, NumberedLater DEF Refuse, TxnInv
<1>5. Remembered(last', history'.entries, begun', TRUE)
  BY <1>1, RememberedLater DEF Refuse, TxnInv
<1>6. Known(history'.entries, history'.at, patch', txn', astray', touches')
  BY DEF Refuse, TxnInv
<1> QED
  BY <1>1, <1>2, <1>3, <1>4, <1>5, <1>6 DEF TxnInv

LEMMA NextOperationKeeps ==
  ASSUME TxnInv, NextOperation
  PROVE  TxnInv'
<1>1. ~Idle /\ txn \in Txns /\ Applying(txn, patch) /\ patch \in Patches /\ txn.phase = "applying"
  BY IdleFacts DEF NextOperation, Idle, Ongoing, TxnInv, Shaped
<1>2. Unused \in SUBSET Modules /\ Unused \cap Present(patch) = {} /\ Unused \cap Names(txn.actions) = {}
  BY DEF Unused, Modules
<1>3. PICK edits \in Operations(patch, Unused) : txn' = [txn EXCEPT !.pending = edits, !.applied = @ + 1]
  BY DEF NextOperation
<1>4. PICK d \in Content : Performs(edits, Contents(patch), d, Unused)
  BY <1>1, <1>2, OperationDone
<1>5. /\ edits \in Seq(Edits) /\ Leads(edits, Contents(patch), d, Everything)
      /\ \A i \in DOMAIN edits : edits[i].kind = "ModuleAdd" => i = 1 /\ edits[i].id \in Unused
  BY <1>4 DEF Performs
<1>6. txn.disturbed \in BOOLEAN /\ txn.actions \in Seq(Edits) /\ txn.pre \in Patches /\ txn.applied \in Nat
  BY <1>1, TxnFacts
<1>7. /\ txn' \in Txns /\ txn'.phase = txn.phase /\ txn'.pre = txn.pre /\ txn'.actions = txn.actions
      /\ txn'.pending = edits /\ txn'.disturbed = txn.disturbed
  <2>1. txn.applied + 1 \in Nat
    BY <1>6
  <2>2. txn' \in Txns
    BY <1>1, <1>3, <1>5, <2>1 DEF Txns
  <2> QED
    BY <1>1, <1>3, <2>2 DEF Txns
<1>8. Leads(edits, Contents(patch), d, Seen(txn.disturbed))
  <2>1. Seen(txn.disturbed) \in SUBSET Everything
    BY DEF Seen, Everything
  <2> QED
    BY <1>5, <2>1, LeadsLess
<1>9. Applying(txn', patch)
  <2>1. \A i \in DOMAIN edits : edits[i].kind = "ModuleAdd" => i = 1 /\ edits[i].id \notin Names(txn.actions)
    BY <1>2, <1>5
  <2> QED
    BY <1>1, <1>7, <1>8, <2>1 DEF Applying
<1>10. Shaped'
  BY SaidFacts DEF NextOperation, TxnInv, Shaped
<1>11. Transacting(txn', patch', history'.at, astray', touches')
  <2>1. history.at < MaxHistory /\ (~astray /\ touches = 0 => ~txn.disturbed)
    BY <1>1, IdleFacts
  <2> QED
    BY <1>1, <1>7, <1>9, <2>1 DEF NextOperation, Transacting, Ongoing
<1>12. Idle' = Idle
  BY <1>7 DEF Idle
<1>13. Known(history'.entries, history'.at, patch', txn', astray', touches')
  BY <1>7 DEF NextOperation, TxnInv, Known
<1> QED
  BY <1>1, <1>10, <1>11, <1>12, <1>13 DEF NextOperation, TxnInv

LEMMA EditKeeps ==
  ASSUME TxnInv, Edit
  PROVE  TxnInv'
<1>1. ~Idle /\ txn \in Txns /\ Applying(txn, patch) /\ patch \in Patches /\ txn.phase = "applying" /\ txn.pending # <<>>
  BY IdleFacts DEF Edit, Idle, Ongoing, TxnInv, Shaped
<1>2. /\ patch' = Redo(patch, Head(txn.pending))
      /\ txn' = [txn EXCEPT !.pending = Tail(@), !.actions = Append(@, Head(txn.pending))]
  BY DEF Edit
<1>3. /\ patch' \in Patches /\ txn' \in Txns /\ txn'.phase = txn.phase /\ txn'.pre = txn.pre
      /\ txn'.disturbed = txn.disturbed /\ Applying(txn', patch')
  BY <1>1, <1>2, ApplyingEdited
<1>4. Shaped'
  BY <1>3, SaidFacts DEF Edit, TxnInv, Shaped
<1>5. Transacting(txn', patch', history'.at, astray', touches')
  <2>1. history.at < MaxHistory /\ (~astray /\ touches = 0 => ~txn.disturbed)
    BY <1>1, IdleFacts
  <2> QED
    BY <1>1, <1>3, <2>1 DEF Edit, Transacting, Ongoing
<1>6. Idle' = Idle
  BY <1>3 DEF Idle
<1>7. Known(history'.entries, history'.at, patch', txn', astray', touches')
  BY <1>1, <1>3 DEF Edit, TxnInv, Known
<1> QED
  BY <1>1, <1>4, <1>5, <1>6, <1>7 DEF Edit, TxnInv

LEMMA ThrowKeeps ==
  ASSUME TxnInv, Throw
  PROVE  TxnInv'
<1>1. ~Idle /\ txn \in Txns /\ Applying(txn, patch) /\ patch \in Patches /\ txn.phase = "applying" /\ astray \in BOOLEAN
  BY IdleFacts DEF Throw, Idle, Ongoing, TxnInv, Shaped
<1>2. PICK k \in Unrecorded(txn.pending) :
        /\ patch' = RedoAll(patch, SubSeq(txn.pending, 1, k))
        /\ txn' = [txn EXCEPT !.phase = "rolling back", !.pending = <<>>, !.disturbed = @ \/ k > 0]
        /\ astray' = (astray \/ k > 0)
  BY DEF Throw
<1>3. k = 0 \/ k > 0
  BY DEF Unrecorded
<1>4. /\ patch' \in Patches /\ Undoable(txn.actions, patch')
      /\ k = 0 => Leads(txn.actions, Contents(txn.pre), Contents(patch'), Seen(txn.disturbed))
  BY <1>1, <1>2, ThrownEdits
<1>5. /\ txn.disturbed \in BOOLEAN /\ txn.actions \in Seq(Edits)
  BY <1>1, TxnFacts
<1>6. /\ txn' \in Txns /\ txn'.phase = "rolling back" /\ txn'.pre = txn.pre /\ txn'.actions = txn.actions
      /\ txn'.pending = <<>> /\ txn'.disturbed = (txn.disturbed \/ k > 0)
  <2>1. (txn.disturbed \/ k > 0) \in BOOLEAN /\ <<>> \in Seq(Edits)
    OBVIOUS
  <2> QED
    BY <1>1, <1>2, <2>1 DEF Txns
<1>7. RollingBack(txn', patch', astray')
  <2>1. ~txn'.disturbed \/ ~astray' => Leads(txn'.actions, Contents(txn'.pre), Contents(patch'), Seen(txn'.disturbed))
    <3>1. CASE k = 0
      <4>1. txn'.disturbed = txn.disturbed
        <5>1. ~(k > 0)
          BY <3>1
        <5>2. txn.disturbed = TRUE \/ txn.disturbed = FALSE
          BY <1>5
        <5> QED
          BY <1>6, <5>1, <5>2, Zenon
      <4> QED
        BY <1>4, <1>6, <3>1, <4>1
    <3>2. CASE k > 0
      <4>1. txn'.disturbed /\ astray'
        BY <1>2, <1>6, <3>2
      <4> QED
        BY <4>1
    <3> QED
      BY <1>3, <3>1, <3>2
  <2> QED
    BY <1>4, <1>6, <2>1 DEF RollingBack
<1>8. astray' \in BOOLEAN
  BY <1>2
<1>9. Shaped'
  BY <1>4, <1>8, SaidFacts DEF Throw, TxnInv, Shaped
<1>10. Transacting(txn', patch', history'.at, astray', touches')
  <2>1. history.at < MaxHistory /\ (~astray /\ touches = 0 => ~txn.disturbed)
    BY <1>1, IdleFacts
  <2>2. ~astray' /\ touches' = 0 => ~txn'.disturbed
    BY <1>2, <1>6, <2>1 DEF Throw
  <2> QED
    BY <1>6, <1>7, <2>1, <2>2 DEF Throw, Transacting, Ongoing
<1>11. Idle' = FALSE /\ Idle = FALSE
  BY <1>1, <1>6 DEF Idle
<1>12. Known(history'.entries, history'.at, patch', txn', astray', touches')
  <2>1. ~astray' => ~astray
    BY <1>2
  <2> QED
    BY <1>1, <1>6, <2>1 DEF Throw, TxnInv, Known
<1> QED
  BY <1>1, <1>9, <1>10, <1>11, <1>12 DEF Throw, TxnInv

LEMMA RunInverseKeeps ==
  ASSUME TxnInv, RunInverse
  PROVE  TxnInv'
<1>1. /\ ~Idle /\ txn \in Txns /\ RollingBack(txn, patch, astray) /\ patch \in Patches
      /\ txn.phase = "rolling back" /\ txn.actions # <<>>
  BY IdleFacts DEF RunInverse, Idle, Ongoing, TxnInv, Shaped
<1>2. patch' = Undo(patch, Last(txn.actions)) /\ txn' = [txn EXCEPT !.actions = Front(@)] /\ astray' = astray
  BY DEF RunInverse
<1>3. txn.disturbed \in BOOLEAN /\ txn.actions \in Seq(Edits) /\ txn.pre \in Patches
  BY <1>1, TxnFacts
<1>4. patch' \in Patches /\ Undoable(Front(txn.actions), patch')
  <2>1. Undoable(txn.actions, patch)
    BY <1>1 DEF RollingBack
  <2> QED
    BY <1>1, <1>2, <1>3, <2>1, UndoableUndone
<1>5. Front(txn.actions) \in Seq(Edits)
  <2>1. PICK n \in Nat : n = Len(txn.actions)
    BY <1>3
  <2> QED
    BY <1>1, <1>3, <2>1, AllButLast
<1>6. /\ txn' \in Txns /\ txn'.phase = txn.phase /\ txn'.pre = txn.pre /\ txn'.actions = Front(txn.actions)
      /\ txn'.pending = txn.pending /\ txn'.disturbed = txn.disturbed
  BY <1>1, <1>2, <1>5 DEF Txns
<1>7. ASSUME ~txn.disturbed \/ ~astray
      PROVE  Leads(Front(txn.actions), Contents(txn.pre), Contents(patch'), Seen(txn.disturbed))
  <2> DEFINE seen == Seen(txn.disturbed)
             c == Contents(txn.pre)
  <2>1. Leads(txn.actions, c, Contents(patch), seen)
    BY <1>1, <1>7 DEF RollingBack
  <2> HIDE DEF seen, c
  <2>2. PICK e \in Content, f \in Content : /\ Leads(Front(txn.actions), c, e, seen) /\ Moves(e, Last(txn.actions), f, seen)
                                            /\ Alike(f, Contents(patch), seen)
    BY <1>1, <1>3, <2>1, LeadsLast
  <2>3. Last(txn.actions) \in Edits
    BY <1>1, <1>3, <2>1, LeadsLast
  <2>4. Alike(Contents(patch), f, seen)
    BY <2>2, AlikeEquivalence
  <2>5. Alike(Contents(patch'), e, seen)
    BY <1>1, <1>2, <2>2, <2>3, <2>4, UndoMoves
  <2>6. Alike(e, Contents(patch'), seen) /\ Alike(c, c, seen)
    BY <2>5, AlikeEquivalence
  <2>7. Leads(Front(txn.actions), c, Contents(patch'), seen)
    BY <1>5, <2>2, <2>6, LeadsAlike
  <2> QED
    BY <2>7 DEF seen, c
<1>8. RollingBack(txn', patch', astray')
  BY <1>1, <1>2, <1>4, <1>6, <1>7 DEF RollingBack
<1>9. Shaped'
  BY <1>4, SaidFacts DEF RunInverse, TxnInv, Shaped
<1>10. Transacting(txn', patch', history'.at, astray', touches')
  <2>1. history.at < MaxHistory /\ (~astray /\ touches = 0 => ~txn.disturbed)
    BY <1>1, IdleFacts
  <2> QED
    BY <1>1, <1>6, <1>8, <2>1 DEF RunInverse, Transacting, Ongoing
<1>11. Idle' = Idle
  BY <1>6 DEF Idle
<1>12. Known(history'.entries, history'.at, patch', txn', astray', touches')
  BY <1>1, <1>6 DEF RunInverse, TxnInv, Known
<1> QED
  BY <1>1, <1>9, <1>10, <1>11, <1>12 DEF RunInverse, TxnInv

LEMMA InverseThrowsKeeps ==
  ASSUME TxnInv, InverseThrows
  PROVE  TxnInv'
<1>1. txn' = NoTxn /\ NoTxn.phase = "idle" /\ Idle' = TRUE /\ astray' = TRUE
  BY IdleFacts DEF InverseThrows, Idle
<1>2. Shaped'
  BY DEF InverseThrows, TxnInv, Shaped, Say
<1>3. Transacting(txn', patch', history'.at, astray', touches')
  BY <1>1 DEF Transacting
<1>4. Numbered(history'.entries, begun', TRUE) /\ Remembered(last', history'.entries, begun', TRUE)
  BY Ended DEF InverseThrows, TxnInv
<1>5. Known(history'.entries, history'.at, patch', txn', astray', touches')
  BY <1>1 DEF Known
<1> QED
  BY <1>1, <1>2, <1>3, <1>4, <1>5 DEF TxnInv

LEMMA ReportKeeps ==
  ASSUME TxnInv, Report
  PROVE  TxnInv'
<1>1. txn' = NoTxn /\ NoTxn.phase = "idle" /\ Idle' = TRUE
  BY IdleFacts DEF Report, Idle
<1>2. /\ ~Idle /\ txn \in Txns /\ RollingBack(txn, patch, astray) /\ patch \in Patches /\ txn.actions = <<>>
      /\ touches \in Nat
  BY IdleFacts DEF Report, Idle, Ongoing, TxnInv, Shaped
<1>3. Shaped'
  <2>1. \/ reply' = Say("commit", "ROLLBACK_FAILED", TRUE, "unreadable")
        \/ reply' = Say("commit", "VALIDATION_FAILED", FALSE, "complete")
        \/ reply' = Say("commit", "ROLLBACK_FAILED", TRUE, "differs")
    BY DEF Report
  <2>2. reply'.flagged \in BOOLEAN /\ reply'.rolledBack \in {"no", "complete", "threw", "unreadable", "differs"}
    <3>1. CASE reply' = Say("commit", "ROLLBACK_FAILED", TRUE, "unreadable")
      BY <3>1 DEF Say
    <3>2. CASE reply' = Say("commit", "VALIDATION_FAILED", FALSE, "complete")
      BY <3>2 DEF Say
    <3>3. CASE reply' = Say("commit", "ROLLBACK_FAILED", TRUE, "differs")
      BY <3>3 DEF Say
    <3> QED
      BY <2>1, <3>1, <3>2, <3>3
  <2> QED
    BY <2>2 DEF Report, TxnInv, Shaped
<1>4. Transacting(txn', patch', history'.at, astray', touches')
  BY <1>1 DEF Transacting
<1>5. Numbered(history'.entries, begun', TRUE) /\ Remembered(last', history'.entries, begun', TRUE)
  BY Ended DEF Report, TxnInv
<1>6. ASSUME ~astray
      PROVE  Recorded(history.entries, history.at, patch, Seen(touches > 0))
  <2>1. txn.disturbed \in BOOLEAN /\ txn.pre \in Patches /\ (touches = 0 => ~txn.disturbed)
    BY <1>2, <1>6, TxnFacts, IdleFacts
  <2>2. Leads(<<>>, Contents(txn.pre), Contents(patch), Seen(txn.disturbed))
    BY <1>2, <1>6 DEF RollingBack
  <2>3. Alike(Contents(txn.pre), Contents(patch), Seen(txn.disturbed))
    <3> DEFINE seen == Seen(txn.disturbed)
    <3> HIDE DEF seen
    <3>1. PICK ps : Walk(<<>>, ps, seen) /\ Alike(ps[0], Contents(txn.pre), seen) /\ Alike(ps[Len(<<>>)], Contents(patch), seen)
      BY <2>2 DEF Leads, seen
    <3>2. Len(<<>>) = 0
      OBVIOUS
    <3>3. Alike(Contents(txn.pre), ps[0], seen) /\ Alike(ps[0], Contents(patch), seen)
      BY <3>1, <3>2, AlikeEquivalence
    <3> QED
      BY <3>3, AlikeEquivalence DEF seen
  <2>4. Seen(touches > 0) \in SUBSET Seen(txn.disturbed)
    BY <2>1, <1>2 DEF Seen, Everything
  <2>5. Alike(Contents(txn.pre), Contents(patch), Seen(touches > 0))
    BY <2>3, <2>4, AlikeLess
  <2>6. Recorded(history.entries, history.at, txn.pre, Seen(touches > 0))
    BY <1>2, <1>6 DEF TxnInv, Known, Idle
  <2> QED
    BY <2>5, <2>6, RecordedAlike
<1>7. Known(history'.entries, history'.at, patch', txn', astray', touches')
  BY <1>1, <1>6 DEF Report, Known
<1> QED
  BY <1>1, <1>3, <1>4, <1>5, <1>7 DEF TxnInv

\* What may be pushed to the history.
LEMMA PushKeepsShape ==
  ASSUME Shaped, history.at < MaxHistory, NEW e \in Entries, Push(e)
  PROVE  /\ history' \in [entries : Seq(Entries), at : Nat]
         /\ history'.entries = Append(SubSeq(history.entries, 1, history.at), e) /\ history'.at = history.at + 1
         /\ history'.at <= Len(history'.entries) /\ Len(history'.entries) <= MaxHistory
<1>1. history.entries \in Seq(Entries) /\ history.at \in Nat /\ history.at <= Len(history.entries)
  BY DEF Shaped
<1> DEFINE new == Append(SubSeq(history.entries, 1, history.at), e)
<1>2. new \in Seq(Entries) /\ Len(new) = history.at + 1
  BY <1>1, Pushed
<1>3. history' = [entries |-> new, at |-> history.at + 1]
  BY DEF Push
<1> HIDE DEF new
<1>4. history'.entries = new /\ history'.at = history.at + 1 /\ history.at + 1 \in Nat
  BY <1>1, <1>3
<1>5. history' \in [entries : Seq(Entries), at : Nat]
  BY <1>2, <1>3, <1>4
<1> QED
  BY <1>1, <1>2, <1>4, <1>5, BoundAssumption DEF new

LEMMA CommitKeeps ==
  ASSUME TxnInv, Commit
  PROVE  TxnInv'
<1>1. txn' = NoTxn /\ NoTxn.phase = "idle" /\ Idle' = TRUE
  BY IdleFacts DEF Commit, Idle
<1>2. /\ ~Idle /\ Idle = FALSE /\ txn \in Txns /\ Applying(txn, patch) /\ patch \in Patches
      /\ touches \in Nat /\ begun \in Nat /\ history.at < MaxHistory
  BY IdleFacts, BoundAssumption DEF Commit, Idle, Ongoing, TxnInv, Shaped
<1>3. txn.disturbed \in BOOLEAN /\ txn.pre \in Patches /\ txn.actions \in Seq(Edits)
  BY <1>2, TxnFacts
<1> DEFINE e == [op |-> begun, actions |-> txn.actions, from |-> txn.pre, disturbed |-> txn.disturbed]
<1>4. /\ e \in Entries /\ e.op = begun /\ e.actions = txn.actions /\ e.from = txn.pre /\ e.disturbed = txn.disturbed
  BY <1>2, <1>3 DEF Entries
<1>5. Push(e)
  BY DEF Commit
<1> HIDE DEF e
<1>6. /\ history' \in [entries : Seq(Entries), at : Nat]
      /\ history'.entries = Append(SubSeq(history.entries, 1, history.at), e) /\ history'.at = history.at + 1
      /\ history'.at <= Len(history'.entries) /\ Len(history'.entries) <= MaxHistory
  BY <1>2, <1>4, <1>5, PushKeepsShape DEF TxnInv
<1>7. Shaped'
  <2>1. reply' = Say("commit", "OK", FALSE, "no") \/ reply' = Say("commit", "INTERNAL", TRUE, "no")
    BY DEF Commit
  <2>2. reply'.flagged \in BOOLEAN /\ reply'.rolledBack \in {"no", "complete", "threw", "unreadable", "differs"}
    <3>1. CASE reply' = Say("commit", "OK", FALSE, "no")
      BY <3>1 DEF Say
    <3>2. CASE reply' = Say("commit", "INTERNAL", TRUE, "no")
      BY <3>2 DEF Say
    <3> QED
      BY <2>1, <3>1, <3>2
  <2> QED
    BY <1>6, <2>2 DEF Commit, TxnInv, Shaped
<1>8. Transacting(txn', patch', history'.at, astray', touches')
  BY <1>1 DEF Transacting
<1>9. Numbered(history.entries, begun, FALSE) /\ Remembered(last, history.entries, begun, FALSE)
  BY <1>2 DEF TxnInv
<1>10. Numbered(history'.entries, begun', TRUE)
  <2>1. begun' = begun /\ begun <= begun
    BY <1>2 DEF Commit
  <2> QED
    BY <1>2, <1>4, <1>6, <1>9, <2>1, HistoryFacts, NumberedPushed
<1>11. Remembered(last', history'.entries, begun', TRUE)
  <2>1. begun' = begun
    BY DEF Commit
  <2>2. CASE last' = [op |-> begun, post |-> Fingerprint(patch)]
    <3>1. last'.op = begun /\ last'.post = patch
      BY <2>2 DEF Fingerprint
    <3>2. Arrives(e, patch)
      BY <1>2, <1>4 DEF Applying, Arrives
    <3> QED
      BY <1>2, <1>4, <1>6, <1>9, <2>1, <3>1, <3>2, HistoryFacts, RememberedCommitted
  <2>3. CASE last' = last
    <3>1. last = NoLast \/ e.op # last.op
      <4>1. last = NoLast \/ (last.op \in 1..begun /\ last.op < begun)
        BY <1>9 DEF Remembered
      <4> QED
        BY <1>2, <1>4, <4>1
    <3> QED
      BY <1>2, <1>4, <1>6, <1>9, <2>1, <2>3, <3>1, HistoryFacts, RememberedPushed
  <2> QED
    BY <2>2, <2>3 DEF Commit
<1>12. ASSUME ~astray
       PROVE  Recorded(history'.entries, history'.at, patch, Seen(touches > 0))
  <2>1. Recorded(history.entries, history.at, txn.pre, Seen(touches > 0))
    BY <1>2, <1>12 DEF TxnInv, Known, Idle
  <2>2. touches = 0 => ~txn.disturbed
    BY <1>2, <1>12, IdleFacts
  <2>3. Seen(touches > 0) \in SUBSET Seen(txn.disturbed) /\ "cables" \in Seen(touches > 0)
    BY <1>2, <1>3, <2>2 DEF Seen, Everything
  <2>4. Leads(txn.actions, Contents(txn.pre), Contents(patch), Seen(touches > 0))
    <3>1. Leads(txn.actions, Contents(txn.pre), Contents(patch), Seen(txn.disturbed))
      BY <1>2 DEF Applying
    <3> QED
      BY <1>3, <2>3, <3>1, LeadsLess
  <2>5. Alike(Contents(txn.pre), Contents(txn.pre), Seen(touches > 0))
    BY AlikeEquivalence
  <2> DEFINE seen == Seen(touches > 0)
  <2> HIDE DEF seen
  <2>6. Recorded(Append(SubSeq(history.entries, 1, history.at), e), history.at + 1, patch, seen)
    BY <1>2, <1>3, <1>4, <2>1, <2>3, <2>4, <2>5, HistoryFacts, RecordedPushed DEF seen
  <2> QED
    BY <1>6, <2>6 DEF seen
<1>13. Known(history'.entries, history'.at, patch', txn', astray', touches')
  BY <1>1, <1>12 DEF Commit, Known
<1> QED
  BY <1>1, <1>7, <1>8, <1>10, <1>11, <1>13 DEF TxnInv

LEMMA UndoLastKeeps ==
  ASSUME TxnInv, NEW op, UndoLast(op)
  PROVE  TxnInv'
<1>1. Idle /\ MayUndo(op) /\ txn = NoTxn /\ NoTxn.phase = "idle" /\ Idle' = Idle
  BY IdleFacts DEF UndoLast, Idle
<1>2. patch \in Patches /\ touches \in Nat /\ history \in [entries : Seq(Entries), at : Nat] /\ history.at <= Len(history.entries)
  BY DEF TxnInv, Shaped
<1>3. /\ Newest \in Entries /\ Newest.actions \in Seq(Edits) /\ Newest.from \in Patches /\ Newest.disturbed \in BOOLEAN
      /\ history.at > 0 /\ Arrives(Newest, patch)
  BY <1>1, MayUndoFacts
<1>4. patch' = UndoAll(patch, Newest.actions)
  BY DEF UndoLast
<1>5. patch' \in Patches
  <2>1. Alike(Contents(patch), Contents(patch), Seen(Newest.disturbed))
    BY AlikeEquivalence
  <2> QED
    BY <1>2, <1>3, <1>4, <2>1, UndoneAll DEF Arrives
<1>6. /\ history' \in [entries : Seq(Entries), at : Nat]
      /\ history'.entries = history.entries /\ history'.at = history.at - 1
  BY <1>2, <1>3 DEF UndoLast
<1>7. Shaped'
  <2>1. reply' = Say("undo", "OK", FALSE, "no") \/ reply' = Say("undo", "INTERNAL", TRUE, "no")
    BY DEF UndoLast
  <2>2. reply'.flagged \in BOOLEAN /\ reply'.rolledBack \in {"no", "complete", "threw", "unreadable", "differs"}
    <3>1. CASE reply' = Say("undo", "OK", FALSE, "no")
      BY <3>1 DEF Say
    <3>2. CASE reply' = Say("undo", "INTERNAL", TRUE, "no")
      BY <3>2 DEF Say
    <3> QED
      BY <2>1, <3>1, <3>2
  <2>3. history'.at <= Len(history'.entries)
    BY <1>2, <1>6
  <2> QED
    BY <1>5, <1>6, <2>2, <2>3 DEF UndoLast, TxnInv, Shaped
<1>8. Transacting(txn', patch', history'.at, astray', touches')
  BY <1>1 DEF UndoLast, Transacting
<1>9. Numbered(history'.entries, begun', Idle') /\ Remembered(last', history'.entries, begun', Idle')
  BY <1>1, <1>6 DEF UndoLast, TxnInv, Remembered
<1>10. ASSUME ~astray
       PROVE  Recorded(history'.entries, history'.at, patch', Seen(touches > 0))
  <2>1. Recorded(history.entries, history.at, patch, Seen(touches > 0))
    BY <1>1, <1>10 DEF TxnInv, Known
  <2> QED
    BY <1>2, <1>3, <1>4, <1>6, <2>1, RecordedUndone DEF Newest
<1>11. Known(history'.entries, history'.at, patch', txn', astray', touches')
  BY <1>1, <1>10 DEF UndoLast, Known
<1> QED
  BY <1>7, <1>8, <1>9, <1>11 DEF TxnInv

LEMMA UndoLastThrowsKeeps ==
  ASSUME TxnInv, NEW op, UndoLastThrows(op)
  PROVE  TxnInv'
<1>1. Idle /\ MayUndo(op) /\ txn = NoTxn /\ NoTxn.phase = "idle" /\ Idle' = Idle /\ astray' = TRUE
  BY IdleFacts DEF UndoLastThrows, Idle
<1>2. patch \in Patches /\ history \in [entries : Seq(Entries), at : Nat] /\ history.at <= Len(history.entries)
  BY DEF TxnInv, Shaped
<1>3. /\ Newest \in Entries /\ Newest.actions \in Seq(Edits) /\ history.at > 0 /\ Arrives(Newest, patch)
  BY <1>1, MayUndoFacts
<1>4. PICK k \in 1..Len(Newest.actions) : patch' = UndoAll(patch, SubSeq(Newest.actions, k + 1, Len(Newest.actions)))
  BY DEF UndoLastThrows
<1>5. patch' \in Patches
  <2> DEFINE seen == Seen(Newest.disturbed)
             es == Newest.actions
             c == Contents(Newest.from)
  <2>1. es \in Seq(Edits) /\ Leads(es, c, Contents(patch), seen)
    BY <1>3 DEF Arrives
  <2>2. patch' = UndoAll(patch, Between(es, k, Len(es)))
    BY <1>4 DEF Between
  <2>3. k \in 1..Len(es)
    OBVIOUS
  <2> HIDE DEF seen, es, c
  <2>4. PICK ps : Walk(es, ps, seen) /\ Alike(ps[Len(es)], Contents(patch), seen)
    BY <2>1 DEF Leads
  <2>5. PICK l \in Nat : l = Len(es)
    BY <2>1
  <2>6. k \in Nat /\ k <= l
    BY <2>3, <2>5
  <2>7. PICK n \in Nat : n = l - k
    BY <2>6
  <2>8. l <= l
    OBVIOUS
  <2>9. Between(es, k, l) \in Seq(Edits)
    BY <2>1, <2>5, <2>6, <2>7, <2>8, Stretch
  <2>10. Leads(Between(es, k, l), ps[k], ps[l], seen)
    BY <2>1, <2>4, <2>5, <2>6, <2>8, WalkLeads
  <2>11. Alike(Contents(patch), ps[l], seen)
    BY <2>4, <2>5, AlikeEquivalence
  <2> QED
    BY <1>2, <2>2, <2>5, <2>9, <2>10, <2>11, UndoneAll
<1>6. /\ history' \in [entries : Seq(Entries), at : Nat]
      /\ history'.entries = history.entries /\ history'.at = history.at - 1
  BY <1>2, <1>3 DEF UndoLastThrows
<1>7. Shaped'
  <2>1. history'.at <= Len(history'.entries)
    BY <1>2, <1>6
  <2>2. reply' = Say("undo", "INTERNAL", TRUE, "no")
    BY DEF UndoLastThrows
  <2>3. reply'.flagged \in BOOLEAN /\ reply'.rolledBack \in {"no", "complete", "threw", "unreadable", "differs"}
    BY <2>2 DEF Say
  <2> QED
    BY <1>1, <1>5, <1>6, <2>1, <2>3 DEF UndoLastThrows, TxnInv, Shaped
<1>8. Transacting(txn', patch', history'.at, astray', touches')
  BY <1>1 DEF UndoLastThrows, Transacting
<1>9. Numbered(history'.entries, begun', Idle') /\ Remembered(last', history'.entries, begun', Idle')
  BY <1>1, <1>6 DEF UndoLastThrows, TxnInv
<1>10. Known(history'.entries, history'.at, patch', txn', astray', touches')
  BY <1>1 DEF Known
<1> QED
  BY <1>7, <1>8, <1>9, <1>10 DEF TxnInv

LEMMA RefuseUndoKeeps ==
  ASSUME TxnInv, NEW op, RefuseUndo(op)
  PROVE  TxnInv'
<1>1. Idle' = Idle
  BY DEF RefuseUndo, Idle
<1>2. Shaped'
  BY DEF RefuseUndo, TxnInv, Shaped, Say
<1> QED
  BY <1>1, <1>2 DEF RefuseUndo, TxnInv

LEMMA UserEditsKeeps ==
  ASSUME TxnInv, UserEdits
  PROVE  TxnInv'
<1>1. Idle /\ txn = NoTxn /\ NoTxn.phase = "idle" /\ Idle' = Idle /\ Idle' = TRUE
  BY IdleFacts DEF UserEdits, Idle
<1>2. /\ patch \in Patches /\ touches \in Nat /\ begun \in Nat /\ history.at < MaxHistory
  BY BoundAssumption DEF UserEdits, TxnInv, Shaped
<1>3. PICK edits : /\ \/ edits \in Disconnected(patch)
                      \/ \E id \in Present(patch) : \E v \in Settings : edits = SetParam(id, patch.modules[id], v)
                   /\ patch' = RedoAll(patch, edits)
                   /\ Push([op |-> UserOp, actions |-> edits, from |-> patch, disturbed |-> FALSE])
  BY DEF UserEdits
<1>4. PICK d \in Content : Performs(edits, Contents(patch), d, {})
  BY <1>2, <1>3, DisconnectedDone, ParamSetDone
<1>5. edits \in Seq(Edits) /\ Leads(edits, Contents(patch), d, Everything)
  BY <1>4 DEF Performs
<1> DEFINE e == [op |-> UserOp, actions |-> edits, from |-> patch, disturbed |-> FALSE]
<1>6. e \in Entries /\ e.op = 0 /\ e.actions = edits /\ e.from = patch
  BY <1>2, <1>5 DEF Entries, UserOp
<1>7. Push(e)
  BY <1>3
<1> HIDE DEF e
<1>8. /\ history' \in [entries : Seq(Entries), at : Nat]
      /\ history'.entries = Append(SubSeq(history.entries, 1, history.at), e) /\ history'.at = history.at + 1
      /\ history'.at <= Len(history'.entries) /\ Len(history'.entries) <= MaxHistory
  BY <1>2, <1>6, <1>7, PushKeepsShape DEF TxnInv
<1>9. patch' \in Patches /\ Alike(Contents(patch'), d, Everything)
  <2>1. Alike(Contents(patch), Contents(patch), Everything)
    BY AlikeEquivalence
  <2> QED
    BY <1>2, <1>3, <1>5, <2>1, RedoneAll
<1>10. Leads(edits, Contents(patch), Contents(patch'), Everything)
  <2>1. Alike(d, Contents(patch'), Everything) /\ Alike(Contents(patch), Contents(patch), Everything)
    BY <1>9, AlikeEquivalence
  <2> QED
    BY <1>5, <2>1, LeadsAlike
<1>11. Shaped'
  <2>1. reply'.flagged \in BOOLEAN /\ reply'.rolledBack \in {"no", "complete", "threw", "unreadable", "differs"}
    BY DEF UserEdits, NoReply
  <2> QED
    BY <1>8, <1>9, <2>1 DEF UserEdits, TxnInv, Shaped
<1>12. Transacting(txn', patch', history'.at, astray', touches')
  BY <1>1 DEF UserEdits, Transacting
<1>13. Numbered(history'.entries, begun', TRUE)
  <2>1. Numbered(history.entries, begun, TRUE) /\ begun' = begun
    BY <1>1 DEF UserEdits, TxnInv
  <2>2. e.op <= begun
    BY <1>2, <1>6
  <2> QED
    BY <1>2, <1>6, <1>8, <2>1, <2>2, HistoryFacts, NumberedPushed
<1>14. Remembered(last', history'.entries, begun', TRUE)
  <2>1. Remembered(last, history.entries, begun, TRUE) /\ begun' = begun /\ last' = last
    BY <1>1 DEF UserEdits, TxnInv
  <2>2. last = NoLast \/ e.op # last.op
    BY <1>2, <1>6, <2>1 DEF Remembered
  <2> QED
    BY <1>2, <1>6, <1>8, <2>1, <2>2, HistoryFacts, RememberedPushed
<1>15. ASSUME ~astray
       PROVE  Recorded(history'.entries, history'.at, patch', Seen(touches > 0))
  <2> DEFINE seen == Seen(touches > 0)
  <2>1. Recorded(history.entries, history.at, patch, seen)
    BY <1>1, <1>15 DEF TxnInv, Known
  <2>2. seen \in SUBSET Everything /\ "cables" \in seen
    BY DEF Seen, Everything
  <2> HIDE DEF seen
  <2>3. Leads(edits, Contents(patch), Contents(patch'), seen)
    BY <1>5, <1>10, <2>2, LeadsLess
  <2>4. Alike(Contents(patch), Contents(patch), seen)
    BY AlikeEquivalence
  <2>5. Recorded(Append(SubSeq(history.entries, 1, history.at), e), history.at + 1, patch', seen)
    BY <1>2, <1>6, <1>9, <2>1, <2>2, <2>3, <2>4, HistoryFacts, RecordedPushed
  <2> QED
    BY <1>8, <2>5 DEF seen
<1>16. Known(history'.entries, history'.at, patch', txn', astray', touches')
  BY <1>1, <1>15 DEF UserEdits, Known
<1> QED
  BY <1>1, <1>11, <1>12, <1>13, <1>14, <1>16 DEF TxnInv

LEMMA UserUndoesKeeps ==
  ASSUME TxnInv, UserUndoes
  PROVE  TxnInv'
<1>1. Idle /\ txn = NoTxn /\ NoTxn.phase = "idle" /\ Idle' = Idle /\ ~astray /\ history.at > 0
  BY IdleFacts DEF UserUndoes, Idle
<1>2. patch \in Patches /\ touches \in Nat /\ history \in [entries : Seq(Entries), at : Nat] /\ history.at <= Len(history.entries)
  BY DEF TxnInv, Shaped
<1>3. Recorded(history.entries, history.at, patch, Seen(touches > 0))
  BY <1>1 DEF TxnInv, Known
<1>4. /\ history' \in [entries : Seq(Entries), at : Nat]
      /\ history'.entries = history.entries /\ history'.at = history.at - 1
  BY <1>1, <1>2 DEF UserUndoes
<1>5. patch' \in Patches /\ Recorded(history'.entries, history'.at, patch', Seen(touches > 0))
  <2>1. patch' = UndoAll(patch, history.entries[history.at].actions)
    BY DEF UserUndoes, Newest
  <2> QED
    BY <1>1, <1>2, <1>3, <1>4, <2>1, RecordedUndone
<1>6. Shaped'
  <2>1. reply'.flagged \in BOOLEAN /\ reply'.rolledBack \in {"no", "complete", "threw", "unreadable", "differs"}
    BY DEF UserUndoes, NoReply
  <2>2. history'.at <= Len(history'.entries)
    BY <1>2, <1>4
  <2> QED
    BY <1>4, <1>5, <2>1, <2>2 DEF UserUndoes, TxnInv, Shaped
<1>7. Transacting(txn', patch', history'.at, astray', touches')
  BY <1>1 DEF UserUndoes, Transacting
<1>8. Numbered(history'.entries, begun', Idle') /\ Remembered(last', history'.entries, begun', Idle')
  BY <1>1, <1>4 DEF UserUndoes, TxnInv
<1>9. Known(history'.entries, history'.at, patch', txn', astray', touches')
  BY <1>1, <1>5 DEF UserUndoes, Known
<1> QED
  BY <1>6, <1>7, <1>8, <1>9 DEF TxnInv

LEMMA UserRedoesKeeps ==
  ASSUME TxnInv, UserRedoes
  PROVE  TxnInv'
<1>1. Idle /\ txn = NoTxn /\ NoTxn.phase = "idle" /\ Idle' = Idle /\ ~astray /\ history.at < Len(history.entries)
  BY IdleFacts DEF UserRedoes, Idle
<1>2. patch \in Patches /\ touches \in Nat /\ history \in [entries : Seq(Entries), at : Nat]
  BY DEF TxnInv, Shaped
<1>3. Recorded(history.entries, history.at, patch, Seen(touches > 0))
  BY <1>1 DEF TxnInv, Known
<1>4. /\ history' \in [entries : Seq(Entries), at : Nat]
      /\ history'.entries = history.entries /\ history'.at = history.at + 1
  BY <1>1, <1>2 DEF UserRedoes
<1>5. patch' \in Patches /\ Recorded(history'.entries, history'.at, patch', Seen(touches > 0))
  <2>1. patch' = RedoAll(patch, history.entries[history.at + 1].actions)
    BY DEF UserRedoes
  <2> QED
    BY <1>1, <1>2, <1>3, <1>4, <2>1, RecordedRedone
<1>6. Shaped'
  <2>1. reply'.flagged \in BOOLEAN /\ reply'.rolledBack \in {"no", "complete", "threw", "unreadable", "differs"}
    BY DEF UserRedoes, NoReply
  <2>2. history'.at <= Len(history'.entries)
    BY <1>1, <1>2, <1>4
  <2> QED
    BY <1>4, <1>5, <2>1, <2>2 DEF UserRedoes, TxnInv, Shaped
<1>7. Transacting(txn', patch', history'.at, astray', touches')
  BY <1>1 DEF UserRedoes, Transacting
<1>8. Numbered(history'.entries, begun', Idle') /\ Remembered(last', history'.entries, begun', Idle')
  BY <1>1, <1>4 DEF UserRedoes, TxnInv
<1>9. Known(history'.entries, history'.at, patch', txn', astray', touches')
  BY <1>1, <1>5 DEF UserRedoes, Known
<1> QED
  BY <1>6, <1>7, <1>8, <1>9 DEF TxnInv

\* A parameter set behind the engine's back.
LEMMA ParamTouched ==
  ASSUME NEW p \in Patches, NEW id \in Present(p), NEW v \in Settings, NEW q, q = [p EXCEPT !.modules[id].param = v]
  PROVE  q \in Patches /\ Alike(Contents(p), Contents(q), {"cables"})
<1>1. /\ p \in [modules : Racks, cables : SUBSET Cable, order : Seq(Modules)] /\ p.modules \in [Present(p) -> Module]
      /\ Present(p) \subseteq Modules /\ IsInjective(p.order) /\ Range(p.order) = Present(p)
  BY PatchFacts
<1>2. PICK m \in Module : m = [p.modules[id] EXCEPT !.param = v]
  <2>1. p.modules[id] \in Module
    BY <1>1
  <2> QED
    BY <2>1, ModuleFacts
<1>3. PICK r : r = [p.modules EXCEPT ![id] = m]
  OBVIOUS
<1>4. r \in [Present(p) -> Module]
  BY <1>1, <1>3
<1>5. r \in Racks /\ DOMAIN r = Present(p)
  BY <1>1, <1>4, RackFacts
<1>6. q = [p EXCEPT !.modules = r]
  BY <1>2, <1>3
<1>7. q \in [modules : Racks, cables : SUBSET Cable, order : Seq(Modules)] /\ q.modules = r /\ q.cables = p.cables /\ q.order = p.order
  BY <1>1, <1>5, <1>6
<1>8. q \in Patches
  BY <1>1, <1>5, <1>7 DEF Patches
<1>9. Present(Contents(p)) = Present(p) /\ Present(Contents(q)) = Present(q)
  BY <1>8, PatchFacts
<1>10. Present(q) = Present(p)
  BY <1>5, <1>7 DEF Present
<1>11. Contents(q).cables = q.cables /\ Contents(p).cables = p.cables
  BY <1>8, PatchFacts
<1>12. "settings" \notin {"cables"}
  OBVIOUS
<1> QED
  BY <1>7, <1>8, <1>9, <1>10, <1>11, <1>12 DEF Alike

LEMMA WorkerSetsKeeps ==
  ASSUME TxnInv, WorkerSets
  PROVE  TxnInv'
<1>1. patch \in Patches /\ touches \in Nat /\ touches' = touches + 1 /\ astray \in BOOLEAN
  BY DEF WorkerSets, TxnInv, Shaped
<1>2. PICK id \in Present(patch), v \in Settings : patch' = [patch EXCEPT !.modules[id].param = v]
  BY DEF WorkerSets
<1>3. patch' \in Patches /\ Alike(Contents(patch), Contents(patch'), {"cables"})
  BY <1>1, <1>2, ParamTouched
<1>4. Shaped'
  <2>1. reply'.flagged \in BOOLEAN /\ reply'.rolledBack \in {"no", "complete", "threw", "unreadable", "differs"}
    BY DEF WorkerSets, NoReply
  <2>2. touches' \in Nat
    BY <1>1
  <2> QED
    BY <1>3, <2>1, <2>2 DEF WorkerSets, TxnInv, Shaped
<1>5. Seen(touches' > 0) = {"cables"} /\ "cables" \in Seen(touches > 0)
  BY <1>1 DEF Seen, Everything
<1>6. ASSUME NEW q, Recorded(history.entries, history.at, q, Seen(touches > 0))
      PROVE  Recorded(history.entries, history.at, q, {"cables"})
  BY <1>5, <1>6, HistoryFacts, RecordedLess
<1>7. CASE Idle
  <2>1. txn = NoTxn /\ txn' = txn /\ Idle' = Idle /\ NoTxn.phase = "idle"
    BY <1>7, IdleFacts DEF WorkerSets, Idle
  <2>2. Transacting(txn', patch', history'.at, astray', touches')
    BY <2>1 DEF Transacting
  <2>3. ASSUME ~astray PROVE Recorded(history.entries, history.at, patch', {"cables"})
    <3>1. Recorded(history.entries, history.at, patch, Seen(touches > 0))
      BY <2>1, <2>3 DEF TxnInv, Known
    <3> QED
      BY <1>3, <1>6, <3>1, RecordedAlike
  <2>4. Known(history'.entries, history'.at, patch', txn', astray', touches')
    BY <1>5, <2>1, <2>3 DEF WorkerSets, Known
  <2> QED
    BY <1>4, <2>1, <2>2, <2>4 DEF WorkerSets, TxnInv
<1>8. CASE ~Idle
  <2>1. txn \in Txns /\ Ongoing(txn, patch, astray) /\ history.at < MaxHistory /\ txn' = [txn EXCEPT !.disturbed = TRUE]
    BY <1>8, IdleFacts DEF WorkerSets
  <2>2. txn' \in Txns /\ txn'.pre = txn.pre /\ Ongoing(txn', patch', astray)
    BY <1>1, <1>3, <2>1, OngoingTouched
  <2>3. txn.phase # "idle" /\ txn'.phase # "idle"
    BY <2>1, <2>2, TxnFacts
  <2>4. Idle' = Idle
    BY <2>3 DEF Idle
  <2>5. Transacting(txn', patch', history'.at, astray', touches')
    <3>1. touches' # 0
      BY <1>1
    <3> QED
      BY <2>1, <2>2, <3>1 DEF WorkerSets, Transacting
  <2>6. ASSUME ~astray PROVE Recorded(history.entries, history.at, txn.pre, {"cables"})
    <3>1. Recorded(history.entries, history.at, txn.pre, Seen(touches > 0))
      BY <2>3, <2>6 DEF TxnInv, Known
    <3> QED
      BY <1>6, <3>1
  <2>7. Known(history'.entries, history'.at, patch', txn', astray', touches')
    BY <1>5, <2>2, <2>3, <2>6 DEF WorkerSets, Known
  <2> QED
    BY <1>4, <2>4, <2>5, <2>7 DEF WorkerSets, TxnInv
<1> QED
  BY <1>7, <1>8

-----------------------------------------------------------------------------
(* Theorems *)

\* The given modules in any order make a patch.
LEMMA GivenInOrder ==
  ASSUME NEW order \in SetToSeqs(Given)
  PROVE  /\ order \in Seq(Modules) /\ IsInjective(order) /\ Range(order) = Given
         /\ \A id \in Given : \E x \in Columns : order[x] = id
         /\ Len(order) \in Nat /\ \A i \in 1..Len(order) : order[i] \in Given
         /\ \A i, j \in 1..Len(order) : order[i] = order[j] => i = j
<1>1. PICK n \in Nat : n = Cardinality(Given)
  BY IdAssumption, FS_CardinalityType
<1>2. order \in [1..n -> Given] /\ \A i, j \in 1..n : i # j => order[i] # order[j]
  BY <1>1 DEF SetToSeqs
<1>3. IsInjective(order)
  BY <1>2 DEF IsInjective
<1>4. order \in Seq(Given) /\ Len(order) = n /\ DOMAIN order = 1..n /\ Range(order) = Given
  BY <1>1, <1>2, <1>3, IdAssumption, InOrder
<1>5. order \in Seq(Modules)
  <2>1. \A i \in 1..n : order[i] \in Modules
    BY <1>2 DEF Modules
  <2> QED
    BY <1>1, <1>4, <2>1
<1>6. 1..n \subseteq Columns
  <2>1. IsFiniteSet(Modules)
    BY IdAssumption, FS_Union DEF Modules
  <2>2. Given \in SUBSET Modules
    BY DEF Modules
  <2>3. n <= Cardinality(Modules) /\ Cardinality(Modules) \in Nat
    BY <1>1, <2>1, <2>2, FS_Subset, FS_CardinalityType
  <2> QED
    BY <1>1, <2>3 DEF Columns
<1>7. \A id \in Given : \E x \in Columns : order[x] = id
  BY <1>4, <1>6 DEF Range
<1>8. \A i \in 1..n : order[i] \in Given
  BY <1>2
<1> QED
  BY <1>1, <1>2, <1>3, <1>4, <1>5, <1>7, <1>8

\* The patch at the start fits.
LEMMA InitInv ==
  ASSUME TxnInit
  PROVE  TxnInv
<1>1. PICK order \in SetToSeqs(Given) :
        patch = [modules |-> [id \in Given |-> NewModule(CHOOSE x \in Columns : order[x] = id)],
                 cables |-> IF Len(order) < 2 THEN {} ELSE {[out |-> order[1], in |-> order[2]]},
                 order |-> order]
  BY DEF TxnInit
<1> DEFINE given == [id \in Given |-> NewModule(CHOOSE x \in Columns : order[x] = id)]
           cables == IF Len(order) < 2 THEN {} ELSE {[out |-> order[1], in |-> order[2]]}
<1>2. given \in Racks /\ DOMAIN given = Given
  <2>1. \A id \in Given : (CHOOSE x \in Columns : order[x] = id) \in Columns
    BY GivenInOrder
  <2>2. \A id \in Given : NewModule(CHOOSE x \in Columns : order[x] = id) \in Module
    BY <2>1, NewModuleFacts
  <2>3. given \in [Given -> Module]
    BY <2>2
  <2>4. Given \in SUBSET Modules
    BY DEF Modules
  <2> QED
    BY <2>3, <2>4, RackFacts
<1>3. cables \in SUBSET Cable /\ \A e \in cables : {e.out, e.in} \subseteq Given
  <2>1. CASE Len(order) < 2
    BY <2>1
  <2>2. CASE ~(Len(order) < 2)
    <3>1. order[1] \in Given /\ order[2] \in Given
      <4>1. 1 \in 1..Len(order) /\ 2 \in 1..Len(order)
        BY <2>2, GivenInOrder
      <4> QED
        BY <4>1, GivenInOrder
    <3>2. PICK e : e = [out |-> order[1], in |-> order[2]]
      OBVIOUS
    <3>3. e \in Cable /\ e.out = order[1] /\ e.in = order[2]
      BY <3>1, <3>2 DEF Cable, Modules
    <3>4. cables = {e}
      BY <2>2, <3>2
    <3> QED
      BY <3>1, <3>3, <3>4
  <2> QED
    BY <2>1, <2>2
<1>4. \A e, f \in cables : e = f
  OBVIOUS
<1>5. patch.modules = given /\ patch.cables = cables /\ patch.order = order
      /\ patch = [modules |-> given, cables |-> cables, order |-> order]
  BY <1>1
<1> HIDE DEF given, cables
<1>6. patch \in Patches
  <2>1. patch \in [modules : Racks, cables : SUBSET Cable, order : Seq(Modules)]
    BY <1>2, <1>3, <1>5, GivenInOrder
  <2> QED
    BY <1>2, <1>5, <2>1, GivenInOrder DEF Patches
<1>7. Wired(Contents(patch))
  <2>1. Present(Contents(patch)) = Given /\ Contents(patch).cables = cables
    BY <1>2, <1>5, <1>6, PatchFacts DEF Present
  <2> QED
    BY <1>3, <1>4, <2>1 DEF Wired
<1>8. /\ txn = NoTxn /\ history = [entries |-> <<>>, at |-> 0] /\ last = NoLast /\ reply = NoReply
      /\ begun = 0 /\ touches = 0 /\ astray = FALSE
  BY DEF TxnInit
<1>9. history \in [entries : Seq(Entries), at : Nat] /\ history.entries = <<>> /\ history.at = 0 /\ Len(history.entries) = 0
  BY <1>8
<1>10. Shaped
  <2>1. reply.flagged \in BOOLEAN /\ reply.rolledBack \in {"no", "complete", "threw", "unreadable", "differs"}
    BY <1>8 DEF NoReply
  <2>2. begun \in 0..MaxEvents /\ history.at <= Len(history.entries) /\ Len(history.entries) <= MaxHistory
    BY <1>8, <1>9, BoundAssumption
  <2>3. touches \in Nat /\ astray \in BOOLEAN
    BY <1>8
  <2> QED
    BY <1>6, <1>9, <2>1, <2>2, <2>3 DEF Shaped
<1>11. Idle = TRUE /\ txn.phase = "idle"
  BY <1>8 DEF Idle, NoTxn
<1>12. Recorded(history.entries, history.at, patch, Seen(touches > 0))
  <2> DEFINE cs == [n \in 0..0 |-> Contents(patch)]
  <2>1. Contents(patch) \in Content
    BY <1>6, PatchFacts
  <2>2. cs \in [0..0 -> Content] /\ \A n \in 0..0 : cs[n] = Contents(patch)
    BY <2>1
  <2> HIDE DEF cs
  <2>3. cs[0] = Contents(patch)
    BY <2>2
  <2>4. Chained(cs, <<>>, Seen(touches > 0))
    <3>1. Len(<<>>) = 0 /\ ~(0 > 0) /\ 1..0 = {}
      OBVIOUS
    <3> QED
      BY <1>7, <2>2, <3>1 DEF Chained
  <2>5. Alike(cs[0], Contents(patch), Seen(touches > 0))
    BY <2>3, AlikeEquivalence
  <2> QED
    BY <1>9, <2>4, <2>5 DEF Recorded
<1>13. Numbered(history.entries, begun, Idle)
  BY <1>9, <1>11 DEF Numbered
<1> QED
  BY <1>8, <1>10, <1>11, <1>12, <1>13 DEF TxnInv, Transacting, Remembered, Known

\* Every step keeps the invariant.
LEMMA NextInv ==
  ASSUME TxnInv, [TxnNext]_txnVars
  PROVE  TxnInv'
<1>1. CASE Begin
  BY <1>1, BeginKeeps
<1>2. CASE Refuse
  BY <1>2, RefuseKeeps
<1>3. CASE NextOperation
  BY <1>3, NextOperationKeeps
<1>4. CASE Edit
  BY <1>4, EditKeeps
<1>5. CASE Throw
  BY <1>5, ThrowKeeps
<1>6. CASE RunInverse
  BY <1>6, RunInverseKeeps
<1>7. CASE InverseThrows
  BY <1>7, InverseThrowsKeeps
<1>8. CASE Report
  BY <1>8, ReportKeeps
<1>9. CASE Commit
  BY <1>9, CommitKeeps
<1>10. CASE \E op \in 1 .. begun : UndoLast(op) \/ UndoLastThrows(op) \/ RefuseUndo(op)
  BY <1>10, UndoLastKeeps, UndoLastThrowsKeeps, RefuseUndoKeeps
<1>11. CASE UserEdits
  BY <1>11, UserEditsKeeps
<1>12. CASE UserUndoes
  BY <1>12, UserUndoesKeeps
<1>13. CASE UserRedoes
  BY <1>13, UserRedoesKeeps
<1>14. CASE WorkerSets
  BY <1>14, WorkerSetsKeeps
<1>15. CASE UNCHANGED txnVars
  <2>1. Idle' = Idle
    BY <1>15 DEF txnVars, Idle
  <2> QED
    BY <1>15, <2>1 DEF txnVars, TxnInv, Shaped
<1> QED
  BY <1>1, <1>2, <1>3, <1>4, <1>5, <1>6, <1>7, <1>8, <1>9, <1>10, <1>11, <1>12, <1>13, <1>14, <1>15 DEF TxnNext

\* The invariant implies TxnConsistent.
LEMMA InvConsistent ==
  ASSUME TxnInv
  PROVE  TxnConsistent
<1>1. patch \in Patches /\ touches \in Nat /\ astray \in BOOLEAN
  BY DEF TxnInv, Shaped
<1>2. /\ Present(patch) \subseteq Modules /\ patch.modules \in [Present(patch) -> Module] /\ patch.cables \subseteq Cable
      /\ IsInjective(patch.order) /\ Range(patch.order) = Present(patch)
      /\ Present(Contents(patch)) = Present(patch) /\ Contents(patch).cables = patch.cables /\ Contents(patch) \in Content
  BY <1>1, PatchFacts
<1>3. TxnTypeOK
  <2>1. txn.phase \in {"idle", "applying", "rolling back"}
    BY IdleFacts, TxnFacts DEF Idle
  <2>2. history.at \in 0..Len(history.entries) /\ Len(history.entries) <= MaxHistory
    BY HistoryFacts
  <2> QED
    BY <1>2, <2>1, <2>2 DEF TxnTypeOK, TxnInv, Shaped
<1>4. ASSUME ~astray
      PROVE  Recorded(history.entries, history.at, IF Idle THEN patch ELSE txn.pre, Seen(touches > 0))
  BY <1>4 DEF TxnInv, Known, Idle
<1>5. CablesJoinModules
  <2>1. SUFFICES ASSUME ~astray PROVE Wired(Contents(patch))
    BY <1>2 DEF CablesJoinModules, Wired
  <2>2. "cables" \in Seen(touches > 0)
    BY DEF Seen, Everything
  <2>3. CASE Idle
    BY <1>4, <2>1, <2>2, <2>3, HistoryFacts, RecordedWired
  <2>4. CASE ~Idle
    <3>1. txn \in Txns /\ Ongoing(txn, patch, astray)
      BY <2>4, IdleFacts
    <3>2. txn.actions \in Seq(Edits) /\ txn.disturbed \in BOOLEAN /\ txn.phase \in {"applying", "rolling back"}
      BY <3>1, TxnFacts
    <3>3. Wired(Contents(txn.pre))
      BY <1>4, <2>1, <2>2, <2>4, HistoryFacts, RecordedWired
    <3>4. Leads(txn.actions, Contents(txn.pre), Contents(patch), Seen(txn.disturbed))
      BY <2>1, <3>1, <3>2 DEF Ongoing, Applying, RollingBack
    <3>5. "cables" \in Seen(txn.disturbed)
      BY <3>2, SeenFacts
    <3> QED
      BY <3>2, <3>3, <3>4, <3>5, LeadsWired
  <2> QED
    BY <2>3, <2>4
<1>6. RecordedEditsInvert
  <2>1. SUFFICES ASSUME ~Idle, ~txn.disturbed
                 PROVE  Contents(UndoAll(patch, txn.actions)) = Contents(txn.pre)
    BY DEF RecordedEditsInvert
  <2>2. txn \in Txns /\ Ongoing(txn, patch, astray)
    BY <2>1, IdleFacts
  <2>3. txn.actions \in Seq(Edits) /\ txn.disturbed = FALSE /\ txn.phase \in {"applying", "rolling back"} /\ txn.pre \in Patches
    BY <2>1, <2>2, TxnFacts
  <2>4. Leads(txn.actions, Contents(txn.pre), Contents(patch), Seen(txn.disturbed))
    BY <2>1, <2>2, <2>3 DEF Ongoing, Applying, RollingBack
  <2>5. Leads(txn.actions, Contents(txn.pre), Contents(patch), Everything)
    BY <2>3, <2>4, SeenFacts
  <2>6. Alike(Contents(patch), Contents(patch), Everything)
    BY AlikeEquivalence
  <2>7. UndoAll(patch, txn.actions) \in Patches /\ Alike(Contents(UndoAll(patch, txn.actions)), Contents(txn.pre), Everything)
    BY <1>1, <2>3, <2>5, <2>6, UndoneAll
  <2>8. Contents(UndoAll(patch, txn.actions)) \in Content /\ Contents(txn.pre) \in Content
    BY <2>3, <2>7, PatchFacts
  <2> QED
    BY <2>7, <2>8, SameContents
<1>7. HistoryLeadsBack
  <2>1. ASSUME Idle, ~astray, touches = 0, history.at > 0
        PROVE  Contents(LedBack(patch, history.entries, history.at)) = Contents(history.entries[1].from)
    <3>1. Seen(touches > 0) = Everything
      BY <2>1 DEF Seen
    <3>2. Recorded(history.entries, history.at, patch, Everything)
      BY <1>4, <2>1, <3>1
    <3> QED
      BY <1>1, <2>1, <3>2, HistoryFacts, RecordedLeadsBack
  <2> QED
    BY <2>1 DEF HistoryLeadsBack, LedBack
<1> QED
  BY <1>3, <1>5, <1>6, <1>7 DEF TxnConsistent

\* At every step of applying, rolling back, undoing and redoing, the patch is one
\* Rack can hold, the recorded edits lead back to what the transaction found, and
\* the undo history to what the first of its entries found.
THEOREM TxnConsistentCorrect == TxnSpec => []TxnConsistent
<1>1. TxnInit => TxnInv
  BY InitInv
<1>2. TxnInv /\ [TxnNext]_txnVars => TxnInv'
  BY NextInv
<1>3. TxnInv => TxnConsistent
  BY InvConsistent
<1> QED
  BY <1>1, <1>2, <1>3, PTL DEF TxnSpec

\* What each step answers.
LEMMA Answers ==
  ASSUME TxnNext
  PROVE  \/ reply' = NoReply
         \/ Refuse /\ reply' = Say("commit", "REFUSED", FALSE, "no")
         \/ Report /\ reply' = Say("commit", "VALIDATION_FAILED", FALSE, "complete") /\ Fingerprint(patch) = Fingerprint(txn.pre)
         \/ \E reason \in {"threw", "unreadable", "differs"} : reply' = Say("commit", "ROLLBACK_FAILED", TRUE, reason)
         \/ reply' = Say("commit", "OK", FALSE, "no")
         \/ \E to \in {"commit", "undo"} : reply' = Say(to, "INTERNAL", TRUE, "no")
         \/ reply' = Say("undo", "REFUSED", FALSE, "no")
         \/ \E op : UndoLast(op) /\ reply' = Say("undo", "OK", FALSE, "no")
<1>1. CASE Begin \/ NextOperation \/ Edit \/ Throw \/ RunInverse
  BY <1>1 DEF Begin, NextOperation, Edit, Throw, RunInverse
<1>2. CASE UserEdits \/ UserUndoes \/ UserRedoes \/ WorkerSets
  BY <1>2 DEF UserEdits, UserUndoes, UserRedoes, WorkerSets
<1>3. CASE Refuse
  BY <1>3 DEF Refuse
<1>4. CASE InverseThrows
  BY <1>4 DEF InverseThrows
<1>5. CASE Report
  BY <1>5 DEF Report
<1>6. CASE Commit
  BY <1>6 DEF Commit
<1>7. CASE \E op \in 1 .. begun : UndoLast(op) \/ UndoLastThrows(op) \/ RefuseUndo(op)
  BY <1>7 DEF UndoLast, UndoLastThrows, RefuseUndo
<1> QED
  BY <1>1, <1>2, <1>3, <1>4, <1>5, <1>6, <1>7 DEF TxnNext

\* What UndoLast answers is what it has done.
LEMMA UndoRestores ==
  ASSUME TxnInv, TxnNext, reply'.to = "undo", reply'.code = "OK", ~Newest.disturbed
  PROVE  Newest.op = last.op /\ Contents(patch') = Contents(Newest.from)
<1>1. PICK op : UndoLast(op)
  BY Answers DEF Say, NoReply
<1>2. /\ Newest.actions \in Seq(Edits) /\ Newest.from \in Patches /\ Newest.disturbed = FALSE
      /\ Newest.op = last.op /\ Arrives(Newest, patch)
  BY <1>1, MayUndoFacts DEF UndoLast
<1>3. patch \in Patches /\ patch' = UndoAll(patch, Newest.actions)
  BY <1>1 DEF UndoLast, TxnInv, Shaped
<1>4. Leads(Newest.actions, Contents(Newest.from), Contents(patch), Everything)
  BY <1>2, SeenFacts DEF Arrives
<1>5. Alike(Contents(patch), Contents(patch), Everything)
  BY AlikeEquivalence
<1>6. patch' \in Patches /\ Alike(Contents(patch'), Contents(Newest.from), Everything)
  BY <1>2, <1>3, <1>4, <1>5, UndoneAll
<1>7. Contents(patch') \in Content /\ Contents(Newest.from) \in Content
  BY <1>2, <1>6, PatchFacts
<1> QED
  BY <1>2, <1>6, <1>7, SameContents

\* An undo the plugin answers with OK undid the transaction it names and gave
\* back the patch that one found, unless a worker thread had been in it.
THEOREM UndoLastRestoresCorrect == TxnSpec => UndoLastRestores
<1>1. TxnInit => TxnInv
  BY InitInv
<1>2. TxnInv /\ [TxnNext]_txnVars => TxnInv'
  BY NextInv
<1>3. TxnInv /\ [TxnNext]_txnVars =>
        [ reply'.to = "undo" /\ reply'.code = "OK" /\ ~Newest.disturbed
          => /\ Newest.op = last.op
             /\ Contents(patch') = Contents(Newest.from) ]_txnVars
  BY UndoRestores
<1> QED
  BY <1>1, <1>2, <1>3, PTL DEF TxnSpec, UndoLastRestores

\* Only a refusal and a proven rollback are failures not flagged.
LEMMA FailureChangesNothing ==
  ASSUME TxnNext, reply'.to = "commit", reply'.code # "OK", ~reply'.flagged
  PROVE  Fingerprint(patch') = Fingerprint(IF Idle THEN patch ELSE txn.pre)
<1>1. Refuse \/ (Report /\ reply' = Say("commit", "VALIDATION_FAILED", FALSE, "complete") /\ Fingerprint(patch) = Fingerprint(txn.pre))
  BY Answers DEF Say, NoReply
<1>2. CASE Refuse
  BY <1>2 DEF Refuse
<1>3. CASE Report /\ Fingerprint(patch) = Fingerprint(txn.pre)
  BY <1>3 DEF Report, Idle
<1> QED
  BY <1>1, <1>2, <1>3

\* A failed transaction whose answer is not flagged mutationMayHaveOccurred left
\* the patch it found.
THEOREM UnflaggedFailureChangedNothingCorrect == TxnSpec => UnflaggedFailureChangedNothing
<1>1. [TxnNext]_txnVars =>
        [ reply'.to = "commit" /\ reply'.code # "OK" /\ ~reply'.flagged
          => Fingerprint(patch') = Fingerprint(IF Idle THEN patch ELSE txn.pre) ]_txnVars
  BY FailureChangesNothing
<1> QED
  BY <1>1, PTL DEF TxnSpec, UnflaggedFailureChangedNothing
=============================================================================
