----------------------------- MODULE CommandPath -----------------------------
(***************************************************************************)
(* The path a request takes through the plugin: core/service.cpp's reader  *)
(* threads (handshake, lease methods, the enqueue gate), RackBridge's      *)
(* bounded command queue, and the command pump that runs on Rack's UI      *)
(* thread, together with the pairing reset that runs on the same thread.   *)
(*                                                                         *)
(* Three kinds of thread interleave here. Each connection's reader handles *)
(* its frames one at a time, but the lease check of handleRequest and the  *)
(* push onto the command queue are two critical sections, so they are two  *)
(* steps. The pump revalidates the lease and then executes: two steps      *)
(* again, between which readers and the clock may move. The reset shares   *)
(* the pump's thread, so it never overlaps an execution.                   *)
(*                                                                         *)
(* owner, applied, revoked and pairedWith are history variables: no code   *)
(* reads them.                                                             *)
(***************************************************************************)
EXTENDS Integers, Sequences, FiniteSets, WriterLease

CONSTANTS
  MaxConns,    \* connections accepted in a run (bound)
  MaxReqs,     \* requests sent in a run (bound)
  MaxGrants,   \* lease grants in a run (bound)
  MaxResets,   \* pairing resets in a run (bound)
  MaxTime,     \* last tick of the clock (bound)
  LeaseTtl,    \* ServiceConfig::leaseTtlMs, in ticks
  Deadline,    \* the deadlineMs of every request, in ticks
  QueueCap     \* capacity of RackBridge::commandQueue_

ASSUME PathAssumption ==
  /\ {MaxConns, MaxReqs, MaxGrants, MaxResets, MaxTime, LeaseTtl, Deadline} \subseteq Nat
  /\ QueueCap \in Nat \ {0}

Conns == 1..MaxConns
Reqs  == 1..MaxReqs

VARIABLES
  now,         \* steadyNowMs()
  phase,       \* each connection's Session::State, "none" before accept, "gone" after its reader
  pairedWith,  \* the secret generation a connection authenticated with
  nextConn,    \* nextConnectionId_
  authed,      \* authedSessions_
  lease,       \* LeaseManager::holder_
  owner,       \* the connection each lease id was granted to
  gated,       \* the command a reader holds between the gate and the push
  queue,       \* commandQueue_
  running,     \* the command the pump has admitted and not yet executed
  pump,        \* pumpAttached_
  server,      \* "up", "stopping" during a reset, "down" when the restart failed
  secret,      \* generation of config_.secret
  nextReq,     \* the id the next request gets
  sender,      \* the connection each request came from
  status,      \* what has become of each request
  applied,     \* the latest mutation of the patch: its lease id and connection
  revoked      \* lease ids granted before the last completed reset

vars == <<now, phase, pairedWith, nextConn, authed, lease, owner, gated, queue, running,
          pump, server, secret, nextReq, sender, status, applied, revoked>>

sessionVars == <<phase, pairedWith, nextConn, authed>>
uiVars      == <<running, pump, server, secret, revoked>>
reqVars     == <<nextReq, sender, status>>

\* MethodSpec::mutating of the method asked for.
Kinds   == {"read", "write"}
Mutating(cmd) == cmd.kind = "write"

Command == [req : Reqs, conn : Conns, kind : Kinds, leaseId : Nat, deadline : Nat]
NoCmd   == [req |-> 0, conn |-> 0, kind |-> "read", leaseId |-> 0, deadline |-> 0]

Live    == {"gated", "queued", "running"}
Refused == {"lease_required", "not_ready", "timeout"}
Status  == {"unsent", "ok"} \cup Live \cup Refused

Init ==
  /\ now = 0
  /\ phase = [c \in Conns |-> "none"]
  /\ pairedWith = [c \in Conns |-> 0]
  /\ nextConn = 1
  /\ authed = 0
  /\ lease = NoHolder
  /\ owner = <<>>
  /\ gated = [c \in Conns |-> NoCmd]
  /\ queue = <<>>
  /\ running = NoCmd
  /\ pump = "detached"
  /\ server = "up"
  /\ secret = 1
  /\ nextReq = 1
  /\ sender = [r \in Reqs |-> 0]
  /\ status = [r \in Reqs |-> "unsent"]
  /\ applied = [tenure |-> 0, conn |-> 0]
  /\ revoked = 0

-----------------------------------------------------------------------------
(* Sessions: the accept thread and the handshake on the reader thread. *)

AcceptSession ==
  /\ server = "up"
  /\ nextConn <= MaxConns
  /\ phase' = [phase EXCEPT ![nextConn] = "hello"]
  /\ nextConn' = nextConn + 1
  /\ UNCHANGED <<now, pairedWith, authed, lease, owner, gated, queue, uiVars, reqVars, applied>>

\* A reader handles a frame only while it is in its loop and has finished the
\* frame before. It checks stopping_ per read, not per frame, so frames already
\* read are still handled while a reset waits for the reader.
ReaderFree(c) == gated[c] = NoCmd

HandleHello(c) ==
  /\ phase[c] = "hello" /\ ReaderFree(c)
  /\ phase' = [phase EXCEPT ![c] = "auth"]
  /\ UNCHANGED <<now, pairedWith, nextConn, authed, lease, owner, gated, queue, uiVars, reqVars, applied>>

\* The peer's HMAC matches exactly when it is keyed with the server's secret; a
\* peer with another one is turned away (ReaderExit).
HandleAuth(c, key) ==
  /\ phase[c] = "auth" /\ ReaderFree(c)
  /\ key = secret
  /\ phase' = [phase EXCEPT ![c] = "ready"]
  /\ pairedWith' = [pairedWith EXCEPT ![c] = key]
  /\ authed' = authed + 1
  /\ UNCHANGED <<now, nextConn, lease, owner, gated, queue, uiVars, reqVars, applied>>

\* Faulty variant: the counter is lowered for sessions that never authenticated.
ReaderExitMiscounted(c) ==
  /\ phase[c] \in {"hello", "auth", "ready"} /\ ReaderFree(c)
  /\ authed' = authed - 1
  /\ lease' = Dropped(lease, c)
  /\ phase' = [phase EXCEPT ![c] = "gone"]
  /\ UNCHANGED <<now, pairedWith, nextConn, owner, gated, queue, uiVars, reqVars, applied>>

\* Faulty variant: a disconnecting session keeps its lease until it expires.
ReaderExitKeepsLease(c) ==
  /\ phase[c] \in {"hello", "auth", "ready"} /\ ReaderFree(c)
  /\ authed' = IF phase[c] = "ready" THEN authed - 1 ELSE authed
  /\ phase' = [phase EXCEPT ![c] = "gone"]
  /\ UNCHANGED <<now, pairedWith, nextConn, lease, owner, gated, queue, uiVars, reqVars, applied>>

\* The end of readerLoop, for every reason it ends: orderly close, read error,
\* protocol error, failed or overdue handshake, stopping_.
ReaderExit(c) ==
  /\ phase[c] \in {"hello", "auth", "ready"} /\ ReaderFree(c)
  /\ authed' = IF phase[c] = "ready" THEN authed - 1 ELSE authed
  /\ lease' = Dropped(lease, c)
  /\ phase' = [phase EXCEPT ![c] = "gone"]
  /\ UNCHANGED <<now, pairedWith, nextConn, owner, gated, queue, uiVars, reqVars, applied>>

-----------------------------------------------------------------------------
(* The lease methods, served inline on the reader thread. *)

LeaseAcquire(c) ==
  /\ phase[c] = "ready" /\ ReaderFree(c)
  /\ CanAcquire(lease, c, now)
  /\ IF IsNewGrant(lease, c, now)
       THEN Len(owner) < MaxGrants /\ owner' = Append(owner, c)
       ELSE UNCHANGED owner
  /\ lease' = Acquired(lease, c, now, LeaseTtl, Len(owner) + 1)
  /\ UNCHANGED <<now, sessionVars, gated, queue, uiVars, reqVars, applied>>

\* The client names a lease id it was given; any id granted so far may be named.
LeaseRenew(c, id) ==
  /\ phase[c] = "ready" /\ ReaderFree(c)
  /\ lease' = Renewed(lease, c, id, now, LeaseTtl)
  /\ UNCHANGED <<now, sessionVars, owner, gated, queue, uiVars, reqVars, applied>>

LeaseRelease(c, id) ==
  /\ phase[c] = "ready" /\ ReaderFree(c)
  /\ lease' = Released(lease, c, id)
  /\ UNCHANGED <<now, sessionVars, owner, gated, queue, uiVars, reqVars, applied>>

-----------------------------------------------------------------------------
(* handleRequest: the gate, then the push. *)

NewCommand(c, kind, leaseId) ==
  [req |-> nextReq, conn |-> c, kind |-> kind, leaseId |-> leaseId,
   deadline |-> now + Deadline]

Arrive(c, outcome) ==
  /\ nextReq \in Reqs
  /\ nextReq' = nextReq + 1
  /\ sender' = [sender EXCEPT ![nextReq] = c]
  /\ status' = [status EXCEPT ![nextReq] = outcome]

\* A mutating request from a connection that is not the writer is answered at once.
GateRefused(c) ==
  /\ phase[c] = "ready" /\ ReaderFree(c)
  /\ ~IsWriter(lease, c, now)
  /\ Arrive(c, "lease_required")
  /\ UNCHANGED <<now, sessionVars, lease, owner, gated, queue, uiVars, applied>>

\* Past the gate the command carries the lease that authorised it.
GateAdmitted(c, kind) ==
  /\ phase[c] = "ready" /\ ReaderFree(c)
  /\ kind = "write" => IsWriter(lease, c, now)
  /\ Arrive(c, "gated")
  /\ gated' = [gated EXCEPT ![c] = NewCommand(c, kind, IF kind = "write" THEN lease.leaseId ELSE 0)]
  /\ UNCHANGED <<now, sessionVars, lease, owner, queue, uiVars, applied>>

CanEnqueue == pump = "attached" /\ Len(queue) < QueueCap

\* Faulty variant: the reader waits for room instead of refusing.
EnqueueBlocking(c) ==
  /\ gated[c] # NoCmd /\ CanEnqueue
  /\ gated' = [gated EXCEPT ![c] = NoCmd]
  /\ queue' = Append(queue, gated[c])
  /\ status' = [status EXCEPT ![gated[c].req] = "queued"]
  /\ UNCHANGED <<now, sessionVars, lease, owner, uiVars, nextReq, sender, applied>>

EnqueueCommand(c) ==
  /\ gated[c] # NoCmd
  /\ gated' = [gated EXCEPT ![c] = NoCmd]
  /\ IF CanEnqueue
       THEN /\ queue' = Append(queue, gated[c])
            /\ status' = [status EXCEPT ![gated[c].req] = "queued"]
       ELSE /\ queue' = queue
            /\ status' = [status EXCEPT ![gated[c].req] = "not_ready"]
  /\ UNCHANGED <<now, sessionVars, lease, owner, uiVars, nextReq, sender, applied>>

-----------------------------------------------------------------------------
(* The UI thread: the command pump and the pairing reset. *)

UiFree == running = NoCmd /\ server # "stopping"

\* Faulty variants: any held lease will do; the gate's check is trusted.
SomeLeaseHeld(cmd)   == Mutating(cmd) => HeldAt(lease, now)
TrustEnqueueGate(cmd) == TRUE

CommandLeaseStillValid(cmd) ==
  Mutating(cmd) => /\ IsWriter(lease, cmd.conn, now)
                  /\ lease.leaseId = cmd.leaseId

\* Faulty variant: an overdue command is dropped without an answer.
PumpTakeDropsOverdue ==
  /\ pump = "attached" /\ UiFree
  /\ queue # <<>>
  /\ queue' = Tail(queue)
  /\ LET cmd == Head(queue) IN
       IF now > cmd.deadline
         THEN UNCHANGED <<running, status>>
       ELSE IF ~CommandLeaseStillValid(cmd)
         THEN /\ status' = [status EXCEPT ![cmd.req] = "lease_required"]
              /\ UNCHANGED running
       ELSE   /\ status' = [status EXCEPT ![cmd.req] = "running"]
              /\ running' = cmd
  /\ UNCHANGED <<now, sessionVars, lease, owner, gated, pump, server, secret, nextReq, sender,
                 applied, revoked>>

\* The pump pops a command and answers it unless its deadline and its lease hold.
PumpTake ==
  /\ pump = "attached" /\ UiFree
  /\ queue # <<>>
  /\ queue' = Tail(queue)
  /\ LET cmd == Head(queue) IN
       IF now > cmd.deadline
         THEN /\ status' = [status EXCEPT ![cmd.req] = "timeout"]
              /\ UNCHANGED running
       ELSE IF ~CommandLeaseStillValid(cmd)
         THEN /\ status' = [status EXCEPT ![cmd.req] = "lease_required"]
              /\ UNCHANGED running
       ELSE   /\ status' = [status EXCEPT ![cmd.req] = "running"]
              /\ running' = cmd
  /\ UNCHANGED <<now, sessionVars, lease, owner, gated, pump, server, secret, nextReq, sender,
                 applied, revoked>>

\* executeCommand and the response. Every mutating command is taken to change
\* the patch; which of them do is the business of the transaction modules.
PumpExecute ==
  /\ running # NoCmd
  /\ applied' = IF Mutating(running)
                  THEN [tenure |-> running.leaseId, conn |-> running.conn] ELSE applied
  /\ status' = [status EXCEPT ![running.req] = "ok"]
  /\ running' = NoCmd
  /\ UNCHANGED <<now, sessionVars, lease, owner, gated, queue, pump, server, secret, nextReq,
                 sender, revoked>>

\* BridgeWidget::step attaches the pump to the scene; the pump goes with the scene.
AttachPump ==
  /\ UiFree /\ pump = "detached" /\ pump' = "attached"
  /\ UNCHANGED <<now, sessionVars, lease, owner, gated, queue, running, server, secret, reqVars,
                 applied, revoked>>

DetachPump ==
  /\ UiFree /\ pump = "attached" /\ pump' = "detached"
  /\ UNCHANGED <<now, sessionVars, lease, owner, gated, queue, running, server, secret, reqVars,
                 applied, revoked>>

\* resetPairing up to server_.stop(): the accept thread and every reader is told to stop.
BeginReset ==
  /\ UiFree /\ secret <= MaxResets
  /\ server' = "stopping"
  /\ UNCHANGED <<now, sessionVars, lease, owner, gated, queue, running, pump, secret, reqVars,
                 applied, revoked>>

\* server_.stop() returns when every reader has been joined; then server_.start()
\* with the fresh secret, which may fail. The command queue is left as it is.
FinishReset(outcome) ==
  /\ server = "stopping"
  /\ \A c \in Conns : phase[c] \in {"none", "gone"}
  /\ server' = outcome
  /\ secret' = secret + 1
  /\ revoked' = Len(owner)
  /\ UNCHANGED <<now, sessionVars, lease, owner, gated, queue, running, pump, reqVars, applied>>

Tick ==
  /\ now < MaxTime
  /\ now' = now + 1
  /\ UNCHANGED <<sessionVars, lease, owner, gated, queue, uiVars, reqVars, applied>>

-----------------------------------------------------------------------------
Reader(c) ==
  \/ HandleHello(c)
  \/ \E key \in 0..secret : HandleAuth(c, key)
  \/ ReaderExit(c)
  \/ LeaseAcquire(c)
  \/ \E id \in 1..Len(owner) : LeaseRenew(c, id) \/ LeaseRelease(c, id)
  \/ GateRefused(c)
  \/ \E kind \in Kinds : GateAdmitted(c, kind)
  \/ EnqueueCommand(c)

UiThread ==
  \/ PumpTake
  \/ PumpExecute
  \/ AttachPump
  \/ DetachPump
  \/ BeginReset
  \/ \E outcome \in {"up", "down"} : FinishReset(outcome)

Next ==
  \/ AcceptSession
  \/ \E c \in Conns : Reader(c)
  \/ UiThread
  \/ Tick

Spec == Init /\ [][Next]_vars

\* A reader that has passed the gate reaches the push, and leaves its loop once
\* stopping_ is set; the UI thread keeps calling step() and finishes a reset it
\* has begun. Clients, users and the clock owe nothing.
Fairness ==
  /\ \A c \in Conns : WF_vars(EnqueueCommand(c))
  /\ \A c \in Conns : WF_vars(server = "stopping" /\ ReaderExit(c))
  /\ WF_vars(PumpTake)
  /\ WF_vars(PumpExecute)
  /\ WF_vars(\E outcome \in {"up", "down"} : FinishReset(outcome))

FairSpec == Spec /\ Fairness

-----------------------------------------------------------------------------
TypeOK ==
  /\ now \in Nat
  /\ phase \in [Conns -> {"none", "hello", "auth", "ready", "gone"}]
  /\ pairedWith \in [Conns -> Nat]
  /\ nextConn \in Nat \ {0}
  /\ authed \in Nat
  /\ lease \in LeaseHolder(Conns)
  /\ owner \in Seq(Conns)
  /\ gated \in [Conns -> Command \cup {NoCmd}]
  /\ queue \in Seq(Command)
  /\ running \in Command \cup {NoCmd}
  /\ pump \in {"attached", "detached"}
  /\ server \in {"up", "stopping", "down"}
  /\ secret \in Nat
  /\ nextReq \in Nat \ {0}
  /\ sender \in [Reqs -> Conns \cup {0}]
  /\ status \in [Reqs -> Status]
  /\ applied \in [tenure : Nat, conn : Conns \cup {0}]
  /\ revoked \in Nat

\* A held lease belongs to a connection whose reader is still running, that is
\* paired under the current secret, and it is the newest lease ever granted.
\* LeaseManager never looks at sessions: readerLoop's onDisconnect, its place
\* before the thread ends, and the join in stop() are what keep this true
\* across disconnects and pairing resets.
LeaseHolderLive ==
  Held(lease) => /\ lease.conn \in Conns /\ phase[lease.conn] = "ready"
                /\ pairedWith[lease.conn] = secret
                /\ lease.leaseId = Len(owner) /\ owner[Len(owner)] = lease.conn

\* A mutation the pump is about to make was sent by a connection paired under
\* the current secret. resetPairing leaves the command queue alone, so commands
\* of the dropped sessions are still popped after it.
MutationsComeFromPairedPeers ==
  Mutating(running) => pairedWith[running.conn] = secret

\* authedSessions_, which the panel shows and which three threads change, counts
\* exactly the ready sessions.
AuthedCountExact == authed = Cardinality({c \in Conns : phase[c] = "ready"})

\* The state is well formed, and the count agrees with the sessions it counts.
Consistent == TypeOK /\ AuthedCountExact

\* What CommandPump.cpp says of the lease check: "Mutating work must never run
\* on a lease the caller no longer holds".
MutationRunsUnderHeldLease == CommandLeaseStillValid(running)

\* Mutations follow lease tenures: each is made under a lease its connection was
\* granted, tenures never interleave, and a reset revokes all earlier ones.
Tenure == INSTANCE WriterTenure WITH Conns <- Conns, owner <- owner, applied <- applied, revoked <- revoked
WriterTenures == Tenure!Spec

\* Every request that passed the gate is eventually answered, unless the pump is
\* detached while it waits (nothing then drains the queue).
RequestsResolve ==
  \A r \in Reqs : status[r] \in Live ~> (status[r] \notin Live \/ pump = "detached")

\* A pairing reset, once begun, completes: the UI thread joins readers that may
\* at that moment be handing a command to the queue only the UI thread drains.
ResetCompletes == server = "stopping" ~> server # "stopping"
=============================================================================
