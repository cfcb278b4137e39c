---------------------------- MODULE BridgeClient -----------------------------
(***************************************************************************)
(* The bridge client of the MCP server (packages/protocol, client.ts):     *)
(* connect and authenticate, requests multiplexed over one socket with a   *)
(* deadline each, and the teardown that ends them all.                     *)
(*                                                                         *)
(* JavaScript runs to completion: one callback (a chunk of data, a timer,  *)
(* the close of the socket) is one turn, and what awaited a promise that   *)
(* it settled resumes after it, before the next turn. A chunk may hold     *)
(* several frames, so a turn may be several steps here; `chunk` is set     *)
(* while frames of the chunk are left, `result` while the coroutine of     *)
(* connect and authenticate has a settled promise to resume from.          *)
(*                                                                         *)
(* The peer is the plugin, or another release of it: it answers or not,    *)
(* late, in any order, and may stop at any time; what it has been sent it  *)
(* may execute even then. Its requests are mutations. Pings are left out,  *)
(* but for the timer that sends them.                                      *)
(***************************************************************************)
EXTENDS Integers, Sequences

CONSTANTS
  RequestIds,  \* the ids requests get
  MaxDown      \* frames on their way to the client (bound)

ASSUME ClientAssumption == MaxDown \in Nat \ {0}

VARIABLES
  step,      \* the coroutine of connect and authenticate
  result,    \* what the promise it awaits has been settled with
  closed,    \* BridgeClient.closed
  waiters,   \* handshakeQueue
  beating,   \* heartbeatTimer
  pending,   \* the ids in BridgeClient.pending
  outcome,   \* what the promise of each request holds
  chunk,     \* whether the chunk being handled has more frames
  down,      \* frames the peer has sent
  greeted,   \* how far the peer has come with this client's handshake
  wire,      \* requests written to the socket and not executed or refused
  owed,      \* requests the peer has executed and not answered
  ran        \* requests the peer has executed

peerVars   == <<greeted, wire, owed, ran>>
clientVars == <<step, result, closed, waiters, beating, pending, outcome, chunk>>
bridgeVars == <<clientVars, down, peerVars>>

Outcomes == {"none", "waiting", "answered", "failed", "refused", "timeout", "disconnected"}
Results  == {"welcome", "otherVersion", "refusal", "authOk", "timeout", "closed"}
Replies  == {"answered", "failed", "refused"}
Greeting == [kind : {"welcome", "otherVersion", "refusal", "authOk"}]
Answer   == [kind : {"res"}, id : RequestIds, reply : Replies]
Event    == [kind : {"shutting_down"}]
Garbled  == [kind : {"garbled"}]
Frames   == Greeting \cup Answer \cup Event \cup Garbled

BridgeTypeOK ==
  /\ step \in {"idle", "connecting", "hello", "auth", "ready", "failed"}
  /\ result \in Results \cup {"none"}
  /\ closed \in {"no", "yes"}
  /\ waiters \in Seq({"hello", "auth"})
  /\ beating \in {"no", "yes"}
  /\ pending \subseteq RequestIds
  /\ outcome \in [RequestIds -> Outcomes]
  /\ chunk \in {"no", "yes"}
  /\ down \in Seq(Frames) /\ Len(down) <= MaxDown
  /\ greeted \in {"none", "hello", "challenged", "auth", "admitted", "left", "gone"}
  /\ wire \subseteq RequestIds /\ owed \subseteq RequestIds /\ ran \subseteq RequestIds

BridgeInit ==
  /\ step = "idle" /\ result = "none" /\ closed = "no" /\ waiters = <<>>
  /\ beating = "no" /\ pending = {} /\ outcome = [r \in RequestIds |-> "none"] /\ chunk = "no"
  /\ down = <<>> /\ greeted = "none" /\ wire = {} /\ owed = {} /\ ran = {}

\* The event loop may begin a new turn.
Turn == chunk = "no" /\ result = "none"

-----------------------------------------------------------------------------
(* Teardown, close *)

\* Faulty variant: the requests in flight are forgotten.
TeardownSilent(R) == outcome' = outcome

Disconnected(R) ==
  outcome' = [r \in RequestIds |-> IF r \in R THEN "disconnected" ELSE outcome[r]]

\* Everything that waits is rejected, once; a closed client stays closed.
Teardown ==
  \/ closed = "yes" /\ UNCHANGED <<closed, beating, pending, outcome, waiters>>
  \/ /\ closed = "no"
     /\ closed' = "yes"
     /\ beating' = "no"
     /\ Disconnected(pending)
     /\ pending' = {}
     /\ waiters' = <<>>

\* The coroutine still waits for a frame.
Awaiting == result = "none" /\ waiters # <<>> /\ step = waiters[Len(waiters)]

-----------------------------------------------------------------------------
(* Connect and authenticate *)

Connect ==
  /\ Turn /\ step = "idle"
  /\ step' = "connecting"
  /\ UNCHANGED <<result, closed, waiters, beating, pending, outcome, chunk, down, peerVars>>

\* The socket opens and the hello is sent; or an error or the timer ends it.
Opened ==
  /\ Turn /\ step = "connecting"
  /\ \/ /\ step' = "hello"
        /\ waiters' = Append(waiters, "hello")
        /\ greeted' = "hello"
     \/ step' = "failed" /\ UNCHANGED <<waiters, greeted>>
  /\ UNCHANGED <<result, closed, beating, pending, outcome, chunk, down, wire, owed, ran>>

\* The timer rejects the promise and leaves waiter and socket as they are.
HandshakeTimeout ==
  /\ Turn /\ Awaiting
  /\ result' = "timeout"
  /\ UNCHANGED <<step, closed, waiters, beating, pending, outcome, chunk, down, peerVars>>

\* connect() with a welcome that names an offered version; authenticate() follows
\* at once. Its send throws if the client was closed in the meantime.
Welcomed ==
  /\ step = "hello" /\ result = "welcome"
  /\ \/ /\ closed = "no"
        /\ step' = "auth"
        /\ waiters' = Append(waiters, "auth")
        /\ greeted' = IF greeted = "challenged" THEN "auth" ELSE greeted
     \/ closed = "yes" /\ step' = "failed" /\ UNCHANGED <<waiters, greeted>>
  /\ UNCHANGED <<closed, beating, pending, outcome>>

Authenticated ==
  /\ step = "auth" /\ result = "authOk"
  /\ step' = "ready"
  /\ beating' = "yes"
  /\ UNCHANGED <<closed, waiters, pending, outcome, greeted>>

\* Any other answer closes the client; a timeout or a lost connection does not.
Rejected ==
  /\ \/ /\ \/ step = "hello" /\ result \in {"otherVersion", "refusal", "authOk"}
           \/ step = "auth" /\ result \in {"welcome", "otherVersion", "refusal"}
        /\ Teardown
     \/ /\ result \in {"timeout", "closed"}
        /\ UNCHANGED <<closed, beating, pending, outcome, waiters>>
  /\ step' = "failed"
  /\ UNCHANGED greeted

Resume ==
  /\ chunk = "no" /\ result # "none"
  /\ Welcomed \/ Authenticated \/ Rejected
  /\ result' = "none"
  /\ UNCHANGED <<chunk, down, wire, owed, ran>>

-----------------------------------------------------------------------------
(* Requests *)

\* A request on a closed client, or one whose frame is too large, throws and
\* leaves nothing pending.
RequestThrows(r) ==
  /\ Turn /\ step = "ready" /\ outcome[r] = "none"
  /\ outcome' = [outcome EXCEPT ![r] = "refused"]
  /\ UNCHANGED <<step, result, closed, waiters, beating, pending, chunk, down, peerVars>>

Request(r) ==
  /\ Turn /\ step = "ready" /\ closed = "no" /\ outcome[r] = "none"
  /\ outcome' = [outcome EXCEPT ![r] = "waiting"]
  /\ pending' = pending \cup {r}
  /\ wire' = wire \cup {r}
  /\ UNCHANGED <<step, result, closed, waiters, beating, chunk, down, greeted, owed, ran>>

\* Faulty variant: a request that timed out counts as one that was not made.
Unflagged(r) == outcome' = [outcome EXCEPT ![r] = "refused"]

MayHaveOccurred(r) == outcome' = [outcome EXCEPT ![r] = "timeout"]

RequestTimeout(r) ==
  /\ Turn /\ r \in pending
  /\ pending' = pending \ {r}
  /\ MayHaveOccurred(r)
  /\ UNCHANGED <<step, result, closed, waiters, beating, chunk, down, peerVars>>

\* close(), by the connection manager.
Close ==
  /\ Turn /\ step = "ready"
  /\ Teardown
  /\ UNCHANGED <<step, result, chunk, down, peerVars>>

-----------------------------------------------------------------------------
(* Data *)

\* A greeting goes to the first waiter, even one whose timer has fired.
DispatchGreeting(f) ==
  /\ f \in Greeting
  /\ IF waiters = <<>> THEN UNCHANGED <<waiters, result>>
     ELSE /\ waiters' = Tail(waiters)
          /\ result' = IF Head(waiters) = step /\ result = "none" THEN f.kind ELSE result
  /\ UNCHANGED <<closed, beating, pending, outcome>>

\* Faulty variant: an answer settles its call whether or not it still waits.
LateToo(r) == outcome[r] # "none"

StillPending(r) == r \in pending

DispatchAnswer(f) ==
  /\ f \in Answer
  /\ IF StillPending(f.id)
     THEN /\ pending' = pending \ {f.id}
          /\ outcome' = [outcome EXCEPT ![f.id] = f.reply]
     ELSE UNCHANGED <<pending, outcome>>
  /\ UNCHANGED <<closed, beating, waiters, result>>

\* onEvent: the connection manager closes the client it uses, which this is once
\* the coroutine has ended.
DispatchEvent(f) ==
  /\ f \in Event
  /\ IF step = "ready" THEN Teardown
     ELSE UNCHANGED <<closed, beating, pending, outcome, waiters>>
  /\ UNCHANGED result

\* A frame that is too long or no JSON: teardown at once, in the turn of the
\* frames before it and so ahead of the coroutine that one of them has settled.
DispatchGarbled(f) ==
  /\ f \in Garbled
  /\ Teardown
  /\ result' = IF Awaiting THEN "closed" ELSE result

\* onData: the next frame of the chunk; the chunk may end with it. Nothing is
\* read after a garbled one.
DeliverFrame ==
  /\ chunk = "yes" \/ (Turn /\ closed = "no")
  /\ step \in {"hello", "auth", "ready", "failed"}
  /\ down # <<>>
  /\ \/ /\ DispatchGreeting(Head(down)) \/ DispatchAnswer(Head(down)) \/ DispatchEvent(Head(down))
        /\ down' = Tail(down)
        /\ chunk' \in {"no", "yes"} /\ (chunk' = "yes" => down' # <<>>)
     \/ DispatchGarbled(Head(down)) /\ down' = <<>> /\ chunk' = "no"
  /\ UNCHANGED <<step, peerVars>>

\* The socket's close or error event. What had not arrived is lost.
SocketEnds ==
  /\ Turn /\ closed = "no" /\ greeted \in {"gone", "left"}
  /\ Teardown
  /\ result' = IF Awaiting THEN "closed" ELSE "none"
  /\ down' = <<>>
  /\ UNCHANGED <<step, chunk, peerVars>>

-----------------------------------------------------------------------------
(* The peer *)

Sends(f) == Len(down) < MaxDown /\ down' = Append(down, f)

PeerGreets ==
  /\ \/ /\ greeted = "hello"
        /\ \/ Sends([kind |-> "welcome"]) /\ greeted' = "challenged"
           \/ \E k \in {"otherVersion", "refusal"} : Sends([kind |-> k]) /\ greeted' = "gone"
     \/ /\ greeted = "auth"
        /\ \/ Sends([kind |-> "authOk"]) /\ greeted' = "admitted"
           \/ Sends([kind |-> "refusal"]) /\ greeted' = "gone"
  /\ UNCHANGED <<clientVars, wire, owed, ran>>

PeerRuns(r) ==
  /\ r \in wire
  /\ wire' = wire \ {r} /\ owed' = owed \cup {r} /\ ran' = ran \cup {r}
  /\ UNCHANGED <<clientVars, down, greeted>>

PeerAnswers(r) ==
  /\ greeted = "admitted" /\ r \in owed
  /\ \E reply \in {"answered", "failed"} : Sends([kind |-> "res", id |-> r, reply |-> reply])
  /\ owed' = owed \ {r}
  /\ UNCHANGED <<clientVars, greeted, wire, ran>>

PeerRefuses(r) ==
  /\ greeted = "admitted" /\ r \in wire
  /\ Sends([kind |-> "res", id |-> r, reply |-> "refused"])
  /\ wire' = wire \ {r}
  /\ UNCHANGED <<clientVars, greeted, owed, ran>>

PeerShutsDown ==
  /\ greeted = "admitted"
  /\ Sends([kind |-> "shutting_down"])
  /\ greeted' = "left"
  /\ UNCHANGED <<clientVars, wire, owed, ran>>

\* A frame the client cannot read; it destroys the socket when it gets there.
PeerGarbles ==
  /\ greeted \notin {"none", "gone", "left"}
  /\ Sends([kind |-> "garbled"])
  /\ greeted' = IF greeted = "admitted" THEN "left" ELSE "gone"
  /\ UNCHANGED <<clientVars, wire, owed, ran>>

PeerGoes ==
  /\ greeted \notin {"none", "gone", "left"}
  /\ greeted' = IF greeted = "admitted" THEN "left" ELSE "gone"
  /\ UNCHANGED <<clientVars, down, wire, owed, ran>>

-----------------------------------------------------------------------------
Timers == HandshakeTimeout \/ \E r \in RequestIds : RequestTimeout(r)

Peer ==
  \/ PeerGreets \/ PeerShutsDown \/ PeerGarbles \/ PeerGoes
  \/ \E r \in RequestIds : PeerRuns(r) \/ PeerAnswers(r) \/ PeerRefuses(r)

BridgeNext ==
  \/ Connect \/ Opened \/ Resume \/ DeliverFrame \/ SocketEnds \/ Close \/ Timers
  \/ \E r \in RequestIds : Request(r) \/ RequestThrows(r)
  \/ Peer

BridgeSpec == BridgeInit /\ [][BridgeNext]_bridgeVars

\* The event loop goes on and timers fire; the peer owes nothing.
BridgeFairSpec ==
  /\ BridgeSpec
  /\ WF_bridgeVars(Opened) /\ WF_bridgeVars(Resume) /\ WF_bridgeVars(DeliverFrame)
  /\ WF_bridgeVars(HandshakeTimeout) /\ \A r \in RequestIds : WF_bridgeVars(RequestTimeout(r))

-----------------------------------------------------------------------------
(* Properties *)

\* A client is ready only if the peer admitted it. Every promise of a request
\* that waits has its timer and its entry; a closed client has none, and no
\* waiter. A client that is open sends its heartbeat from the time it is ready.
BridgeConsistent ==
  /\ BridgeTypeOK
  /\ step = "ready" => greeted \in {"admitted", "left"}
  /\ pending = {r \in RequestIds : outcome[r] = "waiting"}
  /\ closed = "yes" => pending = {} /\ waiters = <<>>
  /\ closed = "no" => (beating = "yes" <=> step = "ready")

\* "teardown handles it", says the heartbeat of its failing send. It does not
\* hold: a garbled frame behind the authResult, in one chunk, closes the client
\* before authenticate goes on and starts the heartbeat, which nothing stops.
ClosedIsQuiet == closed = "yes" => beating = "no"

\* What the caller learns from a promise.
Told ==
  [r \in RequestIds |->
     IF outcome[r] \in {"failed", "timeout", "disconnected"} THEN "unknown" ELSE outcome[r]]

Settled == INSTANCE Settlement WITH Calls <- RequestIds, ran <- ran, outcome <- Told

\* Calls are settled once, with the outcome of their own execution; an error that
\* does not say mutationMayHaveOccurred means the call was not executed and never
\* will be. This is the contract that retries rely on.
CallsSettledOnce == Settled!Spec

\* Whatever the peer does, every request is settled in the end, and so is every
\* attempt to connect.
PromisesSettle ==
  /\ \A r \in RequestIds : outcome[r] = "waiting" ~> outcome[r] # "waiting"
  /\ step \in {"connecting", "hello", "auth"} ~> step \in {"ready", "failed"}

=============================================================================
