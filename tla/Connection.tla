------------------------------ MODULE Connection ------------------------------
(***************************************************************************)
(* The connection manager of the MCP server (apps/mcp-server,              *)
(* connection.ts): which Rack instance is selected, the one authenticated  *)
(* bridge session to it, the writer lease on that session, and the tool    *)
(* calls that share them.                                                  *)
(*                                                                         *)
(* Tool calls run concurrently; each is a coroutine that others and the    *)
(* socket's callbacks overtake at every await. A request first ensures a   *)
(* connection, which may queue a connect attempt; an attempt that succeeds *)
(* polls the instance with requests of its own until it is ready, so a     *)
(* call has a depth: how many of its requests wait for a deeper one.       *)
(*                                                                         *)
(* Connections are numbered in the order they are dialled. The bridge      *)
(* client of each (BridgeClient) is what the manager sees of it: being set *)
(* up, open, closed, or left by a handshake that timed out, with its       *)
(* socket and its callbacks still in place.                                *)
(***************************************************************************)
EXTENDS Integers, Sequences, FiniteSets

CONSTANTS
  Instances,  \* Rack processes
  None,       \* no instance
  Calls,      \* tool calls
  Workloads,  \* what the calls do, from which one is chosen
  Launched,   \* the sets of instances that may be running at first (bound)
  MaxConns    \* connections dialled (bound)

Kinds == {"select", "read", "mutate", "acquire", "release", "shutdown"}

ASSUME ConnectionAssumption ==
  /\ None \notin Instances
  /\ Workloads \subseteq [Calls -> Kinds]
  /\ Launched \subseteq SUBSET Instances
  /\ MaxConns \in Nat \ {0}

VARIABLES
  instance,  \* each Rack process: not started, listed as live, or gone
  conn,      \* the connections dialled: to whom, and how they are
  holder,    \* the connection that holds the writer lease of each instance, or 0
  client,    \* ConnectionManager.client
  selected,  \* ConnectionManager.selected
  leaseId,   \* ConnectionManager.leaseId: the connection it was granted on, or 0
  chain,     \* connectChain: the calls whose attempts are not over
  call       \* the tool calls

vars == <<instance, conn, holder, client, selected, leaseId, chain, call>>

Last == Len(conn)
Live == {i \in Instances : instance[i] = "live"}

TypeOK ==
  /\ instance \in [Instances -> {"coming", "live", "gone"}]
  /\ conn \in Seq([to : Instances, state : {"setup", "open", "left", "closed"}])
  /\ Last <= MaxConns
  /\ holder \in [Instances -> 0..Last]
  /\ client \in 0..Last /\ leaseId \in 0..Last
  /\ selected \in Instances \cup {None}
  /\ chain \in Seq(Calls)
  /\ call \in [Calls -> [phase  : {"new", "queued", "joined", "setup", "send", "awaiting",
                                   "ok", "failed", "notReady", "done"},
                         req    : Kinds \cup {"renew", "work", "status"},
                         target : Instances \cup {None},
                         at     : 0..Last, depth : Nat]]

\* The server starts unconnected, or earlier calls have left it with a lease.
Init ==
  /\ \E L \in Launched : instance = [i \in Instances |-> IF i \in L THEN "live" ELSE "coming"]
  /\ \/ conn = <<>> /\ selected = None
     \/ \E i \in Live : conn = <<[to |-> i, state |-> "open"]>> /\ selected = i
  /\ client = Last /\ leaseId = Last
  /\ holder = [i \in Instances |-> IF i = selected THEN 1 ELSE 0]
  /\ chain = <<>>
  /\ \E w \in Workloads :
       call = [c \in Calls |-> [phase |-> "new", req |-> w[c], target |-> None, at |-> 0,
                                depth |-> 0]]

-----------------------------------------------------------------------------
(* Pieces of the steps *)

\* The coroutine c goes on in record r, and those that awaited connections K are
\* told of the loss.
Resumed(c, r, K) ==
  call' = [d \in Calls |->
             IF d = c THEN r
             ELSE IF call[d].phase = "awaiting" /\ call[d].at \in K
                  THEN [call[d] EXCEPT !.phase = "failed", !.at = 0]
             ELSE call[d]]

Goes(c, r, phase) == Resumed(c, [r EXCEPT !.phase = phase, !.at = 0, !.target = None], {})

Over == [phase |-> "done", req |-> "status", target |-> None, at |-> 0, depth |-> 0]

Closed(K) == [k \in DOMAIN conn |-> IF k \in K THEN [conn[k] EXCEPT !.state = "closed"] ELSE conn[k]]

Queue(c, r, i) ==
  /\ Resumed(c, [r EXCEPT !.phase = "queued", !.at = 0, !.target = i], {})
  /\ chain' = Append(chain, c)

\* ensureConnected: the connection there is, the instance selected before, or the
\* only one there is.
Ensure(c, r) ==
  \/ client # 0 /\ selected # None /\ Goes(c, r, "send") /\ UNCHANGED chain
  \/ ~(client # 0 /\ selected # None)
     /\ \/ selected # None /\ Queue(c, r, selected)
        \/ selected = None /\ \E i \in Instances : Live = {i} /\ Queue(c, r, i)
        \/ selected = None /\ Cardinality(Live) # 1 /\ Goes(c, r, "failed") /\ UNCHANGED chain

-----------------------------------------------------------------------------
(* Tool calls *)

\* select() queues at once; a mutation renews the lease it knows of or acquires
\* one; releasing, and shutting down, without one sends nothing.
Start(c) ==
  /\ call[c].phase = "new"
  /\ LET r == call[c] IN
     CASE r.req = "select" -> \E i \in Instances : Queue(c, r, i)
       [] r.req = "mutate" -> Ensure(c, [r EXCEPT !.req = IF leaseId = 0 THEN "mutate" ELSE "renew"])
       [] r.req \in {"release", "shutdown"} /\ leaseId = 0 -> Goes(c, r, "ok") /\ UNCHANGED chain
       [] OTHER -> Ensure(c, r)
  /\ UNCHANGED <<instance, conn, holder, client, selected, leaseId>>

Send(c) ==
  /\ call[c].phase = "send"
  /\ \/ client = 0 /\ Goes(c, call[c], "failed")
     \/ client # 0 /\ Resumed(c, [call[c] EXCEPT !.phase = "awaiting", !.at = client], {})
  /\ UNCHANGED <<instance, conn, holder, client, selected, leaseId, chain>>

\* waitForReady polls again.
PollAgain(c) ==
  /\ call[c].depth > 0 /\ call[c].phase = "notReady"
  /\ Ensure(c, call[c])
  /\ UNCHANGED <<instance, conn, holder, client, selected, leaseId>>

\* The poll has been answered, or has failed, or the time is up: the request above
\* goes on in each case; select() returns to its tool, which asks for the status.
PollOver(c) ==
  /\ call[c].depth > 0 /\ call[c].phase \in {"ok", "failed", "notReady"}
  /\ LET r == [call[c] EXCEPT !.depth = @ - 1] IN
     IF r.depth = 0 /\ r.req = "select"
     THEN Ensure(c, [r EXCEPT !.req = "status"])
     ELSE Goes(c, r, "send") /\ UNCHANGED chain
  /\ UNCHANGED <<instance, conn, holder, client, selected, leaseId>>

\* Closes the current client, if any, with what awaits it.
Disconnect(c, r) ==
  /\ leaseId' = 0
  /\ client' = 0
  /\ conn' = Closed({client})
  /\ Resumed(c, r, {client})

\* What a request of the call itself leads to.
RequestEnds(c) ==
  /\ call[c].depth = 0
  /\ LET r == call[c]
         Finish == Resumed(c, Over, {}) /\ UNCHANGED chain
     IN
     \/ /\ r.phase = "ok" /\ r.req \in {"read", "status", "work"}
        /\ Finish /\ UNCHANGED <<conn, client, leaseId>>
     \/ /\ r.phase = "ok" /\ r.req \in {"mutate", "acquire"}
        /\ leaseId' = r.at
        /\ IF r.req = "acquire" THEN Finish ELSE Ensure(c, [r EXCEPT !.req = "work"])
        /\ UNCHANGED <<conn, client>>
     \/ /\ r.phase = "ok" /\ r.req = "renew"
        /\ Ensure(c, [r EXCEPT !.req = "work"])
        /\ UNCHANGED <<conn, client, leaseId>>
     \/ /\ r.phase = "failed" /\ r.req = "renew"
        /\ leaseId' = 0
        /\ Ensure(c, [r EXCEPT !.req = "mutate"])
        /\ UNCHANGED <<conn, client>>
     \/ /\ r.phase = "ok" /\ r.req = "release"
        /\ leaseId' = 0
        /\ Finish /\ UNCHANGED <<conn, client>>
     \/ /\ r.phase = "failed" /\ r.req \notin {"renew", "shutdown"}
        /\ Finish /\ UNCHANGED <<conn, client, leaseId>>
  /\ UNCHANGED <<instance, holder, selected>>

\* index.ts, shutdown: after the attempt to release the lease the process exits, and
\* with it every call and connection.
Exit(c) ==
  /\ call[c].req = "shutdown" /\ call[c].depth = 0 /\ call[c].phase \in {"ok", "failed"}
  /\ client' = 0 /\ leaseId' = 0 /\ selected' = None /\ chain' = <<>>
  /\ conn' = Closed(DOMAIN conn)
  /\ call' = [d \in Calls |-> Over]
  /\ UNCHANGED <<instance, holder>>

-----------------------------------------------------------------------------
(* Connect attempts *)

\* Faulty variant: attempts are not serialized.
NoLock(c) == TRUE

HoldsLock(c) == c = Head(chain)

\* The attempts that wait, without c.
Others(c) ==
  [n \in 1..Len(chain) - 1 |-> IF \E m \in 1..n : chain[m] = c THEN chain[n + 1] ELSE chain[n]]

\* Faulty variant: an attempt that succeeded keeps the lock while it polls.
HeldOnSuccess(c) == IF call'[c].phase = "joined" THEN chain ELSE Others(c)

Unlocked(c) == Others(c)

\* Faulty variant: a failed attempt leaves the instance before it selected.
KeepSelected == selected' = selected

DropSelected == selected' = None

\* connectTo, up to the dial. An instance that is not listed, or stale, is refused
\* before anything is dropped; an unreadable secret after it.
ConnectTo(c) ==
  /\ call[c].phase = "queued" /\ HoldsLock(c)
  /\ LET r == call[c] IN
     \/ /\ client # 0 /\ selected = r.target
        /\ Goes(c, r, "joined") /\ chain' = Unlocked(c)
        /\ UNCHANGED <<conn, client, selected, leaseId>>
     \/ /\ ~(client # 0 /\ selected = r.target) /\ r.target \notin Live
        /\ Goes(c, r, "failed") /\ chain' = Unlocked(c)
        /\ UNCHANGED <<conn, client, selected, leaseId>>
     \/ /\ ~(client # 0 /\ selected = r.target) /\ r.target \in Live
        /\ Disconnect(c, [r EXCEPT !.phase = "failed", !.target = None])
        /\ DropSelected /\ chain' = Unlocked(c)
     \/ /\ ~(client # 0 /\ selected = r.target) /\ r.target \in Live
        /\ Last < MaxConns
        /\ leaseId' = 0 /\ client' = 0 /\ DropSelected
        /\ conn' = Append(Closed({client}), [to |-> r.target, state |-> "setup"])
        /\ Resumed(c, [r EXCEPT !.phase = "setup", !.at = Last + 1], {client})
        /\ UNCHANGED chain
  /\ UNCHANGED <<instance, holder>>

\* The client is connected and authenticated.
SetupSucceeds(c) ==
  /\ call[c].phase = "setup"
  /\ LET k == call[c].at IN
     /\ instance[conn[k].to] = "live"
     /\ conn' = [conn EXCEPT ![k].state = "open"]
     /\ client' = k
     /\ selected' = conn[k].to
  /\ Goes(c, call[c], "joined") /\ chain' = Unlocked(c)
  /\ UNCHANGED <<instance, holder, leaseId>>

\* Refused or lost, which closes it; or the handshake timed out, which does not.
SetupFails(c) ==
  /\ call[c].phase = "setup"
  /\ \E s \in {"closed", "left"} : conn' = [conn EXCEPT ![call[c].at].state = s]
  /\ Goes(c, call[c], "failed") /\ chain' = Unlocked(c)
  /\ UNCHANGED <<instance, holder, client, selected, leaseId>>

\* select, after the lock: the first poll of waitForReady.
Joined(c) ==
  /\ call[c].phase = "joined"
  /\ Ensure(c, [call[c] EXCEPT !.depth = @ + 1])
  /\ UNCHANGED <<instance, conn, holder, client, selected, leaseId>>

-----------------------------------------------------------------------------
(* The instances, and the clients' callbacks *)

Starts(i) ==
  /\ instance[i] = "coming"
  /\ instance' = [instance EXCEPT ![i] = "live"]
  /\ UNCHANGED <<conn, holder, client, selected, leaseId, chain, call>>

Stops(i) ==
  /\ instance[i] = "live"
  /\ instance' = [instance EXCEPT ![i] = "gone"]
  /\ UNCHANGED <<conn, holder, client, selected, leaseId, chain, call>>

\* The lease of an instance expires, or its session's end is noticed.
LeaseEnds(i) ==
  /\ holder[i] # 0
  /\ holder' = [holder EXCEPT ![i] = 0]
  /\ UNCHANGED <<instance, conn, client, selected, leaseId, chain, call>>

\* A request is answered: the bridge grants the lease to one session at a time, and
\* mutates only for its holder. Polls of an instance without a pump are not ready.
Answer(c) ==
  /\ call[c].phase = "awaiting"
  /\ LET r == call[c]
         i == conn[r.at].to
         Says(p) == Resumed(c, [r EXCEPT !.phase = p], {})
     IN
     \/ /\ r.depth > 0 \/ r.req \in {"read", "status"}
        /\ Says("ok") \/ Says("failed") \/ (r.depth > 0 /\ Says("notReady"))
        /\ UNCHANGED holder
     \/ /\ r.depth = 0 /\ r.req \in {"mutate", "acquire"} /\ holder[i] \in {0, r.at}
        /\ holder' = [holder EXCEPT ![i] = r.at] /\ Says("ok")
     \/ /\ r.depth = 0 /\ r.req \in {"renew", "work", "release", "shutdown"} /\ holder[i] = r.at
        /\ holder' = IF r.req \in {"release", "shutdown"} THEN [holder EXCEPT ![i] = 0] ELSE holder
        /\ Says("ok")
     \/ r.depth = 0 /\ r.req \notin {"read", "status"} /\ Says("failed") /\ UNCHANGED holder
  /\ UNCHANGED <<instance, conn, client, selected, leaseId, chain>>

\* A request's deadline passes; the bridge may have acted on it.
Timeout(c) ==
  /\ call[c].phase = "awaiting"
  /\ LET r == call[c]
         i == conn[r.at].to
     IN \/ UNCHANGED holder
        \/ /\ r.depth = 0 /\ r.req \in {"mutate", "acquire"} /\ holder[i] = 0
           /\ holder' = [holder EXCEPT ![i] = r.at]
  /\ Goes(c, call[c], "failed")
  /\ UNCHANGED <<instance, conn, client, selected, leaseId, chain>>

\* onClose: the manager forgets a client only while it is the current one.
Lost(k) ==
  /\ conn[k].state \in {"open", "left"}
  /\ conn' = Closed({k})
  /\ IF client = k THEN client' = 0 /\ leaseId' = 0 ELSE UNCHANGED <<client, leaseId>>
  /\ call' = [d \in Calls |-> IF call[d].phase = "awaiting" /\ call[d].at = k
                              THEN [call[d] EXCEPT !.phase = "failed", !.at = 0] ELSE call[d]]
  /\ UNCHANGED <<instance, holder, selected, chain>>

\* onEvent "shutting_down", on any client that is still read from: the manager
\* disconnects the current one.
ShuttingDown(k) ==
  /\ conn[k].state \in {"open", "left"}
  /\ conn' = Closed({k, client})
  /\ client' = 0 /\ leaseId' = 0
  /\ call' = [d \in Calls |-> IF call[d].phase = "awaiting" /\ call[d].at \in {k, client}
                              THEN [call[d] EXCEPT !.phase = "failed", !.at = 0] ELSE call[d]]
  /\ UNCHANGED <<instance, holder, selected, chain>>

-----------------------------------------------------------------------------
Runs(c) ==
  \/ Start(c) \/ Send(c) \/ PollOver(c) \/ RequestEnds(c) \/ Exit(c)
  \/ ConnectTo(c) \/ SetupSucceeds(c) \/ SetupFails(c) \/ Joined(c) \/ Timeout(c)

Next ==
  \/ \E c \in Calls : Runs(c) \/ PollAgain(c) \/ Answer(c)
  \/ \E i \in Instances : Starts(i) \/ Stops(i) \/ LeaseEnds(i)
  \/ \E k \in DOMAIN conn : Lost(k) \/ ShuttingDown(k)

Spec == Init /\ [][Next]_vars

\* Coroutines go on, the timers of handshakes and requests fire, and polling has a
\* deadline.
FairSpec == Spec /\ \A c \in Calls : WF_vars(Runs(c)) /\ SF_vars(PollOver(c))

-----------------------------------------------------------------------------
(* Properties *)

\* The comment on runExclusive: overlapping attempts would orphan a client whose
\* socket and lease stay alive with nothing referencing them. An open connection is
\* the current one; one being set up belongs to the attempt that runs; a lease is
\* held on the current one or on one that is closed. Left by a handshake timeout are
\* sessions that never sent a request.
NoOrphans ==
  /\ \A k \in DOMAIN conn :
       /\ conn[k].state = "open" => k = client
       /\ conn[k].state = "setup" => \E c \in Calls : call[c].phase = "setup" /\ call[c].at = k
  /\ \A i \in Instances : holder[i] # 0 => conn[holder[i]].to = i
                                           /\ (holder[i] = client \/ conn[holder[i]].state = "closed")
  /\ leaseId # 0 => leaseId = client \/ conn[leaseId].state = "closed"

\* One attempt runs at a time, from the head of the chain, and none leaves an orphan;
\* what waits for a lock, a connection or an answer is registered where it will be found.
Consistent ==
  /\ TypeOK
  /\ NoOrphans
  /\ \A n \in 1..Len(chain) : \A m \in 1..Len(chain) : chain[n] = chain[m] => n = m
  /\ \A c \in Calls : call[c].phase \in {"queued", "setup"} <=> \E n \in 1..Len(chain) : chain[n] = c
  /\ \A c \in Calls : call[c].phase = "setup" => Head(chain) = c /\ conn[call[c].at].state = "setup"
  /\ \A c \in Calls : call[c].phase = "awaiting" => call[c].at = client

\* The comment in connectTo: a failed connect must not leave the previous instance
\* selected. Calls are served by the instance dialled last or by none, and a
\* reconnect dials the same.
ServesDialledLast ==
  /\ selected # None => selected = conn[Last].to
  /\ client # 0 => client = Last /\ conn[client].to = selected

\* Every call ends, whatever is lost and whichever attempt others are waiting for.
CallsEnd == \A c \in Calls : call[c].phase # "new" ~> call[c].phase = "done"
=============================================================================
