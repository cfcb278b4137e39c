---------------------------- MODULE McpServerProofs ----------------------------
(***************************************************************************)
(* Two parts of the MCP server that keep state of their own: the           *)
(* connection manager, and the tools that build, preview and analyse       *)
(* patches. They share nothing but this module.                            *)
(***************************************************************************)
EXTENDS Connection, Workbench, PatchGraphProofs

-----------------------------------------------------------------------------
(***************************************************************************)
(* The connection manager. At most one connection is open, and it is the   *)
(* current one; at most one is being set up, for the attempt at the head   *)
(* of the chain, and then there is no current one. Whatever else still     *)
(* refers to a connection, the leases and the calls that remember where    *)
(* they sent their last request, refers to the current one or to one that  *)
(* is closed, and so does no harm when it acts on it.                      *)
(***************************************************************************)

CallPhases == {"new", "queued", "joined", "setup", "send", "awaiting", "ok", "failed", "notReady", "done"}
Reqs       == Kinds \cup {"renew", "work", "status"}
Selectable == Instances \cup {None}
Ends       == [to : Instances, state : {"setup", "open", "left", "closed"}]

Records(n) == [phase : CallPhases, req : Reqs, target : Selectable, at : 0..n, depth : Nat]

\* What acting on a connection of the past amounts to: it is the current one, or closed.
Harmless(k) == k = client \/ conn[k].state = "closed"

\* A call awaits the current connection, or sets up the newest one while there is no
\* current one; what it remembers otherwise does no harm.
CallOK(r) ==
  /\ r \in Records(Last)
  /\ r.phase = "awaiting" => r.at = client /\ client # 0
  /\ r.phase = "setup" => r.at = Last /\ Last # 0 /\ conn[Last].state = "setup" /\ client = 0
  /\ r.phase \notin {"awaiting", "setup"} /\ r.at # 0 => Harmless(r.at)

CallsOK == call \in [Calls -> Records(Last)] /\ \A c \in Calls : CallOK(call[c])

InChain(c) == \E n \in 1..Len(chain) : chain[n] = c

\* The attempts that wait are in the chain once, and the first of them may run.
Locked ==
  /\ chain \in Seq(Calls)
  /\ \A n \in 1..Len(chain) : \A m \in 1..Len(chain) : chain[n] = chain[m] => n = m
  /\ \A c \in Calls : call[c].phase \in {"queued", "setup"} <=> InChain(c)
  /\ \A c \in Calls : call[c].phase = "setup" => chain[1] = c

\* The connections, and whom they belong to.
Owned ==
  /\ conn \in Seq(Ends) /\ Last <= MaxConns /\ client \in 0..Last
  /\ \A k \in DOMAIN conn :
       /\ conn[k].state = "open" => k = client
       /\ conn[k].state = "setup" => \E c \in Calls : call[c].phase = "setup" /\ call[c].at = k

Held ==
  /\ holder \in [Instances -> 0..Last] /\ leaseId \in 0..Last
  /\ \A i \in Instances : holder[i] # 0 => conn[holder[i]].to = i /\ Harmless(holder[i])
  /\ leaseId # 0 => Harmless(leaseId)

Served ==
  /\ instance \in [Instances -> {"coming", "live", "gone"}] /\ selected \in Selectable
  /\ selected # None => Last # 0
  /\ ServesDialledLast

IInv == CallsOK /\ Locked /\ Owned /\ Held /\ Served

LEMMA CallNames ==
  /\ \A p \in {"new", "queued", "joined", "setup", "send", "awaiting", "ok", "failed", "notReady", "done"} : p \in CallPhases
  /\ \A q \in {"select", "read", "mutate", "acquire", "release", "shutdown", "renew", "work", "status"} : q \in Reqs
  /\ None \in Selectable /\ \A i \in Instances : i \in Selectable
  BY DEF CallPhases, Reqs, Kinds, Selectable

LEMMA AppendSeq ==
  ASSUME NEW S, NEW s \in Seq(S), NEW e \in S
  PROVE  /\ Append(s, e) \in Seq(S) /\ Len(Append(s, e)) = Len(s) + 1
         /\ Append(s, e)[Len(s) + 1] = e /\ \A k \in 1..Len(s) : Append(s, e)[k] = s[k]
  OBVIOUS

LEMMA Numbers ==
  ASSUME Owned
  PROVE  Last \in Nat /\ DOMAIN conn = 1..Last /\ \A k \in 1..Last : conn[k] \in Ends
  BY DEF Owned, Last

-----------------------------------------------------------------------------
(* Steps of one call *)

\* A step of one call that leaves the connections alone.
Moves(c, r) ==
  /\ call' = [d \in Calls |-> IF d = c THEN r ELSE call[d]]
  /\ CallOK(r) /\ r.phase # "setup"
  /\ \/ r.phase # "queued" /\ UNCHANGED chain
     \/ r.phase = "queued" /\ chain' = Append(chain, c)

LEMMA MovesLocked ==
  ASSUME CallsOK, Locked, NEW c \in Calls, call[c].phase \notin {"queued", "setup"}, NEW r, Moves(c, r)
  PROVE  Locked'
<1>1. /\ call'[c].phase = r.phase /\ r.phase # "setup"
      /\ \A d \in Calls \ {c} : call'[d] = call[d]
  BY DEF Moves
<1>2. ~InChain(c)
  BY DEF Locked
<1>3. CASE r.phase # "queued" /\ UNCHANGED chain
  <2>1. \A d : InChain(d)' <=> InChain(d)
    BY <1>3 DEF InChain
  <2> QED
    BY <1>1, <1>2, <1>3, <2>1 DEF Locked
<1>4. CASE r.phase = "queued" /\ chain' = Append(chain, c)
  <2>1. PICK m \in Nat : m = Len(chain)
    BY DEF Locked
  <2>2. /\ chain' \in Seq(Calls) /\ Len(chain') = m + 1 /\ chain'[m + 1] = c
        /\ \A n \in 1..m : chain'[n] = chain[n]
    BY <1>4, <2>1 DEF Locked
  <2>3. \A n \in 1..m : chain[n] # c
    BY <1>2, <2>1 DEF InChain
  <2>4. \A n \in 1..m + 1 : \A k \in 1..m + 1 : chain'[n] = chain'[k] => n = k
    <3> SUFFICES ASSUME NEW n \in 1..m + 1, NEW k \in 1..m + 1, chain'[n] = chain'[k] PROVE n = k
      OBVIOUS
    <3>1. CASE n \in 1..m /\ k \in 1..m
      BY <2>1, <2>2, <3>1 DEF Locked
    <3>2. CASE n = m + 1 \/ k = m + 1
      BY <2>1, <2>2, <2>3, <3>2
    <3> QED
      BY <2>1, <3>1, <3>2
  <2>5. ASSUME NEW d \in Calls PROVE InChain(d)' <=> (InChain(d) \/ d = c)
    <3>1. ASSUME NEW n \in 1..Len(chain'), chain'[n] = d PROVE InChain(d) \/ d = c
      <4>1. n = m + 1 \/ n \in 1..m
        BY <2>1, <2>2
      <4> QED
        BY <2>1, <2>2, <3>1, <4>1 DEF InChain
    <3>2. ASSUME NEW n \in 1..Len(chain), chain[n] = d PROVE InChain(d)'
      <4>1. n \in 1..Len(chain') /\ chain'[n] = d
        BY <2>1, <2>2, <3>2
      <4> QED
        BY <4>1 DEF InChain
    <3>3. m + 1 \in 1..Len(chain')
      BY <2>1, <2>2
    <3> QED
      BY <2>2, <3>1, <3>2, <3>3 DEF InChain
  <2>6. \A d \in Calls : call'[d].phase \in {"queued", "setup"} <=> InChain(d)'
    BY <1>1, <1>4, <2>5 DEF Locked
  <2>7. \A d \in Calls : call'[d].phase = "setup" => chain'[1] = d
    <3> SUFFICES ASSUME NEW d \in Calls, call'[d].phase = "setup" PROVE chain'[1] = d
      OBVIOUS
    <3>1. d # c /\ call[d].phase = "setup" /\ InChain(d) /\ chain[1] = d
      BY <1>1, <1>4 DEF Locked
    <3>2. 1 \in 1..m
      BY <2>1, <3>1 DEF InChain
    <3> QED
      BY <2>2, <3>1, <3>2
  <2> QED
    BY <2>1, <2>2, <2>4, <2>6, <2>7 DEF Locked
<1> QED
  BY <1>3, <1>4 DEF Moves

LEMMA MovesKeep ==
  ASSUME IInv, NEW c \in Calls, call[c].phase \notin {"queued", "setup"}, NEW r, Moves(c, r),
         UNCHANGED <<conn, client, selected, instance>>, Held'
  PROVE  IInv'
<1>1. Last' = Last /\ \A k : Harmless(k)' <=> Harmless(k)
  BY DEF Last, Harmless
<1>2. \A q : CallOK(q)' <=> CallOK(q)
  BY <1>1 DEF CallOK
<1>3. /\ call'[c] = r /\ r.phase # "setup" /\ CallOK(r)
      /\ \A d \in Calls \ {c} : call'[d] = call[d]
  BY DEF Moves
<1>4. CallsOK'
  <2>1. \A d \in Calls : CallOK(call'[d])
    BY <1>3 DEF IInv, CallsOK
  <2>2. r \in Records(Last)
    BY <1>3 DEF CallOK
  <2>3. call' \in [Calls -> Records(Last)]
    BY <2>2 DEF Moves, IInv, CallsOK
  <2> QED
    BY <1>1, <1>2, <2>1, <2>3 DEF CallsOK
<1>5. Locked'
  BY MovesLocked DEF IInv
<1>6. Owned'
  <2>1. \A d \in Calls : call[d].phase = "setup" => call'[d] = call[d]
    BY <1>3
  <2> QED
    BY <1>1, <2>1 DEF IInv, Owned
<1>7. Served'
  BY <1>1 DEF IInv, Served, ServesDialledLast
<1> QED
  BY <1>4, <1>5, <1>6, <1>7 DEF IInv

\* The parts of steps that are moves.
LEMMA GoesMoves ==
  ASSUME Owned, NEW c \in Calls, NEW r \in Records(Last), NEW p \in CallPhases \ {"queued", "setup", "awaiting"},
         Goes(c, r, p), UNCHANGED chain
  PROVE  \E q : Moves(c, q)
<1> DEFINE q == [r EXCEPT !.phase = p, !.at = 0, !.target = None]
<1>0. 0 \in 0..Last /\ None \in Selectable
  BY CallNames, Numbers
<1>1. q \in Records(Last) /\ q.phase = p /\ q.at = 0
  BY <1>0 DEF Records
<1>2. call' = [d \in Calls |-> IF d = c THEN q ELSE call[d]]
  BY DEF Goes, Resumed
<1> HIDE DEF q
<1>3. CallOK(q)
  BY <1>1 DEF CallOK
<1> QED
  BY <1>1, <1>2, <1>3 DEF Moves

LEMMA QueueMoves ==
  ASSUME Owned, NEW c \in Calls, NEW r \in Records(Last), NEW i \in Instances, Queue(c, r, i)
  PROVE  \E q : Moves(c, q)
<1> DEFINE q == [r EXCEPT !.phase = "queued", !.at = 0, !.target = i]
<1>0. 0 \in 0..Last /\ i \in Selectable /\ "queued" \in CallPhases
  BY CallNames, Numbers
<1>1. q \in Records(Last) /\ q.phase = "queued" /\ q.at = 0
  BY <1>0 DEF Records
<1>2. call' = [d \in Calls |-> IF d = c THEN q ELSE call[d]] /\ chain' = Append(chain, c)
  BY DEF Queue, Resumed
<1> HIDE DEF q
<1>3. CallOK(q)
  BY <1>1 DEF CallOK
<1> QED
  BY <1>1, <1>2, <1>3 DEF Moves

LEMMA EnsureMoves ==
  ASSUME Owned, Served, NEW c \in Calls, NEW r \in Records(Last), Ensure(c, r)
  PROVE  \E q : Moves(c, q)
<1>1. CASE Goes(c, r, "send") /\ UNCHANGED chain
  BY <1>1, CallNames, GoesMoves
<1>2. CASE Goes(c, r, "failed") /\ UNCHANGED chain
  BY <1>2, CallNames, GoesMoves
<1>3. CASE selected # None /\ Queue(c, r, selected)
  <2>1. selected \in Instances
    BY <1>3 DEF Served, Selectable
  <2> QED
    BY <1>3, <2>1, QueueMoves
<1>4. ASSUME NEW i \in Instances, Queue(c, r, i) PROVE \E q : Moves(c, q)
  BY <1>4, QueueMoves
<1> QED
  BY <1>1, <1>2, <1>3, <1>4 DEF Ensure

\* A step that moves one call, and may act on the leases.
Steps(c) ==
  /\ call[c].phase \notin {"queued", "setup"} /\ \E q : Moves(c, q)
  /\ UNCHANGED <<conn, client, selected, instance>> /\ Held'

LEMMA StepsKeep == ASSUME IInv, NEW c \in Calls, Steps(c) PROVE IInv'
  BY MovesKeep DEF Steps

LEMMA HeldAlone ==
  ASSUME Held, UNCHANGED <<conn, client, holder, leaseId>>
  PROVE  Held'
  BY DEF Held, Harmless, Last

\* The lease is granted on a connection that does no harm, or forgotten.
LEMMA LeaseKnown ==
  ASSUME Held, UNCHANGED <<conn, client, holder>>, leaseId' \in 0..Last, leaseId' # 0 => Harmless(leaseId')
  PROVE  Held'
<1>1. Last' = Last /\ \A k : Harmless(k)' <=> Harmless(k)
  BY DEF Harmless, Last
<1>2. (leaseId # 0 => Harmless(leaseId))'
  BY DEF Harmless
<1> QED
  BY <1>1, <1>2 DEF Held

LEMMA HolderKnown ==
  ASSUME Held, Owned, UNCHANGED <<conn, client, leaseId>>, NEW i \in Instances, NEW k \in 0..Last,
         holder' = [holder EXCEPT ![i] = k], k # 0 => conn[k].to = i /\ Harmless(k)
  PROVE  Held'
<1>1. Last' = Last /\ \A m : Harmless(m)' <=> Harmless(m)
  BY DEF Harmless, Last
<1>2. holder' \in [Instances -> 0..Last] /\ \A j \in Instances : holder'[j] = IF j = i THEN k ELSE holder[j]
  BY DEF Held
<1>3. ASSUME NEW j \in Instances, holder'[j] # 0 PROVE conn[holder'[j]].to = j /\ Harmless(holder'[j])
  BY <1>2, <1>3 DEF Held
<1>4. (\A j \in Instances : holder[j] # 0 => conn[holder[j]].to = j /\ Harmless(holder[j]))'
  BY <1>3 DEF Harmless
<1>5. (leaseId # 0 => Harmless(leaseId))'
  BY DEF Held, Harmless
<1> QED
  BY <1>1, <1>2, <1>4, <1>5 DEF Held

LEMMA StartSteps == ASSUME IInv, NEW c \in Calls, Start(c) PROVE Steps(c)
<1> DEFINE r == call[c]
<1>1. r \in Records(Last) /\ r.phase = "new" /\ Owned /\ Served
  BY DEF Start, IInv, CallsOK
<1>2. Held'
  BY HeldAlone DEF Start, IInv
<1>3. \E q : Moves(c, q)
  <2>1. CASE \E i \in Instances : Queue(c, r, i)
    BY <1>1, <2>1, QueueMoves
  <2>2. ASSUME NEW req \in {"mutate", "renew"}, Ensure(c, [r EXCEPT !.req = req]) PROVE \E q : Moves(c, q)
    <3>1. [r EXCEPT !.req = req] \in Records(Last)
      BY <1>1, CallNames DEF Records
    <3> QED
      BY <1>1, <2>2, <3>1, EnsureMoves
  <2>3. CASE Goes(c, r, "ok") /\ UNCHANGED chain
    BY <1>1, <2>3, CallNames, GoesMoves
  <2>4. CASE Ensure(c, r)
    BY <1>1, <2>4, EnsureMoves
  <2> QED
    BY <2>1, <2>2, <2>3, <2>4 DEF Start
<1> QED
  BY <1>1, <1>2, <1>3 DEF Start, Steps

LEMMA SendSteps == ASSUME IInv, NEW c \in Calls, Send(c) PROVE Steps(c)
<1> DEFINE r == call[c]
           q == [r EXCEPT !.phase = "awaiting", !.at = client]
<1>1. r \in Records(Last) /\ r.phase = "send" /\ Owned
  BY DEF Send, IInv, CallsOK
<1>2. Held'
  BY HeldAlone DEF Send, IInv
<1>3. CASE client = 0 /\ Goes(c, r, "failed")
  <2>1. \E p : Moves(c, p)
    BY <1>1, <1>3, CallNames, GoesMoves DEF Send
  <2> QED
    BY <1>1, <1>2, <2>1 DEF Send, Steps
<1>4. CASE client # 0 /\ Resumed(c, q, {})
  <2>1. call' = [d \in Calls |-> IF d = c THEN q ELSE call[d]]
    BY <1>4 DEF Resumed
  <2>2. q \in Records(Last) /\ q.phase = "awaiting" /\ q.at = client
    BY <1>1, CallNames DEF Records, Owned
  <2> HIDE DEF q
  <2>3. CallOK(q)
    BY <1>4, <2>2 DEF CallOK
  <2>4. \E p : Moves(c, p)
    BY <2>1, <2>2, <2>3 DEF Moves, Send
  <2> QED
    BY <1>1, <1>2, <2>4 DEF Send, Steps
<1> QED
  BY <1>3, <1>4 DEF Send

LEMMA PollSteps == ASSUME IInv, NEW c \in Calls, PollAgain(c) \/ PollOver(c) \/ Joined(c) PROVE Steps(c)
<1>1. call[c] \in Records(Last) /\ Owned /\ Served /\ call[c].phase \notin {"queued", "setup"}
  BY DEF PollAgain, PollOver, Joined, IInv, CallsOK
<1>2. UNCHANGED <<instance, conn, holder, client, selected, leaseId>>
  BY DEF PollAgain, PollOver, Joined
<1>3. Held'
  BY <1>2, HeldAlone DEF IInv
<1>4. CASE PollAgain(c)
  <2>1. \E q : Moves(c, q)
    BY <1>1, <1>4, EnsureMoves DEF PollAgain
  <2> QED
    BY <1>1, <1>2, <1>3, <2>1 DEF Steps
<1>5. CASE Joined(c)
  <2>1. [call[c] EXCEPT !.depth = @ + 1] \in Records(Last)
    BY <1>1 DEF Records
  <2>2. \E q : Moves(c, q)
    BY <1>1, <1>5, <2>1, EnsureMoves DEF Joined
  <2> QED
    BY <1>1, <1>2, <1>3, <2>2 DEF Steps
<1>6. CASE PollOver(c)
  <2> DEFINE r == [call[c] EXCEPT !.depth = @ - 1]
  <2>1. r \in Records(Last)
    BY <1>1, <1>6 DEF Records, PollOver
  <2>2. CASE Ensure(c, [r EXCEPT !.req = "status"])
    <3>1. [r EXCEPT !.req = "status"] \in Records(Last)
      BY <2>1, CallNames DEF Records
    <3>2. \E q : Moves(c, q)
      BY <1>1, <2>2, <3>1, EnsureMoves
    <3> QED
      BY <1>1, <1>2, <1>3, <3>2 DEF Steps
  <2>3. CASE Goes(c, r, "send") /\ UNCHANGED chain
    <3>1. \E q : Moves(c, q)
      BY <1>1, <2>1, <2>3, CallNames, GoesMoves
    <3> QED
      BY <1>1, <1>2, <1>3, <3>1 DEF Steps
  <2> QED
    BY <1>6, <2>2, <2>3 DEF PollOver
<1> QED
  BY <1>4, <1>5, <1>6

LEMMA OverMoves ==
  ASSUME Owned, NEW c \in Calls, Resumed(c, Over, {}), UNCHANGED chain
  PROVE  \E q : Moves(c, q)
<1>1. Over \in Records(Last) /\ Over.phase = "done" /\ Over.at = 0
  <2>1. 0 \in 0..Last
    BY Numbers
  <2> QED
    BY <2>1, CallNames DEF Over, Records
<1>2. CallOK(Over)
  BY <1>1 DEF CallOK
<1>3. call' = [d \in Calls |-> IF d = c THEN Over ELSE call[d]]
  BY DEF Resumed
<1> QED
  BY <1>1, <1>2, <1>3 DEF Moves

LEMMA RequestEndsSteps == ASSUME IInv, NEW c \in Calls, RequestEnds(c) PROVE Steps(c)
<1> DEFINE r == call[c]
<1>1. r \in Records(Last) /\ CallOK(r) /\ Owned /\ Served /\ Held
  BY DEF IInv, CallsOK
<1>2. UNCHANGED <<instance, holder, selected, conn, client>>
  BY DEF RequestEnds
<1>3. r.phase \in {"ok", "failed"}
  BY DEF RequestEnds
<1>4. leaseId' \in {0, leaseId, r.at} /\ r.at \in 0..Last /\ 0 \in 0..Last
  BY <1>1, Numbers DEF RequestEnds, Records
<1>5. Held'
  <2>1. leaseId' \in 0..Last
    BY <1>1, <1>4 DEF Held
  <2>2. leaseId' # 0 => Harmless(leaseId')
    BY <1>1, <1>3, <1>4 DEF CallOK, Held
  <2> QED
    BY <1>1, <1>2, <2>1, <2>2, LeaseKnown
<1>6. \E q : Moves(c, q)
  <2>1. CASE Resumed(c, Over, {}) /\ UNCHANGED chain
    BY <1>1, <2>1, OverMoves
  <2>2. ASSUME NEW req \in {"work", "mutate"}, Ensure(c, [r EXCEPT !.req = req]) PROVE \E q : Moves(c, q)
    <3>1. [r EXCEPT !.req = req] \in Records(Last)
      BY <1>1, CallNames DEF Records
    <3> QED
      BY <1>1, <2>2, <3>1, EnsureMoves
  <2> QED
    BY <2>1, <2>2 DEF RequestEnds
<1> QED
  BY <1>2, <1>3, <1>5, <1>6 DEF Steps

LEMMA AnswerSteps == ASSUME IInv, NEW c \in Calls, Answer(c) PROVE Steps(c)
<1> DEFINE r == call[c]
           i == conn[r.at].to
<1>1. r \in Records(Last) /\ r.phase = "awaiting" /\ r.at = client /\ client # 0 /\ Owned /\ Held
  BY DEF IInv, CallsOK, CallOK, Answer
<1>2. UNCHANGED <<instance, conn, client, selected, leaseId, chain>>
  BY DEF Answer
<1>3. client \in 1..Last /\ i \in Instances /\ i = conn[client].to
  <2>1. client \in 1..Last
    BY <1>1, Numbers DEF Owned
  <2>2. conn[client] \in Ends
    BY <1>1, <2>1, Numbers
  <2> QED
    BY <1>1, <2>1, <2>2 DEF Ends
<1>4. PICK p \in {"ok", "failed", "notReady"} : Resumed(c, [r EXCEPT !.phase = p], {})
  BY DEF Answer
<1>5. \E q : Moves(c, q)
  <2> DEFINE q == [r EXCEPT !.phase = p]
  <2>1. q \in Records(Last) /\ q.phase = p /\ q.at = client
    BY <1>1, CallNames DEF Records
  <2>2. call' = [d \in Calls |-> IF d = c THEN q ELSE call[d]]
    BY <1>4 DEF Resumed
  <2> HIDE DEF q
  <2>3. CallOK(q)
    BY <2>1 DEF CallOK, Harmless
  <2> QED
    BY <1>2, <2>1, <2>2, <2>3 DEF Moves
<1>6. Held'
  <2>1. CASE UNCHANGED holder
    BY <1>1, <1>2, <2>1, HeldAlone
  <2>2. CASE holder' = [holder EXCEPT ![i] = client]
    <3>1. client \in 0..Last /\ Harmless(client)
      BY <1>1 DEF Owned, Harmless
    <3> QED
      BY <1>1, <1>2, <1>3, <2>2, <3>1, HolderKnown
  <2>3. CASE holder' = [holder EXCEPT ![i] = 0]
    <3>1. 0 \in 0..Last
      BY <1>1, Numbers
    <3> QED
      BY <1>1, <1>2, <1>3, <2>3, <3>1, HolderKnown
  <2> QED
    BY <1>1, <2>1, <2>2, <2>3 DEF Answer
<1> QED
  BY <1>1, <1>2, <1>5, <1>6 DEF Steps

LEMMA TimeoutSteps == ASSUME IInv, NEW c \in Calls, Timeout(c) PROVE Steps(c)
<1> DEFINE r == call[c]
           i == conn[r.at].to
<1>1. r \in Records(Last) /\ r.phase = "awaiting" /\ r.at = client /\ client # 0 /\ Owned /\ Held
  BY DEF IInv, CallsOK, CallOK, Timeout
<1>2. UNCHANGED <<instance, conn, client, selected, leaseId, chain>>
  BY DEF Timeout
<1>3. client \in 1..Last /\ i \in Instances /\ i = conn[client].to
  <2>1. client \in 1..Last
    BY <1>1, Numbers DEF Owned
  <2>2. conn[client] \in Ends
    BY <1>1, <2>1, Numbers
  <2> QED
    BY <1>1, <2>1, <2>2 DEF Ends
<1>4. Held'
  <2>1. CASE UNCHANGED holder
    BY <1>1, <1>2, <2>1, HeldAlone
  <2>2. CASE holder' = [holder EXCEPT ![i] = client]
    <3>1. client \in 0..Last /\ Harmless(client)
      BY <1>1 DEF Owned, Harmless
    <3> QED
      BY <1>1, <1>2, <1>3, <2>2, <3>1, HolderKnown
  <2> QED
    BY <1>1, <2>1, <2>2 DEF Timeout
<1>5. \E q : Moves(c, q)
  BY <1>1, <1>2, CallNames, GoesMoves DEF Timeout
<1> QED
  BY <1>1, <1>2, <1>4, <1>5 DEF Steps

-----------------------------------------------------------------------------
(* Steps that change the connections *)

\* Closing connections leaves their number and ends.
LEMMA ClosedEnds ==
  ASSUME Owned, NEW K
  PROVE  /\ Closed(K) \in Seq(Ends) /\ Len(Closed(K)) = Last /\ DOMAIN Closed(K) = DOMAIN conn
         /\ \A k \in 1..Last : /\ Closed(K)[k].to = conn[k].to
                               /\ k \in K => Closed(K)[k].state = "closed"
                               /\ k \notin K => Closed(K)[k] = conn[k]
<1>1. Last \in Nat /\ DOMAIN conn = 1..Last /\ \A k \in 1..Last : conn[k] \in Ends
  BY Numbers
<1>2. \A k \in 1..Last : [conn[k] EXCEPT !.state = "closed"] \in Ends
                         /\ [conn[k] EXCEPT !.state = "closed"].to = conn[k].to
                         /\ [conn[k] EXCEPT !.state = "closed"].state = "closed"
  BY <1>1 DEF Ends
<1>3. Closed(K) = [k \in 1..Last |-> IF k \in K THEN [conn[k] EXCEPT !.state = "closed"] ELSE conn[k]]
  BY <1>1 DEF Closed
<1>4. Closed(K) \in [1..Last -> Ends]
  BY <1>1, <1>2, <1>3
<1>5. Closed(K) \in Seq(Ends) /\ Len(Closed(K)) = Last
  BY <1>1, <1>4
<1> QED
  BY <1>1, <1>2, <1>3, <1>5

\* No current connection, or no connection being set up.
LEMMA SetupAlone ==
  ASSUME IInv, NEW k \in 1..Last, conn[k].state = "setup"
  PROVE  client = 0 /\ k = Last /\ \E c \in Calls : call[c].phase = "setup"
<1>1. PICK c \in Calls : call[c].phase = "setup" /\ call[c].at = k
  BY Numbers DEF IInv, Owned
<1> QED
  BY <1>1 DEF IInv, CallsOK, CallOK

\* The connections K, the current one perhaps among them, are closed and perhaps one
\* is added, while the calls other than those in own are told if they awaited them.
ClosesFor(own, K) ==
  /\ conn' \in Seq(Ends) /\ Last' \in {Last, Last + 1} /\ Last' <= MaxConns
  /\ \A k \in 1..Last : conn'[k] = Closed(K)[k]
  /\ \/ client \in K /\ client' = 0 /\ leaseId' = 0
     \/ client = 0 /\ client' = 0 /\ leaseId' \in {0, leaseId}
     \/ client \notin K /\ UNCHANGED <<client, leaseId>>
  /\ \A d \in Calls \ own :
       call'[d] = IF call[d].phase = "awaiting" /\ call[d].at \in K
                  THEN [call[d] EXCEPT !.phase = "failed", !.at = 0] ELSE call[d]
  /\ UNCHANGED holder

\* What became of a connection.
LEMMA ClosesEnds ==
  ASSUME IInv, NEW own, NEW K, ClosesFor(own, K), NEW k \in 1..Last
  PROVE  /\ Last \in Nat /\ k \in 1..Last' /\ conn'[k].to = conn[k].to
         /\ k \in K => conn'[k].state = "closed"
         /\ k \notin K => conn'[k] = conn[k]
         /\ Harmless(k) => Harmless(k)'
<1>1. Owned
  BY DEF IInv
<1>2. Last \in Nat /\ Last' \in {Last, Last + 1}
  BY <1>1, Numbers DEF ClosesFor
<1>3. k \in 1..Last'
  BY <1>2
<1>4. /\ conn'[k].to = conn[k].to
      /\ k \in K => conn'[k].state = "closed"
      /\ k \notin K => conn'[k] = conn[k]
  <2>1. conn'[k] = Closed(K)[k]
    BY DEF ClosesFor
  <2>2. /\ Closed(K)[k].to = conn[k].to
        /\ k \in K => Closed(K)[k].state = "closed"
        /\ k \notin K => Closed(K)[k] = conn[k]
    BY <1>1, ClosedEnds
  <2> QED
    BY <2>1, <2>2
<1>5. ASSUME Harmless(k), k \notin K PROVE Harmless(k)'
  <2>1. k = client => client' = client
    BY <1>2, <1>5 DEF ClosesFor
  <2> QED
    BY <1>4, <1>5, <2>1 DEF Harmless
<1> QED
  BY <1>2, <1>3, <1>4, <1>5 DEF Harmless

LEMMA ClosesHeld ==
  ASSUME IInv, NEW own, NEW K, ClosesFor(own, K)
  PROVE  Held'
<1>1. Owned /\ Held
  BY DEF IInv
<1>2. Last \in Nat /\ Last' \in {Last, Last + 1}
  BY <1>1, Numbers DEF ClosesFor
<1>3. (\A i \in Instances : holder[i] # 0 => conn[holder[i]].to = i /\ Harmless(holder[i]))'
  <2> SUFFICES ASSUME NEW i \in Instances, holder[i] # 0
               PROVE  conn'[holder[i]].to = i /\ Harmless(holder[i])'
    BY DEF ClosesFor
  <2>1. PICK h \in 1..Last : h = holder[i]
    BY <1>1, <1>2 DEF Held
  <2>2. conn[h].to = i /\ Harmless(h)
    BY <1>1, <2>1 DEF Held
  <2>3. conn'[h].to = i /\ Harmless(h)'
    BY <2>2, ClosesEnds
  <2>4. holder' = holder
    BY DEF ClosesFor
  <2> QED
    BY <2>1, <2>3, <2>4 DEF Harmless
<1>4. leaseId' \in {0, leaseId}
  BY DEF ClosesFor
<1>5. leaseId' \in 0..Last /\ (leaseId' # 0 => leaseId' \in 1..Last /\ Harmless(leaseId'))
  BY <1>1, <1>2, <1>4 DEF Held
<1>6. (leaseId # 0 => Harmless(leaseId))'
  <2> SUFFICES ASSUME leaseId' # 0 PROVE leaseId' = client' \/ conn'[leaseId'].state = "closed"
    BY DEF Harmless
  <2>1. PICK k \in 1..Last : k = leaseId' /\ Harmless(k)
    BY <1>5
  <2> QED
    BY <2>1, ClosesEnds DEF Harmless
<1>7. holder' \in [Instances -> 0..Last'] /\ leaseId' \in 0..Last'
  <2>1. \A n \in 0..Last : n \in 0..Last'
    BY <1>2
  <2>2. holder' \in [Instances -> 0..Last]
    BY <1>1 DEF Held, ClosesFor
  <2> QED
    BY <1>5, <2>1, <2>2
<1> QED
  BY <1>3, <1>6, <1>7 DEF Held

LEMMA ClosesCalls ==
  ASSUME IInv, NEW own, NEW K, ClosesFor(own, K), NEW d \in Calls \ own,
         \A k \in 1..Last : k \in K => conn[k].state # "setup",
         call[d].phase = "setup" => Last' = Last
  PROVE  CallOK(call[d])' /\ (call'[d].phase \in {"queued", "setup"} => call'[d] = call[d])
                          /\ (call[d].phase \in {"queued", "setup"} => call'[d] = call[d])
<1>1. Owned /\ call[d] \in Records(Last) /\ CallOK(call[d])
  BY DEF IInv, CallsOK
<1>2. Last \in Nat /\ Last' \in {Last, Last + 1}
  BY <1>1, Numbers DEF ClosesFor
<1>3. \A n \in 0..Last : n \in 0..Last'
  BY <1>2
<1>4. call[d] \in Records(Last') /\ 0 \in 0..Last'
  BY <1>1, <1>2, <1>3 DEF Records
<1>5. CASE call[d].phase = "awaiting" /\ call[d].at \in K
  <2> DEFINE q == [call[d] EXCEPT !.phase = "failed", !.at = 0]
  <2>1. q \in Records(Last') /\ q.phase = "failed" /\ q.at = 0
    BY <1>4, CallNames DEF Records
  <2>2. call'[d] = q
    BY <1>5 DEF ClosesFor
  <2> HIDE DEF q
  <2> QED
    BY <1>5, <2>1, <2>2 DEF CallOK
<1>6. CASE ~(call[d].phase = "awaiting" /\ call[d].at \in K)
  <2>1. call'[d] = call[d]
    BY <1>6 DEF ClosesFor
  <2>2. CASE call[d].phase = "awaiting"
    <3>1. call[d].at = client /\ client # 0 /\ client \notin K
      BY <1>1, <1>6, <2>2 DEF CallOK
    <3>2. client' = client
      BY <3>1 DEF ClosesFor
    <3> QED
      BY <1>4, <2>1, <2>2, <3>1, <3>2 DEF CallOK
  <2>3. CASE call[d].phase = "setup"
    <3>1. call[d].at = Last /\ Last # 0 /\ conn[Last].state = "setup" /\ client = 0 /\ Last' = Last
      BY <1>1, <2>3 DEF CallOK
    <3>2. Last \in 1..Last
      BY <1>2, <3>1
    <3>3. conn'[Last] = conn[Last]
      BY <3>1, <3>2, ClosesEnds
    <3>4. client' = 0
      BY <3>1 DEF ClosesFor
    <3> QED
      BY <1>4, <2>1, <2>3, <3>1, <3>3, <3>4 DEF CallOK
  <2>4. CASE call[d].phase \notin {"awaiting", "setup"}
    <3>1. ASSUME call[d].at # 0 PROVE Harmless(call[d].at)'
      <4>1. PICK k \in 1..Last : k = call[d].at
        BY <1>1, <1>2, <3>1 DEF Records
      <4>2. Harmless(k)'
        BY <1>1, <2>4, <3>1, <4>1, ClosesEnds DEF CallOK
      <4> QED
        BY <2>1, <4>1, <4>2 DEF Harmless
    <3> QED
      BY <1>4, <2>1, <2>4, <3>1 DEF CallOK, Harmless
  <2> QED
    BY <2>1, <2>2, <2>3, <2>4
<1> QED
  BY <1>5, <1>6

\* The calls other than c keep their place in the chain.
Waiting(c) ==
  \A d \in Calls \ {c} :
    /\ call'[d].phase \in {"queued", "setup"} <=> call[d].phase \in {"queued", "setup"}
    /\ call'[d].phase = "setup" <=> call[d].phase = "setup"

LEMMA FirstInChain ==
  ASSUME Locked, NEW c \in Calls, call[c].phase \in {"queued", "setup"}
  PROVE  Len(chain) \in Nat /\ Len(chain) >= 1 /\ Head(chain) = chain[1]
<1>1. PICK n \in 1..Len(chain) : chain[n] = c
  BY DEF Locked, InChain
<1>2. Len(chain) \in Nat /\ Len(chain) >= 1
  BY <1>1 DEF Locked
<1> QED
  BY <1>2 DEF Locked

LEMMA UnlockedIs ==
  ASSUME Locked, NEW c \in Calls, Len(chain) >= 1, chain[1] = c
  PROVE  /\ Unlocked(c) \in Seq(Calls) /\ Len(chain) \in Nat /\ Len(Unlocked(c)) = Len(chain) - 1
         /\ \A n \in 1..Len(chain) - 1 : Unlocked(c)[n] = chain[n + 1]
<1>1. PICK l \in Nat : l = Len(chain) /\ l >= 1
  BY DEF Locked
<1>2. \A n \in 1..l - 1 : (\E m \in 1..n : chain[m] = c) /\ n + 1 \in 1..l
  <2> SUFFICES ASSUME NEW n \in 1..l - 1 PROVE 1 \in 1..n /\ n + 1 \in 1..l
    OBVIOUS
  <2> QED
    BY <1>1
<1>3. Unlocked(c) = [n \in 1..l - 1 |-> chain[n + 1]]
  BY <1>1, <1>2 DEF Unlocked, Others
<1>4. \A n \in 1..l : chain[n] \in Calls
  BY <1>1 DEF Locked
<1>5. Unlocked(c) \in [1..l - 1 -> Calls]
  BY <1>2, <1>3, <1>4
<1>6. Unlocked(c) \in Seq(Calls) /\ Len(Unlocked(c)) = l - 1
  BY <1>1, <1>5
<1> QED
  BY <1>1, <1>3, <1>6

LEMMA UnlockedLocked ==
  ASSUME Locked, NEW c \in Calls, call[c].phase \in {"queued", "setup"}, chain[1] = c,
         chain' = Unlocked(c), Waiting(c), call'[c].phase \notin {"queued", "setup"}
  PROVE  Locked'
<1>1. PICK l \in Nat : l = Len(chain) /\ l >= 1
  BY FirstInChain
<1>2. /\ chain' \in Seq(Calls) /\ Len(chain') = l - 1
      /\ \A n \in 1..l - 1 : chain'[n] = chain[n + 1]
  BY <1>1, UnlockedIs
<1>3. \A n \in 1..l : \A m \in 1..l : chain[n] = chain[m] => n = m
  BY <1>1 DEF Locked
<1>4. \A n \in 1..l - 1 : \A m \in 1..l - 1 : chain'[n] = chain'[m] => n = m
  <2> SUFFICES ASSUME NEW n \in 1..l - 1, NEW m \in 1..l - 1, chain'[n] = chain'[m] PROVE n = m
    OBVIOUS
  <2>1. n + 1 \in 1..l /\ m + 1 \in 1..l /\ chain[n + 1] = chain[m + 1]
    BY <1>1, <1>2
  <2>2. n + 1 = m + 1
    BY <1>3, <2>1
  <2> QED
    BY <2>2
<1>5. ASSUME NEW d \in Calls PROVE InChain(d)' <=> (InChain(d) /\ d # c)
  <2>1. ASSUME NEW n \in 1..l - 1, chain'[n] = d PROVE InChain(d) /\ d # c
    <3>1. n + 1 \in 1..l /\ 1 \in 1..l /\ n + 1 # 1 /\ chain[n + 1] = d
      BY <1>1, <1>2, <2>1
    <3> QED
      BY <1>1, <1>3, <3>1 DEF InChain
  <2>2. ASSUME NEW n \in 1..l, chain[n] = d, d # c PROVE InChain(d)'
    <3>1. n - 1 \in 1..l - 1 /\ (n - 1) + 1 = n
      BY <1>1, <2>2
    <3>2. chain'[n - 1] = d
      BY <1>2, <2>2, <3>1
    <3> QED
      BY <1>2, <3>1, <3>2 DEF InChain
  <2> QED
    BY <1>1, <1>2, <2>1, <2>2 DEF InChain
<1>6. \A d \in Calls : call'[d].phase \in {"queued", "setup"} <=> InChain(d)'
  BY <1>5 DEF Locked, Waiting
<1>7. \A d \in Calls : call'[d].phase # "setup"
  BY DEF Locked, Waiting
<1> QED
  BY <1>2, <1>4, <1>6, <1>7 DEF Locked

LEMMA UnchangedLocked ==
  ASSUME Locked, UNCHANGED chain,
         \A d \in Calls : (call'[d].phase \in {"queued", "setup"} <=> call[d].phase \in {"queued", "setup"})
                          /\ (call'[d].phase = "setup" => call[d].phase = "setup" \/ chain[1] = d)
  PROVE  Locked'
<1>1. \A d : InChain(d)' <=> InChain(d)
  BY DEF InChain
<1> QED
  BY <1>1 DEF Locked

\* Connections are lost.
LEMMA LosesKeep ==
  ASSUME IInv, NEW K, ClosesFor({}, K), Last' = Last, call' = [d \in Calls |-> call'[d]],
         \A k \in 1..Last : k \in K => conn[k].state # "setup",
         UNCHANGED <<instance, selected, chain>>
  PROVE  IInv'
<1>1. \A d \in Calls : /\ CallOK(call[d])'
                       /\ call'[d].phase \in {"queued", "setup"} => call'[d] = call[d]
                       /\ call[d].phase \in {"queued", "setup"} => call'[d] = call[d]
  BY ClosesCalls
<1>2. CallsOK'
  <2>1. \A d \in Calls : call'[d] \in Records(Last')
    BY <1>1 DEF CallOK
  <2>2. call' \in [Calls -> Records(Last')]
    BY <2>1
  <2> QED
    BY <1>1, <2>2 DEF CallsOK
<1>3. Locked'
  BY <1>1, UnchangedLocked DEF IInv
<1>4. Owned /\ Last \in Nat /\ DOMAIN conn' = 1..Last /\ client \in 0..Last /\ client' \in {0, client}
  <2>1. Owned
    BY DEF IInv
  <2>2. conn' \in Seq(Ends) /\ Len(conn') = Last
    BY DEF ClosesFor, Last
  <2>3. client \in 0..Last /\ client' \in {0, client}
    BY <2>1 DEF ClosesFor, Owned
  <2> QED
    BY <2>1, <2>2, <2>3, Numbers
<1>5. Owned'
  <2>1. ASSUME NEW k \in 1..Last, conn'[k].state = "open" PROVE k = client'
    <3>1. k \notin K /\ conn[k].state = "open"
      BY <2>1, ClosesEnds
    <3>2. k = client
      BY <1>4, <3>1, Numbers DEF Owned
    <3> QED
      BY <1>4, <3>1, <3>2 DEF ClosesFor
  <2>2. ASSUME NEW k \in 1..Last, conn'[k].state = "setup"
        PROVE \E c \in Calls : call'[c].phase = "setup" /\ call'[c].at = k
    <3>1. conn[k].state = "setup"
      BY <2>2, ClosesEnds
    <3>2. PICK c \in Calls : call[c].phase = "setup" /\ call[c].at = k
      BY <1>4, <3>1, Numbers DEF Owned
    <3> QED
      BY <1>1, <3>2
  <2>3. conn' \in Seq(Ends) /\ Last' <= MaxConns
    BY DEF ClosesFor
  <2>4. client' \in 0..Last'
    BY <1>4
  <2> QED
    BY <1>4, <2>1, <2>2, <2>3, <2>4 DEF Owned
<1>6. Served'
  <2>1. ASSUME Last # 0 PROVE conn'[Last].to = conn[Last].to
    <3>1. Last \in 1..Last
      BY <1>4, <2>1
    <3> QED
      BY <3>1, ClosesEnds
  <2>2. selected # None => selected = conn'[Last].to
    BY <2>1 DEF IInv, Served, ServesDialledLast
  <2>3. client' # 0 => client' = Last /\ conn'[client'].to = selected
    BY <1>4, <2>1 DEF IInv, Served, ServesDialledLast
  <2> QED
    BY <2>2, <2>3 DEF IInv, Served, ServesDialledLast
<1>7. Held'
  BY ClosesHeld
<1> QED
  BY <1>2, <1>3, <1>5, <1>6, <1>7 DEF IInv

LEMMA NotInSetup ==
  ASSUME IInv, NEW k \in 1..Last, conn[k].state # "setup" \/ k = client
  PROVE  conn[k].state # "setup"
<1>1. Last \in Nat
  BY Numbers DEF IInv
<1> QED
  BY <1>1, SetupAlone

LEMMA LostKeeps == ASSUME IInv, NEW k \in DOMAIN conn, Lost(k) PROVE IInv'
<1>1. Owned /\ Last \in Nat /\ k \in 1..Last
  BY Numbers DEF IInv
<1>2. conn' = Closed({k}) /\ Last' = Last /\ conn' \in Seq(Ends)
  BY <1>1, ClosedEnds DEF Lost, Last
<1>3. ClosesFor({}, {k})
  <2>1. \A d \in Calls : call'[d] = IF call[d].phase = "awaiting" /\ call[d].at \in {k}
                                    THEN [call[d] EXCEPT !.phase = "failed", !.at = 0] ELSE call[d]
    BY DEF Lost
  <2>2. holder' = holder /\ Last <= MaxConns
    BY <1>1 DEF Lost, Owned
  <2>3. \/ client \in {k} /\ client' = 0 /\ leaseId' = 0
        \/ client \notin {k} /\ UNCHANGED <<client, leaseId>>
    BY DEF Lost
  <2> QED
    BY <1>2, <2>1, <2>2, <2>3 DEF ClosesFor
<1>4. call' = [d \in Calls |-> call'[d]] /\ UNCHANGED <<instance, selected, chain>>
  BY DEF Lost
<1>5. \A m \in 1..Last : m \in {k} => conn[m].state # "setup"
  BY DEF Lost
<1> QED
  BY <1>2, <1>3, <1>4, <1>5, LosesKeep

LEMMA ShuttingDownKeeps == ASSUME IInv, NEW k \in DOMAIN conn, ShuttingDown(k) PROVE IInv'
<1>1. Owned /\ Last \in Nat /\ k \in 1..Last
  BY Numbers DEF IInv
<1>2. conn' = Closed({k, client}) /\ Last' = Last /\ conn' \in Seq(Ends)
  BY <1>1, ClosedEnds DEF ShuttingDown, Last
<1>3. ClosesFor({}, {k, client})
  <2>1. \A d \in Calls : call'[d] = IF call[d].phase = "awaiting" /\ call[d].at \in {k, client}
                                    THEN [call[d] EXCEPT !.phase = "failed", !.at = 0] ELSE call[d]
    BY DEF ShuttingDown
  <2>2. holder' = holder /\ Last <= MaxConns /\ client' = 0 /\ leaseId' = 0
    BY <1>1 DEF ShuttingDown, Owned
  <2> QED
    BY <1>2, <2>1, <2>2 DEF ClosesFor
<1>4. call' = [d \in Calls |-> call'[d]] /\ UNCHANGED <<instance, selected, chain>>
  BY DEF ShuttingDown
<1>5. \A m \in 1..Last : m \in {k, client} => conn[m].state # "setup"
  BY NotInSetup DEF ShuttingDown
<1> QED
  BY <1>2, <1>3, <1>4, <1>5, LosesKeep

\* The process ends, and nothing is left.
LEMMA ExitKeeps == ASSUME IInv, NEW c \in Calls, Exit(c) PROVE IInv'
<1>1. Owned /\ Last \in Nat /\ DOMAIN conn = 1..Last
  BY Numbers DEF IInv
<1>2. conn' = Closed(1..Last) /\ Last' = Last /\ conn' \in Seq(Ends) /\ DOMAIN conn' = 1..Last
  BY <1>1, ClosedEnds DEF Exit, Last
<1>3. ClosesFor(Calls, 1..Last)
  <2>1. client' = 0 /\ leaseId' = 0 /\ holder' = holder /\ Last <= MaxConns /\ client \in 0..Last
    BY <1>1 DEF Exit, Owned
  <2>2. client = 0 \/ client \in 1..Last
    BY <1>1, <2>1
  <2> QED
    BY <1>2, <2>1, <2>2 DEF ClosesFor
<1>4. Held'
  BY <1>3, ClosesHeld
<1>5. \A d \in Calls : call'[d] = Over /\ Over.phase = "done" /\ Over.at = 0
  BY DEF Exit, Over
<1>6. CallsOK'
  <2>1. Over \in Records(Last')
    <3>1. 0 \in 0..Last'
      BY <1>1, <1>2
    <3> QED
      BY <3>1, CallNames DEF Over, Records
  <2>2. call' \in [Calls -> Records(Last')]
    BY <2>1 DEF Exit
  <2> QED
    BY <1>5, <2>1, <2>2 DEF CallsOK, CallOK
<1>7. Locked'
  <2>1. chain' = <<>>
    BY DEF Exit
  <2>2. \A d : ~InChain(d)'
    BY <2>1 DEF InChain
  <2> QED
    BY <1>5, <2>1, <2>2 DEF Locked
<1>8. Owned'
  <2>1. \A k \in 1..Last : conn'[k].state = "closed"
    BY <1>3, ClosesEnds
  <2>2. client' = 0 /\ Last' <= MaxConns
    BY <1>3 DEF Exit, ClosesFor
  <2>3. 0 \in 0..Last'
    BY <1>1, <1>2
  <2> QED
    BY <1>2, <2>1, <2>2, <2>3 DEF Owned
<1>9. Served'
  BY CallNames DEF Exit, IInv, Served, ServesDialledLast
<1> QED
  BY <1>4, <1>6, <1>7, <1>8, <1>9 DEF IInv

-----------------------------------------------------------------------------
(* Connect attempts *)

\* While an attempt that has not dialled runs, nothing is being set up.
LEMMA AttemptAlone ==
  ASSUME IInv, NEW c \in Calls, call[c].phase = "queued", chain[1] = c
  PROVE  /\ \A d \in Calls : call[d].phase # "setup"
         /\ \A k \in 1..Last : conn[k].state # "setup"
<1>1. \A d \in Calls : call[d].phase # "setup"
  BY DEF IInv, Locked
<1> QED
  BY <1>1, Numbers DEF IInv, Owned

\* An attempt ends without a dial: what it returns, or fails with, is known.
LEMMA AttemptEnds ==
  ASSUME IInv, NEW c \in Calls, call[c].phase = "queued", chain[1] = c,
         NEW p \in {"joined", "failed"}, Goes(c, call[c], p), chain' = Unlocked(c),
         UNCHANGED <<instance, holder, conn, client, selected, leaseId>>
  PROVE  IInv'
<1> DEFINE r == [call[c] EXCEPT !.phase = p, !.at = 0, !.target = None]
<1>1. /\ call[c] \in Records(Last) /\ Owned /\ Last' = Last /\ 0 \in 0..Last /\ None \in Selectable /\ p \in CallPhases
      /\ \A k : Harmless(k)' <=> Harmless(k)
  BY CallNames, Numbers DEF IInv, CallsOK, Last, Harmless
<1>2. r \in Records(Last) /\ r.phase = p /\ r.at = 0
  BY <1>1 DEF Records
<1>3. call' = [d \in Calls |-> IF d = c THEN r ELSE call[d]]
  BY DEF Goes, Resumed
<1> HIDE DEF r
<1>4. CallsOK'
  <2>1. \A d \in Calls : CallOK(call'[d])
    BY <1>2, <1>3 DEF CallOK, IInv, CallsOK
  <2>2. \A q : CallOK(q)' <=> CallOK(q)
    BY <1>1 DEF CallOK
  <2>3. call' \in [Calls -> Records(Last')]
    BY <1>1, <1>2, <1>3 DEF IInv, CallsOK
  <2> QED
    BY <2>1, <2>2, <2>3 DEF CallsOK
<1>5. Locked'
  <2>1. Waiting(c) /\ call'[c].phase \notin {"queued", "setup"}
    BY <1>2, <1>3 DEF Waiting
  <2> QED
    BY <2>1, UnlockedLocked DEF IInv
<1>6. Owned'
  <2>1. \A k \in 1..Last : conn[k].state # "setup"
    BY AttemptAlone
  <2> QED
    BY <1>1, <2>1, Numbers DEF Owned
<1>7. Held' /\ Served'
  BY <1>1, HeldAlone DEF IInv, Served, ServesDialledLast
<1> QED
  BY <1>4, <1>5, <1>6, <1>7 DEF IInv

\* An attempt drops the connection there is, and fails or dials.
LEMMA AttemptDrops ==
  ASSUME IInv, NEW c \in Calls, call[c].phase = "queued", chain[1] = c,
         ClosesFor({c}, {client}), client' = 0, selected' = None, instance' = instance,
         call' = [d \in Calls |-> call'[d]], CallOK(call[c])',
         \/ Last' = Last /\ chain' = Unlocked(c) /\ call'[c].phase = "failed"
         \/ /\ Last' = Last + 1 /\ UNCHANGED chain /\ conn'[Last'].state = "setup"
            /\ call'[c].phase = "setup" /\ call'[c].at = Last'
  PROVE  IInv'
<1>1. Owned /\ Last \in Nat /\ Last' \in {Last, Last + 1}
  BY Numbers DEF IInv, ClosesFor
<1>2. /\ \A d \in Calls : call[d].phase # "setup"
      /\ \A k \in 1..Last : conn[k].state # "setup"
  BY AttemptAlone
<1>3. \A d \in Calls \ {c} : /\ CallOK(call[d])'
                             /\ call'[d].phase \in {"queued", "setup"} => call'[d] = call[d]
                             /\ call[d].phase \in {"queued", "setup"} => call'[d] = call[d]
  BY <1>2, ClosesCalls
<1>4. CallsOK'
  <2>1. \A d \in Calls : CallOK(call[d])'
    BY <1>3
  <2>2. \A d \in Calls : call'[d] \in Records(Last')
    BY <2>1 DEF CallOK
  <2>3. call' \in [Calls -> Records(Last')]
    BY <2>2
  <2> QED
    BY <2>1, <2>3 DEF CallsOK
<1>5. Locked'
  <2>1. Waiting(c)
    BY <1>2, <1>3 DEF Waiting
  <2>2. CASE chain' = Unlocked(c) /\ call'[c].phase = "failed"
    BY <2>1, <2>2, UnlockedLocked DEF IInv
  <2>3. CASE UNCHANGED chain /\ call'[c].phase = "setup"
    BY <1>2, <2>1, <2>3, UnchangedLocked DEF IInv, Waiting
  <2> QED
    BY <2>2, <2>3
<1>6. Owned'
  <2>1. ASSUME NEW k \in 1..Last PROVE conn'[k].state \notin {"open", "setup"}
    <3>1. CASE k = client
      BY <3>1, ClosesEnds
    <3>2. CASE k # client
      <4>1. conn'[k] = conn[k]
        BY <3>2, ClosesEnds
      <4> QED
        BY <1>1, <1>2, <3>2, <4>1, Numbers DEF Owned
    <3> QED
      BY <3>1, <3>2
  <2>2. conn' \in Seq(Ends) /\ Last' <= MaxConns /\ DOMAIN conn' = 1..Last'
    <3>1. conn' \in Seq(Ends) /\ Last' <= MaxConns
      BY DEF ClosesFor
    <3>2. DOMAIN conn' = 1..Last'
      BY <3>1 DEF Last
    <3> QED
      BY <3>1, <3>2
  <2>3. client' \in 0..Last'
    BY <1>1
  <2>4. CASE Last' = Last
    BY <2>1, <2>2, <2>3, <2>4 DEF Owned
  <2>5. CASE Last' = Last + 1 /\ conn'[Last'].state = "setup" /\ call'[c].phase = "setup" /\ call'[c].at = Last'
    <3>1. \A k \in 1..Last' : k \in 1..Last \/ k = Last'
      BY <1>1, <2>5
    <3> QED
      BY <2>1, <2>2, <2>3, <2>5, <3>1 DEF Owned
  <2> QED
    BY <2>4, <2>5
<1>7. Served'
  BY CallNames DEF IInv, Served, ServesDialledLast
<1>8. Held'
  BY ClosesHeld
<1> QED
  BY <1>4, <1>5, <1>6, <1>7, <1>8 DEF IInv

LEMMA ConnectToKeeps == ASSUME IInv, NEW c \in Calls, ConnectTo(c) PROVE IInv'
<1> DEFINE r == call[c]
<1>1. /\ r.phase = "queued" /\ chain[1] = c /\ Owned /\ Last \in Nat
      /\ UNCHANGED <<instance, holder>>
  <2>1. r.phase = "queued" /\ Head(chain) = c /\ UNCHANGED <<instance, holder>>
    BY DEF ConnectTo, HoldsLock
  <2>2. chain[1] = c
    BY <2>1, FirstInChain DEF IInv
  <2> QED
    BY <2>1, <2>2, Numbers DEF IInv
<1>2. r \in Records(Last) /\ CallOK(r)
  BY DEF IInv, CallsOK
<1>3. ASSUME NEW p \in {"joined", "failed"}, Goes(c, r, p), chain' = Unlocked(c),
             UNCHANGED <<conn, client, selected, leaseId>>
      PROVE  IInv'
  BY <1>1, <1>3, AttemptEnds
<1>4. /\ Closed({client}) \in Seq(Ends) /\ Len(Closed({client})) = Last
      /\ Last <= MaxConns /\ client \in {client}
  BY <1>1, ClosedEnds DEF Owned
<1>5. ASSUME NEW q, leaseId' = 0, client' = 0, Resumed(c, q, {client}),
             conn' \in Seq(Ends), Last' \in {Last, Last + 1}, Last' <= MaxConns,
             \A k \in 1..Last : conn'[k] = Closed({client})[k]
      PROVE  ClosesFor({c}, {client}) /\ call'[c] = q /\ call' = [d \in Calls |-> call'[d]]
  <2>1. \A d \in Calls \ {c} : call'[d] = IF call[d].phase = "awaiting" /\ call[d].at \in {client}
                                         THEN [call[d] EXCEPT !.phase = "failed", !.at = 0] ELSE call[d]
    BY <1>5 DEF Resumed
  <2>2. call'[c] = q /\ call' = [d \in Calls |-> call'[d]]
    BY <1>5 DEF Resumed
  <2> QED
    BY <1>1, <1>4, <1>5, <2>1, <2>2 DEF ClosesFor
<1>6. CASE /\ Disconnect(c, [r EXCEPT !.phase = "failed", !.target = None])
           /\ DropSelected /\ chain' = Unlocked(c)
  <2> DEFINE q == [r EXCEPT !.phase = "failed", !.target = None]
  <2>1. q \in Records(Last) /\ q.phase = "failed" /\ q.at = r.at /\ q.at \in 0..Last
    BY <1>2, CallNames DEF Records
  <2>2. leaseId' = 0 /\ client' = 0 /\ Resumed(c, q, {client}) /\ conn' = Closed({client}) /\ selected' = None
    BY <1>6 DEF Disconnect, DropSelected
  <2> HIDE DEF q
  <2>3. Last' = Last /\ conn' \in Seq(Ends)
    BY <1>4, <2>2 DEF Last
  <2>4. ClosesFor({c}, {client}) /\ call'[c] = q /\ call' = [d \in Calls |-> call'[d]]
    BY <1>4, <1>5, <2>2, <2>3
  <2>5. ASSUME call'[c].at # 0 PROVE Harmless(call[c].at)'
    <3>1. PICK k \in 1..Last : k = q.at
      BY <1>1, <2>1, <2>4, <2>5
    <3>2. Harmless(k)
      BY <1>1, <1>2, <2>1, <2>4, <2>5, <3>1 DEF CallOK
    <3>3. Harmless(k)' /\ call'[c].at = k
      BY <2>4, <3>1, <3>2, ClosesEnds
    <3> QED
      BY <3>3 DEF Harmless
  <2>6. CallOK(call[c])'
    BY <2>1, <2>3, <2>4, <2>5 DEF CallOK, Harmless
  <2> QED
    BY <1>1, <1>6, <2>1, <2>2, <2>3, <2>4, <2>6, AttemptDrops
<1>7. CASE /\ r.target \in Live /\ Last < MaxConns
           /\ leaseId' = 0 /\ client' = 0 /\ DropSelected
           /\ conn' = Append(Closed({client}), [to |-> r.target, state |-> "setup"])
           /\ Resumed(c, [r EXCEPT !.phase = "setup", !.at = Last + 1], {client})
           /\ UNCHANGED chain
  <2> DEFINE q == [r EXCEPT !.phase = "setup", !.at = Last + 1]
             e == [to |-> r.target, state |-> "setup"]
  <2>1. e \in Ends /\ e.state = "setup"
    BY <1>7 DEF Live, Ends
  <2>2. Resumed(c, q, {client}) /\ conn' = Append(Closed({client}), e)
    BY <1>7
  <2>3. q \in Records(Last + 1) /\ q.phase = "setup" /\ q.at = Last + 1
    <3>1. Last + 1 \in 0..Last + 1 /\ \A n \in 0..Last : n \in 0..Last + 1
      BY <1>1
    <3> QED
      BY <1>2, <3>1, CallNames DEF Records
  <2> HIDE DEF q, e
  <2>4. /\ conn' \in Seq(Ends) /\ Last' = Last + 1 /\ conn'[Last + 1] = e
        /\ \A k \in 1..Last : conn'[k] = Closed({client})[k]
    <3>1. PICK s \in Seq(Ends) : s = Closed({client}) /\ Len(s) = Last
      BY <1>4
    <3>2. conn' = Append(s, e) /\ Last' = Len(conn')
      BY <2>2, <3>1 DEF Last
    <3>3. /\ Append(s, e) \in Seq(Ends) /\ Len(Append(s, e)) = Len(s) + 1
          /\ Append(s, e)[Len(s) + 1] = e /\ \A k \in 1..Len(s) : Append(s, e)[k] = s[k]
      BY <2>1, AppendSeq
    <3> QED
      BY <3>1, <3>2, <3>3
  <2>5. Last' <= MaxConns
    BY <1>1, <1>7, <2>4, ConnectionAssumption
  <2>6. ClosesFor({c}, {client}) /\ call'[c] = q /\ call' = [d \in Calls |-> call'[d]]
    BY <1>5, <1>7, <2>2, <2>4, <2>5
  <2>7. CallOK(call[c])'
    <3>1. Last' # 0 /\ conn'[Last'] = e /\ client' = 0
      <4>1. Last' = Last + 1 /\ conn'[Last + 1] = e
        BY <2>4
      <4>2. conn'[Last'] = e
        BY <4>1
      <4>3. Last' # 0
        BY <1>1, <4>1
      <4> QED
        BY <1>7, <4>2, <4>3
    <3> QED
      BY <2>1, <2>3, <2>4, <2>6, <3>1 DEF CallOK
  <2>8. selected' = None
    BY <1>7 DEF DropSelected
  <2>9. conn'[Last'].state = "setup" /\ call'[c].phase = "setup" /\ call'[c].at = Last'
    BY <2>1, <2>3, <2>4, <2>6
  <2> QED
    BY <1>1, <1>7, <2>4, <2>6, <2>7, <2>8, <2>9, AttemptDrops
<1> QED
  BY <1>3, <1>6, <1>7 DEF ConnectTo

\* The connection that was being set up becomes the current one, or is of no use.
LEMMA SetupOver ==
  ASSUME IInv, NEW c \in Calls, call[c].phase = "setup", NEW s \in {"open", "closed", "left"},
         conn' = [conn EXCEPT ![call[c].at].state = s],
         \/ s = "open" /\ client' = call[c].at /\ selected' = conn[call[c].at].to
         \/ s # "open" /\ UNCHANGED <<client, selected>>,
         NEW p \in {"joined", "failed"}, Goes(c, call[c], p), chain' = Unlocked(c),
         UNCHANGED <<instance, holder, leaseId>>
  PROVE  IInv'
<1> DEFINE r == [call[c] EXCEPT !.phase = p, !.at = 0, !.target = None]
<1>1. /\ call[c].at = Last /\ Last \in Nat /\ Last \in 1..Last /\ conn[Last].state = "setup" /\ client = 0
      /\ Owned /\ Held /\ Served /\ Locked /\ chain[1] = c
  BY Numbers DEF IInv, CallsOK, CallOK, Locked
<1>2. \A d \in Calls \ {c} : call[d].phase \notin {"setup", "awaiting"}
  BY <1>1 DEF IInv, Locked, CallsOK, CallOK
<1>3. /\ conn' \in Seq(Ends) /\ Last' = Last /\ DOMAIN conn' = 1..Last
      /\ conn'[Last].state = s /\ conn'[Last].to = conn[Last].to
      /\ \A k \in 1..Last : k # Last => conn'[k] = conn[k]
  <2> DEFINE e == [conn[Last] EXCEPT !.state = s]
  <2>1. conn \in Seq(Ends) /\ conn[Last] \in Ends /\ Last = Len(conn)
    BY <1>1, Numbers DEF Owned, Last
  <2>2. e \in Ends /\ e.state = s /\ e.to = conn[Last].to
    BY <2>1 DEF Ends
  <2>3. conn' = [conn EXCEPT ![Last] = e]
    BY <1>1
  <2> HIDE DEF e
  <2>4. /\ conn' \in Seq(Ends) /\ Len(conn') = Len(conn)
        /\ \A k \in 1..Len(conn) : conn'[k] = IF k = Last THEN e ELSE conn[k]
    BY <1>1, <2>1, <2>2, <2>3, ExceptSeq
  <2>5. Last' = Last /\ DOMAIN conn' = 1..Last
    BY <2>1, <2>4 DEF Last
  <2> QED
    BY <1>1, <2>1, <2>2, <2>4, <2>5
<1>4. ASSUME NEW k \in 1..Last, Harmless(k) PROVE Harmless(k)' /\ conn'[k].to = conn[k].to
  <2>1. k # Last /\ conn[k].state = "closed"
    BY <1>1, <1>4 DEF Harmless
  <2> QED
    BY <1>3, <2>1 DEF Harmless
<1>5. /\ call' = [d \in Calls |-> IF d = c THEN r ELSE call[d]]
      /\ r \in Records(Last) /\ r.phase = p /\ r.at = 0
  <2>1. call[c] \in Records(Last) /\ 0 \in 0..Last /\ p \in CallPhases
    BY <1>1, CallNames DEF IInv, CallsOK
  <2> QED
    BY <2>1, CallNames DEF Goes, Resumed, Records
<1> HIDE DEF r
<1>6. CallsOK'
  <2>1. ASSUME NEW d \in Calls PROVE CallOK(call[d])'
    <3>1. CASE d = c
      BY <1>3, <1>5, <3>1 DEF CallOK
    <3>2. CASE d # c
      <4>1. call'[d] = call[d] /\ call[d] \in Records(Last) /\ CallOK(call[d])
        BY <1>5, <3>2 DEF IInv, CallsOK
      <4>2. ASSUME call[d].at # 0 PROVE Harmless(call[d].at)'
        <5>1. PICK k \in 1..Last : k = call[d].at
          BY <1>1, <4>1, <4>2 DEF Records
        <5>2. Harmless(k)'
          BY <1>2, <1>4, <3>2, <4>1, <5>1 DEF CallOK
        <5> QED
          BY <4>1, <5>1, <5>2 DEF Harmless
      <4> QED
        BY <1>2, <1>3, <3>2, <4>1, <4>2 DEF CallOK, Harmless
    <3> QED
      BY <3>1, <3>2
  <2>2. call' \in [Calls -> Records(Last')]
    BY <1>3, <1>5 DEF IInv, CallsOK
  <2> QED
    BY <2>1, <2>2 DEF CallsOK
<1>7. Locked'
  <2>1. Waiting(c) /\ call'[c].phase \notin {"queued", "setup"}
    BY <1>5 DEF Waiting
  <2> QED
    BY <1>1, <2>1, UnlockedLocked
<1>8. Owned'
  <2>1. ASSUME NEW k \in 1..Last PROVE conn'[k].state # "setup" /\ (conn'[k].state = "open" => k = client')
    <3>1. CASE k = Last
      BY <1>1, <1>3, <3>1
    <3>2. CASE k # Last
      <4>1. conn'[k] = conn[k] /\ conn[k].state \notin {"setup", "open"}
        BY <1>1, <1>3, <3>2, SetupAlone, Numbers DEF Owned
      <4> QED
        BY <4>1
    <3> QED
      BY <3>1, <3>2
  <2>2. client' \in 0..Last /\ Last <= MaxConns
    BY <1>1 DEF Owned
  <2> QED
    BY <1>3, <2>1, <2>2 DEF Owned
<1>9. Held'
  <2>1. (\A i \in Instances : holder[i] # 0 => conn[holder[i]].to = i /\ Harmless(holder[i]))'
    <3> SUFFICES ASSUME NEW i \in Instances, holder[i] # 0 PROVE conn'[holder[i]].to = i /\ Harmless(holder[i])'
      OBVIOUS
    <3>1. PICK k \in 1..Last : k = holder[i] /\ conn[k].to = i /\ Harmless(k)
      BY <1>1 DEF Held
    <3>2. conn'[k].to = i /\ Harmless(k)'
      BY <1>4, <3>1
    <3> QED
      BY <3>1, <3>2 DEF Harmless
  <2>2. (leaseId # 0 => Harmless(leaseId))'
    <3> SUFFICES ASSUME leaseId # 0 PROVE Harmless(leaseId)'
      OBVIOUS
    <3>1. PICK k \in 1..Last : k = leaseId /\ Harmless(k)
      BY <1>1 DEF Held
    <3>2. Harmless(k)'
      BY <1>4, <3>1
    <3> QED
      BY <3>1, <3>2 DEF Harmless
  <2>3. holder' \in [Instances -> 0..Last'] /\ leaseId' \in 0..Last'
    BY <1>1, <1>3 DEF Held
  <2> QED
    BY <2>1, <2>2, <2>3 DEF Held
<1>10. Served'
  <2>1. conn[Last] \in Ends
    BY <1>1, Numbers
  <2>2. selected' \in Selectable /\ instance' \in [Instances -> {"coming", "live", "gone"}]
    BY <1>1, <2>1, CallNames DEF Served, Ends
  <2>3. ServesDialledLast'
    BY <1>1, <1>3 DEF Served, ServesDialledLast
  <2> QED
    BY <1>1, <1>3, <2>2, <2>3 DEF Served
<1> QED
  BY <1>6, <1>7, <1>8, <1>9, <1>10 DEF IInv

LEMMA SetupKeeps == ASSUME IInv, NEW c \in Calls, SetupSucceeds(c) \/ SetupFails(c) PROVE IInv'
<1>1. CASE SetupSucceeds(c)
  BY <1>1, SetupOver DEF SetupSucceeds
<1>2. CASE SetupFails(c)
  BY <1>2, SetupOver DEF SetupFails
<1> QED
  BY <1>1, <1>2

-----------------------------------------------------------------------------
(* The instances, and every step *)

\* The manager and its calls see nothing of it.
LEMMA UnseenKeeps ==
  ASSUME IInv, UNCHANGED <<conn, client, selected, leaseId, chain, call>>,
         instance' \in [Instances -> {"coming", "live", "gone"}], Held'
  PROVE  IInv'
<1>1. Last' = Last /\ \A k : Harmless(k)' <=> Harmless(k)
  BY DEF Last, Harmless
<1>2. \A q : CallOK(q)' <=> CallOK(q)
  BY <1>1 DEF CallOK
<1>3. CallsOK'
  BY <1>1, <1>2 DEF IInv, CallsOK
<1>4. Locked' /\ Owned'
  BY <1>1 DEF IInv, Locked, InChain, Owned
<1>5. Served'
  BY <1>1 DEF IInv, Served, ServesDialledLast
<1> QED
  BY <1>3, <1>4, <1>5 DEF IInv

LEMMA InstanceKeeps == ASSUME IInv, NEW i \in Instances, Starts(i) \/ Stops(i) \/ LeaseEnds(i) PROVE IInv'
<1>1. CASE Starts(i) \/ Stops(i)
  <2>1. instance' \in [Instances -> {"coming", "live", "gone"}]
    BY <1>1 DEF IInv, Served, Starts, Stops
  <2>2. Held'
    BY <1>1, HeldAlone DEF IInv, Starts, Stops
  <2> QED
    BY <1>1, <2>1, <2>2, UnseenKeeps DEF Starts, Stops
<1>2. CASE LeaseEnds(i)
  <2>1. 0 \in 0..Last
    BY Numbers DEF IInv
  <2>2. Held'
    BY <1>2, <2>1, HolderKnown DEF IInv, LeaseEnds
  <2>3. instance' \in [Instances -> {"coming", "live", "gone"}]
    BY <1>2 DEF IInv, Served, LeaseEnds
  <2> QED
    BY <1>2, <2>2, <2>3, UnseenKeeps DEF LeaseEnds
<1> QED
  BY <1>1, <1>2

LEMMA InitHolds == ASSUME Init PROVE IInv
<1>1. PICK w \in Workloads :
        call = [c \in Calls |-> [phase |-> "new", req |-> w[c], target |-> None, at |-> 0, depth |-> 0]]
  BY DEF Init
<1>2. \A c \in Calls : w[c] \in Reqs
  BY ConnectionAssumption DEF Reqs
<1>3. \/ conn = <<>> /\ selected = None /\ Last = 0
      \/ \E i \in Instances : conn = <<[to |-> i, state |-> "open"]>> /\ selected = i /\ Last = 1
  BY DEF Init, Live, Last
<1>4. client = Last /\ leaseId = Last /\ Last \in Nat /\ Last <= 1 /\ chain = <<>>
      /\ holder = [i \in Instances |-> IF i = selected THEN 1 ELSE 0]
  BY <1>3 DEF Init
<1>5. CallsOK
  <2>1. \A c \in Calls : call[c] \in Records(Last) /\ call[c].phase = "new" /\ call[c].at = 0
    BY <1>1, <1>2, <1>4, CallNames DEF Records
  <2>2. call \in [Calls -> Records(Last)]
    BY <1>1, <2>1
  <2> QED
    BY <2>1, <2>2 DEF CallsOK, CallOK
<1>6. Locked
  <2>1. \A c \in Calls : ~InChain(c)
    BY <1>4 DEF InChain
  <2> QED
    BY <1>1, <1>4, <2>1 DEF Locked
<1>7. Owned
  <2>1. CASE conn = <<>> /\ Last = 0
    BY <1>4, <2>1, ConnectionAssumption DEF Owned
  <2>2. ASSUME NEW i \in Instances, conn = <<[to |-> i, state |-> "open"]>>, Last = 1 PROVE Owned
    <3> DEFINE e == [to |-> i, state |-> "open"]
    <3>1. e \in Ends /\ e.state = "open"
      BY DEF Ends
    <3>2. conn = <<e>>
      BY <2>2
    <3> HIDE DEF e
    <3>3. conn \in Seq(Ends) /\ DOMAIN conn = {1} /\ conn[1] = e
      BY <3>1, <3>2
    <3>4. 1 <= MaxConns
      BY ConnectionAssumption
    <3> QED
      BY <1>4, <2>2, <3>1, <3>3, <3>4 DEF Owned
  <2> QED
    BY <1>3, <2>1, <2>2
<1>8. Held
  <2>1. holder \in [Instances -> 0..Last]
    BY <1>3, <1>4, ConnectionAssumption
  <2>2. \A i \in Instances : holder[i] # 0 => conn[holder[i]].to = i /\ holder[i] = client
    BY <1>3, <1>4, ConnectionAssumption
  <2> QED
    BY <1>4, <2>1, <2>2 DEF Held, Harmless
<1>9. Served
  <2>1. instance \in [Instances -> {"coming", "live", "gone"}]
    BY DEF Init
  <2> QED
    BY <1>3, <1>4, <2>1, CallNames DEF Served, ServesDialledLast
<1> QED
  BY <1>5, <1>6, <1>7, <1>8, <1>9 DEF IInv

LEMMA NextKeeps == ASSUME IInv, [Next]_vars PROVE IInv'
<1>1. ASSUME NEW c \in Calls, Runs(c) \/ PollAgain(c) \/ Answer(c) PROVE IInv'
  <2>1. CASE Start(c) \/ Send(c) \/ PollAgain(c) \/ PollOver(c) \/ Joined(c)
    BY <2>1, StartSteps, SendSteps, PollSteps, StepsKeep
  <2>2. CASE RequestEnds(c) \/ Answer(c) \/ Timeout(c)
    BY <2>2, RequestEndsSteps, AnswerSteps, TimeoutSteps, StepsKeep
  <2>3. CASE ConnectTo(c) \/ SetupSucceeds(c) \/ SetupFails(c) \/ Exit(c)
    BY <2>3, ConnectToKeeps, SetupKeeps, ExitKeeps
  <2> QED
    BY <1>1, <2>1, <2>2, <2>3 DEF Runs
<1>2. ASSUME NEW i \in Instances, Starts(i) \/ Stops(i) \/ LeaseEnds(i) PROVE IInv'
  BY <1>2, InstanceKeeps
<1>3. ASSUME NEW k \in DOMAIN conn, Lost(k) \/ ShuttingDown(k) PROVE IInv'
  BY <1>3, LostKeeps, ShuttingDownKeeps
<1>4. CASE UNCHANGED vars
  <2>1. Held'
    BY <1>4, HeldAlone DEF vars, IInv
  <2>2. instance' \in [Instances -> {"coming", "live", "gone"}]
    BY <1>4 DEF vars, IInv, Served
  <2> QED
    BY <1>4, <2>1, <2>2, UnseenKeeps DEF vars
<1> QED
  BY <1>1, <1>2, <1>3, <1>4 DEF Next

-----------------------------------------------------------------------------
(* The theorems *)

\* The inductive invariant: who waits for what, and which connection each part of
\* the manager still refers to.
THEOREM Invariance == Spec => []IInv
<1>1. Init => IInv
  BY InitHolds
<1>2. IInv /\ [Next]_vars => IInv'
  BY NextKeeps
<1> QED
  BY <1>1, <1>2, PTL DEF Spec

\* For any instances, calls and number of connections, whatever is lost: attempts run
\* one at a time, in the order of the chain, and orphan no client, no lease and no call.
THEOREM ConsistentCorrect == Spec => []Consistent
<1>1. IInv => Consistent
  <2> SUFFICES ASSUME IInv PROVE Consistent
    OBVIOUS
  <2>1. TypeOK
    BY DEF IInv, CallsOK, Locked, Owned, Held, Served, TypeOK, Records, CallPhases, Reqs, Selectable, Ends
  <2>2. NoOrphans
    BY DEF IInv, Owned, Held, Harmless, NoOrphans
  <2>3. \A c \in Calls : call[c].phase = "setup" => Head(chain) = c /\ conn[call[c].at].state = "setup"
    BY FirstInChain DEF IInv, Locked, CallsOK, CallOK
  <2>4. \A c \in Calls : call[c].phase = "awaiting" => call[c].at = client
    BY DEF IInv, CallsOK, CallOK
  <2> QED
    BY <2>1, <2>2, <2>3, <2>4 DEF IInv, Locked, InChain, Consistent
<1> QED
  BY <1>1, Invariance, PTL

\* No call is served by an instance other than the one dialled last, and a failed
\* attempt leaves none selected.
THEOREM ServesDialledLastCorrect == Spec => []ServesDialledLast
<1>1. IInv => ServesDialledLast
  BY DEF IInv, Served
<1> QED
  BY <1>1, Invariance, PTL

-----------------------------------------------------------------------------
(***************************************************************************)
(* The tools of the Workbench module. What the calls have planned applies  *)
(* to the patch of its preview in stages, each a patch, and the cables     *)
(* that go on the way go into the input that the plan ends with.           *)
(***************************************************************************)

\* A stage of a plan on patch p: it is a patch, and what it lacks of the cables of p an
\* operation that may take cables away has taken from its input.
Taking == {"replace_all", "disconnect_port"}

PlanOps == {"add_module", "set_parameter", "connect"} \cup Taking

Staged(s) == DOMAIN s = {"patch", "ok"} /\ Sound(s.patch)

\* A patch, with its cables spelled out.
LEMMA SoundIs ==
  ASSUME NEW p, DOMAIN p = {"model", "cables", "value", "bypassed", "channels"}
  PROVE  Sound(p) <=> IsFiniteSet(DOMAIN p.model) /\ \A c \in p.cables : c.from \in DOMAIN p.model /\ c.to \in DOMAIN p.model
BY DEF Sound, Joining, Modules

\* A patch with other cables, that join its modules.
LEMMA SoundCables ==
  ASSUME NEW p, Sound(p), NEW cs, \A c \in cs : c \in p.cables \/ (c.from \in Modules(p) /\ c.to \in Modules(p))
  PROVE  Sound([p EXCEPT !.cables = cs]) /\ [p EXCEPT !.cables = cs].cables = cs
<1> DEFINE q == [p EXCEPT !.cables = cs]
<1>1. DOMAIN p = {"model", "cables", "value", "bypassed", "channels"}
  BY DEF Sound
<1>2. q.model = p.model /\ q.cables = cs /\ DOMAIN q = DOMAIN p
  BY <1>1
<1>3. IsFiniteSet(DOMAIN p.model) /\ \A c \in p.cables : c.from \in DOMAIN p.model /\ c.to \in DOMAIN p.model
  BY <1>1, SoundIs
<1> HIDE DEF q
<1>4. Sound(q)
  BY <1>1, <1>2, <1>3, SoundIs DEF Modules
<1> QED
  BY <1>2, <1>4 DEF q

\* Adding a module and setting a parameter leave the cables alone.
LEMMA AddKeeps ==
  ASSUME NEW s, Staged(s), NEW o
  PROVE  Staged(AddsModule(s, o)) /\ AddsModule(s, o).patch.cables = s.patch.cables
<1> DEFINE t == AddsModule(s, o)
           p == s.patch
           q == t.patch
           model == [m \in {o.alias} \cup DOMAIN p.model |-> IF m = o.alias THEN o.model ELSE p.model[m]]
<1>1. DOMAIN s = {"patch", "ok"} /\ DOMAIN p = {"model", "cables", "value", "bypassed", "channels"} /\ Sound(p)
  BY DEF Staged, Sound
<1>2. DOMAIN t = {"patch", "ok"} /\ DOMAIN q = DOMAIN p /\ q.cables = p.cables /\ q.model = model
  BY <1>1 DEF AddsModule
<1>3. DOMAIN model = {o.alias} \cup DOMAIN p.model
  OBVIOUS
<1> HIDE DEF model, q
<1>4. IsFiniteSet(DOMAIN model)
  <2>1. IsFiniteSet(DOMAIN p.model)
    BY <1>1, SoundIs
  <2> QED
    BY <1>3, <2>1, FS_AddElement
<1>5. Sound(q)
  BY <1>1, <1>2, <1>3, <1>4, SoundIs
<1> QED
  BY <1>2, <1>5 DEF Staged, q

LEMMA SetKeeps ==
  ASSUME NEW s, Staged(s), NEW o
  PROVE  Staged(SetsParameter(s, o)) /\ SetsParameter(s, o).patch.cables = s.patch.cables
<1> DEFINE t == SetsParameter(s, o)
           p == s.patch
           q == t.patch
<1>1. DOMAIN s = {"patch", "ok"} /\ DOMAIN p = {"model", "cables", "value", "bypassed", "channels"} /\ Sound(p)
  BY DEF Staged, Sound
<1>2. DOMAIN t = {"patch", "ok"} /\ DOMAIN q = DOMAIN p /\ q.cables = p.cables /\ q.model = p.model
  BY <1>1 DEF SetsParameter
<1> HIDE DEF q
<1>5. Sound(q)
  BY <1>1, <1>2, SoundIs
<1> QED
  BY <1>2, <1>5 DEF Staged, q

\* A cable connected joins modules of the patch, and takes nothing that a connect keeps.
LEMMA ConnectKeeps ==
  ASSUME NEW s, Staged(s), NEW o
  PROVE  /\ Staged(Connects(s, o))
         /\ \A c \in s.patch.cables : \/ c \in Connects(s, o).patch.cables
                                     \/ (o.op # "connect" /\ c.to = o.to /\ c.in = o.in)
<1> DEFINE t == Connects(s, o)
           p == s.patch
           taken == At(p, o.to, o.in)
           cable == [from |-> o.from, out |-> o.out, to |-> o.to, in |-> o.in]
           cs == (p.cables \ taken) \cup {cable}
<1>1. DOMAIN s = {"patch", "ok"} /\ DOMAIN p = {"model", "cables", "value", "bypassed", "channels"} /\ Sound(p)
  BY DEF Staged, Sound
<1> DEFINE fails == \/ {o.from, o.to} \subseteq Modules(p) => InBounds([p EXCEPT !.cables = {cable}]) = {}
                    \/ taken # {} /\ o.op = "connect"
<1>2. CASE fails
  <2>1. t = [s EXCEPT !.ok = FALSE]
    BY <1>2 DEF Connects
  <2>2. t.patch = p /\ DOMAIN t = {"patch", "ok"}
    BY <1>1, <2>1
  <2>3. Sound(t.patch) /\ t.patch.cables = p.cables
    BY <1>1, <2>2
  <2> QED
    BY <2>2, <2>3 DEF Staged
<1>3. CASE ~fails
  <2>1. t = [s EXCEPT !.patch.cables = cs]
    BY <1>3 DEF Connects
  <2>2. o.from \in Modules(p) /\ o.to \in Modules(p)
    BY <1>3
  <2>3. taken = {} \/ o.op # "connect"
    BY <1>3
  <2>4. \A c \in cs : c \in p.cables \/ (c.from \in Modules(p) /\ c.to \in Modules(p))
    BY <2>2
  <2>5. \A c \in p.cables : c \in cs \/ (c \in taken /\ c.to = o.to /\ c.in = o.in)
    BY DEF At
  <2> HIDE DEF cs
  <2>6. DOMAIN t = {"patch", "ok"} /\ t.patch = [p EXCEPT !.cables = cs]
    BY <1>1, <2>1
  <2>7. Sound(t.patch) /\ t.patch.cables = cs
    BY <1>1, <2>4, <2>6, SoundCables
  <2>8. Staged(t)
    BY <2>6, <2>7 DEF Staged
  <2>9. \A c \in p.cables : c \in t.patch.cables \/ (o.op # "connect" /\ c.to = o.to /\ c.in = o.in)
    BY <2>3, <2>5, <2>7
  <2> QED
    BY <2>8, <2>9
<1> QED
  BY <1>2, <1>3

\* Disconnecting takes away only what is in the input.
LEMMA DisconnectKeeps ==
  ASSUME NEW s, Staged(s), NEW o
  PROVE  /\ Staged(Disconnects(s, o))
         /\ \A c \in s.patch.cables : c \in Disconnects(s, o).patch.cables \/ (c.to = o.to /\ c.in = o.in)
<1> DEFINE t == Disconnects(s, o)
           p == s.patch
           cs == p.cables \ At(p, o.to, o.in)
<1>1. DOMAIN s = {"patch", "ok"} /\ DOMAIN p = {"model", "cables", "value", "bypassed", "channels"} /\ Sound(p)
  BY DEF Staged, Sound
<1>2. \A c \in p.cables : c \in cs \/ (c.to = o.to /\ c.in = o.in)
  BY DEF At
<1>3. \A c \in cs : c \in p.cables
  OBVIOUS
<1>4. t = [s EXCEPT !.ok = o.to \in Modules(p), !.patch.cables = cs]
  BY DEF Disconnects
<1> HIDE DEF cs
<1>5. DOMAIN t = {"patch", "ok"} /\ t.patch = [p EXCEPT !.cables = cs]
  BY <1>1, <1>4
<1>6. Sound(t.patch) /\ t.patch.cables = cs
  BY <1>1, <1>3, <1>5, SoundCables
<1> QED
  BY <1>2, <1>5, <1>6 DEF Staged

\* An operation makes a patch of a patch.
LEMMA AppliedKeeps ==
  ASSUME NEW s, Staged(s), NEW o, o.op \in PlanOps
  PROVE  /\ Staged(Applied(s, o))
         /\ \A c \in s.patch.cables :
              c \in Applied(s, o).patch.cables \/ (o.op \in Taking /\ c.to = o.to /\ c.in = o.in)
<1>1. CASE ~s.ok
  BY <1>1 DEF Applied
<1>2. CASE s.ok /\ o.op = "add_module"
  <2>1. Applied(s, o) = AddsModule(s, o)
    BY <1>2 DEF Applied
  <2> QED
    BY <2>1, AddKeeps
<1>3. CASE s.ok /\ o.op = "set_parameter"
  <2>1. Applied(s, o) = SetsParameter(s, o)
    BY <1>3 DEF Applied
  <2> QED
    BY <2>1, SetKeeps
<1>4. CASE s.ok /\ o.op \in {"connect", "replace_all"}
  <2>1. Applied(s, o) = Connects(s, o)
    BY <1>4 DEF Applied
  <2>2. o.op # "connect" => o.op \in Taking
    BY <1>4 DEF Taking
  <2>3. Staged(Connects(s, o))
    BY ConnectKeeps
  <2>4. \A c \in s.patch.cables : c \in Connects(s, o).patch.cables \/ (o.op # "connect" /\ c.to = o.to /\ c.in = o.in)
    BY ConnectKeeps
  <2> QED
    BY <2>1, <2>2, <2>3, <2>4
<1>5. CASE s.ok /\ o.op = "disconnect_port"
  <2>1. Applied(s, o) = Disconnects(s, o)
    BY <1>5 DEF Applied
  <2> QED
    BY <1>5, <2>1, DisconnectKeeps DEF Taking
<1> QED
  BY <1>1, <1>2, <1>3, <1>4, <1>5 DEF PlanOps, Taking

\* f says what a patch has become after each of the first n operations.
Follows(f, p, plan, n) ==
  f = [i \in 0..n |-> IF i = 0 THEN [patch |-> p, ok |-> TRUE] ELSE Applied(f[i - 1], plan[i])]

\* There are such functions: the first number without one has none before it.
LEMMA StagesExist ==
  ASSUME NEW p, NEW plan, NEW n \in Nat
  PROVE  \E f : Follows(f, p, plan, n)
<1> DEFINE T == {k \in Nat : \A f : ~Follows(f, p, plan, k)}
<1> SUFFICES T = {}
  OBVIOUS
<1> SUFFICES ASSUME T # {} PROVE FALSE
  OBVIOUS
<1>1. PICK k \in T : \A j \in T : k <= j
  <2>1. T \in SUBSET Nat
    OBVIOUS
  <2> HIDE DEF T
  <2> QED
    BY <2>1, LeastIs
<1>2. k \in Nat /\ \A f : ~Follows(f, p, plan, k)
  OBVIOUS
<1>3. CASE k = 0
  <2> DEFINE f == [i \in 0..0 |-> [patch |-> p, ok |-> TRUE]]
  <2>1. \A i \in 0..0 : i = 0
    OBVIOUS
  <2>2. Follows(f, p, plan, 0)
    BY <2>1 DEF Follows
  <2> QED
    BY <1>2, <1>3, <2>2
<1>4. CASE k # 0
  <2>1. k - 1 \in Nat /\ k - 1 < k /\ k - 1 \notin T
    BY <1>1, <1>2, <1>4
  <2>2. PICK g : Follows(g, p, plan, k - 1)
    BY <2>1
  <2> DEFINE f == [i \in 0..k |-> IF i \in 0..k - 1 THEN g[i] ELSE Applied(g[k - 1], plan[k])]
  <2>3. \A i \in 0..k - 1 : g[i] = IF i = 0 THEN [patch |-> p, ok |-> TRUE] ELSE Applied(g[i - 1], plan[i])
    BY <2>2 DEF Follows
  <2>4. \A i \in 0..k : /\ i \in 0..k - 1 \/ i = k
                        /\ i # 0 => i - 1 \in 0..k - 1 /\ i - 1 \in 0..k
                        /\ i = k => i # 0 /\ i \notin 0..k - 1 /\ i - 1 = k - 1
    BY <1>2, <1>4
  <2>5. \A i \in 0..k : f[i] = IF i = 0 THEN [patch |-> p, ok |-> TRUE] ELSE Applied(f[i - 1], plan[i])
    <3> SUFFICES ASSUME NEW i \in 0..k
                 PROVE  f[i] = IF i = 0 THEN [patch |-> p, ok |-> TRUE] ELSE Applied(f[i - 1], plan[i])
      OBVIOUS
    <3>1. CASE i = 0
      BY <2>3, <2>4, <3>1
    <3>2. CASE i # 0
      <4>1. f[i - 1] = g[i - 1]
        BY <2>4, <3>2
      <4>2. f[i] = Applied(g[i - 1], plan[i])
        BY <2>3, <2>4, <3>2
      <4> QED
        BY <3>2, <4>1, <4>2
    <3> QED
      BY <3>1, <3>2
  <2>6. f = [i \in 0..k |-> f[i]]
    OBVIOUS
  <2> HIDE DEF f
  <2>7. Follows(f, p, plan, k)
    BY <2>5, <2>6 DEF Follows
  <2> QED
    BY <1>2, <2>7
<1> QED
  BY <1>3, <1>4

\* The stages of a plan, as recursive equations.
LEMMA StagesAre ==
  ASSUME NEW p, NEW plan, Len(plan) \in Nat
  PROVE  /\ Stages(p, plan)[0] = [patch |-> p, ok |-> TRUE]
         /\ \A i \in 1..Len(plan) : Stages(p, plan)[i] = Applied(Stages(p, plan)[i - 1], plan[i])
<1> DEFINE s == Stages(p, plan)
<1>1. s = CHOOSE f : Follows(f, p, plan, Len(plan))
  BY DEF Stages, Follows
<1>2. \E f : Follows(f, p, plan, Len(plan))
  BY StagesExist
<1> HIDE DEF s
<1>3. Follows(s, p, plan, Len(plan))
  BY <1>1, <1>2
<1>4. \A i \in 0..Len(plan) : s[i] = IF i = 0 THEN [patch |-> p, ok |-> TRUE] ELSE Applied(s[i - 1], plan[i])
  BY <1>3 DEF Follows
<1>5. \A i \in 1..Len(plan) : i \in 0..Len(plan) /\ i # 0
  OBVIOUS
<1>6. 0 \in 0..Len(plan)
  OBVIOUS
<1> QED
  BY <1>4, <1>5, <1>6 DEF s

\* What a plan leaves is a patch, with the cables of p but those that an operation took
\* from its input.
LEMMA OutcomeKeeps ==
  ASSUME NEW p, Sound(p), NEW plan, Len(plan) \in Nat, \A i \in 1..Len(plan) : plan[i].op \in PlanOps
  PROVE  /\ Staged(Outcome(p, plan))
         /\ \A c \in p.cables :
              \/ c \in Outcome(p, plan).patch.cables
              \/ \E i \in 1..Len(plan) : plan[i].op \in Taking /\ c.to = plan[i].to /\ c.in = plan[i].in
<1> DEFINE s == Stages(p, plan)
           Taken(c) == \E i \in 1..Len(plan) : plan[i].op \in Taking /\ c.to = plan[i].to /\ c.in = plan[i].in
           Right(i) == Staged(s[i]) /\ \A c \in p.cables : c \in s[i].patch.cables \/ Taken(c)
           T == {k \in 0..Len(plan) : ~Right(k)}
<1>1. /\ s[0] = [patch |-> p, ok |-> TRUE]
      /\ \A i \in 1..Len(plan) : s[i] = Applied(s[i - 1], plan[i])
  BY StagesAre
<1> HIDE DEF s
<1>2. T = {}
  <2> SUFFICES ASSUME T # {} PROVE FALSE
    OBVIOUS
  <2>1. PICK k \in T : \A j \in T : k <= j
    <3>1. T \in SUBSET Nat
      OBVIOUS
    <3> HIDE DEF T
    <3> QED
      BY <3>1, LeastIs
  <2>2. k \in 0..Len(plan) /\ ~Right(k)
    OBVIOUS
  <2>3. Right(0)
    BY <1>1 DEF Staged
  <2>4. k \in 1..Len(plan) /\ k - 1 \in 0..Len(plan) /\ k - 1 < k
    BY <2>2, <2>3
  <2>5. Right(k - 1)
    BY <2>1, <2>4
  <2>6. /\ Staged(Applied(s[k - 1], plan[k]))
        /\ \A c \in s[k - 1].patch.cables :
             c \in Applied(s[k - 1], plan[k]).patch.cables \/ (plan[k].op \in Taking /\ c.to = plan[k].to /\ c.in = plan[k].in)
    BY <2>4, <2>5, AppliedKeeps
  <2>7. s[k] = Applied(s[k - 1], plan[k])
    BY <1>1, <2>4
  <2>8. Right(k)
    BY <2>4, <2>5, <2>6, <2>7
  <2> QED
    BY <2>2, <2>8
<1>3. Right(Len(plan))
  BY <1>2
<1> QED
  BY <1>3 DEF Outcome, s

-----------------------------------------------------------------------------
(***************************************************************************)
(* The plans of the recipes add modules, set parameters and connect: none  *)
(* takes a cable away.                                                     *)
(***************************************************************************)

RecipeKinds == {"add_module", "set_parameter", "connect"}

Plain(ops) == \E S : ops \in Seq(S) /\ \A o \in S : o.op \in RecipeKinds

\* Plans of that kind compose; those of the recipes follow one by one.
LEMMA PlainJoin == ASSUME NEW a, NEW b, Plain(a), Plain(b) PROVE Plain(a \o b)
<1>1. PICK S : a \in Seq(S) /\ \A o \in S : o.op \in RecipeKinds
  BY DEF Plain
<1>2. PICK T : b \in Seq(T) /\ \A o \in T : o.op \in RecipeKinds
  BY DEF Plain
<1>3. a \in Seq(S \cup T) /\ b \in Seq(S \cup T)
  BY <1>1, <1>2
<1>4. a \o b \in Seq(S \cup T)
  BY <1>3
<1>5. \A o \in S \cup T : o.op \in RecipeKinds
  BY <1>1, <1>2
<1> QED
  BY <1>4, <1>5 DEF Plain

LEMMA OpsAre ==
  /\ \A role : \A alias : Add(role, alias).op \in RecipeKinds
  /\ \A alias : \A param : \A n : SetNorm(alias, param, n).op \in RecipeKinds
  /\ \A from : \A out : \A to : \A in : Wire(from, out, to, in).op \in RecipeKinds
BY DEF Add, SetNorm, Wire, RecipeKinds

LEMMA PlainIs ==
  ASSUME NEW ops, NEW n \in Nat, ops \in Seq({ops[i] : i \in 1..n}), \A i \in 1..n : ops[i].op \in RecipeKinds
  PROVE  Plain(ops)
BY DEF Plain

LEMMA ToAudioIs == ASSUME NEW from, NEW out PROVE Plain(ToAudio(from, out))
<1> DEFINE ops == ToAudio(from, out)
<1>1. ops \in Seq({ops[i] : i \in 1..2})
  BY DEF ToAudio
<1>2. \A i \in 1..2 : ops[i].op \in RecipeKinds
  BY OpsAre DEF ToAudio
<1> HIDE DEF ops
<1> QED
  BY <1>1, <1>2, PlainIs DEF ops

LEMMA EnvelopeIs == ASSUME NEW a, NEW d, NEW s, NEW r PROVE Plain(Envelope(a, d, s, r))
<1> DEFINE ops == Envelope(a, d, s, r)
<1>1. ops \in Seq({ops[i] : i \in 1..4})
  BY DEF Envelope
<1>2. \A i \in 1..4 : ops[i].op \in RecipeKinds
  BY OpsAre DEF Envelope
<1> HIDE DEF ops
<1> QED
  BY <1>1, <1>2, PlainIs DEF ops

LEMMA VoiceIs == Plain(Voice)
<1> DEFINE ops ==
             <<Wire("vco", Vco.sawOut, "vcf", Vcf.audioIn), Wire("env", Adsr.envOut, "vca", Vca.gainCv),
               Wire("vcf", Vcf.lpOut, "vca", Vca.audioIn)>>
<1>1. ops \in Seq({ops[i] : i \in 1..3}) /\ \A i \in 1..3 : ops[i].op \in RecipeKinds
  BY OpsAre
<1>2. Voice = ops \o ToAudio("vca", Vca.audioOut)
  BY DEF Voice
<1> HIDE DEF ops
<1> QED
  BY <1>1, <1>2, PlainIs, PlainJoin, ToAudioIs

LEMMA KeyedIs == Plain(KeyedVoice.modules) /\ Plain(KeyedVoice.rest)
<1> DEFINE modules ==
             <<Add("midi_input", "midi"), Add("oscillator", "vco"), Add("filter", "vcf"),
               Add("envelope", "env"), Add("amplifier", "vca"), Add("audio_output", "audio")>>
           cutoff == <<SetNorm("vcf", Vcf.cutoffParam, 55)>>
           wires ==
             <<SetNorm("vca", Vca.level, 100), Wire("midi", Midi.pitch, "vco", Vco.pitchIn),
               Wire("midi", Midi.gate, "env", Adsr.gateIn)>>
<1>1. modules \in Seq({modules[i] : i \in 1..6}) /\ \A i \in 1..6 : modules[i].op \in RecipeKinds
  BY OpsAre
<1>2. cutoff \in Seq({cutoff[i] : i \in 1..1}) /\ \A i \in 1..1 : cutoff[i].op \in RecipeKinds
  BY OpsAre
<1>3. wires \in Seq({wires[i] : i \in 1..3}) /\ \A i \in 1..3 : wires[i].op \in RecipeKinds
  BY OpsAre
<1>4. KeyedVoice.modules = modules /\ KeyedVoice.rest = ((cutoff \o Envelope(5, 40, 70, 35)) \o wires) \o Voice
  BY DEF KeyedVoice
<1> HIDE DEF modules, cutoff, wires
<1>5. Plain(modules) /\ Plain(cutoff) /\ Plain(wires) /\ Plain(Envelope(5, 40, 70, 35))
  BY <1>1, <1>2, <1>3, PlainIs, EnvelopeIs
<1>6. Plain(cutoff \o Envelope(5, 40, 70, 35))
  BY <1>5, PlainJoin
<1>7. Plain((cutoff \o Envelope(5, 40, 70, 35)) \o wires)
  BY <1>5, <1>6, PlainJoin
<1> QED
  BY <1>4, <1>5, <1>7, PlainJoin, VoiceIs

LEMMA ClockedIs == Plain(clocked_8_step_sequence.operations)
<1> DEFINE first ==
             <<Add("clock", "clk"), Add("sequencer", "seq"), Add("oscillator", "vco"),
               Add("envelope", "env"), Add("filter", "vcf"), Add("amplifier", "vca"),
               Add("audio_output", "audio"), SetNorm("clk", Lfo.freq, 40),
               SetNorm("seq", Seq3.stepsParam, 100), SetNorm("vcf", Vcf.cutoffParam, 50)>>
           wires ==
             <<SetNorm("vca", Vca.level, 100), Wire("clk", Lfo.squareOut, "seq", Seq3.clockIn),
               Wire("seq", Seq3.cv1Out, "vco", Vco.pitchIn), Wire("seq", Seq3.trigOut, "env", Adsr.gateIn)>>
<1>1. first \in Seq({first[i] : i \in 1..10}) /\ \A i \in 1..10 : first[i].op \in RecipeKinds
  BY OpsAre
<1>2. wires \in Seq({wires[i] : i \in 1..4}) /\ \A i \in 1..4 : wires[i].op \in RecipeKinds
  BY OpsAre
<1>3. clocked_8_step_sequence.operations = ((first \o Envelope(2, 30, 50, 20)) \o wires) \o Voice
  BY DEF clocked_8_step_sequence
<1> HIDE DEF first, wires
<1>4. Plain(first) /\ Plain(wires) /\ Plain(Envelope(2, 30, 50, 20))
  BY <1>1, <1>2, PlainIs, EnvelopeIs
<1>5. Plain(first \o Envelope(2, 30, 50, 20))
  BY <1>4, PlainJoin
<1>6. Plain((first \o Envelope(2, 30, 50, 20)) \o wires)
  BY <1>4, <1>5, PlainJoin
<1> QED
  BY <1>3, <1>6, PlainJoin, VoiceIs

LEMMA SidechainIs == Plain(sidechain_envelope_follow.operations)
<1> DEFINE first ==
             <<Add("main_source", "src"), Add("trigger_source", "trig"), Add("envelope", "env"),
               Add("duck_vca", "vca"), Add("audio_output", "audio")>>
           wires ==
             <<SetNorm("vca", Vca.level, 100), Wire("src", Vco.sawOut, "vca", Vca.audioIn),
               Wire("trig", Midi.gate, "env", Adsr.gateIn), Wire("env", Adsr.envOut, "vca", Vca.gainCv)>>
<1>1. first \in Seq({first[i] : i \in 1..5}) /\ \A i \in 1..5 : first[i].op \in RecipeKinds
  BY OpsAre
<1>2. wires \in Seq({wires[i] : i \in 1..4}) /\ \A i \in 1..4 : wires[i].op \in RecipeKinds
  BY OpsAre
<1>3. sidechain_envelope_follow.operations
        = ((first \o Envelope(2, 25, 0, 30)) \o wires) \o ToAudio("vca", Vca.audioOut)
  BY DEF sidechain_envelope_follow
<1> HIDE DEF first, wires
<1>4. Plain(first) /\ Plain(wires) /\ Plain(Envelope(2, 25, 0, 30))
  BY <1>1, <1>2, PlainIs, EnvelopeIs
<1>5. Plain(first \o Envelope(2, 25, 0, 30))
  BY <1>4, PlainJoin
<1>6. Plain((first \o Envelope(2, 25, 0, 30)) \o wires)
  BY <1>4, <1>5, PlainJoin
<1> QED
  BY <1>3, <1>6, PlainJoin, ToAudioIs

LEMMA SafeIs == Plain(safe_master_output.operations)
<1> DEFINE first ==
             <<Add("master_vca", "master"), Add("audio_output", "audio"), SetNorm("master", Vca.level, 70)>>
<1>1. first \in Seq({first[i] : i \in 1..3}) /\ \A i \in 1..3 : first[i].op \in RecipeKinds
  BY OpsAre
<1>2. safe_master_output.operations = first \o ToAudio("master", Vca.audioOut)
  BY DEF safe_master_output
<1> HIDE DEF first
<1> QED
  BY <1>1, <1>2, PlainIs, PlainJoin, ToAudioIs

LEMMA ProbingIs == Plain(probe_silence_diagnosis.operations)
<1> DEFINE probe == <<Add("probe", "probe")>>
           wires ==
             <<Wire("vco", Vco.sawOut, "probe", 0), Wire("vcf", Vcf.lpOut, "probe", 1),
               Wire("vca", Vca.audioOut, "probe", 2)>>
<1>1. probe \in Seq({probe[i] : i \in 1..1}) /\ \A i \in 1..1 : probe[i].op \in RecipeKinds
  BY OpsAre
<1>2. wires \in Seq({wires[i] : i \in 1..3}) /\ \A i \in 1..3 : wires[i].op \in RecipeKinds
  BY OpsAre
<1>3. probe_silence_diagnosis.operations = ((KeyedVoice.modules \o probe) \o KeyedVoice.rest) \o wires
  BY DEF probe_silence_diagnosis
<1> HIDE DEF probe, wires
<1>4. Plain(probe) /\ Plain(wires)
  BY <1>1, <1>2, PlainIs
<1>5. Plain(KeyedVoice.modules \o probe)
  BY <1>4, KeyedIs, PlainJoin
<1>6. Plain((KeyedVoice.modules \o probe) \o KeyedVoice.rest)
  BY <1>5, KeyedIs, PlainJoin
<1> QED
  BY <1>3, <1>4, <1>6, PlainJoin

LEMMA StereoIs == Plain(stereo_delay_send_return.operations)
<1> DEFINE ops == stereo_delay_send_return.operations
<1>1. ops \in Seq({ops[i] : i \in 1..14})
  BY DEF stereo_delay_send_return
<1>2. \A i \in 1..14 : ops[i].op \in RecipeKinds
  BY OpsAre DEF stereo_delay_send_return
<1> HIDE DEF ops
<1> QED
  BY <1>1, <1>2, PlainIs DEF ops

LEMMA LfoIs == ASSUME NEW speed, NEW depth PROVE Plain(LfoModulation(speed, depth).operations)
<1> DEFINE ops ==
     <<Add("source", "vco"), Add("lfo", "lfo"), Add("filter", "vcf"), Add("amplifier", "vca"),
       Add("audio_output", "audio"), SetNorm("lfo", Lfo.freq, speed),
       SetNorm("vcf", Vcf.cutoffParam, 50), SetNorm("vcf", Vcf.cutoffDepth, depth),
       SetNorm("vca", Vca.level, 80),
       Wire("vco", Vco.sawOut, "vcf", Vcf.audioIn), Wire("lfo", Lfo.sineOut, "vcf", Vcf.cutoffCv),
       Wire("vcf", Vcf.lpOut, "vca", Vca.audioIn)>>
<1>1. ops \in Seq({ops[i] : i \in 1..12})
  OBVIOUS
<1>2. \A i \in 1..12 : ops[i].op \in RecipeKinds
  BY OpsAre
<1>3. LfoModulation(speed, depth).operations = ops \o ToAudio("vca", Vca.audioOut)
  BY DEF LfoModulation
<1> HIDE DEF ops
<1> QED
  BY <1>1, <1>2, <1>3, PlainIs, PlainJoin, ToAudioIs

\* No recipe takes cables away.
LEMMA RecipesPlain == \A r \in DOMAIN Recipe : Plain(Recipe[r].operations)
<1>1. Plain(basic_mono_subtractive.operations)
  <2>1. basic_mono_subtractive.operations = KeyedVoice.modules \o KeyedVoice.rest
    BY DEF basic_mono_subtractive
  <2> QED
    BY <2>1, KeyedIs, PlainJoin
<1>2. Plain(poly_midi_subtractive.operations)
  BY <1>1 DEF poly_midi_subtractive
<1>3. Plain(lfo_filter_modulation.operations)
  BY LfoIs DEF lfo_filter_modulation
<1>4. Plain(clocked_8_step_sequence.operations) /\ Plain(stereo_delay_send_return.operations)
  BY ClockedIs, StereoIs
<1>5. Plain(safe_master_output.operations) /\ Plain(sidechain_envelope_follow.operations)
  BY SafeIs, SidechainIs
<1>6. Plain(probe_silence_diagnosis.operations)
  BY ProbingIs
<1> QED
  BY <1>1, <1>2, <1>3, <1>4, <1>5, <1>6 DEF Recipe

CallFields == {"ask", "at", "found", "cursor", "complete", "plan", "base", "result"}

\* A plan takes cables from one input at most, by its last operation, and never if it is
\* made of a recipe.
Shaped(entry) ==
  /\ Len(entry.plan) \in Nat
  /\ \A i \in 1..Len(entry.plan) :
       /\ entry.plan[i].op \in PlanOps
       /\ entry.plan[i].op \in Taking => i = Len(entry.plan) /\ entry.ask.tool # "build_recipe"

\* What the preview of a call has seen.
Foreseen(entry) ==
  /\ Sound(entry.result)
  /\ \A cable \in entry.base.cables :
       \/ cable \in entry.result.cables
       \/ \E i \in 1..Len(entry.plan) :
            entry.plan[i].op \in Taking /\ cable.to = entry.plan[i].to /\ cable.in = entry.plan[i].in

Fine(entry) ==
  /\ DOMAIN entry = CallFields
  /\ entry.ask.tool = "build_recipe" => entry.ask.recipe \in DOMAIN Recipe
  /\ entry.at = "scan" => entry.ask.tool = "build_recipe"
  /\ entry.at \in {"preview", "planned"} => Shaped(entry)
  /\ entry.at = "planned" => Foreseen(entry)

EachFine == calls = [c \in DOMAIN calls |-> calls[c]] /\ \A c \in DOMAIN calls : Fine(calls[c])

Working == Analysed /\ Sound(patch) /\ EachFine

\* The call c becomes r.
Becomes(c, r) == calls' = [calls EXCEPT ![c] = r]

\* A step of one call leaves the others alone.
LEMMA OneFine ==
  ASSUME EachFine, NEW c \in DOMAIN calls, NEW r, Becomes(c, r), Fine(r)
  PROVE  EachFine'
<1>1. calls' = [d \in DOMAIN calls |-> IF d = c THEN r ELSE calls[d]]
  BY DEF Becomes, EachFine
<1>2. DOMAIN calls' = DOMAIN calls /\ \A d \in DOMAIN calls : calls'[d] = IF d = c THEN r ELSE calls[d]
  BY <1>1
<1>3. calls' = [d \in DOMAIN calls' |-> calls'[d]]
  BY <1>1
<1>4. \A d \in DOMAIN calls' : Fine(calls'[d])
  BY <1>2 DEF EachFine
<1> QED
  BY <1>3, <1>4 DEF EachFine

\* Every plan that build_recipe makes has operations of the three kinds only.
LEMMA ExpandedShaped ==
  ASSUME NEW r \in DOMAIN Recipe
  PROVE  /\ Len(Expanded(Recipe[r])) \in Nat
         /\ \A i \in 1..Len(Expanded(Recipe[r])) : Expanded(Recipe[r])[i].op \in RecipeKinds
<1> DEFINE ops == Recipe[r].operations
           plan == Expanded(Recipe[r])
<1>1. PICK S : ops \in Seq(S) /\ \A o \in S : o.op \in RecipeKinds
  BY RecipesPlain DEF Plain
<1>2. plan = [i \in DOMAIN ops |->
                IF ops[i].op = "add_module"
                THEN [op |-> ops[i].op, model |-> Recipe[r].roles[ops[i].role], alias |-> ops[i].alias]
                ELSE ops[i]]
  BY DEF Expanded
<1> HIDE DEF ops, plan
<1>3. Len(ops) \in Nat /\ DOMAIN ops = 1..Len(ops) /\ \A i \in 1..Len(ops) : ops[i].op \in RecipeKinds
  BY <1>1
<1>4. DOMAIN plan = 1..Len(ops) /\ \A i \in 1..Len(ops) : plan[i].op \in RecipeKinds
  <2> SUFFICES ASSUME NEW i \in 1..Len(ops) PROVE plan[i].op = ops[i].op
    BY <1>2, <1>3
  <2>1. CASE ops[i].op = "add_module"
    BY <1>2, <1>3, <2>1
  <2>2. CASE ops[i].op # "add_module"
    BY <1>2, <1>3, <2>2
  <2> QED
    BY <2>1, <2>2
<1>5. Len(plan) = Len(ops)
  BY <1>3, <1>4
<1> QED
  BY <1>3, <1>4, <1>5 DEF plan

\* The steps of a call, and the steps of the user, keep the invariant.
LEMMA ScanKeeps ==
  ASSUME EachFine, NEW c \in DOMAIN calls, Scan(c)
  PROVE  EachFine'
<1> DEFINE entry    == calls[c]
           end     == Least(entry.cursor + PageSize, Len(catalog))
           found   == entry.found \cup Ids(SubSeq(catalog, entry.cursor + 1, end))
           recipe  == Recipe[entry.ask.recipe]
           scanned == [entry EXCEPT !.found = found, !.cursor = end]
           r == IF end < Len(catalog) /\ end < MaxPages * PageSize THEN scanned
                ELSE IF Unresolved(recipe, found) # {}
                THEN [scanned EXCEPT !.at = "unresolved", !.complete = Complete(end)]
                ELSE [scanned EXCEPT !.at = "preview", !.plan = Expanded(recipe), !.complete = Complete(end)]
<1>1. Becomes(c, r)
  BY DEF Scan, Becomes
<1>2. Fine(entry) /\ entry.at = "scan"
  BY DEF EachFine, Scan
<1>3. DOMAIN entry = CallFields /\ entry.ask.tool = "build_recipe" /\ entry.ask.recipe \in DOMAIN Recipe
  BY <1>2 DEF Fine
<1> HIDE DEF found, end
<1>4. DOMAIN scanned = CallFields /\ scanned.ask = entry.ask /\ scanned.at = "scan"
  BY <1>2, <1>3 DEF CallFields
<1>5. \/ r = scanned
      \/ r = [scanned EXCEPT !.at = "unresolved", !.complete = Complete(end)]
      \/ r = [scanned EXCEPT !.at = "preview", !.plan = Expanded(recipe), !.complete = Complete(end)]
  OBVIOUS
<1> HIDE DEF scanned, r
<1>6. Fine(r)
  <2>1. CASE r = scanned
    BY <1>3, <1>4, <2>1 DEF Fine
  <2>2. CASE r = [scanned EXCEPT !.at = "unresolved", !.complete = Complete(end)]
    <3>1. DOMAIN r = CallFields /\ r.ask = entry.ask /\ r.at = "unresolved"
      BY <1>4, <2>2 DEF CallFields
    <3> QED
      BY <1>3, <3>1 DEF Fine
  <2>3. CASE r = [scanned EXCEPT !.at = "preview", !.plan = Expanded(recipe), !.complete = Complete(end)]
    <3>1. DOMAIN r = CallFields /\ r.ask = entry.ask /\ r.at = "preview" /\ r.plan = Expanded(recipe)
      BY <1>4, <2>3 DEF CallFields
    <3>2. Shaped(r)
      BY <1>3, <3>1, ExpandedShaped DEF Shaped, RecipeKinds, PlanOps, Taking
    <3> QED
      BY <1>3, <3>1, <3>2 DEF Fine
  <2> QED
    BY <1>5, <2>1, <2>2, <2>3
<1> QED
  BY <1>1, <1>6, OneFine

\* A plan of one operation, and one that adds a probe and then connects it.
LEMMA OneShaped ==
  ASSUME NEW entry, NEW o, entry.plan = <<o>>, o.op \in Taking, entry.ask.tool # "build_recipe"
  PROVE  Shaped(entry)
<1>1. Len(entry.plan) = 1 /\ \A i \in 1..1 : i = 1 /\ entry.plan[i].op = o.op
  OBVIOUS
<1> QED
  BY <1>1 DEF Shaped, PlanOps

LEMMA TwoShaped ==
  ASSUME NEW entry, NEW o, NEW p, entry.plan = <<o, p>>, o.op = "add_module", p.op \in Taking,
         entry.ask.tool # "build_recipe"
  PROVE  Shaped(entry)
<1>1. Len(entry.plan) = 2 /\ entry.plan[1].op = "add_module" /\ entry.plan[2].op = p.op
  OBVIOUS
<1>2. \A i \in 1..2 : i = 1 \/ i = 2
  OBVIOUS
<1> QED
  BY <1>1, <1>2 DEF Shaped, PlanOps, Taking

\* Whatever slot attach_probe takes, its plan has one of the two shapes.
LEMMA AttachShaped ==
  ASSUME NEW c, NEW plan \in AttachPlans(c), NEW entry, entry.plan = plan, entry.ask.tool # "build_recipe"
  PROVE  Shaped(entry)
<1>1. \A m : \A i : Into(m, i).op \in Taking
  BY DEF Into, Taking
<1>2. \/ \E o : plan = <<o>> /\ o.op \in Taking
      \/ \E o : \E p : plan = <<o, p>> /\ o.op = "add_module" /\ p.op \in Taking
  <2>1. CASE calls[c].ask.slot # <<>>
    BY <1>1, <2>1 DEF AttachPlans
  <2>2. CASE calls[c].ask.slot = <<>> /\ Free(patch) # {}
    <3>1. PICK s \in Free(patch) : plan = <<Into(s[1], s[2])>>
      BY <2>2 DEF AttachPlans
    <3> QED
      BY <1>1, <3>1
  <2>3. CASE calls[c].ask.slot = <<>> /\ Free(patch) = {}
    <3> DEFINE o == [op |-> "add_module", model |-> "Probe", alias |-> c]
               p == Into(c, 0)
    <3>1. plan = <<o, p>>
      BY <2>3 DEF AttachPlans
    <3>2. o.op = "add_module" /\ p.op \in Taking
      BY <1>1
    <3> HIDE DEF o, p
    <3> QED
      BY <3>1, <3>2
  <2> QED
    BY <2>1, <2>2, <2>3
<1> QED
  BY <1>2, OneShaped, TwoShaped

LEMMA ChooseSlotKeeps ==
  ASSUME EachFine, NEW c \in DOMAIN calls, ChooseSlot(c)
  PROVE  EachFine'
<1> DEFINE entry == calls[c]
<1>1. Fine(entry) /\ entry.ask.tool = "attach_probe"
  BY DEF EachFine, ChooseSlot
<1>2. PICK plan \in AttachPlans(c) : Becomes(c,
        IF Len(plan) = 2 /\ Cardinality(Probes(patch)) >= MaxProbes
        THEN [entry EXCEPT !.at = "refused"]
        ELSE [entry EXCEPT !.at = "preview", !.plan = plan])
  BY DEF ChooseSlot, Becomes
<1>3. PICK r : /\ Becomes(c, r)
               /\ r = [entry EXCEPT !.at = "refused"] \/ r = [entry EXCEPT !.at = "preview", !.plan = plan]
  BY <1>2
<1>4. Becomes(c, r)
  BY <1>3
<1>5. DOMAIN entry = CallFields /\ entry.ask.tool # "build_recipe"
  BY <1>1 DEF Fine
<1>6. Fine(r)
  <2>1. CASE r = [entry EXCEPT !.at = "refused"]
    <3>1. DOMAIN r = CallFields /\ r.ask = entry.ask /\ r.at = "refused"
      BY <1>5, <2>1 DEF CallFields
    <3> QED
      BY <1>5, <3>1 DEF Fine
  <2>2. CASE r = [entry EXCEPT !.at = "preview", !.plan = plan]
    <3>1. DOMAIN r = CallFields /\ r.ask = entry.ask /\ r.at = "preview" /\ r.plan = plan
      BY <1>5, <2>2 DEF CallFields
    <3>2. Shaped(r)
      BY <1>5, <3>1, AttachShaped
    <3> QED
      BY <1>5, <3>1, <3>2 DEF Fine
  <2> QED
    BY <1>3, <2>1, <2>2
<1> QED
  BY <1>4, <1>6, OneFine

LEMMA DetachKeeps ==
  ASSUME EachFine, NEW c \in DOMAIN calls, Detach(c)
  PROVE  EachFine'
<1> DEFINE entry == calls[c]
           o == [op |-> "disconnect_port", to |-> entry.ask.slot[1], in |-> entry.ask.slot[2]]
           r == [entry EXCEPT !.at = "preview", !.plan = <<o>>]
<1>1. Fine(entry) /\ entry.ask.tool = "detach_probe" /\ DOMAIN entry = CallFields
  BY DEF EachFine, Detach, Fine
<1>2. calls = [d \in DOMAIN calls |-> calls[d]]
  BY DEF EachFine
<1>3. o.op \in Taking
  BY DEF Taking
<1>4. calls' = [calls EXCEPT ![c].at = "preview", ![c].plan = <<o>>]
  BY DEF Detach
<1> HIDE DEF o
<1>5. calls' = [calls EXCEPT ![c] = r]
  BY <1>1, <1>2, <1>4 DEF CallFields
<1>6. DOMAIN r = CallFields /\ r.ask = entry.ask /\ r.at = "preview" /\ r.plan = <<o>>
  BY <1>1 DEF CallFields
<1> HIDE DEF r
<1>7. Shaped(r)
  BY <1>1, <1>3, <1>6, OneShaped
<1>8. Fine(r)
  BY <1>1, <1>6, <1>7 DEF Fine
<1> QED
  BY <1>5, <1>8, OneFine DEF Becomes

LEMMA PreviewKeeps ==
  ASSUME EachFine, Sound(patch), NEW c \in DOMAIN calls, Preview(c)
  PROVE  EachFine'
<1> DEFINE entry == calls[c]
           s == Outcome(patch, entry.plan)
<1>1. Fine(entry) /\ entry.at = "preview" /\ DOMAIN entry = CallFields /\ Shaped(entry)
  BY DEF EachFine, Preview, Fine
<1>2. Becomes(c, IF s.ok THEN [entry EXCEPT !.at = "planned", !.base = patch, !.result = s.patch]
                 ELSE [entry EXCEPT !.at = "failed"])
  BY DEF Preview, Becomes
<1>3. /\ Staged(s)
      /\ \A cable \in patch.cables :
           \/ cable \in s.patch.cables
           \/ \E i \in 1..Len(entry.plan) :
                entry.plan[i].op \in Taking /\ cable.to = entry.plan[i].to /\ cable.in = entry.plan[i].in
  BY <1>1, OutcomeKeeps DEF Shaped
<1> HIDE DEF s
<1>4. PICK r : /\ Becomes(c, r)
               /\ \/ r = [entry EXCEPT !.at = "planned", !.base = patch, !.result = s.patch]
                  \/ r = [entry EXCEPT !.at = "failed"]
  BY <1>2
<1>5. Becomes(c, r)
  BY <1>4
<1>6. Fine(r)
  <2>1. CASE r = [entry EXCEPT !.at = "failed"]
    <3>1. DOMAIN r = CallFields /\ r.ask = entry.ask /\ r.at = "failed"
      BY <1>1, <2>1 DEF CallFields
    <3> QED
      BY <1>1, <3>1 DEF Fine
  <2>2. CASE r = [entry EXCEPT !.at = "planned", !.base = patch, !.result = s.patch]
    <3>1. /\ DOMAIN r = CallFields /\ r.ask = entry.ask /\ r.at = "planned" /\ r.plan = entry.plan
          /\ r.base = patch /\ r.result = s.patch
      BY <1>1, <2>2 DEF CallFields
    <3>2. Shaped(r)
      BY <1>1, <3>1 DEF Shaped
    <3>3. Foreseen(r)
      BY <1>3, <3>1 DEF Foreseen, Staged
    <3> QED
      BY <1>1, <3>1, <3>2, <3>3 DEF Fine
  <2> QED
    BY <1>4, <2>1, <2>2
<1> QED
  BY <1>5, <1>6, OneFine

LEMMA CommitKeeps ==
  ASSUME EachFine, Sound(patch), NEW c \in DOMAIN calls, Commit(c)
  PROVE  EachFine' /\ Sound(patch')
<1> DEFINE entry == calls[c]
<1>1. Fine(entry) /\ entry.at = "planned" /\ DOMAIN entry = CallFields /\ Sound(entry.result)
  BY DEF EachFine, Commit, Fine, Foreseen
<1>2. calls = [d \in DOMAIN calls |-> calls[d]]
  BY DEF EachFine
<1>3. CASE Fresh(c)
  <2> DEFINE r == [entry EXCEPT !.at = "done", !.base = <<>>, !.result = <<>>]
  <2>1. patch' = entry.result /\ calls' = [calls EXCEPT ![c].at = "done", ![c].base = <<>>, ![c].result = <<>>]
    BY <1>3 DEF Commit
  <2>2. calls' = [calls EXCEPT ![c] = r]
    BY <1>1, <1>2, <2>1 DEF CallFields
  <2>3. DOMAIN r = CallFields /\ r.ask = entry.ask /\ r.at = "done"
    BY <1>1 DEF CallFields
  <2> HIDE DEF r
  <2>4. Fine(r)
    BY <1>1, <2>3 DEF Fine
  <2>5. Becomes(c, r)
    BY <2>2 DEF Becomes
  <2>6. EachFine'
    BY <2>4, <2>5, OneFine
  <2> QED
    BY <1>1, <2>1, <2>6
<1>4. CASE ~Fresh(c)
  <2> DEFINE r == [entry EXCEPT !.at = "stale"]
  <2>1. patch' = patch /\ calls' = [calls EXCEPT ![c].at = "stale"]
    BY <1>4 DEF Commit
  <2>2. calls' = [calls EXCEPT ![c] = r]
    BY <1>1, <1>2, <2>1 DEF CallFields
  <2>3. DOMAIN r = CallFields /\ r.ask = entry.ask /\ r.at = "stale"
    BY <1>1 DEF CallFields
  <2> HIDE DEF r
  <2>4. Fine(r)
    BY <1>1, <2>3 DEF Fine
  <2>5. Becomes(c, r)
    BY <2>2 DEF Becomes
  <2>6. EachFine'
    BY <2>4, <2>5, OneFine
  <2> QED
    BY <2>1, <2>6
<1> QED
  BY <1>3, <1>4

LEMMA EditKeeps ==
  ASSUME Sound(patch), Edit
  PROVE  Sound(patch') /\ UNCHANGED <<calls, graphVars>>
<1>1. UNCHANGED <<calls, graphVars>>
  BY DEF Edit
<1>2. CASE \E s \in Free(patch) :
             /\ "other" \in Modules(patch)
             /\ patch' = [patch EXCEPT !.cables = @ \cup {[from |-> "other", out |-> 0, to |-> s[1], in |-> s[2]]}]
  <2>1. PICK s \in Free(patch) :
             /\ "other" \in Modules(patch)
             /\ patch' = [patch EXCEPT !.cables = @ \cup {[from |-> "other", out |-> 0, to |-> s[1], in |-> s[2]]}]
    BY <1>2
  <2> DEFINE cable == [from |-> "other", out |-> 0, to |-> s[1], in |-> s[2]]
             cs == patch.cables \cup {cable}
  <2>2. s[1] \in Modules(patch)
    BY DEF Free, Probes
  <2>3. \A d \in cs : d \in patch.cables \/ (d.from \in Modules(patch) /\ d.to \in Modules(patch))
    BY <2>1, <2>2
  <2>4. patch' = [patch EXCEPT !.cables = cs]
    BY <2>1
  <2> HIDE DEF cs
  <2>5. Sound([patch EXCEPT !.cables = cs])
    BY <2>3, SoundCables
  <2> QED
    BY <1>1, <2>4, <2>5
<1>3. CASE \E c \in patch.cables : patch' = [patch EXCEPT !.cables = @ \ {c}]
  <2>1. PICK c \in patch.cables : patch' = [patch EXCEPT !.cables = @ \ {c}]
    BY <1>3
  <2> DEFINE cs == patch.cables \ {c}
  <2>2. \A d \in cs : d \in patch.cables
    OBVIOUS
  <2>3. patch' = [patch EXCEPT !.cables = cs]
    BY <2>1
  <2> HIDE DEF cs
  <2>4. Sound([patch EXCEPT !.cables = cs])
    BY <2>2, SoundCables
  <2> QED
    BY <1>1, <2>3, <2>4
<1>4. CASE \E m \in Modules(patch) : patch' = [patch EXCEPT !.bypassed = @ \cup {m}]
  <2>1. DOMAIN patch = {"model", "cables", "value", "bypassed", "channels"}
    BY DEF Sound
  <2>2. DOMAIN patch' = DOMAIN patch /\ patch'.model = patch.model /\ patch'.cables = patch.cables
    BY <1>4, <2>1
  <2> QED
    BY <1>1, <2>1, <2>2, SoundIs
<1> QED
  BY <1>2, <1>3, <1>4 DEF Edit

\* An analysis starts from finitely many modules, joined by the cables.
LEMMA AnalyseStarts ==
  ASSUME Sound(patch), Analyse
  PROVE  Ready'
<1>1. DOMAIN patch = {"model", "cables", "value", "bypassed", "channels"}
  BY DEF Sound
<1>2. IsFiniteSet(Modules(patch)) /\ \A c \in patch.cables : c.from \in Modules(patch) /\ c.to \in Modules(patch)
  BY <1>1, SoundIs DEF Modules
<1>3. nodes' = Modules(patch) /\ edges' = Edges(patch) /\ dests' = AudioDests(patch) /\ phase' = "feeds"
  BY DEF Analyse
<1>4. edges' \subseteq nodes' \X nodes' /\ dests' \subseteq nodes'
  BY <1>2, <1>3 DEF Edges, AudioDests
<1>5. LoopsStart'
  BY DEF Analyse, LoopsStart
<1> QED
  BY <1>2, <1>3, <1>4, <1>5 DEF Ready, Snapshot

\* An analysis that is begun on a patch starts like one of a snapshot.
LEMMA AnalysisStartsLater == Ready' => Analysed'
<1>1. Ready => Analysed
  BY AnalysisStarts
<1> QED
  BY <1>1, PTL

\* What leaves calls and analysis alone keeps their invariants.
LEMMA SameCalls ==
  ASSUME EachFine, UNCHANGED calls
  PROVE  EachFine'
BY DEF EachFine

LEMMA SameGraph ==
  ASSUME Analysed, UNCHANGED graphVars
  PROVE  Analysed'
BY StepAnalysed

\* No step of the tools breaks the invariant.
LEMMA StepWorking == Working /\ [WorkbenchNext]_workbenchVars => Working'
<1> SUFFICES ASSUME Working, [WorkbenchNext]_workbenchVars PROVE Working'
  OBVIOUS
<1>1. Analysed /\ Sound(patch) /\ EachFine
  BY DEF Working
<1>2. ASSUME NEW c \in DOMAIN calls, Scan(c) \/ ChooseSlot(c) \/ Detach(c) \/ Preview(c) PROVE Working'
  <2>1. UNCHANGED <<patch, graphVars>>
    BY <1>2 DEF Scan, ChooseSlot, Detach, Preview
  <2>2. EachFine'
    BY <1>1, <1>2, ScanKeeps, ChooseSlotKeeps, DetachKeeps, PreviewKeeps
  <2>3. Analysed'
    BY <1>1, <2>1, SameGraph
  <2> QED
    BY <1>1, <2>1, <2>2, <2>3 DEF Working
<1>3. ASSUME NEW c \in DOMAIN calls, Commit(c) PROVE Working'
  <2>1. UNCHANGED graphVars
    BY <1>3 DEF Commit
  <2>2. EachFine' /\ Sound(patch')
    BY <1>1, <1>3, CommitKeeps
  <2>3. Analysed'
    BY <1>1, <2>1, SameGraph
  <2> QED
    BY <2>2, <2>3 DEF Working
<1>4. CASE Edit
  <2>1. Sound(patch') /\ UNCHANGED <<calls, graphVars>>
    BY <1>1, <1>4, EditKeeps
  <2> QED
    BY <1>1, <2>1, SameCalls, SameGraph DEF Working
<1>5. CASE Analyse
  <2>1. UNCHANGED <<patch, calls>>
    BY <1>5 DEF Analyse
  <2>2. Analysed'
    BY <1>1, <1>5, AnalyseStarts, AnalysisStartsLater
  <2> QED
    BY <1>1, <2>1, <2>2, SameCalls DEF Working
<1>6. CASE Loop
  <2>1. GraphNext /\ UNCHANGED <<patch, calls>>
    BY <1>6 DEF Loop
  <2>2. Analysed'
    BY <1>1, <2>1, StepAnalysed
  <2> QED
    BY <1>1, <2>1, <2>2, SameCalls DEF Working
<1>7. CASE Plan \/ UNCHANGED workbenchVars
  <2>1. UNCHANGED <<patch, calls, graphVars>>
    BY <1>7 DEF Plan, workbenchVars
  <2> QED
    BY <1>1, <2>1, SameCalls, SameGraph DEF Working
<1> QED
  BY <1>2, <1>3, <1>4, <1>5, <1>6, <1>7 DEF WorkbenchNext

\* A call that begins has no plan.
LEMMA StartedFine ==
  ASSUME NEW ask, ask.tool = "build_recipe" => ask.recipe \in DOMAIN Recipe
  PROVE  Fine(Started(ask))
<1> DEFINE entry == Started(ask)
<1>1. /\ DOMAIN entry = CallFields /\ entry.ask = ask
      /\ entry.at = IF ask.tool = "build_recipe" THEN "scan" ELSE "snapshot"
  BY DEF Started, CallFields
<1> HIDE DEF entry
<1>2. Fine(entry)
  BY <1>1 DEF Fine
<1> QED
  BY <1>2 DEF entry

\* It holds of the calls on a base, of an analysis and of a preview at the start.
LEMMA InitWorking == WorkbenchInit => Working
<1> SUFFICES ASSUME WorkbenchInit PROVE Working
  OBVIOUS
<1>1. NoCalls => Sound(patch) /\ EachFine
  <2> SUFFICES ASSUME NoCalls PROVE Sound(patch) /\ EachFine
    OBVIOUS
  <2>1. DOMAIN patch = {"model", "cables", "value", "bypassed", "channels"} /\ patch.model = <<>> /\ patch.cables = {}
    BY DEF NoCalls
  <2>2. IsFiniteSet(DOMAIN patch.model)
    BY <2>1, FS_EmptySet
  <2>3. Sound(patch)
    BY <2>1, <2>2, SoundIs
  <2>4. EachFine
    BY DEF NoCalls, EachFine
  <2> QED
    BY <2>3, <2>4
<1>2. NoGraph => Ready
  BY FS_EmptySet DEF NoGraph, Ready, Snapshot, WorkbenchInit
<1>3. CASE /\ catalog \in Catalogs /\ patch \in Bases
           /\ \E asks \in Asks : calls = [c \in Callers |-> Started(asks[c])]
           /\ NoGraph /\ NoPlan
  <2>1. PICK asks \in Asks : calls = [c \in Callers |-> Started(asks[c])]
    BY <1>3
  <2>2. \A c \in Callers : Fine(Started(asks[c]))
    BY AsksAssumption, StartedFine
  <2>3. EachFine
    BY <2>1, <2>2 DEF EachFine
  <2>4. Sound(patch)
    BY <1>3, BasesAssumption
  <2> QED
    BY <1>2, <1>3, <2>3, <2>4, AnalysisStarts DEF Working
<1>4. CASE /\ NoCalls /\ NoPlan
           /\ \E s \in Sketches : nodes = s.nodes /\ edges = s.edges /\ dests = s.dests
           /\ phase = "feeds"
  <2>1. IsFiniteSet(nodes) /\ edges \subseteq nodes \X nodes /\ dests \subseteq nodes
    BY <1>4, SketchesAssumption
  <2>2. Ready
    BY <1>4, <2>1 DEF Ready, Snapshot, WorkbenchInit
  <2> QED
    BY <1>1, <1>4, <2>2, AnalysisStarts DEF Working
<1>5. CASE /\ NoCalls /\ NoGraph
           /\ \E s \in Snapshots : PlanStart(s)
  BY <1>1, <1>2, <1>5, AnalysisStarts DEF Working
<1> QED
  BY <1>3, <1>4, <1>5 DEF WorkbenchInit

\* Patches stay sound, plans keep their shape and the loops their invariants.
LEMMA WorkbenchInvariance == WorkbenchSpec => []Working
  BY InitWorking, StepWorking, PTL DEF WorkbenchSpec

\* Whatever patch validate_patch and describe_patch are asked about, a snapshot or what
\* overlapping calls and the user have made of a base, what the three loops find is exact.
THEOREM AnalysisExactCorrect == WorkbenchSpec => []AnalysisExact
<1>1. Working => AnalysisExact
  BY AnalysedExact DEF Working, AnalysisExact
<1> QED
  BY <1>1, WorkbenchInvariance, PTL

\* What a commit may take away.
Spared ==
  \A c \in DOMAIN calls : calls[c].at = "planned" /\ calls'[c].at = "done" =>
    \A cable \in patch.cables \ patch'.cables :
      /\ cable \in calls[c].base.cables
      /\ calls[c].ask.tool # "build_recipe"
      /\ cable.to = calls[c].plan[Len(calls[c].plan)].to
      /\ cable.in = calls[c].plan[Len(calls[c].plan)].in

\* A commit takes away what the plan it previewed says.
LEMMA CommitSpares ==
  ASSUME EachFine, NEW c \in DOMAIN calls, Commit(c)
  PROVE  Spared
<1> SUFFICES ASSUME NEW d \in DOMAIN calls, calls[d].at = "planned", calls'[d].at = "done",
                    NEW cable \in patch.cables, cable \notin patch'.cables
             PROVE  /\ cable \in calls[d].base.cables
                    /\ calls[d].ask.tool # "build_recipe"
                    /\ cable.to = calls[d].plan[Len(calls[d].plan)].to
                    /\ cable.in = calls[d].plan[Len(calls[d].plan)].in
  BY DEF Spared
<1>1. calls = [e \in DOMAIN calls |-> calls[e]] /\ Fine(calls[c]) /\ calls[c].at = "planned"
  BY DEF EachFine, Commit
<1>2. DOMAIN calls[c] = CallFields /\ Shaped(calls[c]) /\ Foreseen(calls[c])
  BY <1>1 DEF Fine
<1>3. Fresh(c)
  <2> SUFFICES ASSUME ~Fresh(c) PROVE FALSE
    OBVIOUS
  <2> QED
    BY DEF Commit
<1>4. patch = calls[c].base /\ patch' = calls[c].result
  BY <1>3 DEF Commit, Fresh
<1>5. d = c
  <2> SUFFICES ASSUME d # c PROVE FALSE
    OBVIOUS
  <2>1. calls'[d] = calls[d]
    BY <1>1, <1>3 DEF Commit
  <2> QED
    BY <2>1
<1>6. PICK i \in 1..Len(calls[c].plan) :
        /\ calls[c].plan[i].op \in Taking
        /\ cable.to = calls[c].plan[i].to /\ cable.in = calls[c].plan[i].in
  BY <1>2, <1>4 DEF Foreseen
<1>7. i = Len(calls[c].plan) /\ calls[c].ask.tool # "build_recipe"
  BY <1>2, <1>6 DEF Shaped
<1> QED
  BY <1>4, <1>5, <1>6, <1>7

\* So does every step.
LEMMA StepSpares == Working /\ [WorkbenchNext]_workbenchVars => Spared \/ UNCHANGED workbenchVars
<1> SUFFICES ASSUME Working, WorkbenchNext PROVE Spared
  OBVIOUS
<1>1. EachFine /\ calls = [e \in DOMAIN calls |-> calls[e]]
  BY DEF Working, EachFine
<1>2. ASSUME NEW c \in DOMAIN calls, Scan(c) \/ ChooseSlot(c) \/ Detach(c) \/ Preview(c) PROVE Spared
  <2>1. calls[c].at # "planned"
    BY <1>2 DEF Scan, ChooseSlot, Detach, Preview
  <2>2. ASSUME NEW d \in DOMAIN calls, d # c PROVE calls'[d] = calls[d]
    BY <1>1, <1>2, <2>2 DEF Scan, ChooseSlot, Detach, Preview
  <2> QED
    BY <2>1, <2>2 DEF Spared
<1>3. ASSUME NEW c \in DOMAIN calls, Commit(c) PROVE Spared
  BY <1>1, <1>3, CommitSpares
<1>4. CASE Edit \/ Analyse \/ Loop \/ Plan
  <2>1. UNCHANGED calls
    BY <1>4 DEF Edit, Analyse, Loop, Plan
  <2> QED
    BY <2>1 DEF Spared
<1> QED
  BY <1>2, <1>3, <1>4 DEF WorkbenchNext

\* However calls and edits overlap, a commit takes away no cable that its preview did not
\* show; a recipe takes none, and a probe only what was in its slot.
THEOREM ProbesKeepCablesCorrect == WorkbenchSpec => ProbesKeepCables
<1>1. Working /\ [WorkbenchNext]_workbenchVars => [Spared]_workbenchVars
  BY StepSpares
<1>2. WorkbenchSpec => [][Spared]_workbenchVars
  BY <1>1, WorkbenchInvariance, PTL DEF WorkbenchSpec
<1> QED
  BY <1>2 DEF ProbesKeepCables, Spared

-----------------------------------------------------------------------------
(***************************************************************************)
(* Previews and commits of any plan. While the preview accepts and the     *)
(* commit goes on, the modules and cables that the accumulators of the     *)
(* preview stand for are those of the patch, or fewer where the plan has   *)
(* added modules and cables that the preview has no ids for.               *)
(***************************************************************************)

ToldFields ==
  {"refusal", "aliases", "removed", "cables", "claimed", "replaced", "boxes", "uncertain", "randomizes", "letGo"}
LiveFields == {"ok", "kind", "column", "cables", "next"}

OpNames ==
  {"add_module", "remove_module", "set_parameter", "randomize_module", "move_module", "connect",
   "disconnect", "disconnect_port"}

Bridges(S) == {m \in S : before.kind[m] = "Bridge"}

\* The cables of a patch are the snapshot's, or have later numbers.
LateOnes(l) ==
  /\ before.next \in Nat /\ l.next \in Nat /\ l.next >= before.next
  /\ \A c \in l.cables : c \in before.cables \/ c.id >= before.next

\* As long as the preview accepts and the commit goes on, what is noted of the modules is
\* what the patch has become, and of the cables no less.
Noticed ==
  /\ LostModules = told.removed
  /\ told.aliases \subseteq Aliases /\ Here \subseteq Given \cup told.aliases
  /\ \A m \in Given \cap Here : live.kind[m] = before.kind[m]
  /\ Ordered(live) /\ Kept \subseteq live.cables
  /\ told.claimed = {} => live.cables = Kept
  /\ LateOnes(live)
  /\ told.letGo \/ Bridges(Given) = {} \/ BridgesLeft # {}

Typed ==
  /\ DOMAIN told = ToldFields /\ DOMAIN live = LiveFields
  /\ IsFiniteSet(Given) /\ Given \cap Aliases = {}

Tracks == Typed /\ (Accepted /\ live.ok => Noticed)

\* The ids of the cables among cs that an operation takes away.
Pulls(cs, o) ==
  CASE o.op = "remove_module"   -> CableIds(OnModule(cs, o.module))
    [] o.op = "connect"         -> CableIds(OnPort(cs, o.in, "in"))
    [] o.op = "disconnect"      -> {o.cable}
    [] o.op = "disconnect_port" -> CableIds(Picked(OnPort(cs, o.module, o.port), o.policy))
    [] OTHER                    -> {}

\* The operations by their names.
LEMMA OperationIs ==
  ASSUME NEW o \in Operations
  PROVE  o.op \in OpNames /\ (o.op = "add_module" => o.alias \in Aliases)
BY DEF Operations, OpNames

\* An operation that takes a cable away takes it from any set that holds it; the top
\* cable of a port is the top one of fewer.
LEMMA PullsMore ==
  ASSUME Ordered(live), NEW cs, cs \subseteq live.cables, NEW o, o.op \in OpNames, NEW c \in cs, c.id \in Pulls(live.cables, o)
  PROVE  c.id \in Pulls(cs, o)
<1>1. \A d \in live.cables : c.id = d.id => c = d
  BY DEF Ordered
<1>2. CASE o.op = "remove_module"
  BY <1>1, <1>2 DEF Pulls, CableIds, OnModule
<1>3. CASE o.op = "connect"
  BY <1>1, <1>3 DEF Pulls, CableIds, OnPort
<1>4. CASE o.op = "disconnect"
  BY <1>4 DEF Pulls
<1>5. CASE o.op = "disconnect_port"
  BY <1>1, <1>5 DEF Pulls, CableIds, OnPort, Picked
<1>6. CASE o.op \in {"add_module", "set_parameter", "randomize_module", "move_module"}
  BY <1>6 DEF Pulls
<1> QED
  BY <1>2, <1>3, <1>4, <1>5, <1>6 DEF OpNames

\* The accumulators after an operation.
LEMMA NotedIs ==
  ASSUME Typed, NEW o, o.op \in OpNames
  PROVE  /\ DOMAIN Noted(o) = ToldFields /\ Noted(o).refusal = told.refusal
         /\ Noted(o).cables = told.cables \cup Pulls(Kept, o)
         /\ Noted(o).aliases = told.aliases \cup (IF o.op = "add_module" THEN {o.alias} ELSE {})
         /\ Noted(o).removed = told.removed \cup (IF o.op = "remove_module" THEN {o.module} \cap Given ELSE {})
         /\ Noted(o).claimed = told.claimed \cup (IF o.op = "connect" THEN {o.in} ELSE {})
         /\ Noted(o).letGo = IF o.op = "remove_module" THEN told.letGo \/ LastBridge(o.module) ELSE told.letGo
<1> DEFINE swept == [told EXCEPT !.cables = @ \cup Swept(o)]
<1>1. Swept(o) = Pulls(Kept, o)
  BY DEF Swept, Pulls
<1>2. /\ DOMAIN swept = ToldFields /\ swept.cables = told.cables \cup Pulls(Kept, o)
      /\ swept.refusal = told.refusal /\ swept.aliases = told.aliases /\ swept.removed = told.removed
      /\ swept.claimed = told.claimed /\ swept.letGo = told.letGo
  BY <1>1 DEF Typed, ToldFields
<1>3. Noted(o) =
        CASE o.op = "add_module" -> [swept EXCEPT !.aliases = @ \cup {o.alias}, !.uncertain = TRUE]
          [] o.op = "remove_module" ->
               [swept EXCEPT !.removed = @ \cup ({o.module} \cap Given),
                             !.letGo = @ \/ LastBridge(o.module)]
          [] o.op = "randomize_module" -> [swept EXCEPT !.randomizes = TRUE]
          [] o.op = "move_module" /\ o.module \in Given ->
               IF o.collision = "nearest" THEN [swept EXCEPT !.uncertain = TRUE]
               ELSE [swept EXCEPT !.boxes = [m \in {o.module} \cup DOMAIN @ |-> IF m = o.module THEN o.position ELSE @[m]]]
          [] o.op = "connect" ->
               [swept EXCEPT !.claimed = @ \cup {o.in},
                             !.replaced = @ \cup {m \in {o.in} : OnPort(Kept, m, "in") # {}}]
          [] OTHER -> swept
  BY DEF Noted
<1> HIDE DEF swept
<1>4. CASE o.op = "add_module"
  <2>1. Noted(o) = [swept EXCEPT !.aliases = @ \cup {o.alias}, !.uncertain = TRUE]
    BY <1>3, <1>4
  <2> QED
    BY <1>2, <1>4, <2>1 DEF ToldFields
<1>5. CASE o.op = "remove_module"
  <2>1. Noted(o) = [swept EXCEPT !.removed = @ \cup ({o.module} \cap Given), !.letGo = @ \/ LastBridge(o.module)]
    BY <1>3, <1>5
  <2> QED
    BY <1>2, <1>5, <2>1 DEF ToldFields
<1>6. CASE o.op = "randomize_module"
  <2>1. Noted(o) = [swept EXCEPT !.randomizes = TRUE]
    BY <1>3, <1>6
  <2> QED
    BY <1>2, <1>6, <2>1 DEF ToldFields
<1>7. CASE o.op = "connect"
  <2>1. Noted(o) = [swept EXCEPT !.claimed = @ \cup {o.in},
                                 !.replaced = @ \cup {m \in {o.in} : OnPort(Kept, m, "in") # {}}]
    BY <1>3, <1>7
  <2> QED
    BY <1>2, <1>7, <2>1 DEF ToldFields
<1>8. CASE o.op \in {"move_module", "set_parameter", "disconnect", "disconnect_port"}
  <2>1. \/ Noted(o) = swept
        \/ \E b : Noted(o) = [swept EXCEPT !.uncertain = b]
        \/ \E b : Noted(o) = [swept EXCEPT !.boxes = b]
    BY <1>3, <1>8
  <2> QED
    BY <1>2, <1>8, <2>1 DEF ToldFields
<1> QED
  BY <1>4, <1>5, <1>6, <1>7, <1>8 DEF OpNames

\* The patch after an operation that did not throw.
Becoming(o, l) ==
  /\ DOMAIN l = LiveFields /\ l.ok = live.ok
  /\ DOMAIN l.kind = IF o.op = "add_module" THEN {o.alias} \cup Here
                     ELSE IF o.op = "remove_module" THEN Here \ {o.module} ELSE Here
  /\ \A m \in Here \cap DOMAIN l.kind : (o.op = "add_module" => m # o.alias) => l.kind[m] = live.kind[m]
  /\ IF o.op = "connect"
     THEN /\ l.next = live.next + 1
          /\ l.cables = Without(live.cables, Pulls(live.cables, o)) \cup {[id |-> live.next, out |-> o.out, in |-> o.in]}
     ELSE l.next = live.next /\ l.cables = Without(live.cables, Pulls(live.cables, o))

\* What an operation that does not throw leaves of the patch.
LEMMA PerformedIs ==
  ASSUME Typed, NEW o, o.op \in OpNames, NEW l \in Performed(o)
  PROVE  Becoming(o, l)
<1>1. DOMAIN live = LiveFields
  BY DEF Typed
<1>2. Without(live.cables, {}) = live.cables
  BY DEF Without
<1>3. CASE o.op = "add_module"
  <2>1. PICK c : l = [live EXCEPT !.kind = [m \in {o.alias} \cup Here |-> IF m = o.alias THEN o.model ELSE @[m]],
                                  !.column = c]
    BY <1>3 DEF Performed
  <2>2. Pulls(live.cables, o) = {}
    BY <1>3 DEF Pulls
  <2> QED
    BY <1>1, <1>2, <1>3, <2>1, <2>2 DEF Becoming, LiveFields
<1>4. CASE o.op = "remove_module"
  <2> DEFINE u == Unplugged(CableIds(OnModule(live.cables, o.module)))
             rest == Here \ {o.module}
  <2>1. l = [u EXCEPT !.kind = [i \in rest |-> @[i]], !.column = [i \in rest |-> @[i]]]
    BY <1>4 DEF Performed
  <2>2. /\ DOMAIN u = LiveFields /\ u.ok = live.ok /\ u.kind = live.kind /\ u.next = live.next
        /\ u.cables = Without(live.cables, Pulls(live.cables, o))
    BY <1>1, <1>4 DEF Unplugged, LiveFields, Pulls
  <2> HIDE DEF u
  <2>3. /\ DOMAIN l = LiveFields /\ l.ok = u.ok /\ l.kind = [i \in rest |-> live.kind[i]] /\ l.next = u.next
        /\ l.cables = u.cables
    BY <2>1, <2>2 DEF LiveFields
  <2> QED
    BY <1>4, <2>2, <2>3 DEF Becoming
<1>5. CASE o.op = "move_module"
  <2>1. PICK c : l = [live EXCEPT !.column = c]
    BY <1>5 DEF Performed
  <2>2. Pulls(live.cables, o) = {}
    BY <1>5 DEF Pulls
  <2> QED
    BY <1>1, <1>2, <1>5, <2>1, <2>2 DEF Becoming, LiveFields, Here
<1>6. CASE o.op = "connect"
  <2> DEFINE u == Unplugged(CableIds(OnPort(live.cables, o.in, "in")))
  <2>1. l = [u EXCEPT !.cables = @ \cup {[id |-> live.next, out |-> o.out, in |-> o.in]}, !.next = @ + 1]
    BY <1>6 DEF Performed
  <2>2. /\ DOMAIN u = LiveFields /\ u.ok = live.ok /\ u.kind = live.kind /\ u.next = live.next
        /\ u.cables = Without(live.cables, Pulls(live.cables, o))
    BY <1>1, <1>6 DEF Unplugged, LiveFields, Pulls
  <2> HIDE DEF u
  <2>3. /\ DOMAIN l = LiveFields /\ l.ok = u.ok /\ l.kind = u.kind /\ l.next = u.next + 1
        /\ l.cables = u.cables \cup {[id |-> live.next, out |-> o.out, in |-> o.in]}
    BY <2>1, <2>2 DEF LiveFields
  <2> QED
    BY <1>6, <2>2, <2>3 DEF Becoming, Here
<1>7. CASE o.op \in {"disconnect", "disconnect_port"}
  <2>1. l = Unplugged(Pulls(live.cables, o))
    BY <1>7 DEF Performed, Pulls
  <2> QED
    BY <1>1, <1>7, <2>1 DEF Becoming, LiveFields, Unplugged, Here
<1>8. CASE o.op \in {"set_parameter", "randomize_module"}
  <2>1. l = live
    BY <1>8 DEF Performed
  <2>2. Pulls(live.cables, o) = {}
    BY <1>8 DEF Pulls
  <2> QED
    BY <1>1, <1>2, <1>8, <2>1, <2>2 DEF Becoming, Here
<1> QED
  BY <1>3, <1>4, <1>5, <1>6, <1>7, <1>8 DEF OpNames

\* What the preview still counts on among the cables is there.
LEMMA CablesTracked ==
  ASSUME Noticed, NEW o, o.op \in OpNames, NEW l, Becoming(o, l), NEW t, t.cables = told.cables \cup Pulls(Kept, o),
         t.claimed = told.claimed \cup (IF o.op = "connect" THEN {o.in} ELSE {})
  PROVE  /\ Ordered(l) /\ Without(before.cables, t.cables) \subseteq l.cables
         /\ t.claimed = {} => l.cables = Without(before.cables, t.cables)
<1>1. /\ live.next \in Nat /\ \A c \in live.cables : c.id \in Nat /\ c.id < live.next
      /\ \A c \in live.cables : \A d \in live.cables : c.id = d.id => c = d
      /\ Kept \subseteq live.cables
  BY DEF Noticed, Ordered
<1>2. Without(live.cables, Pulls(live.cables, o)) \subseteq l.cables
  BY DEF Becoming
<1>3. \A c \in Without(live.cables, Pulls(live.cables, o)) : c \in live.cables
  BY DEF Without
<1>4. Ordered(l)
  <2>1. CASE o.op = "connect"
    <3> DEFINE n == [id |-> live.next, out |-> o.out, in |-> o.in]
    <3>1. l.next = live.next + 1 /\ \A c \in l.cables : c \in live.cables \/ c = n
      BY <1>3, <2>1 DEF Becoming
    <3>2. n.id = live.next
      OBVIOUS
    <3> HIDE DEF n
    <3>3. \A c \in l.cables : c.id \in Nat /\ c.id < l.next /\ (c = n \/ (c \in live.cables /\ c.id # live.next))
      BY <1>1, <3>1, <3>2
    <3>4. \A c \in l.cables : \A d \in l.cables : c.id = d.id => c = d
      BY <1>1, <3>2, <3>3
    <3>5. l.next \in Nat
      BY <1>1, <3>1
    <3> QED
      BY <3>3, <3>4, <3>5 DEF Ordered
  <2>2. CASE o.op # "connect"
    <3>1. l.next = live.next /\ \A c \in l.cables : c \in live.cables
      BY <1>3, <2>2 DEF Becoming
    <3> QED
      BY <1>1, <3>1 DEF Ordered
  <2> QED
    BY <2>1, <2>2
<1>5. \A c \in Without(before.cables, t.cables) : c \in Kept /\ c.id \notin Pulls(Kept, o)
  BY DEF Kept, Without
<1>6. \A c \in Kept : c.id \notin Pulls(Kept, o) => c.id \notin Pulls(live.cables, o)
  BY <1>1, PullsMore DEF Noticed
<1>7. Without(before.cables, t.cables) \subseteq l.cables
  BY <1>1, <1>2, <1>5, <1>6 DEF Without
<1>8. ASSUME t.claimed = {} PROVE l.cables = Without(before.cables, t.cables)
  <2>1. o.op # "connect" /\ told.claimed = {}
    BY <1>8
  <2>2. live.cables = Kept /\ l.cables = Without(live.cables, Pulls(live.cables, o))
    BY <2>1 DEF Noticed, Becoming
  <2>3. \A c : c \in l.cables <=> c \in before.cables /\ c.id \notin t.cables
    BY <2>2 DEF Kept, Without
  <2> QED
    BY <2>3 DEF Without
<1> QED
  BY <1>4, <1>7, <1>8

\* A cable that a plan puts in has a later number than the snapshot's.
LEMMA StayLate ==
  ASSUME LateOnes(live), NEW o, NEW l, Becoming(o, l)
  PROVE  LateOnes(l)
<1>1. CASE o.op = "connect"
  <2> DEFINE n == [id |-> live.next, out |-> o.out, in |-> o.in]
  <2>1. l.next = live.next + 1 /\ \A c \in l.cables : c \in live.cables \/ c = n
    BY <1>1 DEF Becoming, Without
  <2>2. n.id = live.next
    OBVIOUS
  <2> HIDE DEF n
  <2> QED
    BY <2>1, <2>2 DEF LateOnes
<1>2. CASE o.op # "connect"
  <2>1. l.next = live.next /\ \A c \in l.cables : c \in live.cables
    BY <1>2 DEF Becoming, Without
  <2> QED
    BY <2>1 DEF LateOnes
<1> QED
  BY <1>1, <1>2

\* An operation that the preview accepts and the commit performs.
Performs(o) ==
  /\ o \in Operations /\ ~Unfit(o) /\ told' = Noted(o) /\ live' \in Performed(o) /\ before' = before

\* Unless the plan lets the last Bridge go, one is left.
LEMMA BridgeStays ==
  ASSUME Typed, Noticed, NEW o, Performs(o)
  PROVE  (told.letGo \/ Bridges(Given) = {} \/ BridgesLeft # {})'
<1>1. /\ told'.removed = told.removed \cup (IF o.op = "remove_module" THEN {o.module} \cap Given ELSE {})
      /\ told'.letGo = IF o.op = "remove_module" THEN told.letGo \/ LastBridge(o.module) ELSE told.letGo
  BY OperationIs, NotedIs DEF Performs
<1>2. told.letGo \/ Bridges(Given) = {} \/ BridgesLeft # {}
  BY DEF Noticed
<1>3. Bridges(Given)' = Bridges(Given) /\ BridgesLeft' = {m \in Given \ told'.removed : before.kind[m] = "Bridge"}
  BY DEF Performs, Bridges, BridgesLeft, Given
<1>4. CASE o.op # "remove_module"
  BY <1>1, <1>2, <1>3, <1>4 DEF BridgesLeft
<1>5. CASE o.op = "remove_module"
  <2>1. CASE told.letGo \/ LastBridge(o.module) \/ Bridges(Given) = {}
    BY <1>1, <1>3, <1>5, <2>1
  <2>2. CASE BridgesLeft # {} /\ ~LastBridge(o.module)
    <3>1. IsFiniteSet(BridgesLeft)
      <4>1. BridgesLeft \subseteq Given
        BY DEF BridgesLeft
      <4> QED
        BY <4>1, FS_Subset DEF Typed
    <3>2. BridgesLeft \subseteq {o.module} => Cardinality(BridgesLeft) <= 1
      <4>1. IsFiniteSet({o.module}) /\ Cardinality({o.module}) = 1
        BY FS_Singleton
      <4> QED
        BY <4>1, FS_Subset
    <3>3. PICK b \in BridgesLeft : o.module \in BridgesLeft => b # o.module
      <4>1. CASE o.module \in BridgesLeft
        <5>1. Cardinality(BridgesLeft) > 1
          BY <2>2, <3>1, <4>1, FS_CardinalityType DEF LastBridge, BridgesLeft
        <5>2. ~(BridgesLeft \subseteq {o.module})
          BY <3>1, <3>2, <5>1, FS_CardinalityType
        <5> QED
          BY <5>2
      <4> QED
        BY <2>2, <4>1
    <3>4. b \in BridgesLeft'
      BY <1>1, <1>3, <1>5, <3>3 DEF BridgesLeft
    <3> QED
      BY <3>4
  <2> QED
    BY <1>2, <2>1, <2>2
<1> QED
  BY <1>4, <1>5

\* The accumulators follow an operation that is accepted and performed.
LEMMA PerformsTracks ==
  ASSUME Typed, Noticed, NEW o, Performs(o)
  PROVE  Noticed'
<1>1. /\ DOMAIN told' = ToldFields /\ told'.refusal = told.refusal
      /\ told'.cables = told.cables \cup Pulls(Kept, o)
      /\ told'.aliases = told.aliases \cup (IF o.op = "add_module" THEN {o.alias} ELSE {})
      /\ told'.removed = told.removed \cup (IF o.op = "remove_module" THEN {o.module} \cap Given ELSE {})
      /\ told'.claimed = told.claimed \cup (IF o.op = "connect" THEN {o.in} ELSE {})
  BY OperationIs, NotedIs DEF Performs
<1>2. Becoming(o, live') /\ o.op \in OpNames /\ (o.op = "add_module" => o.alias \in Aliases /\ o.alias \notin Given)
  BY OperationIs, PerformedIs DEF Performs, Typed
<1>3. Given' = Given /\ Here' = DOMAIN live'.kind /\ Kept' = Without(before.cables, told'.cables)
  BY DEF Performs, Given, Here, Kept, Without
<1>4. Here' = IF o.op = "add_module" THEN {o.alias} \cup Here
              ELSE IF o.op = "remove_module" THEN Here \ {o.module} ELSE Here
  BY <1>2, <1>3 DEF Becoming
<1>5. LostModules' = told'.removed
  <2>1. LostModules' = Given \ Here'
    BY <1>3 DEF LostModules
  <2>2. Given \ Here = told.removed
    BY DEF Noticed, LostModules
  <2> QED
    BY <1>1, <1>2, <1>4, <2>1, <2>2
<1>6. told'.aliases \subseteq Aliases /\ Here' \subseteq Given \cup told'.aliases
  BY <1>1, <1>2, <1>4 DEF Noticed
<1>7. \A m \in Given \cap Here' : live'.kind[m] = before.kind[m]
  <2> TAKE m \in Given \cap Here'
  <2>1. m \in Here /\ (o.op = "add_module" => m # o.alias)
    BY <1>2, <1>4
  <2>2. live'.kind[m] = live.kind[m]
    BY <1>2, <1>3, <2>1 DEF Becoming
  <2> QED
    BY <2>1, <2>2 DEF Noticed
<1>8. /\ Ordered(live') /\ Kept' \subseteq live'.cables
      /\ told'.claimed = {} => live'.cables = Kept'
  BY <1>1, <1>2, <1>3, CablesTracked
<1>9. Ordered(live)'
  BY <1>8 DEF Ordered
<1>10. before' = before
  BY DEF Performs
<1>11. LateOnes(live)'
  <2>1. LateOnes(live')
    BY <1>2, StayLate DEF Noticed
  <2> QED
    BY <1>10, <2>1 DEF LateOnes
<1> QED
  BY <1>3, <1>5, <1>6, <1>7, <1>8, <1>9, <1>10, <1>11, BridgeStays DEF Noticed

\* What an operation comes to.
LEMMA OperateIs ==
  ASSUME Typed, NEW o \in Operations, told' = Validated(o), before' = before,
         IF Throws(o) THEN live' = [live EXCEPT !.ok = FALSE] ELSE live' \in Performed(o),
         told.refusal = "none", live.ok
  PROVE  /\ Typed'
         /\ told'.refusal = "none" => ~Unfit(o) /\ ~Conflicts(o) /\ told' = Noted(o)
         /\ told'.refusal = "conflict" => ~Unfit(o) /\ Conflicts(o)
         /\ live'.ok <=> ~Throws(o)
         /\ (Accepted /\ live.ok)' => Performs(o)
<1>1. o.op \in OpNames /\ DOMAIN told = ToldFields /\ DOMAIN live = LiveFields
  BY OperationIs DEF Typed
<1>2. DOMAIN Noted(o) = ToldFields /\ Noted(o).refusal = told.refusal
  BY <1>1, NotedIs
<1>3. /\ DOMAIN told' = ToldFields
      /\ told'.refusal = IF Unfit(o) THEN "unfit" ELSE IF Conflicts(o) THEN "conflict" ELSE "none"
      /\ ~Unfit(o) /\ ~Conflicts(o) => told' = Noted(o)
  BY <1>1, <1>2 DEF Validated, ToldFields
<1>4. DOMAIN live' = LiveFields /\ (live'.ok <=> ~Throws(o))
  <2>1. CASE Throws(o)
    BY <1>1, <2>1 DEF LiveFields
  <2>2. CASE ~Throws(o)
    <3>1. Becoming(o, live')
      BY <1>1, <2>2, PerformedIs
    <3> QED
      BY <2>2, <3>1 DEF Becoming
  <2> QED
    BY <2>1, <2>2
<1>5. Typed'
  <2>1. Given' = Given
    BY DEF Given
  <2> QED
    BY <1>3, <1>4, <2>1 DEF Typed
<1> QED
  BY <1>3, <1>4, <1>5 DEF Performs, Accepted

\* No step of preview or commit loses track.
LEMMA StepTracks == Tracks /\ [WorkbenchNext]_workbenchVars => Tracks'
<1> SUFFICES ASSUME Tracks, [WorkbenchNext]_workbenchVars PROVE Tracks'
  OBVIOUS
<1>1. CASE Operate
  <2>1. PICK o \in Operations :
          /\ told' = Validated(o)
          /\ IF Throws(o) THEN live' = [live EXCEPT !.ok = FALSE] ELSE live' \in Performed(o)
    BY <1>1 DEF Operate
  <2>2. Typed /\ Noticed /\ before' = before /\ told.refusal = "none" /\ live.ok
    BY <1>1 DEF Operate, Tracks, Accepted
  <2>3. Typed' /\ ((Accepted /\ live.ok)' => Performs(o))
    BY <2>1, <2>2, OperateIs
  <2>4. (Accepted /\ live.ok)' => Noticed'
    BY <2>2, <2>3, PerformsTracks
  <2> QED
    BY <2>3, <2>4 DEF Tracks
<1>2. CASE UNCHANGED planVars
  <2>1. /\ told' = told /\ live' = live /\ before' = before
    BY <1>2 DEF planVars
  <2>2. Typed'
    BY <2>1 DEF Tracks, Typed, Given
  <2>3. /\ LostModules' = LostModules /\ Given' = Given /\ Here' = Here /\ Kept' = Kept
        /\ BridgesLeft' = BridgesLeft /\ (Ordered(live)' <=> Ordered(live)) /\ Accepted' = Accepted
        /\ Bridges(Given)' = Bridges(Given) /\ (LateOnes(live)' <=> LateOnes(live))
    BY <2>1 DEF LostModules, Given, Here, Kept, BridgesLeft, Ordered, Accepted, Without, Bridges, LateOnes
  <2>4. Noticed => Noticed'
    BY <2>1, <2>3 DEF Noticed
  <2> QED
    BY <2>1, <2>2, <2>3, <2>4 DEF Tracks
<1> QED
  BY <1>1, <1>2 DEF WorkbenchNext, workbenchVars, Scan, ChooseSlot, Detach, Preview, Commit, Edit, Analyse, Loop, Plan

\* The accumulators are empty when the patch is the snapshot.
LEMMA PlanStarts ==
  ASSUME NEW s, IsFiniteSet(DOMAIN s.kind), DOMAIN s.kind \cap Aliases = {}, Ordered(s), PlanStart(s)
  PROVE  Tracks
<1>1. /\ before = s /\ live.kind = s.kind /\ live.cables = s.cables /\ live.next = s.next
      /\ told.removed = {} /\ told.aliases = {} /\ told.cables = {} /\ told.claimed = {} /\ ~told.letGo
      /\ DOMAIN told = ToldFields /\ DOMAIN live = LiveFields
  BY DEF PlanStart, ToldFields, LiveFields
<1>2. Given = DOMAIN s.kind /\ Here = DOMAIN s.kind /\ Kept = s.cables
  BY <1>1 DEF Given, Here, Kept, Without
<1>3. Typed
  BY <1>1, <1>2 DEF Typed
<1>4. Ordered(live) /\ LateOnes(live)
  BY <1>1 DEF Ordered, LateOnes
<1>5. BridgesLeft = Bridges(Given)
  BY <1>1 DEF BridgesLeft, Bridges
<1>6. LostModules = {}
  BY <1>2 DEF LostModules
<1> QED
  BY <1>1, <1>2, <1>3, <1>4, <1>5, <1>6 DEF Tracks, Noticed

\* Every plan begins in step.
LEMMA InitTracks == WorkbenchInit => Tracks
<1> SUFFICES ASSUME WorkbenchInit PROVE Tracks
  OBVIOUS
<1>1. NoPlan \/ \E s \in Snapshots : PlanStart(s)
  BY DEF WorkbenchInit
<1>2. CASE NoPlan
  <2> DEFINE s == [kind |-> <<>>, column |-> <<>>, cables |-> {}, next |-> 1]
  <2>1. IsFiniteSet(DOMAIN s.kind) /\ DOMAIN s.kind = {} /\ Ordered(s)
    BY FS_EmptySet DEF Ordered
  <2>2. PlanStart(s)
    BY <1>2 DEF NoPlan
  <2> HIDE DEF s
  <2> QED
    BY <2>1, <2>2, PlanStarts
<1>3. CASE \E s \in Snapshots : PlanStart(s)
  BY <1>3, PlanStarts, SnapshotsAssumption
<1> QED
  BY <1>1, <1>2, <1>3

\* What the preview lists, asks for and keeps.
LEMMA TellsLosses ==
  Noticed => /\ LostCables \subseteq told.cables
             /\ LostCables # {} \/ LostModules # {} => ConfirmationRequired
             /\ \/ told.letGo
                \/ \A m \in Given : before.kind[m] # "Bridge"
                \/ \E m \in Here : live.kind[m] = "Bridge"
<1> SUFFICES ASSUME Noticed
             PROVE  /\ LostCables \subseteq told.cables
                    /\ LostCables # {} \/ LostModules # {} => ConfirmationRequired
                    /\ \/ told.letGo
                       \/ \A m \in Given : before.kind[m] # "Bridge"
                       \/ \E m \in Here : live.kind[m] = "Bridge"
  OBVIOUS
<1>1. LostCables \subseteq told.cables
  BY DEF Noticed, LostCables, CableIds, Kept, Without
<1>2. LostModules = told.removed
  BY DEF Noticed
<1>3. LostCables # {} \/ LostModules # {} => ConfirmationRequired
  BY <1>1, <1>2 DEF ConfirmationRequired
<1>4. ASSUME NEW m \in BridgesLeft PROVE m \in Here /\ live.kind[m] = "Bridge"
  BY <1>2, <1>4 DEF BridgesLeft, LostModules, Noticed
<1> QED
  BY <1>1, <1>3, <1>4 DEF Noticed, Bridges

\* Where the preview follows, the patch has the cables it keeps and the plan's own.
LEMMA FollowedCables ==
  ASSUME Noticed, Followed
  PROVE  /\ live.cables = Kept \cup PlansOwn
         /\ \A m \in Here : Claimed(m) <=> OnPort(live.cables, m, "in") # {}
<1>1. Kept \subseteq live.cables /\ PlansOwn \subseteq live.cables
  BY DEF Noticed, PlansOwn
<1>2. CASE told.claimed = {}
  <2>1. live.cables = Kept
    BY <1>2 DEF Noticed
  <2> QED
    BY <1>1, <1>2, <2>1 DEF Claimed, Followed, Noticed
<1>3. CASE told.claimed # {}
  <2>1. told.cables = LostCables /\ told.claimed \cap Here = {c.in : c \in PlansOwn}
    BY <1>3 DEF Followed
  <2>2. ASSUME NEW c \in live.cables, c \notin PlansOwn PROVE c \in Kept
    <3>1. c \in before.cables
      BY <2>2 DEF Noticed, LateOnes, PlansOwn
    <3>2. c.id \notin told.cables
      BY <2>1 DEF LostCables, CableIds
    <3> QED
      BY <3>1, <3>2 DEF Kept, Without
  <2>3. live.cables = Kept \cup PlansOwn
    BY <1>1, <2>2
  <2>4. \A m \in Here : m \in told.claimed <=> \E c \in PlansOwn : c.in = m
    BY <2>1
  <2>5. \A m \in Here : m \in Given
    BY DEF Followed, Noticed
  <2>6. \A m \in Here : OnPort(live.cables, m, "in") # {} <=> OnPort(Kept, m, "in") # {} \/ \E c \in PlansOwn : c.in = m
    BY <2>3 DEF OnPort
  <2> QED
    BY <2>3, <2>4, <2>5, <2>6 DEF Claimed
<1> QED
  BY <1>2, <1>3

\* The exception: an operation that refuses a module connected by the plan alone.
Unseen(o) ==
  o.op = "remove_module" /\ o.cablePolicy = "fail_if_connected" /\ OnModule(PlansOwn, o.module) # {}

\* Where the preview follows, an operation throws just when it conflicts, unless it is
\* unfit or the exception.
LEMMA FollowedThrows ==
  ASSUME Noticed, Followed, NEW o \in Operations, ~Unfit(o)
  PROVE  Throws(o) <=> Conflicts(o) \/ Unseen(o)
<1>1. /\ told.aliases = {} /\ ~told.uncertain
      /\ live.cables = Kept \cup PlansOwn /\ Here = Given \ told.removed
      /\ \A m \in Here : live.kind[m] = before.kind[m] /\ live.column[m] = Box(m)
      /\ \A m \in Here : Claimed(m) <=> OnPort(live.cables, m, "in") # {}
  <2>1. told.aliases = {} /\ ~told.uncertain /\ \A m \in Given \cap Here : live.column[m] = Box(m)
    BY DEF Followed
  <2>2. Here = Given \ told.removed
    BY <2>1 DEF Noticed, LostModules
  <2> QED
    BY <2>1, <2>2, FollowedCables DEF Noticed
<1>2. \A m : Known(m) <=> m \in Here
  BY <1>1 DEF Known
<1>3. \A m \in Refers(o) : m \in Here /\ m \in Given
  BY <1>1, <1>2 DEF Unfit
<1>4. o.op \in OpNames
  BY OperationIs
<1>5. CASE o.op = "remove_module"
  <2>1. OnModule(live.cables, o.module) = OnModule(Kept, o.module) \cup OnModule(PlansOwn, o.module)
    BY <1>1 DEF OnModule
  <2> QED
    BY <1>1, <1>3, <1>5, <2>1 DEF Throws, Conflicts, Refers, Unseen
<1>6. CASE o.op = "move_module"
  <2>1. o.module \in Here /\ o.module \in Given
    BY <1>3, <1>6 DEF Refers
  <2>2. PositionFree(o.module, o.position) <=> ~\E other \in Here \ {o.module} : live.column[other] = o.position
    BY <1>1 DEF PositionFree
  <2> QED
    BY <1>1, <1>3, <1>6, <2>1, <2>2 DEF Throws, Conflicts, Unseen
<1>7. CASE o.op = "connect"
  <2>1. o.out \in Here /\ o.in \in Here /\ o.out \in Given /\ o.in \in Given
    BY <1>3, <1>7 DEF Refers
  <2>2. ~\E m \in {o.out, o.in} : ~Patchable(live.kind[m])
    BY <1>1, <1>7, <2>1 DEF Unfit
  <2>3. Claimed(o.in) <=> OnPort(live.cables, o.in, "in") # {}
    BY <1>1, <2>1
  <2> QED
    BY <1>3, <1>7, <2>2, <2>3 DEF Throws, Conflicts, Unseen
<1>8. CASE o.op = "set_parameter"
  <2>1. o.module \in Given
    BY <1>3, <1>8 DEF Refers
  <2> QED
    BY <1>3, <1>8, <2>1 DEF Throws, Conflicts, Unfit, Unseen
<1>10. CASE o.op = "disconnect"
  <2>1. o.cable \in CableIds(live.cables)
    BY <1>1, <1>10 DEF Unfit, CableIds
  <2> QED
    BY <1>3, <1>10, <2>1 DEF Throws, Conflicts, Unseen
<1>9. CASE o.op \in {"add_module", "randomize_module", "disconnect_port"}
  BY <1>1, <1>3, <1>9 DEF Throws, Conflicts, Unfit, Unseen
<1> QED
  BY <1>4, <1>5, <1>6, <1>7, <1>8, <1>9, <1>10 DEF OpNames

\* The operation that is the exception is in what the step notes.
LEMMA UnseenShows ==
  ASSUME Typed, Noticed, Followed, NEW o \in Operations, ~Unfit(o), Unseen(o), told' = Noted(o)
  PROVE  RemovesPlugged
<1>1. o.op \in OpNames /\ o.op = "remove_module" /\ OnModule(PlansOwn, o.module) # {}
  BY OperationIs DEF Unseen
<1>2. told'.removed = told.removed \cup ({o.module} \cap Given)
  BY <1>1, NotedIs
<1>3. Known(o.module) /\ told.aliases = {}
  BY <1>1 DEF Unfit, Refers, Followed
<1>4. o.module \in Given \ told.removed
  BY <1>3 DEF Known
<1> QED
  BY <1>1, <1>2, <1>4 DEF RemovesPlugged

\* For every snapshot and every plan: what a commit takes away the preview has listed and
\* asked to confirm, the last Bridge stays unless the plan lets it go, and where the
\* preview can follow the plan it refuses for a conflict just what the commit would.
THEOREM PreviewTellsCorrect == WorkbenchSpec => PreviewTells
<1>1. Tracks /\ Tracks' /\ [WorkbenchNext]_workbenchVars =>
        [/\ (Accepted /\ live.ok)' =>
              /\ LostCables' \subseteq told'.cables /\ LostModules' = told'.removed
              /\ (LostCables' # {} \/ LostModules' # {}) => ConfirmationRequired'
              /\ \/ told'.letGo
                 \/ \A m \in Given : before.kind[m] # "Bridge"
                 \/ \E m \in Here' : live'.kind[m] = "Bridge"
         /\ Followed => CASE told'.refusal = "none" -> live'.ok \/ RemovesPlugged
                          [] told'.refusal = "conflict" -> ~live'.ok
                          [] OTHER -> TRUE]_planVars
  <2> SUFFICES ASSUME Tracks, Tracks', Operate
               PROVE  /\ (Accepted /\ live.ok)' =>
                           /\ LostCables' \subseteq told'.cables /\ LostModules' = told'.removed
                           /\ (LostCables' # {} \/ LostModules' # {}) => ConfirmationRequired'
                           /\ \/ told'.letGo
                              \/ \A m \in Given : before.kind[m] # "Bridge"
                              \/ \E m \in Here' : live'.kind[m] = "Bridge"
                      /\ Followed => CASE told'.refusal = "none" -> live'.ok \/ RemovesPlugged
                                       [] told'.refusal = "conflict" -> ~live'.ok
                                       [] OTHER -> TRUE
    BY DEF WorkbenchNext, workbenchVars, Scan, ChooseSlot, Detach, Preview, Commit, Edit, Analyse, Loop, Plan
  <2>1. PICK o \in Operations :
          /\ told' = Validated(o)
          /\ IF Throws(o) THEN live' = [live EXCEPT !.ok = FALSE] ELSE live' \in Performed(o)
    BY DEF Operate
  <2>2. Typed /\ Noticed /\ before' = before /\ told.refusal = "none" /\ live.ok
    BY DEF Operate, Tracks, Accepted
  <2>3. /\ told'.refusal = "none" => ~Unfit(o) /\ ~Conflicts(o)
        /\ told'.refusal = "none" => told' = Noted(o)
        /\ told'.refusal = "conflict" => ~Unfit(o) /\ Conflicts(o)
        /\ live'.ok <=> ~Throws(o)
    BY <2>1, <2>2, OperateIs
  <2>4. Followed => CASE told'.refusal = "none" -> live'.ok \/ RemovesPlugged
                      [] told'.refusal = "conflict" -> ~live'.ok
                      [] OTHER -> TRUE
    BY <2>2, <2>3, FollowedThrows, UnseenShows
  <2>6. (Noticed => /\ LostCables \subseteq told.cables
                    /\ LostCables # {} \/ LostModules # {} => ConfirmationRequired
                    /\ \/ told.letGo
                       \/ \A m \in Given : before.kind[m] # "Bridge"
                       \/ \E m \in Here : live.kind[m] = "Bridge")'
    BY TellsLosses, PTL
  <2>7. (Noticed => LostModules = told.removed)'
    BY DEF Noticed
  <2>8. (\A m \in Given : before.kind[m] # "Bridge")' <=> \A m \in Given : before.kind[m] # "Bridge"
    BY <2>2 DEF Given
  <2>9. (Accepted /\ live.ok)' => Noticed'
    BY DEF Tracks
  <2> QED
    BY <2>4, <2>6, <2>7, <2>8, <2>9
<1> QED
  BY <1>1, InitTracks, StepTracks, PTL DEF WorkbenchSpec, PreviewTells

===============================================================================
