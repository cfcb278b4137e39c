-------------------------- MODULE OrchestrationProofs --------------------------
(***************************************************************************)
(* Two parts of the MCP server that send the plugin what changes a patch:  *)
(* the protocol client, and the calls that commit, undo and replace. They  *)
(* share nothing but this module.                                          *)
(***************************************************************************)
EXTENDS BridgeClient, Confirmations, SequenceTheorems, TLAPS

-----------------------------------------------------------------------------
(***************************************************************************)
(* Proofs about BridgeClient, for any set of request ids and any number of *)
(* frames under way: its invariant, and that it implements Settlement.     *)
(*                                                                         *)
(* What makes the invariant inductive is Accounts: where the request of    *)
(* each call is (on the wire, executed, or answered by a frame) agrees     *)
(* with what its promise holds, even after the promise was settled by a    *)
(* timer or by the end of the connection.                                  *)
(***************************************************************************)

\* A frame tells the truth about the call it answers and the admission it reports.
Truthful(f, out, w, rn, g) ==
  /\ f.kind = "authOk" => g \in {"admitted", "left"}
  /\ f.kind = "res" =>
       /\ out[f.id] # "none" /\ f.id \notin w
       /\ f.reply = "refused" <=> f.id \notin rn

Accounts ==
  /\ wire \cap ran = {} /\ owed \subseteq ran
  /\ \A r \in wire : outcome[r] \in {"waiting", "timeout", "disconnected"}
  /\ \A r \in ran : outcome[r] \notin {"none", "refused"}
  /\ \A i \in DOMAIN down : Truthful(down[i], outcome, wire, ran, greeted)

Admission ==
  /\ step = "ready" => greeted \in {"admitted", "left"}
  /\ result = "authOk" => greeted \in {"admitted", "left"}

Entries ==
  /\ pending = {r \in RequestIds : outcome[r] = "waiting"}
  /\ closed = "yes" => pending = {} /\ waiters = <<>>
  /\ closed = "no" => (beating = "yes" <=> step = "ready")
  /\ step \in {"idle", "connecting"} => greeted = "none" /\ closed = "no"
  /\ result # "none" => step \in {"hello", "auth"}

BridgeInv == BridgeTypeOK /\ Accounts /\ Admission /\ Entries

-----------------------------------------------------------------------------
(* Sequences of frames *)

LEMMA AppendFrame ==
  ASSUME NEW S, NEW s \in Seq(S), NEW x \in S
  PROVE  /\ Append(s, x) \in Seq(S) /\ Len(Append(s, x)) = Len(s) + 1
         /\ \A i \in DOMAIN Append(s, x) :
              Append(s, x)[i] = x \/ \E j \in DOMAIN s : Append(s, x)[i] = s[j]
OBVIOUS

LEMMA TailFrames ==
  ASSUME NEW S, NEW s \in Seq(S), s # <<>>
  PROVE  /\ Head(s) \in S /\ Head(s) = s[1] /\ 1 \in DOMAIN s
         /\ Tail(s) \in Seq(S) /\ Len(Tail(s)) < Len(s)
         /\ \A i \in DOMAIN Tail(s) : \E j \in DOMAIN s : Tail(s)[i] = s[j]
OBVIOUS

-----------------------------------------------------------------------------
(* Steps by their effect on the calls *)

\* A teardown gives up every promise that waits, and leaves the others.
LEMMA TeardownGivesUp ==
  ASSUME BridgeInv, Teardown
  PROVE  /\ pending' = {} /\ \A r \in RequestIds : outcome'[r] # "waiting"
         /\ outcome' \in [RequestIds -> Outcomes] /\ waiters' = <<>>
         /\ closed' = "yes" /\ beating' \in {"no", "yes"} /\ waiters' \in Seq({"hello", "auth"})
         /\ \A r \in RequestIds :
              \/ outcome'[r] = outcome[r]
              \/ outcome[r] = "waiting" /\ outcome'[r] \in {"timeout", "disconnected"}
<1> USE DEF BridgeInv, BridgeTypeOK, Entries, Outcomes
<1>1. \A r \in RequestIds : r \in pending <=> outcome[r] = "waiting"
  OBVIOUS
<1>2. closed' = "yes" /\ beating' \in {"no", "yes"} /\ pending' = {} /\ waiters' = <<>>
  BY DEF Teardown
<1>3. \A r \in RequestIds : outcome'[r] = IF r \in pending THEN "disconnected" ELSE outcome[r]
  <2>1. CASE closed = "yes"
    BY <2>1 DEF Teardown
  <2>2. CASE closed = "no"
    BY <2>2 DEF Teardown, Disconnected
  <2>. QED  BY <2>1, <2>2
<1>4. outcome' \in [RequestIds -> Outcomes]
  <2>1. CASE closed = "yes"
    BY <2>1 DEF Teardown
  <2>2. CASE closed = "no"
    BY <2>2 DEF Teardown, Disconnected
  <2>. QED  BY <2>1, <2>2
<1>5. waiters' \in Seq({"hello", "auth"})
  BY <1>2
<1>6. \A r \in RequestIds :
        /\ outcome'[r] # "waiting"
        /\ \/ outcome'[r] = outcome[r]
           \/ outcome[r] = "waiting" /\ outcome'[r] \in {"timeout", "disconnected"}
  BY <1>1, <1>3
<1>. QED  BY <1>2, <1>4, <1>5, <1>6

\* A frame handled: what it is, and what is left.
LEMMA FrameFacts ==
  ASSUME BridgeInv, DeliverFrame
  PROVE  /\ Head(down) \in Frames /\ down' \in Seq(Frames) /\ Len(down') <= MaxDown
         /\ Truthful(Head(down), outcome, wire, ran, greeted)
         /\ \A i \in DOMAIN down' : \E j \in DOMAIN down : down'[i] = down[j]
         /\ UNCHANGED <<step, greeted, wire, owed, ran>>
         /\ chunk' \in {"no", "yes"}
<1>1. down # <<>> /\ down \in Seq(Frames) /\ (down' = Tail(down) \/ down' = <<>>)
  BY DEF DeliverFrame, BridgeInv, BridgeTypeOK
<1>2. /\ Head(down) \in Frames /\ Head(down) = down[1] /\ 1 \in DOMAIN down
      /\ down' \in Seq(Frames) /\ Len(down') < Len(down)
      /\ \A i \in DOMAIN down' : \E j \in DOMAIN down : down'[i] = down[j]
  <2>1. CASE down' = Tail(down)
    BY <1>1, <2>1, TailFrames
  <2>2. CASE down' = <<>>
    BY <1>1, <2>2, TailFrames
  <2>. QED  BY <1>1, <2>1, <2>2
<1>3. Len(down') <= MaxDown
  BY <1>1, <1>2, ClientAssumption DEF BridgeInv, BridgeTypeOK
<1>. QED  BY <1>2, <1>3 DEF DeliverFrame, BridgeInv, Accounts, peerVars

\* A frame the peer sends.
LEMMA SentFacts ==
  ASSUME BridgeInv, NEW f \in Frames, Sends(f)
  PROVE  /\ down' \in Seq(Frames) /\ Len(down') <= MaxDown
         /\ \A i \in DOMAIN down' : down'[i] = f \/ \E j \in DOMAIN down : down'[i] = down[j]
<1>1. down \in Seq(Frames) /\ down' = Append(down, f) /\ Len(down) < MaxDown
  BY DEF Sends, BridgeInv, BridgeTypeOK
<1>2. down' \in Seq(Frames) /\ Len(down') = Len(down) + 1
  BY <1>1, AppendFrame
<1>3. \A i \in DOMAIN down' : down'[i] = f \/ \E j \in DOMAIN down : down'[i] = down[j]
  BY <1>1, AppendFrame
<1>4. Len(down) \in Nat
  BY <1>1
<1>. QED  BY <1>1, <1>2, <1>3, <1>4, ClientAssumption

LEMMA FrameKinds ==
  /\ \A r \in RequestIds, reply \in Replies : [kind |-> "res", id |-> r, reply |-> reply] \in Frames
  /\ \A k \in {"welcome", "otherVersion", "refusal", "authOk"} : [kind |-> k] \in Frames
  /\ [kind |-> "shutting_down"] \in Frames /\ [kind |-> "garbled"] \in Frames
BY DEF Frames, Greeting, Answer, Event, Garbled

-----------------------------------------------------------------------------
(* Types *)

LEMMA InitIInv == BridgeInit => BridgeInv
BY ClientAssumption
DEF BridgeInit, BridgeInv, BridgeTypeOK, Accounts, Admission, Entries, Outcomes, Results, Frames

LEMMA NextTypeOK == BridgeInv /\ [BridgeNext]_bridgeVars => BridgeTypeOK'
<1> SUFFICES ASSUME BridgeInv, [BridgeNext]_bridgeVars PROVE BridgeTypeOK'
  OBVIOUS
<1> USE DEF BridgeTypeOK, peerVars, clientVars, BridgeInv
<1>1. CASE Opened
  BY <1>1, SMTT(90) DEF Opened
<1>2. CASE Resume
  <2>1. CASE Welcomed
    <3>1. waiters' \in Seq({"hello", "auth"}) /\ step' \in {"auth", "failed"}
      BY <2>1, AppendFrame DEF Welcomed
    <3>2. greeted' \in {"none", "hello", "challenged", "auth", "admitted", "left", "gone"}
      BY <2>1 DEF Welcomed
    <3>. QED  BY <1>2, <2>1, <3>1, <3>2 DEF Resume, Welcomed
  <2>2. CASE Authenticated
    BY <1>2, <2>2 DEF Resume, Authenticated
  <2>3. CASE Rejected /\ Teardown
    BY <1>2, <2>3, TeardownGivesUp DEF Resume, Rejected
  <2>4. CASE Rejected /\ UNCHANGED <<closed, beating, pending, outcome, waiters>>
    BY <1>2, <2>4 DEF Resume, Rejected
  <2>. QED  BY <1>2, <2>1, <2>2, <2>3, <2>4 DEF Resume, Rejected
<1>3. CASE DeliverFrame
  <2> USE FrameFacts, <1>3
  <2>1. CASE DispatchGreeting(Head(down))
    <3>1. waiters' \in Seq({"hello", "auth"})
      BY <2>1, TailFrames DEF DispatchGreeting
    <3>2. result' \in Results \cup {"none"}
      BY <2>1 DEF DispatchGreeting, Greeting, Results
    <3>. QED  BY <2>1, <3>1, <3>2 DEF DispatchGreeting
  <2>2. CASE DispatchAnswer(Head(down))
    BY <2>2 DEF DispatchAnswer, Answer, Replies, Outcomes
  <2>3. CASE DispatchEvent(Head(down)) /\ Teardown
    BY <2>3, TeardownGivesUp DEF DispatchEvent
  <2>4. CASE DispatchEvent(Head(down)) /\ UNCHANGED <<closed, beating, pending, outcome, waiters>>
    BY <2>4 DEF DispatchEvent
  <2>5. CASE DispatchGarbled(Head(down))
    BY <2>5, TeardownGivesUp DEF DispatchGarbled, Results
  <2>. QED  BY <2>1, <2>2, <2>3, <2>4, <2>5 DEF DeliverFrame, DispatchEvent
<1>4. CASE SocketEnds
  <2>1. Len(<<>>) <= MaxDown /\ <<>> \in Seq(Frames)
    BY ClientAssumption
  <2>. QED  BY <1>4, <2>1, TeardownGivesUp DEF SocketEnds, Results
<1>5. CASE Close
  BY <1>5, TeardownGivesUp DEF Close
<1>6. ASSUME NEW r \in RequestIds, RequestTimeout(r) PROVE BridgeTypeOK'
  BY <1>6 DEF RequestTimeout, MayHaveOccurred, Outcomes
<1>7. ASSUME NEW r \in RequestIds, Request(r) PROVE BridgeTypeOK'
  BY <1>7 DEF Request, Outcomes
<1>8. ASSUME NEW r \in RequestIds, RequestThrows(r) PROVE BridgeTypeOK'
  BY <1>8 DEF RequestThrows, Outcomes
<1>9. CASE PeerGreets
  BY <1>9, SentFacts, FrameKinds DEF PeerGreets
<1>10. CASE PeerShutsDown
  BY <1>10, SentFacts, FrameKinds DEF PeerShutsDown
<1>11. ASSUME NEW r \in RequestIds, PeerAnswers(r) \/ PeerRefuses(r) PROVE BridgeTypeOK'
  BY <1>11, SentFacts, FrameKinds DEF PeerAnswers, PeerRefuses, Replies
<1>12. ASSUME NEW r \in RequestIds, PeerRuns(r) PROVE BridgeTypeOK'
  BY <1>12 DEF PeerRuns
<1>13. CASE PeerGarbles
  BY <1>13, SentFacts, FrameKinds DEF PeerGarbles
<1>14. CASE PeerGoes \/ Connect \/ HandshakeTimeout \/ UNCHANGED bridgeVars
  BY <1>14 DEF PeerGoes, Connect, HandshakeTimeout, bridgeVars, Results
<1>. QED
  BY <1>1, <1>2, <1>3, <1>4, <1>5, <1>6, <1>7, <1>8, <1>9, <1>10, <1>11, <1>12, <1>13, <1>14
  DEF BridgeNext, Peer, Timers

-----------------------------------------------------------------------------
(* The clauses of the invariant *)

LEMMA AwaitedStep == BridgeTypeOK /\ Awaiting => step \in {"hello", "auth"}
<1> SUFFICES ASSUME BridgeTypeOK, Awaiting PROVE step \in {"hello", "auth"}
  OBVIOUS
<1>1. waiters \in Seq({"hello", "auth"}) /\ waiters # <<>> /\ step = waiters[Len(waiters)]
  BY DEF BridgeTypeOK, Awaiting
<1>. QED  BY <1>1

LEMMA NextEntries == BridgeInv /\ [BridgeNext]_bridgeVars => Entries'
<1> SUFFICES ASSUME BridgeInv, [BridgeNext]_bridgeVars PROVE Entries'
  OBVIOUS
<1> USE DEF Entries, BridgeTypeOK, peerVars, clientVars, BridgeInv
<1>1. CASE Opened
  BY <1>1 DEF Opened
<1>2. CASE Resume
  <2>1. CASE Welcomed
    BY <1>2, <2>1 DEF Resume, Welcomed
  <2>2. CASE Authenticated
    BY <1>2, <2>2 DEF Resume, Authenticated
  <2>3. CASE Rejected /\ Teardown
    <3>1. pending' = {r \in RequestIds : outcome'[r] = "waiting"}
      BY <2>3, TeardownGivesUp
    <3>. QED  BY <1>2, <2>3, <3>1, TeardownGivesUp DEF Resume, Rejected
  <2>4. CASE Rejected /\ UNCHANGED <<closed, beating, pending, outcome, waiters>>
    BY <1>2, <2>4 DEF Resume, Rejected
  <2>. QED  BY <1>2, <2>1, <2>2, <2>3, <2>4 DEF Resume, Rejected
<1>3. CASE DeliverFrame
  <2> USE FrameFacts, <1>3
  <2>1. CASE DispatchGreeting(Head(down))
    BY <2>1 DEF DispatchGreeting, Greeting
  <2>2. CASE DispatchAnswer(Head(down))
    BY <2>2 DEF DispatchAnswer, StillPending, Answer, Replies
  <2>3. CASE DispatchEvent(Head(down)) /\ Teardown
    <3>1. pending' = {r \in RequestIds : outcome'[r] = "waiting"}
      BY <2>3, TeardownGivesUp
    <3>. QED  BY <2>3, <3>1, TeardownGivesUp DEF DispatchEvent
  <2>4. CASE DispatchEvent(Head(down)) /\ UNCHANGED <<closed, beating, pending, outcome, waiters>>
    BY <2>4 DEF DispatchEvent
  <2>5. CASE DispatchGarbled(Head(down))
    <3>1. pending' = {r \in RequestIds : outcome'[r] = "waiting"}
      BY <2>5, TeardownGivesUp DEF DispatchGarbled
    <3>2. step \notin {"idle", "connecting"}
      BY DEF DeliverFrame
    <3>3. Awaiting => step \in {"hello", "auth"}
      BY AwaitedStep
    <3>. QED  BY <2>5, <3>1, <3>2, <3>3, TeardownGivesUp DEF DispatchGarbled
  <2>. QED  BY <2>1, <2>2, <2>3, <2>4, <2>5 DEF DeliverFrame, DispatchEvent
<1>4. CASE SocketEnds
  <2>1. pending' = {r \in RequestIds : outcome'[r] = "waiting"}
    BY <1>4, TeardownGivesUp DEF SocketEnds
  <2>2. step \notin {"idle", "connecting"}
    BY <1>4 DEF SocketEnds
  <2>3. result' # "none" => step' \in {"hello", "auth"}
    BY <1>4, AwaitedStep DEF SocketEnds
  <2>. QED  BY <1>4, <2>1, <2>2, <2>3, TeardownGivesUp DEF SocketEnds
<1>5. CASE Close
  <2>1. pending' = {r \in RequestIds : outcome'[r] = "waiting"}
    BY <1>5, TeardownGivesUp DEF Close
  <2>. QED  BY <1>5, <2>1, TeardownGivesUp DEF Close
<1>6. ASSUME NEW r \in RequestIds, RequestTimeout(r) PROVE Entries'
  BY <1>6 DEF RequestTimeout, MayHaveOccurred
<1>7. ASSUME NEW r \in RequestIds, Request(r) PROVE Entries'
  BY <1>7 DEF Request
<1>8. ASSUME NEW r \in RequestIds, RequestThrows(r) PROVE Entries'
  BY <1>8 DEF RequestThrows
<1>9. CASE HandshakeTimeout
  BY <1>9, AwaitedStep DEF HandshakeTimeout
<1>10. CASE Peer
  BY <1>10 DEF Peer, PeerGreets, PeerShutsDown, PeerGarbles, PeerGoes, PeerRuns, PeerAnswers, PeerRefuses
<1>11. CASE Connect \/ UNCHANGED bridgeVars
  BY <1>11 DEF Connect, bridgeVars
<1>. QED
  BY <1>1, <1>2, <1>3, <1>4, <1>5, <1>6, <1>7, <1>8, <1>9, <1>10, <1>11 DEF BridgeNext, Timers

LEMMA NextAdmission == BridgeInv /\ [BridgeNext]_bridgeVars => Admission'
<1> SUFFICES ASSUME BridgeInv, [BridgeNext]_bridgeVars PROVE Admission'
  OBVIOUS
<1> USE DEF Admission, Entries, BridgeTypeOK, peerVars, clientVars, BridgeInv
<1>1. CASE Resume
  BY <1>1 DEF Resume, Welcomed, Authenticated, Rejected
<1>2. CASE DeliverFrame
  <2> USE FrameFacts, <1>2
  <2>1. CASE DispatchGreeting(Head(down))
    BY <2>1 DEF DispatchGreeting, Truthful
  <2>. QED  BY <2>1 DEF DeliverFrame, DispatchAnswer, DispatchEvent, DispatchGarbled
<1>3. CASE SocketEnds
  BY <1>3 DEF SocketEnds
<1>4. CASE Peer
  BY <1>4 DEF Peer, PeerGreets, PeerShutsDown, PeerGarbles, PeerGoes, PeerRuns, PeerAnswers, PeerRefuses
<1>5. CASE Opened \/ Connect \/ HandshakeTimeout \/ Close \/ UNCHANGED bridgeVars
  BY <1>5 DEF Opened, Connect, HandshakeTimeout, Close, bridgeVars
<1>6. ASSUME NEW r \in RequestIds, RequestTimeout(r) \/ Request(r) \/ RequestThrows(r)
      PROVE  Admission'
  BY <1>6 DEF RequestTimeout, Request, RequestThrows
<1>. QED  BY <1>1, <1>2, <1>3, <1>4, <1>5, <1>6 DEF BridgeNext, Timers

\* Steps that leave the peer alone and settle promises that wait, truthfully.
LEMMA SettlingKeepsAccounts ==
  ASSUME BridgeInv, UNCHANGED <<greeted, wire, owed, ran>>,
         \A i \in DOMAIN down' : \E j \in DOMAIN down : down'[i] = down[j],
         \A r \in RequestIds : \/ outcome'[r] = outcome[r]
                          \/ /\ outcome[r] = "waiting"
                             /\ \/ outcome'[r] \in {"timeout", "disconnected"}
                                \/ r \notin wire /\ outcome'[r] \in {"answered", "failed"}
                                \/ r \notin wire /\ r \notin ran /\ outcome'[r] = "refused",
         down' \in Seq(Frames)
  PROVE  Accounts'
<1> USE DEF BridgeInv, BridgeTypeOK, Accounts
<1>1. \A r \in wire : outcome'[r] \in {"waiting", "timeout", "disconnected"}
  OBVIOUS
<1>2. \A r \in ran : outcome'[r] \notin {"none", "refused"}
  OBVIOUS
<1>3. ASSUME NEW i \in DOMAIN down' PROVE Truthful(down'[i], outcome', wire, ran, greeted)
  <2>1. PICK j \in DOMAIN down : down'[i] = down[j]
    OBVIOUS
  <2>2. Truthful(down[j], outcome, wire, ran, greeted) /\ down[j] \in Frames
    OBVIOUS
  <2>3. down[j].kind = "res" => down[j].id \in RequestIds
    BY <2>2 DEF Frames, Greeting, Answer, Event, Garbled
  <2>4. down[j].kind = "res" /\ outcome[down[j].id] # "none" => outcome'[down[j].id] # "none"
    BY <2>3
  <2>. QED  BY <2>1, <2>2, <2>4 DEF Truthful
<1>. QED  BY <1>1, <1>2, <1>3

LEMMA NextAccounts == BridgeInv /\ [BridgeNext]_bridgeVars => Accounts'
<1> SUFFICES ASSUME BridgeInv, [BridgeNext]_bridgeVars PROVE Accounts'
  OBVIOUS
<1> USE DEF BridgeInv, BridgeTypeOK
<1>0. \A i \in DOMAIN down : \E j \in DOMAIN down : down[i] = down[j]
  OBVIOUS
<1>1. CASE Teardown /\ UNCHANGED peerVars /\ (down' = down \/ down' = <<>>)
  <2>1. \A r \in RequestIds :
          \/ outcome'[r] = outcome[r]
          \/ outcome[r] = "waiting" /\ outcome'[r] \in {"timeout", "disconnected"}
    BY <1>1, TeardownGivesUp
  <2>2. down' \in Seq(Frames) /\ \A i \in DOMAIN down' : \E j \in DOMAIN down : down'[i] = down[j]
    <3>1. CASE down' = down
      BY <1>0, <3>1
    <3>2. CASE down' = <<>>
      BY <3>2
    <3>. QED  BY <1>1, <3>1, <3>2
  <2>. QED  BY <1>1, <2>1, <2>2, SettlingKeepsAccounts DEF peerVars
<1>2. CASE DeliverFrame
  <2>1. CASE DispatchAnswer(Head(down))
    <3> DEFINE r == Head(down).id
    <3>1. Head(down) \in Answer /\ r \in RequestIds /\ Head(down).reply \in Replies /\ Head(down).kind = "res"
      BY <2>1 DEF DispatchAnswer, Answer
    <3>2. r \notin wire /\ (Head(down).reply = "refused" <=> r \notin ran)
      BY <1>2, <3>1, FrameFacts DEF Truthful
    <3>3. CASE r \in pending
      <4>1. outcome[r] = "waiting" /\ outcome' = [outcome EXCEPT ![r] = Head(down).reply]
        BY <2>1, <3>3 DEF DispatchAnswer, StillPending, Entries
      <4>2. \A q \in RequestIds : q # r => outcome'[q] = outcome[q]
        BY <4>1
      <4>3. outcome'[r] = Head(down).reply
        BY <3>1, <4>1
      <4>. QED  BY <1>2, <3>1, <3>2, <4>1, <4>2, <4>3, FrameFacts, SettlingKeepsAccounts DEF Replies
    <3>4. CASE r \notin pending
      BY <1>2, <2>1, <3>4, FrameFacts, SettlingKeepsAccounts DEF DispatchAnswer, StillPending
    <3>. QED  BY <3>3, <3>4
  <2>2. CASE UNCHANGED outcome
    <3>1. \A r \in RequestIds : outcome'[r] = outcome[r]
      BY <2>2
    <3>. HIDE <2>2
    <3>. QED  BY <1>2, <3>1, FrameFacts, SettlingKeepsAccounts
  <2>3. CASE Teardown
    <3>1. \A r \in RequestIds :
            \/ outcome'[r] = outcome[r]
            \/ outcome[r] = "waiting" /\ outcome'[r] \in {"timeout", "disconnected"}
      BY <2>3, TeardownGivesUp
    <3>. QED  BY <1>2, <3>1, FrameFacts, SettlingKeepsAccounts
  <2>4. DispatchAnswer(Head(down)) \/ UNCHANGED outcome \/ Teardown
    BY <1>2 DEF DeliverFrame, DispatchGreeting, DispatchEvent, DispatchGarbled
  <2>. QED  BY <2>1, <2>2, <2>3, <2>4
<1>3. CASE UNCHANGED <<outcome, wire, owed, ran, down>> /\ (greeted' = greeted \/ greeted \notin {"admitted", "left"} \/ greeted' = "left")
  BY <1>3 DEF Accounts, Truthful
<1>4. ASSUME NEW r \in RequestIds, RequestTimeout(r) PROVE Accounts'
  <2>1. outcome[r] = "waiting" /\ outcome' = [outcome EXCEPT ![r] = "timeout"]
    BY <1>4 DEF RequestTimeout, MayHaveOccurred, Entries
  <2>2. \A q \in RequestIds : outcome'[q] = IF q = r THEN "timeout" ELSE outcome[q]
    BY <2>1
  <2>3. UNCHANGED <<greeted, wire, owed, ran>> /\ down' = down
    BY <1>4 DEF RequestTimeout, peerVars
  <2>. QED  BY <1>0, <2>1, <2>2, <2>3, SettlingKeepsAccounts
<1>5. ASSUME NEW r \in RequestIds, Request(r) \/ RequestThrows(r) PROVE Accounts'
  <2>1. outcome[r] = "none" /\ r \notin ran /\ r \notin wire
    BY <1>5 DEF Request, RequestThrows, Accounts
  <2>2. \A q \in RequestIds : q # r => outcome'[q] = outcome[q]
    BY <1>5 DEF Request, RequestThrows
  <2>3. outcome'[r] \in {"waiting", "refused"} /\ (Request(r) => outcome'[r] = "waiting")
    BY <1>5 DEF Request, RequestThrows
  <2>4. UNCHANGED <<greeted, owed, ran, down>>
        /\ (wire' = wire \/ (Request(r) /\ wire' = wire \cup {r}))
    BY <1>5 DEF Request, RequestThrows, peerVars
  <2>5. ASSUME NEW i \in DOMAIN down PROVE Truthful(down[i], outcome', wire', ran, greeted)
    <3>1. Truthful(down[i], outcome, wire, ran, greeted) /\ down[i] \in Frames
      BY DEF Accounts
    <3>2. down[i].kind = "res" => down[i].id \in RequestIds /\ down[i].id # r
      BY <2>1, <3>1 DEF Truthful, Frames, Greeting, Answer, Event, Garbled
    <3>. QED  BY <2>2, <2>4, <3>1, <3>2 DEF Truthful
  <2>. QED  BY <2>1, <2>2, <2>3, <2>4, <2>5 DEF Accounts
<1>6. CASE Peer
  <2>1. ASSUME NEW f \in Frames, Sends(f), UNCHANGED <<outcome, ran>>, wire' \subseteq wire, owed' \subseteq owed,
               greeted' = greeted \/ greeted' \in {"admitted", "left"} \/ greeted \notin {"admitted", "left"},
               Truthful(f, outcome, wire', ran, greeted')
        PROVE  Accounts'
    <3>1. ASSUME NEW i \in DOMAIN down PROVE Truthful(down[i], outcome, wire', ran, greeted')
      BY <2>1 DEF Accounts, Truthful
    <3>2. \A i \in DOMAIN down' : down'[i] = f \/ \E j \in DOMAIN down : down'[i] = down[j]
      BY <2>1, SentFacts
    <3>3. \A i \in DOMAIN down' : Truthful(down'[i], outcome', wire', ran', greeted')
      BY <2>1, <3>1, <3>2
    <3>. QED  BY <2>1, <3>3 DEF Accounts
  <2>2. CASE PeerGreets
    <3>1. ASSUME NEW k \in {"welcome", "otherVersion", "refusal", "authOk"}, Sends([kind |-> k]),
                 k = "authOk" => greeted' = "admitted"
          PROVE  Accounts'
      <4>1. [kind |-> k] \in Frames /\ [kind |-> k].kind # "res"
        BY FrameKinds
      <4>2. Truthful([kind |-> k], outcome, wire', ran, greeted')
        BY <3>1, <4>1 DEF Truthful
      <4>. QED  BY <2>1, <2>2, <3>1, <4>1, <4>2 DEF PeerGreets, clientVars
    <3>. QED  BY <2>2, <3>1 DEF PeerGreets
  <2>3. CASE PeerShutsDown
    <3>1. [kind |-> "shutting_down"] \in Frames
      BY FrameKinds
    <3>2. Truthful([kind |-> "shutting_down"], outcome, wire', ran, greeted')
      BY DEF Truthful
    <3>. QED  BY <2>1, <2>3, <3>1, <3>2 DEF PeerShutsDown, clientVars
  <2>4. CASE PeerGoes
    BY <1>3, <2>4 DEF PeerGoes, clientVars
  <2>5. ASSUME NEW r \in RequestIds, PeerAnswers(r) PROVE Accounts'
    <3>1. PICK reply \in {"answered", "failed"} : Sends([kind |-> "res", id |-> r, reply |-> reply])
      BY <2>5 DEF PeerAnswers
    <3>2. r \in ran /\ r \notin wire /\ outcome[r] # "none"
      BY <2>5 DEF PeerAnswers, Accounts
    <3>3. [kind |-> "res", id |-> r, reply |-> reply] \in Frames
      BY FrameKinds DEF Replies
    <3>4. Truthful([kind |-> "res", id |-> r, reply |-> reply], outcome, wire, ran, greeted)
      BY <3>2 DEF Truthful
    <3>. QED  BY <2>1, <2>5, <3>1, <3>3, <3>4 DEF PeerAnswers, clientVars
  <2>6. ASSUME NEW r \in RequestIds, PeerRefuses(r) PROVE Accounts'
    <3>2. r \notin ran /\ r \notin wire' /\ outcome[r] # "none"
      BY <2>6 DEF PeerRefuses, Accounts
    <3>3. [kind |-> "res", id |-> r, reply |-> "refused"] \in Frames
      BY FrameKinds DEF Replies
    <3>4. Truthful([kind |-> "res", id |-> r, reply |-> "refused"], outcome, wire', ran, greeted)
      BY <3>2 DEF Truthful
    <3>. QED  BY <2>1, <2>6, <3>3, <3>4 DEF PeerRefuses, clientVars
  <2>7. ASSUME NEW r \in RequestIds, PeerRuns(r) PROVE Accounts'
    <3>1. UNCHANGED <<outcome, down, greeted>> /\ wire' = wire \ {r} /\ owed' = owed \cup {r}
          /\ ran' = ran \cup {r} /\ r \in wire
      BY <2>7 DEF PeerRuns, clientVars
    <3>2. ASSUME NEW i \in DOMAIN down PROVE Truthful(down[i], outcome, wire', ran', greeted)
      BY <3>1 DEF Accounts, Truthful
    <3>. QED  BY <3>1, <3>2 DEF Accounts
  <2>8. CASE PeerGarbles
    <3>1. [kind |-> "garbled"] \in Frames
      BY FrameKinds
    <3>2. Truthful([kind |-> "garbled"], outcome, wire', ran, greeted')
      BY DEF Truthful
    <3>. QED  BY <2>1, <2>8, <3>1, <3>2 DEF PeerGarbles, clientVars
  <2>. QED  BY <1>6, <2>2, <2>3, <2>4, <2>5, <2>6, <2>7, <2>8 DEF Peer
<1>7. CASE Resume
  <2>1. CASE Welcomed
    BY <1>3, <1>7, <2>1 DEF Welcomed, Resume
  <2>2. CASE Authenticated \/ (Rejected /\ UNCHANGED outcome)
    BY <1>3, <1>7, <2>2 DEF Authenticated, Rejected, Resume
  <2>3. CASE Rejected /\ Teardown
    BY <1>1, <1>7, <2>3 DEF Rejected, Resume, peerVars
  <2>. QED  BY <1>7, <2>1, <2>2, <2>3 DEF Resume, Rejected
<1>8. CASE Opened
  BY <1>3, <1>8 DEF Opened, Entries
<1>9. CASE Connect \/ HandshakeTimeout \/ UNCHANGED bridgeVars
  BY <1>3, <1>9 DEF Connect, HandshakeTimeout, bridgeVars, clientVars, peerVars
<1>10. CASE Close \/ SocketEnds
  BY <1>1, <1>10 DEF Close, SocketEnds
<1>. QED  BY <1>2, <1>4, <1>5, <1>6, <1>7, <1>8, <1>9, <1>10 DEF BridgeNext, Timers

-----------------------------------------------------------------------------
\* The inductive invariant.
THEOREM Invariance == BridgeSpec => []BridgeInv
<1>1. BridgeInv /\ [BridgeNext]_bridgeVars => BridgeInv'
  BY NextTypeOK, NextAccounts, NextAdmission, NextEntries DEF BridgeInv
<1>. QED  BY <1>1, InitIInv, PTL DEF BridgeSpec

\* A ready client was admitted; what waits has an entry, and in a closed client
\* nothing waits; an open one has its heartbeat exactly while it is ready.
THEOREM BridgeConsistentCorrect == BridgeSpec => []BridgeConsistent
<1>1. BridgeInv => BridgeConsistent
  BY DEF BridgeInv, BridgeConsistent, Admission, Entries
<1>. QED  BY <1>1, Invariance, PTL

\* RequestIds are settled once, truthfully: the client implements Settlement.
THEOREM CallsSettledOnceCorrect == BridgeSpec => CallsSettledOnce
<1>1. BridgeInit => Settled!Init
  BY DEF BridgeInit, Settled!Init, Told
<1>2. BridgeInv /\ [BridgeNext]_bridgeVars => [Settled!Next]_Settled!vars
  <2> SUFFICES ASSUME BridgeInv, [BridgeNext]_bridgeVars PROVE Settled!Next \/ UNCHANGED Settled!vars
    OBVIOUS
  <2> USE DEF Settled!vars, BridgeInv, BridgeTypeOK
  <2>1. CASE UNCHANGED <<outcome, ran>>
    BY <2>1 DEF Told
  <2>2. CASE Teardown /\ ran' = ran
    <3>1. CASE outcome' = outcome
      BY <2>1, <2>2, <3>1
    <3>2. CASE outcome' = [r \in RequestIds |-> IF r \in pending THEN "disconnected" ELSE outcome[r]]
      <4>1. Told' = [r \in RequestIds |-> IF r \in pending THEN "unknown" ELSE Told[r]]
        BY <3>2 DEF Told
      <4>2. \A r \in pending : Told[r] = "waiting"
        BY DEF Entries, Told
      <4>3. Settled!GiveUp(pending)
        BY <2>2, <4>1, <4>2 DEF Settled!GiveUp
      <4>. QED  BY <4>3 DEF Settled!Next
    <3>. QED  BY <2>2, <3>1, <3>2 DEF Teardown, Disconnected
  <2>3. ASSUME NEW r \in RequestIds, Request(r) PROVE Settled!Issue(r)
    <3>1. Told[r] = "none" /\ Told' = [Told EXCEPT ![r] = "waiting"] /\ ran' = ran
      BY <2>3 DEF Request, Told
    <3>. QED  BY <3>1 DEF Settled!Issue
  <2>4. ASSUME NEW r \in RequestIds, RequestThrows(r) PROVE Settled!Refuse(r)
    <3>1. Told[r] = "none" /\ Told' = [Told EXCEPT ![r] = "refused"] /\ ran' = ran /\ r \notin ran
      BY <2>4 DEF RequestThrows, Accounts, peerVars, Told
    <3>. QED  BY <3>1 DEF Settled!Refuse
  <2>5. ASSUME NEW r \in RequestIds, Told[r] = "waiting", ran' = ran, Told' = [Told EXCEPT ![r] = "unknown"]
        PROVE  Settled!Next
    <3>1. Told' = [q \in RequestIds |-> IF q \in {r} THEN "unknown" ELSE Told[q]]
      BY <2>5 DEF Told
    <3>2. Settled!GiveUp({r}) /\ {r} \in SUBSET RequestIds
      BY <2>5, <3>1 DEF Settled!GiveUp
    <3>. QED  BY <3>2 DEF Settled!Next
  <2>6. ASSUME NEW r \in RequestIds, PeerRuns(r) PROVE Settled!Run(r)
    <3>1. Told' = Told /\ ran' = ran \cup {r} /\ r \notin ran
      BY <2>6 DEF PeerRuns, Accounts, clientVars, Told
    <3>2. Told[r] \in {"waiting", "unknown"}
      BY <2>6 DEF PeerRuns, Accounts, Told
    <3>. QED  BY <3>1, <3>2 DEF Settled!Run
  <2>7. ASSUME NEW r \in RequestIds, RequestTimeout(r) PROVE Settled!Next
    <3>1. outcome[r] = "waiting" /\ outcome' = [outcome EXCEPT ![r] = "timeout"] /\ ran' = ran
      BY <2>7 DEF RequestTimeout, MayHaveOccurred, Entries, peerVars
    <3>2. Told[r] = "waiting" /\ Told' = [Told EXCEPT ![r] = "unknown"]
      BY <3>1 DEF Told
    <3>. QED  BY <2>5, <3>1, <3>2
  <2>10. ASSUME DeliverFrame, DispatchAnswer(Head(down)), outcome' # outcome PROVE Settled!Next
    <3>7. Head(down).id \in RequestIds
      BY <2>10 DEF DispatchAnswer, Answer
    <3>8. PICK r \in RequestIds : r = Head(down).id
      BY <3>7
    <3>1. r = Head(down).id /\ Head(down).reply \in Replies /\ Head(down).kind = "res"
      BY <2>10, <3>8 DEF DispatchAnswer, Answer
    <3>2. outcome[r] = "waiting" /\ outcome' = [outcome EXCEPT ![r] = Head(down).reply]
      BY <2>10, <3>1 DEF DispatchAnswer, StillPending, Entries
    <3>3. ran' = ran /\ (Head(down).reply = "refused" <=> r \notin ran)
      BY <2>10, <3>1, FrameFacts DEF Truthful
    <3>0. Told[r] = "waiting"
      BY <3>1, <3>2 DEF Told
    <3>4. CASE Head(down).reply = "answered"
      <4>1. Told' = [Told EXCEPT ![r] = "answered"]
        BY <3>1, <3>2, <3>4 DEF Told
      <4>2. Settled!Answer(r)
        BY <3>0, <3>3, <3>4, <4>1 DEF Settled!Answer
      <4>. QED  BY <3>1, <4>2 DEF Settled!Next
    <3>5. CASE Head(down).reply = "refused"
      <4>1. Told' = [Told EXCEPT ![r] = "refused"]
        BY <3>1, <3>2, <3>5 DEF Told
      <4>2. Settled!Refuse(r)
        BY <3>0, <3>3, <3>5, <4>1 DEF Settled!Refuse
      <4>. QED  BY <3>1, <4>2 DEF Settled!Next
    <3>6. CASE Head(down).reply = "failed"
      <4>1. Told' = [Told EXCEPT ![r] = "unknown"]
        BY <3>1, <3>2, <3>6 DEF Told
      <4>. QED  BY <2>5, <3>0, <3>1, <3>3, <4>1
    <3>. QED  BY <3>1, <3>4, <3>5, <3>6 DEF Replies
  <2>8. CASE BridgeNext /\ outcome' # outcome
    <3>1. \/ \E r \in RequestIds : Request(r) \/ RequestThrows(r) \/ RequestTimeout(r)
          \/ DeliverFrame /\ DispatchAnswer(Head(down))
          \/ Teardown /\ ran' = ran
      BY <2>8 DEF BridgeNext, Peer, Timers, Connect, Opened, Resume, Welcomed, Authenticated, Rejected,
         DeliverFrame, DispatchGreeting, DispatchEvent, DispatchGarbled, SocketEnds, Close,
         HandshakeTimeout, PeerGreets, PeerShutsDown, PeerGarbles, PeerGoes, PeerRuns, PeerAnswers, PeerRefuses, clientVars, peerVars
    <3>. QED  BY <2>2, <2>3, <2>4, <2>7, <2>10, <2>8, <3>1 DEF Settled!Next
  <2>9. CASE BridgeNext /\ ran' # ran
    <3>1. \E r \in RequestIds : PeerRuns(r)
      BY <2>9 DEF BridgeNext, Peer, Timers, Connect, Opened, Resume, DeliverFrame, SocketEnds, Close,
         HandshakeTimeout, Request, RequestThrows, RequestTimeout,
         PeerGreets, PeerShutsDown, PeerGarbles, PeerGoes, PeerAnswers, PeerRefuses, clientVars, peerVars
    <3>. QED  BY <2>6, <3>1 DEF Settled!Next
  <2>. QED  BY <2>1, <2>8, <2>9 DEF bridgeVars, clientVars, peerVars
<1>. QED  BY <1>1, <1>2, Invariance, PTL DEF BridgeSpec, CallsSettledOnce, Settled!Spec

-----------------------------------------------------------------------------
(***************************************************************************)
(* Consistent and the three action properties of Confirmations, for any    *)
(* number of calls, plans, operation ids, previews and checkpoint names.   *)
(*                                                                         *)
(* A call has a record, and the request that it sends carries a copy of    *)
(* it, which lives on when the call stops waiting. The invariant says what *)
(* each record in use, of a call or of a request, knows of its preview, of *)
(* its checkpoint and of the patch (Sound), that no two of them are of one *)
(* call or have one name (Distinct, OwnRequests), and that a confirmation  *)
(* which can still replace the patch has not done so (Unused): it is live, *)
(* or the one request that it was burned for is on its way.                *)
(*                                                                         *)
(* The plugin's operation cache is not needed: it makes a request run less *)
(* often, and none of these properties depends on it.                      *)
(***************************************************************************)

Active(c) == call[c].phase # "idle"

\* The records that calls and requests have.
InUse == {call[c] : c \in {d \in Calls : Active(d)}} \cup {queue[i].of : i \in DOMAIN queue}

\* A record has the fields of its kind and phase.
Formed(x) ==
  /\ x \in CallRecords /\ x.phase # "idle" /\ x.kind \in Kinds /\ x.serial \in 1..started
  /\ x.kind = "commit" => x.phase \in {"leasing", "waiting"}
  /\ x.kind = "checkpoint" => x.phase \in {"leasing", "copying", "uncopied", "unlinking"}
  /\ x.name = 0 <=> x.kind = "commit" \/ x.phase \in {"checking", "leasing"}

\* A record is of a preview, and of the patch that was previewed.
Bound(x) ==
  x.kind # "checkpoint" =>
    /\ x.token \in 1..minted
    /\ x.base = tokens[x.token].base
    /\ tokens[x.token].kind = (IF x.kind = "commit" THEN "plan" ELSE x.kind)

\* The name of a record is reserved, and without a checkpoint until one is written.
Named(x) ==
  x.name # 0 =>
    /\ files[x.name] # None
    /\ x.phase \in {"copying", "uncopied", "unlinking"} => kept[x.name] = None

\* A replacement past its copy has one, of the patch unless that changed.
Secured(x) ==
  (x.kind \in Replacements /\ x.phase \in {"copied", "waiting"}) =>
    /\ kept[x.name] \in Contents
    /\ <<x.serial, "copy">> \notin touched => kept[x.name] = patch.content

\* A replacement past its check is of the patch it was checked with, unless that changed.
Checked(x) ==
  (x.kind \in Replacements /\ x.phase # "checking" /\ <<x.serial, "check">> \notin touched)
    => patch.content = x.base

Sound(x) == Formed(x) /\ Bound(x) /\ Named(x) /\ Secured(x) /\ Checked(x)

\* No two records are of one call, or have one name.
Distinct ==
  /\ \A x, y \in InUse : x.serial = y.serial => x = y
  /\ \A x, y \in InUse : x.name # 0 /\ x.name = y.name => x = y

\* A call in progress has one record, and one request on its way at most, its own.
OwnRequests ==
  /\ \A c \in Calls : ~Active(c) => call[c] = Idle
  /\ \A c, d \in Calls : Active(c) /\ Active(d) /\ call[c].serial = call[d].serial => c = d
  /\ \A i, j \in DOMAIN queue : queue[i].of.serial = queue[j].of.serial => i = j
  /\ \A i \in DOMAIN queue : \A c \in Calls :
       Active(c) /\ call[c].serial = queue[i].of.serial => queue[i].by = c

\* What a request asks for is what the call that sent it had come to.
Asked ==
  \A i \in DOMAIN queue :
    LET r == queue[i] IN
    CASE r.what = "commit"   -> r.of.kind = "commit" /\ r.of.phase = "waiting"
      [] r.what = "saveCopy" -> r.of.kind # "commit" /\ r.of.phase = "copying"
      [] r.what = "replace"  -> r.of.kind \in Replacements /\ r.of.phase = "waiting"

\* What the server knows of its previews.
Previewed ==
  /\ \A t \in 1..minted : tokens[t] \in Bindings
  /\ \A h \in Plans : plans[h] # 0 => plans[h] <= minted /\ tokens[plans[h]].kind = "plan"

\* A confirmation of a replacement is unused while it is live, and while the one request
\* that it was burned for is on its way.
Unused ==
  /\ \A t \in TokenIds : t > minted => spent[t] = 0
  /\ \A t \in 1..minted : tokens[t].kind # "plan" /\ tokens[t].live => spent[t] = 0
  /\ \A i \in DOMAIN queue : queue[i].what = "replace" =>
       /\ spent[queue[i].of.token] = 0
       /\ ~tokens[queue[i].of.token].live
       /\ \A j \in DOMAIN queue :
            queue[j].what = "replace" /\ queue[j].of.token = queue[i].of.token => i = j

IInv ==
  /\ TypeOK
  /\ \A x \in InUse : Sound(x)
  /\ Distinct /\ OwnRequests /\ Asked /\ Previewed /\ Unused
  /\ OneConfirmationOneReplacement /\ CheckpointsStay

-----------------------------------------------------------------------------
(* Calls, requests and the records in use *)

\* What a sequence is after Append, and after Tail.
LEMMA AppendElements ==
  ASSUME NEW S, NEW s \in Seq(S), NEW e
  PROVE  \A i \in DOMAIN Append(s, e) :
           \/ (i \in DOMAIN s /\ Append(s, e)[i] = s[i])
           \/ (i = Len(s) + 1 /\ Append(s, e)[i] = e)
<1>1. s \in Seq(S \cup {e}) /\ e \in S \cup {e}
  OBVIOUS
<1> QED  BY <1>1

LEMMA TailElements ==
  ASSUME NEW S, NEW s \in Seq(S), s # <<>>
  PROVE  /\ Len(s) \in Nat /\ 1 \in DOMAIN s /\ Head(s) = s[1] /\ Tail(s) \in Seq(S)
         /\ \A i \in DOMAIN Tail(s) : i \in Nat /\ i + 1 \in DOMAIN s /\ i + 1 # 1
                                    /\ Tail(s)[i] = s[i + 1]
  OBVIOUS

LEMMA QueueElements ==
  ASSUME TypeOK
  PROVE  /\ Len(queue) \in Nat /\ DOMAIN queue = 1..Len(queue)
         /\ \A i \in DOMAIN queue :
              /\ queue[i].by \in Calls /\ queue[i].of \in CallRecords
              /\ queue[i].what \in {"commit", "saveCopy", "replace"}
<1>1. queue \in Seq(Requests)
  BY DEF TypeOK
<1>2. Len(queue) \in Nat /\ DOMAIN queue = 1..Len(queue) /\ \A i \in DOMAIN queue : queue[i] \in Requests
  BY <1>1
<1> QED  BY <1>2 DEF Requests

\* A call in another phase than these two has no request on its way.
LEMMA NothingSent ==
  ASSUME IInv, NEW c \in Calls, Active(c), call[c].phase \notin {"copying", "waiting"}
  PROVE  \A i \in DOMAIN queue : queue[i].of.serial # call[c].serial
<1> SUFFICES ASSUME NEW i \in DOMAIN queue, queue[i].of.serial = call[c].serial
             PROVE  FALSE
  OBVIOUS
<1>1. queue[i].of \in InUse /\ call[c] \in InUse
  BY DEF InUse
<1>2. queue[i].of = call[c]
  BY <1>1 DEF IInv, Distinct
<1>3. queue[i].what \in {"commit", "saveCopy", "replace"}
  BY QueueElements DEF IInv
<1>4. queue[i].of.phase \in {"copying", "waiting"}
  BY <1>3 DEF IInv, Asked
<1> QED  BY <1>2, <1>4

\* A call goes on, and may send a request: a new record takes the place of its old one.
LEMMA CallGoesOn ==
  ASSUME IInv, NEW c \in Calls, Active(c), call[c].phase \notin {"copying", "waiting"},
         NEW new, call' = [call EXCEPT ![c] = new], new.phase # "idle",
         new.serial = call[c].serial,
         new.name # 0 => new.name = call[c].name \/ \A y \in InUse : y.name # new.name,
         NEW what, queue' = queue \/ queue' = Append(queue, [what |-> what, by |-> c, of |-> new])
  PROVE  /\ InUse' \subseteq (InUse \ {call[c]}) \cup {new}
         /\ Distinct' /\ OwnRequests'
<1>1. \A i \in DOMAIN queue : queue[i].of.serial # call[c].serial
  BY NothingSent
<1>2. \A d \in Calls : d # c /\ Active(d) => call[d].serial # call[c].serial
  BY DEF IInv, OwnRequests
<1>3. call' = [d \in Calls |-> IF d = c THEN new ELSE call[d]]
  BY DEF IInv, TypeOK
<1>4. Len(queue) \in Nat /\ DOMAIN queue = 1..Len(queue)
  BY QueueElements DEF IInv
<1>5. \A i \in DOMAIN queue' :
        \/ (i \in DOMAIN queue /\ queue'[i] = queue[i])
        \/ (i = Len(queue) + 1 /\ queue'[i].of = new /\ queue'[i].by = c)
  <2>1. CASE queue' = queue
    BY <2>1
  <2>2. CASE queue' = Append(queue, [what |-> what, by |-> c, of |-> new])
    BY <2>2, AppendElements DEF IInv, TypeOK
  <2> QED  BY <2>1, <2>2
<1>6. InUse' \subseteq (InUse \ {call[c]}) \cup {new}
  <2> SUFFICES ASSUME NEW x \in InUse', x # new
               PROVE  x \in InUse \ {call[c]}
    OBVIOUS
  <2>1. ASSUME NEW d \in Calls, call'[d].phase # "idle", x = call'[d]
        PROVE  x \in InUse /\ x.serial # call[c].serial
    <3>1. d # c /\ call'[d] = call[d]
      BY <2>1, <1>3
    <3>2. Active(d)
      BY <2>1, <3>1 DEF Active
    <3> QED  BY <2>1, <3>1, <3>2, <1>2 DEF InUse
  <2>2. ASSUME NEW i \in DOMAIN queue', x = queue'[i].of
        PROVE  x \in InUse /\ x.serial # call[c].serial
    BY <2>2, <1>1, <1>5 DEF InUse
  <2> QED  BY <2>1, <2>2 DEF InUse, Active
<1>7. Distinct'
  <2>1. call[c] \in InUse
    BY DEF InUse
  <2>2. \A x \in InUse' : x # new => x \in InUse /\ x.serial # new.serial
                                   /\ (new.name # 0 => x.name # new.name)
    BY <1>6, <2>1 DEF IInv, Distinct
  <2> QED  BY <2>2 DEF IInv, Distinct
<1>8. OwnRequests'
  <2>1. ASSUME NEW d \in Calls, NEW e \in Calls, Active(d)', Active(e)', call'[d].serial = call'[e].serial
        PROVE  d = e
    BY <2>1, <1>2, <1>3 DEF IInv, OwnRequests, Active
  <2>2. ASSUME NEW i \in DOMAIN queue', NEW j \in DOMAIN queue',
               queue'[i].of.serial = queue'[j].of.serial
        PROVE  i = j
    BY <2>2, <1>1, <1>5 DEF IInv, OwnRequests
  <2>3. ASSUME NEW i \in DOMAIN queue', NEW d \in Calls, Active(d)',
               call'[d].serial = queue'[i].of.serial
        PROVE  queue'[i].by = d
    BY <2>3, <1>1, <1>2, <1>3, <1>5 DEF IInv, OwnRequests, Active
  <2>4. \A d \in Calls : ~Active(d)' => call'[d] = Idle
    BY <1>3 DEF IInv, OwnRequests, Active
  <2> QED  BY <2>1, <2>2, <2>3, <2>4 DEF OwnRequests, Idle
<1> QED  BY <1>6, <1>7, <1>8

LEMMA CallEnds ==
  ASSUME IInv, NEW c \in Calls, call' = [call EXCEPT ![c] = Idle], queue' = queue
  PROVE  /\ InUse' \subseteq InUse
         /\ Active(c) /\ call[c].phase \notin {"copying", "waiting"} => call[c] \notin InUse'
         /\ Distinct' /\ OwnRequests'
<1>1. call' = [d \in Calls |-> IF d = c THEN Idle ELSE call[d]]
  BY DEF IInv, TypeOK
<1>2. \A d \in Calls : call'[d].phase # "idle" => d # c /\ call'[d] = call[d] /\ Active(d)
  BY <1>1 DEF Idle, Active
<1>3. InUse' \subseteq InUse
  BY <1>2 DEF InUse, Active
<1>4. ASSUME Active(c), call[c].phase \notin {"copying", "waiting"}
      PROVE  call[c] \notin InUse'
  <2>1. \A i \in DOMAIN queue : queue[i].of # call[c]
    BY <1>4, NothingSent
  <2>2. \A d \in Calls : d # c /\ Active(d) => call[d] # call[c]
    BY <1>4 DEF IInv, OwnRequests
  <2> QED  BY <2>1, <2>2, <1>2 DEF InUse, Active
<1>5. Distinct'
  BY <1>3 DEF IInv, Distinct
<1>6. OwnRequests'
  BY <1>1, <1>2 DEF IInv, OwnRequests, Active, Idle
<1> QED  BY <1>3, <1>4, <1>5, <1>6

LEMMA CallBegins ==
  ASSUME IInv, NEW c \in Calls, NEW new, call' = [call EXCEPT ![c] = new], queue' = queue,
         ~Active(c), new.phase # "idle", new.serial = started + 1, new.name = 0
  PROVE  /\ InUse' \subseteq InUse \cup {new}
         /\ Distinct' /\ OwnRequests'
<1>1. call' = [d \in Calls |-> IF d = c THEN new ELSE call[d]]
  BY DEF IInv, TypeOK
<1>2. \A x \in InUse : x.serial # new.serial
  <2>1. \A x \in InUse : x.serial \in 1..started
    BY DEF IInv, Sound, Formed
  <2>2. started \in Nat
    BY ConfirmationsAssumption DEF IInv, TypeOK
  <2> QED  BY <2>1, <2>2
<1>3. \A d \in Calls : d # c => call'[d] = call[d]
  BY <1>1
<1>4. InUse' \subseteq InUse \cup {new}
  BY <1>1, <1>3 DEF InUse, Active
<1>5. Distinct'
  BY <1>2, <1>4 DEF IInv, Distinct
<1>6. \A i \in DOMAIN queue : queue[i].of.serial # new.serial
  BY <1>2 DEF InUse
<1>7. \A d \in Calls : d # c /\ call'[d].phase # "idle" => Active(d) /\ call'[d].serial # new.serial
  BY <1>2, <1>3 DEF InUse, Active
<1>8. OwnRequests'
  <2>1. ASSUME NEW d \in Calls, NEW e \in Calls, Active(d)', Active(e)', call'[d].serial = call'[e].serial
        PROVE  d = e
    BY <2>1, <1>1, <1>3, <1>7 DEF IInv, OwnRequests, Active
  <2>2. ASSUME NEW i \in DOMAIN queue, NEW d \in Calls, Active(d)',
               call'[d].serial = queue[i].of.serial
        PROVE  queue[i].by = d
    BY <2>2, <1>1, <1>3, <1>6, <1>7 DEF IInv, OwnRequests, Active
  <2>3. \A d \in Calls : ~Active(d)' => call'[d] = Idle
    BY <1>1 DEF IInv, OwnRequests, Active
  <2> QED  BY <2>1, <2>2, <2>3 DEF IInv, OwnRequests, Idle
<1> QED  BY <1>4, <1>5, <1>8

\* The plugin answers its first request, and the call goes on with another record, or
\* ends; or it does not wait for the answer.
LEMMA CallAnswered ==
  ASSUME IInv, queue # <<>>, queue' = Tail(queue), NEW new,
         \/ call[Head(queue).by] # Head(queue).of /\ call' = call
         \/ call[Head(queue).by] = Head(queue).of /\ call' = [call EXCEPT ![Head(queue).by] = new],
         \/ new = Idle
         \/ new.phase # "idle" /\ new.serial = Head(queue).of.serial /\ new.name = Head(queue).of.name
  PROVE  /\ InUse' \subseteq (InUse \ {Head(queue).of}) \cup {new}
         /\ new = Idle \/ call[Head(queue).by] # Head(queue).of => InUse' \subseteq InUse \ {Head(queue).of}
         /\ Distinct' /\ OwnRequests'
<1> DEFINE r == Head(queue)
<1>1. /\ 1 \in DOMAIN queue /\ r = queue[1]
      /\ \A i \in DOMAIN queue' : i \in Nat /\ i + 1 \in DOMAIN queue /\ i + 1 # 1
                                /\ queue'[i] = queue[i + 1]
  BY TailElements DEF IInv, TypeOK
<1>2. r.by \in Calls
  BY <1>1, QueueElements DEF IInv
<1>3. r.of \in InUse /\ r.of.phase # "idle"
  <2>1. r.of \in InUse
    BY <1>1 DEF InUse
  <2> QED  BY <2>1 DEF IInv, Sound, Formed
<1> HIDE DEF r
<1>4. \A i \in DOMAIN queue' : queue'[i].of \in InUse /\ queue'[i].of.serial # r.of.serial
  BY <1>1 DEF IInv, OwnRequests, InUse
<1>5. \A d \in Calls : Active(d) /\ call[d].serial = r.of.serial => d = r.by
  BY <1>1 DEF IInv, OwnRequests
<1>6. \A d \in Calls : Active(d) /\ call[d].serial = r.of.serial => call[d] = r.of
  BY <1>3 DEF IInv, Distinct, InUse
<1>7. ASSUME NEW d \in Calls, call'[d].phase # "idle"
      PROVE  \/ (d = r.by /\ call'[d] = new /\ new.phase # "idle" /\ call[d] = r.of)
             \/ (call'[d] = call[d] /\ Active(d) /\ call[d].serial # r.of.serial)
  <2>1. CASE call' = call /\ call[r.by] # r.of
    BY <1>5, <1>6, <1>7, <2>1 DEF Active
  <2>2. CASE call[r.by] = r.of /\ call' = [call EXCEPT ![r.by] = new] /\ d = r.by
    BY <1>2, <1>7, <2>2, <1>3 DEF IInv, TypeOK
  <2>3. CASE call[r.by] = r.of /\ call' = [call EXCEPT ![r.by] = new] /\ d # r.by
    BY <1>5, <1>7, <2>3 DEF IInv, TypeOK, Active
  <2> QED  BY <2>1, <2>2, <2>3 DEF r
<1>8. \A x \in InUse' : \/ (x \in InUse /\ x.serial # r.of.serial)
                        \/ (x = new /\ new.phase # "idle" /\ call[r.by] = r.of)
  BY <1>4, <1>7 DEF InUse, Active
<1>9. /\ InUse' \subseteq (InUse \ {r.of}) \cup {new}
      /\ new = Idle \/ call[r.by] # r.of => InUse' \subseteq InUse \ {r.of}
  BY <1>8 DEF Idle
<1>10. Distinct'
  <2>1. \A x \in InUse : x.serial # r.of.serial => x.name = 0 \/ x.name # r.of.name
    BY <1>3 DEF IInv, Distinct
  <2>2. new.phase # "idle" => new.serial = r.of.serial /\ new.name = r.of.name
    BY DEF r, Idle
  <2> QED  BY <1>8, <2>1, <2>2 DEF IInv, Distinct
<1>11. OwnRequests'
  <2>1. new.phase # "idle" => new.serial = r.of.serial
    BY DEF r, Idle
  <2>2. ASSUME NEW d \in Calls, NEW e \in Calls, Active(d)', Active(e)', call'[d].serial = call'[e].serial
        PROVE  d = e
    BY <2>1, <2>2, <1>7 DEF IInv, OwnRequests, Active
  <2>3. ASSUME NEW i \in DOMAIN queue', NEW j \in DOMAIN queue',
               queue'[i].of.serial = queue'[j].of.serial
        PROVE  i = j
    <3>1. i + 1 = j + 1
      BY <2>3, <1>1 DEF IInv, OwnRequests
    <3> QED  BY <3>1, <1>1
  <2>4. ASSUME NEW i \in DOMAIN queue', NEW d \in Calls, Active(d)',
               call'[d].serial = queue'[i].of.serial
        PROVE  queue'[i].by = d
    BY <2>1, <2>4, <1>1, <1>4, <1>7 DEF IInv, OwnRequests, Active
  <2>5. \A d \in Calls : ~Active(d)' => call'[d] = Idle
    <3>1. CASE call' = call
      BY <3>1 DEF IInv, OwnRequests, Active
    <3>2. CASE call' = [call EXCEPT ![r.by] = new]
      BY <3>2, <1>2 DEF IInv, OwnRequests, Active, TypeOK, r
    <3> QED  BY <3>1, <3>2 DEF r
  <2> QED  BY <2>2, <2>3, <2>4, <2>5 DEF OwnRequests, Idle
<1> QED  BY <1>9, <1>10, <1>11 DEF r

-----------------------------------------------------------------------------
(* A record stays sound *)

\* No preview loses what it was of.
TokensKept ==
  /\ minted' \in Nat /\ minted <= minted'
  /\ \A t \in 1..minted : tokens'[t].base = tokens[t].base /\ tokens'[t].kind = tokens[t].kind

LEMMA StaysSound ==
  ASSUME IInv, NEW x, Sound(x), started \in Nat, started' \in Nat, started <= started', TokensKept,
         x.name # 0 => files'[x.name] # None /\ kept'[x.name] = kept[x.name],
         x.kind \in Replacements =>
           \/ patch' = patch /\ \A k \in {"check", "copy"} :
                                <<x.serial, k>> \in touched => <<x.serial, k>> \in touched'
           \/ \A k \in {"check", "copy"} : <<x.serial, k>> \in touched'
  PROVE  Sound(x)'
<1>1. Formed(x)'
  BY DEF Sound, Formed
<1>2. Bound(x)'
  BY DEF Sound, Bound, TokensKept, IInv, TypeOK
<1>3. Named(x)'
  BY DEF Sound, Named
<1>4. Secured(x)'
  <2>1. x.kind \in Replacements /\ x.phase \in {"copied", "waiting"} => x.name # 0
    BY DEF Sound, Formed, Replacements, Kinds
  <2> QED  BY <2>1 DEF Sound, Secured
<1>5. Checked(x)'
  BY DEF Sound, Checked
<1> QED  BY <1>1, <1>2, <1>3, <1>4, <1>5 DEF Sound

LEMMA Numbers ==
  ASSUME TypeOK
  PROVE  /\ MaxTokens \in Nat /\ MaxCalls \in Nat /\ MaxNames \in Nat
         /\ started \in Nat /\ minted \in Nat /\ minted <= MaxTokens /\ started <= MaxCalls
         /\ 1..minted \subseteq TokenIds
  BY ConfirmationsAssumption DEF TypeOK, TokenIds

LEMMA StaySound ==
  ASSUME IInv, TokensKept, UNCHANGED <<patch, touched, files, kept>>,
         started' = started \/ started' = started + 1
  PROVE  \A x \in InUse : Sound(x)'
<1> SUFFICES ASSUME NEW x \in InUse PROVE Sound(x)'
  OBVIOUS
<1>1. Sound(x) /\ Named(x)
  BY DEF IInv, Sound
<1>2. x.name # 0 => files'[x.name] # None /\ kept'[x.name] = kept[x.name]
  BY <1>1 DEF Named
<1>3. started \in Nat /\ started' \in Nat /\ started <= started'
  BY Numbers DEF IInv
<1>4. patch' = patch /\ touched' = touched
  OBVIOUS
<1> QED  BY <1>1, <1>2, <1>3, <1>4, StaysSound

\* A request to replace the patch is of a preview.
LEMMA RequestsArePreviewed ==
  ASSUME IInv
  PROVE  \A i \in DOMAIN queue : queue[i].what = "replace" =>
            queue[i].of.token \in 1..minted /\ tokens[queue[i].of.token].kind # "plan"
<1> SUFFICES ASSUME NEW i \in DOMAIN queue, queue[i].what = "replace"
             PROVE  queue[i].of.token \in 1..minted /\ tokens[queue[i].of.token].kind # "plan"
  OBVIOUS
<1>1. queue[i].of \in InUse /\ queue[i].of.kind \in Replacements
  BY DEF IInv, Asked, InUse
<1> QED  BY <1>1 DEF IInv, Sound, Bound, Replacements

LEMMA SameRecords ==
  ASSUME IInv, call' = call, queue' = queue
  PROVE  InUse' = InUse /\ Distinct' /\ OwnRequests' /\ Asked'
<1>1. InUse' = InUse
  BY DEF InUse, Active
<1>2. Distinct'
  BY <1>1 DEF IInv, Distinct
<1>3. OwnRequests'
  BY DEF IInv, OwnRequests, Active
<1>4. Asked'
  BY DEF IInv, Asked
<1> QED  BY <1>1, <1>2, <1>3, <1>4

-----------------------------------------------------------------------------
(* Each step preserves the invariant: the patch changes, and previews *)

\* When the patch changes, every replacement that is yet to come is marked.
LEMMA ChangeMarks ==
  ASSUME IInv, NEW content \in Contents, NEW epoch \in Epochs, ChangePatch(content, epoch)
  PROVE  /\ patch' \in [content : Contents, epoch : Epochs]
         /\ touched' \subseteq (1..MaxCalls) \X {"check", "copy"}
         /\ \A x \in InUse : x.kind \in Replacements =>
              \A k \in {"check", "copy"} : <<x.serial, k>> \in touched'
<1>1. \A x \in InUse : x.kind \in Replacements => x.serial \in Replacing
  BY DEF Replacing, InUse
<1>2. \A n \in Replacing : n \in 1..MaxCalls
  <2>1. ASSUME NEW c \in Calls, call[c].kind \in Replacements
        PROVE  call[c] \in InUse
    <3>1. None \notin Replacements
      BY ConfirmationsAssumption DEF Kinds, Replacements
    <3>2. Active(c)
      BY <2>1, <3>1 DEF IInv, OwnRequests, Idle
    <3> QED  BY <3>2 DEF InUse
  <2>2. \A n \in Replacing : \E x \in InUse : n = x.serial
    BY <2>1 DEF Replacing, InUse
  <2>3. \A x \in InUse : x.serial \in 1..started
    BY DEF IInv, Sound, Formed
  <2> QED  BY <2>2, <2>3, Numbers DEF IInv
<1>3. touched' = touched \cup (Replacing \X {"check", "copy"})
  BY DEF ChangePatch
<1>4. touched' \subseteq (1..MaxCalls) \X {"check", "copy"}
  BY <1>2, <1>3 DEF IInv, TypeOK
<1>5. patch' \in [content : Contents, epoch : Epochs]
  BY DEF ChangePatch
<1> QED  BY <1>1, <1>3, <1>4, <1>5

LEMMA UserActsPreserves ==
  ASSUME IInv, UNCHANGED mix, NEW content \in Contents, UserActs(content)
  PROVE  IInv'
<1>1. PICK epoch \in Epochs : ChangePatch(content, epoch)
  <2>1. patch.epoch \in Epochs /\ patch.epoch + 1 \in Epochs
    BY DEF IInv, TypeOK, Epochs
  <2> QED  BY <2>1 DEF UserActs
<1>2. UNCHANGED <<files, queue, tokens, plans, minted, call, started, spent, kept, mix>>
  BY DEF UserActs, server, ghosts
<1>3. TypeOK'
  BY <1>1, <1>2, ChangeMarks DEF IInv, TypeOK
<1>4. \A x \in InUse' : Sound(x)'
  <2>1. TokensKept
    BY <1>2, Numbers DEF IInv, TokensKept
  <2> SUFFICES ASSUME NEW x \in InUse PROVE Sound(x)'
    BY <1>2, SameRecords
  <2>2. Sound(x) /\ Formed(x) /\ Named(x)
    BY DEF IInv, Sound
  <2>3. x.name # 0 => files'[x.name] # None /\ kept'[x.name] = kept[x.name]
    BY <1>2, <2>2 DEF Named
  <2>4. x.kind \in Replacements => \A k \in {"check", "copy"} : <<x.serial, k>> \in touched'
    BY <1>1, ChangeMarks
  <2>5. started \in Nat /\ started' \in Nat /\ started <= started'
    BY <1>2, Numbers DEF IInv
  <2> QED  BY <2>1, <2>2, <2>3, <2>4, <2>5, StaysSound
<1>5. Previewed' /\ Unused' /\ OneConfirmationOneReplacement' /\ CheckpointsStay'
  BY <1>2 DEF IInv, Previewed, Unused, OneConfirmationOneReplacement, CheckpointsStay
<1> QED  BY <1>2, <1>3, <1>4, <1>5, SameRecords DEF IInv

\* A new preview of a plan or of a replacement.
LEMMA MintPreserves ==
  ASSUME IInv, UNCHANGED mix, NEW kind \in {"plan"} \cup Replacements, NEW plan \in Plans \cup {None},
         NEW risky \in BOOLEAN, Mint(kind, plan, risky),
         UNCHANGED <<patch, queue, files, call, started, touched, spent, kept>>,
         \/ plans' = plans
         \/ kind = "plan" /\ \E h \in Plans : plans' = [plans EXCEPT ![h] = minted']
  PROVE  IInv'
<1> DEFINE new == [kind |-> kind, plan |-> plan, base |-> patch.content, epoch |-> patch.epoch,
                   risky |-> risky, live |-> TRUE]
<1>1. /\ minted' = minted + 1 /\ minted' \in 1..MaxTokens /\ minted \in Nat
      /\ tokens' = [tokens EXCEPT ![minted'] = new]
      /\ minted' \in TokenIds /\ minted' \notin 1..minted
  BY Numbers DEF IInv, Mint, TokenIds
<1>2. new \in Bindings /\ new.kind = kind
  BY DEF IInv, TypeOK, Bindings
<1> HIDE DEF new
<1>3. /\ tokens' \in [TokenIds -> Bindings \cup {None}] /\ tokens'[minted'] = new
      /\ \A t \in TokenIds : t # minted' => tokens'[t] = tokens[t]
  BY <1>1, <1>2 DEF IInv, TypeOK
<1>4. plans' \in [Plans -> 0..MaxTokens]
  <2>1. minted' \in 0..MaxTokens /\ plans \in [Plans -> 0..MaxTokens]
    BY <1>1 DEF IInv, TypeOK
  <2>2. ASSUME NEW h \in Plans, plans' = [plans EXCEPT ![h] = minted']
        PROVE  plans' \in [Plans -> 0..MaxTokens]
    BY <2>1, <2>2
  <2> QED  BY <2>1, <2>2
<1>5. TypeOK'
  BY <1>1, <1>3, <1>4 DEF IInv, TypeOK
<1>6. \A t \in 1..minted : tokens'[t] = tokens[t]
  BY <1>1, <1>3, Numbers DEF IInv
<1>7. \A x \in InUse' : Sound(x)'
  <2>1. TokensKept
    BY <1>1, <1>6 DEF TokensKept
  <2> QED  BY <2>1, StaySound, SameRecords
<1>8. Previewed'
  <2>1. \A t \in 1..minted' : tokens'[t] \in Bindings
    <3>1. \A t \in 1..minted' : t \in 1..minted \/ t = minted'
      BY <1>1
    <3> QED  BY <3>1, <1>2, <1>3, <1>6 DEF IInv, Previewed
  <2>2. ASSUME NEW h \in Plans, plans'[h] # 0
        PROVE  plans'[h] <= minted' /\ tokens'[plans'[h]].kind = "plan"
    <3>1. CASE plans'[h] = plans[h]
      <4>1. plans[h] \in 1..minted /\ tokens[plans[h]].kind = "plan"
        BY <2>2, <3>1, <1>1 DEF IInv, Previewed, TypeOK
      <4> QED  BY <3>1, <4>1, <1>1, <1>6
    <3>2. CASE plans'[h] = minted' /\ kind = "plan"
      BY <3>2, <1>1, <1>2, <1>3
    <3> QED  BY <3>1, <3>2 DEF IInv, TypeOK
  <2> QED  BY <2>1, <2>2 DEF Previewed
<1>9. Unused'
  <2>1. \A t \in 1..minted' : tokens'[t].kind # "plan" /\ tokens'[t].live => spent[t] = 0
    <3>1. \A t \in 1..minted' : t \in 1..minted \/ (t \in TokenIds /\ t > minted)
      BY <1>1
    <3> QED  BY <3>1, <1>6 DEF IInv, Unused
  <2>2. \A i \in DOMAIN queue : queue[i].what = "replace" => queue[i].of.token \in 1..minted
    BY RequestsArePreviewed
  <2>3. \A t \in TokenIds : t > minted' => spent[t] = 0
    BY <1>1 DEF IInv, Unused, TokenIds
  <2> QED  BY <2>1, <2>2, <2>3, <1>6 DEF IInv, Unused
<1>10. OneConfirmationOneReplacement'
  <2>1. \A t \in 1..minted' : t \in 1..minted \/ (t \in TokenIds /\ t > minted)
    BY <1>1
  <2> QED  BY <2>1, <1>6 DEF IInv, OneConfirmationOneReplacement, Unused
<1>11. CheckpointsStay'
  BY DEF IInv, CheckpointsStay
<1> QED  BY <1>5, <1>7, <1>8, <1>9, <1>10, <1>11, SameRecords DEF IInv

LEMMA PreviewsPreserve ==
  ASSUME IInv, UNCHANGED mix, Previews
  PROVE  IInv'
<1>1. ASSUME NEW h \in Plans, NEW risky \in BOOLEAN, PreviewPlan(h, risky)
      PROVE  IInv'
  BY <1>1, MintPreserves DEF PreviewPlan, plugin, ghosts
<1>2. ASSUME NEW kind \in Replacements, PreviewLoad(kind)
      PROVE  IInv'
  BY <1>2, MintPreserves DEF PreviewLoad, plugin, ghosts
<1> QED  BY <1>1, <1>2 DEF Previews

\* A preview ends: it has expired, or has been used.
LEMMA TokenEnds ==
  ASSUME IInv, NEW t \in 1..minted, tokens' = [tokens EXCEPT ![t].live = FALSE], minted' = minted
  PROVE  /\ TokensKept
         /\ tokens' \in [TokenIds -> Bindings \cup {None}]
         /\ \A u \in 1..minted : tokens'[u] \in Bindings /\ tokens'[u].kind = tokens[u].kind
         /\ \A u \in 1..minted : tokens'[u].live => tokens[u].live
         /\ ~tokens'[t].live
<1>1. \A u \in 1..minted : tokens[u] \in Bindings /\ u \in TokenIds
  BY Numbers DEF IInv, Previewed
<1>2. tokens' = [u \in TokenIds |-> IF u = t THEN [tokens[t] EXCEPT !.live = FALSE] ELSE tokens[u]]
  BY DEF IInv, TypeOK
<1> DEFINE ended == [tokens[t] EXCEPT !.live = FALSE]
<1>3. /\ ended \in Bindings /\ ended.kind = tokens[t].kind /\ ended.base = tokens[t].base
      /\ ended.live = FALSE
  BY <1>1 DEF Bindings
<1> HIDE DEF ended
<1>4. /\ \A u \in TokenIds : tokens'[u] = IF u = t THEN ended ELSE tokens[u]
      /\ tokens' = [u \in TokenIds |-> IF u = t THEN ended ELSE tokens[u]]
  BY <1>2 DEF ended
<1>5. tokens' \in [TokenIds -> Bindings \cup {None}]
  BY <1>3, <1>4 DEF IInv, TypeOK
<1>6. \A u \in 1..minted : /\ tokens'[u] \in Bindings /\ tokens'[u].kind = tokens[u].kind
                        /\ tokens'[u].base = tokens[u].base
  BY <1>1, <1>3, <1>4
<1>7. \A u \in 1..minted : tokens'[u].live => tokens[u].live
  BY <1>1, <1>3, <1>4
<1>8. ~tokens'[t].live
  BY <1>1, <1>3, <1>4
<1>9. TokensKept
  BY <1>6, Numbers DEF TokensKept, IInv
<1> QED  BY <1>5, <1>6, <1>7, <1>8, <1>9

LEMMA ExpirePreserves ==
  ASSUME IInv, UNCHANGED mix, NEW t \in TokenIds, Expire(t)
  PROVE  IInv'
<1>1. UNCHANGED <<patch, queue, files, minted, call, started, touched, spent, kept>>
  BY DEF Expire, plugin, ghosts
<1>2. t \in 1..minted /\ tokens' = [tokens EXCEPT ![t].live = FALSE]
  BY DEF Expire, Live
<1>3. /\ TokensKept
      /\ tokens' \in [TokenIds -> Bindings \cup {None}]
      /\ \A u \in 1..minted : tokens'[u] \in Bindings /\ tokens'[u].kind = tokens[u].kind
  <2>1. minted' = minted
    BY <1>1
  <2> QED  BY <1>2, <2>1, TokenEnds, Zenon
<1>4. /\ \A h \in Plans : plans'[h] = 0 \/ plans'[h] = plans[h]
      /\ plans' \in [Plans -> 0..MaxTokens]
  BY Numbers DEF Expire, IInv, TypeOK
<1>5. TypeOK'
  BY <1>1, <1>3, <1>4 DEF IInv, TypeOK
<1>6. \A x \in InUse' : Sound(x)'
  BY <1>1, <1>3, StaySound, SameRecords
<1>7. Previewed'
  <2>1. \A h \in Plans : plans'[h] # 0 => plans[h] \in 1..minted /\ plans'[h] = plans[h]
    BY <1>4 DEF IInv, Previewed, TypeOK
  <2> QED  BY <1>1, <1>3, <2>1 DEF IInv, Previewed
<1>8. Unused'
  <2>1. \A u \in 1..minted : tokens'[u].kind # "plan" /\ tokens'[u].live => spent[u] = 0
    BY <1>1, <1>2, TokenEnds DEF IInv, Unused
  <2>2. \A i \in DOMAIN queue : queue[i].what = "replace" => ~tokens'[queue[i].of.token].live
    BY <1>1, <1>2, TokenEnds, RequestsArePreviewed DEF IInv, Unused
  <2> QED  BY <1>1, <2>1, <2>2 DEF IInv, Unused
<1>9. OneConfirmationOneReplacement' /\ CheckpointsStay'
  BY <1>1, <1>3 DEF IInv, OneConfirmationOneReplacement, CheckpointsStay
<1> QED  BY <1>1, <1>5, <1>6, <1>7, <1>8, <1>9, SameRecords DEF IInv

-----------------------------------------------------------------------------
(* Each step preserves the invariant: calls begin *)

LEMMA BeginPreserves ==
  ASSUME IInv, UNCHANGED mix, NEW c \in Calls, NEW kind \in Kinds, NEW op \in Ops,
         NEW plan \in Plans \cup {None}, NEW base \in Contents \cup {None},
         NEW token \in 0..MaxTokens, NEW phase \in {"checking", "leasing"},
         phase = "checking" <=> kind \in Replacements,
         kind # "checkpoint" =>
           /\ token \in 1..minted /\ base = tokens[token].base
           /\ tokens[token].kind = (IF kind = "commit" THEN "plan" ELSE kind),
         Begin(c, kind, op, plan, base, token, phase),
         UNCHANGED <<patch, queue, files, plans, tokens, minted, touched, spent, kept>>
  PROVE  IInv'
<1> PICK new : new = [phase |-> phase, serial |-> started', kind |-> kind, op |-> op, plan |-> plan,
                      base |-> base, token |-> token, name |-> 0]
  OBVIOUS
<1>1. /\ started \in Nat /\ started' = started + 1 /\ started' \in 1..MaxCalls
      /\ ~Active(c) /\ call' = [call EXCEPT ![c] = new]
  BY Numbers DEF Begin, Active, IInv
<1>2. /\ new \in CallRecords /\ new.phase = phase /\ new.serial = started' /\ new.kind = kind
      /\ new.base = base /\ new.token = token /\ new.name = 0
  BY <1>1, Numbers DEF CallRecords, Phases, IInv
<1>3. /\ InUse' \subseteq InUse \cup {new}
      /\ Distinct' /\ OwnRequests'
  <2>1. new.phase # "idle" /\ new.serial = started + 1 /\ queue' = queue
    BY <1>1, <1>2
  <2> QED  BY <1>1, <1>2, <2>1, CallBegins
<1>4. TypeOK'
  BY <1>1, <1>2 DEF IInv, TypeOK
<1>5. \A x \in InUse' : Sound(x)'
  <2>1. TokensKept
    BY Numbers DEF IInv, TokensKept
  <2>2. \A x \in InUse : Sound(x)'
    BY <1>1, <2>1, StaySound
  <2>3. Formed(new)'
    BY <1>1, <1>2 DEF Formed, Replacements, Kinds
  <2>4. Bound(new)'
    BY <1>2 DEF Bound
  <2>5. Named(new)' /\ Secured(new)' /\ Checked(new)'
    BY <1>2 DEF Named, Secured, Checked
  <2> QED  BY <1>3, <2>2, <2>3, <2>4, <2>5 DEF Sound
<1>6. Asked' /\ Previewed' /\ Unused' /\ OneConfirmationOneReplacement' /\ CheckpointsStay'
  BY DEF IInv, Asked, Previewed, Unused, OneConfirmationOneReplacement, CheckpointsStay
<1> QED  BY <1>3, <1>4, <1>5, <1>6 DEF IInv

LEMMA StartsPreserve ==
  ASSUME IInv, UNCHANGED mix, NEW c \in Calls, Starts(c)
  PROVE  IInv'
<1>1. PICK op \in Ops :
        \/ \E h \in Plans, expected \in Contents, t \in TokenIds : CommitChecks(c, op, h, expected, t)
        \/ \E kind \in Replacements, t \in TokenIds : LoadVerifies(c, op, kind, t)
        \/ CheckpointBegins(c, op)
  BY Zenon DEF Starts
<1>2. ASSUME NEW h \in Plans, NEW expected \in Contents, NEW t \in TokenIds,
             CommitChecks(c, op, h, expected, t)
      PROVE  IInv'
  <2>1. /\ plans[h] # 0 /\ expected = tokens[plans[h]].base
        /\ TokenBinds(t, h, expected) \/ t = plans[h]
        /\ Begin(c, "commit", op, h, expected, t, "leasing")
    BY <1>2, Zenon DEF CommitChecks, ExpectedIsPreviewed
  <2>2. t \in 1..minted /\ expected = tokens[t].base /\ tokens[t].kind = "plan"
    <3>1. CASE TokenBinds(t, h, expected)
      BY <3>1, Zenon DEF TokenBinds, Live
    <3>2. CASE t = plans[h]
      BY <2>1, <3>2 DEF IInv, Previewed, TypeOK
    <3> QED  BY <2>1, <3>1, <3>2
  <2>3. UNCHANGED <<patch, queue, files, plans, tokens, minted, touched, spent, kept>>
    BY <1>2 DEF CommitChecks, plugin, server, ghosts
  <2>4. t \in 0..MaxTokens /\ "commit" \in Kinds /\ "commit" \notin Replacements
    BY DEF TokenIds, Kinds, Replacements
  <2> QED  BY <2>1, <2>2, <2>3, <2>4, BeginPreserves
<1>3. ASSUME NEW kind \in Replacements, NEW t \in TokenIds, LoadVerifies(c, op, kind, t)
      PROVE  IInv'
  <2>1. t \in 1..minted /\ tokens[t].kind = kind /\ Begin(c, kind, op, None, tokens[t].base, t, "checking")
    BY <1>3, Zenon DEF LoadVerifies, LoadTokenBinds, Live
  <2>2. UNCHANGED <<patch, queue, files, plans, tokens, minted, touched, spent, kept>>
    BY <1>3 DEF LoadVerifies, plugin, server, ghosts
  <2>3. t \in 0..MaxTokens /\ kind \in Kinds /\ kind # "commit" /\ kind # "checkpoint"
    BY DEF TokenIds, Kinds, Replacements
  <2>4. tokens[t].base \in Contents
    BY <2>1 DEF IInv, Previewed, Bindings
  <2> QED  BY <2>1, <2>2, <2>3, <2>4, BeginPreserves
<1>4. ASSUME CheckpointBegins(c, op)
      PROVE  IInv'
  <2>1. UNCHANGED <<patch, queue, files, plans, tokens, minted, touched, spent, kept>>
    BY <1>4 DEF CheckpointBegins, plugin, server, ghosts
  <2>2. 0 \in 0..MaxTokens /\ "checkpoint" \in Kinds /\ "checkpoint" \notin Replacements
    BY Numbers DEF IInv, Kinds, Replacements
  <2> QED  BY <1>4, <2>1, <2>2, BeginPreserves DEF CheckpointBegins
<1> QED  BY <1>1, <1>2, <1>3, <1>4, Zenon

-----------------------------------------------------------------------------
(* Each step preserves the invariant: calls end *)

LEMMA IdleTyped ==
  ASSUME TypeOK, NEW c \in Calls, End(c)
  PROVE  call' \in [Calls -> CallRecords]
<1>1. Idle \in CallRecords
  BY Numbers DEF Idle, CallRecords, Phases
<1> QED  BY <1>1 DEF End, TypeOK

LEMMA EndPreserves ==
  ASSUME IInv, UNCHANGED mix, NEW c \in Calls, End(c),
         UNCHANGED <<patch, queue, files, plans, tokens, minted, started, touched, spent, kept>>
  PROVE  IInv'
<1>1. /\ InUse' \subseteq InUse
      /\ Distinct' /\ OwnRequests'
  BY CallEnds DEF End
<1>2. TypeOK'
  BY IdleTyped DEF IInv, TypeOK
<1>3. \A x \in InUse' : Sound(x)'
  <2>1. TokensKept
    BY Numbers DEF IInv, TokensKept
  <2> QED  BY <1>1, <2>1, StaySound
<1>4. Asked' /\ Previewed' /\ Unused' /\ OneConfirmationOneReplacement' /\ CheckpointsStay'
  BY DEF IInv, Asked, Previewed, Unused, OneConfirmationOneReplacement, CheckpointsStay
<1> QED  BY <1>1, <1>2, <1>3, <1>4 DEF IInv

\* A name is given back; no other record has it, and no checkpoint has been written there.
LEMMA ReleaseUnlinksPreserves ==
  ASSUME IInv, UNCHANGED mix, NEW c \in Calls, ReleaseUnlinks(c)
  PROVE  IInv'
<1>1. /\ UNCHANGED <<patch, queue, plans, tokens, minted, started, touched, spent, kept>>
      /\ End(c) /\ call[c].phase = "unlinking" /\ Active(c)
      /\ files' = [files EXCEPT ![call[c].name] = None]
  BY DEF ReleaseUnlinks, plugin, server, ghosts, Active
<1>2. call[c] \in InUse
  BY <1>1 DEF InUse
<1>3. Sound(call[c]) /\ call[c].name # 0 /\ call[c].name \in Names /\ kept[call[c].name] = None
  <2>1. Sound(call[c])
    BY <1>2 DEF IInv
  <2>2. call[c].name # 0 /\ call[c].name \in 0..MaxNames
    BY <2>1, <1>1 DEF Sound, Formed, CallRecords
  <2>3. kept[call[c].name] = None
    BY <1>1, <2>1, <2>2 DEF Sound, Named
  <2>4. call[c].name \in Names
    BY <2>2, Numbers DEF Names, IInv
  <2> QED  BY <2>1, <2>2, <2>3, <2>4
<1>4. /\ InUse' \subseteq InUse /\ call[c] \notin InUse'
      /\ Distinct' /\ OwnRequests'
  BY <1>1, CallEnds DEF End
<1>5. TypeOK'
  <2>1. files' \in [Names -> Contents \cup {"empty", None}]
    BY <1>1 DEF IInv, TypeOK
  <2> QED  BY <1>1, <2>1, IdleTyped DEF IInv, TypeOK
<1>6. \A x \in InUse' : Sound(x)'
  <2> SUFFICES ASSUME NEW x \in InUse' PROVE Sound(x)'
    OBVIOUS
  <2>1. x \in InUse /\ Sound(x) /\ (x.name # 0 => x.name # call[c].name)
    BY <1>2, <1>3, <1>4 DEF IInv, Distinct
  <2>2. x.name # 0 => files'[x.name] # None /\ kept'[x.name] = kept[x.name]
    <3>1. x.name # 0 => files[x.name] # None /\ x.name \in Names
      BY <2>1, Numbers DEF Sound, Named, Formed, CallRecords, Names, IInv
    <3> QED  BY <1>1, <2>1, <3>1 DEF IInv, TypeOK
  <2>3. TokensKept
    BY <1>1, Numbers DEF IInv, TokensKept
  <2>4. started \in Nat /\ started' \in Nat /\ started <= started'
    BY <1>1, Numbers DEF IInv
  <2>5. patch' = patch /\ touched' = touched
    BY <1>1
  <2> QED  BY <2>1, <2>2, <2>3, <2>4, <2>5, StaysSound
<1>7. CheckpointsStay'
  BY <1>1, <1>3 DEF IInv, TypeOK, CheckpointsStay
<1>8. Asked' /\ Previewed' /\ Unused' /\ OneConfirmationOneReplacement'
  BY <1>1 DEF IInv, Asked, Previewed, Unused, OneConfirmationOneReplacement
<1> QED  BY <1>1, <1>4, <1>5, <1>6, <1>7, <1>8 DEF IInv

-----------------------------------------------------------------------------
(* Each step preserves the invariant: calls go on *)

\* A step of a call that sends nothing.
LEMMA MovePreserves ==
  ASSUME IInv, UNCHANGED mix, NEW c \in Calls, NEW phase \in Phases \ {"idle"}, Move(c, phase),
         Active(c), call[c].phase \notin {"copying", "waiting"},
         NEW new, new = [call[c] EXCEPT !.phase = phase], Sound(new)',
         UNCHANGED <<patch, queue, files, plans, tokens, minted, started, spent, kept>>,
         touched' \subseteq touched,
         \A s, k : <<s, k>> \in touched /\ s # call[c].serial => <<s, k>> \in touched'
  PROVE  IInv'
<1>1. /\ call[c] \in CallRecords /\ new \in CallRecords /\ new.phase = phase
      /\ new.serial = call[c].serial /\ new.name = call[c].name
  <2>1. call[c] \in CallRecords
    BY DEF IInv, TypeOK
  <2> HIDE DEF Phases
  <2> QED  BY <2>1 DEF CallRecords
<1>2. call' = [call EXCEPT ![c] = new]
  BY DEF Move, IInv, TypeOK
<1>3. /\ InUse' \subseteq (InUse \ {call[c]}) \cup {new}
      /\ Distinct' /\ OwnRequests'
  <2>1. new.phase # "idle" /\ queue' = queue
    BY <1>1
  <2> QED  BY <1>1, <1>2, <2>1, CallGoesOn
<1>4. TypeOK'
  BY <1>1, <1>2 DEF IInv, TypeOK
<1>5. \A x \in InUse' : Sound(x)'
  <2> SUFFICES ASSUME NEW x \in InUse, x # call[c] PROVE Sound(x)'
    BY <1>3
  <2>1. Sound(x) /\ Named(x) /\ x.serial # call[c].serial
    BY DEF IInv, Distinct, Sound, InUse
  <2>2. TokensKept
    BY Numbers DEF IInv, TokensKept
  <2>3. x.name # 0 => files'[x.name] # None /\ kept'[x.name] = kept[x.name]
    BY <2>1 DEF Named
  <2>4. started \in Nat /\ started' \in Nat /\ started <= started'
    BY Numbers DEF IInv
  <2>5. patch' = patch /\ \A k \in {"check", "copy"} :
                         <<x.serial, k>> \in touched => <<x.serial, k>> \in touched'
    BY <2>1
  <2> QED  BY <2>1, <2>2, <2>3, <2>4, <2>5, StaysSound
<1>6. Asked' /\ Previewed' /\ Unused' /\ OneConfirmationOneReplacement' /\ CheckpointsStay'
  BY DEF IInv, Asked, Previewed, Unused, OneConfirmationOneReplacement, CheckpointsStay
<1> QED  BY <1>3, <1>4, <1>5, <1>6 DEF IInv

LEMMA ReleaseStatsPreserves ==
  ASSUME IInv, UNCHANGED mix, NEW c \in Calls, ReleaseStats(c)
  PROVE  IInv'
<1>1. /\ UNCHANGED <<patch, queue, files, plans, tokens, minted, started, touched, spent, kept>>
      /\ call[c].phase = "uncopied" /\ Active(c)
      /\ Move(c, "unlinking") \/ End(c)
  BY DEF ReleaseStats, plugin, server, ghosts, Active
<1>2. ASSUME Move(c, "unlinking")
      PROVE  IInv'
  <2> PICK new : new = [call[c] EXCEPT !.phase = "unlinking"]
    OBVIOUS
  <2>1. Sound(call[c])
    BY <1>1 DEF IInv, InUse
  <2>2. /\ new \in CallRecords /\ new.phase = "unlinking" /\ new.serial = call[c].serial
        /\ new.kind = call[c].kind /\ new.base = call[c].base
        /\ new.token = call[c].token /\ new.name = call[c].name
    <3>1. call[c] \in CallRecords /\ "leasing" \in Phases /\ "unlinking" \in Phases
      BY DEF IInv, TypeOK, Phases
    <3> HIDE DEF Phases
    <3> QED  BY <3>1 DEF CallRecords
  <2>3. Formed(new)'
    BY <1>1, <2>1, <2>2 DEF Sound, Formed
  <2>4. Bound(new)' /\ Named(new)' /\ Secured(new)' /\ Checked(new)'
    BY <1>1, <2>1, <2>2 DEF Sound, Bound, Named, Secured, Checked
  <2> QED  BY <1>1, <1>2, <2>3, <2>4, MovePreserves DEF Sound, Phases
<1> QED  BY <1>1, <1>2, EndPreserves

LEMMA LoadChecksPreserves ==
  ASSUME IInv, UNCHANGED mix, NEW c \in Calls, LoadChecks(c)
  PROVE  IInv'
<1>1. /\ UNCHANGED <<patch, queue, files, plans, tokens, minted, started, spent, kept>>
      /\ call[c].phase = "checking" /\ Active(c)
      /\ \/ (StillLive(tokens[call[c].token]) /\ Move(c, "leasing")
             /\ touched' = touched \ {<<call[c].serial, "check">>})
         \/ (End(c) /\ touched' = touched)
  BY DEF LoadChecks, plugin, server, ghosts, Active
<1>2. ASSUME StillLive(tokens[call[c].token]), Move(c, "leasing"),
             touched' = touched \ {<<call[c].serial, "check">>}
      PROVE  IInv'
  <2> PICK new : new = [call[c] EXCEPT !.phase = "leasing"]
    OBVIOUS
  <2>1. Sound(call[c])
    BY <1>1 DEF IInv, InUse
  <2>2. /\ new \in CallRecords /\ new.phase = "leasing" /\ new.serial = call[c].serial
        /\ new.kind = call[c].kind /\ new.base = call[c].base
        /\ new.token = call[c].token /\ new.name = call[c].name
    <3>1. call[c] \in CallRecords /\ "leasing" \in Phases /\ "unlinking" \in Phases
      BY DEF IInv, TypeOK, Phases
    <3> HIDE DEF Phases
    <3> QED  BY <3>1 DEF CallRecords
  <2>3. Formed(new)'
    BY <1>1, <2>1, <2>2 DEF Sound, Formed
  <2>4. Bound(new)' /\ Named(new)' /\ Secured(new)'
    BY <1>1, <2>1, <2>2 DEF Sound, Bound, Named, Secured, Formed
  <2>5. Checked(new)'
    <3>1. call[c].kind # "checkpoint"
      BY <1>1, <2>1 DEF Sound, Formed
    <3> QED  BY <1>1, <1>2, <2>1, <2>2, <3>1 DEF Sound, Bound, Checked, StillLive
  <2> QED  BY <1>1, <1>2, <2>3, <2>4, <2>5, MovePreserves DEF Sound, Phases
<1> QED  BY <1>1, <1>2, EndPreserves

LEMMA GivesUpPreserves ==
  ASSUME IInv, UNCHANGED mix, NEW c \in Calls, LeaseFails(c) \/ Timeout(c)
  PROVE  IInv'
<1>1. UNCHANGED <<patch, queue, files, plans, tokens, minted, started, touched, spent, kept>> /\ End(c)
  BY DEF LeaseFails, Timeout, AfterTimeout, plugin, server, ghosts
<1> QED  BY <1>1, EndPreserves

\* A request that is sent asks for what the call has come to.
LEMMA SendAsks ==
  ASSUME IInv, NEW c \in Calls, NEW new \in CallRecords, NEW what \in {"commit", "saveCopy", "replace"},
         queue' = Append(queue, [what |-> what, by |-> c, of |-> new]),
         what # "commit" => new.name \in Names,
         CASE what = "commit"   -> new.kind = "commit" /\ new.phase = "waiting"
           [] what = "saveCopy" -> new.kind # "commit" /\ new.phase = "copying"
           [] what = "replace"  -> new.kind \in Replacements /\ new.phase = "waiting"
  PROVE  /\ queue' \in Seq(Requests)
         /\ \A i \in DOMAIN queue' : queue'[i].what # "commit" => queue'[i].of.name \in Names
         /\ Asked'
<1> PICK r : r = [what |-> what, by |-> c, of |-> new]
  OBVIOUS
<1>1. r \in Requests /\ r.what = what /\ r.of = new
  BY DEF Requests
<1>2. queue \in Seq(Requests) /\ queue' = Append(queue, r)
  BY DEF IInv, TypeOK
<1>3. queue' \in Seq(Requests)
  BY <1>1, <1>2
<1>4. \A i \in DOMAIN queue' : (i \in DOMAIN queue /\ queue'[i] = queue[i]) \/ queue'[i] = r
  BY <1>2, AppendElements
<1>5. \A i \in DOMAIN queue' : queue'[i].what # "commit" => queue'[i].of.name \in Names
  BY <1>1, <1>4 DEF IInv, TypeOK
<1>6. Asked'
  <2> SUFFICES ASSUME NEW i \in DOMAIN queue'
               PROVE  LET q == queue'[i] IN
                      CASE q.what = "commit"   -> q.of.kind = "commit" /\ q.of.phase = "waiting"
                        [] q.what = "saveCopy" -> q.of.kind # "commit" /\ q.of.phase = "copying"
                        [] q.what = "replace"  -> q.of.kind \in Replacements /\ q.of.phase = "waiting"
    BY DEF Asked
  <2>1. CASE i \in DOMAIN queue /\ queue'[i] = queue[i]
    BY <2>1 DEF IInv, Asked
  <2>2. CASE queue'[i] = r
    BY <1>1, <2>2
  <2> QED  BY <1>4, <2>1, <2>2
<1> QED  BY <1>3, <1>5, <1>6

LEMMA CommitSendsPreserves ==
  ASSUME IInv, UNCHANGED mix, NEW c \in Calls, CommitSends(c)
  PROVE  IInv'
<1> PICK new : new = [call[c] EXCEPT !.phase = "waiting"]
  OBVIOUS
<1>1. /\ UNCHANGED <<patch, files, plans, tokens, minted, started, touched, spent, kept>>
      /\ call[c].phase = "leasing" /\ Active(c) /\ call[c].kind = "commit"
      /\ call' = [call EXCEPT ![c] = new]
      /\ queue' = Append(queue, [what |-> "commit", by |-> c, of |-> new])
  BY DEF CommitSends, Move, Send, server, ghosts, Active, IInv, TypeOK
<1>2. Sound(call[c])
  BY <1>1 DEF IInv, InUse
<1>3. /\ new \in CallRecords /\ new.phase = "waiting" /\ new.serial = call[c].serial
      /\ new.kind = "commit" /\ new.base = call[c].base
      /\ new.token = call[c].token /\ new.name = call[c].name
  <2>1. call[c] \in CallRecords /\ "waiting" \in Phases
    BY DEF IInv, TypeOK, Phases
  <2> HIDE DEF Phases
  <2> QED  BY <1>1, <2>1 DEF CallRecords
<1>4. /\ InUse' \subseteq (InUse \ {call[c]}) \cup {new}
      /\ Distinct' /\ OwnRequests'
  BY <1>1, <1>3, CallGoesOn
<1>5. /\ queue' \in Seq(Requests) /\ Asked'
      /\ \A i \in DOMAIN queue' : queue'[i].what # "commit" => queue'[i].of.name \in Names
  BY <1>1, <1>3, SendAsks
<1>6. TypeOK'
  BY <1>1, <1>3, <1>5 DEF IInv, TypeOK
<1>7. \A x \in InUse' : Sound(x)'
  <2>1. TokensKept
    BY <1>1, Numbers DEF IInv, TokensKept
  <2>2. \A x \in InUse : Sound(x)'
    BY <1>1, <2>1, StaySound
  <2>3. Formed(new)'
    BY <1>1, <1>2, <1>3 DEF Sound, Formed
  <2>4. Bound(new)' /\ Named(new)' /\ Secured(new)' /\ Checked(new)'
    BY <1>1, <1>2, <1>3 DEF Sound, Bound, Named, Secured, Checked, Replacements
  <2> QED  BY <1>4, <2>2, <2>3, <2>4 DEF Sound
<1>8. Unused'
  <2>1. \A i \in DOMAIN queue' : queue'[i].what = "replace" =>
          i \in DOMAIN queue /\ queue'[i] = queue[i]
    <3>1. \A i \in DOMAIN queue' : \/ (i \in DOMAIN queue /\ queue'[i] = queue[i])
                                  \/ queue'[i].what = "commit"
      BY <1>1, AppendElements DEF IInv, TypeOK
    <3> QED  BY <3>1
  <2> QED  BY <1>1, <2>1 DEF IInv, Unused
<1>9. Previewed' /\ OneConfirmationOneReplacement' /\ CheckpointsStay'
  BY <1>1 DEF IInv, Previewed, OneConfirmationOneReplacement, CheckpointsStay
<1> QED  BY <1>4, <1>5, <1>6, <1>7, <1>8, <1>9 DEF IInv

LEMMA CopySendsPreserves ==
  ASSUME IInv, UNCHANGED mix, NEW c \in Calls, CopySends(c)
  PROVE  IInv'
<1>1. PICK n \in Names :
        /\ FirstFree(n)
        /\ files' = [files EXCEPT ![n] = "empty"]
        /\ call' = [call EXCEPT ![c].phase = "copying", ![c].name = n]
  BY DEF CopySends
<1> PICK new : new = [call[c] EXCEPT !.phase = "copying", !.name = n]
  OBVIOUS
<1>2. /\ UNCHANGED <<patch, plans, tokens, minted, started, touched, spent, kept>>
      /\ call[c].phase = "leasing" /\ Active(c) /\ call[c].kind # "commit"
  BY DEF CopySends, server, ghosts, Active
<1>3. call' = [call EXCEPT ![c] = new]
  BY <1>1 DEF IInv, TypeOK
<1>4. queue' = Append(queue, [what |-> "saveCopy", by |-> c, of |-> new])
  <2>1. call'[c] = new
    BY <1>3 DEF IInv, TypeOK
  <2> QED  BY <2>1 DEF CopySends, Send
<1>5. Sound(call[c])
  BY <1>2 DEF IInv, InUse
<1>6. /\ new \in CallRecords /\ new.phase = "copying" /\ new.serial = call[c].serial
      /\ new.kind = call[c].kind /\ new.base = call[c].base
      /\ new.token = call[c].token /\ new.name = n /\ n # 0
  <2>1. n \in 0..MaxNames /\ n # 0
    BY Numbers DEF IInv, Names
  <2>2. call[c] \in CallRecords /\ "copying" \in Phases
    BY DEF IInv, TypeOK, Phases
  <2> HIDE DEF Phases
  <2> QED  BY <2>1, <2>2 DEF CallRecords
<1>7. files[n] = None /\ kept[n] = None /\ None # "empty"
  BY <1>1, ConfirmationsAssumption DEF FirstFree, IInv, CheckpointsStay
<1>8. \A y \in InUse : y.name # 0 => y.name # n /\ y.name \in Names
  BY <1>7, Numbers DEF IInv, Sound, Formed, Named, Names, CallRecords
<1>9. /\ InUse' \subseteq (InUse \ {call[c]}) \cup {new}
      /\ Distinct' /\ OwnRequests'
  <2>1. new.phase # "idle" /\ new.name # 0 /\ \A y \in InUse : y.name # new.name
    BY <1>6, <1>8
  <2> QED  BY <1>2, <1>3, <1>4, <1>6, <2>1, CallGoesOn
<1>10. /\ queue' \in Seq(Requests) /\ Asked'
       /\ \A i \in DOMAIN queue' : queue'[i].what # "commit" => queue'[i].of.name \in Names
  BY <1>2, <1>4, <1>6, SendAsks
<1>11. TypeOK'
  <2>1. files' \in [Names -> Contents \cup {"empty", None}]
    BY <1>1 DEF IInv, TypeOK
  <2>2. call' \in [Calls -> CallRecords]
    BY <1>3, <1>6 DEF IInv, TypeOK
  <2> QED  BY <1>2, <1>10, <2>1, <2>2 DEF IInv, TypeOK
<1>12. \A x \in InUse' : Sound(x)'
  <2>1. ASSUME NEW x \in InUse
        PROVE  Sound(x)'
    <3>1. Sound(x) /\ Named(x)
      BY DEF IInv, Sound
    <3>2. x.name # 0 => files'[x.name] # None /\ kept'[x.name] = kept[x.name]
      <4>1. x.name # 0 => x.name \in Names /\ x.name # n
        BY <1>8
      <4> QED  BY <1>1, <1>2, <3>1, <4>1 DEF Named, IInv, TypeOK
    <3>3. TokensKept
      BY <1>2, Numbers DEF IInv, TokensKept
    <3>4. started \in Nat /\ started' \in Nat /\ started <= started'
      BY <1>2, Numbers DEF IInv
    <3>5. patch' = patch /\ touched' = touched
      BY <1>2
    <3> QED  BY <3>1, <3>2, <3>3, <3>4, <3>5, StaysSound
  <2>2. Formed(new)'
    BY <1>2, <1>5, <1>6 DEF Sound, Formed, Kinds
  <2>3. Named(new)'
    BY <1>1, <1>2, <1>6, <1>7 DEF Named, IInv, TypeOK
  <2>4. Bound(new)' /\ Secured(new)' /\ Checked(new)'
    BY <1>2, <1>5, <1>6 DEF Sound, Bound, Secured, Checked
  <2> QED  BY <1>9, <2>1, <2>2, <2>3, <2>4 DEF Sound
<1>13. Unused'
  <2>1. \A i \in DOMAIN queue' : queue'[i].what = "replace" =>
          i \in DOMAIN queue /\ queue'[i] = queue[i]
    <3>1. \A i \in DOMAIN queue' : \/ (i \in DOMAIN queue /\ queue'[i] = queue[i])
                                  \/ queue'[i].what = "saveCopy"
      BY <1>4, AppendElements DEF IInv, TypeOK
    <3> QED  BY <3>1
  <2> QED  BY <1>2, <2>1 DEF IInv, Unused
<1>14. CheckpointsStay'
  BY <1>1, <1>2, <1>7 DEF IInv, TypeOK, CheckpointsStay
<1>15. Previewed' /\ OneConfirmationOneReplacement'
  BY <1>2 DEF IInv, Previewed, OneConfirmationOneReplacement
<1> QED  BY <1>9, <1>10, <1>11, <1>12, <1>13, <1>14, <1>15 DEF IInv

\* The confirmation is burned, or had been before, and the call ends.
LEMMA LoadStopsPreserves ==
  ASSUME IInv, UNCHANGED mix, NEW c \in Calls, End(c), NEW t \in 1..minted,
         tokens' = [tokens EXCEPT ![t].live = FALSE],
         UNCHANGED <<patch, queue, files, plans, minted, started, touched, spent, kept>>
  PROVE  IInv'
<1>1. /\ InUse' \subseteq InUse
      /\ Distinct' /\ OwnRequests'
  BY CallEnds DEF End
<1>2. minted' = minted
  OBVIOUS
<1>3. /\ TokensKept
      /\ tokens' \in [TokenIds -> Bindings \cup {None}]
      /\ \A u \in 1..minted : tokens'[u] \in Bindings /\ tokens'[u].kind = tokens[u].kind
  BY <1>2, TokenEnds, Zenon
<1>4. TypeOK'
  BY <1>3, IdleTyped DEF IInv, TypeOK
<1>5. \A x \in InUse' : Sound(x)'
  BY <1>1, <1>3, StaySound
<1>6. Previewed'
  <2>1. \A h \in Plans : plans[h] # 0 => plans[h] \in 1..minted
    BY DEF IInv, Previewed, TypeOK
  <2> QED  BY <1>3, <2>1 DEF IInv, Previewed
<1>7. Unused'
  <2>1. \A u \in 1..minted : tokens'[u].kind # "plan" /\ tokens'[u].live => spent[u] = 0
    BY <1>2, TokenEnds DEF IInv, Unused
  <2>2. \A i \in DOMAIN queue : queue[i].what = "replace" => ~tokens'[queue[i].of.token].live
    BY <1>2, TokenEnds, RequestsArePreviewed DEF IInv, Unused
  <2> QED  BY <2>1, <2>2 DEF IInv, Unused
<1>8. Asked' /\ OneConfirmationOneReplacement' /\ CheckpointsStay'
  BY <1>3 DEF IInv, Asked, OneConfirmationOneReplacement, CheckpointsStay
<1> QED  BY <1>1, <1>4, <1>5, <1>6, <1>7, <1>8 DEF IInv

\* The confirmation is burned, and the request that it was burned for is sent.
LEMMA ReplaceSendsPreserves ==
  ASSUME IInv, UNCHANGED mix, NEW c \in Calls, call[c].kind \in Replacements, call[c].phase = "copied",
         Live(call[c].token), Burned(call[c].token), Move(c, "waiting"), Send(c, "replace"),
         UNCHANGED <<patch, files, plans, minted, started, touched, spent, kept>>
  PROVE  IInv'
<1> PICK new : new = [call[c] EXCEPT !.phase = "waiting"]
  OBVIOUS
<1> PICK t : t = call[c].token
  OBVIOUS
<1>1. /\ Active(c) /\ minted' = minted
      /\ call' = [call EXCEPT ![c] = new]
      /\ queue' = Append(queue, [what |-> "replace", by |-> c, of |-> new])
  BY DEF Move, Send, Active, IInv, TypeOK
<1>2. Sound(call[c])
  BY <1>1 DEF IInv, InUse
<1>3. /\ new \in CallRecords /\ new.phase = "waiting" /\ new.serial = call[c].serial
      /\ new.kind = call[c].kind /\ new.base = call[c].base
      /\ new.token = t /\ new.name = call[c].name
  <2>1. call[c] \in CallRecords /\ "waiting" \in Phases
    BY DEF IInv, TypeOK, Phases
  <2> HIDE DEF Phases
  <2> QED  BY <2>1 DEF CallRecords
<1>4. new.name \in Names
  BY <1>2, <1>3, Numbers DEF IInv, Sound, Formed, Names, CallRecords, Replacements, Kinds
<1>5. t \in 1..minted /\ tokens[t].kind # "plan"
  BY <1>2 DEF Sound, Bound, Replacements
<1>6. tokens' = [tokens EXCEPT ![t].live = FALSE]
  BY DEF Burned
<1>7. /\ TokensKept
      /\ tokens' \in [TokenIds -> Bindings \cup {None}]
      /\ \A u \in 1..minted : tokens'[u] \in Bindings /\ tokens'[u].kind = tokens[u].kind
  BY <1>1, <1>5, <1>6, TokenEnds, Zenon
<1>8. /\ InUse' \subseteq (InUse \ {call[c]}) \cup {new}
      /\ Distinct' /\ OwnRequests'
  <2>1. new.phase # "idle" /\ (new.name # 0 => new.name = call[c].name)
    BY <1>3
  <2> QED  BY <1>1, <1>3, <2>1, CallGoesOn
<1>9. /\ queue' \in Seq(Requests) /\ Asked'
      /\ \A i \in DOMAIN queue' : queue'[i].what # "commit" => queue'[i].of.name \in Names
  BY <1>1, <1>3, <1>4, SendAsks
<1>10. TypeOK'
  <2>1. call' \in [Calls -> CallRecords]
    BY <1>1, <1>3 DEF IInv, TypeOK
  <2> QED  BY <1>7, <1>9, <2>1 DEF IInv, TypeOK
<1>11. \A x \in InUse' : Sound(x)'
  <2>1. \A x \in InUse : Sound(x)'
    BY <1>7, StaySound
  <2>2. Formed(new)'
    BY <1>2, <1>3 DEF Sound, Formed, Replacements
  <2>3. Bound(new)'
    BY <1>2, <1>3, <1>5, <1>7 DEF Sound, Bound, TokensKept
  <2>4. Named(new)' /\ Secured(new)' /\ Checked(new)'
    BY <1>2, <1>3 DEF Sound, Named, Secured, Checked
  <2> QED  BY <1>8, <2>1, <2>2, <2>3, <2>4 DEF Sound
<1>12. Previewed'
  <2>1. \A h \in Plans : plans[h] # 0 => plans[h] \in 1..minted
    BY DEF IInv, Previewed, TypeOK
  <2> QED  BY <1>7, <2>1 DEF IInv, Previewed
<1>13. Unused'
  <2>1. \A u \in 1..minted : tokens'[u].kind # "plan" /\ tokens'[u].live => spent[u] = 0
    BY <1>1, <1>5, <1>6, TokenEnds DEF IInv, Unused
  <2>2. spent[t] = 0 /\ tokens[t].live
    BY <1>5 DEF IInv, Unused, Live
  <2>3. \A i \in DOMAIN queue : queue[i].what = "replace" =>
          ~tokens'[queue[i].of.token].live /\ queue[i].of.token # t
    BY <1>1, <1>5, <1>6, <2>2, TokenEnds, RequestsArePreviewed DEF IInv, Unused
  <2>4. \A i \in DOMAIN queue' : \/ (i \in DOMAIN queue /\ queue'[i] = queue[i])
                                \/ (i = Len(queue) + 1 /\ queue'[i].of.token = t)
    BY <1>1, <1>3, AppendElements DEF IInv, TypeOK
  <2>5. ~tokens'[t].live
    BY <1>1, <1>5, <1>6, TokenEnds
  <2>6. \A u \in TokenIds : u > minted' => spent[u] = 0
    BY DEF IInv, Unused
  <2>7. ASSUME NEW i \in DOMAIN queue', queue'[i].what = "replace"
        PROVE  /\ spent[queue'[i].of.token] = 0
               /\ ~tokens'[queue'[i].of.token].live
               /\ \A j \in DOMAIN queue' :
                    queue'[j].what = "replace" /\ queue'[j].of.token = queue'[i].of.token => i = j
    <3>1. CASE i \in DOMAIN queue /\ queue'[i] = queue[i]
      BY <2>3, <2>4, <2>7, <3>1 DEF IInv, Unused
    <3>2. CASE i = Len(queue) + 1 /\ queue'[i].of.token = t
      BY <2>2, <2>3, <2>4, <2>5, <2>7, <3>2 DEF IInv, Unused
    <3> QED  BY <2>4, <3>1, <3>2
  <2> QED  BY <2>1, <2>6, <2>7 DEF Unused
<1>14. OneConfirmationOneReplacement' /\ CheckpointsStay'
  BY <1>7 DEF IInv, OneConfirmationOneReplacement, CheckpointsStay
<1> QED  BY <1>8, <1>9, <1>10, <1>11, <1>12, <1>13, <1>14 DEF IInv

LEMMA LoadSendsPreserves ==
  ASSUME IInv, UNCHANGED mix, NEW c \in Calls, LoadSends(c)
  PROVE  IInv'
<1>1. /\ UNCHANGED <<patch, files, plans, minted, started, touched, spent, kept>>
      /\ call[c].kind \in Replacements /\ call[c].phase = "copied"
  BY DEF LoadSends, RecoveryCopied, ghosts
<1>2. CASE Live(call[c].token) /\ Burned(call[c].token) /\ Move(c, "waiting") /\ Send(c, "replace")
  BY <1>1, <1>2, ReplaceSendsPreserves
<1>3. CASE End(c) /\ UNCHANGED <<tokens, queue>>
  BY <1>1, <1>3, EndPreserves
<1>4. CASE Live(call[c].token) /\ Burned(call[c].token) /\ End(c) /\ UNCHANGED queue
  BY <1>1, <1>4, LoadStopsPreserves, Zenon DEF Live, Burned
<1> QED  BY <1>2, <1>3, <1>4 DEF LoadSends

LEMMA ContinuesPreserve ==
  ASSUME IInv, UNCHANGED mix, NEW c \in Calls, Continues(c)
  PROVE  IInv'
  BY CommitSendsPreserves, LoadChecksPreserves, CopySendsPreserves, LoadSendsPreserves,
     ReleaseStatsPreserves, ReleaseUnlinksPreserves, GivesUpPreserves, Zenon DEF Continues

-----------------------------------------------------------------------------
(* Each step preserves the invariant: the plugin *)

\* The first request is a sound record, which no other request has.
LEMMA FirstRequest ==
  ASSUME IInv, queue # <<>>
  PROVE  /\ 1 \in DOMAIN queue /\ Head(queue) = queue[1]
         /\ Head(queue).of \in InUse /\ Sound(Head(queue).of)
         /\ Head(queue).by \in Calls /\ Head(queue).of \in CallRecords
         /\ Head(queue).what \in {"commit", "saveCopy", "replace"}
         /\ Head(queue).what # "commit" => Head(queue).of.name \in Names
<1>1. 1 \in DOMAIN queue /\ Head(queue) = queue[1]
  BY TailElements DEF IInv, TypeOK
<1>2. Head(queue).of \in InUse
  BY <1>1 DEF InUse
<1> QED  BY <1>1, <1>2, QueueElements DEF IInv, TypeOK

LEMMA RestOfQueue ==
  ASSUME IInv, queue # <<>>, queue' = Tail(queue)
  PROVE  /\ queue' \in Seq(Requests) /\ Asked'
         /\ \A i \in DOMAIN queue' :
              /\ i + 1 \in DOMAIN queue /\ i \in Nat /\ i + 1 # 1 /\ queue'[i] = queue[i + 1]
              /\ queue'[i].what # "commit" => queue'[i].of.name \in Names
<1>1. queue \in Seq(Requests)
  BY DEF IInv, TypeOK
<1>2. queue' \in Seq(Requests)
  BY <1>1, TailElements
<1>3. \A i \in DOMAIN queue' : i + 1 \in DOMAIN queue /\ i \in Nat /\ i + 1 # 1 /\ queue'[i] = queue[i + 1]
  BY <1>1, TailElements
<1>4. \A i \in DOMAIN queue' : queue'[i].what # "commit" => queue'[i].of.name \in Names
  BY <1>3 DEF IInv, TypeOK
<1>5. Asked'
  <2> SUFFICES ASSUME NEW i \in DOMAIN queue'
               PROVE  LET q == queue'[i] IN
                      CASE q.what = "commit"   -> q.of.kind = "commit" /\ q.of.phase = "waiting"
                        [] q.what = "saveCopy" -> q.of.kind # "commit" /\ q.of.phase = "copying"
                        [] q.what = "replace"  -> q.of.kind \in Replacements /\ q.of.phase = "waiting"
    BY DEF Asked
  <2>1. i + 1 \in DOMAIN queue /\ queue'[i] = queue[i + 1]
    BY <1>3
  <2> QED  BY <2>1 DEF IInv, Asked
<1> QED  BY <1>2, <1>3, <1>4, <1>5

LEMMA RestUnused ==
  ASSUME IInv, queue # <<>>, queue' = Tail(queue), UNCHANGED <<tokens, minted>>,
         \A t \in TokenIds : t > minted => spent'[t] = 0,
         \A t \in 1..minted : tokens[t].kind # "plan" /\ tokens[t].live => spent'[t] = spent[t],
         \A i \in DOMAIN queue' : queue'[i].what = "replace" =>
           spent'[queue'[i].of.token] = spent[queue'[i].of.token]
  PROVE  Unused'
<1>1. \A i \in DOMAIN queue' : /\ i + 1 \in DOMAIN queue /\ i \in Nat
                              /\ queue'[i] = queue[i + 1]
  BY RestOfQueue
<1>2. ASSUME NEW i \in DOMAIN queue', queue'[i].what = "replace"
      PROVE  /\ spent'[queue'[i].of.token] = 0
             /\ ~tokens'[queue'[i].of.token].live
             /\ \A j \in DOMAIN queue' :
                  queue'[j].what = "replace" /\ queue'[j].of.token = queue'[i].of.token => i = j
  <2>1. /\ spent'[queue'[i].of.token] = 0
        /\ ~tokens'[queue'[i].of.token].live
    BY <1>1, <1>2 DEF IInv, Unused
  <2>2. ASSUME NEW j \in DOMAIN queue', queue'[j].what = "replace",
               queue'[j].of.token = queue'[i].of.token
        PROVE  i = j
    <3>1. i + 1 = j + 1
      BY <1>1, <1>2, <2>2 DEF IInv, Unused
    <3> QED  BY <1>1, <3>1
  <2> QED  BY <2>1, <2>2
<1>3. \A t \in TokenIds : t > minted' => spent'[t] = 0
  OBVIOUS
<1>4. \A t \in 1..minted' : tokens'[t].kind # "plan" /\ tokens'[t].live => spent'[t] = 0
  BY DEF IInv, Unused
<1> QED  BY <1>2, <1>3, <1>4 DEF Unused

\* What an answer leaves: the record of its request is gone, or has gone on from "copying".
LEMMA ReplyLeaves ==
  ASSUME IInv, queue # <<>>, queue' = Tail(queue), NEW r, r = Head(queue),
         NEW ok \in BOOLEAN, Reply(r, ok)
  PROVE  /\ Distinct' /\ OwnRequests'
         /\ call' \in [Calls -> CallRecords]
         /\ plans' \in [Plans -> 0..MaxTokens]
         /\ \A h \in Plans : plans'[h] = 0 \/ plans'[h] = plans[h]
         /\ \A x \in InUse' :
              \/ x \in InUse /\ x # r.of
              \/ r.what = "saveCopy" /\ x = [r.of EXCEPT !.phase = "uncopied"] /\ ~ok
              \/ r.what = "saveCopy" /\ x = [r.of EXCEPT !.phase = "copied"] /\ ok
                 /\ r.of.kind # "checkpoint"
<1>1. /\ r.of \in CallRecords /\ r.by \in Calls
  BY FirstRequest
<1> PICK new :
      new = IF r.what = "saveCopy" /\ ~ok THEN [r.of EXCEPT !.phase = "uncopied"]
            ELSE IF r.what = "saveCopy" /\ r.of.kind # "checkpoint"
                 THEN [r.of EXCEPT !.phase = "copied"]
                 ELSE Idle
  OBVIOUS
<1>2. \/ (r.what = "saveCopy" /\ ~ok /\ new = [r.of EXCEPT !.phase = "uncopied"])
      \/ (r.what = "saveCopy" /\ ok /\ r.of.kind # "checkpoint" /\ new = [r.of EXCEPT !.phase = "copied"])
      \/ new = Idle
  OBVIOUS
<1>3. /\ new \in CallRecords
      /\ \/ new = Idle
         \/ new.phase # "idle" /\ new.serial = r.of.serial /\ new.name = r.of.name
  <2>1. Idle \in CallRecords
    BY Numbers DEF Idle, CallRecords, Phases, IInv
  <2>2. ASSUME NEW phase \in Phases \ {"idle"}, new = [r.of EXCEPT !.phase = phase]
        PROVE  /\ new \in CallRecords
               /\ new.phase # "idle" /\ new.serial = r.of.serial /\ new.name = r.of.name
    BY <1>1, <2>2 DEF CallRecords
  <2>3. "uncopied" \in Phases \ {"idle"} /\ "copied" \in Phases \ {"idle"}
    BY DEF Phases
  <2> QED  BY <1>2, <2>1, <2>2, <2>3, Zenon
<1>4. \/ (call[r.by] # r.of /\ call' = call)
      \/ (call[r.by] = r.of /\ call' = [call EXCEPT ![r.by] = new])
  BY <1>1 DEF Reply, IInv, TypeOK
<1>5. /\ InUse' \subseteq (InUse \ {r.of}) \cup {new}
      /\ new = Idle \/ call[r.by] # r.of => InUse' \subseteq InUse \ {r.of}
      /\ Distinct' /\ OwnRequests'
  BY <1>3, <1>4, CallAnswered
<1>6. call' \in [Calls -> CallRecords]
  BY <1>3, <1>4 DEF IInv, TypeOK
<1>7. /\ plans' \in [Plans -> 0..MaxTokens]
      /\ \A h \in Plans : plans'[h] = 0 \/ plans'[h] = plans[h]
  <2>1. plans' = plans \/ plans' = [plans EXCEPT ![r.of.plan] = 0]
    BY DEF Reply
  <2>2. 0 \in 0..MaxTokens /\ plans \in [Plans -> 0..MaxTokens]
    BY Numbers DEF IInv, TypeOK
  <2> QED  BY <2>1, <2>2
<1> QED  BY <1>2, <1>5, <1>6, <1>7

\* A request for a copy, and what its record goes on to.
LEMMA CopyGoesOn ==
  ASSUME IInv, queue # <<>>, NEW r, r = Head(queue), r.what = "saveCopy",
         NEW phase \in {"uncopied", "copied"}, NEW x, x = [r.of EXCEPT !.phase = phase]
  PROVE  /\ r.of.phase = "copying" /\ r.of.kind # "commit"
         /\ x \in CallRecords /\ x.phase = phase /\ x.serial = r.of.serial /\ x.kind = r.of.kind
         /\ x.base = r.of.base /\ x.token = r.of.token /\ x.name = r.of.name
<1>1. r.of \in CallRecords /\ phase \in Phases
  BY FirstRequest DEF Phases
<1>2. r.of.phase = "copying" /\ r.of.kind # "commit"
  BY FirstRequest DEF IInv, Asked
<1> HIDE DEF Phases
<1> QED  BY <1>1, <1>2 DEF CallRecords

LEMMA AnswerOnlyPreserves ==
  ASSUME IInv, UNCHANGED <<mix, tokens, minted, started>>, queue # <<>>, queue' = Tail(queue),
         NEW r, r = Head(queue), AnswerOnly(r)
  PROVE  IInv'
<1>1. PICK ok \in BOOLEAN : Reply(r, ok) /\ (ok <=> Remembered(r) = RequestIdentity(r))
  BY Zenon DEF AnswerOnly
<1>2. UNCHANGED <<patch, files, touched, spent, kept>>
  BY DEF AnswerOnly
<1>3. /\ Distinct' /\ OwnRequests'
      /\ call' \in [Calls -> CallRecords]
      /\ plans' \in [Plans -> 0..MaxTokens]
      /\ \A h \in Plans : plans'[h] = 0 \/ plans'[h] = plans[h]
  BY <1>1, ReplyLeaves, Zenon
<1>4. TypeOK'
  BY <1>2, <1>3, RestOfQueue DEF IInv, TypeOK
<1>5. \A x \in InUse' : Sound(x)'
  <2> SUFFICES ASSUME NEW x \in InUse' PROVE Sound(x)'
    OBVIOUS
  <2>1. CASE x \in InUse
    <3>1. TokensKept
      BY Numbers DEF IInv, TokensKept
    <3> QED  BY <1>2, <2>1, <3>1, StaySound
  <2>2. CASE r.what = "saveCopy" /\ x = [r.of EXCEPT !.phase = "uncopied"]
    <3>1. /\ r.of.phase = "copying" /\ r.of.kind # "commit"
          /\ x \in CallRecords /\ x.phase = "uncopied" /\ x.serial = r.of.serial
          /\ x.kind = r.of.kind /\ x.base = r.of.base
          /\ x.token = r.of.token /\ x.name = r.of.name
      BY <2>2, CopyGoesOn
    <3>2. Sound(r.of)
      BY FirstRequest
    <3>3. Formed(x)'
      BY <3>1, <3>2 DEF Sound, Formed
    <3>4. Bound(x)' /\ Named(x)' /\ Secured(x)' /\ Checked(x)'
      BY <1>2, <3>1, <3>2 DEF Sound, Bound, Named, Secured, Checked
    <3> QED  BY <3>3, <3>4 DEF Sound
  <2>3. ~(r.what = "saveCopy" /\ ok /\ r.of.kind # "checkpoint")
    <3>1. ASSUME r.what = "saveCopy", r.of.kind # "checkpoint"
          PROVE  Remembered(r) # RequestIdentity(r)
      <4>1. Remembered(r) = <<>> /\ RequestIdentity(r) = <<"saveCopy", r.of.name>>
        BY <3>1 DEF Remembered, RequestIdentity
      <4>2. <<>> # <<"saveCopy", r.of.name>>
        OBVIOUS
      <4> QED  BY <4>1, <4>2
    <3> QED  BY <1>1, <3>1, Zenon
  <2> QED  BY <1>1, <2>1, <2>2, <2>3, ReplyLeaves, Zenon
<1>6. Previewed'
  BY <1>3 DEF IInv, Previewed, TypeOK
<1>7. Unused'
  <2>1. spent' = spent
    BY <1>2
  <2>2. \A t \in TokenIds : t > minted => spent'[t] = 0
    BY <2>1 DEF IInv, Unused
  <2> QED  BY <2>1, <2>2, RestUnused
<1>8. OneConfirmationOneReplacement' /\ CheckpointsStay'
  BY <1>2 DEF IInv, OneConfirmationOneReplacement, CheckpointsStay
<1> QED  BY <1>3, <1>4, <1>5, <1>6, <1>7, <1>8, RestOfQueue DEF IInv

\* The patch changes, and the record of the request that changed it is gone.
LEMMA ChangeStaysSound ==
  ASSUME IInv, UNCHANGED <<tokens, minted, started, files, kept>>,
         NEW content \in Contents, NEW epoch \in Epochs, ChangePatch(content, epoch)
  PROVE  \A x \in InUse : Sound(x)'
<1> SUFFICES ASSUME NEW x \in InUse PROVE Sound(x)'
  OBVIOUS
<1>1. Sound(x) /\ Named(x)
  BY DEF IInv, Sound
<1>2. x.name # 0 => files'[x.name] # None /\ kept'[x.name] = kept[x.name]
  BY <1>1 DEF Named
<1>3. x.kind \in Replacements => \A k \in {"check", "copy"} : <<x.serial, k>> \in touched'
  BY ChangeMarks
<1>4. started \in Nat /\ started' \in Nat /\ started <= started' /\ TokensKept
  BY Numbers DEF IInv, TokensKept
<1> QED  BY <1>1, <1>2, <1>3, <1>4, StaysSound

LEMMA ExecuteCommitPreserves ==
  ASSUME IInv, UNCHANGED <<mix, tokens, minted, started>>, queue # <<>>, queue' = Tail(queue),
         NEW r, r = Head(queue), NEW content \in Contents, ExecuteCommit(r, content)
  PROVE  IInv'
<1>1. /\ r.what = "commit" /\ Reply(r, TRUE) /\ UNCHANGED <<files, kept>>
      /\ spent' = [spent EXCEPT ![r.of.token] = @ + 1]
      /\ patch.epoch \in Epochs /\ ChangePatch(content, patch.epoch)
  BY DEF ExecuteCommit, IInv, TypeOK
<1>2. /\ Distinct' /\ OwnRequests'
      /\ call' \in [Calls -> CallRecords]
      /\ plans' \in [Plans -> 0..MaxTokens]
      /\ \A h \in Plans : plans'[h] = 0 \/ plans'[h] = plans[h]
  BY <1>1, ReplyLeaves, Zenon
<1>3. r.of.token \in 1..minted /\ tokens[r.of.token].kind = "plan"
  <2>1. r.of.kind = "commit"
    BY <1>1, FirstRequest DEF IInv, Asked
  <2> QED  BY <2>1, FirstRequest DEF Sound, Bound
<1>4. /\ spent' \in [TokenIds -> Nat]
      /\ \A t \in TokenIds : t # r.of.token => spent'[t] = spent[t]
  BY <1>1, <1>3, Numbers, SMTT(90) DEF IInv, TypeOK
<1>5. TypeOK'
  BY <1>1, <1>2, <1>4, ChangeMarks, RestOfQueue DEF IInv, TypeOK
<1>6. \A x \in InUse' : Sound(x)'
  <2>1. \A x \in InUse' : x \in InUse
    <3>1. r.what # "saveCopy"
      BY <1>1
    <3> QED  BY <1>1, <3>1, ReplyLeaves, Zenon
  <2> QED  BY <1>1, <2>1, ChangeStaysSound
<1>7. Previewed'
  BY <1>2 DEF IInv, Previewed, TypeOK
<1>8. Unused'
  <2>1. \A t \in TokenIds : t > minted => spent'[t] = 0
    BY <1>3, <1>4, Numbers DEF IInv, Unused
  <2>2. \A t \in 1..minted : tokens[t].kind # "plan" => spent'[t] = spent[t]
    BY <1>3, <1>4, Numbers DEF IInv
  <2>3. \A i \in DOMAIN queue' : queue'[i].what = "replace" =>
          spent'[queue'[i].of.token] = spent[queue'[i].of.token]
    BY <2>2, RestOfQueue, RequestsArePreviewed
  <2> QED  BY <2>1, <2>2, <2>3, RestUnused
<1>9. OneConfirmationOneReplacement'
  BY <1>3, <1>4, Numbers DEF IInv, OneConfirmationOneReplacement
<1>10. CheckpointsStay'
  BY <1>1 DEF IInv, CheckpointsStay
<1> QED  BY <1>2, <1>5, <1>6, <1>7, <1>8, <1>9, <1>10, RestOfQueue DEF IInv

\* The request is the only one of its confirmation, which is not live any longer.
LEMMA ExecuteReplacePreserves ==
  ASSUME IInv, UNCHANGED <<mix, tokens, minted, started>>, queue # <<>>, queue' = Tail(queue),
         NEW r, r = Head(queue), NEW content \in Contents, NEW ok \in BOOLEAN,
         ExecuteReplace(r, content, ok)
  PROVE  IInv'
<1>1. /\ r.what = "replace" /\ Reply(r, ok) /\ UNCHANGED <<files, kept>>
      /\ spent' = [spent EXCEPT ![r.of.token] = @ + 1]
      /\ patch.epoch + 1 \in Epochs /\ ChangePatch(content, patch.epoch + 1)
  BY DEF ExecuteReplace, IInv, TypeOK, Epochs
<1>2. /\ Distinct' /\ OwnRequests'
      /\ call' \in [Calls -> CallRecords]
      /\ plans' \in [Plans -> 0..MaxTokens]
      /\ \A h \in Plans : plans'[h] = 0 \/ plans'[h] = plans[h]
  BY <1>1, ReplyLeaves, Zenon
<1>3. r.of.token \in 1..minted
  BY <1>1, FirstRequest, RequestsArePreviewed
<1>4. /\ spent' \in [TokenIds -> Nat] /\ spent'[r.of.token] = spent[r.of.token] + 1
      /\ \A t \in TokenIds : t # r.of.token => spent'[t] = spent[t]
  BY <1>1, <1>3, Numbers, SMTT(90) DEF IInv, TypeOK
<1>5. TypeOK'
  BY <1>1, <1>2, <1>4, ChangeMarks, RestOfQueue DEF IInv, TypeOK
<1>6. \A x \in InUse' : Sound(x)'
  <2>1. \A x \in InUse' : x \in InUse
    <3>1. r.what # "saveCopy"
      BY <1>1
    <3> QED  BY <1>1, <3>1, ReplyLeaves, Zenon
  <2> QED  BY <1>1, <2>1, ChangeStaysSound
<1>7. Previewed'
  BY <1>2 DEF IInv, Previewed, TypeOK
<1>8. /\ spent[r.of.token] = 0 /\ ~tokens[r.of.token].live
      /\ \A i \in DOMAIN queue' : queue'[i].what = "replace" => queue'[i].of.token # r.of.token
  <2>1. r = queue[1] /\ 1 \in DOMAIN queue
    BY FirstRequest
  <2>2. spent[r.of.token] = 0 /\ ~tokens[r.of.token].live
    BY <1>1, <2>1 DEF IInv, Unused
  <2>3. \A j \in DOMAIN queue : queue[j].what = "replace" /\ queue[j].of.token = r.of.token => j = 1
    BY <1>1, <2>1 DEF IInv, Unused
  <2> QED  BY <2>2, <2>3, RestOfQueue
<1>9. Unused'
  <2>1. \A t \in TokenIds : t > minted => spent'[t] = 0
    BY <1>3, <1>4, Numbers DEF IInv, Unused
  <2>2. \A t \in 1..minted : t # r.of.token => spent'[t] = spent[t]
    BY <1>4, Numbers DEF IInv
  <2>3. \A i \in DOMAIN queue' : queue'[i].what = "replace" =>
          spent'[queue'[i].of.token] = spent[queue'[i].of.token]
    BY <1>8, <2>2, RestOfQueue, RequestsArePreviewed
  <2>4. \A t \in 1..minted : tokens[t].kind # "plan" /\ tokens[t].live => spent'[t] = spent[t]
    BY <1>8, <2>2
  <2> QED  BY <2>1, <2>3, <2>4, RestUnused
<1>10. OneConfirmationOneReplacement'
  <2> SUFFICES ASSUME NEW t \in 1..minted, tokens[t].kind # "plan"
               PROVE  spent'[t] <= 1
    BY DEF OneConfirmationOneReplacement
  <2>1. CASE t = r.of.token
    <3>1. spent[r.of.token] = 0
      BY <1>8
    <3> QED  BY <1>4, <2>1, <3>1
  <2>2. CASE t # r.of.token
    <3>1. spent'[t] = spent[t]
      BY <1>4, <2>2, Numbers DEF IInv
    <3> QED  BY <3>1 DEF IInv, OneConfirmationOneReplacement
  <2> QED  BY <2>1, <2>2
<1>11. CheckpointsStay'
  BY <1>1 DEF IInv, CheckpointsStay
<1> QED  BY <1>2, <1>5, <1>6, <1>7, <1>9, <1>10, <1>11, RestOfQueue DEF IInv

\* The copy is written under a name that no other record has.
LEMMA ExecuteCopyPreserves ==
  ASSUME IInv, UNCHANGED <<mix, tokens, minted, started>>, queue # <<>>, queue' = Tail(queue),
         NEW r, r = Head(queue), ExecuteCopy(r)
  PROVE  IInv'
<1>1. /\ r.what = "saveCopy" /\ Reply(r, TRUE) /\ UNCHANGED <<patch, spent>>
      /\ files' = [files EXCEPT ![r.of.name] = patch.content]
      /\ kept' = [kept EXCEPT ![r.of.name] = patch.content]
      /\ touched' = touched \ {<<r.of.serial, "copy">>}
  BY DEF ExecuteCopy
<1>2. /\ Distinct' /\ OwnRequests'
      /\ call' \in [Calls -> CallRecords]
      /\ plans' \in [Plans -> 0..MaxTokens]
      /\ \A h \in Plans : plans'[h] = 0 \/ plans'[h] = plans[h]
  BY <1>1, ReplyLeaves, Zenon
<1>3. /\ r.of.name \in Names /\ r.of.name # 0 /\ patch.content \in Contents /\ patch.content # None
      /\ r.of \in InUse /\ Sound(r.of)
  BY <1>1, FirstRequest, ConfirmationsAssumption DEF IInv, TypeOK, Names
<1>4. /\ files' \in [Names -> Contents \cup {"empty", None}] /\ files'[r.of.name] = patch.content
      /\ kept' \in [Names -> Contents \cup {None}] /\ kept'[r.of.name] = patch.content
      /\ \A n \in Names : n # r.of.name => files'[n] = files[n] /\ kept'[n] = kept[n]
  BY <1>1, <1>3 DEF IInv, TypeOK
<1>5. TypeOK'
  BY <1>1, <1>2, <1>4, RestOfQueue DEF IInv, TypeOK
<1>6. TokensKept
  BY Numbers DEF IInv, TokensKept
<1>7. ASSUME NEW x \in InUse, x # r.of
      PROVE  Sound(x)'
  <2>1. Sound(x) /\ Named(x) /\ x.serial # r.of.serial /\ (x.name # 0 => x.name # r.of.name)
    BY <1>3, <1>7 DEF IInv, Sound, Distinct
  <2>2. x.name # 0 => files'[x.name] # None /\ kept'[x.name] = kept[x.name]
    <3>1. x.name # 0 => x.name \in Names
      BY <2>1, Numbers DEF Sound, Formed, CallRecords, Names, IInv
    <3> QED  BY <1>4, <2>1, <3>1 DEF Named
  <2>3. patch' = patch /\ \A k \in {"check", "copy"} :
                         <<x.serial, k>> \in touched => <<x.serial, k>> \in touched'
    BY <1>1, <2>1
  <2>4. started \in Nat /\ started' \in Nat /\ started <= started'
    BY Numbers DEF IInv
  <2> QED  BY <1>6, <2>1, <2>2, <2>3, <2>4, StaysSound
<1>8. ASSUME NEW x, x = [r.of EXCEPT !.phase = "copied"], r.of.kind # "checkpoint"
      PROVE  Sound(x)'
  <2>1. /\ r.of.phase = "copying" /\ r.of.kind # "commit"
        /\ x \in CallRecords /\ x.phase = "copied" /\ x.serial = r.of.serial
        /\ x.kind = r.of.kind /\ x.base = r.of.base
        /\ x.token = r.of.token /\ x.name = r.of.name
    BY <1>1, <1>8, CopyGoesOn
  <2>2. Formed(x)'
    BY <1>3, <1>8, <2>1 DEF Sound, Formed
  <2>3. Named(x)' /\ Secured(x)'
    BY <1>1, <1>3, <1>4, <2>1 DEF Named, Secured
  <2>4. Bound(x)'
    BY <1>3, <2>1 DEF Sound, Bound
  <2>5. Checked(x)'
    <3>1. x.kind \in Replacements /\ <<x.serial, "check">> \notin touched'
            => r.of.kind \in Replacements /\ r.of.phase # "checking" /\ <<r.of.serial, "check">> \notin touched
      BY <1>1, <2>1
    <3> QED  BY <1>1, <1>3, <2>1, <3>1 DEF Sound, Checked
  <2> QED  BY <2>2, <2>3, <2>4, <2>5 DEF Sound
<1>9. \A x \in InUse' : Sound(x)'
  <2>1. \A x \in InUse' : \/ (x \in InUse /\ x # r.of)
                         \/ (x = [r.of EXCEPT !.phase = "copied"] /\ r.of.kind # "checkpoint")
    BY <1>1, ReplyLeaves, Zenon
  <2> QED  BY <1>7, <1>8, <2>1, Zenon
<1>10. Previewed'
  BY <1>2 DEF IInv, Previewed, TypeOK
<1>11. Unused'
  <2>1. spent' = spent /\ \A t \in TokenIds : t > minted => spent'[t] = 0
    BY <1>1 DEF IInv, Unused
  <2> QED  BY <2>1, RestUnused
<1>12. CheckpointsStay'
  BY <1>4 DEF IInv, CheckpointsStay
<1>13. OneConfirmationOneReplacement'
  BY <1>1 DEF IInv, OneConfirmationOneReplacement
<1> QED  BY <1>2, <1>5, <1>9, <1>10, <1>11, <1>12, <1>13, RestOfQueue DEF IInv

LEMMA PluginStepPreserves ==
  ASSUME IInv, UNCHANGED mix, PluginStep
  PROVE  IInv'
<1> PICK r : r = Head(queue)
  OBVIOUS
<1>1. queue # <<>> /\ queue' = Tail(queue) /\ UNCHANGED <<mix, tokens, minted, started>>
  BY DEF PluginStep
<1>2. \/ AnswerOnly(r)
      \/ \E content \in Contents : ExecuteCommit(r, content)
      \/ ExecuteCopy(r)
      \/ \E content \in Contents, ok \in BOOLEAN : ExecuteReplace(r, content, ok)
  BY Zenon DEF PluginStep
<1> QED  BY <1>1, <1>2, AnswerOnlyPreserves, ExecuteCommitPreserves, ExecuteCopyPreserves,
            ExecuteReplacePreserves, Zenon

-----------------------------------------------------------------------------
(* The theorems *)

LEMMA InitEstablishes == Init => IInv
<1> SUFFICES ASSUME Init PROVE IInv
  OBVIOUS
<1>1. \A c \in Calls : call[c] = Idle /\ ~Active(c)
  BY DEF Init, Active, Idle
<1>2. queue = <<>> /\ DOMAIN queue = {}
  BY DEF Init
<1>3. InUse = {}
  BY <1>1, <1>2 DEF InUse
<1>4. TypeOK
  <2>1. MaxTokens \in Nat /\ MaxCalls \in Nat /\ MaxNames \in Nat
    BY ConfirmationsAssumption
  <2>2. Idle \in CallRecords
    BY <2>1 DEF Idle, CallRecords, Phases
  <2>3. \E c \in Contents : patch = [content |-> c, epoch |-> 1]
    BY DEF Init
  <2>4. patch \in [content : Contents, epoch : Epochs]
    BY <2>3 DEF Epochs
  <2>5. queue \in Seq(Requests) /\ \A i \in DOMAIN queue : queue[i].what # "commit" => queue[i].of.name \in Names
    BY <1>2
  <2>6. call \in [Calls -> CallRecords]
    BY <2>2 DEF Init
  <2> QED  BY <2>1, <2>4, <2>5, <2>6 DEF Init, TypeOK
<1>5. Distinct /\ OwnRequests /\ Asked
  BY <1>1, <1>2, <1>3 DEF Distinct, OwnRequests, Asked
<1>6. minted = 0 /\ 1..minted = {}
  BY DEF Init
<1>7. Previewed /\ Unused
  BY <1>2, <1>6 DEF Init, Previewed, Unused
<1>8. OneConfirmationOneReplacement /\ CheckpointsStay
  BY <1>6 DEF Init, OneConfirmationOneReplacement, CheckpointsStay
<1> QED  BY <1>3, <1>4, <1>5, <1>7, <1>8 DEF IInv

LEMMA NextPreserves == IInv /\ [Next]_vars => IInv'
<1> SUFFICES ASSUME IInv, [Next]_vars PROVE IInv'
  OBVIOUS
<1>1. ASSUME Next PROVE IInv'
  BY <1>1, UserActsPreserves, PreviewsPreserve, ExpirePreserves, StartsPreserve,
     ContinuesPreserve, PluginStepPreserves, Zenon DEF Next
<1>2. ASSUME UNCHANGED vars PROVE IInv'
  <2>1. UNCHANGED <<patch, queue, files, plans, tokens, minted, mix, call, started, spent, touched, kept>>
    BY <1>2 DEF vars, plugin, server, ghosts
  <2>2. TypeOK'
    BY <2>1 DEF IInv, TypeOK
  <2>3. \A x \in InUse' : Sound(x)'
    <3>1. TokensKept
      BY <2>1, Numbers DEF IInv, TokensKept
    <3> QED  BY <2>1, <3>1, StaySound, SameRecords
  <2>4. Previewed' /\ Unused' /\ OneConfirmationOneReplacement' /\ CheckpointsStay'
    BY <2>1 DEF IInv, Previewed, Unused, OneConfirmationOneReplacement, CheckpointsStay
  <2> QED  BY <2>1, <2>2, <2>3, <2>4, SameRecords DEF IInv
<1> QED  BY <1>1, <1>2

LEMMA Inductive == Spec => []IInv
  BY InitEstablishes, NextPreserves, PTL DEF Spec

\* However calls interleave with each other, with the user and with the plugin, the
\* state is well formed, no confirmation replaces the patch twice, and no checkpoint
\* that the plugin has written is overwritten or removed (TransactionManager of
\* transactions.ts, commitLoadOrClear, reserveCheckpointPath).
THEOREM ConsistentCorrect == Spec => []Consistent
<1>1. IInv => Consistent
  BY DEF IInv, Consistent
<1> QED  BY <1>1, Inductive, PTL

\* The request that the plugin runs next is of a sound record.
LEMMA NextToRun ==
  ASSUME IInv, NEW what, Runs(what)
  PROVE  Head(queue).what = what /\ Sound(Served) /\ (what = "replace" =>
           Served.kind \in Replacements /\ Served.phase = "waiting" /\ Served.name \in Names)
<1>1. queue # <<>> /\ Head(queue).what = what
  BY DEF Runs
<1> QED  BY <1>1, FirstRequest DEF Served, IInv, Asked

\* The patch that a load or clear replaces is the one that the confirmation described,
\* unless it has changed since the check (commitLoadOrClear).
THEOREM ReplacesWhatWasConfirmedCorrect == Spec => ReplacesWhatWasConfirmed
<1>1. ASSUME IInv, Runs("replace"), <<Served.serial, "check">> \notin touched
      PROVE  patch.content = Served.base
  BY <1>1, NextToRun DEF Sound, Checked
<1>2. IInv /\ [Next]_vars =>
        [Runs("replace") /\ <<Served.serial, "check">> \notin touched => patch.content = Served.base]_vars
  BY <1>1
<1> QED  BY <1>2, Inductive, PTL DEF Spec, ReplacesWhatWasConfirmed

\* Whenever a patch is replaced there is a recovery copy, of what is lost unless the
\* patch has changed since it was made (commitLoadOrClear, createCheckpoint).
THEOREM RecoveryCopyHoldsLossCorrect == Spec => RecoveryCopyHoldsLoss
<1>1. ASSUME IInv, Runs("replace")
      PROVE  /\ files[Served.name] \in Contents
             /\ <<Served.serial, "copy">> \notin touched => files[Served.name] = patch.content
  <2>1. /\ kept[Served.name] \in Contents
        /\ <<Served.serial, "copy">> \notin touched => kept[Served.name] = patch.content
    BY <1>1, NextToRun DEF Sound, Secured
  <2>2. kept[Served.name] # None => files[Served.name] = kept[Served.name]
    BY <1>1, NextToRun DEF IInv, CheckpointsStay
  <2> QED  BY <2>1, <2>2, ConfirmationsAssumption
<1>2. IInv /\ [Next]_vars =>
        [Runs("replace")
         => /\ files[Served.name] \in Contents
            /\ <<Served.serial, "copy">> \notin touched => files[Served.name] = patch.content]_vars
  BY <1>1
<1> QED  BY <1>2, Inductive, PTL DEF Spec, RecoveryCopyHoldsLoss

\* Only the plugin uses a confirmation.
LEMMA OnlyPluginSpends ==
  ASSUME Next, spent' # spent
  PROVE  PluginStep
<1>1. ASSUME NEW content \in Contents, UserActs(content) PROVE FALSE
  BY <1>1 DEF UserActs, ghosts
<1>2. ASSUME Previews PROVE FALSE
  BY <1>2 DEF Previews, PreviewPlan, PreviewLoad, ghosts
<1>3. ASSUME NEW t \in TokenIds, Expire(t) PROVE FALSE
  BY <1>3 DEF Expire, ghosts
<1>4. ASSUME NEW c \in Calls, Starts(c) PROVE FALSE
  BY <1>4 DEF Starts, CommitChecks, LoadVerifies, CheckpointBegins, ghosts
<1>5. ASSUME NEW c \in Calls, Continues(c) PROVE FALSE
  BY <1>5 DEF Continues, CommitSends, LoadChecks, CopySends, LoadSends, ReleaseStats,
              ReleaseUnlinks, LeaseFails, Timeout, ghosts
<1> QED  BY <1>1, <1>2, <1>3, <1>4, <1>5, Zenon DEF Next

\* A plan runs on a patch like the one that was previewed with its token
\* (TransactionManager.commit, and the plugin's check of the expected fingerprint).
THEOREM CommitsWhatWasPreviewedCorrect == Spec => CommitsWhatWasPreviewed
<1>1. ASSUME IInv, Next, Runs("commit")
      PROVE  patch.content = tokens[Served.token].base
  <2>1. PluginStep
    BY <1>1, OnlyPluginSpends DEF Runs
  <2>2. Head(queue).what = "commit" /\ Sound(Served) /\ Served.kind = "commit"
    BY <1>1, NextToRun, FirstRequest DEF Runs, Served, IInv, Asked
  <2>3. patch.content = Served.base
    BY <1>1, <2>1, <2>2 DEF PluginStep, Runs, Served, AnswerOnly, ExecuteCommit, ExecuteCopy,
                            ExecuteReplace
  <2> QED  BY <2>2, <2>3 DEF Sound, Bound
<1>2. IInv /\ [Next]_vars => [Runs("commit") => patch.content = tokens[Served.token].base]_vars
  BY <1>1
<1> QED  BY <1>2, Inductive, PTL DEF Spec, CommitsWhatWasPreviewed
=============================================================================
