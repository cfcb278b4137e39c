------------------------------- MODULE ToolCalls -------------------------------
(***************************************************************************)
(* The tool calls of the MCP server: the pipeline every call goes through  *)
(* (server.ts), the handlers that mutate (tools.ts, telemetry.ts) with the *)
(* commit they share (transactions.ts), what their errors tell the caller  *)
(* (errors.ts), and the limiter and the audit log they run into.           *)
(*                                                                         *)
(* The bridge is what BridgeClient promises of it: an answer, or an error  *)
(* flagged mutationMayHaveOccurred unless the request was never executed.  *)
(* Plans and tokens are here what the checks of a commit tell apart;       *)
(* Confirmations has them in full.                                         *)
(***************************************************************************)
EXTENDS RateLimiter, AuditLog, FiniteSets

CONSTANTS
  Calls,    \* calls in progress at a time
  Changes,  \* numbers of parameter changes in a plan
  MaxCalls  \* calls received (bound)

ASSUME ToolCallsAssumption == Changes \subseteq Nat /\ 0 \in Changes /\ MaxCalls \in Nat

VARIABLES
  received,  \* calls received
  call       \* the calls in progress

callVars == <<received, call>>
vars     == <<limiterVars, auditVars, callVars>>
Stays    == UNCHANGED <<limiterVars, auditVars, received>>

Tools == {"read", "commit", "build", "undo", "attach", "detach"}

Phases == {"idle", "handler", "preview", "commit", "lease", "request", "cable", "reply"}
Causes == {"none", "arguments", "checks", "limit", "bridge", "cable", "size"}

Records == [phase : Phases, tool : Tools, changes : Changes, risky : {"no", "yes"}, token : {"no", "yes"},
            ran : {"no", "yes"}, error : {"none", "plain", "flagged"}, cause : Causes]

TypeOK ==
  /\ time \in 0..MaxTime /\ hits \in Seq(0..MaxTime) /\ (Limit > 0 => Len(hits) <= Limit)
  /\ opened \in {"no", "yes"} /\ stale \in {"no", "yes"}
  /\ newest <= received /\ expired \in 0..newest /\ received \in 0..MaxCalls
  /\ call \in [Calls -> Records]

None == [phase |-> "idle", tool |-> "read", changes |-> 0, risky |-> "no", token |-> "no",
         ran |-> "no", error |-> "none", cause |-> "none"]

Init == LimiterInit /\ AuditInit /\ received = 0 /\ call = [c \in Calls |-> None]

At(c, phase) == call[c].phase = phase
Goes(c, r)   == call' = [call EXCEPT ![c] = r]
To(c, phase) == Goes(c, [call[c] EXCEPT !.phase = phase])

-----------------------------------------------------------------------------
(* Errors *)

\* Faulty variant: errors of the bridge lose their flag.
Plain(e) == "plain"

\* toErrorPayload: an error of the bridge keeps its flag, any other has none.
Payload(e) == e

Fails(c, error, cause) ==
  Goes(c, [call[c] EXCEPT !.phase = "reply", !.error = Payload(error), !.cause = cause, !.changes = 0])

\* A request that mutates nothing may fail either way: it is flagged when lost.
BridgeFails(c, cause) == \E error \in {"plain", "flagged"} : Fails(c, error, cause)

-----------------------------------------------------------------------------
(* The handlers *)

Plans(tool) ==
  IF tool \in {"commit", "attach"}
  THEN [phase : {"idle"}, tool : {tool}, changes : IF tool = "commit" THEN Changes ELSE {0},
        risky : {"no", "yes"}, token : {"no", "yes"}, ran : {"no"}, error : {"none"}, cause : {"none"}]
  ELSE {[None EXCEPT !.tool = tool]}

\* The arguments are parsed, {} if they were omitted; those of a commit name a plan
\* previewed before, and bring its token or none.
Receive(c) ==
  /\ At(c, "idle") /\ received < MaxCalls
  /\ received' = received + 1
  /\ \E tool \in Tools : \E plan \in Plans(tool) :
       \/ Goes(c, [plan EXCEPT !.phase = "handler"])
       \/ Goes(c, [plan EXCEPT !.phase = "reply", !.error = Payload("plain"), !.cause = "arguments"])
  /\ UNCHANGED <<limiterVars, auditVars>>

\* ensureConnected, and what a read asks for.
Handle(c) ==
  /\ At(c, "handler")
  /\ \/ To(c, CASE call[c].tool = "read" -> "reply"
                [] call[c].tool \in {"build", "detach"} -> "preview"
                [] call[c].tool \in {"commit", "attach"} -> "commit"
                [] call[c].tool = "undo" -> "lease")
     \/ BridgeFails(c, "bridge")
  /\ Stays

\* build_patch and build_recipe preview their plan, and stop there if it needs to be
\* confirmed or should not be committed; detach_probe brings the token itself.
Preview(c) ==
  /\ At(c, "preview")
  /\ \/ /\ call[c].tool = "build"
        /\ \/ To(c, "reply")
           \/ \E n \in Changes : Goes(c, [call[c] EXCEPT !.phase = "commit", !.changes = n])
     \/ /\ call[c].tool = "detach"
        /\ \E risky \in {"no", "yes"} :
             Goes(c, [call[c] EXCEPT !.phase = "commit", !.risky = risky, !.token = "yes"])
     \/ BridgeFails(c, "bridge")
  /\ Stays

\* Faulty variant: a plan that needs confirmation is committed without a token.
AnyPlan(r) == TRUE

Confirmed(r) == r.risky = "yes" => r.token = "yes"

\* TransactionManager.commit, up to the first await: the plan is the one previewed
\* and confirmed, and the limiter is charged.
Commit(c) ==
  /\ At(c, "commit")
  /\ \/ Fails(c, "plain", "checks") /\ UNCHANGED limiterVars
     \/ Confirmed(call[c]) /\ Refuse(call[c].changes) /\ Fails(c, "plain", "limit")
     \/ Confirmed(call[c]) /\ Admit(call[c].changes)
        /\ Goes(c, [call[c] EXCEPT !.phase = "lease", !.changes = 0])
  /\ UNCHANGED <<auditVars, received>>

EnsureLease(c) ==
  /\ At(c, "lease")
  /\ To(c, "request") \/ BridgeFails(c, "bridge")
  /\ Stays

\* txn.commit or txn.undoLast: settled as BridgeClient does.
Request(c) ==
  /\ At(c, "request")
  /\ LET ran == [call[c] EXCEPT !.ran = "yes"] IN
     \/ Goes(c, [ran EXCEPT !.phase = IF ran.tool = "attach" THEN "cable" ELSE "reply"])
     \/ Goes(c, [ran EXCEPT !.phase = "reply", !.error = Payload("flagged"), !.cause = "bridge"])
     \/ BridgeFails(c, "bridge")
  /\ Stays

\* commit_attach_probe looks for the cable it made in a new snapshot.
FindCable(c) ==
  /\ At(c, "cable")
  /\ To(c, "reply") \/ BridgeFails(c, "cable")
  /\ Stays

-----------------------------------------------------------------------------
(* The pipeline *)

\* A result too large becomes an error.
ExceedsLimit(c) ==
  /\ At(c, "reply") /\ call[c].error = "none"
  /\ Fails(c, "plain", "size")
  /\ Stays

\* The call is audited, however it ended, and answered.
Reply(c) ==
  /\ At(c, "reply")
  /\ Goes(c, None)
  /\ Record
  /\ UNCHANGED <<limiterVars, received>>

\* The server process ends, and with it the calls it was working on.
Restart ==
  /\ LimiterRestarts /\ AuditRestarts
  /\ call' = [c \in Calls |-> None]
  /\ UNCHANGED received

Next ==
  \/ \E c \in Calls :
       \/ Receive(c) \/ Handle(c) \/ Preview(c) \/ Commit(c) \/ EnsureLease(c) \/ Request(c)
       \/ FindCable(c) \/ ExceedsLimit(c) \/ Reply(c)
  \/ Tick /\ UNCHANGED <<auditVars, callVars>>
  \/ (Ages \/ OpenToRead) /\ UNCHANGED <<limiterVars, callVars>>
  \/ Restart

Spec == Init /\ [][Next]_vars

-----------------------------------------------------------------------------
(* Properties *)

\* The audit view is the latest history without a gap, and its files stay bounded.
Consistent == TypeOK /\ RecentHistory /\ LogBounded

\* RackMcpError: mutationMayHaveOccurred is set when a mutation may have been applied.
\* After an execution only the two errors raised past it are not flagged: the look for
\* the cable and the size of the result. And what ran and was to be confirmed was:
\* by the caller's token, or by detach_probe for the plan it made itself.
AnswersTruly ==
  \A c \in Calls : call[c].ran = "yes" =>
    /\ call[c].error = "plain" => call[c].cause \in {"cable", "size"}
    /\ call[c].risky = "yes" => call[c].token = "yes"

=============================================================================
