--------------------------- MODULE Confirmations ---------------------------
(***************************************************************************)
(* Confirmations and checkpoints: TransactionManager of transactions.ts,   *)
(* the tools of patchfiles.ts, and the reservation of checkpoint names in  *)
(* paths.ts, with the plugin's queue behind them.                          *)
(*                                                                         *)
(* A preview binds what it showed; a commit must name it again, and        *)
(* replacing the patch takes a recovery copy first. Tool calls interleave  *)
(* at every await; the plugin answers requests one by one, in order; a     *)
(* call may stop waiting while its request goes on; the user edits, undoes *)
(* and opens patches at any time.                                          *)
(*                                                                         *)
(* Contents of a patch stand for their fingerprints. A read (status,       *)
(* fingerprint, preview) takes effect when the plugin answers it. Path     *)
(* policy and rate limit are left out; so are sessions, as an instance     *)
(* that restarts has another one; and time, but for the expiry of what was *)
(* previewed. The last step of a call follows its last answer at once.     *)
(*                                                                         *)
(* spent, touched and kept are history variables.                          *)
(***************************************************************************)
EXTENDS Integers, Sequences

CONSTANTS
  Calls,      \* tool calls in progress at once
  Mixes,      \* sets of tools, those of one of them called in a behaviour (bound)
  Ops,        \* operation ids
  Plans,      \* plan hashes
  Contents,   \* contents of a patch
  MaxNames,   \* the candidates for the name of a checkpoint, tried in order (bound)
  MaxCalls,   \* calls started (bound)
  MaxTokens,  \* previews made (bound)
  MaxOpens,   \* the last epoch in which the user opens a patch (bound)
  None        \* no operation, plan, content or name

Replacements == {"load", "clear", "restore"}
Kinds == {"commit", "load", "clear", "restore", "checkpoint"}

ASSUME ConfirmationsAssumption ==
  /\ Mixes \subseteq SUBSET Kinds
  /\ {MaxCalls, MaxTokens, MaxOpens, MaxNames} \subseteq Nat
  /\ None \notin Ops \cup Plans \cup Contents \cup Kinds \cup {"empty"}

VARIABLES
  patch,    \* the live patch: its content and epoch
  files,    \* checkpoints: a content, "empty" while reserved, or None
  queue,    \* requests at the plugin
  cached,   \* the plugin's operation cache: the request each id stands for
  plans,    \* previewed plans the server keeps: the token made with each
  tokens,   \* what each token binds, and whether it is neither burned nor expired
  minted,   \* tokens minted so far
  mix,      \* the tools called
  call,     \* the calls in progress
  started,  \* calls started so far
  spent,    \* executions each token has led to
  touched,  \* serials of loads since whose "check" or "copy" the patch changed
  kept      \* what the plugin has written to each checkpoint

plugin == <<patch, queue, cached>>
server == <<plans, tokens, minted>>
ghosts == <<spent, kept>>
vars   == <<plugin, files, server, mix, call, started, touched, ghosts>>

TokenIds == 1..MaxTokens
Names    == 1..MaxNames
Epochs   == Nat \ {0}
Bindings == [kind : {"plan"} \cup Replacements, plan : Plans \cup {None},
             base : Contents, epoch : Epochs, risky : BOOLEAN, live : BOOLEAN]
Phases   == {"idle", "checking", "leasing", "copying", "uncopied", "copied",
             "unlinking", "waiting"}
CallRecords == [phase : Phases, serial : 0..MaxCalls,
                kind : Kinds \cup {None}, op : Ops \cup {None}, plan : Plans \cup {None},
                base : Contents \cup {None}, token : 0..MaxTokens, name : 0..MaxNames]
Requests == [what : {"commit", "saveCopy", "replace"}, by : Calls, of : CallRecords]

Idle == [phase |-> "idle", serial |-> 0, kind |-> None, op |-> None, plan |-> None,
         base |-> None, token |-> 0, name |-> 0]

TypeOK ==
  /\ patch \in [content : Contents, epoch : Epochs]
  /\ files \in [Names -> Contents \cup {"empty", None}]
  /\ queue \in Seq(Requests)
  /\ \A i \in DOMAIN queue : queue[i].what # "commit" => queue[i].of.name \in Names
  /\ plans \in [Plans -> 0..MaxTokens]
  /\ tokens \in [TokenIds -> Bindings \cup {None}]
  /\ minted \in 0..MaxTokens
  /\ mix \in Mixes
  /\ call \in [Calls -> CallRecords]
  /\ started \in 0..MaxCalls
  /\ spent \in [TokenIds -> Nat]
  /\ touched \subseteq (1..MaxCalls) \X {"check", "copy"}
  /\ kept \in [Names -> Contents \cup {None}]

Init ==
  /\ \E c \in Contents : patch = [content |-> c, epoch |-> 1]
  /\ files = [n \in Names |-> None]
  /\ queue = <<>>
  /\ cached = [o \in Ops |-> <<>>]
  /\ plans = [h \in Plans |-> 0]
  /\ tokens = [t \in TokenIds |-> None]
  /\ minted = 0
  /\ mix \in Mixes
  /\ call = [c \in Calls |-> Idle]
  /\ started = 0
  /\ spent = [t \in TokenIds |-> 0]
  /\ touched = {}
  /\ kept = [n \in Names |-> None]

-----------------------------------------------------------------------------
(* The patch changes, by the user's hand or by a request *)

\* The calls that have yet to replace it.
Replacing ==
  {r.serial : r \in {q \in {call[c] : c \in Calls} \cup {queue[i].of : i \in DOMAIN queue} :
                      q.kind \in Replacements}}

ChangePatch(content, epoch) ==
  /\ patch' = [content |-> content, epoch |-> epoch]
  /\ touched' = touched \cup (Replacing \X {"check", "copy"})

\* The user edits, undoes or redoes; or opens a patch, perhaps the same again.
UserActs(content) ==
  /\ \/ content # patch.content /\ ChangePatch(content, patch.epoch)
     \/ patch.epoch <= MaxOpens /\ ChangePatch(content, patch.epoch + 1)
  /\ UNCHANGED <<files, queue, cached, server, call, started, ghosts>>

-----------------------------------------------------------------------------
(* Previews *)

Mint(kind, plan, risky) ==
  /\ minted < MaxTokens
  /\ minted' = minted + 1
  /\ tokens' = [tokens EXCEPT ![minted'] = [kind |-> kind, plan |-> plan,
                                            base |-> patch.content, epoch |-> patch.epoch,
                                            risky |-> risky, live |-> TRUE]]

\* TransactionManager.preview: the plan is kept under its hash, which does not
\* cover the patch it was computed against; nor the risk, which depends on it.
PreviewPlan(h, risky) ==
  /\ "commit" \in mix
  /\ Mint("plan", h, risky)
  /\ plans' = [plans EXCEPT ![h] = minted']
  /\ UNCHANGED <<plugin, files, call, started, touched, ghosts>>

\* buildLoadPreview, and the preview phase of restoreCheckpoint.
PreviewLoad(kind) ==
  /\ kind \in mix \cap Replacements
  /\ Mint(kind, None, TRUE)
  /\ UNCHANGED <<plugin, files, plans, call, started, touched, ghosts>>

Live(t) == t \in 1..minted /\ tokens[t].live

\* The lifetime of a preview ends: its token, and the plan kept with it.
Expire(t) ==
  /\ Live(t)
  /\ tokens' = [tokens EXCEPT ![t].live = FALSE]
  /\ plans' = [h \in Plans |-> IF plans[h] = t THEN 0 ELSE plans[h]]
  /\ UNCHANGED <<plugin, files, minted, call, started, touched, ghosts>>

-----------------------------------------------------------------------------
(* Calls: their awaits and their ends *)

Move(c, phase) == call' = [call EXCEPT ![c].phase = phase]

Begin(c, kind, op, plan, base, token, phase) ==
  /\ call[c].phase = "idle"
  /\ kind \in mix
  /\ started < MaxCalls
  /\ started' = started + 1
  /\ call' = [call EXCEPT ![c] =
       [phase |-> phase, serial |-> started', kind |-> kind, op |-> op, plan |-> plan,
        base |-> base, token |-> token, name |-> 0]]

End(c) == call' = [call EXCEPT ![c] = Idle]

\* Faulty variant: the request carries what the call knew before this step.
SendStale(c, what) == queue' = Append(queue, [what |-> what, by |-> c, of |-> call[c]])

Send(c, what) == queue' = Append(queue, [what |-> what, by |-> c, of |-> call'[c]])

\* ensureLease fails, or no name can be reserved.
LeaseFails(c) ==
  /\ call[c].phase = "leasing"
  /\ End(c)
  /\ UNCHANGED <<plugin, files, server, started, touched, ghosts>>

\* Faulty variant: the name is given back whatever went wrong.
UnlinkAnyway(c) == Move(c, "uncopied")

AfterTimeout(c) == End(c)

\* The answer is not awaited any longer: the deadline, or a lost connection. A
\* checkpoint keeps its name: the plugin may still write it.
Timeout(c) ==
  /\ \/ call[c].phase = "copying" /\ AfterTimeout(c)
     \/ call[c].phase = "waiting" /\ End(c)
  /\ UNCHANGED <<plugin, files, server, started, touched, ghosts>>

-----------------------------------------------------------------------------
(* commit_patch_transaction: TransactionManager.commit *)

\* Faulty variant: the fingerprint is left to the plugin, which compares it with
\* the live patch.
AnyExpected(h, expected) == TRUE

ExpectedIsPreviewed(h, expected) == expected = tokens[plans[h]].base

TokenBinds(t, h, expected) ==
  /\ Live(t)
  /\ tokens[t].kind = "plan" /\ tokens[t].plan = h /\ tokens[t].base = expected

\* The checks, up to the await of the lease. The preview that counts is the
\* token's if one is required, and otherwise the one kept with the plan.
CommitChecks(c, op, h, expected, t) ==
  /\ plans[h] # 0
  /\ ExpectedIsPreviewed(h, expected)
  /\ IF tokens[plans[h]].risky THEN TokenBinds(t, h, expected) ELSE t = plans[h]
  /\ Begin(c, "commit", op, h, expected, t, "leasing")
  /\ UNCHANGED <<plugin, files, server, touched, ghosts>>

CommitSends(c) ==
  /\ call[c].kind = "commit" /\ call[c].phase = "leasing"
  /\ Move(c, "waiting")
  /\ Send(c, "commit")
  /\ UNCHANGED <<patch, cached, files, server, started, touched, ghosts>>

-----------------------------------------------------------------------------
(* commit_load_patch, commit_clear_patch, restore_checkpoint: commitLoadOrClear *)

LoadTokenBinds(t, kind) == Live(t) /\ tokens[t].kind = kind

LoadVerifies(c, op, kind, t) ==
  /\ kind \in Replacements
  /\ LoadTokenBinds(t, kind)
  /\ Begin(c, kind, op, None, tokens[t].base, t, "checking")
  /\ UNCHANGED <<plugin, files, server, touched, ghosts>>

\* Faulty variant: only the epoch is compared.
EpochOnly(b) == patch.epoch = b.epoch

StillLive(b) == patch.epoch = b.epoch /\ patch.content = b.base

\* The patch is compared with the binding read before the await.
LoadChecks(c) ==
  /\ call[c].phase = "checking"
  /\ IF StillLive(tokens[call[c].token])
     THEN Move(c, "leasing") /\ touched' = touched \ {<<call[c].serial, "check">>}
     ELSE End(c) /\ UNCHANGED touched
  /\ UNCHANGED <<plugin, files, server, started, ghosts>>

\* reserveCheckpointPath: the first candidate whose file could be created
\* exclusively.
FirstFree(n) == files[n] = None /\ \A m \in 1..(n - 1) : files[m] # None

\* Then patchfile.saveCopy.
CopySends(c) ==
  /\ call[c].phase = "leasing" /\ call[c].kind # "commit"
  /\ \E n \in Names :
       /\ FirstFree(n)
       /\ files' = [files EXCEPT ![n] = "empty"]
       /\ call' = [call EXCEPT ![c].phase = "copying", ![c].name = n]
  /\ Send(c, "saveCopy")
  /\ UNCHANGED <<patch, cached, server, started, touched, ghosts>>

\* releaseCheckpointReservation: stat, then unlink.
ReleaseStats(c) ==
  /\ call[c].phase = "uncopied"
  /\ IF files[call[c].name] = "empty" THEN Move(c, "unlinking") ELSE End(c)
  /\ UNCHANGED <<plugin, files, server, started, touched, ghosts>>

ReleaseUnlinks(c) ==
  /\ call[c].phase = "unlinking"
  /\ files' = [files EXCEPT ![call[c].name] = None]
  /\ End(c)
  /\ UNCHANGED <<plugin, server, started, touched, ghosts>>

\* Faulty variant: the token is verified again and not burned.
NotBurned(t) == UNCHANGED tokens

Burned(t) == tokens' = [tokens EXCEPT ![t].live = FALSE]

\* Faulty variant: the load goes ahead when its recovery copy failed.
EvenUncopied(c) == call[c].phase \in {"copied", "uncopied"}

RecoveryCopied(c) == call[c].phase = "copied"

\* consumeLoadToken, which throws if another call has burned it; then the request,
\* unless the file to load has gone or fails the path policy by now.
LoadSends(c) ==
  /\ call[c].kind \in Replacements /\ RecoveryCopied(c)
  /\ LET t == call[c].token IN
     \/ /\ Live(t)
        /\ Burned(t)
        /\ Move(c, "waiting")
        /\ Send(c, "replace")
     \/ /\ ~Live(t)
        /\ End(c)
        /\ UNCHANGED <<tokens, queue>>
     \/ /\ Live(t) /\ call[c].kind # "clear"
        /\ Burned(t)
        /\ End(c)
        /\ UNCHANGED queue
  /\ UNCHANGED <<patch, cached, files, plans, minted, started, touched, ghosts>>

-----------------------------------------------------------------------------
(* create_checkpoint *)

CheckpointBegins(c, op) ==
  /\ Begin(c, "checkpoint", op, None, None, 0, "leasing")
  /\ UNCHANGED <<plugin, files, server, touched, ghosts>>

-----------------------------------------------------------------------------
(* The plugin: executeCommand, one request at a time *)

\* requestFingerprint: method and payload. A recovery copy has an id of its own.
RequestIdentity(r) ==
  CASE r.what = "commit"   -> <<"commit", r.of.plan>>
    [] r.what = "saveCopy" -> <<"saveCopy", r.of.name>>
    [] r.what = "replace"  -> <<r.of.kind, None>>

Remembered(r) ==
  IF r.what = "saveCopy" /\ r.of.kind # "checkpoint" THEN <<>> ELSE cached[r.of.op]

Record(r) ==
  cached' = IF r.what = "saveCopy" /\ r.of.kind # "checkpoint" THEN cached
            ELSE [cached EXCEPT ![r.of.op] = RequestIdentity(r)]

\* The answer reaches the call if it still waits for this request, and the call
\* goes on at once: it ends, but for a load or clear that has its copy and for a
\* checkpoint that has a name to give back. A commit drops its plan on success only.
Reply(r, ok) ==
  LET c == r.by
      waits == call[c] = r.of IN
  /\ call' = IF ~waits THEN call
             ELSE [call EXCEPT ![c] =
                    IF r.what = "saveCopy" /\ ~ok THEN [@ EXCEPT !.phase = "uncopied"]
                    ELSE IF r.what = "saveCopy" /\ r.of.kind # "checkpoint"
                         THEN [@ EXCEPT !.phase = "copied"]
                         ELSE Idle]
  /\ plans' = IF waits /\ ok /\ r.what = "commit" THEN [plans EXCEPT ![r.of.plan] = 0] ELSE plans

\* A replay, a mismatch, a conflict, or a failure that changed nothing.
AnswerOnly(r) ==
  /\ \/ Remembered(r) = RequestIdentity(r) /\ Reply(r, TRUE)
     \/ Remembered(r) # RequestIdentity(r) /\ Reply(r, FALSE)
  /\ UNCHANGED <<patch, cached, files, touched, spent, kept>>

ExecuteCommit(r, content) ==
  /\ r.what = "commit" /\ Remembered(r) = <<>>
  /\ patch.content = r.of.base
  /\ ChangePatch(content, patch.epoch)
  /\ Record(r)
  /\ Reply(r, TRUE)
  /\ spent' = [spent EXCEPT ![r.of.token] = @ + 1]
  /\ UNCHANGED <<files, kept>>

ExecuteCopy(r) ==
  /\ r.what = "saveCopy" /\ Remembered(r) = <<>>
  /\ files' = [files EXCEPT ![r.of.name] = patch.content]
  /\ kept' = [kept EXCEPT ![r.of.name] = patch.content]
  /\ touched' = touched \ {<<r.of.serial, "copy">>}
  /\ Record(r)
  /\ Reply(r, TRUE)
  /\ UNCHANGED <<patch, spent>>

\* A load or clear; it may fail and has replaced the patch all the same.
ExecuteReplace(r, content, ok) ==
  /\ r.what = "replace" /\ Remembered(r) = <<>>
  /\ ChangePatch(content, patch.epoch + 1)
  /\ IF ok THEN Record(r) ELSE UNCHANGED cached
  /\ Reply(r, ok)
  /\ spent' = [spent EXCEPT ![r.of.token] = @ + 1]
  /\ UNCHANGED <<files, kept>>

PluginStep ==
  /\ queue # <<>>
  /\ queue' = Tail(queue)
  /\ LET r == Head(queue) IN
     \/ AnswerOnly(r)
     \/ \E content \in Contents : ExecuteCommit(r, content)
     \/ ExecuteCopy(r)
     \/ \E content \in Contents, ok \in BOOLEAN : ExecuteReplace(r, content, ok)
  /\ UNCHANGED <<tokens, minted, started>>

-----------------------------------------------------------------------------
Previews ==
  \/ \E h \in Plans, risky \in BOOLEAN : PreviewPlan(h, risky)
  \/ \E kind \in Replacements : PreviewLoad(kind)

Starts(c) ==
  \E op \in Ops :
    \/ \E h \in Plans, expected \in Contents, t \in TokenIds :
         CommitChecks(c, op, h, expected, t)
    \/ \E kind \in Replacements, t \in TokenIds : LoadVerifies(c, op, kind, t)
    \/ CheckpointBegins(c, op)

Continues(c) ==
  \/ CommitSends(c) \/ LoadChecks(c) \/ CopySends(c) \/ LoadSends(c)
  \/ ReleaseStats(c) \/ ReleaseUnlinks(c)
  \/ LeaseFails(c) \/ Timeout(c)

Next ==
  /\ UNCHANGED mix
  /\ \/ \E content \in Contents : UserActs(content)
     \/ Previews
     \/ \E t \in TokenIds : Expire(t)
     \/ \E c \in Calls : Starts(c) \/ Continues(c)
     \/ PluginStep

Spec == Init /\ [][Next]_vars

-----------------------------------------------------------------------------
(* Properties *)

\* One previewed confirmation replaces the patch at most once, however many calls
\* present it at the same time, under one id or several, lost answers or not.
OneConfirmationOneReplacement ==
  \A t \in 1..minted : tokens[t].kind # "plan" => spent[t] <= 1

\* No checkpoint the plugin has written is overwritten or removed: not by calls
\* that pick a name at the same moment, nor by one that gives its name back.
CheckpointsStay == \A n \in Names : kept[n] # None => files[n] = kept[n]

\* The state is well formed, no confirmation has been used twice, and no checkpoint lost.
Consistent == TypeOK /\ OneConfirmationOneReplacement /\ CheckpointsStay

\* The next request at the plugin, and the steps that run it.
Served == Head(queue).of

Runs(what) ==
  /\ queue # <<>> /\ queue' = Tail(queue) /\ Head(queue).what = what
  /\ spent' # spent

\* The patch that a load or clear replaces is the one the confirmation described,
\* unless it changed after the check that comes right before.
ReplacesWhatWasConfirmed ==
  [][Runs("replace") /\ <<Served.serial, "check">> \notin touched
     => patch.content = Served.base]_vars

\* Whenever a patch is replaced there is a recovery copy, and it holds what was
\* lost unless the patch changed since the copy was made.
RecoveryCopyHoldsLoss ==
  [][Runs("replace")
     => /\ files[Served.name] \in Contents
        /\ <<Served.serial, "copy">> \notin touched => files[Served.name] = patch.content]_vars

\* A plan runs on a patch like the one of the preview that authorised it, for
\* plans that need a token and for those that do not.
CommitsWhatWasPreviewed ==
  [][Runs("commit") => patch.content = tokens[Served.token].base]_vars

-----------------------------------------------------------------------------
(* What comments and documents say *)

\* "the current patch is never destroyed with the safety net missing"
\* (commitLoadOrClear).
NothingLostUncopied ==
  [][Runs("replace") => files[Served.name] = patch.content]_vars

\* "one previewed confirmation authorises exactly one destructive commit (the
\* transaction path gets this from deleting the cached plan on commit)".
OneConfirmationOneCommit ==
  \A t \in 1..minted : tokens[t].kind = "plan" => spent[t] <= 1

\* "Tokens bind instance, session, patch epoch, ..." (transactions.ts).
CommitsInPreviewedEpoch ==
  [][Runs("commit") => patch.epoch = tokens[Served.token].epoch]_vars
=============================================================================
