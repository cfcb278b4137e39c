---------------------------- MODULE Transaction ----------------------------
(***************************************************************************)
(* The plugin's transaction engine (rackside/Transaction.cpp): a plan is   *)
(* applied to the live patch one recorded edit at a time; if anything      *)
(* throws, the recorded edits are undone newest first and the plugin says  *)
(* whether the patch is provably back to what it was; if nothing throws,   *)
(* the edits become one entry of Rack's undo history, which the client may *)
(* later undo as long as nobody has touched the patch since.               *)
(*                                                                         *)
(* txnCommit runs inside one frame of the UI thread, so the user does not  *)
(* interleave with it, but third-party code it calls may throw after       *)
(* changing the patch, and a worker thread of a module may change a        *)
(* parameter at any time.                                                  *)
(***************************************************************************)
EXTENDS Integers, Sequences, FiniteSets, SequencesExt

CONSTANTS Given,          \* the modules of the patch at the start
          Fresh,          \* ids the engine hands to modules added later
          MaxEvents,      \* bound: transactions begun and parameters set by worker threads
          MaxOperations,  \* bound: operations of one plan
          MaxHistory      \* bound: entries of Rack's undo history

ASSUME IdAssumption    == Given \cap Fresh = {} /\ IsFiniteSet(Given) /\ IsFiniteSet(Fresh)
ASSUME BoundAssumption == MaxEvents \in Nat /\ MaxOperations \in Nat /\ MaxHistory \in Nat

VARIABLES patch,    \* the live patch
          txn,      \* the transaction being applied or rolled back
          history,  \* Rack's undo history: [entries, at], at = how many are done
          last,     \* lastMcpTransaction: [op, post] or NoLast
          reply,    \* what the step just taken tells the client
          begun,    \* transactions begun; also the operation id of the newest
          touches,  \* parameters set by worker threads so far
          astray  \* ghost: an edit was not recorded, or could not be taken back

txnVars == <<patch, txn, history, last, reply, begun, touches, astray>>

-----------------------------------------------------------------------------
(* The patch. A module has one parameter, one output, one input and a grid  *)
(* column; a cable joins an output to an input, and an input takes one      *)
(* cable. `order` is the engine's own list of modules: serialisation and    *)
(* therefore the fingerprint follow it.                                     *)

Settings == {0, 1}
Modules  == Given \cup Fresh
Columns  == 1 .. Cardinality(Modules)
Module   == [param : Settings, bypass : {"on", "off"}, column : Columns]
Cable    == [out : Modules, in : Modules]
NewModule(x) == [param |-> 0, bypass |-> "off", column |-> x]

Present(p) == DOMAIN p.modules
Attached(p, id) == {c \in p.cables : id \in {c.out, c.in}}

\* canonicalFingerprint sorts the keys of objects and nothing else, so two
\* patches with the same contents in another order have other fingerprints.
Fingerprint(p) == p
Contents(p) == [modules |-> p.modules, cables |-> p.cables]

Insert(p, id, m) ==
  [p EXCEPT !.modules = [i \in Present(p) \cup {id} |-> IF i = id THEN m ELSE @[i]],
            !.order = Append(@, id)]
\* The state m of the one module id.
At(id, m) == [i \in {id} |-> m]

\* Faulty variant: the removed module stays in the engine's list.
DeleteKeepsPlace(p, id) ==
  [p EXCEPT !.modules = [i \in Present(p) \ {id} |-> @[i]]]

Delete(p, id) ==
  [p EXCEPT !.modules = [i \in Present(p) \ {id} |-> @[i]],
            !.order = RemoveAt(@, CHOOSE n \in DOMAIN @ : @[n] = id)]

\* The module m with some fields of another.
With(m, fields, v) ==
  [param  |-> IF "param"  \in fields THEN v.param  ELSE m.param,
   bypass |-> IF "bypass" \in fields THEN v.bypass ELSE m.bypass,
   column |-> IF "column" \in fields THEN v.column ELSE m.column]
Assign(p, fields, values) ==
  [p EXCEPT !.modules = [i \in DOMAIN @ |-> IF i \in DOMAIN values THEN With(@[i], fields, values[i]) ELSE @[i]]]
Plug(p, c)   == [p EXCEPT !.cables = @ \cup {c}]
Unplug(p, c) == [p EXCEPT !.cables = @ \ {c}]

-----------------------------------------------------------------------------
(* Rack's history actions (rack::history, external), as the plugin fills    *)
(* them in. ParamChange, ModuleBypass, ModuleChange and the ModuleMoves of  *)
(* a drag all put recorded values back, so they are one kind here.          *)

ModuleAdd(id, m)    == [kind |-> "ModuleAdd", id |-> id, module |-> m]
ModuleRemove(id, m) == [kind |-> "ModuleRemove", id |-> id, module |-> m]
CableAdd(c)         == [kind |-> "CableAdd", cable |-> c]
CableRemove(c)      == [kind |-> "CableRemove", cable |-> c]
Change(fields, old, new) == [kind |-> "Change", fields |-> fields, old |-> old, new |-> new]

Redo(p, a) == CASE a.kind = "ModuleAdd"    -> Insert(p, a.id, a.module)
                [] a.kind = "ModuleRemove" -> Delete(p, a.id)
                [] a.kind = "CableAdd"     -> Plug(p, a.cable)
                [] a.kind = "CableRemove"  -> Unplug(p, a.cable)
                [] a.kind = "Change"       -> Assign(p, a.fields, a.new)

Undo(p, a) == CASE a.kind = "ModuleAdd"    -> Delete(p, a.id)
                [] a.kind = "ModuleRemove" -> Insert(p, a.id, a.module)
                [] a.kind = "CableAdd"     -> Unplug(p, a.cable)
                [] a.kind = "CableRemove"  -> Plug(p, a.cable)
                [] a.kind = "Change"       -> Assign(p, a.fields, a.old)

RedoAll(p, as) ==
  LET after[n \in 0 .. Len(as)] == IF n = 0 THEN p ELSE Redo(after[n - 1], as[n])
  IN after[Len(as)]

\* Newest first.
UndoAll(p, as) ==
  LET before[n \in 0 .. Len(as)] == IF n = 0 THEN p ELSE Undo(before[n - 1], as[Len(as) - n + 1])
  IN before[Len(as)]

-----------------------------------------------------------------------------
(* What each plan operation does to a patch: the set of sequences of edits  *)
(* it may consist of (the engine chooses ids and where displaced neighbours *)
(* land). An operation whose checks refuse it has no sequence.              *)

\* pushModuleDragAction: one record for all the modules a placement moved.
DragTo(old, layout) ==
  LET moved == {i \in DOMAIN old : layout[i] # old[i].column} IN
  IF moved = {} THEN <<>>
  ELSE <<Change({"column"}, [i \in moved |-> old[i]],
                [i \in moved |-> [old[i] EXCEPT !.column = layout[i]]])>>

\* The layouts that put `id` at column x, other modules wherever they fit.
Forced(ids, id, x) == {l \in [ids -> Columns] : IsInjective(l) /\ l[id] = x}

Moved(p, id, policy) ==
  LET column(i) == p.modules[i].column
      taken == {column(i) : i \in Present(p) \ {id}}
      stay(x) == [i \in Present(p) |-> IF i = id THEN x ELSE column(i)]
      layouts == CASE policy = "fail"    -> {stay(x) : x \in Columns \ taken}
                   [] policy = "nearest" -> {stay(x) : x \in Columns \ taken}
                   [] policy = "force"   -> UNION {Forced(Present(p), id, x) : x \in Columns}
  IN {DragTo(p.modules, l) : l \in layouts}

SetParam(id, m, v) ==
  <<Change({"param"}, At(id, m), At(id, [m EXCEPT !.param = v]))>>
SetBypass(id, m, b) ==
  IF m.bypass = b THEN <<>>
  ELSE <<Change({"bypass"}, At(id, m), At(id, [m EXCEPT !.bypass = b]))>>

\* applyAdd: the module is recorded first, then the neighbours its placement
\* displaced, then its initial parameter and its bypass.
AddedAt(p, id, layout) ==
  LET m == NewModule(layout[id]) IN
  UNION {{<<ModuleAdd(id, m)>> \o DragTo(p.modules, layout) \o initial \o SetBypass(id, m, b) :
            b \in {"on", "off"}} : initial \in {<<>>, SetParam(id, m, 1)}}

Added(p, ids) ==
  UNION {UNION {AddedAt(p, id, l) : l \in {l \in [Present(p) \cup {id} -> Columns] : IsInjective(l)}} : id \in ids}

CableRemoves(cables) ==
  LET inOrder == SetToSeq(cables) IN [i \in DOMAIN inOrder |-> CableRemove(inOrder[i])]

\* Faulty variant: the module first, its cables after it.
RemovedModuleFirst(p) ==
  {<<ModuleRemove(id, p.modules[id])>> \o CableRemoves(Attached(p, id)) : id \in Present(p)}

\* applyRemove: the attached cables first, then the module.
Removed(p) ==
  {CableRemoves(Attached(p, id)) \o <<ModuleRemove(id, p.modules[id])>> : id \in Present(p)}

\* applyConnect: an occupied input is cleared first (replace_all) or refused.
Connected(p) ==
  UNION {{CableRemoves({c \in p.cables : c.in = i}) \o <<CableAdd([out |-> o, in |-> i])>> :
            o \in Present(p)} : i \in Present(p)}

\* applyDisconnect and applyDisconnectPort: one cable, or all of an output's.
Disconnected(p) ==
  {CableRemoves({c}) : c \in p.cables}
    \cup {CableRemoves({c \in p.cables : c.out = o}) : o \in Present(p)}

\* applySetParam, applyBypass, and applyReset and applyRandomize, whose
\* ModuleChange carries the whole state of the module.
Adjusted(p) ==
  UNION {LET m == p.modules[id] IN
         {SetParam(id, m, v) : v \in Settings}
           \cup {SetBypass(id, m, b) : b \in {"on", "off"}}
           \cup {<<Change({"param", "bypass"}, At(id, m), At(id, [m EXCEPT !.param = v]))>> : v \in Settings} :
         id \in Present(p)}

Placed(p) ==
  UNION {Moved(p, id, policy) : id \in Present(p), policy \in {"fail", "nearest", "force"}}

Operations(p, ids) ==
  Added(p, ids) \cup Removed(p) \cup Connected(p) \cup Disconnected(p) \cup Adjusted(p) \cup Placed(p)

-----------------------------------------------------------------------------
NoTxn   == [phase |-> "idle"]
NoLast  == [op |-> 0]
NoReply == [to |-> "nobody", code |-> "NONE", flagged |-> FALSE, rolledBack |-> "no"]

\* errorCode, mutationMayHaveOccurred and the rollback report, in which
\* "threw", "unreadable" and "differs" are the reasons for "indeterminate".
Say(to, code, flagged, rolledBack) ==
  [to |-> to, code |-> code, flagged |-> flagged, rolledBack |-> rolledBack]

Idle == txn.phase = "idle"

\* txnCommit past its gates: shapes, plan hash, and the expected fingerprint,
\* which is the live one.
Begin ==
  /\ Idle /\ begun + touches < MaxEvents /\ history.at < MaxHistory
  /\ begun' = begun + 1
  /\ txn' = [phase |-> "applying", pre |-> patch, actions |-> <<>>, pending |-> <<>>,
             applied |-> 0, disturbed |-> FALSE]
  /\ reply' = NoReply /\ UNCHANGED <<patch, history, last, touches, astray>>

\* A gate refuses: BAD_REQUEST for a malformed plan, VALIDATION_FAILED for one
\* altered since preview, INTERNAL or PATCH_CONFLICT for the fingerprint.
Refuse ==
  /\ Idle /\ begun + touches < MaxEvents
  /\ begun' = begun + 1
  /\ reply' = Say("commit", "REFUSED", FALSE, "no")
  /\ UNCHANGED <<patch, txn, history, last, touches, astray>>

Names(actions) ==
  {a.id : a \in {b \in Range(actions) : b.kind \in {"ModuleAdd", "ModuleRemove"}}}

\* Ids the engine may give a new module: it never gives one twice.
Unused ==
  Fresh \ (Present(patch) \cup Names(txn.actions)
             \cup UNION {Names(entry.actions) : entry \in Range(history.entries)})

\* Applier::apply turns to the next operation of the plan.
NextOperation ==
  /\ txn.phase = "applying" /\ txn.pending = <<>> /\ txn.applied < MaxOperations
  /\ \E edits \in Operations(patch, Unused) :
       txn' = [txn EXCEPT !.pending = edits, !.applied = @ + 1]
  /\ reply' = NoReply /\ UNCHANGED <<patch, history, last, begun, touches, astray>>

\* Faulty variant: the neighbours a placement displaced are not recorded.
EditWithoutDrag ==
  /\ txn.phase = "applying" /\ txn.pending # <<>>
  /\ LET a == Head(txn.pending) IN
       /\ patch' = Redo(patch, a)
       /\ txn' = [txn EXCEPT !.pending = Tail(@),
                             !.actions = IF a.kind = "Change" /\ a.fields = {"column"} THEN @ ELSE Append(@, a)]
  /\ reply' = NoReply /\ UNCHANGED <<history, last, begun, touches, astray>>

\* One edit of the operation: the engine is changed, then the edit recorded.
Edit ==
  /\ txn.phase = "applying" /\ txn.pending # <<>>
  /\ LET a == Head(txn.pending) IN
       /\ patch' = Redo(patch, a)
       /\ txn' = [txn EXCEPT !.pending = Tail(@), !.actions = Append(@, a)]
  /\ reply' = NoReply /\ UNCHANGED <<history, last, begun, touches, astray>>

\* How many of the edits ahead may have reached the engine when the operation
\* throws without having recorded them. Third-party code runs inside each of
\* them; a new module is placed before it is recorded; a removal that throws
\* has not removed the module.
Unrecorded(edits) ==
  {0} \cup {k \in 1 .. Len(edits) :
              /\ edits[1].kind # "ModuleRemove"
              /\ k = 1 \/ (k = 2 /\ edits[1].kind = "ModuleAdd" /\ edits[2].kind = "Change"
                                 /\ edits[2].fields = {"column"})}

\* The operation throws, before an edit or having made it without recording it.
Throw ==
  /\ txn.phase = "applying"
  /\ txn.pending # <<>> \/ txn.applied < MaxOperations
  /\ \E k \in Unrecorded(txn.pending) :
       /\ patch' = RedoAll(patch, SubSeq(txn.pending, 1, k))
       /\ txn' = [txn EXCEPT !.phase = "rolling back", !.pending = <<>>,
                             !.disturbed = @ \/ k > 0]
       /\ astray' = (astray \/ k > 0)
  /\ reply' = NoReply /\ UNCHANGED <<history, last, begun, touches>>

\* runInverses: newest first.
RunInverse ==
  /\ txn.phase = "rolling back" /\ txn.actions # <<>>
  /\ patch' = Undo(patch, Last(txn.actions))
  /\ txn' = [txn EXCEPT !.actions = Front(@)]
  /\ reply' = NoReply /\ UNCHANGED <<history, last, begun, touches, astray>>

\* Re-creating a module is the one inverse that can throw; the older inverses
\* are then not run.
InverseThrows ==
  /\ txn.phase = "rolling back" /\ txn.actions # <<>>
  /\ Last(txn.actions).kind = "ModuleRemove"
  /\ txn' = NoTxn
  /\ reply' = Say("commit", "ROLLBACK_FAILED", TRUE, "threw")
  /\ astray' = TRUE
  /\ UNCHANGED <<patch, history, last, begun, touches>>

\* Faulty variant: every inverse returned, so the rollback is called complete.
ReportAssumed ==
  /\ txn.phase = "rolling back" /\ txn.actions = <<>>
  /\ txn' = NoTxn
  /\ reply' = Say("commit", "VALIDATION_FAILED", FALSE, "complete")
  /\ UNCHANGED <<patch, history, last, begun, touches, astray>>

\* Completeness is proven against the fingerprint from before, never assumed.
Report ==
  /\ txn.phase = "rolling back" /\ txn.actions = <<>>
  /\ txn' = NoTxn
  /\ \/ reply' = Say("commit", "ROLLBACK_FAILED", TRUE, "unreadable")
     \/ reply' = IF Fingerprint(patch) = Fingerprint(txn.pre)
                 THEN Say("commit", "VALIDATION_FAILED", FALSE, "complete")
                 ELSE Say("commit", "ROLLBACK_FAILED", TRUE, "differs")
  /\ UNCHANGED <<patch, history, last, begun, touches, astray>>

\* Faulty variant: what could have been redone stays in the history.
PushKeepsUndone(entry) ==
  history' = [entries |-> Append(history.entries, entry), at |-> history.at + 1]

\* APP->history->push discards what could have been redone.
Push(entry) ==
  history' = [entries |-> Append(SubSeq(history.entries, 1, history.at), entry),
              at |-> history.at + 1]

\* The plan is through: one named entry of the undo history.
Commit ==
  /\ txn.phase = "applying" /\ txn.pending = <<>> /\ txn.applied > 0
  /\ Push([op |-> begun, actions |-> txn.actions, from |-> txn.pre, disturbed |-> txn.disturbed])
  /\ txn' = NoTxn
  /\ \E readable \in BOOLEAN :
       IF readable
       THEN /\ last' = [op |-> begun, post |-> Fingerprint(patch)]
            /\ reply' = Say("commit", "OK", FALSE, "no")
       ELSE /\ reply' = Say("commit", "INTERNAL", TRUE, "no")
            /\ last' = last
  /\ UNCHANGED <<patch, begun, touches, astray>>

-----------------------------------------------------------------------------
Newest == history.entries[history.at]

\* Faulty variant: the fingerprint is trusted to tell whether the transaction is on top.
MayUndoByFingerprint(op) ==
  /\ last # NoLast /\ last.op = op
  /\ history.at > 0 /\ Fingerprint(patch) = last.post

\* Faulty variant: the entry on top bears the name, so nothing has changed since.
MayUndoByName(op) ==
  /\ last # NoLast /\ last.op = op
  /\ history.at > 0 /\ Newest.op = op

\* txnUndoLast's guards: the identified transaction is the last one recorded,
\* is what Rack would undo next, and nothing has changed the patch since.
MayUndo(op) ==
  /\ last # NoLast /\ last.op = op
  /\ history.at > 0 /\ Newest.op = op
  /\ Fingerprint(patch) = last.post

UndoLast(op) ==
  /\ Idle /\ MayUndo(op)
  /\ patch' = UndoAll(patch, Newest.actions)
  /\ history' = [history EXCEPT !.at = @ - 1]
  /\ last' = NoLast
  /\ reply' \in {Say("undo", "OK", FALSE, "no"), Say("undo", "INTERNAL", TRUE, "no")}
  /\ UNCHANGED <<txn, begun, touches, astray>>

\* An inverse throws through Rack's own loop, which has already moved down
\* its list: the newer inverses ran, the older did not, `last` stays, and
\* the pump's barrier answers for the handler.
UndoLastThrows(op) ==
  /\ Idle /\ MayUndo(op)
  /\ \E k \in 1 .. Len(Newest.actions) :
       /\ Newest.actions[k].kind = "ModuleRemove"
       /\ patch' = UndoAll(patch, SubSeq(Newest.actions, k + 1, Len(Newest.actions)))
  /\ history' = [history EXCEPT !.at = @ - 1]
  /\ reply' = Say("undo", "INTERNAL", TRUE, "no")
  /\ astray' = TRUE
  /\ UNCHANGED <<txn, last, begun, touches>>

\* A guard fails, or the fingerprint cannot be computed.
RefuseUndo(op) ==
  /\ Idle
  /\ reply' = Say("undo", "REFUSED", FALSE, "no")
  /\ UNCHANGED <<patch, txn, history, last, begun, touches, astray>>

-----------------------------------------------------------------------------
(* The user and Rack's modules (external).                                  *)

UserOp == 0

UserEdits ==
  /\ Idle /\ history.at < MaxHistory
  /\ \E edits \in Disconnected(patch) \cup
                  UNION {{SetParam(id, patch.modules[id], v) : v \in Settings} : id \in Present(patch)} :
       /\ edits # <<>>
       /\ patch' = RedoAll(patch, edits)
       /\ Push([op |-> UserOp, actions |-> edits, from |-> patch, disturbed |-> FALSE])
  /\ reply' = NoReply /\ UNCHANGED <<txn, last, begun, touches, astray>>

\* After an inverse threw Rack's history no longer fits the patch, and what
\* its undo does then is Rack's own business: not modelled.
UserUndoes ==
  /\ Idle /\ ~astray /\ history.at > 0
  /\ patch' = UndoAll(patch, Newest.actions)
  /\ history' = [history EXCEPT !.at = @ - 1]
  /\ reply' = NoReply /\ UNCHANGED <<txn, last, begun, touches, astray>>

UserRedoes ==
  /\ Idle /\ ~astray /\ history.at < Len(history.entries)
  /\ patch' = RedoAll(patch, history.entries[history.at + 1].actions)
  /\ history' = [history EXCEPT !.at = @ + 1]
  /\ reply' = NoReply /\ UNCHANGED <<txn, last, begun, touches, astray>>

\* A module's worker thread sets a parameter; nothing records it.
WorkerSets ==
  /\ begun + touches < MaxEvents
  /\ touches' = touches + 1
  /\ \E id \in Present(patch) : \E v \in Settings \ {patch.modules[id].param} :
       patch' = [patch EXCEPT !.modules[id].param = v]
  /\ txn' = IF Idle THEN txn ELSE [txn EXCEPT !.disturbed = TRUE]
  /\ reply' = NoReply /\ UNCHANGED <<history, last, begun, astray>>

-----------------------------------------------------------------------------
\* The given modules side by side, the first patched into the second.
TxnInit ==
  /\ \E order \in SetToSeqs(Given) :
       patch = [modules |-> [id \in Given |-> NewModule(CHOOSE x \in Columns : order[x] = id)],
                cables |-> IF Len(order) < 2 THEN {} ELSE {[out |-> order[1], in |-> order[2]]},
                order |-> order]
  /\ txn = NoTxn
  /\ history = [entries |-> <<>>, at |-> 0]
  /\ last = NoLast /\ reply = NoReply /\ begun = 0 /\ touches = 0 /\ astray = FALSE

TxnNext ==
  \/ Begin \/ Refuse \/ NextOperation \/ Edit \/ Throw
  \/ RunInverse \/ InverseThrows \/ Report \/ Commit
  \/ \E op \in 1 .. begun : UndoLast(op) \/ UndoLastThrows(op) \/ RefuseUndo(op)
  \/ UserEdits \/ UserUndoes \/ UserRedoes \/ WorkerSets

TxnSpec == TxnInit /\ [][TxnNext]_txnVars
-----------------------------------------------------------------------------
\* Type invariant: a patch is modules, cables and the engine's order of the
\* modules; the history has room for what it holds.
TxnTypeOK ==
  /\ Present(patch) \subseteq Modules /\ patch.modules \in [Present(patch) -> Module]
  /\ patch.cables \subseteq Cable
  /\ IsInjective(patch.order) /\ Range(patch.order) = Present(patch)
  /\ txn.phase \in {"idle", "applying", "rolling back"}
  /\ history.at \in 0 .. Len(history.entries) /\ Len(history.entries) <= MaxHistory
  /\ reply.flagged \in BOOLEAN /\ reply.rolledBack \in {"no", "complete", "threw", "unreadable", "differs"}
  /\ begun \in 0 .. MaxEvents

\* The live patch is one Rack can hold, at every step of applying a plan,
\* rolling it back, undoing it and redoing it: cables join modules that exist
\* and no input has two. (remove_module takes the cables first; replace_all
\* clears the input first; inverses run in the opposite order.)
CablesJoinModules ==
  ~astray =>
    /\ \A c \in patch.cables : {c.out, c.in} \subseteq Present(patch)
    /\ \A c, d \in patch.cables : c.in = d.in => c = d

\* However far a plan has come, the edits recorded so far, undone newest
\* first, give back the patch it started from: nothing the operations do is
\* left unrecorded, out of order, or recorded with a value that was not there.
RecordedEditsInvert ==
  ~Idle /\ ~txn.disturbed => Contents(UndoAll(patch, txn.actions)) = Contents(txn.pre)

\* A transaction is one step of the user's undo history or none. As long as
\* nothing changed the patch behind Rack's back, undoing all of the history
\* leads from the live patch to the one it began with, whatever transactions
\* failed and were rolled back in between, and whatever was undone and redone.
HistoryLeadsBack ==
  Idle /\ ~astray /\ touches = 0 /\ history.at > 0 =>
    LET before[n \in 0 .. history.at] ==
          IF n = 0 THEN patch ELSE UndoAll(before[n - 1], history.entries[history.at - n + 1].actions)
    IN Contents(before[history.at]) = Contents(history.entries[1].from)

\* At every step the patch is a possible one and can be led back, and so can the history.
TxnConsistent == TxnTypeOK /\ CablesJoinModules /\ RecordedEditsInvert /\ HistoryLeadsBack

\* What a reply that is not flagged mutationMayHaveOccurred and is not a
\* success says is true, whatever threw and whatever a worker thread did in
\* the meantime: the patch is the one the transaction found.
UnflaggedFailureChangedNothing ==
  [][ reply'.to = "commit" /\ reply'.code # "OK" /\ ~reply'.flagged
      => Fingerprint(patch') = Fingerprint(IF Idle THEN patch ELSE txn.pre) ]_txnVars

\* Undoing the last transaction gives back the patch it found, and takes
\* nothing of the user's with it: the user's edits, undos and redos and the
\* workers' changes since are all either absent or have been taken back.
UndoLastRestores ==
  [][ reply'.to = "undo" /\ reply'.code = "OK" /\ ~Newest.disturbed
      => /\ Newest.op = last.op
         /\ Contents(patch') = Contents(Newest.from) ]_txnVars

\* docs/spec/rack-mcp-spec.md:169: "Canonicalize object keys and entity ordering
\* before hashing." So when the report says that the patch no longer matches
\* its pre-transaction fingerprint, it is another patch.
DiffersMeansChanged ==
  [][ reply'.rolledBack = "differs" => Contents(patch') # Contents(txn.pre) ]_txnVars
=============================================================================
