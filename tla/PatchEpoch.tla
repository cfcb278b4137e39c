----------------------------- MODULE PatchEpoch -----------------------------
(***************************************************************************)
(* The patch epoch: rackside/PatchFiles.cpp and the epoch guard of         *)
(* rackside/Handlers.cpp.                                                  *)
(*                                                                         *)
(* References a client holds are good for one patch. The plugin counts     *)
(* patches with the epoch, which its own loads and clears bump; a patch    *)
(* the user replaces through Rack's menus is noticed by a poll that        *)
(* compares path, number of undo actions and module ids with a watermark.  *)
(*                                                                         *)
(* Module ids are unique across patches (Rack draws 53 random bits): a new *)
(* module takes the next id. Everything here runs on the UI thread, so a   *)
(* handler is one step; the poll may come at any moment, which covers its  *)
(* cadence of thirty frames. Parameters, cables and the saved mark are     *)
(* left out, and a save that fails changes nothing.                        *)
(*                                                                         *)
(* generation, replaced, since, masked, rewound, home, failed and ref are  *)
(* history variables.                                                      *)
(***************************************************************************)
EXTENDS Integers, Sequences

CONSTANTS
  Files,          \* paths of patch files
  Template,       \* the file File > New starts from
  NoPath,         \* the empty path
  MaxId,          \* modules ever made (bound)
  MaxActions,     \* undo actions of one patch (bound)
  MaxGeneration,  \* replacements of the patch (bound)
  MaxEpoch        \* the last epoch (bound)

ASSUME EpochAssumption ==
  /\ Template \in Files /\ NoPath \notin Files
  /\ {MaxId, MaxActions, MaxGeneration, MaxEpoch} \subseteq Nat /\ MaxId >= 2 /\ MaxEpoch >= 1

VARIABLES
  patch,       \* what is in the rack: module ids and APP->patch->path
  history,     \* APP->history: undo actions, and how many are applied
  disk,        \* patch files: module ids, and the "path" key of the archive
  bridges,     \* the ids whose module is a RackMCP Bridge
  nextId,      \* the next module id
  epoch,       \* RackBridge::patchEpoch_
  watermark,   \* gWatermark
  generation,  \* replacements of the patch so far, by anyone
  replaced,    \* who has replaced the patch since ref was read, in whole or in part
  since,       \* what happened to the patch since the watermark was set
  masked,      \* a replacement since ref was read fell together with an edit or a save
  rewound,     \* an action of this patch has been undone
  home,        \* the file the patch was loaded from or last saved to
  failed,      \* the last replacement failed half-way
  ref          \* what a client last read: epoch and modules

rack   == <<patch, history, disk, bridges, nextId>>
ghosts == <<generation, replaced, since, masked, rewound, home, failed>>
vars   == <<rack, epoch, watermark, ghosts, ref>>

Ids   == 1..MaxId
Paths == Files \cup {NoPath}

TypeOK ==
  /\ patch \in [modules : SUBSET Ids, path : Paths]
  /\ history \in [actions : Seq([kind : {"add", "remove"}, id : Ids]), at : 0..MaxActions]
  /\ history.at <= Len(history.actions)
  /\ disk \in [Files -> [modules : SUBSET Ids, key : Paths]]
  /\ bridges \subseteq Ids
  /\ nextId \in 1..(MaxId + 1)
  /\ epoch \in 1..MaxEpoch
  /\ watermark \in [armed : BOOLEAN, path : Paths, count : 0..MaxActions, ids : SUBSET Ids]
  /\ generation \in 0..MaxGeneration
  /\ replaced \subseteq {"own", "other"}
  /\ since \subseteq {"swap", "edit"}
  /\ {masked, rewound} \subseteq BOOLEAN
  /\ home \in Paths
  /\ failed \in BOOLEAN
  /\ ref \in [epoch : 1..MaxEpoch, modules : SUBSET Ids]

NoHistory == [actions |-> <<>>, at |-> 0]

\* Rack starts with a template of one module; another file holds a Bridge, and
\* may carry a "path" key, as hand-made archives do.
Init ==
  /\ disk \in [Files -> [modules : {{1}, {2}}, key : Paths]]
  /\ \A f \in Files : disk[f].modules = IF f = Template THEN {1} ELSE {2}
  /\ disk[Template].key = NoPath
  /\ patch = [modules |-> {1}, path |-> NoPath]
  /\ history = NoHistory
  /\ bridges = {2}
  /\ nextId = 3
  /\ epoch = 1
  /\ watermark = [armed |-> FALSE, path |-> NoPath, count |-> 0, ids |-> {}]
  /\ generation = 0 /\ replaced = {}
  /\ since = {}
  /\ masked = FALSE /\ rewound = FALSE
  /\ home = NoPath
  /\ failed = FALSE
  /\ ref = [epoch |-> 1, modules |-> {1}]

ClearHistory ==
  /\ history' = NoHistory
  /\ rewound' = FALSE

Happened(event) ==
  /\ since' = since \cup {event}
  /\ masked' = (masked \/ ("swap" \in since' /\ since' # {"swap"}))

-----------------------------------------------------------------------------
(* Edits, the user's or a transaction's: each pushes one action and drops the *)
(* undone ones.                                                               *)

\* Faulty variant: the undone actions stay behind the new one.
PushKeepsUndone(kind, id) ==
  /\ history.at < MaxActions
  /\ history' = [actions |-> Append(history.actions, [kind |-> kind, id |-> id]),
                 at |-> history.at + 1]
  /\ Happened("edit")

Push(kind, id) ==
  /\ history.at < MaxActions
  /\ history' = [actions |-> Append(SubSeq(history.actions, 1, history.at),
                                    [kind |-> kind, id |-> id]),
                 at |-> history.at + 1]
  /\ Happened("edit")

AddModule(asBridge) ==
  /\ nextId \in Ids
  /\ Push("add", nextId)
  /\ patch' = [patch EXCEPT !.modules = @ \cup {nextId}]
  /\ bridges' = IF asBridge THEN bridges \cup {nextId} ELSE bridges
  /\ nextId' = nextId + 1
  /\ UNCHANGED <<disk, epoch, watermark, generation, replaced, rewound, home, failed, ref>>

RemoveModule(id) ==
  /\ id \in patch.modules
  /\ Push("remove", id)
  /\ patch' = [patch EXCEPT !.modules = @ \ {id}]
  /\ UNCHANGED <<disk, bridges, nextId, epoch, watermark, generation, replaced, rewound, home, failed, ref>>

\* Applying an action forwards or backwards.
WithModule(a, forwards) ==
  IF (a.kind = "add") = forwards
  THEN [patch EXCEPT !.modules = @ \cup {a.id}]
  ELSE [patch EXCEPT !.modules = @ \ {a.id}]

Undo ==
  /\ history.at > 0
  /\ patch' = WithModule(history.actions[history.at], FALSE)
  /\ history' = [history EXCEPT !.at = @ - 1]
  /\ Happened("edit")
  /\ rewound' = TRUE
  /\ UNCHANGED <<disk, bridges, nextId, epoch, watermark, generation, replaced, home, failed, ref>>

Redo ==
  /\ history.at < Len(history.actions)
  /\ patch' = WithModule(history.actions[history.at + 1], TRUE)
  /\ history' = [history EXCEPT !.at = @ + 1]
  /\ Happened("edit")
  /\ rewound' = TRUE
  /\ UNCHANGED <<disk, bridges, nextId, epoch, watermark, generation, replaced, home, failed, ref>>

-----------------------------------------------------------------------------
(* The user's File menu. Manager::load clears the patch, its history too, and *)
(* leaves the path to its caller.                                             *)

UserReplaces(modules, path, broken) ==
  /\ generation < MaxGeneration
  /\ patch' = [modules |-> modules, path |-> path]
  /\ ClearHistory
  /\ generation' = generation + 1
  /\ replaced' = replaced \cup {"other"}
  /\ Happened("swap")
  /\ home' = IF broken THEN NoPath ELSE path
  /\ failed' = broken
  /\ UNCHANGED <<disk, bridges, nextId, epoch, watermark, ref>>

UserOpen(f)  == UserReplaces(disk[f].modules, f, FALSE)
UserNew      == UserReplaces(disk[Template].modules, NoPath, FALSE)
UserOpenFails == UserReplaces({}, patch.path, TRUE)

UserSaveAs(f) ==
  /\ f # Template
  /\ disk' = [disk EXCEPT ![f] = [modules |-> patch.modules, key |-> NoPath]]
  /\ patch' = [patch EXCEPT !.path = f]
  /\ home' = f
  /\ failed' = FALSE
  /\ UNCHANGED <<history, bridges, nextId, epoch, watermark, generation, replaced, since, masked, rewound, ref>>

-----------------------------------------------------------------------------
(* The plugin's own file operations *)

HasBridge(modules) == modules \cap bridges # {}

\* armReplacementWatermark, of the state the handler leaves.
Arm ==
  /\ watermark' = [armed |-> TRUE, path |-> patch'.path,
                   count |-> Len(history'.actions), ids |-> patch'.modules]
  /\ since' = {}
  /\ masked' = (masked \/ "swap" \in since)

\* Faulty variant: the poll takes the plugin's own replacement for the user's.
ArmForgotten == UNCHANGED <<watermark, since, masked>>

ArmAfterLoad == Arm

\* patchHasBridge and insertBridgeModule: the rack holds kept, and a Bridge if
\* it had none, unless none can be made. The insertion is not in the undo history.
WithBridge(kept, path) ==
  \/ /\ patch' = [modules |-> kept, path |-> path]
     /\ UNCHANGED <<bridges, nextId>>
  \/ /\ ~HasBridge(kept) /\ nextId \in Ids
     /\ patch' = [modules |-> kept \cup {nextId}, path |-> path]
     /\ bridges' = bridges \cup {nextId}
     /\ nextId' = nextId + 1

BumpEpoch ==
  /\ epoch < MaxEpoch
  /\ epoch' = epoch + 1

\* Faulty variant: the epoch is bumped when the operation succeeds, only.
BumpIgnored == UNCHANGED epoch

BumpAfterFailure == BumpEpoch

OwnReplacement ==
  /\ generation < MaxGeneration
  /\ generation' = generation + 1
  /\ replaced' = replaced \cup {"own"}

SaveCopy(f) ==
  /\ f # Template
  /\ disk' = [disk EXCEPT ![f] = [modules |-> patch.modules, key |-> NoPath]]
  /\ UNCHANGED <<patch, history, bridges, nextId, epoch, watermark, ghosts, ref>>

\* A request without a path saves where the patch already lives; with neither it
\* is refused and nothing changes.
SavePatch(path) ==
  LET f == IF path = NoPath THEN patch.path ELSE path IN
  /\ f \notin {NoPath, Template}
  /\ disk' = [disk EXCEPT ![f] = [modules |-> patch.modules, key |-> NoPath]]
  /\ patch' = [patch EXCEPT !.path = f]
  /\ UNCHANGED <<history, bridges, nextId, epoch, generation, replaced, rewound, ref>>
  /\ Arm
  /\ home' = f
  /\ failed' = FALSE

\* What fromJson makes of the path: the archive's key if it carries one.
PathFromArchive(f) == IF disk[f].key = NoPath THEN patch.path ELSE disk[f].key

\* Faulty variant: "adopt no identity" leaves the path alone.
PathLeftAlone(f, setPath) == IF setPath THEN f ELSE PathFromArchive(f)

LoadedPath(f, setPath) == IF setPath THEN f ELSE NoPath

LoadPatch(f, setPath) ==
  /\ OwnReplacement
  /\ ClearHistory
  /\ WithBridge(disk[f].modules, LoadedPath(f, setPath))
  /\ BumpEpoch
  /\ ArmAfterLoad
  /\ home' = IF setPath THEN f ELSE NoPath
  /\ failed' = FALSE
  /\ UNCHANGED <<disk, ref>>

\* Manager::load clears the rack before it reads the file; the path stays.
LoadFails ==
  /\ OwnReplacement
  /\ ClearHistory
  /\ WithBridge({}, patch.path)
  /\ BumpAfterFailure
  /\ Arm
  /\ home' = NoPath
  /\ failed' = TRUE
  /\ UNCHANGED <<disk, ref>>

ClearPatch ==
  /\ OwnReplacement
  /\ ClearHistory
  /\ WithBridge({}, NoPath)
  /\ BumpEpoch
  /\ Arm
  /\ home' = NoPath
  /\ failed' = FALSE
  /\ UNCHANGED <<disk, ref>>

\* Removing the modules throws: some are left, the history and the path too.
ClearFails(left) ==
  /\ OwnReplacement
  /\ patch' = [patch EXCEPT !.modules = left]
  /\ BumpAfterFailure
  /\ UNCHANGED <<history, disk, bridges, nextId, rewound, ref>>
  /\ Arm
  /\ home' = NoPath
  /\ failed' = TRUE

\* What is thrown is no std::exception: neither handler catches it and the pump's
\* barrier does, so nothing after the call happens. A load has replaced the patch
\* by a part of the file, a clear has left a part of the patch.
ForeignThrow ==
  /\ Happened("swap")
  /\ home' = NoPath
  /\ failed' = TRUE
  /\ UNCHANGED <<disk, bridges, nextId, epoch, watermark, ref>>

LoadThrowsForeign(f, left) ==
  /\ generation < MaxGeneration
  /\ generation' = generation + 1
  /\ replaced' = replaced \cup {"other"}
  /\ patch' = [modules |-> left, path |-> PathFromArchive(f)]
  /\ ClearHistory
  /\ ForeignThrow

ClearThrowsForeign(left) ==
  /\ patch' = [patch EXCEPT !.modules = left]
  /\ ForeignThrow
  /\ UNCHANGED <<history, generation, replaced, rewound>>

-----------------------------------------------------------------------------
(* The poll *)

\* Faulty variants: either half of "Save As changes the path but keeps the
\* modules" is dropped, or disjoint patches under one path are not told apart.
EitherSignal(count) ==
  \/ count = 0 /\ watermark.count > 0
  \/ /\ count <= watermark.count
     /\ patch.path # watermark.path \/ patch.modules # watermark.ids

PathMustChange(count) ==
  \/ count = 0 /\ watermark.count > 0
  \/ /\ count <= watermark.count
     /\ patch.path # watermark.path /\ patch.modules # watermark.ids

Replaced(count) ==
  \/ count = 0 /\ watermark.count > 0
  \/ /\ count <= watermark.count
     /\ \/ patch.path # watermark.path /\ patch.modules # watermark.ids
        \/ watermark.ids # {} /\ patch.modules \cap watermark.ids = {}

Poll ==
  /\ UNCHANGED <<rack, generation, replaced, rewound, home, failed, ref>>
  /\ Arm
  /\ IF watermark.armed /\ Replaced(Len(history.actions))
     THEN BumpEpoch
     ELSE UNCHANGED epoch

-----------------------------------------------------------------------------
\* A client reads the patch and keeps the epoch to present with later requests.
ReadSnapshot ==
  /\ ref' = [epoch |-> epoch, modules |-> patch.modules]
  /\ replaced' = {}
  /\ masked' = ("swap" \in since)
  /\ UNCHANGED <<rack, epoch, watermark, generation, since, rewound, home, failed>>

\* epochGuardOk: a request that presents ref is served.
Accepted == ref.epoch = epoch

Next ==
  \/ \E asBridge \in BOOLEAN : AddModule(asBridge)
  \/ \E id \in Ids : RemoveModule(id)
  \/ Undo \/ Redo
  \/ \E f \in Files : UserOpen(f) \/ UserSaveAs(f) \/ SaveCopy(f)
  \/ UserNew \/ UserOpenFails
  \/ \E path \in Paths : SavePatch(path)
  \/ \E f \in Files, setPath \in BOOLEAN : LoadPatch(f, setPath)
  \/ LoadFails \/ ClearPatch
  \/ \E left \in SUBSET patch.modules : ClearFails(left) \/ ClearThrowsForeign(left)
  \/ \E f \in Files : \E left \in SUBSET disk[f].modules : LoadThrowsForeign(f, left)
  \/ Poll
  \/ ReadSnapshot

Spec == Init /\ [][Next]_vars

-----------------------------------------------------------------------------
(* Properties *)

\* What a client read before the plugin itself replaced the patch is refused
\* afterwards, whether the load or clear succeeded or threw a std::exception.
OwnReplacementsRefuse == Accepted => "own" \notin replaced

\* The poll reports a replacement only if there was one, or if the patch has been
\* undone or redone: a patch that is only edited, saved under other names, and
\* replaced by the plugin itself is never reported, whatever the order.
PollNeverInvents ==
  [][Poll /\ epoch' # epoch => "swap" \in since \/ rewound]_vars

\* A patch the user put in place of the one a client has read is noticed by the
\* next poll, unless it shares a module with it, was edited around the
\* replacement, or the client had read an empty rack; so is the empty rack that a
\* failed load leaves.
UnrelatedPatchNoticed ==
  [][ (Poll /\ since = {"swap"} /\ ~masked /\ Accepted /\ watermark.armed)
      => \/ epoch' # epoch
         \/ replaced = {}
         \/ ref.modules = {} \/ ref.modules \cap patch.modules # {} ]_vars

\* Unless a replacement failed half-way, the path that a save without a path
\* writes to is the file the patch was loaded from or last saved to: a load that
\* adopts no identity leaves no path, whatever the archive says.
PathIsHome == patch.path # NoPath /\ ~failed => patch.path = home

\* The state is well formed, and the path is the patch's own.
Consistent == TypeOK /\ PathIsHome

-----------------------------------------------------------------------------
(* What the comments say *)

\* A load or clear of the plugin's that ends in its own handler.
OwnStep ==
  \/ \E f \in Files, setPath \in BOOLEAN : LoadPatch(f, setPath)
  \/ LoadFails \/ ClearPatch
  \/ \E left \in SUBSET patch.modules : ClearFails(left)

\* After a load or clear of the plugin's, "save where this patch already lives"
\* (buildResult) has one meaning: the file it was loaded from, or none.
SaveGoesHome == [][OwnStep => patch'.path \in {NoPath, home'}]_vars

\* "restore a Bridge module as after any other replacement" (patchLoad).
BridgeAfterReplacement == [][OwnStep => HasBridge(patch.modules)']_vars

\* "An action was pushed: editing, ours or the user's, never a replacement"
\* (pollPatchReplacement).
GrowthIsEditing ==
  [][Poll /\ watermark.armed /\ Len(history.actions) > watermark.count
     => "swap" \notin since]_vars

\* "Unedited since the watermark. [...] means the patch was swapped."
ReportedMeansSwapped == [][Poll /\ epoch' # epoch => "swap" \in since]_vars
=============================================================================
