------------------------------- MODULE Workbench -------------------------------
(***************************************************************************)
(* Tool calls that read or build a patch: build_recipe with its scan of    *)
(* the catalog, attach_probe and detach_probe with the choice of a slot,   *)
(* and the analysis of a snapshot. The calls overlap at every await and    *)
(* the user edits the patch meanwhile. The plugin applies a plan if the    *)
(* patch is the one its preview saw; a patch stands for its fingerprint.   *)
(* A module added has its alias for an id. How a preview reads any plan is *)
(* in PlanPreview, from initial states of its own.                         *)
(***************************************************************************)
EXTENDS PatchReport, Recipes, PlanPreview

CONSTANTS
  Callers,     \* tool calls that may overlap; also the id of a probe a call adds
  Asks,        \* the calls made: what each caller asks for
  Bases,       \* patches to start from
  Catalogs,    \* installed models, in the order of the catalog
  Sketches,    \* further snapshots to analyse
  PageSize,    \* models per page
  MaxPages,    \* pages scanned
  MaxProbes,   \* maxActiveProbes
  MaxEdits,    \* bound: the user's edits
  MaxAnalysed  \* bound: modules of a patch that is analysed

\* A patch has finitely many modules, and cables that join modules of it.
Sound(p) ==
  /\ DOMAIN p = {"model", "cables", "value", "bypassed", "channels"}
  /\ IsFiniteSet(Modules(p)) /\ Joining(p) = p.cables

ASSUME BasesAssumption == \A p \in Bases : Sound(p)

ASSUME SketchesAssumption ==
  \A s \in Sketches : IsFiniteSet(s.nodes) /\ s.edges \subseteq s.nodes \X s.nodes /\ s.dests \subseteq s.nodes

ASSUME AsksAssumption ==
  \A asks \in Asks : \A c \in Callers : asks[c].tool = "build_recipe" => asks[c].recipe \in DOMAIN Recipe

VARIABLES patch, catalog, edits, calls

workbenchVars == <<patch, catalog, edits, calls, graphVars, planVars>>

\* A call that begins; final states are "done", "unresolved", "refused", "failed" and "stale".
Started(ask) ==
  [ask |-> ask, at |-> IF ask.tool = "build_recipe" THEN "scan" ELSE "snapshot",
   found |-> {}, cursor |-> 0, complete |-> FALSE, plan |-> <<>>, base |-> <<>>, result |-> <<>>]

Finished(c) == calls[c].at \in {"done", "unresolved", "refused", "failed", "stale"}

\* Handlers run between two awaits, an analysis too.
Idle == phase = "done"

NoCalls ==
  /\ calls = <<>> /\ catalog = <<>>
  /\ patch = [model |-> <<>>, cables |-> {}, value |-> <<>>, bypassed |-> {}, channels |-> 1]

NoGraph == nodes = {} /\ edges = {} /\ dests = {} /\ phase = "done"

NoPlan == PlanStart([kind |-> <<>>, column |-> <<>>, cables |-> {}, next |-> 1])

\* Calls on a patch, the analysis of a snapshot, or a plan on a snapshot.
WorkbenchInit ==
  /\ edits = 0
  /\ \/ /\ catalog \in Catalogs /\ patch \in Bases
        /\ \E asks \in Asks : calls = [c \in Callers |-> Started(asks[c])]
        /\ NoGraph /\ NoPlan
     \/ /\ NoCalls /\ NoPlan
        /\ \E s \in Sketches : nodes = s.nodes /\ edges = s.edges /\ dests = s.dests
        /\ phase = "feeds"
     \/ /\ NoCalls /\ NoGraph
        /\ \E s \in Snapshots : PlanStart(s)
  /\ LoopsStart

-----------------------------------------------------------------------------
(* What the plugin does with the operations of a plan *)

AddsModule(s, o) ==
  LET knobs == Knobs[o.model] IN
  [s EXCEPT !.ok = o.model \in Ids(catalog),
            !.patch.model = [m \in {o.alias} \cup DOMAIN @ |-> IF m = o.alias THEN o.model ELSE @[m]],
            !.patch.value = [k \in {o.alias} \X DOMAIN knobs |-> knobs[k[2]][2]] @@ @]

SetsParameter(s, o) ==
  [s EXCEPT !.patch.value[<<o.alias, o.param>>] =
     Decoded(s.patch.model[o.alias], o.param, o.normalized)]

At(p, m, input) == {c \in p.cables : c.to = m /\ c.in = input}

Connects(s, o) ==
  LET p     == s.patch
      taken == At(p, o.to, o.in)
      cable == [from |-> o.from, out |-> o.out, to |-> o.to, in |-> o.in]
  IN IF \/ {o.from, o.to} \subseteq Modules(p) => InBounds([p EXCEPT !.cables = {cable}]) = {}
        \/ taken # {} /\ o.op = "connect"
     THEN [s EXCEPT !.ok = FALSE]
     ELSE [s EXCEPT !.patch.cables = (@ \ taken) \cup {cable}]

Disconnects(s, o) ==
  [s EXCEPT !.ok = o.to \in Modules(s.patch), !.patch.cables = @ \ At(s.patch, o.to, o.in)]

\* replace_all is a connect that may take the place of a cable.
Applied(s, o) ==
  IF ~s.ok THEN s
  ELSE CASE o.op = "add_module"                -> AddsModule(s, o)
         [] o.op = "set_parameter"             -> SetsParameter(s, o)
         [] o.op \in {"connect", "replace_all"} -> Connects(s, o)
         [] o.op = "disconnect_port"           -> Disconnects(s, o)

\* What p has become after each operation, from 0 on.
Stages(p, plan) ==
  LET after[i \in 0..Len(plan)] ==
        IF i = 0 THEN [patch |-> p, ok |-> TRUE] ELSE Applied(after[i - 1], plan[i])
  IN after

Outcome(p, plan) == Stages(p, plan)[Len(plan)]

-----------------------------------------------------------------------------
(* build_recipe *)

\* Faulty variant: pages that ran out count as the whole catalog.
ScannedAll(end) == TRUE

Complete(end) == end = Len(catalog)

\* One page; after the last the recipe is resolved, and expanded if every role is.
Scan(c) ==
  /\ Idle /\ calls[c].at = "scan"
  /\ LET end     == Least(calls[c].cursor + PageSize, Len(catalog))
         found   == calls[c].found \cup Ids(SubSeq(catalog, calls[c].cursor + 1, end))
         recipe  == Recipe[calls[c].ask.recipe]
         scanned == [calls[c] EXCEPT !.found = found, !.cursor = end]
     IN calls' = [calls EXCEPT ![c] =
          IF end < Len(catalog) /\ end < MaxPages * PageSize THEN scanned
          ELSE IF Unresolved(recipe, found) # {}
          THEN [scanned EXCEPT !.at = "unresolved", !.complete = Complete(end)]
          ELSE [scanned EXCEPT !.at = "preview", !.plan = Expanded(recipe), !.complete = Complete(end)]]
  /\ UNCHANGED <<patch, catalog, edits, graphVars, planVars>>

-----------------------------------------------------------------------------
(* Probes *)

Probes(p) == {m \in Modules(p) : p.model[m] = "Probe"}

Free(p) == {s \in Probes(p) \X Ports("Probe", "inputs") : At(p, s[1], s[2]) = {}}

Into(m, input) == [op |-> "replace_all", from |-> "other", out |-> 0, to |-> m, in |-> input]

\* The slot of attach_probe: the one asked for, a free one, the first of a module, or a new module.
AttachPlans(c) ==
  IF calls[c].ask.slot # <<>> THEN {<<Into(calls[c].ask.slot[1], calls[c].ask.slot[2])>>}
  ELSE IF Free(patch) # {}
  THEN {<<Into(s[1], s[2])>> : s \in {s \in Free(patch) : \A i \in 0..s[2] - 1 : <<s[1], i>> \notin Free(patch)}}
  ELSE {<<[op |-> "add_module", model |-> "Probe", alias |-> c], Into(c, 0)>>}

ChooseSlot(c) ==
  /\ Idle /\ calls[c].at = "snapshot" /\ calls[c].ask.tool = "attach_probe"
  /\ \E plan \in AttachPlans(c) :
       calls' = [calls EXCEPT ![c] =
         IF Len(plan) = 2 /\ Cardinality(Probes(patch)) >= MaxProbes
         THEN [@ EXCEPT !.at = "refused"]
         ELSE [@ EXCEPT !.at = "preview", !.plan = plan]]
  /\ UNCHANGED <<patch, catalog, edits, graphVars, planVars>>

\* The snapshot serves the list of removed cables in the answer.
Detach(c) ==
  /\ Idle /\ calls[c].at = "snapshot" /\ calls[c].ask.tool = "detach_probe"
  /\ LET slot == calls[c].ask.slot IN
     calls' = [calls EXCEPT ![c].at = "preview",
                            ![c].plan = <<[op |-> "disconnect_port", to |-> slot[1], in |-> slot[2]]>>]
  /\ UNCHANGED <<patch, catalog, edits, graphVars, planVars>>

-----------------------------------------------------------------------------
(* Preview and commit, of any plan *)

Preview(c) ==
  /\ Idle /\ calls[c].at = "preview"
  /\ LET s == Outcome(patch, calls[c].plan) IN
     calls' = [calls EXCEPT ![c] =
       IF s.ok THEN [@ EXCEPT !.at = "planned", !.base = patch, !.result = s.patch]
       ELSE [@ EXCEPT !.at = "failed"]]
  /\ UNCHANGED <<patch, catalog, edits, graphVars, planVars>>

\* Faulty variant: applies a plan to whatever the patch has become.
Whatever(c) == TRUE

Fresh(c) == patch = calls[c].base

\* A plan that takes cables away is confirmed first; its caller may also let it be.
Commit(c) ==
  /\ Idle /\ calls[c].at = "planned"
  /\ IF Fresh(c)
     THEN patch' = calls[c].result /\ calls' = [calls EXCEPT ![c].at = "done", ![c].base = <<>>, ![c].result = <<>>]
     ELSE UNCHANGED patch /\ calls' = [calls EXCEPT ![c].at = "stale"]
  /\ UNCHANGED <<catalog, edits, graphVars, planVars>>

-----------------------------------------------------------------------------
(* The user, and the analysis *)

Edit ==
  /\ Idle /\ edits < MaxEdits /\ edits' = edits + 1
  /\ \/ \E s \in Free(patch) :
          /\ "other" \in Modules(patch)
          /\ patch' = [patch EXCEPT !.cables = @ \cup {[from |-> "other", out |-> 0, to |-> s[1], in |-> s[2]]}]
     \/ \E c \in patch.cables : patch' = [patch EXCEPT !.cables = @ \ {c}]
     \/ \E m \in Modules(patch) : patch' = [patch EXCEPT !.bypassed = @ \cup {m}]
  /\ UNCHANGED <<catalog, calls, graphVars, planVars>>

\* validate_patch or describe_patch, when the other calls have ended.
Analyse ==
  /\ Idle /\ calls # <<>> /\ \A c \in Callers : Finished(c)
  /\ Modules(patch) # {} /\ Cardinality(Modules(patch)) <= MaxAnalysed
  /\ nodes' = Modules(patch) /\ edges' = Edges(patch) /\ dests' = AudioDests(patch)
  /\ phase' = "feeds" /\ todo' = dests' /\ reached' = {} /\ inCycle' = Loops(edges')
  /\ index' = Unvisited(nodes') /\ low' = Unvisited(nodes') /\ tstack' = <<>> /\ work' = <<>>
  /\ memo' = Unknown(nodes')
  /\ UNCHANGED <<patch, catalog, edits, calls, planVars>>

Loop == GraphNext /\ UNCHANGED <<patch, catalog, edits, calls, planVars>>

Plan == Operate /\ UNCHANGED <<patch, catalog, edits, calls, graphVars>>

WorkbenchNext ==
  \/ \E c \in DOMAIN calls : Scan(c) \/ ChooseSlot(c) \/ Detach(c) \/ Preview(c) \/ Commit(c)
  \/ Edit \/ Analyse \/ Loop \/ Plan

WorkbenchSpec == WorkbenchInit /\ [][WorkbenchNext]_workbenchVars

-----------------------------------------------------------------------------
\* The comments on the loops of analysis.ts, of any snapshot: what they find is exact.
AnalysisExact == FeedsExact /\ CyclesExact /\ PathReal

\* Findings that a recipe may leave behind, by what was there before and what it is for.
Excused ==
  (IF "bridge" \in Modules(patch) THEN {} ELSE {"bridge.missing"})
  \cup (IF "other" \in Modules(patch) THEN {"adapter.unverified_modules"} ELSE {})
  \cup (IF patch.channels > 1 THEN {"adapter.poly_into_mono"} ELSE {})
  \cup (IF patch.bypassed # {} THEN {"bypass.interrupts_path"} ELSE {})

\* build_recipe (tools.ts): a plan made of a recipe never fails, a role is not called
\* missing after a whole scan while its model is installed, and what was built has no
\* finding in validate_patch that it could have avoided.
RecipesBuildClean ==
  \A c \in DOMAIN calls : calls[c].ask.tool = "build_recipe" =>
    /\ calls[c].at # "failed"
    /\ calls[c].at = "unresolved" /\ calls[c].complete =>
         Unresolved(Recipe[calls[c].ask.recipe], Ids(catalog)) # {}
    /\ calls[c].at = "done" /\ edits = 0 => Report(patch) \subseteq Excused

\* Attaching and detaching probes (telemetry.ts): a commit takes away no cable that
\* its preview did not show, a recipe none, and a probe only what was in its slot.
ProbesKeepCables ==
  [][\A c \in DOMAIN calls : calls[c].at = "planned" /\ calls'[c].at = "done" =>
       \A cable \in patch.cables \ patch'.cables :
         /\ cable \in calls[c].base.cables
         /\ calls[c].ask.tool # "build_recipe"
         /\ cable.to = calls[c].plan[Len(calls[c].plan)].to
         /\ cable.in = calls[c].plan[Len(calls[c].plan)].in]_workbenchVars

=============================================================================
