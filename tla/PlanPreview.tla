----------------------------- MODULE PlanPreview -----------------------------
(***************************************************************************)
(* What a preview says of a plan and what committing the plan does. The    *)
(* preview (txnPreview, core/validate.cpp) goes through the operations on  *)
(* a snapshot of the patch, with accumulators for what the earlier ones    *)
(* would do; the commit (Applier, rackside/Transaction.cpp) performs them  *)
(* on the patch itself, which has the fingerprint of the snapshot. Neither *)
(* reads what the other writes, so they advance here side by side, one     *)
(* operation at a time. What else a commit does is in Transaction.         *)
(*                                                                         *)
(* Panels are one column wide, modules have one parameter, and one input   *)
(* and one output except for the Bridge, which has none. A module that the *)
(* plan adds has its alias for an id; the preview has no other.            *)
(***************************************************************************)
EXTENDS Integers, FiniteSets

CONSTANTS
  Snapshots,  \* the patches previewed: kinds and columns of modules, cables, and the id of the next
  Columns,    \* the columns of the rack
  Aliases,    \* names for modules that plans add
  MaxOps      \* bound: operations of a plan

\* The cables of a patch are numbered in the order in which they are met, each once.
Ordered(s) ==
  /\ s.next \in Nat /\ \A c \in s.cables : c.id \in Nat /\ c.id < s.next
  /\ \A c \in s.cables : \A d \in s.cables : c.id = d.id => c = d

\* Modules and cables have ids, and the name that a plan gives a module is none of them.
ASSUME SnapshotsAssumption ==
  \A s \in Snapshots : IsFiniteSet(DOMAIN s.kind) /\ DOMAIN s.kind \cap Aliases = {} /\ Ordered(s)

VARIABLES
  before,  \* the snapshot, and the patch before the commit
  told,    \* PreviewState; letGo records that the last Bridge was allowed to go
  live,    \* the patch, the aliases and the outcome of the commit
  length   \* operations so far

planVars == <<before, told, live, length>>

Given  == DOMAIN before.kind
Refs   == Given \cup Aliases
Models == {"Bridge", "Other"}

PlanStart(s) ==
  /\ before = s /\ length = 0
  /\ told = [refusal |-> "none", aliases |-> {}, removed |-> {}, cables |-> {}, claimed |-> {},
             replaced |-> {}, boxes |-> <<>>, uncertain |-> FALSE, randomizes |-> FALSE,
             letGo |-> FALSE]
  /\ live = [ok |-> TRUE, kind |-> s.kind, column |-> s.column, cables |-> s.cables,
             next |-> s.next]

CableIds(cs) == {c.id : c \in cs}

-----------------------------------------------------------------------------
(* The operations of a plan. Bypassing and resetting are setting without a   *)
(* parameter to check; squeeze reads like nearest, and stack is refused on    *)
(* both sides where fail_if_connected is.                                     *)

Operations ==
  [op : {"add_module"}, model : Models \cup {"Missing"}, alias : Aliases]
  \cup [op : {"remove_module"}, module : Refs, allowLastBridge : BOOLEAN,
        cablePolicy : {"remove_attached", "fail_if_connected"}]
  \cup [op : {"set_parameter"}, module : Refs, param : {0, 1}]
  \cup [op : {"randomize_module"}, module : Refs]
  \cup [op : {"move_module"}, module : Refs, position : Columns, collision : {"fail", "force", "nearest"}]
  \cup [op : {"connect"}, out : Refs, in : Refs, inputPolicy : {"fail_if_connected", "replace_all"}]
  \cup [op : {"disconnect"}, cable : CableIds(before.cables) \cup {before.next}]
  \cup [op : {"disconnect_port"}, module : Refs, port : {"out", "in"}, policy : {"all", "top"}]

OnModule(cs, m) == {c \in cs : m \in {c.out, c.in}}
OnPort(cs, m, port) == {c \in cs : c[port] = m}
Without(cs, ids) == {c \in cs : c.id \notin ids}

\* disconnect_port: all cables of the port, or the one met last.
Picked(cs, policy) == IF policy = "top" THEN {c \in cs : \A d \in cs : d.id <= c.id} ELSE cs

Patchable(kind) == kind # "Bridge"

-----------------------------------------------------------------------------
(* The preview: what refuses an operation, and what it notes of one it accepts *)

\* A module of the snapshot that the plan has not removed, or one it would add.
Known(m) == m \in (Given \ told.removed) \cup told.aliases

Kept == Without(before.cables, told.cables)

\* Faulty variant: the bridges of the snapshot, those removed before included.
BridgesThen == {m \in Given : before.kind[m] = "Bridge"}

BridgesLeft == {m \in Given \ told.removed : before.kind[m] = "Bridge"}

LastBridge(m) == m \in Given /\ before.kind[m] = "Bridge" /\ Cardinality(BridgesLeft) <= 1

Box(m) == IF m \in DOMAIN told.boxes THEN told.boxes[m] ELSE before.column[m]

PositionFree(m, x) == \A other \in Given \ (told.removed \cup {m}) : Box(other) # x

\* Faulty variant: an input that an earlier operation connects is not seen.
ClaimedBefore(m) == m \in Given /\ OnPort(Kept, m, "in") # {}

Claimed(m) == m \in told.claimed \/ (m \in Given /\ OnPort(Kept, m, "in") # {})

Refers(o) ==
  CASE o.op \in {"add_module", "disconnect"} -> {}
    [] o.op = "connect" -> {o.out, o.in}
    [] OTHER -> {o.module}

\* BAD_REQUEST, and what is not found, installed, in range or supported.
Unfit(o) ==
  \/ \E m \in Refers(o) : ~Known(m)
  \/ o.op = "add_module" /\ (o.model \notin Models \/ o.alias \in told.aliases)
  \/ o.op = "remove_module" /\ LastBridge(o.module) /\ ~o.allowLastBridge
  \/ o.op = "set_parameter" /\ o.module \in Given /\ o.param # 0
  \/ o.op = "connect" /\ \E m \in {o.out, o.in} \cap Given : ~Patchable(before.kind[m])
  \/ o.op = "disconnect" /\ o.cable \notin CableIds(Kept)

\* VALIDATION_FAILED: the policies that refuse what is connected or occupied. The box
\* of a module that the plan adds is not known, and then no position is refused.
Conflicts(o) ==
  \/ /\ o.op = "remove_module" /\ o.module \in Given /\ o.cablePolicy = "fail_if_connected"
     /\ OnModule(Kept, o.module) # {}
  \/ /\ o.op = "move_module" /\ o.module \in Given /\ o.collision = "fail"
     /\ ~told.uncertain /\ ~PositionFree(o.module, o.position)
  \/ o.op = "connect" /\ o.inputPolicy = "fail_if_connected" /\ Claimed(o.in)

\* Faulty variant: the cables that go with a module are not listed.
SweptUnlisted(o) ==
  IF o.op = "disconnect_port" THEN CableIds(Picked(OnPort(Kept, o.module, o.port), o.policy))
  ELSE IF o.op = "connect" THEN CableIds(OnPort(Kept, o.in, "in"))
  ELSE IF o.op = "disconnect" THEN {o.cable} ELSE {}

\* The cables that the operation takes away, as the preview sees it.
Swept(o) ==
  CASE o.op = "remove_module"   -> CableIds(OnModule(Kept, o.module))
    [] o.op = "connect"         -> CableIds(OnPort(Kept, o.in, "in"))
    [] o.op = "disconnect"      -> {o.cable}
    [] o.op = "disconnect_port" -> CableIds(Picked(OnPort(Kept, o.module, o.port), o.policy))
    [] OTHER                    -> {}

Noted(o) ==
  LET swept == [told EXCEPT !.cables = @ \cup Swept(o)] IN
  CASE o.op = "add_module" -> [swept EXCEPT !.aliases = @ \cup {o.alias}, !.uncertain = TRUE]
    [] o.op = "remove_module" ->
         [swept EXCEPT !.removed = @ \cup ({o.module} \cap Given),
                       !.letGo = @ \/ LastBridge(o.module)]
    [] o.op = "randomize_module" -> [swept EXCEPT !.randomizes = TRUE]
    [] o.op = "move_module" /\ o.module \in Given ->
         IF o.collision = "nearest" THEN [swept EXCEPT !.uncertain = TRUE]
         ELSE [swept EXCEPT !.boxes = [m \in {o.module} \cup DOMAIN @ |-> IF m = o.module THEN o.position ELSE @[m]]]
    [] o.op = "connect" ->
         [swept EXCEPT !.claimed = @ \cup {o.in},
                       !.replaced = @ \cup {m \in {o.in} : OnPort(Kept, m, "in") # {}}]
    [] OTHER -> swept

\* validateOne
Validated(o) ==
  IF Unfit(o) THEN [told EXCEPT !.refusal = "unfit"]
  ELSE IF Conflicts(o) THEN [told EXCEPT !.refusal = "conflict"]
  ELSE Noted(o)

\* computeRisk
ConfirmationRequired == told.removed # {} \/ told.cables # {} \/ told.replaced # {} \/ told.randomizes

-----------------------------------------------------------------------------
(* The commit: what makes an operation throw, and the patches it may leave *)

Here == DOMAIN live.kind

Throws(o) ==
  \/ ~(Refers(o) \subseteq Here)
  \/ o.op = "add_module" /\ o.model \notin Models
  \/ /\ o.op = "remove_module" /\ o.cablePolicy = "fail_if_connected"
     /\ OnModule(live.cables, o.module) # {}
  \/ o.op = "set_parameter" /\ o.param # 0
  \/ /\ o.op = "move_module" /\ o.collision = "fail"
     /\ \E other \in Here \ {o.module} : live.column[other] = o.position
  \/ o.op = "connect" /\ \E m \in {o.out, o.in} : ~Patchable(live.kind[m])
  \/ /\ o.op = "connect" /\ o.inputPolicy = "fail_if_connected"
     /\ OnPort(live.cables, o.in, "in") # {}
  \/ o.op = "disconnect" /\ o.cable \notin CableIds(live.cables)

\* Layouts with module m at x: Rack chooses where the modules in the way go.
Forced(m, x) ==
  {l \in [Here \cup {m} -> Columns] : l[m] = x /\ \A i, j \in DOMAIN l : l[i] = l[j] => i = j}

Stays(m, x) == [i \in Here |-> IF i = m THEN x ELSE live.column[i]]

\* A module moved nearest to x goes to a free place.
Layouts(o) ==
  IF o.collision = "force" THEN Forced(o.module, o.position)
  ELSE IF o.collision = "fail" THEN {Stays(o.module, o.position)}
  ELSE {Stays(o.module, x) : x \in {x \in Columns : \A i \in Here \ {o.module} : live.column[i] # x}}

Unplugged(ids) == [live EXCEPT !.cables = Without(@, ids)]

Performed(o) ==
  CASE o.op = "add_module" ->
         {[live EXCEPT !.kind = [m \in {o.alias} \cup Here |-> IF m = o.alias THEN o.model ELSE @[m]], !.column = l] :
            l \in UNION {Forced(o.alias, x) : x \in Columns}}
    [] o.op = "remove_module" ->
         LET rest == Here \ {o.module} IN
         {[Unplugged(CableIds(OnModule(live.cables, o.module))) EXCEPT
             !.kind = [i \in rest |-> @[i]], !.column = [i \in rest |-> @[i]]]}
    [] o.op = "move_module" -> {[live EXCEPT !.column = l] : l \in Layouts(o)}
    [] o.op = "connect" ->
         {[Unplugged(CableIds(OnPort(live.cables, o.in, "in"))) EXCEPT
             !.cables = @ \cup {[id |-> live.next, out |-> o.out, in |-> o.in]}, !.next = @ + 1]}
    [] o.op = "disconnect" -> {Unplugged({o.cable})}
    [] o.op = "disconnect_port" ->
         {Unplugged(CableIds(Picked(OnPort(live.cables, o.module, o.port), o.policy)))}
    [] OTHER -> {live}

\* A commit that throws is rolled back.
Operate ==
  /\ Given # {} /\ told.refusal = "none" /\ live.ok /\ length < MaxOps
  /\ length' = length + 1
  /\ \E o \in Operations :
       /\ told' = Validated(o)
       /\ IF Throws(o) THEN live' = [live EXCEPT !.ok = FALSE] ELSE live' \in Performed(o)
  /\ UNCHANGED before

-----------------------------------------------------------------------------
Accepted == told.refusal = "none"

LostCables  == CableIds(before.cables) \ CableIds(live.cables)
LostModules == Given \ Here

\* The cables that the plan has put in.
PlansOwn == {c \in live.cables : c.id >= before.next}

\* Where the preview has followed the plan: no module is added, every module is in the
\* column that the preview has it in, and so are the cables where the plan has put some
\* in: those listed have gone, and every input claimed has its own.
Followed ==
  /\ told.aliases = {} /\ ~told.uncertain
  /\ \A m \in Given \cap Here : live.column[m] = Box(m)
  /\ told.claimed = {} \/ (told.cables = LostCables /\ told.claimed \cap Here = {c.in : c \in PlansOwn})

\* The operation removes a module that the plan has put a cable on.
RemovesPlugged == \E m \in told'.removed \ told.removed : OnModule(PlansOwn, m) # {}

\* The comments on PreviewState and in validate.cpp: the diff lists what a commit takes
\* away, the plan is then confirmed, the last Bridge stays unless the plan says it may
\* go, and while the preview can follow a plan it refuses an operation for a conflict just
\* when the commit would. One thing it does not see even then: what fail_if_connected
\* says of a module that is connected only by the plan.
PreviewTells ==
  [][/\ (Accepted /\ live.ok)' =>
          /\ LostCables' \subseteq told'.cables /\ LostModules' = told'.removed
          /\ (LostCables' # {} \/ LostModules' # {}) => ConfirmationRequired'
          /\ \/ told'.letGo
             \/ \A m \in Given : before.kind[m] # "Bridge"
             \/ \E m \in Here' : live'.kind[m] = "Bridge"
     /\ Followed => CASE told'.refusal = "none" -> live'.ok \/ RemovesPlugged
                      [] told'.refusal = "conflict" -> ~live'.ok
                      [] OTHER -> TRUE]_planVars

\* "A preview must never reject a plan that would have committed" (validate.cpp:211).
NeverRefusesWhatCommits == told.refusal = "conflict" => ~live.ok

=============================================================================
