------------------------------ MODULE PatchGraph ------------------------------
(***************************************************************************)
(* What the server reads off the cables of a snapshot (apps/mcp-server,    *)
(* analysis.ts): which modules feed the audio destinations, which take     *)
(* part in a feedback loop, and the longest path of cables into a          *)
(* destination. Each is a loop with a stack of its own; they run one after *)
(* the other here, and the order in which a loop meets modules and cables, *)
(* that of the snapshot, is any. Cables between the same two modules count *)
(* once. With one destination these are the loops of describePatch.        *)
(***************************************************************************)
EXTENDS Integers, Sequences, FiniteSets

VARIABLES
  nodes,   \* modules of the snapshot
  edges,   \* <<from, to>> for the modules that a cable joins
  dests,   \* audio destinations
  phase,   \* the loop in progress
  todo,    \* modulesFeedingDestinations: modules on the stack
  reached, \* modules visited
  index,   \* modulesInCycles: order of the first visits, 0 before
  low,     \* the earliest visit a module leads back to
  tstack,  \* modules whose component is open
  inCycle, \* modules found in a loop
  work,    \* the stack of frames of the two depth-first loops
  memo     \* longestCablePathTo: the path found for each finished module, or <<>>

snapshot  == <<nodes, edges, dests>>
graphVars == <<nodes, edges, dests, phase, todo, reached, index, low, tstack, inCycle, work, memo>>

Ids(s) == {s[i] : i \in DOMAIN s}

Sources(n) == {e[1] : e \in {e \in edges : e[2] = n}}
Targets(n) == {e[2] : e \in {e \in edges : e[1] = n}}

Frame(n, next) == [at |-> n, left |-> next, best |-> <<>>]

Top    == work[Len(work)]
Popped == SubSeq(work, 1, Len(work) - 1)

\* What the loops start with.
Unvisited(ns) == [n \in ns |-> 0]
Unknown(ns)   == [n \in ns |-> <<>>]
Loops(es)     == {e[1] : e \in {e \in es : e[1] = e[2]}}

LoopsStart ==
  /\ todo = dests /\ reached = {} /\ inCycle = Loops(edges)
  /\ index = Unvisited(nodes) /\ low = Unvisited(nodes) /\ tstack = <<>> /\ work = <<>>
  /\ memo = Unknown(nodes)

-----------------------------------------------------------------------------
(* Modules that feed a destination *)

\* Faulty variant: looks along the cables.
Downstream(n) == Targets(n)

Upstream(n) == Sources(n)

Feed ==
  /\ phase = "feeds"
  /\ \E n \in todo :
       IF n \in reached
       THEN todo' = todo \ {n} /\ UNCHANGED reached
       ELSE todo' = (todo \ {n}) \cup Upstream(n) /\ reached' = reached \cup {n}
  /\ UNCHANGED <<snapshot, phase, index, low, tstack, inCycle, work, memo>>

Fed ==
  /\ phase = "feeds" /\ todo = {}
  /\ phase' = "cycles"
  /\ UNCHANGED <<snapshot, todo, reached, index, low, tstack, inCycle, work, memo>>

-----------------------------------------------------------------------------
(* Feedback loops: the strongly connected components, by Tarjan's algorithm *)

Least(a, b) == IF a < b THEN a ELSE b

Visits(n) ==
  LET count == 1 + Cardinality({m \in nodes : index[m] # 0}) IN
  /\ index' = [index EXCEPT ![n] = count]
  /\ low' = [low EXCEPT ![n] = count]
  /\ tstack' = Append(tstack, n)

Visit ==
  /\ phase = "cycles" /\ work = <<>>
  /\ \E n \in nodes : index[n] = 0 /\ Visits(n) /\ work' = <<Frame(n, Targets(n))>>
  /\ UNCHANGED <<snapshot, phase, todo, reached, inCycle, memo>>

\* Faulty variant: a module of a closed component counts as well.
Seen(n) == index[n] # 0

Open(n) == n \in Ids(tstack)

Follow ==
  /\ phase = "cycles" /\ work # <<>>
  /\ \E n \in Top.left :
       LET looked == [work EXCEPT ![Len(work)].left = @ \ {n}] IN
       IF index[n] = 0
       THEN Visits(n) /\ work' = Append(looked, Frame(n, Targets(n)))
       ELSE /\ work' = looked
            /\ low' = IF Open(n) THEN [low EXCEPT ![Top.at] = Least(@, index[n])] ELSE low
            /\ UNCHANGED <<index, tstack>>
  /\ UNCHANGED <<snapshot, phase, todo, reached, inCycle, memo>>

\* The modules from n up on the stack, when n is the first of its component.
Component(n) ==
  LET from == CHOOSE i \in DOMAIN tstack : tstack[i] = n
  IN SubSeq(tstack, from, Len(tstack))

Close ==
  /\ phase = "cycles" /\ work # <<>> /\ Top.left = {}
  /\ LET n == Top.at
         c == IF low[n] = index[n] THEN Component(n) ELSE <<>>
     IN
     /\ tstack' = SubSeq(tstack, 1, Len(tstack) - Len(c))
     /\ inCycle' = IF Len(c) > 1 THEN inCycle \cup Ids(c) ELSE inCycle
     /\ low' = IF Len(work) > 1 THEN [low EXCEPT ![work[Len(work) - 1].at] = Least(@, low[n])] ELSE low
  /\ work' = Popped
  /\ UNCHANGED <<snapshot, phase, todo, reached, index, memo>>

\* A chain is described for one destination at a time.
Cycled ==
  /\ phase = "cycles" /\ work = <<>> /\ \A n \in nodes : index[n] # 0
  /\ \/ /\ Cardinality(dests) = 1 /\ phase' = "path"
        /\ work' = <<Frame(CHOOSE d \in dests : TRUE, Sources(CHOOSE d \in dests : TRUE))>>
     \/ Cardinality(dests) # 1 /\ phase' = "done" /\ UNCHANGED work
  /\ UNCHANGED <<snapshot, todo, reached, index, low, tstack, inCycle, memo>>

-----------------------------------------------------------------------------
(* The longest path of cables into a destination *)

Better(path, frame) == Len(path) > Len(frame.best) /\ frame.at \notin Ids(path)

\* Faulty variant: takes the path met last.
Latest(path, frame) == frame.at \notin Ids(path)

Takes(path, frame) == Better(path, frame)

OnStack(n) == \E i \in DOMAIN work : work[i].at = n

\* The next cable into the module on top: skipped if it closes a loop, answered from
\* memo if its source is finished, or followed.
Trace ==
  /\ phase = "path" /\ work # <<>>
  /\ \E n \in Top.left :
       LET looked == [work EXCEPT ![Len(work)].left = @ \ {n}] IN
       work' = IF OnStack(n) THEN looked
               ELSE IF memo[n] = <<>> THEN Append(looked, Frame(n, Sources(n)))
               ELSE IF Takes(memo[n], Top) THEN [looked EXCEPT ![Len(work)].best = memo[n]]
               ELSE looked
  /\ UNCHANGED <<snapshot, phase, todo, reached, index, low, tstack, inCycle, memo>>

Finish ==
  /\ phase = "path" /\ work # <<>> /\ Top.left = {}
  /\ LET path == Append(Top.best, Top.at) IN
     /\ memo' = [memo EXCEPT ![Top.at] = path]
     /\ work' = IF Len(work) > 1 /\ Takes(path, Popped[Len(Popped)])
                THEN [Popped EXCEPT ![Len(Popped)].best = path]
                ELSE Popped
  /\ phase' = IF Len(work) = 1 THEN "done" ELSE phase
  /\ UNCHANGED <<snapshot, todo, reached, index, low, tstack, inCycle>>

GraphNext == Feed \/ Fed \/ Visit \/ Follow \/ Close \/ Cycled \/ Trace \/ Finish

-----------------------------------------------------------------------------
(* What the loops are to find *)

\* Modules from which a cable path leads into D: those in every set that holds D and
\* the sources of its own modules.
Feeding(D) ==
  {n \in nodes : \A S \in SUBSET nodes :
     D \subseteq S /\ (\A e \in edges : e[2] \in S => e[1] \in S) => n \in S}

Acyclic == \A n \in nodes : n \notin Feeding(Sources(n))

\* Modules on the longest path that ends at a module, in a patch without loops.
Depth ==
  LET d[n \in nodes] ==
        IF Sources(n) = {} THEN 1
        ELSE 1 + (CHOOSE k \in {d[m] : m \in Sources(n)} : \A m \in Sources(n) : d[m] <= k)
  IN d

-----------------------------------------------------------------------------
\* The comment on modulesFeedingDestinations: the modules found are those from which
\* signal can reach an audio destination.
FeedsExact == phase # "feeds" => reached = Feeding(dests)

\* The comment on modulesInCycles: the modules found are those on a directed cycle.
CyclesExact == phase \in {"path", "done"} => inCycle = {n \in nodes : n \in Feeding(Sources(n))}

\* The comments on longestCablePathTo and describePatch: every arrow of a chain is a
\* cable, no module is repeated, without loops the path is the longest, and with the
\* other cables among its feeders the chain names all of them.
PathReal ==
  phase = "done" /\ Cardinality(dests) = 1 =>
    LET dest  == CHOOSE d \in dests : TRUE
        path  == memo[dest]
        feeds == Feeding(dests)
        named == Ids(path) \cup UNION {{e[1], e[2]} : e \in edges \cap (feeds \X feeds)}
    IN
    /\ path # <<>> /\ path[Len(path)] = dest
    /\ \A i \in 2..Len(path) : <<path[i - 1], path[i]>> \in edges
    /\ Cardinality(Ids(path)) = Len(path)
    /\ Acyclic => Len(path) = Depth[dest]
    /\ named = feeds

=============================================================================
