--------------------------- MODULE PatchGraphProofs ---------------------------
(***************************************************************************)
(* The three loops of the patch analysis are exact, for every snapshot.    *)
(* Each loop has an invariant of its own, and a step of one leaves the     *)
(* others' alone.                                                          *)
(***************************************************************************)
EXTENDS PatchGraph, FiniteSetTheorems, SequenceTheorems, WellFoundedInduction, TLAPS

-----------------------------------------------------------------------------
(***************************************************************************)
(* The loops that the analysis reports, for every snapshot: Tarjan's       *)
(* algorithm on an explicit stack. index numbers the modules as they are   *)
(* visited, so both stacks are sorted by it. Every visited module whose    *)
(* component is not closed is on tstack, a path leads from each of these   *)
(* to some frame and from each frame to those above it, and low names a    *)
(* module of tstack that can be reached. A frame whose low is its own      *)
(* index has nothing below it to reach, and what lies above it on tstack   *)
(* is a component. A component that has been closed holds all that its     *)
(* members reach and that reaches them.                                    *)
(***************************************************************************)

\* Along the pairs es a path leads from x to y: x is in every set that holds y and the
\* sources of its own.
Leads(ns, es, x, y) ==
  x \in ns /\ \A S \in SUBSET ns : y \in S /\ (\A e \in es : e[2] \in S => e[1] \in S) => x \in S

\* A path of cables leads from x to y.
Reach(x, y) == Leads(nodes, edges, x, y)

\* n is on a loop.
Looped(n) == \E s \in nodes : <<s, n>> \in edges /\ Reach(n, s)

Visited == {n \in nodes : index[n] # 0}

\* Visited, and its component has been closed.
Shut(n) == n \in Visited /\ ~Open(n)

Frames == [at : nodes, left : SUBSET nodes, best : Seq(nodes)]

\* Visits are numbered.
Numbered ==
  /\ index \in [nodes -> Nat] /\ low \in [nodes -> Nat]
  /\ \A n \in nodes : index[n] <= Cardinality(Visited)
  /\ \A n \in Visited : \A m \in Visited : index[n] = index[m] => n = m

\* Both stacks hold modules in the order of their visits.
Stacked ==
  /\ tstack \in Seq(nodes)
  /\ \A i \in 1..Len(tstack) : tstack[i] \in Visited
  /\ \A i \in 1..Len(tstack) : \A j \in 1..Len(tstack) : i < j => index[tstack[i]] < index[tstack[j]]
  /\ work \in Seq(Frames)
  /\ \A i \in 1..Len(work) : Open(work[i].at) /\ \A y \in work[i].left : <<work[i].at, y>> \in edges
  /\ \A i \in 1..Len(work) : \A j \in 1..Len(work) : i < j => index[work[i].at] < index[work[j].at]

\* No cable leads out of the closed components.
ClosedApart == \A e \in edges : Shut(e[1]) => Shut(e[2])

\* An open module leads to a frame visited before it, and each frame to the open modules
\* visited after it.
LeadsBack ==
  \A x \in Ids(tstack) : \E i \in 1..Len(work) : index[work[i].at] <= index[x] /\ Reach(x, work[i].at)
LeadsOn ==
  \A i \in 1..Len(work) : \A x \in Ids(tstack) : index[work[i].at] <= index[x] => Reach(work[i].at, x)

\* The cable from x to y has been followed.
Passed(x, y) == \A i \in 1..Len(work) : work[i].at = x => y \notin work[i].left

\* The frame up to which open module x belongs.
Under(i, x) ==
  /\ index[work[i].at] <= index[x]
  /\ i < Len(work) => index[x] < index[work[i + 1].at]

\* The low of a frame is the visit of an open module it leads to, and no later than what
\* the modules above it have been seen to lead to.
LowTrue ==
  \A i \in 1..Len(work) :
    /\ low[work[i].at] <= index[work[i].at]
    /\ \E y \in Ids(tstack) : index[y] = low[work[i].at] /\ Reach(work[i].at, y)
LowEnough ==
  \A i \in 1..Len(work) : \A x \in Ids(tstack) : \A y \in Ids(tstack) :
    Under(i, x) /\ <<x, y>> \in edges /\ Passed(x, y) => low[work[i].at] <= index[y]

PassedVisited ==
  \A x \in Ids(tstack) : \A y \in nodes : <<x, y>> \in edges /\ Passed(x, y) => y \in Visited

LoopsFound ==
  /\ Loops(edges) \subseteq inCycle
  /\ \A n \in inCycle : n \in nodes /\ Looped(n)
  /\ \A n \in nodes : Shut(n) /\ Looped(n) => n \in inCycle

Searching ==
  /\ Numbered /\ Stacked /\ ClosedApart /\ LeadsBack /\ LeadsOn
  /\ LowTrue /\ LowEnough /\ PassedVisited /\ LoopsFound

CyclesInv ==
  /\ edges \subseteq nodes \X nodes /\ IsFiniteSet(nodes)
  /\ phase = "feeds" => work = <<>> /\ tstack = <<>>
  /\ phase \in {"feeds", "cycles"} => Searching
  /\ CyclesExact

Joins == edges \subseteq nodes \X nodes

\* A cable is a pair of modules.
LEMMA EdgeEnds ==
  ASSUME Joins, NEW e \in edges
  PROVE  e[1] \in nodes /\ e[2] \in nodes /\ e = <<e[1], e[2]>>
BY DEF Joins

\* x leads into D: it is in every set that holds D and the sources of its own.
LEMMA FeedingIs ==
  ASSUME NEW D, NEW x
  PROVE  x \in Feeding(D) <=>
           /\ x \in nodes
           /\ \A S \in SUBSET nodes : D \subseteq S /\ (\A e \in edges : e[2] \in S => e[1] \in S) => x \in S
BY DEF Feeding

\* Paths are what the definition of the least closed set asks of its members.
LEMMA ReachIs ==
  ASSUME NEW x, NEW y
  PROVE  Reach(x, y) <=> x \in Feeding({y})
BY DEF Reach, Leads, Feeding

\* What feeds D holds the sources of its own.
LEMMA FeedingClosed ==
  ASSUME Joins, NEW D
  PROVE  \A e \in edges : e[2] \in Feeding(D) => e[1] \in Feeding(D)
<1> SUFFICES ASSUME NEW e \in edges, e[2] \in Feeding(D) PROVE e[1] \in Feeding(D)
  OBVIOUS
<1>1. e[1] \in nodes
  BY EdgeEnds
<1>2. ASSUME NEW S \in SUBSET nodes, D \subseteq S, \A f \in edges : f[2] \in S => f[1] \in S
      PROVE  e[1] \in S
  <2>1. e[2] \in S
    BY <1>2, FeedingIs
  <2> QED
    BY <1>2, <2>1
<1> QED
  BY <1>1, <1>2, FeedingIs

\* What feeds D holds D.
LEMMA FeedingHolds ==
  ASSUME NEW D \in SUBSET nodes
  PROVE  D \subseteq Feeding(D) /\ Feeding(D) \in SUBSET nodes
BY DEF Feeding

\* What holds D and the sources of its own holds what leads into D.
LEMMA FeedingLeast ==
  ASSUME NEW D, NEW S \in SUBSET nodes, D \subseteq S, \A e \in edges : e[2] \in S => e[1] \in S
  PROVE  Feeding(D) \subseteq S
BY DEF Feeding

\* Paths compose, from none and from one cable.
LEMMA ReachSelf ==
  ASSUME NEW x \in nodes
  PROVE  Reach(x, x)
BY FeedingHolds, ReachIs

LEMMA ReachNodes ==
  ASSUME NEW x, NEW y, Reach(x, y)
  PROVE  x \in nodes
BY ReachIs DEF Feeding

LEMMA ReachTrans ==
  ASSUME Joins, NEW x, NEW y, NEW z \in nodes, Reach(x, y), Reach(y, z)
  PROVE  Reach(x, z)
<1>1. Feeding({z}) \in SUBSET nodes /\ {y} \subseteq Feeding({z})
  BY FeedingHolds, ReachIs
<1>2. Feeding({y}) \subseteq Feeding({z})
  BY <1>1, FeedingLeast, FeedingClosed
<1> QED
  BY <1>2, ReachIs

LEMMA ReachEdge ==
  ASSUME Joins, NEW x, NEW y, <<x, y>> \in edges
  PROVE  Reach(x, y)
<1>1. x \in nodes /\ y \in nodes
  BY DEF Joins
<1>2. y \in Feeding({y})
  BY <1>1, FeedingHolds
<1> QED
  BY <1>2, FeedingClosed, ReachIs

\* To lead into a set is to lead to one of its members.
LEMMA FeedingReach ==
  ASSUME Joins, NEW D \in SUBSET nodes, NEW x
  PROVE  x \in Feeding(D) <=> \E d \in D : Reach(x, d)
<1> DEFINE S == {y \in nodes : \E d \in D : Reach(y, d)}
<1>1. D \subseteq S
  BY ReachSelf
<1>2. ASSUME NEW e \in edges, e[2] \in S PROVE e[1] \in S
  <2>1. PICK d \in D : Reach(e[2], d)
    BY <1>2
  <2>2. Reach(e[1], d) /\ e[1] \in nodes
    BY <2>1, EdgeEnds, ReachEdge, ReachTrans
  <2> QED
    BY <2>2
<1>3. Feeding(D) \subseteq S
  <2> HIDE DEF S
  <2>1. S \in SUBSET nodes
    BY DEF S
  <2> QED
    BY <1>1, <1>2, <2>1, FeedingLeast
<1>4. ASSUME NEW d \in D, Reach(x, d) PROVE x \in Feeding(D)
  <2>1. Feeding(D) \in SUBSET nodes /\ {d} \subseteq Feeding(D)
    BY FeedingHolds
  <2>2. Feeding({d}) \subseteq Feeding(D)
    BY <2>1, FeedingLeast, FeedingClosed
  <2> QED
    BY <1>4, <2>2, ReachIs
<1> QED
  BY <1>3, <1>4

\* No path leads out of a set that no cable leads out of.
LEMMA ReachWithin ==
  ASSUME Joins, NEW T, \A e \in edges : e[1] \in T => e[2] \in T,
         NEW x \in T, NEW y \in nodes, Reach(x, y)
  PROVE  y \in T
<1> SUFFICES ASSUME y \notin T PROVE FALSE
  OBVIOUS
<1>1. Feeding({y}) \subseteq nodes \ T
  <2>1. \A e \in edges : e[2] \in nodes \ T => e[1] \in nodes \ T
    BY EdgeEnds
  <2>2. nodes \ T \in SUBSET nodes /\ {y} \subseteq nodes \ T
    OBVIOUS
  <2> QED
    BY <2>1, <2>2, FeedingLeast
<1> QED
  BY <1>1, ReachIs

\* The neighbours of a module.
LEMMA SourcesIn ==
  ASSUME Joins, NEW n
  PROVE  /\ Sources(n) \in SUBSET nodes /\ Targets(n) \in SUBSET nodes
         /\ \A m : m \in Sources(n) <=> <<m, n>> \in edges
         /\ \A m : m \in Targets(n) <=> <<n, m>> \in edges
<1>1. \A m : m \in Sources(n) <=> \E e \in edges : e[2] = n /\ e[1] = m
  BY DEF Sources
<1>2. \A m : m \in Targets(n) <=> \E e \in edges : e[1] = n /\ e[2] = m
  BY DEF Targets
<1>3. \A e \in edges : e[1] \in nodes /\ e[2] \in nodes /\ e = <<e[1], e[2]>>
  BY EdgeEnds
<1> QED
  BY <1>1, <1>2, <1>3

\* A module is on a loop when it feeds one of its sources.
LEMMA LoopedIs ==
  ASSUME Joins, NEW n
  PROVE  Looped(n) <=> n \in Feeding(Sources(n))
<1>1. n \in Feeding(Sources(n)) <=> \E s \in Sources(n) : Reach(n, s)
  BY SourcesIn, FeedingReach
<1> QED
  BY <1>1, SourcesIn DEF Looped

\* Two modules that lead to each other are on a loop, and so is one that feeds itself.
LEMMA LoopedBoth ==
  ASSUME Joins, NEW x \in nodes, NEW y \in nodes, x # y, Reach(x, y), Reach(y, x)
  PROVE  Looped(x)
<1> DEFINE S == {z \in nodes : z = x \/ \E s \in Sources(x) : Reach(z, s)}
<1>1. Feeding({x}) \subseteq S
  <2>1. ASSUME NEW e \in edges, e[2] \in S PROVE e[1] \in S
    <3>1. e[1] \in nodes /\ e = <<e[1], e[2]>>
      BY EdgeEnds
    <3>2. CASE e[2] = x
      BY <3>1, <3>2, SourcesIn, ReachSelf
    <3>3. CASE \E s \in Sources(x) : Reach(e[2], s)
      <4>1. PICK s \in Sources(x) : Reach(e[2], s)
        BY <3>3
      <4>2. Reach(e[1], s)
        BY <3>1, <4>1, ReachEdge, ReachTrans, SourcesIn
      <4> QED
        BY <3>1, <4>2
    <3> QED
      BY <2>1, <3>2, <3>3
  <2>2. S \in SUBSET nodes /\ {x} \subseteq S
    OBVIOUS
  <2> HIDE DEF S
  <2> QED
    BY <2>1, <2>2, FeedingLeast
<1>2. PICK s \in Sources(x) : Reach(y, s)
  BY <1>1, ReachIs
<1>3. Reach(x, s)
  BY <1>2, ReachTrans, SourcesIn
<1> QED
  BY <1>2, <1>3, SourcesIn DEF Looped

\* A cable from a module to itself is a loop.
LEMMA LoopedSelf ==
  ASSUME Joins, NEW x \in Loops(edges)
  PROVE  x \in nodes /\ Looped(x)
<1>1. PICK e \in edges : e[1] = e[2] /\ x = e[1]
  BY DEF Loops
<1>2. x \in nodes /\ <<x, x>> \in edges
  BY <1>1, EdgeEnds
<1>3. x \in Sources(x)
  BY <1>2, SourcesIn
<1> QED
  BY <1>2, <1>3, SourcesIn, ReachSelf DEF Looped

\* A module that feeds neither itself nor leads back from beyond is on no loop.
LEMMA NotLooped ==
  ASSUME Joins, NEW x \in nodes, NEW T, x \notin T, \A e \in edges : e[1] \in T => e[2] \in T,
         \A y \in Targets(x) : y = x \/ y \in T, Looped(x)
  PROVE  x \in Loops(edges)
<1>1. PICK s \in Sources(x) : Reach(x, s)
  BY SourcesIn DEF Looped
<1>2. s \in nodes /\ <<s, x>> \in edges
  BY SourcesIn
<1>3. CASE s = x
  <2>1. <<x, x>>[1] = <<x, x>>[2]
    OBVIOUS
  <2> QED
    BY <1>2, <1>3, <2>1 DEF Loops
<1>4. CASE s # x
  <2> DEFINE U == T \cup {x}
  <2>1. \A e \in edges : e[1] \in U => e[2] \in U
    BY EdgeEnds, SourcesIn
  <2>2. s \in U
    <3> HIDE DEF U
    <3>1. x \in U
      BY DEF U
    <3> QED
      BY <1>1, <1>2, <2>1, <3>1, ReachWithin
  <2>3. s \in T
    BY <1>4, <2>2
  <2>4. <<s, x>>[1] = s /\ <<s, x>>[2] = x
    OBVIOUS
  <2> QED
    BY <1>2, <2>3, <2>4
<1> QED
  BY <1>3, <1>4

\* What the steps read of the two stacks.
LEMMA SearchFacts ==
  ASSUME Joins, Searching
  PROVE  /\ Len(tstack) \in Nat /\ Len(work) \in Nat
         /\ Visited \subseteq nodes /\ Ids(tstack) \subseteq Visited
         /\ \A x \in nodes : index[x] \in Nat /\ low[x] \in Nat
         /\ \A i \in 1..Len(work) :
              work[i] \in Frames /\ work[i].at \in nodes /\ work[i].at \in Ids(tstack) /\ work[i].left \subseteq nodes
         /\ \A i \in 1..Len(work) : \A j \in 1..Len(work) : index[work[i].at] <= index[work[j].at] => i <= j
         /\ \A i \in 1..Len(work) : \A j \in 1..Len(work) : work[i].at = work[j].at => i = j
         /\ \A x \in Visited : \A y \in Visited : index[x] = index[y] => x = y
<1>1. Len(tstack) \in Nat /\ Len(work) \in Nat /\ DOMAIN tstack = 1..Len(tstack)
  BY DEF Searching, Stacked
<1>2. Visited \subseteq nodes /\ Ids(tstack) \subseteq Visited
  BY <1>1 DEF Searching, Stacked, Visited, Ids
<1>3. \A x \in nodes : index[x] \in Nat /\ low[x] \in Nat
  BY DEF Searching, Numbered
<1>4. \A i \in 1..Len(work) :
        work[i] \in Frames /\ work[i].at \in nodes /\ work[i].at \in Ids(tstack) /\ work[i].left \subseteq nodes
  <2>1. work \in Seq(Frames) /\ \A i \in 1..Len(work) : work[i].at \in Ids(tstack)
    BY DEF Searching, Stacked, Open
  <2>2. \A i \in 1..Len(work) : work[i] \in Frames
    BY <2>1
  <2>3. \A f \in Frames : f.at \in nodes /\ f.left \subseteq nodes
    BY DEF Frames
  <2> QED
    BY <2>1, <2>2, <2>3
<1>5. \A i \in 1..Len(work) : \A j \in 1..Len(work) : i < j => index[work[i].at] < index[work[j].at]
  BY DEF Searching, Stacked
<1>6. ASSUME NEW i \in 1..Len(work), NEW j \in 1..Len(work), index[work[i].at] <= index[work[j].at] PROVE i <= j
  <2>1. index[work[i].at] \in Nat /\ index[work[j].at] \in Nat /\ i \in Nat /\ j \in Nat
    BY <1>1, <1>3, <1>4
  <2>2. j < i => index[work[j].at] < index[work[i].at]
    BY <1>5
  <2> QED
    BY <1>6, <2>1, <2>2
<1>7. ASSUME NEW i \in 1..Len(work), NEW j \in 1..Len(work), work[i].at = work[j].at PROVE i = j
  <2>1. index[work[i].at] \in Nat /\ index[work[i].at] = index[work[j].at]
    BY <1>3, <1>4, <1>7
  <2>2. i <= j /\ j <= i /\ i \in Nat /\ j \in Nat
    BY <1>1, <1>6, <2>1
  <2> QED
    BY <2>2
<1>8. \A x \in Visited : \A y \in Visited : index[x] = index[y] => x = y
  BY DEF Searching, Numbered
<1> QED
  BY <1>1, <1>2, <1>3, <1>4, <1>6, <1>7, <1>8

\* A first visit takes the next number, and its module goes on the stack.
LEMMA VisitsDone ==
  ASSUME Joins, IsFiniteSet(nodes), Searching, NEW n \in nodes, index[n] = 0, Visits(n), UNCHANGED <<nodes, edges, inCycle>>
  PROVE  /\ \E count \in Nat \ {0} : /\ index'[n] = count /\ low'[n] = count
                                    /\ \A m \in nodes : index[m] < count
         /\ \A m \in nodes : m # n => index'[m] = index[m] /\ low'[m] = low[m]
         /\ n \notin Visited /\ Visited' = Visited \cup {n} /\ Numbered'
         /\ n \notin Ids(tstack) /\ Ids(tstack)' = Ids(tstack) \cup {n} /\ tstack' \in Seq(nodes)
         /\ \A i \in 1..Len(tstack') : tstack'[i] \in Visited'
         /\ \A i \in 1..Len(tstack') : \A j \in 1..Len(tstack') : i < j => index'[tstack'[i]] < index'[tstack'[j]]
         /\ ClosedApart' /\ LoopsFound'
<1> DEFINE count == 1 + Cardinality({m \in nodes : index[m] # 0})
<1>1. index' = [index EXCEPT ![n] = count] /\ low' = [low EXCEPT ![n] = count] /\ tstack' = Append(tstack, n)
  BY DEF Visits
<1>2. count = 1 + Cardinality(Visited)
  BY DEF Visited
<1>3. IsFiniteSet(Visited) /\ n \notin Visited /\ n \notin Ids(tstack)
  <2>1. Visited \subseteq nodes /\ Ids(tstack) \subseteq Visited /\ n \notin Visited
    BY SearchFacts DEF Visited
  <2> QED
    BY <2>1, FS_Subset
<1>4. Cardinality(Visited) \in Nat /\ Cardinality(Visited \cup {n}) = Cardinality(Visited) + 1
  BY <1>3, FS_CardinalityType, FS_AddElement
<1> HIDE DEF count
<1>5. index \in [nodes -> Nat] /\ low \in [nodes -> Nat] /\ \A m \in nodes : index[m] <= Cardinality(Visited)
  BY DEF Searching, Numbered
<1>6. count \in Nat \ {0} /\ \A m \in nodes : index[m] < count
  BY <1>2, <1>4, <1>5
<1>7. index'[n] = count /\ low'[n] = count /\ \A m \in nodes : m # n => index'[m] = index[m] /\ low'[m] = low[m]
  BY <1>1, <1>5
<1>8. index' \in [nodes' -> Nat] /\ low' \in [nodes' -> Nat]
  BY <1>1, <1>5, <1>6
<1>9. Visited' = Visited \cup {n}
  <2>1. \A m : m \in Visited' <=> m \in nodes /\ index'[m] # 0
    BY DEF Visited
  <2>2. \A m : m \in Visited <=> m \in nodes /\ index[m] # 0
    BY DEF Visited
  <2> QED
    BY <1>6, <1>7, <2>1, <2>2
<1>10. Numbered'
  <2>1. \A m \in nodes : index'[m] <= Cardinality(Visited')
    BY <1>2, <1>4, <1>5, <1>7, <1>9
  <2>2. ASSUME NEW a \in Visited', NEW b \in Visited', index'[a] = index'[b] PROVE a = b
    <3>1. \A x \in Visited : x \in nodes /\ x # n /\ index[x] \in Nat /\ index[x] < count
      BY <1>3, <1>5, <1>6 DEF Visited
    <3>2. CASE a = n \/ b = n
      BY <1>6, <1>7, <1>9, <2>2, <3>1, <3>2
    <3>3. CASE a # n /\ b # n
      <4>1. a \in Visited /\ b \in Visited /\ index[a] = index[b]
        BY <1>7, <1>9, <2>2, <3>1, <3>3
      <4> QED
        BY <4>1, SearchFacts
    <3> QED
      BY <3>2, <3>3
  <2> QED
    BY <1>8, <2>1, <2>2 DEF Numbered
<1>11. tstack \in Seq(nodes) /\ tstack' \in Seq(nodes) /\ Len(tstack') = Len(tstack) + 1 /\ Len(tstack) \in Nat
       /\ tstack'[Len(tstack) + 1] = n /\ \A i \in 1..Len(tstack) : tstack'[i] = tstack[i]
  BY <1>1 DEF Searching, Stacked
<1>12. Ids(tstack)' = Ids(tstack) \cup {n}
  <2>1. \A x : x \in Ids(tstack)' <=> \E i \in 1..Len(tstack) + 1 : tstack'[i] = x
    BY <1>11 DEF Ids
  <2>2. \A x : x \in Ids(tstack) <=> \E i \in 1..Len(tstack) : tstack[i] = x
    BY <1>11 DEF Ids
  <2>3. \A i : i \in 1..Len(tstack) + 1 <=> i \in 1..Len(tstack) \/ i = Len(tstack) + 1
    BY <1>11
  <2> QED
    BY <1>11, <2>1, <2>2, <2>3
<1>13. \A i \in 1..Len(tstack') : i \in 1..Len(tstack) \/ (i = Len(tstack) + 1 /\ tstack'[i] = n)
  BY <1>11
<1>14. \A i \in 1..Len(tstack) : tstack[i] \in Visited /\ tstack[i] # n /\ tstack[i] \in nodes /\ index'[tstack[i]] = index[tstack[i]]
  <2>1. \A i \in 1..Len(tstack) : tstack[i] \in Visited
    BY DEF Searching, Stacked
  <2> QED
    BY <1>3, <1>7, <2>1 DEF Visited
<1>15. \A i \in 1..Len(tstack') : tstack'[i] \in Visited'
  BY <1>9, <1>11, <1>13, <1>14
<1>16. ASSUME NEW i \in 1..Len(tstack'), NEW j \in 1..Len(tstack'), i < j PROVE index'[tstack'[i]] < index'[tstack'[j]]
  <2>1. i \in 1..Len(tstack) /\ tstack'[i] = tstack[i]
    BY <1>11, <1>13, <1>16
  <2>2. CASE j \in 1..Len(tstack)
    <3>1. index[tstack[i]] < index[tstack[j]]
      BY <1>16, <2>1, <2>2 DEF Searching, Stacked
    <3> QED
      BY <1>11, <1>14, <2>1, <2>2, <3>1
  <2>3. CASE j = Len(tstack) + 1
    BY <1>6, <1>7, <1>11, <1>14, <2>1, <2>3
  <2> QED
    BY <1>13, <2>2, <2>3
<1>17. \A x \in nodes : Shut(x)' <=> Shut(x)
  BY <1>3, <1>9, <1>12 DEF Shut, Open
<1>18. ClosedApart'
  <2>1. ClosedApart /\ \A e \in edges : e[1] \in nodes /\ e[2] \in nodes
    BY EdgeEnds DEF Searching
  <2> QED
    BY <1>3, <1>9, <1>12, <2>1 DEF ClosedApart, Shut, Open
<1>19. LoopsFound'
  BY <1>3, <1>9, <1>12 DEF Searching, LoopsFound, Shut, Open, Looped, Reach
<1> QED
  BY <1>3, <1>6, <1>7, <1>9, <1>10, <1>11, <1>12, <1>15, <1>16, <1>18, <1>19

\* A first visit puts a frame on top; if there was one, a cable leads from it.
LEMMA DeeperKeeps ==
  ASSUME Joins, IsFiniteSet(nodes), Searching, NEW n \in nodes, index[n] = 0, Visits(n),
         UNCHANGED <<nodes, edges, inCycle>>,
         NEW looked \in Seq(Frames), Len(looked) = Len(work),
         \A i \in 1..Len(work) : looked[i].at = work[i].at /\ looked[i].left \subseteq work[i].left,
         \A i \in 1..Len(work) : \A y \in work[i].left : y \in looked[i].left \/ y = n,
         Len(work) > 0 => <<work[Len(work)].at, n>> \in edges,
         work' = Append(looked, Frame(n, Targets(n)))
  PROVE  Searching'
<1> DEFINE l == Len(work)
<1>1. PICK count \in Nat \ {0} : /\ index'[n] = count /\ low'[n] = count
                                /\ \A m \in nodes : index[m] < count
  BY VisitsDone
<1>2. \A m \in nodes : m # n => index'[m] = index[m] /\ low'[m] = low[m]
  BY VisitsDone
<1>3. n \notin Visited /\ Visited' = Visited \cup {n} /\ n \notin Ids(tstack) /\ Ids(tstack)' = Ids(tstack) \cup {n}
  BY VisitsDone
<1>4. /\ l \in Nat /\ Visited \subseteq nodes /\ Ids(tstack) \subseteq Visited /\ Ids(tstack) \subseteq nodes
      /\ \A x \in nodes : index[x] \in Nat /\ low[x] \in Nat
  BY SearchFacts
<1>5. \A i \in 1..l : /\ work[i] \in Frames /\ work[i].at \in nodes
                      /\ work[i].at \in Ids(tstack) /\ work[i].left \subseteq nodes
  BY SearchFacts
<1>6. Frame(n, Targets(n)).at = n /\ Frame(n, Targets(n)).left = Targets(n) /\ Frame(n, Targets(n)) \in Frames
  BY SourcesIn DEF Frame, Frames
<1>7. /\ Len(work') = l + 1 /\ work'[l + 1] = Frame(n, Targets(n)) /\ \A i \in 1..l : work'[i] = looked[i]
      /\ work' \in Seq(Frames)
  BY <1>6
<1>8. \A i \in 1..Len(work') : i \in 1..l \/ i = l + 1
  BY <1>4, <1>7
<1>9. /\ work'[l + 1].at = n /\ work'[l + 1].left = Targets(n)
      /\ \A i \in 1..l : work'[i].at = work[i].at /\ work'[i].left \subseteq work[i].left
      /\ \A i \in 1..l : \A y \in work[i].left : y \in work'[i].left \/ y = n
  BY <1>6, <1>7
<1>10. \A x \in Ids(tstack) : x # n /\ x \in nodes /\ index'[x] = index[x] /\ index[x] \in Nat /\ index[x] < count
  BY <1>1, <1>2, <1>3, <1>4
<1>11. \A i \in 1..l : /\ work'[i].at # n /\ work'[i].at \in Ids(tstack) /\ index'[work'[i].at] = index[work[i].at]
                       /\ low'[work'[i].at] = low[work[i].at]
  BY <1>2, <1>5, <1>9, <1>10
<1>12. l + 1 \in 1..Len(work') /\ \A i \in 1..l : i \in 1..Len(work')
  BY <1>4, <1>7
<1>13. Stacked'
  <2>1. \A i \in 1..Len(work') : work'[i].at \in Ids(tstack)'
    BY <1>3, <1>8, <1>9, <1>11
  <2>2. ASSUME NEW i \in 1..Len(work'), NEW y \in work'[i].left PROVE <<work'[i].at, y>> \in edges
    <3>1. CASE i \in 1..l
      <4>1. y \in work[i].left
        BY <1>9, <2>2, <3>1
      <4>2. <<work[i].at, y>> \in edges
        BY <3>1, <4>1 DEF Searching, Stacked
      <4> QED
        BY <1>9, <3>1, <4>2
    <3>2. CASE i = l + 1
      BY <1>9, <2>2, <3>2, SourcesIn
    <3> QED
      BY <1>8, <3>1, <3>2
  <2>3. ASSUME NEW i \in 1..Len(work'), NEW j \in 1..Len(work'), i < j
        PROVE  index'[work'[i].at] < index'[work'[j].at]
    <3>1. i \in 1..l
      BY <1>4, <1>8, <2>3
    <3>2. CASE j \in 1..l
      <4>1. index[work[i].at] < index[work[j].at]
        BY <2>3, <3>1, <3>2 DEF Searching, Stacked
      <4> QED
        BY <1>11, <3>1, <3>2, <4>1
    <3>3. CASE j = l + 1
      BY <1>1, <1>5, <1>9, <1>11, <3>1, <3>3
    <3> QED
      BY <1>8, <3>2, <3>3
  <2>4. Frames' = Frames
    BY DEF Frames
  <2>5. /\ tstack' \in Seq(nodes) /\ \A i \in 1..Len(tstack') : tstack'[i] \in Visited'
        /\ \A i \in 1..Len(tstack') : \A j \in 1..Len(tstack') : i < j => index'[tstack'[i]] < index'[tstack'[j]]
    BY VisitsDone
  <2> QED
    BY <1>7, <2>1, <2>2, <2>3, <2>4, <2>5 DEF Stacked, Open
<1>14. LeadsBack'
  <2>1. ASSUME NEW x \in Ids(tstack)'
        PROVE  \E i \in 1..Len(work') : index'[work'[i].at] <= index'[x] /\ Reach(x, work'[i].at)
    <3>1. CASE x = n
      BY <1>1, <1>9, <1>12, <3>1, ReachSelf
    <3>2. CASE x \in Ids(tstack)
      <4>1. PICK i \in 1..l : index[work[i].at] <= index[x] /\ Reach(x, work[i].at)
        BY <3>2 DEF Searching, LeadsBack
      <4>2. index'[work'[i].at] = index[work[i].at] /\ index'[x] = index[x] /\ work'[i].at = work[i].at
        BY <1>9, <1>10, <1>11, <3>2
      <4> QED
        BY <1>12, <4>1, <4>2
    <3> QED
      BY <1>3, <3>1, <3>2
  <2> QED
    BY <2>1 DEF LeadsBack, Reach
<1>15. LeadsOn'
  <2>1. ASSUME NEW i \in 1..Len(work'), NEW x \in Ids(tstack)', index'[work'[i].at] <= index'[x]
        PROVE  Reach(work'[i].at, x)
    <3>1. CASE i = l + 1
      <4>1. x = n
        BY <1>1, <1>3, <1>9, <1>10, <2>1, <3>1
      <4> QED
        BY <1>9, <3>1, <4>1, ReachSelf
    <3>2. CASE i \in 1..l /\ x \in Ids(tstack)
      <4>1. index[work[i].at] <= index[x]
        BY <1>10, <1>11, <2>1, <3>2
      <4> QED
        BY <1>9, <3>2, <4>1 DEF Searching, LeadsOn
    <3>3. CASE i \in 1..l /\ x = n
      <4>1. l \in 1..l /\ i <= l
        BY <1>4, <3>3
      <4>2. index[work[i].at] <= index[work[l].at]
        <5>1. i < l => index[work[i].at] < index[work[l].at]
          BY <3>3, <4>1 DEF Searching, Stacked
        <5>2. index[work[i].at] \in Nat /\ index[work[l].at] \in Nat /\ i \in Nat
          BY <1>4, <1>5, <3>3, <4>1
        <5> QED
          BY <1>4, <4>1, <5>1, <5>2
      <4>3. Reach(work[i].at, work[l].at)
        BY <1>5, <3>3, <4>1, <4>2 DEF Searching, LeadsOn
      <4>4. Reach(work[l].at, n)
        BY <1>4, <4>1, ReachEdge
      <4> QED
        BY <1>9, <3>3, <4>3, <4>4, ReachTrans
    <3> QED
      BY <1>3, <1>8, <3>1, <3>2, <3>3
  <2> QED
    BY <2>1 DEF LeadsOn, Reach
<1>16. LowTrue'
  <2>1. ASSUME NEW i \in 1..Len(work')
        PROVE  /\ low'[work'[i].at] <= index'[work'[i].at]
               /\ \E y \in Ids(tstack)' : index'[y] = low'[work'[i].at] /\ Reach(work'[i].at, y)
    <3>1. CASE i = l + 1
      BY <1>1, <1>3, <1>9, <3>1, ReachSelf
    <3>2. CASE i \in 1..l
      <4>1. low[work[i].at] <= index[work[i].at]
        BY <3>2 DEF Searching, LowTrue
      <4>2. PICK y \in Ids(tstack) : index[y] = low[work[i].at] /\ Reach(work[i].at, y)
        BY <3>2 DEF Searching, LowTrue
      <4>3. y \in Ids(tstack)' /\ index'[y] = low'[work'[i].at] /\ Reach(work'[i].at, y)
        BY <1>3, <1>9, <1>10, <1>11, <3>2, <4>2
      <4> QED
        BY <1>11, <3>2, <4>1, <4>3
    <3> QED
      BY <1>8, <3>1, <3>2
  <2> QED
    BY <2>1 DEF LowTrue, Reach
\* A cable followed before, or the one to n; none of n has been followed.
<1>17. ASSUME NEW x \in Ids(tstack)', NEW y \in nodes, <<x, y>> \in edges,
              \A i \in 1..Len(work') : work'[i].at = x => y \notin work'[i].left
       PROVE  x \in Ids(tstack) /\ (y = n \/ Passed(x, y))
  <2>1. x # n
    BY <1>9, <1>12, <1>17, SourcesIn
  <2>2. ASSUME y # n, NEW i \in 1..Len(work), work[i].at = x PROVE y \notin work[i].left
    BY <1>9, <1>12, <1>17, <2>2
  <2> QED
    BY <1>3, <1>17, <2>1, <2>2 DEF Passed
<1>18. LowEnough'
  <2>1. ASSUME NEW i \in 1..Len(work'), NEW x \in Ids(tstack)', NEW y \in Ids(tstack)',
               index'[work'[i].at] <= index'[x], i < Len(work') => index'[x] < index'[work'[i + 1].at],
               <<x, y>> \in edges,
               \A j \in 1..Len(work') : work'[j].at = x => y \notin work'[j].left
        PROVE  low'[work'[i].at] <= index'[y]
    <3>1. y \in nodes
      BY <1>3, <1>4
    <3>2. x \in Ids(tstack) /\ (y = n \/ Passed(x, y))
      BY <1>17, <2>1, <3>1
    <3>3. i \in 1..l
      BY <1>1, <1>8, <1>9, <1>10, <2>1, <3>2
    <3>4. CASE y = n
      <4>1. low[work[i].at] <= index[work[i].at] /\ index[work[i].at] < count /\ low[work[i].at] \in Nat /\ index[work[i].at] \in Nat
        BY <1>1, <1>4, <1>5, <3>3 DEF Searching, LowTrue
      <4> QED
        BY <1>1, <1>11, <3>3, <3>4, <4>1
    <3>5. CASE y # n
      <4>1. y \in Ids(tstack) /\ Passed(x, y)
        BY <1>3, <3>2, <3>5
      <4>2. Under(i, x)
        <5>1. index[work[i].at] <= index[x]
          BY <1>10, <1>11, <2>1, <3>2, <3>3
        <5>2. ASSUME i < Len(work) PROVE index[x] < index[work[i + 1].at]
          <6>1. i + 1 \in 1..l /\ i < Len(work')
            BY <1>4, <1>7, <3>3, <5>2
          <6> QED
            BY <1>10, <1>11, <2>1, <3>2, <6>1
        <5> QED
          BY <5>1, <5>2 DEF Under
      <4>3. low[work[i].at] <= index[y]
        BY <2>1, <3>2, <3>3, <4>1, <4>2 DEF Searching, LowEnough
      <4> QED
        BY <1>10, <1>11, <3>3, <4>1, <4>3
    <3> QED
      BY <3>4, <3>5
  <2> QED
    BY <2>1 DEF LowEnough, Under, Passed
<1>19. PassedVisited'
  <2>1. ASSUME NEW x \in Ids(tstack)', NEW y \in nodes, <<x, y>> \in edges,
               \A j \in 1..Len(work') : work'[j].at = x => y \notin work'[j].left
        PROVE  y \in Visited'
    <3>1. x \in Ids(tstack) /\ (y = n \/ Passed(x, y))
      BY <1>17, <2>1
    <3> QED
      BY <1>3, <2>1, <3>1 DEF Searching, PassedVisited
  <2> QED
    BY <2>1 DEF PassedVisited, Passed
<1>20. Numbered' /\ ClosedApart' /\ LoopsFound'
  BY VisitsDone
<1> QED
  BY <1>13, <1>14, <1>15, <1>16, <1>18, <1>19, <1>20 DEF Searching

\* The stack of frames without the cable to n on top.
Looked(n) == [work EXCEPT ![Len(work)].left = @ \ {n}]

\* Taking a cable off the frame on top changes no other frame and no frame's module.
LEMMA LookedIs ==
  ASSUME Joins, Searching, work # <<>>, NEW n \in Top.left, NEW looked, looked = Looked(n)
  PROVE  /\ n \in nodes /\ Len(work) \in 1..Len(work) /\ <<work[Len(work)].at, n>> \in edges
         /\ looked \in Seq(Frames) /\ Len(looked) = Len(work)
         /\ \A i \in 1..Len(work) : looked[i].at = work[i].at /\ looked[i].left \subseteq work[i].left
         /\ \A i \in 1..Len(work) : i # Len(work) => looked[i].left = work[i].left
         /\ looked[Len(work)].left = work[Len(work)].left \ {n}
<1>1. work \in Seq(Frames) /\ Len(work) \in Nat \ {0}
  BY DEF Searching, Stacked
<1>2. Len(work) \in 1..Len(work)
  BY <1>1
<1>3. work[Len(work)] \in Frames /\ n \in work[Len(work)].left
  BY <1>1, <1>2 DEF Top
<1>4. n \in nodes /\ <<work[Len(work)].at, n>> \in edges
  BY <1>2, <1>3 DEF Searching, Stacked, Frames
<1> DEFINE f == [work[Len(work)] EXCEPT !.left = @ \ {n}]
<1>5. f \in Frames /\ f.at = work[Len(work)].at /\ f.left = work[Len(work)].left \ {n}
  BY <1>3 DEF Frames
<1>6. looked = [work EXCEPT ![Len(work)] = f]
  BY DEF Looked
<1> HIDE DEF f
<1>7. looked \in Seq(Frames) /\ Len(looked) = Len(work)
  BY <1>1, <1>2, <1>5, <1>6, ExceptSeq
<1>8. looked[Len(work)] = f /\ \A i \in 1..Len(work) : i # Len(work) => looked[i] = work[i]
  BY <1>1, <1>2, <1>6
<1> QED
  BY <1>2, <1>4, <1>5, <1>7, <1>8

\* A first visit, from no frame.
LEMMA VisitKeeps ==
  ASSUME Joins, IsFiniteSet(nodes), Searching, Visit
  PROVE  Searching'
<1>1. PICK n \in nodes : index[n] = 0 /\ Visits(n) /\ work' = <<Frame(n, Targets(n))>>
  BY DEF Visit
<1>2. work = <<>> /\ UNCHANGED <<nodes, edges, inCycle>>
  BY DEF Visit, snapshot
<1>8. <<>> \in Seq(Frames)
  OBVIOUS
<1>3. PICK s \in Seq(Frames) : s = <<>>
  BY <1>8, Zenon
<1>4. \A f : <<f>> = Append(<<>>, f)
  OBVIOUS
<1>5. work' = Append(s, Frame(n, Targets(n)))
  BY <1>1, <1>3, <1>4
<1>6. Len(work) = 0 /\ Len(s) = 0
  BY <1>2, <1>3
<1>7. /\ \A i \in 1..Len(work) : s[i].at = work[i].at /\ s[i].left \subseteq work[i].left
      /\ \A i \in 1..Len(work) : \A y \in work[i].left : y \in s[i].left \/ y = n
      /\ ~(Len(work) > 0)
  BY <1>6
<1> QED
  BY <1>1, <1>2, <1>5, <1>6, <1>7, DeeperKeeps

\* A cable to a module visited before.
LEMMA AgainKeeps ==
  ASSUME Joins, IsFiniteSet(nodes), Searching, work # <<>>, NEW n \in Top.left, index[n] # 0,
         work' = [work EXCEPT ![Len(work)].left = @ \ {n}],
         low' = IF Open(n) THEN [low EXCEPT ![Top.at] = Least(@, index[n])] ELSE low,
         UNCHANGED <<nodes, edges, index, tstack, inCycle>>
  PROVE  Searching'
<1> DEFINE l == Len(work)
           t == work[l].at
<1>1. /\ n \in nodes /\ l \in 1..l /\ <<t, n>> \in edges
      /\ work' \in Seq(Frames) /\ Len(work') = l
      /\ \A i \in 1..l : work'[i].at = work[i].at /\ work'[i].left \subseteq work[i].left
      /\ \A i \in 1..l : i # l => work'[i].left = work[i].left
      /\ work'[l].left = work[l].left \ {n}
  <2>1. work' = Looked(n)
    BY DEF Looked
  <2> QED
    BY <2>1, LookedIs
<1>2. /\ l \in Nat /\ Visited \subseteq nodes /\ Ids(tstack) \subseteq Visited /\ Ids(tstack) \subseteq nodes
      /\ \A x \in nodes : index[x] \in Nat /\ low[x] \in Nat
  BY SearchFacts
<1>3. /\ \A i \in 1..l : work[i].at \in nodes /\ work[i].at \in Ids(tstack)
      /\ \A i \in 1..l : \A j \in 1..l : work[i].at = work[j].at => i = j
  BY SearchFacts
<1>4. Ids(tstack)' = Ids(tstack) /\ Visited' = Visited
  BY DEF Ids, Visited
<1>5. Top.at = t /\ t \in nodes /\ low \in [nodes -> Nat]
  BY <1>1, <1>3 DEF Top, Searching, Numbered
<1>6. /\ \A m \in nodes : m # t => low'[m] = low[m]
      /\ low' \in [nodes -> Nat]
      /\ n \in Ids(tstack) => low'[t] <= low[t] /\ low'[t] <= index[n] /\ (low'[t] = low[t] \/ low'[t] = index[n])
      /\ n \notin Ids(tstack) => low'[t] = low[t]
  BY <1>1, <1>2, <1>5 DEF Open, Least
<1>7. low'[t] \in Nat /\ low'[t] <= low[t] /\ \A m \in nodes : low'[m] <= low[m]
  BY <1>2, <1>5, <1>6
<1>8. Numbered'
  BY <1>4, <1>6 DEF Searching, Numbered
<1>9. Frames' = Frames
  BY DEF Frames
<1>10. Stacked'
  <2>1. \A i \in 1..l : \A y \in work[i].left : <<work[i].at, y>> \in edges
    BY DEF Searching, Stacked
  <2>2. \A i \in 1..l : \A j \in 1..l : i < j => index[work[i].at] < index[work[j].at]
    BY DEF Searching, Stacked
  <2>3. \A i \in 1..l : \A y \in work'[i].left : <<work'[i].at, y>> \in edges
    BY <1>1, <2>1
  <2>4. \A i \in 1..l : \A j \in 1..l : i < j => index[work'[i].at] < index[work'[j].at]
    BY <1>1, <2>2
  <2>5. \A i \in 1..l : work'[i].at \in Ids(tstack)
    BY <1>1, <1>3
  <2>6. /\ tstack \in Seq(nodes)
        /\ \A i \in 1..Len(tstack) : tstack[i] \in Visited
        /\ \A i \in 1..Len(tstack) : \A j \in 1..Len(tstack) : i < j => index[tstack[i]] < index[tstack[j]]
    BY DEF Searching, Stacked
  <2> QED
    BY <1>1, <1>4, <1>9, <2>3, <2>4, <2>5, <2>6 DEF Stacked, Open
<1>11. ClosedApart'
  BY <1>4 DEF Searching, ClosedApart, Shut, Open
<1>12. LeadsBack'
  <2>1. ASSUME NEW x \in Ids(tstack)
        PROVE  \E i \in 1..l : index[work'[i].at] <= index[x] /\ Reach(x, work'[i].at)
    <3>1. PICK i \in 1..l : index[work[i].at] <= index[x] /\ Reach(x, work[i].at)
      BY DEF Searching, LeadsBack
    <3> QED
      BY <1>1, <3>1
  <2> QED
    BY <1>1, <1>4, <2>1 DEF LeadsBack, Reach
<1>13. LeadsOn'
  <2>1. ASSUME NEW i \in 1..l, NEW x \in Ids(tstack), index[work'[i].at] <= index[x]
        PROVE  Reach(work'[i].at, x)
    BY <1>1, <2>1 DEF Searching, LeadsOn
  <2> QED
    BY <1>1, <1>4, <2>1 DEF LeadsOn, Reach
<1>14. LowTrue'
  <2>1. ASSUME NEW i \in 1..l
        PROVE  /\ low'[work'[i].at] <= index[work'[i].at]
               /\ \E y \in Ids(tstack) : index[y] = low'[work'[i].at] /\ Reach(work'[i].at, y)
    <3>1. low[work[i].at] <= index[work[i].at] /\ work[i].at \in nodes /\ work'[i].at = work[i].at
      BY <1>1, <1>3 DEF Searching, LowTrue
    <3>2. PICK y \in Ids(tstack) : index[y] = low[work[i].at] /\ Reach(work[i].at, y)
      BY DEF Searching, LowTrue
    <3>3. low'[work[i].at] <= index[work[i].at]
      BY <1>2, <1>6, <1>7, <3>1
    <3>4. CASE low'[work[i].at] = low[work[i].at]
      BY <3>1, <3>2, <3>3, <3>4
    <3>5. CASE low'[work[i].at] # low[work[i].at]
      <4>1. work[i].at = t /\ n \in Ids(tstack) /\ low'[t] = index[n]
        BY <1>6, <3>1, <3>5
      <4>2. Reach(t, n)
        BY <1>1, ReachEdge
      <4> QED
        BY <3>1, <3>3, <4>1, <4>2
    <3> QED
      BY <3>4, <3>5
  <2> QED
    BY <1>1, <1>4, <2>1 DEF LowTrue, Reach
<1>15. ASSUME NEW x, NEW y, \A i \in 1..l : work'[i].at = x => y \notin work'[i].left
       PROVE  Passed(x, y) \/ (x = t /\ y = n)
  <2>1. SUFFICES ASSUME NEW i \in 1..l, work[i].at = x, y \in work[i].left PROVE x = t /\ y = n
    BY DEF Passed
  <2>2. y \notin work'[i].left
    BY <1>1, <1>15, <2>1
  <2> QED
    BY <1>1, <2>1, <2>2
<1>16. LowEnough'
  <2>1. ASSUME NEW i \in 1..l, NEW x \in Ids(tstack), NEW y \in Ids(tstack),
               index[work'[i].at] <= index[x], i < l => index[x] < index[work'[i + 1].at],
               <<x, y>> \in edges, \A j \in 1..l : work'[j].at = x => y \notin work'[j].left
        PROVE  low'[work'[i].at] <= index[y]
    <3>1. Under(i, x)
      <4>1. index[work[i].at] <= index[x]
        BY <1>1, <2>1
      <4>2. ASSUME i < l PROVE index[x] < index[work[i + 1].at]
        <5>1. i + 1 \in 1..l
          BY <1>2, <4>2
        <5> QED
          BY <1>1, <2>1, <4>2, <5>1
      <4> QED
        BY <4>1, <4>2 DEF Under
    <3>2. CASE Passed(x, y)
      <4>1. low[work[i].at] <= index[y]
        BY <2>1, <3>1, <3>2 DEF Searching, LowEnough
      <4>2. /\ low'[work[i].at] <= low[work[i].at] /\ work'[i].at = work[i].at /\ work[i].at \in nodes /\ y \in nodes
        BY <1>1, <1>2, <1>3, <1>7
      <4>3. low'[work[i].at] \in Nat /\ low[work[i].at] \in Nat /\ index[y] \in Nat
        BY <1>2, <1>6, <4>2
      <4> QED
        BY <4>1, <4>2, <4>3
    <3>3. CASE x = t /\ y = n
      <4>1. i = l
        <5>1. i < l => index[t] < index[work[i + 1].at] /\ i + 1 \in 1..l
          BY <1>2, <3>1, <3>3 DEF Under
        <5>2. i < l => index[work[i + 1].at] <= index[t]
          <6>1. SUFFICES ASSUME i < l, i + 1 # l PROVE index[work[i + 1].at] <= index[t]
            BY <1>1, <1>2, <1>3
          <6>2. i + 1 \in 1..l /\ i + 1 < l
            BY <1>2, <6>1
          <6>3. index[work[i + 1].at] < index[work[l].at]
            BY <1>1, <6>2 DEF Searching, Stacked
          <6> QED
            BY <1>1, <1>2, <1>3, <6>2, <6>3
        <5> QED
          BY <1>1, <1>2, <1>3, <5>1, <5>2
      <4>2. work'[i].at = t
        BY <1>1, <4>1
      <4>3. low'[t] <= index[n]
        BY <1>6, <2>1, <3>3
      <4> QED
        BY <3>3, <4>2, <4>3
    <3> QED
      BY <1>15, <2>1, <3>2, <3>3
  <2>2. Len(work') = l /\ edges' = edges /\ index' = index
    BY <1>1
  <2> QED
    BY <1>4, <2>1, <2>2 DEF LowEnough, Under, Passed
<1>17. PassedVisited'
  <2>1. ASSUME NEW x \in Ids(tstack), NEW y \in nodes, <<x, y>> \in edges,
               \A j \in 1..l : work'[j].at = x => y \notin work'[j].left
        PROVE  y \in Visited
    BY <1>1, <1>15, <2>1 DEF Searching, PassedVisited, Visited
  <2> QED
    BY <1>1, <1>4, <2>1 DEF PassedVisited, Passed
<1>18. LoopsFound'
  BY <1>4 DEF Searching, LoopsFound, Shut, Open, Looped, Reach
<1> QED
  BY <1>8, <1>10, <1>11, <1>12, <1>13, <1>14, <1>16, <1>17, <1>18 DEF Searching

\* One cable of the frame on top is followed.
LEMMA FollowKeeps ==
  ASSUME Joins, IsFiniteSet(nodes), Searching, Follow
  PROVE  Searching'
<1>1. work # <<>> /\ UNCHANGED <<nodes, edges, inCycle>>
  BY DEF Follow, snapshot
<1>2. PICK n \in Top.left :
        IF index[n] = 0
        THEN Visits(n) /\ work' = Append(Looked(n), Frame(n, Targets(n)))
        ELSE /\ work' = Looked(n)
             /\ low' = IF Open(n) THEN [low EXCEPT ![Top.at] = Least(@, index[n])] ELSE low
             /\ UNCHANGED <<index, tstack>>
  BY DEF Follow, Looked
<1>3. CASE index[n] = 0
  <2>1. PICK s : s = Looked(n)
    OBVIOUS
  <2>2. /\ n \in nodes /\ Len(work) \in 1..Len(work) /\ <<work[Len(work)].at, n>> \in edges
        /\ s \in Seq(Frames) /\ Len(s) = Len(work)
        /\ \A i \in 1..Len(work) : s[i].at = work[i].at /\ s[i].left \subseteq work[i].left
        /\ \A i \in 1..Len(work) : i # Len(work) => s[i].left = work[i].left
        /\ s[Len(work)].left = work[Len(work)].left \ {n}
    BY <1>1, <2>1, LookedIs
  <2>3. Visits(n) /\ work' = Append(s, Frame(n, Targets(n)))
    BY <1>2, <1>3, <2>1
  <2>4. \A i \in 1..Len(work) : \A y \in work[i].left : y \in s[i].left \/ y = n
    BY <2>2
  <2> QED
    BY <1>1, <1>3, <2>2, <2>3, <2>4, DeeperKeeps
<1>4. CASE index[n] # 0
  BY <1>1, <1>2, <1>4, AgainKeeps DEF Looked
<1> QED
  BY <1>3, <1>4

\* A stack without its top.
LEMMA FrontIs ==
  ASSUME NEW S, NEW s \in Seq(S), Len(s) \in Nat \ {0}
  PROVE  /\ SubSeq(s, 1, Len(s) - 1) \in Seq(S) /\ Len(SubSeq(s, 1, Len(s) - 1)) = Len(s) - 1
         /\ \A i \in 1..Len(s) - 1 : SubSeq(s, 1, Len(s) - 1)[i] = s[i]
<1> DEFINE m == Len(s) - 1
<1>1. m \in Nat /\ \A i \in 1..m : s[i] \in S
  OBVIOUS
<1> HIDE DEF m
<1>2. /\ SubSeq(s, 1, m) \in Seq(S)
      /\ Len(SubSeq(s, 1, m)) = IF 1 <= m THEN m - 1 + 1 ELSE 0
      /\ \A i \in 1..m - 1 + 1 : SubSeq(s, 1, m)[i] = s[1 + i - 1]
  BY <1>1, SubSeqProperties
<1>3. m - 1 + 1 = m /\ Len(SubSeq(s, 1, m)) = m /\ \A i \in 1..m : 1 + i - 1 = i
  BY <1>1, <1>2
<1>4. \A i \in 1..m : SubSeq(s, 1, m)[i] = s[i]
  BY <1>2, <1>3
<1> QED
  BY <1>2, <1>3, <1>4 DEF m

\* The frames below the one on top.
LEMMA PoppedIs ==
  ASSUME Joins, Searching, work # <<>>
  PROVE  /\ Len(work) \in 1..Len(work) /\ Len(work) \in Nat \ {0}
         /\ Popped \in Seq(Frames) /\ Len(Popped) = Len(work) - 1
         /\ \A i \in 1..Len(work) - 1 : i \in 1..Len(work) /\ i + 1 \in 1..Len(work) /\ Popped[i] = work[i]
         /\ \A i \in 1..Len(work) : i \in 1..Len(work) - 1 \/ i = Len(work)
         /\ \A i \in 1..Len(work) - 1 : index[work[i].at] < index[work[Len(work)].at]
<1>1. work \in Seq(Frames) /\ Len(work) \in Nat \ {0}
  BY DEF Searching, Stacked
<1>2. Popped \in Seq(Frames) /\ Len(Popped) = Len(work) - 1 /\ \A i \in 1..Len(work) - 1 : Popped[i] = work[i]
  BY <1>1, FrontIs DEF Popped
<1>3. \A i \in 1..Len(work) - 1 : i \in 1..Len(work) /\ Len(work) \in 1..Len(work) /\ i < Len(work)
  BY <1>1
<1>4. \A i \in 1..Len(work) - 1 : index[work[i].at] < index[work[Len(work)].at]
  BY <1>3 DEF Searching, Stacked
<1> QED
  BY <1>1, <1>2, <1>4

\* The component of an open module: what was visited from it on, the top of the stack.
LEMMA ComponentIs ==
  ASSUME Joins, Searching, NEW n \in Ids(tstack)
  PROVE  /\ Len(Component(n)) \in Nat \ {0}
         /\ Ids(Component(n)) = {x \in Ids(tstack) : index[n] <= index[x]}
         /\ Len(Component(n)) > 1 => \E x \in Ids(tstack) : index[n] < index[x]
         /\ (\E x \in Ids(tstack) : index[n] < index[x]) => Len(Component(n)) > 1
         /\ SubSeq(tstack, 1, Len(tstack) - Len(Component(n))) \in Seq(nodes)
         /\ Len(SubSeq(tstack, 1, Len(tstack) - Len(Component(n)))) <= Len(tstack)
         /\ \A i \in 1..Len(SubSeq(tstack, 1, Len(tstack) - Len(Component(n)))) :
              SubSeq(tstack, 1, Len(tstack) - Len(Component(n)))[i] = tstack[i]
         /\ Ids(SubSeq(tstack, 1, Len(tstack) - Len(Component(n)))) = {x \in Ids(tstack) : index[x] < index[n]}
<1> DEFINE from == CHOOSE i \in DOMAIN tstack : tstack[i] = n
           c == Component(n)
           kept == SubSeq(tstack, 1, Len(tstack) - Len(c))
<1>1. tstack \in Seq(nodes) /\ Len(tstack) \in Nat /\ DOMAIN tstack = 1..Len(tstack)
  BY DEF Searching, Stacked
<1>2. from \in 1..Len(tstack) /\ tstack[from] = n
  BY <1>1 DEF Ids
<1>3. c = SubSeq(tstack, from, Len(tstack))
  BY DEF Component
<1> HIDE DEF from, c
<1>4. Len(c) = Len(tstack) - from + 1 /\ \A i \in 1..Len(c) : c[i] = tstack[from + i - 1]
  BY <1>1, <1>2, <1>3
<1>5. DOMAIN c = 1..Len(c)
  BY <1>1, <1>2, <1>3
<1>6. kept = SubSeq(tstack, 1, from - 1)
  BY <1>1, <1>2, <1>4
<1>7. kept \in Seq(nodes) /\ Len(kept) = from - 1 /\ \A i \in 1..from - 1 : kept[i] = tstack[i]
  BY <1>1, <1>2, <1>6
<1> HIDE DEF kept
<1>8. /\ \A i \in 1..Len(tstack) : tstack[i] \in Visited
      /\ \A i \in 1..Len(tstack) : \A j \in 1..Len(tstack) : i < j => index[tstack[i]] < index[tstack[j]]
  BY DEF Searching, Stacked
<1>9. \A x \in Ids(tstack) : x \in nodes /\ index[x] \in Nat
  BY SearchFacts
<1>10. \A i \in 1..Len(tstack) : tstack[i] \in Ids(tstack)
  BY <1>1 DEF Ids
<1>16. from \in Nat /\ index[n] \in Nat /\ \A i \in 1..Len(tstack) : i \in Nat /\ index[tstack[i]] \in Nat
  BY <1>1, <1>2, <1>9, <1>10
<1>11. /\ \A i \in 1..Len(tstack) : i < from => index[tstack[i]] < index[n]
       /\ \A i \in 1..Len(tstack) : from < i => index[n] < index[tstack[i]]
       /\ \A i \in 1..Len(tstack) : from <= i => index[n] <= index[tstack[i]]
       /\ \A i \in 1..Len(tstack) : index[n] <= index[tstack[i]] => from <= i
       /\ \A i \in 1..Len(tstack) : index[n] < index[tstack[i]] => from < i
       /\ \A i \in 1..Len(tstack) : index[tstack[i]] < index[n] => i < from
  <2>1. \A i \in 1..Len(tstack) : i < from => index[tstack[i]] < index[n]
    BY <1>2, <1>8
  <2>2. \A i \in 1..Len(tstack) : from < i => index[n] < index[tstack[i]]
    BY <1>2, <1>8
  <2>3. \A i \in 1..Len(tstack) : i < from \/ i = from \/ from < i
    BY <1>16
  <2> QED
    BY <1>2, <1>16, <2>1, <2>2, <2>3
<1>12. \A x : x \in Ids(tstack) <=> \E i \in 1..Len(tstack) : tstack[i] = x
  BY <1>1 DEF Ids
<1>13. Ids(c) = {x \in Ids(tstack) : index[n] <= index[x]}
  <2>1. ASSUME NEW x \in Ids(c) PROVE x \in Ids(tstack) /\ index[n] <= index[x]
    <3>1. PICK i \in 1..Len(c) : c[i] = x
      BY <1>5 DEF Ids
    <3>2. from + i - 1 \in 1..Len(tstack) /\ from + i - 1 >= from /\ tstack[from + i - 1] = x
      BY <1>1, <1>2, <1>4, <3>1
    <3> QED
      BY <1>10, <1>11, <3>2
  <2>2. ASSUME NEW x \in Ids(tstack), index[n] <= index[x] PROVE x \in Ids(c)
    <3>1. PICK i \in 1..Len(tstack) : tstack[i] = x
      BY <1>12
    <3>2. i >= from
      BY <1>11, <1>16, <2>2, <3>1
    <3>3. i - from + 1 \in 1..Len(c) /\ c[i - from + 1] = x
      <4>1. i - from + 1 \in 1..Len(c)
        BY <1>1, <1>2, <1>4, <3>2
      <4>2. from + (i - from + 1) - 1 = i
        BY <1>1, <1>16
      <4>3. c[i - from + 1] = tstack[from + (i - from + 1) - 1]
        BY <1>4, <4>1
      <4> QED
        BY <3>1, <4>1, <4>2, <4>3
    <3> QED
      BY <1>5, <3>3 DEF Ids
  <2> QED
    BY <2>1, <2>2
<1>14. Ids(kept) = {x \in Ids(tstack) : index[x] < index[n]}
  <2>1. \A x : x \in Ids(kept) <=> \E i \in 1..from - 1 : kept[i] = x
    BY <1>7 DEF Ids
  <2>2. \A i : i \in 1..from - 1 <=> i \in 1..Len(tstack) /\ i < from
    BY <1>1, <1>2
  <2> QED
    <3>1. ASSUME NEW x \in Ids(kept) PROVE x \in Ids(tstack) /\ index[x] < index[n]
      BY <1>7, <1>10, <1>11, <2>1, <2>2
    <3>2. ASSUME NEW x \in Ids(tstack), index[x] < index[n] PROVE x \in Ids(kept)
      BY <1>7, <1>11, <1>12, <2>1, <2>2, <3>2
    <3> QED
      BY <3>1, <3>2
<1>15. Len(c) > 1 <=> \E x \in Ids(tstack) : index[n] < index[x]
  <2>1. ASSUME Len(c) > 1 PROVE \E x \in Ids(tstack) : index[n] < index[x]
    <3>1. from + 1 \in 1..Len(tstack) /\ from < from + 1
      BY <1>1, <1>2, <1>4, <2>1
    <3> QED
      BY <1>10, <1>11, <3>1
  <2>2. ASSUME NEW x \in Ids(tstack), index[n] < index[x] PROVE Len(c) > 1
    <3>1. PICK i \in 1..Len(tstack) : tstack[i] = x
      BY <1>12
    <3>2. from < i
      BY <1>11, <2>2, <3>1
    <3> QED
      BY <1>1, <1>2, <1>4, <3>2
  <2> QED
    BY <2>1, <2>2
<1> QED
  BY <1>1, <1>2, <1>4, <1>7, <1>13, <1>14, <1>15 DEF kept, c

\* With its first module on top and no cable left to follow: the component's modules
\* lead to each other, and their cables nowhere else but to closed ones.
LEMMA ComponentApart ==
  ASSUME Joins, Searching, work # <<>>, work[Len(work)].left = {}, NEW n, n = work[Len(work)].at
  PROVE  /\ n \in Ids(tstack)
         /\ \A x \in Ids(tstack) : index[n] <= index[x] => Under(Len(work), x) /\ Reach(n, x) /\ Reach(x, n)
         /\ \A x \in Ids(tstack) : \A y : index[n] <= index[x] => Passed(x, y)
         /\ \A x \in Ids(tstack) : \A y \in nodes : index[n] <= index[x] /\ <<x, y>> \in edges =>
              Shut(y) \/ (y \in Ids(tstack) /\ low[n] <= index[y])
<1> DEFINE l == Len(work)
<1>1. l \in 1..l /\ l \in Nat \ {0} /\ \A i \in 1..l : i \in 1..l - 1 \/ i = l
  BY PoppedIs
<1>2. \A i \in 1..l - 1 : i \in 1..l /\ index[work[i].at] < index[n]
  BY PoppedIs
<1>3. \A i \in 1..l : work[i].at \in nodes /\ work[i].at \in Ids(tstack)
  BY SearchFacts
<1>4. Ids(tstack) \subseteq Visited /\ Visited \subseteq nodes /\ \A x \in nodes : index[x] \in Nat /\ low[x] \in Nat
  BY SearchFacts
<1>5. n \in Ids(tstack) /\ n \in nodes
  BY <1>1, <1>3
<1>6. ASSUME NEW x \in Ids(tstack), index[n] <= index[x] PROVE Under(l, x) /\ Reach(n, x) /\ Reach(x, n)
  <2>1. Under(l, x)
    BY <1>1, <1>6 DEF Under
  <2>2. Reach(n, x)
    BY <1>1, <1>6 DEF Searching, LeadsOn
  <2>3. PICK i \in 1..l : index[work[i].at] <= index[x] /\ Reach(x, work[i].at)
    BY DEF Searching, LeadsBack
  <2>4. index[work[i].at] <= index[n]
    BY <1>1, <1>2, <1>3, <1>4
  <2>5. Reach(work[i].at, n)
    BY <1>5, <2>4 DEF Searching, LeadsOn
  <2> QED
    BY <1>5, <2>1, <2>2, <2>3, <2>5, ReachTrans
<1>7. ASSUME NEW x \in Ids(tstack), NEW y, index[n] <= index[x] PROVE Passed(x, y)
  <2>1. SUFFICES ASSUME NEW i \in 1..l, work[i].at = x PROVE y \notin work[i].left
    BY DEF Passed
  <2>2. i = l
    BY <1>1, <1>2, <1>3, <1>4, <1>5, <1>7, <2>1
  <2> QED
    BY <2>2
<1>8. ASSUME NEW x \in Ids(tstack), NEW y \in nodes, index[n] <= index[x], <<x, y>> \in edges
      PROVE  Shut(y) \/ (y \in Ids(tstack) /\ low[n] <= index[y])
  <2>1. Passed(x, y) /\ Under(l, x)
    BY <1>6, <1>7, <1>8
  <2>2. y \in Visited
    BY <1>8, <2>1 DEF Searching, PassedVisited
  <2>3. y \in Ids(tstack) => low[n] <= index[y]
    BY <1>1, <1>8, <2>1 DEF Searching, LowEnough
  <2> QED
    BY <2>2, <2>3 DEF Shut, Open
<1> QED
  BY <1>5, <1>6, <1>7, <1>8

\* The last module of a component is left: the component is closed.
LEMMA CloseFirst ==
  ASSUME Joins, IsFiniteSet(nodes), Searching, Close, low[Top.at] = index[Top.at]
  PROVE  Searching'
<1> DEFINE l == Len(work)
           n == Top.at
           c == Component(n)
           p == work[l - 1].at
<1>1. /\ work # <<>> /\ Top.left = {} /\ work' = Popped /\ UNCHANGED <<nodes, edges, index>>
      /\ tstack' = SubSeq(tstack, 1, Len(tstack) - Len(c))
      /\ inCycle' = IF Len(c) > 1 THEN inCycle \cup Ids(c) ELSE inCycle
      /\ low' = IF l > 1 THEN [low EXCEPT ![p] = Least(@, low[n])] ELSE low
  BY DEF Close, snapshot
<1>2. /\ l \in 1..l /\ l \in Nat \ {0}
      /\ work' \in Seq(Frames) /\ Len(work') = l - 1
      /\ \A i \in 1..l - 1 : i \in 1..l /\ i + 1 \in 1..l /\ work'[i] = work[i]
      /\ \A i \in 1..l : i \in 1..l - 1 \/ i = l
      /\ \A i \in 1..l - 1 : index[work[i].at] < index[n]
  BY <1>1, PoppedIs DEF Top
<1>3. work[l].left = {} /\ n = work[l].at
  BY <1>1 DEF Top
<1> HIDE DEF n
<1>4. /\ n \in Ids(tstack)
      /\ \A x \in Ids(tstack) : index[n] <= index[x] => Reach(n, x) /\ Reach(x, n)
      /\ \A x \in Ids(tstack) : \A y \in nodes : index[n] <= index[x] /\ <<x, y>> \in edges =>
           Shut(y) \/ (y \in Ids(tstack) /\ low[n] <= index[y])
  BY <1>1, <1>3, ComponentApart
<1>5. /\ Len(c) \in Nat \ {0}
      /\ Ids(c) = {x \in Ids(tstack) : index[n] <= index[x]}
      /\ Len(c) > 1 => \E x \in Ids(tstack) : index[n] < index[x]
      /\ (\E x \in Ids(tstack) : index[n] < index[x]) => Len(c) > 1
  BY <1>4, ComponentIs
<1>6. /\ tstack' \in Seq(nodes) /\ Len(tstack') <= Len(tstack)
      /\ \A i \in 1..Len(tstack') : tstack'[i] = tstack[i]
      /\ Ids(tstack') = {x \in Ids(tstack) : index[x] < index[n]}
  BY <1>1, <1>4, ComponentIs
<1> HIDE DEF c
<1>7. /\ Len(tstack) \in Nat /\ Ids(tstack) \subseteq Visited /\ Visited \subseteq nodes
      /\ \A x \in nodes : index[x] \in Nat /\ low[x] \in Nat
      /\ \A i \in 1..l : work[i].at \in nodes /\ work[i].at \in Ids(tstack)
      /\ \A x \in Visited : \A y \in Visited : index[x] = index[y] => x = y
  BY SearchFacts
<1>8. n \in nodes /\ index[n] \in Nat /\ Ids(tstack)' = Ids(tstack') /\ Visited' = Visited
  BY <1>1, <1>4, <1>7 DEF Ids, Visited
<1>9. \A x \in Ids(tstack) : x \in Ids(tstack)' \/ x \in Ids(c)
  BY <1>5, <1>6, <1>7, <1>8
<1>10. \A x \in Ids(tstack)' : x \in Ids(tstack) /\ x # n /\ index[x] < index[n] /\ x \notin Ids(c)
  BY <1>5, <1>6, <1>7, <1>8
<1>11. low' = low
  <2>1. CASE l > 1
    <3>1. l - 1 \in 1..l - 1 /\ l - 1 \in 1..l
      BY <1>2, <2>1
    <3>2. low[p] <= index[p] /\ index[p] < index[n] /\ p \in nodes
      BY <1>2, <1>7, <3>1 DEF Searching, LowTrue
    <3>3. low[p] < low[n]
      BY <1>7, <1>8, <3>2 DEF n
    <3>4. Least(low[p], low[n]) = low[p]
      BY <3>3 DEF Least
    <3>5. low \in [nodes -> Nat]
      BY DEF Searching, Numbered
    <3> QED
      BY <1>1, <2>1, <3>2, <3>4, <3>5 DEF n
  <2>2. CASE ~(l > 1)
    BY <1>1, <2>2
  <2> QED
    BY <2>1, <2>2
<1>12. Numbered'
  BY <1>1, <1>8, <1>11 DEF Searching, Numbered
<1>13. Frames' = Frames
  BY <1>1 DEF Frames
<1>14. \A i \in 1..l - 1 : work[i].at \in Ids(tstack)'
  BY <1>2, <1>6, <1>7, <1>8
<1>15. Stacked'
  <2>1. \A i \in 1..Len(tstack') : i \in 1..Len(tstack)
    BY <1>6, <1>7
  <2>2. /\ \A i \in 1..Len(tstack) : tstack[i] \in Visited
        /\ \A i \in 1..Len(tstack) : \A j \in 1..Len(tstack) : i < j => index[tstack[i]] < index[tstack[j]]
        /\ \A i \in 1..l : \A y \in work[i].left : <<work[i].at, y>> \in edges
        /\ \A i \in 1..l : \A j \in 1..l : i < j => index[work[i].at] < index[work[j].at]
    BY DEF Searching, Stacked
  <2>3. /\ \A i \in 1..Len(tstack') : tstack'[i] \in Visited
        /\ \A i \in 1..Len(tstack') : \A j \in 1..Len(tstack') : i < j => index[tstack'[i]] < index[tstack'[j]]
    BY <1>6, <2>1, <2>2
  <2>4. /\ \A i \in 1..l - 1 : \A y \in work'[i].left : <<work'[i].at, y>> \in edges
        /\ \A i \in 1..l - 1 : \A j \in 1..l - 1 : i < j => index[work'[i].at] < index[work'[j].at]
    BY <1>2, <2>2
  <2>5. tstack' \in Seq(nodes) /\ work' \in Seq(Frames) /\ Len(work') = l - 1
    BY <1>2, <1>6
  <2>6. \A i \in 1..l - 1 : work'[i].at \in Ids(tstack)'
    BY <1>2, <1>14
  <2> QED
    BY <1>1, <1>8, <1>13, <2>3, <2>4, <2>5, <2>6 DEF Stacked, Open
<1>16. \A x \in nodes : Shut(x)' <=> Shut(x) \/ x \in Ids(c)
  BY <1>1, <1>5, <1>7, <1>8, <1>9, <1>10 DEF Shut, Open
<1>17. ASSUME NEW x \in Ids(c), NEW y \in nodes, <<x, y>> \in edges PROVE Shut(y) \/ y \in Ids(c)
  <2>1. x \in Ids(tstack) /\ index[n] <= index[x]
    BY <1>5
  <2> QED
    BY <1>4, <1>5, <1>17, <2>1 DEF n
<1>18. ClosedApart'
  <2>1. \A e \in edges : e[1] \in nodes /\ e[2] \in nodes /\ e = <<e[1], e[2]>>
    BY EdgeEnds
  <2>2. \A e \in edges : Shut(e[1]) => Shut(e[2])
    BY DEF Searching, ClosedApart
  <2>3. \A e \in edges : Shut(e[1])' => Shut(e[2])'
    BY <1>16, <1>17, <2>1, <2>2
  <2> QED
    BY <1>1, <2>3 DEF ClosedApart, Shut, Open
<1>19. LeadsBack'
  <2>1. ASSUME NEW x \in Ids(tstack)'
        PROVE  \E i \in 1..l - 1 : index[work'[i].at] <= index[x] /\ Reach(x, work'[i].at)
    <3>1. x \in Ids(tstack) /\ index[x] < index[n]
      BY <1>10
    <3>2. PICK i \in 1..l : index[work[i].at] <= index[x] /\ Reach(x, work[i].at)
      BY <3>1 DEF Searching, LeadsBack
    <3>3. i # l
      BY <1>3, <1>7, <1>8, <3>1, <3>2
    <3> QED
      BY <1>2, <3>2, <3>3
  <2> QED
    BY <1>1, <1>2, <2>1 DEF LeadsBack, Reach
<1>20. LeadsOn'
  <2>1. ASSUME NEW i \in 1..l - 1, NEW x \in Ids(tstack)', index[work'[i].at] <= index[x]
        PROVE  Reach(work'[i].at, x)
    BY <1>2, <1>10, <2>1 DEF Searching, LeadsOn
  <2> QED
    BY <1>1, <1>2, <2>1 DEF LeadsOn, Reach
<1>21. LowTrue'
  <2>1. ASSUME NEW i \in 1..l - 1
        PROVE  /\ low[work'[i].at] <= index[work'[i].at]
               /\ \E y \in Ids(tstack)' : index[y] = low[work'[i].at] /\ Reach(work'[i].at, y)
    <3>1. low[work[i].at] <= index[work[i].at] /\ work[i].at \in nodes /\ work'[i].at = work[i].at
          /\ index[work[i].at] < index[n]
      BY <1>2, <1>7 DEF Searching, LowTrue
    <3>2. PICK y \in Ids(tstack) : index[y] = low[work[i].at] /\ Reach(work[i].at, y)
      BY <1>2 DEF Searching, LowTrue
    <3>3. index[y] < index[n]
      BY <1>7, <1>8, <3>1, <3>2
    <3> QED
      BY <1>6, <1>8, <3>1, <3>2, <3>3
  <2> QED
    BY <1>1, <1>2, <1>11, <2>1 DEF LowTrue, Reach
<1>22. ASSUME NEW x \in Ids(tstack)', NEW y, \A i \in 1..l - 1 : work'[i].at = x => y \notin work'[i].left
       PROVE  Passed(x, y)
  BY <1>2, <1>3, <1>22 DEF Passed
<1>23. LowEnough'
  <2>1. ASSUME NEW i \in 1..l - 1, NEW x \in Ids(tstack)', NEW y \in Ids(tstack)',
               index[work'[i].at] <= index[x], i < l - 1 => index[x] < index[work'[i + 1].at],
               <<x, y>> \in edges, \A j \in 1..l - 1 : work'[j].at = x => y \notin work'[j].left
        PROVE  low[work'[i].at] <= index[y]
    <3>1. Passed(x, y) /\ x \in Ids(tstack) /\ y \in Ids(tstack) /\ index[x] < index[n]
      BY <1>10, <1>22, <2>1
    <3>2. Under(i, x)
      <4>1. index[work[i].at] <= index[x]
        BY <1>2, <2>1
      <4>2. CASE i < l - 1
        <5>1. i + 1 \in 1..l - 1
          BY <1>2, <4>2
        <5> QED
          BY <1>2, <2>1, <4>1, <4>2, <5>1 DEF Under
      <4>3. CASE ~(i < l - 1)
        <5>1. i + 1 = l
          BY <1>2, <4>3
        <5> QED
          BY <1>3, <3>1, <4>1, <5>1 DEF Under
      <4> QED
        BY <4>2, <4>3
    <3> QED
      BY <1>2, <2>1, <3>1, <3>2 DEF Searching, LowEnough
  <2>2. \A i \in 1..Len(work') : \A x \in Ids(tstack)' : \A y \in Ids(tstack)' :
          /\ index'[work'[i].at] <= index'[x] /\ (i < Len(work') => index'[x] < index'[work'[i + 1].at])
          /\ <<x, y>> \in edges' /\ (\A j \in 1..Len(work') : work'[j].at = x => y \notin work'[j].left)
          => low'[work'[i].at] <= index'[y]
    <3> SUFFICES ASSUME NEW i \in 1..Len(work'), NEW x \in Ids(tstack)', NEW y \in Ids(tstack)',
                        index'[work'[i].at] <= index'[x], i < Len(work') => index'[x] < index'[work'[i + 1].at],
                        <<x, y>> \in edges', \A j \in 1..Len(work') : work'[j].at = x => y \notin work'[j].left
                 PROVE  low'[work'[i].at] <= index'[y]
      OBVIOUS
    <3>1. i \in 1..l - 1 /\ index[work'[i].at] <= index[x] /\ (i < l - 1 => index[x] < index[work'[i + 1].at])
          /\ <<x, y>> \in edges
      BY <1>1, <1>2
    <3>2. \A j \in 1..l - 1 : work'[j].at = x => y \notin work'[j].left
      BY <1>2
    <3>3. low[work'[i].at] <= index[y]
      BY <2>1, <3>1, <3>2
    <3> QED
      BY <1>1, <1>11, <3>3
  <2> QED
    BY <2>2 DEF LowEnough, Under, Passed
<1>24. PassedVisited'
  <2>1. ASSUME NEW x \in Ids(tstack)', NEW y \in nodes, <<x, y>> \in edges,
               \A j \in 1..l - 1 : work'[j].at = x => y \notin work'[j].left
        PROVE  y \in Visited
    BY <1>10, <1>22, <2>1 DEF Searching, PassedVisited
  <2> QED
    BY <1>1, <1>2, <1>8, <2>1 DEF PassedVisited, Passed
\* A component of several modules is a loop; one alone is on a loop only if it feeds itself.
<1>25. ASSUME NEW x \in Ids(c), Len(c) > 1 PROVE Looped(x)
  <2>1. x \in Ids(tstack) /\ x \in nodes /\ index[n] <= index[x] /\ Reach(n, x) /\ Reach(x, n)
    BY <1>4, <1>5, <1>7
  <2>2. CASE x # n
    BY <1>8, <2>1, <2>2, LoopedBoth
  <2>3. CASE x = n
    <3>1. PICK y \in Ids(tstack) : index[n] < index[y]
      BY <1>5, <1>25
    <3>2. y # n /\ y \in nodes /\ Reach(n, y) /\ Reach(y, n)
      BY <1>4, <1>7, <1>8, <3>1
    <3> QED
      BY <1>8, <2>3, <3>2, LoopedBoth
  <2> QED
    BY <2>2, <2>3
<1>26. ASSUME NEW x \in Ids(c), ~(Len(c) > 1), Looped(x) PROVE x \in Loops(edges)
  <2>1. Ids(c) = {n} /\ x = n
    BY <1>4, <1>5, <1>7, <1>8, <1>26
  <2> DEFINE T == {y \in nodes : Shut(y)}
  <2>2. n \notin T
    BY <1>4 DEF Shut, Open
  <2>3. \A e \in edges : e[1] \in T => e[2] \in T
    BY EdgeEnds DEF Searching, ClosedApart
  <2>4. \A y \in Targets(n) : y = n \/ y \in T
    BY <1>17, <2>1, SourcesIn
  <2> HIDE DEF T
  <2> QED
    BY <1>8, <1>26, <2>1, <2>2, <2>3, <2>4, NotLooped
<1>27. LoopsFound'
  <2>1. /\ Loops(edges) \subseteq inCycle
        /\ \A x \in inCycle : x \in nodes /\ Looped(x)
        /\ \A x \in nodes : Shut(x) /\ Looped(x) => x \in inCycle
    BY DEF Searching, LoopsFound
  <2>2. Loops(edges) \subseteq inCycle'
    BY <1>1, <2>1
  <2>3. ASSUME NEW x \in inCycle' PROVE x \in nodes /\ Looped(x)
    <3>1. x \in inCycle \/ (Len(c) > 1 /\ x \in Ids(c))
      BY <1>1, <2>3
    <3> QED
      BY <1>5, <1>7, <1>25, <2>1, <3>1
  <2>4. ASSUME NEW x \in nodes, Shut(x)', Looped(x) PROVE x \in inCycle'
    <3>1. CASE Shut(x)
      BY <1>1, <2>1, <2>4, <3>1
    <3>2. CASE x \in Ids(c) /\ Len(c) > 1
      BY <1>1, <3>2
    <3>3. CASE x \in Ids(c) /\ ~(Len(c) > 1)
      BY <1>26, <2>2, <2>4, <3>3
    <3> QED
      BY <1>16, <2>4, <3>1, <3>2, <3>3
  <2> QED
    BY <1>1, <2>2, <2>3, <2>4 DEF LoopsFound, Looped, Reach, Shut, Open
<1> QED
  BY <1>12, <1>15, <1>18, <1>19, <1>20, <1>21, <1>23, <1>24, <1>27 DEF Searching

\* A module that leads further back is left: the frame below takes over what was under it.
LEMMA CloseLater ==
  ASSUME Joins, IsFiniteSet(nodes), Searching, Close, low[Top.at] # index[Top.at]
  PROVE  Searching'
<1> DEFINE l == Len(work)
           n == Top.at
           p == work[l - 1].at
<1>1. /\ work # <<>> /\ Top.left = {} /\ work' = Popped /\ UNCHANGED <<nodes, edges, index>>
      /\ tstack' = SubSeq(tstack, 1, Len(tstack) - Len(<<>>)) /\ inCycle' = inCycle
      /\ low' = IF l > 1 THEN [low EXCEPT ![p] = Least(@, low[n])] ELSE low
  BY DEF Close, snapshot
<1>2. /\ l \in 1..l /\ l \in Nat \ {0}
      /\ work' \in Seq(Frames) /\ Len(work') = l - 1
      /\ \A i \in 1..l - 1 : i \in 1..l /\ i + 1 \in 1..l /\ work'[i] = work[i]
      /\ \A i \in 1..l : i \in 1..l - 1 \/ i = l
      /\ \A i \in 1..l - 1 : index[work[i].at] < index[n]
  BY <1>1, PoppedIs DEF Top
<1>3. work[l].left = {} /\ n = work[l].at
  BY <1>1 DEF Top
<1> HIDE DEF n
<1>4. /\ n \in Ids(tstack)
      /\ \A x \in Ids(tstack) : index[n] <= index[x] => Under(l, x) /\ Reach(n, x) /\ Reach(x, n)
  BY <1>1, <1>3, ComponentApart
<1>5. /\ Ids(tstack) \subseteq Visited /\ Visited \subseteq nodes
      /\ \A x \in nodes : index[x] \in Nat /\ low[x] \in Nat
      /\ \A i \in 1..l : work[i].at \in nodes /\ work[i].at \in Ids(tstack)
      /\ \A i \in 1..l : \A j \in 1..l : work[i].at = work[j].at => i = j
  BY SearchFacts
<1>6. tstack' = tstack
  <2>1. tstack \in Seq(nodes) /\ Len(<<>>) = 0
    BY DEF Searching, Stacked
  <2>2. SubSeq(tstack, 1, Len(tstack)) = tstack /\ Len(tstack) - 0 = Len(tstack)
    BY <2>1
  <2> QED
    BY <1>1, <2>1, <2>2
<1>7. Ids(tstack)' = Ids(tstack) /\ Visited' = Visited /\ Frames' = Frames /\ n \in nodes
  <2>1. n \in nodes
    BY <1>2, <1>3, <1>5
  <2>2. Ids(tstack)' = Ids(tstack)
    BY <1>6 DEF Ids
  <2>3. Visited' = Visited /\ Frames' = Frames
    BY <1>1 DEF Visited, Frames
  <2> QED
    BY <2>1, <2>2, <2>3
\* It leads to an open module visited before it, so there is a frame below.
<1>8. PICK y \in Ids(tstack) : index[y] = low[n] /\ Reach(n, y) /\ index[y] < index[n]
  <2>1. low[n] <= index[n] /\ \E y \in Ids(tstack) : index[y] = low[n] /\ Reach(n, y)
    BY <1>2, <1>3 DEF Searching, LowTrue
  <2>2. low[n] < index[n]
    BY <1>5, <1>7, <2>1 DEF n
  <2> QED
    BY <2>1, <2>2
<1>9. PICK b \in 1..l - 1 : index[work[b].at] <= index[y] /\ Reach(y, work[b].at)
  <2>1. PICK i \in 1..l : index[work[i].at] <= index[y] /\ Reach(y, work[i].at)
    BY DEF Searching, LeadsBack
  <2>2. i # l
    BY <1>3, <1>5, <1>7, <1>8, <2>1
  <2> QED
    BY <1>2, <2>1, <2>2
<1>10. l > 1 /\ l - 1 \in 1..l - 1 /\ l - 1 \in 1..l /\ l - 1 + 1 = l /\ p \in nodes /\ p \in Ids(tstack)
  BY <1>2, <1>5, <1>9
<1>11. /\ low' \in [nodes -> Nat] /\ \A m \in nodes : m # p => low'[m] = low[m]
       /\ low'[p] <= low[p] /\ low'[p] <= low[n] /\ (low'[p] = low[p] \/ low'[p] = low[n])
  <2>1. low \in [nodes -> Nat]
    BY DEF Searching, Numbered
  <2>2. low' = [low EXCEPT ![p] = Least(low[p], low[n])]
    BY <1>1, <1>10
  <2>3. low[p] \in Nat /\ low[n] \in Nat
    BY <1>5, <1>7, <1>10
  <2>4. Least(low[p], low[n]) \in Nat /\ Least(low[p], low[n]) <= low[p] /\ Least(low[p], low[n]) <= low[n]
        /\ (Least(low[p], low[n]) = low[p] \/ Least(low[p], low[n]) = low[n])
    BY <2>3 DEF Least
  <2> HIDE DEF p
  <2> QED
    BY <1>10, <2>1, <2>2, <2>4
<1>12. Numbered'
  BY <1>1, <1>7, <1>11 DEF Searching, Numbered
<1>13. Stacked'
  <2>1. /\ tstack \in Seq(nodes)
        /\ \A i \in 1..Len(tstack) : tstack[i] \in Visited
        /\ \A i \in 1..Len(tstack) : \A j \in 1..Len(tstack) : i < j => index[tstack[i]] < index[tstack[j]]
        /\ \A i \in 1..l : \A z \in work[i].left : <<work[i].at, z>> \in edges
        /\ \A i \in 1..l : \A j \in 1..l : i < j => index[work[i].at] < index[work[j].at]
    BY DEF Searching, Stacked
  <2>2. /\ \A i \in 1..l - 1 : \A z \in work'[i].left : <<work'[i].at, z>> \in edges
        /\ \A i \in 1..l - 1 : \A j \in 1..l - 1 : i < j => index[work'[i].at] < index[work'[j].at]
    BY <1>2, <2>1
  <2>3. \A i \in 1..l - 1 : work'[i].at \in Ids(tstack)
    BY <1>2, <1>5
  <2> QED
    BY <1>1, <1>2, <1>6, <1>7, <2>1, <2>2, <2>3 DEF Stacked, Open
<1>14. ClosedApart'
  BY <1>1, <1>7 DEF Searching, ClosedApart, Shut, Open
<1>15. LeadsBack'
  <2>1. ASSUME NEW x \in Ids(tstack)
        PROVE  \E i \in 1..l - 1 : index[work'[i].at] <= index[x] /\ Reach(x, work'[i].at)
    <3>1. PICK i \in 1..l : index[work[i].at] <= index[x] /\ Reach(x, work[i].at)
      BY DEF Searching, LeadsBack
    <3>2. CASE i # l
      BY <1>2, <3>1, <3>2
    <3>3. CASE i = l
      <4>1. index[n] <= index[x] /\ Reach(x, n)
        BY <1>3, <3>1, <3>3
      <4>2. work[b].at \in nodes /\ y \in nodes
        BY <1>2, <1>5
      <4>3. Reach(x, work[b].at)
        BY <1>7, <1>8, <1>9, <4>1, <4>2, ReachTrans
      <4>4. index[work[b].at] <= index[x]
        BY <1>5, <1>7, <1>8, <1>9, <4>1, <4>2
      <4> QED
        BY <1>2, <4>3, <4>4
    <3> QED
      BY <3>2, <3>3
  <2> QED
    BY <1>1, <1>2, <1>7, <2>1 DEF LeadsBack, Reach
<1>16. LeadsOn'
  <2>1. ASSUME NEW i \in 1..l - 1, NEW x \in Ids(tstack), index[work'[i].at] <= index[x]
        PROVE  Reach(work'[i].at, x)
    BY <1>2, <2>1 DEF Searching, LeadsOn
  <2> QED
    BY <1>1, <1>2, <1>7, <2>1 DEF LeadsOn, Reach
<1>17. LowTrue'
  <2>1. ASSUME NEW i \in 1..l - 1
        PROVE  /\ low'[work'[i].at] <= index[work'[i].at]
               /\ \E z \in Ids(tstack) : index[z] = low'[work'[i].at] /\ Reach(work'[i].at, z)
    <3>1. /\ low[work[i].at] <= index[work[i].at] /\ work[i].at \in nodes /\ work'[i].at = work[i].at
          /\ index[work[i].at] < index[n]
      BY <1>2, <1>5 DEF Searching, LowTrue
    <3>2. PICK z \in Ids(tstack) : index[z] = low[work[i].at] /\ Reach(work[i].at, z)
      BY <1>2 DEF Searching, LowTrue
    <3>3. CASE low'[work[i].at] = low[work[i].at]
      BY <3>1, <3>2, <3>3
    <3>4. CASE low'[work[i].at] # low[work[i].at]
      <4>1. work[i].at = p /\ low'[p] = low[n]
        BY <1>11, <3>1, <3>4
      <4>2. low'[p] <= index[p]
        BY <1>5, <1>11, <3>1, <4>1
      <4>3. Reach(p, n)
        <5>1. index[work[i].at] <= index[n]
          BY <1>5, <1>7, <3>1
        <5> QED
          BY <1>2, <1>4, <4>1, <5>1 DEF Searching, LeadsOn
      <4>4. Reach(p, y)
        BY <1>5, <1>8, <4>3, ReachTrans
      <4> QED
        BY <1>8, <3>1, <4>1, <4>2, <4>4
    <3> QED
      BY <3>3, <3>4
  <2> QED
    BY <1>1, <1>2, <1>7, <2>1 DEF LowTrue, Reach
<1>18. ASSUME NEW x, NEW z, \A i \in 1..l - 1 : work'[i].at = x => z \notin work'[i].left
       PROVE  Passed(x, z)
  BY <1>2, <1>3, <1>18 DEF Passed
<1>24. LowEnough
  BY DEF Searching
<1>19. LowEnough'
  <2>1. ASSUME NEW i \in 1..l - 1, NEW x \in Ids(tstack), NEW z \in Ids(tstack),
               index[work[i].at] <= index[x], i < l - 1 => index[x] < index[work[i + 1].at],
               <<x, z>> \in edges, Passed(x, z)
        PROVE  low'[work[i].at] <= index[z]
    <3>1. index[x] \in Nat /\ index[z] \in Nat /\ index[n] \in Nat
      BY <1>5, <1>7
    <3>2. CASE i = l - 1
      <4>1. work[i].at = p
        BY <3>2
      <4>2. CASE index[x] < index[n]
        <5>1. Under(i, x)
          BY <1>3, <1>10, <2>1, <3>2, <4>2 DEF Under
        <5>2. low[p] <= index[z]
          BY <1>2, <1>24, <2>1, <4>1, <5>1 DEF LowEnough
        <5>3. low'[p] <= low[p] /\ low'[p] \in Nat /\ low[p] \in Nat
          BY <1>5, <1>10, <1>11
        <5> QED
          BY <3>1, <4>1, <5>2, <5>3
      <4>3. CASE index[n] <= index[x]
        <5>1. Under(l, x)
          BY <1>4, <4>3
        <5>2. low[work[l].at] <= index[z]
          BY <1>2, <1>24, <2>1, <5>1 DEF LowEnough
        <5>3. low'[p] <= low[n] /\ low'[p] \in Nat /\ low[n] \in Nat
          BY <1>5, <1>7, <1>10, <1>11
        <5>4. work[l].at = n
          BY <1>3
        <5> QED
          BY <3>1, <4>1, <5>2, <5>3, <5>4
      <4> QED
        BY <3>1, <4>2, <4>3
    <3>3. CASE i # l - 1
      <4>1. i < l - 1 /\ i \in 1..l
        BY <1>2, <3>3
      <4>2. Under(i, x)
        BY <2>1, <4>1 DEF Under
      <4>3. low[work[i].at] <= index[z]
        BY <1>24, <2>1, <4>1, <4>2 DEF LowEnough
      <4>4. work[i].at # p /\ work[i].at \in nodes
        BY <1>5, <1>10, <3>3, <4>1
      <4> QED
        BY <1>11, <4>3, <4>4
    <3> QED
      BY <3>2, <3>3
  <2>2. \A i \in 1..Len(work') : \A x \in Ids(tstack)' : \A z \in Ids(tstack)' :
          /\ index'[work'[i].at] <= index'[x] /\ (i < Len(work') => index'[x] < index'[work'[i + 1].at])
          /\ <<x, z>> \in edges' /\ (\A j \in 1..Len(work') : work'[j].at = x => z \notin work'[j].left)
          => low'[work'[i].at] <= index'[z]
    <3> SUFFICES ASSUME NEW i \in 1..Len(work'), NEW x \in Ids(tstack)', NEW z \in Ids(tstack)',
                        index'[work'[i].at] <= index'[x], i < Len(work') => index'[x] < index'[work'[i + 1].at],
                        <<x, z>> \in edges', \A j \in 1..Len(work') : work'[j].at = x => z \notin work'[j].left
                 PROVE  low'[work'[i].at] <= index'[z]
      OBVIOUS
    <3>1. i \in 1..l - 1 /\ index[work[i].at] <= index[x] /\ <<x, z>> \in edges /\ work'[i].at = work[i].at
          /\ x \in Ids(tstack) /\ z \in Ids(tstack)
      BY <1>1, <1>2, <1>7
    <3>2. ASSUME i < l - 1 PROVE index[x] < index[work[i + 1].at]
      <4>1. i + 1 \in 1..l - 1
        BY <1>2, <3>1, <3>2
      <4> QED
        BY <1>1, <1>2, <3>2, <4>1
    <3>3. Passed(x, z)
      BY <1>2, <1>18
    <3>4. low'[work[i].at] <= index[z]
      BY <2>1, <3>1, <3>2, <3>3
    <3> QED
      BY <1>1, <3>1, <3>4
  <2> QED
    BY <2>2 DEF LowEnough, Under, Passed
<1>20. PassedVisited'
  <2>1. ASSUME NEW x \in Ids(tstack), NEW z \in nodes, <<x, z>> \in edges,
               \A j \in 1..l - 1 : work'[j].at = x => z \notin work'[j].left
        PROVE  z \in Visited
    BY <1>18, <2>1 DEF Searching, PassedVisited
  <2> QED
    BY <1>1, <1>2, <1>7, <2>1 DEF PassedVisited, Passed
<1>21. LoopsFound'
  BY <1>1, <1>7 DEF Searching, LoopsFound, Shut, Open, Looped, Reach
<1> QED
  BY <1>12, <1>13, <1>14, <1>15, <1>16, <1>17, <1>19, <1>20, <1>21 DEF Searching

\* When no frame is left every component is closed, and the loops are found.
LEMMA AllClosed ==
  ASSUME Joins, Searching, work = <<>>, \A n \in nodes : index[n] # 0
  PROVE  inCycle = {n \in nodes : n \in Feeding(Sources(n))}
<1>1. Len(work) = 0 /\ \A i \in 1..Len(work) : FALSE
  OBVIOUS
<1>2. \A x : x \notin Ids(tstack)
  BY <1>1 DEF Searching, LeadsBack
<1>3. \A n \in nodes : Shut(n)
  BY <1>2 DEF Shut, Visited, Open
<1>4. \A n \in nodes : n \in inCycle <=> Looped(n)
  BY <1>3 DEF Searching, LoopsFound
<1>5. \A n \in inCycle : n \in nodes
  BY DEF Searching, LoopsFound
<1> QED
  BY <1>4, <1>5, LoopedIs

\* Before the first visit.
LEMMA SearchStarts ==
  ASSUME Joins, IsFiniteSet(nodes), index = Unvisited(nodes), low = Unvisited(nodes), tstack = <<>>,
         work = <<>>, inCycle = Loops(edges)
  PROVE  Searching
<1>1. index \in [nodes -> Nat] /\ low \in [nodes -> Nat] /\ \A n \in nodes : index[n] = 0
  BY DEF Unvisited
<1>2. \A x : x \notin Visited
  BY <1>1 DEF Visited
<1>3. Cardinality(Visited) \in Nat
  <2>1. Visited = {}
    BY <1>2
  <2> QED
    BY <2>1, FS_EmptySet
<1>4. Numbered
  BY <1>1, <1>2, <1>3 DEF Numbered
<1>5. /\ tstack \in Seq(nodes) /\ Len(tstack) = 0 /\ \A i \in 1..Len(tstack) : FALSE
      /\ work \in Seq(Frames) /\ Len(work) = 0 /\ \A i \in 1..Len(work) : FALSE
  OBVIOUS
<1>6. \A x : x \notin Ids(tstack)
  BY <1>5 DEF Ids
<1>7. Stacked
  BY <1>5 DEF Stacked
<1>8. LoopsFound
  BY <1>2, LoopedSelf DEF LoopsFound, Shut
<1>9. ClosedApart /\ LeadsBack /\ LeadsOn /\ LowTrue /\ LowEnough /\ PassedVisited
  BY <1>2, <1>5, <1>6 DEF ClosedApart, Shut, LeadsBack, LeadsOn, LowTrue, LowEnough, PassedVisited
<1> QED
  BY <1>4, <1>7, <1>8, <1>9 DEF Searching

\* What the first and the last loop leave alone.
LEMMA SearchSame ==
  ASSUME Searching, UNCHANGED <<nodes, edges, index, low, tstack, inCycle, work>>
  PROVE  Searching'
<1>1. Ids(tstack)' = Ids(tstack) /\ Visited' = Visited /\ Frames' = Frames
  BY DEF Ids, Visited, Frames
<1>2. Numbered' /\ ClosedApart'
  BY <1>1 DEF Searching, Numbered, ClosedApart, Shut, Open
<1>3. Stacked'
  BY <1>1 DEF Searching, Stacked, Open
<1>4. LeadsBack' /\ LeadsOn' /\ LowTrue'
  BY <1>1 DEF Searching, LeadsBack, LeadsOn, LowTrue, Reach
<1>5. LowEnough' /\ PassedVisited'
  BY <1>1 DEF Searching, LowEnough, Under, PassedVisited, Passed
<1>6. LoopsFound'
  BY <1>1 DEF Searching, LoopsFound, Shut, Open, Looped, Reach, Loops
<1> QED
  BY <1>2, <1>3, <1>4, <1>5, <1>6 DEF Searching

\* No step of the analysis breaks the invariant of the second loop.
LEMMA StepCycles ==
  ASSUME CyclesInv, Joins, [GraphNext]_graphVars
  PROVE  CyclesInv'
<1>1. CASE Feed \/ Fed
  <2>1. UNCHANGED <<nodes, edges, index, low, tstack, inCycle, work>> /\ phase = "feeds" /\ phase' \in {"feeds", "cycles"}
    BY <1>1 DEF Feed, Fed, snapshot
  <2>2. Searching'
    BY <2>1, SearchSame DEF CyclesInv
  <2> QED
    BY <2>1, <2>2 DEF CyclesInv, CyclesExact
<1>2. CASE Visit \/ Follow \/ Close
  <2>1. UNCHANGED <<nodes, edges, phase>> /\ phase = "cycles"
    BY <1>2 DEF Visit, Follow, Close, snapshot
  <2>2. Searching'
    BY <1>2, <2>1, VisitKeeps, FollowKeeps, CloseFirst, CloseLater DEF CyclesInv
  <2> QED
    BY <2>1, <2>2 DEF CyclesInv, CyclesExact
<1>3. CASE Cycled
  <2>1. UNCHANGED <<nodes, edges, inCycle>> /\ phase' \in {"path", "done"}
    BY <1>3 DEF Cycled, snapshot
  <2>2. inCycle = {n \in nodes : n \in Feeding(Sources(n))}
    BY <1>3, AllClosed DEF CyclesInv, Cycled
  <2> QED
    BY <2>1, <2>2 DEF CyclesInv, CyclesExact, Feeding, Sources
<1>4. CASE Trace \/ Finish
  <2>1. UNCHANGED <<nodes, edges, inCycle>> /\ phase = "path" /\ phase' \in {"path", "done"}
    BY <1>4 DEF Trace, Finish, snapshot
  <2> QED
    BY <2>1 DEF CyclesInv, CyclesExact, Feeding, Sources
<1>5. CASE UNCHANGED graphVars
  <2>1. UNCHANGED <<nodes, edges, index, low, tstack, inCycle, work, phase>>
    BY <1>5 DEF graphVars
  <2>2. Searching => Searching'
    BY <2>1, SearchSame
  <2> QED
    BY <2>1, <2>2 DEF CyclesInv, CyclesExact, Feeding, Sources
<1> QED
  BY <1>1, <1>2, <1>3, <1>4, <1>5 DEF GraphNext

-----------------------------------------------------------------------------
(***************************************************************************)
(* The search of modulesFeedingDestinations is exact, for every snapshot.  *)
(* What it has visited and what it has yet to visit hold the destinations  *)
(* and the sources of what was visited, and lie in every set that does.    *)
(* When nothing is left to visit, the visited set is the least such set.   *)
(***************************************************************************)

\* A snapshot: finitely many modules, and cables that join them.
GraphInit ==
  /\ IsFiniteSet(nodes) /\ edges \subseteq nodes \X nodes /\ dests \subseteq nodes
  /\ phase = "feeds" /\ LoopsStart

GraphSpec == GraphInit /\ [][GraphNext]_graphVars

\* D and the sources of the members lie in S.
Holds(S, D) == D \subseteq S /\ \A e \in edges : e[2] \in S => e[1] \in S

Phases == phase \in {"feeds", "cycles", "path", "done"}

Snapshot == edges \subseteq nodes \X nodes /\ dests \subseteq nodes

Inside == reached \subseteq nodes /\ todo \subseteq nodes

Covers ==
  /\ dests \subseteq reached \cup todo
  /\ \A e \in edges : e[2] \in reached => e[1] \in reached \cup todo

Needed == \A S \in SUBSET nodes : Holds(S, dests) => reached \cup todo \subseteq S

Emptied == phase # "feeds" => todo = {}

Search == Phases /\ Snapshot /\ Inside /\ Covers /\ Needed /\ Emptied

\* The steps that only the later loops take leave the search as it is.
Later == Visit \/ Follow \/ Close \/ Cycled \/ Trace \/ Finish

\* The first loop begins with the destinations.
LEMMA InitSearch == GraphInit => Search
  BY DEF GraphInit, LoopsStart, Search, Phases, Snapshot, Inside, Covers, Needed, Emptied, Holds

\* The later loops leave alone what the first one found.
LEMMA LaterKeeps ==
  ASSUME Search, Later
  PROVE  phase' # "feeds" /\ UNCHANGED <<nodes, edges, dests, todo, reached>> /\ phase # "feeds" /\ Phases'
<1>1. CASE Visit
  BY <1>1 DEF Visit, snapshot, Phases
<1>2. CASE Follow
  BY <1>2 DEF Follow, snapshot, Phases
<1>3. CASE Close
  BY <1>3 DEF Close, snapshot, Phases
<1>4. CASE Cycled
  BY <1>4 DEF Cycled, snapshot, Phases
<1>5. CASE Trace
  BY <1>5 DEF Trace, snapshot, Phases
<1>6. CASE Finish
  BY <1>6 DEF Finish, snapshot, Phases
<1> QED
  BY <1>1, <1>2, <1>3, <1>4, <1>5, <1>6 DEF Later

\* A module taken from the stack: its sources replace it, if it is new.
LEMMA FeedKeeps ==
  ASSUME Search, Feed
  PROVE  Search'
<1>1. UNCHANGED <<nodes, edges, dests, phase>> /\ phase = "feeds"
  BY DEF Feed, snapshot
<1>2. Phases' /\ Snapshot' /\ Emptied'
  BY <1>1 DEF Search, Phases, Snapshot, Emptied
<1>3. PICK n \in todo :
        \/ n \in reached /\ todo' = todo \ {n} /\ reached' = reached
        \/ n \notin reached /\ todo' = (todo \ {n}) \cup Sources(n) /\ reached' = reached \cup {n}
  BY DEF Feed, Upstream
<1>4. \A e \in edges : e[1] \in nodes /\ e[2] \in nodes
  BY DEF Search, Snapshot
<1>5. \A m : m \in Sources(n) <=> \E e \in edges : e[2] = n /\ e[1] = m
  BY DEF Sources
<1>6. Inside'
  BY <1>1, <1>3, <1>4, <1>5 DEF Search, Inside
<1>7. Covers'
  <2>1. dests \subseteq reached' \cup todo'
    BY <1>3 DEF Search, Covers
  <2>2. ASSUME NEW e \in edges, e[2] \in reached'
        PROVE  e[1] \in reached' \cup todo'
    <3>1. CASE e[2] \in reached
      BY <1>3, <3>1 DEF Search, Covers
    <3>2. CASE e[2] \notin reached
      <4>1. e[2] = n /\ todo' = (todo \ {n}) \cup Sources(n)
        BY <1>3, <2>2, <3>2
      <4> QED
        BY <4>1, <1>5
    <3> QED
      BY <3>1, <3>2
  <2> QED
    BY <1>1, <2>1, <2>2 DEF Covers
<1>8. Needed'
  <2> SUFFICES ASSUME NEW S \in SUBSET nodes, Holds(S, dests)
               PROVE  reached' \cup todo' \subseteq S
    BY <1>1 DEF Needed, Holds
  <2>1. reached \cup todo \subseteq S
    BY DEF Search, Needed
  <2>2. n \in S
    BY <1>3, <2>1
  <2>3. Sources(n) \subseteq S
    BY <2>2, <1>5 DEF Holds
  <2> QED
    BY <1>3, <2>1, <2>2, <2>3
<1> QED
  BY <1>2, <1>6, <1>7, <1>8 DEF Search

\* The first loop ends with nothing left to visit.
LEMMA FedKeeps ==
  ASSUME Search, Fed
  PROVE  Search'
  BY DEF Search, Fed, snapshot, Phases, Snapshot, Inside, Covers, Needed, Emptied, Holds

LEMMA StepSearch == Search /\ [GraphNext]_graphVars => Search'
<1> SUFFICES ASSUME Search, [GraphNext]_graphVars
             PROVE  Search'
  OBVIOUS
<1>1. CASE Feed
  BY <1>1, FeedKeeps
<1>2. CASE Fed
  BY <1>2, FedKeeps
<1>3. CASE Later
  <2>1. phase' # "feeds" /\ UNCHANGED <<nodes, edges, dests, todo, reached>> /\ phase # "feeds" /\ Phases'
    BY <1>3, LaterKeeps
  <2> QED
    BY <2>1 DEF Search, Snapshot, Inside, Covers, Needed, Emptied, Holds
<1>4. CASE UNCHANGED graphVars
  BY <1>4 DEF graphVars, Search, Phases, Snapshot, Inside, Covers, Needed, Emptied, Holds
<1> QED
  BY <1>1, <1>2, <1>3, <1>4 DEF GraphNext, Later

\* The least set that is closed is the one that was found.
LEMMA SearchFinds == Search => FeedsExact
<1> SUFFICES ASSUME Search, phase # "feeds"
             PROVE  reached = Feeding(dests)
  BY DEF FeedsExact
<1>1. todo = {}
  BY DEF Search, Emptied
<1>2. reached \in SUBSET nodes /\ Holds(reached, dests)
  BY <1>1 DEF Search, Inside, Covers, Holds
<1>3. \A S \in SUBSET nodes : Holds(S, dests) => reached \subseteq S
  BY <1>1 DEF Search, Needed
<1>4. ASSUME NEW n \in Feeding(dests)
      PROVE  n \in reached
  BY <1>2 DEF Feeding, Holds
<1>5. ASSUME NEW n \in reached
      PROVE  n \in Feeding(dests)
  BY <1>2, <1>3 DEF Feeding, Holds
<1> QED
  BY <1>4, <1>5

\* The comment on modulesFeedingDestinations, for a snapshot of any size: when the
\* search has ended it has found the modules from which signal can reach an audio
\* destination, and no other.
THEOREM FeedsCorrect == GraphSpec => []FeedsExact
<1>1. GraphSpec => []Search
  BY InitSearch, StepSearch, PTL DEF GraphSpec
<1> QED
  BY <1>1, SearchFinds, PTL

-----------------------------------------------------------------------------
(***************************************************************************)
(* The paths of longestCablePathTo, for every snapshot, with or without    *)
(* loops: what is remembered of a finished module is a walk along cables   *)
(* that ends at it and repeats no module. It passes finished modules only, *)
(* and none on the stack is finished, so no path that a frame is offered   *)
(* holds its module already.                                               *)
(***************************************************************************)

\* p goes along cables and repeats no module.
Walk(p) ==
  /\ \A i \in 2..Len(p) : <<p[i - 1], p[i]>> \in edges
  /\ \A i \in 1..Len(p) : \A j \in 1..Len(p) : p[i] = p[j] => i = j

\* A path has been found for every module of p.
AllFound(p) == \A i \in 1..Len(p) : p[i] \in nodes /\ memo[p[i]] # <<>>

Remembered ==
  /\ memo \in [nodes -> Seq(nodes)]
  /\ \A n \in nodes : memo[n] # <<>> => Walk(memo[n]) /\ AllFound(memo[n]) /\ memo[n][Len(memo[n])] = n

\* The frames of the last loop: modules not finished, each a source of the one below.
Framed ==
  /\ work \in Seq(Frames)
  /\ \A k \in 1..Len(work) : memo[work[k].at] = <<>>
  /\ \A k \in 1..Len(work) : \A n \in work[k].left : <<n, work[k].at>> \in edges
  /\ \A k \in 1..Len(work) : \A m \in 1..Len(work) : work[k].at = work[m].at => k = m
  /\ \A k \in 2..Len(work) : <<work[k].at, work[k - 1].at>> \in edges

\* The best path of a frame leads into its module.
Bests ==
  \A k \in 1..Len(work) : LET p == work[k].best IN
     p # <<>> => Walk(p) /\ AllFound(p) /\ <<p[Len(p)], work[k].at>> \in edges

Unfound == phase \in {"feeds", "cycles"} => memo = Unknown(nodes)

Paths ==
  /\ Snapshot /\ Remembered /\ Unfound
  /\ phase = "path" => Framed /\ Bests

\* What describePatch prints of a chain: arrows that are cables, each module once.
Chains == \A n \in nodes : memo[n] # <<>> => Walk(memo[n]) /\ memo[n][Len(memo[n])] = n

\* The comment at analysis.ts:115 expects that joining a frame to a remembered path may
\* repeat its module; it may not.
Redundant ==
  phase = "path" => \A k \in 1..Len(work) : \A n \in nodes : work[k].at \notin Ids(memo[n])

\* Nothing is remembered at first.
LEMMA InitPaths == GraphInit => Paths
  BY DEF GraphInit, LoopsStart, Paths, Snapshot, Remembered, Unfound, Unknown

\* The modules that a cable leads from.
LEMMA SourcesAre ==
  ASSUME Snapshot, NEW n, NEW m \in Sources(n)
  PROVE  m \in nodes /\ <<m, n>> \in edges
  BY DEF Snapshot, Sources

\* The frames may change in what is left and in their best paths.
LEMMA KeepsFramed ==
  ASSUME Framed, UNCHANGED <<nodes, edges, memo>>, work' \in Seq(Frames), Len(work') = Len(work),
         \A k \in 1..Len(work) : work'[k].at = work[k].at /\ work'[k].left \subseteq work[k].left
  PROVE  Framed'
<1>1. Len(work) \in Nat
  BY DEF Framed
<1>2. \A k \in 1..Len(work') : memo'[work'[k].at] = <<>>
  BY DEF Framed
<1>3. \A k \in 1..Len(work') : \A n \in work'[k].left : <<n, work'[k].at>> \in edges'
  BY DEF Framed
<1>4. \A k \in 1..Len(work') : \A m \in 1..Len(work') : work'[k].at = work'[m].at => k = m
  BY DEF Framed
<1>5. \A k \in 2..Len(work') : <<work'[k].at, work'[k - 1].at>> \in edges'
  <2>1. \A k \in 2..Len(work) : k \in 1..Len(work) /\ k - 1 \in 1..Len(work)
    BY <1>1
  <2> QED
    BY <2>1 DEF Framed
<1>6. Frames' = Frames
  BY DEF Frames
<1> QED
  BY <1>2, <1>3, <1>4, <1>5, <1>6 DEF Framed

\* The loops before leave what the last one starts from.
LEMMA EarlierKeep ==
  ASSUME Paths, Feed \/ Fed \/ Visit \/ Follow \/ Close
  PROVE  Paths'
<1>1. phase' \in {"feeds", "cycles"} /\ phase \in {"feeds", "cycles"} /\ UNCHANGED <<nodes, edges, dests, memo>>
  BY DEF Feed, Fed, Visit, Follow, Close, snapshot
<1> QED
  BY <1>1 DEF Paths, Snapshot, Remembered, Unfound, Walk, AllFound

\* The last loop begins with a frame for the one destination.
LEMMA CycledKeeps ==
  ASSUME Paths, Cycled
  PROVE  Paths'
<1>1. UNCHANGED <<nodes, edges, dests, memo>> /\ memo = Unknown(nodes)
  BY DEF Cycled, snapshot, Paths, Unfound
<1>2. Snapshot' /\ Remembered'
  BY <1>1 DEF Paths, Snapshot, Remembered, Walk, AllFound
<1>3. CASE phase' = "path"
  <2>1. Cardinality(dests) = 1
    BY <1>3 DEF Cycled
  <2>2. dests # {}
    BY <2>1, FS_EmptySet
  <2> DEFINE d == CHOOSE d \in dests : TRUE
  <2>3. d \in nodes
    BY <2>2 DEF Paths, Snapshot
  <2>4. work' = <<Frame(d, Sources(d))>>
    BY <1>3 DEF Cycled
  <2> HIDE DEF d
  <2>5. Sources(d) \subseteq nodes
    BY SourcesAre DEF Paths
  <2>6. Frame(d, Sources(d)) \in Frames /\ Frame(d, Sources(d)).at = d
        /\ Frame(d, Sources(d)).left = Sources(d) /\ Frame(d, Sources(d)).best = <<>>
    BY <2>3, <2>5 DEF Frame, Frames
  <2>7. Len(work') = 1 /\ work'[1] = Frame(d, Sources(d)) /\ work' \in Seq(Frames')
    BY <2>4, <2>6, <1>1 DEF Frames
  <2>8. memo'[d] = <<>>
    BY <1>1, <2>3 DEF Unknown
  <2>9. \A m \in Sources(d) : <<m, d>> \in edges'
    BY <1>1, SourcesAre DEF Paths
  <2>10. Framed'
    BY <2>6, <2>7, <2>8, <2>9 DEF Framed
  <2>11. Bests'
    BY <2>6, <2>7 DEF Bests
  <2> QED
    BY <1>2, <1>3, <2>10, <2>11 DEF Paths, Unfound
<1>4. CASE phase' = "done"
  BY <1>2, <1>4 DEF Paths, Unfound
<1> QED
  BY <1>3, <1>4 DEF Cycled

\* The step changes the frame on top, whose next best is p, or puts one above it.
LEMMA TraceKeeps ==
  ASSUME Paths, Trace
  PROVE  Paths'
<1>1. UNCHANGED <<nodes, edges, dests, memo, phase>> /\ phase = "path" /\ work # <<>>
  BY DEF Trace, snapshot
<1>2. Snapshot' /\ Remembered' /\ Unfound'
  BY <1>1 DEF Paths, Snapshot, Remembered, Unfound, Walk, AllFound
<1>3. Framed /\ Bests /\ Snapshot /\ Remembered
  BY <1>1 DEF Paths
<1>4. Len(work) \in Nat \ {0} /\ work \in Seq(Frames)
  BY <1>1, <1>3 DEF Framed
<1>5. Top \in Frames /\ Top = work[Len(work)]
  BY <1>4 DEF Top
<1>6. PICK n \in Top.left :
        LET looked == [work EXCEPT ![Len(work)].left = @ \ {n}] IN
        work' = IF OnStack(n) THEN looked
                ELSE IF memo[n] = <<>> THEN Append(looked, Frame(n, Sources(n)))
                ELSE IF Takes(memo[n], Top) THEN [looked EXCEPT ![Len(work)].best = memo[n]]
                ELSE looked
  BY DEF Trace
<1>7. n \in nodes /\ <<n, Top.at>> \in edges
  <2>1. Len(work) \in 1..Len(work)
    BY <1>4
  <2>2. <<n, Top.at>> \in edges
    BY <1>3, <1>5, <1>6, <2>1 DEF Framed
  <2> QED
    BY <1>3, <2>2 DEF Snapshot
<1> DEFINE looked == [work EXCEPT ![Len(work)].left = @ \ {n}]
<1>8. /\ looked \in Seq(Frames) /\ Len(looked) = Len(work)
      /\ \A k \in 1..Len(work) : looked[k].at = work[k].at /\ looked[k].best = work[k].best
                                 /\ looked[k].left \subseteq work[k].left
  <2> DEFINE f == [Top EXCEPT !.left = @ \ {n}]
  <2>1. f \in Frames /\ f.at = Top.at /\ f.best = Top.best /\ f.left \subseteq Top.left
    BY <1>5 DEF Frames
  <2>2. looked = [work EXCEPT ![Len(work)] = f]
    BY <1>5
  <2> HIDE DEF f, looked
  <2>3. Len(work) \in 1..Len(work)
    BY <1>4
  <2>4. /\ looked \in Seq(Frames) /\ Len(looked) = Len(work)
        /\ \A k \in 1..Len(work) : looked[k] = IF k = Len(work) THEN f ELSE work[k]
    BY <1>4, <2>1, <2>2, <2>3, ExceptSeq
  <2> QED
    BY <1>5, <2>1, <2>4
<1> HIDE DEF looked
<1>9. work' = IF OnStack(n) THEN looked
              ELSE IF memo[n] = <<>> THEN Append(looked, Frame(n, Sources(n)))
              ELSE IF Takes(memo[n], Top) THEN [looked EXCEPT ![Len(work)].best = memo[n]]
              ELSE looked
  BY <1>6 DEF looked
<1>10. Frames' = Frames
  BY <1>1 DEF Frames
<1>11. CASE work' = looked
  <2>1. Framed'
    BY <1>1, <1>3, <1>8, <1>11, KeepsFramed
  <2>2. \A k \in 1..Len(work') : work'[k].best = work[k].best /\ work'[k].at = work[k].at /\ k \in 1..Len(work)
    BY <1>8, <1>11
  <2>3. Bests'
    BY <1>1, <1>3, <2>2 DEF Bests, Walk, AllFound
  <2> QED
    BY <1>1, <1>2, <2>1, <2>3 DEF Paths
<1>12. CASE ~OnStack(n) /\ memo[n] = <<>>
  <2>1. work' = Append(looked, Frame(n, Sources(n)))
    BY <1>9, <1>12
  <2>2. Sources(n) \subseteq nodes
    BY <1>3, SourcesAre
  <2>3. Frame(n, Sources(n)) \in Frames /\ Frame(n, Sources(n)).at = n
        /\ Frame(n, Sources(n)).left = Sources(n) /\ Frame(n, Sources(n)).best = <<>>
    BY <1>7, <2>2 DEF Frame, Frames
  <2>4. /\ work' \in Seq(Frames) /\ Len(work') = Len(work) + 1
        /\ work'[Len(work) + 1] = Frame(n, Sources(n))
        /\ \A k \in 1..Len(work) : work'[k] = looked[k]
    BY <2>1, <2>3, <1>4, <1>8
  <2>5. \A k \in 1..Len(work) : work[k].at # n
    BY <1>4, <1>12 DEF OnStack
  <2>6. /\ \A k \in 1..Len(work') : k \in 1..Len(work) \/ k = Len(work) + 1
        /\ \A k \in 1..Len(work) : work'[k].at = work[k].at /\ work'[k].left \subseteq work[k].left
        /\ work'[Len(work) + 1].at = n /\ work'[Len(work) + 1].left = Sources(n)
    BY <1>4, <1>8, <2>3, <2>4
  <2>7. Framed'
    <3>1. \A k \in 1..Len(work') : memo'[work'[k].at] = <<>>
      BY <1>1, <1>3, <1>12, <2>6 DEF Framed
    <3>2. \A k \in 1..Len(work') : \A m \in work'[k].left : <<m, work'[k].at>> \in edges'
      BY <1>1, <1>3, <2>6, SourcesAre DEF Framed
    <3>3. \A k \in 1..Len(work') : \A m \in 1..Len(work') : work'[k].at = work'[m].at => k = m
      BY <1>3, <2>5, <2>6 DEF Framed
    <3>4. ASSUME NEW k \in 2..Len(work')
          PROVE  <<work'[k].at, work'[k - 1].at>> \in edges'
      <4>1. CASE k = Len(work) + 1
        <5>1. k - 1 = Len(work) /\ Len(work) \in 1..Len(work)
          BY <1>4, <4>1
        <5> QED
          BY <1>1, <1>5, <1>7, <2>6, <4>1, <5>1
      <4>2. CASE k # Len(work) + 1
        <5>1. k \in 2..Len(work) /\ k \in 1..Len(work) /\ k - 1 \in 1..Len(work)
          BY <1>4, <2>4, <4>2
        <5> QED
          BY <1>1, <1>3, <2>6, <5>1 DEF Framed
      <4> QED
        BY <4>1, <4>2
    <3> QED
      BY <1>10, <2>4, <3>1, <3>2, <3>3, <3>4 DEF Framed
  <2>8. Bests'
    <3>1. ASSUME NEW k \in 1..Len(work'), work'[k].best # <<>>
          PROVE  k \in 1..Len(work) /\ work'[k].best = work[k].best /\ work'[k].at = work[k].at
      BY <3>1, <1>4, <1>8, <2>3, <2>4
    <3> QED
      BY <3>1, <1>1, <1>3 DEF Bests, Walk, AllFound
  <2> QED
    BY <1>1, <1>2, <2>7, <2>8 DEF Paths
<1>13. CASE memo[n] # <<>> /\ work' = [looked EXCEPT ![Len(work)].best = memo[n]]
  <2>1. memo[n] \in Seq(nodes) /\ Walk(memo[n]) /\ AllFound(memo[n]) /\ memo[n][Len(memo[n])] = n
    BY <1>3, <1>7, <1>13 DEF Remembered
  <2>2. /\ work' \in Seq(Frames) /\ Len(work') = Len(work)
        /\ \A k \in 1..Len(work) : work'[k].at = work[k].at /\ work'[k].left \subseteq work[k].left
        /\ \A k \in 1..Len(work) : work'[k].best = IF k = Len(work) THEN memo[n] ELSE work[k].best
    <3> DEFINE f == [looked[Len(work)] EXCEPT !.best = memo[n]]
    <3>1. looked[Len(work)] \in Frames /\ Len(work) \in 1..Len(looked)
      BY <1>4, <1>8
    <3>2. f \in Frames /\ f.at = looked[Len(work)].at /\ f.best = memo[n] /\ f.left = looked[Len(work)].left
      BY <2>1, <3>1 DEF Frames
    <3>3. work' = [looked EXCEPT ![Len(work)] = f]
      BY <1>13
    <3> HIDE DEF f
    <3>4. /\ work' \in Seq(Frames) /\ Len(work') = Len(looked)
          /\ \A k \in 1..Len(looked) : work'[k] = IF k = Len(work) THEN f ELSE looked[k]
      BY <1>8, <3>1, <3>2, <3>3, ExceptSeq
    <3> QED
      BY <1>4, <1>8, <3>2, <3>4
  <2>3. Framed'
    BY <1>1, <1>3, <2>2, KeepsFramed
  <2>4. Bests'
    <3>1. ASSUME NEW k \in 1..Len(work), k # Len(work), work'[k].best # <<>>
          PROVE  (LET p == work'[k].best IN Walk(p) /\ AllFound(p) /\ <<p[Len(p)], work'[k].at>> \in edges)
      BY <3>1, <1>3, <2>2 DEF Bests
    <3>2. <<memo[n][Len(memo[n])], work'[Len(work)].at>> \in edges
      <4>1. Len(work) \in 1..Len(work)
        BY <1>4
      <4>2. work'[Len(work)].at = Top.at
        BY <1>5, <2>2, <4>1
      <4> QED
        BY <1>7, <2>1, <4>2
    <3> QED
      BY <1>1, <1>4, <2>1, <2>2, <3>1, <3>2 DEF Bests, Walk, AllFound
  <2> QED
    BY <1>1, <1>2, <2>3, <2>4 DEF Paths
<1> QED
  BY <1>9, <1>11, <1>12, <1>13

\* The frame on top is finished, and its path offered to the frame below.
LEMMA FinishKeeps ==
  ASSUME Paths, Finish
  PROVE  Paths'
<1> DEFINE at == Top.at
           path == Append(Top.best, Top.at)
<1>1. UNCHANGED <<nodes, edges, dests>> /\ phase = "path" /\ work # <<>> /\ phase' \in {"path", "done"}
  BY DEF Finish, snapshot
<1>2. Framed /\ Bests /\ Snapshot /\ Remembered
  BY <1>1 DEF Paths
<1>3. Len(work) \in Nat \ {0} /\ work \in Seq(Frames) /\ Len(work) \in 1..Len(work)
  BY <1>1, <1>2 DEF Framed
<1>4. Top \in Frames /\ Top = work[Len(work)] /\ at \in nodes /\ memo[at] = <<>> /\ Top.best \in Seq(nodes)
  <2>1. Top \in Frames /\ Top = work[Len(work)]
    BY <1>3 DEF Top
  <2>2. memo[at] = <<>>
    BY <1>2, <1>3, <2>1 DEF Framed
  <2> QED
    BY <2>1, <2>2 DEF Frames
<1>5. Top.best # <<>> => Walk(Top.best) /\ AllFound(Top.best) /\ <<Top.best[Len(Top.best)], at>> \in edges
  BY <1>2, <1>3, <1>4 DEF Bests
<1>6. memo' = [memo EXCEPT ![at] = path]
  BY DEF Finish
<1>7. /\ path \in Seq(nodes) /\ Len(path) = Len(Top.best) + 1 /\ path[Len(path)] = at /\ path # <<>>
      /\ \A i \in 1..Len(Top.best) : path[i] = Top.best[i]
      /\ \A i \in 1..Len(path) : i \in 1..Len(Top.best) \/ i = Len(path)
      /\ Len(Top.best) \in Nat
  BY <1>4
<1> HIDE DEF at, path
<1>8. memo' \in [nodes -> Seq(nodes)] /\ memo'[at] = path /\ \A m \in nodes : m # at => memo'[m] = memo[m]
  BY <1>2, <1>4, <1>6, <1>7 DEF Remembered
<1>9. \A m \in nodes : memo[m] # <<>> => memo'[m] = memo[m] /\ m # at
  BY <1>4, <1>8
<1>10. \A i \in 1..Len(Top.best) : Top.best[i] \in nodes /\ memo[Top.best[i]] # <<>> /\ Top.best[i] # at
  <2>1. CASE Top.best = <<>>
    BY <2>1
  <2>2. CASE Top.best # <<>>
    BY <1>5, <1>9, <2>2 DEF AllFound
  <2> QED
    BY <2>1, <2>2
<1>11. Walk(path)
  <2>1. ASSUME NEW i \in 2..Len(path)
        PROVE  <<path[i - 1], path[i]>> \in edges
    <3>1. Top.best # <<>>
      BY <1>7, <2>1
    <3>2. CASE i = Len(path)
      <4>1. i - 1 = Len(Top.best) /\ Len(Top.best) \in 1..Len(Top.best)
        BY <1>7, <2>1, <3>2
      <4> QED
        BY <1>5, <1>7, <3>1, <3>2, <4>1
    <3>3. CASE i # Len(path)
      <4>1. i \in 2..Len(Top.best) /\ i \in 1..Len(Top.best) /\ i - 1 \in 1..Len(Top.best)
        BY <1>7, <2>1, <3>3
      <4> QED
        BY <1>5, <1>7, <3>1, <4>1 DEF Walk
    <3> QED
      BY <3>2, <3>3
  <2>2. ASSUME NEW i \in 1..Len(path), NEW j \in 1..Len(path), path[i] = path[j]
        PROVE  i = j
    <3>1. CASE i = Len(path) \/ j = Len(path)
      BY <1>7, <1>10, <2>2, <3>1
    <3>2. CASE i \in 1..Len(Top.best) /\ j \in 1..Len(Top.best)
      <4>1. Top.best # <<>> /\ Top.best[i] = Top.best[j]
        BY <1>7, <2>2, <3>2
      <4> QED
        BY <1>5, <3>2, <4>1 DEF Walk
    <3> QED
      BY <1>7, <3>1, <3>2
  <2> QED
    BY <2>1, <2>2 DEF Walk
<1>12. ASSUME NEW p, AllFound(p)
       PROVE  \A i \in 1..Len(p) : p[i] \in nodes /\ memo'[p[i]] # <<>> /\ p[i] # at
  BY <1>9, <1>12 DEF AllFound
<1>13. \A i \in 1..Len(path) : path[i] \in nodes /\ memo'[path[i]] # <<>>
  <2>1. ASSUME NEW i \in 1..Len(Top.best)
        PROVE  path[i] \in nodes /\ memo'[path[i]] # <<>>
    BY <1>7, <1>9, <1>10, <2>1
  <2> QED
    BY <1>4, <1>7, <1>8, <2>1 DEF at
<1>14. Remembered'
  <2>1. ASSUME NEW n \in nodes, memo'[n] # <<>>
        PROVE  Walk(memo'[n]) /\ memo'[n][Len(memo'[n])] = n
               /\ \A i \in 1..Len(memo'[n]) : memo'[n][i] \in nodes /\ memo'[memo'[n][i]] # <<>>
    <3>1. CASE n = at
      BY <1>7, <1>8, <1>11, <1>13, <3>1
    <3>2. CASE n # at
      <4>1. memo'[n] = memo[n] /\ memo[n] # <<>>
        BY <1>8, <2>1, <3>2
      <4> QED
        BY <1>2, <1>12, <4>1 DEF Remembered
    <3> QED
      BY <3>1, <3>2
  <2> QED
    BY <1>1, <1>8, <2>1 DEF Remembered, Walk, AllFound
<1>15. Snapshot' /\ Unfound'
  BY <1>1, <1>2 DEF Snapshot, Unfound
\* The frames below, the new top of which may have a better path.
<1>16. /\ work' \in Seq(Frames) /\ Len(work') = Len(work) - 1
       /\ \A k \in 1..Len(work') : work'[k].at = work[k].at /\ work'[k].left = work[k].left
       /\ \A k \in 1..Len(work') : \/ work'[k].best = work[k].best
                                   \/ k = Len(work') /\ work'[k].best = path
  <2>1. /\ Popped \in Seq(Frames) /\ Len(Popped) = Len(work) - 1
        /\ \A k \in 1..Len(Popped) : Popped[k] = work[k]
    <3> DEFINE m == Len(work) - 1
    <3>1. m \in Nat /\ \A i \in 1..m : work[i] \in Frames
      BY <1>3
    <3> HIDE DEF m
    <3>2. /\ SubSeq(work, 1, m) \in Seq(Frames)
          /\ Len(SubSeq(work, 1, m)) = IF 1 <= m THEN m - 1 + 1 ELSE 0
          /\ \A i \in 1..m - 1 + 1 : SubSeq(work, 1, m)[i] = work[1 + i - 1]
      BY <3>1, SubSeqProperties
    <3>3. m - 1 + 1 = m /\ Len(SubSeq(work, 1, m)) = m /\ \A i \in 1..m : 1 + i - 1 = i
      BY <3>1, <3>2
    <3>4. \A i \in 1..m : SubSeq(work, 1, m)[i] = work[i]
      BY <3>2, <3>3
    <3>5. Popped = SubSeq(work, 1, m)
      BY DEF Popped, m
    <3>6. m = Len(work) - 1
      BY DEF m
    <3> QED
      BY <3>2, <3>3, <3>4, <3>5, <3>6
  <2>2. CASE work' = Popped
    BY <2>1, <2>2 DEF Frames
  <2>3. CASE Len(work) > 1 /\ work' = [Popped EXCEPT ![Len(Popped)].best = path]
    <3> DEFINE f == [Popped[Len(Popped)] EXCEPT !.best = path]
    <3>1. Popped[Len(Popped)] \in Frames /\ Len(Popped) \in 1..Len(Popped)
      BY <1>3, <2>1, <2>3
    <3>2. f \in Frames /\ f.at = Popped[Len(Popped)].at /\ f.best = path /\ f.left = Popped[Len(Popped)].left
      BY <1>7, <3>1 DEF Frames
    <3>3. work' = [Popped EXCEPT ![Len(Popped)] = f]
      BY <2>3
    <3> HIDE DEF f
    <3>4. /\ work' \in Seq(Frames) /\ Len(work') = Len(Popped)
          /\ \A k \in 1..Len(Popped) : work'[k] = IF k = Len(Popped) THEN f ELSE Popped[k]
      BY <2>1, <3>1, <3>2, <3>3, ExceptSeq
    <3> QED
      BY <1>3, <2>1, <3>2, <3>4
  <2> QED
    BY <2>2, <2>3 DEF Finish, path
<1>17. \A k \in 1..Len(work') : k \in 1..Len(work) /\ k # Len(work)
  BY <1>3, <1>16
<1>18. Framed'
  <2>1. \A k \in 1..Len(work') : work[k].at # at /\ work[k].at \in nodes
    <3>1. \A k \in 1..Len(work) : work[k] \in Frames
      BY <1>3
    <3> QED
      BY <1>2, <1>3, <1>4, <1>17, <3>1 DEF Framed, Frames, at
  <2>2. \A k \in 1..Len(work') : memo'[work'[k].at] = <<>>
    <3>1. \A k \in 1..Len(work) : memo[work[k].at] = <<>>
      BY <1>2 DEF Framed
    <3> QED
      BY <1>8, <1>16, <1>17, <2>1, <3>1
  <2>3. \A k \in 1..Len(work') : \A n \in work'[k].left : <<n, work'[k].at>> \in edges'
    BY <1>1, <1>2, <1>16, <1>17 DEF Framed
  <2>4. \A k \in 1..Len(work') : \A m \in 1..Len(work') : work'[k].at = work'[m].at => k = m
    BY <1>2, <1>16, <1>17 DEF Framed
  <2>5. \A k \in 2..Len(work') : <<work'[k].at, work'[k - 1].at>> \in edges'
    <3>1. \A k \in 2..Len(work') : k \in 1..Len(work') /\ k - 1 \in 1..Len(work') /\ k \in 2..Len(work)
      BY <1>3, <1>16
    <3> QED
      BY <1>1, <1>2, <1>16, <3>1 DEF Framed
  <2>6. Frames' = Frames
    BY <1>1 DEF Frames
  <2> QED
    BY <1>16, <2>2, <2>3, <2>4, <2>5, <2>6 DEF Framed
<1>19. Bests'
  <2>1. ASSUME NEW k \in 1..Len(work'), work'[k].best # <<>>
        PROVE  (LET p == work'[k].best IN
                  /\ Walk(p) /\ <<p[Len(p)], work'[k].at>> \in edges
                  /\ \A i \in 1..Len(p) : p[i] \in nodes /\ memo'[p[i]] # <<>>)
    <3>1. CASE work'[k].best = work[k].best
      BY <1>2, <1>12, <1>16, <1>17, <2>1, <3>1 DEF Bests
    <3>2. CASE k = Len(work') /\ work'[k].best = path
      <4>1. <<work[Len(work)].at, work[Len(work) - 1].at>> \in edges /\ k = Len(work) - 1
        BY <1>2, <1>3, <1>16, <2>1, <3>2 DEF Framed
      <4> QED
        BY <1>4, <1>7, <1>11, <1>13, <1>16, <3>2, <4>1 DEF at
    <3> QED
      BY <1>16, <3>1, <3>2
  <2> QED
    BY <1>1, <2>1 DEF Bests, Walk, AllFound
<1> QED
  BY <1>14, <1>15, <1>18, <1>19 DEF Paths

\* No step of the analysis breaks the invariant of the last loop.
LEMMA StepPaths == Paths /\ [GraphNext]_graphVars => Paths'
<1> SUFFICES ASSUME Paths, [GraphNext]_graphVars
             PROVE  Paths'
  OBVIOUS
<1>1. CASE Feed \/ Fed \/ Visit \/ Follow \/ Close
  BY <1>1, EarlierKeep
<1>2. CASE UNCHANGED graphVars
  <2>1. /\ UNCHANGED <<nodes, edges, dests, phase>> /\ memo' = memo /\ work' = work
        /\ Frames' = Frames /\ Unknown(nodes') = Unknown(nodes)
    BY <1>2 DEF graphVars, Frames
  <2>2. Snapshot' /\ Unfound'
    BY <2>1 DEF Paths, Snapshot, Unfound
  <2>3. Remembered'
    BY <2>1 DEF Paths, Remembered, Walk, AllFound
  <2>4. phase' = "path" => Framed'
    BY <2>1 DEF Paths, Framed
  <2>5. phase' = "path" => Bests'
    BY <2>1 DEF Paths, Bests, Walk, AllFound
  <2> QED
    BY <2>2, <2>3, <2>4, <2>5 DEF Paths
<1> QED
  BY <1>1, <1>2, CycledKeeps, TraceKeeps, FinishKeeps DEF GraphNext

\* Every path that longestCablePathTo remembers is made of cables, in their
\* direction, and names no module twice, in a snapshot of any size.
THEOREM ChainsCorrect == GraphSpec => []Chains
<1>1. GraphSpec => []Paths
  BY InitPaths, StepPaths, PTL DEF GraphSpec
<1>2. Paths => Chains
  BY DEF Paths, Remembered, Chains
<1> QED
  BY <1>1, <1>2, PTL

\* The test that a path does not hold the module it would be joined to
\* (analysis.ts:115) never fails: dropping it would change nothing.
THEOREM NeverRepeats == GraphSpec => []Redundant
<1>1. GraphSpec => []Paths
  BY InitPaths, StepPaths, PTL DEF GraphSpec
<1>2. Paths => Redundant
  <2> SUFFICES ASSUME Paths, phase = "path", NEW k \in 1..Len(work), NEW n \in nodes,
                      work[k].at \in Ids(memo[n])
               PROVE  FALSE
    BY DEF Redundant
  <2>1. memo[n] \in Seq(nodes)
    BY DEF Paths, Remembered
  <2>2. PICK i \in 1..Len(memo[n]) : memo[n][i] = work[k].at
    BY <2>1 DEF Ids
  <2>3. memo[n] # <<>>
    BY <2>1, <2>2
  <2>4. memo[work[k].at] # <<>>
    BY <2>2, <2>3 DEF Paths, Remembered, AllFound
  <2> QED
    BY <2>4 DEF Paths, Framed
<1> QED
  BY <1>1, <1>2, PTL

-----------------------------------------------------------------------------
(***************************************************************************)
(* How far back a module of a snapshot without loops goes. Routes are      *)
(* paths of cables that end at a module; without loops they repeat no      *)
(* module, so there are finitely many lengths and one is the greatest. The *)
(* frames of the last loop hold, for each module, a path as long as the    *)
(* sources done so far allow.                                              *)
(***************************************************************************)

Below == {p \in Nat \X Nat : p[1] < p[2]}

\* A set of numbers has a least member.
LEMMA LeastIs ==
  ASSUME NEW T \in SUBSET Nat, T # {}
  PROVE  \E x \in T : \A y \in T : x <= y
<1>1. OpToRel(<, Nat) = Below
  BY DEF OpToRel, Below
<1>2. IsWellFoundedOn(Below, Nat)
  BY <1>1, NatLessThanWellFounded
<1>5. T \subseteq Nat
  OBVIOUS
<1>3. PICK x \in T : \A y \in T : ~ (<<y, x>> \in Below)
  BY <1>2, <1>5, WFMin
<1>4. ASSUME NEW y \in T, ~(x <= y) PROVE FALSE
  <2>1. x \in Nat /\ y \in Nat /\ y < x
    BY <1>4
  <2>2. <<y, x>> \in Below
    BY <2>1 DEF Below
  <2> QED
    BY <1>3, <2>2
<1> QED
  BY <1>4

\* A bounded set of numbers has a greatest member.
LEMMA GreatestIs ==
  ASSUME NEW S \in SUBSET Nat, S # {}, NEW b \in Nat, \A k \in S : k <= b
  PROVE  \E k \in S : \A j \in S : j <= k
<1> DEFINE T == {i \in Nat : b - i \in S}
<1>1. T \in SUBSET Nat /\ T # {}
  <2>1. PICK k \in S : TRUE
    OBVIOUS
  <2>2. b - k \in Nat /\ b - (b - k) = k
    OBVIOUS
  <2> QED
    BY <2>1, <2>2
<1>2. PICK x \in T : \A y \in T : x <= y
  <2> HIDE DEF T
  <2> QED
    BY <1>1, LeastIs
<1>3. ASSUME NEW j \in S PROVE j <= b - x
  <2>1. b - j \in Nat /\ b - (b - j) = j
    OBVIOUS
  <2>2. b - j \in T
    BY <2>1
  <2>3. x <= b - j /\ x \in Nat
    BY <1>2, <2>2
  <2> QED
    BY <2>3
<1> QED
  BY <1>2, <1>3

\* A path of cables, each module of which leads to those that follow.
Route(p, n) ==
  /\ p \in Seq(nodes) /\ p # <<>> /\ p[Len(p)] = n
  /\ \A i \in 2..Len(p) : <<p[i - 1], p[i]>> \in edges
  /\ \A i \in 1..Len(p) : \A j \in 1..Len(p) : i <= j => Reach(p[i], p[j])

RouteLengths(n) == {k \in Nat : \E p \in Seq(nodes) : Route(p, n) /\ Len(p) = k}

\* Without loops a route repeats no module, so it is no longer than there are modules.
LEMMA RoutesShort ==
  ASSUME Joins, IsFiniteSet(nodes), Acyclic, NEW n, NEW p, Route(p, n)
  PROVE  Len(p) <= Cardinality(nodes)
<1>1. p \in Seq(nodes) /\ Len(p) \in Nat
  BY DEF Route
<1>2. ASSUME NEW i \in 1..Len(p), NEW j \in 1..Len(p), i < j, p[i] = p[j] PROVE FALSE
  <2>1. j \in 2..Len(p) /\ j - 1 \in 1..Len(p) /\ i <= j - 1
    BY <1>1, <1>2
  <2>2. <<p[j - 1], p[j]>> \in edges /\ Reach(p[i], p[j - 1])
    BY <2>1 DEF Route
  <2>3. p[j] \in nodes /\ p[j - 1] \in nodes
    BY <1>1, <2>1
  <2>4. Looped(p[j])
    BY <1>2, <2>2, <2>3 DEF Looped
  <2> QED
    BY <2>3, <2>4, LoopedIs DEF Acyclic
<1>3. \A i \in 1..Len(p) : \A j \in 1..Len(p) : p[i] = p[j] => i = j
  BY <1>1, <1>2
<1>4. p \in [1..Len(p) -> nodes]
  BY <1>1
<1>5. p \in Injection(1..Len(p), nodes)
  BY <1>3, <1>4 DEF Injection, IsInjective
<1>6. Cardinality(1..Len(p)) = Len(p)
  BY <1>1, FS_Interval
<1> QED
  BY <1>5, <1>6, FS_Injection

\* A module alone is a route.
LEMMA RouteAlone ==
  ASSUME NEW n \in nodes
  PROVE  Route(<<n>>, n) /\ Len(<<n>>) = 1
<1>1. <<n>> \in Seq(nodes) /\ <<n>> # <<>> /\ Len(<<n>>) = 1 /\ <<n>>[1] = n
  OBVIOUS
<1>2. \A i \in 1..1 : i = 1
  OBVIOUS
<1>3. \A i \in 2..1 : FALSE
  OBVIOUS
<1> QED
  BY <1>1, <1>2, <1>3, ReachSelf DEF Route

\* A cable lengthens a route to its source.
LEMMA RouteFurther ==
  ASSUME Joins, NEW n, NEW m \in Sources(n), NEW p, Route(p, m)
  PROVE  Route(Append(p, n), n) /\ Len(Append(p, n)) = Len(p) + 1
<1> DEFINE q == Append(p, n)
<1>1. n \in nodes /\ m \in nodes /\ <<m, n>> \in edges
  BY SourcesIn DEF Joins
<1>2. p \in Seq(nodes) /\ Len(p) \in Nat \ {0} /\ p[Len(p)] = m
  BY DEF Route
<1>3. /\ q \in Seq(nodes) /\ Len(q) = Len(p) + 1 /\ q[Len(q)] = n /\ q # <<>>
      /\ \A i \in 1..Len(p) : q[i] = p[i]
      /\ \A i \in 1..Len(q) : i \in 1..Len(p) \/ i = Len(q)
  BY <1>1, <1>2
<1> HIDE DEF q
<1>4. ASSUME NEW i \in 2..Len(q) PROVE <<q[i - 1], q[i]>> \in edges
  <2>1. CASE i = Len(q)
    <3>1. i - 1 = Len(p) /\ Len(p) \in 1..Len(p)
      BY <1>2, <1>3, <2>1
    <3> QED
      BY <1>1, <1>2, <1>3, <2>1, <3>1
  <2>2. CASE i # Len(q)
    <3>1. i \in 2..Len(p) /\ i \in 1..Len(p) /\ i - 1 \in 1..Len(p)
      BY <1>2, <1>3, <2>2
    <3>2. <<p[i - 1], p[i]>> \in edges
      BY <3>1 DEF Route
    <3> QED
      BY <1>3, <3>1, <3>2
  <2> QED
    BY <2>1, <2>2
<1>5. ASSUME NEW i \in 1..Len(q), NEW j \in 1..Len(q), i <= j PROVE Reach(q[i], q[j])
  <2>1. CASE j \in 1..Len(p) /\ i \in 1..Len(p)
    <3>1. Reach(p[i], p[j])
      BY <1>5, <2>1 DEF Route
    <3> QED
      BY <1>3, <2>1, <3>1
  <2>2. CASE j = Len(q) /\ i = Len(q)
    BY <1>1, <1>3, <2>2, ReachSelf
  <2>3. CASE j = Len(q) /\ i \in 1..Len(p)
    <3>1. Len(p) \in 1..Len(p) /\ i <= Len(p)
      BY <1>2, <2>3
    <3>2. Reach(p[i], m)
      BY <1>2, <2>3, <3>1 DEF Route
    <3>3. Reach(m, n)
      BY <1>1, ReachEdge
    <3> QED
      BY <1>1, <1>3, <2>3, <3>2, <3>3, ReachTrans
  <2>4. ~(j \in 1..Len(p) /\ i = Len(q))
    BY <1>2, <1>3, <1>5
  <2> QED
    BY <1>3, <2>1, <2>2, <2>3, <2>4
<1> QED
  BY <1>3, <1>4, <1>5 DEF Route, q

\* A route of several modules goes by way of a source.
LEMMA RouteBefore ==
  ASSUME Joins, NEW n, NEW p, Route(p, n), Len(p) # 1
  PROVE  \E m \in Sources(n) : Len(p) - 1 \in RouteLengths(m)
<1>1. p \in Seq(nodes) /\ Len(p) \in Nat \ {0} /\ p[Len(p)] = n
  BY DEF Route
<1> DEFINE l == Len(p) - 1
           q == SubSeq(p, 1, l)
<1>2. l \in Nat \ {0} /\ l \in 1..Len(p) /\ Len(p) \in 2..Len(p)
  <2>1. \A k \in Nat \ {0} : k # 1 => k - 1 \in Nat \ {0} /\ k - 1 \in 1..k /\ k \in 2..k
    OBVIOUS
  <2> QED
    BY <1>1, <2>1
<1>3. q \in Seq(nodes) /\ Len(q) = l /\ \A i \in 1..l : q[i] = p[i]
  BY <1>1, <1>2, FrontIs
<1>4. <<p[l], n>> \in edges
  BY <1>1, <1>2 DEF Route
<1>5. Route(q, p[l])
  <2>1. q # <<>> /\ q[Len(q)] = p[l]
    <3>1. l \in 1..l
      BY <1>2
    <3> HIDE DEF l, q
    <3> QED
      BY <1>2, <1>3, <3>1
  <2>2. \A i \in 1..l : i \in 1..Len(p)
    BY <1>1
  <2>3. \A i \in 2..l : i \in 2..Len(p) /\ i \in 1..l /\ i - 1 \in 1..l
    BY <1>1
  <2>4. \A i \in 2..l : <<q[i - 1], q[i]>> \in edges
    <3>1. \A i \in 2..Len(p) : <<p[i - 1], p[i]>> \in edges
      BY DEF Route
    <3> QED
      BY <1>3, <2>3, <3>1
  <2>5. \A i \in 1..l : \A j \in 1..l : i <= j => Reach(q[i], q[j])
    <3>1. \A i \in 1..Len(p) : \A j \in 1..Len(p) : i <= j => Reach(p[i], p[j])
      BY DEF Route
    <3> QED
      BY <1>3, <2>2, <3>1
  <2> HIDE DEF l, q
  <2> QED
    BY <1>3, <2>1, <2>4, <2>5 DEF Route
<1>6. p[l] \in Sources(n)
  BY <1>4, SourcesIn
<1> HIDE DEF q
<1> QED
  BY <1>2, <1>3, <1>5, <1>6 DEF RouteLengths

Longest(n) == CHOOSE k \in RouteLengths(n) : \A j \in RouteLengths(n) : j <= k

\* Without loops one of the routes to a module is the longest.
LEMMA LongestIs ==
  ASSUME Joins, IsFiniteSet(nodes), Acyclic, NEW n \in nodes
  PROVE  Longest(n) \in RouteLengths(n) /\ Longest(n) \in Nat \ {0} /\ \A j \in RouteLengths(n) : j <= Longest(n)
<1>1. 1 \in RouteLengths(n)
  <2>1. <<n>> \in Seq(nodes)
    OBVIOUS
  <2> QED
    BY <2>1, RouteAlone DEF RouteLengths
<1>2. \A j \in RouteLengths(n) : j <= Cardinality(nodes)
  BY RoutesShort DEF RouteLengths
<1>3. RouteLengths(n) \in SUBSET Nat /\ Cardinality(nodes) \in Nat
  BY FS_CardinalityType DEF RouteLengths
<1>4. \E k \in RouteLengths(n) : \A j \in RouteLengths(n) : j <= k
  BY <1>1, <1>2, <1>3, GreatestIs
<1>5. Longest(n) \in RouteLengths(n) /\ \A j \in RouteLengths(n) : j <= Longest(n)
  BY <1>4 DEF Longest
<1> QED
  BY <1>1, <1>3, <1>5

\* What Depth is of the depths d of the sources.
Deeper(d, n) ==
  IF Sources(n) = {} THEN 1
  ELSE 1 + (CHOOSE k \in {d[m] : m \in Sources(n)} : \A m \in Sources(n) : d[m] <= k)

\* The greatest of them is found.
LEMMA DeeperIs ==
  ASSUME NEW d, NEW n, NEW m \in Sources(n), \A s \in Sources(n) : d[s] \in Nat /\ d[s] <= d[m]
  PROVE  Deeper(d, n) = 1 + d[m]
<1> DEFINE S == {d[s] : s \in Sources(n)}
<1>1. d[m] \in S /\ \A s \in Sources(n) : d[s] <= d[m]
  OBVIOUS
<1> DEFINE k == CHOOSE k \in S : \A s \in Sources(n) : d[s] <= k
<1>2. k \in S /\ d[m] <= k
  BY <1>1
<1>3. PICK s \in Sources(n) : k = d[s]
  BY <1>2
<1>4. k = d[m]
  BY <1>1, <1>2, <1>3
<1> QED
  BY <1>4 DEF Deeper

\* Without loops Depth is what its recursive definition says.
LEMMA DepthIs ==
  ASSUME Joins, IsFiniteSet(nodes), Acyclic
  PROVE  \A n \in nodes : Depth[n] = Deeper(Depth, n)
<1> DEFINE D == [n \in nodes |-> Longest(n)]
<1>1. \A n \in nodes : D[n] = Longest(n) /\ D[n] \in Nat \ {0}
  BY LongestIs
<1>2. ASSUME NEW n \in nodes PROVE D[n] = Deeper(D, n)
  <2>1. Longest(n) \in RouteLengths(n) /\ \A j \in RouteLengths(n) : j <= Longest(n)
    BY LongestIs
  <2>2. PICK p \in Seq(nodes) : Route(p, n) /\ Len(p) = Longest(n)
    BY <2>1 DEF RouteLengths
  <2>3. Sources(n) \in SUBSET nodes
    BY SourcesIn
  <2>4. CASE Sources(n) = {}
    <3>1. Len(p) = 1
      BY <2>2, <2>4, RouteBefore
    <3> QED
      BY <1>1, <2>2, <2>4, <3>1 DEF Deeper
  <2>5. CASE Sources(n) # {}
    <3> DEFINE S == {D[m] : m \in Sources(n)}
    <3>1. S \in SUBSET Nat /\ S # {}
      BY <1>1, <2>3, <2>5
    <3>2. Cardinality(nodes) \in Nat
      BY FS_CardinalityType
    <3>3. \A k \in S : k <= Cardinality(nodes)
      BY <1>1, <2>3, LongestIs, RoutesShort DEF RouteLengths
    <3>4. PICK K \in S : \A j \in S : j <= K
      <4> HIDE DEF S
      <4> QED
        BY <3>1, <3>2, <3>3, GreatestIs
    <3>5. PICK m \in Sources(n) : K = D[m]
      BY <3>4
    <3>6. \A s \in Sources(n) : D[s] \in Nat /\ D[s] <= D[m]
      BY <1>1, <2>3, <3>4, <3>5
    <3>7. Deeper(D, n) = 1 + D[m]
      <4> HIDE DEF D
      <4> QED
        BY <3>6, DeeperIs
    <3>8. 1 + D[m] <= Longest(n)
      <4>1. PICK q \in Seq(nodes) : Route(q, m) /\ Len(q) = Longest(m)
        BY <2>3, LongestIs DEF RouteLengths
      <4>2. Route(Append(q, n), n) /\ Len(Append(q, n)) = Len(q) + 1
        BY <4>1, RouteFurther
      <4>3. Append(q, n) \in Seq(nodes) /\ Len(q) + 1 \in Nat
        BY <4>1
      <4>4. Len(q) + 1 \in RouteLengths(n)
        BY <4>2, <4>3 DEF RouteLengths
      <4> QED
        BY <1>1, <2>1, <2>3, <4>1, <4>3, <4>4
    <3>9. Longest(n) <= 1 + D[m]
      <4>1. CASE Len(p) = 1
        BY <1>1, <2>2, <2>3, <4>1
      <4>2. CASE Len(p) # 1
        <5>1. PICK s \in Sources(n) : Len(p) - 1 \in RouteLengths(s)
          BY <2>2, <4>2, RouteBefore
        <5>2. Len(p) - 1 <= D[s] /\ Len(p) \in Nat
          BY <1>1, <2>2, <2>3, <5>1, LongestIs
        <5> HIDE DEF D
        <5>3. D[s] \in Nat /\ D[m] \in Nat /\ D[s] <= D[m]
          BY <3>6
        <5> QED
          BY <2>2, <5>2, <5>3
      <4> QED
        BY <4>1, <4>2
    <3> QED
      BY <1>1, <2>3, <3>6, <3>7, <3>8, <3>9
  <2> QED
    BY <2>4, <2>5
<1>3. D = [n \in nodes |-> Deeper(D, n)]
  BY <1>2
<1> HIDE DEF D
<1>4. \E d : d = [n \in nodes |-> Deeper(d, n)]
  BY <1>3
<1>5. Depth = CHOOSE d : d = [n \in nodes |-> Deeper(d, n)]
  BY DEF Depth, Deeper
<1>6. Depth = [n \in nodes |-> Deeper(Depth, n)]
  BY <1>4, <1>5
<1> QED
  BY <1>6

\* What Trace does to the frames: it takes a cable off the one on top, and may put its
\* source above it, or the source's path in place of the best.
LEMMA TraceIs ==
  ASSUME Paths, Trace
  PROVE  /\ UNCHANGED <<nodes, edges, dests, memo, phase>> /\ phase = "path"
         /\ Len(work) \in Nat \ {0} /\ Len(work) \in 1..Len(work) /\ work' \in Seq(Frames)
         /\ \A k \in 1..Len(work) : work'[k].at = work[k].at /\ (k # Len(work) => work'[k] = work[k])
         /\ \E n \in nodes :
              /\ n \in work[Len(work)].left /\ <<n, work[Len(work)].at>> \in edges
              /\ work'[Len(work)].left = work[Len(work)].left \ {n}
              /\ \/ /\ OnStack(n) /\ Len(work') = Len(work) /\ work'[Len(work)].best = work[Len(work)].best
                 \/ /\ ~OnStack(n) /\ memo[n] = <<>> /\ Len(work') = Len(work) + 1
                    /\ work'[Len(work) + 1] = Frame(n, Sources(n)) /\ work'[Len(work)].best = work[Len(work)].best
                 \/ /\ memo[n] # <<>> /\ Len(work') = Len(work)
                    /\ \/ work'[Len(work)].best = memo[n] /\ Takes(memo[n], work[Len(work)])
                       \/ work'[Len(work)].best = work[Len(work)].best /\ ~Takes(memo[n], work[Len(work)])
<1>1. UNCHANGED <<nodes, edges, dests, memo, phase>> /\ phase = "path" /\ work # <<>>
  BY DEF Trace, snapshot
<1>2. Framed /\ Snapshot /\ Remembered
  BY <1>1 DEF Paths
<1>3. Len(work) \in Nat \ {0} /\ work \in Seq(Frames) /\ Len(work) \in 1..Len(work)
  BY <1>1, <1>2 DEF Framed
<1>4. Top \in Frames /\ Top = work[Len(work)]
  BY <1>3 DEF Top
<1>5. PICK n \in Top.left :
        LET looked == [work EXCEPT ![Len(work)].left = @ \ {n}] IN
        work' = IF OnStack(n) THEN looked
                ELSE IF memo[n] = <<>> THEN Append(looked, Frame(n, Sources(n)))
                ELSE IF Takes(memo[n], Top) THEN [looked EXCEPT ![Len(work)].best = memo[n]]
                ELSE looked
  BY DEF Trace
<1>6. n \in nodes /\ <<n, Top.at>> \in edges
  <2>1. <<n, Top.at>> \in edges
    BY <1>2, <1>3, <1>4 DEF Framed
  <2> QED
    BY <1>2, <2>1 DEF Snapshot
<1> DEFINE looked == [work EXCEPT ![Len(work)].left = @ \ {n}]
<1>7. /\ looked \in Seq(Frames) /\ Len(looked) = Len(work)
      /\ \A k \in 1..Len(work) : k # Len(work) => looked[k] = work[k]
      /\ looked[Len(work)].at = Top.at /\ looked[Len(work)].best = Top.best
      /\ looked[Len(work)].left = Top.left \ {n}
  <2> DEFINE f == [Top EXCEPT !.left = @ \ {n}]
  <2>1. f \in Frames /\ f.at = Top.at /\ f.best = Top.best /\ f.left = Top.left \ {n}
    BY <1>4 DEF Frames
  <2>2. looked = [work EXCEPT ![Len(work)] = f]
    BY <1>4
  <2> HIDE DEF f, looked
  <2>3. /\ looked \in Seq(Frames) /\ Len(looked) = Len(work)
        /\ \A k \in 1..Len(work) : looked[k] = IF k = Len(work) THEN f ELSE work[k]
    BY <1>3, <2>1, <2>2, ExceptSeq
  <2> QED
    BY <1>3, <2>1, <2>3
<1> HIDE DEF looked
<1>8. work' = IF OnStack(n) THEN looked
              ELSE IF memo[n] = <<>> THEN Append(looked, Frame(n, Sources(n)))
              ELSE IF Takes(memo[n], Top) THEN [looked EXCEPT ![Len(work)].best = memo[n]]
              ELSE looked
  BY <1>5 DEF looked
<1>9. CASE work' = looked /\ (OnStack(n) \/ (memo[n] # <<>> /\ ~Takes(memo[n], Top)))
  BY <1>1, <1>3, <1>4, <1>6, <1>7, <1>9
<1>10. CASE ~OnStack(n) /\ memo[n] = <<>> /\ work' = Append(looked, Frame(n, Sources(n)))
  <2>1. Sources(n) \subseteq nodes
    BY <1>2, SourcesAre
  <2>2. Frame(n, Sources(n)) \in Frames
    BY <1>6, <2>1 DEF Frame, Frames
  <2>3. /\ work' \in Seq(Frames) /\ Len(work') = Len(work) + 1
        /\ work'[Len(work) + 1] = Frame(n, Sources(n))
        /\ \A k \in 1..Len(work) : work'[k] = looked[k]
    BY <1>3, <1>7, <1>10, <2>2
  <2> QED
    BY <1>1, <1>3, <1>4, <1>6, <1>7, <1>10, <2>3
<1>11. CASE memo[n] # <<>> /\ Takes(memo[n], Top) /\ work' = [looked EXCEPT ![Len(work)].best = memo[n]]
  <2>1. memo[n] \in Seq(nodes)
    BY <1>2, <1>6 DEF Remembered
  <2> DEFINE f == [looked[Len(work)] EXCEPT !.best = memo[n]]
  <2>2. looked[Len(work)] \in Frames /\ Len(work) \in 1..Len(looked)
    BY <1>3, <1>7
  <2>3. f \in Frames /\ f.at = looked[Len(work)].at /\ f.best = memo[n] /\ f.left = looked[Len(work)].left
    BY <2>1, <2>2 DEF Frames
  <2>4. work' = [looked EXCEPT ![Len(work)] = f]
    BY <1>11
  <2> HIDE DEF f
  <2>5. /\ work' \in Seq(Frames) /\ Len(work') = Len(looked)
        /\ \A k \in 1..Len(looked) : work'[k] = IF k = Len(work) THEN f ELSE looked[k]
    BY <1>7, <2>2, <2>3, <2>4, ExceptSeq
  <2> QED
    BY <1>1, <1>3, <1>4, <1>6, <1>7, <1>11, <2>3, <2>5
<1> QED
  BY <1>8, <1>9, <1>10, <1>11

\* What Finish does: the path of the module on top is remembered, and the frame below
\* takes it for its best if it is longer.
Finishes(path, at) ==
  /\ UNCHANGED <<nodes, edges, dests>> /\ phase = "path"
  /\ phase' = IF Len(work) = 1 THEN "done" ELSE "path"
  /\ Len(work) \in Nat \ {0} /\ Len(work) \in 1..Len(work)
  /\ at = work[Len(work)].at /\ at \in nodes /\ memo[at] = <<>> /\ work[Len(work)].left = {}
  /\ path \in Seq(nodes) /\ Len(path) = Len(work[Len(work)].best) + 1 /\ path[Len(path)] = at
  /\ Len(work[Len(work)].best) \in Nat
  /\ \A i \in 1..Len(work[Len(work)].best) : path[i] = work[Len(work)].best[i]
  /\ \A i \in 1..Len(path) : i \in 1..Len(work[Len(work)].best) \/ i = Len(path)
  /\ memo'[at] = path /\ path # <<>> /\ \A m \in nodes : m # at => memo'[m] = memo[m]
  /\ Len(work') = Len(work) - 1
  /\ \A k \in 1..Len(work) - 1 :
       /\ k \in 1..Len(work) /\ k + 1 \in 1..Len(work)
       /\ work'[k].at = work[k].at /\ work'[k].left = work[k].left
       /\ IF k + 1 = Len(work) /\ Takes(path, work[k]) THEN work'[k].best = path ELSE work'[k].best = work[k].best

\* What Finish does, with the path that it remembers and the module it is for.
LEMMA FinishIs ==
  ASSUME Paths, Finish
  PROVE  \E path \in Seq(nodes) : \E at \in nodes : Finishes(path, at)
<1> DEFINE path == Append(Top.best, Top.at)
           at == Top.at
<1> SUFFICES path \in Seq(nodes) /\ at \in nodes /\ Finishes(path, at)
  OBVIOUS
<1>0. path = Append(Top.best, Top.at) /\ at = Top.at
  OBVIOUS
<1>05. memo' = [memo EXCEPT ![at] = path]
  BY DEF Finish
<1>01. work' = IF Len(work) > 1 /\ Takes(path, Popped[Len(Popped)])
              THEN [Popped EXCEPT ![Len(Popped)].best = path]
              ELSE Popped
  BY DEF Finish
<1> HIDE DEF path, at
<1>1. /\ UNCHANGED <<nodes, edges, dests>> /\ phase = "path" /\ work # <<>> /\ Top.left = {}
      /\ phase' = IF Len(work) = 1 THEN "done" ELSE "path"
  BY DEF Finish, snapshot
<1>2. Framed /\ Snapshot /\ Remembered
  BY <1>1 DEF Paths
<1>3. Len(work) \in Nat \ {0} /\ work \in Seq(Frames) /\ Len(work) \in 1..Len(work)
  BY <1>1, <1>2 DEF Framed
<1>4. Top \in Frames /\ Top = work[Len(work)] /\ at \in nodes /\ memo[at] = <<>> /\ Top.best \in Seq(nodes)
  <2>1. Top \in Frames /\ Top = work[Len(work)]
    BY <1>3 DEF Top
  <2>2. memo[at] = <<>>
    BY <1>0, <1>2, <1>3, <2>1 DEF Framed
  <2> QED
    BY <1>0, <2>1, <2>2 DEF Frames
<1>5. memo' = [memo EXCEPT ![at] = path] /\ memo \in [nodes -> Seq(nodes)]
  BY <1>05, <1>2 DEF Remembered
<1>6. /\ path \in Seq(nodes) /\ Len(path) = Len(Top.best) + 1 /\ path[Len(path)] = at /\ path # <<>>
      /\ \A i \in 1..Len(Top.best) : path[i] = Top.best[i]
      /\ \A i \in 1..Len(path) : i \in 1..Len(Top.best) \/ i = Len(path)
      /\ Len(Top.best) \in Nat
  BY <1>0, <1>4
<1>7. memo'[at] = path /\ \A m \in nodes : m # at => memo'[m] = memo[m]
  BY <1>4, <1>5
<1>8. /\ Popped \in Seq(Frames) /\ Len(Popped) = Len(work) - 1
      /\ \A k \in 1..Len(work) - 1 : Popped[k] = work[k]
  BY <1>3, FrontIs DEF Popped
<1>9. \A k \in 1..Len(work) - 1 : k \in 1..Len(work) /\ k + 1 \in 1..Len(work)
  BY <1>3
<1>20. /\ UNCHANGED <<nodes, edges, dests>> /\ phase = "path"
       /\ phase' = IF Len(work) = 1 THEN "done" ELSE "path"
       /\ Len(work) \in Nat \ {0} /\ Len(work) \in 1..Len(work)
       /\ at = work[Len(work)].at /\ at \in nodes /\ memo[at] = <<>> /\ work[Len(work)].left = {}
       /\ path \in Seq(nodes) /\ Len(path) = Len(work[Len(work)].best) + 1 /\ path[Len(path)] = at
       /\ Len(work[Len(work)].best) \in Nat
       /\ \A i \in 1..Len(work[Len(work)].best) : path[i] = work[Len(work)].best[i]
       /\ \A i \in 1..Len(path) : i \in 1..Len(work[Len(work)].best) \/ i = Len(path)
       /\ memo'[at] = path /\ path # <<>> /\ \A m \in nodes : m # at => memo'[m] = memo[m]
       /\ \A k \in 1..Len(work) - 1 : k \in 1..Len(work) /\ k + 1 \in 1..Len(work)
  BY <1>0, <1>1, <1>3, <1>4, <1>6, <1>7, <1>9
<1>10. CASE Len(work) > 1 /\ Takes(path, Popped[Len(Popped)])
  <2> DEFINE f == [Popped[Len(Popped)] EXCEPT !.best = path]
  <2>1. Popped[Len(Popped)] \in Frames /\ Len(Popped) \in 1..Len(Popped) /\ Len(Popped) \in 1..Len(work) - 1
        /\ Popped[Len(Popped)] = work[Len(work) - 1]
    BY <1>3, <1>8, <1>10
  <2>2. f \in Frames /\ f.at = Popped[Len(Popped)].at /\ f.best = path /\ f.left = Popped[Len(Popped)].left
    BY <1>6, <2>1 DEF Frames
  <2>3. work' = [Popped EXCEPT ![Len(Popped)] = f]
    <3>1. work' = [Popped EXCEPT ![Len(Popped)].best = path]
      BY <1>01, <1>10
    <3>2. [Popped EXCEPT ![Len(Popped)].best = path] = [Popped EXCEPT ![Len(Popped)] = f]
      BY Zenon
    <3> QED
      BY <3>1, <3>2, Zenon
  <2> HIDE DEF f
  <2>4. /\ work' \in Seq(Frames) /\ Len(work') = Len(Popped)
        /\ \A k \in 1..Len(Popped) : work'[k] = IF k = Len(Popped) THEN f ELSE Popped[k]
    BY <1>8, <2>1, <2>2, <2>3, ExceptSeq
  <2>5. \A k \in 1..Len(work) - 1 :
          /\ work'[k].at = work[k].at /\ work'[k].left = work[k].left
          /\ IF k + 1 = Len(work) /\ Takes(path, work[k]) THEN work'[k].best = path ELSE work'[k].best = work[k].best
    <3>1. \A k \in 1..Len(work) - 1 : k = Len(Popped) <=> k + 1 = Len(work)
      BY <1>3, <1>8
    <3> QED
      BY <1>8, <1>10, <2>1, <2>2, <2>4, <3>1
  <2> QED
    <3>1. Len(work') = Len(work) - 1
      BY <1>8, <2>4
    <3> QED
      BY <1>20, <2>5, <3>1 DEF Finishes
<1>11. CASE ~(Len(work) > 1 /\ Takes(path, Popped[Len(Popped)]))
  <2>1. work' = Popped
    BY <1>01, <1>11
  <2>2. \A k \in 1..Len(work) - 1 : k + 1 = Len(work) => ~Takes(path, work[k])
    <3> SUFFICES ASSUME NEW k \in 1..Len(work) - 1, k + 1 = Len(work) PROVE ~Takes(path, work[k])
      OBVIOUS
    <3>1. k = Len(Popped) /\ Popped[k] = work[k] /\ Len(work) > 1
      BY <1>3, <1>8
    <3> QED
      BY <1>11, <3>1
  <2> QED
    <3>1. Len(work') = Len(work) - 1
      BY <1>8, <2>1
    <3>2. \A k \in 1..Len(work) - 1 :
            /\ k \in 1..Len(work) /\ k + 1 \in 1..Len(work)
            /\ work'[k].at = work[k].at /\ work'[k].left = work[k].left
            /\ ~(k + 1 = Len(work) /\ Takes(path, work[k])) /\ work'[k].best = work[k].best
      BY <1>8, <1>9, <2>1, <2>2
    <3> QED
      BY <1>20, <3>1, <3>2 DEF Finishes
<1> QED
  BY <1>4, <1>6, <1>10, <1>11

Dest == CHOOSE d \in dests : TRUE

\* The loop is for the one destination, whose frame is the first.
Aimed ==
  /\ phase = "path" => Cardinality(dests) = 1 /\ Len(work) > 0 /\ work[1].at = Dest
  /\ phase = "done" /\ Cardinality(dests) = 1 => memo[Dest] # <<>>

\* What a path names leads to its end, and each frame to the frames below.
Leading ==
  /\ \A n \in nodes : \A i \in 1..Len(memo[n]) : Reach(memo[n][i], n)
  /\ phase = "path" => \A k \in 1..Len(work) : \A i \in 1..Len(work[k].best) : Reach(work[k].best[i], work[k].at)
Chained == phase = "path" => \A k \in 1..Len(work) : \A j \in 1..Len(work) : k <= j => Reach(work[j].at, work[k].at)

\* Without loops: the path of a module is longer by one than the longest of its sources'.
Sourced ==
  Acyclic => \A n \in nodes : memo[n] # <<>> =>
    /\ \A m \in Sources(n) : memo[m] # <<>> /\ Len(memo[m]) < Len(memo[n])
    /\ Len(memo[n]) = 1 \/ \E m \in Sources(n) : Len(memo[n]) = Len(memo[m]) + 1

\* Without loops: a source is yet to be looked at, above on the stack, or no further than the best path.
Offered ==
  Acyclic /\ phase = "path" => \A k \in 1..Len(work) :
    /\ \A m \in Sources(work[k].at) :
         \/ m \in work[k].left
         \/ k < Len(work) /\ work[k + 1].at = m
         \/ memo[m] # <<>> /\ Len(memo[m]) <= Len(work[k].best)
    /\ work[k].best = <<>> \/ \E m \in Sources(work[k].at) : memo[m] = work[k].best

Lengths == Aimed /\ Leading /\ Chained /\ Sourced /\ Offered

\* What the cables alone decide.
LEMMA CablesDecide ==
  ASSUME UNCHANGED <<nodes, edges>>
  PROVE  /\ \A x : \A y : Reach(x, y)' <=> Reach(x, y)
         /\ \A n : Sources(n)' = Sources(n)
         /\ Acyclic' <=> Acyclic
BY DEF Reach, Sources, Acyclic, Feeding

\* No source of the module on top is on the stack, and no path holds a module on it.
LEMMA NoneOnStack ==
  ASSUME Joins, Paths, Lengths, Acyclic, phase = "path", Len(work) \in 1..Len(work),
         NEW n \in nodes, <<n, work[Len(work)].at>> \in edges
  PROVE  ~OnStack(n)
<1> SUFFICES ASSUME OnStack(n) PROVE FALSE
  OBVIOUS
<1>1. work \in Seq(Frames) /\ Len(work) \in Nat
  BY DEF Paths, Framed
<1>2. PICK k \in 1..Len(work) : work[k].at = n
  BY <1>1 DEF OnStack
<1>3. k <= Len(work)
  BY <1>1
<1>4. Reach(work[Len(work)].at, n)
  BY <1>2, <1>3 DEF Lengths, Chained
<1>5. work[Len(work)].at \in nodes
  BY DEF Joins
<1> QED
  BY <1>4, <1>5, LoopedIs DEF Looped, Acyclic

\* What the steps read of the frames and of the memo.
LEMMA FrameFacts ==
  ASSUME Paths, phase = "path"
  PROVE  /\ Len(work) \in Nat
         /\ \A k \in 1..Len(work) : /\ work[k].at \in nodes /\ memo[work[k].at] = <<>> /\ Len(work[k].best) \in Nat
                                    /\ \A i \in 1..Len(work[k].best) : memo[work[k].best[i]] # <<>>
         /\ \A n \in nodes : Len(memo[n]) \in Nat
         /\ \A n \in nodes : \A k \in 1..Len(work) : work[k].at \notin Ids(memo[n])
<1>1. work \in Seq(Frames) /\ Len(work) \in Nat /\ \A k \in 1..Len(work) : memo[work[k].at] = <<>>
  BY DEF Paths, Framed
<1>2. \A k \in 1..Len(work) : work[k] \in Frames
  BY <1>1
<1>3. \A f \in Frames : f.at \in nodes /\ f.best \in Seq(nodes)
  BY DEF Frames
<1>4. \A n \in nodes : memo[n] \in Seq(nodes)
  BY DEF Paths, Remembered
<1>5. ASSUME NEW k \in 1..Len(work), NEW i \in 1..Len(work[k].best) PROVE memo[work[k].best[i]] # <<>>
  <2>1. work[k].best # <<>>
    BY <1>2, <1>3
  <2> QED
    BY <2>1 DEF Paths, Bests, AllFound
<1>6. ASSUME NEW n \in nodes, NEW k \in 1..Len(work), work[k].at \in Ids(memo[n]) PROVE FALSE
  <2>1. PICK i \in 1..Len(memo[n]) : memo[n][i] = work[k].at
    BY <1>4, <1>6 DEF Ids
  <2>2. memo[n] # <<>>
    BY <1>4, <2>1
  <2>3. memo[work[k].at] # <<>>
    BY <2>1, <2>2 DEF Paths, Remembered, AllFound
  <2> QED
    BY <1>1, <2>3
<1> QED
  BY <1>1, <1>2, <1>3, <1>4, <1>5, <1>6

\* Taking a cable off the frame on top keeps the lengths.
LEMMA TraceLengths ==
  ASSUME Joins, Paths, Lengths, Trace
  PROVE  Lengths'
<1> DEFINE l == Len(work)
           t == work[l].at
<1>1. UNCHANGED <<nodes, edges, dests, memo, phase>> /\ phase = "path"
  BY TraceIs
<1>2. l \in Nat \ {0} /\ l \in 1..l /\ \A k \in 1..l : work'[k].at = work[k].at /\ (k # l => work'[k] = work[k])
  BY TraceIs
<1>3. PICK n \in nodes :
        /\ n \in work[l].left /\ <<n, t>> \in edges /\ work'[l].left = work[l].left \ {n}
        /\ \/ /\ OnStack(n) /\ Len(work') = l /\ work'[l].best = work[l].best
           \/ /\ ~OnStack(n) /\ memo[n] = <<>> /\ Len(work') = l + 1
              /\ work'[l + 1] = Frame(n, Sources(n)) /\ work'[l].best = work[l].best
           \/ /\ memo[n] # <<>> /\ Len(work') = l
              /\ \/ work'[l].best = memo[n] /\ Takes(memo[n], work[l])
                 \/ work'[l].best = work[l].best /\ ~Takes(memo[n], work[l])
  BY TraceIs
<1>4. /\ \A k \in 1..l : work[k].at \in nodes /\ memo[work[k].at] = <<>> /\ Len(work[k].best) \in Nat
      /\ \A m \in nodes : Len(memo[m]) \in Nat
      /\ \A m \in nodes : \A k \in 1..l : work[k].at \notin Ids(memo[m])
  BY <1>1, FrameFacts
<1>5. /\ Frame(n, Sources(n)).at = n /\ Frame(n, Sources(n)).left = Sources(n)
      /\ Frame(n, Sources(n)).best = <<>> /\ Len(<<>>) = 0
  BY DEF Frame
<1>6. /\ Len(work') = l \/ (Len(work') = l + 1 /\ work'[l + 1] = Frame(n, Sources(n)))
      /\ \A k \in 1..Len(work') : k \in 1..l \/ (k = l + 1 /\ Len(work') = l + 1)
      /\ \A k \in 1..l : k \in 1..Len(work')
  <2>1. Len(work') = l \/ (Len(work') = l + 1 /\ work'[l + 1] = Frame(n, Sources(n)))
    BY <1>3
  <2> HIDE DEF l
  <2>2. CASE Len(work') = l
    BY <1>2, <2>2
  <2>3. CASE Len(work') = l + 1 /\ work'[l + 1] = Frame(n, Sources(n))
    BY <1>2, <2>3
  <2> QED
    BY <2>1, <2>2, <2>3
<1>7. /\ \A x : \A y : Reach(x, y)' <=> Reach(x, y)
      /\ \A m : Sources(m)' = Sources(m)
      /\ Acyclic' <=> Acyclic
  BY <1>1, CablesDecide
<1>8. Reach(n, t) /\ t \in nodes
  BY <1>2, <1>3, <1>4, ReachEdge
<1>9. Aimed'
  <2>1. 1 \in 1..l
    BY <1>2
  <2> QED
    BY <1>1, <1>2, <1>6, <2>1 DEF Lengths, Aimed, Dest
<1>10. Leading'
  <2>1. ASSUME NEW k \in 1..Len(work'), NEW i \in 1..Len(work'[k].best) PROVE Reach(work'[k].best[i], work'[k].at)
    <3>1. k \in 1..l
      BY <1>5, <1>6
    <3>2. CASE work'[k].best = work[k].best
      BY <1>1, <1>2, <3>1, <3>2 DEF Lengths, Leading
    <3>3. CASE k = l /\ work'[l].best = memo[n]
      <4>1. Reach(memo[n][i], n)
        BY <3>3 DEF Lengths, Leading
      <4> QED
        BY <1>2, <1>8, <3>3, <4>1, ReachTrans
    <3> QED
      BY <1>2, <1>3, <3>1, <3>2, <3>3
  <2>2. \A m \in nodes : \A i \in 1..Len(memo[m]) : Reach(memo[m][i], m)
    BY DEF Lengths, Leading
  <2> QED
    BY <1>1, <1>7, <2>1, <2>2 DEF Leading
<1>11. Chained'
  <2>1. ASSUME NEW k \in 1..Len(work'), NEW j \in 1..Len(work'), k <= j PROVE Reach(work'[j].at, work'[k].at)
    <3>1. CASE j \in 1..l
      <4>1. k \in 1..l
        BY <1>2, <1>6, <2>1, <3>1
      <4> QED
        BY <1>1, <1>2, <2>1, <3>1, <4>1 DEF Lengths, Chained
    <3>2. CASE j = l + 1 /\ k = l + 1
      BY <1>2, <1>3, <1>5, <1>6, <3>2, ReachSelf
    <3>3. CASE j = l + 1 /\ k \in 1..l
      <4>1. work'[j].at = n
        BY <1>2, <1>5, <1>6, <3>3
      <4>2. k <= l
        BY <1>2, <3>3
      <4>3. Reach(t, work[k].at)
        BY <1>1, <1>2, <3>3, <4>2 DEF Lengths, Chained
      <4> QED
        BY <1>2, <1>4, <1>8, <3>3, <4>1, <4>3, ReachTrans
    <3> QED
      BY <1>6, <3>1, <3>2, <3>3
  <2> QED
    BY <1>7, <2>1 DEF Chained
<1>12. Sourced'
  BY <1>1, <1>7 DEF Lengths, Sourced
<1>13. Offered'
  <2> SUFFICES ASSUME Acyclic, NEW k \in 1..Len(work')
               PROVE  /\ \A m \in Sources(work'[k].at) :
                           \/ m \in work'[k].left
                           \/ k < Len(work') /\ work'[k + 1].at = m
                           \/ memo[m] # <<>> /\ Len(memo[m]) <= Len(work'[k].best)
                      /\ work'[k].best = <<>> \/ \E m \in Sources(work'[k].at) : memo[m] = work'[k].best
    BY <1>1, <1>7 DEF Offered
  <2>1. ASSUME NEW j \in 1..l
        PROVE  /\ \A m \in Sources(work[j].at) :
                    \/ m \in work[j].left
                    \/ j < l /\ work[j + 1].at = m
                    \/ memo[m] # <<>> /\ Len(memo[m]) <= Len(work[j].best)
               /\ work[j].best = <<>> \/ \E m \in Sources(work[j].at) : memo[m] = work[j].best
    BY <1>1 DEF Lengths, Offered
  <2>2. CASE k \in 1..l /\ k # l
    <3>1. k + 1 \in 1..l /\ k < Len(work') /\ work'[k] = work[k]
      BY <1>2, <1>6, <2>2
    <3>2. work'[k + 1].at = work[k + 1].at
      BY <1>2, <3>1
    <3> QED
      BY <2>1, <2>2, <3>1, <3>2
  <2>3. CASE k = l + 1
    <3>1. work'[k].at = n /\ work'[k].left = Sources(n) /\ work'[k].best = <<>>
      BY <1>2, <1>5, <1>6, <2>3
    <3> QED
      BY <3>1
  <2>4. CASE k = l
    <3>1. work'[l].at = t /\ n \in Sources(t) /\ ~OnStack(n)
      BY <1>1, <1>2, <1>3, NoneOnStack, SourcesIn
    <3>2. ~(l < l) /\ l + 1 > l
      BY <1>2
    <3>3. CASE memo[n] = <<>>
      <4>1. Len(work') = l + 1 /\ work'[l + 1].at = n /\ work'[l].best = work[l].best
        BY <1>3, <1>5, <3>1, <3>3
      <4> QED
        BY <1>2, <1>3, <2>1, <2>4, <3>1, <3>2, <4>1
    <3>4. CASE memo[n] # <<>>
      <4>1. t \notin Ids(memo[n])
        BY <1>2, <1>4
      <4>2. Len(memo[n]) <= Len(work'[l].best) /\ Len(work[l].best) <= Len(work'[l].best)
        BY <1>2, <1>3, <1>4, <3>1, <3>4, <4>1 DEF Takes, Better
      <4>3. \A m \in Sources(t) : m \in nodes
        BY SourcesIn
      <4>4. ASSUME NEW m \in Sources(t)
            PROVE  m \in work'[l].left \/ (memo[m] # <<>> /\ Len(memo[m]) <= Len(work'[l].best))
        <5>1. m = n \/ m \in work'[l].left \/ (memo[m] # <<>> /\ Len(memo[m]) <= Len(work[l].best))
          BY <1>2, <1>3, <2>1, <3>2
        <5>2. Len(work[l].best) \in Nat /\ Len(work'[l].best) \in Nat /\ Len(memo[m]) \in Nat
          BY <1>2, <1>3, <1>4, <3>1, <3>4, <4>3
        <5> QED
          BY <3>4, <4>2, <5>1, <5>2
      <4>5. work'[l].best = <<>> \/ \E m \in Sources(t) : memo[m] = work'[l].best
        BY <1>2, <1>3, <2>1, <3>1, <3>4
      <4> QED
        BY <2>4, <3>1, <4>4, <4>5
    <3> QED
      BY <3>3, <3>4
  <2> QED
    BY <1>6, <2>2, <2>3, <2>4
<1> QED
  BY <1>9, <1>10, <1>11, <1>12, <1>13 DEF Lengths

\* A module that is done has a path as long as any.
LEMMA FinishLengths ==
  ASSUME Joins, Paths, Lengths, Finish
  PROVE  Lengths'
<1> DEFINE l == Len(work)
           best == work[l].best
<1>1. PICK path \in Seq(nodes) : \E at \in nodes : Finishes(path, at)
  BY FinishIs
<1>19. PICK at \in nodes : Finishes(path, at)
  BY <1>1
<1>2. /\ UNCHANGED <<nodes, edges, dests>> /\ phase = "path"
      /\ phase' = IF l = 1 THEN "done" ELSE "path"
      /\ l \in Nat \ {0} /\ l \in 1..l
      /\ at = work[l].at /\ at \in nodes /\ memo[at] = <<>> /\ work[l].left = {}
      /\ Len(path) = Len(best) + 1 /\ path[Len(path)] = at /\ Len(best) \in Nat
      /\ \A i \in 1..Len(best) : path[i] = best[i]
      /\ \A i \in 1..Len(path) : i \in 1..Len(best) \/ i = Len(path)
      /\ memo'[at] = path /\ path # <<>> /\ \A m \in nodes : m # at => memo'[m] = memo[m]
      /\ Len(work') = l - 1
  BY <1>19 DEF Finishes
<1>3. \A k \in 1..l - 1 :
              /\ k \in 1..l /\ k + 1 \in 1..l
              /\ work'[k].at = work[k].at /\ work'[k].left = work[k].left
              /\ IF k + 1 = l /\ Takes(path, work[k]) THEN work'[k].best = path ELSE work'[k].best = work[k].best
  BY <1>19 DEF Finishes
<1>4. /\ \A k \in 1..l : /\ work[k].at \in nodes /\ memo[work[k].at] = <<>> /\ Len(work[k].best) \in Nat
                         /\ \A i \in 1..Len(work[k].best) : memo[work[k].best[i]] # <<>>
      /\ \A n \in nodes : Len(memo[n]) \in Nat
  BY <1>2, FrameFacts
<1>5. /\ \A x : \A y : Reach(x, y)' <=> Reach(x, y)
      /\ \A m : Sources(m)' = Sources(m)
      /\ Acyclic' <=> Acyclic
  BY <1>2, CablesDecide
<1>6. path \in Seq(nodes) /\ DOMAIN path = 1..Len(path)
  BY <1>19 DEF Finishes
<1>7. \A k \in 1..l - 1 : work[k].at # at /\ Reach(at, work[k].at)
  <2>1. \A k \in 1..l - 1 : k <= l /\ k # l
    BY <1>2
  <2>2. \A k \in 1..l : \A m \in 1..l : work[k].at = work[m].at => k = m
    BY <1>2 DEF Paths, Framed
  <2>3. \A k \in 1..l - 1 : Reach(at, work[k].at)
    BY <1>2, <1>3, <2>1 DEF Lengths, Chained
  <2> QED
    BY <1>2, <1>3, <2>1, <2>2, <2>3
\* A module on the stack is not in the path.
<1>8. \A k \in 1..l - 1 : work[k].at \notin Ids(path)
  <2> SUFFICES ASSUME NEW k \in 1..l - 1, work[k].at \in Ids(path) PROVE FALSE
    OBVIOUS
  <2>1. PICK i \in 1..Len(path) : path[i] = work[k].at
    BY <1>6 DEF Ids
  <2>2. i \in 1..Len(best) /\ memo[best[i]] # <<>> /\ path[i] = best[i]
    BY <1>2, <1>4, <1>7, <2>1
  <2> QED
    BY <1>3, <1>4, <2>1, <2>2
\* What the path names leads to its end.
<1>9. \A i \in 1..Len(path) : Reach(path[i], at)
  <2>1. \A i \in 1..Len(best) : Reach(best[i], at)
    BY <1>2 DEF Lengths, Leading
  <2>2. Reach(at, at)
    BY <1>2, ReachSelf
  <2> QED
    BY <1>2, <2>1, <2>2
<1>10. \A k \in 1..Len(work') : k \in 1..l - 1
  BY <1>2
<1>11. Aimed'
  <2>1. Cardinality(dests) = 1 /\ work[1].at = Dest /\ 1 \in 1..l
    BY <1>2 DEF Lengths, Aimed
  <2>2. CASE l = 1
    BY <1>2, <2>1, <2>2 DEF Aimed, Dest
  <2>3. CASE l # 1
    <3>1. 1 \in 1..l - 1 /\ l - 1 > 0
      BY <1>2, <2>3
    <3> QED
      BY <1>2, <1>3, <2>1, <2>3, <3>1 DEF Aimed, Dest
  <2> QED
    BY <2>2, <2>3
<1>12. Leading'
  <2>1. ASSUME NEW n \in nodes, NEW i \in 1..Len(memo'[n]) PROVE Reach(memo'[n][i], n)
    <3>1. CASE n = at
      BY <1>2, <1>9, <2>1, <3>1
    <3>2. CASE n # at
      BY <1>2, <2>1, <3>2 DEF Lengths, Leading
    <3> QED
      BY <3>1, <3>2
  <2>2. ASSUME NEW k \in 1..Len(work'), NEW i \in 1..Len(work'[k].best) PROVE Reach(work'[k].best[i], work'[k].at)
    <3>1. k \in 1..l - 1 /\ work'[k].at = work[k].at /\ work[k].at \in nodes
      BY <1>3, <1>4, <1>10
    <3>2. CASE work'[k].best = work[k].best
      BY <1>2, <1>3, <3>1, <3>2 DEF Lengths, Leading
    <3>3. CASE work'[k].best = path
      <4>1. Reach(path[i], at) /\ Reach(at, work[k].at)
        BY <1>7, <1>9, <3>1, <3>3
      <4> QED
        BY <3>1, <3>3, <4>1, ReachTrans
    <3> QED
      BY <1>3, <3>1, <3>2, <3>3
  <2> QED
    BY <1>2, <1>5, <2>1, <2>2 DEF Leading
<1>13. Chained'
  <2>1. ASSUME NEW k \in 1..Len(work'), NEW j \in 1..Len(work'), k <= j PROVE Reach(work'[j].at, work'[k].at)
    BY <1>2, <1>3, <1>10, <2>1 DEF Lengths, Chained
  <2> QED
    BY <1>5, <2>1 DEF Chained
<1>14. \A n : \A m \in Sources(n) : m \in nodes
  BY SourcesIn
<1>15. ASSUME NEW m \in nodes, memo[m] # <<>> PROVE memo'[m] = memo[m] /\ memo'[m] # <<>>
  BY <1>2, <1>15
<1>16. ASSUME Acyclic, NEW k \in 1..l
       PROVE  /\ \A m \in Sources(work[k].at) :
                   \/ m \in work[k].left
                   \/ k < l /\ work[k + 1].at = m
                   \/ memo[m] # <<>> /\ Len(memo[m]) <= Len(work[k].best)
              /\ work[k].best = <<>> \/ \E m \in Sources(work[k].at) : memo[m] = work[k].best
  BY <1>2, <1>16 DEF Lengths, Offered
<1>17. Sourced'
  <2> SUFFICES ASSUME Acyclic, NEW n \in nodes, memo'[n] # <<>>
               PROVE  /\ \A m \in Sources(n) : memo'[m] # <<>> /\ Len(memo'[m]) < Len(memo'[n])
                      /\ Len(memo'[n]) = 1 \/ \E m \in Sources(n) : Len(memo'[n]) = Len(memo'[m]) + 1
    BY <1>2, <1>5 DEF Sourced
  <2>1. CASE n = at
    <3>1. ASSUME NEW m \in Sources(at) PROVE memo'[m] = memo[m] /\ memo'[m] # <<>> /\ Len(memo'[m]) < Len(path)
      <4>1. memo[m] # <<>> /\ Len(memo[m]) <= Len(best)
        BY <1>2, <1>16
      <4> QED
        BY <1>2, <1>4, <1>14, <1>15, <4>1
    <3>2. Len(path) = 1 \/ \E m \in Sources(at) : Len(path) = Len(memo[m]) + 1
      <4>1. CASE best = <<>>
        BY <1>2, <4>1
      <4>2. CASE best # <<>>
        BY <1>2, <1>16, <4>2
      <4> QED
        BY <4>1, <4>2
    <3> QED
      BY <1>2, <2>1, <3>1, <3>2
  <2>2. CASE n # at
    <3>1. memo'[n] = memo[n] /\ memo[n] # <<>>
      BY <1>2, <2>2
    <3>2. /\ \A m \in Sources(n) : memo[m] # <<>> /\ Len(memo[m]) < Len(memo[n])
          /\ Len(memo[n]) = 1 \/ \E m \in Sources(n) : Len(memo[n]) = Len(memo[m]) + 1
      BY <3>1 DEF Lengths, Sourced
    <3>3. \A m \in Sources(n) : memo'[m] = memo[m]
      BY <1>14, <1>15, <3>2
    <3> QED
      BY <3>1, <3>2, <3>3
  <2> QED
    BY <2>1, <2>2
<1>18. Offered'
  <2> SUFFICES ASSUME Acyclic, NEW k \in 1..Len(work')
               PROVE  /\ \A m \in Sources(work'[k].at) :
                           \/ m \in work'[k].left
                           \/ k < Len(work') /\ work'[k + 1].at = m
                           \/ memo'[m] # <<>> /\ Len(memo'[m]) <= Len(work'[k].best)
                      /\ work'[k].best = <<>> \/ \E m \in Sources(work'[k].at) : memo'[m] = work'[k].best
    BY <1>2, <1>5 DEF Offered
  <2>1. k \in 1..l - 1 /\ k \in 1..l /\ k + 1 \in 1..l /\ work'[k].at = work[k].at /\ work'[k].left = work[k].left
    BY <1>3, <1>10
  <2>2. Len(work[k].best) <= Len(work'[k].best) /\ Len(work'[k].best) \in Nat
    <3>1. Len(path) \in Nat /\ Len(work[k].best) \in Nat
      BY <1>4, <1>6, <2>1
    <3>2. CASE k + 1 = l /\ Takes(path, work[k])
      <4>1. work'[k].best = path
        BY <1>3, <1>10, <3>2
      <4> QED
        BY <3>1, <3>2, <4>1 DEF Takes, Better
    <3>3. CASE ~(k + 1 = l /\ Takes(path, work[k]))
      <4>1. work'[k].best = work[k].best
        BY <1>3, <1>10, <3>3
      <4> QED
        BY <3>1, <4>1
    <3> QED
      BY <3>2, <3>3
  <2>3. k + 1 = l => Len(path) <= Len(work'[k].best)
    <3>1. IF k + 1 = l /\ Takes(path, work[k]) THEN work'[k].best = path ELSE work'[k].best = work[k].best
      BY <1>3, <2>1
    <3>2. work[k].at \notin Ids(path) /\ Len(path) \in Nat /\ Len(work[k].best) \in Nat
      BY <1>2, <1>3, <1>4, <1>8, <2>1
    <3>3. ~Takes(path, work[k]) => Len(path) <= Len(work[k].best)
      BY <3>2 DEF Takes, Better
    <3> QED
      BY <3>1, <3>2, <3>3
  <2>4. ASSUME NEW m \in Sources(work[k].at)
        PROVE  \/ m \in work'[k].left
               \/ k < Len(work') /\ work'[k + 1].at = m
               \/ memo'[m] # <<>> /\ Len(memo'[m]) <= Len(work'[k].best)
    <3>1. CASE m \in work[k].left
      BY <2>1, <3>1
    <3>2. CASE work[k + 1].at = m
      <4>1. CASE k + 1 = l
        BY <1>2, <2>3, <3>2, <4>1
      <4>2. CASE k + 1 # l
        <5>1. k < l - 1 /\ k + 1 \in 1..l - 1
          BY <1>2, <2>1, <4>2
        <5> QED
          BY <1>2, <1>3, <3>2, <5>1
      <4> QED
        BY <4>1, <4>2
    <3>3. CASE memo[m] # <<>> /\ Len(memo[m]) <= Len(work[k].best)
      <4>1. memo'[m] = memo[m] /\ Len(memo[m]) \in Nat /\ Len(work[k].best) \in Nat
        BY <1>4, <1>14, <1>15, <2>1, <3>3
      <4> QED
        BY <2>2, <3>3, <4>1
    <3> QED
      BY <1>16, <2>1, <3>1, <3>2, <3>3
  <2>5. work'[k].best = <<>> \/ \E m \in Sources(work[k].at) : memo'[m] = work'[k].best
    <3>1. CASE work'[k].best = work[k].best
      <4>1. work[k].best = <<>> \/ \E m \in Sources(work[k].at) : memo[m] = work[k].best
        BY <1>16, <2>1
      <4> QED
        BY <1>14, <1>15, <3>1, <4>1
    <3>2. CASE k + 1 = l /\ work'[k].best = path
      <4>1. l \in 2..l /\ l - 1 = k
        BY <1>2, <2>1, <3>2
      <4>2. <<at, work[k].at>> \in edges
        BY <1>2, <4>1 DEF Paths, Framed
      <4> QED
        BY <1>2, <3>2, <4>2, SourcesIn
    <3> QED
      BY <1>3, <2>1, <3>1, <3>2
  <2> QED
    BY <2>1, <2>4, <2>5
<1> QED
  BY <1>11, <1>12, <1>13, <1>17, <1>18 DEF Lengths

\* The first frame has every source left.
LEMMA CycledLengths ==
  ASSUME Joins, Paths, Lengths, Cycled
  PROVE  Lengths'
<1>1. UNCHANGED <<nodes, edges, dests, memo>> /\ memo = Unknown(nodes)
  BY DEF Cycled, snapshot, Paths, Unfound
<1>2. \A n \in nodes : memo[n] = <<>> /\ Len(memo[n]) = 0
  BY <1>1 DEF Unknown
<1>3. /\ \A x : \A y : Reach(x, y)' <=> Reach(x, y)
      /\ \A m : Sources(m)' = Sources(m)
      /\ Acyclic' <=> Acyclic
  BY <1>1, CablesDecide
<1>4. Sourced'
  BY <1>1, <1>2 DEF Sourced
<1>5. \A n \in nodes : \A i \in 1..Len(memo[n]) : FALSE
  BY <1>2
<1>6. CASE phase' = "path"
  <2>1. Cardinality(dests) = 1 /\ work' = <<Frame(Dest, Sources(Dest))>>
    BY <1>6 DEF Cycled, Dest
  <2>2. dests # {}
    BY <2>1, FS_EmptySet
  <2>3. Dest \in nodes
    BY <2>2 DEF Dest, Paths, Snapshot
  <2>4. /\ Len(work') = 1 /\ work'[1].at = Dest /\ work'[1].left = Sources(Dest) /\ work'[1].best = <<>> /\ Len(<<>>) = 0
        /\ \A k \in 1..Len(work') : k = 1
    BY <2>1 DEF Frame
  <2>5. Aimed'
    BY <1>1, <1>6, <2>1, <2>4 DEF Aimed, Dest
  <2>6. Leading'
    BY <1>1, <1>5, <2>4 DEF Leading
  <2>7. Chained'
    BY <1>3, <2>3, <2>4, ReachSelf DEF Chained
  <2>8. Offered'
    BY <1>3, <2>4 DEF Offered
  <2> QED
    BY <1>4, <2>5, <2>6, <2>7, <2>8 DEF Lengths
<1>7. CASE phase' = "done"
  <2>1. Cardinality(dests) # 1
    BY <1>7 DEF Cycled
  <2> QED
    BY <1>1, <1>4, <1>5, <1>7, <2>1 DEF Lengths, Aimed, Leading, Chained, Offered
<1> QED
  BY <1>6, <1>7 DEF Cycled

\* The first two loops remember no path.
LEMMA EarlierLengths ==
  ASSUME Joins, Paths, Lengths, Feed \/ Fed \/ Visit \/ Follow \/ Close
  PROVE  Lengths'
<1>1. phase' \in {"feeds", "cycles"} /\ phase \in {"feeds", "cycles"} /\ UNCHANGED <<nodes, edges, dests, memo>>
  BY DEF Feed, Fed, Visit, Follow, Close, snapshot
<1>2. /\ \A x : \A y : Reach(x, y)' <=> Reach(x, y)
      /\ \A m : Sources(m)' = Sources(m)
      /\ Acyclic' <=> Acyclic
  BY <1>1, CablesDecide
<1> QED
  BY <1>1, <1>2 DEF Lengths, Aimed, Leading, Chained, Sourced, Offered

\* What keeps the paths keeps their lengths.
LEMMA SameLengths ==
  ASSUME Lengths, UNCHANGED <<nodes, edges, dests, memo, work, phase>>
  PROVE  Lengths'
<1>1. /\ \A x : \A y : Reach(x, y)' <=> Reach(x, y)
      /\ \A m : Sources(m)' = Sources(m)
      /\ Acyclic' <=> Acyclic
  BY CablesDecide
<1>2. Aimed' /\ Sourced'
  BY <1>1 DEF Lengths, Aimed, Sourced, Dest
<1>3. Leading'
  BY <1>1 DEF Lengths, Leading
<1>4. Chained'
  BY <1>1 DEF Lengths, Chained
<1>5. Offered'
  BY <1>1 DEF Lengths, Offered
<1> QED
  BY <1>2, <1>3, <1>4, <1>5 DEF Lengths

\* No step of the analysis breaks the lengths.
LEMMA StepLengths == Joins /\ Paths /\ Lengths /\ [GraphNext]_graphVars => Lengths'
<1> SUFFICES ASSUME Joins, Paths, Lengths, [GraphNext]_graphVars
             PROVE  Lengths'
  OBVIOUS
<1>1. CASE Feed \/ Fed \/ Visit \/ Follow \/ Close
  BY <1>1, EarlierLengths
<1>2. CASE UNCHANGED graphVars
  BY <1>2, SameLengths DEF graphVars
<1> QED
  BY <1>1, <1>2, CycledLengths, TraceLengths, FinishLengths DEF GraphNext

\* Without loops a remembered path is as long as Depth says.
LEMMA PathsDeep ==
  ASSUME Joins, IsFiniteSet(nodes), Acyclic, Paths, Lengths
  PROVE  \A n \in nodes : memo[n] # <<>> => Len(memo[n]) = Depth[n]
<1> SUFFICES ASSUME NEW b \in nodes, memo[b] # <<>>, Len(memo[b]) # Depth[b] PROVE FALSE
  OBVIOUS
<1>1. \A n \in nodes : Len(memo[n]) \in Nat
  BY DEF Paths, Remembered
<1> DEFINE T == {k \in Nat : \E n \in nodes : memo[n] # <<>> /\ Len(memo[n]) # Depth[n] /\ Len(memo[n]) = k}
<1>2. T \in SUBSET Nat /\ T # {}
  BY <1>1
<1>3. PICK k \in T : \A j \in T : k <= j
  <2> HIDE DEF T
  <2> QED
    BY <1>2, LeastIs
<1>4. PICK n \in nodes : memo[n] # <<>> /\ Len(memo[n]) # Depth[n] /\ Len(memo[n]) = k
  BY <1>3
<1>5. /\ \A m \in Sources(n) : m \in nodes /\ memo[m] # <<>> /\ Len(memo[m]) < Len(memo[n])
      /\ Len(memo[n]) = 1 \/ \E m \in Sources(n) : Len(memo[n]) = Len(memo[m]) + 1
  BY <1>4, SourcesIn DEF Lengths, Sourced
<1>6. \A m \in Sources(n) : Len(memo[m]) = Depth[m]
  <2> SUFFICES ASSUME NEW m \in Sources(n), Len(memo[m]) # Depth[m] PROVE FALSE
    OBVIOUS
  <2>1. Len(memo[m]) \in T
    BY <1>1, <1>5
  <2>2. k <= Len(memo[m]) /\ Len(memo[m]) < k /\ Len(memo[m]) \in Nat /\ k \in Nat
    BY <1>1, <1>3, <1>4, <1>5, <2>1
  <2> QED
    BY <2>2
<1>7. Depth[n] = Deeper(Depth, n)
  BY DepthIs
<1>8. CASE Sources(n) = {}
  BY <1>4, <1>5, <1>7, <1>8 DEF Deeper
<1>9. CASE Sources(n) # {}
  <2>1. \A m \in Sources(n) : Len(memo[m]) > 0
    BY <1>5 DEF Paths, Remembered
  <2>2. PICK m \in Sources(n) : Len(memo[n]) = Len(memo[m]) + 1
    BY <1>1, <1>4, <1>5, <1>9, <2>1
  <2>3. \A s \in Sources(n) : Depth[s] \in Nat /\ Depth[s] <= Depth[m]
    BY <1>1, <1>4, <1>5, <1>6, <2>2
  <2>4. Deeper(Depth, n) = 1 + Depth[m]
    BY <2>3, DeeperIs
  <2> QED
    BY <1>1, <1>4, <1>5, <1>6, <1>7, <2>2, <2>4
<1> QED
  BY <1>8, <1>9

\* The chain that describePatch prints is real, and the longest without loops.
LEMMA PathsReal == Joins /\ IsFiniteSet(nodes) /\ Paths /\ Lengths => PathReal
<1> DEFINE dest == Dest
           path == memo[dest]
           feeds == Feeding(dests)
<1> SUFFICES ASSUME Joins, IsFiniteSet(nodes), Paths, Lengths, phase = "done", Cardinality(dests) = 1
             PROVE  /\ path # <<>> /\ path[Len(path)] = dest
                    /\ \A i \in 2..Len(path) : <<path[i - 1], path[i]>> \in edges
                    /\ Cardinality(Ids(path)) = Len(path)
                    /\ Acyclic => Len(path) = Depth[dest]
                    /\ Ids(path) \cup UNION {{e[1], e[2]} : e \in edges \cap (feeds \X feeds)} = feeds
  BY DEF PathReal, Dest
<1>1. dests # {} /\ dests \subseteq nodes
  BY FS_EmptySet DEF Paths, Snapshot
<1>2. dest \in dests /\ dest \in nodes
  BY <1>1 DEF Dest
<1> HIDE DEF dest
<1>3. dests = {dest}
  <2>1. IsFiniteSet(dests)
    BY <1>1, FS_Subset
  <2>2. PICK x : dests = {x}
    BY <2>1, FS_Singleton
  <2> QED
    BY <1>2, <2>2
<1>4. path # <<>>
  BY DEF Lengths, Aimed, dest
<1> HIDE DEF path, feeds
<1>5. path \in Seq(nodes) /\ Walk(path) /\ path[Len(path)] = dest
  BY <1>2, <1>4 DEF Paths, Remembered, path
<1>6. Len(path) \in Nat \ {0} /\ DOMAIN path = 1..Len(path)
  BY <1>4, <1>5
<1>7. Cardinality(Ids(path)) = Len(path)
  <2>1. path \in [1..Len(path) -> Ids(path)]
    BY <1>5, <1>6 DEF Ids
  <2>2. \A i \in 1..Len(path) : \A j \in 1..Len(path) : path[i] = path[j] => i = j
    BY <1>5 DEF Walk
  <2>3. \A x \in Ids(path) : \E i \in 1..Len(path) : path[i] = x
    BY <1>6 DEF Ids
  <2>6. DOMAIN path = 1..Len(path)
    BY <1>6
  <2>4. path \in Bijection(1..Len(path), Ids(path))
    <3>1. path \in Injection(1..Len(path), Ids(path))
      BY <2>1, <2>2, <2>6 DEF Injection, IsInjective
    <3>2. path \in Surjection(1..Len(path), Ids(path))
      BY <2>1, <2>3 DEF Surjection
    <3> QED
      BY <3>1, <3>2 DEF Bijection
  <2>7. ExistsBijection(1..Len(path), Ids(path))
    BY <2>4 DEF ExistsBijection
  <2>5. IsFiniteSet(1..Len(path)) /\ Cardinality(1..Len(path)) = Len(path)
    BY <1>6, FS_Interval
  <2> QED
    BY <2>4, <2>5, <2>7, FS_Bijection
<1>8. Acyclic => Len(path) = Depth[dest]
  BY <1>2, <1>4, PathsDeep DEF path
\* What the path names leads to the destination; what leads there has a cable on the way.
<1>9. Ids(path) \subseteq feeds /\ dest \in Ids(path)
  <2>1. \A i \in 1..Len(path) : Reach(path[i], dest)
    BY <1>2 DEF Lengths, Leading, path
  <2>2. Len(path) \in 1..Len(path)
    BY <1>6
  <2> QED
    BY <1>3, <1>5, <1>6, <2>1, <2>2, ReachIs DEF Ids, feeds
<1> DEFINE cabled == UNION {{e[1], e[2]} : e \in edges \cap (feeds \X feeds)}
<1>10. \A n : n \in cabled <=> \E e \in edges : e \in feeds \X feeds /\ (n = e[1] \/ n = e[2])
  OBVIOUS
<1>11. cabled \subseteq feeds
  <2>1. \A e \in feeds \X feeds : e[1] \in feeds /\ e[2] \in feeds
    OBVIOUS
  <2> QED
    BY <1>10, <2>1
<1>12. ASSUME NEW n \in feeds, n # dest PROVE n \in cabled
  <2>1. feeds \in SUBSET nodes /\ dests \subseteq feeds
    BY <1>1, FeedingHolds DEF feeds
  <2>2. PICK e \in edges : e[1] = n /\ e[2] \in feeds
    <3> SUFFICES ASSUME \A e \in edges : e[2] \in feeds => e[1] # n PROVE FALSE
      OBVIOUS
    <3>1. \A e \in edges : e[2] \in feeds \ {n} => e[1] \in feeds \ {n}
      BY FeedingClosed DEF feeds
    <3>2. feeds \ {n} \in SUBSET nodes /\ dests \subseteq feeds \ {n}
      BY <1>3, <1>12, <2>1
    <3>3. feeds \subseteq feeds \ {n}
      BY <3>1, <3>2, FeedingLeast DEF feeds
    <3> QED
      BY <1>12, <3>3
  <2>3. e \in feeds \X feeds
    BY <1>12, <2>2, EdgeEnds
  <2> QED
    BY <1>10, <2>2, <2>3
<1> HIDE DEF cabled
<1>13. Ids(path) \cup cabled = feeds
  BY <1>9, <1>11, <1>12
<1> QED
  BY <1>4, <1>5, <1>7, <1>8, <1>13 DEF Walk, cabled

-----------------------------------------------------------------------------
(***************************************************************************)
(* The three loops together: one run of them computes AnalysisExact.       *)
(***************************************************************************)

\* All three loops.
Analysed == Search /\ CyclesInv /\ Paths /\ Lengths

\* Before the first step nothing is visited, remembered or on a stack.
Ready ==
  /\ IsFiniteSet(nodes) /\ Snapshot /\ LoopsStart
  /\ phase = "feeds" \/ (phase = "done" /\ nodes = {})

\* The analysis may begin.
LEMMA AnalysisStarts == Ready => Analysed
<1> SUFFICES ASSUME Ready PROVE Analysed
  OBVIOUS
<1>0. /\ IsFiniteSet(nodes) /\ edges \subseteq nodes \X nodes /\ dests \subseteq nodes
      /\ LoopsStart /\ (phase = "feeds" \/ (phase = "done" /\ nodes = {}))
  BY DEF Ready, Snapshot
<1>1. Search
  <2>1. CASE phase = "feeds"
    BY <1>0, <2>1, InitSearch DEF GraphInit
  <2>2. CASE phase = "done" /\ nodes = {}
    BY <1>0, <2>2 DEF LoopsStart, Search, Phases, Snapshot, Inside, Covers, Needed, Emptied
  <2> QED
    BY <1>0, <2>1, <2>2
<1>2. \A n \in nodes : memo[n] = <<>>
  BY <1>0 DEF LoopsStart, Unknown
<1>3. memo = Unknown(nodes) /\ memo \in [nodes -> Seq(nodes)]
  BY <1>0 DEF LoopsStart, Unknown
<1>4. Paths
  BY <1>0, <1>2, <1>3 DEF Paths, Snapshot, Remembered, Unfound
<1>5. Joins /\ tstack = <<>> /\ work = <<>> /\ Searching
  BY <1>0, SearchStarts DEF LoopsStart, Joins
<1>6. CyclesExact
  BY <1>0 DEF CyclesExact, LoopsStart, Loops, Feeding, Sources
<1>7. CyclesInv
  BY <1>0, <1>5, <1>6 DEF CyclesInv, Joins
<1>8. \A n \in nodes : \A i \in 1..Len(memo[n]) : FALSE
  BY <1>2
<1>9. Aimed
  <2>1. nodes = {} => Cardinality(dests) # 1
    BY <1>0, FS_EmptySet
  <2> QED
    BY <1>0, <2>1 DEF Aimed
<1>10. Lengths
  BY <1>0, <1>2, <1>8, <1>9 DEF Lengths, Leading, Chained, Sourced, Offered
<1> QED
  BY <1>1, <1>4, <1>7, <1>10 DEF Analysed

\* A step of one loop leaves the invariants of the others alone.
LEMMA StepAnalysed == Analysed /\ [GraphNext]_graphVars => Analysed'
<1> SUFFICES ASSUME Analysed, [GraphNext]_graphVars PROVE Analysed'
  OBVIOUS
<1>1. Search /\ CyclesInv /\ Paths /\ Lengths /\ Joins
  BY DEF Analysed, CyclesInv, Joins
<1>2. Search' /\ Paths'
  BY <1>1, StepSearch, StepPaths
<1>3. CyclesInv'
  BY <1>1, StepCycles
<1>4. Lengths'
  BY <1>1, StepLengths
<1> QED
  BY <1>2, <1>3, <1>4 DEF Analysed

\* The findings follow from the invariants.
LEMMA AnalysedExact == Analysed => FeedsExact /\ CyclesExact /\ PathReal
<1> SUFFICES ASSUME Analysed PROVE FeedsExact /\ CyclesExact /\ PathReal
  OBVIOUS
<1>1. Search /\ CyclesInv /\ Paths /\ Lengths /\ Joins /\ IsFiniteSet(nodes)
  BY DEF Analysed, CyclesInv, Joins
<1> QED
  BY <1>1, SearchFinds, PathsReal DEF CyclesInv

\* The invariants of the three loops hold throughout.
LEMMA GraphInvariance == GraphSpec => []Analysed
<1>1. GraphInit => Analysed
  BY AnalysisStarts DEF GraphInit, Ready, Snapshot
<1> QED
  BY <1>1, StepAnalysed, PTL DEF GraphSpec

\* The comment on modulesInCycles, for a snapshot of any size: when the search has ended,
\* the modules that it reports on loops are those from which a path of cables leads
\* back to them, and no other.
THEOREM CyclesCorrect == GraphSpec => []CyclesExact
  BY GraphInvariance, AnalysedExact, PTL

\* The comment on longestCablePathTo, for a snapshot of any size: the chain that
\* describe_patch prints goes along cables, repeats no module and ends at the one
\* audio destination, and without loops none is longer.
THEOREM PathsCorrect == GraphSpec => []PathReal
  BY GraphInvariance, AnalysedExact, PTL

===============================================================================
