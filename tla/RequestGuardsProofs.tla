------------------------- MODULE RequestGuardsProofs -------------------------
(***************************************************************************)
(* Proofs about the two checks of the bridge that look back at a request's *)
(* past: whether it has been executed before (OperationCache), and whether *)
(* the patch is still the one its references were read from (PatchEpoch).  *)
(* They hold for any ids, requests, lifetime and capacity of the cache,    *)
(* and for any files and number of modules, actions and replacements.      *)
(*                                                                         *)
(* The cache: the invariant adds that every recorded result was executed,  *)
(* and that a result that should be remembered is in the cache. The second *)
(* holds because the entry dropped for room is the first: were it one of   *)
(* the CacheCap latest results, the cache would hold fewer than CacheCap   *)
(* entries.                                                                *)
(*                                                                         *)
(* The epoch: the invariant follows the patch since a client read it, and  *)
(* since the watermark was set, through edits, swaps and saves.            *)
(***************************************************************************)
EXTENDS OperationCache, PatchEpoch, FiniteSetTheorems, WellFoundedInduction, TLAPS

-----------------------------------------------------------------------------
(* The operation cache *)

\* What a result says of the execution that it is of.
Told(e) == [op |-> e.op, req |-> e.req, outcome |-> e.outcome]

\* Every result recorded is one of an execution.
RecordedRan == \A i \in DOMAIN log : Told(log[i]) \in executed

\* A result that is not old, and not followed by CacheCap others, is in the cache.
KeepsRecent ==
  \A i \in DOMAIN log : LiveEntry(i) /\ Len(log) - i < CacheCap => i \in cache

CacheInv == CacheTypeOK /\ RecordedRan /\ KeepsRecent /\ ReplaysOwnResult

-----------------------------------------------------------------------------
Below == {ss \in Nat \X Nat : ss[1] < ss[2]}

LEMMA BelowWellFounded == IsWellFoundedOn(Below, Nat)
  BY NatLessThanWellFounded DEF OpToRel, Below

\* The first of some entries is one of them, and none is older.
LEMMA FirstIsLeast ==
  ASSUME NEW S \in SUBSET Nat, S # {}
  PROVE  First(S) \in S /\ \A j \in S : First(S) <= j
<1>1. PICK i \in S : \A j \in S : ~(<<j, i>> \in Below)
  BY WFMin, BelowWellFounded, Zenon
<1>2. ASSUME NEW j \in S PROVE i <= j
  <2>1. i \in Nat /\ j \in Nat
    OBVIOUS
  <2>2. ~(<<j, i>> \in Below)
    BY <1>1, <1>2
  <2>3. ~(j < i)
    BY <2>1, <2>2 DEF Below
  <2> QED  BY <2>1, <2>3
<1> QED  BY <1>2, Zenon DEF First

LEMMA CacheFinite ==
  ASSUME CacheTypeOK
  PROVE  /\ Len(log) \in Nat /\ DOMAIN log = 1..Len(log)
         /\ cache \in SUBSET Nat /\ IsFiniteSet(cache)
         /\ Unexpired \subseteq cache /\ IsFiniteSet(Unexpired) /\ Cardinality(Unexpired) \in Nat
         /\ Cardinality(Unexpired) <= Cardinality(cache) /\ Cardinality(cache) \in Nat
<1>1. Len(log) \in Nat /\ DOMAIN log = 1..Len(log) /\ cache \subseteq 1..Len(log)
  BY DEF CacheTypeOK
<1>2. IsFiniteSet(cache) /\ cache \in SUBSET Nat
  <2>1. IsFiniteSet(1..Len(log)) /\ 1..Len(log) \subseteq Nat
    BY <1>1, FS_Interval
  <2> QED  BY <1>1, <2>1, FS_Subset
<1>3. Unexpired \subseteq cache
  BY DEF Unexpired
<1>4. IsFiniteSet(Unexpired) /\ Cardinality(Unexpired) <= Cardinality(cache)
  BY <1>2, <1>3, FS_Subset
<1> QED  BY <1>1, <1>2, <1>3, <1>4, FS_CardinalityType

\* Room is made without exceeding the capacity by the entry to come.
LEMMA RoomForOne ==
  ASSUME CacheTypeOK
  PROVE  /\ MakeRoom \subseteq Unexpired /\ IsFiniteSet(MakeRoom)
         /\ Cardinality(MakeRoom) \in Nat /\ Cardinality(MakeRoom) < CacheCap
<1> USE CacheAssumption
<1> Unexpired \in SUBSET Nat /\ IsFiniteSet(Unexpired) /\ Cardinality(Unexpired) \in Nat
    /\ Cardinality(Unexpired) <= CacheCap
  BY CacheFinite DEF CacheTypeOK
<1>1. CASE Cardinality(Unexpired) >= CacheCap
  <2>1. Unexpired # {}
    BY <1>1, FS_EmptySet
  <2>2. First(Unexpired) \in Unexpired
    BY <2>1, FirstIsLeast
  <2>3. /\ IsFiniteSet(Unexpired \ {First(Unexpired)})
        /\ Cardinality(Unexpired \ {First(Unexpired)}) = Cardinality(Unexpired) - 1
    BY <2>2, FS_RemoveElement
  <2> QED  BY <1>1, <2>3 DEF MakeRoom
<1>2. CASE ~(Cardinality(Unexpired) >= CacheCap)
  BY <1>2 DEF MakeRoom
<1> QED  BY <1>1, <1>2

\* An entry that is among the CacheCap - 1 latest results stays when room is made.
LEMMA RoomKeepsRecent ==
  ASSUME CacheTypeOK, NEW i \in Unexpired, Len(log) + 1 - i < CacheCap
  PROVE  i \in MakeRoom
<1> USE CacheAssumption
<1> SUFFICES ASSUME Cardinality(Unexpired) >= CacheCap, i = First(Unexpired)
             PROVE  FALSE
  BY DEF MakeRoom
<1>1. /\ Len(log) \in Nat /\ Unexpired \subseteq 1..Len(log) /\ Unexpired \in SUBSET Nat
      /\ i \in Nat /\ Cardinality(Unexpired) \in Nat
  BY CacheFinite DEF CacheTypeOK
<1>2. Unexpired \subseteq i..Len(log)
  BY <1>1, FirstIsLeast
<1>3. /\ IsFiniteSet(i..Len(log))
      /\ Cardinality(i..Len(log)) = IF i > Len(log) THEN 0 ELSE Len(log) - i + 1
  BY <1>1, FS_Interval, SMTT(90)
<1>4. Cardinality(Unexpired) <= Cardinality(i..Len(log))
  BY <1>2, <1>3, FS_Subset
<1> QED  BY <1>1, <1>3, <1>4

-----------------------------------------------------------------------------
LEMMA CacheInitially == CacheInit => CacheInv
<1> SUFFICES ASSUME CacheInit PROVE CacheInv
  OBVIOUS
<1> USE CacheAssumption DEF CacheInit
<1>1. CacheTypeOK
  BY FS_EmptySet DEF CacheTypeOK, Idle, NoAnswer
<1>2. RecordedRan /\ KeepsRecent
  BY DEF RecordedRan, KeepsRecent
<1>3. ReplaysOwnResult
  BY DEF ReplaysOwnResult, NoAnswer
<1> QED  BY <1>1, <1>2, <1>3 DEF CacheInv

\* A result is recorded: the only step that changes the cache.
LEMMA RecordInvariant ==
  ASSUME CacheInv, NEW outcome \in Outcomes, Finish(outcome), Cacheable(running.req, outcome)
  PROVE  /\ log' \in Seq(Entry) /\ cache' \subseteq DOMAIN log' /\ Cardinality(cache') <= CacheCap
         /\ lastUse' \in [Ops -> 0..MaxTime]
         /\ RecordedRan' /\ KeepsRecent'
<1> DEFINE e == [op |-> running.op, req |-> running.req, outcome |-> outcome, at |-> now]
<1>1. /\ cache' = MakeRoom \cup {Len(log) + 1} /\ log' = Append(log, e)
      /\ lastUse' = [lastUse EXCEPT ![running.op] = now]
      /\ executed' = executed \cup {Told(e)} /\ now' = now
  BY DEF Finish, Record, Told
<1>2. running.op \in Ops /\ running.req \in Requests
  BY DEF Finish, CacheInv, CacheTypeOK
<1>3. e \in Entry
  BY <1>2 DEF Entry, CacheInv, CacheTypeOK
<1> HIDE DEF e
<1>4. Len(log) \in Nat /\ DOMAIN log = 1..Len(log) /\ Unexpired \subseteq cache /\ cache \subseteq 1..Len(log)
  BY CacheFinite DEF CacheInv, CacheTypeOK
<1>5. /\ log' \in Seq(Entry) /\ Len(log') = Len(log) + 1 /\ DOMAIN log' = 1..Len(log) + 1
      /\ log'[Len(log) + 1] = e
      /\ \A i \in 1..Len(log) : log'[i] = log[i]
  BY <1>1, <1>3, <1>4 DEF CacheInv, CacheTypeOK
<1>6. cache' \subseteq DOMAIN log'
  <2>1. MakeRoom \subseteq 1..Len(log)
    BY <1>4, RoomForOne DEF CacheInv
  <2>2. MakeRoom \cup {Len(log) + 1} \subseteq 1..Len(log) + 1
    <3> SUFFICES ASSUME NEW i \in MakeRoom \cup {Len(log) + 1} PROVE i \in 1..Len(log) + 1
      OBVIOUS
    <3>1. Len(log) \in Nat
      BY <1>4
    <3>2. CASE i \in MakeRoom
      BY <2>1, <3>1, <3>2
    <3>3. CASE i = Len(log) + 1
      BY <3>1, <3>3
    <3> QED  BY <3>2, <3>3
  <2> QED  BY <1>1, <1>5, <2>2
<1>7. Cardinality(cache') <= CacheCap
  <2>1. /\ IsFiniteSet(MakeRoom) /\ Cardinality(MakeRoom) \in Nat /\ Cardinality(MakeRoom) < CacheCap
    BY RoomForOne DEF CacheInv
  <2>2. Cardinality(MakeRoom \cup {Len(log) + 1}) <= Cardinality(MakeRoom) + 1
    <3>1. Cardinality(MakeRoom \cup {Len(log) + 1})
            = IF Len(log) + 1 \in MakeRoom THEN Cardinality(MakeRoom) ELSE Cardinality(MakeRoom) + 1
      BY <2>1, FS_AddElement, Zenon
    <3> QED  BY <2>1, <3>1
  <2>3. Cardinality(MakeRoom \cup {Len(log) + 1}) \in Nat
    BY <2>1, FS_AddElement, FS_CardinalityType
  <2> QED  BY <1>1, <2>1, <2>2, <2>3, CacheAssumption
<1>8. lastUse' \in [Ops -> 0..MaxTime]
  BY <1>1 DEF CacheInv, CacheTypeOK
<1>9. RecordedRan'
  BY <1>1, <1>4, <1>5 DEF RecordedRan, CacheInv
<1>10. KeepsRecent'
  <2> SUFFICES ASSUME NEW i \in DOMAIN log', LiveEntry(i)', Len(log') - i < CacheCap
               PROVE  i \in cache'
    BY DEF KeepsRecent
  <2>1. CASE i = Len(log) + 1
    BY <1>1, <2>1
  <2>2. CASE i # Len(log) + 1
    <3>1. i \in 1..Len(log) /\ log'[i] = log[i] /\ Len(log) + 1 - i < CacheCap /\ Len(log) - i < CacheCap
      BY <1>4, <1>5, <2>2, CacheAssumption
    <3>2. LiveEntry(i)
      BY <1>1, <3>1 DEF LiveEntry
    <3>3. i \in Unexpired
      BY <1>4, <3>1, <3>2 DEF KeepsRecent, CacheInv, Unexpired
    <3> QED  BY <1>1, <3>1, <3>3, RoomKeepsRecent DEF CacheInv
  <2> QED  BY <2>1, <2>2
<1> QED  BY <1>5, <1>6, <1>7, <1>8, <1>9, <1>10

LEMMA FinishInvariant ==
  ASSUME CacheInv, NEW outcome \in Outcomes, Finish(outcome)
  PROVE  CacheInv'
<1> USE CacheAssumption
<1>1. running.op \in Ops /\ running.req \in Requests
  BY DEF Finish, CacheInv, CacheTypeOK
<1>2. /\ log' \in Seq(Entry) /\ cache' \subseteq DOMAIN log' /\ Cardinality(cache') <= CacheCap
      /\ lastUse' \in [Ops -> 0..MaxTime]
      /\ RecordedRan' /\ KeepsRecent'
  <2>1. CASE Cacheable(running.req, outcome)
    BY <2>1, RecordInvariant
  <2>2. CASE ~Cacheable(running.req, outcome)
    <3>1. /\ cache' = cache /\ log' = log /\ lastUse' = lastUse /\ now' = now
          /\ executed \subseteq executed'
      BY <2>2 DEF Finish
    <3>2. RecordedRan'
      BY <3>1 DEF RecordedRan, CacheInv
    <3>3. KeepsRecent'
      BY <3>1 DEF KeepsRecent, LiveEntry, CacheInv
    <3> QED  BY <3>1, <3>2, <3>3 DEF CacheInv, CacheTypeOK
  <2> QED  BY <2>1, <2>2
<1>3. Len(log) \in Nat
  BY DEF CacheInv, CacheTypeOK
<1>4. flagged' \subseteq [op : Ops, at : 0..MaxTime, recorded : Nat]
  BY <1>1, <1>3 DEF Finish, CacheInv, CacheTypeOK
<1>5. executed' \subseteq [op : Ops, req : Requests, outcome : Outcomes]
  BY <1>1 DEF Finish, CacheInv, CacheTypeOK
<1>6. /\ answer' \in [op : Ops, req : Requests, outcome : Outcomes, how : {"ran", "replay", "mismatch"}]
      /\ answer'.how = "ran"
  BY <1>1 DEF Finish
<1>7. running' \in [op : Ops, req : Requests] \cup {Idle} /\ runs' \in 0..MaxRuns /\ now' \in 0..MaxTime
  BY DEF Finish, CacheInv, CacheTypeOK
<1>8. CacheTypeOK'
  BY <1>2, <1>4, <1>5, <1>6, <1>7 DEF CacheTypeOK
<1>9. ReplaysOwnResult'
  BY <1>6 DEF ReplaysOwnResult
<1> QED  BY <1>2, <1>8, <1>9 DEF CacheInv

\* What a lookup finds is a result under the id, of an execution.
LEMMA FoundRan ==
  ASSUME CacheInv, NEW op \in Ops, Hits(op) # {}
  PROVE  Found(op) \in Entry /\ Found(op).op = op /\ Told(Found(op)) \in executed
<1>1. Hits(op) \in SUBSET Nat /\ Hits(op) \subseteq cache /\ cache \subseteq DOMAIN log
  BY CacheFinite DEF Hits, CacheInv, CacheTypeOK
<1>2. First(Hits(op)) \in Hits(op)
  BY <1>1, FirstIsLeast
<1>3. log[First(Hits(op))].op = op /\ First(Hits(op)) \in DOMAIN log
  BY <1>1, <1>2 DEF Hits
<1>4. log[First(Hits(op))] \in Entry
  BY <1>3 DEF CacheInv, CacheTypeOK
<1> QED  BY <1>3, <1>4 DEF Found, RecordedRan, CacheInv

LEMMA ReplayInvariant ==
  ASSUME CacheInv, NEW op \in Ops, NEW req \in Requests, LookupReplay(op, req)
  PROVE  CacheInv'
<1>1. Found(op) \in Entry /\ Found(op).op = op /\ Told(Found(op)) \in executed
  BY FoundRan DEF LookupReplay
<1>2. Found(op).req = req
  BY DEF LookupReplay, Mismatch
<1>3. /\ answer' = [op |-> op, req |-> req, outcome |-> Found(op).outcome, how |-> "replay"]
      /\ lastUse' = [lastUse EXCEPT ![op] = now]
      /\ UNCHANGED <<now, cache, running, runs, log, executed, flagged>>
  BY DEF LookupReplay
<1>4. Found(op).outcome \in Outcomes
  BY <1>1 DEF Entry
<1>5. CacheTypeOK'
  <2>1. answer' \in [op : Ops, req : Requests, outcome : Outcomes, how : {"ran", "replay", "mismatch"}]
    BY <1>3, <1>4
  <2>2. lastUse' \in [Ops -> 0..MaxTime]
    BY <1>3 DEF CacheInv, CacheTypeOK
  <2> QED  BY <1>3, <2>1, <2>2 DEF CacheInv, CacheTypeOK
<1>6. ReplaysOwnResult'
  BY <1>1, <1>2, <1>3 DEF ReplaysOwnResult, Told
<1>7. RecordedRan' /\ KeepsRecent'
  BY <1>3 DEF RecordedRan, KeepsRecent, LiveEntry, CacheInv
<1> QED  BY <1>5, <1>6, <1>7 DEF CacheInv

LEMMA CacheStepwise == CacheInv /\ [CacheNext]_cacheVars => CacheInv'
<1> SUFFICES ASSUME CacheInv, [CacheNext]_cacheVars PROVE CacheInv'
  OBVIOUS
<1> USE CacheAssumption
<1>1. ASSUME NEW op \in Ops, NEW req \in Requests, LookupMismatch(op, req) PROVE CacheInv'
  <2>1. CacheTypeOK'
    BY <1>1 DEF LookupMismatch, CacheInv, CacheTypeOK, Outcomes
  <2>2. ReplaysOwnResult'
    BY <1>1 DEF LookupMismatch, ReplaysOwnResult
  <2>3. RecordedRan' /\ KeepsRecent'
    BY <1>1 DEF LookupMismatch, RecordedRan, KeepsRecent, LiveEntry, CacheInv
  <2> QED  BY <2>1, <2>2, <2>3 DEF CacheInv
<1>2. ASSUME NEW op \in Ops, NEW req \in Requests, LookupReplay(op, req) PROVE CacheInv'
  BY <1>2, ReplayInvariant
<1>3. ASSUME NEW op \in Ops, NEW req \in Requests, LookupMiss(op, req) PROVE CacheInv'
  <2>1. CacheTypeOK'
    BY <1>3 DEF LookupMiss, CacheInv, CacheTypeOK
  <2>2. ReplaysOwnResult'
    BY <1>3 DEF LookupMiss, ReplaysOwnResult, CacheInv
  <2>3. RecordedRan' /\ KeepsRecent'
    BY <1>3 DEF LookupMiss, RecordedRan, KeepsRecent, LiveEntry, CacheInv
  <2> QED  BY <2>1, <2>2, <2>3 DEF CacheInv
<1>4. ASSUME NEW outcome \in Outcomes, Finish(outcome) PROVE CacheInv'
  BY <1>4, FinishInvariant
<1>5. ASSUME Tick PROVE CacheInv'
  <2>1. CacheTypeOK'
    BY <1>5 DEF Tick, CacheInv, CacheTypeOK
  <2>2. ReplaysOwnResult' /\ RecordedRan'
    BY <1>5 DEF Tick, ReplaysOwnResult, RecordedRan, CacheInv
  <2>3. KeepsRecent'
    <3> SUFFICES ASSUME NEW i \in DOMAIN log', LiveEntry(i)', Len(log') - i < CacheCap
                 PROVE  i \in cache'
      BY DEF KeepsRecent
    <3>1. now' = now + 1 /\ log' = log /\ cache' = cache /\ now \in Int
      BY <1>5 DEF Tick, CacheInv, CacheTypeOK
    <3>2. log[i] \in Entry
      BY <3>1 DEF CacheInv, CacheTypeOK
    <3>3. log[i].at \in Int
      BY <3>2 DEF Entry
    <3>4. LiveEntry(i)
      BY <3>1, <3>3 DEF LiveEntry
    <3> QED  BY <3>1, <3>4 DEF KeepsRecent, CacheInv
  <2> QED  BY <2>1, <2>2, <2>3 DEF CacheInv
<1>6. CASE UNCHANGED cacheVars
  <2>1. CacheTypeOK'
    BY <1>6 DEF cacheVars, CacheInv, CacheTypeOK
  <2>2. RecordedRan' /\ KeepsRecent' /\ ReplaysOwnResult'
    BY <1>6 DEF cacheVars, RecordedRan, KeepsRecent, LiveEntry, ReplaysOwnResult, CacheInv
  <2> QED  BY <2>1, <2>2 DEF CacheInv
<1> QED  BY <1>1, <1>2, <1>3, <1>4, <1>5, <1>6 DEF CacheNext

\* The invariant of every behaviour of the cache.
THEOREM CacheInvariance == CacheSpec => []CacheInv
  BY CacheInitially, CacheStepwise, PTL DEF CacheSpec

\* The cache stays within its capacity, and a replay reports what an execution of
\* the very same request answered under its id.
THEOREM CacheConsistentCorrect == CacheSpec => []CacheConsistent
<1>1. CacheInv => CacheConsistent
  BY DEF CacheInv, CacheConsistent
<1> QED  BY <1>1, CacheInvariance, PTL

\* A mutation whose result is remembered is not executed again on a retry.
THEOREM RememberedNotRerunCorrect == CacheSpec => RememberedNotRerun
<1>1. CacheInv /\ [CacheNext]_cacheVars => [\A op \in Ops : Dispatches(op) => ~Remembered(op)]_cacheVars
  <2> SUFFICES ASSUME CacheInv, CacheNext, NEW op \in Ops, Dispatches(op)
               PROVE  ~Remembered(op)
    BY DEF cacheVars
  <2>1. PICK req \in Requests : LookupMiss(op, req)
    <3>1. running = Idle /\ running' # Idle /\ running'.op = op
      BY DEF Dispatches
    <3>2. PICK o \in Ops, r \in Requests : LookupMiss(o, r)
      BY <3>1 DEF CacheNext, LookupMismatch, LookupReplay, Finish, Tick
    <3>3. o = op
      BY <3>1, <3>2 DEF LookupMiss
    <3> QED  BY <3>2, <3>3
  <2>2. Hits(op) = {}
    BY <2>1 DEF LookupMiss
  <2> SUFFICES ASSUME NEW i \in DOMAIN log, log[i].op = op, LiveEntry(i), Len(log) - i < CacheCap
               PROVE  FALSE
    BY DEF Remembered, LiveEntry
  <2>3. i \in cache
    BY DEF KeepsRecent, CacheInv
  <2> QED  BY <2>2, <2>3 DEF Hits
<1> QED  BY <1>1, CacheInvariance, PTL DEF CacheSpec, RememberedNotRerun

-----------------------------------------------------------------------------
(* The patch epoch *)

Actions == [kind : {"add", "remove"}, id : Ids]
Count   == Len(history.actions)

\* The epoch a client read is not ahead, and is behind once the plugin has replaced
\* the patch.
RefBehind == ref.epoch <= epoch /\ ("own" \in replaced => ref.epoch < epoch)

\* Unless something has been undone, every action is applied.
AllApplied == ~rewound => history.at = Count

\* While no action has been undone and the patch not been swapped, the history only
\* grows past the watermark, and at its length the modules are those of the watermark.
Growing ==
  watermark.armed /\ "swap" \notin since /\ ~rewound =>
    Count >= watermark.count /\ (Count = watermark.count => patch.modules = watermark.ids)

Untouched ==
  watermark.armed /\ since = {} => Count = watermark.count /\ patch.modules = watermark.ids

\* As long as the epoch a client read is current: before a swap, the patch is the one
\* read and an empty history says it was not edited; after a swap that is not masked,
\* the history is empty or the swap has no successor; and a watermark without
\* history is the patch that was read.
Followed ==
  Accepted /\ ~masked =>
    /\ "swap" \notin since => replaced = {} /\ (Count = 0 => patch.modules = ref.modules)
    /\ "swap" \in since => since = {"swap"} /\ (replaced = {} \/ Count = 0)
    /\ watermark.armed /\ "edit" \notin since /\ watermark.count = 0 => watermark.ids = ref.modules

IInv ==
  /\ Consistent /\ Count <= MaxActions
  /\ RefBehind /\ AllApplied /\ Growing /\ Untouched /\ Followed

-----------------------------------------------------------------------------
(* What steps do *)

\* What the invariant needs to know of the patch and its history.
Typed == TypeOK /\ Count <= MaxActions

LEMMA PushDoes ==
  ASSUME Typed, NEW kind \in {"add", "remove"}, NEW id \in Ids, Push(kind, id)
  PROVE  /\ history' \in [actions : Seq(Actions), at : 0..MaxActions]
         /\ Count' = history.at + 1 /\ history'.at = history.at + 1 /\ Count' <= MaxActions
<1>1. history.actions \in Seq(Actions) /\ history.at \in 0..Count /\ Count \in Nat
  BY DEF Typed, TypeOK, Actions, Count
<1>2. [kind |-> kind, id |-> id] \in Actions
  BY DEF Actions
<1>3. /\ SubSeq(history.actions, 1, history.at) \in Seq(Actions)
      /\ Len(SubSeq(history.actions, 1, history.at)) = history.at
  BY <1>1 DEF Count
<1>4. history' = [actions |-> Append(SubSeq(history.actions, 1, history.at), [kind |-> kind, id |-> id]),
                  at |-> history.at + 1] /\ history.at < MaxActions
  BY DEF Push
<1> DEFINE a == Append(SubSeq(history.actions, 1, history.at), [kind |-> kind, id |-> id])
<1>5. a \in Seq(Actions) /\ Len(a) = history.at + 1
  BY <1>1, <1>2, <1>3
<1>6. history' = [actions |-> a, at |-> history.at + 1]
  BY <1>4
<1> HIDE DEF a
<1>7. history.at + 1 \in 0..MaxActions
  BY <1>1, <1>4, EpochAssumption
<1>8. history' \in [actions : Seq(Actions), at : 0..MaxActions] /\ history'.at = history.at + 1
  BY <1>5, <1>6, <1>7
<1>9. Count' = history.at + 1
  BY <1>5, <1>6 DEF Count
<1> QED
  BY <1>7, <1>8, <1>9

LEMMA ActionAt ==
  ASSUME Typed, NEW n \in 1..Count
  PROVE  history.actions[n] \in Actions
<1>1. history.actions \in Seq(Actions)
  BY DEF Typed, TypeOK, Actions
<1> QED
  BY <1>1 DEF Count

LEMMA WithModuleTyped ==
  ASSUME Typed, NEW a \in Actions, NEW forwards \in BOOLEAN
  PROVE  /\ WithModule(a, forwards) \in [modules : SUBSET Ids, path : Paths]
         /\ WithModule(a, forwards).path = patch.path
  BY DEF Typed, TypeOK, Actions, WithModule

\* An edit, with what it leaves.
Edits ==
  /\ Happened("edit") /\ Count' >= 1 /\ Count' <= MaxActions
  /\ history' \in [actions : Seq(Actions), at : 0..MaxActions] /\ history'.at <= Count'
  /\ patch' \in [modules : SUBSET Ids, path : Paths] /\ patch'.path = patch.path
  /\ bridges' \subseteq Ids /\ nextId' \in 1..(MaxId + 1)
  /\ rewound' \in BOOLEAN
  /\ ~rewound' => ~rewound /\ history'.at = Count' /\ (AllApplied => Count' = Count + 1)
  /\ UNCHANGED <<disk, epoch, watermark, generation, replaced, home, failed, ref>>

LEMMA AddModuleEdits ==
  ASSUME Typed, NEW asBridge \in BOOLEAN, AddModule(asBridge)
  PROVE  Edits
<1>1. nextId \in Ids /\ Push("add", nextId)
  BY DEF AddModule
<1>2. Happened("edit")
  BY <1>1 DEF Push
<1>3. patch' \in [modules : SUBSET Ids, path : Paths] /\ patch'.path = patch.path
  BY <1>1 DEF AddModule, Typed, TypeOK
<1>4. bridges' \subseteq Ids /\ nextId' \in 1..(MaxId + 1)
  <2>1. bridges' \subseteq Ids
    BY <1>1 DEF AddModule, Typed, TypeOK
  <2>2. nextId' \in 1..(MaxId + 1)
    BY <1>1, EpochAssumption DEF AddModule, Ids
  <2> QED
    BY <2>1, <2>2
<1>5. /\ history' \in [actions : Seq(Actions), at : 0..MaxActions]
      /\ Count' = history.at + 1 /\ history'.at = history.at + 1 /\ Count' <= MaxActions
  BY <1>1, PushDoes
<1>6. history.at \in Nat /\ Count \in Nat /\ rewound \in BOOLEAN
  BY DEF Typed, TypeOK, Count
<1> QED
  BY <1>2, <1>3, <1>4, <1>5, <1>6 DEF AddModule, Edits, AllApplied

LEMMA RemoveModuleEdits ==
  ASSUME Typed, NEW id \in Ids, RemoveModule(id)
  PROVE  Edits
<1>1. Push("remove", id)
  BY DEF RemoveModule
<1>2. Happened("edit")
  BY <1>1 DEF Push
<1>3. patch' \in [modules : SUBSET Ids, path : Paths] /\ patch'.path = patch.path
  BY DEF RemoveModule, Typed, TypeOK
<1>4. bridges' \subseteq Ids /\ nextId' \in 1..(MaxId + 1)
  BY DEF RemoveModule, Typed, TypeOK
<1>5. /\ history' \in [actions : Seq(Actions), at : 0..MaxActions]
      /\ Count' = history.at + 1 /\ history'.at = history.at + 1 /\ Count' <= MaxActions
  BY <1>1, PushDoes
<1>6. history.at \in Nat /\ Count \in Nat /\ rewound \in BOOLEAN
  BY DEF Typed, TypeOK, Count
<1> QED
  BY <1>2, <1>3, <1>4, <1>5, <1>6 DEF RemoveModule, Edits, AllApplied

LEMMA UndoEdits == Typed /\ Undo => Edits
<1> SUFFICES ASSUME Typed, Undo PROVE Edits
  OBVIOUS
<1>1. history.at \in 1..Count /\ Count \in Nat /\ Count <= MaxActions
  BY DEF Typed, TypeOK, Count, Undo
<1>2. patch' \in [modules : SUBSET Ids, path : Paths] /\ patch'.path = patch.path
  BY <1>1, ActionAt, WithModuleTyped DEF Undo
<1>3. history' = [history EXCEPT !.at = @ - 1] /\ history \in [actions : Seq(Actions), at : 0..MaxActions]
  BY DEF Undo, Typed, TypeOK, Actions
<1>4. /\ history' \in [actions : Seq(Actions), at : 0..MaxActions]
      /\ Count' = Count /\ history'.at <= Count'
  BY <1>1, <1>3, EpochAssumption DEF Count
<1>5. bridges' \subseteq Ids /\ nextId' \in 1..(MaxId + 1)
  BY DEF Undo, Typed, TypeOK
<1>6. rewound' \in BOOLEAN /\ rewound'
  BY DEF Undo
<1>7. Count' >= 1 /\ Count' <= MaxActions
  BY <1>1, <1>4
<1>8. Happened("edit") /\ UNCHANGED <<disk, epoch, watermark, generation, replaced, home, failed, ref>>
  BY DEF Undo
<1> QED
  BY <1>2, <1>4, <1>5, <1>6, <1>7, <1>8 DEF Edits

LEMMA RedoEdits == Typed /\ Redo => Edits
<1> SUFFICES ASSUME Typed, Redo PROVE Edits
  OBVIOUS
<1>1. history.at \in 0..Count /\ history.at + 1 \in 1..Count /\ Count \in Nat /\ Count <= MaxActions
  BY DEF Typed, TypeOK, Count, Redo
<1>2. patch' \in [modules : SUBSET Ids, path : Paths] /\ patch'.path = patch.path
  BY <1>1, ActionAt, WithModuleTyped DEF Redo
<1>3. history' = [history EXCEPT !.at = @ + 1] /\ history \in [actions : Seq(Actions), at : 0..MaxActions]
  BY DEF Redo, Typed, TypeOK, Actions
<1>4. /\ history' \in [actions : Seq(Actions), at : 0..MaxActions]
      /\ Count' = Count /\ history'.at <= Count'
  BY <1>1, <1>3, EpochAssumption DEF Count
<1>5. bridges' \subseteq Ids /\ nextId' \in 1..(MaxId + 1)
  BY DEF Redo, Typed, TypeOK
<1>6. rewound' \in BOOLEAN /\ rewound'
  BY DEF Redo
<1>7. Count' >= 1 /\ Count' <= MaxActions
  BY <1>1, <1>4
<1>8. Happened("edit") /\ UNCHANGED <<disk, epoch, watermark, generation, replaced, home, failed, ref>>
  BY DEF Redo
<1> QED
  BY <1>2, <1>4, <1>5, <1>6, <1>7, <1>8 DEF Edits

\* A replacement the poll has to notice, whole or in part.
Swaps ==
  /\ Happened("swap")
  /\ patch' \in [modules : SUBSET Ids, path : Paths] /\ home' \in Paths
  /\ failed' \in BOOLEAN /\ (failed' \/ patch'.path = home')
  /\ \/ ClearHistory /\ replaced' = replaced \cup {"other"}
     \/ UNCHANGED <<history, rewound, replaced>>
  /\ generation' \in 0..MaxGeneration
  /\ UNCHANGED <<disk, bridges, nextId, epoch, watermark, ref>>

LEMMA UserReplacesSwaps ==
  ASSUME Typed, NEW modules \in SUBSET Ids, NEW path \in Paths, NEW broken \in BOOLEAN,
         UserReplaces(modules, path, broken)
  PROVE  Swaps
<1>1. patch' \in [modules : SUBSET Ids, path : Paths] /\ patch'.path = path
  BY DEF UserReplaces
<1>2. home' \in Paths /\ failed' \in BOOLEAN /\ (failed' \/ path = home')
  <2>1. CASE broken
    BY <2>1 DEF UserReplaces, Paths
  <2>2. CASE ~broken
    BY <2>2 DEF UserReplaces
  <2> QED
    BY <2>1, <2>2
<1>3. generation' \in 0..MaxGeneration
  BY EpochAssumption DEF UserReplaces, Typed, TypeOK
<1> QED
  BY <1>1, <1>2, <1>3 DEF UserReplaces, Swaps

LEMMA OnDisk ==
  ASSUME Typed, NEW f \in Files
  PROVE  disk[f].modules \in SUBSET Ids /\ disk[f].key \in Paths /\ f \in Paths /\ NoPath \in Paths
  BY DEF Typed, TypeOK, Paths

LEMMA UserSwaps ==
  ASSUME Typed, (\E f \in Files : UserOpen(f)) \/ UserNew \/ UserOpenFails
  PROVE  Swaps
<1>1. ASSUME NEW f \in Files, UserOpen(f) PROVE Swaps
  BY <1>1, OnDisk, UserReplacesSwaps DEF UserOpen
<1>2. CASE UserNew
  BY <1>2, EpochAssumption, OnDisk, UserReplacesSwaps DEF UserNew
<1>3. CASE UserOpenFails
  <2>1. patch.path \in Paths
    BY DEF Typed, TypeOK
  <2> QED
    BY <1>3, <2>1, UserReplacesSwaps DEF UserOpenFails
<1> QED
  BY <1>1, <1>2, <1>3

LEMMA LoadThrowsSwaps ==
  ASSUME Typed, NEW f \in Files, NEW left \in SUBSET disk[f].modules, LoadThrowsForeign(f, left)
  PROVE  Swaps
<1>1. left \in SUBSET Ids /\ PathFromArchive(f) \in Paths
  BY OnDisk DEF PathFromArchive, Typed, TypeOK
<1>2. patch' \in [modules : SUBSET Ids, path : Paths]
  BY <1>1 DEF LoadThrowsForeign
<1>3. generation' \in 0..MaxGeneration
  BY EpochAssumption DEF LoadThrowsForeign, Typed, TypeOK
<1>4. home' \in Paths /\ failed' \in BOOLEAN /\ failed'
  BY DEF LoadThrowsForeign, ForeignThrow, Paths
<1> QED
  BY <1>2, <1>3, <1>4 DEF LoadThrowsForeign, ForeignThrow, Swaps

LEMMA ClearThrowsSwaps ==
  ASSUME Typed, NEW left \in SUBSET patch.modules, ClearThrowsForeign(left)
  PROVE  Swaps
<1>1. patch' \in [modules : SUBSET Ids, path : Paths]
  BY DEF ClearThrowsForeign, Typed, TypeOK
<1>2. generation' \in 0..MaxGeneration
  BY DEF ClearThrowsForeign, Typed, TypeOK
<1>3. home' \in Paths /\ failed' \in BOOLEAN /\ failed'
  BY DEF ClearThrowsForeign, ForeignThrow, Paths
<1> QED
  BY <1>1, <1>2, <1>3 DEF ClearThrowsForeign, ForeignThrow, Swaps

\* A replacement by the plugin itself.
Replaces ==
  /\ BumpEpoch /\ Arm /\ replaced' = replaced \cup {"own"}
  /\ patch' \in [modules : SUBSET Ids, path : Paths] /\ home' \in Paths
  /\ failed' \in BOOLEAN /\ (failed' \/ patch'.path = home')
  /\ ClearHistory \/ UNCHANGED <<history, rewound>>
  /\ bridges' \subseteq Ids /\ nextId' \in 1..(MaxId + 1)
  /\ generation' \in 0..MaxGeneration
  /\ UNCHANGED <<disk, ref>>

LEMMA OwnReplaces ==
  ASSUME Typed, OwnReplacement
  PROVE  replaced' = replaced \cup {"own"} /\ generation' \in 0..MaxGeneration
  BY EpochAssumption DEF OwnReplacement, Typed, TypeOK

LEMMA WithBridgeTyped ==
  ASSUME Typed, NEW kept \in SUBSET Ids, NEW path \in Paths, WithBridge(kept, path)
  PROVE  /\ patch' \in [modules : SUBSET Ids, path : Paths] /\ patch'.path = path
         /\ bridges' \subseteq Ids /\ nextId' \in 1..(MaxId + 1)
<1>1. CASE patch' = [modules |-> kept, path |-> path] /\ UNCHANGED <<bridges, nextId>>
  BY <1>1 DEF Typed, TypeOK
<1>2. CASE ~(patch' = [modules |-> kept, path |-> path] /\ UNCHANGED <<bridges, nextId>>)
  <2>1. nextId \in Ids /\ bridges' = bridges \cup {nextId} /\ patch' = [modules |-> kept \cup {nextId}, path |-> path]
    BY <1>2 DEF WithBridge
  <2>2. nextId' \in 1..(MaxId + 1)
    BY <1>2, <2>1, EpochAssumption DEF WithBridge, Ids
  <2> QED
    BY <2>1, <2>2 DEF Typed, TypeOK
<1> QED
  BY <1>1, <1>2

LEMMA OwnStepReplaces == Typed /\ OwnStep => Replaces
<1> SUFFICES ASSUME Typed, OwnStep PROVE Replaces
  OBVIOUS
<1>1. ASSUME NEW f \in Files, NEW setPath \in BOOLEAN, LoadPatch(f, setPath) PROVE Replaces
  <2>1. LoadedPath(f, setPath) \in Paths
    BY OnDisk DEF LoadedPath
  <2>2. /\ patch' \in [modules : SUBSET Ids, path : Paths] /\ patch'.path = LoadedPath(f, setPath)
        /\ bridges' \subseteq Ids /\ nextId' \in 1..(MaxId + 1)
    BY <1>1, <2>1, OnDisk, WithBridgeTyped DEF LoadPatch
  <2>3. home' = LoadedPath(f, setPath) /\ failed' = FALSE
    BY <1>1 DEF LoadPatch, LoadedPath
  <2>4. Arm
    BY <1>1 DEF LoadPatch, ArmAfterLoad
  <2> QED
    BY <1>1, <2>1, <2>2, <2>3, <2>4, OwnReplaces DEF LoadPatch, Replaces
<1>2. CASE LoadFails
  <2>1. patch.path \in Paths /\ {} \in SUBSET Ids
    BY DEF Typed, TypeOK
  <2>2. patch' \in [modules : SUBSET Ids, path : Paths] /\ bridges' \subseteq Ids /\ nextId' \in 1..(MaxId + 1)
    BY <1>2, <2>1, WithBridgeTyped DEF LoadFails
  <2>3. home' \in Paths /\ failed' \in BOOLEAN /\ failed'
    BY <1>2 DEF LoadFails, Paths
  <2> QED
    BY <1>2, <2>2, <2>3, OwnReplaces DEF LoadFails, BumpAfterFailure, Replaces
<1>3. CASE ClearPatch
  <2>1. NoPath \in Paths /\ {} \in SUBSET Ids
    BY DEF Paths
  <2>2. /\ patch' \in [modules : SUBSET Ids, path : Paths] /\ patch'.path = NoPath
        /\ bridges' \subseteq Ids /\ nextId' \in 1..(MaxId + 1)
    BY <1>3, <2>1, WithBridgeTyped DEF ClearPatch
  <2> QED
    BY <1>3, <2>1, <2>2, OwnReplaces DEF ClearPatch, Replaces
<1>4. ASSUME NEW left \in SUBSET patch.modules, ClearFails(left) PROVE Replaces
  <2>1. patch' \in [modules : SUBSET Ids, path : Paths]
    BY <1>4 DEF ClearFails, Typed, TypeOK
  <2>2. home' \in Paths /\ failed' \in BOOLEAN /\ failed'
    BY <1>4 DEF ClearFails, Paths
  <2>3. bridges' \subseteq Ids /\ nextId' \in 1..(MaxId + 1)
    BY <1>4 DEF ClearFails, Typed, TypeOK
  <2> QED
    BY <1>4, <2>1, <2>2, <2>3, OwnReplaces DEF ClearFails, BumpAfterFailure, Replaces
<1> QED
  BY <1>1, <1>2, <1>3, <1>4 DEF OwnStep

-----------------------------------------------------------------------------
(* What they preserve *)

\* The numbers the invariant compares.
LEMMA Numbers ==
  ASSUME Typed
  PROVE  Count \in Nat /\ watermark.count \in Nat /\ epoch \in Nat /\ ref.epoch \in Nat /\ history.at \in Nat
  BY EpochAssumption DEF Typed, TypeOK, Count

LEMMA EditsKeep == IInv /\ Edits => IInv'
<1> SUFFICES ASSUME IInv, Edits PROVE IInv'
  OBVIOUS
<1>1. Typed /\ TypeOK /\ PathIsHome
  BY DEF IInv, Consistent, Typed
<1>2. /\ since' = since \cup {"edit"} /\ "edit" \in since'
      /\ masked' = (masked \/ ("swap" \in since' /\ since' # {"swap"}))
  BY DEF Edits, Happened
<1>3. since' \subseteq {"swap", "edit"} /\ masked' \in BOOLEAN
  BY <1>1, <1>2 DEF TypeOK
<1>4. Consistent' /\ Count' <= MaxActions
  <2>1. TypeOK'
    BY <1>1, <1>3 DEF Edits, TypeOK, Actions, Count
  <2> QED
    BY <1>1, <2>1 DEF Edits, Consistent, PathIsHome
<1>5. RefBehind'
  BY DEF IInv, Edits, RefBehind
<1>6. AllApplied'
  BY DEF Edits, AllApplied
<1>7. Growing'
  <2> SUFFICES ASSUME watermark.armed, "swap" \notin since', ~rewound'
               PROVE  Count' > watermark.count
    BY Numbers, <1>1, <1>4 DEF Growing, Edits
  <2>1. Count' = Count + 1 /\ ~rewound
    BY DEF Edits, IInv
  <2>2. Count >= watermark.count
    BY <1>2, <2>1 DEF IInv, Growing
  <2> QED
    BY <1>1, <2>1, <2>2, Numbers
<1>8. Untouched'
  BY <1>2 DEF Untouched
<1>9. Followed'
  <2> SUFFICES ASSUME Accepted, ~masked'
               PROVE  "swap" \notin since' /\ replaced = {} /\ Count' # 0
    BY <1>2 DEF Followed, Accepted, Edits
  <2>1. "swap" \notin since' /\ ~masked
    BY <1>2
  <2>2. replaced = {}
    BY <1>2, <2>1 DEF IInv, Followed
  <2> QED
    BY <2>1, <2>2 DEF Edits
<1> QED
  BY <1>4, <1>5, <1>6, <1>7, <1>8, <1>9 DEF IInv

\* The history is as it was, or empty.
LEMMA HistoryKept ==
  ASSUME Typed, ClearHistory \/ UNCHANGED <<history, rewound>>
  PROVE  /\ history' \in [actions : Seq(Actions), at : 0..MaxActions] /\ history'.at <= Count'
         /\ Count' \in Nat /\ Count' <= MaxActions /\ rewound' \in BOOLEAN
         /\ AllApplied => AllApplied'
         /\ ClearHistory => Count' = 0 /\ history'.at = 0
<1>1. CASE ClearHistory
  <2>1. history' = [actions |-> <<>>, at |-> 0] /\ rewound' = FALSE
    BY <1>1 DEF ClearHistory, NoHistory
  <2>2. history'.at = 0 /\ Count' = 0
    BY <2>1 DEF Count
  <2>3. history' \in [actions : Seq(Actions), at : 0..MaxActions]
    BY <2>1, EpochAssumption
  <2>4. AllApplied'
    BY <2>2 DEF AllApplied
  <2>5. MaxActions \in Nat
    BY EpochAssumption
  <2>6. history'.at <= Count' /\ Count' \in Nat /\ Count' <= MaxActions
    BY <2>2, <2>5
  <2>7. rewound' \in BOOLEAN
    BY <2>1
  <2> QED
    BY <2>2, <2>3, <2>4, <2>6, <2>7
<1>2. CASE UNCHANGED <<history, rewound>>
  <2>1. Count' = Count /\ history' = history /\ rewound' = rewound
    BY <1>2 DEF Count
  <2>2. ClearHistory => history = [actions |-> <<>>, at |-> 0]
    BY <2>1 DEF ClearHistory, NoHistory
  <2>3. ClearHistory => Count' = 0 /\ history'.at = 0
    BY <2>1, <2>2 DEF Count
  <2> QED
    BY <2>1, <2>3, Numbers DEF AllApplied, Typed, TypeOK, Actions, Count
<1> QED
  BY <1>1, <1>2

LEMMA SwapsKeep == IInv /\ Swaps => IInv'
<1> SUFFICES ASSUME IInv, Swaps PROVE IInv'
  OBVIOUS
<1>1. Typed /\ TypeOK /\ PathIsHome
  BY DEF IInv, Consistent, Typed
<1>2. /\ since' = since \cup {"swap"} /\ "swap" \in since'
      /\ masked' = (masked \/ ("swap" \in since' /\ since' # {"swap"}))
  BY DEF Swaps, Happened
<1>3. since' \subseteq {"swap", "edit"} /\ masked' \in BOOLEAN
  BY <1>1, <1>2 DEF TypeOK
<1>4. /\ history' \in [actions : Seq(Actions), at : 0..MaxActions] /\ history'.at <= Count'
      /\ Count' \in Nat /\ Count' <= MaxActions /\ rewound' \in BOOLEAN
      /\ AllApplied => AllApplied'
      /\ ClearHistory => Count' = 0 /\ history'.at = 0
  BY <1>1, HistoryKept DEF Swaps
<1>5. Consistent'
  <2>1. replaced' \subseteq {"own", "other"}
    BY <1>1 DEF Swaps, TypeOK
  <2>2. TypeOK'
    BY <1>1, <1>3, <1>4, <2>1 DEF Swaps, TypeOK, Actions, Count
  <2> QED
    BY <2>2 DEF Swaps, Consistent, PathIsHome
<1>6. RefBehind'
  BY DEF IInv, Swaps, RefBehind
<1>7. Growing' /\ Untouched'
  BY <1>2 DEF Growing, Untouched
<1>8. Followed'
  <2> SUFFICES ASSUME Accepted, ~masked'
               PROVE  /\ since' = {"swap"} /\ (replaced' = {} \/ Count' = 0)
                      /\ watermark.armed /\ watermark.count = 0 => watermark.ids = ref.modules
    BY <1>2 DEF Followed, Accepted, Swaps
  <2>1. since' = {"swap"} /\ ~masked
    BY <1>2
  <2>e. "edit" \notin since
    BY <1>2, <2>1
  <2>2. replaced = {} \/ Count = 0
    BY <2>1 DEF IInv, Followed
  <2>3. replaced' = {} \/ Count' = 0
    BY <1>4, <2>2 DEF Swaps, Count
  <2> QED
    BY <2>1, <2>3, <2>e DEF IInv, Followed
<1> QED
  BY <1>4, <1>5, <1>6, <1>7, <1>8 DEF IInv

\* A watermark set to what the step leaves.
LEMMA ArmKeeps ==
  ASSUME Typed, Arm, patch' \in [modules : SUBSET Ids, path : Paths], Count' \in Nat, Count' <= MaxActions
  PROVE  /\ watermark' \in [armed : BOOLEAN, path : Paths, count : 0..MaxActions, ids : SUBSET Ids]
         /\ watermark'.count = Count' /\ watermark'.ids = patch'.modules
         /\ since' = {} /\ masked' = (masked \/ "swap" \in since) /\ masked' \in BOOLEAN
         /\ Growing' /\ Untouched'
<1>1. watermark' = [armed |-> TRUE, path |-> patch'.path, count |-> Count', ids |-> patch'.modules]
  BY DEF Arm, Count
<1>2. Count' \in 0..MaxActions
  BY EpochAssumption
<1>3. patch'.path \in Paths /\ patch'.modules \in SUBSET Ids
  OBVIOUS
<1>4. watermark' \in [armed : BOOLEAN, path : Paths, count : 0..MaxActions, ids : SUBSET Ids]
  BY <1>1, <1>2, <1>3
<1>5. watermark'.count = Count' /\ watermark'.ids = patch'.modules
  BY <1>1
<1>6. Growing' /\ Untouched'
  BY <1>2, <1>5 DEF Growing, Untouched
<1>7. since' = {} /\ masked' = (masked \/ "swap" \in since) /\ masked' \in BOOLEAN
  BY DEF Arm
<1> QED
  BY <1>4, <1>5, <1>6, <1>7

LEMMA BumpDoes == Typed /\ BumpEpoch => epoch' = epoch + 1 /\ epoch' \in 1..MaxEpoch
  BY EpochAssumption DEF Typed, TypeOK, BumpEpoch

LEMMA ReplacesKeep == IInv /\ Replaces => IInv'
<1> SUFFICES ASSUME IInv, Replaces PROVE IInv'
  OBVIOUS
<1>1. Typed /\ TypeOK
  BY DEF IInv, Consistent, Typed
<1>2. /\ history' \in [actions : Seq(Actions), at : 0..MaxActions] /\ history'.at <= Count'
      /\ Count' \in Nat /\ Count' <= MaxActions /\ rewound' \in BOOLEAN
      /\ AllApplied => AllApplied'
  BY <1>1, HistoryKept DEF Replaces
<1>3. /\ watermark' \in [armed : BOOLEAN, path : Paths, count : 0..MaxActions, ids : SUBSET Ids]
      /\ since' = {} /\ masked' \in BOOLEAN
      /\ Growing' /\ Untouched'
  BY <1>1, <1>2, ArmKeeps DEF Replaces
<1>4. epoch' = epoch + 1 /\ epoch' \in 1..MaxEpoch
  BY <1>1, BumpDoes DEF Replaces
<1>5. Consistent'
  <2>1. replaced' \subseteq {"own", "other"}
    BY <1>1 DEF Replaces, TypeOK
  <2>2. TypeOK'
    BY <1>1, <1>2, <1>3, <1>4, <2>1 DEF Replaces, TypeOK, Actions, Count
  <2> QED
    BY <2>2 DEF Replaces, Consistent, PathIsHome
<1>6. ref'.epoch = ref.epoch /\ ref.epoch < epoch'
  BY <1>1, <1>4, Numbers DEF Replaces, IInv, RefBehind
<1>7. RefBehind' /\ Followed'
  BY <1>1, <1>4, <1>6, Numbers DEF RefBehind, Followed, Accepted
<1> QED
  BY <1>2, <1>3, <1>5, <1>7 DEF IInv

\* The steps that set the watermark and leave the modules alone.
Rearms ==
  /\ Arm
  /\ epoch' \in {epoch, epoch + 1} /\ epoch' \in 1..MaxEpoch
  /\ patch' \in [modules : {patch.modules}, path : Paths] /\ home' \in Paths /\ failed' \in BOOLEAN
  /\ PathIsHome => PathIsHome'
  /\ disk' \in [Files -> [modules : SUBSET Ids, key : Paths]]
  /\ UNCHANGED <<history, bridges, nextId, generation, replaced, rewound, ref>>

LEMMA SavePatchRearms ==
  ASSUME Typed, NEW path \in Paths, SavePatch(path)
  PROVE  Rearms
<1> DEFINE f == IF path = NoPath THEN patch.path ELSE path
<1>1. /\ f \in Paths /\ f # NoPath /\ Arm /\ home' = f /\ patch' = [patch EXCEPT !.path = f]
      /\ disk' = [disk EXCEPT ![f] = [modules |-> patch.modules, key |-> NoPath]]
      /\ failed' = FALSE
      /\ UNCHANGED <<history, bridges, nextId, epoch, generation, replaced, rewound, ref>>
  BY DEF SavePatch, Typed, TypeOK
<1> HIDE DEF f
<1>2. f \in Files
  BY <1>1 DEF Paths
<1>3. patch' \in [modules : {patch.modules}, path : Paths] /\ patch'.path = f
  BY <1>1 DEF Typed, TypeOK
<1>4. disk' \in [Files -> [modules : SUBSET Ids, key : Paths]]
  BY <1>1, <1>2 DEF Typed, TypeOK, Paths
<1>5. epoch' = epoch /\ epoch' \in 1..MaxEpoch
  BY <1>1 DEF Typed, TypeOK
<1> QED
  BY <1>1, <1>3, <1>4, <1>5 DEF Rearms, PathIsHome

LEMMA PollRearms == Typed /\ Poll => Rearms
<1> SUFFICES ASSUME Typed, Poll PROVE Rearms
  OBVIOUS
<1>1. epoch' \in {epoch, epoch + 1} /\ epoch' \in 1..MaxEpoch
  <2>1. CASE BumpEpoch
    BY <2>1, BumpDoes
  <2>2. CASE UNCHANGED epoch
    BY <2>2 DEF Typed, TypeOK
  <2> QED
    BY <2>1, <2>2 DEF Poll
<1>2. patch' \in [modules : {patch.modules}, path : Paths]
  BY DEF Poll, rack, Typed, TypeOK
<1>3. /\ Arm /\ home' = home /\ failed' = failed /\ patch' = patch /\ disk' = disk
      /\ UNCHANGED <<history, bridges, nextId, generation, replaced, rewound, ref>>
  BY DEF Poll, rack
<1>4. PathIsHome => PathIsHome'
  BY <1>3 DEF PathIsHome
<1> QED
  BY <1>1, <1>2, <1>3, <1>4 DEF Rearms, Typed, TypeOK

LEMMA RearmsKeep == IInv /\ Rearms => IInv'
<1> SUFFICES ASSUME IInv, Rearms PROVE IInv'
  OBVIOUS
<1>1. Typed /\ TypeOK /\ PathIsHome
  BY DEF IInv, Consistent, Typed
<1>2. /\ patch' \in [modules : SUBSET Ids, path : Paths] /\ patch'.modules = patch.modules
      /\ Count' = Count /\ Count' \in Nat /\ Count' <= MaxActions
  BY <1>1, Numbers DEF Rearms, TypeOK, Count, IInv
<1>3. /\ watermark' \in [armed : BOOLEAN, path : Paths, count : 0..MaxActions, ids : SUBSET Ids]
      /\ watermark'.count = Count' /\ watermark'.ids = patch'.modules
      /\ since' = {} /\ masked' = (masked \/ "swap" \in since) /\ masked' \in BOOLEAN
      /\ Growing' /\ Untouched'
  BY <1>1, <1>2, ArmKeeps DEF Rearms
<1>4. Consistent'
  <2>1. TypeOK'
    BY <1>1, <1>2, <1>3 DEF Rearms, TypeOK
  <2> QED
    BY <1>1, <2>1 DEF Rearms, Consistent
<1>5. ref'.epoch = ref.epoch /\ ref.epoch <= epoch' /\ epoch <= epoch'
  BY <1>1, Numbers DEF Rearms, IInv, RefBehind
<1>6. RefBehind'
  BY <1>1, <1>5, Numbers DEF Rearms, IInv, RefBehind
<1>7. AllApplied'
  BY <1>2 DEF Rearms, IInv, AllApplied
<1>8. Followed'
  <2> SUFFICES ASSUME Accepted', ~masked'
               PROVE  /\ replaced = {} /\ (Count = 0 => patch.modules = ref.modules)
    BY <1>2, <1>3 DEF Followed, Rearms
  <2>1. Accepted
    BY <1>1, Numbers DEF Accepted, Rearms, IInv, RefBehind
  <2>2. ~masked /\ "swap" \notin since
    BY <1>3
  <2> QED
    BY <2>1, <2>2 DEF IInv, Followed
<1> QED
  BY <1>2, <1>3, <1>4, <1>6, <1>7, <1>8 DEF IInv

LEMMA UserSaveAsKeeps ==
  ASSUME IInv, NEW f \in Files, UserSaveAs(f)
  PROVE  IInv'
<1>1. Typed /\ TypeOK /\ PathIsHome
  BY DEF IInv, Consistent, Typed
<1>2. patch' \in [modules : SUBSET Ids, path : Paths] /\ patch'.modules = patch.modules /\ patch'.path = f
  BY <1>1 DEF UserSaveAs, TypeOK, Paths
<1>3. disk' \in [Files -> [modules : SUBSET Ids, key : Paths]]
  BY <1>1 DEF UserSaveAs, TypeOK, Paths
<1>4. Consistent'
  <2>1. home' = f /\ f \in Paths /\ failed' = FALSE
    BY DEF UserSaveAs, Paths
  <2>2. TypeOK'
    BY <1>1, <1>2, <1>3, <2>1 DEF UserSaveAs, TypeOK
  <2> QED
    BY <1>2, <2>1, <2>2 DEF Consistent, PathIsHome
<1>5. /\ Count' = Count
      /\ UNCHANGED <<history, epoch, watermark, replaced, since, masked, rewound, ref>>
  BY DEF UserSaveAs, Count
<1> QED
  BY <1>2, <1>4, <1>5 DEF IInv, RefBehind, AllApplied, Growing, Untouched, Followed, Accepted

LEMMA SaveCopyKeeps ==
  ASSUME IInv, NEW f \in Files, SaveCopy(f)
  PROVE  IInv'
<1>1. TypeOK /\ PathIsHome
  BY DEF IInv, Consistent
<1>2. disk' \in [Files -> [modules : SUBSET Ids, key : Paths]]
  BY <1>1 DEF SaveCopy, TypeOK, Paths
<1>3. Consistent'
  BY <1>1, <1>2 DEF SaveCopy, TypeOK, ghosts, Consistent, PathIsHome
<1>4. UNCHANGED <<patch, history, epoch, watermark, replaced, since, masked, rewound, ref>> /\ Count' = Count
  BY DEF SaveCopy, ghosts, Count
<1> QED
  BY <1>3, <1>4 DEF IInv, RefBehind, AllApplied, Growing, Untouched, Followed, Accepted

LEMMA ReadSnapshotKeeps == IInv /\ ReadSnapshot => IInv'
<1> SUFFICES ASSUME IInv, ReadSnapshot PROVE IInv'
  OBVIOUS
<1>1. Typed /\ TypeOK /\ PathIsHome
  BY DEF IInv, Consistent, Typed
<1>2. /\ ref' = [epoch |-> epoch, modules |-> patch.modules]
      /\ replaced' = {} /\ masked' = ("swap" \in since) /\ masked' \in BOOLEAN
      /\ UNCHANGED <<rack, epoch, watermark, generation, since, rewound, home, failed>>
      /\ Count' = Count
  BY DEF ReadSnapshot, rack, Count
<1>3. Consistent'
  <2>1. ref' \in [epoch : 1..MaxEpoch, modules : SUBSET Ids]
    BY <1>1, <1>2 DEF TypeOK
  <2>2. TypeOK'
    BY <1>1, <1>2, <2>1 DEF TypeOK, rack
  <2> QED
    BY <1>1, <1>2, <2>2 DEF Consistent, PathIsHome, rack
<1>4. RefBehind'
  BY <1>1, <1>2, Numbers DEF RefBehind
<1>5. AllApplied' /\ Growing' /\ Untouched'
  BY <1>2 DEF IInv, AllApplied, Growing, Untouched, rack
<1>6. Followed'
  <2> SUFFICES ASSUME ~masked'
               PROVE  /\ "swap" \notin since
                      /\ watermark.armed /\ "edit" \notin since => watermark.ids = patch.modules
    BY <1>2 DEF Followed, rack
  <2>1. "swap" \notin since
    BY <1>2
  <2>2. "edit" \notin since => since = {}
    BY <1>1, <2>1 DEF TypeOK
  <2> QED
    BY <2>1, <2>2 DEF IInv, Untouched
<1> QED
  BY <1>2, <1>3, <1>4, <1>5, <1>6 DEF IInv

LEMMA StutterKeeps == IInv /\ UNCHANGED vars => IInv'
<1> SUFFICES ASSUME IInv, UNCHANGED vars PROVE IInv'
  OBVIOUS
<1>1. Consistent'
  BY DEF IInv, vars, rack, ghosts, Consistent, TypeOK, PathIsHome
<1>2. UNCHANGED <<patch, history, epoch, watermark, replaced, since, masked, rewound, ref>> /\ Count' = Count
  BY DEF vars, rack, ghosts, Count
<1> QED
  BY <1>1, <1>2 DEF IInv, RefBehind, AllApplied, Growing, Untouched, Followed, Accepted

-----------------------------------------------------------------------------
LEMMA InitHolds == Init => IInv
<1> SUFFICES ASSUME Init PROVE IInv
  OBVIOUS
<1>1. Count = 0 /\ history.at = 0 /\ history \in [actions : Seq(Actions), at : 0..MaxActions]
  BY EpochAssumption DEF Init, NoHistory, Count
<1>2. {1, 2} \subseteq Ids /\ nextId \in 1..(MaxId + 1)
  BY EpochAssumption DEF Init, Ids
<1>3. disk \in [Files -> [modules : SUBSET Ids, key : Paths]]
  BY <1>2 DEF Init
<1>4. patch \in [modules : SUBSET Ids, path : Paths] /\ bridges \subseteq Ids /\ home \in Paths
  BY <1>2 DEF Init, Paths
<1>5. ref = [epoch |-> 1, modules |-> {1}] /\ 1 \in 1..MaxEpoch /\ epoch = 1
  BY EpochAssumption DEF Init
<1>6. ref \in [epoch : 1..MaxEpoch, modules : SUBSET Ids]
  BY <1>2, <1>5
<1>7. watermark \in [armed : BOOLEAN, path : Paths, count : 0..MaxActions, ids : SUBSET Ids] /\ ~watermark.armed
  BY EpochAssumption DEF Init, Paths
<1>8. /\ generation \in 0..MaxGeneration /\ replaced = {} /\ since = {}
      /\ masked = FALSE /\ rewound = FALSE /\ failed = FALSE
  BY EpochAssumption DEF Init
<1>9. TypeOK
  <2>1. /\ replaced \subseteq {"own", "other"} /\ since \subseteq {"swap", "edit"}
        /\ {masked, rewound} \subseteq BOOLEAN /\ failed \in BOOLEAN
    BY <1>8
  <2>2. history.at <= Len(history.actions)
    BY <1>1 DEF Count
  <2>3. epoch \in 1..MaxEpoch
    BY <1>5
  <2> QED
    BY <1>1, <1>2, <1>3, <1>4, <1>6, <1>7, <1>8, <2>1, <2>2, <2>3 DEF TypeOK, Actions
<1>10. PathIsHome
  BY DEF Init, PathIsHome
<1>11. RefBehind /\ AllApplied /\ Growing /\ Untouched
  BY <1>1, <1>5, <1>7, <1>8 DEF RefBehind, AllApplied, Growing, Untouched
<1>12. Followed
  BY <1>7, <1>8 DEF Followed, Init
<1> QED
  BY <1>1, <1>9, <1>10, <1>11, <1>12, EpochAssumption DEF IInv, Consistent

LEMMA NextKeeps == IInv /\ [Next]_vars => IInv'
<1> SUFFICES ASSUME IInv, [Next]_vars PROVE IInv'
  OBVIOUS
<1>1. Typed
  BY DEF IInv, Consistent, Typed
<1>2. CASE (\E asBridge \in BOOLEAN : AddModule(asBridge)) \/ (\E id \in Ids : RemoveModule(id)) \/ Undo \/ Redo
  BY <1>1, <1>2, AddModuleEdits, RemoveModuleEdits, UndoEdits, RedoEdits, EditsKeep
<1>3. CASE (\E f \in Files : UserOpen(f)) \/ UserNew \/ UserOpenFails
  BY <1>1, <1>3, UserSwaps, SwapsKeep
<1>4. CASE \E f \in Files : UserSaveAs(f) \/ SaveCopy(f)
  BY <1>4, UserSaveAsKeeps, SaveCopyKeeps
<1>5. CASE OwnStep
  BY <1>1, <1>5, OwnStepReplaces, ReplacesKeep
<1>6. CASE (\E path \in Paths : SavePatch(path)) \/ Poll
  BY <1>1, <1>6, SavePatchRearms, PollRearms, RearmsKeep
<1>7. CASE \E left \in SUBSET patch.modules : ClearThrowsForeign(left)
  BY <1>1, <1>7, ClearThrowsSwaps, SwapsKeep
<1>8. CASE \E f \in Files : \E left \in SUBSET disk[f].modules : LoadThrowsForeign(f, left)
  BY <1>1, <1>8, LoadThrowsSwaps, SwapsKeep
<1>9. CASE ReadSnapshot \/ UNCHANGED vars
  BY <1>9, ReadSnapshotKeeps, StutterKeeps
<1> QED
  BY <1>2, <1>3, <1>4, <1>5, <1>6, <1>7, <1>8, <1>9 DEF Next, OwnStep

\* What the poll remembers, what happened since it did, and the references that were
\* read, in every behaviour.
THEOREM Invariance == Spec => []IInv
  BY InitHolds, NextKeeps, PTL DEF Spec

\* The state is well formed, and "save where this patch already lives" means the
\* file it was loaded from or last saved to.
THEOREM ConsistentCorrect == Spec => []Consistent
<1>1. IInv => Consistent
  BY DEF IInv
<1> QED
  BY <1>1, Invariance, PTL

\* No reference read before the plugin replaced the patch is served afterwards.
THEOREM OwnReplacementsRefuseCorrect == Spec => []OwnReplacementsRefuse
<1>1. IInv => OwnReplacementsRefuse
  BY Numbers DEF IInv, Consistent, Typed, RefBehind, OwnReplacementsRefuse, Accepted
<1> QED
  BY <1>1, Invariance, PTL

\* The poll reports no replacement of a patch that was only edited and saved.
THEOREM PollNeverInventsCorrect == Spec => PollNeverInvents
<1>1. IInv /\ [Next]_vars => [Poll /\ epoch' # epoch => "swap" \in since \/ rewound]_vars
  <2> SUFFICES ASSUME IInv, Poll, epoch' # epoch, "swap" \notin since, ~rewound PROVE FALSE
    OBVIOUS
  <2>1. watermark.armed /\ Replaced(Count)
    BY DEF Poll, Count
  <2>2. Typed
    BY DEF IInv, Consistent, Typed
  <2>3. Count >= watermark.count /\ (Count = watermark.count => patch.modules = watermark.ids)
    BY <2>1 DEF IInv, Growing
  <2>4. Count <= watermark.count /\ ~(Count = 0 /\ watermark.count > 0)
    BY <2>1, <2>2, <2>3, Numbers DEF Replaced
  <2>5. patch.modules = watermark.ids
    BY <2>2, <2>3, <2>4, Numbers
  <2> QED
    BY <2>1, <2>4, <2>5 DEF Replaced
<1> QED
  BY <1>1, Invariance, PTL DEF Spec, PollNeverInvents

\* The next poll notices a patch the user put in place of an unrelated one.
THEOREM UnrelatedPatchNoticedCorrect == Spec => UnrelatedPatchNoticed
<1>1. IInv /\ [Next]_vars =>
        [ (Poll /\ since = {"swap"} /\ ~masked /\ Accepted /\ watermark.armed)
          => \/ epoch' # epoch
             \/ replaced = {}
             \/ ref.modules = {} \/ ref.modules \cap patch.modules # {} ]_vars
  <2> SUFFICES ASSUME IInv, Poll, since = {"swap"}, ~masked, Accepted, watermark.armed,
                      epoch' = epoch, replaced # {}, ref.modules # {}
               PROVE  ref.modules \cap patch.modules # {}
    OBVIOUS
  <2>1. Typed
    BY DEF IInv, Consistent, Typed
  <2>2. ~Replaced(Count)
    BY <2>1, BumpDoes, Numbers DEF Poll, Count
  <2>3. Count = 0 /\ (watermark.count = 0 => watermark.ids = ref.modules)
    BY DEF IInv, Followed
  <2>4. watermark.count = 0
    BY <2>1, <2>2, <2>3, Numbers DEF Replaced
  <2> QED
    BY <2>2, <2>3, <2>4 DEF Replaced
<1> QED
  BY <1>1, Invariance, PTL DEF Spec, UnrelatedPatchNoticed
=============================================================================
