--------------------------- MODULE OperationCache ---------------------------
(***************************************************************************)
(* The idempotency cache: executeCommand of rackside/Handlers.cpp with     *)
(* RackBridge::lookupOperation and recordOperation, and the exception      *)
(* barrier the pump puts around it.                                        *)
(*                                                                         *)
(* A client names a mutation with an operation id and may send it again.   *)
(* The UI thread looks the id up, dispatches on a miss and records the     *)
(* result if the handler called it cacheable; only the clock moves between *)
(* the lookup and the record. A request stands for the fingerprint of      *)
(* method and payload; what the dispatched handler does is any outcome its *)
(* code can produce.                                                       *)
(*                                                                         *)
(* Results are numbered as they are recorded, so opCache_ is a set of      *)
(* numbers, of which the lowest comes first. flagged, executed, lastUse    *)
(* and answer are history variables.                                       *)
(***************************************************************************)
EXTENDS Integers, Sequences, FiniteSets

CONSTANTS
  Ops,        \* operation ids
  Requests,   \* request fingerprints
  Commits,    \* those whose method is txn.commit; the others are patchfile.*
  CacheCap,   \* entries kept (512)
  CacheTtl,   \* LIMIT_IDEMPOTENCY_CACHE_MS, in ticks
  MaxTime,    \* last tick of the clock (bound)
  MaxRuns,    \* executions in a run (bound)
  Nothing     \* no operation

ASSUME CacheAssumption ==
  /\ Commits \subseteq Requests
  /\ CacheCap \in Nat \ {0} /\ {CacheTtl, MaxTime, MaxRuns} \subseteq Nat
  /\ Nothing \notin Ops \cup Requests

VARIABLES
  now,       \* steadyNowMs()
  cache,     \* opCache_: the results kept
  running,   \* the command dispatched and not yet answered
  runs,      \* commands dispatched so far
  answer,    \* the latest answer
  log,       \* every result recorded
  executed,  \* what each execution answered: [op, req, outcome]
  flagged,   \* answers that carried mutationMayHaveOccurred
  lastUse    \* when each id was last recorded or replayed

cacheVars == <<now, cache, running, runs, answer, log, executed, flagged, lastUse>>

\* What a mutating handler answers: success; an error raised before anything
\* changed; an error after which the patch may have changed (ROLLBACK_FAILED, or
\* INTERNAL once Rack has been called); or an exception that reaches guardedCall.
Outcomes == {"done", "refused", "indeterminate", "threw"}

MutationMayHaveOccurred(outcome) == outcome \in {"indeterminate", "threw"}

\* HandlerResult::cacheable. patchfile.* results are cached on success only, and
\* a handler that throws never reaches recordOperation.
Cacheable(req, outcome) ==
  \/ outcome = "done"
  \/ outcome = "indeterminate" /\ req \in Commits

Entry  == [op : Ops, req : Requests, outcome : Outcomes, at : 0..MaxTime]
Idle   == [op |-> Nothing, req |-> Nothing]
NoAnswer == [op |-> Nothing, req |-> Nothing, outcome |-> "refused", how |-> "none"]

CacheInit ==
  /\ now = 0
  /\ cache = {}
  /\ running = Idle
  /\ runs = 0
  /\ answer = NoAnswer
  /\ log = <<>>
  /\ executed = {}
  /\ flagged = {}
  /\ lastUse = [op \in Ops |-> 0]

-----------------------------------------------------------------------------
LiveEntry(i) == now - log[i].at < CacheTtl

\* Faulty variant: the lookup's expiry test disagrees with the record's by one.
HitsTooShort(op) == {i \in cache : log[i].op = op /\ now - log[i].at < CacheTtl - 1}

\* The entries lookupOperation considers for an id; it takes the first.
Hits(op) == {i \in cache : log[i].op = op /\ LiveEntry(i)}

First(entries) == CHOOSE i \in entries : \A j \in entries : i <= j

Found(op) == log[First(Hits(op))]

\* Faulty variant: the request's fingerprint is not compared.
MismatchIgnored(op, req) == FALSE

Mismatch(op, req) == Hits(op) # {} /\ Found(op).req # req

\* OP_MISMATCH and OP_REPLAY are answered without dispatching.
LookupMismatch(op, req) ==
  /\ running = Idle
  /\ Mismatch(op, req)
  /\ answer' = [op |-> op, req |-> req, outcome |-> "refused", how |-> "mismatch"]
  /\ UNCHANGED <<now, cache, running, runs, log, executed, flagged, lastUse>>

LookupReplay(op, req) ==
  /\ running = Idle
  /\ Hits(op) # {} /\ ~Mismatch(op, req)
  /\ answer' = [op |-> op, req |-> req, outcome |-> Found(op).outcome, how |-> "replay"]
  /\ lastUse' = [lastUse EXCEPT ![op] = now]
  /\ UNCHANGED <<now, cache, running, runs, log, executed, flagged>>

LookupMiss(op, req) ==
  /\ running = Idle /\ runs < MaxRuns
  /\ Hits(op) = {}
  /\ running' = [op |-> op, req |-> req]
  /\ runs' = runs + 1
  /\ UNCHANGED <<now, cache, answer, log, executed, flagged, lastUse>>

-----------------------------------------------------------------------------
Unexpired == {i \in cache : LiveEntry(i)}

\* Faulty variant: only expired entries are dropped.
NoCapacityLimit == Unexpired

\* recordOperation drops expired entries, then the oldest one if the cache is full.
MakeRoom ==
  IF Cardinality(Unexpired) >= CacheCap THEN Unexpired \ {First(Unexpired)} ELSE Unexpired

Record(e) ==
  /\ cache' = MakeRoom \cup {Len(log) + 1}
  /\ log' = Append(log, e)
  /\ lastUse' = [lastUse EXCEPT ![e.op] = now]

Finish(outcome) ==
  LET op  == running.op
      req == running.req
  IN /\ running # Idle
     /\ running' = Idle
     /\ answer' = [op |-> op, req |-> req, outcome |-> outcome, how |-> "ran"]
     /\ executed' = executed \cup {[op |-> op, req |-> req, outcome |-> outcome]}
     /\ flagged' = IF MutationMayHaveOccurred(outcome)
                     THEN flagged \cup {[op |-> op, at |-> now, recorded |-> Len(log)]}
                     ELSE flagged
     /\ IF Cacheable(req, outcome)
          THEN Record([op |-> op, req |-> req, outcome |-> outcome, at |-> now])
          ELSE UNCHANGED <<cache, log, lastUse>>
     /\ UNCHANGED <<now, runs>>

Tick == now < MaxTime /\ now' = now + 1
        /\ UNCHANGED <<cache, running, runs, answer, log, executed, flagged, lastUse>>

CacheNext ==
  \/ \E op \in Ops, req \in Requests :
       LookupMismatch(op, req) \/ LookupReplay(op, req) \/ LookupMiss(op, req)
  \/ \E outcome \in Outcomes : Finish(outcome)
  \/ Tick

CacheSpec == CacheInit /\ [][CacheNext]_cacheVars

-----------------------------------------------------------------------------
CacheTypeOK ==
  /\ now \in 0..MaxTime
  /\ cache \subseteq DOMAIN log /\ Cardinality(cache) <= CacheCap
  /\ running \in [op : Ops, req : Requests] \cup {Idle}
  /\ runs \in 0..MaxRuns
  /\ answer \in [op : Ops, req : Requests, outcome : Outcomes,
                 how : {"ran", "replay", "mismatch"}] \cup {NoAnswer}
  /\ log \in Seq(Entry)
  /\ executed \subseteq [op : Ops, req : Requests, outcome : Outcomes]
  /\ flagged \subseteq [op : Ops, at : 0..MaxTime, recorded : Nat]
  /\ lastUse \in [Ops -> 0..MaxTime]

\* A replay reports what an execution of the very same request answered under
\* that id, never another request's success.
ReplaysOwnResult ==
  answer.how = "replay" =>
    [op |-> answer.op, req |-> answer.req, outcome |-> answer.outcome] \in executed

\* The cache stays within its capacity, and what it replays is the request's own.
CacheConsistent == CacheTypeOK /\ ReplaysOwnResult

\* A result is remembered for the cache's lifetime, unless CacheCap newer ones
\* have been recorded since.
Remembered(op) ==
  \E i \in DOMAIN log : /\ log[i].op = op
                        /\ now - log[i].at < CacheTtl
                        /\ Len(log) - i < CacheCap

Dispatches(op) == running = Idle /\ running' # Idle /\ running'.op = op

\* A mutation whose result is remembered is not executed again on a retry.
RememberedNotRerun == [][\A op \in Ops : Dispatches(op) => ~Remembered(op)]_cacheVars

\* docs/tools/troubleshooting.md of mutationMayHaveOccurred: "the change may
\* already have landed - only retry with the same operationId so the
\* idempotency cache can suppress reapplication".
FlaggedNotRerun ==
  [][\A op \in Ops : Dispatches(op) =>
       ~\E f \in flagged : /\ f.op = op
                           /\ now - f.at < CacheTtl
                           /\ Len(log) - f.recorded < CacheCap]_cacheVars

\* ADR-0001 of the cached results: "LRU+TTL". An unexpired result that is
\* dropped has not been used later than one that is kept.
EvictsLeastRecentlyUsed ==
  [][\A i \in cache \ cache' : LiveEntry(i) =>
       \A j \in cache \cap cache' : lastUse[log[i].op] <= lastUse[log[j].op]]_cacheVars
=============================================================================
