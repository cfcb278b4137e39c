----------------------------- MODULE RateLimiter -----------------------------
(***************************************************************************)
(* The limiter of parameter changes (apps/mcp-server, ratelimit.ts): a     *)
(* sliding window over the times of the changes it admitted. A request     *)
(* that is admitted is charged for all its changes at once, one that is    *)
(* refused for none. The clock is taken not to run backwards.              *)
(***************************************************************************)
EXTENDS Integers, Sequences

CONSTANTS
  Limit,   \* changes in a window; 0 disables the limiter
  Window,  \* length of the window
  MaxTime  \* (bound)

ASSUME LimiterAssumption == Limit \in Nat /\ Window \in Nat \ {0} /\ MaxTime \in Nat

VARIABLES
  time,     \* now()
  hits,     \* RateLimiter.hits: the times of changes that may be in the window
  admitted  \* the times of all the changes this process admitted

limiterVars == <<time, hits, admitted>>

LimiterInit == time = 0 /\ hits = <<>> /\ admitted = <<>>

\* Faulty variant: a change leaves the window one tick early.
CutoffEarly == time - Window + 1

Cutoff == time - Window

\* The first n hits are the ones to drop: those up to the first inside the window.
Expired(n) ==
  /\ n \in 0..Len(hits)
  /\ \A i \in 1..n : hits[i] <= Cutoff
  /\ n < Len(hits) => hits[n + 1] > Cutoff

Kept(n) == SubSeq(hits, n + 1, Len(hits))

Times(n) == [i \in 1..n |-> time]

Unlimited(count) == count <= 0 \/ Limit <= 0

\* admit(count) returns.
Admit(count) ==
  \/ /\ Unlimited(count)
     /\ UNCHANGED limiterVars
  \/ /\ ~Unlimited(count)
     /\ \E n \in 0..Len(hits) :
          /\ Expired(n)
          /\ Len(Kept(n)) + count <= Limit
          /\ hits' = Kept(n) \o Times(count)
     /\ admitted' = admitted \o Times(count)
     /\ UNCHANGED time

\* admit(count) throws RATE_LIMITED.
Refuse(count) ==
  /\ ~Unlimited(count)
  /\ \E n \in 0..Len(hits) :
       /\ Expired(n)
       /\ Len(Kept(n)) + count > Limit
       /\ hits' = Kept(n)
  /\ UNCHANGED <<time, admitted>>

Tick ==
  /\ time < MaxTime
  /\ time' = time + 1
  /\ UNCHANGED <<hits, admitted>>

\* The limiter lives as long as its process.
LimiterRestarts == hits' = <<>> /\ admitted' = <<>> /\ UNCHANGED time

LimiterNext == Tick \/ LimiterRestarts \/ \E count \in Nat : Admit(count) \/ Refuse(count)

LimiterSpec == LimiterInit /\ [][LimiterNext]_limiterVars

-----------------------------------------------------------------------------
\* The comment on RateLimiter: no burst across a boundary. Any Limit + 1 changes in a
\* row, wherever the window is laid, span at least its length.
NoBurst ==
  \A m, n \in DOMAIN admitted : n - m >= Limit => admitted[n] - admitted[m] >= Window

=============================================================================
