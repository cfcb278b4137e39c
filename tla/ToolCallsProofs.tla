--------------------------- MODULE ToolCallsProofs ---------------------------
(***************************************************************************)
(* Proofs about the limiter, for every limit, window and sequence of       *)
(* requests, and about the tool calls that use it, for any number of calls *)
(* and kinds of plan.                                                      *)
(*                                                                         *)
(* The window alone does not show NoBurst: the invariant says that hits is *)
(* the end of admitted, and that what is before that end has left the      *)
(* window. The tool calls inherit NoBurst because each of their steps is   *)
(* one of the limiter or leaves it alone.                                  *)
(***************************************************************************)
EXTENDS ToolCalls, SequenceTheorems, FiniteSetTheorems, WellFoundedInduction, TLAPS

-----------------------------------------------------------------------------
(* The limiter *)

\* Times do not decrease and are not in the future.
Ordered ==
  /\ \A i \in DOMAIN admitted : admitted[i] <= time
  /\ \A i, j \in DOMAIN admitted : i <= j => admitted[i] <= admitted[j]

\* The changes that were dropped from hits.
Dropped == Len(admitted) - Len(hits)

LimiterInv ==
  /\ time \in Nat
  /\ hits \in Seq(Nat)
  /\ admitted \in Seq(Nat)
  /\ Ordered
  /\ Dropped >= 0
  /\ \A i \in DOMAIN hits : hits[i] = admitted[Dropped + i]
  /\ \A i \in 1..Dropped : admitted[i] <= Cutoff
  /\ Limit > 0 => Len(hits) <= Limit
  /\ NoBurst

LEMMA KeptElements ==
  ASSUME hits \in Seq(Nat), NEW n \in 0..Len(hits)
  PROVE  /\ Kept(n) \in Seq(Nat)
         /\ Len(Kept(n)) = Len(hits) - n
         /\ \A i \in 1..Len(hits) - n : Kept(n)[i] = hits[n + i]
  BY DEF Kept

LEMMA TimesElements ==
  ASSUME time \in Nat, NEW n \in Nat
  PROVE  /\ Times(n) \in Seq(Nat)
         /\ Len(Times(n)) = n
         /\ \A i \in 1..n : Times(n)[i] = time
  BY DEF Times

\* The elements of a concatenation.
LEMMA RowElements ==
  ASSUME NEW S, NEW s \in Seq(S), NEW t \in Seq(S)
  PROVE  /\ s \o t \in Seq(S)
         /\ Len(s \o t) = Len(s) + Len(t)
         /\ \A i \in 1..Len(s) : (s \o t)[i] = s[i]
         /\ \A i \in 1..Len(t) : (s \o t)[Len(s) + i] = t[i]
  OBVIOUS

LEMMA InitInv == LimiterInit => LimiterInv
  BY LimiterAssumption DEF LimiterInit, LimiterInv, Ordered, Dropped, NoBurst

LEMMA TickInv == LimiterInv /\ Tick => LimiterInv'
  <1> SUFFICES ASSUME LimiterInv, Tick PROVE LimiterInv'
    OBVIOUS
  <1> USE LimiterAssumption DEF Tick, LimiterInv
  <1>1. Ordered'
    BY DEF Ordered
  <1>2. \A i \in 1..Dropped' : admitted'[i] <= Cutoff'
    BY DEF Dropped, Cutoff
  <1>3. NoBurst'
    BY DEF NoBurst
  <1> QED
    BY <1>1, <1>2, <1>3 DEF Dropped

LEMMA RestartInv == LimiterInv /\ LimiterRestarts => LimiterInv'
  BY LimiterAssumption DEF LimiterRestarts, LimiterInv, Ordered, Dropped, NoBurst

\* Dropping the expired hits, which Refuse and Admit begin with.
LEMMA KeptInv ==
  ASSUME LimiterInv, NEW n \in 0..Len(hits), Expired(n)
  PROVE  /\ \A i \in 1..Dropped + n : admitted[i] <= Cutoff
         /\ \A i \in 1..Len(Kept(n)) : Kept(n)[i] = admitted[Dropped + n + i]
  <1> USE DEF LimiterInv
  <1>1. \A i \in 1..n : admitted[Dropped + i] <= Cutoff
    BY DEF Expired
  <1>2. ASSUME NEW i \in 1..Dropped + n PROVE admitted[i] <= Cutoff
    <2>1. CASE i <= Dropped
      BY <2>1
    <2>2. CASE i > Dropped
      <3>1. i - Dropped \in 1..n /\ Dropped + (i - Dropped) = i
        BY <2>2 DEF Dropped
      <3> QED
        BY <1>1, <3>1
    <2> QED
      BY <2>2 DEF Dropped
  <1>3. ASSUME NEW i \in 1..Len(Kept(n)) PROVE Kept(n)[i] = admitted[Dropped + n + i]
    <2>1. Len(Kept(n)) = Len(hits) - n /\ Len(hits) \in Nat /\ Dropped \in Int
      BY KeptElements DEF Dropped
    <2>2. i \in 1..Len(hits) - n /\ n + i \in DOMAIN hits
      BY <2>1
    <2>3. Kept(n)[i] = hits[n + i]
      BY KeptElements
    <2>4. hits[n + i] = admitted[Dropped + (n + i)]
      BY <2>2
    <2> QED
      BY <2>1, <2>3, <2>4
  <1> QED
    BY <1>2, <1>3

LEMMA RefuseInv ==
  ASSUME LimiterInv, NEW count \in Nat, Refuse(count)
  PROVE  LimiterInv'
  <1>1. PICK n \in 0..Len(hits) : Expired(n) /\ hits' = Kept(n)
    BY DEF Refuse
  <1>2. time' = time /\ admitted' = admitted
    BY DEF Refuse
  <1>3. hits' \in Seq(Nat) /\ Len(hits') = Len(hits) - n
    BY <1>1, KeptElements DEF LimiterInv
  <1>4. Dropped' = Dropped + n /\ Cutoff' = Cutoff
    BY <1>2, <1>3 DEF Dropped, Cutoff
  <1>5. \A i \in DOMAIN hits' : hits'[i] = admitted'[Dropped' + i]
    <2> SUFFICES ASSUME NEW i \in DOMAIN hits' PROVE hits'[i] = admitted'[Dropped' + i]
      OBVIOUS
    <2>1. i \in 1..Len(Kept(n))
      BY <1>1
    <2>2. Kept(n)[i] = admitted[Dropped + n + i]
      BY <1>1, KeptInv
    <2> QED
      BY <2>2, <1>1, <1>2, <1>4
  <1>6. \A i \in 1..Dropped' : admitted'[i] <= Cutoff'
    BY <1>1, <1>2, <1>4, KeptInv
  <1>7. Ordered' /\ NoBurst'
    BY <1>2 DEF Ordered, NoBurst, LimiterInv
  <1>8. Dropped' >= 0 /\ (Limit > 0 => Len(hits') <= Limit)
    BY <1>3, <1>4, LimiterAssumption DEF LimiterInv, Dropped
  <1>9. time' \in Nat /\ admitted' \in Seq(Nat)
    BY <1>2 DEF LimiterInv
  <1> QED
    BY <1>3, <1>5, <1>6, <1>7, <1>8, <1>9 DEF LimiterInv

LEMMA AdmitInv ==
  ASSUME LimiterInv, NEW count \in Nat, Admit(count)
  PROVE  LimiterInv'
  <1>1. CASE UNCHANGED limiterVars
    BY <1>1 DEF LimiterInv, limiterVars, Ordered, Dropped, NoBurst, Cutoff
  <1>2. CASE ~Unlimited(count) /\ ~UNCHANGED limiterVars
    <2>1. PICK n \in 0..Len(hits) : /\ Expired(n)
                                    /\ Len(Kept(n)) + count <= Limit
                                    /\ hits' = Kept(n) \o Times(count)
      BY <1>2 DEF Admit
    <2>2. time' = time /\ admitted' = admitted \o Times(count) /\ count > 0 /\ Limit > 0
      BY <1>2, LimiterAssumption DEF Admit, Unlimited
    <2>t. admitted \in Seq(Nat) /\ hits \in Seq(Nat) /\ time \in Nat
      BY DEF LimiterInv
    <2>b. Len(admitted) \in Nat /\ Len(hits) \in Nat /\ Dropped = Len(admitted) - Len(hits) /\ Dropped >= 0
      BY DEF LimiterInv, Dropped
    <2>c. PICK a \in Nat : a = Len(admitted)
      BY <2>b
    <2>3. a \in Nat /\ Len(hits) \in Nat /\ Dropped \in Nat /\ Dropped = a - Len(hits) /\ n \in 0..Len(hits)
      BY <2>b, <2>c
    <2>4. /\ Kept(n) \in Seq(Nat) /\ Len(Kept(n)) = Len(hits) - n
          /\ Times(count) \in Seq(Nat) /\ Len(Times(count)) = count
          /\ \A i \in 1..count : Times(count)[i] = time
      BY <2>t, KeptElements, TimesElements
    <2>a. /\ hits' \in Seq(Nat) /\ Len(hits') = Len(Kept(n)) + Len(Times(count))
          /\ \A i \in 1..Len(Kept(n)) : hits'[i] = Kept(n)[i]
          /\ \A i \in 1..Len(Times(count)) : hits'[Len(Kept(n)) + i] = Times(count)[i]
      <3>1. PICK s \in Seq(Nat), t \in Seq(Nat) : s = Kept(n) /\ t = Times(count)
        BY <2>4
      <3> QED
        BY <2>1, <3>1, RowElements
    <2>5. /\ hits' \in Seq(Nat) /\ Len(hits') = Len(hits) - n + count
          /\ \A i \in 1..Len(hits) - n : hits'[i] = Kept(n)[i]
          /\ \A i \in 1..count : hits'[Len(hits) - n + i] = time
      BY <2>a, <2>4
    <2>d. /\ admitted' \in Seq(Nat) /\ Len(admitted') = Len(admitted) + Len(Times(count))
          /\ \A i \in 1..Len(admitted) : admitted'[i] = admitted[i]
          /\ \A i \in 1..Len(Times(count)) : admitted'[Len(admitted) + i] = Times(count)[i]
      <3>1. PICK s \in Seq(Nat), t \in Seq(Nat) : s = admitted /\ t = Times(count)
        BY <2>t, <2>4
      <3> QED
        BY <2>2, <3>1, RowElements
    <2>6. /\ admitted' \in Seq(Nat) /\ Len(admitted') = a + count
          /\ \A i \in 1..a : admitted'[i] = admitted[i]
          /\ \A i \in 1..count : admitted'[a + i] = time
      BY <2>d, <2>c, <2>4
    <2>7. Dropped' = Dropped + n /\ Cutoff' = Cutoff
      <3>1. Dropped' = Len(admitted') - Len(hits')
        BY DEF Dropped
      <3>2. Cutoff' = Cutoff
        BY <2>2 DEF Cutoff
      <3> QED
        BY <3>1, <3>2, <2>3, <2>5, <2>6
    <2>8. \A i \in 1..Dropped' : admitted'[i] <= Cutoff'
      <3>1. \A i \in 1..Dropped + n : admitted[i] <= Cutoff
        BY <2>1, KeptInv
      <3>2. \A i \in 1..Dropped + n : i \in 1..a
        BY <2>3
      <3> QED
        BY <3>1, <3>2, <2>6, <2>7
    <2>9. ASSUME NEW i \in DOMAIN hits' PROVE hits'[i] = admitted'[Dropped' + i]
      <3>1. i \in 1..Len(hits) - n + count
        BY <2>5, <2>3
      <3>2. CASE i <= Len(hits) - n
        <4>0. i \in 1..Len(hits) - n /\ Dropped + n + i \in 1..a
          BY <3>1, <3>2, <2>3
        <4>1. i \in 1..Len(Kept(n)) /\ Dropped + n + i \in 1..a
          BY <4>0, <2>4
        <4>2. hits'[i] = Kept(n)[i] /\ Kept(n)[i] = admitted[Dropped + n + i]
          BY <4>1, <2>1, KeptInv
        <4> QED
          BY <4>1, <4>2, <2>6, <2>7
      <3>3. CASE i > Len(hits) - n
        <4>0. i - (Len(hits) - n) \in 1..count
          BY <3>1, <3>3
        <4>k. PICK k \in 1..count : k = i - (Len(hits) - n)
          BY <4>0
        <4>1. k \in 1..count /\ Len(hits) - n + k = i /\ Dropped + n + i = a + k
          BY <4>k, <3>1, <2>3
        <4>2. hits'[i] = time /\ admitted'[a + k] = time
          BY <4>1, <2>5, <2>6
        <4> QED
          BY <4>1, <4>2, <2>7
      <3> QED
        BY <3>1, <3>2, <3>3
    <2>10. ASSUME NEW i \in DOMAIN admitted' 
           PROVE \/ (i \in 1..a /\ admitted'[i] = admitted[i])
                 \/ (i \in (a + 1)..(a + count) /\ admitted'[i] = time)
      <3>1. i \in 1..a + count
        BY <2>6
      <3>2. CASE i <= a
        BY <3>2, <2>6
      <3>3. CASE i > a
        <4>1. PICK k \in 1..count : a + k = i
          BY <3>1, <3>3
        <4>2. admitted'[a + k] = time
          BY <2>6
        <4>3. i \in (a + 1)..(a + count)
          BY <3>1, <3>3
        <4> QED
          BY <4>1, <4>2
      <3> QED
        BY <3>2, <3>3, <3>1
    <2>11. Ordered'
      <3>a. Ordered /\ DOMAIN admitted = 1..a
        BY <2>c DEF LimiterInv
      <3>1. \A i \in 1..a : admitted[i] <= time
        BY <3>a DEF Ordered
      <3>2. \A i, j \in 1..a : i <= j => admitted[i] <= admitted[j]
        BY <3>a DEF Ordered
      <3>3. \A i \in DOMAIN admitted' : admitted'[i] <= time'
        <4> SUFFICES ASSUME NEW i \in DOMAIN admitted' PROVE admitted'[i] <= time
          BY <2>2
        <4>1. CASE i \in 1..a /\ admitted'[i] = admitted[i]
          BY <4>1, <3>1
        <4>2. CASE admitted'[i] = time
          BY <4>2, <2>t
        <4> QED
          BY <4>1, <4>2, <2>10
      <3>4. ASSUME NEW i \in DOMAIN admitted', NEW j \in DOMAIN admitted', i <= j
            PROVE  admitted'[i] <= admitted'[j]
        <4>1. CASE j \in 1..a
          <5>1. i \in 1..a
            BY <4>1, <3>4, <2>6
          <5> QED
            BY <4>1, <5>1, <3>4, <3>2, <2>6
        <4>2. CASE admitted'[j] = time
          BY <4>2, <3>3, <2>2
        <4> QED
          BY <4>1, <4>2, <2>10
      <3> QED
        BY <3>3, <3>4 DEF Ordered
    <2>12. NoBurst'
      <3> SUFFICES ASSUME NEW m \in DOMAIN admitted', NEW k \in DOMAIN admitted', k - m >= Limit
                   PROVE  admitted'[k] - admitted'[m] >= Window
        BY DEF NoBurst
      <3>1. m \in 1..a + count /\ k \in 1..a + count /\ m < k
        BY <2>2, <2>6, LimiterAssumption
      <3>2. CASE k <= a
        <4>1. m \in 1..a /\ k \in 1..a
          BY <3>1, <3>2
        <4>2. admitted[k] - admitted[m] >= Window
          BY <4>1, <2>c DEF LimiterInv, NoBurst
        <4> QED
          BY <4>1, <4>2, <2>6
      <3>3. CASE k > a
        <4>1. admitted'[k] = time
          BY <3>3, <2>10
        <4>2. m \in 1..Dropped'
          <5>1. PICK h \in Nat : h = Len(hits)
            BY <2>3
          <5>2. h - n + count <= Limit /\ Dropped' = a - h + n
            BY <2>1, <2>3, <2>4, <2>7, <5>1
          <5>3. m <= a - h + n
            BY <2>2, <2>3, <3>1, <5>2, LimiterAssumption
          <5>4. PICK d \in Int : d = Dropped' /\ m <= d
            BY <2>3, <5>1, <5>2, <5>3
          <5> QED
            BY <3>1, <5>4
        <4>3. admitted'[m] <= time - Window /\ admitted'[m] \in Nat
          BY <4>2, <2>6, <2>8, <2>7, <3>1 DEF Cutoff
        <4> QED
          BY <4>1, <4>3, <2>t, LimiterAssumption
      <3> QED
        BY <3>1, <3>2, <3>3
    <2>13. Len(hits') <= Limit
      BY <2>1, <2>4, <2>5
    <2>14. time' \in Nat /\ hits' \in Seq(Nat) /\ admitted' \in Seq(Nat) /\ Dropped' >= 0
      BY <2>2, <2>t, <2>3, <2>5, <2>6, <2>7
    <2> QED
      BY <2>8, <2>9, <2>11, <2>12, <2>13, <2>14 DEF LimiterInv
  <1> QED
    BY <1>1, <1>2 DEF Admit

LEMMA LimiterStep == LimiterInv /\ [LimiterNext]_limiterVars => LimiterInv'
<1> SUFFICES ASSUME LimiterInv, [LimiterNext]_limiterVars PROVE LimiterInv'
  OBVIOUS
<1>1. CASE Tick
  BY <1>1, TickInv
<1>2. CASE LimiterRestarts
  BY <1>2, RestartInv
<1>3. CASE \E count \in Nat : Admit(count) \/ Refuse(count)
  BY <1>3, AdmitInv, RefuseInv
<1>4. CASE UNCHANGED limiterVars
  BY <1>4 DEF LimiterInv, limiterVars, Ordered, Dropped, NoBurst, Cutoff
<1> QED
  BY <1>1, <1>2, <1>3, <1>4 DEF LimiterNext

LEMMA ElementsIn ==
  ASSUME NEW S, NEW T, NEW s \in Seq(S), \A i \in 1..Len(s) : s[i] \in T
  PROVE  s \in Seq(T)
<1>1. s = [i \in 1..Len(s) |-> s[i]] /\ Len(s) \in Nat
  OBVIOUS
<1> QED
  BY <1>1, IsASeq

\* No time in hits is in the future.
LEMMA HitsInTime ==
  ASSUME LimiterInv, time <= MaxTime
  PROVE  hits \in Seq(0..MaxTime)
<1>1. ASSUME NEW i \in 1..Len(hits) PROVE hits[i] \in 0..MaxTime
  <2>1. hits[i] = admitted[Dropped + i] /\ hits[i] \in Nat
    BY DEF LimiterInv
  <2>2. Dropped + i \in DOMAIN admitted
    BY DEF LimiterInv, Dropped
  <2>3. admitted[Dropped + i] <= time
    BY <2>2 DEF LimiterInv, Ordered
  <2> QED
    BY <2>1, <2>3, LimiterAssumption DEF LimiterInv
<1> QED
  BY <1>1, ElementsIn DEF LimiterInv

\* The comment on RateLimiter: however requests and ticks follow each other, no window
\* holds more admitted changes than the limit.
THEOREM LimiterNoBurst == LimiterSpec => []NoBurst
  <1>1. LimiterInit => LimiterInv
    BY InitInv
  <1>2. LimiterInv /\ [LimiterNext]_limiterVars => LimiterInv'
    BY LimiterStep
  <1>3. LimiterInv => NoBurst
    BY DEF LimiterInv
  <1> QED
    BY <1>1, <1>2, <1>3, PTL DEF LimiterSpec

-----------------------------------------------------------------------------
(* The tool calls *)

\* What a call knows of itself: a plan it did not get from its caller needs no token or
\* has one, and one that needs a token has it from the limiter on.
Truthful(r) ==
  /\ r.phase # "reply" => r.error = "none"
  /\ r.tool \notin {"commit", "attach"} \/ r.phase \in {"lease", "request", "cable"} => Confirmed(r)
  /\ r.ran = "yes" =>
       /\ r.phase \in {"cable", "reply"} /\ Confirmed(r)
       /\ r.error = "plain" => r.cause \in {"cable", "size"}

CallsInv == call \in [Calls -> Records] /\ \A c \in Calls : Truthful(call[c])

LEMMA RecordNames ==
  /\ \A p \in {"idle", "handler", "preview", "commit", "lease", "request", "cable", "reply"} : p \in Phases
  /\ \A w \in {"none", "arguments", "checks", "limit", "bridge", "cable", "size"} : w \in Causes
  /\ 0 \in Changes
  BY ToolCallsAssumption DEF Phases, Causes

\* One call moves, truthfully.
LEMMA OneGoes ==
  ASSUME CallsInv, NEW c \in Calls, NEW r \in Records, Truthful(r), Goes(c, r)
  PROVE  CallsInv'
  BY DEF CallsInv, Goes

LEMMA RestingCall == None \in Records /\ Truthful(None)
<1>1. None \in Records
  BY RecordNames DEF None, Records, Tools
<1>2. Truthful(None)
  BY DEF None, Truthful, Confirmed
<1> QED
  BY <1>1, <1>2

\* A call that fails says truly what it has done.
LEMMA FailsTruly ==
  ASSUME CallsInv, NEW c \in Calls, NEW error \in {"plain", "flagged"}, NEW cause \in Causes \ {"none"},
         call[c].ran = "yes" => error = "flagged" \/ cause \in {"cable", "size"},
         Fails(c, error, cause)
  PROVE  CallsInv'
<1> DEFINE r == [call[c] EXCEPT !.phase = "reply", !.error = error, !.cause = cause, !.changes = 0]
<1>1. call[c] \in Records /\ Truthful(call[c])
  BY DEF CallsInv
<1>2. r \in Records
  BY <1>1, RecordNames DEF Records
<1>3. Truthful(r)
  <2>1. /\ r.tool = call[c].tool /\ r.phase = "reply" /\ r.ran = call[c].ran /\ r.error = error /\ r.cause = cause
        /\ r.risky = call[c].risky /\ r.token = call[c].token
    BY <1>1 DEF Records
  <2> HIDE DEF r
  <2> QED
    BY <1>1, <2>1 DEF Truthful, Confirmed
<1>4. Goes(c, r)
  BY DEF Fails, Payload
<1> QED
  BY <1>2, <1>3, <1>4, OneGoes

LEMMA BridgeFailsTruly ==
  ASSUME CallsInv, NEW c \in Calls, NEW cause \in {"bridge", "cable"},
         call[c].ran = "yes" => cause = "cable", BridgeFails(c, cause)
  PROVE  CallsInv'
<1>1. cause \in Causes \ {"none"}
  BY RecordNames
<1>2. PICK error \in {"plain", "flagged"} : Fails(c, error, cause)
  BY DEF BridgeFails
<1> QED
  BY <1>1, <1>2, FailsTruly

\* A call goes on to a phase that asks no more of it than it has.
LEMMA GoesOnTruly ==
  ASSUME CallsInv, NEW c \in Calls, NEW phase \in Phases, To(c, phase),
         call[c].phase # "reply", call[c].ran = "yes" => phase = "reply",
         phase \in {"lease", "request", "cable"} => Confirmed(call[c])
  PROVE  CallsInv'
<1> DEFINE r == [call[c] EXCEPT !.phase = phase]
<1>1. call[c] \in Records /\ Truthful(call[c])
  BY DEF CallsInv
<1>2. r \in Records
  BY <1>1 DEF Records
<1>3. Truthful(r)
  <2>1. /\ r.tool = call[c].tool /\ r.phase = phase /\ r.ran = call[c].ran /\ r.error = call[c].error
        /\ r.cause = call[c].cause /\ r.risky = call[c].risky /\ r.token = call[c].token
    BY <1>1
  <2> HIDE DEF r
  <2> QED
    BY <1>1, <2>1 DEF Truthful, Confirmed
<1>4. Goes(c, r)
  BY DEF To
<1> QED
  BY <1>2, <1>3, <1>4, OneGoes

LEMMA ReceiveTruly ==
  ASSUME CallsInv, NEW c \in Calls, Receive(c)
  PROVE  CallsInv'
<1>0. PICK tool \in Tools : \E plan \in Plans(tool) :
        \/ Goes(c, [plan EXCEPT !.phase = "handler"])
        \/ Goes(c, [plan EXCEPT !.phase = "reply", !.error = Payload("plain"), !.cause = "arguments"])
  BY DEF Receive
<1>1. PICK plan \in Plans(tool) :
        \/ Goes(c, [plan EXCEPT !.phase = "handler"])
        \/ Goes(c, [plan EXCEPT !.phase = "reply", !.error = Payload("plain"), !.cause = "arguments"])
  BY <1>0
<1>2. plan \in Records /\ plan.ran = "no" /\ plan.error = "none" /\ (plan.tool \in {"commit", "attach"} \/ Confirmed(plan))
  <2>1. CASE tool \in {"commit", "attach"}
    <3>1. plan \in [phase : {"idle"}, tool : {tool}, changes : IF tool = "commit" THEN Changes ELSE {0},
                    risky : {"no", "yes"}, token : {"no", "yes"}, ran : {"no"}, error : {"none"}, cause : {"none"}]
      BY <2>1 DEF Plans
    <3>2. plan \in Records
      BY <3>1, RecordNames DEF Records
    <3> QED
      BY <2>1, <3>1, <3>2
  <2>2. CASE tool \notin {"commit", "attach"}
    <3>1. plan = [None EXCEPT !.tool = tool]
      BY <2>2 DEF Plans
    <3>2. plan \in Records
      BY <3>1, RestingCall DEF Records
    <3>3. plan.ran = "no" /\ plan.risky = "no" /\ plan.error = "none"
      BY <3>1 DEF None
    <3> QED
      BY <3>2, <3>3 DEF Confirmed
  <2> QED
    BY <2>1, <2>2
<1>3. CASE Goes(c, [plan EXCEPT !.phase = "handler"])
  <2> DEFINE r == [plan EXCEPT !.phase = "handler"]
  <2>1. r \in Records
    BY <1>2, RecordNames DEF Records
  <2>2. r.tool = plan.tool /\ r.phase = "handler" /\ r.ran = "no" /\ r.error = "none" /\ r.risky = plan.risky /\ r.token = plan.token
    BY <1>2
  <2>3. Truthful(r)
    <3> HIDE DEF r
    <3> QED
      BY <1>2, <2>2 DEF Truthful, Confirmed
  <2> QED
    BY <1>3, <2>1, <2>3, OneGoes
<1>4. CASE Goes(c, [plan EXCEPT !.phase = "reply", !.error = Payload("plain"), !.cause = "arguments"])
  <2> DEFINE r == [plan EXCEPT !.phase = "reply", !.error = "plain", !.cause = "arguments"]
  <2>1. r \in Records
    BY <1>2, RecordNames DEF Records
  <2>2. r.tool = plan.tool /\ r.phase = "reply" /\ r.ran = "no" /\ r.risky = plan.risky /\ r.token = plan.token
    BY <1>2 DEF Records
  <2>3. Truthful(r)
    <3> HIDE DEF r
    <3> QED
      BY <1>2, <2>2 DEF Truthful, Confirmed
  <2>4. Goes(c, r)
    BY <1>4 DEF Payload
  <2> QED
    BY <2>1, <2>3, <2>4, OneGoes
<1> QED
  BY <1>1, <1>3, <1>4

LEMMA HandleTruly ==
  ASSUME CallsInv, NEW c \in Calls, Handle(c)
  PROVE  CallsInv'
<1>1. call[c] \in Records /\ Truthful(call[c]) /\ call[c].phase = "handler"
  BY DEF CallsInv, Handle, At
<1>2. call[c].ran # "yes"
  BY <1>1 DEF Truthful
<1>3. CASE BridgeFails(c, "bridge")
  BY <1>2, <1>3, BridgeFailsTruly
<1>4. ASSUME ~ BridgeFails(c, "bridge") PROVE CallsInv'
  <2>1. call[c].tool \in Tools
    BY <1>1 DEF Records
  <2>2. CASE call[c].tool = "read" /\ To(c, "reply")
    BY <1>1, <2>2, RecordNames, GoesOnTruly
  <2>3. CASE call[c].tool \in {"build", "detach"} /\ To(c, "preview")
    BY <1>1, <1>2, <2>3, RecordNames, GoesOnTruly
  <2>4. CASE call[c].tool \in {"commit", "attach"} /\ To(c, "commit")
    BY <1>1, <1>2, <2>4, RecordNames, GoesOnTruly
  <2>5. CASE call[c].tool = "undo" /\ To(c, "lease")
    <3>1. Confirmed(call[c])
      BY <1>1, <2>5 DEF Truthful
    <3> QED
      BY <1>1, <1>2, <2>5, <3>1, RecordNames, GoesOnTruly
  <2> QED
    BY <1>4, <2>1, <2>2, <2>3, <2>4, <2>5 DEF Handle, Tools
<1> QED
  BY <1>3, <1>4

LEMMA PreviewTruly ==
  ASSUME CallsInv, NEW c \in Calls, Preview(c)
  PROVE  CallsInv'
<1>1. call[c] \in Records /\ Truthful(call[c]) /\ call[c].phase = "preview"
  BY DEF CallsInv, Preview, At
<1>2. call[c].ran # "yes"
  BY <1>1 DEF Truthful
<1>3. CASE BridgeFails(c, "bridge")
  BY <1>2, <1>3, BridgeFailsTruly
<1>4. CASE To(c, "reply")
  BY <1>1, <1>4, RecordNames, GoesOnTruly
<1>5. ASSUME NEW n \in Changes, call[c].tool = "build",
             Goes(c, [call[c] EXCEPT !.phase = "commit", !.changes = n])
      PROVE  CallsInv'
  <2> DEFINE r == [call[c] EXCEPT !.phase = "commit", !.changes = n]
  <2>1. r \in Records
    BY <1>1, RecordNames DEF Records
  <2>2. r.tool = "build" /\ r.phase = "commit" /\ r.error = call[c].error /\ r.ran = call[c].ran /\ r.risky = call[c].risky
        /\ r.token = call[c].token
    BY <1>5
  <2>3. Truthful(r)
    <3> HIDE DEF r
    <3> QED
      BY <1>1, <1>5, <2>2 DEF Truthful, Confirmed
  <2> QED
    BY <1>5, <2>1, <2>3, OneGoes
<1>6. ASSUME NEW risky \in {"no", "yes"}, call[c].tool = "detach",
             Goes(c, [call[c] EXCEPT !.phase = "commit", !.risky = risky, !.token = "yes"])
      PROVE  CallsInv'
  <2> DEFINE r == [call[c] EXCEPT !.phase = "commit", !.risky = risky, !.token = "yes"]
  <2>1. r \in Records
    BY <1>1, RecordNames DEF Records
  <2>2. r.tool = "detach" /\ r.phase = "commit" /\ r.error = call[c].error /\ r.ran = call[c].ran /\ r.token = "yes"
    BY <1>6
  <2>3. Truthful(r)
    <3> HIDE DEF r
    <3> QED
      BY <1>1, <2>2 DEF Truthful, Confirmed
  <2> QED
    BY <1>6, <2>1, <2>3, OneGoes
<1> QED
  BY <1>3, <1>4, <1>5, <1>6 DEF Preview

LEMMA CommitTruly ==
  ASSUME CallsInv, NEW c \in Calls, Commit(c)
  PROVE  CallsInv'
<1>1. call[c] \in Records /\ Truthful(call[c]) /\ call[c].phase = "commit"
  BY DEF CallsInv, Commit, At
<1>2. call[c].ran # "yes"
  BY <1>1 DEF Truthful
<1>3. CASE Fails(c, "plain", "checks")
  BY <1>2, <1>3, RecordNames, FailsTruly
<1>4. CASE Fails(c, "plain", "limit")
  BY <1>2, <1>4, RecordNames, FailsTruly
<1>5. ASSUME Confirmed(call[c]), Goes(c, [call[c] EXCEPT !.phase = "lease", !.changes = 0]) PROVE CallsInv'
  <2> DEFINE r == [call[c] EXCEPT !.phase = "lease", !.changes = 0]
  <2>1. r \in Records
    BY <1>1, RecordNames DEF Records
  <2>2. r.ran = call[c].ran /\ r.error = call[c].error /\ r.risky = call[c].risky /\ r.token = call[c].token
    BY <1>1
  <2>3. Truthful(r)
    <3> HIDE DEF r
    <3> QED
      BY <1>1, <1>5, <2>2 DEF Truthful, Confirmed
  <2> QED
    BY <1>5, <2>1, <2>3, OneGoes
<1> QED
  BY <1>3, <1>4, <1>5 DEF Commit

LEMMA EnsureLeaseTruly ==
  ASSUME CallsInv, NEW c \in Calls, EnsureLease(c)
  PROVE  CallsInv'
<1>1. Truthful(call[c]) /\ call[c].phase = "lease"
  BY DEF CallsInv, EnsureLease, At
<1>2. call[c].ran # "yes" /\ Confirmed(call[c])
  BY <1>1 DEF Truthful
<1>3. CASE To(c, "request")
  BY <1>1, <1>2, <1>3, RecordNames, GoesOnTruly
<1>4. CASE BridgeFails(c, "bridge")
  BY <1>2, <1>4, BridgeFailsTruly
<1> QED
  BY <1>3, <1>4 DEF EnsureLease

LEMMA RequestTruly ==
  ASSUME CallsInv, NEW c \in Calls, Request(c)
  PROVE  CallsInv'
<1>1. call[c] \in Records /\ Truthful(call[c]) /\ call[c].phase = "request"
  BY DEF CallsInv, Request, At
<1>2. call[c].ran # "yes" /\ Confirmed(call[c])
  BY <1>1 DEF Truthful
<1>3. CASE BridgeFails(c, "bridge")
  BY <1>2, <1>3, BridgeFailsTruly
<1>4. ASSUME NEW p \in {"cable", "reply"}, Goes(c, [call[c] EXCEPT !.ran = "yes", !.phase = p]) PROVE CallsInv'
  <2> DEFINE r == [call[c] EXCEPT !.ran = "yes", !.phase = p]
  <2>1. r \in Records
    BY <1>1, RecordNames DEF Records
  <2>2. r.phase = p /\ r.tool = call[c].tool /\ r.risky = call[c].risky /\ r.token = call[c].token
        /\ r.error = "none"
    BY <1>1 DEF Truthful
  <2>3. Truthful(r)
    <3> HIDE DEF r
    <3> QED
      BY <1>2, <2>2 DEF Truthful, Confirmed
  <2> QED
    BY <1>4, <2>1, <2>3, OneGoes
<1>5. ASSUME Goes(c, [call[c] EXCEPT !.ran = "yes", !.phase = "reply", !.error = "flagged", !.cause = "bridge"])
      PROVE  CallsInv'
  <2> DEFINE r == [call[c] EXCEPT !.ran = "yes", !.phase = "reply", !.error = "flagged", !.cause = "bridge"]
  <2>1. r \in Records
    BY <1>1, RecordNames DEF Records
  <2>2. r.phase = "reply" /\ r.tool = call[c].tool /\ r.risky = call[c].risky /\ r.token = call[c].token
        /\ r.error = "flagged"
    BY <1>1 DEF Records
  <2>3. Truthful(r)
    <3> HIDE DEF r
    <3> QED
      BY <1>2, <2>2 DEF Truthful, Confirmed
  <2> QED
    BY <1>5, <2>1, <2>3, OneGoes
<1>6. \/ Goes(c, [call[c] EXCEPT !.ran = "yes", !.phase = IF call[c].tool = "attach" THEN "cable" ELSE "reply"])
      \/ Goes(c, [call[c] EXCEPT !.ran = "yes", !.phase = "reply", !.error = "flagged", !.cause = "bridge"])
      \/ BridgeFails(c, "bridge")
  <2>1. [call[c] EXCEPT !.ran = "yes"].tool = call[c].tool
    BY <1>1
  <2> QED
    BY DEF Request, Payload
<1> QED
  BY <1>3, <1>4, <1>5, <1>6

LEMMA FindCableTruly ==
  ASSUME CallsInv, NEW c \in Calls, FindCable(c)
  PROVE  CallsInv'
<1>1. call[c].phase = "cable"
  BY DEF FindCable, At
<1>2. CASE To(c, "reply")
  BY <1>1, <1>2, RecordNames, GoesOnTruly
<1>3. CASE BridgeFails(c, "cable")
  BY <1>3, BridgeFailsTruly
<1> QED
  BY <1>2, <1>3 DEF FindCable

LEMMA ExceedsLimitTruly ==
  ASSUME CallsInv, NEW c \in Calls, ExceedsLimit(c)
  PROVE  CallsInv'
  BY FailsTruly, RecordNames DEF ExceedsLimit

LEMMA ReplyTruly ==
  ASSUME CallsInv, NEW c \in Calls, Reply(c)
  PROVE  CallsInv'
  BY OneGoes, RestingCall DEF Reply

LEMMA CallsInitially == Init => CallsInv
  BY RestingCall DEF Init, CallsInv

LEMMA CallsStepwise == CallsInv /\ [Next]_vars => CallsInv'
<1> SUFFICES ASSUME CallsInv, [Next]_vars PROVE CallsInv'
  OBVIOUS
<1>1. CASE Restart
  BY <1>1, RestingCall DEF Restart, CallsInv
<1>2. ASSUME call' = call PROVE CallsInv'
  BY <1>2 DEF CallsInv
<1>3. CASE Tick /\ UNCHANGED <<auditVars, callVars>>
  BY <1>2, <1>3 DEF callVars
<1>4. CASE (Ages \/ OpenToRead) /\ UNCHANGED <<limiterVars, callVars>>
  BY <1>2, <1>4 DEF callVars
<1>5. CASE UNCHANGED vars
  BY <1>2, <1>5 DEF vars, callVars
<1>6. ASSUME NEW c \in Calls,
             \/ Receive(c) \/ Handle(c) \/ Preview(c) \/ Commit(c) \/ EnsureLease(c) \/ Request(c)
             \/ FindCable(c) \/ ExceedsLimit(c) \/ Reply(c)
      PROVE  CallsInv'
  BY <1>6, ReceiveTruly, HandleTruly, PreviewTruly, CommitTruly, EnsureLeaseTruly, RequestTruly,
     FindCableTruly, ExceedsLimitTruly, ReplyTruly
<1> QED
  BY <1>1, <1>3, <1>4, <1>5, <1>6 DEF Next

\* An error that comes after an execution says so unless it is one of the two raised
\* past it, and nothing that needs to be confirmed runs without a token.
THEOREM AnswersTrulyCorrect == Spec => []AnswersTruly
<1>1. Spec => []CallsInv
  BY CallsInitially, CallsStepwise, PTL DEF Spec
<1>2. CallsInv => AnswersTruly
  BY DEF CallsInv, Truthful, Confirmed, AnswersTruly
<1> QED
  BY <1>1, <1>2, PTL

-----------------------------------------------------------------------------
(* The calls and the limiter *)

\* Whatever a call does, the limiter sees one of its own operations or nothing.
LEMMA LimiterStepwise == CallsInv /\ [Next]_vars => [LimiterNext]_limiterVars
<1> SUFFICES ASSUME CallsInv, [Next]_vars PROVE [LimiterNext]_limiterVars
  OBVIOUS
<1>1. ASSUME NEW c \in Calls, Commit(c) PROVE [LimiterNext]_limiterVars
  <2>1. call[c].changes \in Nat
    BY ToolCallsAssumption DEF CallsInv, Records
  <2>2. UNCHANGED limiterVars \/ Admit(call[c].changes) \/ Refuse(call[c].changes)
    BY <1>1 DEF Commit
  <2> QED
    BY <2>1, <2>2 DEF LimiterNext
<1>2. ASSUME NEW c \in Calls,
             \/ Receive(c) \/ Handle(c) \/ Preview(c) \/ EnsureLease(c) \/ Request(c)
             \/ FindCable(c) \/ ExceedsLimit(c) \/ Reply(c)
      PROVE  UNCHANGED limiterVars
  BY <1>2 DEF Receive, Handle, Preview, EnsureLease, Request, FindCable, ExceedsLimit, Reply, Stays
<1>3. CASE Tick /\ UNCHANGED <<auditVars, callVars>>
  BY <1>3 DEF LimiterNext
<1>4. CASE (Ages \/ OpenToRead) /\ UNCHANGED <<limiterVars, callVars>>
  BY <1>4
<1>5. CASE Restart
  BY <1>5 DEF Restart, LimiterNext
<1>6. CASE UNCHANGED vars
  BY <1>6 DEF vars
<1> QED
  BY <1>1, <1>2, <1>3, <1>5, <1>6 DEF Next

\* The tool calls implement the limiter's specification.
THEOREM CallsUseLimiter == Spec => LimiterSpec
<1>1. Init => LimiterInit
  BY DEF Init
<1>2. Spec => []CallsInv
  BY CallsInitially, CallsStepwise, PTL DEF Spec
<1> QED
  BY <1>1, <1>2, LimiterStepwise, PTL DEF Spec, LimiterSpec

\* However calls come, end and overlap, no window holds more changes than the limit.
THEOREM NoBurstCorrect == Spec => []NoBurst
  BY CallsUseLimiter, LimiterNoBurst

-----------------------------------------------------------------------------
(* The entries of a file and their bytes *)

Entries == [n : Nat, size : Sizes]

\* Induction, as far as it concerns one set.
Below == {p \in Nat \X Nat : p[1] < p[2]}

LEMMA Reaches ==
  ASSUME NEW m \in Nat, NEW S, 0 \in S, \A n \in 0..m : n \in S /\ n < m => n + 1 \in S
  PROVE  \A n \in 0..m : n \in S
<1> SUFFICES ASSUME {n \in 0..m : n \notin S} # {} PROVE FALSE
  OBVIOUS
<1> DEFINE T == {n \in 0..m : n \notin S}
<1>1. T \subseteq Nat /\ T # {}
  OBVIOUS
<1>2. OpToRel(<, Nat) = Below
  BY DEF OpToRel, Below
<1>3. IsWellFoundedOn(Below, Nat)
  BY <1>2, NatLessThanWellFounded
<1> HIDE DEF T
<1>4. PICK x \in T : \A y \in T : ~ (<<y, x>> \in Below)
  BY <1>1, <1>3, WFMin
<1>5. x \in 0..m /\ x \notin S /\ x # 0 /\ x - 1 \in 0..m /\ x - 1 < m /\ (x - 1) + 1 = x
  BY <1>4 DEF T
<1>6. x - 1 \notin S
  BY <1>5
<1>7. x - 1 \in T /\ <<x - 1, x>> \in Below
  BY <1>5, <1>6 DEF T, Below
<1> QED
  BY <1>4, <1>7

\* g counts the bytes of the first m entries of f.
Counts(g, f, m) ==
  /\ g \in [0..m -> Nat] /\ g[0] = 0
  /\ \A n \in 1..m : g[n] = g[n - 1] + f[n].size

LEMMA EntrySizes ==
  ASSUME NEW f \in Seq(Entries), NEW n \in 1..Len(f)
  PROVE  f[n].size \in Nat /\ f[n].size \in Sizes
<1>1. f[n] \in Entries
  OBVIOUS
<1>2. f[n].size \in Sizes
  BY <1>1 DEF Entries
<1> QED
  BY <1>2, AuditAssumption

LEMMA Countable ==
  ASSUME NEW f \in Seq(Entries)
  PROVE  \E g : Counts(g, f, Len(f))
<1> DEFINE S == {n \in 0..Len(f) : \E g : Counts(g, f, n)}
<1>1. 0 \in S
  <2>1. Counts([n \in 0..0 |-> 0], f, 0)
    BY DEF Counts
  <2> QED
    BY <2>1
<1>2. ASSUME NEW m \in 0..Len(f), m \in S, m < Len(f) PROVE m + 1 \in S
  <2>1. PICK g : Counts(g, f, m)
    BY <1>2
  <2> DEFINE h == [n \in 0..m + 1 |-> IF n = m + 1 THEN g[m] + f[m + 1].size ELSE g[n]]
  <2>2. m + 1 \in 1..Len(f) /\ f[m + 1].size \in Nat
    BY <1>2, EntrySizes
  <2>3. h \in [0..m + 1 -> Nat] /\ h[0] = 0
    BY <2>1, <2>2 DEF Counts
  <2>4. ASSUME NEW n \in 1..m + 1 PROVE h[n] = h[n - 1] + f[n].size
    <3>1. CASE n = m + 1
      BY <3>1
    <3>2. CASE n \in 1..m
      BY <2>1, <3>2 DEF Counts
    <3> QED
      BY <3>1, <3>2
  <2>5. Counts(h, f, m + 1)
    BY <2>3, <2>4 DEF Counts
  <2> QED
    BY <2>2, <2>5
<1> HIDE DEF S
<1>3. Len(f) \in Nat /\ \A n \in 0..Len(f) : n \in S /\ n < Len(f) => n + 1 \in S
  BY <1>2
<1>4. \A n \in 0..Len(f) : n \in S
  BY <1>1, <1>3, Reaches
<1>5. Len(f) \in S
  BY <1>3, <1>4
<1> QED
  BY <1>5 DEF S

LEMMA BytesCounted ==
  ASSUME NEW f \in Seq(Entries), NEW g, Counts(g, f, Len(f))
  PROVE  Bytes(f) = g[Len(f)] /\ Bytes(f) \in Nat
<1> DEFINE Eq(h) == h = [n \in 0..Len(f) |-> IF n = 0 THEN 0 ELSE h[n - 1] + f[n].size]
<1>1. Eq(g)
  BY DEF Counts
<1>2. PICK h : Eq(h) /\ Bytes(f) = h[Len(f)]
  <2>1. Eq(CHOOSE h : Eq(h))
    BY <1>1
  <2>2. Bytes(f) = (CHOOSE h : Eq(h))[Len(f)]
    BY DEF Bytes
  <2> QED
    BY <2>1, <2>2
<1> DEFINE S == {n \in 0..Len(f) : h[n] = g[n]}
<1>3. 0 \in S
  BY <1>1, <1>2
<1>4. ASSUME NEW n \in 0..Len(f), n \in S, n < Len(f) PROVE n + 1 \in S
  <2>1. n + 1 \in 0..Len(f) /\ n + 1 # 0 /\ (n + 1) - 1 = n
    BY <1>4
  <2>2. h[n + 1] = h[n] + f[n + 1].size /\ g[n + 1] = g[n] + f[n + 1].size
    BY <1>1, <1>2, <2>1
  <2> QED
    BY <1>4, <2>1, <2>2
<1> HIDE DEF S
<1>5. Len(f) \in Nat /\ \A n \in 0..Len(f) : n \in S /\ n < Len(f) => n + 1 \in S
  BY <1>4
<1>6. \A n \in 0..Len(f) : n \in S
  BY <1>3, <1>5, Reaches
<1>7. Len(f) \in S
  BY <1>5, <1>6
<1> QED
  BY <1>2, <1>5, <1>7 DEF S, Counts
LEMMA CountOf ==
  ASSUME NEW f \in Seq(Entries)
  PROVE  Bytes(f) \in Nat /\ \E g : Counts(g, f, Len(f)) /\ Bytes(f) = g[Len(f)]
  BY Countable, BytesCounted

LEMMA BytesEmpty == Bytes(<<>>) = 0
<1>1. <<>> \in Seq(Entries) /\ Len(<<>>) = 0
  OBVIOUS
<1> QED
  BY <1>1, CountOf DEF Counts

\* The bytes of two files in a row.
LEMMA BytesConcat ==
  ASSUME NEW f \in Seq(Entries), NEW t \in Seq(Entries)
  PROVE  Bytes(f \o t) = Bytes(f) + Bytes(t)
<1>1. PICK g, h : /\ Counts(g, f, Len(f)) /\ Bytes(f) = g[Len(f)]
                  /\ Counts(h, t, Len(t)) /\ Bytes(t) = h[Len(t)]
  BY CountOf
<1>2. PICK a \in Nat, b \in Nat : a = Len(f) /\ b = Len(t)
  OBVIOUS
<1>3. PICK s \in Seq(Entries) : s = f \o t
  BY RowElements
<1>4. Len(s) = a + b /\ (\A n \in 1..a : s[n] = f[n]) /\ (\A n \in 1..b : s[a + n] = t[n])
  BY <1>2, <1>3, RowElements
<1> DEFINE k == [n \in 0..a + b |-> IF n <= a THEN g[n] ELSE g[a] + h[n - a]]
<1>5. /\ g \in [0..a -> Nat] /\ g[0] = 0 /\ \A n \in 1..a : g[n] = g[n - 1] + f[n].size
      /\ h \in [0..b -> Nat] /\ h[0] = 0 /\ \A n \in 1..b : h[n] = h[n - 1] + t[n].size
  BY <1>1, <1>2 DEF Counts
<1>6. /\ \A n \in 0..a : k[n] = g[n] /\ g[n] \in Nat
      /\ \A n \in 0..b : k[a + n] = g[a] + h[n] /\ h[n] \in Nat
  <2>1. ASSUME NEW n \in 0..a PROVE k[n] = g[n] /\ g[n] \in Nat
    <3>1. n \in 0..a + b /\ n <= a
      OBVIOUS
    <3> QED
      BY <1>5, <3>1
  <2>2. ASSUME NEW n \in 0..b PROVE k[a + n] = g[a] + h[n] /\ h[n] \in Nat
    <3>1. a + n \in 0..a + b /\ (a + n) - a = n /\ a \in 0..a /\ (a + n <= a => n = 0)
      OBVIOUS
    <3>2. h[n] \in Nat /\ g[a] \in Nat
      BY <1>5, <3>1
    <3>3. CASE n = 0
      <4>1. a + n = a
        BY <3>3
      <4>2. k[a] = g[a]
        BY <2>1, <3>1
      <4> QED
        BY <1>5, <3>2, <3>3, <4>1, <4>2
    <3>4. CASE n # 0
      <4>1. k[a + n] = g[a] + h[(a + n) - a]
        BY <3>1, <3>4
      <4> QED
        BY <3>1, <3>2, <4>1
    <3> QED
      BY <3>3, <3>4
  <2> QED
    BY <2>1, <2>2
<1>7. k \in [0..a + b -> Nat]
  <2>1. \A n \in 0..a + b : n \in 0..a \/ (n - a \in 0..b /\ ~ (n <= a))
    OBVIOUS
  <2>2. a \in 0..a
    OBVIOUS
  <2> QED
    BY <1>5, <2>1, <2>2
<1> HIDE DEF k
<1>8. ASSUME NEW n \in 1..a + b PROVE k[n] = k[n - 1] + s[n].size
  <2>1. CASE n \in 1..a
    <3>1. n \in 0..a /\ n - 1 \in 0..a
      BY <2>1
    <3> QED
      BY <1>4, <1>5, <1>6, <2>1, <3>1
  <2>2. CASE ~ (n <= a)
    <3>1. PICK m \in 1..b : n = a + m /\ m \in 0..b /\ m - 1 \in 0..b /\ n - 1 = a + (m - 1)
      <4>1. n - a \in 1..b /\ n = a + (n - a) /\ (n - a) - 1 \in 0..b /\ n - 1 = a + ((n - a) - 1)
        BY <2>2
      <4> QED
        BY <4>1
    <3>2. h[m] = h[m - 1] + t[m].size /\ s[n] = t[m]
      BY <1>4, <1>5, <3>1
    <3>3. k[n] = g[a] + h[m] /\ k[n - 1] = g[a] + h[m - 1] /\ h[m - 1] \in Nat
      <4>1. k[a + m] = g[a] + h[m]
        BY <1>6, <3>1
      <4>2. k[a + (m - 1)] = g[a] + h[m - 1] /\ h[m - 1] \in Nat
        BY <1>6, <3>1
      <4> QED
        BY <3>1, <4>1, <4>2
    <3>4. g[a] \in Nat /\ t[m].size \in Nat
      BY <1>2, <1>6, <3>1, EntrySizes
    <3>5. PICK x \in Nat, y \in Nat, z \in Nat : x = g[a] /\ y = h[m - 1] /\ z = t[m].size
      BY <3>3, <3>4
    <3>6. k[n] = x + (y + z) /\ k[n - 1] = x + y /\ s[n].size = z
      BY <3>2, <3>3, <3>5
    <3> QED
      BY <3>6
  <2> QED
    BY <2>1, <2>2
<1>9. Counts(k, s, Len(s))
  <2>1. k[0] = 0
    BY <1>5, <1>6
  <2> QED
    BY <1>4, <1>7, <1>8, <2>1 DEF Counts
<1>10. Bytes(s) = k[a + b]
  BY <1>4, <1>9, BytesCounted
<1>11. k[a + b] = g[a] + h[b]
  BY <1>6
<1> QED
  BY <1>1, <1>2, <1>3, <1>10, <1>11

LEMMA BytesAppend ==
  ASSUME NEW f \in Seq(Entries), NEW e \in Entries
  PROVE  Bytes(Append(f, e)) = Bytes(f) + e.size /\ e.size \in Nat
<1>1. <<e>> \in Seq(Entries) /\ Len(<<e>>) = 1 /\ <<e>>[1] = e /\ Append(f, e) = f \o <<e>>
  OBVIOUS
<1>2. e.size \in Nat
  BY AuditAssumption DEF Entries
<1>3. PICK s \in Seq(Entries) : s = <<e>> /\ Len(s) = 1 /\ s[1] = e
  BY <1>1
<1> DEFINE g == [n \in 0..1 |-> IF n = 0 THEN 0 ELSE e.size]
<1>4. g \in [0..1 -> Nat] /\ g[0] = 0 /\ g[1] = e.size
  BY <1>2
<1> HIDE DEF g
<1>5. \A n \in 1..1 : g[n] = g[n - 1] + s[n].size
  <2>1. \A n \in 1..1 : n = 1 /\ n - 1 = 0
    OBVIOUS
  <2> QED
    BY <1>2, <1>3, <1>4, <2>1
<1>6. Bytes(s) = g[1]
  BY <1>3, <1>4, <1>5, BytesCounted DEF Counts
<1> QED
  BY <1>1, <1>2, <1>3, <1>4, <1>6, BytesConcat

LEMMA OneMore ==
  ASSUME NEW n \in Nat, NEW m \in Nat
  PROVE  (n + 1) * m = n * m + m /\ n * m \in Nat /\ 0 * m = 0
  OBVIOUS

\* A product is larger only by a larger factor.
LEMMA LargerFactor ==
  ASSUME NEW a \in Nat, NEW b \in Nat, NEW m \in Nat, a * m > b * m
  PROVE  a > b
<1>1. SUFFICES ASSUME a <= b PROVE FALSE
  OBVIOUS
<1>2. PICK d \in Nat : b = a + d
  BY <1>1
<1>3. b * m = a * m + d * m /\ d * m \in Nat /\ a * m \in Nat
  BY <1>2
<1> QED
  BY <1>3

LEMMA BytesAtMost ==
  ASSUME NEW f \in Seq(Entries), NEW m \in Nat, \A size \in Sizes : size <= m
  PROVE  Bytes(f) <= Len(f) * m
<1>1. PICK g : Counts(g, f, Len(f)) /\ Bytes(f) = g[Len(f)]
  BY CountOf
<1> DEFINE S == {n \in 0..Len(f) : g[n] <= n * m}
<1>2. 0 \in S
  BY <1>1, OneMore DEF Counts
<1>3. ASSUME NEW n \in 0..Len(f), n \in S, n < Len(f) PROVE n + 1 \in S
  <2>1. n + 1 \in 1..Len(f) /\ n + 1 \in 0..Len(f) /\ (n + 1) - 1 = n /\ n \in Nat
    BY <1>3
  <2>2. g[n + 1] = g[n] + f[n + 1].size /\ g[n] \in Nat
    BY <1>1, <2>1 DEF Counts
  <2>3. f[n + 1].size \in Nat /\ f[n + 1].size <= m
    BY <2>1, EntrySizes
  <2>4. g[n] <= n * m
    BY <1>3
  <2>5. (n + 1) * m = n * m + m /\ n * m \in Nat
    BY <2>1, OneMore
  <2>6. g[n + 1] <= (n + 1) * m
    BY <2>2, <2>3, <2>4, <2>5
  <2> QED
    BY <2>1, <2>6
<1> HIDE DEF S
<1>4. Len(f) \in Nat /\ \A n \in 0..Len(f) : n \in S /\ n < Len(f) => n + 1 \in S
  BY <1>3
<1>5. \A n \in 0..Len(f) : n \in S
  BY <1>2, <1>4, Reaches
<1>6. Len(f) \in S
  BY <1>4, <1>5
<1> QED
  BY <1>1, <1>6 DEF S

-----------------------------------------------------------------------------
(* The ends of files, which recent() reads *)

\* t is what f ends with.
IsTail(t, f) ==
  /\ t \in Seq(Entries) /\ Len(t) <= Len(f)
  /\ \A k \in 1..Len(t) : t[k] = f[Len(f) - Len(t) + k]

LEMMA SuffixElements ==
  ASSUME NEW f \in Seq(Entries), NEW k \in 1..Len(f) + 1
  PROVE  /\ SubSeq(f, k, Len(f)) \in Seq(Entries)
         /\ Len(SubSeq(f, k, Len(f))) = Len(f) - k + 1
         /\ \A i \in 1..Len(f) - k + 1 : SubSeq(f, k, Len(f))[i] = f[k - 1 + i]
  OBVIOUS

LEMMA SuffixTail ==
  ASSUME NEW f \in Seq(Entries), NEW k \in 1..Len(f) + 1
  PROVE  IsTail(SubSeq(f, k, Len(f)), f) /\ Len(SubSeq(f, k, Len(f))) = Len(f) - k + 1
<1>1. PICK m \in Nat : m = Len(f)
  OBVIOUS
<1>2. PICK s \in Seq(Entries) : s = SubSeq(f, k, Len(f)) /\ Len(s) = m - k + 1
  BY <1>1, SuffixElements
<1>3. \A i \in 1..m - k + 1 : s[i] = f[k - 1 + i]
  BY <1>1, <1>2, SuffixElements
<1>4. k \in 1..m + 1
  BY <1>1
<1>5. Len(s) <= m /\ \A i \in 1..Len(s) : m - Len(s) + i = k - 1 + i
  BY <1>2, <1>4
<1>6. \A i \in 1..Len(s) : s[i] = f[m - Len(s) + i]
  BY <1>2, <1>3, <1>5
<1> QED
  BY <1>1, <1>2, <1>5, <1>6 DEF IsTail

LEMMA TailOfTail ==
  ASSUME NEW f \in Seq(Entries), NEW t, NEW u, IsTail(t, f), IsTail(u, t)
  PROVE  IsTail(u, f)
<1>1. PICK m \in Nat, n \in Nat, p \in Nat : m = Len(f) /\ n = Len(t) /\ p = Len(u) /\ n <= m /\ p <= n
  BY DEF IsTail
<1>2. ASSUME NEW k \in 1..p PROVE u[k] = f[m - p + k]
  <2>1. n - p + k \in 1..n /\ m - n + (n - p + k) = m - p + k
    BY <1>1
  <2>2. u[k] = t[n - p + k]
    BY <1>1 DEF IsTail
  <2>3. t[n - p + k] = f[m - n + (n - p + k)]
    BY <1>1, <2>1 DEF IsTail
  <2> QED
    BY <2>1, <2>2, <2>3
<1> QED
  BY <1>1, <1>2 DEF IsTail

\* What a tail lacks may be put before another file.
LEMMA TailOfRow ==
  ASSUME NEW f \in Seq(Entries), NEW g \in Seq(Entries), NEW t, IsTail(t, g)
  PROVE  IsTail(t, f \o g)
<1>1. PICK a \in Nat, b \in Nat, n \in Nat : a = Len(f) /\ b = Len(g) /\ n = Len(t) /\ n <= b
  BY DEF IsTail
<1>2. PICK r \in Seq(Entries) : r = f \o g /\ Len(r) = a + b
  BY <1>1, RowElements
<1>3. \A i \in 1..b : r[a + i] = g[i]
  BY <1>1, <1>2, RowElements
<1>4. ASSUME NEW k \in 1..n PROVE t[k] = r[a + b - n + k]
  <2>1. b - n + k \in 1..b /\ a + (b - n + k) = a + b - n + k
    BY <1>1
  <2>2. t[k] = g[b - n + k]
    BY <1>1 DEF IsTail
  <2> QED
    BY <1>3, <2>1, <2>2
<1>5. t \in Seq(Entries) /\ Len(t) <= Len(r)
  BY <1>1, <1>2 DEF IsTail
<1>6. IsTail(t, r)
  BY <1>1, <1>2, <1>4, <1>5 DEF IsTail
<1> QED
  BY <1>2, <1>6

LEMMA RowOfTail ==
  ASSUME NEW f \in Seq(Entries), NEW g \in Seq(Entries), NEW t, IsTail(t, f)
  PROVE  IsTail(t \o g, f \o g)
<1>1. PICK a \in Nat, b \in Nat, n \in Nat : a = Len(f) /\ b = Len(g) /\ n = Len(t) /\ n <= a
  BY DEF IsTail
<1>2. t \in Seq(Entries)
  BY DEF IsTail
<1>3. PICK r \in Seq(Entries) : r = f \o g /\ Len(r) = a + b
  BY <1>1, RowElements
<1>4. PICK s \in Seq(Entries) : s = t \o g /\ Len(s) = n + b
  BY <1>1, <1>2, RowElements
<1>5. (\A i \in 1..a : r[i] = f[i]) /\ (\A i \in 1..b : r[a + i] = g[i])
  BY <1>1, <1>3, RowElements
<1>6. (\A i \in 1..n : s[i] = t[i]) /\ (\A i \in 1..b : s[n + i] = g[i])
  BY <1>1, <1>2, <1>4, RowElements
<1>7. ASSUME NEW k \in 1..n + b PROVE s[k] = r[a + b - (n + b) + k]
  <2>1. CASE k \in 1..n
    <3>1. a - n + k \in 1..a /\ a + b - (n + b) + k = a - n + k
      BY <1>1, <2>1
    <3>2. t[k] = f[a - n + k]
      BY <1>1, <2>1 DEF IsTail
    <3> QED
      BY <1>5, <1>6, <2>1, <3>1, <3>2
  <2>2. CASE ~ (k <= n)
    <3>1. k - n \in 1..b /\ n + (k - n) = k /\ a + b - (n + b) + k = a + (k - n)
      BY <1>1, <2>2
    <3>2. s[k] = g[k - n] /\ r[a + (k - n)] = g[k - n]
      BY <1>5, <1>6, <3>1
    <3> QED
      BY <3>1, <3>2
  <2> QED
    BY <2>1, <2>2
<1>8. Len(s) <= Len(r)
  BY <1>1, <1>3, <1>4
<1> QED
  BY <1>3, <1>4, <1>7, <1>8 DEF IsTail

LEMMA WholeTail ==
  ASSUME NEW f \in Seq(Entries)
  PROVE  IsTail(f, f)
<1>1. PICK n \in Nat : n = Len(f)
  OBVIOUS
<1>2. \A k \in 1..n : n - n + k = k
  OBVIOUS
<1> QED
  BY <1>1, <1>2 DEF IsTail

\* Where the tail of a longer file begins.
Begins(f, k) ==
  /\ Bytes(SubSeq(f, k, Len(f))) >= TailBytes
  /\ k = Len(f) \/ Bytes(SubSeq(f, k + 1, Len(f))) < TailBytes

LEMMA TailBegins ==
  ASSUME NEW f \in Seq(Entries), Bytes(f) > TailBytes
  PROVE  \E k \in 1..Len(f) : Begins(f, k)
<1> SUFFICES ASSUME \A k \in 1..Len(f) : ~ Begins(f, k) PROVE FALSE
  OBVIOUS
<1>1. PICK m \in Nat : m = Len(f)
  OBVIOUS
<1>2. TailBytes \in Nat /\ Bytes(f) \in Nat
  BY AuditAssumption, CountOf
<1>3. \A k \in 1..m + 1 : Bytes(SubSeq(f, k, m)) \in Nat
  BY <1>1, SuffixElements, CountOf
<1>4. m > 0
  <2>1. ASSUME m = 0 PROVE FALSE
    <3>1. Bytes(f) = 0
      BY <1>1, <2>1, CountOf DEF Counts
    <3> QED
      BY <1>2, <3>1
  <2> QED
    BY <2>1
<1>5. SubSeq(f, 1, m) = f
  BY <1>1
<1> DEFINE S == {n \in 0..m : n = 0 \/ Bytes(SubSeq(f, n, m)) >= TailBytes}
<1>6. 0 \in S
  OBVIOUS
<1>7. ASSUME NEW n \in 0..m, n \in S, n < m PROVE n + 1 \in S
  <2>1. n + 1 \in 0..m
    BY <1>7
  <2>2. CASE n = 0
    <3>1. n + 1 = 1
      BY <2>2
    <3>2. Bytes(SubSeq(f, n + 1, m)) = Bytes(f)
      BY <1>5, <3>1
    <3>3. Bytes(SubSeq(f, n + 1, m)) >= TailBytes
      BY <1>2, <3>2
    <3> QED
      BY <2>1, <3>3
  <2>3. CASE n # 0
    <3>1. n \in 1..m /\ n # m /\ Bytes(SubSeq(f, n, m)) >= TailBytes
      BY <1>7, <2>3
    <3>2. ~ (Bytes(SubSeq(f, n + 1, m)) < TailBytes)
      BY <1>1, <3>1 DEF Begins
    <3>3. n + 1 \in 1..m + 1
      BY <2>1
    <3> QED
      BY <1>2, <1>3, <2>1, <3>2, <3>3
  <2> QED
    BY <2>2, <2>3
<1>8. Bytes(SubSeq(f, m, m)) >= TailBytes
  <2> HIDE DEF S
  <2>1. \A n \in 0..m : n \in S /\ n < m => n + 1 \in S
    BY <1>7
  <2>2. \A n \in 0..m : n \in S
    BY <1>6, <2>1, Reaches
  <2>3. m \in S
    BY <2>2
  <2> QED
    BY <1>4, <2>3 DEF S
<1> QED
  BY <1>1, <1>4, <1>8 DEF Begins

\* tailLines returns the whole file or as many lines as are asked for.
LEMMA TailLinesEnough ==
  ASSUME NEW f \in Seq(Entries)
  PROVE  IsTail(TailLines(f), f) /\ (TailLines(f) = f \/ Len(TailLines(f)) >= Want)
<1>1. CASE Bytes(f) <= TailBytes
  BY <1>1, WholeTail DEF TailLines
<1>2. CASE ~ (Bytes(f) <= TailBytes)
  <2>1. Bytes(f) > TailBytes
    BY <1>2, AuditAssumption, CountOf
  <2>2. PICK k \in 1..Len(f) : Begins(f, k) /\ TailLines(f) = SubSeq(f, k + 1, Len(f))
    <3>1. \E k \in DOMAIN f : Begins(f, k)
      BY <2>1, TailBegins
    <3> DEFINE from == CHOOSE k \in DOMAIN f : Begins(f, k)
    <3>2. from \in DOMAIN f /\ Begins(f, from)
      BY <3>1
    <3>3. TailLines(f) = SubSeq(f, from + 1, Len(f))
      BY <1>2 DEF TailLines, Begins
    <3> HIDE DEF from
    <3>4. from \in 1..Len(f)
      BY <3>2
    <3> QED
      BY <3>2, <3>3, <3>4
  <2>3. PICK m \in Nat : m = Len(f) /\ k \in 1..m /\ k + 1 \in 1..m + 1
    OBVIOUS
  <2>4. IsTail(TailLines(f), f) /\ Len(TailLines(f)) = m - (k + 1) + 1
    BY <2>2, <2>3, SuffixTail
  <2>5. PICK largest \in Sizes : TailBytes > Want * largest /\ \A size \in Sizes : size <= largest
    BY AuditAssumption
  <2>6. largest \in Nat /\ Want \in Nat /\ TailBytes \in Nat
    BY AuditAssumption
  <2>7. PICK s \in Seq(Entries) : s = SubSeq(f, k, Len(f)) /\ Len(s) = m - k + 1
    <3>1. k \in 1..Len(f) + 1
      BY <2>3
    <3> QED
      BY <2>3, <3>1, SuffixElements
  <2>12. Bytes(s) <= Len(s) * largest
    BY <2>5, <2>6, BytesAtMost
  <2>8. Bytes(s) <= (m - k + 1) * largest /\ Bytes(s) >= TailBytes /\ Bytes(s) \in Nat
    BY <2>2, <2>7, <2>12, CountOf DEF Begins
  <2>9. m - k + 1 \in Nat
    BY <2>3
  <2>10. (m - k + 1) * largest > Want * largest
    <3>1. PICK x \in Nat, y \in Nat : x = (m - k + 1) * largest /\ y = Want * largest
      BY <2>6, <2>9, OneMore
    <3> QED
      BY <2>5, <2>6, <2>8, <3>1
  <2>11. m - k + 1 > Want
    BY <2>6, <2>9, <2>10, LargerFactor
  <2> QED
    BY <2>3, <2>4, <2>6, <2>11
<1> QED
  BY <1>1, <1>2

\* recent(): the latest entries of the two files, as many as there are or are asked for.
LEMMA RecentTail ==
  ASSUME NEW older \in Seq(Entries), older = Older, log \in Seq(Entries)
  PROVE  /\ IsTail(Recent, older \o log)
         /\ Len(Recent) = IF Len(older \o log) < Want THEN Len(older \o log) ELSE Want
<1>1. PICK kept \in Seq(Entries) : kept = older \o log
  BY RowElements
<1> DEFINE lines == IF Len(TailLines(log)) < Want THEN TailLines(older) \o TailLines(log) ELSE TailLines(log)
<1>2. IsTail(lines, kept) /\ (lines = kept \/ Len(lines) >= Want)
  <2>1. CASE Len(TailLines(log)) < Want
    <3>1. TailLines(log) = log
      BY <2>1, TailLinesEnough, AuditAssumption DEF IsTail
    <3>2. PICK t \in Seq(Entries) : t = TailLines(older) /\ IsTail(t, older) /\ (t = older \/ Len(t) >= Want)
      BY TailLinesEnough DEF IsTail
    <3>3. lines = t \o log
      BY <2>1, <3>1, <3>2
    <3>4. IsTail(t \o log, kept)
      BY <1>1, <3>2, RowOfTail
    <3>5. Len(t \o log) = Len(t) + Len(log) /\ Len(t) \in Nat /\ Len(log) \in Nat
      BY RowElements
    <3>6. t = older \/ Len(t \o log) >= Want
      BY <3>2, <3>5, AuditAssumption
    <3> HIDE DEF lines
    <3> QED
      BY <1>1, <3>3, <3>4, <3>6
  <2>2. CASE ~ (Len(TailLines(log)) < Want)
    <3>1. IsTail(TailLines(log), kept)
      BY <1>1, TailLinesEnough, TailOfRow
    <3>2. Len(TailLines(log)) >= Want
      BY <2>2, TailLinesEnough, AuditAssumption DEF IsTail
    <3> QED
      BY <2>2, <3>1, <3>2
  <2> QED
    BY <2>1, <2>2
<1>3. Recent = SubSeq(lines, IF Len(lines) > Want THEN Len(lines) - Want + 1 ELSE 1, Len(lines))
  BY DEF Recent
<1> HIDE DEF lines
<1>4. PICK row \in Seq(Entries) : row = lines
  BY <1>2 DEF IsTail
<1>5. PICK n \in Nat, m \in Nat : n = Len(row) /\ m = Len(kept) /\ n <= m
  BY <1>2, <1>4 DEF IsTail
<1>6. Want \in Nat
  BY AuditAssumption
<1>7. PICK k \in 1..n + 1 : /\ k = IF n > Want THEN n - Want + 1 ELSE 1
                            /\ n - k + 1 = IF n > Want THEN Want ELSE n
  <2>1. CASE n > Want
    BY <1>6, <2>1
  <2>2. CASE ~ (n > Want)
    BY <1>6, <2>2
  <2> QED
    BY <2>1, <2>2
<1>8. Recent = SubSeq(row, k, Len(row))
  BY <1>3, <1>4, <1>5, <1>7
<1>9. IsTail(Recent, row) /\ Len(Recent) = n - k + 1
  BY <1>5, <1>7, <1>8, SuffixTail
<1>10. IsTail(Recent, kept)
  BY <1>2, <1>4, <1>9, TailOfTail
<1>11. n - k + 1 = IF m < Want THEN m ELSE Want
  <2>1. n = m \/ n >= Want
    BY <1>2, <1>4, <1>5
  <2>2. CASE n = m
    <3>1. CASE n > Want
      BY <1>6, <1>7, <2>2, <3>1
    <3>2. CASE ~ (n > Want)
      BY <1>6, <1>7, <2>2, <3>2
    <3> QED
      BY <3>1, <3>2
  <2>3. CASE n >= Want
    <3>1. ~ (m < Want)
      BY <1>5, <1>6, <2>3
    <3>2. (IF n > Want THEN Want ELSE n) = Want
      BY <1>6, <2>3
    <3> QED
      BY <1>7, <3>1, <3>2
  <2> QED
    BY <2>1, <2>2, <2>3
<1> QED
  BY <1>1, <1>5, <1>9, <1>10, <1>11

-----------------------------------------------------------------------------
(* The audit log *)

\* The entries of the two files are numbered down from the newest.
Numbered ==
  /\ log \in Seq(Entries) /\ rotated \in Seq(Entries) /\ newest \in Nat
  /\ \A k \in 1..Len(log) : log[k].n = newest - Len(log) + k
  /\ \A k \in 1..Len(rotated) : rotated[k].n = newest - Len(log) - Len(rotated) + k

LEMMA NumberedInitially == Init => Numbered
  BY DEF Init, AuditInit, Numbered

LEMMA RecordNumbers ==
  ASSUME Numbered, Record
  PROVE  Numbered'
<1>1. PICK size \in Sizes :
        LET l == Append(log, [n |-> newest + 1, size |-> size]) IN
        /\ newest' = newest + 1
        /\ \/ log' = <<>> /\ rotated' = l
           \/ log' = l /\ rotated' = Older
  BY DEF Record, RotatedTo
<1> DEFINE e == [n |-> newest + 1, size |-> size]
           l == Append(log, e)
<1>2. log \in Seq(Entries) /\ rotated \in Seq(Entries)
  BY DEF Numbered
<1>3. PICK w \in Nat : w = newest
  BY DEF Numbered
<1>4. PICK m \in Nat : m = Len(log)
  BY <1>2
<1>5. e \in Entries /\ e.n = w + 1
  BY <1>3, AuditAssumption DEF Entries
<1>6. newest' = w + 1 /\ ((log' = <<>> /\ rotated' = l) \/ (log' = l /\ rotated' = Older))
  BY <1>1, <1>3
<1> HIDE DEF e
<1>7. l \in Seq(Entries) /\ Len(l) = m + 1 /\ l[m + 1] = e /\ \A k \in 1..m : l[k] = log[k]
  BY <1>2, <1>4, <1>5
<1> HIDE DEF l
<1>8. ASSUME NEW k \in 1..m + 1 PROVE l[k].n = w - m + k
  <2>1. CASE k \in 1..m
    BY <1>3, <1>4, <1>7, <2>1 DEF Numbered
  <2>2. CASE k = m + 1
    BY <1>5, <1>7, <2>2
  <2> QED
    BY <2>1, <2>2
<1>9. CASE log' = <<>> /\ rotated' = l
  <2>1. Len(log') = 0 /\ log' \in Seq(Entries) /\ Len(rotated') = m + 1
    BY <1>7, <1>9
  <2>2. ASSUME NEW k \in 1..m + 1 PROVE rotated'[k].n = w + 1 - 0 - (m + 1) + k
    <3>1. rotated'[k].n = w - m + k
      BY <1>8, <1>9
    <3> QED
      BY <3>1
  <2> QED
    BY <1>6, <1>7, <2>1, <2>2 DEF Numbered
<1>10. CASE log' = l /\ rotated' = Older
  <2>1. Len(log') = m + 1
    BY <1>7, <1>10
  <2>2. ASSUME NEW k \in 1..m + 1 PROVE log'[k].n = w + 1 - (m + 1) + k
    <3>1. log'[k].n = w - m + k
      BY <1>8, <1>10
    <3> QED
      BY <3>1
  <2>3. CASE rotated' = rotated
    <3>1. \A k \in 1..Len(rotated') : rotated'[k].n = w + 1 - (m + 1) - Len(rotated') + k
      <4>1. \A k \in 1..Len(rotated) : rotated[k].n = w - m - Len(rotated) + k
        BY <1>3, <1>4 DEF Numbered
      <4>2. PICK r \in Nat : r = Len(rotated) /\ r = Len(rotated')
        BY <1>2, <2>3
      <4>3. ASSUME NEW k \in 1..r PROVE rotated'[k].n = w + 1 - (m + 1) - r + k
        <5>1. rotated'[k].n = w - m - r + k
          BY <2>3, <4>1, <4>2
        <5> QED
          BY <5>1
      <4> QED
        BY <4>2, <4>3
    <3>2. newest' = w + 1 /\ newest' \in Nat /\ log' \in Seq(Entries) /\ rotated' \in Seq(Entries)
      BY <1>2, <1>6, <1>7, <1>10, <2>3
    <3>3. \A k \in 1..Len(log') : log'[k].n = newest' - Len(log') + k
      BY <2>1, <2>2, <3>2
    <3>4. \A k \in 1..Len(rotated') : rotated'[k].n = newest' - Len(log') - Len(rotated') + k
      BY <2>1, <3>1, <3>2
    <3> QED
      BY <3>2, <3>3, <3>4 DEF Numbered
  <2>4. CASE rotated' = <<>>
    <3>1. rotated' \in Seq(Entries) /\ Len(rotated') = 0
      BY <2>4
    <3> QED
      BY <1>6, <1>7, <2>1, <2>2, <3>1 DEF Numbered
  <2> QED
    BY <1>10, <2>3, <2>4 DEF Older
<1> QED
  BY <1>6, <1>9, <1>10

LEMMA NumberedStepwise == Numbered /\ [Next]_vars => Numbered'
<1> SUFFICES ASSUME Numbered, [Next]_vars PROVE Numbered'
  OBVIOUS
<1>1. ASSUME UNCHANGED <<log, newest>>, (rotated' = rotated) \/ (rotated' = <<>>) PROVE Numbered'
  <2>1. CASE rotated' = rotated
    BY <1>1, <2>1 DEF Numbered
  <2>2. CASE rotated' = <<>>
    <3>1. rotated' \in Seq(Entries) /\ Len(rotated') = 0
      BY <2>2
    <3> QED
      BY <1>1, <3>1 DEF Numbered
  <2> QED
    BY <1>1, <2>1, <2>2
<1>2. ASSUME NEW c \in Calls,
             \/ Receive(c) \/ Handle(c) \/ Preview(c) \/ Commit(c) \/ EnsureLease(c) \/ Request(c)
             \/ FindCable(c) \/ ExceedsLimit(c)
      PROVE  UNCHANGED auditVars
  BY <1>2 DEF Receive, Handle, Preview, Commit, EnsureLease, Request, FindCable, ExceedsLimit, Stays
<1>3. ASSUME NEW c \in Calls, Reply(c) PROVE Numbered'
  BY <1>3, RecordNumbers DEF Reply
<1>4. CASE Ages \/ OpenToRead
  BY <1>1, <1>4 DEF Ages, OpenToRead, Older
<1>5. CASE Restart
  BY <1>1, <1>5 DEF Restart, AuditRestarts
<1>6. CASE UNCHANGED auditVars
  BY <1>1, <1>6 DEF auditVars
<1> QED
  BY <1>2, <1>3, <1>4, <1>5, <1>6 DEF Next, vars

\* The number of the newest entry that is not kept.
Gone == newest - Len(log) - Len(rotated)

\* What the two files are bounded by and have lost.
AuditInv ==
  /\ Numbered /\ Gone >= 0
  /\ opened \in {"no", "yes"} /\ stale \in {"no", "yes"} /\ (stale = "yes" => Len(rotated) > 0)
  /\ expired \in Nat /\ expired <= newest
  /\ (Gone > expired => Bytes(rotated) >= MaxBytes)
  /\ sinceCheck \in Nat /\ inherited \in Nat /\ LogBounded

LEMMA AuditInitially == Init => AuditInv
<1> SUFFICES ASSUME Init PROVE AuditInv
  OBVIOUS
<1>1. log = <<>> /\ rotated = <<>> /\ Len(log) = 0 /\ Len(rotated) = 0 /\ newest = 0 /\ expired = 0 /\ sinceCheck = 0 /\ inherited = 0
  BY DEF Init, AuditInit
<1>2. Bytes(log) = 0
  BY <1>1, BytesEmpty
<1>3. LogBounded
  BY <1>1, <1>2, AuditAssumption DEF LogBounded
<1>4. Numbered /\ opened = "no" /\ stale = "no"
  BY NumberedInitially DEF Init, AuditInit
<1> QED
  BY <1>1, <1>3, <1>4 DEF AuditInv, Gone

\* What age has expired once the file is opened.
ExpiredThen == IF Expires THEN Last(rotated).n ELSE expired

\* Opening the file leaves the generation before, or expires it.
LEMMA OlderKept ==
  ASSUME AuditInv
  PROVE  /\ Older \in Seq(Entries) /\ ExpiredThen \in Nat /\ ExpiredThen <= newest
         /\ newest - Len(log) - Len(Older) >= 0
         /\ newest - Len(log) - Len(Older) > ExpiredThen => Bytes(Older) >= MaxBytes
         /\ (IF Expires THEN "no" ELSE stale) = "yes" => Len(Older) > 0
<1>1. log \in Seq(Entries) /\ rotated \in Seq(Entries) /\ newest \in Nat
  BY DEF AuditInv, Numbered
<1>2. PICK w \in Nat, m \in Nat, r \in Nat : w = newest /\ m = Len(log) /\ r = Len(rotated)
  BY <1>1
<1>3. w - m - r >= 0
  BY <1>2 DEF AuditInv, Gone
<1>4. CASE Expires
  <2>1. Older = <<>> /\ Len(Older) = 0 /\ Older \in Seq(Entries) /\ ExpiredThen = Last(rotated).n
    BY <1>4 DEF Older, ExpiredThen
  <2>2. r > 0
    BY <1>2, <1>4 DEF AuditInv, Expires
  <2>3. Last(rotated) = rotated[r]
    BY <1>2 DEF Last
  <2>4. rotated[r].n = w - m - r + r
    BY <1>2, <2>2 DEF AuditInv, Numbered
  <2>5. ExpiredThen = w - m
    BY <2>1, <2>3, <2>4
  <2> QED
    BY <1>2, <1>3, <1>4, <2>1, <2>5
<1>5. CASE ~ Expires
  <2>1. Older = rotated /\ ExpiredThen = expired
    BY <1>5 DEF Older, ExpiredThen
  <2> QED
    BY <1>1, <1>5, <2>1 DEF AuditInv, Gone
<1> QED
  BY <1>4, <1>5

LEMMA RecordKeeps ==
  ASSUME AuditInv, Record
  PROVE  AuditInv'
<1>1. PICK size \in Sizes :
        LET l == Append(log, [n |-> newest + 1, size |-> size])
            rotates == MaxBytes > 0 /\ sinceCheck + size >= CheckBytes /\ Bytes(l) > MaxBytes
        IN
        /\ newest' = newest + 1
        /\ opened' = "yes"
        /\ expired' = ExpiredThen
        /\ sinceCheck' = IF MaxBytes > 0 /\ sinceCheck + size >= CheckBytes THEN 0 ELSE sinceCheck + size
        /\ IF rotates
           THEN log' = <<>> /\ rotated' = l /\ stale' = "no" /\ inherited' = 0
           ELSE /\ log' = l /\ rotated' = Older
                /\ stale' = IF Expires THEN "no" ELSE stale
                /\ UNCHANGED inherited
  BY DEF Record, RotatedTo, ExpiredThen
<1> DEFINE e == [n |-> newest + 1, size |-> size]
           l == Append(log, e)
           checks == MaxBytes > 0 /\ sinceCheck + size >= CheckBytes
<1>2. /\ newest' = newest + 1 /\ opened' = "yes" /\ expired' = ExpiredThen
      /\ sinceCheck' = IF checks THEN 0 ELSE sinceCheck + size
      /\ checks /\ Bytes(l) > MaxBytes => log' = <<>> /\ rotated' = l /\ stale' = "no" /\ inherited' = 0
      /\ ~ (checks /\ Bytes(l) > MaxBytes) =>
           /\ log' = l /\ rotated' = Older /\ inherited' = inherited
           /\ stale' = IF Expires THEN "no" ELSE stale
  BY <1>1
<1>3. log \in Seq(Entries) /\ rotated \in Seq(Entries) /\ newest \in Nat
  BY DEF AuditInv, Numbered
<1>4. size \in Nat /\ MaxBytes \in Nat /\ CheckBytes \in Nat /\ CheckBytes > 0
  BY AuditAssumption
<1>5. e \in Entries /\ e.size = size
  BY <1>3 DEF Entries
<1> HIDE DEF e
<1>6. l \in Seq(Entries) /\ Len(l) = Len(log) + 1
  BY <1>3, <1>5
<1>7. Bytes(l) = Bytes(log) + size
  BY <1>3, <1>5, BytesAppend
<1> HIDE DEF l
<1>8. Numbered'
  BY RecordNumbers DEF AuditInv
<1>9. Bytes(log) \in Nat /\ sinceCheck \in Nat /\ inherited \in Nat /\ LogBounded
  BY <1>3, CountOf DEF AuditInv
<1>10. PICK w \in Nat, m \in Nat, x \in Nat : w = newest /\ m = Len(log) /\ x = ExpiredThen /\ x <= w /\ w - m >= 0
  <2>1. newest \in Nat /\ Len(log) \in Nat /\ Len(rotated) \in Nat
    BY <1>3
  <2>2. newest - Len(log) >= 0
    BY <2>1 DEF AuditInv, Gone
  <2> QED
    BY <2>1, <2>2, OlderKept
<1>11. opened' \in {"no", "yes"} /\ expired' \in Nat /\ expired' <= newest'
  BY <1>2, <1>10
<1>12. sinceCheck' \in Nat /\ inherited' \in Nat
  BY <1>2, <1>4, <1>9
<1>13. CASE checks /\ Bytes(l) > MaxBytes
  <2>1. log' = <<>> /\ Len(log') = 0 /\ rotated' = l /\ Len(rotated') = m + 1 /\ stale' = "no" /\ sinceCheck' = 0 /\ inherited' = 0
    BY <1>2, <1>6, <1>10, <1>13
  <2>2. Gone' >= 0
    BY <1>2, <1>10, <2>1 DEF Gone
  <2>3. Bytes(rotated)' >= MaxBytes
    BY <1>4, <1>7, <1>9, <1>13, <2>1
  <2>4. Bytes(log)' = 0
    BY <2>1, BytesEmpty
  <2>5. LogBounded'
    BY <1>4, <2>1, <2>4 DEF LogBounded
  <2> QED
    BY <1>8, <1>11, <1>12, <2>1, <2>2, <2>3, <2>5 DEF AuditInv
<1>14. CASE ~ (checks /\ Bytes(l) > MaxBytes)
  <2>1. /\ log' = l /\ Len(log') = m + 1 /\ rotated' = Older /\ inherited' = inherited
        /\ stale' = IF Expires THEN "no" ELSE stale
    BY <1>2, <1>6, <1>10, <1>14
  <2>2. PICK older \in Seq(Entries) : older = Older /\ older = rotated'
    BY <2>1, OlderKept
  <2>3. /\ w - m - Len(older) >= 0 /\ (w - m - Len(older) > x => Bytes(older) >= MaxBytes)
        /\ (stale' = "yes" => Len(older) > 0)
    BY <1>10, <2>1, <2>2, OlderKept
  <2>4. Gone' = w - m - Len(older)
    <3>1. Gone' = w + 1 - (m + 1) - Len(older)
      BY <1>2, <1>10, <2>1, <2>2 DEF Gone
    <3> QED
      BY <3>1, <2>2
  <2>5. stale' \in {"no", "yes"}
    BY <2>1 DEF AuditInv
  <2>6. Gone' >= 0 /\ (Gone' > expired' => Bytes(rotated)' >= MaxBytes) /\ (stale' = "yes" => Len(rotated') > 0)
    BY <1>2, <1>10, <2>2, <2>3, <2>4
  <2>7. LogBounded'
    <3>1. Bytes(log)' = Bytes(log) + size
      BY <1>7, <2>1
    <3>2. CASE checks
      <4>1. Bytes(log) + size <= MaxBytes /\ sinceCheck' = 0
        BY <1>2, <1>4, <1>7, <1>9, <1>14, <3>2
      <4>2. (Bytes(log) - sinceCheck)' <= MaxBytes
        BY <1>4, <1>9, <3>1, <4>1
      <4>3. MaxBytes <= IF inherited' > MaxBytes THEN inherited' ELSE MaxBytes
        BY <1>4, <1>9, <2>1
      <4>4. (Bytes(log) - sinceCheck)' \in Int
        BY <1>4, <1>9, <3>1, <4>1
      <4> QED
        BY <1>4, <1>9, <2>1, <4>1, <4>2, <4>3, <4>4 DEF LogBounded
    <3>3. CASE ~ checks
      <4>1. sinceCheck' = sinceCheck + size /\ (MaxBytes > 0 => sinceCheck + size < CheckBytes)
        BY <1>2, <1>4, <1>9, <3>3
      <4>2. (Bytes(log) - sinceCheck)' = Bytes(log) - sinceCheck
        BY <1>4, <1>9, <3>1, <4>1
      <4> QED
        BY <1>9, <2>1, <4>1, <4>2 DEF LogBounded
    <3> QED
      BY <3>2, <3>3
  <2> QED
    BY <1>8, <1>11, <1>12, <2>5, <2>6, <2>7 DEF AuditInv
<1> QED
  BY <1>13, <1>14

LEMMA OpenToReadKeeps ==
  ASSUME AuditInv, OpenToRead, Numbered'
  PROVE  AuditInv'
<1>1. /\ opened' = "yes" /\ rotated' = Older /\ stale' = (IF Expires THEN "no" ELSE stale) /\ expired' = ExpiredThen
      /\ UNCHANGED <<log, sinceCheck, newest, inherited>>
  BY DEF OpenToRead, ExpiredThen
<1>2. Gone' = newest - Len(log) - Len(Older)
  BY <1>1 DEF Gone
<1>3. LogBounded'
  BY <1>1 DEF AuditInv, LogBounded
<1>4. stale' \in {"no", "yes"} /\ sinceCheck' \in Nat /\ inherited' \in Nat
  BY <1>1 DEF AuditInv
<1>5. /\ expired' \in Nat /\ expired' <= newest' /\ Gone' >= 0 /\ (stale' = "yes" => Len(rotated') > 0)
      /\ (Gone' > expired' => Bytes(rotated)' >= MaxBytes)
  BY <1>1, <1>2, OlderKept
<1> QED
  BY <1>1, <1>3, <1>4, <1>5 DEF AuditInv

LEMMA AgesKeeps ==
  ASSUME AuditInv, Ages, Numbered'
  PROVE  AuditInv'
<1>1. rotated # <<>> /\ stale' = "yes" /\ UNCHANGED <<log, rotated, opened, sinceCheck, newest, expired, inherited>>
  BY DEF Ages
<1>2. Len(rotated) > 0
  <2>1. rotated \in Seq(Entries)
    BY DEF AuditInv, Numbered
  <2> QED
    BY <1>1, <2>1, EmptySeq
<1> QED
  BY <1>1, <1>2 DEF AuditInv, Gone, LogBounded

LEMMA AuditRestartsKeeps ==
  ASSUME AuditInv, AuditRestarts, Numbered'
  PROVE  AuditInv'
<1>1. /\ opened' = "no" /\ sinceCheck' = 0 /\ inherited' = Bytes(log)
      /\ UNCHANGED <<log, rotated, stale, newest, expired>>
  BY DEF AuditRestarts
<1>2. Bytes(log) \in Nat
  BY CountOf DEF AuditInv, Numbered
<1>3. LogBounded'
  <2>1. Bytes(log)' = Bytes(log) /\ MaxBytes \in Nat /\ CheckBytes \in Nat /\ CheckBytes > 0
    BY <1>1, AuditAssumption
  <2> QED
    BY <1>1, <1>2, <2>1 DEF LogBounded
<1> QED
  BY <1>1, <1>2, <1>3 DEF AuditInv, Gone

\* What a step does to the files.
LEMMA AuditSteps ==
  ASSUME [Next]_vars
  PROVE  UNCHANGED auditVars \/ Record \/ OpenToRead \/ Ages \/ AuditRestarts
<1>1. ASSUME NEW c \in Calls,
             \/ Receive(c) \/ Handle(c) \/ Preview(c) \/ Commit(c) \/ EnsureLease(c) \/ Request(c)
             \/ FindCable(c) \/ ExceedsLimit(c)
      PROVE  UNCHANGED auditVars
  BY <1>1 DEF Receive, Handle, Preview, Commit, EnsureLease, Request, FindCable, ExceedsLimit, Stays
<1>2. ASSUME NEW c \in Calls, Reply(c) PROVE Record
  BY <1>2 DEF Reply
<1> QED
  BY <1>1, <1>2 DEF Next, vars, Restart

LEMMA AuditStepwise == AuditInv /\ [Next]_vars => AuditInv'
<1> SUFFICES ASSUME AuditInv, [Next]_vars PROVE AuditInv'
  OBVIOUS
<1>1. Numbered'
  BY NumberedStepwise DEF AuditInv
<1>2. CASE UNCHANGED auditVars
  BY <1>1, <1>2 DEF auditVars, AuditInv, Gone, LogBounded
<1> QED
  BY <1>1, <1>2, AuditSteps, RecordKeeps, OpenToReadKeeps, AgesKeeps, AuditRestartsKeeps

\* Across rotations, expiries and restarts the entries that are kept are the latest
\* ones, in their order and without a gap.
LEMMA KeptUnbroken == Numbered => Unbroken(Older \o log)
<1> SUFFICES ASSUME Numbered PROVE Unbroken(Older \o log)
  OBVIOUS
<1>1. /\ Older \in Seq(Entries) /\ log \in Seq(Entries) /\ newest \in Nat
      /\ \A k \in 1..Len(Older) : Older[k].n = newest - Len(log) - Len(Older) + k
  <2>1. CASE Older = rotated
    BY <2>1 DEF Numbered
  <2>2. CASE Older = <<>>
    <3>1. Older \in Seq(Entries) /\ Len(Older) = 0
      BY <2>2
    <3> QED
      BY <3>1 DEF Numbered
  <2> QED
    BY <2>1, <2>2 DEF Older
<1>2. PICK older \in Seq(Entries) : older = Older
  BY <1>1
<1>3. PICK a \in Nat, b \in Nat : a = Len(older) /\ b = Len(log)
  BY <1>1
<1>4. PICK kept \in Seq(Entries) : kept = older \o log /\ Len(kept) = a + b
  BY <1>1, <1>3, RowElements
<1>5. (\A k \in 1..a : kept[k] = older[k]) /\ (\A k \in 1..b : kept[a + k] = log[k])
  BY <1>1, <1>3, <1>4, RowElements
<1>6. ASSUME NEW k \in 1..a + b PROVE kept[k].n = newest - (a + b) + k
  <2>1. CASE k \in 1..a
    <3>1. kept[k].n = newest - b - a + k
      BY <1>1, <1>2, <1>3, <1>5, <2>1
    <3> QED
      BY <1>1, <3>1
  <2>2. CASE ~ (k <= a)
    <3>1. k - a \in 1..b /\ a + (k - a) = k /\ newest - b + (k - a) = newest - (a + b) + k
      BY <1>1, <2>2
    <3>2. log[k - a].n = newest - b + (k - a)
      BY <1>3, <3>1 DEF Numbered
    <3>3. kept[k] = log[k - a]
      BY <1>5, <3>1
    <3> QED
      BY <3>1, <3>2, <3>3
  <2> QED
    BY <2>1, <2>2
<1> QED
  BY <1>2, <1>4, <1>6 DEF Unbroken

\* Numbered tails are unbroken.
LEMMA TailUnbroken ==
  ASSUME newest \in Nat, NEW f \in Seq(Entries), Unbroken(f), NEW t, IsTail(t, f)
  PROVE  Unbroken(t)
<1>1. PICK m \in Nat, n \in Nat : m = Len(f) /\ n = Len(t) /\ n <= m
  BY DEF IsTail
<1>2. ASSUME NEW k \in 1..n PROVE t[k].n = newest - n + k
  <2>1. m - n + k \in 1..m /\ newest - m + (m - n + k) = newest - n + k
    BY <1>1
  <2>2. t[k] = f[m - n + k]
    BY <1>1 DEF IsTail
  <2>3. \A i \in 1..m : f[i].n = newest - m + i
    <3>1. DOMAIN f = 1..m
      BY <1>1
    <3> QED
      BY <1>1, <3>1 DEF Unbroken
  <2> QED
    BY <2>1, <2>2, <2>3
<1>3. DOMAIN t = 1..n
  BY <1>1 DEF IsTail
<1> QED
  BY <1>1, <1>2, <1>3 DEF Unbroken

LEMMA HistoryRecent == AuditInv => RecentHistory
<1> SUFFICES ASSUME AuditInv PROVE RecentHistory
  OBVIOUS
<1>1. log \in Seq(Entries) /\ newest \in Nat
  BY DEF AuditInv, Numbered
<1>2. PICK older \in Seq(Entries) : older = Older
  BY OlderKept
<1>3. PICK kept \in Seq(Entries) : kept = older \o log /\ Len(kept) = Len(older) + Len(log)
  BY <1>1, <1>2, RowElements
<1>4. Unbroken(kept)
  BY <1>2, <1>3, KeptUnbroken DEF AuditInv
<1>5. IsTail(Recent, kept) /\ Len(Recent) = IF Len(kept) < Want THEN Len(kept) ELSE Want
  BY <1>1, <1>2, <1>3, RecentTail
<1>6. Unbroken(Recent)
  BY <1>1, <1>4, <1>5, TailUnbroken
<1>7. newest - Len(kept) > ExpiredThen => Bytes(kept) >= MaxBytes
  <2>1. newest - Len(kept) = newest - Len(log) - Len(older)
    BY <1>1, <1>3
  <2>2. newest - Len(log) - Len(older) > ExpiredThen => Bytes(older) >= MaxBytes
    BY <1>2, OlderKept
  <2>3. Bytes(kept) = Bytes(older) + Bytes(log)
    BY <1>1, <1>3, BytesConcat
  <2>4. Bytes(older) \in Nat /\ Bytes(log) \in Nat /\ MaxBytes \in Nat
    BY <1>1, CountOf, AuditAssumption
  <2> QED
    BY <2>1, <2>2, <2>3, <2>4
<1> QED
  BY <1>2, <1>3, <1>4, <1>5, <1>6, <1>7 DEF RecentHistory, ExpiredThen

-----------------------------------------------------------------------------
(* The counters *)

Busy == {c \in Calls : call[c].phase # "idle"}

\* Every entry of the log belongs to a call that was received and has been answered.
Arrivals ==
  /\ received \in 0..MaxCalls /\ newest \in Nat
  /\ IsFiniteSet(Busy) /\ newest + Cardinality(Busy) <= received

LEMMA ArrivalsInitially == Init => Arrivals
<1> SUFFICES ASSUME Init PROVE Arrivals
  OBVIOUS
<1>1. Busy = {}
  BY DEF Init, Busy, None
<1>2. IsFiniteSet(Busy) /\ Cardinality(Busy) = 0
  BY <1>1, FS_EmptySet
<1> QED
  BY <1>2, ToolCallsAssumption DEF Init, AuditInit, Arrivals

\* A call in progress that goes on stays in progress.
LEMMA GoesOnBusy ==
  ASSUME CallsInv, NEW c \in Calls, call[c].phase # "idle", NEW r, r.phase # "idle", Goes(c, r)
  PROVE  Busy' = Busy
<1>1. call \in [Calls -> Records]
  BY DEF CallsInv
<1>2. call'[c] = r /\ \A d \in Calls \ {c} : call'[d] = call[d]
  BY <1>1 DEF Goes
<1> QED
  BY <1>2 DEF Busy

LEMMA FailsBusy ==
  ASSUME CallsInv, NEW c \in Calls, call[c].phase # "idle",
         NEW error \in {"plain", "flagged"}, NEW cause \in Causes, Fails(c, error, cause)
  PROVE  Busy' = Busy
<1> DEFINE r == [call[c] EXCEPT !.phase = "reply", !.error = error, !.cause = cause, !.changes = 0]
<1>1. r.phase = "reply"
  BY DEF CallsInv, Records
<1>2. Goes(c, r)
  BY DEF Fails, Payload
<1> HIDE DEF r
<1> QED
  BY <1>1, <1>2, GoesOnBusy

LEMMA BridgeFailsBusy ==
  ASSUME CallsInv, NEW c \in Calls, call[c].phase # "idle", NEW cause \in Causes, BridgeFails(c, cause)
  PROVE  Busy' = Busy
  BY FailsBusy DEF BridgeFails

LEMMA GoesOnBusily ==
  ASSUME CallsInv, NEW c \in Calls, call[c].phase # "idle", NEW phase \in Phases \ {"idle"}, To(c, phase)
  PROVE  Busy' = Busy
<1> DEFINE r == [call[c] EXCEPT !.phase = phase]
<1>1. r.phase # "idle"
  BY DEF CallsInv, Records
<1>2. Goes(c, r)
  BY DEF To
<1> HIDE DEF r
<1> QED
  BY <1>1, <1>2, GoesOnBusy

\* Every step of a call but the first and the last leaves it in progress.
LEMMA StepsContinue ==
  ASSUME CallsInv, NEW c \in Calls,
         \/ Handle(c) \/ Preview(c) \/ Commit(c) \/ EnsureLease(c) \/ Request(c) \/ FindCable(c) \/ ExceedsLimit(c)
  PROVE  Busy' = Busy /\ UNCHANGED <<received, newest>>
<1>1. UNCHANGED <<received, newest>>
  BY DEF Handle, Preview, Commit, EnsureLease, Request, FindCable, ExceedsLimit, Stays, auditVars
<1>2. call[c].phase # "idle" /\ call[c] \in Records /\ call[c].tool \in Tools
  BY DEF Handle, Preview, Commit, EnsureLease, Request, FindCable, ExceedsLimit, At, CallsInv, Records
<1>6. CASE Handle(c)
  <2>1. \/ BridgeFails(c, "bridge")
        \/ To(c, "reply") \/ To(c, "preview") \/ To(c, "commit") \/ To(c, "lease")
    BY <1>2, <1>6 DEF Handle, Tools
  <2> QED
    BY <1>1, <1>2, <2>1, BridgeFailsBusy, GoesOnBusily, RecordNames
<1>7. CASE Preview(c)
  <2>1. ASSUME NEW n \in Changes, Goes(c, [call[c] EXCEPT !.phase = "commit", !.changes = n]) PROVE Busy' = Busy
    <3>1. [call[c] EXCEPT !.phase = "commit", !.changes = n].phase # "idle"
      BY <1>2 DEF Records
    <3> QED
      BY <1>2, <2>1, <3>1, GoesOnBusy
  <2>2. ASSUME NEW risky \in {"no", "yes"},
               Goes(c, [call[c] EXCEPT !.phase = "commit", !.risky = risky, !.token = "yes"])
        PROVE  Busy' = Busy
    <3>1. [call[c] EXCEPT !.phase = "commit", !.risky = risky, !.token = "yes"].phase # "idle"
      BY <1>2 DEF Records
    <3> QED
      BY <1>2, <2>2, <3>1, GoesOnBusy
  <2> QED
    BY <1>1, <1>2, <1>7, <2>1, <2>2, BridgeFailsBusy, GoesOnBusily, RecordNames DEF Preview
<1>8. CASE Commit(c)
  <2>1. ASSUME Goes(c, [call[c] EXCEPT !.phase = "lease", !.changes = 0]) PROVE Busy' = Busy
    <3>1. [call[c] EXCEPT !.phase = "lease", !.changes = 0].phase # "idle"
      BY <1>2 DEF Records
    <3> QED
      BY <1>2, <2>1, <3>1, GoesOnBusy
  <2> QED
    BY <1>1, <1>2, <1>8, <2>1, FailsBusy, RecordNames DEF Commit
<1>9. CASE EnsureLease(c)
  BY <1>1, <1>2, <1>9, BridgeFailsBusy, GoesOnBusily, RecordNames DEF EnsureLease
<1>10. CASE Request(c)
  <2> DEFINE ran == [call[c] EXCEPT !.ran = "yes"]
  <2>1. ran \in Records
    BY <1>2 DEF Records
  <2>2. ASSUME NEW phase \in {"cable", "reply"}, Goes(c, [ran EXCEPT !.phase = phase]) PROVE Busy' = Busy
    <3>1. [ran EXCEPT !.phase = phase].phase # "idle"
      BY <2>1, <2>2 DEF Records
    <3> QED
      BY <1>2, <2>2, <3>1, GoesOnBusy
  <2>3. ASSUME Goes(c, [ran EXCEPT !.phase = "reply", !.error = Payload("flagged"), !.cause = "bridge"]) PROVE Busy' = Busy
    <3>1. [ran EXCEPT !.phase = "reply", !.error = Payload("flagged"), !.cause = "bridge"].phase # "idle"
      BY <2>1 DEF Records
    <3> QED
      BY <1>2, <2>3, <3>1, GoesOnBusy
  <2>4. \/ \E phase \in {"cable", "reply"} : Goes(c, [ran EXCEPT !.phase = phase])
        \/ Goes(c, [ran EXCEPT !.phase = "reply", !.error = Payload("flagged"), !.cause = "bridge"])
        \/ BridgeFails(c, "bridge")
    BY <1>10 DEF Request
  <2> HIDE DEF ran
  <2> QED
    BY <1>1, <1>2, <2>2, <2>3, <2>4, BridgeFailsBusy, RecordNames
<1>11. CASE FindCable(c)
  BY <1>1, <1>2, <1>11, BridgeFailsBusy, GoesOnBusily, RecordNames DEF FindCable
<1>12. CASE ExceedsLimit(c)
  BY <1>1, <1>2, <1>12, FailsBusy, RecordNames DEF ExceedsLimit
<1> QED
  BY <1>6, <1>7, <1>8, <1>9, <1>10, <1>11, <1>12

LEMMA ReceiveArrives ==
  ASSUME CallsInv, Arrivals, NEW c \in Calls, Receive(c)
  PROVE  Arrivals'
<1>1. call \in [Calls -> Records] /\ call[c].phase = "idle" /\ received < MaxCalls /\ received' = received + 1 /\ newest' = newest
  BY DEF CallsInv, Receive, At, auditVars
<1>2. PICK r : Goes(c, r) /\ r.phase # "idle"
  <2>1. PICK tool \in Tools : \E plan \in Plans(tool) :
          \/ Goes(c, [plan EXCEPT !.phase = "handler"])
          \/ Goes(c, [plan EXCEPT !.phase = "reply", !.error = Payload("plain"), !.cause = "arguments"])
    BY DEF Receive
  <2>2. PICK plan \in Plans(tool) :
          \/ Goes(c, [plan EXCEPT !.phase = "handler"])
          \/ Goes(c, [plan EXCEPT !.phase = "reply", !.error = Payload("plain"), !.cause = "arguments"])
    BY <2>1
  <2>3. [plan EXCEPT !.phase = "handler"].phase = "handler"
    <3>1. CASE tool \in {"commit", "attach"}
      BY <2>2, <3>1 DEF Plans
    <3>2. CASE tool \notin {"commit", "attach"}
      BY <2>2, <3>2 DEF Plans, None
    <3> QED
      BY <3>1, <3>2
  <2>4. [plan EXCEPT !.phase = "reply", !.error = Payload("plain"), !.cause = "arguments"].phase = "reply"
    <3>1. CASE tool \in {"commit", "attach"}
      BY <2>2, <3>1 DEF Plans
    <3>2. CASE tool \notin {"commit", "attach"}
      BY <2>2, <3>2 DEF Plans, None
    <3> QED
      BY <3>1, <3>2
  <2> QED
    BY <2>2, <2>3, <2>4
<1>3. call'[c] = r /\ \A d \in Calls \ {c} : call'[d] = call[d]
  BY <1>1, <1>2 DEF Goes
<1>4. Busy' = Busy \union {c} /\ c \notin Busy
  BY <1>1, <1>2, <1>3 DEF Busy
<1>5. IsFiniteSet(Busy') /\ Cardinality(Busy') = Cardinality(Busy) + 1 /\ Cardinality(Busy) \in Nat
  BY <1>4, FS_AddElement, FS_CardinalityType DEF Arrivals
<1>6. received' \in 0..MaxCalls
  BY <1>1, ToolCallsAssumption DEF Arrivals
<1> QED
  BY <1>1, <1>5, <1>6 DEF Arrivals

LEMMA ReplyArrives ==
  ASSUME CallsInv, Arrivals, NEW c \in Calls, Reply(c)
  PROVE  Arrivals'
<1>1. call \in [Calls -> Records] /\ call[c].phase = "reply" /\ received' = received /\ newest' = newest + 1
  BY DEF CallsInv, Reply, At, Record
<1>2. call'[c] = None /\ \A d \in Calls \ {c} : call'[d] = call[d]
  BY <1>1 DEF Reply, Goes
<1>3. Busy' = Busy \ {c} /\ c \in Busy
  BY <1>1, <1>2 DEF Busy, None
<1>4. IsFiniteSet(Busy') /\ Cardinality(Busy') = Cardinality(Busy) - 1 /\ Cardinality(Busy) \in Nat
  BY <1>3, FS_RemoveElement, FS_CardinalityType DEF Arrivals
<1> QED
  BY <1>1, <1>4 DEF Arrivals

LEMMA ArrivalsStepwise == CallsInv /\ Arrivals /\ [Next]_vars => Arrivals'
<1> SUFFICES ASSUME CallsInv, Arrivals, [Next]_vars PROVE Arrivals'
  OBVIOUS
<1>1. ASSUME Busy' = Busy, UNCHANGED <<received, newest>> PROVE Arrivals'
  BY <1>1 DEF Arrivals
<1>2. ASSUME UNCHANGED <<call, received, newest>> PROVE Arrivals'
  BY <1>2 DEF Arrivals, Busy
<1>3. CASE Restart
  <2>1. Busy' = {} /\ UNCHANGED <<received, newest>>
    BY <1>3 DEF Restart, AuditRestarts, Busy, None
  <2>2. IsFiniteSet(Busy') /\ Cardinality(Busy') = 0 /\ Cardinality(Busy) \in Nat
    BY <2>1, FS_EmptySet, FS_CardinalityType DEF Arrivals
  <2> QED
    BY <2>1, <2>2 DEF Arrivals
<1>4. CASE Tick /\ UNCHANGED <<auditVars, callVars>>
  BY <1>2, <1>4 DEF auditVars, callVars
<1>5. CASE (Ages \/ OpenToRead) /\ UNCHANGED <<limiterVars, callVars>>
  BY <1>2, <1>5 DEF Ages, OpenToRead, callVars
<1>6. CASE UNCHANGED vars
  BY <1>2, <1>6 DEF vars, auditVars, callVars
<1>7. ASSUME NEW c \in Calls,
             \/ Receive(c) \/ Handle(c) \/ Preview(c) \/ Commit(c) \/ EnsureLease(c) \/ Request(c)
             \/ FindCable(c) \/ ExceedsLimit(c) \/ Reply(c)
      PROVE  Arrivals'
  BY <1>1, <1>7, ReceiveArrives, StepsContinue, ReplyArrives
<1> QED
  BY <1>3, <1>4, <1>5, <1>6, <1>7 DEF Next

\* Time stays within its bound.
TimeInv == LimiterInv /\ time <= MaxTime

LEMMA TimeInitially == Init => TimeInv
  BY InitInv, LimiterAssumption DEF Init, LimiterInit, TimeInv

LEMMA TimeStepwise == CallsInv /\ TimeInv /\ [Next]_vars => TimeInv'
<1> SUFFICES ASSUME CallsInv, TimeInv, [Next]_vars PROVE TimeInv'
  OBVIOUS
<1>1. [LimiterNext]_limiterVars
  BY LimiterStepwise
<1>2. LimiterInv'
  BY <1>1, LimiterStep DEF TimeInv
<1>3. time' <= MaxTime
  <2>1. CASE Tick
    BY <2>1, LimiterAssumption DEF Tick, TimeInv, LimiterInv
  <2>2. CASE time' = time
    BY <2>2 DEF TimeInv
  <2> QED
    BY <1>1, <2>1, <2>2 DEF LimiterNext, LimiterRestarts, Admit, Refuse, limiterVars
<1> QED
  BY <1>2, <1>3 DEF TimeInv

-----------------------------------------------------------------------------

\* The audit view is the latest history without a gap, whatever was rotated, expired or
\* restarted; the log stays within a check's interval of its limit.
THEOREM ConsistentCorrect == Spec => []Consistent
<1> DEFINE Inv == CallsInv /\ TimeInv /\ Arrivals /\ AuditInv
<1>1. Init => Inv
  BY CallsInitially, TimeInitially, ArrivalsInitially, AuditInitially
<1>2. Inv /\ [Next]_vars => Inv'
  BY CallsStepwise, TimeStepwise, ArrivalsStepwise, AuditStepwise
<1>3. Inv => Consistent
  <2> SUFFICES ASSUME Inv PROVE Consistent
    OBVIOUS
  <2>1. hits \in Seq(0..MaxTime) /\ time \in 0..MaxTime
    BY HitsInTime DEF TimeInv, LimiterInv
  <2>2. newest <= received
    <3>1. Cardinality(Busy) \in Nat
      BY FS_CardinalityType DEF Arrivals
    <3> QED
      BY <3>1 DEF Arrivals
  <2>3. Limit > 0 => Len(hits) <= Limit
    BY DEF TimeInv, LimiterInv
  <2>4. expired \in 0..newest /\ newest \in Nat
    BY DEF AuditInv, Arrivals
  <2>5. TypeOK
    BY <2>1, <2>2, <2>3, <2>4 DEF TypeOK, CallsInv, Arrivals, AuditInv
  <2> QED
    BY <2>5, HistoryRecent DEF Consistent, AuditInv
<1> QED
  BY <1>1, <1>2, <1>3, PTL DEF Spec

=============================================================================
