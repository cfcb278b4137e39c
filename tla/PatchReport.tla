----------------------------- MODULE PatchReport -----------------------------
(***************************************************************************)
(* The rules of validatePatch (apps/mcp-server, analysis.ts) over a patch: *)
(* the model of each module, the cables, the values of the parameters in   *)
(* hundredths, the modules bypassed and the channels a MIDI interface puts *)
(* out. A report is the set of the rules with a finding. Left out: the     *)
(* rules on positions and expanders, and the texts. A cable is its four    *)
(* ends, so that a duplicate shows as nothing; a second cable into an      *)
(* input shows as stacked.                                                 *)
(***************************************************************************)
EXTENDS PatchGraph, Adapters

Modules(p) == DOMAIN p.model
Edges(p)   == {<<c.from, c.to>> : c \in p.cables}

\* Audio in a slug of Core.
AudioDests(p) == {m \in Modules(p) : p.model[m] = "Audio2"}

\* The modules of D and those that lead into them, in as many rounds as there are cables.
Behind(E, D) ==
  LET found[k \in 0..Cardinality(E)] ==
        IF k = 0 THEN D
        ELSE LET ahead == found[k - 1] IN ahead \cup {e[1] : e \in {e \in E : e[2] \in ahead}}
  IN found[Cardinality(E)]

\* familyOf, controlKindOf
Family(role) ==
  IF role = "audio" THEN "audio"
  ELSE IF role \in {"cv_unipolar", "cv_bipolar", "pitch_voct", "gate", "trigger", "clock"} THEN "control"
  ELSE "none"
Kind(role) ==
  IF role = "pitch_voct" THEN "pitch"
  ELSE IF role \in {"gate", "trigger", "clock"} THEN "event"
  ELSE "none"

Differ(a, b) == a # "none" /\ b # "none" /\ a # b

Joining(p) == {c \in p.cables : {c.from, c.to} \subseteq Modules(p)}

InBounds(p) ==
  {c \in Joining(p) : c.out \in Ports(p.model[c.from], "outputs") /\ c.in \in Ports(p.model[c.to], "inputs")}

CableRules(p) ==
  (IF Joining(p) # p.cables THEN {"cable.dangling"} ELSE {})
  \cup (IF InBounds(p) # Joining(p) THEN {"port.out_of_bounds"} ELSE {})
  \cup (IF \E c, d \in Joining(p) : c # d /\ c.to = d.to /\ c.in = d.in THEN {"inputs.stacked"} ELSE {})

ParamRule(p, m, n) ==
  LET v == p.value[<<m, n>>]
      k == Knobs[p.model[m]][n]
  IN IF v < k[1] \/ v > k[3] THEN {"param.out_of_range"}
     ELSE IF /\ HasSafeRange(p.model[m], n)
             /\ v < SafeRange(p.model[m], n)[1] \/ v > SafeRange(p.model[m], n)[2]
     THEN {"param.outside_safe_range"}
     ELSE {}

ParamRules(p) == UNION {ParamRule(p, k[1], k[2]) : k \in DOMAIN p.value}

\* Modules whose outputs carry every voice of a MIDI interface.
Voiced(p) ==
  {m \in Modules(p) : \E n \in Behind(Edges(p), {m}) : p.model[n] = "MIDIToCV"}

Channels(p, m) == IF m \in Voiced(p) THEN p.channels ELSE 1

RoleRules(p) ==
  UNION {
    LET o == Role(p.model[c.from], "outputs", c.out)
        i == Role(p.model[c.to], "inputs", c.in)
    IN (IF Differ(Family(o), Family(i)) THEN {"adapter.signal_role_cross"} ELSE {})
       \cup (IF Differ(Kind(o), Kind(i)) THEN {"adapter.pitch_gate_confusion"} ELSE {})
       \cup (IF Channels(p, c.from) > 1 /\ Monophonic(p.model[c.to], c.in)
             THEN {"adapter.poly_into_mono"} ELSE {})
    : c \in InBounds(p)}

\* A module on the way to an audio destination, with cables on both sides, is bypassed.
Interrupted(p) ==
  \E m \in p.bypassed \cap Behind(Edges(p), AudioDests(p)) :
    /\ \E c \in p.cables : c.to = m
    /\ \E c \in p.cables : c.from = m

GraphRules(p) ==
  (IF Interrupted(p) THEN {"bypass.interrupts_path"} ELSE {})
  \cup (IF \E e \in Edges(p) : e[2] \in Behind(Edges(p), {e[1]}) THEN {"cycle.feedback"} ELSE {})

PresenceRules(p) ==
  (IF \A m \in Modules(p) : p.model[m] # "Bridge" THEN {"bridge.missing"} ELSE {})
  \cup (IF \E m \in Modules(p) : p.model[m] \notin Adapted THEN {"adapter.unverified_modules"} ELSE {})
  \cup (IF AudioDests(p) = {} THEN {"audio.no_destination"}
        ELSE IF \A c \in p.cables : c.to \notin AudioDests(p) THEN {"audio.no_input"} ELSE {})

Report(p) == CableRules(p) \cup ParamRules(p) \cup RoleRules(p) \cup GraphRules(p) \cup PresenceRules(p)

=============================================================================
