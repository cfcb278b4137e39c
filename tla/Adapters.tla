------------------------------- MODULE Adapters -------------------------------
(***************************************************************************)
(* The adapters (packages/adapters, data.ts) of the models that recipes    *)
(* use: the roles of the ports, in the order of their ids from 0, the      *)
(* inputs declared monophonic, and the safe ranges of the parameters, in   *)
(* hundredths. Texts, and what nothing reads, are left out.                *)
(***************************************************************************)
EXTENDS Integers, Sequences, TLC

Each(n, role) == [i \in 1..n |-> role]

Within(ids, lo, hi) == [p \in ids |-> <<lo, hi>>]
NoRange == Within({}, 0, 0)

Audio2 ==
  [inputs  |-> <<"audio", "audio">>,
   outputs |-> <<"audio", "audio">>,
   mono    |-> 0..1,
   safe    |-> Within({0}, 0, 100)]

MIDIToCV ==
  [inputs  |-> <<>>,
   outputs |-> <<"pitch_voct", "gate", "cv_unipolar", "cv_unipolar", "cv_bipolar",
               "cv_unipolar", "trigger", "clock", "clock", "trigger", "trigger",
               "trigger">>,
   mono    |-> {},
   safe    |-> NoRange]

VCO ==
  [inputs  |-> <<"pitch_voct", "cv_bipolar", "audio", "cv_bipolar">>,
   outputs |-> <<"audio", "audio", "audio", "audio">>,
   mono    |-> {},
   safe    |-> Within({5}, 10, 90)]

VCF ==
  [inputs  |-> <<"cv_bipolar", "cv_bipolar", "cv_bipolar", "audio">>,
   outputs |-> <<"audio", "audio">>,
   mono    |-> {},
   safe    |-> Within({2}, 0, 90)]

VCA1 ==
  [inputs  |-> <<"cv_unipolar", "audio">>,
   outputs |-> <<"audio">>,
   mono    |-> {},
   safe    |-> NoRange]

ADSR ==
  [inputs  |-> <<"cv_bipolar", "cv_bipolar", "cv_bipolar", "cv_bipolar", "gate",
               "trigger">>,
   outputs |-> <<"cv_unipolar">>,
   mono    |-> {},
   safe    |-> Within({0, 1, 2, 3, 8}, 0, 100) @@ Within(4..7, -100, 100)]

LFO ==
  [inputs  |-> <<"cv_bipolar", "unknown", "trigger", "cv_bipolar", "clock">>,
   outputs |-> <<"cv_unipolar", "cv_unipolar", "cv_unipolar", "cv_unipolar">>,
   mono    |-> {},
   safe    |-> Within({2}, -400, 600) @@ Within({5}, 10, 90)]

Delay ==
  [inputs  |-> <<"cv_bipolar", "cv_bipolar", "cv_bipolar", "cv_bipolar", "audio",
               "clock">>,
   outputs |-> <<"audio", "audio">>,
   mono    |-> {5},
   safe    |-> Within({0}, 0, 100) @@ Within({1}, 0, 85)]

SEQ3 ==
  [inputs  |-> <<"cv_bipolar", "clock", "trigger", "cv_unipolar", "trigger">>,
   outputs |-> <<"trigger", "cv_bipolar", "cv_bipolar", "cv_bipolar">> \o Each(8, "gate")
               \o <<"cv_unipolar", "clock", "gate", "trigger">>,
   mono    |-> 0..4,
   safe    |-> NoRange]

Bridge ==
  [inputs  |-> <<>>,
   outputs |-> <<>>,
   mono    |-> {},
   safe    |-> Within({0}, 0, 100)]

Probe ==
  [inputs  |-> Each(8, "unknown"),
   outputs |-> <<>>,
   mono    |-> {},
   safe    |-> NoRange]
Adapter ==
  [Audio2 |-> Audio2, MIDIToCV |-> MIDIToCV, VCO |-> VCO, VCF |-> VCF, VCA1 |-> VCA1, ADSR |-> ADSR,
   LFO |-> LFO, Delay |-> Delay, SEQ3 |-> SEQ3, Bridge |-> Bridge, Probe |-> Probe]

Adapted == DOMAIN Adapter

\* A module that nothing is known of: one port each way.
Ports(model, kind) ==
  IF model \in Adapted THEN 0..Len(Adapter[model][kind]) - 1 ELSE {0}

\* outputRole and inputRole: unknown ports and models have no role.
Role(model, kind, port) ==
  IF model \in Adapted /\ port \in Ports(model, kind) THEN Adapter[model][kind][port + 1] ELSE "none"

Monophonic(model, port) == model \in Adapted /\ port \in Adapter[model].mono

\* paramSemantics: the safe range of a parameter, if one is declared.
HasSafeRange(model, param) == model \in Adapted /\ param \in DOMAIN Adapter[model].safe
SafeRange(model, param)    == Adapter[model].safe[param]

\* Minimum, default and maximum of the parameters that have a safe range or are set,
\* as inspect_model reports them.
Knobs ==
  [Audio2 |-> 0 :> <<0, 100, 200>>,
   MIDIToCV |-> <<>>,
   VCO |-> 5 :> <<1, 50, 99>>,
   VCF |-> 0 :> <<1, 50, 99>> @@ 2 :> <<0, 0, 100>> @@ 3 :> <<-100, 0, 100>>,
   VCA1 |-> 0 :> <<0, 100, 100>>,
   ADSR |-> [p \in 0..3 |-> <<0, 50, 100>>] @@ [p \in 4..7 |-> <<-100, 0, 100>>] @@ 8 :> <<0, 0, 100>>,
   LFO |-> 2 :> <<-800, 100, 1000>> @@ 5 :> <<1, 50, 99>>,
   Delay |-> 0 :> <<0, 67, 100>> @@ 1 :> <<0, 50, 100>> @@ 3 :> <<0, 50, 100>>,
   SEQ3 |-> 3 :> <<100, 800, 800>>,
   Bridge |-> 0 :> <<0, 0, 100>>,
   Probe |-> <<>>,
   Other |-> <<>>]

Defaults(model) == [p \in DOMAIN Knobs[model] |-> Knobs[model][p][2]]

\* The value of a parameter set to so many hundredths of its range.
Decoded(model, param, normalized) ==
  LET k == Knobs[model][param] IN k[1] + (normalized * (k[3] - k[1])) \div 100

=============================================================================
