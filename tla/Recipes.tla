-------------------------------- MODULE Recipes --------------------------------
(***************************************************************************)
(* The recipes (packages/recipes): the model that each role prefers, the   *)
(* operations, in which a role stands for its model, and how roles are     *)
(* resolved and operations expanded. Targets are in hundredths; the texts  *)
(* and the signal roles, which nothing reads, are left out.                *)
(***************************************************************************)
EXTENDS Adapters

Add(role, alias) == [op |-> "add_module", role |-> role, alias |-> alias]

SetNorm(alias, param, normalized) ==
  [op |-> "set_parameter", alias |-> alias, param |-> param, normalized |-> normalized]

\* Into a free input: the policy is fail_if_connected.
Wire(from, out, to, in) == [op |-> "connect", from |-> from, out |-> out, to |-> to, in |-> in]

\* Port and parameter ids by name.
Midi  == [pitch |-> 0, gate |-> 1]
Vco   == [pitchIn |-> 0, sawOut |-> 2]
Vcf   == [cutoffCv |-> 0, audioIn |-> 3, lpOut |-> 0, cutoffParam |-> 0, cutoffDepth |-> 3]
Vca   == [gainCv |-> 0, audioIn |-> 1, audioOut |-> 0, level |-> 0]
Adsr  == [gateIn |-> 4, envOut |-> 0, attack |-> 0, decay |-> 1, sustain |-> 2, release |-> 3]
Lfo   == [freq |-> 2, sineOut |-> 0, squareOut |-> 3]
Audio == [in1 |-> 0, in2 |-> 1]
Seq3  == [clockIn |-> 1, trigOut |-> 0, cv1Out |-> 1, stepsParam |-> 3]
Echo  == [audioIn |-> 4, mixOut |-> 0, timeParam |-> 0, feedbackParam |-> 1, mixParam |-> 3]

\* What ends every recipe with an amplifier.
ToAudio(from, out) == <<Wire(from, out, "audio", Audio.in1), Wire(from, out, "audio", Audio.in2)>>

Envelope(a, d, s, r) ==
  <<SetNorm("env", Adsr.attack, a), SetNorm("env", Adsr.decay, d),
    SetNorm("env", Adsr.sustain, s), SetNorm("env", Adsr.release, r)>>

Voice ==
  <<Wire("vco", Vco.sawOut, "vcf", Vcf.audioIn), Wire("env", Adsr.envOut, "vca", Vca.gainCv),
    Wire("vcf", Vcf.lpOut, "vca", Vca.audioIn)>> \o ToAudio("vca", Vca.audioOut)

KeyedVoice ==
  [roles |-> [midi_input |-> "MIDIToCV", oscillator |-> "VCO", filter |-> "VCF", envelope |-> "ADSR",
              amplifier |-> "VCA1", audio_output |-> "Audio2"],
   modules |->
     <<Add("midi_input", "midi"), Add("oscillator", "vco"), Add("filter", "vcf"),
       Add("envelope", "env"), Add("amplifier", "vca"), Add("audio_output", "audio")>>,
   rest |->
     <<SetNorm("vcf", Vcf.cutoffParam, 55)>> \o Envelope(5, 40, 70, 35)
     \o <<SetNorm("vca", Vca.level, 100), Wire("midi", Midi.pitch, "vco", Vco.pitchIn),
          Wire("midi", Midi.gate, "env", Adsr.gateIn)>>
     \o Voice]

basic_mono_subtractive ==
  [roles |-> KeyedVoice.roles, operations |-> KeyedVoice.modules \o KeyedVoice.rest]

\* The same chain: it is the interface that is polyphonic.
poly_midi_subtractive == basic_mono_subtractive

clocked_8_step_sequence ==
  [roles |-> [clock |-> "LFO", sequencer |-> "SEQ3", oscillator |-> "VCO", envelope |-> "ADSR",
              filter |-> "VCF", amplifier |-> "VCA1", audio_output |-> "Audio2"],
   operations |->
     <<Add("clock", "clk"), Add("sequencer", "seq"), Add("oscillator", "vco"),
       Add("envelope", "env"), Add("filter", "vcf"), Add("amplifier", "vca"),
       Add("audio_output", "audio"), SetNorm("clk", Lfo.freq, 40),
       SetNorm("seq", Seq3.stepsParam, 100), SetNorm("vcf", Vcf.cutoffParam, 50)>>
     \o Envelope(2, 30, 50, 20)
     \o <<SetNorm("vca", Vca.level, 100), Wire("clk", Lfo.squareOut, "seq", Seq3.clockIn),
          Wire("seq", Seq3.cv1Out, "vco", Vco.pitchIn), Wire("seq", Seq3.trigOut, "env", Adsr.gateIn)>>
     \o Voice]

stereo_delay_send_return ==
  [roles |-> [source |-> "VCO", delay_left |-> "Delay", delay_right |-> "Delay", audio_output |-> "Audio2"],
   operations |->
     <<Add("source", "src"), Add("delay_left", "delL"), Add("delay_right", "delR"),
       Add("audio_output", "audio"),
       SetNorm("delL", Echo.timeParam, 25), SetNorm("delR", Echo.timeParam, 45),
       SetNorm("delL", Echo.feedbackParam, 40), SetNorm("delR", Echo.feedbackParam, 40),
       SetNorm("delL", Echo.mixParam, 50), SetNorm("delR", Echo.mixParam, 50),
       Wire("src", Vco.sawOut, "delL", Echo.audioIn), Wire("src", Vco.sawOut, "delR", Echo.audioIn),
       Wire("delL", Echo.mixOut, "audio", Audio.in1), Wire("delR", Echo.mixOut, "audio", Audio.in2)>>]

safe_master_output ==
  [roles |-> [master_vca |-> "VCA1", audio_output |-> "Audio2"],
   operations |->
     <<Add("master_vca", "master"), Add("audio_output", "audio"), SetNorm("master", Vca.level, 70)>>
     \o ToAudio("master", Vca.audioOut)]

LfoModulation(speed, depth) ==
  [roles |-> [source |-> "VCO", lfo |-> "LFO", filter |-> "VCF", amplifier |-> "VCA1",
              audio_output |-> "Audio2"],
   operations |->
     <<Add("source", "vco"), Add("lfo", "lfo"), Add("filter", "vcf"), Add("amplifier", "vca"),
       Add("audio_output", "audio"), SetNorm("lfo", Lfo.freq, speed),
       SetNorm("vcf", Vcf.cutoffParam, 50), SetNorm("vcf", Vcf.cutoffDepth, depth),
       SetNorm("vca", Vca.level, 80),
       Wire("vco", Vco.sawOut, "vcf", Vcf.audioIn), Wire("lfo", Lfo.sineOut, "vcf", Vcf.cutoffCv),
       Wire("vcf", Vcf.lpOut, "vca", Vca.audioIn)>>
     \o ToAudio("vca", Vca.audioOut)]

\* Faulty variant: the values the comments in the recipe tell of.
TooSlow == LfoModulation(20, 50)

lfo_filter_modulation == LfoModulation(25, 75)

sidechain_envelope_follow ==
  [roles |-> [main_source |-> "VCO", trigger_source |-> "MIDIToCV", envelope |-> "ADSR",
              duck_vca |-> "VCA1", audio_output |-> "Audio2"],
   operations |->
     <<Add("main_source", "src"), Add("trigger_source", "trig"), Add("envelope", "env"),
       Add("duck_vca", "vca"), Add("audio_output", "audio")>>
     \o Envelope(2, 25, 0, 30)
     \o <<SetNorm("vca", Vca.level, 100), Wire("src", Vco.sawOut, "vca", Vca.audioIn),
          Wire("trig", Midi.gate, "env", Adsr.gateIn), Wire("env", Adsr.envOut, "vca", Vca.gainCv)>>
     \o ToAudio("vca", Vca.audioOut)]

probe_silence_diagnosis ==
  [roles |-> KeyedVoice.roles @@ ("probe" :> "Probe"),
   operations |->
     KeyedVoice.modules \o <<Add("probe", "probe")>> \o KeyedVoice.rest
     \o <<Wire("vco", Vco.sawOut, "probe", 0), Wire("vcf", Vcf.lpOut, "probe", 1),
          Wire("vca", Vca.audioOut, "probe", 2)>>]

Recipe ==
  [basic_mono_subtractive |-> basic_mono_subtractive,
   poly_midi_subtractive |-> poly_midi_subtractive,
   clocked_8_step_sequence |-> clocked_8_step_sequence,
   stereo_delay_send_return |-> stereo_delay_send_return,
   safe_master_output |-> safe_master_output,
   lfo_filter_modulation |-> lfo_filter_modulation,
   sidechain_envelope_follow |-> sidechain_envelope_follow,
   probe_silence_diagnosis |-> probe_silence_diagnosis]

-----------------------------------------------------------------------------
(* Resolution and expansion *)

\* resolveRecipe: a role resolves to its preferred model or not at all.
Unresolved(recipe, models) == {r \in DOMAIN recipe.roles : recipe.roles[r] \notin models}

\* expandRecipeOperations: only the modules to add change.
Expanded(recipe) ==
  [i \in DOMAIN recipe.operations |->
     LET o == recipe.operations[i] IN
     IF o.op = "add_module" THEN [op |-> o.op, model |-> recipe.roles[o.role], alias |-> o.alias] ELSE o]

=============================================================================
