------------------------------ MODULE MCWorkbench ------------------------------
(* Workbench with every recipe alone and beside a probe call, and small sketches. *)
EXTENDS Workbench

Installed == <<"Audio2", "MIDIToCV", "ADSR", "Delay", "LFO", "SEQ3", "VCA1", "VCF", "VCO", "Bridge", "Probe">>

\* Two pages hold twelve models: one page and a part, just two pages, and more; and a
\* catalog that misses a model.
MCCatalogs ==
  {Installed, <<"Other">> \o Installed, <<"Other", "Another">> \o Installed,
   SelectSeq(Installed, LAMBDA m : m # "VCF")}

Wired(inputs) == {[from |-> "other", out |-> 0, to |-> "meter", in |-> i] : i \in inputs}

Base(model, cables, channels) ==
  [model |-> model, cables |-> cables, bypassed |-> {}, channels |-> channels,
   value |-> [k \in {<<m, 0>> : m \in DOMAIN model \cap {"bridge"}} |-> 0]]

\* An empty patch, one with a bridge, and ones with a probe nearly and entirely full.
MCBases ==
  {Base(<<>>, {}, 2), Base([bridge |-> "Bridge"], {}, 1),
   Base([other |-> "Other", meter |-> "Probe"], Wired(0..6), 1),
   Base([other |-> "Other", meter |-> "Probe"], Wired(0..7), 2)}

ProbeAsks ==
  {[tool |-> "attach_probe", slot |-> s] : s \in {<<>>, <<"meter", 7>>}}
  \cup {[tool |-> "detach_probe", slot |-> <<"meter", 7>>]}

RecipeAsks == {[tool |-> "build_recipe", recipe |-> r] : r \in DOMAIN Recipe}

\* At most one recipe: a second would use the same names.
MCAsks == {"c1" :> a @@ "c2" :> b : a \in RecipeAsks \cup ProbeAsks, b \in ProbeAsks}

Graphs(ns, n) == {es \in SUBSET (ns \X ns) : Cardinality(es) <= n}

Drawn(ns, n) ==
  {[nodes |-> ns, edges |-> es, dests |-> ds] : es \in Graphs(ns, n), ds \in {{1}, {1, 2}}}

Cable(i, from, to) == [id |-> i, out |-> from, in |-> to]

\* Side by side: the only Bridge beside a module that feeds another and itself, and two
\* Bridges beside one that feeds itself.
MCSnapshots ==
  {[kind   |-> [b |-> "Bridge", a |-> "Other", m |-> "Other"],
    column |-> [b |-> 1, a |-> 2, m |-> 3],
    cables |-> {Cable(1, "a", "m"), Cable(2, "a", "a")},
    next   |-> 3],
   [kind   |-> [b |-> "Bridge", d |-> "Bridge", m |-> "Other"],
    column |-> [b |-> 1, d |-> 2, m |-> 3],
    cables |-> {Cable(1, "m", "m")},
    next   |-> 2]}

MCSketches == Drawn(1..3, 5) \cup Drawn(1..4, 3)

=============================================================================
