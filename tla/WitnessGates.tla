----------------------------- MODULE WitnessGates -----------------------------
(***************************************************************************)
(* Gates g18 and g19 (gate_g18.py, gate_g19.py) and render-witness         *)
(* (generate_witness.py).  A feature is a query of a concept; its witness  *)
(* spec is a file of one crate named after it, and so is its rendering.    *)
(***************************************************************************)
EXTENDS Absent, Naturals, FiniteSets

CONSTANTS
  Features,
  Crates,
  WitnessIds

VARIABLES
  required,   \* [Features -> how many concept specs say witness_required]
  specs,      \* [Crates \X Features -> the witness spec file, or None]
  results,    \* [WitnessIds -> the stored canonical result, or None]
  rendered,   \* the features whose rendering exists
  regenerates \* None without a witness_backend, or what it prints for each id

witnessVars == <<required, specs, results, rendered, regenerates>>

HasWitnesses == \E at \in Crates \X Features : specs[at] # None

Valid == {at \in Crates \X Features : specs[at] # None /\ specs[at].valid}

Homes(f) == {c \in Crates : <<c, f>> \in Valid}

\* One declaration, one crate with a valid witness, and its rendering.
Covered(f) ==
  /\ required[f] = 1
  /\ Cardinality(Homes(f)) = 1
  /\ f \in rendered

G18Clean == \A f \in Features : required[f] > 0 => Covered(f)

Declaring(id) == {at \in Valid : specs[at].id = id}

\* identity_mismatches: a result is of the witness as its spec declares it.
SameIdentity(at, doc) ==
  doc.feature = at[2] /\ doc.seed = specs[at].seed /\ doc.renderer = specs[at].renderer

\* check_witness_determinism, over what the backend prints now.
Reproduced(at) == LET doc == regenerates[specs[at].id] IN
  /\ doc # None /\ doc.valid
  /\ SameIdentity(at, doc)
  /\ doc.hash = specs[at].hash

\* The specs that share an id are an error, and none of them is regenerated.
G19Clean == \A at \in Valid : Cardinality(Declaring(specs[at].id)) = 1 /\ Reproduced(at)

\* What g20 has of its own are warnings, which check does not act on; the
\* error it shares with g19 is the shared id.
G20Clean == \A at \in Valid : Cardinality(Declaring(specs[at].id)) = 1

\* render-witness draws the stored result, for the feature it is of, and only
\* by the renderer it names.
RenderWitness(id, renderer) ==
  /\ rendered' = IF results[id] # None /\ results[id].renderer = renderer
                 THEN rendered \cup {results[id].feature} ELSE rendered
  /\ UNCHANGED <<required, specs, results, regenerates>>

=============================================================================
