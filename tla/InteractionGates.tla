-------------------------- MODULE InteractionGates --------------------------
(***************************************************************************)
(* What the validators decide about the three artifacts whose validity is  *)
(* mutually dependent: an interaction, the protocol-debt record that       *)
(* covers it (G15) and the exemption that covers it (R2), in a crate whose *)
(* evidence records and boundary contracts come and go (G4, G5, R2).       *)
(*                                                                         *)
(* An artifact body is opaque here.  What the gates read of it is given by *)
(* sets and functions: WellFormed (schema, naming, computed eligibility:   *)
(* everything decided by the file alone), NonPairwise (protocol class),    *)
(* BoundaryRequired (eligibility), Reliant (declares reliances), Links     *)
(* (its evidence links) and EdgeOf (its call edge).  There is one artifact *)
(* of each kind per interaction id, because every validator rejects a file *)
(* whose stem is not the id its body carries.                              *)
(***************************************************************************)
CONSTANTS
  Ids,               \* interaction ids
  Reviewers,         \* values of a review block
  Bodies,            \* artifact contents, the review block left out
  WellFormed,        \* bodies that pass the gates decided by the file alone
  NonPairwise,       \* interaction bodies with protocol_class "non-pairwise"
  BoundaryRequired,  \* interaction bodies with eligibility "boundary-required"
  Reliant,           \* interaction bodies that declare reliances
  Evidence,          \* ids of evidence records
  Edges,             \* call edges
  Links,             \* [Bodies -> SUBSET Evidence]: evidence_links
  EdgeOf,            \* [Bodies -> Edges]: caller and callee
  None,              \* no file
  Torn               \* a file open("w") truncated and nobody wrote again

ASSUME BodiesAssumption ==
  /\ WellFormed \subseteq Bodies
  /\ NonPairwise \subseteq Bodies
  /\ BoundaryRequired \subseteq Bodies
  /\ Reliant \subseteq Bodies
  /\ Links \in [Bodies -> SUBSET Evidence]
  /\ EdgeOf \in [Bodies -> Edges]
  /\ None \notin Bodies

Kinds == {"interaction", "debt", "exemption"}

Targets == Kinds \X Ids

Interaction(i) == <<"interaction", i>>

\* An artifact as it stands at its target: a body under a review block.
Doc == [body : Bodies, reviewer : Reviewers]

\* None and Torn are not artifacts, and they differ.
ASSUME ContentAssumption ==
  /\ None \notin Doc
  /\ Torn \notin Doc \cup Bodies
  /\ None # Torn

\* The files beside the artifacts that the gates read: the ids of the valid
\* evidence records (valid_evidence_ids) and the edges with a valid boundary
\* contract (valid_boundary_edges_from_crate).
Ground == [evidence : SUBSET Evidence, edges : SUBSET Edges]

-----------------------------------------------------------------------------
(* The coverage a validator run derives from the files of one crate.       *)

\* check_evidence_links, G4: every link resolves to a valid evidence record.
Linked(body, evidence) == Links[body] \subseteq evidence

\* load_interactions_by_id: the reviewed interactions that validate, each
\* one granted its own G15 coverage so that a debt record can resolve it.
Lookup(files, ground) ==
  [i \in Ids |->
     LET f == files[Interaction(i)] IN
     IF f \in Doc /\ f.body \in WellFormed /\ Linked(f.body, ground.evidence)
       THEN f.body ELSE None]

Resolves(k, body) ==
  \/ k = "debt" /\ body \in NonPairwise
  \/ k = "exemption" /\ body \in BoundaryRequired

\* valid_interaction_ids_from_crate (debt) and
\* valid_exemption_interaction_ids_from_crate: the ids a stored record of
\* kind k covers, which takes a valid record that resolves.
CoveredBy(k, files, ground) ==
  {i \in Ids : /\ files[<<k, i>>] \in Doc
               /\ files[<<k, i>>].body \in WellFormed
               /\ Resolves(k, Lookup(files, ground)[i])}

Contexts == [lookup : [Ids -> Bodies \cup {None}],
             debts : SUBSET Ids, exempt : SUBSET Ids,
             evidence : SUBSET Evidence, edges : SUBSET Edges]

ContextOf(files, ground) ==
  [lookup   |-> Lookup(files, ground),
   debts    |-> CoveredBy("debt", files, ground),
   exempt   |-> CoveredBy("exemption", files, ground),
   evidence |-> ground.evidence,
   edges    |-> ground.edges]

-----------------------------------------------------------------------------
(* The gates.                                                              *)

\* check_g15_protocol_coverage: a non-pairwise interaction needs a debt record.
G15(i, body, ctx) == body \in NonPairwise => i \in ctx.debts

\* check_r2_coverage: a boundary-required interaction needs a boundary
\* contract for its edge, or a reviewed exemption.
R2(i, body, ctx) ==
  body \in BoundaryRequired => EdgeOf[body] \in ctx.edges \/ i \in ctx.exempt

\* check_g5_grounding: reliances take one evidence link that resolves.  It
\* refuses only when a promotion is accepted, and warns before that.
G5(body, evidence) == body \in Reliant => Links[body] \cap evidence # {}

\* Mutant: the gate list without G15.
InteractionValidWithoutG15(i, body, ctx) ==
  body \in WellFormed /\ Linked(body, ctx.evidence) /\ R2(i, body, ctx)

InteractionValid(i, body, ctx) ==
  /\ body \in WellFormed
  /\ Linked(body, ctx.evidence)
  /\ G15(i, body, ctx)
  /\ R2(i, body, ctx)

\* A debt record or an exemption must resolve to an interaction it applies to.
CoverValid(k, i, body, ctx) ==
  body \in WellFormed /\ Resolves(k, ctx.lookup[i])

\* What _select_validate_fn returns for a target, applied to a candidate.
Valid(t, body, ctx) ==
  IF t[1] = "interaction"
    THEN InteractionValid(t[2], body, ctx)
    ELSE CoverValid(t[1], t[2], body, ctx)

\* validate_pair: the candidate cover counts as coverage for the candidate
\* interaction, and the candidate interaction is what the cover resolves to.
PairValid(k, i, body, cover, ctx) ==
  LET granted == [ctx EXCEPT !.debts  = IF k = "debt" THEN @ \cup {i} ELSE @,
                             !.exempt = IF k = "exemption" THEN @ \cup {i} ELSE @]
  IN /\ InteractionValid(i, body, granted)
     /\ CoverValid(k, i, cover, [ctx EXCEPT !.lookup[i] = body])
=============================================================================
