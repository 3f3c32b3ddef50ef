----------------------------- MODULE MCPromotion -----------------------------
(* Instances of Promotion for TLC: one interaction, its debt record and the  *)
(* policy document.                                                          *)
EXTENDS Promotion, TLC

CONSTANTS i1, c1, r1, r2, a1, a2, pairwise, nonPairwise, floating, cover,
          stamped, unstamped, e1, edge

I == <<"interaction", i1>>
D == <<"debt", i1>>
Both(body) == {[body |-> body, reviewer |-> r] : r \in Reviewers}

MCBodies == {pairwise, nonPairwise, floating, cover}
MCNonPairwise == {nonPairwise}
MCBoundaryRequired == {nonPairwise}
\* Two bodies with reliances: one rests on e1, the other on nothing.
MCReliant == {nonPairwise, floating}
MCLinks == [b \in MCBodies |-> IF b = nonPairwise THEN {e1} ELSE {}]
MCEdgeOf == [b \in MCBodies |-> edge]

\* Everything is there; the evidence is not, or the boundary contract.
Full == [evidence |-> {e1}, edges |-> {edge}]
OneGround == {Full}
MoreGrounds == {Full, [Full EXCEPT !.evidence = {}], [Full EXCEPT !.edges = {}]}

\* The accepted set: everything.
OneSet == {{I, D, Policy}}

MCApprovable == ({I} \X Both(nonPairwise)) \cup ({D} \X Both(cover))
\* By hand: a pairwise interaction; a stamped policy.
OneEdit == ({I} \X Both(pairwise)) \cup {<<Policy, stamped>>}

\* Approvals are r1's; by hand the interaction may lose its grounds or come to
\* name r2, and the policy change.
OneApprover == {e \in MCApprovable : e[2].reviewer = r1}
MoreEdits ==
  {<<I, [body |-> floating, reviewer |-> r1]>>, <<I, [body |-> nonPairwise, reviewer |-> r2]>>,
   <<Policy, stamped>>, <<Policy, unstamped>>}

NoSteps == {}
AllSteps == Steps
AllFaults == Steps \cup {"partial"}
\* Everywhere but between validating a file and the last look at its text; of
\* the steps in a row that read no artifact, before the last.
OneWindow == {"rule", "versions", "replace"}

ActorSymmetry == Permutations(Actors)
=============================================================================
