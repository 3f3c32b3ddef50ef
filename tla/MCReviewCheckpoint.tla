------------------------- MODULE MCReviewCheckpoint -------------------------
(* Instances of ReviewCheckpoint for TLC: one interaction, and bodies that  *)
(* differ in what the gates G15 and R2 read of them.                        *)
EXTENDS ReviewCheckpoint, TLC

CONSTANTS i1, r1, a1, a2, pairwise, nonPairwise, boundary, both, cover, malformed,
          e1, edge

\* A fixed set of interaction bodies: pairwise (no obligation), nonPairwise
\* (G15), boundary (R2), both, and one no schema accepts.
MCWellFormed == {pairwise, nonPairwise, boundary, both, cover}
MCBodies == MCWellFormed \cup {malformed}
MCNonPairwise == {nonPairwise, both}
MCBoundaryRequired == {boundary, both}
\* Of what lies beside them: `both` links e1, and all have one call edge.
MCLinks == [b \in MCBodies |-> IF b = both THEN {e1} ELSE {}]
MCEdgeOf == [b \in MCBodies |-> edge]

\* Evidence and boundary contract are there, or one of the two only.
Full == [evidence |-> {e1}, edges |-> {edge}]
OneGround == {[Full EXCEPT !.edges = {}]}
MoreGrounds == {Full, [Full EXCEPT !.edges = {}], [Full EXCEPT !.evidence = {}]}

\* Nothing fails; only the steps of a pair fail or die; everything does.
NoSteps == {}
AllSteps == Steps \cup {"stage"}
AllFaults == AllSteps \cup {"partial"}

\* The processes are interchangeable.
ActorSymmetry == Permutations(Actors)
=============================================================================
