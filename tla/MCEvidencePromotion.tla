------------------------- MODULE MCEvidencePromotion -------------------------
(* Instances of EvidencePromotion for TLC: two records, a valid and an       *)
(* invalid text.                                                             *)
EXTENDS EvidencePromotion, TLC

CONSTANTS e1, e2, good, bad, a1, a2

AllSteps == Steps
AllFaults == Steps \cup {"partial"}
=============================================================================
