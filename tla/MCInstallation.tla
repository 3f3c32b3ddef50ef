--------------------------- MODULE MCInstallation ---------------------------
(* Instances of Installation for TLC. *)
EXTENDS Installation, TLC

CONSTANTS a1, a2, v1, v2, skill, retired, policy, s1, s2, r1, tmpl, pol, edit, h1, h2

MCRendered ==
  [v \in Versions |->
     [p \in Paths |-> CASE p = skill -> IF v = v1 THEN s1 ELSE s2
                        [] p = retired -> IF v = v1 THEN r1 ELSE None
                        [] p = policy -> tmpl]]
MCIdentity == [v \in Versions |-> IF v = v1 THEN h1 ELSE h2]
MCRegion == [t \in {s1, s2, r1, tmpl, pol, edit, None} |->
               IF t \in {s1, s2} THEN t ELSE None]
MCDeclared == MCRegion
MCStamp == [t \in {s1, s2, r1, tmpl, pol, edit, None} |->
              IF t \in {tmpl, pol} THEN pol ELSE None]
MCHandTexts == [p \in Paths |-> {edit}]
MCOrder == <<policy, skill, retired>>
MCForceLists == {<<>>, <<skill>>, <<skill, policy>>}

NoSteps == {}
AllSteps == {"stage", "apply", "prune", "scan", "stamp", "accept"}
=============================================================================
