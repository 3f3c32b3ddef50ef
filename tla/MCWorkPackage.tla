---------------------------- MODULE MCWorkPackage ----------------------------
(* Instances of WorkPackage for TLC.                                         *)
EXTENDS WorkPackage, TLC

CONSTANTS i1, i2, b1, bd, d1, o1, o2, o3, wp1, wp2, kani, verus, core, host, wide

\* scripts/witness_renderer.py and scripts/xml_escape.py, and a gate of the
\* project's, each letter standing for a name.
Renderer == <<<<"s">>, <<"w">>>>
Escaper == <<<<"s">>, <<"x">>>>
Gate == <<<<"g">>>>
MCFixedRunners == {Renderer, Escaper}

Kani == [kinds |-> <<kani>>, policy |-> "strict"]
Both == [kinds |-> <<kani, verus>>, policy |-> "strict"]
Swapped == [kinds |-> <<verus, kani>>, policy |-> "strict"]
Relies(o, a) == [obligation |-> o, assurance |-> a]
Spec1(rs) == [reliances |-> rs, scope |-> host, needs |-> None, valid |-> TRUE]

I1 == [Spec1({Relies(o1, Kani), Relies(o2, Both)}) EXCEPT !.needs = d1]
I2 == Spec1({Relies(o2, Both), Relies(o3, Kani)})
Files ==
  [f \in {i1, i2, b1, bd, d1, Renderer, Escaper, Gate} |->
    CASE f = i1 -> I1
      [] f = i2 -> I2
      [] f = b1 -> [requires |-> o3, valid |-> TRUE]
      [] f = bd -> [assumptions |-> {"a"}, valid |-> TRUE]
      [] OTHER -> "text"]
Listing(fs) == [f \in fs |-> Files[f]]

\* Write sets: "a/**", "b/*" and "s/q*" against "s/?", "b/*/?" and "g".
A == <<"a">>  B == <<"b">>  S == <<"s">>  Name == <<"*">>  Letter == <<"?">>  Q == <<"q", "*">>
Project ==
  [allowed |-> <<<<A, Stars>>, <<B, Name>>, <<S, <<"q", "?", "*">>>>>>,
   protected |-> <<<<S, Letter>>, <<B, Name, Letter>>, <<<<"g">>>>>>,
   runners |-> <<Gate, Adjudicator>>, owning |-> kani, supporting |-> {verus},
   crates |-> {core}, profile |-> [packages |-> {wp1, wp2}, owner |-> kani],
   receipts |-> {Listing({i1, b1})}, files |-> Files]
MCProjects ==
  {Project,
   [Project EXCEPT !.receipts = {Listing({i1, i2}), Listing({bd})}],
   [Project EXCEPT !.protected = <<<<B, Name, Letter>>>>],
   [Project EXCEPT !.supporting = {}],
   [Project EXCEPT !.profile.owner = verus],
   [Project EXCEPT !.protected = <<<<S, Letter>>, <<Stars, <<"z", "a">>, Letter>>>>]}

Plan ==
  [package |-> wp1, depends |-> <<wp2>>, crates |-> <<core>>, gates |-> <<"unit">>,
   provides |-> <<o1>>, requires |-> <<o2>>, bridges |-> <<b1>>, harnesses |-> {o1},
   scope |-> host, assumptions |-> <<[ref |-> [boundary |-> bd, assumption |-> "a"],
                                      risk |-> "low", mitigations |-> {"test"}]>>,
   allowed |-> <<<<A, Stars>>>>, protected |-> <<<<S, Letter>>, <<B, Stars>>, <<<<"g">>>>>>]

Allowed == {<<A>>, <<A, <<>>>>, <<A, Name, A>>, <<A, <<"a", "*">>>>, <<B, Letter>>, <<B, Stars>>,
            <<B, Name, A>>, <<Stars, A>>, <<Name, A>>, <<S, <<"q", "a">>>>, <<S, Q>>,
            <<S, <<"w">>>>, <<A, DotDot, S>>, <<<<>>, A>>, <<Stars>>}
Gates == <<<<"g">>>>
Deep == <<Stars, <<"z", "a">>, Letter>>
Narrow == <<<<S, Letter>>, <<B, Name, Letter>>, Gates>>
Protected == {<<<<S, Letter>>, <<B, Name, Name>>, <<Letter>>>>,
              <<<<S, <<>>>>, <<B, Name, <<>>>>, Gates>>,
              <<<<S, <<"w">>>>, <<S, <<"x">>>>, <<B, Name, Letter>>, Gates>>,
              <<<<B, Name, Letter>>, Gates>>,
              <<<<S, Letter>>, Deep>>, <<<<Stars>>>>}
WritePlans ==
  {[Plan EXCEPT !.allowed = <<a>>, !.protected = Narrow] : a \in Allowed}
    \cup {[Plan EXCEPT !.allowed = <<a>>, !.protected = p] :
            a \in {<<A, <<>>>>, <<B, Letter>>}, p \in Protected}

Assuming(risk, kinds, name) ==
  <<[ref |-> [boundary |-> bd, assumption |-> name], risk |-> risk, mitigations |-> kinds]>>
ContentPlans ==
  {Plan,
   [Plan EXCEPT !.provides = <<o1, o1>>],
   [Plan EXCEPT !.provides = <<o1, o2>>, !.harnesses = {o1, o2}],
   [Plan EXCEPT !.provides = <<o2>>, !.requires = <<o3>>, !.harnesses = {o2}],
   [Plan EXCEPT !.provides = <<o2>>, !.requires = <<>>, !.bridges = <<>>],
   [Plan EXCEPT !.scope = wide],
   [Plan EXCEPT !.package = core],
   [Plan EXCEPT !.depends = <<wp1>>],
   [Plan EXCEPT !.crates = <<host>>],
   [Plan EXCEPT !.gates = <<>>],
   [Plan EXCEPT !.assumptions = <<>>],
   [Plan EXCEPT !.assumptions = Assuming("low", {}, "a")],
   [Plan EXCEPT !.assumptions = Assuming("low", {"test"}, "b")],
   [Plan EXCEPT !.assumptions = Assuming("high", {"witness", "human-risk-acceptance"}, "a")],
   [Plan EXCEPT !.assumptions = Assuming("low", {"witness"}, "a")],
   [Plan EXCEPT !.assumptions = Assuming("low", {"witness", "human-risk-acceptance"}, "a")],
   [Plan EXCEPT !.assumptions = Assuming("low", {"test"}, "a") \o Assuming("high", {"test"}, "a")]}
MCPlans == WritePlans \cup ContentPlans

MCEditable ==
  {<<i1, I1>>, <<i2, I2>>,
   <<i1, [I1 EXCEPT !.reliances = {Relies(o1, Both), Relies(o2, Both)}]>>,
   <<i1, [I1 EXCEPT !.needs = None, !.reliances = {Relies(o1, Kani), Relies(o2, Swapped)}]>>,
   <<i2, [I2 EXCEPT !.reliances = {Relies(o2, Swapped), Relies(o3, Kani)}]>>,
   <<i2, [I2 EXCEPT !.scope = wide]>>,
   <<i2, [I2 EXCEPT !.valid = FALSE]>>,
   <<b1, [requires |-> o2, valid |-> TRUE]>>,
   <<bd, [assumptions |-> {}, valid |-> TRUE]>>,
   <<d1, None>>, <<Gate, None>>, <<Renderer, "changed">>}

\* The paths of one to three names over what the patterns name.
Names == {A, B, S, <<"w">>, <<"q">>, <<"q", "a">>, <<"z", "a">>}
MCPaths == UNION {[1..n -> Names] : n \in 1..3} \cup MCFixedRunners
=============================================================================
