---------------------------- MODULE MCReleaseGate ----------------------------
(* Workspaces of three work packages for ReleaseGate. *)
EXTENDS ReleaseGate

MCPackages == <<"p", "q", "r">>
MCObligations == <<"o1", "o2", "o3">>
Own == [p |-> "o1", q |-> "o2", r |-> "o3"]
Asks == [p |-> <<"o2">>, q |-> <<"o3">>, r |-> <<>>]

Plain(v) ==
  [p \in PackageSet |->
     [provides |-> {Own[p]}, requires |-> Asks[p], establishes |-> IF p = "p" THEN {"b"} ELSE {},
      allResolved |-> p = "p", depends |-> {}, harness |-> v, accepts |-> {"creusot", "kani"},
      allows |-> IF p = "p" THEN {} ELSE {"a"}, config |-> 1]]
Cyclic == [Plain("creusot") EXCEPT !["r"].requires = <<"o1">>]

Achievement(v) == [kind |-> v, verifier |-> v, config |-> 1, supported |-> TRUE,
                   assumptions |-> {}, named |-> TRUE]
Report(p, v) ==
  [holds |-> "report", package |-> p, records |-> (Own[p] :> Achievement(v)),
   bridges |-> IF p = "p" THEN [b |-> Achievement(v)] ELSE <<>>]

Bits(scc, generic, v) ==
  [single_verifier_system |-> TRUE, protocol_class_all_pairwise |-> TRUE,
   transitive_assumptions_within_policy |-> TRUE, scc_wellfoundedness_discharged |-> scc,
   unresolved_indirect_calls_at_or_above_medium |-> 0, generic_callees |-> generic,
   owning_verifier |-> v]

Cluster(kind, scc, generic, v, discharges) ==
  [wellFormed |-> TRUE, kind |-> kind, packages |-> <<"p">>, discharges |-> discharges,
   conditions |-> Bits(scc, generic, v)]

All == {"o1", "o2", "o3"}
Acyclic == Cluster("deductive", "n/a", TRUE, "creusot", {})
Circle == Cluster("deductive", "true", TRUE, "creusot", {All})
OnKani == Cluster("bounded", "n/a", FALSE, "kani", {})

Excuse(failed) == [failed |-> failed, review |-> "ann", text |-> 1]
Gap == Excuse({Generic})

Workspace(ms, v, profile, record) ==
  [manifests |-> ms,
   files |-> [reports |-> [p \in PackageSet |-> Report(p, v)], profile |-> profile,
              record |-> record, reviews |-> {"ann"}, ratified |-> {record} \ {None},
              bridges |-> [b |-> "pairwise"], checks |-> [b |-> Achievement(v)],
               calls |-> [open |-> 0, risky |-> 0],
              proofs |-> All, broken |-> FALSE, strays |-> {}]]

MCStarts == {Workspace(Plain("creusot"), "creusot", Acyclic, None),
             Workspace(Cyclic, "creusot", Circle, None),
             Workspace(Plain("kani"), "kani", OnKani, Gap)}

MCEdits ==
  [manifest |->
     [p |-> {None, [Cyclic["p"] EXCEPT !.depends = {"r"}, !.requires = <<>>],
             [Cyclic["p"] EXCEPT !.provides = {}]},
      q |-> {None, Cyclic["q"], [Cyclic["q"] EXCEPT !.requires = <<"o2">>],
             [Cyclic["q"] EXCEPT !.accepts = {"creusot"}, !.allows = {}]},
      r |-> {None, Cyclic["r"], [Plain("creusot")["r"] EXCEPT !.provides = {"o1", "o3"}],
             [Plain("kani")["r"] EXCEPT !.config = 2]}],
   report |->
     [p |-> {NoReport, [Report("p", "kani") EXCEPT !.bridges["b"].supported = FALSE],
             [Report("p", "creusot") EXCEPT !.bridges = <<>>]},
      q |-> {Report("q", "creusot"), [Report("q", "creusot") EXCEPT !.records["o2"].assumptions = {"a"}],
             [Report("q", "creusot") EXCEPT !.holds = "ledger"],
             [Report("q", "creusot") EXCEPT !.holds = "other"]},
      r |-> {NoReport, Report("r", "creusot"), Report("r", "kani"), Report("p", "creusot"),
             [Report("r", "creusot") EXCEPT !.records["o3"].assumptions = {"a"}],
             [Report("r", "creusot") EXCEPT !.records["o3"].named = FALSE],
             [Report("r", "creusot") EXCEPT !.records["o3"].kind = "kani"]}],
   facet |->
     [profile |-> {None, Acyclic, Circle, OnKani, [Acyclic EXCEPT !.kind = "bounded"],
                   [Circle EXCEPT !.conditions.scc_wellfoundedness_discharged = "false",
                                  !.discharges = {}],
                   [Acyclic EXCEPT !.conditions.transitive_assumptions_within_policy = FALSE],
                   [Acyclic EXCEPT !.conditions.protocol_class_all_pairwise = FALSE],
                   [Acyclic EXCEPT !.conditions.single_verifier_system = FALSE,
                                   !.conditions[Generic] = FALSE],
                   [OnKani EXCEPT !.kind = "deductive"],
                   [Acyclic EXCEPT !.packages = <<"p", "r">>],
                   [Circle EXCEPT !.discharges = {{"o1", "o2"}}]},
      record |-> {None, Gap, [Gap EXCEPT !.text = 2],
                  Excuse({"scc_wellfoundedness_discharged"}),
                  Excuse({"transitive_assumptions_within_policy"}),
                  Excuse({"protocol_class_all_pairwise"}),
                  Excuse({"single_verifier_system", Generic}),
                  [Gap EXCEPT !.review = "bob"]},
      bridges |-> {[b |-> "n-ary"], [b |-> "collision"], [b |-> "none"]},
      calls |-> {None, [open |-> 1, risky |-> 0], [open |-> 1, risky |-> 1]},
      proofs |-> {All \ {"o3"}},
      checks |-> {<<>>},
      broken |-> {TRUE},
      strays |-> {{"profile"}, {"record"}}],
   reviewers |-> {"ann", "bob"}]
=============================================================================
