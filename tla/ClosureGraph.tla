---------------------------- MODULE ClosureGraph ----------------------------
(***************************************************************************)
(* The two graph algorithms of gate-g14, step by step: the breadth-first   *)
(* closure over work packages (compute_closure) and the iterative search   *)
(* for strongly connected obligations (strongly_connected_components).     *)
(***************************************************************************)
EXTENDS Integers, Sequences, FiniteSets, SequencesExt

CONSTANTS
  Packages,     \* work packages, in the order of their names
  Obligations,  \* obligation ids, in the order of their names
  None

PackageSet == Range(Packages)
ObligationSet == Range(Obligations)

ASSUME ClosureGraphAssumption ==
  /\ Packages \in Seq(PackageSet) /\ IsInjective(Packages)
  /\ Obligations \in Seq(ObligationSet) /\ IsInjective(Obligations)
  /\ None \notin PackageSet \cup ObligationSet

VARIABLES
  manifests,  \* [loaded work packages -> manifest]
  phase,      \* "idle", "closure", "scc", "judge" or "done"
  frontier,   \* work packages to visit, each with its depth
  seen,       \* work packages visited
  depth,      \* [obligations required so far -> least depth]
  search      \* the state of the depth-first search

graph == <<phase, frontier, seen, depth, search>>

\* The member of S that comes first in the order of their names.
First(names, S) ==
  names[CHOOSE i \in DOMAIN names :
          names[i] \in S /\ \A j \in DOMAIN names : names[j] \in S => i <= j]
Least(a, b) == IF a < b THEN a ELSE b

\* The first work package, by name, that provides an obligation.
Provider(o) ==
  LET who == {p \in DOMAIN manifests : o \in manifests[p].provides}
  IN  IF who = {} THEN None ELSE First(Packages, who)

Ambiguous == \E p, q \in DOMAIN manifests : p # q /\ manifests[p].provides \cap manifests[q].provides # {}

\* What the obligations a package provides depend on, over packages `ps`.
Edges(ps) == UNION {manifests[p].provides \X Range(manifests[p].requires) : p \in ps}
Unsupported(ps) == {o \in UNION {Range(manifests[p].requires) : p \in ps} : Provider(o) = None}

\* What the pairs `next` lead to from x, in one step.
From(next, x) == {e[2] : e \in {pair \in next : pair[1] = x}}

\* The least set that holds `from` and is closed under the pairs `next`.
Reach(from, next, nodes) ==
  {x \in nodes : \A S \in SUBSET nodes :
      (from \subseteq S /\ \A e \in next : e[1] \in S => e[2] \in S) => x \in S}

-----------------------------------------------------------------------------
(* compute_closure.                                                        *)

NoSearch == [roots |-> {}, index |-> <<>>, low |-> <<>>, stack |-> <<>>,
             work |-> <<>>, found |-> {}]

\* The entries of the queue for packages met at one depth.
At(packages, d) == {[package |-> p, depth |-> d] : p \in packages}

Enter(packages) ==
  /\ phase' = "closure"
  /\ frontier' = At(packages, 0)
  /\ seen' = {} /\ depth' = <<>> /\ search' = NoSearch

\* The providers of what a package requires, unless visited.
Followed(p, d) ==
  LET who == {Provider(o) : o \in Range(manifests[p].requires)}
  IN  At(who \ (seen \cup {p, None}), d + 1)

\* The queue holds what is near before what is far; the order of what is
\* equally near makes no difference.
Visit ==
  /\ phase = "closure"
  /\ \E next \in frontier :
       LET p == next.package d == next.depth asked == Range(manifests[p].requires) IN
       /\ \A other \in frontier : d <= other.depth
       /\ IF p \in seen
          THEN frontier' = frontier \ {next} /\ UNCHANGED <<seen, depth>>
          ELSE /\ seen' = seen \cup {p}
               /\ depth' = [o \in DOMAIN depth \cup asked |->
                              IF o \notin asked THEN depth[o]
                              ELSE IF o \in DOMAIN depth THEN Least(depth[o], d + 1) ELSE d + 1]
               /\ frontier' = (frontier \ {next}) \cup Followed(p, d)
  /\ UNCHANGED <<manifests, phase, search>>

Nodes == LET e == Edges(seen) IN {x[1] : x \in e} \cup {x[2] : x \in e}
Successors(o) == From(Edges(seen), o)

Closed ==
  /\ phase = "closure" /\ frontier = {}
  /\ phase' = "scc" /\ search' = [NoSearch EXCEPT !.roots = Nodes]
  /\ UNCHANGED <<manifests, frontier, seen, depth>>

-----------------------------------------------------------------------------
(* strongly_connected_components: `work` is the stack of open nodes with   *)
(* the successors left to look at, the counter is the number indexed.      *)
(* Roots and successors are sorted: what is left is looked at by name.     *)

Opened(s, o) ==
  LET n == Cardinality(DOMAIN s.index)
      Numbered(f) == [x \in DOMAIN f \cup {o} |-> IF x = o THEN n ELSE f[x]]
  IN  [s EXCEPT !.index = Numbered(@), !.low = Numbered(@), !.stack = Append(@, o),
                !.work = Append(@, [node |-> o, left |-> Successors(o)])]

\* Take the next root, or skip one that has been visited.
Root ==
  LET r == First(Obligations, search.roots) rest == [search EXCEPT !.roots = @ \ {r}] IN
  /\ phase = "scc" /\ search.work = <<>> /\ search.roots # {}
  /\ search' = IF r \in DOMAIN search.index THEN rest ELSE Opened(rest, r)
  /\ UNCHANGED <<manifests, phase, frontier, seen, depth>>

Top == search.work[Len(search.work)]

\* A successor is taken from those left to the node on top.
Taken(s, child) == [s EXCEPT !.work[Len(s.work)].left = @ \ {child}]

Descended(s, o, child) ==
  IF child \notin DOMAIN s.index THEN Opened(s, child)
  ELSE IF child \in Range(s.stack) THEN [s EXCEPT !.low[o] = Least(@, s.index[child])]
  ELSE s

Descend ==
  /\ phase = "scc" /\ search.work # <<>> /\ Top.left # {}
  /\ LET child == First(Obligations, Top.left) IN
       search' = Descended(Taken(search, child), Top.node, child)
  /\ UNCHANGED <<manifests, phase, frontier, seen, depth>>

\* The nodes above `o` on the stack, and `o`.
Place(s, o) == CHOOSE k \in DOMAIN s.stack : s.stack[k] = o
Above(s, o) == {s.stack[k] : k \in Place(s, o) .. Len(s.stack)}

\* Mutant: a finished node does not lower its parent.
FinishedAlone(s, o) ==
  LET up == [s EXCEPT !.work = Front(@)] IN
  IF up.low[o] # up.index[o] THEN up
  ELSE [up EXCEPT !.stack = SubSeq(@, 1, Place(s, o) - 1),
                  !.found = @ \cup {Above(s, o)}]

Finished(s, o) ==
  LET popped == [s EXCEPT !.work = Front(@)]
      up == IF popped.work = <<>> THEN popped
            ELSE [popped EXCEPT !.low[Last(popped.work).node] = Least(@, popped.low[o])]
  IN  IF up.low[o] # up.index[o] THEN up
      ELSE [up EXCEPT !.stack = SubSeq(@, 1, Place(s, o) - 1),
                      !.found = @ \cup {Above(s, o)}]

Finish ==
  /\ phase = "scc" /\ search.work # <<>> /\ Top.left = {}
  /\ search' = Finished(search, Top.node)
  /\ UNCHANGED <<manifests, phase, frontier, seen, depth>>

Searched ==
  /\ phase = "scc" /\ search.work = <<>> /\ search.roots = {}
  /\ phase' = "judge"
  /\ UNCHANGED <<manifests, frontier, seen, depth, search>>

GraphStep == Visit \/ Closed \/ Root \/ Descend \/ Finish \/ Searched

\* The components that are cycles.
Cycles == {c \in search.found :
             Cardinality(c) > 1 \/ \E o \in c : <<o, o>> \in Edges(seen)}

-----------------------------------------------------------------------------
(* What the algorithms compute.                                            *)

Calls == UNION {{<<p, Provider(o)>> : o \in Range(manifests[p].requires)} : p \in DOMAIN manifests}

\* The closure a seed spans, and the obligations that depend on each other.
Spanned(packages) ==
  Reach(packages, {c \in Calls : c[2] # None}, PackageSet) \cap DOMAIN manifests

DependsOn(o, ps) == Reach(From(Edges(ps), o), Edges(ps), ObligationSet)

ClassOf(o, ps) == {o} \cup {x \in DependsOn(o, ps) : o \in DependsOn(x, ps)}
Mutual(ps) == {ClassOf(e[1], ps) : e \in Edges(ps)} \cup {ClassOf(e[2], ps) : e \in Edges(ps)}
=============================================================================
