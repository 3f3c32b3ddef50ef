--------------------------- MODULE ReleaseGateProofs ---------------------------
(***************************************************************************)
(* For any work packages, any edits and any order the closure is computed  *)
(* in: what gate-g14 releases rests on evidence, validate-closure passes   *)
(* it, record-assurance takes nothing from the gate, a cluster that closes *)
(* fails no condition, and one that is degraded has a ruling for each it   *)
(* fails.                                                                  *)
(*                                                                         *)
(* ClosureInv: the search for the closure ends in a set that holds the     *)
(* seeds and the provider of everything its members require, and nothing   *)
(* else; so the findings over it are findings over all a seed requires     *)
(* through any number of packages.                                         *)
(*                                                                         *)
(* SearchInv: the search for components, told one step at a time, has as   *)
(* low index of what it works on the number of something that waits and    *)
(* can be reached from there (LowIsReal), and the least such among what    *)
(* the frame answers for (LowIsLeast). So a frame whose low index is its   *)
(* own number is done with all it leads to, and what waits from it on is   *)
(* one component: the cycles the gate wants discharged are all there are.  *)
(***************************************************************************)
EXTENDS ReleaseGate, FiniteSetTheorems, WellFoundedInduction, TLAPS

Heads(entries) == {e.package : e \in entries}
Queued == Heads(frontier)
Asked(S) == UNION {Range(manifests[p].requires) : p \in S}

\* What the seeds require through the packages S is in S, or in Q.
ClosedBut(S, Q) ==
  /\ Seeds \subseteq S \cup Q
  /\ \A p \in S : \A o \in Range(manifests[p].requires) :
       Provider(o) # None => Provider(o) \in S \cup Q

Searching == {"closure", "scc", "judge"}

ClosureInv ==
  phase \in Searching =>
    /\ seen \subseteq Spanned(Seeds) /\ Queued \subseteq Spanned(Seeds)
    /\ ClosedBut(seen, Queued)
    /\ DOMAIN depth = Asked(seen) /\ \A e \in frontier : e.depth \in Nat
    /\ \A o \in DOMAIN depth : depth[o] \in Nat \ {0}
    /\ \A p \in Seeds \cap seen : \A o \in Range(manifests[p].requires) : depth[o] = 1
    /\ \A p \in Seeds \ seen : [package |-> p, depth |-> 0] \in frontier
    /\ phase # "closure" => frontier = {}

\* What ReleasedMeansProved says of p and o.
Proved(p, o) ==
  \E q \in DOMAIN manifests :
    /\ \A x \in DOMAIN manifests : o \in manifests[x].provides <=> x = q
    /\ Present(q) /\ o \in DOMAIN files.reports[q].records
    /\ LET r == files.reports[q].records[o] IN
         /\ r.supported /\ r.named /\ o \in files.proofs
         /\ r.kind = manifests[q].harness /\ r.kind \in manifests[p].accepts
         /\ r.assumptions \subseteq manifests[p].allows

AllProved == \A p \in Spanned(Seeds) : \A o \in Range(manifests[p].requires) : Proved(p, o)

FilesInv ==
  /\ DOMAIN manifests \subseteq PackageSet
  /\ \A p \in DOMAIN manifests : IsManifest(manifests[p])
  /\ DOMAIN files = FileFacets
  /\ DOMAIN files.reports = PackageSet
  /\ \A p \in PackageSet : IsReport(files.reports[p])
  /\ CountsCalls(files.calls)

\* What DegradedIsRuled says of the record.
RuledRecord ==
  /\ Record # None
  /\ Record.review \in files.reviews /\ Record \in files.ratified
  /\ ReallyFailing \subseteq Record.failed

\* What GateAgreesWithValidator says of the cluster's files.
Agreed == ClosureFindings \subseteq {"misplaced profile"}

VerdictInv ==
  Judged =>
    /\ verdict.exit = 0 => AllProved /\ Agreed
    /\ verdict.status = "closes" => ReallyFailing = {}
    /\ verdict.status = "degraded" => RuledRecord

\* Obligations that the pairs E lead to from x, in any number of steps.
Below(E, x) == Reach(From(E, x), E, ObligationSet)
Leads(E, x, y) == x = y \/ y \in Below(E, x)
\* The component of x.
Class(E, x) == {x} \cup {y \in Below(E, x) : x \in Below(E, y)}

Ends(E) == {e[1] : e \in E} \cup {e[2] : e \in E}

\* What the search has numbered, what of it waits for its component, and what
\* has one. "new" is what has been taken and is not numbered yet.
SearchFields == {"roots", "index", "low", "stack", "work", "found"}
Visited(s) == DOMAIN s.index
Waiting(s) == Range(s.stack)
Settled(s) == Visited(s) \ Waiting(s)

\* Every end is numbered or still to be taken; numbers are below their count.
SearchTyped(E, s, new) ==
  /\ DOMAIN s = SearchFields
  /\ Visited(s) \subseteq Ends(E) /\ Ends(E) \subseteq Visited(s) \cup s.roots \cup new
  /\ s.roots \subseteq Ends(E)
  /\ s.index \in [Visited(s) -> Nat] /\ s.low \in [Visited(s) -> Nat]
  /\ \A x \in Visited(s) : s.index[x] < Cardinality(Visited(s))
  /\ s.stack \in Seq(Visited(s))
  /\ s.work \in Seq(Range(s.work))
  /\ \A k \in DOMAIN s.work : /\ DOMAIN s.work[k] = {"node", "left"}
                              /\ s.work[k].node \in Waiting(s)
                              /\ s.work[k].left \subseteq From(E, s.work[k].node)

\* What waits, and what is worked on, is in the order it was numbered.
Ordered(s) ==
  /\ \A i, j \in DOMAIN s.stack : i < j => s.index[s.stack[i]] < s.index[s.stack[j]]
  /\ \A i, j \in DOMAIN s.work : i < j => s.index[s.work[i].node] < s.index[s.work[j].node]

\* A pair of a numbered obligation leads to a numbered one, or the frame that
\* works on it still has it to take; a settled one leads to settled ones only.
NoneMissed(E, s, new) ==
  /\ \A x \in Visited(s) : \A y \in From(E, x) :
       y \in Visited(s) \cup new \/ \E k \in DOMAIN s.work : s.work[k].node = x /\ y \in s.work[k].left
  /\ \A x \in Settled(s) : From(E, x) \subseteq Settled(s)

\* What is worked on leads to all that was numbered after it and waits, and
\* all that waits leads back to some of the work numbered before it.
Linked(E, s) ==
  /\ \A k \in DOMAIN s.work : \A y \in Waiting(s) :
       s.index[s.work[k].node] <= s.index[y] => Leads(E, s.work[k].node, y)
  /\ \A y \in Waiting(s) : \E k \in DOMAIN s.work :
       s.index[s.work[k].node] <= s.index[y] /\ Leads(E, y, s.work[k].node)

\* A low index is the number of something that waits and that can be reached.
LowIsReal(E, s) ==
  \A x \in Waiting(s) :
    /\ s.low[x] <= s.index[x]
    /\ \E z \in Waiting(s) : s.index[z] = s.low[x] /\ Leads(E, x, z)

\* Frame k answers for what was numbered from its node on and before the node
\* of the frame above it.
Charge(s, k, y) ==
  /\ s.index[s.work[k].node] <= s.index[y]
  /\ \A l \in DOMAIN s.work : k < l => s.index[y] < s.index[s.work[l].node]

\* The low index of a frame is no more than the number of anything that waits
\* and is one step from what the frame answers for, of what it has taken.
LowIsLeast(E, s, new) ==
  \A k \in DOMAIN s.work : \A y, w \in Waiting(s) :
    /\ Charge(s, k, y) /\ w \in From(E, y)
    /\ y = s.work[k].node => w \notin s.work[k].left /\ (k = Len(s.work) => w \notin new)
    => s.low[s.work[k].node] <= s.index[w]

SearchInv(E, s, new) ==
  /\ SearchTyped(E, s, new) /\ Ordered(s) /\ NoneMissed(E, s, new) /\ Linked(E, s)
  /\ LowIsReal(E, s) /\ LowIsLeast(E, s, new)
  /\ s.found = {Class(E, x) : x \in Settled(s)}

\* The search of a phase, and what it comes to.
GraphInv ==
  /\ phase = "scc" => SearchInv(Edges(seen), search, {})
  /\ phase = "judge" => search.found = Mutual(seen) /\ search.stack = <<>>

IInv == FilesInv /\ ClosureInv /\ GraphInv /\ VerdictInv

-----------------------------------------------------------------------------
(* Reachability.                                                           *)

Pairs == SUBSET (ObligationSet \X ObligationSet)

LEMMA ReachCloses ==
  ASSUME NEW from, NEW next, NEW nodes
  PROVE  /\ from \cap nodes \subseteq Reach(from, next, nodes)
         /\ \A e \in next : e[1] \in Reach(from, next, nodes) /\ e[2] \in nodes =>
              e[2] \in Reach(from, next, nodes)
         /\ Reach(from, next, nodes) \subseteq nodes
  BY DEF Reach

LEMMA ReachIsLeast ==
  ASSUME NEW from, NEW next, NEW nodes, NEW S \in SUBSET nodes, from \subseteq S,
         \A e \in next : e[1] \in S => e[2] \in S
  PROVE  Reach(from, next, nodes) \subseteq S
  BY DEF Reach

LEMMA FromIs ==
  ASSUME NEW E \in Pairs, NEW x, NEW y
  PROVE  y \in From(E, x) <=> <<x, y>> \in E
<1>1. ASSUME y \in From(E, x) PROVE <<x, y>> \in E
  <2>1. PICK e \in E : e[1] = x /\ e[2] = y
    BY <1>1 DEF From
  <2>2. e = <<e[1], e[2]>>
    BY DEF Pairs
  <2> QED BY <2>1, <2>2
<1>2. ASSUME <<x, y>> \in E PROVE y \in From(E, x)
  <2>1. <<x, y>> \in {pair \in E : pair[1] = x}
    BY <1>2
  <2> QED BY <2>1 DEF From
<1> QED BY <1>1, <1>2

LEMMA EndsAre ==
  ASSUME NEW E \in Pairs
  PROVE  /\ Ends(E) \subseteq ObligationSet
         /\ \A x : From(E, x) \subseteq Ends(E) /\ (From(E, x) # {} => x \in Ends(E))
<1>1. Ends(E) \subseteq ObligationSet
  BY DEF Pairs, Ends
<1>2. ASSUME NEW x, NEW y \in From(E, x) PROVE x \in Ends(E) /\ y \in Ends(E)
  <2>1. <<x, y>> \in E /\ <<x, y>>[1] = x /\ <<x, y>>[2] = y
    BY FromIs
  <2> QED BY <2>1 DEF Ends
<1> QED BY <1>1, <1>2

\* One step, and one way after another.
LEMMA LeadsOn ==
  ASSUME NEW E \in Pairs
  PROVE  /\ \A x : \A y \in From(E, x) : y \in Below(E, x)
         /\ \A x, y, z : y \in Below(E, x) /\ Leads(E, y, z) => z \in Below(E, x)
         /\ \A x, y, z : Leads(E, x, y) /\ Leads(E, y, z) => Leads(E, x, z)
         /\ \A x : Below(E, x) \subseteq ObligationSet
<1>1. ASSUME NEW x, NEW y \in From(E, x) PROVE y \in Below(E, x)
  BY EndsAre, ReachCloses DEF Below
<1>2. ASSUME NEW x, NEW y, y \in Below(E, x) PROVE Below(E, y) \subseteq Below(E, x)
  <2> DEFINE S == Below(E, x)
  <2>1. \A e \in E : e[1] \in S /\ e[2] \in ObligationSet => e[2] \in S
    BY ReachCloses DEF Below
  <2>2. \A e \in E : e[1] \in S => e[2] \in S
    BY <2>1 DEF Pairs
  <2>3. S \in SUBSET ObligationSet
    BY ReachCloses DEF Below
  <2>4. From(E, y) \subseteq S
    <3>1. ASSUME NEW z \in From(E, y) PROVE z \in S
      <4>1. <<y, z>> \in E
        BY FromIs
      <4> QED BY <1>2, <2>2, <4>1
    <3> QED BY <3>1
  <2> HIDE DEF S
  <2> QED BY <2>2, <2>3, <2>4, ReachIsLeast DEF Below, S
<1>3. \A x : Below(E, x) \subseteq ObligationSet
  BY ReachCloses DEF Below
<1> QED BY <1>1, <1>2, <1>3 DEF Leads

\* What leads out of no set it starts in stays in it.
LEMMA LeadsWithin ==
  ASSUME NEW E \in Pairs, NEW S \in SUBSET ObligationSet, \A x \in S : From(E, x) \subseteq S,
         NEW x \in S, NEW y, Leads(E, x, y)
  PROVE  y \in S
<1>1. \A e \in E : e[1] \in S => e[2] \in S
  <2>1. ASSUME NEW e \in E, e[1] \in S PROVE e[2] \in S
    <3>1. e = <<e[1], e[2]>>
      BY DEF Pairs
    <3>2. e[2] \in From(E, e[1])
      BY <3>1, FromIs
    <3> QED BY <2>1, <3>2
  <2> QED BY <2>1
<1>2. Below(E, x) \subseteq S
  BY <1>1, ReachIsLeast DEF Below
<1> QED BY <1>2 DEF Leads

LEMMA ClassIs ==
  ASSUME NEW E \in Pairs, NEW x
  PROVE  /\ \A y : y \in Class(E, x) <=> Leads(E, x, y) /\ Leads(E, y, x)
         /\ \A y \in Class(E, x) : Class(E, y) = Class(E, x)
<1>1. \A u, y : y \in Class(E, u) <=> Leads(E, u, y) /\ Leads(E, y, u)
  BY DEF Class, Leads
<1>2. ASSUME NEW y \in Class(E, x), NEW z PROVE z \in Class(E, y) <=> z \in Class(E, x)
  BY <1>1, LeadsOn
<1> QED BY <1>1, <1>2

\* The first by name of some names is one of them.
LEMMA FirstIs ==
  ASSUME NEW T, NEW names \in Seq(T), NEW S, S \cap Range(names) # {}
  PROVE  First(names, S) \in S \cap Range(names)
<1> DEFINE places == {i \in DOMAIN names : names[i] \in S}
<1>1. places \subseteq Nat /\ places # {}
  BY DEF Range
<1>2. PICK i \in places : \A j \in places : ~(<<j, i>> \in OpToRel(<, Nat))
  BY <1>1, NatLessThanWellFounded, WFMin
<1>3. ASSUME NEW j \in places PROVE i <= j
  <2>1. ~(j < i)
    BY <1>1, <1>2 DEF OpToRel
  <2> QED BY <1>1, <2>1
<1>4. i \in DOMAIN names /\ names[i] \in S /\ \A j \in DOMAIN names : names[j] \in S => i <= j
  BY <1>3
<1>5. (CHOOSE k \in DOMAIN names : names[k] \in S /\ \A j \in DOMAIN names : names[j] \in S => k <= j)
        \in places
  BY <1>4
<1> QED BY <1>5 DEF First, Range

-----------------------------------------------------------------------------
(* Providers.                                                              *)

\* A provider provides, and what anything provides has one.
LEMMA ProviderProvides ==
  ASSUME FilesInv, NEW o
  PROVE  /\ Provider(o) # None =>
              Provider(o) \in DOMAIN manifests /\ o \in manifests[Provider(o)].provides
         /\ (\E x \in DOMAIN manifests : o \in manifests[x].provides) => Provider(o) # None
<1> DEFINE who == {p \in DOMAIN manifests : o \in manifests[p].provides}
<1>1. Provider(o) = IF who = {} THEN None ELSE First(Packages, who)
  BY DEF Provider
<1>2. who # {} => First(Packages, who) \in who /\ First(Packages, who) \in PackageSet
  <2>1. who \subseteq PackageSet
    BY DEF FilesInv
  <2> HIDE DEF who
  <2>2. who # {} => who \cap Range(Packages) # {}
    BY <2>1 DEF PackageSet
  <2> QED BY <2>2, FirstIs, ClosureGraphAssumption DEF PackageSet
<1>3. None \notin PackageSet
  BY ClosureGraphAssumption
<1> QED BY <1>1, <1>2, <1>3

\* Where no two packages provide one obligation, its provider is the one that
\* does.
LEMMA OneProvider ==
  ASSUME FilesInv, ~Ambiguous, NEW o
  PROVE  \A x \in DOMAIN manifests : o \in manifests[x].provides <=> x = Provider(o)
<1>1. None \notin DOMAIN manifests
  BY ClosureGraphAssumption DEF FilesInv
<1>2. ASSUME NEW x \in DOMAIN manifests, o \in manifests[x].provides PROVE x = Provider(o)
  <2>1. Provider(o) \in DOMAIN manifests /\ o \in manifests[Provider(o)].provides
    BY <1>2, ProviderProvides
  <2> QED BY <1>2, <2>1 DEF Ambiguous
<1>3. ASSUME NEW x \in DOMAIN manifests, x = Provider(o) PROVE o \in manifests[x].provides
  BY <1>1, <1>3, ProviderProvides
<1> QED BY <1>2, <1>3

-----------------------------------------------------------------------------
(* The closure.                                                            *)

LEMMA HeadsAt == ASSUME NEW S, NEW d PROVE Heads(At(S, d)) = S
<1>1. ASSUME NEW q \in S PROVE \E e \in At(S, d) : e.package = q
  <2>1. [package |-> q, depth |-> d] \in At(S, d) /\ [package |-> q, depth |-> d].package = q
    BY DEF At
  <2> QED BY <2>1
<1>2. ASSUME NEW e \in At(S, d) PROVE e.package \in S
  BY DEF At
<1> QED BY <1>1, <1>2 DEF Heads

LEMMA SpannedCloses ==
  ASSUME FilesInv
  PROVE  /\ Seeds \subseteq Spanned(Seeds) /\ Spanned(Seeds) \subseteq DOMAIN manifests
         /\ \A p \in Spanned(Seeds) : \A o \in Range(manifests[p].requires) :
              Provider(o) # None => Provider(o) \in Spanned(Seeds)
<1> DEFINE next == {c \in Calls : c[2] # None}
           R == Reach(Seeds, next, PackageSet)
<1>1. Spanned(Seeds) = R \cap DOMAIN manifests
  BY DEF Spanned
<1>2. Seeds \subseteq DOMAIN manifests /\ DOMAIN manifests \subseteq PackageSet
  BY DEF Seeds, FilesInv
<1>3. /\ Seeds \cap PackageSet \subseteq R
      /\ \A e \in next : e[1] \in R /\ e[2] \in PackageSet => e[2] \in R
  BY ReachCloses
<1> HIDE DEF R
<1>4. ASSUME NEW p \in R \cap DOMAIN manifests, NEW o \in Range(manifests[p].requires),
             Provider(o) # None
      PROVE  Provider(o) \in R \cap DOMAIN manifests
  <2>1. Provider(o) \in DOMAIN manifests
    BY <1>4, ProviderProvides
  <2>2. <<p, Provider(o)>> \in next
    <3>1. <<p, Provider(o)>> \in Calls
      BY DEF Calls
    <3> QED BY <1>4, <3>1
  <2>3. <<p, Provider(o)>>[1] = p /\ <<p, Provider(o)>>[2] = Provider(o)
    OBVIOUS
  <2> QED BY <1>2, <1>3, <2>1, <2>2, <2>3
<1> QED BY <1>1, <1>2, <1>3, <1>4

LEMMA ClosureStarts == ASSUME FilesInv, Start PROVE ClosureInv'
<1>1. UNCHANGED <<manifests, files>> /\ phase' = "closure"
  BY DEF Start, Enter
<1>2. Queued' = Seeds /\ frontier' = At(Seeds, 0)
  BY HeadsAt DEF Start, Enter, Queued
<1>3. Seeds' = Seeds /\ Spanned(Seeds)' = Spanned(Seeds)
  BY <1>1 DEF Seeds, Profile, Spanned, Reach, Calls, Provider
<1>4. \A e \in At(Seeds, 0) : e.depth \in Nat
  BY DEF At
<1>5. \A p \in Seeds : [package |-> p, depth |-> 0] \in At(Seeds, 0)
  BY DEF At
<1>6. seen' = {} /\ depth' = <<>> /\ DOMAIN depth' = {}
  BY DEF Start, Enter
<1>7. ClosedBut({}, Seeds)'
  BY <1>3 DEF ClosedBut
<1> QED BY <1>1, <1>2, <1>3, <1>4, <1>5, <1>6, <1>7, SpannedCloses DEF ClosureInv, Asked, ClosedBut

LEMMA LeastIs == \A a, b \in Nat : Least(a, b) \in Nat /\ Least(a, b) <= a /\ Least(a, b) <= b
                                    /\ (Least(a, b) = a \/ Least(a, b) = b)
  BY DEF Least

\* What a visit takes from the queue is in the closure, and what it requires
\* is in it or in the queue; what a seed requires is met at depth 1.
LEMMA VisitKeeps ==
  ASSUME FilesInv, ClosureInv, Visit, UNCHANGED files
  PROVE  ClosureInv'
<1>1. UNCHANGED <<manifests, files>> /\ phase = "closure" /\ phase' = "closure"
  BY DEF Visit
<1>2. Seeds' = Seeds /\ (\A o : Provider(o)' = Provider(o)) /\ Spanned(Seeds)' = Spanned(Seeds)
  BY <1>1 DEF Seeds, Profile, Spanned, Reach, Calls, Provider
<1>3. /\ seen \subseteq Spanned(Seeds) /\ Queued \subseteq Spanned(Seeds)
      /\ ClosedBut(seen, Queued)
      /\ DOMAIN depth = Asked(seen) /\ \A e \in frontier : e.depth \in Nat
      /\ \A o \in DOMAIN depth : depth[o] \in Nat \ {0}
      /\ \A p \in Seeds \cap seen : \A o \in Range(manifests[p].requires) : depth[o] = 1
      /\ \A p \in Seeds \ seen : [package |-> p, depth |-> 0] \in frontier
  BY <1>1 DEF ClosureInv, Searching
<1>4. PICK next \in frontier :
        /\ \A other \in frontier : next.depth <= other.depth
        /\ IF next.package \in seen
           THEN frontier' = frontier \ {next} /\ UNCHANGED <<seen, depth>>
           ELSE /\ seen' = seen \cup {next.package}
                /\ depth' = [o \in DOMAIN depth \cup Range(manifests[next.package].requires) |->
                               IF o \notin Range(manifests[next.package].requires) THEN depth[o]
                               ELSE IF o \in DOMAIN depth THEN Least(depth[o], next.depth + 1)
                               ELSE next.depth + 1]
                /\ frontier' = (frontier \ {next}) \cup Followed(next.package, next.depth)
  BY DEF Visit
<1> DEFINE p == next.package
           d == next.depth
<1>5. p \in Queued /\ Queued \subseteq Queued' \cup {p} /\ p \in Spanned(Seeds) /\ d \in Nat
  BY <1>3, <1>4 DEF Queued, Heads
<1>6. \A q : [package |-> q, depth |-> 0].package = q /\ [package |-> q, depth |-> 0].depth = 0
  OBVIOUS
<1>7. CASE p \in seen
  <2>1. frontier' = frontier \ {next} /\ UNCHANGED <<seen, depth>>
    BY <1>4, <1>7
  <2>2. Queued' \subseteq Queued
    BY <2>1 DEF Queued, Heads
  <2>3. ClosedBut(seen, Queued)'
    BY <1>1, <1>2, <1>3, <1>5, <1>7, <2>1 DEF ClosedBut
  <2>4. \A q \in Seeds \ seen : [package |-> q, depth |-> 0] \in frontier'
    BY <1>3, <1>6, <1>7, <2>1
  <2>5. Asked(seen)' = Asked(seen)
    BY <1>1, <2>1 DEF Asked
  <2> QED BY <1>1, <1>2, <1>3, <2>1, <2>2, <2>3, <2>4, <2>5 DEF ClosureInv
<1>8. CASE p \notin seen
  <2> DEFINE asked == Range(manifests[p].requires)
             new == {Provider(o) : o \in asked} \ (seen \cup {p, None})
  <2>1. /\ seen' = seen \cup {p}
        /\ depth' = [o \in DOMAIN depth \cup asked |->
                       IF o \notin asked THEN depth[o]
                       ELSE IF o \in DOMAIN depth THEN Least(depth[o], d + 1) ELSE d + 1]
        /\ frontier' = (frontier \ {next}) \cup At(new, d + 1)
    BY <1>4, <1>8 DEF Followed
  <2>2. new \subseteq Spanned(Seeds)
    BY <1>5, SpannedCloses
  <2>3. \A o \in asked : Provider(o) # None => Provider(o) \in seen' \cup new
    BY <2>1
  <2>4. Queued' = Heads(frontier \ {next}) \cup new
    <3> HIDE DEF new
    <3>1. Heads(At(new, d + 1)) = new
      BY HeadsAt
    <3> QED BY <2>1, <3>1 DEF Queued, Heads
  <2>5. \A e \in frontier' : e.depth \in Nat
    <3>1. \A e \in At(new, d + 1) : e.depth \in Nat
      BY <1>5 DEF At
    <3> QED BY <1>3, <2>1, <3>1
  <2> HIDE DEF new
  <2>6. Queued' \subseteq Spanned(Seeds)
    BY <1>3, <2>2, <2>4 DEF Queued, Heads
  <2>7. ClosedBut(seen, Queued)'
    BY <1>1, <1>2, <1>3, <1>5, <2>1, <2>3, <2>4 DEF ClosedBut
  <2>8. DOMAIN depth' = Asked(seen)'
    BY <1>1, <1>3, <2>1 DEF Asked
  <2>9. ASSUME NEW o \in DOMAIN depth'
        PROVE  /\ depth'[o] \in Nat \ {0}
               /\ o \in DOMAIN depth /\ depth[o] = 1 => depth'[o] = 1
               /\ o \in asked /\ d = 0 => depth'[o] = 1
    <3>1. d + 1 \in Nat /\ d + 1 >= 1
      BY <1>5
    <3>2. CASE o \notin asked
      <4>1. o \in DOMAIN depth /\ depth'[o] = depth[o]
        BY <2>1, <3>2
      <4> QED BY <1>3, <3>2, <4>1
    <3>3. CASE o \in asked /\ o \in DOMAIN depth
      <4>1. depth'[o] = Least(depth[o], d + 1) /\ depth[o] \in Nat \ {0}
        BY <1>3, <2>1, <3>3
      <4> HIDE DEF d
      <4> QED BY <3>1, <4>1, LeastIs
    <3>4. CASE o \in asked /\ o \notin DOMAIN depth
      <4>1. depth'[o] = d + 1
        BY <2>1, <3>4
      <4> QED BY <1>5, <3>1, <3>4, <4>1
    <3> QED BY <3>2, <3>3, <3>4
  <2>10. p \in Seeds => d = 0
    <3>1. p \in Seeds => [package |-> p, depth |-> 0] \in frontier
      BY <1>3, <1>8
    <3>2. p \in Seeds => d <= 0
      BY <1>4, <1>6, <3>1
    <3> QED BY <1>5, <3>2
  <2>11. ASSUME NEW q \in Seeds \cap seen', NEW o \in Range(manifests[q].requires)
         PROVE  depth'[o] = 1
    <3>1. o \in DOMAIN depth'
      BY <1>1, <2>8, <2>11 DEF Asked
    <3>2. CASE q = p
      BY <2>9, <2>10, <2>11, <3>1, <3>2
    <3>3. CASE q # p
      <4>1. q \in Seeds \cap seen /\ o \in DOMAIN depth
        BY <1>3, <2>1, <2>11, <3>3 DEF Asked
      <4> QED BY <1>3, <2>9, <2>11, <3>1, <4>1
    <3> QED BY <3>2, <3>3
  <2>12. ASSUME NEW q \in Seeds \ seen' PROVE [package |-> q, depth |-> 0] \in frontier'
    <3>1. q \in Seeds \ seen /\ q # p
      BY <2>1, <2>12
    <3>2. [package |-> q, depth |-> 0] \in frontier /\ [package |-> q, depth |-> 0] # next
      BY <1>3, <1>6, <3>1
    <3> QED BY <2>1, <3>2
  <2>13. seen' \subseteq Spanned(Seeds)
    BY <1>3, <1>5, <2>1
  <2> QED BY <1>1, <1>2, <2>5, <2>6, <2>7, <2>8, <2>9, <2>11, <2>12, <2>13 DEF ClosureInv
<1> QED BY <1>7, <1>8

\* When the queue is empty the closure is what the seeds span.
LEMMA ClosureSpans ==
  ASSUME FilesInv, ClosureInv, phase \in {"scc", "judge"}
  PROVE  ClosureIsReach /\ seen = Spanned(Seeds)
<1>1. /\ seen \subseteq Spanned(Seeds) /\ ClosedBut(seen, {}) /\ frontier = {}
      /\ DOMAIN depth = Asked(seen)
      /\ \A p \in Seeds \cap seen : \A o \in Range(manifests[p].requires) : depth[o] = 1
  BY DEF ClosureInv, Searching, Queued, Heads
<1>2. seen \in SUBSET PackageSet /\ Seeds \subseteq seen
  BY <1>1, SpannedCloses DEF FilesInv, ClosedBut
<1>3. ASSUME NEW c \in {e \in Calls : e[2] # None}, c[1] \in seen
      PROVE  c[2] \in seen
  <2>1. PICK p \in DOMAIN manifests :
          \E o \in Range(manifests[p].requires) : c = <<p, Provider(o)>>
    BY <1>3 DEF Calls
  <2>2. PICK o \in Range(manifests[p].requires) : c = <<p, Provider(o)>>
    BY <2>1
  <2> QED BY <1>1, <1>3, <2>1, <2>2 DEF ClosedBut
<1>4. Spanned(Seeds) \subseteq seen
  BY <1>2, <1>3, ReachIsLeast DEF Spanned
<1> QED BY <1>1, <1>2, <1>4 DEF ClosureIsReach, InClosure, Asked

-----------------------------------------------------------------------------
(* The search.                                                             *)

LEMMA SearchStarts ==
  ASSUME NEW E \in Pairs
  PROVE  SearchInv(E, [NoSearch EXCEPT !.roots = Ends(E)], {})
<1> DEFINE s == [NoSearch EXCEPT !.roots = Ends(E)]
<1>1. /\ DOMAIN s = SearchFields /\ s.roots = Ends(E) /\ s.index = <<>> /\ s.low = <<>>
      /\ s.stack = <<>> /\ s.work = <<>> /\ s.found = {}
  BY DEF NoSearch, SearchFields
<1> HIDE DEF s
<1>2. Visited(s) = {} /\ Waiting(s) = {} /\ Settled(s) = {} /\ DOMAIN s.work = {}
  BY <1>1 DEF Visited, Waiting, Settled, Range
<1>3. SearchTyped(E, s, {})
  BY <1>1, <1>2 DEF SearchTyped
<1> QED BY <1>1, <1>2, <1>3 DEF SearchInv, Ordered, NoneMissed, Linked, LowIsReal, LowIsLeast, s

\* What is on top of the work stack.
LEMMA TopIs ==
  ASSUME NEW E, NEW s, NEW new, SearchInv(E, s, new), s.work # <<>>
  PROVE  /\ Len(s.work) \in Nat /\ Len(s.work) \in DOMAIN s.work /\ DOMAIN s.work = 1 .. Len(s.work)
         /\ \A k \in DOMAIN s.work :
              /\ s.work[k].node \in Waiting(s) /\ s.work[k].left \subseteq From(E, s.work[k].node)
              /\ DOMAIN s.work[k] = {"node", "left"}
<1>1. s.work \in Seq(Range(s.work))
  BY DEF SearchInv, SearchTyped
<1>2. Len(s.work) \in Nat /\ DOMAIN s.work = 1 .. Len(s.work) /\ Len(s.work) # 0
  BY <1>1
<1>3. Len(s.work) \in DOMAIN s.work
  BY <1>2
<1> QED BY <1>2, <1>3 DEF SearchInv, SearchTyped

\* A node waits where its index says.
LEMMA WaitingIs ==
  ASSUME NEW E, NEW s, NEW new, SearchInv(E, s, new)
  PROVE  /\ Waiting(s) \subseteq Visited(s) /\ Visited(s) \subseteq Ends(E)
         /\ \A x \in Visited(s) : s.index[x] \in Nat /\ s.low[x] \in Nat
         /\ Len(s.stack) \in Nat /\ DOMAIN s.stack = 1 .. Len(s.stack)
<1>1. s.stack \in Seq(Visited(s)) /\ Visited(s) \subseteq Ends(E)
  BY DEF SearchInv, SearchTyped
<1>2. \A k \in DOMAIN s.stack : s.stack[k] \in Visited(s)
  BY <1>1
<1>3. Waiting(s) \subseteq Visited(s)
  BY <1>2 DEF Waiting, Range
<1>4. \A x \in Visited(s) : s.index[x] \in Nat /\ s.low[x] \in Nat
  BY DEF SearchInv, SearchTyped
<1> QED BY <1>1, <1>3, <1>4

\* Nothing waits but for an open node.
LEMMA NoneWaits ==
  ASSUME NEW E, NEW s, NEW new, SearchInv(E, s, new), s.work = <<>>
  PROVE  Waiting(s) = {} /\ s.stack = <<>>
<1>1. Waiting(s) = {}
  BY DEF SearchInv, Linked
<1>2. DOMAIN s.stack = {}
  BY <1>1 DEF Waiting, Range
<1>3. s.stack \in Seq(Visited(s))
  BY DEF SearchInv, SearchTyped
<1>4. s.stack = <<>>
  <2>1. Len(s.stack) \in Nat /\ DOMAIN s.stack = 1 .. Len(s.stack) /\ 1 \notin DOMAIN s.stack
    BY <1>2, <1>3
  <2> QED BY <1>3, <2>1
<1> QED BY <1>1, <1>4

LEMMA Skipped ==
  ASSUME NEW E, NEW s, NEW c \in Settled(s), SearchInv(E, s, {c})
  PROVE  SearchInv(E, s, {})
  BY DEF SearchInv, SearchTyped, NoneMissed, LowIsLeast, Settled, Waiting, Visited

LEMMA RootTaken ==
  ASSUME NEW E, NEW s, NEW c, SearchInv(E, s, {}), s.work = <<>>
  PROVE  SearchInv(E, [s EXCEPT !.roots = @ \ {c}], {c})
<1> DEFINE t == [s EXCEPT !.roots = @ \ {c}]
<1>1. /\ DOMAIN t = SearchFields /\ t.roots = s.roots \ {c} /\ t.index = s.index /\ t.low = s.low
      /\ t.stack = s.stack /\ t.work = s.work /\ t.found = s.found
  BY DEF SearchInv, SearchTyped, SearchFields
<1> HIDE DEF t
<1>2. Visited(t) = Visited(s) /\ Waiting(t) = Waiting(s) /\ Settled(t) = Settled(s)
  BY <1>1 DEF Visited, Waiting, Settled
<1>3. SearchTyped(E, t, {c})
  BY <1>1, <1>2 DEF SearchInv, SearchTyped
<1>4. Ordered(t) /\ NoneMissed(E, t, {c}) /\ Linked(E, t) /\ LowIsReal(E, t)
  BY <1>1, <1>2 DEF SearchInv, Ordered, NoneMissed, Linked, LowIsReal
<1>5. LowIsLeast(E, t, {c})
  BY <1>1, <1>2 DEF SearchInv, LowIsLeast, Linked
<1> QED BY <1>1, <1>2, <1>3, <1>4, <1>5 DEF SearchInv, t

LEMMA ChildTaken ==
  ASSUME NEW E, NEW s, NEW c, SearchInv(E, s, {}), s.work # <<>>, c \in s.work[Len(s.work)].left
  PROVE  LET t == Taken(s, c) IN
         /\ SearchInv(E, t, {c})
         /\ t.index = s.index /\ t.low = s.low /\ t.stack = s.stack
         /\ t.work # <<>> /\ Len(t.work) = Len(s.work)
         /\ t.work[Len(t.work)].node = s.work[Len(s.work)].node
<1> DEFINE m == Len(s.work)
           t == Taken(s, c)
<1>0. /\ m \in Nat /\ m \in DOMAIN s.work /\ DOMAIN s.work = 1 .. m
      /\ \A k \in DOMAIN s.work : /\ s.work[k].node \in Waiting(s)
                                  /\ s.work[k].left \subseteq From(E, s.work[k].node)
                                  /\ DOMAIN s.work[k] = {"node", "left"}
  BY TopIs
<1>1. /\ DOMAIN t = SearchFields /\ t.roots = s.roots /\ t.index = s.index /\ t.low = s.low
      /\ t.stack = s.stack /\ t.found = s.found
      /\ t.work = [s.work EXCEPT ![m].left = @ \ {c}]
  BY DEF SearchInv, SearchTyped, SearchFields, Taken
<1>11. t.work = [s.work EXCEPT ![m] = [s.work[m] EXCEPT !.left = @ \ {c}]]
  BY <1>1
<1>2. /\ DOMAIN t.work = DOMAIN s.work
      /\ \A k \in DOMAIN s.work : t.work[k].node = s.work[k].node
      /\ \A k \in DOMAIN s.work : t.work[k].left = IF k = m THEN s.work[k].left \ {c} ELSE s.work[k].left
      /\ \A k \in DOMAIN s.work : DOMAIN t.work[k] = {"node", "left"}
  <2>1. ASSUME NEW k \in DOMAIN s.work, k # m PROVE t.work[k] = s.work[k]
    BY <1>0, <1>11, <2>1
  <2>2. t.work[m] = [s.work[m] EXCEPT !.left = @ \ {c}] /\ DOMAIN t.work = DOMAIN s.work
    BY <1>0, <1>11
  <2>3. /\ t.work[m].node = s.work[m].node /\ t.work[m].left = s.work[m].left \ {c}
        /\ DOMAIN t.work[m] = {"node", "left"}
    BY <1>0, <2>2
  <2>4. ASSUME NEW k \in DOMAIN s.work
        PROVE  /\ t.work[k].node = s.work[k].node /\ DOMAIN t.work[k] = {"node", "left"}
               /\ t.work[k].left = IF k = m THEN s.work[k].left \ {c} ELSE s.work[k].left
    <3> HIDE DEF t, m
    <3>1. CASE k = m
      BY <2>3, <3>1
    <3>2. CASE k # m
      BY <1>0, <2>1, <3>2
    <3> QED BY <3>1, <3>2
  <2> HIDE DEF t, m
  <2> QED BY <2>2, <2>4
<1>3. t.work \in Seq(Range(t.work)) /\ Len(t.work) = m
  <2>1. DOMAIN t.work = 1 .. m
    BY <1>0, <1>2
  <2>2. t.work = [k \in 1 .. m |-> t.work[k]]
    BY <1>11, <2>1
  <2>3. t.work \in [1 .. m -> Range(t.work)]
    BY <2>1, <2>2 DEF Range
  <2> HIDE DEF t, m
  <2> QED BY <1>0, <2>3
<1> HIDE DEF t
<1>4. Visited(t) = Visited(s) /\ Waiting(t) = Waiting(s) /\ Settled(t) = Settled(s)
  BY <1>1 DEF Visited, Waiting, Settled
<1>5. SearchTyped(E, t, {c})
  BY <1>0, <1>1, <1>2, <1>3, <1>4 DEF SearchInv, SearchTyped
<1>6. Ordered(t) /\ Linked(E, t) /\ LowIsReal(E, t)
  <2>1. Ordered(t)
    BY <1>1, <1>2 DEF SearchInv, Ordered
  <2>2. Linked(E, t)
    BY <1>1, <1>2, <1>4 DEF SearchInv, Linked
  <2>3. LowIsReal(E, t)
    BY <1>1, <1>4 DEF SearchInv, LowIsReal
  <2> QED BY <2>1, <2>2, <2>3
<1>7. NoneMissed(E, t, {c})
  BY <1>1, <1>2, <1>4 DEF SearchInv, NoneMissed
<1>8. LowIsLeast(E, t, {c})
  <2>1. \A k \in DOMAIN s.work : \A y : Charge(t, k, y) <=> Charge(s, k, y)
    BY <1>1, <1>2 DEF Charge
  <2> QED BY <1>1, <1>2, <1>3, <1>4, <2>1 DEF SearchInv, LowIsLeast
<1>9. SearchInv(E, t, {c})
  BY <1>1, <1>4, <1>5, <1>6, <1>7, <1>8 DEF SearchInv
<1>10. t.work # <<>> /\ t.work[Len(t.work)].node = s.work[m].node
  BY <1>0, <1>2, <1>3
<1> QED BY <1>1, <1>3, <1>9, <1>10 DEF t

LEMMA FewObligations == IsFiniteSet(ObligationSet)
<1>1. Obligations \in Seq(ObligationSet)
  BY ClosureGraphAssumption
<1>2. Len(Obligations) \in Nat /\ DOMAIN Obligations = 1 .. Len(Obligations)
  BY <1>1
<1>3. \A o \in ObligationSet : \E k \in 1 .. Len(Obligations) : Obligations[k] = o
  BY <1>2 DEF ObligationSet, Range
<1>4. Obligations \in Surjection(1 .. Len(Obligations), ObligationSet)
  BY <1>1, <1>2, <1>3 DEF Surjection
<1>5. IsFiniteSet(1 .. Len(Obligations))
  BY <1>2, FS_Interval
<1> QED BY <1>4, <1>5, FS_Surjection

LEMMA OpenedIs ==
  ASSUME NEW s, DOMAIN s = SearchFields, NEW o
  PROVE  LET t == Opened(s, o) n == Cardinality(Visited(s)) IN
         /\ DOMAIN t = SearchFields /\ t.roots = s.roots /\ t.found = s.found
         /\ t.index = [x \in Visited(s) \cup {o} |-> IF x = o THEN n ELSE s.index[x]]
         /\ t.low = [x \in DOMAIN s.low \cup {o} |-> IF x = o THEN n ELSE s.low[x]]
         /\ t.stack = Append(s.stack, o)
         /\ t.work = Append(s.work, [node |-> o, left |-> From(Edges(seen), o)])
  BY DEF Opened, SearchFields, Visited, Successors

\* A node met for the first time.
LEMMA OpenedKeeps ==
  ASSUME NEW E \in Pairs, E = Edges(seen), NEW s, NEW o \in Ends(E) \ Visited(s),
         SearchInv(E, s, {o}), s.work = <<>> \/ o \in From(E, s.work[Len(s.work)].node)
  PROVE  SearchInv(E, Opened(s, o), {})
<1> DEFINE t == Opened(s, o)
           n == Cardinality(Visited(s))
           m == Len(s.work)
<1>1. /\ DOMAIN t = SearchFields /\ t.roots = s.roots /\ t.found = s.found
      /\ t.index = [x \in Visited(s) \cup {o} |-> IF x = o THEN n ELSE s.index[x]]
      /\ t.low = [x \in Visited(s) \cup {o} |-> IF x = o THEN n ELSE s.low[x]]
      /\ t.stack = Append(s.stack, o)
      /\ t.work = Append(s.work, [node |-> o, left |-> From(E, o)])
  <2>1. DOMAIN s = SearchFields /\ DOMAIN s.low = Visited(s)
    BY DEF SearchInv, SearchTyped
  <2> QED BY <2>1, OpenedIs
<1> HIDE DEF t
<1>2. /\ Waiting(s) \subseteq Visited(s) /\ Visited(s) \subseteq Ends(E)
      /\ \A x \in Visited(s) : s.index[x] \in Nat /\ s.low[x] \in Nat
  BY WaitingIs
<1>3. n \in Nat /\ Cardinality(Visited(s) \cup {o}) = n + 1 /\ \A x \in Visited(s) : s.index[x] < n
  <2>1. Visited(s) \subseteq ObligationSet
    BY <1>2, EndsAre
  <2> QED BY <2>1, FewObligations, FS_Subset, FS_CardinalityType, FS_AddElement
          DEF SearchInv, SearchTyped
<1> HIDE DEF n
<1>4. s.stack \in Seq(Visited(s)) /\ s.work \in Seq(Range(s.work)) /\ m \in Nat /\ DOMAIN s.work = 1 .. m
  BY DEF SearchInv, SearchTyped
<1>17. /\ \A i, j \in 1 .. m : i < j => s.index[s.work[i].node] < s.index[s.work[j].node]
       /\ \A i, j \in DOMAIN s.stack : i < j => s.index[s.stack[i]] < s.index[s.stack[j]]
  BY <1>4 DEF SearchInv, Ordered
<1>5. /\ Visited(t) = Visited(s) \cup {o}
      /\ t.index[o] = n /\ t.low[o] = n
      /\ \A x \in Visited(s) : t.index[x] = s.index[x] /\ t.low[x] = s.low[x]
  BY <1>1 DEF Visited
<1>6. /\ DOMAIN t.work = 1 .. (m + 1) /\ \A k \in 1 .. m : t.work[k] = s.work[k]
      /\ t.work[m + 1] = [node |-> o, left |-> From(E, o)] /\ Len(t.work) = m + 1
      /\ m + 1 \in DOMAIN t.work
  BY <1>1, <1>4
<1>7. /\ DOMAIN s.stack = 1 .. Len(s.stack)
      /\ DOMAIN t.stack = 1 .. (Len(s.stack) + 1) /\ Len(s.stack) \in Nat
      /\ \A k \in 1 .. Len(s.stack) : t.stack[k] = s.stack[k] /\ s.stack[k] \in Visited(s)
      /\ t.stack[Len(s.stack) + 1] = o
  BY <1>1, <1>4
<1>8. Waiting(t) = Waiting(s) \cup {o} /\ Settled(t) = Settled(s) /\ o \notin Waiting(s)
  <2>1. Waiting(t) = Waiting(s) \cup {o}
    <3>1. \A x : x \in Waiting(s) <=> \E k \in 1 .. Len(s.stack) : s.stack[k] = x
      BY <1>7 DEF Waiting, Range
    <3>2. \A x : x \in Waiting(t) <=> \E k \in 1 .. (Len(s.stack) + 1) : t.stack[k] = x
      BY <1>7 DEF Waiting, Range
    <3>3. ASSUME NEW x \in Waiting(t) PROVE x \in Waiting(s) \cup {o}
      BY <1>7, <3>1, <3>2
    <3>4. ASSUME NEW x \in Waiting(s) PROVE x \in Waiting(t)
      BY <1>7, <3>1, <3>2
    <3>5. o \in Waiting(t)
      BY <1>7, <3>2
    <3> QED BY <3>3, <3>4, <3>5
  <2> QED BY <1>2, <1>5, <2>1 DEF Settled
<1>9. \A k \in 1 .. m : s.work[k].node \in Waiting(s) /\ s.work[k].node \in Visited(s)
  BY <1>2, <1>4 DEF SearchInv, SearchTyped
<1>10. SearchTyped(E, t, {})
  <2>1. /\ Visited(t) \subseteq Ends(E) /\ Ends(E) \subseteq Visited(t) \cup t.roots \cup {}
        /\ t.roots \subseteq Ends(E)
    BY <1>1, <1>5 DEF SearchInv, SearchTyped
  <2>2. t.index \in [Visited(t) -> Nat] /\ t.low \in [Visited(t) -> Nat]
    BY <1>1, <1>2, <1>3, <1>5
  <2>3. \A x \in Visited(t) : t.index[x] < Cardinality(Visited(t))
    <3>1. ASSUME NEW x \in Visited(s) PROVE t.index[x] < n + 1
      BY <1>2, <1>3, <1>5
    <3> QED BY <1>3, <1>5, <3>1
  <2>4. t.stack \in Seq(Visited(t))
    BY <1>1, <1>4, <1>5
  <2>5. t.work \in Seq(Range(t.work))
    <3>1. t.work = [k \in 1 .. (m + 1) |-> t.work[k]]
      BY <1>1, <1>4, <1>6
    <3>2. t.work \in [1 .. (m + 1) -> Range(t.work)]
      BY <1>6, <3>1 DEF Range
    <3> QED BY <1>4, <3>2
  <2>6. ASSUME NEW k \in DOMAIN t.work
        PROVE  /\ DOMAIN t.work[k] = {"node", "left"}
               /\ t.work[k].node \in Waiting(t) /\ t.work[k].left \subseteq From(E, t.work[k].node)
    <3>1. CASE k \in 1 .. m
      BY <1>4, <1>6, <1>8, <3>1 DEF SearchInv, SearchTyped
    <3>2. CASE k = m + 1
      BY <1>6, <1>8, <3>2
    <3> QED BY <1>4, <1>6, <3>1, <3>2
  <2> QED BY <1>1, <2>1, <2>2, <2>3, <2>4, <2>5, <2>6 DEF SearchTyped
<1>11. Ordered(t)
  <2>1. ASSUME NEW i \in DOMAIN t.stack, NEW j \in DOMAIN t.stack, i < j
        PROVE  t.index[t.stack[i]] < t.index[t.stack[j]]
    <3>1. i \in 1 .. Len(s.stack)
      BY <1>7, <2>1
    <3>2. CASE j \in 1 .. Len(s.stack)
      BY <1>5, <1>7, <1>17, <2>1, <3>1, <3>2
    <3>3. CASE j = Len(s.stack) + 1
      BY <1>3, <1>5, <1>7, <3>1, <3>3
    <3> QED BY <1>7, <3>2, <3>3
  <2>2. ASSUME NEW i \in DOMAIN t.work, NEW j \in DOMAIN t.work, i < j
        PROVE  t.index[t.work[i].node] < t.index[t.work[j].node]
    <3>1. i \in 1 .. m
      BY <1>4, <1>6, <2>2
    <3>2. CASE j \in 1 .. m
      <4>1. t.work[i] = s.work[i] /\ t.work[j] = s.work[j]
        BY <1>6, <3>1, <3>2
      <4>2. s.index[s.work[i].node] < s.index[s.work[j].node]
        BY <1>17, <2>2, <3>1, <3>2
      <4> QED BY <1>5, <1>9, <3>1, <3>2, <4>1, <4>2
    <3>3. CASE j = m + 1
      <4>1. t.work[i].node = s.work[i].node /\ t.work[j].node = o
        BY <1>6, <3>1, <3>3
      <4>2. t.index[s.work[i].node] = s.index[s.work[i].node] /\ s.index[s.work[i].node] < n
        BY <1>3, <1>5, <1>9, <3>1
      <4> QED BY <1>5, <4>1, <4>2
    <3> QED BY <1>4, <1>6, <3>2, <3>3
  <2> QED BY <2>1, <2>2 DEF Ordered
<1>12. NoneMissed(E, t, {})
  <2>1. ASSUME NEW x \in Visited(t), NEW y \in From(E, x), y \notin Visited(t)
        PROVE  \E k \in DOMAIN t.work : t.work[k].node = x /\ y \in t.work[k].left
    <3>1. CASE x = o
      BY <1>6, <2>1, <3>1
    <3>2. CASE x # o
      <4>1. x \in Visited(s) /\ y \notin Visited(s) \cup {o}
        BY <1>5, <2>1, <3>2
      <4>2. PICK k \in DOMAIN s.work : s.work[k].node = x /\ y \in s.work[k].left
        BY <4>1 DEF SearchInv, NoneMissed
      <4> QED BY <1>4, <1>6, <4>2
    <3> QED BY <3>1, <3>2
  <2> QED BY <1>8, <2>1 DEF SearchInv, NoneMissed
<1>13. Linked(E, t)
  <2>1. \A x : Leads(E, x, x)
    BY DEF Leads
  <2>2. ASSUME NEW k \in 1 .. m PROVE Leads(E, s.work[k].node, o)
    <3>1. s.work # <<>> /\ m \in DOMAIN s.work
      BY <1>4
    <3>2. o \in From(E, s.work[m].node)
      BY <3>1
    <3>3. s.index[s.work[k].node] <= s.index[s.work[m].node]
      <4>1. CASE k = m
        BY <1>2, <1>9, <4>1
      <4>2. CASE k < m
        <5>1. s.index[s.work[k].node] < s.index[s.work[m].node]
          BY <1>4, <1>17, <3>1, <4>2
        <5> QED BY <1>2, <1>4, <1>9, <3>1, <5>1
      <4> QED BY <1>4, <4>1, <4>2
    <3>4. Leads(E, s.work[k].node, s.work[m].node)
      BY <1>4, <1>9, <3>1, <3>3 DEF SearchInv, Linked
    <3>5. Leads(E, s.work[m].node, o)
      BY <3>2, LeadsOn DEF Leads
    <3> QED BY <3>4, <3>5, LeadsOn
  <2>3. ASSUME NEW k \in DOMAIN t.work, NEW y \in Waiting(t),
               t.index[t.work[k].node] <= t.index[y]
        PROVE  Leads(E, t.work[k].node, y)
    <3>1. CASE k = m + 1
      <4>1. ASSUME NEW x \in Visited(s) PROVE ~(n <= s.index[x])
        BY <1>2, <1>3
      <4>2. y = o
        BY <1>2, <1>5, <1>6, <1>8, <2>3, <3>1, <4>1
      <4> QED BY <1>6, <2>1, <3>1, <4>2
    <3>2. CASE k \in 1 .. m /\ y = o
      BY <1>6, <2>2, <3>2
    <3>3. CASE k \in 1 .. m /\ y \in Waiting(s)
      BY <1>2, <1>4, <1>5, <1>6, <1>9, <2>3, <3>3 DEF SearchInv, Linked
    <3> QED BY <1>4, <1>6, <1>8, <3>1, <3>2, <3>3
  <2>4. ASSUME NEW y \in Waiting(t)
        PROVE  \E k \in DOMAIN t.work :
                 t.index[t.work[k].node] <= t.index[y] /\ Leads(E, y, t.work[k].node)
    <3>1. CASE y = o
      BY <1>3, <1>5, <1>6, <2>1, <3>1
    <3>2. CASE y \in Waiting(s)
      <4>1. PICK k \in DOMAIN s.work :
              s.index[s.work[k].node] <= s.index[y] /\ Leads(E, y, s.work[k].node)
        BY <3>2 DEF SearchInv, Linked
      <4>2. k \in DOMAIN t.work /\ t.work[k] = s.work[k]
        BY <1>4, <1>6
      <4> QED BY <1>2, <1>4, <1>5, <1>9, <3>2, <4>1, <4>2
    <3> QED BY <1>8, <3>1, <3>2
  <2> QED BY <2>3, <2>4 DEF Linked
<1>14. LowIsReal(E, t)
  <2>1. ASSUME NEW x \in Waiting(t)
        PROVE  /\ t.low[x] <= t.index[x]
               /\ \E z \in Waiting(t) : t.index[z] = t.low[x] /\ Leads(E, x, z)
    <3>1. CASE x = o
      BY <1>3, <1>5, <1>8, <3>1 DEF Leads
    <3>2. CASE x \in Waiting(s)
      <4>1. PICK z \in Waiting(s) : s.index[z] = s.low[x] /\ Leads(E, x, z)
        BY <3>2 DEF SearchInv, LowIsReal
      <4>2. s.low[x] <= s.index[x]
        BY <3>2 DEF SearchInv, LowIsReal
      <4> QED BY <1>2, <1>5, <1>8, <3>2, <4>1, <4>2
    <3> QED BY <1>8, <3>1, <3>2
  <2> QED BY <2>1 DEF LowIsReal
<1>15. LowIsLeast(E, t, {})
  <2>1. ASSUME NEW k \in DOMAIN t.work, NEW y \in Waiting(t), NEW w \in Waiting(t),
               Charge(t, k, y), w \in From(E, y), y = t.work[k].node => w \notin t.work[k].left
        PROVE  t.low[t.work[k].node] <= t.index[w]
    <3>1. k \in 1 .. m /\ y # o /\ y \in Waiting(s)
      <4>1. y # o
        <5>1. ASSUME y = o, k \in 1 .. m PROVE FALSE
          <6>1. t.index[y] < t.index[t.work[m + 1].node]
            BY <1>4, <1>6, <2>1, <5>1 DEF Charge
          <6> QED BY <1>3, <1>5, <1>6, <5>1, <6>1
        <5>2. ASSUME y = o, k = m + 1 PROVE FALSE
          BY <1>6, <2>1, <5>2
        <5> QED BY <1>4, <1>6, <5>1, <5>2
      <4>2. k # m + 1
        <5>1. s.index[y] \in Nat /\ s.index[y] < n /\ t.index[y] = s.index[y]
          BY <1>2, <1>3, <1>5, <1>8, <4>1
        <5>2. k = m + 1 => n <= t.index[y]
          BY <1>5, <1>6, <2>1 DEF Charge
        <5> QED BY <1>3, <5>1, <5>2
      <4> QED BY <1>4, <1>6, <1>8, <4>1, <4>2
    <3>2. t.work[k] = s.work[k] /\ k \in DOMAIN s.work
      BY <1>4, <1>6, <3>1
    <3>3. s.low[s.work[k].node] <= s.index[s.work[k].node]
      BY <1>9, <3>1 DEF SearchInv, LowIsReal
    <3>4. CASE w = o
      BY <1>2, <1>3, <1>5, <1>9, <3>1, <3>2, <3>3, <3>4
    <3>5. CASE w # o
      <4>1. w \in Waiting(s)
        BY <1>8, <3>5
      <4>2. Charge(s, k, y)
        <5>1. s.index[s.work[k].node] <= s.index[y]
          BY <1>2, <1>5, <1>9, <2>1, <3>1, <3>2 DEF Charge
        <5>2. ASSUME NEW l \in DOMAIN s.work, k < l PROVE s.index[y] < s.index[s.work[l].node]
          <6>1. l \in DOMAIN t.work /\ t.work[l] = s.work[l]
            BY <1>4, <1>6
          <6> QED BY <1>2, <1>4, <1>5, <1>9, <2>1, <3>1, <5>2, <6>1 DEF Charge
        <5> QED BY <5>1, <5>2 DEF Charge
      <4>3. s.low[s.work[k].node] <= s.index[w]
        BY <2>1, <3>1, <3>2, <3>5, <4>1, <4>2 DEF SearchInv, LowIsLeast
      <4> QED BY <1>2, <1>5, <1>9, <3>1, <3>2, <4>1, <4>3
    <3> QED BY <3>4, <3>5
  <2> QED BY <2>1 DEF LowIsLeast
<1>16. t.found = {Class(E, x) : x \in Settled(t)}
  BY <1>1, <1>8 DEF SearchInv
<1> QED BY <1>10, <1>11, <1>12, <1>13, <1>14, <1>15, <1>16 DEF SearchInv, t

\* An edge back to a node that waits.
LEMMA LoweredKeeps ==
  ASSUME NEW E \in Pairs, NEW s, NEW c \in Waiting(s), SearchInv(E, s, {c}), s.work # <<>>,
         NEW o, o = s.work[Len(s.work)].node, c \in From(E, o)
  PROVE  SearchInv(E, [s EXCEPT !.low[o] = Least(@, s.index[c])], {})
<1> DEFINE t == [s EXCEPT !.low[o] = Least(@, s.index[c])]
           m == Len(s.work)
<1>1. m \in DOMAIN s.work /\ o \in Waiting(s) /\ o \in Visited(s) /\ c \in Visited(s)
  BY TopIs, WaitingIs
<1>2. /\ Waiting(s) \subseteq Visited(s) /\ Visited(s) \subseteq Ends(E)
      /\ \A x \in Visited(s) : s.index[x] \in Nat /\ s.low[x] \in Nat
  BY WaitingIs
<1>3. /\ DOMAIN t = SearchFields /\ t.roots = s.roots /\ t.index = s.index /\ t.stack = s.stack
      /\ t.work = s.work /\ t.found = s.found
      /\ t.low = [s.low EXCEPT ![o] = Least(@, s.index[c])]
  BY DEF SearchInv, SearchTyped, SearchFields
<1> HIDE DEF t
<1>4. /\ t.low \in [Visited(s) -> Nat] /\ t.low[o] \in {s.low[o], s.index[c]}
      /\ t.low[o] <= s.low[o] /\ t.low[o] <= s.index[c]
      /\ \A x \in Visited(s) : x # o => t.low[x] = s.low[x]
  <2>1. s.low \in [Visited(s) -> Nat]
    BY DEF SearchInv, SearchTyped
  <2>2. t.low[o] = Least(s.low[o], s.index[c]) /\ \A x \in Visited(s) : x # o => t.low[x] = s.low[x]
    BY <1>1, <1>3, <2>1
  <2>3. s.low[o] \in Nat /\ s.index[c] \in Nat
    BY <1>1, <1>2
  <2>4. Least(s.low[o], s.index[c]) \in Nat
    BY <2>3 DEF Least
  <2> QED BY <1>1, <1>3, <2>1, <2>2, <2>3, <2>4 DEF Least
<1>11. ASSUME NEW x \in Visited(s) PROVE t.low[x] \in Nat /\ t.low[x] <= s.low[x]
  <2>1. CASE x = o
    BY <1>4, <2>1
  <2>2. CASE x # o
    <3>1. t.low[x] = s.low[x] /\ s.low[x] \in Nat
      BY <1>2, <1>4, <2>2
    <3> QED BY <3>1
  <2> QED BY <2>1, <2>2
<1>5. Visited(t) = Visited(s) /\ Waiting(t) = Waiting(s) /\ Settled(t) = Settled(s)
  BY <1>3 DEF Visited, Waiting, Settled
<1>6. SearchTyped(E, t, {})
  BY <1>1, <1>3, <1>4, <1>5 DEF SearchInv, SearchTyped
<1>7. Ordered(t) /\ NoneMissed(E, t, {}) /\ Linked(E, t)
  BY <1>1, <1>3, <1>5 DEF SearchInv, Ordered, NoneMissed, Linked
<1>8. LowIsReal(E, t)
  <2>1. ASSUME NEW x \in Waiting(s)
        PROVE  t.low[x] <= s.index[x] /\ \E z \in Waiting(s) : s.index[z] = t.low[x] /\ Leads(E, x, z)
    <3>1. PICK z \in Waiting(s) : s.index[z] = s.low[x] /\ Leads(E, x, z)
      BY DEF SearchInv, LowIsReal
    <3>2. s.low[x] <= s.index[x]
      BY DEF SearchInv, LowIsReal
    <3>5. t.low[x] \in Nat /\ s.low[x] \in Nat /\ s.index[x] \in Nat /\ t.low[x] <= s.low[x]
      BY <1>1, <1>2, <1>4
    <3>3. t.low[x] <= s.index[x]
      BY <3>2, <3>5
    <3>4. Leads(E, o, c)
      BY LeadsOn DEF Leads
    <3> QED BY <1>2, <1>4, <3>1, <3>3, <3>4
  <2> QED BY <1>3, <1>5, <2>1 DEF LowIsReal
<1>9. LowIsLeast(E, t, {})
  <2>1. ASSUME NEW k \in DOMAIN s.work, NEW y \in Waiting(s), NEW w \in Waiting(s),
               Charge(s, k, y), w \in From(E, y), y = s.work[k].node => w \notin s.work[k].left
        PROVE  t.low[s.work[k].node] <= s.index[w]
    <3>1. s.work[k].node \in Waiting(s)
      BY DEF SearchInv, SearchTyped
    <3>2. CASE k = m /\ y = o /\ w = c
      BY <1>4, <3>2
    <3>3. CASE ~(k = m /\ y = o /\ w = c)
      <4>1. s.low[s.work[k].node] <= s.index[w]
        BY <2>1, <3>3 DEF SearchInv, LowIsLeast
      <4>3. s.work[k].node \in Visited(s) /\ w \in Visited(s)
        BY <1>2, <3>1
      <4>2. /\ t.low[s.work[k].node] \in Nat /\ s.low[s.work[k].node] \in Nat /\ s.index[w] \in Nat
            /\ t.low[s.work[k].node] <= s.low[s.work[k].node]
        BY <1>1, <1>2, <1>11, <4>3
      <4> QED BY <4>1, <4>2
    <3> QED BY <3>2, <3>3
  <2>2. \A k, y : Charge(t, k, y) <=> Charge(s, k, y)
    BY <1>3 DEF Charge
  <2> QED BY <1>3, <1>5, <2>1, <2>2 DEF LowIsLeast
<1>10. t.found = {Class(E, x) : x \in Settled(t)}
  BY <1>3, <1>5 DEF SearchInv
<1> QED BY <1>6, <1>7, <1>8, <1>9, <1>10 DEF SearchInv, t

\* What is left when the node on top is finished, by field.
LEMMA FinishedIs ==
  ASSUME NEW E, NEW s, SearchInv(E, s, {}), s.work # <<>>, NEW o, o = s.work[Len(s.work)].node
  PROVE  LET t == Finished(s, o) m == Len(s.work) p == s.work[m - 1].node IN
         /\ DOMAIN t = SearchFields /\ t.roots = s.roots /\ t.index = s.index
         /\ t.work \in Seq(Range(t.work)) /\ Len(t.work) = m - 1 /\ DOMAIN t.work = 1 .. (m - 1)
         /\ \A k \in 1 .. (m - 1) : k \in DOMAIN s.work /\ t.work[k] = s.work[k]
         /\ t.low \in [Visited(s) -> Nat]
         /\ \A x \in Visited(s) : /\ t.low[x] <= s.low[x]
                                  /\ t.low[x] # s.low[x] => m > 1 /\ x = p /\ t.low[x] = s.low[o]
         /\ m > 1 => t.low[p] <= s.low[o]
         /\ IF s.low[o] = s.index[o]
            THEN /\ t.stack = SubSeq(s.stack, 1, Place(s, o) - 1)
                 /\ t.found = s.found \cup {Above(s, o)}
            ELSE t.stack = s.stack /\ t.found = s.found
<1> DEFINE m == Len(s.work)
           p == s.work[m - 1].node
           popped == [s EXCEPT !.work = Front(@)]
           up == IF popped.work = <<>> THEN popped
                 ELSE [popped EXCEPT !.low[Last(popped.work).node] = Least(@, popped.low[o])]
           t == Finished(s, o)
<1>1. /\ m \in Nat /\ m \in DOMAIN s.work /\ DOMAIN s.work = 1 .. m /\ s.work \in Seq(Range(s.work))
      /\ o \in Waiting(s) /\ \A k \in DOMAIN s.work : s.work[k].node \in Visited(s)
  BY TopIs, WaitingIs DEF SearchInv, SearchTyped
<1>2. /\ DOMAIN popped = SearchFields /\ popped.roots = s.roots /\ popped.index = s.index
      /\ popped.low = s.low /\ popped.stack = s.stack /\ popped.found = s.found
      /\ popped.work = SubSeq(s.work, 1, m - 1)
  BY DEF SearchInv, SearchTyped, SearchFields, Front
<1>3. /\ popped.work \in Seq(Range(s.work)) /\ Len(popped.work) = m - 1
      /\ DOMAIN popped.work = 1 .. (m - 1)
      /\ \A k \in 1 .. (m - 1) : k \in DOMAIN s.work /\ popped.work[k] = s.work[k]
  BY <1>1, <1>2
<1>4. popped.work \in Seq(Range(popped.work))
  <2>1. popped.work = [k \in 1 .. (m - 1) |-> popped.work[k]] /\ m - 1 \in Nat
    BY <1>1, <1>3
  <2>2. popped.work \in [1 .. (m - 1) -> Range(popped.work)]
    BY <1>3, <2>1 DEF Range
  <2> QED BY <2>1, <2>2
<1> HIDE DEF popped
<1>5. /\ popped.work = <<>> <=> m = 1
      /\ m > 1 => Last(popped.work).node = p /\ p \in Visited(s) /\ m - 1 \in DOMAIN s.work /\ p # o
  <2>1. m > 1 => Last(popped.work).node = p /\ m - 1 \in DOMAIN s.work
    BY <1>1, <1>3 DEF Last
  <2>2. m > 1 => p \in Visited(s)
    BY <1>1, <2>1
  <2>3. m > 1 => s.index[p] < s.index[o]
    <3>1. \A i, j \in DOMAIN s.work : i < j => s.index[s.work[i].node] < s.index[s.work[j].node]
      BY DEF SearchInv, Ordered
    <3> QED BY <1>1, <2>1, <3>1
  <2>4. p = o => s.index[p] = s.index[o]
    OBVIOUS
  <2>5. o \in Visited(s) /\ s.index[o] \in Nat
    BY <1>1, WaitingIs
  <2>6. popped.work = <<>> <=> m = 1
    <3>1. popped.work = <<>> => Len(popped.work) = 0
      OBVIOUS
    <3>2. Len(popped.work) = 0 => popped.work = <<>>
      BY <1>3
    <3> HIDE DEF m
    <3> QED BY <1>1, <1>3, <3>1, <3>2
  <2> HIDE DEF m, p
  <2> QED BY <2>1, <2>2, <2>3, <2>4, <2>5, <2>6
<1>6. s.low \in [Visited(s) -> Nat] /\ s.low[o] \in Nat
  BY <1>1, WaitingIs DEF SearchInv, SearchTyped
<1>7. /\ DOMAIN up = SearchFields /\ up.roots = s.roots /\ up.index = s.index
      /\ up.stack = s.stack /\ up.found = s.found /\ up.work = popped.work
      /\ up.low = IF m = 1 THEN s.low ELSE [s.low EXCEPT ![p] = Least(@, s.low[o])]
  <2>1. CASE m = 1
    BY <1>2, <1>5, <2>1
  <2>2. CASE m # 1
    <3>1. popped.work # <<>> /\ Last(popped.work).node = p
      <4> HIDE DEF m, p
      <4> QED BY <1>1, <1>5, <2>2
    <3>2. up = [popped EXCEPT !.low[p] = Least(@, popped.low[o])]
      BY <3>1
    <3> HIDE DEF m, p, up
    <3> QED BY <1>2, <2>2, <3>2 DEF SearchFields
  <2> QED BY <2>1, <2>2
<1> HIDE DEF up, m, p
<1>8. /\ up.low \in [Visited(s) -> Nat]
      /\ \A x \in Visited(s) : /\ up.low[x] <= s.low[x]
                               /\ up.low[x] # s.low[x] => m > 1 /\ x = p /\ up.low[x] = s.low[o]
      /\ m > 1 => up.low[p] <= s.low[o]
      /\ up.low[o] = s.low[o]
  <2>1. CASE m = 1
    BY <1>6, <1>7, <2>1
  <2>2. CASE m # 1
    <3>1. m > 1 /\ p \in Visited(s) /\ p # o /\ s.low[p] \in Nat
      BY <1>1, <1>5, <1>6, <2>2
    <3>2. Least(s.low[p], s.low[o]) \in Nat
      BY <1>6, <3>1 DEF Least
    <3>3. /\ up.low \in [Visited(s) -> Nat] /\ up.low[p] = Least(s.low[p], s.low[o])
          /\ \A x \in Visited(s) : x # p => up.low[x] = s.low[x]
      BY <1>6, <1>7, <2>2, <3>1, <3>2
    <3>4. /\ up.low[p] <= s.low[p] /\ up.low[p] <= s.low[o]
          /\ up.low[p] = s.low[p] \/ up.low[p] = s.low[o]
      BY <1>6, <3>1, <3>3 DEF Least
    <3>5. o \in Visited(s)
      BY <1>1
    <3> QED BY <1>6, <3>1, <3>3, <3>4, <3>5
  <2> QED BY <2>1, <2>2
<1>9. t = IF up.low[o] # up.index[o] THEN up
          ELSE [up EXCEPT !.stack = SubSeq(@, 1, Place(s, o) - 1), !.found = @ \cup {Above(s, o)}]
  BY DEF Finished, up, popped
<1>10. /\ DOMAIN t = SearchFields /\ t.roots = up.roots /\ t.index = up.index /\ t.low = up.low
       /\ t.work = up.work
       /\ IF s.low[o] = s.index[o]
          THEN /\ t.stack = SubSeq(s.stack, 1, Place(s, o) - 1)
               /\ t.found = s.found \cup {Above(s, o)}
          ELSE t.stack = s.stack /\ t.found = s.found
  BY <1>7, <1>8, <1>9 DEF SearchFields
<1> HIDE DEF t
<1>11. /\ t.work \in Seq(Range(t.work)) /\ Len(t.work) = m - 1 /\ DOMAIN t.work = 1 .. (m - 1)
       /\ \A k \in 1 .. (m - 1) : k \in DOMAIN s.work /\ t.work[k] = s.work[k]
  BY <1>3, <1>4, <1>7, <1>10
<1>12. /\ t.low \in [Visited(s) -> Nat]
       /\ \A x \in Visited(s) : /\ t.low[x] <= s.low[x]
                                /\ t.low[x] # s.low[x] => m > 1 /\ x = p /\ t.low[x] = s.low[o]
       /\ m > 1 => t.low[p] <= s.low[o]
  BY <1>8, <1>10
<1>13. /\ DOMAIN t = SearchFields /\ t.roots = s.roots /\ t.index = s.index
       /\ IF s.low[o] = s.index[o]
          THEN /\ t.stack = SubSeq(s.stack, 1, Place(s, o) - 1)
               /\ t.found = s.found \cup {Above(s, o)}
          ELSE t.stack = s.stack /\ t.found = s.found
  BY <1>7, <1>10
<1> QED BY <1>11, <1>12, <1>13 DEF t, p, m

\* What both endings need: the node on top has the highest index of the open
\* ones, and everything that waits leads to one of those below it or to it.
LEMMA OnTop ==
  ASSUME NEW E \in Pairs, NEW s, SearchInv(E, s, {}), s.work # <<>>,
         NEW o, o = s.work[Len(s.work)].node
  PROVE  /\ o \in Waiting(s) /\ o \in Visited(s)
         /\ \A k \in DOMAIN s.work :
              /\ s.work[k].node \in Waiting(s) /\ s.work[k].node \in Visited(s)
              /\ s.index[s.work[k].node] <= s.index[o] /\ Leads(E, s.work[k].node, o)
              /\ k < Len(s.work) => s.index[s.work[k].node] < s.index[o]
         /\ \A x \in Waiting(s) : Leads(E, x, o)
<1> DEFINE m == Len(s.work)
<1>1. /\ m \in Nat /\ m \in DOMAIN s.work /\ DOMAIN s.work = 1 .. m
      /\ \A k \in DOMAIN s.work : s.work[k].node \in Waiting(s) /\ s.work[k].node \in Visited(s)
  BY TopIs, WaitingIs
<1>2. /\ Waiting(s) \subseteq Visited(s)
      /\ \A x \in Visited(s) : s.index[x] \in Nat /\ s.low[x] \in Nat
  BY WaitingIs
<1> HIDE DEF m
<1>3. ASSUME NEW k \in DOMAIN s.work
      PROVE  /\ s.index[s.work[k].node] <= s.index[o]
             /\ k < m => s.index[s.work[k].node] < s.index[o]
  <2>1. \A i, j \in DOMAIN s.work : i < j => s.index[s.work[i].node] < s.index[s.work[j].node]
    BY DEF SearchInv, Ordered
  <2>2. k < m => s.index[s.work[k].node] < s.index[o]
    BY <1>1, <2>1 DEF m
  <2>3. k = m => s.index[s.work[k].node] = s.index[o]
    BY DEF m
  <2>4. s.index[o] \in Nat /\ s.index[s.work[k].node] \in Nat
    BY <1>1, <1>2 DEF m
  <2> QED BY <1>1, <2>2, <2>3, <2>4
<1>4. o \in Waiting(s) /\ o \in Visited(s)
  BY <1>1 DEF m
<1>5. ASSUME NEW k \in DOMAIN s.work PROVE Leads(E, s.work[k].node, o)
  BY <1>3, <1>4 DEF SearchInv, Linked
<1>6. ASSUME NEW x \in Waiting(s) PROVE Leads(E, x, o)
  <2>1. PICK k \in DOMAIN s.work : Leads(E, x, s.work[k].node)
    BY DEF SearchInv, Linked
  <2> QED BY <1>5, <2>1, LeadsOn
<1> QED BY <1>1, <1>3, <1>4, <1>5, <1>6 DEF m

\* A finished node that leads below itself waits on.
LEMMA FinishedKeeps ==
  ASSUME NEW E \in Pairs, NEW s, SearchInv(E, s, {}), s.work # <<>>,
         NEW o, o = s.work[Len(s.work)].node, s.work[Len(s.work)].left = {},
         s.low[o] # s.index[o]
  PROVE  SearchInv(E, Finished(s, o), {})
<1> DEFINE t == Finished(s, o)
           m == Len(s.work)
           p == s.work[m - 1].node
<1>1. /\ m \in Nat /\ m \in DOMAIN s.work /\ DOMAIN s.work = 1 .. m
  BY TopIs
<1>2. /\ Waiting(s) \subseteq Visited(s) /\ Visited(s) \subseteq Ends(E)
      /\ \A x \in Visited(s) : s.index[x] \in Nat /\ s.low[x] \in Nat
  BY WaitingIs
<1>3. /\ DOMAIN t = SearchFields /\ t.roots = s.roots /\ t.index = s.index
      /\ t.work \in Seq(Range(t.work)) /\ Len(t.work) = m - 1 /\ DOMAIN t.work = 1 .. (m - 1)
      /\ \A k \in 1 .. (m - 1) : k \in DOMAIN s.work /\ t.work[k] = s.work[k]
      /\ t.low \in [Visited(s) -> Nat]
      /\ \A x \in Visited(s) : /\ t.low[x] <= s.low[x]
                               /\ t.low[x] # s.low[x] => m > 1 /\ x = p /\ t.low[x] = s.low[o]
      /\ m > 1 => t.low[p] <= s.low[o]
      /\ t.stack = s.stack /\ t.found = s.found
  BY FinishedIs
<1>4. /\ o \in Waiting(s) /\ o \in Visited(s)
      /\ \A k \in DOMAIN s.work :
           /\ s.work[k].node \in Waiting(s) /\ s.work[k].node \in Visited(s)
           /\ s.index[s.work[k].node] <= s.index[o] /\ Leads(E, s.work[k].node, o)
           /\ k < m => s.index[s.work[k].node] < s.index[o]
  BY OnTop
<1>5. s.work[m].node = o /\ s.work[m].left = {}
  OBVIOUS
<1> HIDE DEF t, m
<1>6. Visited(t) = Visited(s) /\ Waiting(t) = Waiting(s) /\ Settled(t) = Settled(s)
  BY <1>3 DEF Visited, Waiting, Settled
<1>7. SearchTyped(E, t, {})
  BY <1>3, <1>6 DEF SearchInv, SearchTyped
<1>8. Ordered(t)
  BY <1>3 DEF SearchInv, Ordered
<1>9. NoneMissed(E, t, {})
  <2>1. ASSUME NEW x \in Visited(s), NEW y \in From(E, x), y \notin Visited(s)
        PROVE  \E k \in DOMAIN t.work : t.work[k].node = x /\ y \in t.work[k].left
    <3>1. PICK k \in DOMAIN s.work : s.work[k].node = x /\ y \in s.work[k].left
      BY <2>1 DEF SearchInv, NoneMissed
    <3>2. k # m
      BY <1>5, <3>1
    <3>3. k \in 1 .. (m - 1)
      BY <1>1, <3>2
    <3> QED BY <1>3, <3>1, <3>3
  <2> QED BY <1>6, <2>1 DEF SearchInv, NoneMissed
\* o leads to what its low index is the index of, and that to an open node.
<1>10. \E k \in 1 .. (m - 1) : Leads(E, o, s.work[k].node)
  <2>1. PICK z \in Waiting(s) : s.index[z] = s.low[o] /\ Leads(E, o, z)
    BY <1>4 DEF SearchInv, LowIsReal
  <2>2. s.index[z] < s.index[o]
    <3>1. s.low[o] <= s.index[o]
      BY <1>4 DEF SearchInv, LowIsReal
    <3> QED BY <1>2, <1>4, <2>1, <3>1
  <2>3. PICK k \in DOMAIN s.work : s.index[s.work[k].node] <= s.index[z] /\ Leads(E, z, s.work[k].node)
    BY DEF SearchInv, Linked
  <2>4. k # m
    <3>1. s.index[z] \in Nat /\ s.index[o] \in Nat
      BY <1>2, <1>4
    <3> QED BY <1>5, <2>2, <2>3, <3>1
  <2>5. k \in 1 .. (m - 1) /\ Leads(E, o, s.work[k].node)
    BY <1>1, <2>1, <2>3, <2>4, LeadsOn
  <2> QED BY <2>5
<1>11. Linked(E, t)
  <2>1. ASSUME NEW k \in 1 .. (m - 1), NEW y \in Waiting(s), s.index[s.work[k].node] <= s.index[y]
        PROVE  Leads(E, s.work[k].node, y)
    BY <1>3, <2>1 DEF SearchInv, Linked
  <2>2. ASSUME NEW y \in Waiting(s)
        PROVE  \E k \in 1 .. (m - 1) :
                 s.index[s.work[k].node] <= s.index[y] /\ Leads(E, y, s.work[k].node)
    <3>1. PICK k \in DOMAIN s.work : s.index[s.work[k].node] <= s.index[y] /\ Leads(E, y, s.work[k].node)
      BY DEF SearchInv, Linked
    <3>2. CASE k # m
      <4>1. k \in 1 .. (m - 1)
        BY <1>1, <3>2
      <4> QED BY <3>1, <4>1
    <3>3. CASE k = m
      <4>1. PICK l \in 1 .. (m - 1) : Leads(E, o, s.work[l].node)
        BY <1>10
      <4>2. Leads(E, y, s.work[l].node)
        BY <1>5, <3>1, <3>3, <4>1, LeadsOn
      <4>3. l \in DOMAIN s.work /\ s.index[s.work[l].node] <= s.index[o] /\ s.index[o] <= s.index[y]
        BY <1>3, <1>4, <1>5, <3>1, <3>3
      <4>4. s.index[s.work[l].node] \in Nat /\ s.index[o] \in Nat /\ s.index[y] \in Nat
        BY <1>2, <1>4, <4>3
      <4>5. s.index[s.work[l].node] <= s.index[y]
        BY <4>3, <4>4
      <4> QED BY <4>2, <4>5
    <3> QED BY <3>2, <3>3
  <2> QED BY <1>3, <1>6, <2>1, <2>2 DEF Linked
<1>12. LowIsReal(E, t)
  <2>1. ASSUME NEW x \in Waiting(s)
        PROVE  /\ t.low[x] <= s.index[x]
               /\ \E z \in Waiting(s) : s.index[z] = t.low[x] /\ Leads(E, x, z)
    <3>1. t.low[x] \in Nat /\ s.low[x] \in Nat /\ s.index[x] \in Nat /\ t.low[x] <= s.low[x]
      BY <1>2, <1>3
    <3>2. s.low[x] <= s.index[x]
      BY DEF SearchInv, LowIsReal
    <3>3. t.low[x] <= s.index[x]
      BY <3>1, <3>2
    <3>4. CASE t.low[x] = s.low[x]
      BY <3>3, <3>4 DEF SearchInv, LowIsReal
    <3>5. CASE t.low[x] # s.low[x]
      <4>1. m > 1 /\ x = p /\ t.low[x] = s.low[o] /\ m - 1 \in DOMAIN s.work
        BY <1>1, <1>2, <1>3, <3>5
      <4>2. Leads(E, x, o)
        BY <1>4, <4>1
      <4>3. PICK z \in Waiting(s) : s.index[z] = s.low[o] /\ Leads(E, o, z)
        BY <1>4 DEF SearchInv, LowIsReal
      <4> QED BY <3>3, <4>1, <4>2, <4>3, LeadsOn
    <3> QED BY <3>4, <3>5
  <2> QED BY <1>3, <1>6, <2>1 DEF LowIsReal
<1>13. LowIsLeast(E, t, {})
  <2>1. ASSUME NEW k \in 1 .. (m - 1), NEW y \in Waiting(s), NEW w \in Waiting(s),
               Charge(t, k, y), w \in From(E, y), y = s.work[k].node => w \notin s.work[k].left
        PROVE  t.low[s.work[k].node] <= s.index[w]
    <3>1. k \in DOMAIN s.work /\ k < m /\ s.work[k].node \in Visited(s)
      BY <1>1, <1>3, <1>4
    <3>2. /\ s.index[y] \in Nat /\ s.index[w] \in Nat /\ s.index[o] \in Nat
          /\ t.low[s.work[k].node] \in Nat /\ s.low[s.work[k].node] \in Nat /\ s.low[o] \in Nat
          /\ t.low[s.work[k].node] <= s.low[s.work[k].node]
      BY <1>2, <1>3, <1>4, <3>1
    <3>3. CASE s.index[y] < s.index[o]
      <4>1. Charge(s, k, y)
        <5>1. ASSUME NEW l \in DOMAIN s.work, k < l PROVE s.index[y] < s.index[s.work[l].node]
          <6>1. CASE l = m
            BY <1>5, <3>3, <6>1
          <6>2. CASE l # m
            <7>1. l \in 1 .. (m - 1)
              BY <1>1, <6>2
            <7> QED BY <1>3, <2>1, <5>1, <7>1 DEF Charge
          <6> QED BY <6>1, <6>2
        <5> QED BY <1>3, <2>1, <5>1 DEF Charge
      <4>2. s.low[s.work[k].node] <= s.index[w]
        BY <2>1, <3>1, <4>1 DEF SearchInv, LowIsLeast
      <4> QED BY <3>2, <4>2
    <3>4. CASE s.index[o] <= s.index[y]
      <4>1. k = m - 1
        <5>1. ASSUME k # m - 1 PROVE FALSE
          <6>1. m - 1 \in 1 .. (m - 1) /\ k < m - 1 /\ m - 1 \in DOMAIN t.work
            BY <1>1, <1>3, <5>1
          <6>2. s.index[y] < s.index[s.work[m - 1].node]
            BY <1>3, <2>1, <6>1 DEF Charge
          <6>3. m - 1 \in DOMAIN s.work /\ s.index[s.work[m - 1].node] < s.index[o]
            BY <1>1, <1>3, <1>4, <6>1
          <6>4. s.index[s.work[m - 1].node] \in Nat
            BY <1>2, <1>4, <6>3
          <6> QED BY <3>2, <3>4, <6>2, <6>3, <6>4
        <5> QED BY <5>1
      <4>2. Charge(s, m, y)
        BY <1>1, <1>5, <3>4 DEF Charge
      <4>3. s.low[o] <= s.index[w]
        BY <1>1, <1>5, <2>1, <4>2 DEF SearchInv, LowIsLeast
      <4>4. t.low[s.work[k].node] <= s.low[o]
        BY <1>1, <1>3, <3>1, <4>1
      <4> QED BY <3>2, <4>3, <4>4
    <3> QED BY <3>2, <3>3, <3>4
  <2> QED BY <1>3, <1>6, <2>1 DEF LowIsLeast
<1>14. t.found = {Class(E, x) : x \in Settled(t)}
  BY <1>3, <1>6 DEF SearchInv
<1> QED BY <1>7, <1>8, <1>9, <1>11, <1>12, <1>13, <1>14 DEF SearchInv, t

\* What a finished node that leads nowhere below itself has above it is its
\* component.
LEMMA ComponentIs ==
  ASSUME NEW E \in Pairs, NEW s, SearchInv(E, s, {}), s.work # <<>>,
         NEW o, o = s.work[Len(s.work)].node, s.work[Len(s.work)].left = {},
         s.low[o] = s.index[o]
  PROVE  LET A == {x \in Waiting(s) : s.index[o] <= s.index[x]} IN
         /\ A = Class(E, o)
         /\ \A x \in A : From(E, x) \subseteq A \cup Settled(s)
<1> DEFINE A == {x \in Waiting(s) : s.index[o] <= s.index[x]}
           m == Len(s.work)
<1>1. /\ m \in Nat /\ m \in DOMAIN s.work /\ DOMAIN s.work = 1 .. m
  BY TopIs
<1>2. /\ Waiting(s) \subseteq Visited(s) /\ Visited(s) \subseteq Ends(E)
      /\ \A x \in Visited(s) : s.index[x] \in Nat /\ s.low[x] \in Nat
  BY WaitingIs
<1>3. /\ o \in Waiting(s) /\ o \in Visited(s)
      /\ \A k \in DOMAIN s.work :
           /\ s.work[k].node \in Waiting(s) /\ s.work[k].node \in Visited(s)
           /\ k < m => s.index[s.work[k].node] < s.index[o]
      /\ \A x \in Waiting(s) : Leads(E, x, o)
  BY OnTop
<1>4. s.work[m].node = o /\ s.work[m].left = {}
  OBVIOUS
<1> HIDE DEF m
<1>5. ASSUME NEW x \in A, NEW w \in From(E, x) PROVE w \in A \cup Settled(s)
  <2>1. w \in Visited(s)
    <3>1. ASSUME w \notin Visited(s) PROVE FALSE
      <4>1. PICK k \in DOMAIN s.work : s.work[k].node = x /\ w \in s.work[k].left
        BY <1>2, <3>1 DEF SearchInv, NoneMissed
      <4>2. k < m
        BY <1>1, <1>4, <4>1
      <4>3. s.index[x] < s.index[o]
        BY <1>3, <4>1, <4>2
      <4>4. s.index[x] \in Nat /\ s.index[o] \in Nat
        BY <1>2, <1>3
      <4> QED BY <4>3, <4>4
    <3> QED BY <3>1
  <2>2. CASE w \in Waiting(s)
    <3>1. Charge(s, m, x)
      BY <1>1, <1>4 DEF Charge
    <3>2. s.low[o] <= s.index[w]
      BY <1>1, <1>4, <2>2, <3>1 DEF SearchInv, LowIsLeast
    <3> QED BY <2>2, <3>2
  <2> QED BY <2>1, <2>2 DEF Settled
<1>6. ASSUME NEW x \in A PROVE x \in Class(E, o)
  <2>1. Leads(E, o, x)
    BY <1>1, <1>4 DEF SearchInv, Linked
  <2> QED BY <1>3, <2>1, ClassIs
<1>7. Settled(s) \in SUBSET ObligationSet /\ A \cup Settled(s) \in SUBSET ObligationSet
  BY <1>2, EndsAre DEF Settled
<1>8. \A x \in Settled(s) : From(E, x) \subseteq Settled(s)
  BY DEF SearchInv, NoneMissed
<1>9. ASSUME NEW y \in Class(E, o) PROVE y \in A
  <2>1. Leads(E, o, y) /\ Leads(E, y, o)
    BY ClassIs
  <2>2. o \in A \cup Settled(s)
    BY <1>2, <1>3
  <2>3. \A x \in A \cup Settled(s) : From(E, x) \subseteq A \cup Settled(s)
    BY <1>5, <1>8
  <2> HIDE DEF A
  <2>4. y \in A \cup Settled(s)
    BY <1>7, <2>1, <2>2, <2>3, LeadsWithin
  <2>5. y \in Settled(s) => o \in Settled(s)
    BY <1>7, <1>8, <2>1, LeadsWithin
  <2> QED BY <1>3, <2>4, <2>5 DEF Settled
<1>10. A = Class(E, o)
  BY <1>6, <1>9
<1> HIDE DEF A
<1> QED BY <1>5, <1>10 DEF A

\* What is taken from the stack, and what stays on it.
LEMMA PoppedIs ==
  ASSUME NEW E, NEW s, SearchInv(E, s, {}), NEW o \in Waiting(s)
  PROVE  LET short == SubSeq(s.stack, 1, Place(s, o) - 1) IN
         /\ Above(s, o) = {x \in Waiting(s) : s.index[o] <= s.index[x]}
         /\ Range(short) = {x \in Waiting(s) : s.index[x] < s.index[o]}
         /\ short \in Seq(Visited(s))
         /\ DOMAIN short \subseteq DOMAIN s.stack /\ \A k \in DOMAIN short : short[k] = s.stack[k]
<1> DEFINE i == Place(s, o)
           short == SubSeq(s.stack, 1, i - 1)
           n == Len(s.stack)
<1>1. s.stack \in Seq(Visited(s)) /\ n \in Nat /\ DOMAIN s.stack = 1 .. n
  BY DEF SearchInv, SearchTyped
<1>2. i \in 1 .. n /\ s.stack[i] = o
  <2>1. \E k \in DOMAIN s.stack : s.stack[k] = o
    BY DEF Waiting, Range
  <2> QED BY <1>1, <2>1 DEF Place
<1>3. \A j, k \in 1 .. n : j < k => s.index[s.stack[j]] < s.index[s.stack[k]]
  BY <1>1 DEF SearchInv, Ordered
<1>4. \A k \in 1 .. n : s.index[s.stack[k]] \in Nat
  BY <1>1, WaitingIs
<1> HIDE DEF i, n
<1>5. ASSUME NEW k \in 1 .. n
      PROVE  /\ k < i => s.index[s.stack[k]] < s.index[o]
             /\ i <= k => s.index[o] <= s.index[s.stack[k]]
  <2>1. k < i => s.index[s.stack[k]] < s.index[o]
    BY <1>2, <1>3
  <2>2. i < k => s.index[o] < s.index[s.stack[k]]
    BY <1>2, <1>3
  <2>3. i \in Nat /\ k \in Nat /\ s.index[o] \in Nat /\ s.index[s.stack[k]] \in Nat
    BY <1>1, <1>2, <1>4
  <2>4. i = k => s.index[o] = s.index[s.stack[k]]
    BY <1>2
  <2> QED BY <2>1, <2>2, <2>3, <2>4
<1>6. \A x : x \in Waiting(s) <=> \E k \in 1 .. n : s.stack[k] = x
  BY <1>1 DEF Waiting, Range
<1>7. Above(s, o) = {s.stack[k] : k \in i .. n}
  BY DEF Above, i, n
<1>8. ASSUME NEW x PROVE x \in Above(s, o) <=> x \in Waiting(s) /\ s.index[o] <= s.index[x]
  <2>1. ASSUME NEW k \in i .. n, x = s.stack[k] PROVE x \in Waiting(s) /\ s.index[o] <= s.index[x]
    <3>1. k \in 1 .. n /\ i <= k
      BY <1>1, <1>2
    <3> QED BY <1>5, <1>6, <2>1, <3>1
  <2>2. ASSUME NEW k \in 1 .. n, x = s.stack[k], s.index[o] <= s.index[x] PROVE k \in i .. n
    <3>1. s.index[x] \in Nat /\ s.index[o] \in Nat
      BY <1>2, <1>4, <2>2
    <3>2. ~(k < i)
      BY <1>5, <2>2, <3>1
    <3> QED BY <1>1, <1>2, <3>2
  <2> QED BY <1>6, <1>7, <2>1, <2>2
<1>9. /\ short \in Seq(Visited(s)) /\ DOMAIN short = 1 .. (i - 1) /\ 1 .. (i - 1) \subseteq 1 .. n
      /\ \A k \in 1 .. (i - 1) : short[k] = s.stack[k]
  BY <1>1, <1>2 DEF n
<1> HIDE DEF short
<1>10. \A x : x \in Range(short) <=> \E k \in 1 .. (i - 1) : s.stack[k] = x
  BY <1>9 DEF Range
<1>11. ASSUME NEW x PROVE x \in Range(short) <=> x \in Waiting(s) /\ s.index[x] < s.index[o]
  <2>1. ASSUME NEW k \in 1 .. (i - 1), x = s.stack[k] PROVE x \in Waiting(s) /\ s.index[x] < s.index[o]
    <3>1. k \in 1 .. n /\ k < i
      BY <1>1, <1>2
    <3> QED BY <1>5, <1>6, <2>1, <3>1
  <2>2. ASSUME NEW k \in 1 .. n, x = s.stack[k], s.index[x] < s.index[o] PROVE k \in 1 .. (i - 1)
    <3>1. s.index[x] \in Nat /\ s.index[o] \in Nat
      BY <1>2, <1>4, <2>2
    <3>2. ~(i <= k)
      BY <1>5, <2>2, <3>1
    <3> QED BY <1>1, <1>2, <3>2
  <2> QED BY <1>6, <1>10, <2>1, <2>2
<1> QED BY <1>1, <1>8, <1>9, <1>11 DEF short, i, n

\* A finished node that leads nowhere below itself takes its component along.
LEMMA FoundKeeps ==
  ASSUME NEW E \in Pairs, NEW s, SearchInv(E, s, {}), s.work # <<>>,
         NEW o, o = s.work[Len(s.work)].node, s.work[Len(s.work)].left = {},
         s.low[o] = s.index[o]
  PROVE  SearchInv(E, Finished(s, o), {})
<1> DEFINE t == Finished(s, o)
           m == Len(s.work)
           p == s.work[m - 1].node
           A == {x \in Waiting(s) : s.index[o] <= s.index[x]}
<1>1. /\ m \in Nat /\ m \in DOMAIN s.work /\ DOMAIN s.work = 1 .. m
  BY TopIs
<1>2. /\ Waiting(s) \subseteq Visited(s) /\ Visited(s) \subseteq Ends(E)
      /\ \A x \in Visited(s) : s.index[x] \in Nat /\ s.low[x] \in Nat
  BY WaitingIs
<1>3. /\ o \in Waiting(s) /\ o \in Visited(s)
      /\ \A k \in DOMAIN s.work :
           /\ s.work[k].node \in Waiting(s) /\ s.work[k].node \in Visited(s)
           /\ k < m => s.index[s.work[k].node] < s.index[o]
  BY OnTop
<1>4. s.work[m].node = o /\ s.work[m].left = {}
  OBVIOUS
<1>5. /\ DOMAIN t = SearchFields /\ t.roots = s.roots /\ t.index = s.index
      /\ t.work \in Seq(Range(t.work)) /\ Len(t.work) = m - 1 /\ DOMAIN t.work = 1 .. (m - 1)
      /\ \A k \in 1 .. (m - 1) : k \in DOMAIN s.work /\ t.work[k] = s.work[k]
      /\ t.low \in [Visited(s) -> Nat]
      /\ \A x \in Visited(s) : t.low[x] # s.low[x] => m > 1 /\ x = p /\ t.low[x] = s.low[o]
      /\ \A x \in Visited(s) : t.low[x] <= s.low[x]
  BY FinishedIs
<1>6. /\ t.stack = SubSeq(s.stack, 1, Place(s, o) - 1)
      /\ t.found = s.found \cup {Above(s, o)}
  BY FinishedIs
<1>7. /\ Above(s, o) = A
      /\ Waiting(t) = {x \in Waiting(s) : s.index[x] < s.index[o]}
      /\ t.stack \in Seq(Visited(s))
      /\ DOMAIN t.stack \subseteq DOMAIN s.stack /\ \A k \in DOMAIN t.stack : t.stack[k] = s.stack[k]
  BY <1>3, <1>6, PoppedIs DEF Waiting
<1>8. A = Class(E, o) /\ \A x \in A : From(E, x) \subseteq A \cup Settled(s)
  BY ComponentIs
<1> HIDE DEF t, m, p
\* The parent's low index is below what is taken.
<1>9. \A x \in Visited(s) : t.low[x] = s.low[x]
  <2>1. ASSUME NEW x \in Visited(s), t.low[x] # s.low[x] PROVE FALSE
    <3>1. m > 1 /\ x = p /\ t.low[x] = s.low[o] /\ m - 1 \in DOMAIN s.work /\ m - 1 < m
      BY <1>1, <1>5, <2>1
    <3>2. s.index[x] < s.index[o] /\ x \in Waiting(s)
      BY <1>3, <3>1 DEF p
    <3>3. s.low[x] <= s.index[x]
      BY <3>2 DEF SearchInv, LowIsReal
    <3>4. s.low[o] <= s.low[x]
      BY <1>5, <3>1
    <3>5. s.low[x] \in Nat /\ s.index[x] \in Nat /\ s.index[o] \in Nat
      BY <1>2, <1>3
    <3> QED BY <3>2, <3>3, <3>4, <3>5
  <2> QED BY <2>1
<1>10. Visited(t) = Visited(s) /\ Settled(t) = Settled(s) \cup A /\ Waiting(t) \subseteq Waiting(s)
  <2>1. \A x \in Waiting(s) : x \in A <=> x \notin Waiting(t)
    <3>1. \A x \in Waiting(s) : s.index[x] \in Nat /\ s.index[o] \in Nat
      BY <1>2, <1>3
    <3> QED BY <1>7, <3>1
  <2> HIDE DEF A
  <2>2. A \subseteq Waiting(s)
    BY DEF A
  <2> QED BY <1>2, <1>5, <1>7, <2>1, <2>2 DEF Visited, Settled
<1>11. ASSUME NEW k \in 1 .. (m - 1)
       PROVE  k \in DOMAIN s.work /\ k # m /\ k < m /\ s.work[k].node \in Waiting(t)
  BY <1>1, <1>3, <1>5, <1>7
<1>12. SearchTyped(E, t, {})
  <2>1. ASSUME NEW k \in 1 .. (m - 1)
        PROVE  /\ DOMAIN t.work[k] = {"node", "left"}
               /\ t.work[k].node \in Waiting(t) /\ t.work[k].left \subseteq From(E, t.work[k].node)
    BY <1>5, <1>11 DEF SearchInv, SearchTyped
  <2> QED BY <1>5, <1>7, <1>10, <2>1 DEF SearchInv, SearchTyped
<1>13. Ordered(t)
  <2>1. ASSUME NEW i \in DOMAIN t.stack, NEW j \in DOMAIN t.stack, i < j
        PROVE  s.index[t.stack[i]] < s.index[t.stack[j]]
    <3>1. i \in DOMAIN s.stack /\ j \in DOMAIN s.stack /\ t.stack[i] = s.stack[i] /\ t.stack[j] = s.stack[j]
      BY <1>7
    <3> QED BY <2>1, <3>1 DEF SearchInv, Ordered
  <2>2. ASSUME NEW i \in 1 .. (m - 1), NEW j \in 1 .. (m - 1), i < j
        PROVE  s.index[s.work[i].node] < s.index[s.work[j].node]
    BY <1>5, <2>2 DEF SearchInv, Ordered
  <2> QED BY <1>5, <2>1, <2>2 DEF Ordered
<1>14. NoneMissed(E, t, {})
  <2>1. ASSUME NEW x \in Visited(s), NEW y \in From(E, x), y \notin Visited(s)
        PROVE  \E k \in DOMAIN t.work : t.work[k].node = x /\ y \in t.work[k].left
    <3>1. PICK k \in DOMAIN s.work : s.work[k].node = x /\ y \in s.work[k].left
      BY <2>1 DEF SearchInv, NoneMissed
    <3>2. k # m
      BY <1>4, <3>1
    <3>3. k \in 1 .. (m - 1)
      BY <1>1, <3>2
    <3> QED BY <1>5, <3>1, <3>3
  <2>2. \A x \in Settled(s) : From(E, x) \subseteq Settled(s)
    BY DEF SearchInv, NoneMissed
  <2> HIDE DEF A
  <2>3. \A x \in Settled(t) : From(E, x) \subseteq Settled(t)
    BY <1>8, <1>10, <2>2
  <2> QED BY <1>10, <2>1, <2>3 DEF NoneMissed
<1>15. Linked(E, t)
  <2>1. ASSUME NEW k \in 1 .. (m - 1), NEW y \in Waiting(t), s.index[s.work[k].node] <= s.index[y]
        PROVE  Leads(E, s.work[k].node, y)
    BY <1>10, <1>11, <2>1 DEF SearchInv, Linked
  <2>2. ASSUME NEW y \in Waiting(t)
        PROVE  \E k \in 1 .. (m - 1) :
                 s.index[s.work[k].node] <= s.index[y] /\ Leads(E, y, s.work[k].node)
    <3>1. PICK k \in DOMAIN s.work : s.index[s.work[k].node] <= s.index[y] /\ Leads(E, y, s.work[k].node)
      BY <1>10 DEF SearchInv, Linked
    <3>2. s.index[y] < s.index[o] /\ s.index[y] \in Nat /\ s.index[o] \in Nat
      BY <1>2, <1>3, <1>7
    <3>3. k # m
      BY <1>4, <3>1, <3>2
    <3>4. k \in 1 .. (m - 1)
      BY <1>1, <3>3
    <3> QED BY <3>1, <3>4
  <2> QED BY <1>5, <1>10, <2>1, <2>2 DEF Linked
<1>16. LowIsReal(E, t)
  <2>1. ASSUME NEW x \in Waiting(t)
        PROVE  /\ s.low[x] <= s.index[x]
               /\ \E z \in Waiting(t) : s.index[z] = s.low[x] /\ Leads(E, x, z)
    <3>1. x \in Waiting(s) /\ s.index[x] < s.index[o]
      BY <1>7
    <3>2. s.low[x] <= s.index[x]
      BY <3>1 DEF SearchInv, LowIsReal
    <3>3. PICK z \in Waiting(s) : s.index[z] = s.low[x] /\ Leads(E, x, z)
      BY <3>1 DEF SearchInv, LowIsReal
    <3>4. s.index[z] \in Nat /\ s.index[x] \in Nat /\ s.index[o] \in Nat
      BY <1>2, <1>3, <3>1
    <3>5. s.index[z] < s.index[o]
      BY <3>1, <3>2, <3>3, <3>4
    <3>6. z \in Waiting(t)
      BY <1>7, <3>5
    <3> QED BY <3>2, <3>3, <3>6
  <2>2. \A x \in Waiting(t) : t.low[x] = s.low[x]
    BY <1>2, <1>9, <1>10
  <2> QED BY <1>5, <2>1, <2>2 DEF LowIsReal
<1>17. LowIsLeast(E, t, {})
  <2>1. ASSUME NEW k \in 1 .. (m - 1), NEW y \in Waiting(t), NEW w \in Waiting(t),
               Charge(t, k, y), w \in From(E, y), y = s.work[k].node => w \notin s.work[k].left
        PROVE  s.low[s.work[k].node] <= s.index[w]
    <3>1. Charge(s, k, y)
      <4>1. ASSUME NEW l \in DOMAIN s.work, k < l PROVE s.index[y] < s.index[s.work[l].node]
        <5>1. CASE l = m
          BY <1>4, <1>7, <5>1
        <5>2. CASE l # m
          <6>1. l \in 1 .. (m - 1)
            BY <1>1, <5>2
          <6> QED BY <1>5, <2>1, <4>1, <6>1 DEF Charge
        <5> QED BY <5>1, <5>2
      <4> QED BY <1>5, <2>1, <4>1 DEF Charge
    <3>2. k \in DOMAIN s.work /\ y \in Waiting(s) /\ w \in Waiting(s)
      BY <1>10, <1>11
    <3> QED BY <2>1, <3>1, <3>2 DEF SearchInv, LowIsLeast
  <2>2. \A k \in 1 .. (m - 1) : t.low[s.work[k].node] = s.low[s.work[k].node]
    BY <1>3, <1>9, <1>11
  <2> QED BY <1>5, <2>1, <2>2 DEF LowIsLeast
<1>18. t.found = {Class(E, x) : x \in Settled(t)}
  <2>1. s.found = {Class(E, x) : x \in Settled(s)}
    BY DEF SearchInv
  <2>2. \A x \in A : Class(E, x) = A
    BY <1>8, ClassIs
  <2>3. o \in A
    BY <1>3, <1>2
  <2>4. t.found = s.found \cup {A}
    BY <1>6, <1>7
  <2> HIDE DEF A
  <2> QED BY <1>10, <2>1, <2>2, <2>3, <2>4
<1> QED BY <1>12, <1>13, <1>14, <1>15, <1>16, <1>17, <1>18 DEF SearchInv, t

\* The search is over the pairs of the closure, and for their ends.
LEMMA SearchedGraph ==
  ASSUME FilesInv, NEW S, S \subseteq DOMAIN manifests
  PROVE  /\ Edges(S) \in Pairs
         /\ \A o : DependsOn(o, S) = Below(Edges(S), o) /\ ClassOf(o, S) = Class(Edges(S), o)
         /\ Mutual(S) = {Class(Edges(S), x) : x \in Ends(Edges(S))}
<1> DEFINE E == Edges(S)
<1>1. E \in Pairs
  <2>1. ASSUME NEW p \in S PROVE /\ manifests[p].provides \subseteq ObligationSet
                                 /\ Range(manifests[p].requires) \subseteq ObligationSet
    BY DEF FilesInv, IsManifest
  <2> QED BY <2>1 DEF Edges, Pairs
<1>2. \A o : DependsOn(o, S) = Below(E, o)
  BY DEF DependsOn, Below
<1>3. \A o : ClassOf(o, S) = Class(E, o)
  BY <1>2 DEF ClassOf, Class
<1> HIDE DEF E
<1>4. Mutual(S) = {Class(E, e[1]) : e \in E} \cup {Class(E, e[2]) : e \in E}
  BY <1>3 DEF Mutual, E
<1>5. ASSUME NEW c \in Mutual(S) PROVE \E x \in Ends(E) : c = Class(E, x)
  BY <1>4 DEF Ends
<1>6. ASSUME NEW x \in Ends(E) PROVE Class(E, x) \in Mutual(S)
  BY <1>4 DEF Ends
<1> QED BY <1>1, <1>2, <1>3, <1>5, <1>6 DEF E

\* Every step of the search keeps what is known of it.
LEMMA SearchSteps ==
  ASSUME FilesInv, seen \subseteq DOMAIN manifests, SearchInv(Edges(seen), search, {}),
         Root \/ Descend \/ Finish
  PROVE  SearchInv(Edges(seen), search', {})
<1> DEFINE E == Edges(seen)
           m == Len(search.work)
<1>1. E \in Pairs
  BY SearchedGraph
<1>2. /\ search.roots \subseteq Ends(E) /\ Ends(E) \subseteq ObligationSet
      /\ Visited(search) = DOMAIN search.index /\ DOMAIN search = SearchFields
  BY <1>1, EndsAre DEF SearchInv, SearchTyped, Visited
<1> HIDE DEF E
<1>3. ASSUME NEW L, L \subseteq Ends(E), L # {} PROVE First(Obligations, L) \in L
  BY <1>2, <1>3, FirstIs, ClosureGraphAssumption DEF ObligationSet
<1>4. CASE Root
  <2> DEFINE r == First(Obligations, search.roots)
             rest == [search EXCEPT !.roots = @ \ {r}]
  <2>1. /\ search.work = <<>>
        /\ search' = IF r \in Visited(search) THEN rest ELSE Opened(rest, r)
        /\ r \in Ends(E)
    BY <1>2, <1>3, <1>4 DEF Root
  <2> HIDE DEF r
  <2>2. SearchInv(E, rest, {r})
    BY <2>1, RootTaken DEF E
  <2>3. rest.index = search.index /\ rest.stack = search.stack /\ rest.work = search.work
    BY <1>2 DEF SearchFields
  <2> HIDE DEF rest
  <2>4. CASE r \in Visited(search)
    <3>1. Waiting(rest) = {}
      BY <2>1, <2>2, <2>3, NoneWaits
    <3>2. r \in Settled(rest)
      BY <2>3, <2>4, <3>1 DEF Settled, Visited
    <3> QED BY <2>1, <2>2, <2>4, <3>2, Skipped DEF E
  <2>5. CASE r \notin Visited(search)
    <3>1. r \in Ends(E) \ Visited(rest) /\ rest.work = <<>>
      BY <2>1, <2>3, <2>5 DEF Visited
    <3>2. SearchInv(E, Opened(rest, r), {})
      BY <1>1, <2>2, <3>1, OpenedKeeps DEF E
    <3> QED BY <2>1, <2>5, <3>2 DEF E
  <2> QED BY <2>4, <2>5
<1>5. CASE Descend
  <2> DEFINE child == First(Obligations, Top.left)
             o == Top.node
             t == Taken(search, child)
  <2>1. search.work # <<>> /\ Top.left # {} /\ search' = Descended(t, o, child)
    BY <1>5 DEF Descend
  <2>2. o = search.work[m].node /\ Top.left = search.work[m].left
        /\ Top.left \subseteq From(E, o) /\ From(E, o) \subseteq Ends(E)
    BY <1>1, <2>1, TopIs, EndsAre DEF Top, E
  <2>3. child \in Top.left /\ child \in Ends(E) /\ child \in From(E, o)
    BY <1>3, <2>1, <2>2
  <2> HIDE DEF child
  <2>4. /\ SearchInv(E, t, {child}) /\ t.index = search.index /\ t.stack = search.stack
        /\ t.work # <<>> /\ t.work[Len(t.work)].node = o
    <3>1. SearchInv(E, search, {}) /\ child \in search.work[Len(search.work)].left
      BY <2>2, <2>3 DEF E
    <3>2. search.work[Len(search.work)].node = o
      BY <2>2
    <3>4. search.work # <<>>
      BY <2>1
    <3> HIDE DEF o, m
    <3>3. /\ SearchInv(E, t, {child}) /\ t.index = search.index /\ t.low = search.low
          /\ t.stack = search.stack /\ t.work # <<>> /\ Len(t.work) = Len(search.work)
          /\ t.work[Len(t.work)].node = search.work[Len(search.work)].node
      BY <3>1, <3>4, ChildTaken
    <3> HIDE DEF t
    <3> QED BY <3>2, <3>3
  <2>5. child \in From(E, o)
    BY <2>3
  <2> HIDE DEF t, o
  <2>6. CASE child \notin DOMAIN t.index
    <3>1. SearchInv(E, Opened(t, child), {})
      BY <1>1, <2>3, <2>4, <2>5, <2>6, OpenedKeeps DEF E, Visited
    <3> QED BY <2>1, <2>6, <3>1 DEF Descended, E
  <2>7. CASE child \in DOMAIN t.index /\ child \in Range(t.stack)
    <3>1. SearchInv(E, [t EXCEPT !.low[o] = Least(@, t.index[child])], {})
      BY <1>1, <2>4, <2>5, <2>7, LoweredKeeps DEF Waiting
    <3> QED BY <2>1, <2>7, <3>1 DEF Descended, E
  <2>8. CASE child \in DOMAIN t.index /\ child \notin Range(t.stack)
    <3>1. SearchInv(E, t, {})
      BY <2>4, <2>8, Skipped DEF Settled, Visited, Waiting
    <3> QED BY <2>1, <2>8, <3>1 DEF Descended, E
  <2> QED BY <2>6, <2>7, <2>8
<1>6. CASE Finish
  <2>1. search.work # <<>> /\ Top.left = {} /\ search' = Finished(search, Top.node)
    BY <1>6 DEF Finish
  <2> QED BY <1>1, <2>1, FinishedKeeps, FoundKeeps DEF Top, E
<1> QED BY <1>4, <1>5, <1>6

-----------------------------------------------------------------------------
(* The verdict.                                                            *)

\* What exit code 0 says of the findings.
LEMMA NoFindings ==
  ASSUME Errors = {}
  PROVE  /\ \A p \in seen \cap Reported : \A o \in DOMAIN files.reports[p].records :
              /\ Certified(files.reports[p].records[o], o)
              /\ o \in manifests[p].provides => Derived(manifests[p], files.reports[p].records[o])
         /\ Unsupported(seen) = {}
         /\ \A p \in seen : \A o \in Range(manifests[p].requires) :
              Provider(o) # None => Achieved(Provider(o), o, manifests[p])
         /\ ~Misdeclared /\ files.calls # None
         /\ \A p \in Scope : Readable(p)
<1>1. ASSUME NEW p \in seen \cap Reported, NEW o \in DOMAIN files.reports[p].records,
             ~Certified(files.reports[p].records[o], o)
      PROVE  "certificate" \in Errors
  BY <1>1 DEF Errors, Finding, InClosure
<1>2. ASSUME NEW p \in seen \cap Reported,
             NEW o \in DOMAIN files.reports[p].records \cap manifests[p].provides,
             ~Derived(manifests[p], files.reports[p].records[o])
      PROVE  "derivation" \in Errors
  BY <1>2 DEF Errors, Finding, InClosure
<1>3. Unsupported(seen) # {} => "unsupported" \in Errors
  BY DEF Errors, Finding, InClosure
<1>4. ASSUME NEW p \in seen, NEW o \in Range(manifests[p].requires),
             Provider(o) # None, ~Achieved(Provider(o), o, manifests[p])
      PROVE  "requirement" \in Errors
  BY <1>4 DEF Errors, Finding, InClosure
<1>5. Misdeclared => "declared" \in Errors
  BY DEF Errors, Finding
<1>6. files.calls = None => "callsites" \in Errors
  BY DEF Errors, Finding
<1>7. ASSUME NEW p \in Scope, ~Readable(p) PROVE "report" \in Errors
  BY <1>7 DEF Errors, Finding
<1> QED BY <1>1, <1>2, <1>3, <1>4, <1>5, <1>6, <1>7

\* One thing a package of the closure requires.
LEMMA RequirementProved ==
  ASSUME FilesInv, ClosureInv, phase = "judge", ~Ambiguous, Errors = {},
         NEW p \in seen, NEW o \in Range(manifests[p].requires)
  PROVE  Proved(p, o)
<1> DEFINE q == Provider(o)
<1>1. p \in DOMAIN manifests /\ ClosedBut(seen, {})
  BY SpannedCloses DEF ClosureInv, Searching, Queued, Heads
<1>2. q # None
  BY NoFindings DEF Unsupported
<1>3. q \in seen /\ q \in DOMAIN manifests
  BY <1>1, <1>2, ProviderProvides DEF ClosedBut
<1>4. \A x \in DOMAIN manifests : o \in manifests[x].provides <=> x = q
  BY OneProvider
<1>5. Achieved(q, o, manifests[p])
  BY <1>2, NoFindings
<1>6. /\ q \in Reported /\ Present(q) /\ o \in DOMAIN files.reports[q].records
      /\ Satisfies(manifests[p], files.reports[q].records[o])
  BY <1>5 DEF Achieved, Reported, Readable, Present, NoReport
<1>7. /\ Certified(files.reports[q].records[o], o)
      /\ Derived(manifests[q], files.reports[q].records[o])
  BY <1>3, <1>4, <1>6, NoFindings
<1> HIDE DEF q
<1> QED BY <1>3, <1>4, <1>6, <1>7 DEF Proved, Satisfies, Certified, Derived

\* A condition the profile declares failing, the gate finds failing.
LEMMA DeclaredFails ==
  ASSUME CountsCalls(files.calls), files.calls # None, ~Misdeclared, NEW c \in Declared
  PROVE  c \in Failed
<1> DEFINE says == Profile.conditions
<1>1. c \in Conditions /\ ~ConditionHolds(c)
  BY DEF Declared
<1>2. CASE c = "single_verifier_system"
  <2>1. ~(Cardinality(Systems) <= 1)
    <3>1. Computed[c] = (Cardinality(Systems) <= 1) /\ c \in DOMAIN Computed
      BY <1>2 DEF Computed
    <3>2. says[c] = Computed[c] /\ ~says[c]
      BY <1>1, <1>2, <3>1 DEF ConditionHolds, Misdeclared
    <3> QED BY <3>1, <3>2, Zenon
  <2>2. Cardinality(Systems) \in Nat
    BY WorkspaceAssumption, FS_Subset, FS_CardinalityType DEF Systems
  <2>3. Cardinality(Systems) > 1
    BY <2>1, <2>2
  <2> QED BY <1>1, <1>2, <2>3 DEF Failed, Generic
<1>3. CASE c = "protocol_class_all_pairwise"
  BY <1>1, <1>3 DEF ConditionHolds, Misdeclared, Computed, Failed
<1>4. CASE c = "transitive_assumptions_within_policy"
  BY <1>1, <1>4 DEF ConditionHolds, Misdeclared, Computed, Failed
<1>5. CASE c = "scc_wellfoundedness_discharged"
  <2>1. says[c] \notin {"true", "n/a"}
    BY <1>1, <1>5 DEF ConditionHolds
  <2>2. says[c] = IF Cycles = {} THEN "n/a" ELSE IF Discharged THEN "true" ELSE "false"
    BY <1>5 DEF Misdeclared, Computed
  <2>3. ~Discharged
    BY <2>1, <2>2
  <2> QED BY <1>1, <1>5, <2>3 DEF Failed, Generic
<1>6. CASE c = "unresolved_indirect_calls_at_or_above_medium"
  <2>1. says[c] # 0 /\ says[c] = files.calls.risky
    BY <1>1, <1>6 DEF ConditionHolds, Misdeclared
  <2>2. files.calls.risky > 0
    BY <2>1 DEF CountsCalls
  <2> QED BY <1>1, <1>6, <2>2 DEF Failed, Generic
<1>7. CASE c = Generic
  BY <1>1, <1>7 DEF ConditionHolds, Misdeclared, Failed, Generic
<1> QED BY <1>1, <1>2, <1>3, <1>4, <1>5, <1>6, <1>7 DEF Conditions, Generic

LEMMA ReleasedIsValid ==
  ASSUME FilesInv, Errors = {}, Failed \subseteq Excused, ~WorkspaceErrors
  PROVE  Agreed
<1>1. ~Misdeclared /\ files.calls # None
  BY NoFindings
<1>2. /\ Profile # None => ProfileValid
      /\ Record # None => RecordReadable /\ ProfileValid /\ StaleExcuses = {}
  BY DEF WorkspaceErrors, RecordValid
<1>3. Declared \subseteq Failed
  BY <1>1, DeclaredFails DEF FilesInv
<1>4. Excused \subseteq IF RecordReadable THEN Record.failed ELSE {}
  BY DEF Excused, RecordValid
<1>5. RecordReadable => Record # None
  BY DEF RecordReadable
<1>6. "record" \notin files.strays
  BY DEF WorkspaceErrors
<1> QED BY <1>2, <1>3, <1>4, <1>5, <1>6 DEF Agreed, ClosureFindings, Finding

LEMMA MoreThanOne ==
  ASSUME NEW S, IsFiniteSet(S), NEW a \in S, NEW b \in S, a # b
  PROVE  Cardinality(S) > 1
<1>1. IsFiniteSet({a}) /\ Cardinality({a}) = 1
  BY FS_Singleton
<1> DEFINE A == {a}
           B == A \cup {b}
<1>2. b \notin A /\ B \subseteq S
  OBVIOUS
<1> HIDE DEF A
<1>3. Cardinality(B) = Cardinality(A) + 1
  BY <1>1, <1>2, FS_AddElement DEF A
<1> HIDE DEF B
<1>5. Cardinality(B) <= Cardinality(S)
  BY <1>2, FS_Subset
<1>4. Cardinality(S) \in Nat
  BY FS_CardinalityType
<1> QED BY <1>1, <1>3, <1>4, <1>5 DEF A

\* An obligation that leads to itself is in a component that is a cycle.
LEMMA OnCycle ==
  ASSUME FilesInv, seen \subseteq DOMAIN manifests, search.found = Mutual(seen),
         NEW o \in ObligationSet, o \in DependsOn(o, seen)
  PROVE  ClassOf(o, seen) \in Cycles
<1> DEFINE E == Edges(seen)
           c == Class(E, o)
<1>1. /\ E \in Pairs /\ DependsOn(o, seen) = Below(E, o) /\ ClassOf(o, seen) = c
      /\ Mutual(seen) = {Class(E, x) : x \in Ends(E)}
  BY SearchedGraph
<1> HIDE DEF E
<1>2. \A x, y : y \in From(E, x) <=> <<x, y>> \in E
  BY <1>1, FromIs
<1>3. o \in Ends(E)
  <2>1. ASSUME From(E, o) = {} PROVE FALSE
    <3>1. \A e \in E : e[1] \in {} => e[2] \in {}
      OBVIOUS
    <3>2. Below(E, o) \subseteq {}
      BY <2>1, <3>1, ReachIsLeast DEF Below
    <3> QED BY <1>1, <3>2
  <2> QED BY <1>1, <2>1, EndsAre
<1>4. c \in search.found
  BY <1>1, <1>3
<1>5. CASE \E x \in c : x # o
  <2>1. PICK x \in c : x # o
    BY <1>5
  <2>2. o \in c
    BY DEF Class
  <2>3. IsFiniteSet(c)
    <3>1. c \subseteq ObligationSet
      BY <1>1, LeadsOn DEF Class
    <3> QED BY <3>1, FewObligations, FS_Subset
  <2> HIDE DEF c
  <2>4. Cardinality(c) > 1
    BY <2>1, <2>2, <2>3, MoreThanOne
  <2> QED BY <1>1, <1>4, <2>4 DEF Cycles
<1>6. CASE \A x \in c : x = o
  <2>1. <<o, o>> \in E
    <3>1. ASSUME <<o, o>> \notin E PROVE FALSE
      <4> DEFINE S == Below(E, o) \ {o}
      <4>1. From(E, o) \subseteq S
        BY <1>1, <1>2, <3>1, LeadsOn
      <4>2. ASSUME NEW e \in E, e[1] \in S PROVE e[2] \in S
        <5>1. e = <<e[1], e[2]>>
          BY <1>1 DEF Pairs
        <5>2. e[2] \in From(E, e[1])
          BY <1>2, <5>1
        <5>3. e[2] \in Below(E, e[1])
          BY <1>1, <5>2, LeadsOn
        <5>4. e[2] \in Below(E, o)
          BY <1>1, <4>2, <5>3, LeadsOn DEF Leads
        <5>5. e[2] = o => e[1] \in c
          BY <4>2, <5>3 DEF Class
        <5> QED BY <1>6, <4>2, <5>4, <5>5
      <4>3. S \in SUBSET ObligationSet
        BY <1>1, LeadsOn
      <4>4. \A e \in E : e[1] \in S => e[2] \in S
        BY <4>2
      <4> HIDE DEF S
      <4>5. Below(E, o) \subseteq S
        BY <4>1, <4>3, <4>4, ReachIsLeast DEF Below
      <4> QED BY <1>1, <4>5 DEF S
    <3> QED BY <3>1
  <2>2. o \in c
    BY DEF Class
  <2> HIDE DEF c
  <2> QED BY <1>1, <1>4, <2>1, <2>2 DEF Cycles, E
<1> QED BY <1>5, <1>6

\* What of the closure has a report has one that is read.
LEMMA ClosureIsRead ==
  ASSUME FilesInv, Errors = {}, seen \subseteq DOMAIN manifests
  PROVE  seen \subseteq Reported
<1>1. seen \subseteq Dependencies
  <2>1. InClosure \cap PackageSet \subseteq Dependencies
    BY ReachCloses DEF Dependencies
  <2> QED BY <2>1 DEF FilesInv, InClosure
<1> QED BY <1>1, NoFindings DEF Reported, Scope

\* A condition that fails in the workspace, the gate finds failing.
LEMMA FailingIsFound ==
  ASSUME FilesInv, Errors = {}, seen = Spanned(Seeds), search.found = Mutual(seen)
  PROVE  ReallyFailing \subseteq Failed
<1> SUFFICES ASSUME NEW c \in ReallyFailing PROVE c \in Failed
  OBVIOUS
<1> DEFINE all == {p \in DOMAIN manifests : Present(p)}
<1>1. seen \subseteq DOMAIN manifests /\ seen \subseteq Reported /\ Seeds \subseteq DOMAIN manifests
  BY ClosureIsRead, SpannedCloses
<1>2. c \in Conditions
  BY DEF ReallyFailing
<1>3. CASE c = "single_verifier_system"
  <2>1. \E p, q \in seen \cap all : \E r \in Entries(p), t \in Entries(q) :
          {r.kind, t.kind} \subseteq Verifiers /\ r.kind # t.kind
    BY <1>3 DEF ReallyFailing, Generic
  <2>2. PICK p \in seen, q \in seen : \E r \in Entries(p), t \in Entries(q) :
          {r.kind, t.kind} \subseteq Verifiers /\ r.kind # t.kind
    BY <2>1
  <2>3. PICK r \in Entries(p), t \in Entries(q) :
          {r.kind, t.kind} \subseteq Verifiers /\ r.kind # t.kind
    BY <2>2
  <2>4. p \in InClosure \cap Reported /\ q \in InClosure \cap Reported
    BY <1>1, <2>2 DEF InClosure
  <2>5. r.kind \in Kinds /\ t.kind \in Kinds
    BY <2>3, <2>4 DEF Kinds
  <2>6. r.kind \in Systems /\ t.kind \in Systems
    BY <2>3, <2>5 DEF Systems
  <2>7. IsFiniteSet(Systems)
    BY WorkspaceAssumption, FS_Subset DEF Systems
  <2>8. Cardinality(Systems) > 1
    BY <2>3, <2>6, <2>7, MoreThanOne
  <2> QED BY <1>2, <1>3, <2>8 DEF Failed, Generic
<1>4. CASE c = "protocol_class_all_pairwise"
  <2>1. PICK p \in seen : \E b \in manifests[p].establishes : files.bridges[b] = "n-ary"
    BY <1>4 DEF ReallyFailing, Generic
  <2>2. ~Pairwise
    BY <2>1 DEF Pairwise, Needed, InClosure
  <2> QED BY <1>2, <1>4, <2>2 DEF Failed, Generic
<1>5. CASE c = "transitive_assumptions_within_policy"
  <2>1. PICK p \in seen \cap all : \E q \in Seeds :
          /\ manifests[q].provides # {}
          /\ ~(UNION {r.assumptions : r \in Entries(p)} \subseteq manifests[q].allows)
    BY <1>5 DEF ReallyFailing, Generic
  <2>2. PICK q \in Seeds : /\ manifests[q].provides # {}
                           /\ ~(UNION {r.assumptions : r \in Entries(p)} \subseteq manifests[q].allows)
    BY <2>1
  <2>3. p \in InClosure \cap Reported
    BY <1>1, <2>1 DEF InClosure
  <2>4. UNION {r.assumptions : r \in Entries(p)} \subseteq Relied
    BY <2>3 DEF Relied
  <2>5. manifests[q].allows \in EntryPolicies
    BY <2>2 DEF EntryPolicies
  <2>6. ~WithinPolicy
    BY <2>2, <2>4, <2>5 DEF WithinPolicy
  <2> QED BY <1>2, <1>5, <2>6 DEF Failed, Generic
<1>6. CASE c = "scc_wellfoundedness_discharged"
  <2>1. PICK o \in ObligationSet :
          o \in DependsOn(o, seen) /\ ClassOf(o, seen) \notin Profile.discharges
    BY <1>6 DEF ReallyFailing, Generic
  <2>2. ClassOf(o, seen) \in Cycles
    BY <1>1, <2>1, OnCycle
  <2>3. ~Discharged
    BY <2>1, <2>2 DEF Discharged
  <2> QED BY <1>2, <1>6, <2>3 DEF Failed, Generic
<1>7. CASE c = "unresolved_indirect_calls_at_or_above_medium"
  <2>1. files.calls # None /\ files.calls.risky > 0
    BY <1>7, NoFindings DEF ReallyFailing, Generic
  <2> QED BY <1>2, <1>7, <2>1 DEF Failed, Generic
<1>8. CASE c = Generic
  <2>1. PICK p \in all : \E r \in Entries(p) : r.kind \in Bounded
    BY <1>8 DEF ReallyFailing, Generic
  <2>2. PICK r \in Entries(p) : r.kind \in Bounded
    BY <2>1
  <2>3. r.kind # Owner
    BY <2>2, WorkspaceAssumption
  <2>4. ~GenericVerified
    BY <2>1, <2>2, <2>3 DEF GenericVerified
  <2> QED BY <1>2, <1>8, <2>4 DEF Failed, Generic
<1> QED BY <1>2, <1>3, <1>4, <1>5, <1>6, <1>7, <1>8 DEF Conditions, Generic

\* What a verdict says, of the workspace it is given over.
LEMMA JudgedRight ==
  ASSUME FilesInv, ClosureInv, GraphInv, Judge
  PROVE  /\ verdict'.exit = 0 => AllProved /\ Agreed
         /\ verdict'.status = "closes" => ReallyFailing = {}
         /\ verdict'.status = "degraded" => RuledRecord
<1>1. /\ phase = "judge" /\ seen = Spanned(Seeds) /\ search.found = Mutual(seen)
      /\ verdict' = [status |-> Status,
                     exit |-> IF Status = "blocked" \/ WorkspaceErrors THEN 1 ELSE 0]
  BY ClosureSpans DEF Judge, GraphInv
<1>2. Status # "blocked" => Errors = {} /\ Failed \subseteq Excused
  BY DEF Status
<1>3. ASSUME verdict'.exit = 0 PROVE AllProved /\ Agreed
  <2>1. Status # "blocked" /\ ~WorkspaceErrors /\ ~Ambiguous
    BY <1>1, <1>3 DEF WorkspaceErrors
  <2>2. AllProved
    BY <1>1, <1>2, <2>1, RequirementProved DEF AllProved
  <2> QED BY <1>2, <2>1, <2>2, ReleasedIsValid
<1>4. ASSUME verdict'.status = "closes" PROVE ReallyFailing = {}
  <2>1. Errors = {} /\ Failed = {}
    BY <1>1, <1>4 DEF Status
  <2> QED BY <1>1, <2>1, FailingIsFound
<1>5. ASSUME verdict'.status = "degraded" PROVE RuledRecord
  <2>1. Errors = {} /\ Failed # {} /\ Failed \subseteq Excused
    BY <1>1, <1>5 DEF Status
  <2>2. RecordValid /\ Authorised /\ Excused = Record.failed
    BY <2>1 DEF Excused
  <2>3. ReallyFailing \subseteq Record.failed
    BY <1>1, <2>1, <2>2, FailingIsFound
  <2> QED BY <2>2, <2>3 DEF RuledRecord, RecordValid, RecordReadable, Authorised
<1> QED BY <1>3, <1>4, <1>5

\* Both read the manifests and the files, and nothing else.
LEMMA SameWorkspace ==
  ASSUME UNCHANGED <<manifests, files>>
  PROVE  /\ AllProved' = AllProved /\ Agreed' = Agreed
         /\ ReallyFailing' = ReallyFailing /\ RuledRecord' = RuledRecord
<1>1. AllProved' = AllProved
  BY DEF AllProved, Proved, Present, Spanned, Reach, Calls, Provider, Seeds, Profile
<1>2. Agreed' = Agreed
  BY DEF Agreed, ClosureFindings, Finding, ProfileValid, RecordReadable, StaleExcuses, Declared, ConditionHolds,
         Profile, Record
<1>3. ReallyFailing' = ReallyFailing
  BY DEF ReallyFailing, Spanned, Reach, Calls, Provider, Seeds, Profile, Present, Entries, DependsOn,
         ClassOf, Edges, From
<1>4. RuledRecord' = RuledRecord
  BY <1>3 DEF RuledRecord, Record
<1> QED BY <1>1, <1>2, <1>3, <1>4

-----------------------------------------------------------------------------
(* Every step.                                                             *)

LEMMA FilesStart == Init => FilesInv
<1> SUFFICES ASSUME Init PROVE FilesInv
  OBVIOUS
<1>1. PICK w \in Starts : manifests = w.manifests /\ files = w.files
  BY DEF Init
<1> QED BY <1>1, WorkspaceAssumption DEF FilesInv

\* What record-assurance leaves where p's report belongs.
LEMMA RecordedIs ==
  ASSUME FilesInv, NEW p \in PackageSet, NEW O
  PROVE  /\ IsReport(Recorded(p, O))
         /\ Recorded(p, O).holds = "report" /\ Recorded(p, O).package = Base(p).package
         /\ Recorded(p, O).records =
              [o \in O \cup DOMAIN Base(p).records |->
                 IF o \in O THEN RecordOf(p) ELSE Base(p).records[o]]
         /\ \A b \in DOMAIN Base(p).bridges :
              Recorded(p, O).bridges[b] = Base(p).bridges[b]
<1> DEFINE base == Base(p)
<1>1. DOMAIN base = {"holds", "package", "records", "bridges"} /\ base.holds = "report"
  BY DEF Base, Blank, IsReport, FilesInv
<1> HIDE DEF base
<1>2. DOMAIN Recorded(p, O) = {"holds", "package", "records", "bridges"}
  BY <1>1 DEF Recorded, base
<1> QED BY <1>1, <1>2 DEF Recorded, IsReport, base

LEMMA FilesKept == FilesInv /\ [Next]_vars => FilesInv'
<1> SUFFICES ASSUME FilesInv, [Next]_vars PROVE FilesInv'
  OBVIOUS
<1>1. CASE UNCHANGED <<manifests, files>>
  BY <1>1 DEF FilesInv
<1>2. CASE EditManifest
  <2>1. PICK p \in PackageSet : \E m \in Edits.manifest[p] :
          manifests' = [q \in IF m = None THEN DOMAIN manifests \ {p} ELSE DOMAIN manifests \cup {p} |->
                          IF q = p THEN m ELSE manifests[q]]
    BY <1>2 DEF EditManifest
  <2>2. PICK m \in Edits.manifest[p] :
          manifests' = [q \in IF m = None THEN DOMAIN manifests \ {p} ELSE DOMAIN manifests \cup {p} |->
                          IF q = p THEN m ELSE manifests[q]]
    BY <2>1
  <2>3. DOMAIN manifests' \subseteq PackageSet /\ files' = files
    BY <1>2, <2>2 DEF EditManifest, FilesInv
  <2>4. m # None => IsManifest(m)
    BY WorkspaceAssumption
  <2>5. \A q \in DOMAIN manifests' : IsManifest(manifests'[q])
    BY <2>2, <2>4 DEF FilesInv
  <2> QED BY <2>3, <2>5 DEF FilesInv
<1>3. CASE EditReport
  <2>1. PICK p \in PackageSet : \E r \in Edits.report[p] : files' = [files EXCEPT !.reports[p] = r]
    BY <1>3 DEF EditReport
  <2>2. PICK r \in Edits.report[p] : files' = [files EXCEPT !.reports[p] = r]
    BY <2>1
  <2>3. IsReport(r) /\ manifests' = manifests
    BY <1>3, WorkspaceAssumption DEF EditReport
  <2> QED BY <2>2, <2>3 DEF FilesInv, FileFacets
<1>4. CASE EditFacet
  <2>1. manifests' = manifests
    BY <1>4 DEF EditFacet
  <2>2. PICK f \in DOMAIN Edits.facet : \E x \in Edits.facet[f] : files' = [files EXCEPT ![f] = x]
    BY <1>4 DEF EditFacet
  <2>3. PICK x \in Edits.facet[f] : files' = [files EXCEPT ![f] = x]
    BY <2>2
  <2>4. f # "reports" /\ f \in FileFacets
    BY WorkspaceAssumption
  <2>5. DOMAIN files' = FileFacets /\ files'.reports = files.reports
    BY <2>3, <2>4 DEF FilesInv, FileFacets
  <2>6. CountsCalls(files'.calls)
    BY <2>3, WorkspaceAssumption DEF FilesInv, FileFacets
  <2> QED BY <2>1, <2>5, <2>6 DEF FilesInv
<1>5. CASE ApproveRecord
  BY <1>5 DEF ApproveRecord, FilesInv, FileFacets
<1>6. CASE RuleRecord
  BY <1>6 DEF RuleRecord, FilesInv, FileFacets
<1>7. CASE Recording
  <2>1. PICK p \in PackageSet : \E O \in SUBSET ObligationSet : RecordAssurance(p, O)
    BY <1>7 DEF Recording
  <2>2. PICK O \in SUBSET ObligationSet : RecordAssurance(p, O)
    BY <2>1
  <2>3. files' = [files EXCEPT !.reports[p] = Recorded(p, O)] /\ manifests' = manifests
    BY <2>2 DEF RecordAssurance
  <2> QED BY <2>3, RecordedIs DEF FilesInv, FileFacets
<1>8. CASE GateStep
  BY <1>1, <1>8 DEF GateStep, Start, NoCluster, Judge, GraphStep, Visit, Closed, Root, Descend,
                    Finish, Searched
<1> QED BY <1>1, <1>2, <1>3, <1>4, <1>5, <1>6, <1>7, <1>8 DEF Next, Edit, vars

LEMMA ClosureKept == FilesInv /\ ClosureInv /\ [Next]_vars => ClosureInv'
<1> SUFFICES ASSUME FilesInv, ClosureInv, [Next]_vars PROVE ClosureInv'
  OBVIOUS
<1>1. CASE phase' \notin Searching
  BY <1>1 DEF ClosureInv
<1>2. CASE Start
  BY <1>2, ClosureStarts
<1>3. CASE Visit /\ UNCHANGED files
  BY <1>3, VisitKeeps
<1>4. CASE /\ UNCHANGED <<manifests, files, frontier, seen, depth>> /\ phase \in Searching
           /\ phase = phase' \/ frontier = {}
  <2>1. /\ Seeds' = Seeds /\ Spanned(Seeds)' = Spanned(Seeds) /\ Asked(seen)' = Asked(seen)
        /\ \A o : Provider(o)' = Provider(o)
    BY <1>4 DEF Seeds, Profile, Provider, Spanned, Reach, Calls, Asked
  <2>2. Queued' = Queued
    BY <1>4 DEF Queued, Heads
  <2>3. ClosedBut(seen, Queued)' <=> ClosedBut(seen, Queued)
    BY <1>4, <2>1, <2>2 DEF ClosedBut
  <2> QED BY <1>4, <2>1, <2>2, <2>3 DEF ClosureInv
<1>5. CASE (Closed \/ Root \/ Descend \/ Finish \/ Searched) /\ UNCHANGED files
  <2>1. phase \in Searching /\ UNCHANGED <<manifests, frontier, seen, depth>>
    BY <1>5 DEF Closed, Root, Descend, Finish, Searched, Searching
  <2>2. CASE Closed
    BY <1>4, <1>5, <2>1, <2>2 DEF Closed
  <2>3. CASE Root \/ Descend \/ Finish
    BY <1>4, <1>5, <2>1, <2>3 DEF Root, Descend, Finish
  <2>4. CASE Searched
    <3>1. frontier = {}
      BY <2>1, <2>4 DEF Searched, ClosureInv
    <3> QED BY <1>4, <1>5, <2>1, <3>1
  <2> QED BY <1>5, <2>2, <2>3, <2>4
<1>6. CASE Judge \/ NoCluster \/ Edit \/ Recording
  BY <1>1, <1>6 DEF Judge, NoCluster, Edit, EditManifest, EditReport, EditFacet, ApproveRecord,
                    RuleRecord, Reset, Recording, RecordAssurance, Searching
<1>7. CASE UNCHANGED vars
  BY <1>1, <1>4, <1>7 DEF vars, graph
<1> QED BY <1>2, <1>3, <1>5, <1>6, <1>7 DEF Next, GateStep, GraphStep

LEMMA GraphKept == FilesInv /\ ClosureInv /\ GraphInv /\ [Next]_vars => GraphInv'
<1> SUFFICES ASSUME FilesInv, ClosureInv, GraphInv, [Next]_vars PROVE GraphInv'
  OBVIOUS
<1>1. CASE phase' \notin {"scc", "judge"}
  BY <1>1 DEF GraphInv
<1>2. phase \in Searching => seen \subseteq DOMAIN manifests
  BY SpannedCloses DEF ClosureInv
<1>3. UNCHANGED <<manifests, seen>> => Edges(seen)' = Edges(seen) /\ Mutual(seen)' = Mutual(seen)
  BY DEF Edges, Mutual, ClassOf, DependsOn, Reach, From
<1>4. CASE Closed
  <2>1. phase' = "scc" /\ search' = [NoSearch EXCEPT !.roots = Nodes] /\ UNCHANGED <<manifests, seen>>
    BY <1>4 DEF Closed
  <2>2. Nodes = Ends(Edges(seen)) /\ Edges(seen) \in Pairs
    BY <1>2, <1>4, SearchedGraph DEF Nodes, Ends, Closed, Searching
  <2>3. SearchInv(Edges(seen), search', {})
    BY <2>1, <2>2, SearchStarts
  <2> QED BY <1>3, <2>1, <2>3 DEF GraphInv
<1>5. CASE Root \/ Descend \/ Finish
  <2>1. phase = "scc" /\ phase' = "scc" /\ UNCHANGED <<manifests, seen>>
    BY <1>5 DEF Root, Descend, Finish
  <2>2. SearchInv(Edges(seen), search', {})
    BY <1>2, <1>5, <2>1, SearchSteps DEF GraphInv, Searching
  <2> QED BY <1>3, <2>1, <2>2 DEF GraphInv
<1>6. CASE Searched
  <2> DEFINE E == Edges(seen)
  <2>1. /\ phase = "scc" /\ search.work = <<>> /\ search.roots = {} /\ phase' = "judge"
        /\ UNCHANGED <<manifests, seen, search>>
    BY <1>6 DEF Searched
  <2>2. SearchInv(E, search, {}) /\ Mutual(seen) = {Class(E, x) : x \in Ends(E)}
    BY <1>2, <2>1, SearchedGraph DEF GraphInv, Searching
  <2> HIDE DEF E
  <2>3. Waiting(search) = {} /\ search.stack = <<>>
    BY <2>1, <2>2, NoneWaits
  <2>4. Settled(search) = Ends(E)
    BY <2>1, <2>2, <2>3 DEF SearchInv, SearchTyped, Settled
  <2>5. search.found = Mutual(seen)
    BY <2>2, <2>4 DEF SearchInv
  <2> QED BY <1>3, <2>1, <2>3, <2>5 DEF GraphInv
<1>7. CASE UNCHANGED vars
  <2>1. UNCHANGED <<manifests, phase, seen, search>>
    BY <1>7 DEF vars, graph
  <2> QED BY <1>3, <2>1 DEF GraphInv
<1>8. CASE Start
  BY <1>1, <1>8 DEF Start, Enter
<1>9. CASE Visit
  BY <1>1, <1>9 DEF Visit
<1>10. CASE Judge \/ NoCluster
  BY <1>1, <1>10 DEF Judge, NoCluster
<1>11. CASE Edit \/ Recording
  <2>1. phase' = "idle"
    BY <1>11 DEF Edit, EditManifest, EditReport, EditFacet, ApproveRecord, RuleRecord, Reset,
                 Recording, RecordAssurance
  <2> QED BY <1>1, <2>1
<1> QED BY <1>4, <1>5, <1>6, <1>7, <1>8, <1>9, <1>10, <1>11 DEF Next, GateStep, GraphStep

\* Only the gate gives a verdict, and it is given again for the next
\* workspace.
LEMMA VerdictKept ==
  FilesInv /\ ClosureInv /\ GraphInv /\ VerdictInv /\ [Next]_vars => VerdictInv'
<1> SUFFICES ASSUME FilesInv, ClosureInv, GraphInv, VerdictInv, [Next]_vars PROVE VerdictInv'
  OBVIOUS
<1>1. CASE Judge
  <2>1. UNCHANGED <<manifests, files>>
    BY <1>1 DEF Judge
  <2> QED BY <1>1, <2>1, JudgedRight, SameWorkspace DEF VerdictInv
<1>2. CASE NoCluster \/ Edit \/ Recording
  BY <1>2 DEF NoCluster, Edit, EditManifest, EditReport, EditFacet, ApproveRecord, RuleRecord,
              Reset, Recording, RecordAssurance, VerdictInv, Judged
<1>3. CASE Start \/ GraphStep
  BY <1>3 DEF Start, Enter, GraphStep, Visit, Closed, Root, Descend, Finish, Searched, VerdictInv,
              Judged
<1>4. CASE UNCHANGED vars
  BY <1>4, SameWorkspace DEF vars, graph, VerdictInv, Judged
<1> QED BY <1>1, <1>2, <1>3, <1>4 DEF Next, GateStep

LEMMA Inductive == Spec => []IInv
<1>1. Init => IInv
  BY FilesStart DEF Init, IInv, ClosureInv, Searching, GraphInv, VerdictInv, Judged, Unread
<1>2. IInv /\ [Next]_vars => IInv'
  BY FilesKept, ClosureKept, GraphKept, VerdictKept DEF IInv
<1> QED BY <1>1, <1>2, PTL DEF Spec

-----------------------------------------------------------------------------
(* Theorems.                                                               *)

\* Exit code 0, degraded or not, means evidence: whatever the seeds require
\* through any number of work packages has one provider, whose record names
\* a proof that is still there, follows from the provider's manifest and
\* satisfies whoever requires it (gate-g14's closure and its findings).
THEOREM NothingReleasedUnproved == Spec => []ReleasedMeansProved
<1>1. IInv => ReleasedMeansProved
  BY DEF IInv, VerdictInv, AllProved, Proved, ReleasedMeansProved
<1> QED BY <1>1, Inductive, PTL

\* What gate-g14 releases, validate-closure refuses for nothing but a profile
\* out of its place: a condition the cluster file declares failing is one the
\* gate finds failing too, so a record that excuses all the gate finds names
\* all the file declares.
THEOREM ValidatorPassesReleased == Spec => []GateAgreesWithValidator
<1>1. IInv => GateAgreesWithValidator
  BY DEF IInv, VerdictInv, Agreed, GateAgreesWithValidator
<1> QED BY <1>1, Inductive, PTL

\* record-assurance writes what the gate accepts, and takes nothing from the
\* report it adds to: no obligation the gate accepted, no bridge record.
THEOREM RecordingKeepsAccepted == Spec => RecordingIsAccepted
<1>1. ASSUME FilesInv, NEW p \in PackageSet, NEW O \in SUBSET ObligationSet, RecordAssurance(p, O)
      PROVE  /\ \A o \in O \cup {x \in ObligationSet : Accepted(p, x)} : Accepted(p, o)'
             /\ \A b \in Bridges :
                  Readable(p) /\ b \in DOMAIN files.reports[p].bridges =>
                    files'.reports[p].bridges[b] = files.reports[p].bridges[b]
  <2>1. Recordable(p, O) /\ files' = [files EXCEPT !.reports[p] = Recorded(p, O)]
        /\ manifests' = manifests
    BY <1>1 DEF RecordAssurance
  <2>2. files'.reports[p] = Recorded(p, O) /\ files'.proofs = files.proofs
    BY <1>1, <2>1 DEF FilesInv, FileFacets
  <2>3. Base(p).package = p /\ (Readable(p) => Base(p) = files.reports[p])
    BY <2>1 DEF Recordable, Base, Blank, Readable, Present, NoReport
  <2> DEFINE new == Recorded(p, O)
  <2>4. /\ new.holds = "report" /\ new.package = Base(p).package
        /\ new.records = [o \in O \cup DOMAIN Base(p).records |->
                            IF o \in O THEN RecordOf(p) ELSE Base(p).records[o]]
        /\ \A b \in DOMAIN Base(p).bridges : new.bridges[b] = Base(p).bridges[b]
    BY <1>1, RecordedIs
  <2> HIDE DEF new
  <2>5. files'.reports[p] = new
    BY <2>2 DEF new
  <2>6. Readable(p)'
    BY <2>3, <2>4, <2>5 DEF Readable
  <2>7. ASSUME NEW o \in O PROVE Accepted(p, o)'
    <3>1. files'.reports[p].records[o] = RecordOf(p) /\ o \in DOMAIN files'.reports[p].records
      BY <2>4, <2>5
    <3>2. /\ p \in DOMAIN manifests /\ Certified(RecordOf(p), o)
          /\ Derived(manifests[p], RecordOf(p)) /\ Satisfies(manifests[p], RecordOf(p))
      BY <2>1, WorkspaceAssumption DEF Recordable, RecordOf, Certified, Derived, Satisfies
    <3> QED BY <2>1, <2>2, <2>6, <3>1, <3>2 DEF Accepted, Certified, Derived, Satisfies
  <2>8. ASSUME NEW o, Accepted(p, o), o \notin O PROVE Accepted(p, o)'
    <3>1. Readable(p) /\ Base(p) = files.reports[p] /\ o \in DOMAIN files.reports[p].records
      BY <2>3, <2>8 DEF Accepted
    <3>2. files'.reports[p].records[o] = files.reports[p].records[o]
          /\ o \in DOMAIN files'.reports[p].records
      BY <2>8, <2>4, <2>5, <3>1
    <3> QED BY <2>1, <2>2, <2>6, <2>8, <3>2 DEF Accepted, Certified, Derived, Satisfies
  <2>9. ASSUME NEW b, Readable(p), b \in DOMAIN files.reports[p].bridges
        PROVE  files'.reports[p].bridges[b] = files.reports[p].bridges[b]
    BY <2>3, <2>9, <2>4, <2>5
  <2> QED BY <2>7, <2>8, <2>9
<1>2. IInv => FilesInv
  BY DEF IInv
<1>3. FilesInv /\ [Next]_vars =>
        [\A p \in PackageSet : \A O \in SUBSET ObligationSet :
           RecordAssurance(p, O) =>
             /\ \A o \in O \cup {x \in ObligationSet : Accepted(p, x)} : Accepted(p, o)'
             /\ \A b \in Bridges :
                  Readable(p) /\ b \in DOMAIN files.reports[p].bridges =>
                    files'.reports[p].bridges[b] = files.reports[p].bridges[b]]_vars
  BY <1>1
<1> QED BY <1>2, <1>3, Inductive, PTL DEF Spec, RecordingIsAccepted

\* The closure that is searched ends as what the seeds reach through the
\* providers of what is required, and the one-at-a-time search for components
\* ends with the classes of obligations that depend on each other: whatever
\* the packages, and in whatever order compute_closure takes them.
THEOREM AlgorithmsAreRight == Spec => []AlgorithmsRight
<1>1. IInv => ClosureIsReach
  BY ClosureSpans DEF IInv, ClosureIsReach
<1>2. IInv => ComponentsAreMutual
  BY DEF IInv, GraphInv, ComponentsAreMutual, InClosure
<1>3. IInv => AlgorithmsRight
  BY <1>1, <1>2 DEF AlgorithmsRight
<1> QED BY <1>3, Inductive, PTL

\* A cluster that "closes" fails none of its conditions: not as the gate
\* evaluates them over the closure it found, but as the workspace has them,
\* up to the next edit of it.
THEOREM ClosingMeansConditions == Spec => []ClosesMeansConditionsHold
<1>1. IInv => ClosesMeansConditionsHold
  BY DEF IInv, VerdictInv, ClosesMeansConditionsHold
<1> QED BY <1>1, Inductive, PTL

\* A cluster that is "degraded" has a declared record, reviewed and ratified
\* as it stands, that names every condition the workspace fails.
THEOREM DegradingIsRuled == Spec => []DegradedIsRuled
<1>1. IInv => DegradedIsRuled
  BY DEF IInv, VerdictInv, RuledRecord, DegradedIsRuled
<1> QED BY <1>1, Inductive, PTL

===============================================================================
