----------------------------- MODULE WriteGrants -----------------------------
(***************************************************************************)
(* The grants of ci/results/protected-writes.jsonl: what a reader accepts as *)
(* authority to write a protected file at some moment.                      *)
(*                                                                         *)
(* A grant id is a hash of the binding, so a grant is its binding, and two   *)
(* lines with one id are equal lines.  A path pattern is the set of files it *)
(* covers.  The descriptor protects the files of Protected and not the       *)
(* ledger; a grant over other files is never recorded.                      *)
(***************************************************************************)
EXTENDS AuditLog, FiniteSets

CONSTANTS
  Issues,      \* issues grants are scoped to
  Humans,      \* issuers of the human lane
  Supervisors  \* issuers of the supervisor lane, declared or not

ASSUME IssuerAssumption == Humans \cap Supervisors = {}

\* The files protected roots cover that some command writes.
Protected == {"manifest", "root", "crate"}

\* What an issuer asks for: the binding but for its time.
Request ==
  [issue : Issues, paths : SUBSET Protected, exact : BOOLEAN,
   op : {"write", "delete"}, oneShot : BOOLEAN, issuer : Humans \cup Supervisors,
   ttl : Nat]

Grant ==
  [event : {"grant"}, request : Request, issuedAt : Nat]

GrantOf(request, moment) ==
  [event |-> "grant", request |-> request, issuedAt |-> moment]

\* parse_grant, and the refusals of authorize_write on the request itself.
WellBound(request) ==
  /\ request.paths # {} /\ request.ttl > 0
  /\ request.exact => Cardinality(request.paths) = 1
  /\ request.oneShot => request.exact

\* The supervisor lane is a whitelist of the descriptor.
Issuable(request, declared) == request.issuer \in Humans \cup declared

\* The lines that are grants; a line that does not parse is none.
GrantLines(trail) ==
  {k \in DOMAIN trail : trail[k] \notin {Fragment, Damaged} /\ trail[k].event = "grant"}

Recorded(trail) == {trail[k] : k \in GrantLines(trail)}

\* Mutant: the end of the window is not looked at.
LiveUnexpired(trail, issue, declared, now) ==
  {k \in GrantLines(trail) :
     LET g == trail[k] IN
     /\ g.request.issue = issue
     /\ g.issuedAt <= now
     /\ Issuable(g.request, declared)}

\* The lines with status `active`: the last of its id, for this issue, within
\* its window, of an issuer the descriptor still names.
Live(trail, issue, declared, now) ==
  {k \in GrantLines(trail) :
     LET g == trail[k] IN
     /\ \A l \in GrantLines(trail) : trail[l] = g => l <= k
     /\ g.request.issue = issue
     /\ g.issuedAt <= now /\ now < g.issuedAt + g.request.ttl
     /\ Issuable(g.request, declared)}

Covers(g, p) == p \in g.request.paths /\ g.request.op = "write"

\* The active write grants for exactly p, as the locked writers want them.
ExactLines(trail, p, issue, declared, now) ==
  {k \in Live(trail, issue, declared, now) : Covers(trail[k], p) /\ trail[k].request.exact}

\* The active write grants over p, patterns included, as scaffold-crate and
\* write-set-check want them.
CoveringLines(trail, p, issue, declared, now) ==
  {k \in Live(trail, issue, declared, now) : Covers(trail[k], p)}

\* The last of them authorizes: a later grant supersedes.
IsLast(k, lines) == k \in lines /\ \A l \in lines : l <= k

\* Grants over p recorded twice; generate-work-package refuses them for good.
Replayed(trail, p) ==
  \E k, l \in GrantLines(trail) :
    k # l /\ trail[k] = trail[l] /\ p \in trail[k].request.paths
=============================================================================
