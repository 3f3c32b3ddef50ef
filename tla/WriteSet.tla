------------------------------- MODULE WriteSet -------------------------------
(***************************************************************************)
(* check_write_set (write_set.py): who accounts for each file of the       *)
(* workspace.  A file is [name, dir, holds]: `dir` the part of the layout  *)
(* it lies in, `holds` what its name and contents make of it.              *)
(***************************************************************************)
EXTENDS Absent, FiniteSets

VARIABLES
  tree,     \* the files of the workspace
  roots,    \* write_set: the names allowed and protected, and whether some
            \* allowed pattern matches every path
  managed,  \* names the ownership manifest and the descriptor declare
  grants,   \* the active write grants: <<issue, name>>
  issue     \* the --issue of the run, or None

writeVars == <<tree, roots, managed, grants, issue>>

InPort(f) == f.dir = "port"

\* A recognised pipeline artifact, or the staged draft of one.
Recognised(f) == f.dir = "artifacts" /\ f.holds \in {"artifact", "draft"}

Vouched(f) == f.name \in managed \/ Recognised(f)

\* Mutant: a grant serves whichever issue the run is about.
GrantedToAny(f) == issue # None /\ \E g \in grants : g[2] = f.name

Granted(f) == issue # None /\ <<issue, f.name>> \in grants

Audited == {f \in tree : ~InPort(f) /\ f.name \notin roots.allowed}

\* A file nobody accounts for in a protected root where the pipeline writes;
\* elsewhere in one the check cannot attribute it, and only counts it.
ProtectedWrites ==
  {f \in Audited : f.name \in roots.protected /\ ~Vouched(f) /\ ~Granted(f)
                     /\ f.dir = "artifacts"}

OutOfSet ==
  {f \in Audited : f.name \notin roots.protected /\ ~Vouched(f) /\ f.dir = "elsewhere"}

WriteSetClean ==
  ~roots.everything /\ roots.protected # {} /\ ProtectedWrites = {} /\ OutOfSet = {}

=============================================================================
