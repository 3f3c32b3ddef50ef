-------------------------- MODULE MCGrantedWriters --------------------------
(* Instances of GrantedWriters for TLC. *)
EXTENDS GrantedWriters, TLC

CONSTANTS a1, a2, n, human, supervisor, plan, off, on, bare, v1, v2, lib, lock0, lock1, other

OneShot(f) ==
  [issue |-> n, paths |-> {f}, exact |-> TRUE, op |-> "write", oneShot |-> TRUE,
   issuer |-> human, ttl |-> 1]
Standing(f) == [OneShot(f) EXCEPT !.oneShot = FALSE]
Pattern == [OneShot("crate") EXCEPT !.paths = {"crate", "root"}, !.exact = FALSE, !.oneShot = FALSE]

NewWorkspace ==
  [f \in Files |-> CASE f = "root" -> off [] f = "lock" -> lock0 [] OTHER -> None]

BySupervisor(request) == [request EXCEPT !.issuer = supervisor]
MCRequests == {OneShot("crate"), Standing("manifest"),
               BySupervisor(OneShot("root")), Pattern}
TwoRequests == {OneShot("root"), Standing("crate")}
MCEdits == {<<"manifest", None>>, <<"root", off>>, <<"crate", bare>>}
OneList == {{}}
TwoLists == {{}, {supervisor}}

AllSteps == Steps
AllFaults == Steps \cup {"partial", "chmod"}
=============================================================================
