-------------------------- MODULE MCConsolidatedCheck --------------------------
(* Workspaces for ConsolidatedCheck: two concepts of one crate, one bridge, *)
(* one witness, and the files and documents around them.                    *)
EXTENDS ConsolidatedCheck

Run == <<"A", "run">>
Help == <<"A", "help">>
Ok == <<"B", "ok">>
Put == <<"B", "put">>

Body(calls, bool) == [calls |-> calls, binds |-> {"f"}, bool |-> bool, quiet |-> TRUE]
Call(form, owner, name) == [form |-> form, owner |-> owner, name |-> name]
ToOk == Call("path", "B", "ok")
ToPut == Call("path", "B", "put")
ToHelp == Call("self", "Self", "help")
SomePut == Call("receiver", "x", "put")
SomeOk == Call("receiver", "x", "ok")
Bare == Call("bare", "x", "f")

Program(run, ok) ==
  (Run :> Body(run, FALSE)) @@ (Help :> Body(<<>>, FALSE)) @@ (Ok :> ok)
    @@ (Put :> Body(<<>>, FALSE))
Inquire == Body(<<>>, TRUE)
Program1 == Program(<<ToHelp, ToOk, SomePut, Bare>>, Inquire)

Target(f) == [target |-> "linux", features |-> f]
MCConfigs == {Target({}), [target |-> "mac", features |-> {"x"}]}
Declares(edges) == [e \in edges |-> Target({})]
Both == {<<Run, Ok>>, <<Run, Put>>}

\* A report of `src` with every open call judged to be low.
Accepted(src) ==
  LET calls == Extracted(src, {})
  IN [config |-> Target({}),
      calls |-> [id \in DOMAIN calls |->
        IF Unresolved(calls[id]) THEN [calls[id] EXCEPT !.tier = "low", !.by = "human"]
        ELSE calls[id]]]
JudgedIn(rep) == {<<r.id[1], r.call>> : r \in {q \in Range(rep.calls) : Unresolved(q)}}

Verifiers == {"creusot", "kani"}
MCCompiles == [creusot |-> {1, 2}, kani |-> {1}]
Harnesses == {"b"} \X Verifiers
Harness1 == [h \in Harnesses |-> IF h[2] = "creusot" THEN <<1, "creusot">> ELSE None]
Passing == [verifier |-> "creusot", source |-> <<1, "creusot">>, result |-> "pass"]
Answering(state) == [creusot |-> state, kani |-> "ok"]

Witness(id, seed) == [id |-> id, seed |-> seed, renderer |-> "svg", hash |-> seed, valid |-> TRUE]
Result(seed) == [feature |-> "q", seed |-> seed, renderer |-> "svg"]
Prints(seed, valid) ==
  [w |-> [feature |-> "q", seed |-> seed, renderer |-> "svg", hash |-> seed, valid |-> valid]]
At(c, x) == [at \in {"k", "l"} \X {"q"} |-> IF at[1] = c THEN x ELSE None]

File(name, dir, holds) == [name |-> name, dir |-> dir, holds |-> holds]
Spec1 == File("spec", "artifacts", "artifact")
Draft1 == File("draft", "artifacts", "draft")
Note == File("note", "artifacts", "other")
Code == File("code", "elsewhere", "other")
Stray == File("stray", "elsewhere", "other")
Test == File("test", "elsewhere", "other")
Ported == File("ported", "port", "other")
Tool == File("tool", "elsewhere", "other")
Roots(allowed, protected, everything) ==
  [allowed |-> allowed, protected |-> protected, everything |-> everything]
MCRoots == Roots({"code"}, {"spec", "draft", "note", "test"}, FALSE)

Pin(pinned, hash, text) == [declared |-> pinned, recorded |-> hash, text |-> text]
Artifact(text, receipts) == [text |-> text, receipts |-> receipts]

Workspace(src, edges, rep) ==
  [source |-> src, declared |-> Declares(edges), report |-> rep,
   judged |-> IF rep = None THEN {} ELSE JudgedIn(rep),
   bridges |-> [b |-> 1], owners |-> [b |-> {"creusot"}], backends |-> Answering("ok"),
   harness |-> Harness1, checks |-> [b |-> Passing],
   reported |-> [b |-> {}],
   passed |-> {<<"b", <<1, "creusot">>>>},
   required |-> [q |-> 1], specs |-> At("k", Witness("w", 1)),
   results |-> [w |-> Result(1)], rendered |-> {"q"}, regenerates |-> Prints(1, TRUE),
   tree |-> {Spec1, Draft1, Code, Ported}, roots |-> MCRoots, managed |-> {"tool"},
   grants |-> {<<1, "test">>}, issue |-> 1,
   setup |-> [descriptor |-> "valid", policy |-> 1, reviewed |-> 1, closure |-> "clean",
              validators |-> "clean"],
   pins |-> [g |-> Pin(TRUE, 1, 1), h |-> Pin(FALSE, None, 1)],
   artifacts |-> [a |-> Artifact(1, <<2, 1>>)], drafts |-> <<>>]

\* Released, by a verifier that is gone by now; and never refreshed.
Done == [Workspace(Program1, {<<Run, Ok>>}, Accepted(Program1)) EXCEPT !.backends = Answering(None)]
Fresh ==
  [Workspace(Program1, {<<Run, Ok>>}, None) EXCEPT
     !.bridges["b"] = 2, !.harness = [h \in Harnesses |-> None], !.checks = [b |-> None],
     !.passed = {}, !.rendered = {}, !.drafts = <<TRUE>>]
MCStarts == {Done, Fresh}

MCEdits ==
  [source |-> {Program(<<ToHelp, ToOk, ToPut, SomePut>>, Inquire),
               Program(<<ToHelp, ToOk, SomeOk, Bare>>, Inquire),
               Program(<<ToHelp, ToOk, SomePut, Bare>>, Body(<<ToPut>>, TRUE)),
               Program(<<ToOk>>, [Inquire EXCEPT !.binds = {}])},
   declared |-> {Declares({}), Declares(Both)},
   bridges |-> {[b |-> None], [b |-> 1], [b |-> 2]},
   owners |-> {[b |-> {"kani"}], [b |-> Verifiers]},
   backends |-> {Answering(None), Answering("broken"), Answering("ok")},
   harness |-> {<<2, "creusot">>, <<9, "hand">>},
   reported |-> {[b |-> {[source |-> <<2, "creusot">>, result |-> "pass"]}]},
   required |-> {[q |-> 0], [q |-> 2]},
   spec |-> {None, Witness("w", 1), Witness("w", 2), [Witness("w", 1) EXCEPT !.valid = FALSE]},
   results |-> {[w |-> None], [w |-> Result(2)]},
   regenerates |-> {None, Prints(2, TRUE), Prints(1, FALSE)},
   renderers |-> {"svg"},
   files |-> {Note, Stray, Test, Tool},
   roots |-> {Roots({"code", "note"}, {"spec"}, FALSE), Roots({"code"}, {}, FALSE),
              Roots({"code"}, {"spec"}, TRUE)},
   grants |-> {{}, {<<1, "note">>}, {<<2, "note">>}},
   issues |-> {None, 2},
   setup |-> [descriptor |-> {"absent", "invalid", "template"}, policy |-> {None, 2, 9},
              reviewed |-> {2}, closure |-> {None, "high"}, validators |-> {"high", "unreviewed"}],
   pin |-> {Pin(TRUE, 1, 2), Pin(TRUE, None, 1), Pin(FALSE, 1, None)},
   artifact |-> {Artifact(None, <<1>>), Artifact(2, <<2, 1>>), Artifact(1, <<>>)},
   drafts |-> {<<TRUE>>, <<FALSE, TRUE>>}]
=============================================================================
