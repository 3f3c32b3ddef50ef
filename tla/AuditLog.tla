------------------------------ MODULE AuditLog ------------------------------
(***************************************************************************)
(* The append-only JSON-lines trails of ci/results/ as sequences: appending, *)
(* the truncating rollback, and what a reader accepts.  Lines have one      *)
(* length, so a file size is a number of elements.                          *)
(***************************************************************************)
EXTENDS Naturals, Sequences

CONSTANTS
  Fragment,  \* bytes that end in no newline: a line cut short, or NUL bytes
  Damaged    \* a line written behind a fragment, and one with it when read

\* open("a") and write: behind a fragment the first line is not a line of its own.
Appended(trail, lines) ==
  IF trail # <<>> /\ trail[Len(trail)] = Fragment
    THEN trail \o [lines EXCEPT ![1] = Damaged]
    ELSE trail \o lines

\* Mutant: the rollback forgets the log.
NotTruncated(trail, n) == trail

\* Mutant: the rollback unlinks the log instead of truncating it.
TruncatedToEmpty(trail, n) == <<>>

\* _rollback_audit_log: the size recorded before the append.  Past the end
\* truncate grows the file by NUL bytes; a log another rollback has unlinked
\* cannot be opened and stays absent.
TruncatedTo(trail, n) ==
  IF n <= Len(trail) THEN SubSeq(trail, 1, n)
  ELSE IF trail = <<>> THEN trail
  ELSE trail \o [k \in 1..(n - Len(trail)) |-> Fragment]

\* The readers refuse the whole trail for one line that does not parse.
Readable(trail) == \A k \in DOMAIN trail : trail[k] \notin {Fragment, Damaged}
=============================================================================
