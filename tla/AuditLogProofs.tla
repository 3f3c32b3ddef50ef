--------------------------- MODULE AuditLogProofs ---------------------------
(* What appending to a trail and rolling it back preserve, for any set of   *)
(* lines: the lemmas the proofs about the trails' writers rest on.          *)
EXTENDS AuditLog, TLAPS

\* What concatenation keeps of its left operand.
LEMMA ConcatKeeps ==
  ASSUME NEW Lines, NEW trail \in Seq(Lines), NEW new \in Seq(Lines)
  PROVE  /\ trail \o new \in Seq(Lines)
         /\ Len(trail \o new) = Len(trail) + Len(new)
         /\ \A k \in DOMAIN trail : (trail \o new)[k] = trail[k]
  OBVIOUS

\* What concatenation puts behind its left operand.
LEMMA ConcatNew ==
  ASSUME NEW Lines, NEW trail \in Seq(Lines), NEW new \in Seq(Lines), NEW n \in 1..Len(new)
  PROVE  (trail \o new)[Len(trail) + n] = new[n]
  OBVIOUS

\* Appending to a trail, behind a fragment or not, adds that many elements and
\* changes none: the append of every writer of ci/results/.
LEMMA AppendedKeeps ==
  ASSUME NEW Lines, Damaged \in Lines,
         NEW trail \in Seq(Lines), NEW new \in Seq(Lines), new # <<>>
  PROVE  /\ Appended(trail, new) \in Seq(Lines)
         /\ Len(Appended(trail, new)) = Len(trail) + Len(new)
         /\ \A k \in DOMAIN trail : Appended(trail, new)[k] = trail[k]
<1>1. CASE trail # <<>> /\ trail[Len(trail)] = Fragment
  <2> DEFINE glued == [new EXCEPT ![1] = Damaged]
  <2>1. glued \in Seq(Lines) /\ Len(glued) = Len(new)
    OBVIOUS
  <2>2. Appended(trail, new) = trail \o glued
    BY <1>1 DEF Appended
  <2> HIDE DEF glued
  <2>3. /\ trail \o glued \in Seq(Lines)
        /\ Len(trail \o glued) = Len(trail) + Len(glued)
        /\ \A k \in DOMAIN trail : (trail \o glued)[k] = trail[k]
    BY <2>1, ConcatKeeps
  <2> QED BY <2>1, <2>2, <2>3
<1>2. CASE ~(trail # <<>> /\ trail[Len(trail)] = Fragment)
  <2>1. Appended(trail, new) = trail \o new
    BY <1>2 DEF Appended
  <2> QED BY <2>1, ConcatKeeps
<1> QED BY <1>1, <1>2

\* A rollback leaves a trail of lines and fragments.
LEMMA TruncatedType ==
  ASSUME NEW Lines, Fragment \in Lines, NEW trail \in Seq(Lines), NEW n \in Nat
  PROVE  TruncatedTo(trail, n) \in Seq(Lines)
<1>1. CASE n <= Len(trail)
  BY <1>1 DEF TruncatedTo
<1>2. CASE n > Len(trail) /\ trail # <<>>
  <2>1. n - Len(trail) \in Nat
    BY <1>2
  <2>2. [k \in 1..(n - Len(trail)) |-> Fragment] \in Seq(Lines)
    BY <2>1
  <2> QED BY <1>2, <2>2 DEF TruncatedTo
<1>3. CASE n > Len(trail) /\ trail = <<>>
  BY <1>3 DEF TruncatedTo
<1> QED BY <1>1, <1>2, <1>3

\* A rollback to the size recorded before an append nobody else followed gives
\* back the trail that was there: the all-or-nothing of the writers rests on it.
LEMMA RollbackUndoesAppend ==
  ASSUME NEW Lines, Damaged \in Lines,
         NEW trail \in Seq(Lines), NEW new \in Seq(Lines), new # <<>>
  PROVE  TruncatedTo(Appended(trail, new), Len(trail)) = trail
<1> DEFINE grown == Appended(trail, new)
           back == SubSeq(grown, 1, Len(trail))
<1>1. /\ grown \in Seq(Lines)
      /\ Len(grown) = Len(trail) + Len(new)
      /\ \A k \in DOMAIN trail : grown[k] = trail[k]
  BY AppendedKeeps
<1>2. TruncatedTo(grown, Len(trail)) = back
  BY <1>1 DEF TruncatedTo
<1> HIDE DEF grown
<1>3. Len(back) = Len(trail) /\ \A k \in 1..Len(trail) : back[k] = trail[k]
  BY <1>1
<1>4. back \in Seq(Lines)
  BY <1>1
<1>5. back = trail
  BY <1>3, <1>4
<1> QED BY <1>2, <1>5 DEF grown

\* Behind a trail of whole entries an entry is a line of its own.
LEMMA ReadableGrows ==
  ASSUME NEW Entries, Fragment \notin Entries, Damaged \notin Entries,
         NEW trail \in Seq(Entries \cup {Fragment, Damaged}), Readable(trail),
         NEW new \in Seq(Entries)
  PROVE  Appended(trail, new) = trail \o new /\ Readable(Appended(trail, new))
<1>1. Appended(trail, new) = trail \o new
  BY DEF Appended, Readable
<1>2. ASSUME NEW k \in DOMAIN (trail \o new)
      PROVE  (trail \o new)[k] \notin {Fragment, Damaged}
  <2>1. CASE k <= Len(trail)
    BY <2>1 DEF Readable
  <2>2. CASE k > Len(trail)
    <3>1. k - Len(trail) \in DOMAIN new /\ (trail \o new)[k] = new[k - Len(trail)]
      BY <2>2
    <3>2. new[k - Len(trail)] \in Entries
      BY <3>1
    <3> QED BY <3>1, <3>2
  <2> QED BY <2>1, <2>2
<1> QED BY <1>1, <1>2 DEF Readable
=============================================================================
