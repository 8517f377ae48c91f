----------------------------- MODULE SeqFilter -----------------------------
(***************************************************************************)
(* The `retain` and "push what is missing" loops of executor.rs, the lines *)
(* of a file that boot.rs keeps and the two halves of its stable sort, as  *)
(* one operator on sequences.  It is SelectSeq with the predicate given as *)
(* a set, written as a recursive function so that its properties can be    *)
(* proved (SeqFilterProofs): the prover has no definition of SelectSeq.    *)
(***************************************************************************)
EXTENDS Integers, Sequences, SequencesExt

\* The elements of s that belong to A, in the order they have in s.
Keep(s, A) ==
    LET Kept[i \in 0..Len(s)] ==
            IF i = 0 THEN << >>
            ELSE IF s[i] \in A THEN Append(Kept[i - 1], s[i])
            ELSE Kept[i - 1]
    IN  Kept[Len(s)]

\* s followed by the elements of more that s does not hold yet.
AppendMissing(s, more) == s \o Keep(more, Range(more) \ Range(s))
=============================================================================
