--------------------------------- MODULE Lists ---------------------------------
(***************************************************************************)
(* What the code does to Python lists, as folds: the provers can unfold a  *)
(* fold, which they cannot do to SelectSeq.                                *)
(***************************************************************************)
EXTENDS Sequences, SequencesExt

\* [x for x in s if x != e]
Without(s, e) ==
    FoldLeft(LAMBDA kept, x : IF x = e THEN kept ELSE Append(kept, x), <<>>, s)
=============================================================================
