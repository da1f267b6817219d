-------------------------------- MODULE Once --------------------------------
(* For operators on large values.  A value computed once and used many times:  *)
(* TLC expands a LET definition wherever it occurs, but enumerates a set only  *)
(* once.  And a fold by a recursive function: that of the community modules    *)
(* looks for the greatest index at every element.                              *)
EXTENDS Integers, Sequences

\* Op(v), with v evaluated once.
With(v, Op(_)) == CHOOSE r \in {Op(u) : u \in {v}} : TRUE

\* Op(...Op(Op(base, seq[1]), seq[2])..., seq[Len(seq)]).
Accumulate(Op(_, _), base, seq) ==
  LET sum[k \in 0..Len(seq)] == IF k = 0 THEN base ELSE Op(sum[k - 1], seq[k])
  IN  sum[Len(seq)]
=============================================================================
