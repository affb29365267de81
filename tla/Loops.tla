------------------------------- MODULE Loops --------------------------------
(* The loops of the passes: what a C loop leaves in its accumulator. *)
EXTENDS Integers, Sequences

(* `for (i = lo; i < hi; i++) acc = Op(acc, i)`.  No set {a} is empty: the
   test makes TLC evaluate the accumulator at every turn. *)
For(lo, hi, acc, Op(_, _)) ==
    LET RECURSIVE from(_, _)
        from(i, a) == IF i >= hi \/ {a} = {} THEN a ELSE from(i + 1, Op(a, i))
    IN  from(lo, acc)

(* The same over the elements of a sequence. *)
ForEach(seq, acc, Op(_, _)) ==
    LET Nth(a, i) == Op(a, seq[i]) IN For(1, Len(seq) + 1, acc, Nth)

(* `while (~Done(x) && n-- > 0) x = Step(x)`, by halves: TLC's stack then
   grows with the logarithm of n. *)
While(x, n, Done(_), Step(_)) ==
    LET RECURSIVE after(_, _)
        after(y, k) == IF k = 0 \/ Done(y) THEN y
                       ELSE IF k = 1 THEN Step(y)
                       ELSE after(after(y, k \div 2), k - k \div 2)
    IN  after(x, n)
=============================================================================
