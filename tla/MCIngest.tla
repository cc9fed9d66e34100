----------------------------- MODULE MCIngest -----------------------------
(* Instances of Ingest for TLC. *)
EXTENDS Ingest, TLC

One(s, X) == [series |-> s, samples |-> X]

\* write with one or two samples, and write_batch over two series.
MCBatches ==
    {<<One(s, {x})>> : s \in Series, x \in Samples}
      \cup {<<One(s, {x, x + 1})>> : s \in Series, x \in {y \in Samples : y + 1 \in Samples}}
      \cup {<<One(p[1], {p[3]}), One(p[2], {p[3] + 1})>> :
              p \in {q \in Series \X Series \X Samples :
                       q[1] # q[2] /\ q[3] + 1 \in Samples}}

\* The batches of different writers and series are interchangeable.
MCSymmetry == Permutations(Writers) \cup Permutations(Series)
=============================================================================
