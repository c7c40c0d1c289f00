----------------------------- MODULE MCLoading -----------------------------
(***************************************************************************)
(* An instance of Loading for TLC: three load threads, and files of up to  *)
(* six lines in which a boundary can fall anywhere: empty files, more      *)
(* threads than lines, lines that take up a whole part, and files that say *)
(* they have no edge and have none.                                        *)
(***************************************************************************)
EXTENDS Loading

Edge(bytes, u, v) == [kind |-> "edge", bytes |-> bytes, u |-> u, v |-> v]
Other(bytes, kind) == [kind |-> kind, bytes |-> bytes]

SomeLines ==
  {Edge(1, 1, 2), Edge(4, 2, 3), Edge(2, 2, 2), Edge(2, 4, 1),
   Other(1, "blank"), Other(5, "comment"), Other(3, "bad")}

\* The lines follow one another, each as long as it is.
FileOf(format, first_id, header, lines) ==
  [format |-> format, first_id |-> first_id, header |-> header, lines |-> lines,
   starts |-> [i \in 1 .. Len(lines) + 1 |->
                 MapThenSumSet(LAMBDA k : lines[k].bytes, 1 .. i - 1)]]
Counts(n, m) == [good |-> TRUE, n |-> n, columns |-> n, m |-> m]
BadHeader == [good |-> FALSE]

Bodies == BoundedSeq(SomeLines, 3)

SomeFiles ==
  {FileOf("bare", 0, BadHeader, b) : b \in Bodies}
  \cup {FileOf("bare", 1, BadHeader, [i \in 1 .. 6 |-> Edge(i, 1, 2)])}
  \cup {FileOf("counted", 1, Counts(n, 2), b) : n \in {0, 3, 4}, b \in BoundedSeq(SomeLines, 2)}
  \cup {FileOf("counted", 1, Counts(n, 0), b) : n \in {1, 3}, b \in BoundedSeq({Other(1, "blank")}, 1)}
  \cup {FileOf("matrix", 1, h, <<Edge(3, 1, 2), Edge(2, 2, 3), Edge(2, 3, 1), Edge(9, 1, 2)>>) :
          h \in {BadHeader, Counts(3, 4), Counts(3, 5), Counts(6, 4),
                 [good |-> TRUE, n |-> 3, columns |-> 4, m |-> 4]}}

=============================================================================
