--------------------------- MODULE MCConsoleInput ---------------------------
(* Instances of ConsoleInput: bursts of up to three characters, and rings    *)
(* that wrap and just hold what is typed.                                    *)
EXTENDS ConsoleInput

mcGetc == {"getc"}
mcBoth == {"getc", "poll"}

\* PutAll() is one Put() after the other, wherever the ring's head and tail are.
ASSUME PutAllIsPuts ==
  \A q \in [0..2 -> {7, 8, 9}], head, tail \in 0..2, len \in 0..3,
     cs \in UNION {[1..k -> Chars] : k \in 0..3} :
    LET r == [q |-> q, head |-> head, tail |-> tail, len |-> len]
    IN  PutAll(r, cs) = FoldLeft(Put, r, cs)
=============================================================================
