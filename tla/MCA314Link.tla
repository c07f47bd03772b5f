------------------------------ MODULE MCA314Link ------------------------------
(* Small instances of A314Link: short packets in a short ring. *)
EXTENDS A314Link

Threes(n) == [k \in 0..n |-> 3 * k]
A2RThrees == Threes(A2RCount)
R2AThrees == Threes(R2ACount)
\* after a packet of four bytes, packets of which two are one turn of a ring of six bytes
R2ATurn == [k \in 0..R2ACount |-> IF k = 0 THEN 0 ELSE 3 * k + 1]
=============================================================================
