------------------------------ MODULE BitFields ------------------------------
(***************************************************************************)
(* Register contents as sets: a number is the set of the positions of its  *)
(* bits that are 1, a mask is the set of its positions.  A driver call is  *)
(* the sequence of its register writes.                                    *)
(***************************************************************************)
EXTENDS Integers, Sequences

Bits(n)    == { i \in 0 .. 17 : (n \div 2 ^ i) % 2 = 1 }
Up(s, k)   == { i + k : i \in s }
Down(s, k) == { i - k : i \in { j \in s : j >= k } }

\* The usual read-modify-write: the bits of the mask are replaced.
Field(old, mask, new) == (old \ mask) \cup new

\* A bit that a Boolean argument sets.
If(b, s) == IF b THEN s ELSE {}

W(offset, value) == [reg |-> offset, val |-> value]

\* The settings of f and those of g.
f ++ g == [s \in DOMAIN f \cup DOMAIN g |-> IF s \in DOMAIN f THEN f[s] ELSE g[s]]
=============================================================================
