------------------------------ MODULE Sifting ------------------------------
(* Sequences from which some elements are left out.                        *)
EXTENDS Integers, Sequences, FiniteSets

\* What is left of q when only its elements in T stay, after each of its places.
KeptUpTo(q, T) ==
  LET kept[i \in 0 .. Len(q)] ==
        IF i = 0 THEN <<>>
        ELSE IF q[i] \in T THEN Append(kept[i - 1], q[i]) ELSE kept[i - 1]
  IN kept

Kept(q, T) == KeptUpTo(q, T)[Len(q)]

\* How many of them there are.
Count(q, T) == Cardinality({i \in 1 .. Len(q) : q[i] \in T})
=============================================================================
