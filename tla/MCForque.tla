------------------------------ MODULE MCForque ------------------------------
(* Forque with a few items and a few tags. *)
EXTENDS Forque

CONSTANTS a, b    \* two keys

Flat   == {<<a>>, <<b>>}
Nested == {<<a>>, <<a, a>>, <<a, b>>}

Dynamic == {<<>>, <<a>>, <<b>>, <<a, b>>, <<a, b, a>>}

One == {<<a>>}
Two == {<<a>>, <<a, a>>}

Symmetry == Permutations(Items)
=============================================================================
