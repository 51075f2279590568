----------------------------- MODULE MCSessions -----------------------------
(* Sessions on small instances: families and requests are model values.    *)
EXTENDS Sessions, TLC

CONSTANTS f1, f2, r1, r2

TwoFamilies   == {f1, f2}
TwoRequests   == {r1, r2}

AllFaults     == {"request", "consumer"}
NoFault       == {}

Symmetry == Permutations(Family) \cup Permutations(Request)
=============================================================================
