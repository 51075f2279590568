----------------------------- MODULE MCServices -----------------------------
(* Services with two requests (or instances) at once.                      *)
EXTENDS Services

CONSTANTS c1, c2, i1, i2, d1, d2, d3

TwoClients   == {c1, c2}
TwoInvites   == {i1, i2}
DeadEvents   == {d1, d2, d3}
OfOneSource  == {d1, d3}
=============================================================================
