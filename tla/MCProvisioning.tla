--------------------------- MODULE MCProvisioning ---------------------------
(* Provisioning with one or two registrations of the same email.           *)
EXTENDS Provisioning, TLC

CONSTANTS g1, g2

TwoRegs   == {g1, g2}

AllFaults == FaultKind
=============================================================================
