----------------------------- MODULE MCAccounts -----------------------------
(* Accounts with one or two requests and consumers.                        *)
EXTENDS Accounts, TLC

CONSTANTS r1, r2, w1, w2

TwoRequests  == {r1, r2}
OneConsumer  == {w1}
TwoConsumers == {w1, w2}

AllOps       == {"get", "delete", "hardDelete", "becomeSeller"}
ReadAndWrite == {"get", "delete", "hardDelete"}
Deletions    == {"delete"}

DatabaseFaults == {"database", "request"}
RedisFaults    == {"redis"}
NoFault        == {}

\* Requests and consumers are interchangeable in every safety property.
Symmetric == Permutations({r1, r2}) \cup Permutations({w1, w2})
=============================================================================
