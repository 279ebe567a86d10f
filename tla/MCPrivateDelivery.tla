------------------------- MODULE MCPrivateDelivery -------------------------
EXTENDS PrivateDelivery

CONSTANTS i1, i2

ScopedAndOther ==
  {[i \in {i1, i2} |-> IF i = i1 THEN "scoped" ELSE other] : other \in {"dm", "gate"}}

Report(tier, rnsEnabled, rns, hidden, anonymous, attested) ==
  [tier |-> tier, rnsEnabled |-> rnsEnabled, rns |-> rns, hidden |-> hidden,
   anonymous |-> anonymous, attested |-> attested]

\* Degraded; Tor alone, attestation out of date; Tor alone, anonymous; Tor and
\* Reticulum with the peer away; both ready.
TransportReports ==
  {Report(0, FALSE, FALSE, FALSE, FALSE, TRUE),
   Report(2, FALSE, FALSE, TRUE, FALSE, FALSE),
   Report(2, FALSE, FALSE, TRUE, TRUE, TRUE), Report(3, TRUE, FALSE, TRUE, FALSE, TRUE),
   Report(3, TRUE, TRUE, TRUE, FALSE, TRUE)}
=============================================================================
