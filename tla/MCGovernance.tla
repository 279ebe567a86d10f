--------------------------- MODULE MCGovernance ---------------------------
EXTENDS Governance

CONSTANTS n1, n2

\* One node has won a market before the filing; the other, two or none.
OneAndOther == {[n \in {n1, n2} |-> IF n = n1 THEN {0} ELSE other] : other \in {{}, {0}}}
=============================================================================
