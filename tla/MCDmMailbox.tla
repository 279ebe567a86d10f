---------------------------- MODULE MCDmMailbox ----------------------------
EXTENDS DmMailbox

CONSTANTS alice, bob, m1, m2, m3

TwoOfAlice == [m \in {m1, m2, m3} |-> IF m = m3 THEN bob ELSE alice]
=============================================================================
