----------------------------- MODULE MCEconomy -----------------------------
EXTENDS Economy
CONSTANTS n1, n2, d1, p, a, b, m1

Pick(n, side, paid) == [node |-> n, side |-> side, paid |-> paid]
FewPicks == {Pick(n1, "yes", TRUE), Pick(n2, "no", TRUE), Pick(n2, "yes", TRUE), Pick(n2, "yes", FALSE)}

\* The predictor and one resolver stake much or little, two stake common reputation.
Offer(n, rep, amount) == [node |-> n, rep |-> rep, amount |-> amount]
FewOffers ==
  {Offer(p, "oracle", 3), Offer(a, "oracle", 3),
   Offer(b, "oracle", 1), Offer(a, "common", 1), Offer(b, "common", 1)}

Renamings == {<<p, b>>, <<b, a>>}
=============================================================================
