---------------------------- MODULE MCRoundTrip -----------------------------
EXTENDS RoundTrip

MCLevels == {<<10000, 10000>>, <<10000, 12000>>, <<200, 314>>}

\* A hundredth of a loan, so that a loan of 100 pays one.
MCPremium == [loan \in Loans |-> loan \div 100]
=============================================================================
