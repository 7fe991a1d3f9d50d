---------------------------- MODULE MCWebSession ----------------------------
EXTENDS WebSession
CONSTANTS r1, r2, r3, t1, t2
\* r1 and r2 are made by one page, r3 by another.
TwoTabs == [r \in Requests |-> IF r = r3 THEN t2 ELSE t1]
=============================================================================
