----------------------------- MODULE MCMultiRun -----------------------------
EXTENDS MultiRun
CONSTANTS r1, r2
MCBatches == [r \in Run |-> IF r = r1 THEN 2 ELSE 1]
=============================================================================
