----------------------------- MODULE MCMainLoop -----------------------------
EXTENDS MainLoop
CONSTANTS x1, x2

Base == [unit |-> "rollouts", target |-> 2, maxSteps |-> 0, maxGroups |-> 0,
         minSteps |-> 0, minGroups |-> 0, multiple |-> 0, evalInterval |-> 0]

MCConfigs ==
    { [Base EXCEPT !.maxSteps = 2, !.evalInterval = 2],
      [Base EXCEPT !.unit = "tokens", !.target = 3, !.maxGroups = 3],
      [Base EXCEPT !.minSteps = 1, !.minGroups = 2, !.multiple = 2],
      [Base EXCEPT !.target = 1, !.maxSteps = 2, !.minSteps = 1, !.minGroups = 1, !.multiple = 2] }

MCMaxFaults(c) == IF c.evalInterval > 0 THEN 0 ELSE 2
=============================================================================
