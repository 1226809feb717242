CONSTANTS
    Scripts = {"timeline"}
    MaxRuns = 2
    Cases = 2
    Smoke = 1
    Controls = 1
SPECIFICATION VerifierSpec
INVARIANTS GuardsReallyRun
CHECK_DEADLOCK FALSE
