CONSTANTS
    MaxEdits = 1
    Releases <- Versions
    Scripts <- AllScripts
    MaxRuns = 2
    Cases = 3
    Smoke = 2
    Controls = 2
SPECIFICATION Spec
INVARIANTS InstalledWhole RefusedUntouched FreshBuild PassIsWhole PassIsFresh
CHECK_DEADLOCK FALSE
