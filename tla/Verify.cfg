\* The traces of MCVerify through the profiles, those of MCCoreTraces through the
\* selective core, those of MCLocalCases through the local judges.
SPECIFICATION MCSpec
CONSTANTS
    None = None
    Inputs <- MCInputs
    Confidences = {50, 85, 96}
    Traces <- SelectedTraces
    Cases <- SelectedCases
    Scores = {10, 70, 76, 80}
    MaxSpans = 2
    PerRequirement = 1
    MaxRequirements = 2
INVARIANTS CleanBillIsEarned CausesMatchFailures NoSilentDisagreement  
CHECK_DEADLOCK FALSE
