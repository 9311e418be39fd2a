\* The selective core on the traces of MCCoreTraces, those that a limit truncated
\* among them.
SPECIFICATION SelectiveSpec
CONSTANTS
    None = None
    Inputs <- MCInputs
    Confidences = {50, 85, 96}
    Traces <- SelectedTraces
    Cases <- SelectedCases
    Scores = {10, 70, 76, 80}
    MaxSpans = 2
    PerRequirement = 1
    MaxRequirements = 2
INVARIANT TruncationSuppressesGreen
CHECK_DEADLOCK FALSE
