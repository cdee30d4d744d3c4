SPECIFICATION Spec
CONSTANTS
    w1 = w1
    w2 = w2
    Writers <- TwoWriters
    Interval = 2
    MaxEvents = 3
    Severity = {"S0"}
    Ranges = {0, 2}
    MaxCheckpoints = 2
    MaxEpochs = 2
    MaxVerifies = 2
    MaxFaults = 1
SYMMETRY WriterSymmetry
INVARIANTS
    AcknowledgedOnChain
    CheckpointsSealChain
    VerifyIsExact
CHECK_DEADLOCK FALSE
