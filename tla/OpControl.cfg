SPECIFICATION Spec
CONSTANTS
    s1 = s1
    s2 = s2
    s3 = s3
    p1 = p1
    None = None
    Submission = {s1, s2, s3}
    Project = {p1}
    Envelope <- MCEnvelope
INVARIANTS
    TypeOK
    ScopeLockCoherent
    LateReplayRejected
    WitnessedBeforeApply
PROPERTIES
    HardStopNotArbitratedAway
    
    
SYMMETRY SubmissionSymmetry
