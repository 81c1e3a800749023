SPECIFICATION Spec
CONSTANTS
    Policies <- SafetyPolicies
    None = None
CHECK_DEADLOCK FALSE
INVARIANTS IntensityBounded OneInstance NoOrphans
PROPERTIES RestartOnlyCurrent
