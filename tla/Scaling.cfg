CONSTANTS
    Fleet = {i1, i2, i3}
    ChuteKinds <- MCKinds
    MetricSet <- MCMetrics
    UNDERUTILIZED_CAP = 1
    UTILIZATION_SCALE_UP = 35
    RATE_LIMIT_SCALE_UP = 2
    NewChuteTarget = 2
SPECIFICATION ScaleSpec
SYMMETRY MCSymmetry
INVARIANTS ScaleTypeOK PrivateCap
PROPERTY TargetLeft
