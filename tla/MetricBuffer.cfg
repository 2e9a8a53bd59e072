CONSTANTS
    size_ = 3
    Values = {0, 1, 2, 3}
    BucketCfg <- MCBuckets
    MaxPushes = 5
SPECIFICATION Spec
CHECK_DEADLOCK FALSE
INVARIANT TypeOK
INVARIANT HistogramConserves
PROPERTY WindowRefinement
