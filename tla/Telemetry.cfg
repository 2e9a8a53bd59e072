CONSTANTS
    d1 = d1
    c1 = c1
    c2 = c2
    q1 = q1
    w1 = w1
    Null = Null
    Unset = Unset
    Devices = {d1}
    Channels = {c1, c2}
    QPs = {q1}
    WqeIds = {w1}
    Times <- MCTimes
    MinLatency = 1
    max_buckets = 2
    bucket_sz_log2 = 1
    MaxCount = 2
SPECIFICATION Spec
INVARIANT TypeOK
INVARIANT NoNullDeref
 
INVARIANT LatencyHistogram
INVARIANT MinMaxExact
INVARIANT ReportAccountsSends
