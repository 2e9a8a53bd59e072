--------------------------- MODULE MC_MetricBuffer ---------------------------
(* A buffer of three slots fed values 0..3, five pushes; the configured    *)
(* buckets [1, 2) and [2, 3) leave 0 and 3 to the fallback of              *)
(* find_bucket_index.                                                       *)
EXTENDS MetricBuffer

MCBuckets == <<Bucket(1, 2, 0), Bucket(2, 3, 0)>>
=============================================================================
