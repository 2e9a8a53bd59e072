---------------------------- MODULE MetricBuffer ----------------------------
(***************************************************************************)
(* The ring buffer buffer_s<T> of src/include/anp_metrics.h and the two    *)
(* histograms built from it: process_ring_buffer counts the stored values  *)
(* into configured buckets (bucket_s, find_bucket_index), and             *)
(* generate_histogram builds ceil(sqrt(n)) uniform buckets with a          *)
(* boost::histogram regular axis over [min, max + 1).                      *)
(*                                                                         *)
(* The axis is evaluated in exact rational arithmetic: a value x falls in  *)
(* bin floor((x - lo) * nb / (hi - lo)), and the bin edges are cast to T,  *)
(* i.e. truncated.  A bucket is [min, max, count]; a vector of buckets is  *)
(* a sequence, index i of the code being position i + 1.                   *)
(***************************************************************************)
EXTENDS Naturals, Sequences

LOCAL INSTANCE FiniteSetsExt
LOCAL INSTANCE Functions

CONSTANTS
    size_,      \* the capacity given to the constructor
    Values,     \* the values pushed (T = uint64_t)
    BucketCfg,  \* the buckets a caller hands to process_ring_buffer
    MaxPushes   \* bound on the number of pushes

ASSUME /\ size_ \in Nat \ {0} /\ Values \subseteq Nat
       /\ BucketCfg # <<>>

VARIABLES buffer_, count_, write_index_, rollover_count_

vars == <<buffer_, count_, write_index_, rollover_count_>>

Slots == 0 .. size_ - 1

\* The constructor: buffer_(size) holds size value-initialized T.
Init ==
    /\ buffer_ = [i \in Slots |-> 0]
    /\ count_ = 0
    /\ write_index_ = 0
    /\ rollover_count_ = 0

\* Mutant: the write index is not wrapped around.
push_unwrapped(v) ==
    /\ count_ + rollover_count_ < MaxPushes
    /\ buffer_' = [buffer_ EXCEPT ![write_index_] = v]
    /\ write_index_' = write_index_ + 1
    /\ IF count_ = size_
       THEN rollover_count_' = rollover_count_ + 1 /\ UNCHANGED count_
       ELSE count_' = count_ + 1 /\ UNCHANGED rollover_count_

\* Mutant: the buffer is taken as full one value early.
push_full_early(v) ==
    /\ count_ + rollover_count_ < MaxPushes
    /\ buffer_' = [buffer_ EXCEPT ![write_index_] = v]
    /\ write_index_' = (write_index_ + 1) % size_
    /\ IF count_ = size_ - 1
       THEN rollover_count_' = rollover_count_ + 1 /\ UNCHANGED count_
       ELSE count_' = count_ + 1 /\ UNCHANGED rollover_count_

push(v) ==
    /\ count_ + rollover_count_ < MaxPushes
    /\ buffer_' = [buffer_ EXCEPT ![write_index_] = v]
    /\ write_index_' = (write_index_ + 1) % size_
    /\ IF count_ = size_
       THEN rollover_count_' = rollover_count_ + 1 /\ UNCHANGED count_
       ELSE count_' = count_ + 1 /\ UNCHANGED rollover_count_

Next == \E v \in Values : push(v)

Spec == Init /\ [][Next]_vars

-----------------------------------------------------------------------------
\* get_values: the first count_ slots, in slot order.
get_values == [i \in 1 .. count_ |-> buffer_[i - 1]]

Bucket(lo, hi, n) == [min |-> lo, max |-> hi, count |-> n]

contains(b, value) == value >= b.min /\ value < b.max

\* find_bucket_index: the first bucket containing the value, else the last.
find_bucket_index(buckets, value) ==
    LET hits == { i \in 0 .. Len(buckets) - 1 : contains(buckets[i + 1], value) }
    IN IF hits = {} THEN Len(buckets) - 1 ELSE Min(hits)

\* Mutant: only the slots before the write index are counted.
process_ring_buffer_to_write_index(buckets) ==
    [j \in DOMAIN buckets |->
        [buckets[j] EXCEPT !.count = @ + Cardinality(
            { i \in 0 .. write_index_ - 1 : find_bucket_index(buckets, buffer_[i]) = j - 1 })]]

\* process_ring_buffer: each of the first count_ slots adds one to the
\* count of its bucket.
process_ring_buffer(buckets) ==
    [j \in DOMAIN buckets |->
        [buckets[j] EXCEPT !.count = @ + Cardinality(
            { i \in 0 .. count_ - 1 : find_bucket_index(buckets, buffer_[i]) = j - 1 })]]

\* metric_config_s::reset_counts
reset_counts(buckets) == [j \in DOMAIN buckets |-> [buckets[j] EXCEPT !.count = 0]]

\* std::ceil(std::sqrt(n)) for n >= 1.
CeilSqrt(n) == CHOOSE k \in 1 .. n : k * k >= n /\ (k - 1) * (k - 1) < n

\* Mutant: the axis is taken to end at max instead of max + 1.
generate_histogram_closed(buckets) ==
    LET data  == get_values
        n     == Len(data)
        lo    == Min(Range(data))
        hi    == Max(Range(data))
        nb    == CeilSqrt(n)
        Bin(x)   == ((x - lo) * nb) \div (hi - lo)
        Edge(i)  == (lo * nb + i * (hi - lo)) \div nb
    IN IF n = 0 THEN buckets
       ELSE IF lo >= hi THEN buckets
       ELSE buckets \o [i \in 1 .. nb |->
                Bucket(Edge(i - 1), Edge(i),
                       Cardinality({ k \in 1 .. n : Bin(data[k]) = i - 1 }))]

\* generate_histogram: nothing for no data or a single distinct value;
\* otherwise one bucket per bin of the axis, appended to buckets.  Values
\* of the overflow bin are not in indexed(h) and are lost.
generate_histogram(buckets) ==
    LET data  == get_values
        n     == Len(data)
        lo    == Min(Range(data))
        hi    == Max(Range(data))
        nb    == CeilSqrt(n)
        width == hi + 1 - lo
        Bin(x)   == ((x - lo) * nb) \div width
        Edge(i)  == (lo * nb + i * width) \div nb
    IN IF n = 0 THEN buckets
       ELSE IF lo >= hi THEN buckets
       ELSE buckets \o [i \in 1 .. nb |->
                Bucket(Edge(i - 1), Edge(i),
                       Cardinality({ k \in 1 .. n : Bin(data[k]) = i - 1 }))]

-----------------------------------------------------------------------------
\* The window of values the buffer stands for, oldest first.
Window ==
    IF count_ < size_ THEN [i \in 1 .. count_ |-> buffer_[i - 1]]
    ELSE [i \in 1 .. size_ |-> buffer_[(write_index_ + i - 1) % size_]]

W == INSTANCE BoundedWindow WITH Size <- size_, window <- Window, dropped <- rollover_count_

TypeOK ==
    /\ buffer_ \in [Slots -> Values \cup {0}]
    /\ count_ \in 0 .. size_
    /\ write_index_ \in Slots
    /\ rollover_count_ \in Nat

\* push keeps the last size_ values pushed, oldest first, and counts those
\* it overwrote: the buffer implements BoundedWindow.
WindowRefinement == W!Spec

Counts(buckets) == SumFunction([j \in DOMAIN buckets |-> buckets[j].count])

\* generate_histogram accounts for every value it is given: the counts of
\* the buckets it appends add up to the number of values.
HistogramConserves ==
    generate_histogram(<<>>) # <<>> => Counts(generate_histogram(<<>>)) = count_
=============================================================================
