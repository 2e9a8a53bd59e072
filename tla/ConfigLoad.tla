----------------------------- MODULE ConfigLoad -----------------------------
(***************************************************************************)
(* anp_state::load_config (src/include/anp_state.h): the histogram bucket  *)
(* width read from the JSON configuration is rounded up to a power of two  *)
(* by power_of_2, and bucket_sz_log2 is its base-2 logarithm; max_buckets  *)
(* is read as given.  Without a readable file, or when the JSON does not   *)
(* parse, the defaults set first stay: 1024 ns buckets, 5 buckets.         *)
(*                                                                         *)
(* size_t is SizeBits wide (64 in the code).                               *)
(***************************************************************************)
EXTENDS Naturals, Sequences

LOCAL INSTANCE Bitwise
LOCAL INSTANCE SequencesExt

CONSTANTS
    SizeBits,     \* width of size_t
    MaxInterval,  \* the largest bucket_interval_ns a configuration holds
    NoFile,       \* RCCL_ANP_CONFIG_FILE unset or not readable
    BadJson       \* a file read_json rejects

SizeMax == 2 ^ SizeBits

Intervals == 0 .. MaxInterval

\* IS_POWER_OF_2(number)
IS_POWER_OF_2(n) == n > 0 /\ (n & (n - 1)) = 0

\* The shifts of power_of_2; those of 32 only on a 64-bit size_t.
Shifts == <<1, 2, 4, 8, 16, 32>>

\* Mutant: the shift by 4 is missing.
power_of_2_short(number) ==
    IF number = 0 THEN 1
    ELSE (FoldLeft(LAMBDA n, k : n | shiftR(n, k), number - 1, <<1, 2, 8, 16, 32>>) + 1)
             % SizeMax

\* power_of_2: set every bit below the highest one of number - 1 and add
\* one, in size_t arithmetic.
power_of_2(number) ==
    IF number = 0 THEN 1
    ELSE (FoldLeft(LAMBDA n, k : n | shiftR(n, k), number - 1, Shifts) + 1) % SizeMax

\* (uint32_t) log2(x): the conversion truncates, for 1 <= x < 2^31.
Log2(x) == CHOOSE k \in 0 .. 30 : 2 ^ k <= x /\ x < 2 ^ (k + 1)

VARIABLES config, bucket_sz_log2, loaded

Init ==
    /\ config \in Intervals \cup {NoFile, BadJson}
    /\ bucket_sz_log2 = 0
    /\ loaded = FALSE

\* load_config; a rounded width of 0 (number + 1 wrapping around) makes
\* log2 return -inf, whose conversion to uint32_t is undefined.
load_config ==
    /\ ~loaded
    /\ loaded' = TRUE
    /\ UNCHANGED config
    /\ IF config \in {NoFile, BadJson}
       THEN bucket_sz_log2' = Log2(1024)
       ELSE LET width == IF IS_POWER_OF_2(config) THEN config ELSE power_of_2(config)
            IN IF width = 0 THEN bucket_sz_log2' \in 0 .. SizeBits
               ELSE bucket_sz_log2' = Log2(width)

Spec == Init /\ [][load_config]_<<config, bucket_sz_log2, loaded>>

-----------------------------------------------------------------------------
\* "if it input is not a power of 2, adjust it to next power of 2": the
\* loaded buckets are the smallest power-of-two width that is at least
\* the configured one.
BucketWidthRoundsUp ==
    loaded /\ config \in Intervals =>
        /\ 2 ^ bucket_sz_log2 >= config
        /\ \A k \in 0 .. SizeBits : 2 ^ k >= config => k >= bucket_sz_log2
=============================================================================
