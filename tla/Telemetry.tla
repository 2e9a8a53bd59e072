----------------------------- MODULE Telemetry -----------------------------
(***************************************************************************)
(* The per-process telemetry store of src/include/anp_state.h (class      *)
(* anp_state) with the completion-time histogram time_histogram_s of      *)
(* src/include/anp_metrics.h.                                              *)
(*                                                                         *)
(* devices maps a device id to its name, counters and channels, and each   *)
(* channel to its queue pairs; queue_state maps a QP id to a shared_ptr to *)
(* its statistics.  Every update_* and increment_* call looks the QP up    *)
(* with operator[], which inserts a null pointer for an unknown id; Null   *)
(* is that null pointer.  The channel map of a device is the set of        *)
(* <<device, channel, qp>> triples: a channel exists while it holds a QP,  *)
(* as remove_queue_pair erases it when it becomes empty.                   *)
(*                                                                         *)
(* Times are nanosecond timestamps of one clock; a completion takes at     *)
(* least MinLatency.  wqe_size_metrics is kept as the number of sizes      *)
(* recorded, and the seven plain increment_* counters as one counter.      *)
(***************************************************************************)
EXTENDS Naturals, FiniteSets, TLC

LOCAL INSTANCE FiniteSetsExt
LOCAL INSTANCE Functions

CONSTANTS
    Devices, Channels, QPs, WqeIds,  \* the ids the callers pass
    Times,          \* timestamps a caller may pass
    MinLatency,     \* shortest time from posting a WQE to its completion
    max_buckets,    \* anp_state::max_buckets (load_config)
    bucket_sz_log2, \* anp_state::bucket_sz_log2 (load_config)
    MaxCount,       \* bound on every counter
    Null,           \* a null qp_info_ptr_t
    Unset           \* device_id before any device is named

ASSUME max_buckets \in Nat \ {0} /\ bucket_sz_log2 \in Nat /\ MinLatency \in Nat

VARIABLES
    devs,       \* the keys of devices
    named,      \* devices whose name set_device_name has set
    polls,      \* polls[d]: devices[d].stats.cq_poll_count
    sizes,      \* sizes[d]: WQE sizes recorded in devices[d].stats
    triples,    \* <<d, c, q>>: q is in devices[d].channels[c].queue_pairs
    qs,         \* queue_state
    logged,     \* logged[q]: <<bucket, time>> of each completion logged
                \* since queue_state[q] was created (history)
    device_id,  \* anp_state::device_id
    down,       \* TRUE once shutdown (the destructor) has run
    files       \* the device_status file shutdown wrote: {} or one report

vars == <<devs, named, polls, sizes, triples, qs, logged, device_id, down, files>>

Buckets == 0 .. max_buckets - 1

\* The qp_info_s of a new QP: all counters zero, an empty histogram (an
\* unordered_map from bucket index to count) and an empty wqe_id_tracker.
Fresh(data) ==
    [data_qp |-> data, sent |-> 0, rcvd |-> 0, completed |-> 0, cts |-> 0,
     plain |-> 0, tmin |-> 0, tmax |-> 0, buckets |-> <<>>, tracker |-> <<>>]

\* queue_state[qp_id] as an lvalue: an unknown id is inserted as null.
Lookup(q) == IF q \in DOMAIN qs THEN qs ELSE (q :> Null) @@ qs

Live(q) == q \in DOMAIN qs /\ qs[q] # Null

\* The devices entry of a device that has no channel left.
ChannelsOf(d) == { t[2] : t \in { x \in triples : x[1] = d } }

Init ==
    /\ devs = {}
    /\ named = {}
    /\ polls = [d \in Devices |-> 0]
    /\ sizes = [d \in Devices |-> 0]
    /\ triples = {}
    /\ qs = <<>>
    /\ logged = [q \in QPs |-> {}]
    /\ device_id = Unset
    /\ down = FALSE
    /\ files = {}

set_device_name(d) ==
    /\ d \notin devs
    /\ devs' = devs \cup {d}
    /\ named' = named \cup {d}
    /\ device_id' = d
    /\ UNCHANGED <<polls, sizes, triples, qs, logged>>

\* Mutant: the QP goes into the channel map only.
add_queue_pair_channel_only(d, c, q, data) ==
    /\ devs' = devs \cup {d}
    /\ triples' = triples \cup {<<d, c, q>>}
    /\ UNCHANGED <<named, polls, sizes, qs, logged, device_id>>

\* Both maps get a new qp_info_s; the one in the channel map is never
\* read again.  An existing queue_state entry is replaced.
add_queue_pair(d, c, q, data) ==
    /\ devs' = devs \cup {d}
    /\ triples' = triples \cup {<<d, c, q>>}
    /\ qs' = (q :> Fresh(data)) @@ qs
    /\ logged' = [logged EXCEPT ![q] = {}]
    /\ UNCHANGED <<named, polls, sizes, device_id>>

\* Erases the QP from the channel, an empty channel from the device and a
\* device without channels from devices; queue_state keeps the QP.
remove_queue_pair(d, c, q) ==
    /\ d \in devs
    /\ triples' = IF c \in ChannelsOf(d) THEN triples \ {<<d, c, q>>} ELSE triples
    /\ IF \E t \in triples' : t[1] = d
       THEN UNCHANGED <<devs, named, polls, sizes>>
       ELSE /\ devs' = devs \ {d}
            /\ named' = named \ {d}
            /\ polls' = [polls EXCEPT ![d] = 0]
            /\ sizes' = [sizes EXCEPT ![d] = 0]
    /\ UNCHANGED <<qs, logged, device_id>>

\* update_wqe_send_metrics and update_recv_wqe_metrics: count a posted WQE
\* and remember when it was posted.
PostWqe(q, w, t) ==
    LET s == Lookup(q)
    IN /\ IF s[q] = Null
          THEN qs' = s
          ELSE /\ s[q].sent < MaxCount
               /\ qs' = [s EXCEPT ![q].sent = @ + 1,
                                  ![q].tracker = (w :> t) @@ @]
       /\ UNCHANGED <<devs, named, polls, sizes, triples, logged, device_id>>

update_wqe_send_metrics(q, w, t) == PostWqe(q, w, t)

update_recv_wqe_metrics(q, w, t) == PostWqe(q, w, t)

\* Mutant: the clamp lets an index equal to max_buckets through.
log_time_off_by_one(hist, time) ==
    LET i == time \div (2 ^ bucket_sz_log2)
        b == IF i <= max_buckets THEN i ELSE max_buckets - 1
    IN (b :> (IF b \in DOMAIN hist THEN hist[b] ELSE 0) + 1) @@ hist

\* time_histogram_s::log_time: the bucket of a time, entries past the last
\* bucket counted in the last one; buckets[b]++ creates the entry.
log_time(hist, time) ==
    LET i == time \div (2 ^ bucket_sz_log2)
        b == IF i < max_buckets THEN i ELSE max_buckets - 1
    IN (b :> (IF b \in DOMAIN hist THEN hist[b] ELSE 0) + 1) @@ hist

BucketOf(time) ==
    IF time \div (2 ^ bucket_sz_log2) < max_buckets
    THEN time \div (2 ^ bucket_sz_log2) ELSE max_buckets - 1

update_wqe_rcvd_metrics_min_unset(q, w, t) ==
    LET s == Lookup(q)
    IN /\ IF s[q] = Null
          THEN /\ qs' = s
               /\ UNCHANGED logged
          ELSE /\ s[q].rcvd < MaxCount
               /\ IF w \in DOMAIN s[q].tracker
                  THEN LET ct == t - s[q].tracker[w]
                           r  == s[q]
                       IN /\ t >= s[q].tracker[w] + MinLatency
                          /\ qs' = [s EXCEPT ![q] =
                                 [r EXCEPT !.rcvd = @ + 1, !.completed = @ + 1,
                                     !.tmax = IF @ < ct THEN ct ELSE @,
                                     !.tmin = IF @ > ct THEN ct ELSE @,
                                     !.buckets = log_time(@, ct),
                                     !.tracker = [x \in DOMAIN @ \ {w} |-> @[x]]]]
                          /\ logged' = [logged EXCEPT ![q] = @ \cup {<<BucketOf(ct), ct>>}]
                  ELSE /\ qs' = [s EXCEPT ![q].rcvd = @ + 1]
                       /\ UNCHANGED logged
       /\ UNCHANGED <<devs, named, polls, sizes, triples, device_id>>

\* update_wqe_rcvd_metrics: a completion of a tracked WQE updates the
\* minimum (0 standing for unset), the maximum and the histogram and stops
\* tracking the WQE.
update_wqe_rcvd_metrics(q, w, t) ==
    LET s == Lookup(q)
    IN /\ IF s[q] = Null
          THEN /\ qs' = s
               /\ UNCHANGED logged
          ELSE /\ s[q].rcvd < MaxCount
               /\ IF w \in DOMAIN s[q].tracker
                  THEN LET ct == t - s[q].tracker[w]
                           r  == s[q]
                       IN /\ t >= s[q].tracker[w] + MinLatency
                          /\ qs' = [s EXCEPT ![q] =
                                 [r EXCEPT !.rcvd = @ + 1, !.completed = @ + 1,
                                     !.tmax = IF @ < ct THEN ct ELSE @,
                                     !.tmin = IF @ > ct \/ @ = 0 THEN ct ELSE @,
                                     !.buckets = log_time(@, ct),
                                     !.tracker = [x \in DOMAIN @ \ {w} |-> @[x]]]]
                          /\ logged' = [logged EXCEPT ![q] = @ \cup {<<BucketOf(ct), ct>>}]
                  ELSE /\ qs' = [s EXCEPT ![q].rcvd = @ + 1]
                       /\ UNCHANGED logged
       /\ UNCHANGED <<devs, named, polls, sizes, triples, device_id>>

\* update_cts_send_metrics: a CTS counts as a sent WQE too.
update_cts_send_metrics(q) ==
    LET s == Lookup(q)
    IN /\ IF s[q] = Null
          THEN qs' = s
          ELSE /\ s[q].sent < MaxCount
               /\ qs' = [s EXCEPT ![q].cts = @ + 1, ![q].sent = @ + 1]
       /\ UNCHANGED <<devs, named, polls, sizes, triples, logged, device_id>>

\* update_slot_miss_metrics and the increment_* counters.
IncrementCounter(q) ==
    LET s == Lookup(q)
    IN /\ IF s[q] = Null
          THEN qs' = s
          ELSE /\ s[q].plain < MaxCount
               /\ qs' = [s EXCEPT ![q].plain = @ + 1]
       /\ UNCHANGED <<devs, named, polls, sizes, triples, logged, device_id>>

\* update_cq_poll_metrics and update_wqe_size_metrics count on the device
\* devices.begin() finds, any device of the unordered_map.
DeviceCounter(counter) ==
    \/ devs = {} /\ UNCHANGED vars
    \/ \E d \in devs :
          /\ counter[d] < MaxCount
          /\ counter' = [counter EXCEPT ![d] = @ + 1]

update_cq_poll_metrics ==
    /\ DeviceCounter(polls)
    /\ UNCHANGED <<devs, named, sizes, triples, qs, logged, device_id>>

update_wqe_size_metrics ==
    /\ DeviceCounter(sizes)
    /\ UNCHANGED <<devs, named, polls, triples, qs, logged, device_id>>

\* The QPs of channel c of device d whose statistics to_json reads:
\* those queue_state has an entry for.
Reported(d, c) == { q \in QPs : <<d, c, q>> \in triples /\ q \in DOMAIN qs }

\* The accumulators of to_json's queue-pair loop for one channel.  Every
\* WQE a CTS QP (data_qp false) sent counts as a CTS sent.
ChannelSums(d, c) ==
    LET qps  == Reported(d, c)
        cts  == { q \in qps : ~qs[q].data_qp }
    IN [sent    |-> MapThenSumSet(LAMBDA q : qs[q].sent, qps),
        rcvd    |-> MapThenSumSet(LAMBDA q : qs[q].rcvd, qps),
        cts     |-> MapThenSumSet(LAMBDA q : qs[q].sent, cts),
        data_qp |-> Cardinality(qps \ cts),
        cts_qp  |-> Cardinality(cts)]

\* The stats node of a channel: the CTS sends taken out of num_wqe_sent
\* after they were added to the device's accumulators.
ChannelStats(d, c) == [ChannelSums(d, c) EXCEPT !.sent = @ - ChannelSums(d, c).cts]

\* Mutant: the device accumulates a channel's counts after the channel's
\* CTS sends were taken out.
DeviceStats_late(d) ==
    LET S(f) == MapThenSumSet(LAMBDA c : ChannelStats(d, c)[f], ChannelsOf(d))
    IN [sent |-> S("sent") - S("cts"), rcvd |-> S("rcvd"), cts |-> S("cts"),
        data_qp |-> S("data_qp"), cts_qp |-> S("cts_qp"),
        cq_poll_count |-> polls[d], wqe_sizes |-> sizes[d]]

\* The stats node of a device: the sums of its channels' accumulators,
\* with the CTS sends taken out of num_wqe_sent.
DeviceStats(d) ==
    LET S(f) == MapThenSumSet(LAMBDA c : ChannelSums(d, c)[f], ChannelsOf(d))
    IN [sent |-> S("sent") - S("cts"), rcvd |-> S("rcvd"), cts |-> S("cts"),
        data_qp |-> S("data_qp"), cts_qp |-> S("cts_qp"),
        cq_poll_count |-> polls[d], wqe_sizes |-> sizes[d]]

\* anp_state::to_json: one entry per device, with its channels.
to_json ==
    [d \in devs |-> [stats    |-> DeviceStats(d),
                     channels |-> [c \in ChannelsOf(d) |-> ChannelStats(d, c)]]]

\* write_json_to_file: the report goes to a temporary file renamed to
\* device_status_<id>.json.  An empty output_dir, a temporary file that
\* does not open or a failed rename leave no report.
write_json_to_file(id) ==
    \/ files' = {[name |-> id, devices |-> to_json]}
    \/ UNCHANGED files

\* shutdown, run by the destructor: device_id becomes the first device of
\* the map, if any, and the report is written.
shutdown ==
    /\ ~down
    /\ IF devs = {} THEN UNCHANGED device_id ELSE device_id' \in devs
    /\ down' = TRUE
    /\ write_json_to_file(device_id')
    /\ UNCHANGED <<devs, named, polls, sizes, triples, qs, logged>>

\* After the destructor no call reaches the object.
Stopped == down /\ UNCHANGED vars

Running ==
    \/ \E d \in Devices : set_device_name(d)
    \/ \E d \in Devices, c \in Channels, q \in QPs :
          \/ \E data \in BOOLEAN : add_queue_pair(d, c, q, data)
          \/ remove_queue_pair(d, c, q)
    \/ \E q \in QPs :
          \/ \E w \in WqeIds, t \in Times :
                \/ update_wqe_send_metrics(q, w, t)
                \/ update_recv_wqe_metrics(q, w, t)
                \/ update_wqe_rcvd_metrics(q, w, t)
          \/ update_cts_send_metrics(q)
          \/ IncrementCounter(q)
    \/ update_cq_poll_metrics
    \/ update_wqe_size_metrics

Next ==
    \/ ~down /\ Running /\ UNCHANGED <<down, files>>
    \/ shutdown
    \/ Stopped

Spec == Init /\ [][Next]_vars

-----------------------------------------------------------------------------
TypeOK ==
    /\ named \subseteq devs /\ devs \subseteq Devices
    /\ device_id \in Devices \cup {Unset} /\ down \in BOOLEAN
    /\ Cardinality(files) <= 1 /\ (files # {} => down)
    /\ triples \subseteq devs \X Channels \X QPs
    /\ DOMAIN qs \subseteq QPs
    /\ \A q \in DOMAIN qs : Live(q) =>
          /\ DOMAIN qs[q].buckets \subseteq Buckets
          /\ DOMAIN qs[q].tracker \subseteq WqeIds

\* to_json reports a QP of the channel map from queue_state after checking
\* only that the entry exists: it must never be a null pointer, although
\* every update of an unknown QP id inserts one.
NoNullDeref == \A t \in triples : t[3] \in DOMAIN qs => qs[t[3]] # Null

LatencyLabel_last_edge(q, b) ==
    IF b < max_buckets THEN (b + 1) * 2 ^ bucket_sz_log2 - 1 ELSE qs[q].tmax

\* latency_in_ns that to_json writes for a bucket: its upper end, and the
\* largest completion time for the last bucket.
LatencyLabel(q, b) ==
    IF b < max_buckets - 1 THEN (b + 1) * 2 ^ bucket_sz_log2 - 1 ELSE qs[q].tmax

\* The histogram accounts for every completion, and each logged completion
\* time lies in the range its bucket reports in the JSON file.
LatencyHistogram ==
    \A q \in DOMAIN qs : Live(q) =>
        /\ SumFunction(qs[q].buckets) = qs[q].completed
        /\ \A p \in logged[q] :
              /\ p[1] \in DOMAIN qs[q].buckets
              /\ p[2] <= LatencyLabel(q, p[1])
              /\ p[1] < max_buckets - 1 => p[2] >= p[1] * 2 ^ bucket_sz_log2

\* wqe_completion_ns_min and _max are the least and the greatest
\* completion time logged for the QP.
MinMaxExact ==
    \A q \in DOMAIN qs : Live(q) /\ logged[q] # {} =>
        LET times == { p[2] : p \in logged[q] }
        IN qs[q].tmin = Min(times) /\ qs[q].tmax = Max(times)

\* The device_status file accounts for every WQE the QPs of the channel
\* map counted as sent, split as to_json's comments say: a device's
\* num_wqe_sent is what its data QPs sent and its num_cts_sent what its
\* CTS QPs sent, and each is the sum of the same count over its channels.
ReportAccountsSends ==
    \A f \in files : \A d \in DOMAIN f.devices :
        LET dev      == f.devices[d]
            Of(data) == { t \in triples : t[1] = d /\ t[3] \in DOMAIN qs /\ qs[t[3]].data_qp = data }
            Sent(T)  == MapThenSumSet(LAMBDA t : qs[t[3]].sent, T)
            Total(k) == MapThenSumSet(LAMBDA c : dev.channels[c][k], DOMAIN dev.channels)
        IN /\ dev.stats.sent = Sent(Of(TRUE)) /\ dev.stats.cts = Sent(Of(FALSE))
           /\ dev.stats.sent = Total("sent") /\ dev.stats.cts = Total("cts")
=============================================================================
