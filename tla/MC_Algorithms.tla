---------------------------- MODULE MC_Algorithms ----------------------------
(***************************************************************************)
(* The hand-written algorithms of the program, each against the reference *)
(* definition of what it computes, over every bounded input:              *)
(*   - the root election loop of anp_bootstrap_handler (module Election)  *)
(*     over every peer list;                                               *)
(*   - the rounding of the histogram bucket width in load_config (module  *)
(*     ConfigLoad) over every configured interval;                         *)
(*   - the wire codec (module HostCodec), P1 in its two uses: one host    *)
(*     through serialize_host and deserialize_host, and the root's        *)
(*     all_hosts map, in any iteration order of the unordered_map,        *)
(*     through serialize_all_hosts and deserialize_all_hosts;             *)
(*   - parse_planar_config (module PlanarConfig) over topology files with *)
(*     too many entries, long fields, bad addresses and missing keys, and *)
(*     what it parses sent through the codec as a leaf's CONFIG_RESPONSE. *)
(* Each initial state is one input of one kind; an election input or a   *)
(* codec input never changes, a configuration is loaded once.             *)
(*                                                                         *)
(* Single hosts are checked with char arrays of one character (MaxStr 2),  *)
(* up to 2 devices of 1 interface; maps of 1 or 2 hosts with empty arrays  *)
(* and 1 device, to keep the pairs of hosts few.  The root's all_hosts is  *)
(* keyed by host_ip (recv_config_thread, src/src/bootstrap.cc); host names *)
(* are distinct, as in a cluster whose configs name every host apart.     *)
(* Topology files have one device and one interface more than the arrays  *)
(* hold, and fields one character longer.                                  *)
(***************************************************************************)
EXTENDS Naturals, Sequences, FiniteSets, TLC

LOCAL INSTANCE Functions

CONSTANTS
    IpBits, Invalid, MaxList,               \* of Election
    SizeBits, MaxInterval, NoFile, BadJson  \* of ConfigLoad

VARIABLES
    input,   \* which algorithm this initial state is an input of
    list,    \* Election: the peer list
    config, bucket_sz_log2, loaded,  \* ConfigLoad
    host,    \* the host of a single-host codec input
    db,      \* the root's all_hosts, host_ip |-> host, of a map input
    order,   \* the iteration order of db
    doc      \* the topology file of a parse input

vars == <<input, list, config, bucket_sz_log2, loaded, host, db, order, doc>>

EL == INSTANCE Election
CL == INSTANCE ConfigLoad
One  == INSTANCE HostCodec WITH MaxStr <- 2, MaxDev <- 2, MaxIntf <- 1
Many == INSTANCE HostCodec WITH MaxStr <- 1, MaxDev <- 1, MaxIntf <- 1
PC   == INSTANCE PlanarConfig WITH MaxStr <- 2, MaxDev <- 1, MaxIntf <- 1
Wire == INSTANCE HostCodec WITH MaxStr <- 2, MaxDev <- 1, MaxIntf <- 1

HostSpace == Many!ValidHosts({"a", "b"}, 1, {0, 1}, {0})

\* Maps keyed by host_ip of one or two hosts with distinct addresses and
\* names.
RootViews ==
    { (h.host_ip :> h) : h \in HostSpace }
    \cup { (g.host_ip :> g) @@ (h.host_ip :> h) :
            <<g, h>> \in { p \in HostSpace \X HostSpace :
                             p[1].host_ip # p[2].host_ip /\ p[1].host_name # p[2].host_name } }

\* Topology files: every field present, with up to 2 devices of up to 2
\* interfaces, a field of 2 characters and an address inet_pton rejects;
\* and files of one device and one interface with one key left out, at
\* any of the three levels.
PlanarDocs == [id : {<<>>, <<"a", "a">>}, name : {<<"a">>},
               ipv4_addr : {-1, 1}, ipv6_addr : {1}]
DeviceDocs == [virtual_intf : {<<"a", "a">>}, virtual_ip : {-1, 1},
               planar_intfs : Many!Lists(PlanarDocs, 2)]
CompleteDocs == [host_name : {<<"a">>}, host_ip : {<<"b">>},
                 devices : Many!Lists(DeviceDocs, 2)]

Drop(r, k) == [x \in DOMAIN r \ {k} |-> r[x]]

OneDeviceDocs == { d \in CompleteDocs : Len(d.devices) = 1 /\ Len(d.devices[1].planar_intfs) = 1 }

IncompleteDocs ==
    { Drop(d, k) : d \in OneDeviceDocs, k \in PC!HostKeys }
    \cup { [d EXCEPT !.devices[1] = Drop(@, k)] : d \in OneDeviceDocs, k \in PC!DeviceKeys }
    \cup { [d EXCEPT !.devices[1].planar_intfs[1] = Drop(@, k)] :
              d \in OneDeviceDocs, k \in PC!PlanarKeys }

NoCodec == host = <<>> /\ db = <<>> /\ order = <<>>

Init ==
    \/ /\ input = "election" /\ EL!Init
       /\ config = NoFile /\ bucket_sz_log2 = 0 /\ loaded = TRUE
       /\ NoCodec /\ doc = <<>>
    \/ /\ input = "config" /\ list = <<0>> /\ CL!Init
       /\ NoCodec /\ doc = <<>>
    \/ /\ input = "host" /\ list = <<0>>
       /\ config = NoFile /\ bucket_sz_log2 = 0 /\ loaded = TRUE
       /\ host \in One!ValidHosts({"a"}, 1, {0, 1}, {0, 1})
       /\ db = <<>> /\ order = <<>> /\ doc = <<>>
    \/ /\ input = "hosts" /\ list = <<0>>
       /\ config = NoFile /\ bucket_sz_log2 = 0 /\ loaded = TRUE
       /\ host = <<>>
       /\ db \in RootViews
       /\ order \in { s \in [1 .. Cardinality(DOMAIN db) -> DOMAIN db] : IsInjective(s) }
       /\ doc = <<>>
    \/ /\ input = "file" /\ list = <<0>>
       /\ config = NoFile /\ bucket_sz_log2 = 0 /\ loaded = TRUE
       /\ NoCodec
       /\ doc \in CompleteDocs \cup IncompleteDocs

Next == CL!load_config /\ UNCHANGED <<input, list, host, db, order, doc>>

Spec == Init /\ [][Next]_vars

\* Every host elects the same root as the specification's rule: the first
\* entry with the least address value, unparsable lines counting as
\* 0xffffffff (the election loop of anp_bootstrap_handler).
ElectionMatchesSpec == input = "election" => EL!ElectionMatchesSpec

\* load_config's histogram buckets are the least power of two at least as
\* wide as the configured bucket_interval_ns (power_of_2, IS_POWER_OF_2).
BucketWidthRoundsUp == input = "config" => CL!BucketWidthRoundsUp

\* P1 for one host: deserialize_host, started at the beginning of what
\* serialize_host wrote, makes only in-bounds reads, rebuilds the host
\* field for field (device and interface order included) and stops exactly
\* at the end of the buffer.
HostRoundTrip ==
    input = "host" =>
        LET buf == One!serialize_host(host)
            r   == One!deserialize_host(buf, 1)
        IN r.ok /\ r.v = host /\ r.off = Len(buf) + 1

\* P1 for the cluster, as a set of entries: whatever order the root's map
\* iterates in, the leaf's decoded map holds exactly the root's host
\* records, all of them, and the decoder ends at the end of the payload.
AllHostsRecordsSurvive ==
    input = "hosts" =>
        LET buf == Many!serialize_all_hosts(db, order)
            r   == Many!deserialize_all_hosts(buf)
        IN r.ok /\ Range(r.v) = Range(db) /\ r.off = Len(buf) + 1

\* What a leaf parses from a complete topology file crosses the wire whole:
\* parse_planar_config's caps (devices and interfaces broken off before
\* the slot is written, strncpy to MAX_STR_LEN - 1) keep the host inside
\* the arrays deserialize_host writes into on the root, so the root's
\* record of the host, after serialize_host and deserialize_host, is the
\* host the leaf parsed, with num_devices assigned and the decoder ending
\* at the end of the CONFIG_RESPONSE payload (I4 and P1 together).
ParsedHostTravels ==
    input = "file" /\ PC!Complete(doc) =>
        LET p   == PC!parse_planar_config(doc)
            buf == Wire!serialize_host(p.host)
            r   == Wire!deserialize_host(buf, 1)
        IN p.num_devices_set /\ r.ok /\ r.v = p.host /\ r.off = Len(buf) + 1

\* A topology file without one of its fields is a Config error, fatal at
\* start-up (section 7): parse_planar_config must not report success.
ConfigErrorIsFatal ==
    input = "file" =>
        (PC!parse_planar_config(doc).status = PC!ANP_SUCCESS => PC!Complete(doc))
=============================================================================
