------------------------------ MODULE HostCodec ------------------------------
(***************************************************************************)
(* The wire codec of include/anp_bootstrap.h: serialize_host and           *)
(* serialize_all_hosts write length-prefixed fields, deserialize_host and  *)
(* deserialize_all_hosts read them back with no bounds checks.             *)
(*                                                                         *)
(* A buffer is a sequence of fields rather than bytes: a u32 word, one     *)
(* character of a string, a 4-byte in_addr or a 16-byte in6_addr.  Every  *)
(* read the decoder makes is a read of one such field at the offset it     *)
(* computed, so offsets, lengths and counts behave as in the code.  A      *)
(* read is `ok' when the field is inside the buffer and of the kind the    *)
(* decoder expects; a string or count that would write past a fixed array  *)
(* of host_t (MAX_STR_LEN, MAX_DEVICES, MAX_INTERFACES) is not ok either.  *)
(* What the code does after a read that is not ok is undefined, so the     *)
(* decoder stops there.                                                    *)
(*                                                                         *)
(* A host is [host_name, host_ip, devices]; a device [virtual_intf,        *)
(* virtual_ip, planar_intfs]; a planar interface [id, name, ipv4, ipv6].   *)
(* Strings are sequences of characters.                                    *)
(***************************************************************************)
EXTENDS Naturals, Sequences

LOCAL INSTANCE SequencesExt

CONSTANTS
    MaxStr,     \* MAX_STR_LEN: size of the char arrays, terminator included
    MaxDev,     \* MAX_DEVICES
    MaxIntf     \* MAX_INTERFACES

ASSUME MaxStr \in Nat \ {0} /\ MaxDev \in Nat /\ MaxIntf \in Nat

\* The fields a buffer is made of.
Word(n)  == [k |-> "u32", v |-> n]
Chars(s) == [i \in DOMAIN s |-> [k |-> "chr", v |-> s[i]]]
Addr(a)  == [k |-> "in_addr", v |-> a]
Addr6(a) == [k |-> "in6_addr", v |-> a]

\* u32 length, then the bytes without terminator.
LenStr(s) == <<Word(Len(s))>> \o Chars(s)

\* The body of the inner loop of serialize_host: one planar interface.
SerializePlanar(p) ==
    LenStr(p.id) \o LenStr(p.name) \o <<Addr(p.ipv4), Addr6(p.ipv6)>>

\* The body of the outer loop of serialize_host: one device.
SerializeDevice(d) ==
    LenStr(d.virtual_intf) \o <<Addr(d.virtual_ip), Word(Len(d.planar_intfs))>>
        \o FlattenSeq([j \in DOMAIN d.planar_intfs |-> SerializePlanar(d.planar_intfs[j])])

serialize_host(host) ==
    LenStr(host.host_name) \o LenStr(host.host_ip) \o <<Word(Len(host.devices))>>
        \o FlattenSeq([i \in DOMAIN host.devices |-> SerializeDevice(host.devices[i])])

\* Mutant: the host count leaves out the last host of the map.
serialize_all_hosts_short(db, order) ==
    <<Word(Len(order) - 1)>> \o FlattenSeq([i \in DOMAIN order |-> serialize_host(db[order[i]])])

\* serialize_all_hosts: the count, then every host in the iteration order
\* of the unordered_map, which is any order of its keys.
serialize_all_hosts(db, order) ==
    <<Word(Len(order))>> \o FlattenSeq([i \in DOMAIN order |-> serialize_host(db[order[i]])])

-----------------------------------------------------------------------------
\* A read result: the value, the offset after it, and whether it was ok.
Result(v, off, ok) == [v |-> v, off |-> off, ok |-> ok]

\* Sequencing of reads: F continues from the result r of the previous read,
\* unless that read was not ok.  (r is bound once, as a value.)
Then(r, F(_)) == CHOOSE x \in { IF s.ok THEN F(s) ELSE s : s \in {r} } : TRUE

\* Reads one field of kind kind at offset off (1-based).
ReadField(buf, off, kind) ==
    IF off \in DOMAIN buf /\ buf[off].k = kind
    THEN Result(buf[off].v, off + 1, TRUE)
    ELSE Result(0, off + 1, FALSE)

\* A u32 length and that many bytes.  bounded: the string goes into a
\* char[MAX_STR_LEN] and its terminator is written at index len.
ReadString(buf, off, bounded) ==
    Then(ReadField(buf, off, "u32"), LAMBDA n :
        LET last == n.off + n.v - 1
        IN IF /\ last <= Len(buf)
              /\ \A i \in n.off .. last : buf[i].k = "chr"
              /\ bounded => n.v < MaxStr
           THEN Result([i \in 1 .. n.v |-> buf[n.off + i - 1].v], last + 1, TRUE)
           ELSE Result(<<>>, n.off, FALSE))

\* Mutant: the offset is not advanced past the IPv6 address.
DeserializePlanar_ipv6_unskipped(buf, off) ==
    Then(ReadString(buf, off, TRUE), LAMBDA id :
    Then(ReadString(buf, id.off, TRUE), LAMBDA name :
    Then(ReadField(buf, name.off, "in_addr"), LAMBDA ipv4 :
    Then(ReadField(buf, ipv4.off, "in6_addr"), LAMBDA ipv6 :
        Result([id |-> id.v, name |-> name.v, ipv4 |-> ipv4.v, ipv6 |-> ipv6.v],
               ipv4.off, TRUE)))))

\* The body of the inner loop of deserialize_host: id, name, ipv4, ipv6.
DeserializePlanar(buf, off) ==
    Then(ReadString(buf, off, TRUE), LAMBDA id :
    Then(ReadString(buf, id.off, TRUE), LAMBDA name :
    Then(ReadField(buf, name.off, "in_addr"), LAMBDA ipv4 :
    Then(ReadField(buf, ipv4.off, "in6_addr"), LAMBDA ipv6 :
        Result([id |-> id.v, name |-> name.v, ipv4 |-> ipv4.v, ipv6 |-> ipv6.v],
               ipv6.off, TRUE)))))

\* The inner loop of deserialize_host: n planar interfaces read one after
\* the other, each from the offset the previous one left.
DeserializePlanars(buf, off, n) ==
    LET loop[k \in 0 .. n] ==
            IF k = 0 THEN Result(<<>>, off, TRUE)
            ELSE Then(loop[k - 1], LAMBDA prev :
                 Then(DeserializePlanar(buf, prev.off), LAMBDA p :
                      Result(Append(prev.v, p.v), p.off, TRUE)))
    IN loop[n]

\* The body of the outer loop of deserialize_host; num_interfaces beyond
\* MAX_INTERFACES indexes past planar_intfs.
DeserializeDevice(buf, off) ==
    Then(ReadString(buf, off, TRUE), LAMBDA intf :
    Then(ReadField(buf, intf.off, "in_addr"), LAMBDA vip :
    Then(ReadField(buf, vip.off, "u32"), LAMBDA n :
        IF n.v > MaxIntf THEN Result(<<>>, n.off, FALSE)
        ELSE Then(DeserializePlanars(buf, n.off, n.v), LAMBDA ps :
                  Result([virtual_intf |-> intf.v, virtual_ip |-> vip.v,
                          planar_intfs |-> ps.v], ps.off, TRUE)))))

\* The outer loop of deserialize_host.
DeserializeDevices(buf, off, n) ==
    LET loop[k \in 0 .. n] ==
            IF k = 0 THEN Result(<<>>, off, TRUE)
            ELSE Then(loop[k - 1], LAMBDA prev :
                 Then(DeserializeDevice(buf, prev.off), LAMBDA d :
                      Result(Append(prev.v, d.v), d.off, TRUE)))
    IN loop[n]

\* deserialize_host(buffer, host, offset): host_name and host_ip are
\* std::string and unbounded; num_devices beyond MAX_DEVICES indexes past
\* devices.
deserialize_host(buf, off) ==
    Then(ReadString(buf, off, FALSE), LAMBDA name :
    Then(ReadString(buf, name.off, FALSE), LAMBDA ip :
    Then(ReadField(buf, ip.off, "u32"), LAMBDA n :
        IF n.v > MaxDev THEN Result(<<>>, n.off, FALSE)
        ELSE Then(DeserializeDevices(buf, n.off, n.v), LAMBDA ds :
                  Result([host_name |-> name.v, host_ip |-> ip.v, devices |-> ds.v],
                         ds.off, TRUE)))))

\* The host loop of deserialize_all_hosts: all_hosts[host.host_name] = host,
\* a later host under the same name replacing an earlier one.
DeserializeHosts(buf, off, n) ==
    LET loop[k \in 0 .. n] ==
            IF k = 0 THEN Result(<<>>, off, TRUE)
            ELSE Then(loop[k - 1], LAMBDA prev :
                 Then(deserialize_host(buf, prev.off), LAMBDA h :
                      Result([key \in DOMAIN prev.v \cup {h.v.host_name} |->
                                  IF key = h.v.host_name THEN h.v ELSE prev.v[key]],
                             h.off, TRUE)))
    IN loop[n]

\* deserialize_all_hosts into an empty all_hosts map.
deserialize_all_hosts(buf) ==
    Then(ReadField(buf, 1, "u32"), LAMBDA n : DeserializeHosts(buf, n.off, n.v))

-----------------------------------------------------------------------------
\* The hosts parse_planar_config can produce (invariant I4): char arrays
\* hold at most MaxStr - 1 characters, at most MaxDev devices of at most
\* MaxIntf planar interfaces.  Names and host addresses are at most
\* MaxName characters.
Strings(C, n) == UNION { [1 .. m -> C] : m \in 0 .. n }

Lists(S, n) == UNION { [1 .. m -> S] : m \in 0 .. n }

ValidHosts(C, MaxName, Addrs, Addrs6) ==
    LET Planars == [id : Strings(C, MaxStr - 1), name : Strings(C, MaxStr - 1),
                    ipv4 : Addrs, ipv6 : Addrs6]
        Devices == [virtual_intf : Strings(C, MaxStr - 1), virtual_ip : Addrs,
                    planar_intfs : Lists(Planars, MaxIntf)]
    IN [host_name : Strings(C, MaxName), host_ip : Strings(C, MaxName),
        devices : Lists(Devices, MaxDev)]
=============================================================================
