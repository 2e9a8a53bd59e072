---------------------------- MODULE PlanarConfig ----------------------------
(***************************************************************************)
(* parse_planar_config of src/include/anp_bootstrap.h: the local topology *)
(* file, read with boost::property_tree, into a host_t.                    *)
(*                                                                         *)
(* A JSON object is a record whose domain is the set of keys present, so  *)
(* a missing key is a key outside the domain; pt.get and get_child throw   *)
(* on it.  Strings are sequences of characters; an address is the value   *)
(* inet_pton parses, or -1 for text it rejects.  The result is the host   *)
(* and whether host.num_devices was assigned: the exception handler       *)
(* returns ANP_SUCCESS without assigning it, and the caller's host_t is   *)
(* uninitialized, so num_devices then holds an indeterminate value.       *)
(***************************************************************************)
EXTENDS Naturals, Sequences

LOCAL INSTANCE FiniteSetsExt

CONSTANTS
    MaxStr,     \* MAX_STR_LEN: size of the char arrays, terminator included
    MaxDev,     \* MAX_DEVICES
    MaxIntf     \* MAX_INTERFACES

ANP_SUCCESS == 0

HostKeys   == {"host_name", "host_ip", "devices"}
DeviceKeys == {"virtual_intf", "virtual_ip", "planar_intfs"}
PlanarKeys == {"id", "name", "ipv4_addr", "ipv6_addr"}

\* strncpy(dst, src, MAX_STR_LEN - 1) into a zeroed array.
strncpy(s) == SubSeq(s, 1, IF Len(s) < MaxStr - 1 THEN Len(s) ELSE MaxStr - 1)

\* inet_pton leaves the zeroed address as it is when it rejects the text.
inet_pton(a) == IF a >= 0 THEN a ELSE 0

\* The entries a loop reads before `count >= MAX' breaks it.
First(s, n) == SubSeq(s, 1, IF Len(s) < n THEN Len(s) ELSE n)

\* Mutant: the device loop breaks one entry late.
CappedDevices_late(doc) == First(doc.devices, MaxDev + 1)

CappedDevices(doc) == First(doc.devices, MaxDev)

CappedPlanars(dev) == First(dev.planar_intfs, MaxIntf)

\* A device entry whose parse reaches dev.num_interfaces = iface_count:
\* every key it and each interface the inner loop reads are present.
DeviceParses(dev) ==
    /\ DeviceKeys \subseteq DOMAIN dev
    /\ \A j \in DOMAIN CappedPlanars(dev) : PlanarKeys \subseteq DOMAIN dev.planar_intfs[j]

ParsePlanar(e) ==
    [id |-> strncpy(e.id), name |-> strncpy(e.name),
     ipv4 |-> inet_pton(e.ipv4_addr), ipv6 |-> inet_pton(e.ipv6_addr)]

ParseDevice(dev) ==
    [virtual_intf |-> strncpy(dev.virtual_intf), virtual_ip |-> inet_pton(dev.virtual_ip),
     planar_intfs |-> [j \in DOMAIN CappedPlanars(dev) |-> ParsePlanar(dev.planar_intfs[j])]]

\* The try block stops at the first get that throws: host_name, host_ip
\* and the device list are read in this order, then the devices in turn;
\* the devices before the throwing one are complete.  The handler only
\* logs, and the function returns ANP_SUCCESS.
parse_planar_config(doc) ==
    LET named     == "host_name" \in DOMAIN doc
        addressed == named /\ "host_ip" \in DOMAIN doc
        listed    == addressed /\ "devices" \in DOMAIN doc
        ds        == IF listed THEN CappedDevices(doc) ELSE <<>>
        bad       == { i \in DOMAIN ds : ~DeviceParses(ds[i]) }
        n         == IF bad = {} THEN Len(ds) + 1 ELSE Min(bad)
    IN [status          |-> ANP_SUCCESS,
        num_devices_set |-> listed /\ bad = {},
        host |-> [host_name |-> IF named THEN doc.host_name ELSE <<>>,
                  host_ip   |-> IF addressed THEN doc.host_ip ELSE <<>>,
                  devices   |-> [i \in 1 .. n - 1 |-> ParseDevice(ds[i])]]]

-----------------------------------------------------------------------------
\* A file with every field a key of section 6 names: the files the
\* specification says parse; one without is a Config error (section 7).
Complete(doc) ==
    /\ HostKeys \subseteq DOMAIN doc
    /\ \A i \in DOMAIN doc.devices :
          /\ DeviceKeys \subseteq DOMAIN doc.devices[i]
          /\ \A j \in DOMAIN doc.devices[i].planar_intfs :
                PlanarKeys \subseteq DOMAIN doc.devices[i].planar_intfs[j]
=============================================================================
