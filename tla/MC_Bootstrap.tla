---------------------------- MODULE MC_Bootstrap ----------------------------
(* A three-host cluster: the peer list elects the host with the lowest      *)
(* address, each host has one device; one planar interface has no IPv4.    *)
EXTENDS Bootstrap

CONSTANTS h1, h2, h3, InvalidEntry

E == INSTANCE Election WITH IpBits <- 4, Invalid <- InvalidEntry, MaxList <- 3, list <- <<>>

\* Planar interface and device records as parse_planar_config fills them.
Planar(name, ipv4) == [name |-> name, ipv4 |-> ipv4]
Device(vip, planars) == [virtual_ip |-> vip, planar_intfs |-> planars]
Host(name, ip, devices) == [host_name |-> name, host_ip |-> ip, devices |-> devices]

MCConfig ==
    (h1 :> Host("n1", "10.0.0.5", <<Device(11, <<Planar("eth1", 1), Planar("eth2", 0)>>)>>))
 @@ (h2 :> Host("n2", "10.0.0.2", <<Device(12, <<Planar("eth1", 3)>>)>>))
 @@ (h3 :> Host("n3", "10.0.0.9", <<Device(13, <<Planar("eth1", 4)>>)>>))

\* The peer-list file, in the order of scenario S1 of the specification,
\* and the value ip_to_uint gives each line (the addresses' last octet).
PeerList == <<"10.0.0.5", "10.0.0.2", "10.0.0.9">>

Uint == ("10.0.0.5" :> 5) @@ ("10.0.0.2" :> 2) @@ ("10.0.0.9" :> 9)

MCRoot == CHOOSE h \in {h1, h2, h3} :
              Uint[MCConfig[h].host_ip] = E!ElectRoot([i \in DOMAIN PeerList |-> Uint[PeerList[i]]])
=============================================================================
