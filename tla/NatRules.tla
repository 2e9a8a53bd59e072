------------------------------ MODULE NatRules ------------------------------
(***************************************************************************)
(* Derivation of the NAT rules a host installs from its merged view of    *)
(* the cluster (include/anp_bootstrap.h, add_*_rules and                   *)
(* apply_local/remote_vip_iptables_rule).                                  *)
(*                                                                         *)
(* A host record is [host_name, host_ip, devices], devices a sequence of   *)
(* [virtual_ip, planar_intfs], planar_intfs a sequence of [name, ipv4].    *)
(* Addresses are naturals and 0 is the unset address (s_addr == 0).        *)
(* A view (host_db.all_hosts) is a function from its keys to host records. *)
(* A rule is the IptablesRule record of include/anp_iptables_wrap.h        *)
(* without its action and table fields, which are always "A" and "nat".    *)
(***************************************************************************)
EXTENDS Naturals, Sequences, FiniteSets

LOCAL INSTANCE Functions

\* struct IptablesRule: chain, match on a source or destination address,
\* interface in or out, jump target and translated address.
IptablesRule(chain, match_type, match_value, iface_type, iface_name, jump_target, translate_ip) ==
    [chain |-> chain, match_type |-> match_type, match_value |-> match_value,
     iface_type |-> iface_type, iface_name |-> iface_name,
     jump_target |-> jump_target, translate_ip |-> translate_ip]

add_tx_snat_rules(vip, pip, name) ==
    IptablesRule("POSTROUTING", "SIP", vip, "out", name, "SNAT", pip)

add_tx_dnat_rules(vip, pip, name) ==
    IptablesRule("OUTPUT", "DIP", vip, "out", name, "DNAT", pip)

add_rx_snat_rules(vip, pip, name) ==
    IptablesRule("INPUT", "SIP", pip, "in", name, "SNAT", vip)

add_rx_dnat_rules(vip, pip, name) ==
    IptablesRule("OUTPUT", "DIP", pip, "out", name, "DNAT", vip)

\* The (virtual ip, planar ip, planar name) triples of a host for which
\* rules are issued: both the planar ipv4 and the device's virtual ip set.
Programmable(host) ==
    UNION { { [vip |-> d.virtual_ip, pip |-> p.ipv4, name |-> p.name] :
                p \in { q \in Range(d.planar_intfs) : q.ipv4 # 0 } } :
            d \in { e \in Range(host.devices) : e.virtual_ip # 0 } }

\* Rules for the host stored under the key local_ip; none when the view
\* has no entry under that key ("Local host not found in host_db").
apply_local_vip_iptables_rule(db, local_ip) ==
    IF local_ip \in DOMAIN db
    THEN UNION { { add_tx_snat_rules(t.vip, t.pip, t.name),
                   add_rx_dnat_rules(t.vip, t.pip, t.name) } :
                 t \in Programmable(db[local_ip]) }
    ELSE {}

\* Rules for every host whose key differs from local_ip.
apply_remote_vip_iptables_rule(db, local_ip) ==
    UNION { { add_tx_dnat_rules(t.vip, t.pip, t.name),
              add_rx_snat_rules(t.vip, t.pip, t.name) } :
            t \in UNION { Programmable(db[k]) : k \in DOMAIN db \ {local_ip} } }

\* What run_root_node and run_leaf_node program after the exchange.
ProgramRules(db, local_ip) ==
    apply_local_vip_iptables_rule(db, local_ip)
        \cup apply_remote_vip_iptables_rule(db, local_ip)

\* The rules a host with address self should hold given the set of host
\* records it knows, when every record is looked up by its host_ip.
ExpectedRules(hosts, self) ==
    ProgramRules([ip \in { h.host_ip : h \in hosts } |->
                    CHOOSE h \in hosts : h.host_ip = ip], self)
=============================================================================
