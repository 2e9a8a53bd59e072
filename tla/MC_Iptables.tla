---------------------------- MODULE MC_Iptables ----------------------------
(* The rules host 10.0.0.2 issues for its own device (virtual ip 12) on two *)
(* planar interfaces, in the order apply_local_vip_iptables_rule issues them. *)
EXTENDS Iptables, NatRules

MCRules ==
    << add_tx_snat_rules(12, 3, "eth1"), add_rx_dnat_rules(12, 3, "eth1"),
       add_tx_snat_rules(12, 6, "eth2"), add_rx_dnat_rules(12, 6, "eth2") >>
=============================================================================
