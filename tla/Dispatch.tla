------------------------------ MODULE Dispatch ------------------------------
(***************************************************************************)
(* Start-up of every host in src/src/bootstrap.cc, up to the point where   *)
(* the configuration exchange (module Bootstrap) begins: read_ip_list      *)
(* reads the peer-list file, get_local_ip finds this host in it, the       *)
(* election of anp_bootstrap_handler (module Election) picks the root, and *)
(* the host runs run_root_node or run_leaf_node.  The root accepts         *)
(* ip_count - 1 connections and then prompts every accepted leaf; a leaf   *)
(* retries connect until the root listens, then waits for its prompt.      *)
(*                                                                         *)
(* An IPv4 address is its unsigned value.  A line of the file is the      *)
(* model value Blank (an empty line) or Line(a, pad): address a, followed  *)
(* by trailing blanks when pad, which read_ip_list keeps as they are.      *)
(* Ifaces[h] is the order in which getifaddrs lists h's IPv4 addresses.    *)
(***************************************************************************)
EXTENDS Naturals, Sequences, FiniteSets

LOCAL INSTANCE SequencesExt

CONSTANTS
    Hosts,      \* the machines that run the program
    Owned,      \* Owned[h]: the IPv4 addresses of h's interfaces
    Files,      \* the peer-list files every host may be given
    Blank,      \* an empty line
    Invalid,    \* what Election's ip_to_uint maps an unparsable entry to
    NotFound,   \* get_local_ip found no interface address in the list
    MAX_IPS,    \* capacity of ip_list
    IpBits      \* width of the modelled address space

ASSUME \A h, g \in Hosts : h # g => Owned[h] \cap Owned[g] = {}

E == INSTANCE Election WITH MaxList <- MAX_IPS, list <- <<>>

Line(a, pad) == [ip |-> a, pad |-> pad]

\* strcmp(addr_str, entry) == 0 for the address a as inet_ntop prints it.
Names(e, a) == ~e.pad /\ e.ip = a

\* inet_pton: the entry's address, or failure when it has trailing blanks.
Parses(e) == ~e.pad

VARIABLES
    file,       \* the peer-list file, the same on every host
    ifaces,     \* ifaces[h]: getifaddrs order of h's addresses
    pc,         \* pc[h]: where the bootstrap thread of h is
    localIp,    \* localIp[h]: the result of get_local_ip
    total,      \* total[h]: total_LNs = ip_count - 1 of a root
    dial,       \* dial[h]: root_ip a leaf connects to
    bound,      \* addresses a root listens on
    pending,    \* leaves whose connect completed, not yet accepted
    peers       \* peers[h]: the leaves root h accepted (connArr)

vars == <<file, ifaces, pc, localIp, total, dial, bound, pending, peers>>

\* read_ip_list: empty lines are read into the next slot and not counted,
\* at most MAX_IPS lines are kept, the others verbatim.
read_ip_list(lines) ==
    LET kept == SelectSeq(lines, LAMBDA l : l # Blank)
    IN SubSeq(kept, 1, IF Len(kept) < MAX_IPS THEN Len(kept) ELSE MAX_IPS)

\* Mutant: the first interface address is taken once any of them is listed.
get_local_ip_first_iface(list, ifs) ==
    LET hits == SelectSeq(ifs, LAMBDA a : \E i \in DOMAIN list : Names(list[i], a))
    IN IF hits = <<>> THEN NotFound ELSE ifs[1]

\* get_local_ip: the first interface, in getifaddrs order, whose address
\* strcmp-equals some entry of the list.
get_local_ip(list, ifs) ==
    LET hits == SelectSeq(ifs, LAMBDA a : \E i \in DOMAIN list : Names(list[i], a))
    IN IF hits = <<>> THEN NotFound ELSE hits[1]

\* The entry of the list the election picks (root_ip), compared by
\* ip_to_uint.
RootEntry(list) ==
    list[E!ElectFrom([i \in DOMAIN list |-> IF Parses(list[i]) THEN list[i].ip ELSE Invalid],
                     2, 1)]

Init ==
    /\ file \in Files
    /\ ifaces \in [Hosts -> UNION { SetToSeqs(Owned[h]) : h \in Hosts }]
    /\ \A h \in Hosts : Range(ifaces[h]) = Owned[h]
    /\ pc = [h \in Hosts |-> "start"]
    /\ localIp = [h \in Hosts |-> NotFound]
    /\ total = [h \in Hosts |-> 0]
    /\ dial = [h \in Hosts |-> NotFound]
    /\ bound = {}
    /\ pending = {}
    /\ peers = [h \in Hosts |-> {}]

\* Mutant: the root counts itself among the leaves it waits for.
anp_bootstrap_handler_counting_self(h) ==
    LET list  == read_ip_list(file)
        local == get_local_ip(list, ifaces[h])
        root  == RootEntry(list)
    IN /\ pc[h] = "start"
       /\ IF list = <<>> \/ local = NotFound
          THEN /\ pc' = [pc EXCEPT ![h] = "exit"]
               /\ UNCHANGED <<localIp, total, dial>>
          ELSE /\ localIp' = [localIp EXCEPT ![h] = local]
               /\ IF Names(root, local)
                  THEN /\ pc' = [pc EXCEPT ![h] = "listening"]
                       /\ total' = [total EXCEPT ![h] = Len(list)]
                       /\ UNCHANGED dial
                  ELSE /\ pc' = [pc EXCEPT ![h] = "connecting"]
                       /\ dial' = [dial EXCEPT ![h] = IF Parses(root) THEN root.ip ELSE 0]
                       /\ UNCHANGED total
       /\ UNCHANGED <<file, ifaces, bound, pending, peers>>

\* anp_bootstrap_handler: read the list, find this host, elect the root and
\* take the root or the leaf role.  pthread_exit when the list is empty or
\* no interface address is in it.
anp_bootstrap_handler(h) ==
    LET list  == read_ip_list(file)
        local == get_local_ip(list, ifaces[h])
        root  == RootEntry(list)
    IN /\ pc[h] = "start"
       /\ IF list = <<>> \/ local = NotFound
          THEN /\ pc' = [pc EXCEPT ![h] = "exit"]
               /\ UNCHANGED <<localIp, total, dial>>
          ELSE /\ localIp' = [localIp EXCEPT ![h] = local]
               /\ IF Names(root, local)
                  THEN /\ pc' = [pc EXCEPT ![h] = "listening"]
                       /\ total' = [total EXCEPT ![h] = Len(list) - 1]
                       /\ UNCHANGED dial
                  ELSE /\ pc' = [pc EXCEPT ![h] = "connecting"]
                       /\ dial' = [dial EXCEPT ![h] = IF Parses(root) THEN root.ip ELSE 0]
                       /\ UNCHANGED total
       /\ UNCHANGED <<file, ifaces, bound, pending, peers>>

\* run_root_node binds and listens on its address; with no leaves to wait
\* for it goes straight on to prompting.
RootListen(h) ==
    /\ pc[h] = "listening"
    /\ bound' = bound \cup {localIp[h]}
    /\ pc' = [pc EXCEPT ![h] = IF total[h] = 0 THEN "prompted" ELSE "accepting"]
    /\ UNCHANGED <<file, ifaces, localIp, total, dial, pending, peers>>

\* Mutant: a leaf that finds no listener gives up instead of retrying.
LeafConnect_once(h) ==
    /\ pc[h] = "connecting"
    /\ IF dial[h] \in bound
       THEN /\ pending' = pending \cup {h}
            /\ pc' = [pc EXCEPT ![h] = "connected"]
       ELSE /\ pc' = [pc EXCEPT ![h] = "exit"]
            /\ UNCHANGED pending
    /\ UNCHANGED <<file, ifaces, localIp, total, dial, bound, peers>>

\* run_leaf_node: connect succeeds once some host listens on root_ip; a
\* failed attempt sleeps and retries, which changes nothing.
LeafConnect(h) ==
    /\ pc[h] = "connecting"
    /\ dial[h] \in bound
    /\ pending' = pending \cup {h}
    /\ pc' = [pc EXCEPT ![h] = "connected"]
    /\ UNCHANGED <<file, ifaces, localIp, total, dial, bound, peers>>

\* Mutant: the loop stops one connection early.
RootAccept_early(h) ==
    /\ pc[h] = "accepting"
    /\ Cardinality(peers[h]) < total[h]
    /\ \E l \in pending :
          /\ dial[l] = localIp[h]
          /\ pending' = pending \ {l}
          /\ peers' = [peers EXCEPT ![h] = @ \cup {l}]
          /\ pc' = [pc EXCEPT ![h] = IF Cardinality(peers'[h]) + 1 = total[h]
                                     THEN "prompted" ELSE "accepting"]
    /\ UNCHANGED <<file, ifaces, localIp, total, dial, bound>>

\* One turn of the accept loop of run_root_node: the loop counts accepted
\* connections, whoever they come from; after total_LNs of them the root
\* sends PLANAR_CONFIG_REQUEST on each.
RootAccept(h) ==
    /\ pc[h] = "accepting"
    /\ Cardinality(peers[h]) < total[h]
    /\ \E l \in pending :
          /\ dial[l] = localIp[h]
          /\ pending' = pending \ {l}
          /\ peers' = [peers EXCEPT ![h] = @ \cup {l}]
          /\ pc' = [pc EXCEPT ![h] = IF Cardinality(peers'[h]) = total[h]
                                     THEN "prompted" ELSE "accepting"]
    /\ UNCHANGED <<file, ifaces, localIp, total, dial, bound>>

\* The leaf's first recv_tlv returns once its root has sent the prompt.
LeafPrompted(h) ==
    /\ pc[h] = "connected"
    /\ \E r \in Hosts : pc[r] = "prompted" /\ h \in peers[r]
    /\ pc' = [pc EXCEPT ![h] = "prompted"]
    /\ UNCHANGED <<file, ifaces, localIp, total, dial, bound, pending, peers>>

Next ==
    \E h \in Hosts :
        \/ anp_bootstrap_handler(h)
        \/ RootListen(h)
        \/ LeafConnect(h)
        \/ RootAccept(h)
        \/ LeafPrompted(h)

\* Each host runs its own thread; connect is retried for ever and accept
\* and recv block until they can return.
Spec == Init /\ [][Next]_vars /\ \A h \in Hosts : WF_vars(
            anp_bootstrap_handler(h) \/ RootListen(h) \/ LeafConnect(h)
            \/ RootAccept(h) \/ LeafPrompted(h))

-----------------------------------------------------------------------------
\* The role a host took in anp_bootstrap_handler.
RootRole(h) == localIp[h] # NotFound /\ dial[h] = NotFound
LeafRole(h) == dial[h] # NotFound

\* Types; a root waits for at most MAX_IPS - 1 leaves.
TypeOK ==
    /\ pc \in [Hosts -> {"start", "exit", "listening", "accepting",
                         "connecting", "connected", "prompted"}]
    /\ pending \subseteq Hosts
    /\ peers \in [Hosts -> SUBSET Hosts]
    /\ total \in [Hosts -> 0 .. MAX_IPS - 1]

\* Every host elects the root on its own: at most one host ever takes the
\* root role, and every leaf dials an address of a host that is, or will
\* become, that root listening on it.
OneRoot ==
    /\ \A h, g \in Hosts : RootRole(h) /\ RootRole(g) => h = g
    /\ \A l \in Hosts :
          LeafRole(l) =>
              \E r \in Hosts : /\ dial[l] \in Owned[r]
                               /\ \/ pc[r] = "start"
                                  \/ RootRole(r) /\ localIp[r] = dial[l]

\* The root prompts only after it accepted a connection from every other
\* host: the accept loop counts connections, and its count must stand
\* for the leaves.
RootServesAll ==
    \A r \in Hosts : pc[r] = "prompted" /\ RootRole(r) => peers[r] = Hosts \ {r}

\* The start-up ends: every host gets past the point where the exchange
\* begins (the root prompting, each leaf prompted).
Termination == <>(\A h \in Hosts : pc[h] = "prompted")

\* Section 4.4.1 of the specification: the local IP is the first entry of
\* the file (trailing blanks tolerated) that equals an interface address.
SpecLocalIp(h) ==
    LET hits == SelectSeq(file, LAMBDA e : e # Blank /\ e.ip \in Owned[h])
    IN IF hits = <<>> THEN NotFound ELSE hits[1].ip

LocalIpMatchesSpec ==
    \A h \in Hosts : pc[h] # "start" => localIp[h] = SpecLocalIp(h)
=============================================================================
