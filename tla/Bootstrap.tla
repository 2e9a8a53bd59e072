----------------------------- MODULE Bootstrap -----------------------------
(***************************************************************************)
(* The configuration exchange of src/src/bootstrap.cc between the elected *)
(* root node (run_root_node with its recv_config_thread receivers) and the *)
(* leaf nodes (run_leaf_node), over one TCP connection per leaf framed by  *)
(* send_tlv/recv_tlv on the socket facade of src/src/bootstrap_socket.cc.  *)
(*                                                                         *)
(* Each direction of a connection is a FIFO of TLV frames.  A frame's      *)
(* payload can reach the receiver in several TCP segments; "whole" is      *)
(* FALSE while only a part of it has arrived.  anpNcclSocketRecv issues a  *)
(* single recv() and fails when it returns fewer bytes than asked for, so  *)
(* a payload read while only partly arrived is a failed read.              *)
(***************************************************************************)
EXTENDS Naturals, Sequences, FiniteSets, TLC, NatRules

LOCAL INSTANCE Functions

CONSTANTS
    Hosts,        \* the hosts of the peer-list file
    Root,         \* the host the election picks (see Election)
    Config,       \* Config[h]: the host record parsed from h's planar config
    ShortReads,   \* TRUE when a payload may arrive in more than one segment
    MaxCrashes,   \* bound on the leaf processes that die after connecting
    ThreadFailures, \* TRUE when pthread_create may fail
    BindFailures  \* TRUE when the root's listening socket may fail

Leaves == Hosts \ {Root}

ASSUME /\ Root \in Hosts
       /\ ShortReads \in BOOLEAN
       /\ MaxCrashes \in Nat
       /\ ThreadFailures \in BOOLEAN
       /\ BindFailures \in BOOLEAN
       /\ \A h \in Hosts : Config[h].host_ip # ""
       /\ \A h, g \in Hosts : h # g => /\ Config[h].host_ip # Config[g].host_ip
                                      /\ Config[h].host_name # Config[g].host_name

\* TLV message types.
MSG_PLANAR_CONFIG_REQUEST == 1
MSG_CONFIG_RESPONSE       == 2
MSG_COMPOSITE_CONFIG      == 3

VARIABLES
    rootPc,      \* where run_root_node is
    backlog,     \* leaves whose connect() completed, not yet accepted
    accepted,    \* connArr: the accepted leaves in accept order
    rthread,     \* rthread[l]: state of the recv_config_thread for leaf l
    leafPc,      \* leafPc[l]: where run_leaf_node is on leaf l
    toLeaf,      \* toLeaf[l]: frames in flight from the root to leaf l
    toRoot,      \* toRoot[l]: frames in flight from leaf l to the root
    db,          \* db[h]: host_db.all_hosts of host h
    localIp,     \* localIp[h]: host_db.local_ip of host h ("" until set)
    installed    \* installed[h]: NAT rules host h has programmed

vars == <<rootPc, backlog, accepted, rthread, leafPc, toLeaf, toRoot, db,
          localIp, installed>>

Frame(type, payload, whole) == [type |-> type, payload |-> payload, whole |-> whole]

\* A payload is sent whole, or in segments when short reads are modelled.
Arrivals == IF ShortReads THEN BOOLEAN ELSE {TRUE}

\* serialize_all_hosts: the records of the view, in the map's order; the
\* order is not modelled since the receiver stores them into a map.
serialize_all_hosts(view) == Range(view)

\* deserialize_all_hosts: every decoded record is stored under its
\* host_name (all_hosts[host.host_name] = host).
deserialize_all_hosts(payload) ==
    [n \in { h.host_name : h \in payload } |-> CHOOSE h \in payload : h.host_name = n]

EmptyView == [k \in {} |-> Config[Root]]

\* A process's end of its connections is closed once it has exited.
PeerClosed(l) == leafPc[l] \in {"failed", "crashed", "killed"}
RootClosed == rootPc \in {"done", "killed", "exit"}

\* anpNcclSocketInit then anpNcclSocketListen on the root: socket(),
\* setsockopt(SO_REUSEADDR), bind() and listen() each fail with
\* ncclInternalError, bind() typically because the port is taken.
anpNcclSocketListen == IF BindFailures THEN {"ok", "error"} ELSE {"ok"}

\* anpNcclSocketConnect: connect() succeeds once the root's socket listens.
anpNcclSocketConnect == rootPc \notin {"init", "parsed", "exit"}

\* anpNcclSocketSend: one send() with flags 0.  On a connection whose peer
\* has closed, the bytes are discarded while the peer's reset is on its way
\* and, once it is back, send() raises SIGPIPE, whose default action ends
\* the process: nothing in src/ ignores or handles the signal.
anpNcclSocketSend(closed) == IF closed THEN {"discarded", "sigpipe"} ELSE {"sent"}

\* The send loops of run_root_node call send_tlv on connArr[0 .. total_LNs-1]
\* in accept order; o[i] is what the sends on connection i did.  The loop
\* reaches connection i only if no earlier send raised SIGPIPE.
SendLoopOutcomes ==
    { o \in [DOMAIN accepted -> {"sent", "discarded", "sigpipe"}] :
         \A i \in DOMAIN accepted : o[i] \in anpNcclSocketSend(PeerClosed(accepted[i])) }
Reached(o) == { i \in DOMAIN accepted : \A j \in 1 .. i - 1 : o[j] # "sigpipe" }
Delivered(o) == { accepted[i] : i \in { j \in Reached(o) : o[j] = "sent" } }
Piped(o) == \E i \in DOMAIN accepted : o[i] = "sigpipe"

\* The connections whose recv_config_thread pthread_create started; a
\* failure is logged and the loop goes on.
Started == IF ThreadFailures THEN SUBSET Leaves ELSE {Leaves}

-----------------------------------------------------------------------------
Init ==
    /\ rootPc = "init"
    /\ backlog = {}
    /\ accepted = <<>>
    /\ rthread = [l \in Leaves |-> "none"]
    /\ leafPc = [l \in Leaves |-> "connecting"]
    /\ toLeaf = [l \in Leaves |-> <<>>]
    /\ toRoot = [l \in Leaves |-> <<>>]
    /\ db = [h \in Hosts |-> EmptyView]
    /\ localIp = [h \in Hosts |-> ""]
    /\ installed = [h \in Hosts |-> {}]

\* Mutant: the root's own host is not stored in host_db.
RootParse_unrecorded ==
    /\ rootPc = "init"
    /\ rootPc' = "parsed"
    /\ localIp' = [localIp EXCEPT ![Root] = Config[Root].host_ip]
    /\ UNCHANGED <<db, backlog, accepted, rthread, leafPc, toLeaf, toRoot, installed>>

\* run_root_node: parse the local planar config into host_db.
RootParse ==
    /\ rootPc = "init"
    /\ rootPc' = "parsed"
    /\ db' = [db EXCEPT ![Root] = Config[Root].host_ip :> Config[Root]]
    /\ localIp' = [localIp EXCEPT ![Root] = Config[Root].host_ip]
    /\ UNCHANGED <<backlog, accepted, rthread, leafPc, toLeaf, toRoot, installed>>

\* Then bind and listen on the local ip; when that fails, return
\* EXIT_FAILURE, leaving the leaves to retry connect.
RootListen ==
    /\ rootPc = "parsed"
    /\ \E r \in anpNcclSocketListen : rootPc' = IF r = "ok" THEN "accepting" ELSE "exit"
    /\ UNCHANGED <<backlog, accepted, rthread, leafPc, toLeaf, toRoot, db, localIp, installed>>

\* The accept loop: one more connection from the listen backlog.
RootAccept(l) ==
    /\ rootPc = "accepting"
    /\ Len(accepted) < Cardinality(Leaves)
    /\ l \in backlog
    /\ backlog' = backlog \ {l}
    /\ accepted' = Append(accepted, l)
    /\ UNCHANGED <<rootPc, rthread, leafPc, toLeaf, toRoot, db, localIp, installed>>

\* Once total_LNs connections are in: send PLANAR_CONFIG_REQUEST on each
\* and start one recv_config_thread per connection.
RootPrompt ==
    /\ rootPc = "accepting"
    /\ Len(accepted) = Cardinality(Leaves)
    /\ \E o \in SendLoopOutcomes :
          /\ toLeaf' = [l \in Leaves |->
                          IF l \in Delivered(o)
                          THEN Append(toLeaf[l], Frame(MSG_PLANAR_CONFIG_REQUEST, {}, TRUE))
                          ELSE toLeaf[l]]
          /\ IF Piped(o)
             THEN /\ rootPc' = "killed"
                  /\ UNCHANGED rthread
             ELSE /\ \E started \in Started :
                        rthread' = [l \in Leaves |-> IF l \in started THEN "recv" ELSE "unstarted"]
                  /\ rootPc' = "collecting"
    /\ UNCHANGED <<backlog, accepted, leafPc, toRoot, db, localIp, installed>>

\* Mutant: the receiver replaces all_hosts by the received host instead of
\* adding it.
recv_config_thread_replacing(l) ==
    /\ rthread[l] = "recv"
    /\ \/ /\ toRoot[l] # <<>>
          /\ Head(toRoot[l]).type = MSG_CONFIG_RESPONSE
          /\ toRoot' = [toRoot EXCEPT ![l] = Tail(@)]
          /\ IF Head(toRoot[l]).whole
             THEN LET host == CHOOSE h \in Head(toRoot[l]).payload : TRUE
                  IN /\ db' = [db EXCEPT ![Root] = host.host_ip :> host]
                     /\ rthread' = [rthread EXCEPT ![l] = "ok"]
             ELSE /\ rthread' = [rthread EXCEPT ![l] = "failed"]
                  /\ UNCHANGED db
       \/ /\ toRoot[l] = <<>>
          /\ PeerClosed(l)
          /\ rthread' = [rthread EXCEPT ![l] = "failed"]
          /\ UNCHANGED <<toRoot, db>>
    /\ UNCHANGED <<rootPc, backlog, accepted, leafPc, toLeaf, localIp, installed>>

\* Mutant: end of file is taken for no data yet and the read is retried.
recv_config_thread_retrying_eof(l) ==
    /\ rthread[l] = "recv"
    /\ toRoot[l] # <<>>
    /\ Head(toRoot[l]).type = MSG_CONFIG_RESPONSE
    /\ toRoot' = [toRoot EXCEPT ![l] = Tail(@)]
    /\ IF Head(toRoot[l]).whole
       THEN LET host == CHOOSE h \in Head(toRoot[l]).payload : TRUE
            IN /\ db' = [db EXCEPT ![Root] = (host.host_ip :> host) @@ @]
               /\ rthread' = [rthread EXCEPT ![l] = "ok"]
       ELSE /\ rthread' = [rthread EXCEPT ![l] = "failed"]
            /\ UNCHANGED db
    /\ UNCHANGED <<rootPc, backlog, accepted, leafPc, toLeaf, localIp, installed>>

\* recv_config_thread: read the CONFIG_RESPONSE header and payload; on a
\* short payload read, or end of file from a leaf that has exited, the
\* thread exits, otherwise the decoded host is stored under its host_ip
\* while holding response_mutex.
recv_config_thread(l) ==
    /\ rthread[l] = "recv"
    /\ \/ /\ toRoot[l] # <<>>
          /\ Head(toRoot[l]).type = MSG_CONFIG_RESPONSE
          /\ toRoot' = [toRoot EXCEPT ![l] = Tail(@)]
          /\ IF Head(toRoot[l]).whole
             THEN LET host == CHOOSE h \in Head(toRoot[l]).payload : TRUE
                  IN /\ db' = [db EXCEPT ![Root] = (host.host_ip :> host) @@ @]
                     /\ rthread' = [rthread EXCEPT ![l] = "ok"]
             ELSE /\ rthread' = [rthread EXCEPT ![l] = "failed"]
                  /\ UNCHANGED db
       \/ /\ toRoot[l] = <<>>
          /\ PeerClosed(l)
          /\ rthread' = [rthread EXCEPT ![l] = "failed"]
          /\ UNCHANGED <<toRoot, db>>
    /\ UNCHANGED <<rootPc, backlog, accepted, leafPc, toLeaf, localIp, installed>>

\* The composite loop, the rule programming and the close of run_root_node;
\* a SIGPIPE in the loop ends the process before it programs its rules.
Distribute ==
    \E o \in SendLoopOutcomes, whole \in [Leaves -> Arrivals] :
       /\ toLeaf' = [l \in Leaves |->
                       IF l \in Delivered(o)
                       THEN Append(toLeaf[l], Frame(MSG_COMPOSITE_CONFIG,
                                                    serialize_all_hosts(db[Root]), whole[l]))
                       ELSE toLeaf[l]]
       /\ IF Piped(o)
          THEN /\ rootPc' = "killed"
               /\ UNCHANGED installed
          ELSE /\ installed' = [installed EXCEPT ![Root] = ProgramRules(db[Root], localIp[Root])]
               /\ rootPc' = "done"

\* Mutant: the composite is serialized without joining the receivers.
RootDistribute_unjoined ==
    /\ rootPc = "collecting"
    /\ Distribute
    /\ UNCHANGED <<backlog, accepted, rthread, leafPc, toRoot, db, localIp>>

\* After joining every receiver: serialize host_db once, send it as
\* COMPOSITE_CONFIG on every connection, program the NAT rules and close.
\* pthread_join on the handle of a thread that was never created reads an
\* uninitialized pthread_t: it returns an error, or the process faults.
RootDistribute ==
    /\ rootPc = "collecting"
    /\ \A l \in Leaves : rthread[l] \in {"ok", "failed", "unstarted"}
    /\ \/ Distribute
       \/ /\ \E l \in Leaves : rthread[l] = "unstarted"
          /\ rootPc' = "killed"
          /\ UNCHANGED <<toLeaf, installed>>
    /\ UNCHANGED <<backlog, accepted, rthread, leafPc, toRoot, db, localIp>>

-----------------------------------------------------------------------------
\* run_leaf_node: the connect loop succeeds once the root listens.  A
\* refused attempt closes the socket, sleeps and starts again, which
\* changes nothing: with no root listening the loop never ends.
LeafConnect(l) ==
    /\ leafPc[l] = "connecting"
    /\ anpNcclSocketConnect
    /\ backlog' = backlog \cup {l}
    /\ leafPc' = [leafPc EXCEPT ![l] = "connected"]
    /\ UNCHANGED <<rootPc, accepted, rthread, toLeaf, toRoot, db, localIp, installed>>

\* Send the CONFIG_RESPONSE to the root: lost, or fatal to the leaf, once
\* the root's process has exited.
SendResponse(l) ==
    \E r \in anpNcclSocketSend(RootClosed), whole \in Arrivals :
       /\ toRoot' = IF r = "sent"
                    THEN [toRoot EXCEPT ![l] = Append(@, Frame(MSG_CONFIG_RESPONSE, {Config[l]}, whole))]
                    ELSE toRoot
       /\ leafPc' = [leafPc EXCEPT ![l] = IF r = "sigpipe" THEN "killed" ELSE "awaitComposite"]

\* Mutant: local_ip is recorded from the host name.
LeafRespond_name_as_ip(l) ==
    /\ leafPc[l] = "connected"
    /\ toLeaf[l] # <<>>
    /\ Head(toLeaf[l]).type = MSG_PLANAR_CONFIG_REQUEST
    /\ toLeaf' = [toLeaf EXCEPT ![l] = Tail(@)]
    /\ localIp' = [localIp EXCEPT ![l] = Config[l].host_name]
    /\ SendResponse(l)
    /\ UNCHANGED <<rootPc, backlog, accepted, rthread, db, installed>>

\* Receive PLANAR_CONFIG_REQUEST, parse the local config, record local_ip
\* and send the serialized host as CONFIG_RESPONSE.
LeafRespond(l) ==
    /\ leafPc[l] = "connected"
    /\ toLeaf[l] # <<>>
    /\ Head(toLeaf[l]).type = MSG_PLANAR_CONFIG_REQUEST
    /\ toLeaf' = [toLeaf EXCEPT ![l] = Tail(@)]
    /\ localIp' = [localIp EXCEPT ![l] = Config[l].host_ip]
    /\ SendResponse(l)
    /\ UNCHANGED <<rootPc, backlog, accepted, rthread, db, installed>>

\* recv_tlv returns end of file once the root's process has closed the
\* connection with nothing left to read: the leaf closes its socket and
\* returns EXIT_FAILURE, waiting for the prompt or for the composite.
LeafPeerClosed(l) ==
    /\ leafPc[l] \in {"connected", "awaitComposite"}
    /\ toLeaf[l] = <<>>
    /\ RootClosed
    /\ leafPc' = [leafPc EXCEPT ![l] = "failed"]
    /\ UNCHANGED <<rootPc, backlog, accepted, rthread, toLeaf, toRoot, db, localIp, installed>>

\* Receive COMPOSITE_CONFIG; a short payload read closes the socket and
\* returns EXIT_FAILURE, otherwise the composite is decoded into host_db,
\* the NAT rules are programmed and the socket is closed.
LeafRecvComposite(l) ==
    /\ leafPc[l] = "awaitComposite"
    /\ toLeaf[l] # <<>>
    /\ Head(toLeaf[l]).type = MSG_COMPOSITE_CONFIG
    /\ toLeaf' = [toLeaf EXCEPT ![l] = Tail(@)]
    /\ IF Head(toLeaf[l]).whole
       THEN LET view == deserialize_all_hosts(Head(toLeaf[l]).payload)
            IN /\ db' = [db EXCEPT ![l] = view]
               /\ installed' = [installed EXCEPT ![l] = ProgramRules(view, localIp[l])]
               /\ leafPc' = [leafPc EXCEPT ![l] = "done"]
       ELSE /\ leafPc' = [leafPc EXCEPT ![l] = "failed"]
            /\ UNCHANGED <<db, installed>>
    /\ UNCHANGED <<rootPc, backlog, accepted, rthread, toRoot, localIp>>

\* The leaf's process dies after connecting (killed by an operator, out of
\* memory, node reboot).  Its kernel closes the socket: what the root sent
\* it is lost, what it had sent is still delivered, then end of file.
LeafCrash(l) ==
    /\ leafPc[l] \in {"connected", "awaitComposite"}
    /\ Cardinality({ k \in Leaves : leafPc[k] = "crashed" }) < MaxCrashes
    /\ leafPc' = [leafPc EXCEPT ![l] = "crashed"]
    /\ toLeaf' = [toLeaf EXCEPT ![l] = <<>>]
    /\ UNCHANGED <<rootPc, backlog, accepted, rthread, toRoot, db, localIp, installed>>

\* The network: the rest of a frame's payload arrives.
ArriveToRoot(l) ==
    /\ \E i \in DOMAIN toRoot[l] :
          /\ ~toRoot[l][i].whole
          /\ toRoot' = [toRoot EXCEPT ![l][i].whole = TRUE]
    /\ UNCHANGED <<rootPc, backlog, accepted, rthread, leafPc, toLeaf, db, localIp, installed>>

ArriveToLeaf(l) ==
    /\ \E i \in DOMAIN toLeaf[l] :
          /\ ~toLeaf[l][i].whole
          /\ toLeaf' = [toLeaf EXCEPT ![l][i].whole = TRUE]
    /\ UNCHANGED <<rootPc, backlog, accepted, rthread, leafPc, toRoot, db, localIp, installed>>

-----------------------------------------------------------------------------
Next ==
    \/ RootParse
    \/ RootListen
    \/ RootPrompt
    \/ RootDistribute
    \/ \E l \in Leaves :
          \/ RootAccept(l)
          \/ recv_config_thread(l)
          \/ LeafConnect(l)
          \/ LeafRespond(l)
          \/ LeafRecvComposite(l)
          \/ LeafPeerClosed(l)
          \/ LeafCrash(l)
          \/ ArriveToRoot(l)
          \/ ArriveToLeaf(l)

\* Every process and receiver thread is scheduled by the OS and blocks only
\* in socket calls, and TCP delivers what was sent: each step is weakly
\* fair, except a crash, which may or may not happen.
Fairness ==
    /\ WF_vars(RootParse) /\ WF_vars(RootListen)
    /\ WF_vars(RootPrompt) /\ WF_vars(RootDistribute)
    /\ \A l \in Leaves :
          /\ WF_vars(RootAccept(l)) /\ WF_vars(recv_config_thread(l))
          /\ WF_vars(LeafConnect(l)) /\ WF_vars(LeafRespond(l))
          /\ WF_vars(LeafRecvComposite(l)) /\ WF_vars(LeafPeerClosed(l))
          /\ WF_vars(ArriveToRoot(l)) /\ WF_vars(ArriveToLeaf(l))

Spec == Init /\ [][Next]_vars /\ Fairness

-----------------------------------------------------------------------------
HostRecords == { Config[h] : h \in Hosts }

FrameType == [type : {1, 2, 3}, payload : SUBSET HostRecords, whole : BOOLEAN]

RuleType == [chain : {"POSTROUTING", "OUTPUT", "INPUT"}, match_type : {"SIP", "DIP"},
             match_value : Nat, iface_type : {"in", "out"}, iface_name : STRING,
             jump_target : {"SNAT", "DNAT"}, translate_ip : Nat]

TypeOK ==
    /\ rootPc \in {"init", "parsed", "accepting", "collecting", "done", "killed", "exit"}
    /\ backlog \subseteq Leaves
    /\ accepted \in Seq(Leaves)
    /\ rthread \in [Leaves -> {"none", "recv", "ok", "failed", "unstarted"}]
    /\ leafPc \in [Leaves -> {"connecting", "connected", "awaitComposite", "done", "failed",
                               "crashed", "killed"}]
    /\ toLeaf \in [Leaves -> Seq(FrameType)]
    /\ toRoot \in [Leaves -> Seq(FrameType)]
    /\ \A h \in Hosts : Range(db[h]) \subseteq HostRecords
    /\ localIp \in [Hosts -> {""} \cup { r.host_ip : r \in HostRecords }]
    /\ installed \in [Hosts -> SUBSET RuleType]

-----------------------------------------------------------------------------
\* The composite is serialized once, after every recv_config_thread has been
\* joined: each leaf that completes holds exactly the records the root holds
\* and programs from, whatever the order of receivers and leaves.
ViewAgreement ==
    \A l \in Leaves : leafPc[l] = "done" => Range(db[l]) = Range(db[Root])

\* The root's view, once distributed, holds its own record and the record of
\* exactly those leaves whose receiver thread completed: a failed receiver
\* leaves its host out, a completed one is never lost.
CollectedViews ==
    rootPc = "done" =>
        Range(db[Root]) = {Config[Root]} \cup { Config[l] : l \in { k \in Leaves : rthread[k] = "ok" } }

\* The specification requires recv to loop until all bytes are read, so a
\* root that has distributed knows every host of the peer list.
CompleteView == rootPc = "done" => Range(db[Root]) = HostRecords

\* Every host that completes programs the rules of section 4.5 for the host
\* records it holds: local rules for its own host_ip, remote rules for every
\* other host.
RulesFollowView ==
    \A h \in Hosts :
        (IF h = Root THEN rootPc = "done" ELSE leafPc[h] = "done")
            => installed[h] = ExpectedRules(Range(db[h]), Config[h].host_ip)

\* The exchange as section 4.4 promises it (module Exchange): the root's
\* records, whether it has stopped gathering, and how each host ended.
Outcome(h) ==
    IF h = Root
    THEN CASE rootPc = "done" -> "done" [] rootPc \in {"killed", "exit"} -> "failed"
           [] OTHER -> "running"
    ELSE CASE leafPc[h] = "done" -> "done"
           [] leafPc[h] \in {"failed", "crashed", "killed"} -> "failed"
           [] OTHER -> "running"

Abstract == INSTANCE Exchange WITH
    Record <- Config,
    collected <- Range(db[Root]),
    frozen <- RootClosed,
    outcome <- [h \in Hosts |-> Outcome(h)],
    view <- [l \in Leaves |-> IF leafPc[l] = "done" THEN Range(db[l]) ELSE {}]

\* run_root_node, its receivers and run_leaf_node implement the exchange:
\* the root's records only grow, starting from its own, and only until it
\* leaves the collecting phase; a leaf completes only after that, with
\* exactly those records; a failure, a crash or a SIGPIPE is a failure.
ExchangeRefinement == Abstract!Spec

\* Section 7 of the specification treats a leaf that closes its connection
\* (PeerClosed) as a Protocol failure of that peer: the root abandons it
\* and the bootstrap of the other peers proceeds.  So when one leaf dies,
\* the root and every other leaf still complete and program their rules.
PeerFailureIsolated ==
    <>(/\ rootPc = "done"
       /\ \A l \in Leaves : leafPc[l] # "crashed" => leafPc[l] = "done")

\* Neither the accept loop, the receivers joined by the root, nor a leaf
\* blocked in recv waits forever, even when a leaf dies after connecting:
\* the root and every leaf terminate.  The one exception is a root that
\* cannot listen: it exits, and the leaves retry connect for ever, which
\* section 5 of the specification allows (no deadline).
Termination ==
    <>(\/ rootPc = "exit"
       \/ /\ RootClosed
          /\ \A l \in Leaves : leafPc[l] \in {"done", "failed", "crashed", "killed"})
=============================================================================
