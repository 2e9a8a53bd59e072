----------------------------- MODULE Exchange ------------------------------
(***************************************************************************)
(* What the configuration exchange of sections 4.4.3 and 4.4.4 of the     *)
(* specification promises, whatever the sockets do.  The root gathers     *)
(* host records, its own among them, until it stops gathering; it then    *)
(* completes or fails.  A leaf either fails, or completes holding exactly *)
(* the records the root had when it stopped.  Nothing is said about when  *)
(* a record is lost: a failed receiver, a dead leaf or a short read all   *)
(* leave a record out.                                                    *)
(***************************************************************************)
EXTENDS FiniteSets

CONSTANTS
    Hosts,    \* the hosts of the peer list
    Root,     \* the elected root
    Record    \* Record[h]: the host record h reports

Leaves == Hosts \ {Root}

VARIABLES
    collected,    \* the records the root holds
    frozen,       \* TRUE once the root has stopped gathering
    outcome,      \* outcome[h]: "running", "done" or "failed"
    view          \* view[l]: the records leaf l completed with

vars == <<collected, frozen, outcome, view>>

Init ==
    /\ collected = {}
    /\ frozen = FALSE
    /\ outcome = [h \in Hosts |-> "running"]
    /\ view = [l \in Leaves |-> {}]

\* The root adds the record of a host, its own first.
Collect(h) ==
    /\ ~frozen
    /\ (h = Root) = (collected = {})
    /\ collected' = collected \cup {Record[h]}
    /\ UNCHANGED <<frozen, outcome, view>>

\* The root stops gathering, and completes or fails.
Finish(o) ==
    /\ ~frozen
    /\ collected # {}
    /\ frozen' = TRUE
    /\ outcome' = [outcome EXCEPT ![Root] = o]
    /\ UNCHANGED <<collected, view>>

\* A leaf completes with what the root gathered.
Adopt(l) ==
    /\ frozen
    /\ outcome[l] = "running"
    /\ outcome' = [outcome EXCEPT ![l] = "done"]
    /\ view' = [view EXCEPT ![l] = collected]
    /\ UNCHANGED <<collected, frozen>>

\* A leaf fails, at any time before it completes.
Fail(l) ==
    /\ outcome[l] = "running"
    /\ outcome' = [outcome EXCEPT ![l] = "failed"]
    /\ UNCHANGED <<collected, frozen, view>>

Next ==
    \/ \E h \in Hosts : Collect(h)
    \/ \E o \in {"done", "failed"} : Finish(o)
    \/ \E l \in Leaves : Adopt(l) \/ Fail(l)

Spec == Init /\ [][Next]_vars
=============================================================================
