------------------------------ MODULE Election ------------------------------
(***************************************************************************)
(* Root election of anp_bootstrap_handler (src/src/bootstrap.cc): every   *)
(* entry of the peer list is converted by ip_to_uint and the first entry   *)
(* with the strictly lowest value is the root.                             *)
(*                                                                         *)
(* An IPv4 address is its unsigned value in an address space of IpBits    *)
(* bits (the code's space has 32).  A line inet_pton rejects is the model  *)
(* value Invalid; ip_to_uint maps it to the all-ones value 0xffffffff.     *)
(***************************************************************************)
EXTENDS Naturals, Sequences

CONSTANTS
    IpBits,    \* width of the modelled address space
    Invalid,   \* a peer-list line that is not a dotted IPv4 address
    MaxList    \* longest peer list enumerated

UintMax == 2^IpBits - 1

ASSUME IpBits \in Nat \ {0} /\ MaxList \in Nat \ {0}

\* ip_to_uint: inet_pton failure yields 0xffffffff.
ip_to_uint(entry) == IF entry = Invalid THEN UintMax ELSE entry

\* Mutant: lowest is never updated, every entry is compared with the first.
RECURSIVE ElectFrom_stale(_, _, _)
ElectFrom_stale(list, i, best) ==
    IF i > Len(list) THEN best
    ELSE ElectFrom_stale(list, i + 1,
                         IF ip_to_uint(list[i]) < ip_to_uint(list[1]) THEN i ELSE best)

\* The election loop: best is the index of root_ip, compared with a
\* strict < so that the first of equal entries stays elected.
RECURSIVE ElectFrom(_, _, _)
ElectFrom(list, i, best) ==
    IF i > Len(list) THEN best
    ELSE ElectFrom(list, i + 1,
                   IF ip_to_uint(list[i]) < ip_to_uint(list[best]) THEN i ELSE best)

ElectRoot(list) == list[ElectFrom(list, 2, 1)]

-----------------------------------------------------------------------------
\* Peer lists: host addresses are never the all-ones broadcast address.
Entries == (0 .. UintMax - 1) \cup {Invalid}

PeerLists == UNION { [1 .. n -> Entries] : n \in 1 .. MaxList }

VARIABLE list

Init == list \in PeerLists

\* The input is fixed; the check is over every initial state.
Next == UNCHANGED list

Spec == Init /\ [][Next]_list

\* Reference election of the specification: among the entries that are
\* addresses, the first one with the minimum value; the first entry when
\* there are none.
Valid(l) == { i \in DOMAIN l : l[i] # Invalid }

RefRoot(l) ==
    IF Valid(l) = {} THEN l[1]
    ELSE LET low == CHOOSE i \in Valid(l) : \A j \in Valid(l) : l[i] <= l[j]
         IN l[CHOOSE i \in Valid(l) : l[i] = l[low] /\ \A j \in Valid(l) : l[j] = l[low] => i <= j]

\* Every host runs the election loop of anp_bootstrap_handler on the same
\* file: the loop elects the first address with the minimum value and never
\* an unparsable line while the file holds an address, whatever the order
\* and duplicates of the lines.
ElectionMatchesSpec == ElectRoot(list) = RefRoot(list)
=============================================================================
