---------------------------- MODULE MC_Dispatch ----------------------------
(* Three hosts with two interface addresses each.  A well-formed peer-list *)
(* file names one address of every host, in any order, possibly followed   *)
(* by an empty line; the other files add the deviations the code meets.    *)
EXTENDS Dispatch

LOCAL INSTANCE SequencesExt

CONSTANTS h1, h2, h3

MCOwned == [h \in {h1, h2, h3} |-> CASE h = h1 -> {1, 5}
                                     [] h = h2 -> {2, 6}
                                     [] h = h3 -> {3, 4}]

\* One address chosen for every host, the lines in any order.
Listings == { c \in [{h1, h2, h3} -> 1 .. 6] : \A h \in {h1, h2, h3} : c[h] \in MCOwned[h] }

Orders(c) == SetToSeqs({ Line(c[h], FALSE) : h \in {h1, h2, h3} })

WellFormed == UNION { Orders(c) \cup { o \o <<Blank>> : o \in Orders(c) } : c \in Listings }

\* A well-formed file whose first line has trailing blanks.
Padded == UNION { { <<Line(o[1].ip, TRUE)>> \o Tail(o) : o \in Orders(c) } : c \in Listings }

\* h1 listed under both its addresses.
MultiHomed == SetToSeqs({ Line(1, FALSE), Line(5, FALSE), Line(2, FALSE), Line(3, FALSE) })
\* The files on which the local IP depends on more than a plain match.
LocalIpFiles == MultiHomed \cup Padded
=============================================================================
