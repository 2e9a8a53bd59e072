------------------------------ MODULE Iptables ------------------------------
(***************************************************************************)
(* The rule installer of include/anp_iptables_wrap.h: every derived rule   *)
(* goes through execute_iptables_command, which probes the backend once    *)
(* per process, creates the nft nat table and chains once per process,     *)
(* renders the rule as an iptables or an nft command, checks whether the   *)
(* rule exists and appends it otherwise.                                   *)
(*                                                                         *)
(* The kernel's rule table outlives the process: the bootstrap can be run  *)
(* again (or die and be restarted) on a host whose table already holds     *)
(* rules.  It is a bag, since the kernel keeps every appended copy.        *)
(* A command is modelled by its effect: an append adds one copy and may   *)
(* fail (xtables lock, missing nft chain), which system() reports as a     *)
(* nonzero status; the "check" derived from an append is a malformed      *)
(* iptables command, or, for nft, the append itself.                       *)
(***************************************************************************)
EXTENDS Naturals, Sequences, FiniteSets, Bags

CONSTANTS
    Rules,        \* the rules one run ensures, in issue order
    Systems,      \* what `iptables --version` may report on the host
    AddMayFail,   \* TRUE when an append can fail transiently
    MaxRuns       \* how many times the process runs on the host

ASSUME /\ Systems \subseteq {"nf_tables", "legacy", "unknown"} /\ Systems # {}
       /\ AddMayFail \in BOOLEAN
       /\ MaxRuns \in Nat \ {0}

VARIABLES
    iptables_backend,   \* the probe cache ("" until probed)
    initialized,        \* setup_nft_nat_table's static flag
    chainsReady,        \* the kernel has table ip nat with its chains
    kernel,             \* the kernel's rules: a bag of rules
    pc,                 \* index of the next rule to ensure
    failed,             \* indexes of this run's rules whose commands failed
    runs,               \* runs started on this host
    system              \* what `iptables --version` names on this host

vars == <<iptables_backend, initialized, chainsReady, kernel, pc, failed, runs, system>>

\* construct_iptables_command and convert_to_nftables: the rendered
\* command, its tool and verb, and the rule it carries.
\* Mutant: the interface flag is inverted, -i for out and -o for in.
construct_iptables_command_flipped(rule) ==
    [tool |-> "iptables", verb |-> "-A",
     rule |-> [rule EXCEPT !.iface_type = IF @ = "in" THEN "out" ELSE "in"]]

construct_iptables_command(rule) == [tool |-> "iptables", verb |-> "-A", rule |-> rule]

convert_to_nftables(rule) == [tool |-> "nft", verb |-> "add", rule |-> rule]

\* The check command: check_command.replace(pos + 1, 1, "C") overwrites
\* the '-' after the space found at pos, so " -A " becomes " CA ", an
\* argument iptables rejects.  A command without " -A " (every nft
\* command) is left as it is: the check is the append itself.
check_command_of(command) ==
    IF command.verb = "-A" THEN [command EXCEPT !.verb = "CA"] ELSE command

\* Whether system(command) can exit 0 with chains ready: a malformed
\* command never does, an nft append needs the nat chains, an iptables
\* append (legacy, or the iptables-nft front end) creates what it needs.
Succeeds(command, ready) ==
    CASE command.verb = "CA" -> FALSE
      [] command.tool = "nft" -> ready
      [] OTHER -> TRUE

\* The kernel after system(command) exited with status ok.
After(command, ok, k) ==
    IF ok /\ command.verb # "CA" THEN k (+) SetToBag({command.rule}) ELSE k

\* The exit statuses system(command) can return.
Statuses(command, ready) ==
    IF ~Succeeds(command, ready) THEN {FALSE}
    ELSE IF AddMayFail THEN BOOLEAN
    ELSE {TRUE}

\* Mutant: the early return after a successful check is dropped, the
\* command runs whatever rule_exists returned.
Outcomes_unchecked(command, ready) ==
    LET check == check_command_of(command)
    IN UNION { { [k |-> After(command, ok, After(check, exists, kernel)), ok |-> ok] :
                   ok \in Statuses(command, ready) } :
               exists \in Statuses(check, ready) }

\* The append branch of execute_iptables_command: rule_exists(check), and
\* when it returned false, system(command); the kernel after, and whether
\* 0 was returned.
Outcomes(command, ready) ==
    LET check == check_command_of(command)
    IN UNION { IF exists
               THEN { [k |-> After(check, TRUE, kernel), ok |-> TRUE] }
               ELSE { [k |-> After(command, ok, kernel), ok |-> ok] :
                        ok \in Statuses(command, ready) } :
               exists \in Statuses(check, ready) }

\* detect_iptables_backend: the cached result; else a probe through popen,
\* which either fails ("unknown", not cached) or reads what the host's
\* iptables reports ("nf_tables", "legacy", or "unknown" for neither),
\* cached.  Each outcome: the backend and the cache after.
detect_iptables_backend ==
    IF iptables_backend # ""
    THEN { [backend |-> iptables_backend, cache |-> iptables_backend] }
    ELSE { [backend |-> system, cache |-> system], [backend |-> "unknown", cache |-> ""] }

\* setup_nft_nat_table: on its first call each `nft list || nft add` for the
\* table and the three chains runs (setupOk: all of them exited 0); the
\* flag is then set whatever they returned.  Whether the chains exist after.
setup_nft_nat_table(setupOk) ==
    IF initialized THEN chainsReady ELSE chainsReady \/ setupOk

-----------------------------------------------------------------------------
Init ==
    /\ system \in Systems
    /\ iptables_backend = ""
    /\ initialized = FALSE
    /\ chainsReady \in IF system = "nf_tables" THEN BOOLEAN ELSE {TRUE}
    /\ kernel = EmptyBag
    /\ pc = 1
    /\ failed = {}
    /\ runs = 1

\* execute_iptables_command(Rules[pc]): probe (cached), nft setup (once;
\* each `list || add` may fail, the flag is set regardless), render, check,
\* and append when the check fails.
execute_iptables_command ==
    /\ pc <= Len(Rules)
    /\ \E probe \in detect_iptables_backend, setupOk \in BOOLEAN :
          LET nft     == probe.backend = "nf_tables"
              ready   == IF nft THEN setup_nft_nat_table(setupOk) ELSE chainsReady
              command == IF nft THEN convert_to_nftables(Rules[pc])
                         ELSE construct_iptables_command(Rules[pc])
          IN \E o \in Outcomes(command, ready) :
                /\ kernel' = o.k
                /\ failed' = IF o.ok THEN failed ELSE failed \cup {pc}
                /\ chainsReady' = ready
                /\ initialized' = (initialized \/ nft)
                /\ iptables_backend' = probe.cache
                /\ pc' = pc + 1
                /\ UNCHANGED <<runs, system>>

\* The process exits or dies, at any point, and the bootstrap is run again:
\* the probe cache and the setup flag start afresh, the kernel keeps its rules.
Rerun ==
    /\ runs < MaxRuns
    /\ runs' = runs + 1
    /\ iptables_backend' = ""
    /\ initialized' = FALSE
    /\ pc' = 1
    /\ failed' = {}
    /\ UNCHANGED <<chainsReady, kernel, system>>

Next == execute_iptables_command \/ Rerun

Spec == Init /\ [][Next]_vars

-----------------------------------------------------------------------------
TypeOK ==
    /\ iptables_backend \in {"", "nf_tables", "legacy", "unknown"}
    /\ initialized \in BOOLEAN
    /\ chainsReady \in BOOLEAN
    /\ IsABag(kernel) /\ BagToSet(kernel) \subseteq { Rules[i] : i \in DOMAIN Rules }
    /\ pc \in 1 .. Len(Rules) + 1
    /\ failed \subseteq 1 .. Len(Rules)
    /\ runs \in 1 .. MaxRuns
    /\ system \in Systems

\* ensure() is idempotent: however often the bootstrap runs or dies on a
\* host, the kernel holds at most one copy of each rule.
NoDuplicateRules == \A r \in BagToSet(kernel) : CopiesIn(r, kernel) = 1

\* What a rerun costs: every run adds at most one copy of a rule, and only
\* once it has reached that rule, whatever the backend, the probe and the
\* failed checks and appends; earlier runs, dead or finished, left at most
\* one copy each.  (Rules are distinct.)
CopiesPerRun ==
    \A i \in DOMAIN Rules :
        CopiesIn(Rules[i], kernel) <= (runs - 1) + (IF pc > i THEN 1 ELSE 0)
=============================================================================
