------------------------------- MODULE Gateway -------------------------------
(***************************************************************************)
(* NetworkGatewayManager (network/gateway.py): the iptables chains that    *)
(* send the network's DNS traffic to the daemon.  The daemon runs it for   *)
(* its clients, a root command line (cmd_gateway in cli/main.py) by        *)
(* itself, so two of them may work on the kernel's tables at once.  Each   *)
(* iptables command is atomic; a sequence of them is not.                  *)
(*                                                                         *)
(* The daemon serves one request at a time, so no session starts or ends   *)
(* while it runs commands.                                                 *)
(***************************************************************************)
EXTENDS Sequences, Integers

CONSTANTS
    Unprivileged,   \* the processes whose commands are all refused
    MaxJumps,       \* bound: jumps to a chain
    MaxFaults       \* bound: failing commands, killed processes, reboots

Processes == {"daemon", "cli"}
Tables == {"nat", "filter"}

ASSUME GatewayAssumption ==
    /\ Unprivileged \subseteq Processes
    /\ MaxJumps \in Nat /\ MaxFaults \in Nat

VARIABLES
    chain,      \* per table: the rules of FocusGuard's chain, or Absent
    jumps,      \* per table: how often PREROUTING or FORWARD jump to it
    forwarding, \* net.ipv4.ip_forward
    locked,     \* a focus session is locked
    op,         \* per process: the operation it runs or ran last
    pc,         \* the next command of it; 0 when it is over
    found,      \* what the last -C said
    result,     \* what the operation returned
    alone,      \* nobody else has touched the tables since it began
    clean,      \* none of its commands failed for a reason outside the tables
    spoiled,    \* since nobody last worked on the tables, something else than
                \* complete enables with the right to change them has
    faults

kernel == <<chain, jumps, forwarding>>
ghosts == <<alone, clean, spoiled>>
vars == <<chain, jumps, forwarding, locked, op, pc, found, result, alone, clean, spoiled,
          faults>>

Absent == {"absent"}
Rules == [nat |-> {"udp 53", "tcp 53"}, filter |-> {"tcp 853"}]

\* A command is what it does and to which table.  Python goes on after a
\* command that fails unless it was run with check=True.
Command(do, table) == [do |-> do, table |-> table, rule |-> "", check |-> FALSE]
Insert(table) == [do |-> "-I", table |-> table, rule |-> "", check |-> TRUE]

\* Mutant: an append that fails is passed over, like most commands.
AppendRule_Unchecked(table, rule) ==
    [do |-> "-A", table |-> table, rule |-> rule, check |-> FALSE]

AppendRule(table, rule) ==
    [do |-> "-A", table |-> table, rule |-> rule, check |-> TRUE]

\* Mutant: the nat chain is deleted and made anew.
Enable_Rebuilds ==
    <<Command("forward", "nat"),
      Command("-F", "nat"), Command("-X", "nat"), Command("-N", "nat"),
      AppendRule("nat", "udp 53"), AppendRule("nat", "tcp 53"),
      Command("-C", "nat"), Insert("nat"),
      Command("-N", "filter"), Command("-F", "filter"), AppendRule("filter", "tcp 853"),
      Command("-C", "filter"), Insert("filter")>>

\* Mutant: the jump is looked for and inserted before the chain is made.
Enable_JumpFirst ==
    <<Command("forward", "nat"),
      Command("-C", "nat"), Insert("nat"), Command("-N", "nat"), Command("-F", "nat"),
      AppendRule("nat", "udp 53"), AppendRule("nat", "tcp 53"),
      Command("-C", "filter"), Insert("filter"),
      Command("-N", "filter"), Command("-F", "filter"), AppendRule("filter", "tcp 853")>>

\* enable_transparent_redirection.
Enable ==
    <<Command("forward", "nat"),
      Command("-N", "nat"), Command("-F", "nat"),
      AppendRule("nat", "udp 53"), AppendRule("nat", "tcp 53"),
      Command("-C", "nat"), Insert("nat"),
      Command("-N", "filter"), Command("-F", "filter"), AppendRule("filter", "tcp 853"),
      Command("-C", "filter"), Insert("filter")>>

\* Mutant: the chains are deleted without being flushed.
Disable_NoFlush ==
    <<Command("-D", "nat"), Command("-X", "nat"),
      Command("-D", "filter"), Command("-X", "filter")>>

\* disable_transparent_redirection.
Disable ==
    <<Command("-D", "nat"), Command("-F", "nat"), Command("-X", "nat"),
      Command("-D", "filter"), Command("-F", "filter"), Command("-X", "filter")>>

Program == [enable |-> Enable, disable |-> Disable]

TypeOK ==
    /\ chain \in [Tables -> {Absent} \cup SUBSET {"udp 53", "tcp 53", "tcp 853"}]
    /\ jumps \in [Tables -> Nat]
    /\ forwarding \in BOOLEAN /\ locked \in BOOLEAN
    /\ op \in [Processes -> {"none", "enable", "disable"}]
    /\ pc \in [Processes -> Nat]
    /\ \A p \in Processes :
        IF op[p] = "none" THEN pc[p] = 0 ELSE pc[p] <= Len(Program[op[p]])
    /\ found \in [Processes -> BOOLEAN]
    /\ result \in [Processes -> {"none", "ok", "error"}]
    /\ alone \in [Processes -> BOOLEAN] /\ clean \in [Processes -> BOOLEAN]
    /\ spoiled \in BOOLEAN
    /\ faults \in 0 .. MaxFaults

Running(p) == pc[p] # 0
Fault == faults < MaxFaults /\ faults' = faults + 1

-----------------------------------------------------------------------------
(* One command *)

\* The kernel accepts the command.
Accepted(c) ==
    CASE c.do = "forward" -> TRUE
      [] c.do = "-N" -> chain[c.table] = Absent
      [] c.do \in {"-F", "-A", "-I"} -> chain[c.table] # Absent
      [] c.do \in {"-C", "-D"} -> jumps[c.table] > 0
      [] c.do = "-X" -> chain[c.table] = {} /\ jumps[c.table] = 0

Effect(c) ==
    LET t == c.table
    IN  /\ chain' = [chain EXCEPT ![t] =
                CASE c.do \in {"-N", "-F"} -> {}
                  [] c.do = "-A" -> @ \cup {c.rule}
                  [] c.do = "-X" -> Absent
                  [] OTHER -> @]
        /\ jumps' = [jumps EXCEPT ![t] =
                CASE c.do = "-I" -> @ + 1
                  [] c.do = "-D" -> @ - 1
                  [] OTHER -> @]
        /\ forwarding' = (forwarding \/ c.do = "forward")

\* The operation goes on after a command, or is over.
GoOn(p) ==
    IF pc[p] < Len(Program[op[p]])
    THEN pc' = [pc EXCEPT ![p] = @ + 1] /\ UNCHANGED result
    ELSE pc' = [pc EXCEPT ![p] = 0] /\ result' = [result EXCEPT ![p] = "ok"]

Abort(p) == pc' = [pc EXCEPT ![p] = 0] /\ result' = [result EXCEPT ![p] = "error"]

\* -I runs only when -C has failed.
Skipped(p, c) == c.do = "-I" /\ found[p]

Run(p) ==
    /\ Running(p)
    /\ LET c == Program[op[p]][pc[p]]
       IN  \/ /\ Skipped(p, c)
              /\ GoOn(p)
              /\ UNCHANGED <<kernel, found>>
           \/ /\ ~Skipped(p, c)
              /\ p \notin Unprivileged
              /\ Accepted(c)
              /\ Effect(c)
              /\ found' = [found EXCEPT ![p] = c.do = "-C"]
              /\ GoOn(p)
           \/ /\ ~Skipped(p, c)
              /\ p \in Unprivileged \/ ~Accepted(c)
              /\ found' = [found EXCEPT ![p] = FALSE]
              /\ IF c.check THEN Abort(p) ELSE GoOn(p)
              /\ UNCHANGED kernel
    /\ clean' = [clean EXCEPT ![p] = @ /\ p \notin Unprivileged]
    /\ UNCHANGED <<locked, op, alone, spoiled, faults>>

\* A command fails for a reason of its own: another process holds the xtables
\* lock, or iptables cannot be run.  The latter raises, checked or not, and ends
\* the operation; only enable_ip_forwarding catches it itself.
CommandFails(p) ==
    /\ Running(p)
    /\ LET c == Program[op[p]][pc[p]]
       IN  /\ ~Skipped(p, c)
           /\ \/ ~c.check /\ GoOn(p)
              \/ c.do # "forward" /\ Abort(p)
    /\ Fault
    /\ found' = [found EXCEPT ![p] = FALSE]
    /\ clean' = [clean EXCEPT ![p] = FALSE]
    /\ spoiled' = TRUE
    /\ UNCHANGED <<kernel, locked, op, alone>>

-----------------------------------------------------------------------------
(* Operations *)

\* p begins; whatever anyone else says of the tables is out of date.
Begin(p, o) ==
    /\ ~Running(p)
    /\ op' = [op EXCEPT ![p] = o]
    /\ pc' = [pc EXCEPT ![p] = 1]
    /\ result' = [result EXCEPT ![p] = "none"]
    /\ alone' = [r \in Processes |-> r = p /\ \A other \in Processes : ~Running(other)]
    /\ clean' = [clean EXCEPT ![p] = TRUE]
    /\ spoiled' = \/ o = "disable"
                  \/ p \in Unprivileged
                  \/ spoiled /\ \E other \in Processes : Running(other)
    /\ UNCHANGED <<kernel, locked, found, faults>>

\* (Bound: room for the jumps that both processes may insert.)
BeginEnable(p) ==
    /\ \A t \in Tables : jumps[t] + 2 <= MaxJumps
    /\ Begin(p, "enable")

\* gateway_disable, for a client that is not root: assert_not_locked first.
DaemonDisable == ~locked /\ Begin("daemon", "disable")

\* As root, cmd_gateway looks up "session_status" in the status report.  The
\* report has no such key, so it goes on whether the session is locked or not.
CliDisable == Begin("cli", "disable")

\* The daemon takes a request or a tick that locks or releases a session.
ChangeLock ==
    /\ ~Running("daemon")
    /\ locked' = ~locked
    /\ UNCHANGED <<kernel, op, pc, found, result, ghosts, faults>>

\* The process is killed between two commands.
Kill(p) ==
    /\ Running(p)
    /\ Fault
    /\ pc' = [pc EXCEPT ![p] = 0]
    /\ result' = [result EXCEPT ![p] = "none"]
    /\ spoiled' = TRUE
    /\ UNCHANGED <<kernel, locked, op, found, alone, clean>>

\* The tables live in the kernel; the session is on disk.
Reboot ==
    /\ Fault
    /\ chain' = [t \in Tables |-> Absent]
    /\ jumps' = [t \in Tables |-> 0]
    /\ forwarding' \in BOOLEAN
    /\ op' = [p \in Processes |-> "none"]
    /\ pc' = [p \in Processes |-> 0]
    /\ found' = [p \in Processes |-> FALSE]
    /\ result' = [p \in Processes |-> "none"]
    /\ alone' = [p \in Processes |-> FALSE]
    /\ clean' = [p \in Processes |-> FALSE]
    /\ spoiled' = TRUE
    /\ UNCHANGED locked

Init ==
    /\ chain = [t \in Tables |-> Absent]
    /\ jumps = [t \in Tables |-> 0]
    /\ forwarding \in BOOLEAN
    /\ locked = FALSE
    /\ op = [p \in Processes |-> "none"]
    /\ pc = [p \in Processes |-> 0]
    /\ found = [p \in Processes |-> FALSE]
    /\ result = [p \in Processes |-> "none"]
    /\ alone = [p \in Processes |-> FALSE]
    /\ clean = [p \in Processes |-> FALSE]
    /\ spoiled = TRUE
    /\ faults = 0

Next ==
    \/ \E p \in Processes : BeginEnable(p) \/ Run(p) \/ CommandFails(p) \/ Kill(p)
    \/ DaemonDisable
    \/ CliDisable
    \/ ChangeLock
    \/ Reboot

Spec == Init /\ [][Next]_vars
-----------------------------------------------------------------------------
(* Properties *)

Enforced == \A t \in Tables : chain[t] = Rules[t] /\ jumps[t] > 0

\* p's last operation is over and nobody has touched the tables since it began.
Over(p, o) == op[p] = o /\ ~Running(p) /\ result[p] # "none" /\ alone[p]

\* Whatever killed, failed and overlapping operations have left behind, one
\* undisturbed enable repairs it: it succeeds and all traffic is redirected.
EnableRepairs ==
    \A p \in Processes : Over(p, "enable") /\ clean[p] => result[p] = "ok" /\ Enforced

\* An enable that says it succeeded has, even if some of its commands failed.
EnableTruthful ==
    \A p \in Processes : Over(p, "enable") /\ result[p] = "ok" => Enforced

\* After an undisturbed disable no rule catches any traffic, whatever was there.
DisableStopsRedirection ==
    \A p \in Processes : Over(p, "disable") /\ clean[p] =>
        \A t \in Tables : chain[t] \in {{}, Absent}

\* Enables of the daemon and of the command line may overlap as they like and
\* find whatever was there: each flushes what the other has appended and sees
\* jumps that the other inserted.  Yet each of them succeeds, and when the last
\* one is through, all traffic is redirected.
OverlappingEnablesEnforce ==
    [][\A p \in Processes : Running(p) /\ ~Running(p)' /\ ~spoiled' =>
           /\ result'[p] = "ok"
           /\ (\A q \in Processes : ~Running(q)') => Enforced']_vars

\* "Removed cleanly": a disable that returned success, undisturbed, has left
\* nothing that catches traffic.
DisableTruthful ==
    \A p \in Processes : Over(p, "disable") /\ result[p] = "ok" =>
        \A t \in Tables : chain[t] \in {{}, Absent}

\* "Atomic teardown": no jump and no chain is left.
DisableLeavesNothing ==
    \A p \in Processes : Over(p, "disable") /\ clean[p] =>
        \A t \in Tables : chain[t] = Absent

\* "Strictly rejected while focus session is locked".
DisableRejectedWhileLocked ==
    [][locked => \A p \in Processes : op'[p] = "disable" => pc'[p] # 1]_vars

\* is_transparent_redirection_active: the nat chain can be listed.
ReportedActive == chain["nat"] # Absent

\* "Check if redirection chains are active": between operations, redirection
\* that is reported is there.
StatusTruthful ==
    ReportedActive /\ (\A p \in Processes : ~Running(p))
        => chain["nat"] = Rules["nat"] /\ jumps["nat"] > 0
=============================================================================
