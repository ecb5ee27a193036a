---------------------------- MODULE GatewayProofs ----------------------------
(***************************************************************************)
(* Theorems about Gateway, for any number of faults and any set of         *)
(* processes without privileges.  The invariant says how far an operation  *)
(* that nobody disturbs has got: what holds before its k-th command.       *)
(***************************************************************************)
EXTENDS Gateway, TLAPS

\* The number of the command that p would run next, the last one's successor
\* when it is through.
Reached(p) == IF Running(p) THEN pc[p] ELSE Len(Program[op[p]]) + 1

\* What an enable has built when it gets to its k-th command: the rules
\* appended and the jumps inserted so far, and a jump if it has just found one.
EnabledBefore(k, f, ch, j) ==
    \A i \in 1 .. k - 1 :
        LET t == Enable[i].table
        IN  /\ Enable[i].do = "-A" => Enable[i].rule \in ch[t]
            /\ Enable[i].do = "-I" => j[t] > 0
            /\ Enable[i].do = "-C" /\ i = k - 1 /\ f => j[t] > 0

\* The chains that an enable whose commands do not fail has by then.
ChainsBefore(k, ch) ==
    \A i \in 1 .. k - 1 : Enable[i].do = "-N" => ch[Enable[i].table] # Absent

\* What a disable whose commands do not fail has emptied by then.
EmptiedBefore(k, ch) ==
    \A i \in 1 .. k - 1 :
        Disable[i].do = "-F" => ch[Disable[i].table] \in {{}, Absent}

EnableInv(p) ==
    alone[p] /\ op[p] = "enable" /\ (Running(p) \/ result[p] = "ok")
        => EnabledBefore(Reached(p), found[p], chain, jumps)

RepairInv(p) ==
    alone[p] /\ clean[p] /\ op[p] = "enable" /\ (Running(p) \/ result[p] # "none")
        => ChainsBefore(Reached(p), chain) /\ result[p] # "error"

DisableInv(p) ==
    alone[p] /\ clean[p] /\ op[p] = "disable" /\ (Running(p) \/ result[p] # "none")
        => EmptiedBefore(Reached(p), chain)

\* The tables are the kernel's: a chain holds only its own rules, and nothing
\* jumps to a chain that is not there.
KernelInv ==
    \A t \in Tables :
        /\ chain[t] = Absent \/ chain[t] \subseteq Rules[t]
        /\ chain[t] = Absent => jumps[t] = 0

ProcessInv ==
    \A p \in Processes :
        /\ Running(p) => result[p] = "none"
        /\ alone[p] => \A q \in Processes \ {p} : ~Running(q)
        /\ clean[p] /\ pc[p] > 1 => p \notin Unprivileged

Inv ==
    /\ TypeOK
    /\ KernelInv
    /\ ProcessInv
    /\ \A p \in Processes : EnableInv(p) /\ RepairInv(p) /\ DisableInv(p)

-----------------------------------------------------------------------------
(* The programs, command by command *)

LEMMA EnableCommands ==
    /\ Len(Enable) = 12
    /\ Enable[1].do = "forward" /\ Enable[1].table = "nat"
    /\ Enable[2].do = "-N" /\ Enable[2].table = "nat"
    /\ Enable[3].do = "-F" /\ Enable[3].table = "nat"
    /\ Enable[4].do = "-A" /\ Enable[4].table = "nat" /\ Enable[4].rule = "udp 53"
    /\ Enable[5].do = "-A" /\ Enable[5].table = "nat" /\ Enable[5].rule = "tcp 53"
    /\ Enable[6].do = "-C" /\ Enable[6].table = "nat"
    /\ Enable[7].do = "-I" /\ Enable[7].table = "nat"
    /\ Enable[8].do = "-N" /\ Enable[8].table = "filter"
    /\ Enable[9].do = "-F" /\ Enable[9].table = "filter"
    /\ Enable[10].do = "-A" /\ Enable[10].table = "filter" /\ Enable[10].rule = "tcp 853"
    /\ Enable[11].do = "-C" /\ Enable[11].table = "filter"
    /\ Enable[12].do = "-I" /\ Enable[12].table = "filter"
BY DEF Enable, Command, Insert, AppendRule

LEMMA EnableChecks ==
    /\ \A i \in {4, 5, 7, 10, 12} : Enable[i].check
    /\ \A i \in {1, 2, 3, 6, 8, 9, 11} : ~Enable[i].check
<1>1. /\ Enable[4].check /\ Enable[5].check /\ Enable[7].check
      /\ Enable[10].check /\ Enable[12].check
  BY DEF Enable, Insert, AppendRule
<1>2. /\ ~Enable[1].check /\ ~Enable[2].check /\ ~Enable[3].check /\ ~Enable[6].check
      /\ ~Enable[8].check /\ ~Enable[9].check /\ ~Enable[11].check
  BY DEF Enable, Command
<1>. QED  BY <1>1, <1>2

LEMMA DisableCommands ==
    /\ Len(Disable) = 6
    /\ Disable[1].do = "-D" /\ Disable[1].table = "nat" /\ ~Disable[1].check
    /\ Disable[2].do = "-F" /\ Disable[2].table = "nat" /\ ~Disable[2].check
    /\ Disable[3].do = "-X" /\ Disable[3].table = "nat" /\ ~Disable[3].check
    /\ Disable[4].do = "-D" /\ Disable[4].table = "filter" /\ ~Disable[4].check
    /\ Disable[5].do = "-F" /\ Disable[5].table = "filter" /\ ~Disable[5].check
    /\ Disable[6].do = "-X" /\ Disable[6].table = "filter" /\ ~Disable[6].check
BY DEF Disable, Command, Insert, AppendRule

Verbs == {"forward", "-N", "-F", "-A", "-C", "-I", "-D", "-X"}

\* The order of enable: a chain is made, emptied, filled and then jumped to
\* unless the jump is there, and only filling and jumping are insisted on.
LEMMA EnableShape ==
    ASSUME NEW k \in 1 .. 12
    PROVE  /\ Enable[k].table \in Tables
           /\ Enable[k].do \in {"forward", "-N", "-F", "-A", "-C", "-I"}
           /\ Enable[k].check => Enable[k].do \in {"-A", "-I"}
           /\ Enable[k].do \in {"-A", "-I"} => Enable[k].check
           /\ Enable[k].do = "-A" => Enable[k].rule \in Rules[Enable[k].table]
           /\ Enable[k].do \in {"-N", "-F"} =>
                \A i \in 1 .. k - 1 :
                    Enable[i].table = Enable[k].table => Enable[i].do # "-A"
           /\ Enable[k].do = "-I" =>
                k > 1 /\ Enable[k - 1].do = "-C" /\ Enable[k - 1].table = Enable[k].table
           /\ Enable[k].do \in {"-A", "-I"} =>
                \E i \in 1 .. k - 1 :
                    Enable[i].do = "-N" /\ Enable[i].table = Enable[k].table
<1>1. k = 1 \/ k = 2 \/ k = 3 \/ k = 4 \/ k = 5 \/ k = 6 \/ k = 7 \/ k = 8
      \/ k = 9 \/ k = 10 \/ k = 11 \/ k = 12
  OBVIOUS
<1>2. Enable[k].table \in Tables
  BY <1>1, EnableCommands DEF Tables
<1>3. Enable[k].do \in {"forward", "-N", "-F", "-A", "-C", "-I"}
  BY <1>1, EnableCommands
<1>8. Enable[k].check => Enable[k].do \in {"-A", "-I"}
  <2>1. CASE k \in {4, 5, 7, 10, 12}
    BY <2>1, EnableCommands
  <2>2. CASE k \in {1, 2, 3, 6, 8, 9, 11}
    BY <2>2, EnableChecks
  <2>. QED  BY <1>1, <2>1, <2>2
<1>9. Enable[k].do \in {"-A", "-I"} => Enable[k].check
  <2>1. Enable[k].do \in {"-A", "-I"} => k \in {4, 5, 7, 10, 12}
    BY <1>1, EnableCommands
  <2>. QED  BY <2>1, EnableChecks
<1>4. Enable[k].do = "-A" => Enable[k].rule \in Rules[Enable[k].table]
  <2>1. Enable[k].do = "-A" => k = 4 \/ k = 5 \/ k = 10
    BY <1>1, EnableCommands
  <2>2. /\ Rules["nat"] = {"udp 53", "tcp 53"}
        /\ Rules["filter"] = {"tcp 853"}
    BY DEF Rules
  <2>3. CASE k \in {4, 5}
    <3>1. Enable[k].table = "nat" /\ Enable[k].rule \in {"udp 53", "tcp 53"}
      BY <2>3, EnableCommands
    <3>. QED  BY <2>2, <3>1
  <2>4. CASE k = 10
    <3>1. Enable[k].table = "filter" /\ Enable[k].rule = "tcp 853"
      BY <2>4, EnableCommands
    <3>. QED  BY <2>2, <3>1
  <2>. QED  BY <2>1, <2>3, <2>4
<1>5. Enable[k].do \in {"-N", "-F"} =>
        \A i \in 1 .. k - 1 : Enable[i].table = Enable[k].table => Enable[i].do # "-A"
  <2>. SUFFICES ASSUME Enable[k].do \in {"-N", "-F"}, NEW i \in 1 .. k - 1,
                       Enable[i].table = Enable[k].table
                PROVE  Enable[i].do # "-A"
    OBVIOUS
  <2>1. k = 2 \/ k = 3 \/ k = 8 \/ k = 9
    BY <1>1, EnableCommands
  <2>2. CASE k \in {2, 3}
    <3>1. i = 1 \/ i = 2
      BY <2>2
    <3>. QED  BY <3>1, EnableCommands
  <2>3. CASE k \in {8, 9}
    <3>1. Enable[k].table = "filter"
      BY <2>3, EnableCommands
    <3>2. i = 1 \/ i = 2 \/ i = 3 \/ i = 4 \/ i = 5 \/ i = 6 \/ i = 7 \/ i = 8
      BY <2>3
    <3>. QED  BY <3>1, <3>2, EnableCommands
  <2>. QED  BY <2>1, <2>2, <2>3
<1>6. Enable[k].do = "-I" =>
        k > 1 /\ Enable[k - 1].do = "-C" /\ Enable[k - 1].table = Enable[k].table
  <2>1. Enable[k].do = "-I" => k = 7 \/ k = 12
    BY <1>1, EnableCommands
  <2>2. CASE k = 7
    <3>1. k > 1 /\ k - 1 = 6
      BY <2>2
    <3>. QED  BY <2>2, <3>1, EnableCommands
  <2>3. CASE k = 12
    <3>1. k > 1 /\ k - 1 = 11
      BY <2>3
    <3>. QED  BY <2>3, <3>1, EnableCommands
  <2>. QED  BY <2>1, <2>2, <2>3
<1>7. Enable[k].do \in {"-A", "-I"} =>
        \E i \in 1 .. k - 1 : Enable[i].do = "-N" /\ Enable[i].table = Enable[k].table
  <2>1. Enable[k].do \in {"-A", "-I"} => k \in {4, 5, 7} \/ k \in {10, 12}
    BY <1>1, EnableCommands
  <2>2. CASE k \in {4, 5, 7}
    <3>1. 2 \in 1 .. k - 1
      BY <2>2
    <3>2. Enable[k].table = "nat"
      BY <2>2, EnableCommands
    <3>. QED  BY <3>1, <3>2, EnableCommands
  <2>3. CASE k \in {10, 12}
    <3>1. 8 \in 1 .. k - 1
      BY <2>3
    <3>2. Enable[k].table = "filter"
      BY <2>3, EnableCommands
    <3>. QED  BY <3>1, <3>2, EnableCommands
  <2>. QED  BY <2>1, <2>2, <2>3
<1>. QED  BY <1>2, <1>3, <1>4, <1>5, <1>6, <1>7, <1>8, <1>9

LEMMA DisableShape ==
    ASSUME NEW k \in 1 .. 6
    PROVE  /\ Disable[k].table \in Tables
           /\ Disable[k].do \in {"-D", "-F", "-X"}
           /\ ~Disable[k].check
<1>1. k = 1 \/ k = 2 \/ k = 3 \/ k = 4 \/ k = 5 \/ k = 6
  OBVIOUS
<1>. QED  BY <1>1, DisableCommands DEF Tables

LEMMA ProgramLength ==
    ASSUME NEW o \in {"enable", "disable"}
    PROVE  Len(Program[o]) \in Nat
<1>1. CASE o = "enable"
  <2>1. Program[o] = Enable
    BY <1>1 DEF Program
  <2>2. Len(Enable) = 12
    BY EnableCommands
  <2>. QED  BY <2>1, <2>2
<1>2. CASE o = "disable"
  <2>1. Program[o] = Disable
    BY <1>2 DEF Program
  <2>. QED  BY <2>1, DisableCommands
<1>. QED  BY <1>1, <1>2

LEMMA RuleNames ==
    ASSUME NEW t \in Tables
    PROVE  Rules[t] \subseteq {"udp 53", "tcp 53", "tcp 853"}
<1>1. CASE t = "nat"
  <2>1. Rules[t] = {"udp 53", "tcp 53"}
    BY <1>1 DEF Rules
  <2>. QED  BY <2>1
<1>2. CASE t = "filter"
  <2>1. Rules[t] = {"tcp 853"}
    BY <1>2 DEF Rules
  <2>. QED  BY <2>1
<1>. QED  BY <1>1, <1>2 DEF Tables

\* What every command of either program is like.
LEMMA CommandShape ==
    ASSUME NEW o \in {"enable", "disable"}, NEW k \in 1 .. Len(Program[o])
    PROVE  /\ Program[o][k].do \in Verbs
           /\ Program[o][k].table \in Tables
           /\ Program[o][k].do = "-A" => Program[o][k].rule \in Rules[Program[o][k].table]
<1>1. CASE o = "enable"
  <2>1. Program[o] = Enable /\ k \in 1 .. 12
    BY <1>1, EnableCommands DEF Program
  <2>. QED  BY <2>1, EnableShape DEF Verbs
<1>2. CASE o = "disable"
  <2>1. Program[o] = Disable /\ k \in 1 .. 6
    BY <1>2, DisableCommands DEF Program
  <2>. QED  BY <2>1, DisableShape DEF Verbs
<1>. QED  BY <1>1, <1>2

-----------------------------------------------------------------------------
(* The three outcomes of a command *)

Skip(p, c) == Skipped(p, c) /\ UNCHANGED <<kernel, found>>

Do(p, c) ==
    /\ ~Skipped(p, c) /\ Accepted(c) /\ Effect(c)
    /\ found' = [found EXCEPT ![p] = c.do = "-C"]

Fail(p, c) ==
    /\ ~Skipped(p, c)
    /\ found' = [found EXCEPT ![p] = FALSE]
    /\ UNCHANGED kernel

\* Run and CommandFails alike: an operation that stays clean has met only
\* refusals that the tables account for.
Step(p) ==
    /\ Running(p)
    /\ LET c == Program[op[p]][pc[p]]
       IN  \/ (Skip(p, c) \/ Do(p, c)) /\ GoOn(p)
           \/ /\ Fail(p, c)
              /\ clean'[p] => ~Accepted(c)
              /\ \/ ~c.check /\ GoOn(p)
                 \/ (clean'[p] => c.check) /\ Abort(p)
    /\ clean' \in [Processes -> BOOLEAN]
    /\ \A q \in Processes \ {p} : clean'[q] = clean[q]
    /\ clean'[p] => clean[p] /\ p \notin Unprivileged
    /\ faults' \in 0 .. MaxFaults
    /\ spoiled' \in BOOLEAN
    /\ UNCHANGED <<locked, op, alone>>

LEMMA RunIsStep ==
    ASSUME TypeOK, NEW p \in Processes, Run(p)
    PROVE  Step(p)
<1>. DEFINE c == Program[op[p]][pc[p]]
<1>1. \/ Skip(p, c) /\ GoOn(p)
      \/ Do(p, c) /\ GoOn(p)
      \/ /\ Fail(p, c)
         /\ p \in Unprivileged \/ ~Accepted(c)
         /\ IF c.check THEN Abort(p) ELSE GoOn(p)
  BY DEF Run, Skip, Do, Fail
<1>2. /\ clean' = [clean EXCEPT ![p] = @ /\ p \notin Unprivileged]
      /\ UNCHANGED <<locked, op, alone, spoiled, faults>>
      /\ Running(p)
  BY DEF Run
<1>3. /\ clean' \in [Processes -> BOOLEAN]
      /\ \A q \in Processes \ {p} : clean'[q] = clean[q]
      /\ clean'[p] => clean[p] /\ p \notin Unprivileged
  BY <1>2 DEF TypeOK
<1>4. faults' \in 0 .. MaxFaults /\ spoiled' \in BOOLEAN
  BY <1>2 DEF TypeOK
<1>. HIDE DEF c
<1>5. \/ (Skip(p, c) \/ Do(p, c)) /\ GoOn(p)
      \/ /\ Fail(p, c)
         /\ clean'[p] => ~Accepted(c)
         /\ \/ ~c.check /\ GoOn(p)
            \/ (clean'[p] => c.check) /\ Abort(p)
  BY <1>1, <1>3
<1>. QED  BY <1>2, <1>3, <1>4, <1>5 DEF Step, c

LEMMA FailureIsStep ==
    ASSUME TypeOK, GatewayAssumption, NEW p \in Processes, CommandFails(p)
    PROVE  Step(p)
<1>. DEFINE c == Program[op[p]][pc[p]]
<1>1. Fail(p, c) /\ ((~c.check /\ GoOn(p)) \/ Abort(p))
  BY DEF CommandFails, Fail, kernel
<1>2. /\ clean' = [clean EXCEPT ![p] = FALSE]
      /\ UNCHANGED <<locked, op, alone>>
      /\ spoiled' = TRUE
      /\ Running(p) /\ Fault
  BY DEF CommandFails
<1>3. /\ clean' \in [Processes -> BOOLEAN]
      /\ \A q \in Processes \ {p} : clean'[q] = clean[q]
      /\ ~clean'[p]
  BY <1>2 DEF TypeOK
<1>4. faults' \in 0 .. MaxFaults
  <2>1. faults < MaxFaults /\ faults' = faults + 1
    BY <1>2 DEF Fault
  <2>2. faults \in 0 .. MaxFaults /\ MaxFaults \in Nat
    BY DEF TypeOK, GatewayAssumption
  <2>. QED  BY <2>1, <2>2
<1>. HIDE DEF c
<1>5. \/ (Skip(p, c) \/ Do(p, c)) /\ GoOn(p)
      \/ /\ Fail(p, c)
         /\ clean'[p] => ~Accepted(c)
         /\ \/ ~c.check /\ GoOn(p)
            \/ (clean'[p] => c.check) /\ Abort(p)
  BY <1>1, <1>3
<1>6. clean'[p] => clean[p] /\ p \notin Unprivileged
  BY <1>3
<1>. QED  BY <1>2, <1>3, <1>4, <1>5, <1>6 DEF Step, c

\* Where an operation is after a command.
LEMMA Progress ==
    ASSUME TypeOK, NEW p \in Processes, Running(p), result[p] = "none", UNCHANGED op
    PROVE  /\ op[p] \in {"enable", "disable"}
           /\ pc[p] \in 1 .. Len(Program[op[p]])
           /\ GoOn(p) => /\ Reached(p)' = pc[p] + 1
                         /\ result'[p] # "error"
           /\ Abort(p) => ~Running(p)' /\ result'[p] = "error"
<1>1. op[p] \in {"enable", "disable"} /\ pc[p] \in 1 .. Len(Program[op[p]])
  <2>1. op[p] \in {"none", "enable", "disable"} /\ pc[p] \in Nat \ {0}
    BY DEF TypeOK, Running
  <2>2. op[p] # "none" /\ pc[p] <= Len(Program[op[p]])
    BY <2>1 DEF TypeOK, Running
  <2>3. op[p] \in {"enable", "disable"}
    BY <2>1, <2>2
  <2>4. Len(Program[op[p]]) \in Nat
    BY <2>3, ProgramLength
  <2>. QED  BY <2>1, <2>2, <2>3, <2>4
<1>2. Len(Program[op[p]]) \in Nat
  BY <1>1, ProgramLength
<1>3. p \in DOMAIN pc /\ p \in DOMAIN result
  BY DEF TypeOK
<1>4. ASSUME GoOn(p)
      PROVE  Reached(p)' = pc[p] + 1 /\ result'[p] # "error"
  <2>1. CASE pc[p] < Len(Program[op[p]])
    <3>1. pc'[p] = pc[p] + 1 /\ result' = result
      BY <1>3, <1>4, <2>1 DEF GoOn
    <3>. QED  BY <1>1, <1>2, <3>1 DEF Reached, Running
  <2>2. CASE pc[p] = Len(Program[op[p]])
    <3>1. pc'[p] = 0 /\ result'[p] = "ok"
      BY <1>1, <1>2, <1>3, <1>4, <2>2 DEF GoOn
    <3>. QED  BY <2>2, <3>1 DEF Reached, Running
  <2>. QED  BY <1>1, <1>2, <2>1, <2>2
<1>5. Abort(p) => ~Running(p)' /\ result'[p] = "error"
  BY <1>3 DEF Abort, Running
<1>. QED  BY <1>1, <1>4, <1>5

\* A command acts on one chain and keeps the kernel's order.
LEMMA KernelStep ==
    ASSUME TypeOK, KernelInv, NEW p \in Processes,
           NEW o \in {"enable", "disable"}, NEW k \in 1 .. Len(Program[o]),
           Skip(p, Program[o][k]) \/ Do(p, Program[o][k]) \/ Fail(p, Program[o][k])
    PROVE  /\ chain' \in [Tables -> {Absent} \cup SUBSET {"udp 53", "tcp 53", "tcp 853"}]
           /\ jumps' \in [Tables -> Nat]
           /\ forwarding' \in BOOLEAN
           /\ found' \in [Processes -> BOOLEAN]
           /\ KernelInv'
<1>. DEFINE c == Program[o][k]
<1>1. CASE Skip(p, c) \/ Fail(p, c)
  <2>1. UNCHANGED <<chain, jumps, forwarding>>
    BY <1>1 DEF Skip, Fail, kernel
  <2>2. found' \in [Processes -> BOOLEAN]
    BY <1>1 DEF Skip, Fail, TypeOK
  <2>. QED  BY <2>1, <2>2 DEF TypeOK, KernelInv
<1>2. CASE Do(p, c)
  <2>1. /\ c.do \in Verbs /\ c.table \in Tables
        /\ c.do = "-A" => c.rule \in Rules[c.table]
    BY CommandShape
  <2>2. Accepted(c) /\ Effect(c) /\ found' = [found EXCEPT ![p] = c.do = "-C"]
    BY <1>2 DEF Do
  <2>. DEFINE t == c.table
  <2>. HIDE DEF c
  <2>3. found' \in [Processes -> BOOLEAN]
    BY <2>2 DEF TypeOK
  <2>4. forwarding' \in BOOLEAN
    BY <2>2 DEF Effect, TypeOK
  <2>5. /\ t \in Tables
        /\ chain[t] = Absent \/ chain[t] \subseteq Rules[t]
        /\ chain[t] = Absent => jumps[t] = 0
        /\ jumps[t] \in Nat
    BY <2>1 DEF KernelInv, TypeOK
  <2>10. Rules[t] \subseteq {"udp 53", "tcp 53", "tcp 853"}
    BY <2>5, RuleNames
  <2>11. Absent # {} /\ \A r \in {"udp 53", "tcp 53", "tcp 853"} : r \notin Absent
    BY DEF Absent
  <2>. DEFINE newChain == CASE c.do \in {"-N", "-F"} -> {}
                            [] c.do = "-A" -> chain[t] \cup {c.rule}
                            [] c.do = "-X" -> Absent
                            [] OTHER -> chain[t]
              newJumps == CASE c.do = "-I" -> jumps[t] + 1
                            [] c.do = "-D" -> jumps[t] - 1
                            [] OTHER -> jumps[t]
  <2>6. chain' = [chain EXCEPT ![t] = newChain] /\ jumps' = [jumps EXCEPT ![t] = newJumps]
    BY <2>2 DEF Effect
  <2>7. /\ newChain = Absent \/ newChain \subseteq Rules[t]
        /\ newChain = Absent => newJumps = 0
        /\ newJumps \in Nat
    <3>1. CASE c.do \in {"-N", "-F"}
      <4>1. newChain = {} /\ newJumps = jumps[t]
        BY <3>1
      <4>. HIDE DEF newChain, newJumps
      <4>. QED  BY <2>5, <2>11, <4>1
    <3>2. CASE c.do = "-A"
      <4>1. chain[t] # Absent /\ c.rule \in Rules[t]
        BY <2>1, <2>2, <3>2 DEF Accepted
      <4>2. newChain = chain[t] \cup {c.rule} /\ newJumps = jumps[t]
        BY <3>2
      <4>3. c.rule \notin Absent /\ newChain # Absent
        BY <2>10, <2>11, <4>1, <4>2
      <4>. HIDE DEF newChain, newJumps
      <4>. QED  BY <2>5, <4>1, <4>2, <4>3
    <3>3. CASE c.do = "-X"
      <4>1. newChain = Absent /\ newJumps = jumps[t] /\ jumps[t] = 0
        BY <2>2, <3>3 DEF Accepted
      <4>. HIDE DEF newChain, newJumps
      <4>. QED  BY <2>5, <4>1
    <3>4. CASE c.do = "-I"
      <4>1. newChain = chain[t] /\ newJumps = jumps[t] + 1 /\ chain[t] # Absent
        BY <2>2, <3>4 DEF Accepted
      <4>. HIDE DEF newChain, newJumps
      <4>. QED  BY <2>5, <4>1
    <3>5. CASE c.do = "-D"
      <4>1. newChain = chain[t] /\ newJumps = jumps[t] - 1 /\ jumps[t] > 0
        BY <2>2, <3>5 DEF Accepted
      <4>. HIDE DEF newChain, newJumps
      <4>. QED  BY <2>5, <4>1
    <3>6. CASE c.do \in {"forward", "-C"}
      <4>1. newChain = chain[t] /\ newJumps = jumps[t]
        BY <3>6
      <4>. HIDE DEF newChain, newJumps
      <4>. QED  BY <2>5, <4>1
    <3>. QED  BY <2>1, <3>1, <3>2, <3>3, <3>4, <3>5, <3>6 DEF Verbs
  <2>. HIDE DEF newChain, newJumps, t
  <2>8. /\ chain' \in [Tables -> {Absent} \cup SUBSET {"udp 53", "tcp 53", "tcp 853"}]
        /\ jumps' \in [Tables -> Nat]
    BY <2>5, <2>6, <2>7, <2>10 DEF TypeOK
  <2>9. KernelInv'
    <3>. SUFFICES ASSUME NEW u \in Tables
                  PROVE  /\ chain'[u] = Absent \/ chain'[u] \subseteq Rules[u]
                         /\ chain'[u] = Absent => jumps'[u] = 0
      BY DEF KernelInv
    <3>1. CASE u = t
      <4>1. chain'[u] = newChain /\ jumps'[u] = newJumps
        BY <2>6, <3>1 DEF TypeOK
      <4>. QED  BY <2>7, <3>1, <4>1
    <3>2. CASE u # t
      <4>1. chain'[u] = chain[u] /\ jumps'[u] = jumps[u]
        BY <2>6, <3>2 DEF TypeOK
      <4>. QED  BY <4>1 DEF KernelInv
    <3>. QED  BY <3>1, <3>2
  <2>. QED  BY <2>3, <2>4, <2>8, <2>9
<1>. QED  BY <1>1, <1>2

-----------------------------------------------------------------------------
(* One command further *)

\* What a command that succeeds does, verb by verb.
LEMMA Effects ==
    ASSUME TypeOK, NEW p \in Processes, NEW c, NEW t \in Tables, c.table = t, Do(p, c)
    PROVE  /\ \A u \in Tables \ {t} : chain'[u] = chain[u] /\ jumps'[u] = jumps[u]
           /\ found'[p] => c.do = "-C"
           /\ c.do \in {"forward", "-C"} => chain'[t] = chain[t] /\ jumps'[t] = jumps[t]
           /\ c.do = "-C" => jumps[t] > 0
           /\ c.do \in {"-N", "-F"} => chain'[t] = {} /\ jumps'[t] = jumps[t]
           /\ c.do = "-A" => /\ chain[t] # Absent /\ chain'[t] = chain[t] \cup {c.rule}
                             /\ jumps'[t] = jumps[t]
           /\ c.do = "-I" => /\ chain[t] # Absent /\ chain'[t] = chain[t]
                             /\ jumps'[t] = jumps[t] + 1
           /\ c.do = "-D" => chain'[t] = chain[t]
           /\ c.do = "-X" => chain'[t] = Absent
<1>1. Accepted(c) /\ Effect(c) /\ (found'[p] => c.do = "-C")
  BY DEF Do, TypeOK
<1>. DEFINE newChain == CASE c.do \in {"-N", "-F"} -> {}
                          [] c.do = "-A" -> chain[t] \cup {c.rule}
                          [] c.do = "-X" -> Absent
                          [] OTHER -> chain[t]
            newJumps == CASE c.do = "-I" -> jumps[t] + 1
                          [] c.do = "-D" -> jumps[t] - 1
                          [] OTHER -> jumps[t]
<1>2. chain' = [chain EXCEPT ![t] = newChain] /\ jumps' = [jumps EXCEPT ![t] = newJumps]
  BY <1>1 DEF Effect
<1>. HIDE DEF newChain, newJumps
<1>3. /\ \A u \in Tables \ {t} : chain'[u] = chain[u] /\ jumps'[u] = jumps[u]
      /\ chain'[t] = newChain /\ jumps'[t] = newJumps
  BY <1>2 DEF TypeOK
<1>4. c.do \in {"forward", "-C"} => newChain = chain[t] /\ newJumps = jumps[t]
  BY DEF newChain, newJumps
<1>5. c.do \in {"-N", "-F"} => newChain = {} /\ newJumps = jumps[t]
  BY DEF newChain, newJumps
<1>6. c.do = "-A" => newChain = chain[t] \cup {c.rule} /\ newJumps = jumps[t]
  BY DEF newChain, newJumps
<1>7. c.do = "-I" => newChain = chain[t] /\ newJumps = jumps[t] + 1
  BY DEF newChain, newJumps
<1>8. c.do = "-D" => newChain = chain[t]
  BY DEF newChain
<1>9. c.do = "-X" => newChain = Absent
  BY DEF newChain
<1>10. /\ c.do = "-C" => jumps[t] > 0
       /\ c.do \in {"-A", "-I"} => chain[t] # Absent
  BY <1>1 DEF Accepted
<1>. QED  BY <1>1, <1>3, <1>4, <1>5, <1>6, <1>7, <1>8, <1>9, <1>10

\* What is known when a command changes nothing.
LEMMA NoEffects ==
    ASSUME TypeOK, NEW p \in Processes, NEW c, NEW t \in Tables, c.table = t,
           Skip(p, c) \/ Fail(p, c)
    PROVE  /\ chain' = chain /\ jumps' = jumps
           /\ Skip(p, c) => c.do = "-I" /\ found[p] /\ found'[p]
           /\ Fail(p, c) => ~found'[p]
           /\ Fail(p, c) /\ ~Accepted(c) =>
                /\ c.do # "forward"
                /\ c.do = "-N" => chain[t] # Absent
                /\ c.do \in {"-F", "-A"} => chain[t] = Absent
                /\ c.do = "-I" => chain[t] = Absent
                /\ c.do = "-X" => chain[t] # {} \/ jumps[t] # 0
<1>1. chain' = chain /\ jumps' = jumps
  BY DEF Skip, Fail, kernel
<1>2. Skip(p, c) => c.do = "-I" /\ found[p] /\ found'[p]
  BY DEF Skip, Skipped
<1>3. Fail(p, c) => ~found'[p]
  BY DEF Fail, TypeOK
<1>4. ~Accepted(c) => /\ c.do # "forward"
                      /\ c.do = "-N" => chain[t] # Absent
                      /\ c.do \in {"-F", "-A"} => chain[t] = Absent
                      /\ c.do = "-I" => chain[t] = Absent
                      /\ c.do = "-X" => chain[t] # {} \/ jumps[t] # 0
  BY DEF Accepted
<1>. QED  BY <1>1, <1>2, <1>3, <1>4

LEMMA EnableStep ==
    ASSUME TypeOK, NEW p \in Processes, NEW k \in 1 .. 12,
           EnabledBefore(k, found[p], chain, jumps),
           \/ Skip(p, Enable[k])
           \/ Do(p, Enable[k])
           \/ Fail(p, Enable[k]) /\ ~Enable[k].check
    PROVE  EnabledBefore(k + 1, found'[p], chain', jumps')
<1>. DEFINE c == Enable[k]
            u == c.table
<1>. SUFFICES ASSUME NEW i \in 1 .. k, NEW t \in Tables, t = Enable[i].table
              PROVE  /\ Enable[i].do = "-A" => Enable[i].rule \in chain'[t]
                     /\ Enable[i].do = "-I" => jumps'[t] > 0
                     /\ Enable[i].do = "-C" /\ i = k /\ found'[p] => jumps'[t] > 0
  BY EnableShape DEF EnabledBefore
<1>1. /\ u \in Tables
      /\ c.do \in {"forward", "-N", "-F", "-A", "-C", "-I"}
      /\ c.do \in {"-A", "-I"} => c.check
      /\ c.do \in {"-N", "-F"} /\ i < k /\ t = u => Enable[i].do # "-A"
  BY EnableShape
<1>2. \A v \in Tables : jumps[v] \in Nat
  BY DEF TypeOK
<1>3. i < k => /\ Enable[i].do = "-A" => Enable[i].rule \in chain[t]
               /\ Enable[i].do = "-I" => jumps[t] > 0
  BY DEF EnabledBefore
<1>4. c.do = "-I" /\ found[p] => jumps[u] > 0
  BY EnableShape DEF EnabledBefore
<1>5. i < k \/ i = k
  OBVIOUS
<1>6. i = k => c.do = Enable[i].do /\ u = t /\ c.rule = Enable[i].rule
  OBVIOUS
<1>7. CASE Do(p, c)
  <2>. HIDE DEF c, u
  <2>1. /\ \A v \in Tables \ {u} : chain'[v] = chain[v] /\ jumps'[v] = jumps[v]
        /\ found'[p] => c.do = "-C"
        /\ c.do \in {"forward", "-C"} => chain'[u] = chain[u] /\ jumps'[u] = jumps[u]
        /\ c.do = "-C" => jumps[u] > 0
        /\ c.do \in {"-N", "-F"} => chain'[u] = {} /\ jumps'[u] = jumps[u]
        /\ c.do = "-A" => chain'[u] = chain[u] \cup {c.rule} /\ jumps'[u] = jumps[u]
        /\ c.do = "-I" => chain'[u] = chain[u] /\ jumps'[u] = jumps[u] + 1
    BY <1>1, <1>7, Effects DEF u
  <2>2. Enable[i].do = "-A" => Enable[i].rule \in chain'[t]
    <3>1. CASE i < k /\ t # u
      BY <1>3, <2>1, <3>1
    <3>2. CASE i < k /\ t = u
      BY <1>1, <1>3, <2>1, <3>2
    <3>3. CASE i = k
      BY <1>6, <2>1, <3>3
    <3>. QED  BY <1>5, <3>1, <3>2, <3>3
  <2>3. Enable[i].do = "-I" => jumps'[t] > 0
    <3>1. CASE i < k /\ t # u
      BY <1>3, <2>1, <3>1
    <3>2. CASE i < k /\ t = u
      BY <1>1, <1>2, <1>3, <2>1, <3>2
    <3>3. CASE i = k
      BY <1>1, <1>2, <1>6, <2>1, <3>3
    <3>. QED  BY <1>5, <3>1, <3>2, <3>3
  <2>4. Enable[i].do = "-C" /\ i = k => jumps'[t] > 0
    BY <1>6, <2>1
  <2>. QED  BY <2>2, <2>3, <2>4
<1>8. CASE Skip(p, c)
  <2>. HIDE DEF c, u
  <2>1. chain' = chain /\ jumps' = jumps /\ c.do = "-I" /\ found[p]
    BY <1>1, <1>8, NoEffects DEF u
  <2>. QED  BY <1>3, <1>4, <1>5, <1>6, <2>1
<1>9. CASE Fail(p, c) /\ ~c.check
  <2>. HIDE DEF c, u
  <2>1. chain' = chain /\ jumps' = jumps /\ ~found'[p] /\ c.do \notin {"-A", "-I"}
    BY <1>1, <1>9, NoEffects DEF u
  <2>. QED  BY <1>3, <1>5, <1>6, <2>1
<1>. QED  BY <1>7, <1>8, <1>9

\* A clean enable meets no refusal where it insists: its chains are there.
LEMMA RepairStep ==
    ASSUME TypeOK, NEW p \in Processes, NEW k \in 1 .. 12,
           ChainsBefore(k, chain),
           \/ Skip(p, Enable[k])
           \/ Do(p, Enable[k])
           \/ Fail(p, Enable[k]) /\ ~Accepted(Enable[k])
    PROVE  /\ ChainsBefore(k + 1, chain')
           /\ ~Accepted(Enable[k]) /\ Fail(p, Enable[k]) => ~Enable[k].check
<1>. DEFINE c == Enable[k]
            u == c.table
<1>1. /\ u \in Tables
      /\ c.do \in {"forward", "-N", "-F", "-A", "-C", "-I"}
      /\ c.check => c.do \in {"-A", "-I"}
  BY EnableShape
<1>2. c.do \in {"-A", "-I"} => chain[u] # Absent
  BY EnableShape DEF ChainsBefore
<1>3. ~Accepted(c) /\ Fail(p, c) => ~c.check /\ (c.do = "-N" => chain[u] # Absent)
  <2>. HIDE DEF c
  <2>. QED  BY <1>1, <1>2, NoEffects DEF u
<1>4. \A v \in Tables : chain[v] # Absent => chain'[v] # Absent
  <2>. HIDE DEF c, u
  <2>1. CASE Do(p, c)
    <3>1. /\ \A v \in Tables \ {u} : chain'[v] = chain[v]
          /\ c.do \in {"forward", "-C", "-I"} => chain'[u] = chain[u]
          /\ c.do \in {"-N", "-F"} => chain'[u] = {}
          /\ c.do = "-A" => chain'[u] = chain[u] \cup {c.rule}
      BY <1>1, <2>1, Effects DEF u
    <3>2. c.do = "-A" => c.rule \in {"udp 53", "tcp 53", "tcp 853"}
      BY <1>1, EnableShape, RuleNames DEF c, u
    <3>3. c.do = "-A" => c.rule \notin Absent
      BY <3>2 DEF Absent
    <3>4. {} # Absent
      BY DEF Absent
    <3>. QED  BY <1>1, <3>1, <3>3, <3>4
  <2>2. CASE Skip(p, c) \/ Fail(p, c)
    <3>1. chain' = chain
      BY <1>1, <2>2, NoEffects DEF u
    <3>. QED  BY <3>1
  <2>. QED  BY <2>1, <2>2 DEF c
<1>5. c.do = "-N" => chain'[u] # Absent
  <2>. HIDE DEF c, u
  <2>1. CASE Do(p, c)
    <3>1. c.do = "-N" => chain'[u] = {}
      BY <1>1, <2>1, Effects DEF u
    <3>. QED  BY <3>1 DEF Absent
  <2>2. CASE Skip(p, c)
    BY <1>1, <2>2, NoEffects DEF u
  <2>3. CASE Fail(p, c) /\ ~Accepted(c)
    BY <1>1, <1>3, <1>4, <2>3
  <2>. QED  BY <2>1, <2>2, <2>3 DEF c
<1>6. ChainsBefore(k + 1, chain')
  <2>. SUFFICES ASSUME NEW i \in 1 .. k, Enable[i].do = "-N"
                PROVE  chain'[Enable[i].table] # Absent
    BY DEF ChainsBefore
  <2>1. CASE i < k
    <3>1. chain[Enable[i].table] # Absent /\ Enable[i].table \in Tables
      BY <2>1, EnableShape DEF ChainsBefore
    <3>. QED  BY <1>4, <3>1
  <2>2. CASE i = k
    BY <1>5, <2>2
  <2>. QED  BY <2>1, <2>2
<1>. QED  BY <1>3, <1>6

LEMMA DisableStep ==
    ASSUME TypeOK, NEW p \in Processes, NEW k \in 1 .. 6,
           EmptiedBefore(k, chain),
           \/ Skip(p, Disable[k])
           \/ Do(p, Disable[k])
           \/ Fail(p, Disable[k]) /\ ~Accepted(Disable[k])
    PROVE  EmptiedBefore(k + 1, chain')
<1>. DEFINE c == Disable[k]
            u == c.table
<1>1. u \in Tables /\ c.do \in {"-D", "-F", "-X"}
  BY DisableShape
<1>2. \A v \in Tables : chain[v] \in {{}, Absent} => chain'[v] \in {{}, Absent}
  <2>. HIDE DEF c, u
  <2>1. CASE Do(p, c)
    <3>1. /\ \A v \in Tables \ {u} : chain'[v] = chain[v]
          /\ c.do = "-D" => chain'[u] = chain[u]
          /\ c.do = "-F" => chain'[u] = {}
          /\ c.do = "-X" => chain'[u] = Absent
      BY <1>1, <2>1, Effects DEF u
    <3>. QED  BY <1>1, <3>1
  <2>2. CASE Skip(p, c) \/ Fail(p, c)
    <3>1. chain' = chain
      BY <1>1, <2>2, NoEffects DEF u
    <3>. QED  BY <3>1
  <2>. QED  BY <2>1, <2>2 DEF c
<1>3. c.do = "-F" => chain'[u] \in {{}, Absent}
  <2>. HIDE DEF c, u
  <2>1. CASE Do(p, c)
    BY <1>1, <2>1, Effects DEF u
  <2>2. CASE Skip(p, c)
    BY <1>1, <2>2, NoEffects DEF u
  <2>3. CASE Fail(p, c) /\ ~Accepted(c)
    BY <1>1, <2>3, NoEffects DEF u
  <2>. QED  BY <2>1, <2>2, <2>3 DEF c
<1>4. SUFFICES ASSUME NEW i \in 1 .. k, Disable[i].do = "-F"
               PROVE  chain'[Disable[i].table] \in {{}, Absent}
  BY DEF EmptiedBefore
<1>5. CASE i < k
  <2>1. chain[Disable[i].table] \in {{}, Absent} /\ Disable[i].table \in Tables
    BY <1>4, <1>5, DisableShape DEF EmptiedBefore
  <2>. QED  BY <1>2, <2>1
<1>6. CASE i = k
  BY <1>3, <1>4, <1>6
<1>. QED  BY <1>5, <1>6

-----------------------------------------------------------------------------
(* The invariant *)

LEMMA InitEstablishes ==
    ASSUME GatewayAssumption, Init
    PROVE  Inv
<1>1. TypeOK
  <2>1. /\ chain \in [Tables -> {Absent} \cup SUBSET {"udp 53", "tcp 53", "tcp 853"}]
        /\ jumps \in [Tables -> Nat]
        /\ forwarding \in BOOLEAN /\ locked \in BOOLEAN
    BY DEF Init
  <2>2. /\ op \in [Processes -> {"none", "enable", "disable"}]
        /\ pc \in [Processes -> Nat]
        /\ \A p \in Processes : op[p] = "none" /\ pc[p] = 0
    BY DEF Init
  <2>3. /\ found \in [Processes -> BOOLEAN]
        /\ result \in [Processes -> {"none", "ok", "error"}]
        /\ alone \in [Processes -> BOOLEAN] /\ clean \in [Processes -> BOOLEAN]
    BY DEF Init
  <2>4. faults \in 0 .. MaxFaults /\ spoiled \in BOOLEAN
    BY DEF Init, GatewayAssumption
  <2>. QED  BY <2>1, <2>2, <2>3, <2>4 DEF TypeOK
<1>2. KernelInv
  BY DEF Init, KernelInv
<1>3. ProcessInv
  BY DEF Init, ProcessInv, Running
<1>4. \A p \in Processes : EnableInv(p) /\ RepairInv(p) /\ DisableInv(p)
  BY DEF Init, EnableInv, RepairInv, DisableInv
<1>. QED  BY <1>1, <1>2, <1>3, <1>4 DEF Inv

\* A process that is neither running nor touched keeps what it knows, and one
\* that no longer works alone knows nothing.
LEMMA Bystander ==
    ASSUME NEW p \in Processes, EnableInv(p), RepairInv(p), DisableInv(p),
           \/ ~alone'[p]
           \/ ~Running(p)' /\ result'[p] = "none"
           \/ /\ UNCHANGED kernel
              /\ op'[p] = op[p] /\ pc'[p] = pc[p] /\ found'[p] = found[p]
              /\ result'[p] = result[p] /\ alone'[p] = alone[p] /\ clean'[p] = clean[p]
    PROVE  EnableInv(p)' /\ RepairInv(p)' /\ DisableInv(p)'
<1>1. CASE ~alone'[p]
  BY <1>1 DEF EnableInv, RepairInv, DisableInv
<1>2. CASE ~Running(p)' /\ result'[p] = "none"
  BY <1>2 DEF EnableInv, RepairInv, DisableInv
<1>3. CASE /\ UNCHANGED kernel
           /\ op'[p] = op[p] /\ pc'[p] = pc[p] /\ found'[p] = found[p]
           /\ result'[p] = result[p] /\ alone'[p] = alone[p] /\ clean'[p] = clean[p]
  <2>1. Running(p)' = Running(p) /\ Reached(p)' = Reached(p) /\ chain' = chain /\ jumps' = jumps
    BY <1>3 DEF Running, Reached, kernel
  <2>2. EnableInv(p)'
    BY <1>3, <2>1 DEF EnableInv, EnabledBefore
  <2>3. RepairInv(p)'
    BY <1>3, <2>1 DEF RepairInv, ChainsBefore
  <2>4. DisableInv(p)'
    BY <1>3, <2>1 DEF DisableInv, EmptiedBefore
  <2>. QED  BY <2>2, <2>3, <2>4
<1>. QED  BY <1>1, <1>2, <1>3

LEMMA StepKeeps ==
    ASSUME GatewayAssumption, Inv, NEW p \in Processes, Step(p)
    PROVE  Inv'
<1>. DEFINE o == op[p]
            k == pc[p]
            c == Program[o][k]
<1>1. /\ TypeOK /\ KernelInv /\ ProcessInv
      /\ EnableInv(p) /\ RepairInv(p) /\ DisableInv(p)
  BY DEF Inv
<1>2. Running(p) /\ result[p] = "none" /\ UNCHANGED <<locked, op, alone>>
  BY <1>1 DEF Step, ProcessInv
<1>3. /\ o \in {"enable", "disable"} /\ k \in 1 .. Len(Program[o])
      /\ GoOn(p) => Reached(p)' = k + 1 /\ result'[p] # "error"
      /\ Abort(p) => ~Running(p)' /\ result'[p] = "error"
  BY <1>1, <1>2, Progress
<1>4. /\ \/ (Skip(p, c) \/ Do(p, c)) /\ GoOn(p)
         \/ /\ Fail(p, c)
            /\ clean'[p] => ~Accepted(c)
            /\ \/ ~c.check /\ GoOn(p)
               \/ (clean'[p] => c.check) /\ Abort(p)
      /\ clean' \in [Processes -> BOOLEAN]
      /\ clean'[p] => clean[p] /\ p \notin Unprivileged
      /\ \A q \in Processes \ {p} : clean'[q] = clean[q]
      /\ faults' \in 0 .. MaxFaults /\ spoiled' \in BOOLEAN
  BY DEF Step
<1>5. /\ chain' \in [Tables -> {Absent} \cup SUBSET {"udp 53", "tcp 53", "tcp 853"}]
      /\ jumps' \in [Tables -> Nat]
      /\ forwarding' \in BOOLEAN
      /\ found' \in [Processes -> BOOLEAN]
      /\ KernelInv'
  <2>1. Skip(p, c) \/ Do(p, c) \/ Fail(p, c)
    BY <1>4
  <2>. QED  BY <1>1, <1>3, <2>1, KernelStep
<1>6. GoOn(p) \/ Abort(p)
  BY <1>4
<1>7. Len(Program[o]) \in Nat
  BY <1>3, ProgramLength
<1>8. /\ pc' \in [Processes -> Nat]
      /\ pc'[p] <= Len(Program[o])
      /\ result' \in [Processes -> {"none", "ok", "error"}]
      /\ pc'[p] # 0 => result'[p] = "none"
      /\ \A q \in Processes \ {p} : pc'[q] = pc[q] /\ result'[q] = result[q]
  <2>1. pc \in [Processes -> Nat] /\ result \in [Processes -> {"none", "ok", "error"}]
    BY <1>1 DEF TypeOK
  <2>2. CASE GoOn(p) /\ pc[p] < Len(Program[op[p]])
    <3>1. pc' = [pc EXCEPT ![p] = pc[p] + 1] /\ result' = result
      BY <2>2 DEF GoOn
    <3>. QED  BY <1>2, <1>7, <2>1, <2>2, <3>1
  <2>3. CASE \/ GoOn(p) /\ ~(pc[p] < Len(Program[op[p]]))
             \/ Abort(p)
    <3>1. /\ pc' = [pc EXCEPT ![p] = 0]
          /\ result' = [result EXCEPT ![p] = "ok"] \/ result' = [result EXCEPT ![p] = "error"]
      BY <2>3 DEF GoOn, Abort
    <3>. QED  BY <1>7, <2>1, <3>1
  <2>. QED  BY <1>6, <2>2, <2>3
<1>9. TypeOK'
  <2>1. /\ locked' \in BOOLEAN /\ op' \in [Processes -> {"none", "enable", "disable"}]
        /\ alone' \in [Processes -> BOOLEAN]
    BY <1>1, <1>2 DEF TypeOK
  <2>2. \A q \in Processes :
            IF op'[q] = "none" THEN pc'[q] = 0 ELSE pc'[q] <= Len(Program[op'[q]])
    <3>. TAKE q \in Processes
    <3>1. CASE q = p
      BY <1>2, <1>3, <1>8, <3>1
    <3>2. CASE q # p
      BY <1>1, <1>2, <1>8, <3>2 DEF TypeOK
    <3>. QED  BY <3>1, <3>2
  <2>. QED  BY <1>4, <1>5, <1>8, <2>1, <2>2 DEF TypeOK
<1>10. ProcessInv'
  <2>. SUFFICES ASSUME NEW q \in Processes
                PROVE  /\ pc'[q] # 0 => result'[q] = "none"
                       /\ alone'[q] => \A r \in Processes \ {q} : pc'[r] = 0
                       /\ clean'[q] /\ pc'[q] > 1 => q \notin Unprivileged
    BY DEF ProcessInv, Running
  <2>1. CASE q = p
    BY <1>1, <1>2, <1>4, <1>8, <2>1 DEF ProcessInv, Running
  <2>2. CASE q # p
    BY <1>1, <1>2, <1>4, <1>8, <2>2 DEF ProcessInv, Running
  <2>. QED  BY <2>1, <2>2
<1>11. \A q \in Processes : EnableInv(q)' /\ RepairInv(q)' /\ DisableInv(q)'
  <2>. TAKE q \in Processes
  <2>1. CASE q # p
    <3>1. ~alone'[q]
      BY <1>1, <1>2, <2>1 DEF ProcessInv
    <3>. QED  BY <3>1, <2>1, Bystander DEF Inv
  <2>2. CASE q = p /\ o = "enable"
    <3>1. Program[o] = Enable /\ k \in 1 .. 12 /\ c = Enable[k]
      <4>1. Program[o] = Enable
        BY <2>2 DEF Program
      <4>2. Len(Enable) = 12
        BY EnableCommands
      <4>. QED  BY <1>3, <4>1, <4>2
    <3>2. Reached(p) = k
      BY <1>2 DEF Reached
    <3>3. EnableInv(p)'
      <4>. SUFFICES ASSUME alone'[p], Running(p)' \/ result'[p] = "ok"
                    PROVE  EnabledBefore(Reached(p)', found'[p], chain', jumps')
        BY DEF EnableInv
      <4>1. GoOn(p) /\ (Skip(p, c) \/ Do(p, c) \/ (Fail(p, c) /\ ~c.check))
        BY <1>3, <1>4
      <4>2. EnabledBefore(k, found[p], chain, jumps)
        BY <1>1, <1>2, <2>2, <3>2 DEF EnableInv
      <4>3. EnabledBefore(k + 1, found'[p], chain', jumps')
        BY <1>1, <3>1, <4>1, <4>2, EnableStep
      <4>. QED  BY <1>3, <4>1, <4>3
    <3>4. RepairInv(p)'
      <4>. SUFFICES ASSUME alone'[p], clean'[p]
                    PROVE  ChainsBefore(Reached(p)', chain') /\ result'[p] # "error"
        BY DEF RepairInv
      <4>1. Skip(p, c) \/ Do(p, c) \/ (Fail(p, c) /\ ~Accepted(c))
        BY <1>4
      <4>2. ChainsBefore(k, chain)
        BY <1>1, <1>2, <1>4, <2>2, <3>2 DEF RepairInv
      <4>3. /\ ChainsBefore(k + 1, chain')
            /\ ~Accepted(c) /\ Fail(p, c) => ~c.check
        BY <1>1, <3>1, <4>1, <4>2, RepairStep
      <4>4. GoOn(p)
        BY <1>4, <4>3
      <4>. QED  BY <1>3, <4>3, <4>4
    <3>5. DisableInv(p)'
      BY <1>2, <2>2 DEF DisableInv
    <3>. QED  BY <2>2, <3>3, <3>4, <3>5
  <2>3. CASE q = p /\ o = "disable"
    <3>1. Program[o] = Disable /\ k \in 1 .. 6 /\ c = Disable[k]
      <4>1. Program[o] = Disable
        BY <2>3 DEF Program
      <4>2. Len(Disable) = 6
        BY DisableCommands
      <4>. QED  BY <1>3, <4>1, <4>2
    <3>2. Reached(p) = k
      BY <1>2 DEF Reached
    <3>3. DisableInv(p)'
      <4>. SUFFICES ASSUME alone'[p], clean'[p]
                    PROVE  EmptiedBefore(Reached(p)', chain')
        BY DEF DisableInv
      <4>1. Skip(p, c) \/ Do(p, c) \/ (Fail(p, c) /\ ~Accepted(c))
        BY <1>4
      <4>2. EmptiedBefore(k, chain)
        BY <1>1, <1>2, <1>4, <2>3, <3>2 DEF DisableInv
      <4>3. EmptiedBefore(k + 1, chain')
        BY <1>1, <3>1, <4>1, <4>2, DisableStep
      <4>4. ~c.check
        BY <3>1, DisableShape
      <4>5. GoOn(p)
        BY <1>4, <4>4
      <4>. QED  BY <1>3, <4>3, <4>5
    <3>4. EnableInv(p)' /\ RepairInv(p)'
      BY <1>2, <2>3 DEF EnableInv, RepairInv
    <3>. QED  BY <2>3, <3>3, <3>4
  <2>. QED  BY <1>3, <2>1, <2>2, <2>3
<1>. QED  BY <1>5, <1>9, <1>10, <1>11 DEF Inv

LEMMA BeginKeeps ==
    ASSUME Inv, NEW p \in Processes, NEW o \in {"enable", "disable"}, Begin(p, o)
    PROVE  Inv'
<1>1. /\ TypeOK /\ KernelInv /\ ProcessInv
      /\ \A q \in Processes : EnableInv(q) /\ RepairInv(q) /\ DisableInv(q)
  BY DEF Inv
<1>2. /\ ~Running(p)
      /\ op' = [op EXCEPT ![p] = o] /\ pc' = [pc EXCEPT ![p] = 1]
      /\ result' = [result EXCEPT ![p] = "none"]
      /\ alone' = [r \in Processes |-> r = p /\ \A other \in Processes : ~Running(other)]
      /\ clean' = [clean EXCEPT ![p] = TRUE]
      /\ spoiled' \in BOOLEAN
      /\ UNCHANGED <<chain, jumps, forwarding, locked, found, faults>>
  BY DEF Begin, kernel
<1>3. /\ op'[p] = o /\ pc'[p] = 1 /\ result'[p] = "none"
      /\ \A q \in Processes \ {p} :
            /\ op'[q] = op[q] /\ pc'[q] = pc[q] /\ result'[q] = result[q]
            /\ ~alone'[q] /\ clean'[q] = clean[q]
      /\ alone'[p] => \A q \in Processes : ~Running(q)
  BY <1>1, <1>2 DEF TypeOK
<1>4. TypeOK'
  <2>1. /\ op' \in [Processes -> {"none", "enable", "disable"}]
        /\ pc' \in [Processes -> Nat]
        /\ result' \in [Processes -> {"none", "ok", "error"}]
    BY <1>1, <1>2 DEF TypeOK
  <2>2. alone' \in [Processes -> BOOLEAN]
    BY <1>2
  <2>3. clean' \in [Processes -> BOOLEAN]
    BY <1>1, <1>2 DEF TypeOK
  <2>4. 1 <= Len(Program[o])
    <3>1. CASE o = "enable"
      <4>1. Program[o] = Enable
        BY <3>1 DEF Program
      <4>2. Len(Enable) = 12
        BY EnableCommands
      <4>. QED  BY <4>1, <4>2
    <3>2. CASE o = "disable"
      <4>1. Program[o] = Disable
        BY <3>2 DEF Program
      <4>2. Len(Disable) = 6
        BY DisableCommands
      <4>. QED  BY <4>1, <4>2
    <3>. QED  BY <3>1, <3>2
  <2>5. \A q \in Processes :
            IF op'[q] = "none" THEN pc'[q] = 0 ELSE pc'[q] <= Len(Program[op'[q]])
    <3>. TAKE q \in Processes
    <3>1. CASE q = p
      BY <1>3, <2>4, <3>1
    <3>2. CASE q # p
      BY <1>1, <1>3, <3>2 DEF TypeOK
    <3>. QED  BY <3>1, <3>2
  <2>6. /\ chain' \in [Tables -> {Absent} \cup SUBSET {"udp 53", "tcp 53", "tcp 853"}]
        /\ jumps' \in [Tables -> Nat]
        /\ forwarding' \in BOOLEAN /\ locked' \in BOOLEAN
        /\ found' \in [Processes -> BOOLEAN] /\ faults' \in 0 .. MaxFaults
    BY <1>1, <1>2 DEF TypeOK
  <2>. QED  BY <1>2, <2>1, <2>2, <2>3, <2>5, <2>6 DEF TypeOK
<1>5. KernelInv'
  BY <1>1, <1>2 DEF KernelInv
<1>6. ProcessInv'
  <2>. SUFFICES ASSUME NEW q \in Processes
                PROVE  /\ pc'[q] # 0 => result'[q] = "none"
                       /\ alone'[q] => \A r \in Processes \ {q} : pc'[r] = 0
                       /\ clean'[q] /\ pc'[q] > 1 => q \notin Unprivileged
    BY DEF ProcessInv, Running
  <2>1. CASE q = p
    BY <1>3, <2>1 DEF Running
  <2>2. CASE q # p
    BY <1>1, <1>3, <2>2 DEF ProcessInv, Running
  <2>. QED  BY <2>1, <2>2
<1>7. \A q \in Processes : EnableInv(q)' /\ RepairInv(q)' /\ DisableInv(q)'
  <2>. TAKE q \in Processes
  <2>1. CASE q # p
    BY <1>1, <1>3, <2>1, Bystander
  <2>2. CASE q = p
    <3>1. Reached(p)' = 1
      BY <1>3 DEF Reached, Running
    <3>2. 1 .. 1 - 1 = {}
      OBVIOUS
    <3>3. /\ EnabledBefore(1, found'[p], chain', jumps')
          /\ ChainsBefore(1, chain') /\ EmptiedBefore(1, chain')
      BY <3>2 DEF EnabledBefore, ChainsBefore, EmptiedBefore
    <3>. QED  BY <1>3, <2>2, <3>1, <3>3 DEF EnableInv, RepairInv, DisableInv
  <2>. QED  BY <2>1, <2>2
<1>. QED  BY <1>4, <1>5, <1>6, <1>7 DEF Inv

\* The steps that leave the tables and all operations alone, but for an
\* operation that is killed.
LEMMA KillKeeps ==
    ASSUME GatewayAssumption, Inv, NEW p \in Processes, Kill(p)
    PROVE  Inv'
<1>1. /\ TypeOK /\ KernelInv /\ ProcessInv
      /\ \A q \in Processes : EnableInv(q) /\ RepairInv(q) /\ DisableInv(q)
  BY DEF Inv
<1>2. /\ pc' = [pc EXCEPT ![p] = 0] /\ result' = [result EXCEPT ![p] = "none"]
      /\ faults < MaxFaults /\ faults' = faults + 1
      /\ spoiled' = TRUE
      /\ UNCHANGED <<chain, jumps, forwarding, locked, op, found, alone, clean>>
  BY DEF Kill, Fault, kernel, ghosts
<1>3. /\ pc'[p] = 0 /\ result'[p] = "none"
      /\ \A q \in Processes \ {p} : pc'[q] = pc[q] /\ result'[q] = result[q]
  BY <1>1, <1>2 DEF TypeOK
<1>4. TypeOK'
  <2>1. /\ pc' \in [Processes -> Nat]
        /\ result' \in [Processes -> {"none", "ok", "error"}]
    BY <1>1, <1>2 DEF TypeOK
  <2>2. faults' \in 0 .. MaxFaults
    <3>1. faults \in 0 .. MaxFaults /\ MaxFaults \in Nat
      BY <1>1 DEF TypeOK, GatewayAssumption
    <3>. QED  BY <1>2, <3>1
  <2>3. \A q \in Processes :
            IF op'[q] = "none" THEN pc'[q] = 0 ELSE pc'[q] <= Len(Program[op'[q]])
    <3>. TAKE q \in Processes
    <3>1. CASE q = p
      <4>1. op[q] \in {"none", "enable", "disable"}
        BY <1>1 DEF TypeOK
      <4>2. op[q] # "none" => Len(Program[op[q]]) \in Nat
        BY <4>1, ProgramLength
      <4>. QED  BY <1>2, <1>3, <3>1, <4>2
    <3>2. CASE q # p
      BY <1>1, <1>2, <1>3, <3>2 DEF TypeOK
    <3>. QED  BY <3>1, <3>2
  <2>4. /\ chain' \in [Tables -> {Absent} \cup SUBSET {"udp 53", "tcp 53", "tcp 853"}]
        /\ jumps' \in [Tables -> Nat]
        /\ forwarding' \in BOOLEAN /\ locked' \in BOOLEAN
        /\ op' \in [Processes -> {"none", "enable", "disable"}]
        /\ found' \in [Processes -> BOOLEAN]
        /\ alone' \in [Processes -> BOOLEAN] /\ clean' \in [Processes -> BOOLEAN]
    BY <1>1, <1>2 DEF TypeOK
  <2>. QED  BY <1>2, <2>1, <2>2, <2>3, <2>4 DEF TypeOK
<1>5. KernelInv'
  BY <1>1, <1>2 DEF KernelInv
<1>6. ProcessInv'
  <2>. SUFFICES ASSUME NEW q \in Processes
                PROVE  /\ pc'[q] # 0 => result'[q] = "none"
                       /\ alone'[q] => \A r \in Processes \ {q} : pc'[r] = 0
                       /\ clean'[q] /\ pc'[q] > 1 => q \notin Unprivileged
    BY DEF ProcessInv, Running
  <2>1. CASE q = p
    BY <1>1, <1>2, <1>3, <2>1 DEF ProcessInv, Running
  <2>2. CASE q # p
    BY <1>1, <1>2, <1>3, <2>2 DEF ProcessInv, Running
  <2>. QED  BY <2>1, <2>2
<1>7. \A q \in Processes : EnableInv(q)' /\ RepairInv(q)' /\ DisableInv(q)'
  <2>. TAKE q \in Processes
  <2>1. CASE q = p
    BY <1>1, <1>3, <2>1, Bystander DEF Running
  <2>2. CASE q # p
    <3>1. /\ UNCHANGED kernel
          /\ op'[q] = op[q] /\ pc'[q] = pc[q] /\ found'[q] = found[q]
          /\ result'[q] = result[q] /\ alone'[q] = alone[q] /\ clean'[q] = clean[q]
      BY <1>2, <1>3, <2>2 DEF kernel
    <3>. QED  BY <1>1, <3>1, Bystander
  <2>. QED  BY <2>1, <2>2
<1>. QED  BY <1>4, <1>5, <1>6, <1>7 DEF Inv

LEMMA LockKeeps ==
    ASSUME Inv, ChangeLock \/ UNCHANGED vars
    PROVE  Inv'
<1>1. /\ UNCHANGED <<chain, jumps, forwarding, op, pc, found, result, alone, clean,
                    spoiled, faults>>
      /\ locked' = locked \/ (locked' = ~locked /\ ~Running("daemon"))
  BY DEF ChangeLock, vars, kernel, ghosts
<1>2. /\ TypeOK /\ KernelInv /\ ProcessInv
      /\ \A q \in Processes : EnableInv(q) /\ RepairInv(q) /\ DisableInv(q)
  BY DEF Inv
<1>3. TypeOK'
  <2>1. locked' \in BOOLEAN
    BY <1>1, <1>2 DEF TypeOK
  <2>. QED  BY <1>1, <1>2, <2>1 DEF TypeOK
<1>4. KernelInv' /\ ProcessInv'
  BY <1>1, <1>2 DEF KernelInv, ProcessInv, Running
<1>5. \A q \in Processes : EnableInv(q)' /\ RepairInv(q)' /\ DisableInv(q)'
  BY <1>1, <1>2, Bystander DEF kernel
<1>. QED  BY <1>3, <1>4, <1>5 DEF Inv

LEMMA RebootKeeps ==
    ASSUME GatewayAssumption, Inv, Reboot
    PROVE  Inv'
<1>1. /\ chain' = [t \in Tables |-> Absent] /\ jumps' = [t \in Tables |-> 0]
      /\ forwarding' \in BOOLEAN /\ op' = [p \in Processes |-> "none"]
      /\ pc' = [p \in Processes |-> 0] /\ found' = [p \in Processes |-> FALSE]
      /\ result' = [p \in Processes |-> "none"] /\ alone' = [p \in Processes |-> FALSE]
      /\ clean' = [p \in Processes |-> FALSE] /\ locked' = locked /\ spoiled' = TRUE
      /\ faults < MaxFaults /\ faults' = faults + 1
  BY DEF Reboot, Fault
<1>2. locked \in BOOLEAN /\ faults \in 0 .. MaxFaults /\ MaxFaults \in Nat
  BY DEF Inv, TypeOK, GatewayAssumption
<1>3. faults' \in 0 .. MaxFaults
  BY <1>1, <1>2
<1>4. TypeOK'
  BY <1>1, <1>2, <1>3 DEF TypeOK
<1>5. KernelInv' /\ ProcessInv'
  BY <1>1 DEF KernelInv, ProcessInv, Running
<1>6. \A p \in Processes : EnableInv(p)' /\ RepairInv(p)' /\ DisableInv(p)'
  BY <1>1 DEF EnableInv, RepairInv, DisableInv
<1>. QED  BY <1>4, <1>5, <1>6 DEF Inv

\* The invariant holds in every state that Gateway reaches.
THEOREM GatewayInvariance == Spec => []Inv
<1>1. Init => Inv
  BY GatewayAssumption, InitEstablishes
<1>2. Inv /\ [Next]_vars => Inv'
  <2>. SUFFICES ASSUME Inv, [Next]_vars
                PROVE  Inv'
    OBVIOUS
  <2>1. TypeOK
    BY DEF Inv
  <2>2. ASSUME NEW p \in Processes, BeginEnable(p)
        PROVE  Inv'
    BY <2>2, BeginKeeps DEF BeginEnable
  <2>3. ASSUME NEW p \in Processes, Run(p)
        PROVE  Inv'
    BY <2>1, <2>3, GatewayAssumption, RunIsStep, StepKeeps
  <2>4. ASSUME NEW p \in Processes, CommandFails(p)
        PROVE  Inv'
    BY <2>1, <2>4, GatewayAssumption, FailureIsStep, StepKeeps
  <2>5. ASSUME NEW p \in Processes, Kill(p)
        PROVE  Inv'
    BY <2>5, GatewayAssumption, KillKeeps
  <2>6. CASE DaemonDisable
    BY <2>6, BeginKeeps DEF DaemonDisable, Processes
  <2>7. CASE CliDisable
    BY <2>7, BeginKeeps DEF CliDisable, Processes
  <2>8. CASE ChangeLock \/ UNCHANGED vars
    BY <2>8, LockKeeps
  <2>9. CASE Reboot
    BY <2>9, GatewayAssumption, RebootKeeps
  <2>. QED  BY <2>2, <2>3, <2>4, <2>5, <2>6, <2>7, <2>8, <2>9 DEF Next
<1>. QED  BY <1>1, <1>2, PTL DEF Spec

-----------------------------------------------------------------------------
(* What follows *)

\* enable_transparent_redirection: when it says that it succeeded and nobody
\* worked on the tables meanwhile, every chain is full and jumped to, whichever
\* of its commands failed.
THEOREM EnablesAreTruthful == Spec => []EnableTruthful
<1>1. Inv => EnableTruthful
  <2>. SUFFICES ASSUME Inv, NEW p \in Processes, Over(p, "enable"), result[p] = "ok"
                PROVE  Enforced
    BY DEF EnableTruthful
  <2>1. Reached(p) = 13
    <3>1. Program[op[p]] = Enable /\ ~Running(p)
      BY DEF Over, Program
    <3>2. Len(Enable) = 12
      BY EnableCommands
    <3>. QED  BY <3>1, <3>2 DEF Reached
  <2>2. EnabledBefore(13, found[p], chain, jumps)
    BY <2>1 DEF Inv, EnableInv, Over
  <2>3. /\ Enable[4].do = "-A" => Enable[4].rule \in chain[Enable[4].table]
        /\ Enable[5].do = "-A" => Enable[5].rule \in chain[Enable[5].table]
        /\ Enable[10].do = "-A" => Enable[10].rule \in chain[Enable[10].table]
        /\ Enable[7].do = "-I" => jumps[Enable[7].table] > 0
        /\ Enable[12].do = "-I" => jumps[Enable[12].table] > 0
    <3>1. 4 \in 1 .. 13 - 1 /\ 5 \in 1 .. 13 - 1 /\ 7 \in 1 .. 13 - 1
          /\ 10 \in 1 .. 13 - 1 /\ 12 \in 1 .. 13 - 1
      OBVIOUS
    <3>. QED  BY <2>2, <3>1 DEF EnabledBefore
  <2>4. /\ "udp 53" \in chain["nat"] /\ "tcp 53" \in chain["nat"]
        /\ "tcp 853" \in chain["filter"]
        /\ jumps["nat"] > 0 /\ jumps["filter"] > 0
    BY <2>3, EnableCommands
  <2>5. /\ chain["nat"] = Absent \/ chain["nat"] \subseteq Rules["nat"]
        /\ chain["filter"] = Absent \/ chain["filter"] \subseteq Rules["filter"]
    BY DEF Inv, KernelInv, Tables
  <2>6. Rules["nat"] = {"udp 53", "tcp 53"} /\ Rules["filter"] = {"tcp 853"}
    BY DEF Rules
  <2>7. chain["nat"] # Absent /\ chain["filter"] # Absent
    BY <2>4 DEF Absent
  <2>8. chain["nat"] = Rules["nat"] /\ chain["filter"] = Rules["filter"]
    BY <2>4, <2>5, <2>6, <2>7
  <2>. QED  BY <2>4, <2>8 DEF Enforced, Tables
<1>. QED  BY <1>1, GatewayInvariance, PTL

\* One undisturbed enable none of whose commands fails for an outside reason
\* succeeds and redirects all traffic, whatever earlier operations have left.
THEOREM EnablesRepair == Spec => []EnableRepairs
<1>1. Inv /\ EnableTruthful => EnableRepairs
  <2>. SUFFICES ASSUME Inv, EnableTruthful, NEW p \in Processes, Over(p, "enable"), clean[p]
                PROVE  result[p] = "ok" /\ Enforced
    BY DEF EnableRepairs
  <2>1. result[p] # "error" /\ result[p] # "none"
    BY DEF Inv, RepairInv, Over
  <2>2. result[p] \in {"none", "ok", "error"}
    BY DEF Inv, TypeOK
  <2>3. result[p] = "ok"
    BY <2>1, <2>2
  <2>. QED  BY <2>3 DEF EnableTruthful
<1>. QED  BY <1>1, GatewayInvariance, EnablesAreTruthful, PTL

\* disable_transparent_redirection: one that is undisturbed and none of whose
\* commands fails for an outside reason leaves no rule that catches traffic,
\* even where it cannot remove the chains.
THEOREM DisablesStopRedirection == Spec => []DisableStopsRedirection
<1>1. Inv => DisableStopsRedirection
  <2>. SUFFICES ASSUME Inv, NEW p \in Processes, Over(p, "disable"), clean[p]
                PROVE  chain["nat"] \in {{}, Absent} /\ chain["filter"] \in {{}, Absent}
    BY DEF DisableStopsRedirection, Tables
  <2>1. Reached(p) = 7
    <3>1. Program[op[p]] = Disable /\ ~Running(p)
      BY DEF Over, Program
    <3>2. Len(Disable) = 6
      BY DisableCommands
    <3>. QED  BY <3>1, <3>2 DEF Reached
  <2>2. EmptiedBefore(7, chain)
    BY <2>1 DEF Inv, DisableInv, Over
  <2>3. /\ Disable[2].do = "-F" => chain[Disable[2].table] \in {{}, Absent}
        /\ Disable[5].do = "-F" => chain[Disable[5].table] \in {{}, Absent}
    <3>1. 2 \in 1 .. 7 - 1 /\ 5 \in 1 .. 7 - 1
      OBVIOUS
    <3>. QED  BY <2>2, <3>1 DEF EmptiedBefore
  <2>. QED  BY <2>3, DisableCommands
<1>. QED  BY <1>1, GatewayInvariance, PTL


-----------------------------------------------------------------------------
(* Enables that overlap *)

\* What an enable that has got to its k-th command will still do.
WillAppend(k, t, r) ==
    \E i \in k .. 12 : Enable[i].do = "-A" /\ Enable[i].table = t /\ Enable[i].rule = r

WillJump(k, f, t) ==
    \E i \in k .. 12 : Enable[i].do = "-I" /\ Enable[i].table = t /\ (i = k => ~f)

\* While only enables work on the tables, each rule and each jump is there or
\* one of them has still to make it.
SharedInv ==
    ~spoiled =>
        /\ \A p \in Processes :
               Running(p) => /\ op[p] = "enable" /\ p \notin Unprivileged
                             /\ ChainsBefore(pc[p], chain)
        /\ \A t \in Tables : \A r \in Rules[t] :
               \/ r \in chain[t]
               \/ \E p \in Processes : Running(p) /\ WillAppend(pc[p], t, r)
        /\ \A t \in Tables :
               \/ jumps[t] > 0
               \/ \E p \in Processes : Running(p) /\ WillJump(pc[p], found[p], t)

\* An enable that makes or empties a chain fills it afterwards.
LEMMA FlushThenFill ==
    ASSUME NEW k \in 1 .. 12, Enable[k].do \in {"-N", "-F"},
           NEW r \in Rules[Enable[k].table]
    PROVE  WillAppend(k + 1, Enable[k].table, r)
<1>1. k = 1 \/ k = 2 \/ k = 3 \/ k = 4 \/ k = 5 \/ k = 6 \/ k = 7 \/ k = 8
      \/ k = 9 \/ k = 10 \/ k = 11 \/ k = 12
  OBVIOUS
<1>2. k = 2 \/ k = 3 \/ k = 8 \/ k = 9
  BY <1>1, EnableCommands
<1>3. Rules["nat"] = {"udp 53", "tcp 53"} /\ Rules["filter"] = {"tcp 853"}
  BY DEF Rules
<1>4. CASE k \in {2, 3}
  <2>1. Enable[k].table = "nat" /\ r \in {"udp 53", "tcp 53"}
    BY <1>3, <1>4, EnableCommands
  <2>2. 4 \in k + 1 .. 12 /\ 5 \in k + 1 .. 12
    BY <1>4
  <2>. QED  BY <2>1, <2>2, EnableCommands DEF WillAppend
<1>5. CASE k \in {8, 9}
  <2>1. Enable[k].table = "filter" /\ r = "tcp 853"
    BY <1>3, <1>5, EnableCommands
  <2>2. 10 \in k + 1 .. 12
    BY <1>5
  <2>. QED  BY <2>1, <2>2, EnableCommands DEF WillAppend
<1>. QED  BY <1>2, <1>4, <1>5

\* From the start an enable will do everything.
LEMMA FromTheStart ==
    ASSUME NEW t \in Tables, NEW f
    PROVE  (\A r \in Rules[t] : WillAppend(1, t, r)) /\ WillJump(1, f, t)
<1>1. Rules["nat"] = {"udp 53", "tcp 53"} /\ Rules["filter"] = {"tcp 853"}
  BY DEF Rules
<1>2. /\ 4 \in 1 .. 12 /\ 5 \in 1 .. 12 /\ 7 \in 1 .. 12 /\ 10 \in 1 .. 12 /\ 12 \in 1 .. 12
      /\ 7 # 1 /\ 12 # 1
  OBVIOUS
<1>3. \A r \in Rules[t] : WillAppend(1, t, r)
  <2>1. WillAppend(1, "nat", "udp 53") /\ WillAppend(1, "nat", "tcp 53")
    BY <1>2, EnableCommands DEF WillAppend
  <2>2. WillAppend(1, "filter", "tcp 853")
    BY <1>2, EnableCommands DEF WillAppend
  <2>. HIDE DEF WillAppend
  <2>3. CASE t = "nat"
    BY <1>1, <2>1, <2>3
  <2>4. CASE t = "filter"
    BY <1>1, <2>2, <2>4
  <2>. QED  BY <2>3, <2>4 DEF Tables
<1>4. WillJump(1, f, t)
  <2>1. CASE t = "nat"
    BY <1>2, <2>1, EnableCommands DEF WillJump
  <2>2. CASE t = "filter"
    BY <1>2, <2>2, EnableCommands DEF WillJump
  <2>. QED  BY <2>1, <2>2 DEF Tables
<1>. QED  BY <1>3, <1>4

\* A step of an enable leaves a chain that is there.
LEMMA ChainsStay ==
    ASSUME TypeOK, NEW p \in Processes, NEW k \in 1 .. 12,
           Skip(p, Enable[k]) \/ Do(p, Enable[k]) \/ Fail(p, Enable[k]),
           NEW v \in Tables, chain[v] # Absent
    PROVE  chain'[v] # Absent
<1>. DEFINE c == Enable[k]
            u == c.table
<1>1. u \in Tables /\ c.do \in {"forward", "-N", "-F", "-A", "-C", "-I"}
  BY EnableShape
<1>2. c.do = "-A" => c.rule \in {"udp 53", "tcp 53", "tcp 853"}
  BY <1>1, EnableShape, RuleNames
<1>. HIDE DEF c, u
<1>3. CASE Do(p, c)
  <2>1. /\ \A w \in Tables \ {u} : chain'[w] = chain[w]
        /\ c.do \in {"forward", "-C", "-I"} => chain'[u] = chain[u]
        /\ c.do \in {"-N", "-F"} => chain'[u] = {}
        /\ c.do = "-A" => chain'[u] = chain[u] \cup {c.rule}
    BY <1>1, <1>3, Effects DEF u
  <2>2. {} # Absent /\ (c.do = "-A" => c.rule \notin Absent)
    BY <1>2 DEF Absent
  <2>. QED  BY <1>1, <2>1, <2>2
<1>4. CASE Skip(p, c) \/ Fail(p, c)
  <2>1. chain' = chain
    BY <1>1, <1>4, NoEffects DEF u
  <2>. QED  BY <2>1
<1>. QED  BY <1>3, <1>4 DEF c

\* One command of one of them: it is never one that is insisted on and refused.
LEMMA SharedStep ==
    ASSUME Inv, SharedInv, ~spoiled, NEW p \in Processes, Run(p)
    PROVE  SharedInv' /\ GoOn(p)
<1>. DEFINE k == pc[p]
            c == Enable[k]
            u == c.table
<1>1. /\ Running(p) /\ ~spoiled' /\ UNCHANGED <<op, alone>>
      /\ op[p] = "enable" /\ p \notin Unprivileged /\ ChainsBefore(k, chain)
      /\ TypeOK /\ result[p] = "none"
  BY DEF Run, SharedInv, Inv, ProcessInv
<1>2. Program[op[p]] = Enable /\ Len(Program[op[p]]) = 12
  <2>1. Program[op[p]] = Enable
    BY <1>1 DEF Program
  <2>. QED  BY <2>1, EnableCommands
<1>3. k \in 1 .. 12
  BY <1>1, <1>2, Progress
<1>4. \/ Skip(p, c) /\ GoOn(p)
      \/ Do(p, c) /\ GoOn(p)
      \/ /\ Fail(p, c) /\ ~Accepted(c)
         /\ IF c.check THEN Abort(p) ELSE GoOn(p)
  BY <1>1, <1>2 DEF Run, Skip, Do, Fail
<1>5. /\ ChainsBefore(k + 1, chain')
      /\ ~Accepted(c) /\ Fail(p, c) => ~c.check
  BY <1>1, <1>3, <1>4, RepairStep
<1>6. GoOn(p)
  BY <1>4, <1>5
<1>7. /\ \A q \in Processes \ {p} : pc'[q] = pc[q] /\ found'[q] = found[q]
      /\ k < 12 => pc'[p] = k + 1
      /\ k = 12 => pc'[p] = 0
  <2>1. \A q \in Processes \ {p} : found'[q] = found[q]
    BY <1>1, <1>4 DEF Skip, Do, Fail, TypeOK
  <2>2. /\ pc' = IF k < 12 THEN [pc EXCEPT ![p] = k + 1] ELSE [pc EXCEPT ![p] = 0]
        /\ pc \in [Processes -> Nat]
    BY <1>1, <1>2, <1>6 DEF GoOn, TypeOK
  <2>. QED  BY <1>3, <2>1, <2>2
<1>8. /\ u \in Tables
      /\ c.do \in {"forward", "-N", "-F", "-A", "-C", "-I"}
      /\ c.do \in {"-A", "-I"} => c.check
  BY <1>3, EnableShape
<1>9. Skip(p, c) \/ Do(p, c) \/ (Fail(p, c) /\ ~c.check)
  BY <1>4, <1>5
<1>10. \A q \in Processes :
          pc'[q] # 0 => /\ op'[q] = "enable" /\ q \notin Unprivileged
                        /\ ChainsBefore(pc'[q], chain')
  <2>. TAKE q \in Processes
  <2>1. CASE q = p
    BY <1>1, <1>3, <1>5, <1>7, <2>1
  <2>2. CASE q # p
    <3>. SUFFICES ASSUME pc[q] # 0
                  PROVE  /\ op[q] = "enable" /\ q \notin Unprivileged
                         /\ ChainsBefore(pc[q], chain')
      BY <1>1, <1>7, <2>2
    <3>1. op[q] = "enable" /\ q \notin Unprivileged /\ ChainsBefore(pc[q], chain)
      BY DEF SharedInv, Running
    <3>2. pc[q] \in 1 .. 12
      <4>1. result[q] = "none"
        BY DEF Inv, ProcessInv, Running
      <4>2. pc[q] \in 1 .. Len(Program[op[q]])
        BY <1>1, <4>1, Progress DEF Running
      <4>. QED  BY <1>1, <1>2, <3>1, <4>2
    <3>3. ASSUME NEW i \in 1 .. pc[q] - 1, Enable[i].do = "-N"
          PROVE  chain'[Enable[i].table] # Absent
      <4>1. chain[Enable[i].table] # Absent /\ Enable[i].table \in Tables
        BY <3>1, <3>2, <3>3, EnableShape DEF ChainsBefore
      <4>2. Skip(p, Enable[k]) \/ Do(p, Enable[k]) \/ Fail(p, Enable[k])
        BY <1>9
      <4>. QED  BY <1>1, <1>3, <4>1, <4>2, ChainsStay
    <3>. QED  BY <3>1, <3>3 DEF ChainsBefore
  <2>. QED  BY <2>1, <2>2
<1>11. ASSUME NEW t \in Tables, NEW r \in Rules[t]
       PROVE  \/ r \in chain'[t]
              \/ \E q \in Processes : pc'[q] # 0 /\ WillAppend(pc'[q], t, r)
  <2>1. ASSUME WillAppend(k + 1, t, r)
        PROVE  pc'[p] # 0 /\ WillAppend(pc'[p], t, r)
    <3>1. k < 12
      BY <1>3, <2>1 DEF WillAppend
    <3>. QED  BY <1>3, <1>7, <2>1, <3>1
  <2>2. CASE r \in chain[t]
    <3>1. CASE c.do \in {"-N", "-F"} /\ t = u
      <4>1. WillAppend(k + 1, t, r)
        BY <1>3, <3>1, FlushThenFill
      <4>. QED  BY <2>1, <4>1
    <3>2. CASE ~(c.do \in {"-N", "-F"} /\ t = u)
      <4>. HIDE DEF c, u
      <4>1. CASE Do(p, c)
        <5>1. /\ \A w \in Tables \ {u} : chain'[w] = chain[w]
              /\ c.do \in {"forward", "-C", "-I"} => chain'[u] = chain[u]
              /\ c.do = "-A" => chain'[u] = chain[u] \cup {c.rule}
          BY <1>1, <1>8, <4>1, Effects DEF u
        <5>. QED  BY <1>8, <2>2, <3>2, <5>1
      <4>2. CASE Skip(p, c) \/ Fail(p, c)
        BY <1>1, <1>8, <2>2, <4>2, NoEffects DEF u
      <4>. QED  BY <1>9, <4>1, <4>2
    <3>. QED  BY <3>1, <3>2
  <2>3. CASE \E q \in Processes \ {p} : Running(q) /\ WillAppend(pc[q], t, r)
    BY <1>7, <2>3 DEF Running
  <2>4. CASE WillAppend(k, t, r)
    <3>1. PICK i \in k .. 12 : /\ Enable[i].do = "-A" /\ Enable[i].table = t
                               /\ Enable[i].rule = r
      BY <2>4 DEF WillAppend
    <3>2. CASE i = k
      <4>1. c.do = "-A" /\ u = t /\ c.rule = r
        BY <3>1, <3>2
      <4>. HIDE DEF c, u
      <4>2. Do(p, c)
        <5>1. ~Skip(p, c)
          BY <4>1 DEF Skip, Skipped
        <5>. QED  BY <1>8, <1>9, <4>1, <5>1
      <4>3. chain'[u] = chain[u] \cup {c.rule}
        BY <1>1, <1>8, <4>1, <4>2, Effects DEF u
      <4>. QED  BY <4>1, <4>3
    <3>3. CASE i # k
      <4>1. i \in k + 1 .. 12
        BY <1>3, <3>3
      <4>2. WillAppend(k + 1, t, r)
        BY <3>1, <4>1 DEF WillAppend
      <4>. QED  BY <2>1, <4>2
    <3>. QED  BY <3>2, <3>3
  <2>5. \/ r \in chain[t]
        \/ \E q \in Processes : Running(q) /\ WillAppend(pc[q], t, r)
    BY DEF SharedInv
  <2>. QED  BY <2>2, <2>3, <2>4, <2>5
<1>12. ASSUME NEW t \in Tables
       PROVE  \/ jumps'[t] > 0
              \/ \E q \in Processes : pc'[q] # 0 /\ WillJump(pc'[q], found'[q], t)
  <2>1. jumps[t] > 0 => jumps'[t] > 0
    <3>. HIDE DEF c, u
    <3>1. CASE Do(p, c)
      <4>1. /\ \A w \in Tables \ {u} : jumps'[w] = jumps[w]
            /\ c.do \in {"forward", "-C", "-N", "-F", "-A"} => jumps'[u] = jumps[u]
            /\ c.do = "-I" => jumps'[u] = jumps[u] + 1
        BY <1>1, <1>8, <3>1, Effects DEF u
      <4>2. jumps[u] \in Nat
        BY <1>1, <1>8 DEF TypeOK
      <4>. QED  BY <1>8, <4>1, <4>2
    <3>2. CASE Skip(p, c) \/ Fail(p, c)
      BY <1>1, <1>8, <3>2, NoEffects DEF u
    <3>. QED  BY <1>9, <3>1, <3>2
  <2>2. CASE \E q \in Processes \ {p} : Running(q) /\ WillJump(pc[q], found[q], t)
    BY <1>7, <2>2 DEF Running
  <2>3. CASE WillJump(k, found[p], t)
    <3>1. PICK i \in k .. 12 : /\ Enable[i].do = "-I" /\ Enable[i].table = t
                               /\ i = k => ~found[p]
      BY <2>3 DEF WillJump
    <3>2. CASE i = k
      <4>1. c.do = "-I" /\ u = t /\ ~found[p]
        <5>1. Enable[k].do = "-I" /\ Enable[k].table = t
          BY ONLY <3>1, <3>2
        <5>2. ~found[p]
          BY ONLY <3>1, <3>2
        <5>. QED  BY <5>1, <5>2
      <4>. HIDE DEF c, u
      <4>2. Do(p, c)
        <5>1. ~Skip(p, c)
          BY <4>1 DEF Skip, Skipped
        <5>. QED  BY <1>8, <1>9, <4>1, <5>1
      <4>3. jumps'[u] = jumps[u] + 1
        BY <1>1, <1>8, <4>1, <4>2, Effects DEF u
      <4>4. jumps[u] \in Nat
        BY <1>1, <1>8 DEF TypeOK
      <4>. QED  BY <4>1, <4>3, <4>4
    <3>3. CASE i # k
      <4>1. i \in k + 1 .. 12 /\ i \in 1 .. 12 /\ k < 12
        BY <1>3, <3>3
      <4>2. Enable[i - 1].do = "-C" /\ Enable[i - 1].table = t
        <5>1. Enable[i].do = "-I" /\ Enable[i].table = t
          BY <3>1
        <5>2. /\ Enable[i - 1].do = "-C"
              /\ Enable[i - 1].table = Enable[i].table
          BY <4>1, <5>1, EnableShape
        <5>. QED  BY <5>1, <5>2
      <4>3. CASE i = k + 1 /\ found'[p]
        <5>1. i - 1 = k
          BY <1>3, <4>3
        <5>2. c.do = "-C" /\ u = t
          BY <4>2, <5>1
        <5>. HIDE DEF c, u
        <5>3. Do(p, c)
          <6>1. ~Skip(p, c)
            BY <5>2 DEF Skip, Skipped
          <6>2. ~Fail(p, c)
            BY <1>1, <1>8, <4>3, NoEffects DEF u
          <6>. QED  BY <1>9, <6>1, <6>2
        <5>4. jumps[u] > 0
          BY <1>1, <1>8, <5>2, <5>3, Effects DEF u
        <5>. QED  BY <2>1, <5>2, <5>4
      <4>4. CASE ~(i = k + 1 /\ found'[p])
        <5>1. WillJump(k + 1, found'[p], t)
          <6>1. Enable[i].do = "-I" /\ Enable[i].table = t
            BY <3>1
          <6>2. i = k + 1 => ~found'[p]
            BY <4>4
          <6>. HIDE DEF k
          <6>. QED  BY <4>1, <6>1, <6>2 DEF WillJump
        <5>2. pc'[p] = k + 1 /\ k + 1 # 0
          BY <1>3, <1>7, <4>1
        <5>. QED  BY <5>1, <5>2
      <4>. QED  BY <4>3, <4>4
    <3>. QED  BY <3>2, <3>3
  <2>4. \/ jumps[t] > 0
        \/ \E q \in Processes : Running(q) /\ WillJump(pc[q], found[q], t)
    BY DEF SharedInv
  <2>. QED  BY <2>1, <2>2, <2>3, <2>4
<1>. HIDE DEF k, c, u
<1>13. SharedInv'
  BY <1>10, <1>11, <1>12 DEF SharedInv, Running
<1>. QED  BY <1>6, <1>13

\* An enable that begins when nobody works on the tables will do everything,
\* and one that joins others takes nothing from what they have still to do.
LEMMA SharedBegin ==
    ASSUME Inv, SharedInv, NEW p \in Processes, NEW o \in {"enable", "disable"}, Begin(p, o)
    PROVE  SharedInv'
<1>. SUFFICES ASSUME ~spoiled'
              PROVE  SharedInv'
  BY DEF SharedInv
<1>1. /\ ~Running(p) /\ o = "enable" /\ p \notin Unprivileged
      /\ ~spoiled \/ \A q \in Processes : ~Running(q)
      /\ UNCHANGED <<chain, jumps, found>>
      /\ op' = [op EXCEPT ![p] = o] /\ pc' = [pc EXCEPT ![p] = 1]
      /\ op \in [Processes -> {"none", "enable", "disable"}] /\ pc \in [Processes -> Nat]
  BY DEF Begin, kernel, Inv, TypeOK
<1>2. /\ op'[p] = "enable" /\ pc'[p] = 1
      /\ \A q \in Processes \ {p} : op'[q] = op[q] /\ pc'[q] = pc[q]
  BY <1>1
<1>3. \A q \in Processes :
          pc'[q] # 0 => /\ op'[q] = "enable" /\ q \notin Unprivileged
                        /\ ChainsBefore(pc'[q], chain')
  <2>. TAKE q \in Processes
  <2>1. CASE q = p
    <3>1. 1 .. 1 - 1 = {}
      OBVIOUS
    <3>2. ChainsBefore(1, chain')
      BY <3>1 DEF ChainsBefore
    <3>. QED  BY <1>1, <1>2, <2>1, <3>2
  <2>2. CASE q # p
    <3>. SUFFICES ASSUME pc[q] # 0
                  PROVE  /\ op[q] = "enable" /\ q \notin Unprivileged
                         /\ ChainsBefore(pc[q], chain)
      BY <1>1, <1>2, <2>2
    <3>. QED  BY <1>1 DEF SharedInv, Running
  <2>. QED  BY <2>1, <2>2
<1>4. \A t \in Tables : /\ \A r \in Rules[t] : pc'[p] # 0 /\ WillAppend(pc'[p], t, r)
                       /\ WillJump(pc'[p], found'[p], t)
  BY <1>2, FromTheStart
<1>. QED  BY <1>2, <1>3, <1>4 DEF SharedInv, Running

LEMMA SharedNext ==
    ASSUME Inv, SharedInv, [Next]_vars
    PROVE  SharedInv'
<1>1. ASSUME NEW p \in Processes, BeginEnable(p)
      PROVE  SharedInv'
  BY <1>1, SharedBegin DEF BeginEnable
<1>2. ASSUME NEW p \in Processes, Run(p)
      PROVE  SharedInv'
  <2>1. CASE spoiled
    BY <1>2, <2>1 DEF Run, SharedInv
  <2>2. CASE ~spoiled
    BY <1>2, <2>2, SharedStep
  <2>. QED  BY <2>1, <2>2
<1>3. ASSUME NEW p \in Processes, CommandFails(p) \/ Kill(p)
      PROVE  SharedInv'
  BY <1>3 DEF CommandFails, Kill, SharedInv
<1>4. CASE DaemonDisable \/ CliDisable
  <2>1. "daemon" \in Processes /\ "cli" \in Processes
    BY DEF Processes
  <2>. QED  BY <1>4, <2>1, SharedBegin DEF DaemonDisable, CliDisable
<1>5. CASE ChangeLock \/ UNCHANGED vars
  <2>1. UNCHANGED <<chain, jumps, op, pc, found, spoiled>>
    BY <1>5 DEF ChangeLock, vars, kernel, ghosts
  <2>. QED  BY <2>1 DEF SharedInv, Running, ChainsBefore
<1>6. CASE Reboot
  BY <1>6 DEF Reboot, SharedInv
<1>. QED  BY <1>1, <1>2, <1>3, <1>4, <1>5, <1>6 DEF Next

\* enable_transparent_redirection in two processes at once: whatever the tables
\* held and however their commands interleave, as long as none fails for a reason
\* of its own and nobody dismantles the chains, each succeeds and the last one
\* to end leaves all traffic redirected.
THEOREM OverlappingEnablesWork == Spec => OverlappingEnablesEnforce
<1>1. Init => SharedInv
  BY DEF Init, SharedInv
<1>2. Inv /\ SharedInv /\ [Next]_vars => SharedInv'
  BY SharedNext
<1>3. ASSUME Inv, Inv', SharedInv, SharedInv', [Next]_vars, NEW p \in Processes,
             Running(p), ~Running(p)', ~spoiled'
      PROVE  /\ result'[p] = "ok"
             /\ (\A q \in Processes : ~Running(q)') => Enforced'
  <2>1. Run(p) /\ ~spoiled
    <3>1. pc'[p] # pc[p] /\ p \in DOMAIN pc /\ pc \in [Processes -> Nat]
      BY <1>3 DEF Running, Inv, TypeOK
    <3>2. ASSUME NEW q \in Processes, Run(q)
          PROVE  q = p
      <4>1. GoOn(q) \/ Abort(q)
        BY <3>2 DEF Run
      <4>2. q # p => pc'[p] = pc[p]
        BY <3>1, <4>1 DEF GoOn, Abort
      <4>. QED  BY <3>1, <4>2
    <3>3. ASSUME NEW q \in Processes, NEW o \in {"enable", "disable"}, Begin(q, o)
          PROVE  FALSE
      BY <1>3, <3>1, <3>3 DEF Begin, Running
    <3>4. ASSUME NEW q \in Processes
          PROVE  ~CommandFails(q) /\ ~Kill(q) /\ ~Reboot
      BY <1>3 DEF CommandFails, Kill, Reboot
    <3>5. ~ChangeLock /\ ~(UNCHANGED vars)
      BY <3>1 DEF ChangeLock, vars
    <3>6. "daemon" \in Processes /\ "cli" \in Processes
      BY DEF Processes
    <3>7. PICK q \in Processes : Run(q)
      BY <1>3, <3>3, <3>4, <3>5, <3>6 DEF Next, BeginEnable, DaemonDisable, CliDisable
    <3>. QED  BY <1>3, <3>2, <3>7 DEF Run
  <2>2. GoOn(p)
    BY <1>3, <2>1, SharedStep
  <2>3. result'[p] = "ok"
    <3>1. p \in DOMAIN pc /\ p \in DOMAIN result /\ pc[p] \in Nat
      BY <1>3 DEF Inv, TypeOK
    <3>. QED  BY <1>3, <2>2, <3>1 DEF GoOn, Running
  <2>4. ASSUME \A q \in Processes : ~Running(q)'
        PROVE  Enforced'
    <3>1. /\ \A t \in Tables : \A r \in Rules[t] : r \in chain'[t]
          /\ \A t \in Tables : jumps'[t] > 0
      BY <1>3, <2>4 DEF SharedInv, Running
    <3>2. \A t \in Tables : chain'[t] = Absent \/ chain'[t] \subseteq Rules[t]
      BY <1>3 DEF Inv, KernelInv
    <3>3. \A t \in Tables : chain'[t] # Absent
      <4>1. Rules["nat"] = {"udp 53", "tcp 53"} /\ Rules["filter"] = {"tcp 853"}
        BY DEF Rules
      <4>. QED  BY <3>1, <4>1 DEF Absent, Tables
    <3>4. \A t \in Tables : chain'[t] = Rules[t]
      BY <3>1, <3>2, <3>3
    <3>. QED  BY <3>1, <3>4 DEF Enforced
  <2>. QED  BY <2>3, <2>4
<1>4. Inv /\ Inv' /\ SharedInv /\ SharedInv' /\ [Next]_vars =>
        [\A p \in Processes : Running(p) /\ ~Running(p)' /\ ~spoiled' =>
            /\ result'[p] = "ok"
            /\ (\A q \in Processes : ~Running(q)') => Enforced']_vars
  BY <1>3
<1>. QED  BY <1>1, <1>2, <1>4, GatewayInvariance, PTL DEF Spec, OverlappingEnablesEnforce
=============================================================================
