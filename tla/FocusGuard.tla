------------------------------ MODULE FocusGuard ------------------------------
(***************************************************************************)
(* The daemon as its clients meet it: the policy engine and the DNS server *)
(* of one process (service/daemon.py).  They share the DomainSinkhole, the *)
(* engine's refresh replaces its rules, and every query is decided by      *)
(* them.  The tasks, the cache and the rules die with the process.         *)
(*                                                                         *)
(* Two clocks: sessions end by the wall clock, `clock`, which may be set;  *)
(* cached answers by the event loop's, `ticks`.  Lists of allowed domains, *)
(* which no request makes, are left out.                                   *)
(***************************************************************************)
EXTENDS PolicyEngine

CONSTANTS Slots, Names, Types, Unwritable, Essential, Bootstrap, NormalNames,
          Upstreams, Ttls, MinTtl, MaxTtl, MaxTicks     \* as in DnsServer

VARIABLES
    ticks,  \* the event loop's clock
    rules,  \* the sinkhole's _blocked_trees
    query,  \* the tasks of the DNS server
    cache   \* the resolver's cache

Dns == INSTANCE DnsServer WITH
    clock <- ticks, blocked <- rules, MaxClock <- MaxTicks,
    RuleSets <- SUBSET Domains, Allowlist <- FALSE, Allowed <- {}

dnsVars == <<ticks, rules, query, cache>>
systemVars == <<vars, dnsVars>>

\* A normalized domain is normalized again when it becomes a rule, and is not
\* changed by that; a service's list may hold domains that make no rule.
ASSUME NamesAssumption ==
    /\ NormalNames \subseteq Domains
    /\ \A i \in DOMAIN Normalized :
        {Normalized[i]} \cup CompanionsOf[Normalized[i]] \subseteq NormalNames

-----------------------------------------------------------------------------
\* Mutant: a starting engine leaves the sinkhole alone.
EngineStep_NotAtStart ==
    /\ Request \/ Heartbeat \/ Boot
    /\ IF up THEN Dns!SetBlockedDomains(sinkhole') ELSE UNCHANGED dnsVars

\* A request, a tick or the start of the engine, which hands the sinkhole its
\* domains wherever they change.
EngineStep ==
    /\ Request \/ Heartbeat \/ Boot
    /\ Dns!SetBlockedDomains(sinkhole')

\* The process dies, and with it what the DNS server holds.
ProcessDies == Crash /\ Dns!Restart

\* The world moves on, or a start of the daemon fails.
Outside ==
    \/ (AbortedBoot \/ AdvanceClock \/ SetClockBack) /\ UNCHANGED dnsVars
    \/ Dns!PassTime /\ UNCHANGED vars

\* The DNS server of the running daemon.
Serve ==
    /\ up
    /\ \/ \E s \in Slots, q \in Dns!Questions : Dns!Receive(s, q)
       \/ \E s \in Slots, ttl \in Ttls, records \in BOOLEAN :
            Dns!UpstreamAnswers(s, ttl, records)
       \/ \E s \in Slots : Dns!UpstreamFails(s)
    /\ UNCHANGED vars

SystemInit == Init /\ Dns!Init

SystemNext == EngineStep \/ ProcessDies \/ Outside \/ Serve

SystemSpec == SystemInit /\ [][SystemNext]_systemVars
-----------------------------------------------------------------------------
(* Properties *)

\* A query arrives in this step, its task's first.
Arrives(s) == query'[s] # query[s] /\ query[s].state # "waiting"

\* The domains that a client was told are blocked: its confirmed rules, and
\* those of a confirmed session before its deadline.
Promised == confirmed.domains \cup UNION {p.domains \cap NormalNames : p \in granted}

\* Whatever was asked, saved or not saved, crashed and restarted since, a name
\* at or below a promised domain is not resolved: neither the cache nor an
\* upstream server answers a query for it, and the record says BLOCKED.
PromisedNamesRefused ==
    [][\A s \in Slots :
        LET name == query'[s].question[1] IN
        /\ Arrives(s)
        /\ Dns!MatchesTree(name, Promised) /\ ~Dns!MatchesTree(name, Essential)
        => /\ query'[s].state = "done" /\ query'[s].action = "BLOCKED"
           /\ query'[s].reply \in {Dns!Sinkholed, Dns!NoReply}]_systemVars

\* A name that no rule in force is about is never sunk, so nothing of a session
\* is left in the way once it has been released; a session that a request has
\* marked EXPIRED, and no tick will release, is the exception.  An essential
\* name is not sunk even then, nor by a rule above it.
OtherNamesResolved ==
    [][\A s \in Slots :
        LET name == query'[s].question[1] IN
        /\ Arrives(s)
        /\ \/ Dns!MatchesTree(name, Essential)
           \/ /\ session.status # "EXPIRED"
              /\ ~Dns!MatchesTree(name, Dns!Rules(Bootstrap, ActiveBlocked(config, session)))
        => query'[s].action = "ALLOWED"]_systemVars
=============================================================================
