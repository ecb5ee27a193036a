------------------------------ MODULE DnsServer ------------------------------
(***************************************************************************)
(* DNSServer.handle_query (dns/server.py) and the DNSResolver it awaits    *)
(* (dns/resolver.py).  Every query is a task of one event loop.  It runs   *)
(* from its arrival to its first wait for an upstream server in one piece: *)
(* the sinkhole, the record of the decision and the cache are one step.    *)
(* After that the rules, the cache and the other queries move on while it  *)
(* waits.                                                                  *)
(*                                                                         *)
(* Wire formats are abstract: an answer is the question it answers, its    *)
(* TTL and when the upstream server sent it.  The clock is monotonic.      *)
(***************************************************************************)
EXTENDS DomainSinkhole

CONSTANTS
    Slots,          \* tasks that may be under way at once
    Names,          \* names that clients ask for
    Types,          \* query types
    Unwritable,     \* names that to_bytes cannot write back
    Upstreams,      \* number of upstream servers, asked in turn
    Ttls,           \* TTLs that upstream servers send
    MinTtl, MaxTtl, \* the bounds of a cached answer's life: 10 and 3600
    Allowlist,      \* allowlist_mode and its rules
    Allowed,
    RuleSets,       \* the domain lists that the policy engine may set
    MaxClock        \* bound: ticks of the clock

ASSUME DnsAssumption ==
    /\ Upstreams \in Nat \ {0}
    /\ Ttls \subseteq Nat
    /\ MinTtl \in Nat /\ MaxTtl \in Nat /\ MinTtl <= MaxTtl
    /\ Names \subseteq Seq(STRING) /\ Unwritable \subseteq Names
    /\ Allowlist \in BOOLEAN
    /\ MaxClock \in Nat

VARIABLES
    clock,
    blocked,    \* _blocked_trees
    query,      \* per slot: the last query and where its task is
    cache       \* _cache, by question

vars == <<clock, blocked, query, cache>>

Questions == Names \X Types
Min(a, b) == IF a < b THEN a ELSE b
Max(a, b) == IF a < b THEN b ELSE a

\* A reply is a sinkhole address, an answer from upstream or from the cache,
\* SERVFAIL, or nothing the client can read.
NoReply == [kind |-> "none"]
Sinkholed == [kind |-> "sinkhole"]
ServFail == [kind |-> "servfail"]
Answer(kind, question, ttl, sent) ==
    [kind |-> kind, question |-> question, ttl |-> ttl, age |-> clock - sent]
Replies == {NoReply, Sinkholed, ServFail} \cup
           [kind : {"upstream", "cached"}, question : Questions, ttl : Ttls,
            age : 0 .. MaxClock]

\* A message that DNSMessage.to_bytes writes.  It raises on a label that is no
\* ASCII and garbles the root name; the task then ends without a reply.
Written(question, reply) == IF question[1] \in Unwritable THEN NoReply ELSE reply

NoEntry == [sent |-> 0, ttl |-> 0, expires |-> 0]
Entry == [sent : 0 .. MaxClock, ttl : Ttls \cup {0}, expires : Nat]

\* `upstream` is the server that a waiting task has asked.  `action` is what the
\* flow log and the event bus were told when the query arrived.
Query == [state : {"idle", "waiting", "done"}, question : Questions,
          action : {"BLOCKED", "ALLOWED"}, upstream : 1 .. Upstreams,
          failed : SUBSET (1 .. Upstreams), reply : Replies]

TypeOK ==
    /\ clock \in 0 .. MaxClock
    /\ blocked \in SUBSET (Bootstrap \cup NormalNames)
    /\ query \in [Slots -> Query]
    /\ cache \in [Questions -> Entry]

Blocked(name) == IsBlocked(name, Allowlist, blocked, Allowed)

-----------------------------------------------------------------------------
(* The resolver's cache *)

\* Mutant: entries are used until they are replaced.
Hit_Stale(q) == cache[q] # NoEntry

\* A hit is an entry that has not expired.
Hit(q) == cache[q] # NoEntry /\ cache[q].expires > clock

\* store_cache, for an answer with records.
CacheEntry(ttl) ==
    [sent |-> clock, ttl |-> ttl, expires |-> clock + Max(MinTtl, Min(ttl, MaxTtl))]

-----------------------------------------------------------------------------
(* A query *)

\* The task of a query at its first step.
Arrived(q) == [state |-> "done", question |-> q,
               action |-> IF Blocked(q[1]) THEN "BLOCKED" ELSE "ALLOWED",
               upstream |-> 1, failed |-> {}, reply |-> NoReply]

Sink(s, q) ==
    /\ query' = [query EXCEPT ![s] = [Arrived(q) EXCEPT !.reply = Written(q, Sinkholed)]]
    /\ UNCHANGED cache

\* resolve: an entry that has not expired is the answer; one that has is
\* deleted, and the first upstream server is asked.
Resolve(s, q) ==
    \/ /\ Hit(q)
       /\ query' = [query EXCEPT ![s] = [Arrived(q) EXCEPT
            !.reply = Written(q, Answer("cached", q, cache[q].ttl, cache[q].sent))]]
       /\ UNCHANGED cache
    \/ /\ ~Hit(q)
       /\ query' = [query EXCEPT ![s] = [Arrived(q) EXCEPT !.state = "waiting"]]
       /\ cache' = [cache EXCEPT ![q] = NoEntry]

\* Mutant: the cache is looked up before the rules.
Receive_CacheFirst(s, q) ==
    /\ query[s].state # "waiting"
    /\ IF Blocked(q[1]) /\ ~Hit(q) THEN Sink(s, q) ELSE Resolve(s, q)
    /\ UNCHANGED <<clock, blocked>>

\* A query arrives and its task runs until it has a reply or waits.
Receive(s, q) ==
    /\ query[s].state # "waiting"
    /\ IF Blocked(q[1]) THEN Sink(s, q) ELSE Resolve(s, q)
    /\ UNCHANGED <<clock, blocked>>

\* The upstream server answers.  Its bytes go to the client as they came; an
\* answer with records is stored under the question.
UpstreamAnswers(s, ttl, records) ==
    /\ query[s].state = "waiting"
    /\ LET q == query[s].question
       IN  /\ query' = [query EXCEPT ![s].state = "done",
                            ![s].reply = Answer("upstream", q, ttl, clock)]
           /\ cache' = IF records THEN [cache EXCEPT ![q] = CacheEntry(ttl)]
                       ELSE cache
    /\ UNCHANGED <<clock, blocked>>

AskNext(s) ==
    query' = [query EXCEPT ![s].upstream = @ + 1,
                           ![s].failed = @ \cup {query[s].upstream}]

GiveUp(s) ==
    query' = [query EXCEPT ![s].state = "done",
                           ![s].failed = @ \cup {query[s].upstream},
                           ![s].reply = Written(query[s].question, ServFail)]

\* Mutant: the last server is left out.
UpstreamFails_StopsEarly(s) ==
    /\ query[s].state = "waiting"
    /\ IF query[s].upstream + 1 < Upstreams THEN AskNext(s) ELSE GiveUp(s)
    /\ UNCHANGED <<clock, blocked, cache>>

\* Mutant: the last server is asked again and again.
UpstreamFails_Retries(s) ==
    /\ query[s].state = "waiting"
    /\ IF query[s].upstream < Upstreams THEN AskNext(s) ELSE UNCHANGED query
    /\ UNCHANGED <<clock, blocked, cache>>

\* It times out, refuses, or sends an empty datagram: the next one is asked,
\* and after the last the reply is SERVFAIL.
UpstreamFails(s) ==
    /\ query[s].state = "waiting"
    /\ IF query[s].upstream < Upstreams THEN AskNext(s) ELSE GiveUp(s)
    /\ UNCHANGED <<clock, blocked, cache>>

-----------------------------------------------------------------------------
(* Around it *)

\* set_blocked_domains, called by the policy engine between two steps.
SetBlockedDomains(domains) ==
    /\ blocked' = Rules(Bootstrap, domains)
    /\ UNCHANGED <<clock, query, cache>>

\* The daemon dies and starts again: its tasks end without a reply, the cache is
\* empty, and until the policy engine sets them there are only the fixed rules.
Restart ==
    /\ query' = [s \in Slots |->
        IF query[s].state = "waiting" THEN [query[s] EXCEPT !.state = "idle"] ELSE query[s]]
    /\ cache' = [q \in Questions |-> NoEntry]
    /\ blocked' = Bootstrap
    /\ UNCHANGED clock

PassTime ==
    /\ clock < MaxClock
    /\ clock' = clock + 1
    /\ UNCHANGED <<blocked, query, cache>>

Init ==
    /\ clock = 0
    /\ blocked = Bootstrap
    /\ \E q \in Questions :
        query = [s \in Slots |->
            [state |-> "idle", question |-> q, action |-> "ALLOWED",
             upstream |-> 1, failed |-> {}, reply |-> NoReply]]
    /\ cache = [q \in Questions |-> NoEntry]

Next ==
    \/ \E s \in Slots, q \in Questions : Receive(s, q)
    \/ \E s \in Slots, ttl \in Ttls, records \in BOOLEAN :
            UpstreamAnswers(s, ttl, records)
    \/ \E s \in Slots : UpstreamFails(s)
    \/ \E domains \in RuleSets : SetBlockedDomains(domains)
    \/ Restart
    \/ PassTime

Spec == Init /\ [][Next]_vars

\* wait_for's timer ends every wait: nothing else needs to be fair.
FairSpec == Spec /\ \A s \in Slots : WF_vars(UpstreamFails(s))
-----------------------------------------------------------------------------
(* Properties *)

\* What a client gets is what the flow log and the monitors were told when its
\* query arrived, whatever became of the rules while the query waited.
ReplyMatchesRecord ==
    \A s \in Slots :
        /\ query[s].reply.kind \in {"cached", "upstream", "servfail"}
                => query[s].action = "ALLOWED"
        /\ query[s].reply.kind = "sinkhole" => query[s].action = "BLOCKED"

\* The names that the rules of this moment forbid: a rule is about a name and
\* every name below it; the root has no rule.
Forbidden(name) ==
    /\ name # <<>>
    /\ ~\E e \in Essential : IsPrefix(e, name)
    /\ IF Allowlist THEN ~\E r \in Allowed : IsPrefix(r, name)
       ELSE \E r \in blocked : IsPrefix(r, name)

\* A name that has been looked up before stops resolving as soon as a rule for
\* it is set: no answer comes from the cache and no upstream server is asked,
\* however fresh the cached answer.
RulesOverrideCache ==
    [][\A s \in Slots :
        query'[s] # query[s] /\ Forbidden(query'[s].question[1])
            => /\ query'[s].reply.kind # "cached"
               /\ query'[s].state = "waiting" => query[s].state = "waiting"]_vars

\* A cached answer is an answer to the question asked, and no older than its
\* TTL allows, cut to MaxTtl; one whose TTL is below MinTtl lives for MinTtl.
CachedAnswersFresh ==
    \A s \in Slots :
        LET reply == query[s].reply
        IN  reply.kind = "cached" =>
                /\ reply.question = query[s].question
                /\ reply.age < MaxTtl
                /\ reply.age < reply.ttl \/ reply.age < MinTtl

\* SERVFAIL is sent only after each upstream server has failed this query.
ServFailIsLast ==
    \A s \in Slots : query[s].reply.kind = "servfail" => query[s].failed = 1 .. Upstreams

\* The DoH bootstrap names stay blocked through every change of the rules:
\* their queries never reach the cache or an upstream server.
BootstrapNeverResolved ==
    ~Allowlist => \A s \in Slots :
        MatchesTree(query[s].question[1], Bootstrap) /\ query[s].state # "idle"
            => query[s].state = "done" /\ query[s].reply.kind \in {"sinkhole", "none"}

\* No rule set makes an essential name unreachable.
EssentialNeverSunk ==
    \A s \in Slots :
        MatchesTree(query[s].question[1], Essential) => query[s].reply # Sinkholed

\* Every query ends, whatever the upstream servers do.
QueriesEnd == \A s \in Slots : query[s].state = "waiting" ~> query[s].state # "waiting"

\* "Concurrent request deduplication": no question is put to the upstream
\* servers by two tasks at once.
RequestsAreShared ==
    \A s, t \in Slots :
        s # t /\ query[s].state = "waiting" /\ query[t].state = "waiting"
            => query[s].question # query[t].question

\* "Return sinkhole or upstream answer": a query that was handled has a reply.
RepliesArrive == \A s \in Slots : query[s].state = "done" => query[s].reply # NoReply
=============================================================================
