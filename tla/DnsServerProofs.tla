-------------------------- MODULE DnsServerProofs --------------------------
(* Proofs about DnsServer, for any names, rules, TTLs and upstream servers. *)
EXTENDS DnsServer, SequenceTheorems, TLAPS

\* What the cache and the waiting tasks have in common between two steps.
EntryOK(e) ==
    \/ e = NoEntry
    \/ /\ e.ttl \in Ttls
       /\ e.sent <= clock
       /\ e.expires = e.sent + Max(MinTtl, Min(e.ttl, MaxTtl))

TaskOK(t) ==
    /\ t.state = "waiting" =>
            /\ t.reply = NoReply
            /\ t.action = "ALLOWED"
            /\ t.failed = 1 .. t.upstream - 1
    /\ t.reply.kind \in {"cached", "upstream", "servfail"} => t.action = "ALLOWED"
    /\ t.reply.kind = "sinkhole" => t.action = "BLOCKED"
    /\ t.reply.kind = "servfail" => t.failed = 1 .. Upstreams
    /\ t.reply.kind = "cached" =>
            /\ t.reply.question = t.question
            /\ t.reply.age < MaxTtl
            /\ t.reply.age < t.reply.ttl \/ t.reply.age < MinTtl

IInv ==
    /\ TypeOK
    /\ \A s \in Slots : TaskOK(query[s])
    /\ \A q \in Questions : EntryOK(cache[q])

\* The reply made from an entry that has not expired.
LEMMA FreshReply ==
    ASSUME IInv, NEW q \in Questions, Hit(q)
    PROVE  LET r == Answer("cached", q, cache[q].ttl, cache[q].sent)
           IN  /\ r \in Replies
               /\ r.kind = "cached"
               /\ r.question = q
               /\ r.age < MaxTtl
               /\ r.age < r.ttl \/ r.age < MinTtl
<1>1. /\ cache[q] \in Entry
      /\ clock \in 0 .. MaxClock
      BY DEF IInv, TypeOK
<1>2. /\ cache[q].ttl \in Ttls
      /\ cache[q].sent <= clock
      /\ cache[q].expires = cache[q].sent + Max(MinTtl, Min(cache[q].ttl, MaxTtl))
      /\ cache[q].expires > clock
      BY DEF IInv, EntryOK, Hit
<1>3. clock - cache[q].sent \in 0 .. MaxClock
      BY <1>1, <1>2, DnsAssumption DEF Entry
<1> DEFINE life == Max(MinTtl, Min(cache[q].ttl, MaxTtl))
           age == clock - cache[q].sent
<1>4. cache[q].ttl \in Nat /\ MinTtl \in Nat /\ MaxTtl \in Nat /\ MinTtl <= MaxTtl
      BY <1>2, DnsAssumption
<1>5. /\ life \in Nat
      /\ life < MaxTtl + 1
      /\ life < cache[q].ttl + 1 \/ life < MinTtl + 1
      BY <1>4 DEF Max, Min
<1>6. age < life
      <2>1. /\ cache[q].sent \in Nat /\ clock \in Nat
            /\ cache[q].expires = cache[q].sent + life
            BY <1>1, <1>2, DnsAssumption DEF Entry
      <2> HIDE DEF life
      <2>2. QED BY <2>1, <1>2, <1>5
<1>7. age < MaxTtl /\ (age < cache[q].ttl \/ age < MinTtl)
      <2> HIDE DEF life, age
      <2>1. age \in 0 .. MaxClock /\ cache[q].ttl \in Nat
            BY <1>2, <1>3, DnsAssumption DEF age
      <2>2. QED BY <2>1, <1>5, <1>6, DnsAssumption
<1>8. Answer("cached", q, cache[q].ttl, cache[q].sent) \in Replies
      BY <1>2, <1>3 DEF Answer, Replies
<1>9. QED
      BY <1>7, <1>8 DEF Answer

\* Any reply a task writes is one of the replies, and it either is the reply
\* meant or nothing.
LEMMA WrittenReply ==
    ASSUME NEW q \in Questions, NEW r \in Replies
    PROVE  /\ Written(q, r) \in Replies
           /\ Written(q, r) = NoReply \/ Written(q, r) = r
BY DEF Written, Replies

LEMMA InitIInv == Init => IInv
<1> SUFFICES ASSUME Init PROVE IInv
    OBVIOUS
<1>1. PICK q \in Questions :
        query = [s \in Slots |->
            [state |-> "idle", question |-> q, action |-> "ALLOWED",
             upstream |-> 1, failed |-> {}, reply |-> NoReply]]
      BY DEF Init
<1>2. query \in [Slots -> Query]
      <2>1. 1 \in 1 .. Upstreams
            BY DnsAssumption
      <2>2. NoReply \in Replies
            BY DEF Replies
      <2>3. QED BY <1>1, <2>1, <2>2 DEF Query
<1>3. cache \in [Questions -> Entry] /\ \A q1 \in Questions : cache[q1] = NoEntry
      BY DnsAssumption DEF Init, Entry, NoEntry
<1>4. clock \in 0 .. MaxClock /\ blocked \in SUBSET (Bootstrap \cup NormalNames)
      BY DnsAssumption DEF Init
<1>5. \A s \in Slots : TaskOK(query[s])
      BY <1>1 DEF TaskOK, NoReply
<1>6. QED BY <1>2, <1>3, <1>4, <1>5 DEF IInv, TypeOK, EntryOK

\* A step that gives one slot a task and leaves the rest alone.
LEMMA OneTask ==
    ASSUME IInv, NEW s \in Slots, NEW t \in Query, TaskOK(t),
           query' = [query EXCEPT ![s] = t]
    PROVE  /\ query' \in [Slots -> Query]
           /\ \A r \in Slots : TaskOK(query'[r])
BY DEF IInv, TypeOK

LEMMA ReceiveIInv ==
    ASSUME IInv, NEW s \in Slots, NEW q \in Questions, Receive(s, q)
    PROVE  IInv'
<1> USE DnsAssumption
<1>1. Arrived(q) \in Query
      <2>1. NoReply \in Replies
            BY DEF Replies
      <2>2. QED BY <2>1 DEF Arrived, Query
<1>2. UNCHANGED <<clock, blocked>>
      BY DEF Receive
<1>3. query[s] \in Query /\ cache \in [Questions -> Entry]
      BY DEF IInv, TypeOK
<1>4. CASE Blocked(q[1])
      <2> DEFINE t == [Arrived(q) EXCEPT !.reply = Written(q, Sinkholed)]
      <2>1. Sinkholed \in Replies
            BY DEF Replies
      <2>2. t \in Query
            BY <1>1, <2>1, WrittenReply DEF Query
      <2>3. t.reply = NoReply \/ t.reply = Sinkholed
            BY <2>1, WrittenReply, <1>1 DEF Query
      <2>4. t.state = "done" /\ t.action = "BLOCKED"
            BY <1>4 DEF Arrived
      <2>5. TaskOK(t)
            BY <2>3, <2>4 DEF TaskOK, NoReply, Sinkholed
      <2>6. query' = [query EXCEPT ![s] = t] /\ cache' = cache
            BY <1>4 DEF Receive, Sink
      <2>7. query' \in [Slots -> Query] /\ \A r \in Slots : TaskOK(query'[r])
            BY <2>2, <2>5, <2>6, OneTask
      <2>8. QED BY <1>2, <2>6, <2>7 DEF IInv, TypeOK, TaskOK, EntryOK
<1>5. CASE ~Blocked(q[1]) /\ Hit(q)
      <2> DEFINE a == Answer("cached", q, cache[q].ttl, cache[q].sent)
                 t == [Arrived(q) EXCEPT !.reply = Written(q, a)]
      <2>1. /\ a \in Replies
            /\ a.kind = "cached"
            /\ a.question = q
            /\ a.age < MaxTtl
            /\ a.age < a.ttl \/ a.age < MinTtl
            BY <1>5, FreshReply
      <2> HIDE DEF a
      <2>2. t \in Query
            BY <1>1, <2>1, WrittenReply DEF Query
      <2>3. t.reply = NoReply \/ t.reply = a
            BY <2>1, WrittenReply, <1>1 DEF Query
      <2>4. t.state = "done" /\ t.action = "ALLOWED" /\ t.question = q
            BY <1>5 DEF Arrived
      <2>5. TaskOK(t)
            BY <2>1, <2>3, <2>4 DEF TaskOK, NoReply
      <2>6. query' = [query EXCEPT ![s] = t] /\ cache' = cache
            BY <1>5 DEF Receive, Resolve, a
      <2>7. query' \in [Slots -> Query] /\ \A r \in Slots : TaskOK(query'[r])
            BY <2>2, <2>5, <2>6, OneTask
      <2>8. QED BY <1>2, <2>6, <2>7 DEF IInv, TypeOK, TaskOK, EntryOK
<1>6. CASE ~Blocked(q[1]) /\ ~Hit(q)
      <2> DEFINE t == [Arrived(q) EXCEPT !.state = "waiting"]
      <2>1. t \in Query
            BY <1>1 DEF Query
      <2>2. /\ t.state = "waiting" /\ t.action = "ALLOWED" /\ t.reply = NoReply
            /\ t.failed = {} /\ t.upstream = 1
            BY <1>6 DEF Arrived
      <2> HIDE DEF t
      <2>3. t.failed = 1 .. t.upstream - 1
            BY <2>2
      <2>4. TaskOK(t)
            BY <2>2, <2>3 DEF TaskOK, NoReply
      <2>5. query' = [query EXCEPT ![s] = t] /\ cache' = [cache EXCEPT ![q] = NoEntry]
            BY <1>6 DEF Receive, Resolve, t
      <2>6. query' \in [Slots -> Query] /\ \A r \in Slots : TaskOK(query'[r])
            BY <2>1, <2>4, <2>5, OneTask
      <2>7. NoEntry \in Entry
            BY DEF NoEntry, Entry
      <2>8. cache' \in [Questions -> Entry]
            BY <1>3, <2>5, <2>7
      <2>9. \A p \in Questions : cache'[p] = NoEntry \/ cache'[p] = cache[p]
            BY <1>3, <2>5
      <2>10. QED BY <1>2, <2>6, <2>8, <2>9 DEF IInv, TypeOK, TaskOK, EntryOK
<1>7. QED BY <1>4, <1>5, <1>6

LEMMA UpstreamAnswersIInv ==
    ASSUME IInv, NEW s \in Slots, NEW ttl \in Ttls, NEW records \in BOOLEAN,
           UpstreamAnswers(s, ttl, records)
    PROVE  IInv'
<1> USE DnsAssumption
<1> DEFINE q == query[s].question
           a == Answer("upstream", q, ttl, clock)
           t == [query[s] EXCEPT !.state = "done", !.reply = a]
<1>1. query[s] \in Query /\ cache \in [Questions -> Entry] /\ clock \in 0 .. MaxClock
      BY DEF IInv, TypeOK
<1>2. /\ q \in Questions
      /\ query[s].action = "ALLOWED"
      BY <1>1 DEF IInv, TaskOK, UpstreamAnswers, Query
<1>3. a \in Replies /\ a.kind = "upstream"
      <2>1. clock - clock \in 0 .. MaxClock
            BY <1>1
      <2>2. QED BY <1>2, <2>1 DEF Answer, Replies
<1>4. t \in Query /\ TaskOK(t)
      <2>1. /\ t \in Query
            /\ t.state = "done" /\ t.reply = a /\ t.action = "ALLOWED"
            BY <1>1, <1>2, <1>3 DEF Query
      <2> HIDE DEF t, a
      <2>2. QED BY <1>3, <2>1 DEF TaskOK
<1>5. query' = [query EXCEPT ![s] = t] /\ UNCHANGED <<clock, blocked>>
      BY DEF UpstreamAnswers, IInv, TypeOK
<1>6. query' \in [Slots -> Query] /\ \A r \in Slots : TaskOK(query'[r])
      BY <1>4, <1>5, OneTask
<1>7. /\ CacheEntry(ttl) \in Entry
      /\ EntryOK(CacheEntry(ttl))
      BY <1>1 DEF CacheEntry, Entry, EntryOK, Max, Min
<1>8. cache' = [cache EXCEPT ![q] = CacheEntry(ttl)] \/ cache' = cache
      BY DEF UpstreamAnswers
<1>9. /\ cache' \in [Questions -> Entry]
      /\ \A p \in Questions : EntryOK(cache'[p])
      BY <1>1, <1>2, <1>7, <1>8 DEF IInv
<1>10. QED BY <1>5, <1>6, <1>9 DEF IInv, TypeOK, TaskOK, EntryOK

LEMMA UpstreamFailsIInv ==
    ASSUME IInv, NEW s \in Slots, UpstreamFails(s)
    PROVE  IInv'
<1> USE DnsAssumption
<1> DEFINE u == query[s].upstream
<1>1. query[s] \in Query /\ u \in 1 .. Upstreams /\ query[s].question \in Questions
      BY DEF IInv, TypeOK, Query
<1>2. /\ query[s].state = "waiting" /\ query[s].reply = NoReply
      /\ query[s].action = "ALLOWED" /\ query[s].failed = 1 .. u - 1
      /\ UNCHANGED <<clock, blocked, cache>>
      BY DEF IInv, TaskOK, UpstreamFails
<1>3. query[s].failed \cup {u} = 1 .. u /\ 1 .. u \in SUBSET (1 .. Upstreams)
      BY <1>1, <1>2
<1>4. CASE u < Upstreams
      <2> DEFINE t == [query[s] EXCEPT !.upstream = u + 1,
                                       !.failed = query[s].failed \cup {u}]
      <2>1. /\ t \in Query
            /\ t.state = "waiting" /\ t.reply = NoReply /\ t.action = "ALLOWED"
            /\ t.upstream = u + 1 /\ t.failed = 1 .. u
            <3>1. u + 1 \in 1 .. Upstreams
                  BY <1>1, <1>4
            <3> HIDE DEF u
            <3>2. QED BY <1>1, <1>2, <1>3, <3>1 DEF Query
      <2>2. query' = [query EXCEPT ![s] = t]
            BY <1>1, <1>4 DEF UpstreamFails, AskNext, IInv, TypeOK, Query
      <2> HIDE DEF t
      <2>3. t.failed = 1 .. t.upstream - 1
            BY <1>1, <2>1
      <2>4. TaskOK(t)
            BY <2>1, <2>3 DEF TaskOK, NoReply
      <2>5. query' \in [Slots -> Query] /\ \A r \in Slots : TaskOK(query'[r])
            BY <2>1, <2>2, <2>4, OneTask
      <2>6. QED BY <1>2, <2>5 DEF IInv, TypeOK, TaskOK, EntryOK
<1>5. CASE ~(u < Upstreams)
      <2> DEFINE w == Written(query[s].question, ServFail)
                 t == [query[s] EXCEPT !.state = "done", !.failed = query[s].failed \cup {u},
                                       !.reply = w]
      <2>1. ServFail \in Replies
            BY DEF Replies
      <2>2. w \in Replies /\ (w = NoReply \/ w = ServFail)
            BY <1>1, <2>1, WrittenReply
      <2>3. query' = [query EXCEPT ![s] = t]
            BY <1>1, <1>5 DEF UpstreamFails, GiveUp, IInv, TypeOK, Query
      <2> HIDE DEF w
      <2>4. /\ t \in Query
            /\ t.state = "done" /\ t.reply = w /\ t.action = "ALLOWED"
            /\ t.failed = 1 .. Upstreams
            <3>1. u = Upstreams
                  BY <1>1, <1>5
            <3> HIDE DEF u
            <3>2. QED BY <1>1, <1>2, <1>3, <2>2, <3>1 DEF Query
      <2> HIDE DEF t
      <2>5. TaskOK(t)
            BY <2>2, <2>4 DEF TaskOK, NoReply, ServFail
      <2>6. query' \in [Slots -> Query] /\ \A r \in Slots : TaskOK(query'[r])
            BY <2>3, <2>4, <2>5, OneTask
      <2>7. QED BY <1>2, <2>6 DEF IInv, TypeOK, TaskOK, EntryOK
<1>6. QED BY <1>4, <1>5

\* A restart leaves each task as it is or takes it off its wait.
LEMMA RestartedTask ==
    ASSUME IInv, Restart, NEW s \in Slots
    PROVE  /\ query'[s] \in Query
           /\ \/ query'[s] = query[s] /\ query[s].state # "waiting"
              \/ /\ query[s].state = "waiting" /\ query'[s].state = "idle"
                 /\ query'[s].question = query[s].question
                 /\ query'[s].reply = NoReply
                 /\ query'[s].action = query[s].action
                 /\ query'[s].failed = query[s].failed
<1>1. query[s] \in Query
      BY DEF IInv, TypeOK
<1>2. query[s].state = "waiting" => query[s].reply = NoReply
      BY DEF IInv, TaskOK
<1>3. query'[s] = IF query[s].state = "waiting" THEN [query[s] EXCEPT !.state = "idle"]
                  ELSE query[s]
      BY DEF Restart
<1>4. QED BY <1>1, <1>2, <1>3 DEF Query

LEMMA RestartIInv ==
    ASSUME IInv, Restart PROVE IInv'
<1>1. query' \in [Slots -> Query]
      BY RestartedTask DEF Restart
<1>2. ASSUME NEW s \in Slots PROVE TaskOK(query'[s])
      <2>1. TaskOK(query[s])
            BY DEF IInv
      <2>2. NoReply.kind = "none"
            BY DEF NoReply
      <2>3. QED BY <2>1, <2>2, RestartedTask DEF TaskOK
<1>3. NoEntry \in Entry
      BY DnsAssumption DEF Entry, NoEntry
<1>4. /\ cache' \in [Questions -> Entry]
      /\ \A q \in Questions : cache'[q] = NoEntry
      BY <1>3 DEF Restart
<1>5. clock' \in 0 .. MaxClock /\ blocked' \in SUBSET (Bootstrap \cup NormalNames)
      BY DEF Restart, IInv, TypeOK
<1>6. QED BY <1>1, <1>2, <1>4, <1>5 DEF IInv, TypeOK, EntryOK, TaskOK

LEMMA NextIInv == IInv /\ [Next]_vars => IInv'
<1> SUFFICES ASSUME IInv, [Next]_vars PROVE IInv'
    OBVIOUS
<1>1. ASSUME NEW s \in Slots, NEW q \in Questions, Receive(s, q) PROVE IInv'
      BY <1>1, ReceiveIInv
<1>2. ASSUME NEW s \in Slots, NEW ttl \in Ttls, NEW records \in BOOLEAN,
             UpstreamAnswers(s, ttl, records)
      PROVE  IInv'
      BY <1>2, UpstreamAnswersIInv
<1>3. ASSUME NEW s \in Slots, UpstreamFails(s) PROVE IInv'
      BY <1>3, UpstreamFailsIInv
<1>4. ASSUME NEW domains \in RuleSets, SetBlockedDomains(domains) PROVE IInv'
      BY <1>4 DEF SetBlockedDomains, Rules, IInv, TypeOK, TaskOK, EntryOK
<1>5. CASE PassTime
      BY <1>5, DnsAssumption DEF PassTime, IInv, TypeOK, TaskOK, EntryOK, Entry, NoEntry
<1>6. CASE UNCHANGED vars
      BY <1>6 DEF vars, IInv, TypeOK, TaskOK, EntryOK
<1>7. CASE Restart
      BY <1>7, RestartIInv
<1>8. QED BY <1>1, <1>2, <1>3, <1>4, <1>5, <1>6, <1>7 DEF Next

LEMMA Invariance == Spec => []IInv
BY InitIInv, NextIInv, PTL DEF Spec

\* A name under some rule is blocked: looking up every prefix of its labels
\* finds the rule, and no essential or allowed name by mistake.
LEMMA ForbiddenIsBlocked ==
    ASSUME NEW name \in Seq(STRING), TypeOK, Forbidden(name)
    PROVE  Blocked(name)
<1>1. \A i \in 1 .. Len(name) : IsPrefix(SubSeq(name, 1, i), name)
      BY DEF IsPrefix
<1>2. ~MatchesTree(name, Essential) /\ name # <<>>
      BY <1>1 DEF Forbidden, MatchesTree
<1>3. CASE Allowlist
      BY <1>1, <1>2, <1>3 DEF Forbidden, MatchesTree, Blocked, IsBlocked
<1>4. CASE ~Allowlist
      <2>1. PICK r \in blocked : IsPrefix(r, name)
            BY <1>4 DEF Forbidden
      <2>2. r \in Seq(STRING) /\ r # <<>>
            BY <2>1, SinkholeAssumption DEF TypeOK
      <2>3. Len(r) \in Nat \ {0}
            BY <2>2, EmptySeq
      <2>4. Len(r) \in 1 .. Len(name) /\ SubSeq(name, 1, Len(r)) \in blocked
            <3>1. Len(name) \in Nat /\ Len(r) <= Len(name)
                  BY <2>1 DEF IsPrefix
            <3>2. SubSeq(name, 1, Len(r)) = r
                  BY <2>1 DEF IsPrefix
            <3>3. Len(r) \in 1 .. Len(name)
                  BY <2>3, <3>1
            <3>4. QED BY <3>2, <3>3
      <2>5. QED BY <1>2, <1>4, <2>4 DEF MatchesTree, Blocked, IsBlocked
<1>5. QED BY <1>3, <1>4, DnsAssumption

\* One step of a query whose name is forbidden.
LEMMA StepOverridesCache ==
    ASSUME IInv, [Next]_vars, NEW s \in Slots, query'[s] # query[s],
           Forbidden(query'[s].question[1])
    PROVE  /\ query'[s].reply.kind # "cached"
           /\ query'[s].state = "waiting" => query[s].state = "waiting"
<1> USE DEF IInv, TypeOK
<1>1. ASSUME NEW r \in Slots, NEW q \in Questions, Receive(r, q)
      PROVE  /\ query'[s].reply.kind # "cached"
             /\ query'[s].state = "waiting" => query[s].state = "waiting"
      <2>1. r = s /\ query'[s].question = q
            BY <1>1 DEF Receive, Sink, Resolve, Arrived
      <2>2. q[1] \in Seq(STRING)
            BY DnsAssumption DEF Questions
      <2>3. Blocked(q[1])
            BY <2>1, <2>2, ForbiddenIsBlocked
      <2>4. /\ query'[s].state = "done"
            /\ query'[s].reply = Written(q, Sinkholed)
            BY <1>1, <2>1, <2>3 DEF Receive, Sink, Arrived
      <2>5. QED BY <2>4 DEF Written, NoReply, Sinkholed
<1>2. ASSUME NEW r \in Slots, NEW ttl \in Ttls, NEW records \in BOOLEAN,
             UpstreamAnswers(r, ttl, records)
      PROVE  /\ query'[s].reply.kind # "cached"
             /\ query'[s].state = "waiting" => query[s].state = "waiting"
      BY <1>2 DEF UpstreamAnswers, Answer, Query
<1>3. ASSUME NEW r \in Slots, UpstreamFails(r)
      PROVE  /\ query'[s].reply.kind # "cached"
             /\ query'[s].state = "waiting" => query[s].state = "waiting"
      <2>1. r = s /\ query[s].state = "waiting" /\ query[s].reply = NoReply
            BY <1>3 DEF UpstreamFails, AskNext, GiveUp, TaskOK
      <2>2. \/ query'[s].reply = NoReply
            \/ query'[s].reply = Written(query[s].question, ServFail)
            BY <1>3, <2>1 DEF UpstreamFails, AskNext, GiveUp, Query
      <2>3. QED BY <2>1, <2>2 DEF Written, NoReply, ServFail
<1>4. CASE Restart
      <2>1. query'[s].state = "idle" /\ query'[s].reply = NoReply
            BY <1>4, RestartedTask
      <2>2. QED BY <2>1 DEF NoReply
<1>5. QED BY <1>1, <1>2, <1>3, <1>4 DEF Next, vars, SetBlockedDomains, PassTime

-----------------------------------------------------------------------------
\* Every variable keeps its type, the ages and lifetimes of answers included.
THEOREM TypeCorrect == Spec => []TypeOK
BY Invariance, PTL DEF IInv

\* A client never gets an answer to a query that was recorded as blocked, nor
\* a sinkhole address for one recorded as allowed (handle_query).
THEOREM RepliesMatchRecords == Spec => []ReplyMatchesRecord
<1>1. IInv => ReplyMatchesRecord
      BY DEF IInv, TaskOK, ReplyMatchesRecord
<1>2. QED BY <1>1, Invariance, PTL

\* No cached answer outlives its TTL cut to the cache's bounds
\* (store_cache, get_cached_response).
THEOREM CachedAnswersAreFresh == Spec => []CachedAnswersFresh
<1>1. IInv => CachedAnswersFresh
      BY DEF IInv, TaskOK, CachedAnswersFresh
<1>2. QED BY <1>1, Invariance, PTL

\* A query is given up only when every upstream server has failed it (resolve).
THEOREM ServFailComesLast == Spec => []ServFailIsLast
<1>1. IInv => ServFailIsLast
      BY DEF IInv, TaskOK, ServFailIsLast
<1>2. QED BY <1>1, Invariance, PTL

\* As soon as a rule covers a name, no query for it starts a lookup or is
\* answered from the cache (handle_query with is_blocked and _matches_tree).
THEOREM RulesOverrideTheCache == Spec => RulesOverrideCache
<1>1. IInv /\ [Next]_vars =>
        [\A s \in Slots :
            query'[s] # query[s] /\ Forbidden(query'[s].question[1])
                => /\ query'[s].reply.kind # "cached"
                   /\ query'[s].state = "waiting" => query[s].state = "waiting"]_vars
      BY StepOverridesCache
<1>2. QED BY <1>1, Invariance, PTL DEF Spec, RulesOverrideCache

-----------------------------------------------------------------------------
(* The fixed names: bootstrap names stay blocked, essential ones do not.     *)

\* A name at or below a bootstrap name is at or below no essential one.
LEMMA NamesApart ==
    ASSUME NEW name \in Seq(STRING), MatchesTree(name, Bootstrap)
    PROVE  ~MatchesTree(name, Essential)
<1> SUFFICES ASSUME MatchesTree(name, Essential) PROVE FALSE
    OBVIOUS
<1>1. PICK i \in 1 .. Len(name) : SubSeq(name, 1, i) \in Bootstrap
      BY DEF MatchesTree
<1>2. PICK j \in 1 .. Len(name) : SubSeq(name, 1, j) \in Essential
      BY DEF MatchesTree
<1> DEFINE b == SubSeq(name, 1, i)
           e == SubSeq(name, 1, j)
<1>3. Len(b) = i /\ Len(e) = j /\ i \in Nat /\ j \in Nat
      OBVIOUS
<1>4. CASE i <= j
      <2>1. SubSeq(e, 1, i) = b
            BY <1>4
      <2>2. QED BY <1>1, <1>2, <1>3, <1>4, <2>1, ListsApart DEF IsPrefix
<1>5. CASE j <= i
      <2>1. SubSeq(b, 1, j) = e
            BY <1>5
      <2>2. QED BY <1>1, <1>2, <1>3, <1>5, <2>1, ListsApart DEF IsPrefix
<1>6. QED BY <1>3, <1>4, <1>5

\* A task for a fixed name.
FixedOK(t) ==
    /\ MatchesTree(t.question[1], Essential) => t.reply # Sinkholed
    /\ ~Allowlist /\ MatchesTree(t.question[1], Bootstrap) /\ t.state # "idle"
        => t.state = "done" /\ t.reply.kind \in {"sinkhole", "none"}

FixedInv ==
    /\ IInv
    /\ Bootstrap \subseteq blocked
    /\ \A s \in Slots : FixedOK(query[s])

\* What a query for a fixed name meets when it arrives.
LEMMA FixedNames ==
    ASSUME FixedInv, NEW name \in Seq(STRING)
    PROVE  /\ MatchesTree(name, Essential) => ~Blocked(name)
           /\ ~Allowlist /\ MatchesTree(name, Bootstrap) => Blocked(name)
<1>1. MatchesTree(name, Essential) => ~Blocked(name)
      BY DEF Blocked, IsBlocked
<1>2. ASSUME ~Allowlist, MatchesTree(name, Bootstrap) PROVE Blocked(name)
      <2>1. ~MatchesTree(name, Essential)
            BY <1>2, NamesApart
      <2>2. MatchesTree(name, blocked)
            BY <1>2 DEF MatchesTree, FixedInv
      <2>3. name # <<>>
            BY <1>2 DEF MatchesTree
      <2>4. QED BY <1>2, <2>1, <2>2, <2>3 DEF Blocked, IsBlocked
<1>3. QED BY <1>1, <1>2

LEMMA ReceiveFixed ==
    ASSUME FixedInv, NEW s \in Slots, NEW q \in Questions, Receive(s, q)
    PROVE  FixedOK(query'[s]) /\ \A r \in Slots \ {s} : query'[r] = query[r]
<1>1. query \in [Slots -> Query]
      BY DEF FixedInv, IInv, TypeOK
<1>2. q[1] \in Seq(STRING)
      BY DnsAssumption DEF Questions
<1>3. /\ MatchesTree(q[1], Essential) => ~Blocked(q[1])
      /\ ~Allowlist /\ MatchesTree(q[1], Bootstrap) => Blocked(q[1])
      BY <1>2, FixedNames
<1>4. query'[s].question = q
      BY <1>1 DEF Receive, Sink, Resolve, Arrived
<1>5. \A r \in Slots \ {s} : query'[r] = query[r]
      BY <1>1 DEF Receive, Sink, Resolve
<1>6. CASE Blocked(q[1])
      <2>1. query'[s].state = "done" /\ query'[s].reply = Written(q, Sinkholed)
            BY <1>1, <1>6 DEF Receive, Sink, Arrived
      <2>2. query'[s].reply = NoReply \/ query'[s].reply = Sinkholed
            BY <2>1 DEF Written
      <2>3. NoReply.kind = "none" /\ Sinkholed.kind = "sinkhole"
            BY DEF NoReply, Sinkholed
      <2>4. query'[s].reply.kind \in {"none", "sinkhole"}
            BY <2>2, <2>3
      <2>5. ~MatchesTree(q[1], Essential)
            BY <1>3, <1>6
      <2>6. ~MatchesTree(query'[s].question[1], Essential)
            BY <1>4, <2>5
      <2>7. QED BY <1>5, <2>1, <2>4, <2>6 DEF FixedOK
<1>7. CASE ~Blocked(q[1])
      <2>1. \/ query'[s].reply = NoReply
            \/ query'[s].reply = Answer("cached", q, cache[q].ttl, cache[q].sent)
            BY <1>1, <1>7 DEF Receive, Resolve, Arrived, Written
      <2>2. NoReply.kind = "none" /\ Sinkholed.kind = "sinkhole"
            BY DEF NoReply, Sinkholed
      <2>3. Answer("cached", q, cache[q].ttl, cache[q].sent).kind = "cached"
            BY DEF Answer
      <2>4. query'[s].reply # Sinkholed
            BY <2>1, <2>2, <2>3
      <2>5. ~(~Allowlist /\ MatchesTree(q[1], Bootstrap))
            BY <1>3, <1>7
      <2>6. ~(~Allowlist /\ MatchesTree(query'[s].question[1], Bootstrap))
            BY <1>4, <2>5
      <2>7. QED BY <1>5, <2>4, <2>6 DEF FixedOK
<1>8. QED BY <1>6, <1>7

LEMMA WaitEndsFixed ==
    ASSUME FixedInv, NEW s \in Slots,
           \/ \E ttl \in Ttls, records \in BOOLEAN : UpstreamAnswers(s, ttl, records)
           \/ UpstreamFails(s)
    PROVE  FixedOK(query'[s]) /\ \A r \in Slots \ {s} : query'[r] = query[r]
<1>1. query \in [Slots -> Query] /\ query[s].state = "waiting"
      BY DEF FixedInv, IInv, TypeOK, UpstreamAnswers, UpstreamFails
<1>2. ~(~Allowlist /\ MatchesTree(query[s].question[1], Bootstrap))
      BY <1>1 DEF FixedInv, FixedOK
<1>3. query'[s].question = query[s].question
      BY <1>1 DEF UpstreamAnswers, UpstreamFails, AskNext, GiveUp, Query
<1>4. query[s].reply # Sinkholed
      BY <1>1 DEF FixedInv, IInv, TaskOK, NoReply, Sinkholed
<1>5. query'[s].reply # Sinkholed
      <2>1. ASSUME NEW ttl \in Ttls, NEW records \in BOOLEAN, UpstreamAnswers(s, ttl, records)
            PROVE  query'[s].reply.kind = "upstream"
            BY <1>1, <2>1 DEF UpstreamAnswers, Answer, Query
      <2>2. ASSUME UpstreamFails(s)
            PROVE  query'[s].reply \in {query[s].reply, NoReply, ServFail}
            BY <1>1, <2>2 DEF UpstreamFails, AskNext, GiveUp, Written, Query
      <2>3. Sinkholed.kind = "sinkhole" /\ NoReply.kind = "none" /\ ServFail.kind = "servfail"
            BY DEF Sinkholed, NoReply, ServFail
      <2>4. QED BY <1>4, <2>1, <2>2, <2>3
<1>6. \A r \in Slots \ {s} : query'[r] = query[r]
      BY <1>1 DEF UpstreamAnswers, UpstreamFails, AskNext, GiveUp
<1>7. QED BY <1>2, <1>3, <1>5, <1>6 DEF FixedOK

LEMMA FixedInvInit == Init => FixedInv
<1> SUFFICES ASSUME Init PROVE FixedInv
    OBVIOUS
<1>1. \A s \in Slots : query[s].state = "idle" /\ query[s].reply = NoReply
      BY DEF Init
<1>2. NoReply # Sinkholed
      BY DEF NoReply, Sinkholed
<1>3. blocked = Bootstrap
      BY DEF Init
<1>4. QED BY <1>1, <1>2, <1>3, InitIInv DEF FixedInv, FixedOK

LEMMA FixedInvNext == FixedInv /\ [Next]_vars => FixedInv'
<1> SUFFICES ASSUME FixedInv, [Next]_vars PROVE FixedInv'
    OBVIOUS
<1>1. IInv'
      BY NextIInv DEF FixedInv
<1>2. Bootstrap \subseteq blocked'
      BY DEF FixedInv, Next, vars, Receive, UpstreamAnswers, UpstreamFails,
             SetBlockedDomains, Restart, PassTime, Rules
<1>3. ASSUME NEW s \in Slots, query'[s] # query[s]
      PROVE  FixedOK(query'[s])
      <2>1. ASSUME NEW r \in Slots, NEW q \in Questions, Receive(r, q)
            PROVE  FixedOK(query'[s])
            BY <1>3, <2>1, ReceiveFixed
      <2>2. ASSUME NEW r \in Slots,
                   \/ \E ttl \in Ttls, records \in BOOLEAN : UpstreamAnswers(r, ttl, records)
                   \/ UpstreamFails(r)
            PROVE  FixedOK(query'[s])
            BY <1>3, <2>2, WaitEndsFixed
      <2>3. ASSUME Restart PROVE FixedOK(query'[s])
            <3>1. /\ query'[s].state = "idle" /\ query'[s].reply = NoReply
                  /\ query'[s].question = query[s].question
                  BY <1>3, <2>3, RestartedTask DEF FixedInv
            <3>2. NoReply # Sinkholed
                  BY DEF NoReply, Sinkholed
            <3>3. QED BY <3>1, <3>2 DEF FixedOK
      <2>4. QED BY <1>3, <2>1, <2>2, <2>3 DEF Next, vars, SetBlockedDomains, PassTime
<1>4. \A s \in Slots : FixedOK(query'[s])
      BY <1>3 DEF FixedInv
<1>5. QED BY <1>1, <1>2, <1>4 DEF FixedInv, FixedOK

THEOREM FixedInvariance == Spec => []FixedInv
BY FixedInvInit, FixedInvNext, PTL DEF Spec

\* No change of the rules lets a DoH bootstrap name through to the cache or an
\* upstream server (set_blocked_domains keeps the names, _matches_tree finds
\* them, and no essential name stands above or below one).
THEOREM BootstrapStaysBlocked == Spec => []BootstrapNeverResolved
<1>1. FixedInv => BootstrapNeverResolved
      BY DEF FixedInv, FixedOK, BootstrapNeverResolved
<1>2. QED BY <1>1, FixedInvariance, PTL

\* No set of rules and no mode makes an essential name a sinkhole address.
THEOREM EssentialStaysReachable == Spec => []EssentialNeverSunk
<1>1. FixedInv => EssentialNeverSunk
      BY DEF FixedInv, FixedOK, EssentialNeverSunk
<1>2. QED BY <1>1, FixedInvariance, PTL
=============================================================================
