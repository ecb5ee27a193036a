------------------------------ MODULE LogStore ------------------------------
(***************************************************************************)
(* storage/log_store.py: the tables of flows and of events in SQLite, with *)
(* the daemon's callbacks that write them.  A row is inserted and the      *)
(* oldest rows are trimmed in one transaction, which commits or fails as a *)
(* whole (a full card, a locked file, the death of the process).           *)
(*                                                                         *)
(* Flow rows carry the id of the locked session, so the session, its       *)
(* document and the blocklist are here too, narrowed from PolicyEngine:    *)
(* permanent rules do not change, and a query is blocked if its domain is  *)
(* one of the rules in force (DomainSinkhole has how names match them, and *)
(* which names no rule blocks).  Session ids count the sessions started.   *)
(* Time stamps, query types, reasons and details are left out, and so is   *)
(* clear, which the daemon never calls.                                    *)
(***************************************************************************)
EXTENDS SessionManager, Sequences, FiniteSets

CONSTANTS
    Clients,        \* addresses that send queries
    Permanent,      \* the domains blocked for good
    MaxEvents,      \* max_entries
    MaxFlowRows,    \* max_flows
    MaxListed,      \* LIMIT of the breakdown by client: 10
    Durations,      \* the lengths a session may have
    Horizon,        \* bound: the clock's last value
    MaxSessions,    \* bound: sessions started
    MaxQueries,     \* bound: flow rows inserted
    MaxFaults       \* bound: failed writes, crashes and clock set-backs

ASSUME LogAssumption ==
    /\ Permanent \subseteq Domains
    /\ MaxEvents \in Nat \ {0}
    /\ MaxFlowRows \in Nat \ {0}
    /\ MaxListed \in Nat \ {0}
    /\ Durations \subseteq Nat \ {0}
    /\ Horizon \in Nat

VARIABLES
    up, clock, session, disk, faults,   \* as in PolicyEngine
    sid,            \* session_id of the session in memory
    inForce,        \* the sinkhole's blocklist
    flowLog,        \* the flows table
    eventLog,       \* the events table
    started,        \* history: the domains of each session started
    granted         \* history: the confirmed session before its deadline

sessionVars == <<session, sid, inForce, disk>>
vars == <<up, clock, faults, sessionVars, flowLog, eventLog, started, granted>>

NoSession == 0

-----------------------------------------------------------------------------
(* The tables.  AUTOINCREMENT never gives an id twice: `last` is the newest. *)

EmptyTable == [last |-> 0, rows |-> << >>]

\* Mutant: the newest rows go.
Trim_Newest(rows, max) == IF Len(rows) > max THEN SubSeq(rows, 1, max) ELSE rows

\* DELETE ... ORDER BY id DESC LIMIT -1 OFFSET max
Trim(rows, max) ==
    IF Len(rows) > max THEN SubSeq(rows, Len(rows) - max + 1, Len(rows)) ELSE rows

Insert(table, row, max) ==
    [last |-> table.last + 1,
     rows |-> Trim(Append(table.rows, [id |-> table.last + 1, row |-> row]), max)]

\* record
Record(category, about) ==
    eventLog' = Insert(eventLog, [category |-> category, about |-> about], MaxEvents)

\* get_stats: the counts of the rows of one session, or of all rows, and a
\* breakdown by client that lists the busiest, MaxListed of them at most.  Which
\* of several that are equally busy it lists is not determined.
Stats(scope) ==
    LET counted == {i \in DOMAIN flowLog.rows :
                        scope = NoSession \/ flowLog.rows[i].row.session = scope}
        Count(S) == Cardinality(S)
        By(c) == {i \in counted : flowLog.rows[i].row.client = c}
        Blocked(S) == {i \in S : flowLog.rows[i].row.action = "BLOCKED"}
        seen == {c \in Clients : By(c) # {}}
        listings == {L \in SUBSET seen :
                        /\ Count(L) <= MaxListed
                        /\ Count(L) = MaxListed \/ L = seen
                        /\ \A c \in L, other \in seen \ L : Count(By(c)) >= Count(By(other))}
    IN [total |-> Count(counted),
        blocked |-> Count(Blocked(counted)),
        allowed |-> Count(counted \ Blocked(counted)),
        devices |-> Count(seen),
        breakdowns |-> {[c \in L |-> [total |-> Count(By(c)), blocked |-> Count(Blocked(By(c)))]] :
                            L \in listings}]

\* The request for statistics "of the session": without a lock, of everything.
Scope(sessionScoped) == IF sessionScoped /\ IsLocked(session) THEN sid ELSE NoSession

-----------------------------------------------------------------------------
(* The daemon *)

Outcomes == {"done", "save_failed", "log_failed"}

Faulty(n) == faults + n <= MaxFaults /\ faults' = faults + n

Document(s, id) == [session |-> s, sid |-> id]

\* Save, then record: what fails ends the request with an error.
SaveThenRecord(outcome, category, about) ==
    /\ disk' = IF outcome = "save_failed" THEN disk ELSE Document(session', sid')
    /\ IF outcome = "done" THEN Record(category, about) ELSE UNCHANGED eventLog
    /\ Faulty(IF outcome = "done" THEN 0 ELSE 1)

\* Mutant: the save comes before the refresh, which it may prevent.
Start_SavesFirst(domains, duration, outcome) ==
    /\ up /\ ~Refuses(session, clock)
    /\ clock + duration <= Horizon /\ Len(started) < MaxSessions
    /\ session' = NewSession(clock, clock + duration, domains, {})
    /\ sid' = Len(started) + 1
    /\ started' = Append(started, domains)
    /\ inForce' = IF outcome = "save_failed" THEN inForce ELSE domains \union Permanent
    /\ SaveThenRecord(outcome, "start_locked_session", sid')
    /\ granted' = IF outcome = "done"
                  THEN {[sid |-> sid', expires |-> clock + duration]} ELSE granted
    /\ UNCHANGED <<up, clock, flowLog>>

\* start_focus_session
Start(domains, duration, outcome) ==
    /\ up /\ ~Refuses(session, clock)
    /\ clock + duration <= Horizon /\ Len(started) < MaxSessions
    /\ session' = NewSession(clock, clock + duration, domains, {})
    /\ sid' = Len(started) + 1
    /\ started' = Append(started, domains)
    /\ inForce' = domains \union Permanent
    /\ SaveThenRecord(outcome, "start_locked_session", sid')
    /\ granted' = IF outcome = "done"
                  THEN {[sid |-> sid', expires |-> clock + duration]} ELSE granted
    /\ UNCHANGED <<up, clock, flowLog>>

\* Any other guarded request: it may only mark a lapsed session.
Guarded ==
    /\ up /\ ~Refuses(session, clock)
    /\ session' = AssertNotLocked(session, clock)
    /\ UNCHANGED <<up, clock, faults, sid, inForce, disk, flowLog, eventLog, started, granted>>

\* Mutant: the end is recorded before it is saved.
Tick_RecordsFirst(outcome) ==
    /\ up /\ HasExpired(session, clock)
    /\ session' = IdleSession
    /\ sid' = NoSession
    /\ inForce' = Permanent
    /\ IF outcome = "log_failed" THEN UNCHANGED eventLog ELSE Record("ended", sid)
    /\ disk' = IF outcome = "done" THEN Document(session', sid') ELSE disk
    /\ Faulty(IF outcome = "done" THEN 0 ELSE 1)
    /\ UNCHANGED <<up, clock, flowLog, started, granted>>

Tick(outcome) ==
    /\ up /\ HasExpired(session, clock)
    /\ session' = IdleSession
    /\ sid' = NoSession
    /\ inForce' = Permanent
    /\ SaveThenRecord(outcome, "ended", sid)
    /\ UNCHANGED <<up, clock, flowLog, started, granted>>

\* handle_query up to its reply or its wait: the flow, and for a blocked query
\* the event.  Each write may fail, and the query goes on.
Query(client, domain, written) ==
    LET blocked == domain \in inForce
        row == [client |-> client, domain |-> domain,
                action |-> IF blocked THEN "BLOCKED" ELSE "ALLOWED",
                session |-> IF IsLocked(session) THEN sid ELSE NoSession,
                owed |-> {g.sid : g \in granted}]
    IN /\ up
       /\ flowLog.last < MaxQueries
       /\ ~blocked => "event" \in written
       /\ Faulty(2 - Cardinality(written))
       /\ flowLog' = IF "flow" \in written THEN Insert(flowLog, row, MaxFlowRows) ELSE flowLog
       /\ IF blocked /\ "event" \in written THEN Record("dns_block", NoSession)
                                            ELSE UNCHANGED eventLog
       /\ UNCHANGED <<up, clock, sessionVars, started, granted>>

Crash ==
    /\ up
    /\ Faulty(1)
    /\ up' = FALSE
    /\ session' = IdleSession /\ sid' = NoSession /\ inForce' = {}
    /\ UNCHANGED <<clock, disk, flowLog, eventLog, started, granted>>

\* Mutant: a session that is resumed gets an id of its own.
Boot_FreshId ==
    /\ ~up
    /\ up' = TRUE
    /\ session' = IF HasExpired(disk.session, clock) THEN IdleSession ELSE disk.session
    /\ sid' = IF IsLocked(session') THEN Len(started) + 1 ELSE NoSession
    /\ inForce' = Permanent \union session'.domains
    /\ disk' = Document(session', sid')
    /\ IF IsLocked(disk.session)
       THEN Record(IF IsLocked(session') THEN "resumed" ELSE "ended", disk.sid)
       ELSE UNCHANGED eventLog
    /\ started' = IF IsLocked(session') THEN Append(started, session'.domains) ELSE started
    /\ UNCHANGED <<clock, faults, flowLog, granted>>

\* __init__ on the document: an expired session is released and told of, a
\* running one resumed.
Boot ==
    /\ ~up
    /\ up' = TRUE
    /\ session' = IF HasExpired(disk.session, clock) THEN IdleSession ELSE disk.session
    /\ sid' = IF HasExpired(disk.session, clock) THEN NoSession ELSE disk.sid
    /\ inForce' = Permanent \union (IF IsLocked(session') THEN session'.domains ELSE {})
    /\ disk' = Document(session', sid')
    /\ IF IsLocked(disk.session)
       THEN Record(IF IsLocked(session') THEN "resumed" ELSE "ended", disk.sid)
       ELSE UNCHANGED eventLog
    /\ UNCHANGED <<clock, faults, flowLog, started, granted>>

\* __init__ fails to write its event: the daemon does not come up.
AbortedBoot ==
    /\ ~up /\ IsLocked(disk.session)
    /\ Faulty(1)
    /\ disk' = IF HasExpired(disk.session, clock) THEN Document(IdleSession, NoSession) ELSE disk
    /\ UNCHANGED <<up, clock, session, sid, inForce, flowLog, eventLog, started, granted>>

SetClock(n) ==
    /\ n \in 0..Horizon
    /\ IF n > clock THEN UNCHANGED faults ELSE n < clock /\ Faulty(1)
    /\ clock' = n
    /\ granted' = {g \in granted : n < g.expires}
    /\ UNCHANGED <<up, sessionVars, flowLog, eventLog, started>>

Init ==
    /\ up = TRUE
    /\ clock = 0
    /\ faults = 0
    /\ session = IdleSession
    /\ sid = NoSession
    /\ inForce = Permanent
    /\ disk = Document(IdleSession, NoSession)
    /\ flowLog = EmptyTable
    /\ eventLog = EmptyTable
    /\ started = << >>
    /\ granted = {}

Next ==
    \/ \E ds \in (SUBSET Domains) \ {{}}, d \in Durations, o \in Outcomes : Start(ds, d, o)
    \/ Guarded
    \/ \E o \in Outcomes : Tick(o)
    \/ \E c \in Clients, d \in Domains, w \in SUBSET {"flow", "event"} : Query(c, d, w)
    \/ Crash \/ Boot \/ AbortedBoot
    \/ \E n \in 0..Horizon : SetClock(n)

Spec == Init /\ [][Next]_vars

-----------------------------------------------------------------------------
(* Properties *)

\* After any failures and restarts each table holds the newest of the rows ever
\* committed, without a gap, up to its limit.
NewestRowsKept ==
    LET Newest(table, max) ==
            /\ Len(table.rows) = (IF table.last < max THEN table.last ELSE max)
            /\ \A i \in DOMAIN table.rows :
                   table.rows[i].id = table.last - Len(table.rows) + i
    IN Newest(flowLog, MaxFlowRows) /\ Newest(eventLog, MaxEvents)

\* The kept rows of a client's queries while a confirmed session was under way.
Owed(g, c) == {i \in DOMAIN flowLog.rows :
                  /\ g.sid \in flowLog.rows[i].row.owed
                  /\ flowLog.rows[i].row.client = c}

\* The statistics of a running confirmed session count every query kept in the
\* log that was sent since its start, those before a crash, a restart or a
\* clock set-back included: in all, and for each client that the breakdown
\* lists.  It leaves a client out only where it is full of others as busy.
SessionQueriesCounted ==
    \A g \in granted : up =>
        LET stats == Stats(Scope(TRUE))
        IN /\ Cardinality(UNION {Owed(g, c) : c \in Clients}) <= stats.total
           /\ \A b \in stats.breakdowns, c \in Clients :
                  IF c \in DOMAIN b
                  THEN Cardinality(Owed(g, c)) <= b[c].total
                  ELSE Owed(g, c) # {} =>
                         /\ Cardinality(DOMAIN b) = MaxListed
                         /\ \A l \in DOMAIN b : Cardinality(Owed(g, c)) <= b[l].total

\* A query logged under a session was blocked exactly if the rules or that
\* session name its domain: the lock and the blocklist change together, also
\* when a start fails half-way.
SessionRowsMatchRules ==
    \A i \in DOMAIN flowLog.rows :
        LET row == flowLog.rows[i].row
        IN row.session # NoSession =>
             (row.action = "BLOCKED" <=> row.domain \in Permanent \union started[row.session])

\* The audit log tells the end of a session at most once: what it has told is
\* saved already, so no failed save, crash or set-back makes it end again.
EndToldOnce ==
    \A i, j \in DOMAIN eventLog.rows :
        LET a == eventLog.rows[i].row
            b == eventLog.rows[j].row
        IN a.category = "ended" /\ b.category = "ended" /\ a.about = b.about => i = j

\* The session, narrowed as it is here, keeps the same promise as the engine's,
\* also where a write to the log, after a save that worked, fails the request
\* or the start of the daemon.
Promise == INSTANCE FocusPromise WITH
    promised <- {[expires |-> g.expires, domains |-> started[g.sid]] : g \in granted},
    serving <- up, blocked <- inForce
PromiseKept == Promise!Spec
=============================================================================
