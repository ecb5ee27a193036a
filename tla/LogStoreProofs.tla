--------------------------- MODULE LogStoreProofs ---------------------------
(***************************************************************************)
(* Theorems about LogStore, for any clients, domains, limits, durations,   *)
(* clock steps and number of sessions, queries and faults.                 *)
(***************************************************************************)
EXTENDS LogStore, SequenceTheorems, FiniteSetTheorems, TLAPS

-----------------------------------------------------------------------------
(* A table *)

\* The table holds its newest rows, without a gap.
HoldsNewest(table, max) ==
    /\ Len(table.rows) = (IF table.last < max THEN table.last ELSE max)
    /\ \A i \in DOMAIN table.rows :
           table.rows[i].id = table.last - Len(table.rows) + i

Table(S, max) ==
    {t \in [last : Nat, rows : Seq(S)] : HoldsNewest(t, max)}

\* The table `new` is the table `old` with one more row, and at most its
\* oldest row dropped.
Extended(new, old, row, S, max) ==
    LET n == Len(new.rows)
    IN /\ new \in Table(S, max)
       /\ n \in Nat \ {0}
       /\ new.rows[n].row = row
       /\ \E d \in {0, 1} : \A i \in 1..(n - 1) :
              i + d \in DOMAIN old.rows /\ new.rows[i] = old.rows[i + d]

\* An insertion appends the new row and drops at most the oldest one.
LEMMA InsertFacts ==
    ASSUME NEW S, NEW max \in Nat \ {0}, NEW table \in Table(S, max), NEW row,
           [id |-> table.last + 1, row |-> row] \in S
    PROVE  Extended(Insert(table, row, max), table, row, S, max)
<1> DEFINE m == Len(table.rows)
           entry == [id |-> table.last + 1, row |-> row]
           longer == Append(table.rows, entry)
           new == Insert(table, row, max)
<1>1. /\ table.rows \in Seq(S) /\ table.last \in Nat /\ m \in Nat
      /\ m = (IF table.last < max THEN table.last ELSE max)
      /\ \A i \in 1..m : table.rows[i].id = table.last - m + i
      /\ DOMAIN table.rows = 1..m
    BY DEF Table, HoldsNewest
<1>2. /\ longer \in Seq(S) /\ Len(longer) = m + 1 /\ longer[m + 1] = entry
      /\ \A i \in 1..m : longer[i] = table.rows[i]
    BY <1>1
<1>3. new.last = table.last + 1 /\ new.rows = Trim(longer, max)
    BY DEF Insert
<1>5. entry.row = row /\ entry.id = table.last + 1
    OBVIOUS
<1> HIDE DEF entry, longer, m, new
<1>4. \A i \in 1..(m + 1) : longer[i].id = table.last - m + i
    <2>1. SUFFICES ASSUME NEW i \in 1..(m + 1)
                   PROVE  longer[i].id = table.last - m + i
        OBVIOUS
    <2>2. CASE i = m + 1
        <3>1. longer[i].id = table.last + 1
            BY <1>2, <1>5, <2>2
        <3> QED BY <1>1, <2>2, <3>1
    <2>3. CASE i \in 1..m
        <3>1. longer[i].id = table.rows[i].id
            BY <1>2, <2>3
        <3> QED BY <1>1, <2>3, <3>1
    <2> QED BY <1>1, <2>2, <2>3
<1>8. table.last \in Nat /\ m \in Nat /\ max \in Nat
    BY <1>1
<1>6. CASE m + 1 > max
    <2>1. m = max /\ table.last >= max
        BY <1>1, <1>6
    <2>2. new.rows = SubSeq(longer, 2, m + 1)
        <3>1. Len(longer) > max /\ Len(longer) - max + 1 = 2
            BY <1>1, <1>2, <1>6, <2>1
        <3> QED BY <1>2, <1>3, <3>1 DEF Trim
    <2>3. /\ new.rows \in Seq(S) /\ Len(new.rows) = m
          /\ \A i \in 1..m : new.rows[i] = longer[i + 1]
        BY <1>1, <1>2, <2>2
    <2>4. \A i \in 1..m : new.rows[i].id = table.last + 1 - m + i
        <3>1. SUFFICES ASSUME NEW i \in 1..m
                       PROVE  new.rows[i].id = table.last + 1 - m + i
            OBVIOUS
        <3>2. i + 1 \in 1..(m + 1) /\ i \in Int
            BY <1>8
        <3>3. longer[i + 1].id = table.last - m + (i + 1)
            BY <1>4, <3>2
        <3>4. new.rows[i].id = longer[i + 1].id
            BY <2>3
        <3>5. table.last - m + (i + 1) = table.last + 1 - m + i
            BY <1>8, <3>2
        <3> QED BY <3>3, <3>4, <3>5
    <2>5. DOMAIN new.rows = 1..m
        BY <2>3
    <2>6. HoldsNewest(new, max)
        <3>1. \A i \in DOMAIN new.rows : new.rows[i].id = new.last - Len(new.rows) + i
            <4>1. SUFFICES ASSUME NEW i \in 1..m
                           PROVE  new.rows[i].id = new.last - Len(new.rows) + i
                BY <2>5
            <4>2. new.rows[i].id = table.last + 1 - m + i
                BY <2>4
            <4>3. new.last - Len(new.rows) + i = table.last + 1 - m + i
                <5>1. new.last = table.last + 1 /\ Len(new.rows) = m
                    BY <1>3, <2>3
                <5> QED BY <1>8, <5>1
            <4> QED BY <4>2, <4>3
        <3>2. Len(new.rows) = (IF new.last < max THEN new.last ELSE max)
            BY <1>1, <1>3, <2>1, <2>3
        <3> QED BY <3>1, <3>2 DEF HoldsNewest
    <2>7. new \in [last : Nat, rows : Seq(S)]
        BY <1>1, <1>3, <2>3 DEF Insert, new
    <2>8. new.rows[m].row = row /\ m \in Nat \ {0}
        <3>1. m \in Nat \ {0} /\ m \in 1..m
            BY <1>1, <2>1
        <3>2. new.rows[m] = longer[m + 1]
            BY <2>3, <3>1
        <3> QED BY <1>2, <1>5, <3>1, <3>2
    <2>9. \A i \in 1..(m - 1) : i + 1 \in DOMAIN table.rows /\ new.rows[i] = table.rows[i + 1]
        <3>1. SUFFICES ASSUME NEW i \in 1..(m - 1)
                       PROVE  i + 1 \in DOMAIN table.rows /\ new.rows[i] = table.rows[i + 1]
            OBVIOUS
        <3>2. i \in 1..m /\ i + 1 \in 1..m
            BY <1>8
        <3> QED BY <1>1, <1>2, <2>3, <3>2
    <2>10. new \in Table(S, max)
        BY <2>6, <2>7 DEF Table
    <2> QED BY <2>3, <2>8, <2>9, <2>10 DEF new, Extended
<1>7. CASE ~(m + 1 > max)
    <2>1. m = table.last
        BY <1>1, <1>7
    <2>2. new.rows = longer
        BY <1>2, <1>3, <1>7 DEF Trim
    <2>3. DOMAIN new.rows = 1..(m + 1)
        BY <1>2, <2>2
    <2>4. \A i \in 1..(m + 1) : new.rows[i].id = new.last - (m + 1) + i
        BY <1>1, <1>3, <1>4, <2>1, <2>2
    <2>5. HoldsNewest(new, max)
        BY <1>1, <1>2, <1>3, <1>7, <2>1, <2>2, <2>3, <2>4 DEF HoldsNewest
    <2>6. new \in [last : Nat, rows : Seq(S)]
        BY <1>1, <1>2, <1>3, <2>2 DEF Insert, new
    <2>7. \A i \in 1..m : i + 0 \in DOMAIN table.rows /\ new.rows[i] = table.rows[i + 0]
        BY <1>1, <1>2, <2>2
    <2>8. Len(new.rows) = m + 1 /\ new.rows[m + 1].row = row /\ m + 1 \in Nat \ {0} /\ (m + 1) - 1 = m
        BY <1>1, <1>2, <1>5, <2>2
    <2>9. new \in Table(S, max)
        BY <2>5, <2>6 DEF Table
    <2> QED BY <2>7, <2>8, <2>9 DEF new, Extended
<1> QED BY <1>1, <1>6, <1>7

-----------------------------------------------------------------------------
(* The invariant *)

FlowRow ==
    [id : Nat,
     row : [client : Clients, domain : Domains, action : {"BLOCKED", "ALLOWED"},
            session : Nat, owed : SUBSET Nat]]

Categories == {"start_locked_session", "resumed", "dns_block", "ended"}

EventRow == [id : Nat, row : [category : Categories, about : Nat]]

Ids == 1..Len(started)

\* A locked session was started once, under its id and with its domains.
Known(s, id) ==
    IsLocked(s) =>
        /\ id \in Ids
        /\ s.domains = started[id]
        /\ s.expires \in Int

SessionInv ==
    /\ up \in BOOLEAN
    /\ clock \in Int
    /\ sid \in Nat /\ disk.sid \in Nat
    /\ started \in Seq(SUBSET Domains)
    /\ Known(session, sid) /\ Known(disk.session, disk.sid)
    /\ IsLocked(session) => inForce = Permanent \union started[sid]

\* A confirmed session is on disk until its deadline, and in memory whenever
\* the daemon runs.
GrantInv ==
    \A g \in granted :
        /\ g.expires \in Int /\ clock < g.expires
        /\ IsLocked(disk.session) /\ disk.sid = g.sid /\ disk.session.expires = g.expires
        /\ up => IsLocked(session) /\ sid = g.sid /\ session.expires = g.expires

TableInv ==
    /\ flowLog \in Table(FlowRow, MaxFlowRows)
    /\ eventLog \in Table(EventRow, MaxEvents)

\* A row of a session has its rules; what counts for a confirmed session has
\* its id.
RowOK(row, begun) ==
    /\ row.session # NoSession =>
          /\ row.session \in 1..Len(begun)
          /\ row.action = "BLOCKED" <=> row.domain \in Permanent \union begun[row.session]
    /\ \A x \in row.owed : x \in 1..Len(begun) /\ row.session = x

RowsInv == \A i \in DOMAIN flowLog.rows : RowOK(flowLog.rows[i].row, started)

\* An end that was told is the end of a session that is locked nowhere.
Over(id) ==
    /\ id \in Ids
    /\ IsLocked(session) => sid # id
    /\ IsLocked(disk.session) => disk.sid # id

EndsInv ==
    /\ \A i \in DOMAIN eventLog.rows :
           eventLog.rows[i].row.category = "ended" => Over(eventLog.rows[i].row.about)
    /\ EndToldOnce

Inv == SessionInv /\ GrantInv /\ TableInv /\ RowsInv /\ EndsInv

-----------------------------------------------------------------------------
(* Sessions *)

\* The idle session is not locked.
LEMMA IdleIsFree == ~IsLocked(IdleSession)
BY DEF IsLocked, IdleSession

\* A request that is not refused finds no confirmed session.
LEMMA NothingGranted ==
    ASSUME SessionInv, GrantInv, up,
           ~Refuses(session, clock) \/ HasExpired(session, clock)
    PROVE  granted = {}
<1> SUFFICES ASSUME NEW g \in granted PROVE FALSE
    OBVIOUS
<1>1. /\ IsLocked(session) /\ session.expires \in Int /\ clock \in Int
      /\ clock < session.expires
    BY DEF SessionInv, GrantInv, Known
<1>2. ~HasExpired(session, clock)
    BY <1>1 DEF HasExpired
<1>3. RemainingSeconds(session, clock) > 0
    BY <1>1 DEF RemainingSeconds
<1> QED BY <1>1, <1>2, <1>3 DEF Refuses

\* A session that no check has seen yet is only marked.
LEMMA MarkedSession ==
    AssertNotLocked(session, clock) = session \/ ~IsLocked(AssertNotLocked(session, clock))
BY DEF AssertNotLocked, CheckExpiration, HasExpired, IsLocked

\* The sessions started stay, and one more has the next id.
LEMMA OneMoreStarted ==
    ASSUME SessionInv, NEW ds \in SUBSET Domains, started' = Append(started, ds)
    PROVE  /\ started' \in Seq(SUBSET Domains)
           /\ Len(started) \in Nat /\ Len(started') = Len(started) + 1
           /\ started'[Len(started) + 1] = ds
           /\ \A i \in Ids : i \in Ids' /\ started'[i] = started[i]
           /\ Len(started) + 1 \in Ids' \ Ids
BY DEF SessionInv, Ids

\* What start_focus_session makes of session and document.
LEMMA StartFacts ==
    ASSUME Inv, NEW ds \in SUBSET Domains, NEW d \in Durations, NEW o, Start(ds, d, o)
    PROVE  /\ up /\ up' = up /\ clock' = clock /\ flowLog' = flowLog
           /\ started' = Append(started, ds)
           /\ granted = {}
           /\ IsLocked(session') /\ session'.domains = ds
           /\ session'.expires = clock + d /\ d \in Nat \ {0}
           /\ sid' = Len(started) + 1
           /\ inForce' = ds \union Permanent
           /\ \/ disk' = disk /\ granted' = {}
              \/ /\ disk'.session = session' /\ disk'.sid = sid'
                 /\ granted' \subseteq {[sid |-> sid', expires |-> clock + d]}
           /\ eventLog' = eventLog
              \/ eventLog' = Insert(eventLog, [category |-> "start_locked_session", about |-> sid'],
                                    MaxEvents)
<1>1. granted = {}
    BY NothingGranted DEF Inv, Start
<1>2. /\ up /\ up' = up /\ clock' = clock /\ flowLog' = flowLog
      /\ started' = Append(started, ds)
      /\ sid' = Len(started) + 1
      /\ inForce' = ds \union Permanent
      /\ session' = NewSession(clock, clock + d, ds, {})
    BY DEF Start
<1>3. IsLocked(session') /\ session'.domains = ds /\ session'.expires = clock + d
    BY <1>2 DEF IsLocked, NewSession
<1>4. disk' = disk \/ (disk'.session = session' /\ disk'.sid = sid')
    BY DEF Start, SaveThenRecord, Document
<1>5. \/ o = "save_failed" /\ disk' = disk
      \/ o # "save_failed" /\ disk'.session = session' /\ disk'.sid = sid'
    BY DEF Start, SaveThenRecord, Document
<1>6. \/ o = "done" /\ granted' = {[sid |-> sid', expires |-> clock + d]}
      \/ o # "done" /\ granted' = {}
    BY <1>1 DEF Start
<1>7. eventLog' = eventLog
        \/ eventLog' = Insert(eventLog, [category |-> "start_locked_session", about |-> sid'],
                              MaxEvents)
    BY DEF Start, SaveThenRecord, Record
<1>8. d \in Nat \ {0}
    BY LogAssumption
<1>9. \/ disk' = disk /\ granted' = {}
      \/ /\ disk'.session = session' /\ disk'.sid = sid'
         /\ granted' \subseteq {[sid |-> sid', expires |-> clock + d]}
    BY <1>5, <1>6
<1> QED BY <1>1, <1>2, <1>3, <1>7, <1>8, <1>9

\* What the heartbeat makes of them.
LEMMA TickFacts ==
    ASSUME Inv, NEW o, Tick(o)
    PROVE  /\ up /\ up' = up /\ clock' = clock /\ flowLog' = flowLog
           /\ started' = started /\ granted = {} /\ granted' = {}
           /\ IsLocked(session) /\ ~IsLocked(session') /\ sid' = NoSession
           /\ \/ disk' = disk /\ eventLog' = eventLog
              \/ /\ ~IsLocked(disk'.session) /\ disk'.sid = NoSession
                 /\ \/ eventLog' = eventLog
                    \/ eventLog' = Insert(eventLog, [category |-> "ended", about |-> sid],
                                          MaxEvents)
<1>1. granted = {}
    BY NothingGranted DEF Inv, Tick
<1>2. /\ up /\ up' = up /\ clock' = clock /\ flowLog' = flowLog
      /\ started' = started /\ granted' = granted
      /\ session' = IdleSession /\ sid' = NoSession /\ IsLocked(session)
    BY DEF Tick, HasExpired
<1>3. \/ o = "save_failed" /\ disk' = disk
      \/ o # "save_failed" /\ disk'.session = session' /\ disk'.sid = sid'
    BY DEF Tick, SaveThenRecord, Document
<1>4. \/ o = "done" /\ eventLog' = Insert(eventLog, [category |-> "ended", about |-> sid], MaxEvents)
      \/ o # "done" /\ eventLog' = eventLog
    BY DEF Tick, SaveThenRecord, Record
<1>5. ~IsLocked(session')
    BY <1>2, IdleIsFree
<1>6. \/ disk' = disk /\ eventLog' = eventLog
      \/ /\ ~IsLocked(disk'.session) /\ disk'.sid = NoSession
         /\ \/ eventLog' = eventLog
            \/ eventLog' = Insert(eventLog, [category |-> "ended", about |-> sid], MaxEvents)
    BY <1>2, <1>3, <1>4, <1>5
<1> QED BY <1>1, <1>2, <1>5, <1>6

\* What a start of the daemon makes of them.
LEMMA BootFacts ==
    ASSUME Inv, Boot
    PROVE  /\ ~up /\ up' = TRUE /\ clock' = clock /\ flowLog' = flowLog
           /\ started' = started /\ granted' = granted
           /\ disk'.session = session' /\ disk'.sid = sid'
           /\ \/ /\ HasExpired(disk.session, clock)
                 /\ ~IsLocked(session') /\ sid' = NoSession
                 /\ eventLog' = Insert(eventLog, [category |-> "ended", about |-> disk.sid],
                                       MaxEvents)
              \/ /\ ~HasExpired(disk.session, clock)
                 /\ session' = disk.session /\ sid' = disk.sid
                 /\ IsLocked(session') => inForce' = Permanent \union session'.domains
                 /\ \/ eventLog' = eventLog
                    \/ eventLog' = Insert(eventLog, [category |-> "resumed", about |-> disk.sid],
                                          MaxEvents)
<1>1. /\ ~up /\ up' = TRUE /\ clock' = clock /\ flowLog' = flowLog
      /\ started' = started /\ granted' = granted
    BY DEF Boot
<1>2. disk'.session = session' /\ disk'.sid = sid'
    BY DEF Boot, Document
<1>3. CASE HasExpired(disk.session, clock)
    <2>1. session' = IdleSession /\ sid' = NoSession
        BY <1>3 DEF Boot
    <2>2. ~IsLocked(session') /\ IsLocked(disk.session)
        BY <1>3, <2>1, IdleIsFree DEF HasExpired
    <2>3. eventLog' = Insert(eventLog, [category |-> "ended", about |-> disk.sid], MaxEvents)
        BY <2>2 DEF Boot, Record
    <2> QED BY <1>1, <1>2, <1>3, <2>1, <2>2, <2>3
<1>4. CASE ~HasExpired(disk.session, clock)
    <2>1. session' = disk.session /\ sid' = disk.sid
        BY <1>4 DEF Boot
    <2>2. IsLocked(session') => inForce' = Permanent \union session'.domains
        BY DEF Boot
    <2>3. \/ eventLog' = eventLog
          \/ eventLog' = Insert(eventLog, [category |-> "resumed", about |-> disk.sid], MaxEvents)
        <3>1. CASE IsLocked(disk.session)
            <4>1. IsLocked(session')
                BY <2>1, <3>1
            <4> QED BY <3>1, <4>1 DEF Boot, Record
        <3>2. CASE ~IsLocked(disk.session)
            BY <3>2 DEF Boot
        <3> QED BY <3>1, <3>2
    <2> QED BY <1>1, <1>2, <1>4, <2>1, <2>2, <2>3
<1> QED BY <1>3, <1>4

\* A start of the daemon that fails leaves the document or releases it.
LEMMA AbortedBootFacts ==
    ASSUME AbortedBoot
    PROVE  /\ ~up
           /\ UNCHANGED <<up, clock, session, sid, inForce, flowLog, eventLog, started, granted>>
           /\ \/ HasExpired(disk.session, clock) /\ ~IsLocked(disk'.session) /\ disk'.sid = NoSession
              \/ ~HasExpired(disk.session, clock) /\ disk' = disk
<1>1. Document(IdleSession, NoSession).session = IdleSession
        /\ Document(IdleSession, NoSession).sid = NoSession
    BY DEF Document
<1> QED BY <1>1, IdleIsFree DEF AbortedBoot

-----------------------------------------------------------------------------
(* Sessions, grants *)

LEMMA SessionInit == Init => SessionInv /\ GrantInv
<1> SUFFICES ASSUME Init PROVE SessionInv /\ GrantInv
    OBVIOUS
<1>1. Document(IdleSession, NoSession).session = IdleSession
        /\ Document(IdleSession, NoSession).sid = NoSession
    BY DEF Document
<1>2. ~IsLocked(session) /\ ~IsLocked(disk.session)
    BY <1>1, IdleIsFree DEF Init
<1>3. sid \in Nat /\ disk.sid \in Nat
    BY <1>1 DEF Init, NoSession
<1>4. up \in BOOLEAN
    BY Zenon DEF Init
<1>5. clock \in Int /\ started \in Seq(SUBSET Domains) /\ granted = {}
    BY DEF Init
<1> QED BY <1>2, <1>3, <1>4, <1>5 DEF SessionInv, GrantInv, Known

\* A session that is known stays known while others are started.
LEMMA KnownStays ==
    ASSUME SessionInv, NEW ds \in SUBSET Domains,
           started' = Append(started, ds) \/ started' = started,
           NEW s, NEW id, Known(s, id)
    PROVE  IsLocked(s) =>
              id \in Ids' /\ s.domains = started'[id] /\ s.expires \in Int
<1>1. CASE started' = started
    BY <1>1 DEF Known, Ids
<1>2. CASE started' = Append(started, ds)
    BY <1>2, OneMoreStarted DEF Known
<1> QED BY <1>1, <1>2

LEMMA SessionNext == Inv /\ [Next]_vars => SessionInv' /\ GrantInv'
<1> SUFFICES ASSUME Inv, [Next]_vars PROVE SessionInv' /\ GrantInv'
    OBVIOUS
<1> USE DEF Inv
<1>1. ASSUME NEW ds \in SUBSET Domains, NEW d \in Durations, NEW o, Start(ds, d, o)
      PROVE  SessionInv' /\ GrantInv'
    <2>1. /\ up' = up /\ clock' = clock
          /\ started' = Append(started, ds)
          /\ IsLocked(session') /\ session'.domains = ds
          /\ session'.expires = clock + d /\ d \in Nat \ {0}
          /\ sid' = Len(started) + 1
          /\ inForce' = ds \union Permanent
          /\ \/ disk' = disk /\ granted' = {}
             \/ /\ disk'.session = session' /\ disk'.sid = sid'
                /\ granted' \subseteq {[sid |-> sid', expires |-> clock + d]}
        BY <1>1, StartFacts
    <2>2. /\ started' \in Seq(SUBSET Domains)
          /\ Len(started) \in Nat
          /\ started'[sid'] = ds /\ sid' \in Ids'
        BY <2>1, OneMoreStarted
    <2>3. session'.expires \in Int /\ clock \in Int /\ clock < session'.expires
        <3>1. clock \in Int
            BY DEF SessionInv
        <3> QED BY <2>1, <3>1
    <2>4. /\ IsLocked(session') => sid' \in Ids' /\ session'.domains = started'[sid']
                                      /\ session'.expires \in Int
          /\ inForce' = Permanent \union started'[sid']
        BY <2>1, <2>2, <2>3
    <2>5. IsLocked(disk'.session) => /\ disk'.sid \in Ids'
                                     /\ disk'.session.domains = started'[disk'.sid]
                                     /\ disk'.session.expires \in Int
        <3>1. CASE disk' = disk
            BY <2>1, <3>1, KnownStays DEF SessionInv
        <3>2. CASE disk'.session = session' /\ disk'.sid = sid'
            BY <2>4, <3>2
        <3> QED BY <2>1, <3>1, <3>2
    <2>6. sid' \in Nat /\ disk'.sid \in Nat
        <3>1. sid' \in Nat
            BY <2>1, <2>2
        <3> QED BY <2>1, <3>1 DEF SessionInv
    <2>7. SessionInv'
        <3>1. up' \in BOOLEAN /\ clock' \in Int
            BY <2>1 DEF SessionInv
        <3> QED BY <2>2, <2>4, <2>5, <2>6, <3>1 DEF SessionInv, Known
    <2>8. GrantInv'
        <3>1. SUFFICES ASSUME NEW g \in granted'
                       PROVE  /\ g.expires \in Int /\ clock' < g.expires
                              /\ IsLocked(disk'.session) /\ disk'.sid = g.sid
                              /\ disk'.session.expires = g.expires
                              /\ IsLocked(session') /\ sid' = g.sid
                              /\ session'.expires = g.expires
            BY DEF GrantInv
        <3>2. /\ g = [sid |-> sid', expires |-> clock + d]
              /\ disk'.session = session' /\ disk'.sid = sid'
            BY <2>1
        <3>3. g.sid = sid' /\ g.expires = session'.expires
            BY <2>1, <3>2
        <3> QED BY <2>1, <2>3, <3>2, <3>3
    <2> QED BY <2>7, <2>8
<1>2. CASE Guarded
    <2>1. granted = {} /\ granted' = {}
        BY <1>2, NothingGranted DEF Guarded
    <2>2. UNCHANGED <<up, clock, sid, inForce, disk, started>>
        BY <1>2 DEF Guarded
    <2>3. session' = session \/ ~IsLocked(session')
        BY <1>2, MarkedSession DEF Guarded
    <2> QED BY <2>1, <2>2, <2>3 DEF SessionInv, GrantInv, Known, Ids
<1>3. ASSUME NEW o, Tick(o) PROVE SessionInv' /\ GrantInv'
    <2>1. /\ up' = up /\ clock' = clock /\ started' = started /\ granted' = {}
          /\ ~IsLocked(session') /\ sid' = NoSession
          /\ disk' = disk \/ (~IsLocked(disk'.session) /\ disk'.sid = NoSession)
        BY <1>3, TickFacts
    <2>2. sid' \in Nat /\ disk'.sid \in Nat
        BY <2>1 DEF SessionInv, NoSession
    <2> QED BY <2>1, <2>2 DEF SessionInv, GrantInv, Known, Ids
<1>4. ASSUME NEW c, NEW x, NEW w, Query(c, x, w) PROVE SessionInv' /\ GrantInv'
    <2>1. UNCHANGED <<up, clock, sessionVars, started, granted>>
        BY <1>4 DEF Query
    <2> QED BY <2>1 DEF SessionInv, GrantInv, Known, Ids, sessionVars
<1>5. CASE Crash
    <2>1. /\ up' = FALSE /\ ~IsLocked(session') /\ sid' = NoSession
          /\ UNCHANGED <<clock, disk, started, granted>>
        BY <1>5, IdleIsFree DEF Crash
    <2>2. sid' \in Nat
        BY <2>1 DEF NoSession
    <2>3. up' \in BOOLEAN
        BY <2>1, Zenon
    <2> QED BY <2>1, <2>2, <2>3 DEF SessionInv, GrantInv, Known, Ids
<1>6. CASE Boot
    <2>1. /\ up' = TRUE /\ clock' = clock /\ started' = started /\ granted' = granted
          /\ disk'.session = session' /\ disk'.sid = sid'
          /\ \/ HasExpired(disk.session, clock) /\ ~IsLocked(session') /\ sid' = NoSession
             \/ /\ session' = disk.session /\ sid' = disk.sid
                /\ IsLocked(session') => inForce' = Permanent \union session'.domains
        BY <1>6, BootFacts
    <2>2. HasExpired(disk.session, clock) => granted = {}
        BY DEF HasExpired, GrantInv, SessionInv
    <2>3. sid' \in Nat /\ disk'.sid \in Nat
        BY <2>1 DEF SessionInv, NoSession
    <2>4. up' \in BOOLEAN
        BY <2>1, Zenon
    <2>5. SessionInv'
        BY <2>1, <2>3, <2>4 DEF SessionInv, Known, Ids
    <2>6. GrantInv'
        BY <2>1, <2>2 DEF GrantInv
    <2> QED BY <2>5, <2>6
<1>7. CASE AbortedBoot
    <2>1. /\ ~up
          /\ UNCHANGED <<up, clock, session, sid, inForce, started, granted>>
          /\ \/ HasExpired(disk.session, clock) /\ ~IsLocked(disk'.session) /\ disk'.sid = NoSession
             \/ disk' = disk
        BY <1>7, AbortedBootFacts
    <2>2. HasExpired(disk.session, clock) => granted = {}
        BY DEF HasExpired, GrantInv, SessionInv
    <2>3. disk'.sid \in Nat
        BY <2>1 DEF SessionInv, NoSession
    <2>4. SessionInv'
        BY <2>1, <2>3 DEF SessionInv, Known, Ids
    <2>5. GrantInv'
        BY <2>1, <2>2 DEF GrantInv
    <2> QED BY <2>4, <2>5
<1>8. ASSUME NEW n, SetClock(n) PROVE SessionInv' /\ GrantInv'
    <2>1. /\ clock' = n /\ n \in Int
          /\ granted' = {g \in granted : n < g.expires}
          /\ UNCHANGED <<up, sessionVars, started>>
        BY <1>8, LogAssumption DEF SetClock
    <2> QED BY <2>1 DEF SessionInv, GrantInv, Known, Ids, sessionVars
<1>9. CASE UNCHANGED vars
    BY <1>9 DEF vars, sessionVars, SessionInv, GrantInv, Known, Ids
<1>10. ASSUME Next PROVE SessionInv' /\ GrantInv'
    BY <1>1, <1>2, <1>3, <1>4, <1>5, <1>6, <1>7, <1>8, <1>10 DEF Next
<1> QED BY <1>9, <1>10

-----------------------------------------------------------------------------
(* The tables *)

LEMMA TableInit == Init => TableInv
<1> SUFFICES ASSUME Init PROVE TableInv
    OBVIOUS
<1>1. ASSUME NEW S, NEW max \in Nat \ {0} PROVE EmptyTable \in Table(S, max)
    <2>1. /\ EmptyTable.last = 0 /\ EmptyTable.rows = << >> /\ << >> \in Seq(S)
          /\ EmptyTable \in [last : Nat, rows : Seq(S)]
        BY DEF EmptyTable
    <2>2. Len(EmptyTable.rows) = 0 /\ DOMAIN EmptyTable.rows = {}
        BY <2>1
    <2>3. HoldsNewest(EmptyTable, max)
        BY <2>1, <2>2 DEF HoldsNewest
    <2> QED BY <2>1, <2>3 DEF Table
<1> QED BY <1>1, LogAssumption DEF Init, TableInv

\* After an insertion every row but the new one was there before.
LEMMA RowsAfter ==
    ASSUME NEW S, NEW max \in Nat \ {0}, NEW table \in Table(S, max), NEW row,
           [id |-> table.last + 1, row |-> row] \in S,
           NEW i \in DOMAIN Insert(table, row, max).rows
    PROVE  LET rows == Insert(table, row, max).rows
           IN \/ i = Len(rows) /\ rows[i].row = row
              \/ i \in 1..(Len(rows) - 1)
                   /\ \E j \in DOMAIN table.rows : rows[i] = table.rows[j]
<1> DEFINE rows == Insert(table, row, max).rows
           n == Len(rows)
<1>1. /\ Insert(table, row, max) \in Table(S, max)
      /\ n \in Nat \ {0}
      /\ rows[n].row = row
      /\ \E d \in {0, 1} : \A k \in 1..(n - 1) :
             k + d \in DOMAIN table.rows /\ rows[k] = table.rows[k + d]
    <2>1. [id |-> table.last + 1, row |-> row] \in S
        OBVIOUS
    <2>2. Extended(Insert(table, row, max), table, row, S, max)
        BY <2>1, InsertFacts
    <2> QED BY <2>2 DEF Extended
<1>2. rows \in Seq(S)
    BY <1>1 DEF Table
<1>3. DOMAIN rows = 1..n
    BY <1>2
<1>4. i \in 1..n
    BY <1>3
<1> HIDE DEF rows, n
<1>5. i = n \/ i \in 1..(n - 1)
    BY <1>1, <1>4
<1>6. ASSUME i \in 1..(n - 1) PROVE \E j \in DOMAIN table.rows : rows[i] = table.rows[j]
    BY <1>1, <1>6
<1> QED BY <1>1, <1>5, <1>6 DEF rows, n

\* The row that a query writes.
LEMMA WrittenRow ==
    ASSUME Inv, up, NEW client \in Clients, NEW domain \in Domains
    PROVE  LET row == [client |-> client, domain |-> domain,
                       action |-> IF domain \in inForce THEN "BLOCKED" ELSE "ALLOWED",
                       session |-> IF IsLocked(session) THEN sid ELSE NoSession,
                       owed |-> {g.sid : g \in granted}]
           IN /\ [id |-> flowLog.last + 1, row |-> row] \in FlowRow
              /\ RowOK(row, started)
<1> DEFINE row == [client |-> client, domain |-> domain,
                   action |-> IF domain \in inForce THEN "BLOCKED" ELSE "ALLOWED",
                   session |-> IF IsLocked(session) THEN sid ELSE NoSession,
                   owed |-> {g.sid : g \in granted}]
<1>1. sid \in Nat /\ NoSession \in Nat /\ flowLog.last \in Nat
    BY DEF Inv, SessionInv, NoSession, TableInv, Table
<1>2. \A g \in granted : g.sid = sid /\ IsLocked(session) /\ g.sid \in Nat
    BY <1>1 DEF Inv, GrantInv
<1>3. row.owed \in SUBSET Nat
    BY <1>2
<1>4. [id |-> flowLog.last + 1, row |-> row] \in FlowRow
    BY <1>1, <1>3 DEF FlowRow
<1>5. ASSUME row.session # NoSession
      PROVE  /\ row.session \in Ids
             /\ row.action = "BLOCKED" <=> row.domain \in Permanent \union started[row.session]
    <2>1. IsLocked(session) /\ row.session = sid
        BY <1>5
    <2>2. sid \in Ids /\ inForce = Permanent \union started[sid]
        BY <2>1 DEF Inv, SessionInv, Known
    <2> QED BY <2>1, <2>2
<1>6. ASSUME NEW x \in row.owed PROVE x \in Ids /\ row.session = x
    <2>1. IsLocked(session) /\ x = sid /\ row.session = sid
        BY <1>2, <1>6
    <2> QED BY <2>1 DEF Inv, SessionInv, Known
<1>7. RowOK(row, started)
    BY <1>5, <1>6 DEF RowOK, Ids
<1> QED BY <1>4, <1>7

\* What a query does to the tables.
LEMMA QueryFacts ==
    ASSUME Inv, NEW c \in Clients, NEW x \in Domains, NEW w, Query(c, x, w)
    PROVE  /\ UNCHANGED <<up, clock, session, sid, inForce, disk, started, granted>>
           /\ \/ flowLog' = flowLog
              \/ \E row : /\ flowLog' = Insert(flowLog, row, MaxFlowRows)
                          /\ [id |-> flowLog.last + 1, row |-> row] \in FlowRow
                          /\ RowOK(row, started)
           /\ \/ eventLog' = eventLog
              \/ eventLog' = Insert(eventLog, [category |-> "dns_block", about |-> NoSession],
                                    MaxEvents)
<1>1. /\ up /\ UNCHANGED <<up, clock, session, sid, inForce, disk, started, granted>>
    BY DEF Query, sessionVars
<1>2. \/ eventLog' = eventLog
      \/ eventLog' = Insert(eventLog, [category |-> "dns_block", about |-> NoSession], MaxEvents)
    BY DEF Query, Record
<1> DEFINE row == [client |-> c, domain |-> x,
                   action |-> IF x \in inForce THEN "BLOCKED" ELSE "ALLOWED",
                   session |-> IF IsLocked(session) THEN sid ELSE NoSession,
                   owed |-> {g.sid : g \in granted}]
<1>3. flowLog' = flowLog \/ flowLog' = Insert(flowLog, row, MaxFlowRows)
    BY DEF Query
<1>4. [id |-> flowLog.last + 1, row |-> row] \in FlowRow /\ RowOK(row, started)
    BY <1>1, WrittenRow
<1> QED BY <1>1, <1>2, <1>3, <1>4

\* A step that ends the session of this id, in memory and on disk.
EndOf(id) ==
    /\ \/ IsLocked(session) /\ id = sid
       \/ IsLocked(disk.session) /\ id = disk.sid
    /\ ~IsLocked(session') /\ ~IsLocked(disk'.session)
    /\ started' = started

\* What a step does to the audit log: at most one event.
LEMMA EventStep ==
    ASSUME Inv, [Next]_vars, eventLog' # eventLog
    PROVE  \E category \in Categories, about \in Nat :
              /\ eventLog' = Insert(eventLog, [category |-> category, about |-> about], MaxEvents)
              /\ category = "ended" => EndOf(about)
<1> DEFINE Logs(category, about) ==
              eventLog' = Insert(eventLog, [category |-> category, about |-> about], MaxEvents)
<1> SUFFICES \E category \in Categories, about \in Nat :
                 Logs(category, about) /\ (category = "ended" => EndOf(about))
    OBVIOUS
<1> HIDE DEF Logs
<1>1. ASSUME NEW ds \in SUBSET Domains, NEW d \in Durations, NEW o, Start(ds, d, o)
      PROVE  sid' \in Nat /\ Logs("start_locked_session", sid')
    <2>1. sid' \in Nat
        BY <1>1, SessionNext DEF SessionInv, Next
    <2>2. Logs("start_locked_session", sid')
        BY <1>1, StartFacts DEF Logs
    <2> QED BY <2>1, <2>2
<1>2. ASSUME NEW o, Tick(o)
      PROVE  sid \in Nat /\ Logs("ended", sid) /\ EndOf(sid)
    <2>1. /\ IsLocked(session) /\ ~IsLocked(session') /\ ~IsLocked(disk'.session)
          /\ started' = started
          /\ Logs("ended", sid)
        BY <1>2, TickFacts DEF Logs
    <2> QED BY <2>1 DEF EndOf, Inv, SessionInv
<1>3. ASSUME Boot
      PROVE  /\ disk.sid \in Nat
             /\ \/ Logs("ended", disk.sid) /\ EndOf(disk.sid)
                \/ Logs("resumed", disk.sid)
    BY <1>3, BootFacts DEF Inv, SessionInv, HasExpired, Logs, EndOf
<1>4. ASSUME NEW c \in Clients, NEW x \in Domains, NEW w, Query(c, x, w)
      PROVE  NoSession \in Nat /\ Logs("dns_block", NoSession)
    BY <1>4, QueryFacts DEF NoSession, Logs
<1>5. ~(Guarded \/ Crash \/ AbortedBoot \/ (\E n \in 0..Horizon : SetClock(n)) \/ UNCHANGED vars)
    BY DEF Guarded, Crash, AbortedBoot, SetClock, vars
<1>6. \E id \in Nat :
          \/ Logs("start_locked_session", id) \/ Logs("resumed", id) \/ Logs("dns_block", id)
          \/ Logs("ended", id) /\ EndOf(id)
    BY <1>1, <1>2, <1>3, <1>4, <1>5 DEF Next
<1>7. PICK id \in Nat :
          \E category \in Categories : Logs(category, id) /\ (category = "ended" => EndOf(id))
    <2>1. "ended" \notin {"start_locked_session", "resumed", "dns_block"}
        OBVIOUS
    <2> QED BY <1>6, <2>1 DEF Categories
<1> QED BY <1>7

\* What a step does to the flow log: at most one row, and only a query adds it.
LEMMA FlowStep ==
    ASSUME Inv, [Next]_vars, flowLog' # flowLog
    PROVE  /\ UNCHANGED <<session, sid, disk, started, granted>>
           /\ \E row : /\ flowLog' = Insert(flowLog, row, MaxFlowRows)
                       /\ [id |-> flowLog.last + 1, row |-> row] \in FlowRow
                       /\ RowOK(row, started)
<1>1. PICK c \in Clients, x \in Domains, w \in SUBSET {"flow", "event"} : Query(c, x, w)
    <2>1. ~(Guarded \/ Crash \/ Boot \/ AbortedBoot \/ (\E n \in 0..Horizon : SetClock(n))
              \/ UNCHANGED vars)
        BY DEF Guarded, Crash, Boot, AbortedBoot, SetClock, vars
    <2>2. ~\E ds, d, o : Start(ds, d, o)
        BY DEF Start
    <2>3. ~\E o : Tick(o)
        BY DEF Tick
    <2> QED BY <2>1, <2>2, <2>3 DEF Next
<1> QED BY <1>1, QueryFacts

LEMMA TableNext == Inv /\ [Next]_vars => TableInv'
<1> SUFFICES ASSUME Inv, [Next]_vars PROVE TableInv'
    OBVIOUS
<1>1. MaxEvents \in Nat \ {0} /\ MaxFlowRows \in Nat \ {0}
    BY LogAssumption
<1>2. flowLog' \in Table(FlowRow, MaxFlowRows)
    <2>1. flowLog \in Table(FlowRow, MaxFlowRows)
        BY DEF Inv, TableInv
    <2>2. ASSUME flowLog' # flowLog PROVE flowLog' \in Table(FlowRow, MaxFlowRows)
        <3>1. PICK row : /\ flowLog' = Insert(flowLog, row, MaxFlowRows)
                         /\ [id |-> flowLog.last + 1, row |-> row] \in FlowRow
            BY <2>2, FlowStep
        <3>2. Extended(flowLog', flowLog, row, FlowRow, MaxFlowRows)
            BY <1>1, <2>1, <3>1, InsertFacts
        <3> QED BY <3>2 DEF Extended
    <2> QED BY <2>1, <2>2
<1>3. eventLog' \in Table(EventRow, MaxEvents)
    <2>1. eventLog \in Table(EventRow, MaxEvents) /\ eventLog.last \in Nat
        BY DEF Inv, TableInv, Table
    <2>2. ASSUME eventLog' # eventLog PROVE eventLog' \in Table(EventRow, MaxEvents)
        <3>1. PICK category \in Categories, about \in Nat :
                eventLog' = Insert(eventLog, [category |-> category, about |-> about], MaxEvents)
            BY <2>2, EventStep
        <3>2. [id |-> eventLog.last + 1, row |-> [category |-> category, about |-> about]] \in EventRow
            BY <2>1, <3>1 DEF EventRow
        <3>3. Extended(eventLog', eventLog, [category |-> category, about |-> about],
                       EventRow, MaxEvents)
            BY <1>1, <2>1, <3>1, <3>2, InsertFacts
        <3> QED BY <3>3 DEF Extended
    <2> QED BY <2>1, <2>2
<1> QED BY <1>2, <1>3 DEF TableInv

\* A row that was right stays so while sessions are started.
LEMMA RowStays ==
    ASSUME Inv, [Next]_vars, NEW row, RowOK(row, started)
    PROVE  RowOK(row, started')
<1>1. started' = started \/ \E ds \in SUBSET Domains : started' = Append(started, ds)
    <2>1. ASSUME NEW ds \in SUBSET Domains, NEW d, NEW o, Start(ds, d, o)
          PROVE  started' = Append(started, ds)
        BY <2>1 DEF Start
    <2>2. ASSUME NEW o, Tick(o) PROVE started' = started
        BY <2>2 DEF Tick
    <2>3. ASSUME NEW c, NEW x, NEW w, Query(c, x, w) PROVE started' = started
        BY <2>3 DEF Query
    <2>4. Guarded \/ Crash \/ Boot \/ AbortedBoot \/ (\E n \in 0..Horizon : SetClock(n))
            \/ UNCHANGED vars
          => started' = started
        BY DEF Guarded, Crash, Boot, AbortedBoot, SetClock, vars
    <2> QED BY <2>1, <2>2, <2>3, <2>4 DEF Next
<1>2. \A i \in Ids : i \in Ids' /\ started'[i] = started[i]
    BY <1>1, OneMoreStarted DEF Inv, Ids
<1> QED BY <1>2 DEF RowOK, Ids

LEMMA RowsNext == Inv /\ [Next]_vars => RowsInv'
<1> SUFFICES ASSUME Inv, [Next]_vars, NEW i \in DOMAIN flowLog'.rows
             PROVE  RowOK(flowLog'.rows[i].row, started')
    BY DEF RowsInv
<1>1. CASE flowLog' = flowLog
    <2>1. RowOK(flowLog.rows[i].row, started)
        BY <1>1 DEF Inv, RowsInv
    <2>2. RowOK(flowLog.rows[i].row, started')
        BY <1>1, <2>1, RowStays
    <2> QED BY <1>1, <2>2
<1>2. CASE flowLog' # flowLog
    <2>1. PICK row : /\ flowLog' = Insert(flowLog, row, MaxFlowRows)
                     /\ [id |-> flowLog.last + 1, row |-> row] \in FlowRow
                     /\ RowOK(row, started)
        BY <1>2, FlowStep
    <2>2. started' = started
        BY <1>2, FlowStep
    <2>3. \/ flowLog'.rows[i].row = row
          \/ \E j \in DOMAIN flowLog.rows : flowLog'.rows[i] = flowLog.rows[j]
        BY <2>1, RowsAfter, LogAssumption DEF Inv, TableInv
    <2>4. RowOK(flowLog'.rows[i].row, started)
        BY <2>1, <2>3 DEF Inv, RowsInv
    <2> QED BY <2>2, <2>4
<1> QED BY <1>1, <1>2

-----------------------------------------------------------------------------
(* The end of a session is told once *)

\* What has ended is never locked again, in memory or on disk.
LEMMA OverStays ==
    ASSUME Inv, [Next]_vars, NEW id, Over(id)
    PROVE  Over(id)'
<1> USE DEF Over
<1>1. ASSUME NEW ds \in SUBSET Domains, NEW d \in Durations, NEW o, Start(ds, d, o)
      PROVE  Over(id)'
    <2>1. /\ started' = Append(started, ds)
          /\ sid' = Len(started) + 1
          /\ disk' = disk \/ disk'.sid = sid'
        BY <1>1, StartFacts
    <2>2. id \in Ids' /\ sid' \notin Ids
        BY <2>1, OneMoreStarted DEF Inv
    <2>3. sid' # id
        BY <2>2
    <2> QED BY <2>1, <2>2, <2>3
<1>2. CASE Guarded
    <2>1. session' = session \/ ~IsLocked(session')
        BY <1>2, MarkedSession DEF Guarded
    <2> QED BY <1>2, <2>1 DEF Guarded, Ids
<1>3. ASSUME NEW o, Tick(o) PROVE Over(id)'
    BY <1>3, TickFacts DEF Ids
<1>4. ASSUME NEW c, NEW x, NEW w, Query(c, x, w) PROVE Over(id)'
    BY <1>4 DEF Query, sessionVars, Ids
<1>5. CASE Crash
    BY <1>5, IdleIsFree DEF Crash, Ids
<1>6. CASE Boot
    BY <1>6, BootFacts DEF Ids
<1>7. CASE AbortedBoot
    BY <1>7, AbortedBootFacts DEF Ids
<1>8. ASSUME NEW n, SetClock(n) PROVE Over(id)'
    BY <1>8 DEF SetClock, sessionVars, Ids
<1>9. CASE UNCHANGED vars
    BY <1>9 DEF vars, sessionVars, Ids
<1> QED BY <1>1, <1>2, <1>3, <1>4, <1>5, <1>6, <1>7, <1>8, <1>9 DEF Next

\* A session that ends in this step was not over, and is now.
LEMMA EndIsNew ==
    ASSUME Inv, NEW id, EndOf(id)
    PROVE  ~Over(id) /\ Over(id)'
<1>1. id \in Ids
    BY DEF EndOf, Inv, SessionInv, Known
<1>2. id \in Ids'
    BY <1>1 DEF EndOf, Ids
<1> QED BY <1>1, <1>2 DEF EndOf, Over

LEMMA EndsNext == Inv /\ [Next]_vars => EndsInv'
<1> SUFFICES ASSUME Inv, [Next]_vars PROVE EndsInv'
    OBVIOUS
<1>1. CASE eventLog' = eventLog
    <2>1. \A i \in DOMAIN eventLog'.rows :
              eventLog'.rows[i].row.category = "ended" => Over(eventLog.rows[i].row.about)
        BY <1>1 DEF Inv, EndsInv
    <2>2. ASSUME NEW i \in DOMAIN eventLog'.rows, eventLog'.rows[i].row.category = "ended"
          PROVE  Over(eventLog.rows[i].row.about)'
        <3> DEFINE id == eventLog.rows[i].row.about
        <3>1. Over(id)
            BY <2>1, <2>2
        <3>2. PICK k : k = id
            OBVIOUS
        <3>3. Over(k)'
            BY <3>1, <3>2, OverStays
        <3> QED BY <1>1, <3>2, <3>3 DEF Over, Ids
    <2> QED BY <1>1, <2>2 DEF Inv, EndsInv, EndToldOnce, Over, Ids
<1>2. CASE eventLog' # eventLog
    <2>1. PICK category \in Categories, about \in Nat :
            /\ eventLog' = Insert(eventLog, [category |-> category, about |-> about], MaxEvents)
            /\ category = "ended" => EndOf(about)
        BY <1>2, EventStep
    <2> DEFINE row == [category |-> category, about |-> about]
               new == eventLog'.rows
               n == Len(new)
    <2>2. Extended(eventLog', eventLog, row, EventRow, MaxEvents)
        <3>1. eventLog \in Table(EventRow, MaxEvents) /\ eventLog.last \in Nat
            BY DEF Inv, TableInv, Table
        <3>2. [id |-> eventLog.last + 1, row |-> row] \in EventRow
            BY <3>1 DEF EventRow
        <3> QED BY <2>1, <3>1, <3>2, LogAssumption, InsertFacts
    <2>3. /\ n \in Nat \ {0} /\ DOMAIN new = 1..n
          /\ new[n].row = row
        BY <2>2 DEF Extended, Table
    <2>4. PICK d \in {0, 1} : \A i \in 1..(n - 1) :
              i + d \in DOMAIN eventLog.rows /\ new[i] = eventLog.rows[i + d]
        BY <2>2 DEF Extended
    <2>5. row.category = category /\ row.about = about
        OBVIOUS
    <2> HIDE DEF row, new, n
    <2>6. ASSUME NEW i \in 1..(n - 1), new[i].row.category = "ended"
          PROVE  Over(new[i].row.about)
        BY <2>4, <2>6 DEF Inv, EndsInv
    <2>7. category = "ended" => ~Over(about) /\ Over(about)'
        BY <2>1, EndIsNew
    <2>8. \A i \in 1..n : i = n \/ i \in 1..(n - 1)
        BY <2>3
    <2>9. ASSUME NEW i \in 1..n, NEW j \in 1..n,
                 new[i].row.category = "ended", new[j].row.category = "ended",
                 new[i].row.about = new[j].row.about
          PROVE  i = j
        <3>1. CASE i = n /\ j = n
            BY <3>1
        <3>2. CASE i = n /\ j \in 1..(n - 1)
            BY <2>3, <2>5, <2>6, <2>7, <2>9, <3>2
        <3>3. CASE i \in 1..(n - 1) /\ j = n
            BY <2>3, <2>5, <2>6, <2>7, <2>9, <3>3
        <3>4. CASE i \in 1..(n - 1) /\ j \in 1..(n - 1)
            <4>1. /\ i + d \in DOMAIN eventLog.rows /\ new[i] = eventLog.rows[i + d]
                  /\ j + d \in DOMAIN eventLog.rows /\ new[j] = eventLog.rows[j + d]
                BY <2>4, <3>4
            <4>2. i + d = j + d
                BY <2>9, <4>1 DEF Inv, EndsInv, EndToldOnce
            <4> QED BY <4>2
        <3> QED BY <2>8, <3>1, <3>2, <3>3, <3>4
    <2>10. ASSUME NEW i \in 1..n, NEW k, k = new[i].row.about, new[i].row.category = "ended"
           PROVE  Over(k)'
        <3>1. CASE i = n
            BY <2>3, <2>5, <2>7, <2>10, <3>1
        <3>2. CASE i \in 1..(n - 1)
            BY <2>6, <2>10, <3>2, OverStays
        <3> QED BY <2>8, <3>1, <3>2
    <2>11. \A i \in 1..n : new[i].row.category = "ended" =>
               /\ new[i].row.about \in Ids'
               /\ IsLocked(session') => sid' # new[i].row.about
               /\ IsLocked(disk'.session) => disk'.sid # new[i].row.about
        BY <2>10 DEF Over
    <2> QED BY <2>3, <2>9, <2>11 DEF EndsInv, EndToldOnce, Over, new
<1> QED BY <1>1, <1>2

-----------------------------------------------------------------------------
(* Theorems *)

LEMMA InvInit == Init => Inv
<1> SUFFICES ASSUME Init PROVE Inv
    OBVIOUS
<1>1. flowLog.rows = << >> /\ eventLog.rows = << >>
    BY DEF Init, EmptyTable
<1>2. RowsInv /\ EndsInv
    BY <1>1 DEF RowsInv, EndsInv, EndToldOnce
<1> QED BY <1>2, SessionInit, TableInit DEF Inv

THEOREM LogInvariance == Spec => []Inv
<1>1. Inv /\ [Next]_vars => Inv'
    BY SessionNext, TableNext, RowsNext, EndsNext DEF Inv
<1> QED BY <1>1, InvInit, PTL DEF Spec

\* Each table holds its newest rows without a gap, after any failed writes,
\* crashes and restarts (insert and trim in one transaction).
THEOREM NewestRowsStay == Spec => []NewestRowsKept
<1>1. Inv => NewestRowsKept
    BY DEF Inv, TableInv, Table, HoldsNewest, NewestRowsKept
<1> QED BY <1>1, LogInvariance, PTL

\* The rows of a session follow the rules and the session's own domains.
THEOREM SessionRowsFollowRules == Spec => []SessionRowsMatchRules
<1>1. Inv => SessionRowsMatchRules
    BY DEF Inv, RowsInv, RowOK, SessionRowsMatchRules
<1> QED BY <1>1, LogInvariance, PTL

\* The audit log tells the end of no session twice.
THEOREM EndsAreToldOnce == Spec => []EndToldOnce
<1>1. Inv => EndToldOnce
    BY DEF Inv, EndsInv
<1> QED BY <1>1, LogInvariance, PTL

\* The statistics of a running confirmed session count all its logged queries,
\* and its breakdown leaves out only clients outnumbered by all that it lists.
THEOREM SessionQueriesAreCounted == Spec => []SessionQueriesCounted
<1>1. Inv => SessionQueriesCounted
    <2> DEFINE counted == {i \in DOMAIN flowLog.rows :
                            Scope(TRUE) = NoSession \/ flowLog.rows[i].row.session = Scope(TRUE)}
               By(c) == {i \in counted : flowLog.rows[i].row.client = c}
               seen == {c \in Clients : By(c) # {}}
               stats == Stats(Scope(TRUE))
    <2> SUFFICES ASSUME Inv, NEW g \in granted, up
                 PROVE  /\ Cardinality(UNION {Owed(g, c) : c \in Clients}) <= stats.total
                        /\ \A b \in stats.breakdowns, c \in Clients :
                             IF c \in DOMAIN b
                             THEN Cardinality(Owed(g, c)) <= b[c].total
                             ELSE Owed(g, c) # {} =>
                                    /\ Cardinality(DOMAIN b) = MaxListed
                                    /\ \A l \in DOMAIN b : Cardinality(Owed(g, c)) <= b[l].total
        BY DEF SessionQueriesCounted
    <2>1. Scope(TRUE) = g.sid
        BY DEF Scope, Inv, GrantInv
    <2>2. \A c \in Clients : Owed(g, c) \subseteq By(c)
        BY <2>1 DEF Inv, RowsInv, RowOK, Owed
    <2>3. IsFiniteSet(counted)
        <3>1. DOMAIN flowLog.rows = 1..Len(flowLog.rows) /\ Len(flowLog.rows) \in Nat
            BY DEF Inv, TableInv, Table
        <3>2. IsFiniteSet(DOMAIN flowLog.rows)
            BY <3>1, FS_Interval
        <3> QED BY <3>2, FS_Subset
    <2>4. stats.total = Cardinality(counted)
        BY DEF Stats
    <2>5. Cardinality(UNION {Owed(g, c) : c \in Clients}) <= Cardinality(counted)
        <3>1. \A c \in Clients : Owed(g, c) \subseteq counted
            BY <2>2
        <3>2. UNION {Owed(g, c) : c \in Clients} \subseteq counted
            <4> HIDE DEF counted
            <4> QED BY ONLY <3>1
        <3> QED BY <3>2, <2>3, FS_Subset
    <2>6. \A c \in Clients : /\ Cardinality(Owed(g, c)) <= Cardinality(By(c))
                             /\ Cardinality(By(c)) \in Nat
                             /\ Cardinality(Owed(g, c)) \in Nat
        <3> TAKE c \in Clients
        <3>1. IsFiniteSet(By(c)) /\ By(c) \subseteq counted
            BY <2>3, FS_Subset
        <3>2. IsFiniteSet(Owed(g, c)) /\ Cardinality(Owed(g, c)) <= Cardinality(By(c))
            BY <2>2, <3>1, FS_Subset
        <3> QED BY <3>1, <3>2, FS_CardinalityType
    <2>7. ASSUME NEW b \in stats.breakdowns
          PROVE  \E L \in SUBSET seen :
                    /\ DOMAIN b = L
                    /\ \A c \in L : b[c].total = Cardinality(By(c))
                    /\ Cardinality(L) = MaxListed \/ L = seen
                    /\ \A c \in L, other \in seen \ L :
                           Cardinality(By(c)) >= Cardinality(By(other))
        <3> DEFINE listings == {L \in SUBSET seen :
                        /\ Cardinality(L) <= MaxListed
                        /\ Cardinality(L) = MaxListed \/ L = seen
                        /\ \A c \in L, other \in seen \ L :
                               Cardinality(By(c)) >= Cardinality(By(other))}
                   Blocked(S) == {i \in S : flowLog.rows[i].row.action = "BLOCKED"}
                   listed(L) == [c \in L |-> [total |-> Cardinality(By(c)),
                                              blocked |-> Cardinality(Blocked(By(c)))]]
        <3>1. stats.breakdowns = {listed(L) : L \in listings}
            BY DEF Stats
        <3> HIDE DEF By, seen, stats
        <3>2. PICK L \in listings : b = listed(L)
            BY <3>1
        <3>3. DOMAIN b = L /\ \A c \in L : b[c].total = Cardinality(By(c))
            BY <3>2
        <3> QED BY <3>3
    <2> HIDE DEF counted, By, seen, stats
    <2>8. ASSUME NEW b \in stats.breakdowns, NEW c \in Clients
          PROVE  IF c \in DOMAIN b
                 THEN Cardinality(Owed(g, c)) <= b[c].total
                 ELSE Owed(g, c) # {} =>
                        /\ Cardinality(DOMAIN b) = MaxListed
                        /\ \A l \in DOMAIN b : Cardinality(Owed(g, c)) <= b[l].total
        <3>1. PICK L \in SUBSET seen :
                    /\ DOMAIN b = L
                    /\ \A k \in L : b[k].total = Cardinality(By(k))
                    /\ Cardinality(L) = MaxListed \/ L = seen
                    /\ \A k \in L, other \in seen \ L :
                           Cardinality(By(k)) >= Cardinality(By(other))
            BY <2>7
        <3>2. CASE c \in DOMAIN b
            BY <3>1, <3>2, <2>6
        <3>3. CASE c \notin DOMAIN b /\ Owed(g, c) # {}
            <4>1. c \in seen \ L
                BY <2>2, <3>1, <3>3 DEF seen
            <4>2. \A l \in L : l \in Clients
                BY <3>1 DEF seen
            <4>3. \A l \in L : Cardinality(Owed(g, c)) <= b[l].total
                BY <2>6, <3>1, <4>1, <4>2
            <4> QED BY <3>1, <3>3, <4>1, <4>3
        <3> QED BY <3>2, <3>3
    <2> QED BY <2>4, <2>5, <2>8
<1> QED BY <1>1, LogInvariance, PTL

-----------------------------------------------------------------------------
(* The session keeps the promise of FocusPromise *)

Promised == {[expires |-> g.expires, domains |-> started[g.sid]] : g \in granted}

\* The blocklist names domains only.
BlocklistOK == inForce \subseteq Domains

LEMMA BlocklistNext == Inv /\ Inv' /\ BlocklistOK /\ [Next]_vars => BlocklistOK'
<1> SUFFICES ASSUME Inv, Inv', BlocklistOK, [Next]_vars PROVE BlocklistOK'
    OBVIOUS
<1>1. CASE \E ds \in (SUBSET Domains) \ {{}}, d \in Durations, o \in Outcomes : Start(ds, d, o)
    BY <1>1, LogAssumption DEF Start, BlocklistOK
<1>2. CASE \E o \in Outcomes : Tick(o)
    BY <1>2, LogAssumption DEF Tick, BlocklistOK
<1>3. CASE Crash
    BY <1>3 DEF Crash, BlocklistOK
<1>4. CASE Boot
    <2>1. inForce' = Permanent \union (IF IsLocked(session') THEN session'.domains ELSE {})
        BY <1>4 DEF Boot
    <2>2. IsLocked(session') => session'.domains \subseteq Domains
        <3>1. IsLocked(session') => sid' \in Ids' /\ session'.domains = started'[sid']
            BY DEF Inv, SessionInv, Known
        <3>2. \A id \in Ids' : started'[id] \in SUBSET Domains
            BY DEF Inv, SessionInv, Ids
        <3> QED BY <3>1, <3>2
    <2> QED BY <2>1, <2>2, LogAssumption DEF BlocklistOK
<1>5. CASE inForce' = inForce
    BY <1>5 DEF BlocklistOK
<1>6. Guarded \/ AbortedBoot \/ (\E n \in 0..Horizon : SetClock(n)) \/ UNCHANGED vars
        \/ (\E c \in Clients, d \in Domains, w \in SUBSET {"flow", "event"} : Query(c, d, w))
            => inForce' = inForce
    BY DEF Guarded, AbortedBoot, SetClock, Query, vars, sessionVars
<1> QED BY <1>1, <1>2, <1>3, <1>4, <1>5, <1>6 DEF Next

LEMMA PromiseInit == Init => BlocklistOK /\ Promise!Init
<1> SUFFICES ASSUME Init PROVE BlocklistOK /\ Promise!Init
    OBVIOUS
<1>1. up \in BOOLEAN
    BY SessionInit DEF SessionInv
<1>2. clock = 0 /\ granted = {} /\ inForce \subseteq Domains
    BY LogAssumption DEF Init
<1> QED BY <1>1, <1>2 DEF BlocklistOK, Promise!Init

LEMMA PromiseStep ==
    ASSUME Inv, Inv', BlocklistOK', [Next]_vars
    PROVE  [Promise!Next]_<<clock, Promised, up, inForce>>
<1> DEFINE Of(g) == [expires |-> g.expires, domains |-> started[g.sid]]
<1>1. up' \in BOOLEAN /\ inForce' \subseteq Domains /\ clock' \in Int
    BY DEF Inv, SessionInv, BlocklistOK
<1>2. Promise!Kept(Promised', up', inForce')
    <2> SUFFICES ASSUME up', NEW g \in granted'
                 PROVE  started'[g.sid] \subseteq inForce'
        BY DEF Promise!Kept, Promised
    <2>1. IsLocked(session') /\ sid' = g.sid
        BY DEF Inv, GrantInv
    <2> QED BY <2>1 DEF Inv, SessionInv
<1>3. CASE UNCHANGED <<clock, Promised>>
    BY <1>1, <1>2, <1>3 DEF Promise!Next, Promise!Enforce, Promised
<1>4. ASSUME NEW n, SetClock(n) PROVE Promise!SetClock
    <2>1. /\ clock' = n /\ UNCHANGED <<up, inForce, started>>
          /\ granted' = {g \in granted : n < g.expires}
        BY <1>4 DEF SetClock, sessionVars
    <2>2. Promised' = {p \in Promised : clock' < p.expires}
        BY <2>1 DEF Promised
    <2> QED BY <1>1, <2>1, <2>2 DEF Promise!SetClock, Promised
<1>5. ASSUME NEW ds \in SUBSET Domains, NEW d \in Durations, NEW o, Start(ds, d, o)
      PROVE  Promise!Next
    <2>1. /\ up /\ up' = up /\ clock' = clock /\ granted = {}
          /\ started' = Append(started, ds) /\ sid' = Len(started) + 1
          /\ d \in Nat \ {0}
          /\ \/ granted' = {}
             \/ granted' \subseteq {[sid |-> sid', expires |-> clock + d]}
        BY <1>5, StartFacts
    <2>2. started'[sid'] = ds
        BY <2>1, OneMoreStarted DEF Inv
    <2>3. Promised = {}
        BY <2>1 DEF Promised
    <2>4. CASE granted' = {}
        <3>1. Promised' = {}
            BY <2>4 DEF Promised
        <3> QED BY <1>3, <2>1, <2>3, <3>1, <1>1, <1>2
                DEF Promise!Next, Promise!Enforce, Promised
    <2>5. CASE granted' = {[sid |-> sid', expires |-> clock + d]}
        <3> DEFINE p == [expires |-> clock + d, domains |-> ds]
        <3>1. Promised' = {p}
            BY <2>2, <2>5 DEF Promised
        <3>2. p \in Promise!Promises /\ p.expires > clock
            <4>1. clock + d \in Int /\ clock + d > clock
                BY <2>1 DEF Inv, SessionInv
            <4> QED BY <4>1 DEF Promise!Promises
        <3> HIDE DEF p
        <3> QED BY <1>1, <1>2, <2>1, <2>3, <3>1, <3>2
                DEF Promise!Next, Promise!Grant, Promised
    <2> QED BY <2>1, <2>4, <2>5
<1>6. CASE UNCHANGED <<clock, started, granted>>
    BY <1>3, <1>6 DEF Promised
<1>7. Guarded \/ Crash \/ Boot \/ AbortedBoot \/ UNCHANGED vars \/ (\E o \in Outcomes : Tick(o))
        \/ (\E c \in Clients, x \in Domains, w \in SUBSET {"flow", "event"} : Query(c, x, w))
            => UNCHANGED <<clock, started, granted>>
    BY DEF Guarded, Crash, Boot, AbortedBoot, vars, Tick, Query
<1> QED BY <1>4, <1>5, <1>6, <1>7 DEF Next, Promise!Next

\* The narrowed session keeps the promise FocusPromise specifies.
THEOREM SessionKeepsPromise == Spec => PromiseKept
<1>1. Inv /\ Inv' /\ BlocklistOK' /\ [Next]_vars
        => [Promise!Next]_<<clock, Promised, up, inForce>>
    BY PromiseStep
<1> QED BY <1>1, BlocklistNext, PromiseInit, LogInvariance, PTL
        DEF Spec, PromiseKept, Promise!Spec, Promise!promiseVars, Promised
=============================================================================
