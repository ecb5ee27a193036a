------------------------- MODULE PolicyEngineProofs -------------------------
(***************************************************************************)
(* Theorems about PolicyEngine, for every set of domains, services and     *)
(* inputs, every clock horizon and any number of faults; and, at the end,  *)
(* about FocusGuard, where the engine's blocklist meets the DNS server.    *)
(***************************************************************************)
EXTENDS FocusGuard, Sequences, TLAPS

-----------------------------------------------------------------------------
(* What the operators return *)

\* A session stays a session when its expiry is checked.
LEMMA CheckedSession ==
    ASSUME NEW s \in SessionState, NEW now
    PROVE  AssertNotLocked(s, now) \in SessionState
  BY DEF AssertNotLocked, CheckExpiration, SessionState

\* The idle session is a session.
LEMMA IdleIsSession == IdleSession \in SessionState
  BY DEF IdleSession, SessionState, Instant, NoTime

\* The empty rule lists are rule lists.
LEMMA EmptyIsConfig == EmptyConfig \in Config
  BY DEF EmptyConfig, Config

\* The blocklist the rules ask for consists of domains.
LEMMA BlockedDomains ==
    ASSUME NEW c \in Config, NEW s \in SessionState
    PROVE  ActiveBlocked(c, s) \subseteq Domains
  <1>1. \A ids \in SUBSET Services : DomainsOfServices(ids) \subseteq Domains
    BY ServicesAssumption DEF DomainsOfServices
  <1>2. /\ c.domains \subseteq Domains /\ c.services \subseteq Services
        /\ s.domains \subseteq Domains /\ s.services \subseteq Services
    BY DEF Config, SessionState
  <1> QED
    BY <1>1, <1>2, BypassAssumption DEF ActiveBlocked

\* What one input names are domains.
LEMMA NamedDomains ==
    ASSUME NEW i, NEW companions
    PROVE  Named(i, companions) \subseteq Domains
  BY InputsAssumption DEF Named

\* What service names stand for are services.
LEMMA NamedServices ==
    ASSUME NEW inputs
    PROVE  ServicesNamed(inputs) \subseteq Services
  BY ServicesAssumption DEF ServicesNamed

\* The domains and services a start request selects.
LEMMA SelectedRules ==
    ASSUME TypeOK, NEW ds, NEW ss, NEW companions
    PROVE  /\ SessionDomains(ds, ss, companions) \subseteq Domains
           /\ SessionServices(ds, ss) \subseteq Services
  <1>1. \A ids \in SUBSET Services : DomainsOfServices(ids) \subseteq Domains
    BY ServicesAssumption DEF DomainsOfServices
  <1>2. config.domains \subseteq Domains /\ config.services \subseteq Services
    BY DEF TypeOK, Config
  <1>3. UNION {Named(i, companions) : i \in ds} \subseteq Domains
    BY NamedDomains
  <1> QED
    BY <1>1, <1>2, <1>3, NamedServices DEF SessionDomains, SessionServices

\* A method that refreshes and persists keeps blocklist, document and fault
\* counter in their types.
LEMMA RefreshedAndPersisted ==
    ASSUME TypeOK, config' \in Config, session' \in SessionState,
           NEW outcome, Refresh, Persist(outcome)
    PROVE  /\ sinkhole' \in SUBSET Domains
           /\ disk' \in Document
           /\ faults' \in Nat
  <1>1. sinkhole' \in SUBSET Domains
    BY BlockedDomains DEF Refresh
  <1>2. disk' \in Document
    BY DEF Persist, Document, TypeOK
  <1>3. faults' \in Nat
    BY DEF Persist, Faulty, TypeOK
  <1> QED
    BY <1>1, <1>2, <1>3

-----------------------------------------------------------------------------
(* Type correctness *)

LEMMA TypeInit == Init => TypeOK
  <1> SUFFICES ASSUME Init PROVE TypeOK
    OBVIOUS
  <1>1. disk \in Document
    BY IdleIsSession, EmptyIsConfig DEF Init, Document
  <1> QED
    BY <1>1, IdleIsSession, EmptyIsConfig DEF Init, TypeOK

LEMMA TypeNext == TypeOK /\ [Next]_vars => TypeOK'
  <1> SUFFICES ASSUME TypeOK, [Next]_vars PROVE TypeOK'
    OBVIOUS
  <1>0. AssertNotLocked(session, clock) \in SessionState
    BY CheckedSession DEF TypeOK
  <1>1. ASSUME NEW i, NEW c, NEW o, AddPermanentDomain(i, c, o)
        PROVE  TypeOK'
    <2>1. config' \in Config /\ confirmed' \in Config
      BY <1>1, NamedDomains DEF AddPermanentDomain, TypeOK, Config
    <2>2. session' \in SessionState
      BY <1>0, <1>1 DEF AddPermanentDomain
    <2>3. sinkhole' \in SUBSET Domains /\ disk' \in Document /\ faults' \in Nat
      BY <1>1, <2>1, <2>2, RefreshedAndPersisted DEF AddPermanentDomain
    <2> QED
      BY <1>1, <2>1, <2>2, <2>3 DEF AddPermanentDomain, TypeOK
  <1>2. ASSUME NEW i, NEW o, RemovePermanentDomain(i, o)
        PROVE  TypeOK'
    <2>1. config' \in Config /\ confirmed' \in Config
      BY <1>2 DEF RemovePermanentDomain, TypeOK, Config
    <2>2. session' \in SessionState
      BY <1>0, <1>2 DEF RemovePermanentDomain
    <2>3. sinkhole' \in SUBSET Domains /\ disk' \in Document /\ faults' \in Nat
      BY <1>2, <2>1, <2>2, RefreshedAndPersisted DEF RemovePermanentDomain
    <2> QED
      BY <1>2, <2>1, <2>2, <2>3 DEF RemovePermanentDomain, TypeOK
  <1>3. ASSUME NEW i, NEW o, BlockPermanentService(i, o)
        PROVE  TypeOK'
    <2>1. config' \in Config /\ confirmed' \in Config
      BY <1>3, ServicesAssumption DEF BlockPermanentService, TypeOK, Config
    <2>2. session' \in SessionState
      BY <1>0, <1>3 DEF BlockPermanentService
    <2>3. sinkhole' \in SUBSET Domains /\ disk' \in Document /\ faults' \in Nat
      BY <1>3, <2>1, <2>2, RefreshedAndPersisted DEF BlockPermanentService, TypeOK
    <2> QED
      BY <1>3, <2>1, <2>2, <2>3 DEF BlockPermanentService, TypeOK
  <1>4. ASSUME NEW i, NEW o, UnblockPermanentService(i, o)
        PROVE  TypeOK'
    <2>1. config' \in Config /\ confirmed' \in Config
      BY <1>4 DEF UnblockPermanentService, TypeOK, Config
    <2>2. session' \in SessionState
      BY <1>0, <1>4 DEF UnblockPermanentService
    <2>3. sinkhole' \in SUBSET Domains /\ disk' \in Document /\ faults' \in Nat
      BY <1>4, <2>1, <2>2, RefreshedAndPersisted DEF UnblockPermanentService
    <2> QED
      BY <1>4, <2>1, <2>2, <2>3 DEF UnblockPermanentService, TypeOK
  <1>5. CASE ChangeNothing
    BY <1>0, <1>5 DEF ChangeNothing, TypeOK
  <1>6. ASSUME NEW ds, NEW ss, NEW c, NEW d \in Durations, NEW o,
               StartFocusSession(ds, ss, c, d, o)
        PROVE  TypeOK'
    <2> DEFINE domains == SessionDomains(ds, ss, c)
    <2>1. /\ session' = NewSession(clock, clock + d, domains, SessionServices(ds, ss))
          /\ config' = config
          /\ UNCHANGED <<up, clock, confirmed>>
          /\ granted' \in {{[expires |-> clock + d, domains |-> domains]}, granted}
      BY <1>6 DEF StartFocusSession
    <2>2. clock \in Nat /\ clock + d \in Nat
      BY TimeAssumption DEF TypeOK
    <2>3. domains \subseteq Domains /\ SessionServices(ds, ss) \subseteq Services
      BY SelectedRules
    <2> HIDE DEF domains
    <2>4. session' \in SessionState /\ config' \in Config
      BY <2>1, <2>2, <2>3 DEF NewSession, SessionState, Instant, TypeOK
    <2>5. granted' \in SUBSET [expires : Nat, domains : SUBSET Domains]
      BY <2>1, <2>2, <2>3 DEF TypeOK
    <2>6. sinkhole' \in SUBSET Domains /\ disk' \in Document /\ faults' \in Nat
      BY <1>6, <2>4, RefreshedAndPersisted DEF StartFocusSession
    <2> QED
      BY <2>1, <2>4, <2>5, <2>6 DEF TypeOK
  <1>7. ASSUME NEW o, Tick(o) PROVE TypeOK'
    <2>1. session' \in SessionState /\ config' \in Config
      BY <1>7, IdleIsSession DEF Tick, TypeOK
    <2>2. sinkhole' \in SUBSET Domains /\ disk' \in Document /\ faults' \in Nat
      BY <1>7, <2>1, RefreshedAndPersisted DEF Tick
    <2>3. UNCHANGED <<up, clock, granted, confirmed>>
      BY <1>7 DEF Tick
    <2> QED
      BY <2>1, <2>2, <2>3 DEF TypeOK
  <1>8. CASE Crash
    <2>1. up' \in BOOLEAN
      BY <1>8, Zenon DEF Crash
    <2>3. sinkhole' \in SUBSET Domains /\ UNCHANGED <<clock, disk, granted, confirmed>>
      BY <1>8 DEF Crash
    <2>4. faults' \in Nat
      BY <1>8 DEF Crash, TypeOK
    <2>2. config' \in Config /\ session' \in SessionState
      BY <1>8, IdleIsSession, EmptyIsConfig DEF Crash
    <2> QED
      BY <2>1, <2>2, <2>3, <2>4 DEF TypeOK
  <1>9. CASE Boot
    <2>1. session' \in SessionState /\ config' \in Config
      BY <1>9, IdleIsSession DEF Boot, TypeOK, Document
    <2>2. sinkhole' \in SUBSET Domains
      BY <1>9, <2>1, BlockedDomains DEF Boot, Refresh
    <2>3. disk' \in Document
      BY <1>9, <2>1 DEF Boot, TypeOK, Document
    <2> QED
      BY <1>9, <2>1, <2>2, <2>3 DEF Boot, TypeOK
  <1>10. CASE AbortedBoot
    BY <1>10, IdleIsSession DEF AbortedBoot, Faulty, TypeOK, Document
  <1>11. CASE AdvanceClock
    BY <1>11, TimeAssumption DEF AdvanceClock, SetClock, TypeOK
  <1>12. CASE SetClockBack
    BY <1>12 DEF SetClockBack, SetClock, TypeOK
  <1>13. CASE UNCHANGED vars
    BY <1>13 DEF vars, TypeOK
  <1> QED
    BY <1>1, <1>2, <1>3, <1>4, <1>5, <1>6, <1>7, <1>8, <1>9, <1>10, <1>11,
       <1>12, <1>13 DEF Next, Request, Heartbeat

\* Every variable keeps its type.
THEOREM TypeCorrect == Spec => []TypeOK
  BY TypeInit, TypeNext, PTL DEF Spec
-----------------------------------------------------------------------------
(* Confirmed sessions hold until their deadline *)

\* While a confirmed session lasts, every guarded request is refused and
\* neither the heartbeat nor a restart finds it expired.
LEMMA GrantedRefuses ==
    ASSUME TypeOK, GrantedLockHolds, NEW p \in granted
    PROVE  /\ up => Refuses(session, clock)
           /\ up => ~HasExpired(session, clock)
           /\ ~HasExpired(disk.session, clock)
  <1>1. clock \in Nat /\ p.expires \in Nat /\ clock < p.expires
    BY DEF TypeOK, GrantedLockHolds
  <1>2. IsLocked(disk.session) /\ disk.session.expires = p.expires
    BY DEF GrantedLockHolds
  <1>3. up => session = disk.session
    BY DEF GrantedLockHolds
  <1> QED
    BY <1>1, <1>2, <1>3 DEF Refuses, RemainingSeconds, HasExpired

\* A request that is not refused finds no confirmed session in force.
LEMMA UnlockedMeansNothingGranted ==
    ASSUME TypeOK, GrantedLockHolds, Unlocked
    PROVE  granted = {}
  BY GrantedRefuses DEF Unlocked

LEMMA GrantedInit == Init => GrantedLockHolds
  BY DEF Init, GrantedLockHolds

LEMMA GrantedStart ==
    ASSUME TypeOK, GrantedLockHolds, NEW ds, NEW ss, NEW c, NEW d \in Durations,
           NEW o, StartFocusSession(ds, ss, c, d, o)
    PROVE  GrantedLockHolds'
  <1> DEFINE domains == SessionDomains(ds, ss, c)
             services == SessionServices(ds, ss)
  <1>1. granted = {}
    BY UnlockedMeansNothingGranted DEF StartFocusSession
  <1>2. /\ session' = NewSession(clock, clock + d, domains, services)
        /\ clock' = clock
        /\ Refresh
        /\ Persist(o)
        /\ granted' = IF o = "done" THEN {[expires |-> clock + d, domains |-> domains]}
                      ELSE granted
    BY DEF StartFocusSession
  <1> HIDE DEF domains, services
  <1>3. CASE o # "done"
    BY <1>1, <1>2, <1>3 DEF GrantedLockHolds
  <1>4. CASE o = "done"
    <2>1. granted' = {[expires |-> clock + d, domains |-> domains]}
      BY <1>2, <1>4
    <2>2. clock < clock + d
      BY TimeAssumption DEF TypeOK
    <2>3. disk'.session = session'
      BY <1>2, <1>4 DEF Persist
    <2>4. /\ IsLocked(session')
          /\ session'.expires = clock + d
          /\ session'.domains = domains
      BY <1>2 DEF NewSession, IsLocked
    <2>5. domains \subseteq sinkhole'
      BY <1>2, <2>4 DEF Refresh, ActiveBlocked
    <2> QED
      BY <1>2, <2>1, <2>2, <2>3, <2>4, <2>5 DEF GrantedLockHolds
  <1> QED
    BY <1>3, <1>4

LEMMA GrantedBoot ==
    ASSUME TypeOK, GrantedLockHolds, Boot
    PROVE  GrantedLockHolds'
  <1> SUFFICES ASSUME NEW p \in granted
               PROVE  /\ clock' < p.expires
                      /\ IsLocked(disk'.session)
                      /\ disk'.session.expires = p.expires
                      /\ disk'.session.domains = p.domains
                      /\ session' = disk'.session /\ p.domains \subseteq sinkhole'
    BY DEF Boot, GrantedLockHolds
  <1>1. session' = disk.session
    BY GrantedRefuses DEF Boot
  <1>2. disk'.session = disk.session
    BY <1>1 DEF Boot, TypeOK, Document
  <1>3. clock' = clock /\ Refresh
    BY DEF Boot
  <1>4. /\ clock < p.expires
        /\ IsLocked(disk.session)
        /\ disk.session.expires = p.expires
        /\ disk.session.domains = p.domains
    BY DEF GrantedLockHolds
  <1>5. p.domains \subseteq sinkhole'
    BY <1>1, <1>3, <1>4 DEF Refresh, ActiveBlocked
  <1> QED
    BY <1>1, <1>2, <1>3, <1>4, <1>5

LEMMA GrantedNext == TypeOK /\ GrantedLockHolds /\ [Next]_vars => GrantedLockHolds'
  <1> SUFFICES ASSUME TypeOK, GrantedLockHolds, [Next]_vars PROVE GrantedLockHolds'
    OBVIOUS
  <1>1. CASE Unlocked /\ granted' = granted
    BY <1>1, UnlockedMeansNothingGranted DEF GrantedLockHolds
  <1>2. ASSUME NEW ds, NEW ss, NEW c, NEW d \in Durations, NEW o,
               StartFocusSession(ds, ss, c, d, o)
        PROVE  GrantedLockHolds'
    BY <1>2, GrantedStart
  <1>3. ASSUME NEW o, Tick(o) PROVE GrantedLockHolds'
    <2>1. granted = {}
      BY <1>3, GrantedRefuses DEF Tick
    <2> QED
      BY <1>3, <2>1 DEF Tick, GrantedLockHolds
  <1>4. CASE Crash
    BY <1>4 DEF Crash, GrantedLockHolds
  <1>5. CASE Boot
    BY <1>5, GrantedBoot
  <1>6. CASE AbortedBoot
    <2>1. granted = {}
      BY <1>6, GrantedRefuses DEF AbortedBoot
    <2> QED
      BY <1>6, <2>1 DEF AbortedBoot, GrantedLockHolds
  <1>7. ASSUME NEW now, SetClock(now) PROVE GrantedLockHolds'
    BY <1>7 DEF SetClock, GrantedLockHolds
  <1>8. CASE UNCHANGED vars
    BY <1>8 DEF vars, GrantedLockHolds
  <1>9. CASE Request
    BY <1>1, <1>2, <1>9 DEF Request, AddPermanentDomain, RemovePermanentDomain,
       BlockPermanentService, UnblockPermanentService, ChangeNothing
  <1> QED
    BY <1>3, <1>4, <1>5, <1>6, <1>7, <1>8, <1>9
    DEF Next, Heartbeat, AdvanceClock, SetClockBack

\* A confirmed session stays locked in memory and on disk, with its deadline
\* and its domains, until the clock has shown the deadline.
THEOREM GrantedLocksHold == Spec => []GrantedLockHolds
  <1>1. Init => TypeOK /\ GrantedLockHolds
    BY TypeInit, GrantedInit
  <1>2. TypeOK /\ GrantedLockHolds /\ [Next]_vars => (TypeOK /\ GrantedLockHolds)'
    BY TypeNext, GrantedNext
  <1> QED
    BY <1>1, <1>2, PTL DEF Spec
-----------------------------------------------------------------------------
(* The sinkhole matches the policy *)

\* Marking a lapsed session EXPIRED only takes rules away.
LEMMA ExpiryOnlyUnblocks ==
    ASSUME NEW c, NEW s \in SessionState, NEW now
    PROVE  /\ ActiveBlocked(c, AssertNotLocked(s, now)) \subseteq ActiveBlocked(c, s)
           /\ AssertNotLocked(s, now).status # "EXPIRED" => AssertNotLocked(s, now) = s
  <1>1. CASE HasExpired(s, now)
    <2>1. AssertNotLocked(s, now).status = "EXPIRED"
      BY <1>1 DEF AssertNotLocked, CheckExpiration, SessionState
    <2> QED
      BY <2>1 DEF ActiveBlocked, IsLocked
  <1>2. CASE ~HasExpired(s, now)
    BY <1>2 DEF AssertNotLocked, CheckExpiration
  <1> QED
    BY <1>1, <1>2

LEMMA SinkholeNext ==
    TypeOK /\ SinkholeMatchesPolicy /\ [Next]_vars => SinkholeMatchesPolicy'
  <1> SUFFICES ASSUME TypeOK, SinkholeMatchesPolicy, [Next]_vars
               PROVE  SinkholeMatchesPolicy'
    OBVIOUS
  <1>1. CASE Refresh
    BY <1>1 DEF Refresh, SinkholeMatchesPolicy
  <1>2. CASE up /\ UNCHANGED <<up, config, sinkhole>>
             /\ session' = AssertNotLocked(session, clock)
    BY <1>2, ExpiryOnlyUnblocks DEF SinkholeMatchesPolicy, TypeOK
  <1>3. CASE Request
    BY <1>1, <1>2, <1>3 DEF Request, AddPermanentDomain, RemovePermanentDomain,
       BlockPermanentService, UnblockPermanentService, ChangeNothing,
       StartFocusSession, Unlocked
  <1>4. CASE UNCHANGED <<up, config, session, sinkhole>>
    BY <1>4 DEF SinkholeMatchesPolicy
  <1>5. CASE Crash
    BY <1>5 DEF Crash, SinkholeMatchesPolicy
  <1>6. CASE Heartbeat \/ Boot
    BY <1>1, <1>6 DEF Heartbeat, Tick, Boot
  <1>7. CASE AbortedBoot \/ AdvanceClock \/ SetClockBack \/ UNCHANGED vars
    BY <1>4, <1>7 DEF AbortedBoot, AdvanceClock, SetClockBack, SetClock, vars
  <1> QED
    BY <1>3, <1>5, <1>6, <1>7 DEF Next

\* The blocklist in force covers the rules, and equals them unless a lapsed
\* session still waits to be released.
THEOREM SinkholeFollowsPolicy == Spec => []SinkholeMatchesPolicy
  <1>1. Init => TypeOK /\ SinkholeMatchesPolicy
    BY TypeInit DEF Init, SinkholeMatchesPolicy
  <1>2. TypeOK /\ SinkholeMatchesPolicy /\ [Next]_vars
          => (TypeOK /\ SinkholeMatchesPolicy)'
    BY TypeNext, SinkholeNext
  <1> QED
    BY <1>1, <1>2, PTL DEF Spec

-----------------------------------------------------------------------------
(* Confirmed domain rules are stored *)

LEMMA StoredNext ==
    TypeOK /\ ConfirmedDomainsStored /\ [Next]_vars => ConfirmedDomainsStored'
  <1> SUFFICES ASSUME TypeOK, ConfirmedDomainsStored, [Next]_vars
               PROVE  ConfirmedDomainsStored'
    OBVIOUS
  <1>0. /\ config.domains \subseteq Domains
        /\ confirmed = [domains |-> confirmed.domains, services |-> confirmed.services]
        /\ config = [domains |-> config.domains, services |-> config.services]
        /\ disk = [config |-> disk.config, session |-> disk.session]
    BY DEF TypeOK, Config, Document
  <1>1. ASSUME up, up' = up, NEW o, Persist(o), confirmed'.domains \subseteq config'.domains,
               confirmed'.domains \subseteq confirmed.domains \/ o # "save_failed"
        PROVE  ConfirmedDomainsStored'
    <2>1. CASE o = "save_failed"
      BY <1>1, <2>1 DEF Persist, ConfirmedDomainsStored
    <2>2. CASE o # "save_failed"
      <3>1. disk'.config = config'
        BY <1>1, <2>2 DEF Persist
      <3> QED
        BY <1>1, <3>1 DEF ConfirmedDomainsStored
    <2> QED
      BY <2>1, <2>2
  <1>2. ASSUME up, UNCHANGED <<up, disk>>, config'.domains = config.domains,
               confirmed'.domains = confirmed.domains
        PROVE  ConfirmedDomainsStored'
    BY <1>2 DEF ConfirmedDomainsStored
  <1>3. ASSUME NEW i, NEW c, NEW o, AddPermanentDomain(i, c, o)
        PROVE  ConfirmedDomainsStored'
    <2>1. config'.domains = config.domains \cup Named(i, c)
      BY <1>0, <1>3 DEF AddPermanentDomain
    <2>2. confirmed'.domains = IF o = "done" THEN confirmed.domains \cup Named(i, c)
                               ELSE confirmed.domains
      BY <1>0, <1>3 DEF AddPermanentDomain
    <2>3. up /\ up' = up /\ Persist(o)
      BY <1>3 DEF AddPermanentDomain, Unlocked
    <2> QED
      BY <1>1, <2>1, <2>2, <2>3 DEF ConfirmedDomainsStored
  <1>4. ASSUME NEW i, NEW o, RemovePermanentDomain(i, o)
        PROVE  ConfirmedDomainsStored'
    <2>1. config'.domains = config.domains \ {Normalized[i]}
      BY <1>0, <1>4 DEF RemovePermanentDomain
    <2>2. confirmed'.domains = confirmed.domains \ {Normalized[i]}
      BY <1>0, <1>4 DEF RemovePermanentDomain
    <2>3. up /\ up' = up /\ Persist(o)
      BY <1>4 DEF RemovePermanentDomain, Unlocked
    <2> QED
      BY <1>1, <2>1, <2>2, <2>3 DEF ConfirmedDomainsStored
  <1>5. ASSUME NEW i, NEW o, BlockPermanentService(i, o)
        PROVE  ConfirmedDomainsStored'
    <2>1. confirmed'.domains = confirmed.domains
      BY <1>0, <1>5 DEF BlockPermanentService
    <2>2. config'.domains = config.domains
      BY <1>0, <1>5 DEF BlockPermanentService
    <2>3. up /\ up' = up /\ (UNCHANGED disk \/ Persist(o))
      BY <1>5 DEF BlockPermanentService, Unlocked
    <2> QED
      BY <1>1, <1>2, <2>1, <2>2, <2>3 DEF ConfirmedDomainsStored
  <1>6. ASSUME NEW i, NEW o, UnblockPermanentService(i, o)
        PROVE  ConfirmedDomainsStored'
    <2>1. confirmed'.domains = confirmed.domains /\ config'.domains = config.domains
      BY <1>0, <1>6 DEF UnblockPermanentService
    <2>2. up /\ up' = up /\ Persist(o)
      BY <1>6 DEF UnblockPermanentService, Unlocked
    <2> QED
      BY <1>1, <2>1, <2>2 DEF ConfirmedDomainsStored
  <1>7. CASE ChangeNothing
    BY <1>7 DEF ChangeNothing, ConfirmedDomainsStored
  <1>8. ASSUME NEW ds, NEW ss, NEW c, NEW d, NEW o, StartFocusSession(ds, ss, c, d, o)
        PROVE  ConfirmedDomainsStored'
    <2>1. UNCHANGED <<up, config, confirmed>> /\ up /\ Persist(o)
      BY <1>8 DEF StartFocusSession, Unlocked
    <2> QED
      BY <1>1, <2>1 DEF ConfirmedDomainsStored
  <1>9. ASSUME NEW o, Tick(o) PROVE ConfirmedDomainsStored'
    <2>1. UNCHANGED <<up, config, confirmed>> /\ up /\ Persist(o)
      BY <1>9 DEF Tick
    <2> QED
      BY <1>1, <2>1 DEF ConfirmedDomainsStored
  <1>10. CASE Crash
    BY <1>10 DEF Crash, ConfirmedDomainsStored
  <1>11. CASE Boot
    BY <1>0, <1>11 DEF Boot, ConfirmedDomainsStored
  <1>12. CASE AbortedBoot
    BY <1>0, <1>12 DEF AbortedBoot, ConfirmedDomainsStored
  <1>13. CASE UNCHANGED <<up, config, disk, confirmed>>
    BY <1>13 DEF ConfirmedDomainsStored
  <1>14. CASE AdvanceClock \/ SetClockBack \/ UNCHANGED vars
    BY <1>13, <1>14 DEF AdvanceClock, SetClockBack, SetClock, vars
  <1> QED
    BY <1>3, <1>4, <1>5, <1>6, <1>7, <1>8, <1>9, <1>10, <1>11, <1>12, <1>14
    DEF Next, Request, Heartbeat

\* A domain rule the daemon confirmed is on disk and, while it runs, in force.
THEOREM ConfirmedDomainsAreStored == Spec => []ConfirmedDomainsStored
  <1>1. Init => TypeOK /\ ConfirmedDomainsStored
    BY TypeInit DEF Init, EmptyConfig, ConfirmedDomainsStored
  <1>2. TypeOK /\ ConfirmedDomainsStored /\ [Next]_vars
          => (TypeOK /\ ConfirmedDomainsStored)'
    BY TypeNext, StoredNext
  <1> QED
    BY <1>1, <1>2, PTL DEF Spec
-----------------------------------------------------------------------------
(* Nothing changes while a confirmed session lasts *)

LEMMA FrozenStep ==
    ASSUME TypeOK, GrantedLockHolds, [Next]_vars, granted # {}, granted' # {}
    PROVE  /\ granted' = granted
           /\ disk' = disk
           /\ up /\ up' => UNCHANGED engineVars
  <1>1. ~Unlocked
    BY UnlockedMeansNothingGranted
  <1>2. PICK p \in granted : TRUE
    OBVIOUS
  <1>3. /\ up => ~HasExpired(session, clock)
        /\ ~HasExpired(disk.session, clock)
    BY <1>2, GrantedRefuses
  <1>4. ~Request /\ ~Heartbeat /\ ~AbortedBoot
    BY <1>1, <1>3 DEF Request, AddPermanentDomain, RemovePermanentDomain,
       BlockPermanentService, UnblockPermanentService, ChangeNothing,
       StartFocusSession, Heartbeat, Tick, AbortedBoot
  <1>5. CASE Crash
    BY <1>5 DEF Crash
  <1>6. CASE Boot
    <2>1. disk' = [disk EXCEPT !.session = disk.session]
      BY <1>3, <1>6 DEF Boot
    <2>2. disk' = disk
      BY <2>1 DEF TypeOK, Document
    <2> QED
      BY <1>6, <2>2 DEF Boot
  <1>7. CASE AdvanceClock \/ SetClockBack
    <2>1. PICK now : SetClock(now)
      BY <1>7 DEF AdvanceClock, SetClockBack
    <2>2. granted' = granted
      <3>1. granted' = {q \in granted : now < q.expires}
        BY <2>1 DEF SetClock
      <3>2. \A q \in granted : q = [expires |-> q.expires, domains |-> q.domains]
        BY DEF TypeOK
      <3>3. \A q \in granted :
               q.expires = disk.session.expires /\ q.domains = disk.session.domains
        BY DEF GrantedLockHolds
      <3> QED
        BY <3>1, <3>2, <3>3
    <2> QED
      BY <2>1, <2>2 DEF SetClock, engineVars
  <1>8. CASE UNCHANGED vars
    BY <1>8 DEF vars, engineVars
  <1> QED
    BY <1>4, <1>5, <1>6, <1>7, <1>8 DEF Next

\* While a confirmed session lasts no step changes a rule, the session or the
\* document on disk.
THEOREM RulesStayFrozen == Spec => RulesFrozenWhileGranted
  <1>1. TypeOK /\ GrantedLockHolds /\ [Next]_vars
          => [granted # {} /\ granted' # {} =>
                /\ granted' = granted
                /\ disk' = disk
                /\ up /\ up' => UNCHANGED engineVars]_vars
    BY FrozenStep
  <1> QED
    BY <1>1, TypeCorrect, GrantedLocksHold, PTL DEF Spec, RulesFrozenWhileGranted

-----------------------------------------------------------------------------
(* The engine implements FocusPromise *)

LEMMA PromiseInit == Init => Promise!Init
  <1>1. Init => up \in BOOLEAN
    BY Zenon DEF Init
  <1> QED
    BY <1>1 DEF Init, Promise!Init

LEMMA PromiseStep ==
    ASSUME TypeOK, TypeOK', GrantedLockHolds, GrantedLockHolds', [Next]_vars
    PROVE  [Promise!Next]_<<clock, granted, up, sinkhole>>
  <1>1. up' \in BOOLEAN /\ sinkhole' \subseteq Domains /\ clock' \in Int
    BY DEF TypeOK
  <1>2. Promise!Kept(granted', up', sinkhole')
    BY DEF Promise!Kept, GrantedLockHolds
  <1>3. CASE UNCHANGED <<clock, granted>>
    BY <1>1, <1>2, <1>3 DEF Promise!Next, Promise!Enforce
  <1>4. ASSUME NEW now, SetClock(now) PROVE Promise!SetClock
    BY <1>1, <1>4 DEF SetClock, Promise!SetClock
  <1>5. ASSUME NEW ds, NEW ss, NEW c, NEW d \in Durations, NEW o,
               StartFocusSession(ds, ss, c, d, o)
        PROVE  Promise!Next
    <2> DEFINE p == [expires |-> clock + d, domains |-> SessionDomains(ds, ss, c)]
    <2>1. /\ UNCHANGED <<clock, up>> /\ up
          /\ granted' = {p} \/ granted' = granted
      BY <1>5 DEF StartFocusSession, Unlocked
    <2>2. granted = {}
      BY <1>5, UnlockedMeansNothingGranted DEF StartFocusSession
    <2>3. p \in Promise!Promises /\ p.expires > clock
      <3>1. clock + d \in Int /\ clock + d > clock
        BY TimeAssumption DEF TypeOK
      <3> QED
        BY <3>1, SelectedRules DEF Promise!Promises
    <2> HIDE DEF p
    <2>4. CASE granted' = {p}
      BY <1>1, <1>2, <2>1, <2>2, <2>3, <2>4 DEF Promise!Next, Promise!Grant
    <2>5. CASE granted' = granted
      BY <1>3, <2>1, <2>5, <1>1, <1>2 DEF Promise!Next, Promise!Enforce
    <2> QED
      BY <2>1, <2>4, <2>5
  <1>6. CASE Request
    BY <1>3, <1>5, <1>6 DEF Request, AddPermanentDomain, RemovePermanentDomain,
       BlockPermanentService, UnblockPermanentService, ChangeNothing
  <1>7. CASE Heartbeat \/ Crash \/ Boot \/ AbortedBoot \/ UNCHANGED vars
    BY <1>3, <1>7 DEF Heartbeat, Tick, Crash, Boot, AbortedBoot, vars
  <1>8. CASE AdvanceClock \/ SetClockBack
    BY <1>4, <1>8 DEF AdvanceClock, SetClockBack, Promise!Next
  <1> QED
    BY <1>6, <1>7, <1>8 DEF Next

\* Every behaviour of the engine keeps the promise FocusPromise specifies.
THEOREM EngineKeepsPromise == Spec => PromiseKept
  <1>1. TypeOK /\ TypeOK' /\ GrantedLockHolds /\ GrantedLockHolds' /\ [Next]_vars
          => [Promise!Next]_<<clock, granted, up, sinkhole>>
    BY PromiseStep
  <1> QED
    BY <1>1, PromiseInit, TypeCorrect, GrantedLocksHold, PTL
    DEF Spec, PromiseKept, Promise!Spec, Promise!promiseVars

-----------------------------------------------------------------------------
(* The daemon: engine and DNS server together *)

\* The engine's part of every step of the daemon is a step of the engine.
LEMMA EngineRuns == [SystemNext]_systemVars => [Next]_vars
  BY DEF SystemNext, EngineStep, ProcessDies, Outside, Serve, systemVars, Next

\* Between two steps the sinkhole has the rules that the engine gave it.
Coupled ==
    /\ up => rules = Dns!Rules(Bootstrap, sinkhole)
    /\ query = [s \in Slots |-> query[s]]
    /\ confirmed.domains \subseteq NormalNames

SystemInv ==
    /\ TypeOK
    /\ GrantedLockHolds
    /\ SinkholeMatchesPolicy
    /\ ConfirmedDomainsStored
    /\ Coupled

LEMMA CoupledInit == SystemInit => Coupled
  BY DEF SystemInit, Init, Dns!Init, Coupled, EmptyConfig

\* What a client names is a name that rules can be about.
LEMMA NamedNormal ==
    ASSUME NEW i \in Inputs, NEW companions \in BOOLEAN
    PROVE  Named(i, companions) \subseteq NormalNames
  BY NamesAssumption DEF Named

LEMMA ConfirmedNext ==
    ASSUME TypeOK, confirmed.domains \subseteq NormalNames, [Next]_vars
    PROVE  confirmed'.domains \subseteq NormalNames
  <1>0. confirmed = [domains |-> confirmed.domains, services |-> confirmed.services]
    BY DEF TypeOK, Config
  <1>1. CASE \E i \in Inputs, c \in BOOLEAN, o \in Outcomes : AddPermanentDomain(i, c, o)
    <2>1. PICK i \in Inputs, c \in BOOLEAN, o \in Outcomes : AddPermanentDomain(i, c, o)
      BY <1>1
    <2>2. \/ confirmed' = confirmed
          \/ confirmed' = [confirmed EXCEPT !.domains = @ \cup Named(i, c)]
      BY <2>1 DEF AddPermanentDomain
    <2> QED
      BY <1>0, <2>2, NamedNormal
  <1>2. CASE \E i \in Inputs, o \in Outcomes : RemovePermanentDomain(i, o)
    BY <1>0, <1>2 DEF RemovePermanentDomain
  <1>3. CASE \E i \in ServiceInputs, o \in Outcomes :
                BlockPermanentService(i, o) \/ UnblockPermanentService(i, o)
    <2>1. PICK i \in ServiceInputs, o \in Outcomes :
                BlockPermanentService(i, o) \/ UnblockPermanentService(i, o)
      BY <1>3
    <2>2. \/ confirmed' = confirmed
          \/ \E ids : confirmed' = [confirmed EXCEPT !.services = ids]
      BY <2>1 DEF BlockPermanentService, UnblockPermanentService
    <2> QED
      BY <1>0, <2>2
  <1>4. CASE ChangeNothing \/ Heartbeat \/ Crash \/ Boot \/ AbortedBoot
             \/ AdvanceClock \/ SetClockBack \/ UNCHANGED vars
    BY <1>4 DEF ChangeNothing, Heartbeat, Tick, Crash, Boot, AbortedBoot,
       AdvanceClock, SetClockBack, SetClock, vars
  <1>5. CASE \E ds \in SUBSET Inputs, ss \in SUBSET ServiceInputs, c \in BOOLEAN,
                d \in Durations, o \in Outcomes : StartFocusSession(ds, ss, c, d, o)
    BY <1>5 DEF StartFocusSession
  <1> QED
    BY <1>1, <1>2, <1>3, <1>4, <1>5 DEF Next, Request

\* A step of the DNS server is one of one task.
LEMMA OneTaskMoves ==
    ASSUME query = [s \in Slots |-> query[s]]
    PROVE  /\ \A r \in Slots, q \in Dns!Questions : Dns!Receive(r, q) =>
                /\ query' = [s \in Slots |-> query'[s]]
                /\ \A s \in Slots \ {r} : query'[s] = query[s]
           /\ \A r \in Slots :
                Dns!UpstreamFails(r) \/ (\E ttl, records : Dns!UpstreamAnswers(r, ttl, records))
                => /\ query' = [s \in Slots |-> query'[s]]
                   /\ \A s \in Slots \ {r} : query'[s] = query[s]
                   /\ query[r].state = "waiting"
  <1>1. ASSUME NEW r \in Slots, NEW q \in Dns!Questions, Dns!Receive(r, q)
        PROVE  /\ query' = [s \in Slots |-> query'[s]]
               /\ \A s \in Slots \ {r} : query'[s] = query[s]
    BY <1>1 DEF Dns!Receive, Dns!Sink, Dns!Resolve
  <1>2. ASSUME NEW r \in Slots, Dns!UpstreamFails(r)
        PROVE  /\ query' = [s \in Slots |-> query'[s]]
               /\ \A s \in Slots \ {r} : query'[s] = query[s]
               /\ query[r].state = "waiting"
    BY <1>2 DEF Dns!UpstreamFails, Dns!AskNext, Dns!GiveUp
  <1>3. ASSUME NEW r \in Slots, NEW ttl, NEW records, Dns!UpstreamAnswers(r, ttl, records)
        PROVE  /\ query' = [s \in Slots |-> query'[s]]
               /\ \A s \in Slots \ {r} : query'[s] = query[s]
               /\ query[r].state = "waiting"
    BY <1>3 DEF Dns!UpstreamAnswers
  <1> QED
    BY <1>1, <1>2, <1>3

LEMMA CoupledNext ==
    ASSUME TypeOK, Coupled, [SystemNext]_systemVars
    PROVE  Coupled'
  <1>1. confirmed'.domains \subseteq NormalNames
    BY ConfirmedNext, EngineRuns DEF Coupled
  <1>2. CASE EngineStep
    BY <1>1, <1>2 DEF EngineStep, Dns!SetBlockedDomains, Coupled
  <1>3. CASE ProcessDies
    <2>1. query' = [s \in Slots |-> query'[s]] /\ ~up'
      BY <1>3 DEF ProcessDies, Crash, Dns!Restart
    <2> QED
      BY <1>1, <2>1 DEF Coupled
  <1>4. CASE Outside \/ UNCHANGED systemVars
    <2>1. UNCHANGED <<up, sinkhole, rules, query>>
      BY <1>4 DEF Outside, AbortedBoot, AdvanceClock, SetClockBack, SetClock,
         Dns!PassTime, systemVars, vars, dnsVars
    <2> QED
      BY <1>1, <2>1 DEF Coupled
  <1>5. CASE Serve
    <2>1. UNCHANGED <<up, sinkhole, rules>>
      BY <1>5 DEF Serve, vars, Dns!Receive, Dns!UpstreamAnswers, Dns!UpstreamFails
    <2>2. query' = [s \in Slots |-> query'[s]]
      BY <1>5, OneTaskMoves DEF Serve, Coupled
    <2> QED
      BY <1>1, <2>1, <2>2 DEF Coupled
  <1> QED
    BY <1>2, <1>3, <1>4, <1>5 DEF SystemNext

LEMMA SystemInvariance == SystemSpec => []SystemInv
  <1>1. SystemInit => SystemInv
    BY TypeInit, GrantedInit, CoupledInit
       DEF SystemInit, SystemInv, Init, SinkholeMatchesPolicy, ConfirmedDomainsStored,
           EmptyConfig
  <1>2. SystemInv /\ [SystemNext]_systemVars => SystemInv'
    BY EngineRuns, TypeNext, GrantedNext, SinkholeNext, StoredNext, CoupledNext
       DEF SystemInv
  <1> QED
    BY <1>1, <1>2, PTL DEF SystemSpec

\* Only a running daemon takes a query, and its first step decides it: by the
\* rules in force then, and finally if they forbid the name.
LEMMA ArrivalDecides ==
    ASSUME Coupled, [SystemNext]_systemVars, NEW s \in Slots, Arrives(s)
    PROVE  LET t == query'[s]
               sunk == Dns!Blocked(t.question[1])
           IN  /\ up
               /\ t.action = IF sunk THEN "BLOCKED" ELSE "ALLOWED"
               /\ sunk => t.state = "done" /\ t.reply \in {Dns!Sinkholed, Dns!NoReply}
  <1>1. query'[s] # query[s] /\ query[s].state # "waiting"
    BY DEF Arrives
  <1>2. Serve
    <2>1. ~ProcessDies
      BY <1>1 DEF ProcessDies, Dns!Restart
    <2> QED
      BY <1>1, <2>1 DEF SystemNext, EngineStep, Outside, systemVars, dnsVars,
         Dns!SetBlockedDomains, Dns!PassTime
  <1>3. PICK q \in Dns!Questions : Dns!Receive(s, q)
    <2>1. \A r \in Slots, q \in Dns!Questions : Dns!Receive(r, q) => r = s
      BY <1>1, OneTaskMoves DEF Coupled
    <2>2. \A r \in Slots : \A ttl, records :
            ~Dns!UpstreamFails(r) /\ ~Dns!UpstreamAnswers(r, ttl, records)
      BY <1>1, OneTaskMoves DEF Coupled
    <2> QED
      BY <1>2, <2>1, <2>2 DEF Serve
  <1>4. CASE Dns!Blocked(q[1])
    <2>1. query'[s] = [Dns!Arrived(q) EXCEPT !.reply = Dns!Written(q, Dns!Sinkholed)]
      BY <1>3, <1>4 DEF Dns!Receive, Dns!Sink, Coupled
    <2> QED
      BY <1>2, <1>4, <2>1 DEF Serve, Dns!Arrived, Dns!Written
  <1>5. CASE ~Dns!Blocked(q[1])
    <2>1. query'[s].question = q /\ query'[s].action = "ALLOWED"
      BY <1>3, <1>5 DEF Dns!Receive, Dns!Resolve, Dns!Arrived, Coupled
    <2> QED
      BY <1>2, <1>5, <2>1 DEF Serve
  <1> QED
    BY <1>4, <1>5

LEMMA MatchesMore ==
    ASSUME NEW key, NEW tree, NEW more, tree \subseteq more, Dns!MatchesTree(key, tree)
    PROVE  Dns!MatchesTree(key, more) /\ key # <<>>
  <1>1. PICK i \in 1 .. Len(key) : SubSeq(key, 1, i) \in tree
    BY DEF Dns!MatchesTree
  <1>2. key # <<>>
    BY <1>1
  <1> QED
    BY <1>1, <1>2 DEF Dns!MatchesTree

\* What clients were told is blocked is among the rules of the sinkhole.
LEMMA PromisedAreRules ==
    ASSUME SystemInv, up
    PROVE  Promised \subseteq rules
  <1>1. rules = Bootstrap \cup (sinkhole \cap NormalNames)
    BY DEF SystemInv, Coupled, Dns!Rules
  <1>2. confirmed.domains \subseteq sinkhole \cap NormalNames
    BY DEF SystemInv, Coupled, ConfirmedDomainsStored, SinkholeMatchesPolicy, ActiveBlocked
  <1>3. \A p \in granted : p.domains \subseteq sinkhole
    BY DEF SystemInv, GrantedLockHolds
  <1> QED
    BY <1>1, <1>2, <1>3 DEF Promised

\* From a client's request to the answer of a query, through every failure,
\* crash and restart between: what the daemon said it blocks, it resolves for
\* nobody.
THEOREM PromisedNamesAreRefused == SystemSpec => PromisedNamesRefused
  <1>1. ASSUME SystemInv, [SystemNext]_systemVars, NEW s \in Slots, Arrives(s),
               Dns!MatchesTree(query'[s].question[1], Promised),
               ~Dns!MatchesTree(query'[s].question[1], Essential)
        PROVE  /\ query'[s].state = "done" /\ query'[s].action = "BLOCKED"
               /\ query'[s].reply \in {Dns!Sinkholed, Dns!NoReply}
    <2>1. Coupled /\ up
      BY <1>1, ArrivalDecides DEF SystemInv
    <2>2. Dns!Blocked(query'[s].question[1])
      BY <1>1, <2>1, PromisedAreRules, MatchesMore DEF Dns!Blocked, Dns!IsBlocked
    <2> QED
      BY <1>1, <2>1, <2>2, ArrivalDecides
  <1>2. SystemInv /\ [SystemNext]_systemVars =>
          [\A s \in Slots :
            LET name == query'[s].question[1] IN
            /\ Arrives(s)
            /\ Dns!MatchesTree(name, Promised) /\ ~Dns!MatchesTree(name, Essential)
            => /\ query'[s].state = "done" /\ query'[s].action = "BLOCKED"
               /\ query'[s].reply \in {Dns!Sinkholed, Dns!NoReply}]_systemVars
    BY <1>1
  <1> QED
    BY <1>2, SystemInvariance, PTL DEF SystemSpec, PromisedNamesRefused

\* What no rule in force is about, the daemon does not sink: a session that has
\* been released leaves nothing in the way of a query.
THEOREM OtherNamesAreResolved == SystemSpec => OtherNamesResolved
  <1>. DEFINE Free(name) ==
        \/ Dns!MatchesTree(name, Essential)
        \/ /\ session.status # "EXPIRED"
           /\ ~Dns!MatchesTree(name, Dns!Rules(Bootstrap, ActiveBlocked(config, session)))
  <1>1. ASSUME SystemInv, [SystemNext]_systemVars, NEW s \in Slots, Arrives(s),
               Free(query'[s].question[1])
        PROVE  query'[s].action = "ALLOWED"
    <2>1. Coupled /\ up
      BY <1>1, ArrivalDecides DEF SystemInv
    <2>2. session.status # "EXPIRED" => rules = Dns!Rules(Bootstrap, ActiveBlocked(config, session))
      BY <1>1, <2>1 DEF SystemInv, Coupled, SinkholeMatchesPolicy
    <2>3. ~Dns!Blocked(query'[s].question[1])
      BY <1>1, <2>2 DEF Dns!Blocked, Dns!IsBlocked
    <2> QED
      BY <1>1, <2>1, <2>3, ArrivalDecides
  <1>2. SystemInv /\ [SystemNext]_systemVars =>
          [\A s \in Slots :
            LET name == query'[s].question[1] IN
            /\ Arrives(s)
            /\ \/ Dns!MatchesTree(name, Essential)
               \/ /\ session.status # "EXPIRED"
                  /\ ~Dns!MatchesTree(name, Dns!Rules(Bootstrap, ActiveBlocked(config, session)))
            => query'[s].action = "ALLOWED"]_systemVars
    BY <1>1
  <1> QED
    BY <1>2, SystemInvariance, PTL DEF SystemSpec, OtherNamesResolved

\* The daemon runs the engine and the DNS server as their own modules have
\* them, so what holds of each of these alone holds in the daemon.
THEOREM DaemonRunsItsParts == SystemSpec => Spec /\ Dns!Spec
  <1>1. SystemInit => Init /\ Dns!Init
    BY DEF SystemInit
  <1>2. ASSUME SystemInv, SystemInv', [SystemNext]_systemVars
        PROVE  [Dns!Next]_(Dns!vars)
    <2>1. CASE EngineStep
      <3>1. sinkhole' \in SUBSET Domains
        BY <1>2 DEF SystemInv, TypeOK
      <3> QED
        BY <2>1, <3>1 DEF EngineStep, Dns!Next
    <2>2. CASE ProcessDies
      BY <2>2 DEF ProcessDies, Dns!Next
    <2>3. CASE Outside \/ UNCHANGED systemVars
      BY <2>3 DEF Outside, Dns!Next, Dns!vars, dnsVars, systemVars
    <2>4. CASE Serve
      BY <2>4 DEF Serve, Dns!Next
    <2> QED
      BY <1>2, <2>1, <2>2, <2>3, <2>4 DEF SystemNext
  <1> QED
    BY <1>1, <1>2, EngineRuns, SystemInvariance, PTL DEF SystemSpec, Spec, Dns!Spec
=============================================================================
