---------------------------- MODULE PolicyEngine ----------------------------
(***************************************************************************)
(* PolicyEngine (core/policy.py) with its session manager, the blocklist   *)
(* it installs in the DNS sinkhole and the document it keeps on disk:      *)
(* requests from clients, the daemon's one-second tick, crashes, restarts  *)
(* and a wall clock that others may set.                                   *)
(*                                                                         *)
(* Every method runs to completion on the event loop, so each is one       *)
(* action.  A request refused before it changed anything                   *)
(* (LockedSessionError, a bad duration) is no step.  What may fail inside  *)
(* a method is its save to disk, or the audit record after it: see Persist. *)
(* assert_not_locked reads the clock twice, microseconds apart; the two    *)
(* readings are taken as one.                                              *)
(***************************************************************************)
EXTENDS SessionManager

CONSTANTS
    Inputs,         \* domain strings a client may send
    Normalized,     \* normalize_domain on the inputs it accepts; it raises
                    \* InvalidDomainError on every other one
    CompanionsOf,   \* get_companion_domains
    ServiceInputs,  \* service names a client may send
    ServiceNamed,   \* get_service on the names it knows: id or alias
    DomainsOf,      \* all_domains of a service
    BypassDomains,  \* VPN and DoH provider domains (block_vpns, block_doh)
    Durations,      \* session lengths, in seconds
    Horizon,        \* bound: last instant the clock reaches
    MaxFaults       \* bound: crashes, failed writes and clock set-backs

ASSUME InputsAssumption ==
    /\ DOMAIN Normalized \subseteq Inputs
    /\ \A i \in DOMAIN Normalized : Normalized[i] \in Domains
    /\ CompanionsOf \in [Domains -> SUBSET Domains]
ASSUME ServicesAssumption ==
    /\ DOMAIN ServiceNamed \subseteq ServiceInputs
    /\ \A i \in DOMAIN ServiceNamed : ServiceNamed[i] \in Services
    /\ DomainsOf \in [Services -> SUBSET Domains]
ASSUME BypassAssumption == BypassDomains \subseteq Domains
ASSUME TimeAssumption ==
    /\ Durations \subseteq Nat \ {0}
    /\ Horizon \in Nat
    /\ MaxFaults \in Nat

VARIABLES
    up,         \* the daemon runs
    clock,      \* get_current_utc()
    config,     \* config.permanent_domains and config.permanent_services
    session,    \* session_mgr.state
    sinkhole,   \* the blocklist in force: sinkhole.blocked_domains
    disk,       \* state.json
    faults,     \* faults so far, bounded by MaxFaults
    granted,    \* what clients know: the confirmed start, until its deadline
    confirmed   \* what clients know: rules whose last request was a
                \* confirmed addition

engineVars == <<config, session, sinkhole>>
vars == <<up, clock, config, session, sinkhole, disk, faults, granted, confirmed>>

Config == [domains : SUBSET Domains, services : SUBSET Services]
EmptyConfig == [domains |-> {}, services |-> {}]
Document == [config : Config, session : SessionState]

TypeOK ==
    /\ up \in BOOLEAN
    /\ clock \in Nat
    /\ config \in Config
    /\ session \in SessionState
    /\ sinkhole \in SUBSET Domains
    /\ disk \in Document
    /\ faults \in Nat
    /\ granted \in SUBSET [expires : Nat, domains : SUBSET Domains]
    /\ confirmed \in Config

-----------------------------------------------------------------------------
(* Helpers *)

DomainsOfServices(ids) == UNION {DomainsOf[id] : id \in ids}

\* Mutant: of a locked session only the services count.
ActiveBlocked_NoSessionDomains(c, s) ==
    c.domains \cup DomainsOfServices(c.services) \cup BypassDomains
      \cup (IF IsLocked(s) THEN DomainsOfServices(s.services) ELSE {})

\* _get_all_active_blocked_domains
ActiveBlocked(c, s) ==
    c.domains \cup DomainsOfServices(c.services) \cup BypassDomains
      \cup (IF IsLocked(s) THEN s.domains \cup DomainsOfServices(s.services) ELSE {})

\* The domains a client names with one input, its companions if asked for.
Named(input, companions) ==
    IF input \notin DOMAIN Normalized THEN {}
    ELSE {Normalized[input]} \cup
         (IF companions THEN CompanionsOf[Normalized[input]] ELSE {})

ServicesNamed(inputs) == {ServiceNamed[i] : i \in inputs \cap DOMAIN ServiceNamed}

\* How the end of a method goes: all well, _save_state raises (the document
\* on disk stays), or log_store.record raises after the save.  In the last
\* two the client gets an error, whatever was changed stays changed.
Outcomes == {"done", "save_failed", "log_failed"}

Faulty(outcome) ==
    IF outcome = "done" THEN UNCHANGED faults
    ELSE faults < MaxFaults /\ faults' = faults + 1

Refresh == sinkhole' = ActiveBlocked(config', session')

Persist(outcome) ==
    /\ disk' = IF outcome = "save_failed" THEN disk
               ELSE [config |-> config', session |-> session']
    /\ Faulty(outcome)

\* Mutant: assert_not_locked is not called.
Unlocked_NotAsserted == up

\* assert_not_locked, or the check in start_session, lets the request pass.
Unlocked == up /\ ~Refuses(session, clock)

-----------------------------------------------------------------------------
(* Requests *)

\* Mutant: a domain already on the list is confirmed without a save.
AddPermanentDomain_SavesNewOnly(input, companions, outcome) ==
    /\ Unlocked
    /\ input \in DOMAIN Normalized
    /\ session' = AssertNotLocked(session, clock)
    /\ config' = [config EXCEPT !.domains = @ \cup Named(input, companions)]
    /\ Refresh
    /\ IF config' = config THEN outcome = "done" /\ UNCHANGED <<disk, faults>>
       ELSE Persist(outcome)
    /\ confirmed' = IF outcome = "done"
                    THEN [confirmed EXCEPT !.domains = @ \cup Named(input, companions)]
                    ELSE confirmed
    /\ UNCHANGED <<up, clock, granted>>

AddPermanentDomain(input, companions, outcome) ==
    /\ Unlocked
    /\ input \in DOMAIN Normalized
    /\ session' = AssertNotLocked(session, clock)
    /\ config' = [config EXCEPT !.domains = @ \cup Named(input, companions)]
    /\ Refresh
    /\ Persist(outcome)
    /\ confirmed' = IF outcome = "done"
                    THEN [confirmed EXCEPT !.domains = @ \cup Named(input, companions)]
                    ELSE confirmed
    /\ UNCHANGED <<up, clock, granted>>

RemovePermanentDomain(input, outcome) ==
    /\ Unlocked
    /\ input \in DOMAIN Normalized
    /\ Normalized[input] \in config.domains
    /\ session' = AssertNotLocked(session, clock)
    /\ config' = [config EXCEPT !.domains = @ \ {Normalized[input]}]
    /\ Refresh
    /\ Persist(outcome)
    /\ confirmed' = [confirmed EXCEPT !.domains = @ \ {Normalized[input]}]
    /\ UNCHANGED <<up, clock, granted>>

\* A service already on the list is reported as blocked without a save.
BlockPermanentService(input, outcome) ==
    /\ Unlocked
    /\ input \in DOMAIN ServiceNamed
    /\ session' = AssertNotLocked(session, clock)
    /\ IF ServiceNamed[input] \in config.services
       THEN outcome = "done" /\ UNCHANGED <<config, sinkhole, disk, faults>>
       ELSE /\ config' = [config EXCEPT !.services = @ \cup {ServiceNamed[input]}]
            /\ Refresh
            /\ Persist(outcome)
    /\ confirmed' = IF outcome = "done"
                    THEN [confirmed EXCEPT !.services = @ \cup {ServiceNamed[input]}]
                    ELSE confirmed
    /\ UNCHANGED <<up, clock, granted>>

UnblockPermanentService(input, outcome) ==
    /\ Unlocked
    /\ input \in DOMAIN ServiceNamed
    /\ ServiceNamed[input] \in config.services
    /\ session' = AssertNotLocked(session, clock)
    /\ config' = [config EXCEPT !.services = @ \ {ServiceNamed[input]}]
    /\ Refresh
    /\ Persist(outcome)
    /\ confirmed' = [confirmed EXCEPT !.services = @ \ {ServiceNamed[input]}]
    /\ UNCHANGED <<up, clock, granted>>

\* A request that passes assert_not_locked and then changes no rule: stop,
\* gateway_disable as far as the policy goes, a domain that does not parse,
\* a service nobody knows, the removal of a rule that is not there.
ChangeNothing ==
    /\ Unlocked
    /\ session' = AssertNotLocked(session, clock)
    /\ UNCHANGED <<up, clock, config, sinkhole, disk, faults, granted, confirmed>>

SessionDomains(domainInputs, serviceInputs, companions) ==
    IF domainInputs = {} /\ serviceInputs = {}
    THEN config.domains \cup DomainsOfServices(config.services)
    ELSE DomainsOfServices(ServicesNamed(serviceInputs))
           \cup UNION {Named(i, companions) : i \in domainInputs}

SessionServices(domainInputs, serviceInputs) ==
    IF domainInputs = {} /\ serviceInputs = {}
    THEN config.services
    ELSE ServicesNamed(serviceInputs)

\* start_session is the only guard here: assert_not_locked is not called, and
\* a lapsed session that no tick has released is replaced.
StartFocusSession(domainInputs, serviceInputs, companions, duration, outcome) ==
    LET domains == SessionDomains(domainInputs, serviceInputs, companions)
    IN  /\ Unlocked
        /\ clock + duration <= Horizon
        /\ domains # {}
        /\ session' = NewSession(clock, clock + duration, domains,
                                 SessionServices(domainInputs, serviceInputs))
        /\ UNCHANGED config
        /\ Refresh
        /\ Persist(outcome)
        /\ granted' = IF outcome = "done"
                      THEN {[expires |-> clock + duration, domains |-> domains]}
                      ELSE granted
        /\ UNCHANGED <<up, clock, confirmed>>

-----------------------------------------------------------------------------
(* The heartbeat, the process and its clock *)

\* Mutant: the released session's domains stay in the sinkhole.
Tick_NoRefresh(outcome) ==
    /\ up
    /\ HasExpired(session, clock)
    /\ session' = IdleSession
    /\ UNCHANGED <<config, sinkhole>>
    /\ Persist(outcome)
    /\ UNCHANGED <<up, clock, granted, confirmed>>

Tick(outcome) ==
    /\ up
    /\ HasExpired(session, clock)
    /\ session' = IdleSession
    /\ UNCHANGED config
    /\ Refresh
    /\ Persist(outcome)
    /\ UNCHANGED <<up, clock, granted, confirmed>>

\* The process dies, or is stopped: memory is gone, the document stays.
Crash ==
    /\ up
    /\ faults < MaxFaults
    /\ faults' = faults + 1
    /\ up' = FALSE
    /\ config' = EmptyConfig
    /\ session' = IdleSession
    /\ sinkhole' = {}
    /\ UNCHANGED <<clock, disk, granted, confirmed>>

\* PolicyEngine.__init__ on the document load returns.
Boot ==
    /\ ~up
    /\ up' = TRUE
    /\ config' = disk.config
    /\ session' = IF HasExpired(disk.session, clock) THEN IdleSession ELSE disk.session
    /\ disk' = [disk EXCEPT !.session = session']
    /\ Refresh
    /\ UNCHANGED <<clock, faults, granted, confirmed>>

\* An __init__ that raises ends the process before it serves.  If its save
\* raised nothing has happened; if its audit record did, a lapsed session has
\* been released on disk already.
AbortedBoot ==
    /\ ~up
    /\ HasExpired(disk.session, clock)
    /\ disk' = [disk EXCEPT !.session = IdleSession]
    /\ Faulty("log_failed")
    /\ UNCHANGED <<up, clock, config, session, sinkhole, granted, confirmed>>

SetClock(now) ==
    /\ clock' = now
    /\ granted' = {p \in granted : now < p.expires}
    /\ UNCHANGED <<up, config, session, sinkhole, disk, confirmed>>

AdvanceClock ==
    \E now \in clock + 1 .. Horizon : SetClock(now) /\ UNCHANGED faults

SetClockBack ==
    /\ faults < MaxFaults
    /\ faults' = faults + 1
    /\ \E now \in 0 .. clock - 1 : SetClock(now)

-----------------------------------------------------------------------------
\* The first document is the default one load writes when there is none.
Init ==
    /\ up = FALSE
    /\ clock = 0
    /\ config = EmptyConfig
    /\ session = IdleSession
    /\ sinkhole = {}
    /\ disk = [config |-> EmptyConfig, session |-> IdleSession]
    /\ faults = 0
    /\ granted = {}
    /\ confirmed = EmptyConfig

Request ==
    \/ \E i \in Inputs, c \in BOOLEAN, o \in Outcomes : AddPermanentDomain(i, c, o)
    \/ \E i \in Inputs, o \in Outcomes : RemovePermanentDomain(i, o)
    \/ \E i \in ServiceInputs, o \in Outcomes : BlockPermanentService(i, o)
    \/ \E i \in ServiceInputs, o \in Outcomes : UnblockPermanentService(i, o)
    \/ ChangeNothing
    \/ \E ds \in SUBSET Inputs, ss \in SUBSET ServiceInputs, c \in BOOLEAN,
          d \in Durations, o \in Outcomes : StartFocusSession(ds, ss, c, d, o)

Heartbeat == \E o \in Outcomes : Tick(o)

Next ==
    \/ Request
    \/ Heartbeat
    \/ Crash
    \/ Boot
    \/ AbortedBoot
    \/ AdvanceClock
    \/ SetClockBack

Spec == Init /\ [][Next]_vars

\* Time passes, the heartbeat loop keeps calling tick, and systemd restarts
\* the daemon (Restart=always).  Nobody has to send requests.
FairSpec ==
    /\ Spec
    /\ WF_vars(AdvanceClock)
    /\ WF_vars(Heartbeat)
    /\ WF_vars(Boot)
-----------------------------------------------------------------------------
(* Properties *)

\* The blocklist the DNS server consults is the one the rules ask for: every
\* path that changes rules or session refreshes it, failed saves and restarts
\* included.  A session marked EXPIRED by assert_not_locked may leave its
\* domains behind, never unblock a rule.
SinkholeMatchesPolicy ==
    up => /\ ActiveBlocked(config, session) \subseteq sinkhole
          /\ session.status # "EXPIRED" => sinkhole = ActiveBlocked(config, session)

\* A confirmed focus session is locked, in memory while the daemon runs and on
\* disk always, with the deadline and the domains its client was told, until
\* the clock has shown that deadline - whatever clients ask for, however saves
\* fail, through crashes, restarts and set-backs of the clock.
GrantedLockHolds ==
    \A p \in granted :
        /\ clock < p.expires
        /\ IsLocked(disk.session)
        /\ disk.session.expires = p.expires
        /\ disk.session.domains = p.domains
        /\ up => session = disk.session /\ p.domains \subseteq sinkhole

\* A domain rule the daemon confirmed is in force and would survive a crash:
\* also when an earlier attempt failed half way and the client retried.
ConfirmedDomainsStored ==
    /\ confirmed.domains \subseteq disk.config.domains
    /\ up => confirmed.domains \subseteq config.domains

\* The same for service rules.
ConfirmedServicesStored ==
    confirmed.services \subseteq disk.config.services

\* While a confirmed session lasts no step weakens what is blocked: the rules
\* stay as they are in memory and on disk, none is even added.
RulesFrozenWhileGranted ==
    [][granted # {} /\ granted' # {} =>
         /\ granted' = granted
         /\ disk' = disk
         /\ up /\ up' => UNCHANGED engineVars]_vars

\* The engine implements the promise.
Promise == INSTANCE FocusPromise WITH
    promised <- granted, serving <- up, blocked <- sinkhole
PromiseKept == Promise!Spec

\* A lock always ends: a daemon that finds itself locked will one day run
\* unlocked, whatever crashes in between.
LockLapses == (up /\ IsLocked(session)) ~> (up /\ ~IsLocked(session))

\* A session's deadline has passed and its rules still block something the
\* normal policy allows.
Overdue ==
    /\ up
    /\ session.status # "IDLE"
    /\ clock >= session.expires
    /\ sinkhole # ActiveBlocked(config, IdleSession)

\* Session rules are lifted automatically once the deadline is reached.
RulesLiftedAtDeadline == Overdue ~> ~Overdue
=============================================================================
