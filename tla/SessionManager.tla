--------------------------- MODULE SessionManager ---------------------------
(***************************************************************************)
(* The locked-session state machine of core/session.py, as operators on    *)
(* the session record SessionManager keeps in `self.state`.                *)
(*                                                                         *)
(* A session keeps the fields the lock depends on: its status, the UTC     *)
(* instants it was created at and expires at, and the domains and services *)
(* it blocks.  Instants are whole seconds; NoTime is Python's None.  The   *)
(* session id, the duration shown to the user and the boot id only travel  *)
(* to logs and status output and are left out.                             *)
(***************************************************************************)
EXTENDS Integers

CONSTANTS Domains,     \* every domain name the policy can mention
          Services     \* the ids of the service registry

NoTime == -1
Instant == Nat \cup {NoTime}

SessionState ==
    [status   : {"IDLE", "LOCKED", "EXPIRED"},
     created  : Instant,
     expires  : Instant,
     domains  : SUBSET Domains,
     services : SUBSET Services]

\* SessionState() with its defaults: what release_expired installs.
IdleSession ==
    [status |-> "IDLE", created |-> NoTime, expires |-> NoTime,
     domains |-> {}, services |-> {}]

IsLocked(s) == s.status = "LOCKED"

RemainingSeconds(s, now) ==
    IF IsLocked(s) /\ s.expires > now THEN s.expires - now ELSE 0

\* The condition under which assert_not_locked and start_session raise
\* LockedSessionError.
Refuses(s, now) == IsLocked(s) /\ RemainingSeconds(s, now) > 0

\* The state start_session installs.
NewSession(now, expires, domains, services) ==
    [status |-> "LOCKED", created |-> now, expires |-> expires,
     domains |-> domains, services |-> services]

ClockRolledBack(s, now) == now < s.created

\* Mutant: a clock set back behind the start ends the session.
HasExpired_OnRollback(s, now) ==
    IsLocked(s) /\ (ClockRolledBack(s, now) \/ now >= s.expires)

\* Mutant: the deadline itself does not count as reached.
HasExpired_Late(s, now) ==
    IsLocked(s) /\ ~ClockRolledBack(s, now) /\ now > s.expires

\* check_expiration's verdict ...
HasExpired(s, now) ==
    IsLocked(s) /\ ~ClockRolledBack(s, now) /\ now >= s.expires

\* ... and the state it leaves behind.
CheckExpiration(s, now) ==
    IF HasExpired(s, now) THEN [s EXCEPT !.status = "EXPIRED"] ELSE s

\* The state assert_not_locked leaves behind when it does not raise: a
\* lapsed session that no tick has seen yet is marked EXPIRED on the way.
AssertNotLocked(s, now) == CheckExpiration(s, now)
=============================================================================
