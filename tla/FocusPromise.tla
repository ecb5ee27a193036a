---------------------------- MODULE FocusPromise ----------------------------
(***************************************************************************)
(* What FocusGuard promises to whoever starts a focus session, with none   *)
(* of the machinery: from the moment a start is confirmed until the wall   *)
(* clock has shown the deadline, the daemon never answers DNS queries      *)
(* under a blocklist that misses a domain of the session.  Being down      *)
(* breaks no promise, since then nothing is resolved; the clock may be set *)
(* to anything, and only reaching the deadline ends a promise.             *)
(***************************************************************************)
EXTENDS Integers

CONSTANT Domains

VARIABLES clock,     \* the wall clock
          promised,  \* the promises in force: none or one [expires, domains]
          serving,   \* the daemon answers DNS queries
          blocked    \* the domains it refuses to resolve while it serves

promiseVars == <<clock, promised, serving, blocked>>

Promises == [expires : Int, domains : SUBSET Domains]

Kept(ps, isServing, blocklist) ==
    isServing => \A p \in ps : p.domains \subseteq blocklist

Init ==
    /\ clock \in Int
    /\ promised = {}
    /\ serving \in BOOLEAN
    /\ blocked \subseteq Domains

\* The clock moves, by itself or by hand; a promise whose deadline it shows
\* is over.
SetClock ==
    /\ clock' \in Int
    /\ promised' = {p \in promised : clock' < p.expires}
    /\ UNCHANGED <<serving, blocked>>

\* A start is confirmed; there is no promise in force to replace.
Grant ==
    /\ promised = {}
    /\ \E p \in promised' : promised' = {p} /\ p \in Promises /\ p.expires > clock
    /\ serving /\ serving'
    /\ blocked' \subseteq Domains
    /\ Kept(promised', serving', blocked')
    /\ UNCHANGED clock

\* Any other step: the blocklist changes, the daemon stops or comes back.
Enforce ==
    /\ serving' \in BOOLEAN
    /\ blocked' \subseteq Domains
    /\ Kept(promised, serving', blocked')
    /\ UNCHANGED <<clock, promised>>

Next == SetClock \/ Grant \/ Enforce

Spec == Init /\ [][Next]_promiseVars
=============================================================================
