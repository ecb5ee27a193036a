--------------------------- MODULE DomainSinkhole ---------------------------
(***************************************************************************)
(* DomainSinkhole (dns/sinkhole.py): which names the daemon answers with a *)
(* sinkhole address.  A name is the sequence of its labels from the top    *)
(* level down, as _domain_to_key makes it: <<"com", "youtube", "www">>.    *)
(* A rule for a name covers the names below it.                            *)
(***************************************************************************)
EXTENDS Sequences, Integers

CONSTANTS
    Essential,  \* ESSENTIAL_SYSTEM_DOMAINS
    Bootstrap,  \* DOH_BOOTSTRAP_DOMAINS, or {} when block_doh is off
    NormalNames \* the names normalize_domain accepts

ASSUME SinkholeAssumption ==
    Essential \cup Bootstrap \cup NormalNames \subseteq Seq(STRING) \ {<<>>}

\* Mutant: only the name itself and the rule one label up are looked at.
MatchesTree_Shallow(key, tree) ==
    \E i \in 1 .. Len(key) : i + 1 >= Len(key) /\ SubSeq(key, 1, i) \in tree

\* _matches_tree: some prefix of the name, itself included, is a rule.
MatchesTree(key, tree) == \E i \in 1 .. Len(key) : SubSeq(key, 1, i) \in tree

IsPrefix(name, other) ==
    Len(name) <= Len(other) /\ SubSeq(other, 1, Len(name)) = name

\* No name of the one list lies at or below a name of the other.
ASSUME ListsApart ==
    \A e \in Essential, b \in Bootstrap : ~IsPrefix(e, b) /\ ~IsPrefix(b, e)

\* Mutant: new rules replace the fixed ones as well.
Rules_NoFixed(fixed, domains) == domains \cap NormalNames

\* The rule set that set_blocked_domains and set_allowed_domains build: fixed
\* names, and those given that normalize_domain accepts.
Rules(fixed, domains) == fixed \cup (domains \cap NormalNames)

\* Mutant: the essential names are looked up after the other rules.
IsBlocked_EssentialLast(key, allowlist, blocked, allowed) ==
    /\ key # <<>>
    /\ IF allowlist THEN ~MatchesTree(key, allowed)
       ELSE MatchesTree(key, blocked)

\* is_blocked.
IsBlocked(key, allowlist, blocked, allowed) ==
    /\ key # <<>>
    /\ ~MatchesTree(key, Essential)
    /\ IF allowlist THEN ~MatchesTree(key, allowed)
       ELSE MatchesTree(key, blocked)
=============================================================================
