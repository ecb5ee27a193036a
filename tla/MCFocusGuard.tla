---------------------------- MODULE MCFocusGuard ----------------------------
(***************************************************************************)
(* A small instance of FocusGuard: one client asks for a clip below the    *)
(* domain that sessions and rules are about, and for an essential name     *)
(* below it.  The site's companion is the bootstrap name; a service has a  *)
(* wildcard that makes no rule.                                            *)
(***************************************************************************)
EXTENDS FocusGuard, Sequences

video == <<"com", "video">>
cdn == <<"net", "cdn">>
wild == <<"com", "app", "edge-*">>
clip == <<"com", "video", "clip">>
ntp == <<"com", "video", "ntp">>

MCDomains == {video, cdn, wild}
MCNormalNames == {video, cdn}
MCNames == {clip, ntp}
MCEssential == {ntp}
MCBootstrap == {cdn}
MCInputs == {"https://video.com", "no domain"}
MCNormalized == [i \in {"https://video.com"} |-> video]
MCCompanionsOf == [d \in MCDomains |-> IF d = video THEN {cdn} ELSE {}]
MCServices == {"svc"}
MCServiceNamed == [i \in {"svc"} |-> "svc"]
MCDomainsOf == [s \in MCServices |-> {video, wild}]
=============================================================================
