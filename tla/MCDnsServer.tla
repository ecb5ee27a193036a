---------------------------- MODULE MCDnsServer ----------------------------
(* Small instances of DnsServer: two tasks; a name with a rule above it, an *)
(* essential name under the same rule, and a bootstrap name.               *)
EXTENDS DnsServer, TLC

CONSTANTS s1, s2

video == <<"com", "video">>
clip == <<"com", "video", "www", "clip">>
ntp == <<"com", "video", "ntp">>
doh == <<"doh">>

MCSlots == {s1, s2}

MCEssential == {ntp}
MCBootstrap == {doh}
MCNormalNames == {video, clip, doh, ntp}
MCNames == {clip, ntp, doh}
MCRuleSets == {{}, {video}}
ClipOnly == {clip}
=============================================================================
