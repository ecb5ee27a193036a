--------------------------- MODULE MCPolicyEngine ---------------------------
(***************************************************************************)
(* A small instance of PolicyEngine.  Site "a" has the companion "cdn"; a  *)
(* service owns "app"; "vpn" is a bypass domain.  One domain input in two  *)
(* and one service name in two is refused.                                 *)
(***************************************************************************)
EXTENDS PolicyEngine

MCDomains == {"a", "cdn", "app", "vpn"}
MCServices == {"svc"}
MCInputs == {"https://a", "not a domain"}
MCNormalized == [i \in {"https://a"} |-> "a"]
MCCompanionsOf == [d \in MCDomains |-> IF d = "a" THEN {"cdn"} ELSE {}]
MCServiceInputs == {"svc", "unknown"}
MCServiceNamed == [i \in {"svc"} |-> "svc"]
MCDomainsOf == [s \in MCServices |-> {"app"}]
MCBypassDomains == {"vpn"}
=============================================================================
