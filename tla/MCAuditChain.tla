----------------------------- MODULE MCAuditChain -----------------------------
(* Small instances of AuditChain for TLC.                                      *)
EXTENDS AuditChain, TLC

CONSTANTS e1, e2, e3

\* Two entities: entries about one of them surround entries about the other.
MCScopes == {"notice", "report"}
ScopeOf3 == (e1 :> "notice" @@ e2 :> "report" @@ e3 :> "notice")
=============================================================================
