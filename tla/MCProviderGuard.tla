---------------------------- MODULE MCProviderGuard ----------------------------
(* Small instances of ProviderGuard for TLC.                                   *)
EXTENDS ProviderGuard, TLC

AllAnswers == {"hard", "budget"}
HardOnly == {"hard"}
=============================================================================
