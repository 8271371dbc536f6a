---------------------------- MODULE MCFreezeNotice ----------------------------
(* Small instances of FreezeNotice for TLC.                                    *)
EXTENDS FreezeNotice

CONSTANTS b1, b2

AllFaults == {"crash", "db", "audit", "sahyog"}
NoFault == {}
=============================================================================
