------------------------------- MODULE MCLimits -------------------------------
(* One key: the maps keep their keys apart, and nothing is shared but time.   *)
EXTENDS Limits

MCKey == {"login:127.0.0.1"}
=============================================================================
