---------------------------- MODULE MCAuthVault ----------------------------
(* Small instances of AuthVault for TLC.                                   *)
EXTENDS AuthVault
=============================================================================
