------------------------------ MODULE MCWebClient ------------------------------
(***************************************************************************)
(* The instance of WebClient that TLC checks: two readings on two pages,   *)
(* and a third one that may be submitted.                                  *)
(***************************************************************************)
EXTENDS WebClient
================================================================================
