---------------------------- MODULE MCBruteForce ----------------------------
(* Three concurrent requests from two addresses.                           *)
EXTENDS BruteForce
=============================================================================
