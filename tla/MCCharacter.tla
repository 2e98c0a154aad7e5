---------------------------- MODULE MCCharacter ----------------------------
(***************************************************************************)
(* Instance of Character for TLC: a health that decides whether the player *)
(* is down and that a revival restores, and a posture that it does not.    *)
(***************************************************************************)
EXTENDS Character

CONSTANTS health, posture

MCVar == {health, posture}
MCVital == {health}
=============================================================================
