------------------------------ MODULE MCRights ------------------------------
(* Who may do what, in two scenes that share no table: flon.auth with two  *)
(* roles and the two management permissions, and the register of artists   *)
(* with two people who may be admin, auditor and artist in turn.           *)
EXTENDS FlonAuth, ArtistCisum

VARIABLE scene

mcVars == <<scene, authVars, artistVars>>

MCInit == scene \in {"auth", "artists"} /\ AuthInit /\ ArtistInit

MCNext ==
  /\ \/ scene = "auth" /\ AuthNext /\ UNCHANGED artistVars
     \/ scene = "artists" /\ ArtistNext /\ UNCHANGED authVars
  /\ UNCHANGED scene

\* Every table of the two contracts is well formed.
RightsTypeOK == AuthTypeOK /\ ArtistTypeOK

MCSpec == MCInit /\ [][MCNext]_mcVars
=============================================================================
