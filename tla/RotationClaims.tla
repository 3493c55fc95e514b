--------------------------- MODULE RotationClaims ---------------------------
(***************************************************************************)
(* What a comment of the source says of revoke-all and recovery, stated     *)
(* over TokenRotation with the history the statement needs.  The code does  *)
(* not keep it; the counterexample is the point of its run.                 *)
(***************************************************************************)
EXTENDS TokenRotation

VARIABLE sweptLineages   \* lineages a revoke-all removed a session of

cvars == <<vars, sweptLineages>>

ClaimInit == Init /\ sweptLineages = {}

ClaimSweep(r, u) ==
  /\ RevokeAllSweep(r, u)
  /\ sweptLineages' = sweptLineages \cup ({live[h].family : h \in LiveOf(u)} \cap Families)

ClaimNext ==
  \/ \E r \in Requests, u \in Users : ClaimSweep(r, u)
  \/ /\ \/ \E r \in Requests :
             \/ Login(r) \/ Refresh(r) \/ RevokeBump(r)
             \/ \E u \in Users, h \in Hashes : RevokeOther(r, u, h)
        \/ Housekeeping
     /\ UNCHANGED sweptLineages

ClaimSpec == ClaimInit /\ [][ClaimNext]_cvars
-----------------------------------------------------------------------------
(* RECOVER_GRACE_LUA's comment: the index is deleted by the sweep, so its   *)
(* absence is "precisely" that a revoke-all has run, and the recovery and   *)
(* the sweep therefore serialize.  So no lineage a revoke-all ended is ever *)
(* live again.  A sign-in between the two re-creates the index.             *)
SweptLineageStaysDead ==
  \A h \in Hashes : live[h] # None => live[h].family \notin sweptLineages
=============================================================================
