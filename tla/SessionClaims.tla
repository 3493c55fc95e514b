---------------------------- MODULE SessionClaims ----------------------------
(***************************************************************************)
(* What a comment of SessionService says of "sign out my other devices" and *)
(* the interleavings of SessionManagement contradict.                       *)
(***************************************************************************)
EXTENDS SessionManagement

(* revokeAllExceptCurrent: "The revoked devices cannot [refresh], having    *)
(* lost the refresh token that would let them".  A device that rotates      *)
(* between the listing and its REVOKE holds a session the loop never sees.  *)
OtherDevicesOut ==
  \A h \in Hashes : live[h] # None => \A s \in settled : device[h] # device[s]
=============================================================================
