----------------------------- MODULE AccountClaims ----------------------------
(***************************************************************************)
(* What comments of the account services say and the steps of Accounts     *)
(* contradict.                                                              *)
(***************************************************************************)
EXTENDS Accounts

(* rehashPassword: the race that is left "can only lose an upgrade, never a *)
(* password".  A reset or a change that lands between its second read and   *)
(* its write is overwritten with the old password.                          *)
PasswordNotLost ==
  [][\A h \in Handlers : At(h, "upgrade") /\ req'[h].pc = "idle"
       => users[req[h].user].hash.word = req[h].word]_vars

(* invite: the index "is the only handle the issuing side has on a record", *)
(* and superseding exists to prevent "two live tokens for one invitee".  An *)
(* acceptance or a revocation under way while the address is invited again  *)
(* deletes the index of the new invitation and leaves it live.              *)
MailedIsNamed ==
  \A n \in seen.mailed : redis.vault[n].kind = "invite" =>
    \/ redis.index[redis.vault[n].email] = n
    \/ \E h \in Handlers : req[h].approved = n /\ req[h].pc \in {"remove", "unindex"}
=============================================================================
