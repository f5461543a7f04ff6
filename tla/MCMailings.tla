----------------------------- MODULE MCMailings -----------------------------
(* The instance of Mailings: the one preference that can be switched off. *)
EXTENDS Mailings

MCOptions == {<<"attendee.comment_reply", "inapp">>}
=============================================================================
