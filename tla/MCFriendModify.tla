--------------------------- MODULE MCFriendModify ---------------------------
(* Two players and a code nobody has, an account with room for two friends. *)
EXTENDS FriendModify

CONSTANTS f1, f2, f3

MCFriend == {f1, f2, f3}
MCExisting == {f1, f2}
=============================================================================
