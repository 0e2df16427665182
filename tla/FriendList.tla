----------------------------- MODULE FriendList -----------------------------
(***************************************************************************)
(* The friend list of an account as the worker's loop uses it: adding the  *)
(* friend of a job and removing it again are single steps, which either    *)
(* happen or are reported to have failed.                                  *)
(***************************************************************************)
CONSTANTS Friend, None

VARIABLES
  list,    \* the friends in the list
  infoOf   \* the friend_info held for a friend code, or None

Init == list = {} /\ infoOf = [f \in Friend |-> None]

Add(f) ==
  /\ infoOf[f] = None /\ f \notin list
  /\ list' = list \cup {f}
  /\ infoOf' = [infoOf EXCEPT ![f] = f]

Remove(f) ==
  /\ infoOf[f] = f
  /\ list' = list \ {f}
  /\ infoOf' = [infoOf EXCEPT ![f] = None]

\* The worker starts over with an empty list.
Reset == list' = {} /\ infoOf' = [f \in Friend |-> None]

Next == (\E f \in Friend : Add(f) \/ Remove(f)) \/ Reset

Spec == Init /\ [][Next]_<<list, infoOf>>
=============================================================================
