----------------------------- MODULE Registers -----------------------------
(***************************************************************************)
(* What QuickFetch promises of a shared value: a register.  It is empty    *)
(* until the first value is stored, never empty again, and whoever reads   *)
(* it gets what is stored at that moment.  Values are numbered in the      *)
(* order in which they were published; 0 is an empty register.             *)
(***************************************************************************)
EXTENDS Naturals

CONSTANTS
  Cell,
  Once,    \* cells that keep their first value
  Reader,
  Version  \* of natural numbers

VARIABLES stored, seen \* seen: what a reader was given last
vars == <<stored, seen>>

Init ==
  /\ stored = [c \in Cell |-> 0]
  /\ seen = [r \in Reader |-> [c \in Cell |-> 0]]

Store(c) ==
  /\ c \in Once => stored[c] = 0
  /\ \E v \in Version : v > stored[c] /\ stored' = [stored EXCEPT ![c] = v]
  /\ UNCHANGED seen

Read(r, c) ==
  /\ seen' = [seen EXCEPT ![r][c] = stored[c]]
  /\ UNCHANGED stored

Next == \E c \in Cell : Store(c) \/ \E r \in Reader : Read(r, c)

Spec == Init /\ [][Next]_vars
=============================================================================
