----------------------------- MODULE SplitRanges -----------------------------
(***************************************************************************)
(* How a request is split into jobs: split_weighted_ranges looks for the   *)
(* least bound with which the songs, weighed by their difficulties, fall   *)
(* into the wanted number of ranges, and then cuts the song list.          *)
(***************************************************************************)
EXTENDS Integers, Sequences, FiniteSets

CONSTANTS
  MaxSongs, MaxWeight,
  MaxAccounts,     \* active accounts
  JobsPerAccount,  \* 5 in the code
  MaxUsize         \* usize::MAX

ASSUME ConstantsAssumption ==
  /\ MaxSongs \in Nat /\ MaxWeight \in Nat /\ MaxUsize \in Nat
  /\ MaxAccounts \in Nat /\ JobsPerAccount \in Nat \ {0}

VARIABLES
  weights, count,  \* the arguments
  phase,           \* "search", "split" or "done"
  l, r,            \* of the binary search; l is the bound afterwards
  i,               \* songs the cutting loop has passed
  tot, last, out   \* of that loop

args == <<weights, count>>
vars == <<args, phase, l, r, i, tot, last, out>>

\* Sums(w)[k] is the weight of the first k songs.
Sums(w) ==
  LET s[k \in 0 .. Len(w)] == IF k = 0 THEN 0 ELSE s[k - 1] + w[k]
  IN s
Sum(w) == Sums(w)[Len(w)]

\* The empty list is answered with an error. A sum that overflows is out of the
\* question.
Lists ==
  {w \in UNION {[1 .. n -> 0 .. MaxWeight] : n \in 1 .. MaxSongs} : Sum(w) \in 0 .. MaxUsize}

Largest(x) == \E j \in DOMAIN weights : x = weights[j] /\ \A k \in DOMAIN weights : weights[k] <= x

Init ==
  /\ weights \in Lists
  /\ count \in {n * JobsPerAccount : n \in 1 .. MaxAccounts}
  /\ phase = "search"
  /\ l \in 0 .. MaxWeight /\ Largest(l)
  /\ r = Sum(weights)
  /\ i = 0 /\ tot = 0 /\ last = 0 /\ out = <<>>

----------------------------------------------------------------------------
(* split_weighted_ranges_min *)

\* The range being filled, and how many are full, before and after song n.
Put(acc, n, d) ==
  IF acc.sum + n <= d THEN [acc EXCEPT !.sum = @ + n]
                      ELSE [cnt |-> acc.cnt + 1, sum |-> n]
Filled(w, d) ==
  LET acc[k \in 0 .. Len(w)] ==
        IF k = 0 THEN [cnt |-> 0, sum |-> 0] ELSE Put(acc[k - 1], w[k], d)
  IN acc

\* Songs that do not fit into the range before them.
cnt(d) == Filled(weights, d)[Len(weights)].cnt

\* Mutant: allows one range too many.
checkLoose(d) == cnt(d) <= count
check(d) == cnt(d) < count

mid == (l + r) \div 2

\* Of an unsigned integer, in a build without overflow checks.
OneLess(x) == IF x = 0 THEN MaxUsize ELSE x - 1

\* Mutant: mid stays in the interval.
HigherStuck ==
  /\ ~check(mid)
  /\ l' = mid /\ UNCHANGED r
Higher ==
  /\ ~check(mid)
  /\ l' = mid + 1 /\ UNCHANGED r

Lower ==
  /\ check(mid)
  /\ r' = OneLess(mid) /\ UNCHANGED l

Search ==
  /\ phase = "search" /\ l <= r
  /\ Higher \/ Lower
  /\ UNCHANGED <<args, phase, i, tot, last, out>>

Found ==
  /\ phase = "search" /\ l > r
  /\ phase' = "split"
  /\ UNCHANGED <<args, l, r, i, tot, last, out>>

----------------------------------------------------------------------------
(* split_weighted_ranges *)

Piece(a, b) == [start |-> a, end |-> b]
this == weights[i + 1]

\* Mutants: the song at the cut is dropped; it is weighed, but the bound is not
\* taken off.
CutSkips ==
  /\ tot + this > l
  /\ out' = Append(out, Piece(last, i)) /\ last' = i + 1
  /\ tot' = tot + this - l
CutForgets ==
  /\ tot + this > l
  /\ out' = Append(out, Piece(last, i)) /\ last' = i
  /\ tot' = tot + this

\* What the range lacks to the bound is made up for by the next one.
Cut ==
  /\ tot + this > l
  /\ out' = Append(out, Piece(last, i)) /\ last' = i
  /\ tot' = tot + this - l

Keep ==
  /\ tot + this <= l
  /\ tot' = tot + this
  /\ UNCHANGED <<last, out>>

Split ==
  /\ phase = "split" /\ i < Len(weights)
  /\ Cut \/ Keep
  /\ i' = i + 1
  /\ UNCHANGED <<args, phase, l, r>>

Finish ==
  /\ phase = "split" /\ i = Len(weights)
  /\ phase' = "done"
  /\ out' = IF last # Len(weights) THEN Append(out, Piece(last, Len(weights))) ELSE out
  /\ UNCHANGED <<args, l, r, i, tot, last>>

Next == Search \/ Found \/ Split \/ Finish

\* A function runs to its end.
Spec == Init /\ [][Next]_vars /\ WF_vars(Next)

----------------------------------------------------------------------------
(* Properties *)

TypeOK ==
  /\ weights \in Lists /\ count \in Nat
  /\ phase \in {"search", "split", "done"}
  /\ l \in 0 .. MaxUsize /\ r \in 0 .. MaxUsize
  /\ i \in 0 .. Len(weights) /\ last \in 0 .. Len(weights) /\ tot \in 0 .. MaxUsize
  /\ out \in Seq([start : 0 .. Len(weights), end : 0 .. Len(weights)])

Before(k) == IF k = 1 THEN 0 ELSE out[k - 1].end

\* The jobs of a request cover every song once and none of them is empty: each
\* range begins where the one before ended, and the last ends with the list.
RangesPartition ==
  /\ \A k \in DOMAIN out : out[k].start = Before(k) /\ out[k].start < out[k].end
  /\ phase = "done" => out # <<>> /\ out[Len(out)].end = Len(weights)

\* A request makes no more jobs than the accounts are meant to take, although the
\* cutting loop counts in another way than check does.
AtMostCount == Len(out) <= count

\* A way to cut the list, as the set of places where a range ends.
Cuts == {c \in SUBSET DOMAIN weights : Len(weights) \in c}
Begin(c, e) == CHOOSE x \in c \cup {0} : x < e /\ \A y \in c : y <= x \/ y >= e
Weight(c, e) == Sum(SubSeq(weights, Begin(c, e) + 1, e))
Possible(d) == \E c \in Cuts : Cardinality(c) <= count /\ \A e \in c : Weight(c, e) <= d

\* The binary search ends at the least bound with which the list can be cut into
\* the wanted number of ranges at all.
BoundIsLeast ==
  phase # "search" => Possible(l) /\ \A d \in 0 .. l - 1 : ~Possible(d)

\* Every step of the function brings it nearer to its end, at least if some song
\* has a difficulty: the interval that is searched shrinks, also where its upper
\* end falls below the lower one, and never wraps around.
Rank ==
  IF phase = "search" THEN (r + 1 - l) + Len(weights) + 2
  ELSE IF phase = "split" THEN Len(weights) - i + 1 ELSE 0
StepsDescend ==
  [][(\E j \in DOMAIN weights : weights[j] > 0) => Rank \in Nat /\ Rank' \in Nat /\ Rank' < Rank]_vars

\* An enqueue request is answered, at least if some song has a difficulty: of
\* nothing but zeros the search never ends.
SplitEnds == (\E j \in DOMAIN weights : weights[j] > 0) ~> phase = "done"
==============================================================================
