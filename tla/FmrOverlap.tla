----------------------------- MODULE FmrOverlap -----------------------------
(***************************************************************************)
(* compare_fvmrs (fmroverlap/fmroverlap.c): the minutiae of two views are  *)
(* paired.  In ring r = 0, 1, ..., r_opt each minutia of the first view    *)
(* that is not paired yet takes the nearest of the second view that is not *)
(* paired yet, if that one is no farther than r.                           *)
(*                                                                         *)
(* The memory it takes and the statistics it prints are left out.          *)
(***************************************************************************)
EXTENDS Integers, Sequences

VARIABLES
  first, second,  \* the minutiae of the two views
  r_opt,          \* the radius asked for
  r,              \* the ring, r_opt + 1 in the end
  i,              \* the minutia of the first view that comes next
  pairs           \* the pairs <<minutia of first, of second, ring>>

overlapVars == <<first, second, r_opt, r, i, pairs>>

Points == [x : Nat, y : Nat]

\* The square of dmat[a][b].
dmat2(a, b) ==
  (first[a].x - second[b].x) * (first[a].x - second[b].x) +
  (first[a].y - second[b].y) * (first[a].y - second[b].y)

\* paired[0][a] and paired[1][b]
PairedFirst(a)  == \E p \in pairs : p[1] = a
PairedSecond(b) == \E p \in pairs : p[2] = b

Comparing == r <= r_opt

\* compare_fvmrs returns at once when a view has no minutiae.
OverlapInit ==
  /\ first \in Seq(Points) /\ first # <<>>
  /\ second \in Seq(Points) /\ second # <<>>
  /\ r_opt \in Nat \ {0}
  /\ r = 0 /\ i = 1 /\ pairs = {}

\* The two loops go on.
Advance ==
  IF i < Len(first) THEN i' = i + 1 /\ r' = r ELSE i' = 1 /\ r' = r + 1

\* Mutants: a paired minutia of the second view is taken again; the distance
\* has to be less than r.
IsNearestOfAll(b) ==
  \A c \in DOMAIN second : /\ dmat2(i, b) <= dmat2(i, c)
                           /\ c < b => dmat2(i, b) < dmat2(i, c)
WithinOpen(b) == dmat2(i, b) < r * r

\* minj: the first of the nearest ones.  mind begins at 100000, farther than two
\* coordinates of 14 bits can be.
IsNearest(b) ==
  /\ ~ PairedSecond(b)
  /\ \A c \in DOMAIN second : ~ PairedSecond(c) =>
       /\ dmat2(i, b) <= dmat2(i, c)
       /\ c < b => dmat2(i, b) < dmat2(i, c)

\* mind <= r
Within(b) == dmat2(i, b) <= r * r

Pair ==
  /\ Comparing /\ ~ PairedFirst(i)
  /\ \E b \in DOMAIN second :
       /\ IsNearest(b) /\ Within(b)
       /\ pairs' = pairs \cup {<<i, b, r>>}
  /\ Advance
  /\ UNCHANGED <<first, second, r_opt>>

\* Everything in the second view is paired or too far away.
Pass ==
  /\ Comparing
  /\ \/ PairedFirst(i)
     \/ \A b \in DOMAIN second : PairedSecond(b) \/ ~ Within(b)
  /\ Advance
  /\ UNCHANGED <<first, second, r_opt, pairs>>

OverlapNext == Pair \/ Pass

OverlapSpec == OverlapInit /\ [][OverlapNext]_overlapVars

-----------------------------------------------------------------------------
(* Properties.                                                             *)

(***************************************************************************)
(* The pairs are one to one, although paired[1] is consulted twice, before *)
(* and after the search (fmroverlap.c:264-279), and no farther apart than  *)
(* the ring in which they were made.                                       *)
(***************************************************************************)
PairedOnce ==
  /\ \A p, q \in pairs : p[1] = q[1] \/ p[2] = q[2] => p = q
  /\ \A p \in pairs : dmat2(p[1], p[2]) <= p[3] * p[3]

\* By the end of this ring a or b had been paired.
PairedBefore(made, ring, a, b) ==
  \E p \in made : (p[1] = a \/ p[2] = b) /\ p[3] <= ring

(***************************************************************************)
(* Pairing is fair up to the width of a ring: when a and b could have been *)
(* a pair at a distance of a ring that is over, one of the two was taken   *)
(* by then.  So in the end nothing within r_opt is left unpaired on both   *)
(* sides, and no two minutiae are paired with others that are each more    *)
(* than a ring farther than they are from each other.  At the radius       *)
(* itself they are still within it (fmroverlap.c:274), where the comment   *)
(* in front of the function says less than it (:185-188).                  *)
(***************************************************************************)
PairsAreComplete ==
  \A ring \in 0 .. r_opt : ring < r =>
    \A a \in DOMAIN first, b \in DOMAIN second :
      dmat2(a, b) <= ring * ring => PairedBefore(pairs, ring, a, b)

=============================================================================
