----------------------------- MODULE FmrSelect ------------------------------
(***************************************************************************)
(* The orders in which fmrsort puts the minutiae of a view (polar, angle,  *)
(* xy and random of libfmr), and the choices that fmrprune makes of them   *)
(* (fmrprune/elliptical.c, rectangular.c).                                 *)
(*                                                                         *)
(* An arrangement is a sequence of indexes into the minutiae.  qsort       *)
(* leaves what compares as equal in any order, so that most operators here *)
(* are sets of arrangements.                                               *)
(***************************************************************************)
EXTENDS FmrFile

\* find_center_of_minutiae_mass, in whole pixels.
CenterOfMass(minutiae) ==
  [x |-> SumOf(LAMBDA m : m.x, minutiae) \div Len(minutiae),
   y |-> SumOf(LAMBDA m : m.y, minutiae) \div Len(minutiae)]

Square(n) == n * n
Distance2(m, center) == Square(m.x - center.x) + Square(m.y - center.y)

\* The comparison functions: m comes before n.
Lexicographic(a, b) == a[1] < b[1] \/ (a[1] = b[1] /\ a[2] < b[2])

BeforeByPolar(m, n, center) ==
  Lexicographic(<<Distance2(m, center), m.angle>>, <<Distance2(n, center), n.angle>>)
BeforeByXY(m, n)    == Lexicographic(<<m.x, m.y>>, <<n.x, n.y>>)
BeforeByYX(m, n)    == Lexicographic(<<m.y, m.x>>, <<n.y, n.x>>)
BeforeByAngle(m, n) == m.angle < n.angle

\* The z of a minutia in the ellipse with axes a and b, times (a b)^2.
Z(m, center, a, b) == Square((m.x - center.x) * b) + Square((m.y - center.y) * a)

Abs(n) == IF n < 0 THEN -n ELSE n
Mirrored(m, n, center) ==
  Abs(m.x - center.x) = Abs(n.x - center.x) /\ Abs(m.y - center.y) = Abs(n.y - center.y)

\* z is a double: what is equal as a fraction may differ in the last bit, except
\* of minutiae that mirror each other.
BeforeByElliptical(m, n, center, a, b) ==
  \/ Z(m, center, a, b) < Z(n, center, a, b)
  \/ Mirrored(m, n, center) /\ m.angle < n.angle

\* qsort of the minutiae at these indexes.
Qsort(indexes, minutiae, Before(_, _)) ==
  {s \in SetToSeqs(indexes) :
     \A i, j \in DOMAIN s : i < j => ~ Before(minutiae[s[j]], minutiae[s[i]])}

Order(minutiae, Before(_, _)) == Qsort(DOMAIN minutiae, minutiae, Before)

sort_fmd_by_polar(minutiae) ==
  LET center == CenterOfMass(minutiae)
  IN Order(minutiae, LAMBDA m, n : BeforeByPolar(m, n, center))
sort_fmd_by_xy(minutiae)     == Order(minutiae, BeforeByXY)
sort_fmd_by_yx(minutiae)     == Order(minutiae, BeforeByYX)
sort_fmd_by_angle(minutiae)  == Order(minutiae, BeforeByAngle)
sort_fmd_by_random(minutiae) == Order(minutiae, LAMBDA m, n : FALSE)

Sorted(minutiae, method) ==
  CASE method = "polar"  -> sort_fmd_by_polar(minutiae)
    [] method = "xy"     -> sort_fmd_by_xy(minutiae)
    [] method = "yx"     -> sort_fmd_by_yx(minutiae)
    [] method = "angle"  -> sort_fmd_by_angle(minutiae)
    [] method = "random" -> sort_fmd_by_random(minutiae)

-----------------------------------------------------------------------------
(* fmrprune.  The options are [method, n, a, b, x, y].                     *)

\* select_fmd_by_elliptical: on the ellipse itself the last bit of z decides.
Elliptical(minutiae, a, b) ==
  LET center  == CenterOfMass(minutiae)
      limit   == Square(a * b)
      z(i)    == Z(minutiae[i], center, a, b)
      inside  == {i \in DOMAIN minutiae : z(i) < limit}
      on      == {i \in DOMAIN minutiae : z(i) = limit}
  IN UNION {Qsort(inside \cup some, minutiae,
                  LAMBDA m, n : BeforeByElliptical(m, n, center, a, b)) :
              some \in SUBSET on}

\* select_fmd_by_rectangular: the sides belong to the rectangle.
Rectangular(minutiae, o) ==
  {i \in DOMAIN minutiae : /\ minutiae[i].x \in o.x .. o.x + o.a
                           /\ minutiae[i].y \in o.y .. o.y + o.b}

First(n, arrangement) == {arrangement[i] : i \in DOMAIN arrangement \cap 1 .. n}

\* Mutant: the last n of the order are taken.
SelectedLast(minutiae, o) ==
  {First(o.n, Reverse(s)) : s \in Sorted(minutiae, "polar")}

\* The minutiae that copy_and_select_fvmr selects, as sets of indexes.
Selected(minutiae, o) ==
  CASE o.method \in {"polar", "random"} -> {First(o.n, s) : s \in Sorted(minutiae, o.method)}
    [] o.method = "elliptical" -> {First(o.n, s) : s \in Elliptical(minutiae, o.a, o.b)}
    [] o.method = "rectangular" -> {Rectangular(minutiae, o)}

\* compare_fmd_by_index takes the elements of an array of pointers for the
\* minutiae themselves; the order that makes is any.
ByIndex(indexes) == SetToSeqs(indexes)

Arranged(minutiae, arrangement) == [i \in DOMAIN arrangement |-> minutiae[arrangement[i]]]

\* What fmrprune may leave of the minutiae of a view, and fmrsort make of them.
Pruned(minutiae, o) ==
  IF minutiae = <<>> THEN {<<>>}
    ELSE {Arranged(minutiae, s) : s \in UNION {ByIndex(kept) : kept \in Selected(minutiae, o)}}

\* With -r the arrangement is read backwards.
Resorted(minutiae, o) ==
  IF minutiae = <<>> THEN {<<>>}
    ELSE {Arranged(minutiae, IF o.descending THEN Reverse(s) ELSE s) :
            s \in Sorted(minutiae, o.method)}

=============================================================================
