------------------------- MODULE FmrRecord_proofs ---------------------------
(***************************************************************************)
(* Proofs about what the library does with a record that it has: writing   *)
(* it and checking it.                                                     *)
(*                                                                         *)
(* The writer.  A complete copy of a record is a list of fields; the       *)
(* invariant follows the place in it that the writer has come to (Place):  *)
(* but for FEDs all that is before it was written, and in a buffer that    *)
(* can hold the record FEDs were, too (Copied).  A part leads from one     *)
(* place to the next, and a part that is cut ends the write (Cut).         *)
(*                                                                         *)
(* The memory of the checker, for any views in any order and any number of *)
(* calls.  The invariant follows a call under way: of the views it has     *)
(* passed each number is below what is expected next of its finger         *)
(* (Passed).  Entering a number never lowers what is expected, so that     *)
(* this also holds of the views of a record that was accepted before       *)
(* (PassedAll).                                                            *)
(***************************************************************************)
EXTENDS FmrValidate, FmrWriter, Sums, SequenceTheorems, TLAPS

-----------------------------------------------------------------------------
(* Lists of fields.                                                        *)

AllFields == Parts \X Nat
FieldLists == Seq(AllFields)

\* Two lists of fields, one behind the other; one list that begins another.
Join(a, b)   == a \o b
Begins(a, b) == \E rest \in FieldLists : b = Join(a, rest)

\* What the proofs need of lists of fields put together.
LEMMA Joined ==
  /\ <<>> \in FieldLists
  /\ \A a \in FieldLists : Join(a, <<>>) = a
  /\ \A a, b \in FieldLists : Join(a, b) \in FieldLists
<1> USE DEF FieldLists, Join
<1> QED OBVIOUS

\* Putting together is associative.
LEMMA Assoc ==
  ASSUME NEW a \in FieldLists, NEW b \in FieldLists, NEW c \in FieldLists
  PROVE  Join(Join(a, b), c) = Join(a, Join(b, c))
BY ConcatAssociative DEF FieldLists, Join

\* What Begins says of lists put together.
LEMMA BeginsJoined ==
  /\ \A a \in FieldLists : Begins(a, a)
  /\ \A a, b \in FieldLists : Begins(a, Join(a, b))
  /\ \A a, b, c \in FieldLists : Begins(a, b) /\ Begins(b, c) => Begins(a, c)
  /\ \A a, b, c \in FieldLists : Begins(b, c) => Begins(Join(a, b), Join(a, c))
<1>1. \A a \in FieldLists : Begins(a, a)
  BY Joined DEF Begins
<1>2. \A a, b \in FieldLists : Begins(a, Join(a, b))
  BY DEF Begins
<1>3. ASSUME NEW a \in FieldLists, NEW b \in FieldLists, NEW c \in FieldLists,
             Begins(a, b), Begins(b, c)
      PROVE  Begins(a, c)
  <2>1. PICK s \in FieldLists : b = Join(a, s)
    BY <1>3 DEF Begins
  <2>2. PICK t \in FieldLists : c = Join(b, t)
    BY <1>3 DEF Begins
  <2>3. c = Join(a, Join(s, t)) /\ Join(s, t) \in FieldLists
    BY <2>1, <2>2, Assoc, Joined
  <2> QED BY <2>3 DEF Begins
<1>4. ASSUME NEW a \in FieldLists, NEW b \in FieldLists, NEW c \in FieldLists, Begins(b, c)
      PROVE  Begins(Join(a, b), Join(a, c))
  <2>1. PICK s \in FieldLists : c = Join(b, s)
    BY <1>4 DEF Begins
  <2>2. Join(a, c) = Join(Join(a, b), s)
    BY <2>1, Assoc
  <2> QED BY <2>2 DEF Begins
<1> QED BY <1>1, <1>2, <1>3, <1>4

\* To begin a list is to be a prefix of it.
LEMMA BeginsIsPrefix ==
  ASSUME NEW a \in FieldLists, NEW b \in FieldLists, Begins(a, b)
  PROVE  IsPrefix(a, b)
<1> USE DEF FieldLists
<1>1. PICK s \in FieldLists : b = a \o s
  BY DEF Begins, Join
<1>2. Len(b) = Len(a) + Len(s) /\ Len(a) \in Nat /\ Len(s) \in Nat
  BY <1>1
<1> DEFINE c == SubSeq(b, 1, Len(a))
           d == SubSeq(a, 1, Len(a))
<1>3. c \in FieldLists /\ d \in FieldLists /\ Len(c) = Len(a) /\ Len(d) = Len(a)
  BY <1>2
<1>4. \A k \in 1 .. Len(a) : c[k] = b[k] /\ d[k] = a[k] /\ b[k] = a[k]
  BY <1>1, <1>2
<1> HIDE DEF c, d
<1>5. c = d
  BY <1>3, <1>4, SeqEqual
<1> QED BY <1>2, <1>5 DEF IsPrefix, c, d

-----------------------------------------------------------------------------
\* The fields of a part, and their sizes.
LEMMA FieldsType ==
  ASSUME NEW part \in Parts, NEW sizes \in Seq(Nat)
  PROVE  /\ Fields(part, sizes) \in FieldLists
         /\ Len(Fields(part, sizes)) = Len(sizes)
         /\ SizesOf(Fields(part, sizes)) = sizes
<1> USE DEF FieldLists
<1> DEFINE f == Fields(part, sizes)
<1>1. f = [i \in 1 .. Len(sizes) |-> <<part, sizes[i]>>] /\ Len(sizes) \in Nat
  BY DEF Fields
<1>2. \A i \in 1 .. Len(sizes) : <<part, sizes[i]>> \in AllFields
  BY DEF AllFields
<1> HIDE DEF f
<1>3. f \in FieldLists /\ Len(f) = Len(sizes) /\ DOMAIN f = 1 .. Len(sizes)
  BY <1>1, <1>2
<1>4. \A i \in 1 .. Len(sizes) : f[i][2] = sizes[i]
  BY <1>1
<1>5. SizesOf(f) = [i \in 1 .. Len(sizes) |-> sizes[i]]
  BY <1>3, <1>4 DEF SizesOf
<1>6. sizes = [i \in 1 .. Len(sizes) |-> sizes[i]]
  OBVIOUS
<1> QED BY <1>3, <1>5, <1>6 DEF f

\* The sizes of two lists, one behind the other.
LEMMA SizesConcat ==
  ASSUME NEW a \in FieldLists, NEW b \in FieldLists
  PROVE  /\ SizesOf(a) \in Seq(Nat) /\ Len(SizesOf(a)) = Len(a)
         /\ SizesOf(Join(a, b)) = SizesOf(a) \o SizesOf(b)
<1> USE DEF FieldLists, Join
<1>1. \A s \in FieldLists :
        /\ Len(s) \in Nat
        /\ SizesOf(s) = [i \in 1 .. Len(s) |-> s[i][2]]
        /\ SizesOf(s) \in Seq(Nat) /\ Len(SizesOf(s)) = Len(s)
        /\ \A i \in 1 .. Len(s) : SizesOf(s)[i] = s[i][2]
  <2> TAKE s \in FieldLists
  <2>1. Len(s) \in Nat /\ SizesOf(s) = [i \in 1 .. Len(s) |-> s[i][2]]
    BY DEF SizesOf
  <2>2. \A i \in 1 .. Len(s) : s[i][2] \in Nat
    BY DEF AllFields
  <2> QED BY <2>1, <2>2
<1> DEFINE c == a \o b
           l == SizesOf(a \o b)
           m == SizesOf(a) \o SizesOf(b)
<1>2. c \in FieldLists /\ Len(c) = Len(a) + Len(b)
  OBVIOUS
<1>3. l \in Seq(Nat) /\ Len(l) = Len(a) + Len(b) /\ \A i \in 1 .. Len(a) + Len(b) : l[i] = c[i][2]
  BY <1>1, <1>2
<1>4. \A i \in 1 .. Len(a) + Len(b) : c[i] = IF i <= Len(a) THEN a[i] ELSE b[i - Len(a)]
  OBVIOUS
<1>5. /\ m \in Seq(Nat) /\ Len(m) = Len(a) + Len(b)
      /\ \A i \in 1 .. Len(a) + Len(b) :
           m[i] = IF i <= Len(a) THEN SizesOf(a)[i] ELSE SizesOf(b)[i - Len(a)]
  <2> PICK s \in Seq(Nat) : s = SizesOf(a)
    BY <1>1
  <2> PICK t \in Seq(Nat) : t = SizesOf(b)
    BY <1>1
  <2>1. Len(s) = Len(a) /\ Len(t) = Len(b)
    BY <1>1
  <2>2. /\ s \o t \in Seq(Nat) /\ Len(s \o t) = Len(s) + Len(t)
        /\ \A i \in 1 .. Len(s) + Len(t) :
             (s \o t)[i] = IF i <= Len(s) THEN s[i] ELSE t[i - Len(s)]
    OBVIOUS
  <2> QED BY <2>1, <2>2
<1>6. \A i \in 1 .. Len(a) + Len(b) : l[i] = m[i]
  <2> TAKE i \in 1 .. Len(a) + Len(b)
  <2>1. Len(a) \in Nat /\ Len(b) \in Nat /\ i \in Nat /\ i >= 1 /\ i <= Len(a) + Len(b)
    BY <1>1
  <2>2. l[i] = c[i][2]
    BY <1>3
  <2>3. CASE i <= Len(a)
    <3>1. c[i] = a[i] /\ m[i] = SizesOf(a)[i] /\ i \in 1 .. Len(a)
      BY <1>4, <1>5, <2>1, <2>3
    <3> QED BY <1>1, <2>2, <3>1
  <2>4. CASE ~ (i <= Len(a))
    <3>1. c[i] = b[i - Len(a)] /\ m[i] = SizesOf(b)[i - Len(a)] /\ i - Len(a) \in 1 .. Len(b)
      BY <1>4, <1>5, <2>1, <2>4
    <3> QED BY <1>1, <2>2, <3>1
  <2> QED BY <2>3, <2>4
<1> HIDE DEF l, m, c
<1>7. l = m
  BY <1>3, <1>5, <1>6, SeqEqual
<1> QED BY <1>1, <1>7 DEF l, m

\* The bytes of two lists, one behind the other.
LEMMA SumsConcat ==
  ASSUME NEW a \in FieldLists, NEW b \in FieldLists
  PROVE  /\ SumOf(SizesOf(a)) \in Nat
         /\ SumOf(SizesOf(Join(a, b))) = SumOf(SizesOf(a)) + SumOf(SizesOf(b))
<1> USE DEF FieldLists
<1> PICK s \in Seq(Nat) : s = SizesOf(a)
  BY SizesConcat
<1> PICK t \in Seq(Nat) : t = SizesOf(b)
  BY SizesConcat
<1>1. s \in Seq(Int) /\ t \in Seq(Int)
  OBVIOUS
<1>2. SumFunction(s \o t) = SumFunction(s) + SumFunction(t)
  BY <1>1, SumConcat
<1>3. Len(s) \in Nat /\ DOMAIN s = 1 .. Len(s) /\ \A k \in 1 .. Len(s) : s[k] \in Nat
  OBVIOUS
<1>4. SumFunction(s) \in Nat
  BY <1>3, SumType
<1> QED BY <1>2, <1>4, SizesConcat DEF SumOf

\* What is left of two lists without their FEDs.
LEMMA WithoutConcat ==
  ASSUME NEW a \in FieldLists, NEW b \in FieldLists
  PROVE  /\ WithoutFeds(a) \in FieldLists
         /\ WithoutFeds(Join(a, b)) = Join(WithoutFeds(a), WithoutFeds(b))
<1> USE DEF FieldLists, Join
<1> DEFINE One(x) == IF x[1] = "fed" THEN <<>> ELSE <<x>>
           Ones(s) == [i \in DOMAIN s |-> One(s[i])]
<1>1. \A x \in AllFields : One(x) \in FieldLists
  OBVIOUS
<1>2. \A s \in FieldLists : WithoutFeds(s) = FlattenSeq(Ones(s))
  BY DEF WithoutFeds
<1> HIDE DEF One
<1>3. \A s \in FieldLists :
        /\ Len(s) \in Nat
        /\ Ones(s) \in Seq(FieldLists) /\ Len(Ones(s)) = Len(s)
        /\ \A i \in 1 .. Len(s) : Ones(s)[i] = One(s[i])
  <2> TAKE s \in FieldLists
  <2>1. Len(s) \in Nat /\ Ones(s) = [i \in 1 .. Len(s) |-> One(s[i])]
    OBVIOUS
  <2>2. \A i \in 1 .. Len(s) : One(s[i]) \in FieldLists
    BY <1>1
  <2> QED BY <2>1, <2>2
<1> DEFINE c == a \o b
           l == Ones(a \o b)
           m == Ones(a) \o Ones(b)
<1>4. c \in FieldLists /\ Len(c) = Len(a) + Len(b)
  OBVIOUS
<1>5. /\ l \in Seq(FieldLists) /\ Len(l) = Len(a) + Len(b)
      /\ \A i \in 1 .. Len(a) + Len(b) : l[i] = One(c[i])
  BY <1>3, <1>4
<1>6. \A i \in 1 .. Len(a) + Len(b) : c[i] = IF i <= Len(a) THEN a[i] ELSE b[i - Len(a)]
  OBVIOUS
<1>7. /\ m \in Seq(FieldLists) /\ Len(m) = Len(a) + Len(b)
      /\ \A i \in 1 .. Len(a) + Len(b) :
           m[i] = IF i <= Len(a) THEN Ones(a)[i] ELSE Ones(b)[i - Len(a)]
  <2> PICK s \in Seq(FieldLists) : s = Ones(a)
    BY <1>3
  <2> PICK t \in Seq(FieldLists) : t = Ones(b)
    BY <1>3
  <2>1. Len(s) = Len(a) /\ Len(t) = Len(b)
    BY <1>3
  <2>2. /\ s \o t \in Seq(FieldLists) /\ Len(s \o t) = Len(s) + Len(t)
        /\ \A i \in 1 .. Len(s) + Len(t) :
             (s \o t)[i] = IF i <= Len(s) THEN s[i] ELSE t[i - Len(s)]
    OBVIOUS
  <2> QED BY <2>1, <2>2
<1>8. \A i \in 1 .. Len(a) + Len(b) : l[i] = m[i]
  <2> TAKE i \in 1 .. Len(a) + Len(b)
  <2>1. Len(a) \in Nat /\ Len(b) \in Nat /\ i \in Nat /\ i >= 1 /\ i <= Len(a) + Len(b)
    BY <1>3
  <2>2. l[i] = One(c[i])
    BY <1>5
  <2> HIDE DEF l, m, c, Ones
  <2>3. CASE i <= Len(a)
    <3>1. c[i] = a[i] /\ m[i] = Ones(a)[i] /\ i \in 1 .. Len(a)
      BY <1>6, <1>7, <2>1, <2>3
    <3> QED BY <1>3, <2>2, <3>1
  <2>4. CASE ~ (i <= Len(a))
    <3>1. c[i] = b[i - Len(a)] /\ m[i] = Ones(b)[i - Len(a)] /\ i - Len(a) \in 1 .. Len(b)
      BY <1>6, <1>7, <2>1, <2>4
    <3> QED BY <1>3, <2>2, <3>1
  <2> QED BY <2>3, <2>4
<1>9. l = m
  <2> HIDE DEF l, m, c
  <2> QED BY <1>5, <1>7, <1>8, SeqEqual
<1>10. FlattenSeq(Ones(a) \o Ones(b)) = FlattenSeq(Ones(a)) \o FlattenSeq(Ones(b))
  BY <1>3, FlattenSeqConcat
<1>11. FlattenSeq(Ones(a)) \in FieldLists
  BY <1>3, FlattenSeqGrows, EmptySeq
<1> QED BY <1>2, <1>4, <1>9, <1>10, <1>11 DEF l, m, c

\* Nothing is left of a FED.
LEMMA NoFeds ==
  ASSUME NEW sizes \in Seq(Nat)
  PROVE  WithoutFeds(Fields("fed", sizes)) = <<>>
<1> USE DEF FieldLists
<1> DEFINE f == Fields("fed", sizes)
           e == [i \in DOMAIN f |-> IF f[i][1] = "fed" THEN <<>> ELSE <<f[i]>>]
<1>1. "fed" \in Parts
  BY DEF Parts
<1>2. f \in FieldLists /\ DOMAIN f = 1 .. Len(sizes) /\ Len(sizes) \in Nat
  BY <1>1, FieldsType
<1>3. \A i \in 1 .. Len(sizes) : f[i][1] = "fed"
  BY DEF Fields
<1>4. WithoutFeds(f) = FlattenSeq(e)
  BY DEF WithoutFeds
<1> HIDE DEF f
<1>5. \A i \in 1 .. Len(sizes) : e[i] = <<>>
  BY <1>2, <1>3
<1>6. e \in Seq(FieldLists) /\ Len(e) = Len(sizes)
  <2>1. e = [i \in 1 .. Len(sizes) |-> <<>>]
    BY <1>2, <1>3
  <2>2. <<>> \in FieldLists
    OBVIOUS
  <2> QED BY <1>2, <2>1, <2>2
<1> HIDE DEF e
<1>7. FlattenSeq(e) \in FieldLists
  BY <1>6, FlattenSeqGrows, EmptySeq
<1>8. \A x : ~ (x \in Range(<<>>))
  BY DEF Range
<1>9. \A x : ~ (x \in Range(FlattenSeq(e)))
  BY <1>5, <1>6, <1>8, FlattenSeqElements
<1>10. FlattenSeq(e) = <<>>
  <2> PICK g \in FieldLists : g = FlattenSeq(e)
    BY <1>7
  <2>1. \A k \in 1 .. Len(g) : g[k] \in Range(g)
    BY DEF Range
  <2>2. ASSUME Len(g) # 0 PROVE FALSE
    <3>1. 1 \in 1 .. Len(g)
      BY <2>2
    <3> QED BY <1>9, <2>1, <3>1
  <2>3. g = <<>>
    BY <2>2, EmptySeq
  <2> QED BY <2>3
<1> QED BY <1>4, <1>10 DEF f

-----------------------------------------------------------------------------
\* What the lists before the one at this place are strung together to.
Before(ss, i) == FlattenSeq(SubSeq(ss, 1, i - 1))

\* One list more: what is before the next, and at last all of it.
LEMMA BeforeNext ==
  ASSUME NEW ss \in Seq(FieldLists)
  PROVE  /\ Before(ss, 1) = <<>>
         /\ Before(ss, Len(ss) + 1) = FlattenSeq(ss)
         /\ \A i \in 1 .. Len(ss) + 1 :
              Before(ss, i) \in FieldLists /\ Begins(Before(ss, i), FlattenSeq(ss))
         /\ \A i \in 1 .. Len(ss) : Before(ss, i + 1) = Join(Before(ss, i), ss[i])
<1> USE DEF FieldLists, Join
<1> DEFINE n == Len(ss)
<1>1. n \in Nat
  OBVIOUS
<1>2. SubSeq(ss, 1, 0) = <<>> /\ FlattenSeq(<<>>) = <<>> /\ 1 - 1 = 0
  BY FlattenSeqGrows, EmptySeq
<1>3. SubSeq(ss, 1, n) = ss /\ (n + 1) - 1 = n
  <2> DEFINE t == SubSeq(ss, 1, n)
  <2>1. t \in Seq(FieldLists) /\ Len(t) = n /\ \A k \in 1 .. n : t[k] = ss[k]
    BY <1>1
  <2> HIDE DEF t
  <2>2. t = ss
    BY <2>1, SeqEqual
  <2> QED BY <1>1, <2>2 DEF t
<1>4. ASSUME NEW i \in 1 .. n + 1
      PROVE  Before(ss, i) \in FieldLists /\ Begins(Before(ss, i), FlattenSeq(ss))
  <2> DEFINE f == SubSeq(ss, 1, i - 1)
             b == SubSeq(ss, i, n)
  <2>1. f \in Seq(FieldLists) /\ b \in Seq(FieldLists)
    BY <1>1
  <2>2. Len(f) = i - 1 /\ Len(b) = n - i + 1 /\ Len(f) \in Nat /\ Len(b) \in Nat
    BY <1>1
  <2>3. /\ \A k \in 1 .. i - 1 : f[k] = ss[k]
        /\ \A k \in 1 .. n - i + 1 : b[k] = ss[i + k - 1]
    BY <1>1
  <2> HIDE DEF f, b
  <2>4. f \o b = ss
    <3> DEFINE t == f \o b
    <3>1. /\ t \in Seq(FieldLists) /\ Len(t) = Len(f) + Len(b)
          /\ \A k \in 1 .. Len(f) + Len(b) : t[k] = IF k <= Len(f) THEN f[k] ELSE b[k - Len(f)]
      BY <2>1
    <3> HIDE DEF t
    <3>2. Len(t) = n
      BY <1>1, <2>2, <3>1
    <3>3. \A k \in 1 .. n : t[k] = ss[k]
      <4> TAKE k \in 1 .. n
      <4>1. t[k] = IF k <= Len(f) THEN f[k] ELSE b[k - Len(f)]
        BY <3>1, <3>2
      <4>2. CASE k <= i - 1
        BY <2>2, <2>3, <4>1, <4>2
      <4>3. CASE ~ (k <= i - 1)
        <5>1. k - Len(f) \in 1 .. n - i + 1 /\ i + (k - Len(f)) - 1 = k
          BY <1>1, <2>2, <4>3
        <5> QED BY <2>2, <2>3, <4>1, <4>3, <5>1
      <4> QED BY <4>2, <4>3
    <3>4. t = ss
      BY <3>1, <3>2, <3>3, SeqEqual
    <3> QED BY <3>4 DEF t
  <2>5. FlattenSeq(f) \in FieldLists /\ FlattenSeq(b) \in FieldLists
    BY <2>1, FlattenSeqGrows, EmptySeq
  <2>6. FlattenSeq(f \o b) = FlattenSeq(f) \o FlattenSeq(b)
    BY <2>1, FlattenSeqConcat
  <2> QED BY <2>4, <2>5, <2>6 DEF Before, Begins, f
<1>5. ASSUME NEW i \in 1 .. n PROVE Before(ss, i + 1) = Before(ss, i) \o ss[i]
  <2> DEFINE f == SubSeq(ss, 1, i - 1)
             g == SubSeq(ss, 1, i)
  <2>1. f \in Seq(FieldLists) /\ g \in Seq(FieldLists) /\ ss[i] \in FieldLists
    BY <1>1
  <2>2. Len(f) = i - 1 /\ Len(g) = i /\ i \in Nat /\ i - 1 \in Nat
    BY <1>1
  <2>3. (\A k \in 1 .. i - 1 : f[k] = ss[k]) /\ \A k \in 1 .. i : g[k] = ss[k]
    BY <1>1
  <2> HIDE DEF f, g
  <2>4. g = Append(f, ss[i])
    <3> DEFINE t == Append(f, ss[i])
    <3>1. /\ t \in Seq(FieldLists) /\ Len(t) = Len(f) + 1 /\ t[Len(f) + 1] = ss[i]
          /\ \A k \in 1 .. Len(f) : t[k] = f[k]
      BY <2>1, AppendProperties
    <3> HIDE DEF t
    <3>2. Len(t) = i /\ t[i] = ss[i] /\ \A k \in 1 .. i - 1 : t[k] = ss[k]
      BY <2>2, <2>3, <3>1
    <3>3. \A k \in 1 .. i : k \in 1 .. i - 1 \/ k = i
      BY <2>2
    <3>4. \A k \in 1 .. i : g[k] = t[k]
      BY <2>3, <3>2, <3>3
    <3>5. g = t
      BY <2>1, <2>2, <3>1, <3>2, <3>4, SeqEqual
    <3> QED BY <3>5 DEF t
  <2>5. FlattenSeq(Append(f, ss[i])) = FlattenSeq(f) \o ss[i]
    BY <2>1, FlattenSeqGrows
  <2>6. (i + 1) - 1 = i
    BY <2>2
  <2> QED BY <2>4, <2>5, <2>6 DEF Before, f, g
<1> QED BY <1>2, <1>3, <1>4, <1>5 DEF Before

-----------------------------------------------------------------------------
(* The parts of a record are lists of fields.                              *)

\* Lists of fields strung together.
LEMMA Flattened ==
  ASSUME NEW ss \in Seq(FieldLists)
  PROVE  FlattenSeq(ss) \in FieldLists
BY FlattenSeqGrows, EmptySeq DEF FieldLists

\* The same list n times.
LEMMA RepeatedType ==
  ASSUME NEW S, NEW n \in Nat, NEW fields \in Seq(S)
  PROVE  /\ [i \in 1 .. n |-> fields] \in Seq(Seq(S)) /\ Len([i \in 1 .. n |-> fields]) = n
         /\ Repeated(n, fields) \in Seq(S)
<1>1. [i \in 1 .. n |-> fields] \in Seq(Seq(S)) /\ Len([i \in 1 .. n |-> fields]) = n
  OBVIOUS
<1> QED BY <1>1, FlattenSeqGrows, EmptySeq DEF Repeated

\* Every part is written in fields of some bytes.
LEMMA SizesType ==
  /\ \A r \in FmrRecords : HeaderFields(r) \in Seq(Nat)
  /\ \A format \in AllFormats :
       ViewFields(format) \in Seq(Nat) /\ FmdFields(format) \in Seq(Nat)
  /\ \A f \in Feds : FedFields(f) \in Seq(Nat)
  /\ <<FEDB_HEADER_LENGTH>> \in Seq(Nat)
<1>1. ASSUME NEW r \in FmrRecords PROVE HeaderFields(r) \in Seq(Nat)
  BY DEF HeaderFields
<1>2. ASSUME NEW format \in AllFormats
      PROVE  ViewFields(format) \in Seq(Nat) /\ FmdFields(format) \in Seq(Nat)
  BY DEF ViewFields, FmdFields
<1>3. ASSUME NEW f \in Feds PROVE FedFields(f) \in Seq(Nat)
  <2> DEFINE core  == <<2, 2>> \o IF f.angular THEN <<1>> ELSE <<>>
             delta == <<2, 2>> \o IF f.angular THEN <<1, 1, 1>> ELSE <<>>
             counts == Repeated(f.elems, <<1, 1, 1>>)
             cores  == Repeated(f.elems, core)
             deltas == Repeated(f.deltas, delta)
  <2>1. f.elems \in Nat /\ f.deltas \in Nat /\ f.length \in Nat
    <3>1. f.length \in USHORT /\ f.elems \in Nat /\ f.deltas \in Nat
      BY DEF Feds
    <3> QED BY <3>1 DEF USHORT
  <2>2. core \in Seq(Nat) /\ delta \in Seq(Nat) /\ <<1, 1, 1>> \in Seq(Nat)
    OBVIOUS
  <2> HIDE DEF core, delta
  <2>3. counts \in Seq(Nat) /\ cores \in Seq(Nat) /\ deltas \in Seq(Nat)
    BY <2>1, <2>2, RepeatedType
  <2> HIDE DEF counts, cores, deltas
  <2>4. CASE f.type = FED_RIDGE_COUNT
    <3>1. FedFields(f) = <<2, 2>> \o (<<1>> \o counts)
      BY <2>4 DEF FedFields, counts, FED_RIDGE_COUNT, FED_CORE_AND_DELTA, FED_OTHER
    <3> QED BY <2>3, <3>1
  <2>5. CASE f.type = FED_CORE_AND_DELTA
    <3>1. FedFields(f) = <<2, 2>> \o (<<1>> \o cores \o <<1>> \o deltas)
      BY <2>5 DEF FedFields, cores, core, deltas, delta, FED_RIDGE_COUNT, FED_CORE_AND_DELTA,
            FED_OTHER
    <3> QED BY <2>3, <3>1
  <2>6. CASE f.type = FED_OTHER
    <3>1. FedFields(f) = <<2, 2>> \o <<f.length - FED_HEADER_LENGTH>>
      BY <2>6 DEF FedFields, FED_RIDGE_COUNT, FED_CORE_AND_DELTA, FED_OTHER
    <3>2. f.length - FED_HEADER_LENGTH \in Nat
      BY <2>1, <2>6 DEF Feds, FED_HEADER_LENGTH
    <3> QED BY <3>1, <3>2
  <2> QED BY <2>4, <2>5, <2>6 DEF Feds, FedTypes
<1>4. <<FEDB_HEADER_LENGTH>> \in Seq(Nat)
  BY DEF FEDB_HEADER_LENGTH
<1> QED BY <1>1, <1>2, <1>3, <1>4

\* The lists that a record, and what is in it, are strung together from.
HeaderPart(r)  == Fields("header", HeaderFields(r))
ViewPart(r)    == Fields("view", ViewFields(r.format_std))
FmdPart(r)     == Fields("fmd", FmdFields(r.format_std))
BlockPart      == Fields("block", <<FEDB_HEADER_LENGTH>>)
FedPart(r, v, i) == FedLayout(r.views[v].feds[i])

ViewLists(r)   == [i \in DOMAIN r.views |-> ViewLayout(r.format_std, r.views[i])]
FmdLists(r, v) == [i \in 1 .. r.views[v].fmds |-> FmdPart(r)]
FedLists(r, v) == [i \in DOMAIN r.views[v].feds |-> FedPart(r, v, i)]

\* What comes before view v, its minutia i, its FED i.
BeforeView(r, v)   == Join(HeaderPart(r), Before(ViewLists(r), v))
BeforeFmd(r, v, i) == Join(Join(BeforeView(r, v), ViewPart(r)), Before(FmdLists(r, v), i))
BeforeFed(r, v, i) ==
  Join(Join(BeforeFmd(r, v, r.views[v].fmds + 1), BlockPart), Before(FedLists(r, v), i))

\* A record, its views, their minutiae and their blocks as lists of fields.
LEMMA PartsType ==
  ASSUME NEW r \in FmrRecords
  PROVE  /\ HeaderPart(r) \in FieldLists /\ BlockPart \in FieldLists
         /\ ViewPart(r) \in FieldLists /\ FmdPart(r) \in FieldLists
         /\ r.views \in Seq(FingerViews) /\ r.format_std \in AllFormats
         /\ \A v \in DOMAIN r.views :
              /\ r.views[v].fmds \in Nat /\ r.views[v].feds \in Seq(Feds)
              /\ \A i \in DOMAIN r.views[v].feds :
                   r.views[v].feds[i] \in Feds /\ FedPart(r, v, i) \in FieldLists
              /\ FmdLists(r, v) \in Seq(FieldLists)
              /\ Len(FmdLists(r, v)) = r.views[v].fmds
              /\ FedLists(r, v) \in Seq(FieldLists)
              /\ Len(FedLists(r, v)) = Len(r.views[v].feds)
              /\ ViewLayout(r.format_std, r.views[v]) \in FieldLists
         /\ ViewLists(r) \in Seq(FieldLists) /\ Len(ViewLists(r)) = Len(r.views)
<1>1. {"header", "view", "fmd", "block", "fed"} \subseteq Parts
  BY DEF Parts
<1>2. r.views \in Seq(FingerViews) /\ r.format_std \in AllFormats
  BY DEF FmrRecords
<1>3. /\ HeaderPart(r) \in FieldLists /\ BlockPart \in FieldLists
      /\ ViewPart(r) \in FieldLists /\ FmdPart(r) \in FieldLists
  BY <1>1, <1>2, SizesType, FieldsType DEF HeaderPart, BlockPart, ViewPart, FmdPart
<1>4. ASSUME NEW v \in DOMAIN r.views
      PROVE  /\ r.views[v].fmds \in Nat /\ r.views[v].feds \in Seq(Feds)
             /\ \A i \in DOMAIN r.views[v].feds :
                  r.views[v].feds[i] \in Feds /\ FedPart(r, v, i) \in FieldLists
             /\ FmdLists(r, v) \in Seq(FieldLists)
             /\ Len(FmdLists(r, v)) = r.views[v].fmds
             /\ FedLists(r, v) \in Seq(FieldLists)
             /\ Len(FedLists(r, v)) = Len(r.views[v].feds)
             /\ ViewLayout(r.format_std, r.views[v]) \in FieldLists
  <2> PICK w \in FingerViews : w = r.views[v]
    BY <1>2
  <2>1. w.fmds \in Nat /\ w.feds \in Seq(Feds) /\ Len(w.feds) \in Nat
    BY DEF FingerViews
  <2>2. \A i \in DOMAIN w.feds : w.feds[i] \in Feds /\ FedLayout(w.feds[i]) \in FieldLists
    BY <1>1, <2>1, SizesType, FieldsType DEF FedLayout
  <2>3. FmdLists(r, v) \in Seq(FieldLists) /\ Len(FmdLists(r, v)) = w.fmds
    BY <1>3, <2>1, RepeatedType DEF FmdLists
  <2>4. FedLists(r, v) \in Seq(FieldLists) /\ Len(FedLists(r, v)) = Len(w.feds)
    <3>1. FedLists(r, v) = [i \in 1 .. Len(w.feds) |-> FedLayout(w.feds[i])]
      BY <2>1 DEF FedLists, FedPart
    <3>2. \A i \in 1 .. Len(w.feds) : FedLayout(w.feds[i]) \in FieldLists
      BY <2>1, <2>2
    <3> QED BY <2>1, <3>1, <3>2
  <2>5. ViewLayout(r.format_std, w) \in FieldLists
    <3>1. Extended(w) = Join(BlockPart, FlattenSeq(FedLists(r, v)))
      BY DEF Extended, BlockPart, FedLists, FedPart, Join
    <3>2. FlattenSeq(FedLists(r, v)) \in FieldLists
      BY <2>4, Flattened
    <3>3. Repeated(w.fmds, FmdPart(r)) \in FieldLists
      BY <1>3, <2>1, RepeatedType DEF FieldLists
    <3>4. Extended(w) \in FieldLists
      BY <1>3, <3>1, <3>2, Joined
    <3> DEFINE e == IF r.format_std \in Cards THEN <<>> ELSE Extended(w)
    <3>5. e \in FieldLists
      BY <3>4, Joined
    <3>6. ViewLayout(r.format_std, w) =
            Join(Join(ViewPart(r), Repeated(w.fmds, FmdPart(r))), e)
      BY DEF ViewLayout, ViewPart, FmdPart, Join
    <3> HIDE DEF e
    <3> QED BY <1>3, <3>3, <3>5, <3>6, Joined
  <2> QED BY <2>1, <2>2, <2>3, <2>4, <2>5 DEF FedPart
<1>5. ViewLists(r) \in Seq(FieldLists) /\ Len(ViewLists(r)) = Len(r.views)
  <2>1. /\ ViewLists(r) = [i \in 1 .. Len(r.views) |-> ViewLayout(r.format_std, r.views[i])]
        /\ Len(r.views) \in Nat
    BY <1>2 DEF ViewLists
  <2>2. \A i \in 1 .. Len(r.views) : ViewLayout(r.format_std, r.views[i]) \in FieldLists
    BY <1>2, <1>4
  <2> QED BY <2>1, <2>2
<1> QED BY <1>2, <1>3, <1>4, <1>5

\* The places of a record: each part that is written leads from one to the next.
LEMMA ViewPlaces ==
  ASSUME NEW r \in FmrRecords
  PROVE  /\ BeforeView(r, 1) = HeaderPart(r)
         /\ BeforeView(r, Len(r.views) + 1) = Layout(r)
         /\ \A v \in 1 .. Len(r.views) + 1 :
              BeforeView(r, v) \in FieldLists /\ Begins(BeforeView(r, v), Layout(r))
         /\ \A v \in DOMAIN r.views :
              BeforeView(r, v + 1) = Join(BeforeView(r, v), ViewLayout(r.format_std, r.views[v]))
<1> DEFINE ss == ViewLists(r)
           h == HeaderPart(r)
           n == Len(r.views)
           t == FlattenSeq(ViewLists(r))
<1>1. /\ h \in FieldLists /\ ss \in Seq(FieldLists) /\ Len(ss) = n
      /\ DOMAIN r.views = 1 .. n
      /\ \A v \in 1 .. n : ViewLayout(r.format_std, r.views[v]) \in FieldLists
  BY PartsType
<1>2. \A v \in 1 .. n : ss[v] = ViewLayout(r.format_std, r.views[v])
  BY <1>1 DEF ViewLists
<1>3. Layout(r) = Join(h, t)
  BY DEF Layout, HeaderPart, ViewLists, Join
<1>4. /\ Before(ss, 1) = <<>> /\ Before(ss, n + 1) = t
      /\ \A v \in 1 .. n + 1 : Before(ss, v) \in FieldLists /\ Begins(Before(ss, v), t)
      /\ \A v \in 1 .. n : Before(ss, v + 1) = Join(Before(ss, v), ss[v])
  BY <1>1, BeforeNext
<1>5. \A v : BeforeView(r, v) = Join(h, Before(ss, v))
  BY DEF BeforeView
<1>6. t \in FieldLists
  BY <1>1, Flattened
<1> HIDE DEF ss, h, n, t
<1>7. BeforeView(r, 1) = h /\ BeforeView(r, n + 1) = Layout(r)
  BY <1>1, <1>3, <1>4, <1>5, Joined
<1>8. ASSUME NEW v \in 1 .. n + 1
      PROVE  BeforeView(r, v) \in FieldLists /\ Begins(BeforeView(r, v), Layout(r))
  <2>1. Before(ss, v) \in FieldLists /\ Begins(Before(ss, v), t)
    BY <1>4
  <2> QED BY <1>1, <1>3, <1>5, <1>6, <2>1, Joined, BeginsJoined
<1>9. ASSUME NEW v \in 1 .. n
      PROVE  BeforeView(r, v + 1) = Join(BeforeView(r, v), ViewLayout(r.format_std, r.views[v]))
  <2>1. /\ Before(ss, v) \in FieldLists /\ ss[v] \in FieldLists
        /\ Before(ss, v + 1) = Join(Before(ss, v), ss[v])
    <3>1. v \in 1 .. n + 1
      BY <1>1, PartsType DEF n
    <3> QED BY <1>1, <1>2, <1>4, <3>1
  <2> QED BY <1>1, <1>2, <1>5, <2>1, Assoc
<1> QED BY <1>1, <1>7, <1>8, <1>9 DEF h, n

\* The places inside a view, up to the end of its minutiae.
LEMMA FmdPlaces ==
  ASSUME NEW r \in FmrRecords, NEW v \in DOMAIN r.views
  PROVE  /\ BeforeFmd(r, v, 1) = Join(BeforeView(r, v), ViewPart(r))
         /\ \A i \in 1 .. r.views[v].fmds + 1 :
              /\ BeforeFmd(r, v, i) \in FieldLists
              /\ Begins(BeforeFmd(r, v, i), Layout(r))
         /\ \A i \in 1 .. r.views[v].fmds :
              BeforeFmd(r, v, i + 1) = Join(BeforeFmd(r, v, i), FmdPart(r))
         /\ r.format_std \in Cards =>
              BeforeFmd(r, v, r.views[v].fmds + 1) = BeforeView(r, v + 1)
         /\ r.format_std \notin Cards =>
              BeforeView(r, v + 1) =
                Join(Join(BeforeFmd(r, v, r.views[v].fmds + 1), BlockPart),
                     FlattenSeq(FedLists(r, v)))
<1> DEFINE ss == FmdLists(r, v)
           n == r.views[v].fmds
           t == FlattenSeq(FmdLists(r, v))
           e == FlattenSeq(FedLists(r, v))
           p == BeforeView(r, v)
           h == ViewPart(r)
           b == BlockPart
           f == FmdPart(r)
           next == BeforeView(r, v + 1)
           layout == ViewLayout(r.format_std, r.views[v])
<1>1. n \in Nat /\ ss \in Seq(FieldLists) /\ Len(ss) = n /\ t \in FieldLists /\ e \in FieldLists
  BY PartsType, Flattened
<1>2. \A i \in 1 .. n : ss[i] = f
  BY DEF FmdLists
<1>3. h \in FieldLists /\ b \in FieldLists /\ f \in FieldLists /\ layout \in FieldLists
  BY PartsType
<1>4. v \in 1 .. Len(r.views) + 1 /\ v + 1 \in 1 .. Len(r.views) + 1
  <2>1. r.views \in Seq(FingerViews)
    BY DEF FmrRecords
  <2> QED BY <2>1
<1>5. p \in FieldLists /\ next \in FieldLists /\ Begins(next, Layout(r)) /\ next = Join(p, layout)
  BY <1>4, ViewPlaces
<1>6. \A i : BeforeFmd(r, v, i) = Join(Join(p, h), Before(ss, i))
  BY DEF BeforeFmd
<1>7. layout = IF r.format_std \in Cards THEN Join(Join(h, t), <<>>)
                                         ELSE Join(Join(h, t), Join(b, e))
  BY DEF ViewLayout, Extended, ViewPart, FmdPart, BlockPart, FmdLists, FedLists, FedPart,
         Repeated, Join
<1>8. /\ Before(ss, 1) = <<>> /\ Before(ss, n + 1) = t
      /\ \A i \in 1 .. n + 1 : Before(ss, i) \in FieldLists /\ Begins(Before(ss, i), t)
      /\ \A i \in 1 .. n : Before(ss, i + 1) = Join(Before(ss, i), ss[i])
  BY <1>1, BeforeNext
<1>9. Layout(r) \in FieldLists
  <2>1. Len(r.views) + 1 \in 1 .. Len(r.views) + 1
    BY <1>4
  <2> QED BY <2>1, ViewPlaces
<1> HIDE DEF ss, n, t, e, p, h, b, f, next, layout
<1>10. BeforeFmd(r, v, 1) = Join(p, h)
  BY <1>3, <1>5, <1>6, <1>8, Joined
<1>11. ASSUME NEW i \in 1 .. n
       PROVE  BeforeFmd(r, v, i + 1) = Join(BeforeFmd(r, v, i), f)
  <2>1. Before(ss, i) \in FieldLists /\ Before(ss, i + 1) = Join(Before(ss, i), f)
    BY <1>1, <1>2, <1>8
  <2>2. Join(p, h) \in FieldLists
    BY <1>3, <1>5, Joined
  <2> QED BY <1>3, <1>6, <2>1, <2>2, Assoc
<1>12. BeforeFmd(r, v, n + 1) = Join(p, Join(h, t)) /\ Join(h, t) \in FieldLists
  BY <1>1, <1>3, <1>5, <1>6, <1>8, Assoc, Joined
<1>13. ASSUME r.format_std \in Cards PROVE BeforeFmd(r, v, n + 1) = next
  BY <1>5, <1>7, <1>12, <1>13, Joined
<1>14. ASSUME r.format_std \notin Cards
       PROVE  next = Join(Join(BeforeFmd(r, v, n + 1), b), e)
  <2>1. next = Join(p, Join(Join(h, t), Join(b, e)))
    BY <1>5, <1>7, <1>14
  <2>2. Join(b, e) \in FieldLists
    BY <1>1, <1>3, Joined
  <2>3. next = Join(Join(p, Join(h, t)), Join(b, e))
    BY <1>5, <1>12, <2>1, <2>2, Assoc
  <2>4. Join(p, Join(h, t)) \in FieldLists
    BY <1>5, <1>12, Joined
  <2> QED BY <1>1, <1>3, <1>12, <2>3, <2>4, Assoc
<1>15. Begins(BeforeFmd(r, v, n + 1), next) /\ BeforeFmd(r, v, n + 1) \in FieldLists
  <2>1. BeforeFmd(r, v, n + 1) \in FieldLists
    BY <1>5, <1>12, Joined
  <2>2. CASE r.format_std \in Cards
    BY <1>13, <2>1, <2>2, BeginsJoined
  <2>3. CASE r.format_std \notin Cards
    <3>1. next = Join(BeforeFmd(r, v, n + 1), Join(b, e)) /\ Join(b, e) \in FieldLists
      BY <1>1, <1>3, <1>14, <2>1, <2>3, Assoc, Joined
    <3> QED BY <2>1, <3>1, BeginsJoined
  <2> QED BY <2>1, <2>2, <2>3
<1>16. ASSUME NEW i \in 1 .. n + 1
       PROVE  BeforeFmd(r, v, i) \in FieldLists /\ Begins(BeforeFmd(r, v, i), Layout(r))
  <2>1. Before(ss, i) \in FieldLists /\ Begins(Before(ss, i), t)
    BY <1>8
  <2>2. Join(p, h) \in FieldLists
    BY <1>3, <1>5, Joined
  <2>3. BeforeFmd(r, v, i) \in FieldLists
    BY <1>6, <2>1, <2>2, Joined
  <2>4. Begins(BeforeFmd(r, v, i), BeforeFmd(r, v, n + 1))
    BY <1>1, <1>6, <1>8, <2>1, <2>2, BeginsJoined
  <2>5. Begins(BeforeFmd(r, v, i), next)
    BY <1>5, <1>15, <2>3, <2>4, BeginsJoined
  <2> QED BY <1>5, <1>9, <2>3, <2>5, BeginsJoined
<1> QED BY <1>10, <1>11, <1>13, <1>14, <1>16 DEF n, e, p, h, b, f, next

\* The places inside an extended data block.
LEMMA FedPlaces ==
  ASSUME NEW r \in FmrRecords, NEW v \in DOMAIN r.views, r.format_std \notin Cards
  PROVE  /\ BeforeFed(r, v, 1) = Join(BeforeFmd(r, v, r.views[v].fmds + 1), BlockPart)
         /\ \A i \in 1 .. Len(r.views[v].feds) + 1 :
              /\ BeforeFed(r, v, i) \in FieldLists
              /\ Begins(BeforeFed(r, v, i), Layout(r))
         /\ \A i \in DOMAIN r.views[v].feds :
              BeforeFed(r, v, i + 1) = Join(BeforeFed(r, v, i), FedPart(r, v, i))
         /\ BeforeFed(r, v, Len(r.views[v].feds) + 1) = BeforeView(r, v + 1)
<1> DEFINE ss == FedLists(r, v)
           n == Len(r.views[v].feds)
           e == FlattenSeq(FedLists(r, v))
           b == BeforeFmd(r, v, r.views[v].fmds + 1)
           p == Join(BeforeFmd(r, v, r.views[v].fmds + 1), BlockPart)
           next == BeforeView(r, v + 1)
<1>1. n \in Nat /\ ss \in Seq(FieldLists) /\ Len(ss) = n /\ e \in FieldLists
      /\ DOMAIN r.views[v].feds = 1 .. n
  <2>1. r.views[v].feds \in Seq(Feds) /\ ss \in Seq(FieldLists) /\ Len(ss) = n
    BY PartsType
  <2>2. n \in Nat /\ DOMAIN r.views[v].feds = 1 .. n
    BY <2>1
  <2> QED BY <2>1, <2>2, Flattened
<1>2. \A i \in 1 .. n : ss[i] = FedPart(r, v, i) /\ FedPart(r, v, i) \in FieldLists
  BY <1>1, PartsType DEF FedLists
<1>3. p \in FieldLists
  <2>1. r.views[v].fmds + 1 \in 1 .. r.views[v].fmds + 1
    BY PartsType
  <2>2. b \in FieldLists
    BY <2>1, FmdPlaces
  <2>3. BlockPart \in FieldLists
    BY PartsType
  <2> QED BY <2>2, <2>3, Joined
<1>4. next \in FieldLists /\ Begins(next, Layout(r)) /\ Layout(r) \in FieldLists
  <2>1. r.views \in Seq(FingerViews)
    BY DEF FmrRecords
  <2>2. v + 1 \in 1 .. Len(r.views) + 1 /\ Len(r.views) + 1 \in 1 .. Len(r.views) + 1
    BY <2>1
  <2> QED BY <2>2, ViewPlaces
<1>5. \A i : BeforeFed(r, v, i) = Join(p, Before(ss, i))
  BY DEF BeforeFed
<1>6. next = Join(p, e)
  BY FmdPlaces
<1>7. /\ Before(ss, 1) = <<>> /\ Before(ss, n + 1) = e
      /\ \A i \in 1 .. n + 1 : Before(ss, i) \in FieldLists /\ Begins(Before(ss, i), e)
      /\ \A i \in 1 .. n : Before(ss, i + 1) = Join(Before(ss, i), ss[i])
  BY <1>1, BeforeNext
<1> HIDE DEF ss, n, e, p, b, next
<1>8. BeforeFed(r, v, 1) = p
  BY <1>3, <1>5, <1>7, Joined
<1>9. ASSUME NEW i \in 1 .. n
      PROVE  BeforeFed(r, v, i + 1) = Join(BeforeFed(r, v, i), FedPart(r, v, i))
  <2>1. /\ Before(ss, i) \in FieldLists /\ FedPart(r, v, i) \in FieldLists
        /\ Before(ss, i + 1) = Join(Before(ss, i), FedPart(r, v, i))
    BY <1>1, <1>2, <1>7
  <2> QED BY <1>3, <1>5, <2>1, Assoc
<1>10. BeforeFed(r, v, n + 1) = next
  BY <1>5, <1>6, <1>7
<1>11. ASSUME NEW i \in 1 .. n + 1
       PROVE  BeforeFed(r, v, i) \in FieldLists /\ Begins(BeforeFed(r, v, i), Layout(r))
  <2>1. Before(ss, i) \in FieldLists /\ Begins(Before(ss, i), e)
    BY <1>7
  <2>2. BeforeFed(r, v, i) \in FieldLists
    BY <1>3, <1>5, <2>1, Joined
  <2>3. Begins(BeforeFed(r, v, i), next)
    BY <1>1, <1>3, <1>5, <1>6, <2>1, BeginsJoined
  <2> QED BY <1>4, <2>2, <2>3, BeginsJoined
<1> QED BY <1>1, <1>8, <1>9, <1>10, <1>11 DEF n, p, next

-----------------------------------------------------------------------------
(* The writer between two of its steps.                                    *)

\* What a complete copy holds before the part that is written next.
Place ==
  CASE writing = "header" -> <<>>
    [] writing = "view"   -> BeforeView(record, view)
    [] writing = "fmd"    -> BeforeFmd(record, view, item)
    [] writing = "fedb"   -> BeforeFmd(record, view, record.views[view].fmds + 1)
    [] writing = "fed"    -> BeforeFed(record, view, item)
    [] OTHER -> Layout(record)

\* The writer is at a part that the record has.
AtPart ==
  /\ writing \in Pcs
  /\ writing \in {"view", "fmd", "fedb", "fed"} => view \in DOMAIN record.views
  /\ writing = "fmd" => item \in 1 .. record.views[view].fmds
  /\ writing = "fed" => item \in DOMAIN record.views[view].feds
  /\ writing \in {"fedb", "fed"} => record.format_std \notin Cards

\* The buffer holds the whole record.
Large == sink = "buffer" /\ end >= SumOf(SizesOf(Layout(record)))

\* All is there but FEDs, and in a buffer that is large enough FEDs are, too.
Copied(done) == WithoutFeds(out) = WithoutFeds(done) /\ (Large => out = done)

\* A part that is not a FED was cut.
Cut == ~ Large /\ Begins(WithoutFeds(out), WithoutFeds(Layout(record)))

CursorInv ==
  /\ current = SumOf(SizesOf(out))
  /\ sink = "buffer" => current <= end

CopyInv ==
  /\ writing # "done" \/ wret = WRITE_OK => Copied(Place)
  /\ writing = "done" /\ wret # WRITE_OK => Cut

SinkType == record \in FmrRecords /\ sink \in Sources /\ end \in Nat

WriterInv ==
  /\ SinkType
  /\ out \in FieldLists /\ wret \in WRITE_CODES
  /\ AtPart
  /\ CursorInv
  /\ CopyInv

\* The writer goes on, and this is what a complete copy has by then.
Goes(done) ==
  /\ AtPart' /\ Place' = done
  /\ wret' \in WRITE_CODES
  /\ writing' = "done" => wret' = WRITE_OK

\* internal_write_fmr's loop over the views.
LEMMA GoesToView ==
  ASSUME SinkType, wret \in WRITE_CODES, Frame, NEW v \in 1 .. Len(record.views) + 1, ToView(v)
  PROVE  Goes(BeforeView(record, v))
<1>1. record' = record /\ Len(record.views) \in Nat /\ DOMAIN record.views = 1 .. Len(record.views)
  BY DEF Frame, SinkType, FmrRecords
<1>2. CASE v <= Len(record.views)
  <2>1. writing' = "view" /\ view' = v /\ wret' = wret
    BY <1>2 DEF ToView
  <2> QED BY <1>1, <1>2, <2>1 DEF Goes, AtPart, Pcs, Place
<1>3. CASE ~ (v <= Len(record.views))
  <2>1. writing' = "done" /\ wret' = WRITE_OK
    BY <1>3 DEF ToView, Returns
  <2>2. v = Len(record.views) + 1
    BY <1>1, <1>3
  <2>3. BeforeView(record, v) = Layout(record)
    BY <2>2, ViewPlaces DEF SinkType
  <2> QED BY <1>1, <2>1, <2>3 DEF Goes, AtPart, Pcs, Place, WRITE_CODES, WRITE_OK
<1> QED BY <1>2, <1>3

\* internal_write_fvmr's loop over the minutiae.
LEMMA GoesToFmd ==
  ASSUME SinkType, wret \in WRITE_CODES, Frame, view \in DOMAIN record.views,
         NEW n \in 1 .. record.views[view].fmds + 1, ToFmd(n)
  PROVE  Goes(BeforeFmd(record, view, n))
<1>1. record' = record /\ record \in FmrRecords
  BY DEF Frame, SinkType
<1>2. record.views[view].fmds \in Nat /\ view + 1 \in 1 .. Len(record.views) + 1
  <2>1. record.views \in Seq(FingerViews)
    BY <1>1 DEF FmrRecords
  <2>2. record.views[view] \in FingerViews /\ view + 1 \in 1 .. Len(record.views) + 1
    BY <2>1
  <2>3. record.views[view].fmds \in Nat
    BY <2>2 DEF FingerViews
  <2> QED BY <2>2, <2>3
<1>3. CASE n <= record.views[view].fmds
  <2>1. writing' = "fmd" /\ item' = n /\ view' = view /\ wret' = wret
    BY <1>2, <1>3 DEF ToFmd, CurrentView
  <2> QED BY <1>1, <1>2, <1>3, <2>1 DEF Goes, AtPart, Pcs, Place
<1>4. CASE ~ (n <= record.views[view].fmds) /\ record.format_std \in Cards
  <2>1. ToView(view + 1)
    BY <1>2, <1>4 DEF ToFmd, CurrentView
  <2>2. n = record.views[view].fmds + 1
    BY <1>2, <1>4
  <2>3. BeforeFmd(record, view, n) = BeforeView(record, view + 1)
    BY <1>1, <1>4, <2>2, FmdPlaces
  <2> QED BY <1>2, <2>1, <2>3, GoesToView
<1>5. CASE ~ (n <= record.views[view].fmds) /\ record.format_std \notin Cards
  <2>1. writing' = "fedb" /\ view' = view /\ wret' = wret
    BY <1>2, <1>5 DEF ToFmd, CurrentView
  <2>2. n = record.views[view].fmds + 1
    BY <1>2, <1>5
  <2> QED BY <1>1, <1>5, <2>1, <2>2 DEF Goes, AtPart, Pcs, Place
<1> QED BY <1>3, <1>4, <1>5

\* internal_write_fedb's loop over the FEDs.
LEMMA GoesToFed ==
  ASSUME SinkType, wret \in WRITE_CODES, Frame, view \in DOMAIN record.views,
         record.format_std \notin Cards,
         NEW n \in 1 .. Len(record.views[view].feds) + 1, ToFed(n)
  PROVE  Goes(BeforeFed(record, view, n))
<1>1. record' = record /\ record \in FmrRecords
  BY DEF Frame, SinkType
<1>2. view + 1 \in 1 .. Len(record.views) + 1
  <2>1. record.views \in Seq(FingerViews)
    BY <1>1 DEF FmrRecords
  <2> QED BY <2>1
<1>3. /\ Len(record.views[view].feds) \in Nat
      /\ DOMAIN record.views[view].feds = 1 .. Len(record.views[view].feds)
  <2>1. record.views[view].feds \in Seq(Feds)
    BY <1>1, PartsType
  <2> QED BY <2>1
<1>4. CASE n <= Len(record.views[view].feds)
  <2>1. writing' = "fed" /\ item' = n /\ view' = view /\ wret' = wret
    BY <1>4 DEF ToFed, CurrentView
  <2> QED BY <1>1, <1>3, <1>4, <2>1 DEF Goes, AtPart, Pcs, Place
<1>5. CASE ~ (n <= Len(record.views[view].feds))
  <2>1. ToView(view + 1)
    BY <1>5 DEF ToFed, CurrentView
  <2>2. n = Len(record.views[view].feds) + 1
    BY <1>3, <1>5
  <2>3. BeforeFed(record, view, n) = BeforeView(record, view + 1)
    BY <1>1, <2>2, FedPlaces
  <2> QED BY <1>2, <2>1, <2>3, GoesToView
<1> QED BY <1>4, <1>5

-----------------------------------------------------------------------------
(* A part is written, or the beginning of it.                              *)

\* The first fields of a part, and the rest of them.
LEMMA FieldsSplit ==
  ASSUME NEW part \in Parts, NEW sizes \in Seq(Nat), NEW k \in 0 .. Len(sizes)
  PROVE  /\ SubSeq(sizes, 1, k) \in Seq(Nat)
         /\ [n \in 1 .. k |-> <<part, sizes[n]>>] = Fields(part, SubSeq(sizes, 1, k))
         /\ Begins(Fields(part, SubSeq(sizes, 1, k)), Fields(part, sizes))
         /\ k = Len(sizes) => SubSeq(sizes, 1, k) = sizes
         /\ k < Len(sizes) =>
              /\ SumOf(SubSeq(sizes, 1, k + 1)) <= SumOf(sizes)
              /\ k + 1 \in 0 .. Len(sizes)
         /\ SumOf(SubSeq(sizes, 1, k)) \in Nat
<1> DEFINE s == SubSeq(sizes, 1, k)
           t == SubSeq(sizes, k + 1, Len(sizes))
<1>1. Len(sizes) \in Nat /\ k \in Nat
  OBVIOUS
<1>2. /\ s \in Seq(Nat) /\ Len(s) = k /\ \A n \in 1 .. k : s[n] = sizes[n]
  BY <1>1
<1>3. /\ t \in Seq(Nat) /\ Len(t) = Len(sizes) - k
      /\ \A n \in 1 .. Len(sizes) - k : t[n] = sizes[k + n]
  BY <1>1
<1>4. \A m \in 0 .. Len(sizes) : SumOf(SubSeq(sizes, 1, m)) \in Nat
                                 /\ SumOf(SubSeq(sizes, 1, m)) <= SumOf(sizes)
  <2> TAKE m \in 0 .. Len(sizes)
  <2> DEFINE u == SubSeq(sizes, 1, m)
  <2>1. u \in Seq(Nat) /\ Len(u) = m /\ DOMAIN u = 1 .. m /\ m \in Nat
        /\ \A n \in 1 .. m : u[n] = sizes[n] /\ u[n] \in Nat
    BY <1>1
  <2>2. DOMAIN sizes = 1 .. Len(sizes) /\ \A n \in 1 .. Len(sizes) : sizes[n] \in Nat
    OBVIOUS
  <2> HIDE DEF u
  <2>3. SumFunction(u) \in Nat
    BY <2>1, SumType
  <2>4. SumFunction(u) <= SumFunction(sizes)
    BY <1>1, <2>1, <2>2, SumOfPart
  <2> QED BY <2>3, <2>4 DEF u, SumOf
<1> HIDE DEF s, t
<1>5. [n \in 1 .. k |-> <<part, sizes[n]>>] = Fields(part, s)
  <2>1. DOMAIN s = 1 .. k
    BY <1>2
  <2> QED BY <1>2, <2>1 DEF Fields
<1>6. Begins(Fields(part, s), Fields(part, sizes))
  <2> DEFINE a == Fields(part, s)
             b == Fields(part, t)
             c == Fields(part, sizes)
             d == a \o b
  <2>1. a \in Seq(AllFields) /\ b \in Seq(AllFields) /\ c \in Seq(AllFields)
        /\ Len(a) = k /\ Len(b) = Len(sizes) - k /\ Len(c) = Len(sizes)
    BY <1>2, <1>3, FieldsType DEF FieldLists
  <2>2. /\ \A n \in 1 .. k : a[n] = <<part, sizes[n]>>
        /\ \A n \in 1 .. Len(sizes) - k : b[n] = <<part, sizes[k + n]>>
        /\ \A n \in 1 .. Len(sizes) : c[n] = <<part, sizes[n]>>
    <3>1. \A u \in Seq(Nat) : \A n \in 1 .. Len(u) : Fields(part, u)[n] = <<part, u[n]>>
      BY DEF Fields
    <3>2. \A n \in 1 .. k : a[n] = <<part, s[n]>>
      BY <1>2, <3>1
    <3>3. \A n \in 1 .. Len(sizes) - k : b[n] = <<part, t[n]>>
      BY <1>3, <3>1
    <3>4. \A n \in 1 .. k : a[n] = <<part, sizes[n]>>
      BY ONLY <1>2, <3>2
    <3>5. \A n \in 1 .. Len(sizes) - k : b[n] = <<part, sizes[k + n]>>
      BY ONLY <1>3, <3>3
    <3>6. \A n \in 1 .. Len(sizes) : c[n] = <<part, sizes[n]>>
      BY <3>1
    <3> QED BY ONLY <3>4, <3>5, <3>6
  <2> HIDE DEF a, b, c
  <2>3. /\ d \in Seq(AllFields) /\ Len(d) = Len(a) + Len(b)
        /\ \A n \in 1 .. Len(a) + Len(b) : d[n] = IF n <= Len(a) THEN a[n] ELSE b[n - Len(a)]
    BY <2>1, ConcatProperties
  <2> HIDE DEF d
  <2>4. Len(d) = Len(sizes)
    BY <1>1, <2>1, <2>3
  <2>5. \A n \in 1 .. Len(sizes) : d[n] = c[n]
    <3> TAKE n \in 1 .. Len(sizes)
    <3>1. d[n] = IF n <= k THEN a[n] ELSE b[n - k]
      BY <1>1, <2>1, <2>3
    <3>2. CASE n <= k
      <4>1. n \in 1 .. k
        BY <1>1, <3>2
      <4> QED BY <2>2, <3>1, <3>2, <4>1
    <3>3. CASE ~ (n <= k)
      <4>1. n - k \in 1 .. Len(sizes) - k /\ k + (n - k) = n
        BY <1>1, <3>3
      <4>2. b[n - k] = <<part, sizes[n]>>
        BY <2>2, <4>1
      <4> QED BY <2>2, <3>1, <3>3, <4>2
    <3> QED BY <3>2, <3>3
  <2>6. d = c
    BY <2>1, <2>3, <2>4, <2>5, SeqEqual
  <2>7. b \in FieldLists
    BY <2>1 DEF FieldLists
  <2> QED BY <2>6, <2>7 DEF Begins, Join, a, b, c, d
<1>7. ASSUME k = Len(sizes) PROVE s = sizes
  BY <1>2, <1>7, SeqEqual
<1>8. ASSUME k < Len(sizes) PROVE k + 1 \in 0 .. Len(sizes)
  BY <1>1, <1>8
<1> QED BY <1>2, <1>4, <1>5, <1>6, <1>7, <1>8 DEF s

\* How far a part is written: in a buffer to its end, or to what does not fit.
LEMMA EmittedIs ==
  ASSUME NEW sizes \in Seq(Nat), NEW k \in Emitted(sizes)
  PROVE  /\ k \in 0 .. Len(sizes)
         /\ sink = "buffer" =>
              /\ current + SumOf(SubSeq(sizes, 1, k)) <= end
              /\ k < Len(sizes) => ~ (current + SumOf(SubSeq(sizes, 1, k + 1)) <= end)
BY DEF Emitted, Fits

\* What is emitted comes behind what is there, and the cursor with it.
LEMMA PutPart ==
  ASSUME WriterInv, Frame, NEW part \in Parts, NEW sizes \in Seq(Nat), NEW k \in Emitted(sizes),
         Put(part, sizes, k)
  PROVE  SinkType' /\ out' \in FieldLists /\ CursorInv'
         /\ out' = Join(out, Fields(part, SubSeq(sizes, 1, k)))
<1> DEFINE s == SubSeq(sizes, 1, k)
           q == Fields(part, s)
<1>1. k \in 0 .. Len(sizes) /\ s \in Seq(Nat) /\ SumOf(s) \in Nat
      /\ [n \in 1 .. k |-> <<part, sizes[n]>>] = q
      /\ (sink = "buffer" => current + SumOf(s) <= end)
  BY EmittedIs, FieldsSplit
<1> HIDE DEF s
<1>2. q \in FieldLists /\ SizesOf(q) = s
  BY <1>1, FieldsType
<1> HIDE DEF q
<1>3. out' = Join(out, q) /\ current' = current + SumOf(s)
  BY <1>1 DEF Put, Join, s
<1>4. out \in FieldLists /\ current = SumOf(SizesOf(out)) /\ SinkType
  BY DEF WriterInv, CursorInv
<1>5. SumOf(SizesOf(Join(out, q))) = SumOf(SizesOf(out)) + SumOf(s)
  BY <1>2, <1>4, SumsConcat
<1>6. record' = record /\ sink' = sink /\ end' = end
  BY DEF Frame
<1>7. out' \in FieldLists
  BY <1>2, <1>3, <1>4, Joined
<1>8. current' = SumOf(SizesOf(out'))
  BY <1>3, <1>4, <1>5
<1>9. CursorInv'
  BY <1>1, <1>3, <1>6, <1>8 DEF CursorInv
<1>10. SinkType'
  BY <1>4, <1>6 DEF SinkType
<1> QED BY <1>3, <1>7, <1>9, <1>10 DEF q, s

\* In a buffer that holds the whole record no part is cut.
LEMMA LargeIsWhole ==
  ASSUME WriterInv, NEW part \in Parts, NEW sizes \in Seq(Nat), NEW k \in Emitted(sizes),
         Large, out = Place, Begins(Join(Place, Fields(part, sizes)), Layout(record))
  PROVE  k = Len(sizes)
<1>1. out \in FieldLists /\ current = SumOf(SizesOf(out)) /\ end \in Nat
  BY DEF WriterInv, CursorInv, SinkType
<1> DEFINE q == Fields(part, sizes)
<1>2. q \in FieldLists /\ SizesOf(q) = sizes
  BY FieldsType
<1> HIDE DEF q
<1>3. PICK rest \in FieldLists : Layout(record) = Join(Join(out, q), rest)
  BY DEF Begins, q
<1>4. Join(out, q) \in FieldLists
  BY <1>1, <1>2, Joined
<1>5. /\ SumOf(SizesOf(Layout(record))) = SumOf(SizesOf(Join(out, q))) + SumOf(SizesOf(rest))
      /\ SumOf(SizesOf(rest)) \in Nat
  BY <1>3, <1>4, SumsConcat
<1>6. SumOf(SizesOf(Join(out, q))) = current + SumOf(sizes)
      /\ current \in Nat /\ SumOf(sizes) \in Nat
  BY <1>1, <1>2, SumsConcat
<1>7. current + SumOf(sizes) <= end
  BY <1>1, <1>5, <1>6 DEF Large
<1>8. k \in 0 .. Len(sizes)
      /\ (k < Len(sizes) => ~ (current + SumOf(SubSeq(sizes, 1, k + 1)) <= end))
  BY EmittedIs DEF Large
<1>9. ASSUME k < Len(sizes) PROVE FALSE
  <2> DEFINE m == SumOf(SubSeq(sizes, 1, k + 1))
  <2>1. m <= SumOf(sizes) /\ k + 1 \in 0 .. Len(sizes)
    BY <1>8, <1>9, FieldsSplit
  <2>2. m \in Nat
    BY <2>1, FieldsSplit
  <2>3. ~ (current + m <= end)
    BY <1>8, <1>9
  <2> HIDE DEF m
  <2> QED BY <1>1, <1>6, <1>7, <2>1, <2>2, <2>3
<1> QED BY <1>8, <1>9

\* A part written whole takes the writer on.
LEMMA WholePart ==
  ASSUME WriterInv, writing # "done", Frame, NEW part \in Parts, NEW sizes \in Seq(Nat),
         NEW k \in Emitted(sizes), Put(part, sizes, k), k = Len(sizes),
         Place \in FieldLists, Goes(Join(Place, Fields(part, sizes)))
  PROVE  WriterInv'
<1> DEFINE q == Fields(part, sizes)
           p == Place
<1>1. /\ SinkType' /\ out' \in FieldLists /\ CursorInv' /\ out' = Join(out, q)
  <2>1. SubSeq(sizes, 1, k) = sizes
    BY FieldsSplit, EmittedIs
  <2>2. /\ SinkType' /\ out' \in FieldLists /\ CursorInv'
        /\ out' = Join(out, Fields(part, SubSeq(sizes, 1, k)))
    BY PutPart
  <2> QED BY <2>1, <2>2
<1>2. q \in FieldLists
  BY FieldsType
<1>3. out \in FieldLists /\ WithoutFeds(out) = WithoutFeds(p) /\ (Large => out = p)
  BY DEF WriterInv, CopyInv, Copied
<1>4. Large' <=> Large
  BY DEF Large, Frame
<1>5. AtPart' /\ Place' = Join(p, q) /\ wret' \in WRITE_CODES
      /\ (writing' = "done" => wret' = WRITE_OK)
  BY DEF Goes
<1>6. WithoutFeds(out') = WithoutFeds(Place')
  <2>1. WithoutFeds(Join(out, q)) = Join(WithoutFeds(out), WithoutFeds(q))
    BY <1>2, <1>3, WithoutConcat
  <2>2. WithoutFeds(Join(p, q)) = Join(WithoutFeds(p), WithoutFeds(q))
    BY <1>2, WithoutConcat
  <2> QED BY <1>1, <1>3, <1>5, <2>1, <2>2
<1>7. Large' => out' = Place'
  BY <1>1, <1>3, <1>4, <1>5
<1>8. CopyInv'
  BY <1>5, <1>6, <1>7 DEF CopyInv, Copied
<1> QED BY <1>1, <1>5, <1>8 DEF WriterInv

\* A part that is cut is the end of the write.
LEMMA CutPart ==
  ASSUME WriterInv, writing # "done", Frame, NEW part \in Parts, NEW sizes \in Seq(Nat),
         NEW k \in Emitted(sizes), Put(part, sizes, k), k # Len(sizes),
         Place \in FieldLists, Layout(record) \in FieldLists,
         Begins(Join(Place, Fields(part, sizes)), Layout(record)),
         Returns(WRITE_ERROR)
  PROVE  WriterInv'
<1> DEFINE q == Fields(part, SubSeq(sizes, 1, k))
           p == Place
           l == Layout(record)
<1>1. SinkType' /\ out' \in FieldLists /\ CursorInv' /\ out' = Join(out, q)
  BY PutPart
<1>2. /\ q \in FieldLists /\ Fields(part, sizes) \in FieldLists
      /\ Begins(q, Fields(part, sizes))
  BY FieldsType, FieldsSplit, EmittedIs
<1>3. out \in FieldLists /\ WithoutFeds(out) = WithoutFeds(p) /\ (Large => out = p)
  BY DEF WriterInv, CopyInv, Copied
<1>4. ~ Large
  BY <1>3, LargeIsWhole
<1>5. PICK rest \in FieldLists : l = Join(Join(p, q), rest)
  <2>1. Begins(Join(p, q), Join(p, Fields(part, sizes)))
    BY <1>2, BeginsJoined
  <2>2. Join(p, q) \in FieldLists /\ Join(p, Fields(part, sizes)) \in FieldLists
    BY <1>2, Joined
  <2>3. Begins(Join(p, q), l)
    BY <2>1, <2>2, BeginsJoined
  <2> QED BY <2>3 DEF Begins
<1>6. Begins(WithoutFeds(out'), WithoutFeds(l))
  <2>1. Join(p, q) \in FieldLists
    BY <1>2, Joined
  <2>2. WithoutFeds(l) = Join(WithoutFeds(Join(p, q)), WithoutFeds(rest))
        /\ WithoutFeds(rest) \in FieldLists
    BY <1>5, <2>1, WithoutConcat
  <2>3. WithoutFeds(Join(p, q)) = Join(WithoutFeds(p), WithoutFeds(q))
    BY <1>2, WithoutConcat
  <2>4. WithoutFeds(Join(out, q)) = Join(WithoutFeds(out), WithoutFeds(q))
    BY <1>2, <1>3, WithoutConcat
  <2>5. WithoutFeds(l) = Join(WithoutFeds(out'), WithoutFeds(rest))
    BY <1>1, <1>3, <2>2, <2>3, <2>4
  <2> QED BY <2>2, <2>5 DEF Begins
<1>7. writing' = "done" /\ wret' = WRITE_ERROR /\ Layout(record)' = l /\ (Large' <=> Large)
  BY DEF Returns, Frame, Large
<1>8. Cut'
  BY <1>4, <1>6, <1>7 DEF Cut
<1>9. AtPart' /\ wret' \in WRITE_CODES /\ wret' # WRITE_OK
  BY <1>7 DEF AtPart, Pcs, WRITE_CODES, WRITE_OK, WRITE_ERROR
<1>10. CopyInv'
  BY <1>7, <1>8, <1>9 DEF CopyInv
<1> QED BY <1>1, <1>9, <1>10 DEF WriterInv

\* A FED may be cut, and the writer goes on all the same.
LEMMA AnyFed ==
  ASSUME WriterInv, writing # "done", Frame, NEW sizes \in Seq(Nat),
         NEW k \in Emitted(sizes), Put("fed", sizes, k),
         Place \in FieldLists, Begins(Join(Place, Fields("fed", sizes)), Layout(record)),
         Goes(Join(Place, Fields("fed", sizes)))
  PROVE  WriterInv'
<1> DEFINE q == Fields("fed", SubSeq(sizes, 1, k))
           w == Fields("fed", sizes)
           p == Place
<1>0. "fed" \in Parts
  BY DEF Parts
<1>1. SinkType' /\ out' \in FieldLists /\ CursorInv' /\ out' = Join(out, q)
  BY <1>0, PutPart
<1>2. /\ k \in 0 .. Len(sizes) /\ SubSeq(sizes, 1, k) \in Seq(Nat)
      /\ (k = Len(sizes) => SubSeq(sizes, 1, k) = sizes)
  BY <1>0, FieldsSplit, EmittedIs
<1>3. /\ q \in FieldLists /\ w \in FieldLists
      /\ WithoutFeds(q) = <<>> /\ WithoutFeds(w) = <<>>
  BY <1>0, <1>2, FieldsType, NoFeds
<1>4. out \in FieldLists /\ WithoutFeds(out) = WithoutFeds(p) /\ (Large => out = p)
  BY DEF WriterInv, CopyInv, Copied
<1>5. Large' <=> Large
  BY DEF Large, Frame
<1>6. AtPart' /\ Place' = Join(p, w) /\ wret' \in WRITE_CODES
      /\ (writing' = "done" => wret' = WRITE_OK)
  BY DEF Goes
<1>7. WithoutFeds(out') = WithoutFeds(Place')
  <2>1. WithoutFeds(Join(out, q)) = Join(WithoutFeds(out), WithoutFeds(q))
    BY <1>3, <1>4, WithoutConcat
  <2>2. WithoutFeds(Join(p, w)) = Join(WithoutFeds(p), WithoutFeds(w))
    BY <1>3, WithoutConcat
  <2> QED BY <1>1, <1>3, <1>4, <1>6, <2>1, <2>2
<1>8. ASSUME Large PROVE out' = Place'
  <2>1. k = Len(sizes)
    BY <1>0, <1>4, <1>8, LargeIsWhole
  <2> QED BY <1>1, <1>2, <1>4, <1>6, <1>8, <2>1
<1>9. CopyInv'
  BY <1>5, <1>6, <1>7, <1>8 DEF CopyInv, Copied
<1> QED BY <1>1, <1>6, <1>9 DEF WriterInv

-----------------------------------------------------------------------------
(* The steps.                                                              *)

\* A part other than a FED, written whole or cut.
LEMMA PartKeeps ==
  ASSUME WriterInv, writing # "done", Frame, NEW part \in Parts, NEW sizes \in Seq(Nat),
         NEW k \in Emitted(sizes), Put(part, sizes, k),
         Place \in FieldLists, Layout(record) \in FieldLists,
         Begins(Join(Place, Fields(part, sizes)), Layout(record)),
         k = Len(sizes) => Goes(Join(Place, Fields(part, sizes))),
         k # Len(sizes) => Returns(WRITE_ERROR)
  PROVE  WriterInv'
<1>1. CASE k = Len(sizes)
  BY <1>1, WholePart
<1>2. CASE k # Len(sizes)
  BY <1>2, CutPart
<1> QED BY <1>1, <1>2

\* The indices that the loops use.
LEMMA LayoutType ==
  ASSUME NEW r \in FmrRecords
  PROVE  /\ Layout(r) \in FieldLists
         /\ Len(r.views) + 1 \in 1 .. Len(r.views) + 1 /\ 1 \in 1 .. Len(r.views) + 1
         /\ \A v \in DOMAIN r.views :
              /\ v \in 1 .. Len(r.views) + 1 /\ v + 1 \in 1 .. Len(r.views) + 1
              /\ r.views[v].fmds \in Nat
              /\ r.views[v].fmds + 1 \in 1 .. r.views[v].fmds + 1
              /\ 1 \in 1 .. r.views[v].fmds + 1
              /\ 1 \in 1 .. Len(r.views[v].feds) + 1
              /\ \A i \in DOMAIN r.views[v].feds :
                   /\ i \in 1 .. Len(r.views[v].feds) + 1
                   /\ i + 1 \in 1 .. Len(r.views[v].feds) + 1
                   /\ r.views[v].feds[i] \in Feds
<1>1. r.views \in Seq(FingerViews)
  BY DEF FmrRecords
<1>2. Len(r.views) + 1 \in 1 .. Len(r.views) + 1 /\ 1 \in 1 .. Len(r.views) + 1
      /\ \A v \in DOMAIN r.views : v \in 1 .. Len(r.views) + 1 /\ v + 1 \in 1 .. Len(r.views) + 1
  BY <1>1
<1>3. Layout(r) \in FieldLists
  BY <1>2, ViewPlaces
<1>4. ASSUME NEW v \in DOMAIN r.views
      PROVE  /\ r.views[v].fmds \in Nat /\ r.views[v].feds \in Seq(Feds)
             /\ \A i \in DOMAIN r.views[v].feds : r.views[v].feds[i] \in Feds
  BY PartsType
<1>5. ASSUME NEW v \in DOMAIN r.views
      PROVE  /\ r.views[v].fmds + 1 \in 1 .. r.views[v].fmds + 1
             /\ 1 \in 1 .. r.views[v].fmds + 1
             /\ 1 \in 1 .. Len(r.views[v].feds) + 1
             /\ \A i \in DOMAIN r.views[v].feds :
                  /\ i \in 1 .. Len(r.views[v].feds) + 1
                  /\ i + 1 \in 1 .. Len(r.views[v].feds) + 1
  <2>1. /\ r.views[v].fmds \in Nat /\ Len(r.views[v].feds) \in Nat
        /\ DOMAIN r.views[v].feds = 1 .. Len(r.views[v].feds)
    BY <1>4
  <2> QED BY ONLY <2>1
<1> QED BY <1>2, <1>3, <1>4, <1>5

\* internal_write_fmr's header.
LEMMA WriteHeaderKeeps ==
  ASSUME WriterInv, WriteHeader
  PROVE  WriterInv'
<1>1. SinkType /\ record \in FmrRecords /\ wret \in WRITE_CODES
  BY DEF WriterInv, SinkType
<1> DEFINE sizes == HeaderFields(record)
           q == HeaderPart(record)
<1>2. PICK k \in Emitted(sizes) :
        /\ Put("header", sizes, k)
        /\ IF k = Len(sizes) THEN ToView(1) ELSE Returns(WRITE_ERROR)
  BY DEF WriteHeader
<1>3. writing = "header" /\ Frame /\ Place = <<>>
  BY DEF WriteHeader, Place
<1>4. "header" \in Parts /\ sizes \in Seq(Nat) /\ Layout(record) \in FieldLists
      /\ 1 \in 1 .. Len(record.views) + 1
  BY <1>1, SizesType, LayoutType DEF Parts
<1>5. q \in FieldLists /\ <<>> \in FieldLists /\ Join(<<>>, q) = q
  <2>1. q \in FieldLists
    BY <1>1, PartsType
  <2>2. Join(<<>>, q) = q
    BY <2>1 DEF Join, FieldLists
  <2> QED BY <2>1, <2>2, Joined
<1>6. BeforeView(record, 1) = q /\ Begins(q, Layout(record))
  BY <1>1, <1>4, ViewPlaces
<1>7. Fields("header", sizes) = q
  BY DEF HeaderPart
<1> HIDE DEF sizes, q
<1>8. k = Len(sizes) => Goes(Join(Place, Fields("header", sizes)))
  <2> SUFFICES ASSUME k = Len(sizes) PROVE Goes(q)
    BY <1>3, <1>5, <1>7
  <2>1. ToView(1)
    BY <1>2
  <2> QED BY <1>1, <1>3, <1>4, <1>6, <2>1, GoesToView
<1>9. k # Len(sizes) => Returns(WRITE_ERROR)
  BY <1>2
<1>10. /\ Begins(Join(Place, Fields("header", sizes)), Layout(record)) /\ Place \in FieldLists
       /\ writing # "done"
  BY <1>3, <1>5, <1>6, <1>7
<1> QED BY <1>2, <1>3, <1>4, <1>8, <1>9, <1>10, PartKeeps

\* internal_write_fvmr's header.
LEMMA WriteViewHeaderKeeps ==
  ASSUME WriterInv, WriteViewHeader
  PROVE  WriterInv'
<1>1. SinkType /\ record \in FmrRecords /\ wret \in WRITE_CODES
  BY DEF WriterInv, SinkType
<1> DEFINE sizes == ViewFields(record.format_std)
           q == ViewPart(record)
<1>2. PICK k \in Emitted(sizes) :
        /\ Put("view", sizes, k)
        /\ IF k = Len(sizes) THEN ToFmd(1) ELSE Returns(WRITE_ERROR)
  BY DEF WriteViewHeader
<1>3. writing = "view" /\ Frame /\ Place = BeforeView(record, view) /\ view \in DOMAIN record.views
  BY DEF WriteViewHeader, Place, WriterInv, AtPart
<1>4. "view" \in Parts /\ sizes \in Seq(Nat) /\ Layout(record) \in FieldLists
      /\ 1 \in 1 .. record.views[view].fmds + 1
  <2>1. record.format_std \in AllFormats
    BY <1>1, PartsType
  <2> QED BY <1>1, <1>3, <2>1, SizesType, LayoutType DEF Parts
<1>5. Place \in FieldLists
  <2>1. view \in 1 .. Len(record.views) + 1
    BY <1>1, <1>3, LayoutType
  <2> QED BY <1>1, <1>3, <2>1, ViewPlaces
<1>6. /\ BeforeFmd(record, view, 1) = Join(Place, q)
      /\ Begins(Join(Place, q), Layout(record))
  BY <1>1, <1>3, <1>4, FmdPlaces
<1>7. Fields("view", sizes) = q
  BY DEF ViewPart
<1> HIDE DEF sizes, q
<1>8. k = Len(sizes) => Goes(Join(Place, Fields("view", sizes)))
  <2> SUFFICES ASSUME k = Len(sizes) PROVE Goes(Join(Place, q))
    BY <1>7
  <2>1. ToFmd(1)
    BY <1>2
  <2> QED BY <1>1, <1>3, <1>4, <1>6, <2>1, GoesToFmd
<1>9. k # Len(sizes) => Returns(WRITE_ERROR)
  BY <1>2
<1>10. Begins(Join(Place, Fields("view", sizes)), Layout(record)) /\ writing # "done"
  BY <1>3, <1>6, <1>7
<1> QED BY <1>2, <1>3, <1>4, <1>5, <1>8, <1>9, <1>10, PartKeeps

\* write_fmd and its kin.
LEMMA WriteFmdKeeps ==
  ASSUME WriterInv, WriteFmd
  PROVE  WriterInv'
<1>1. SinkType /\ record \in FmrRecords /\ wret \in WRITE_CODES
  BY DEF WriterInv, SinkType
<1> DEFINE sizes == FmdFields(record.format_std)
           q == FmdPart(record)
<1>2. PICK k \in Emitted(sizes) :
        /\ Put("fmd", sizes, k)
        /\ IF k = Len(sizes) THEN ToFmd(item + 1) ELSE Returns(WRITE_ERROR)
  BY DEF WriteFmd
<1>3. /\ writing = "fmd" /\ Frame /\ Place = BeforeFmd(record, view, item)
      /\ view \in DOMAIN record.views /\ item \in 1 .. record.views[view].fmds
  BY DEF WriteFmd, Place, WriterInv, AtPart
<1>4. /\ "fmd" \in Parts /\ sizes \in Seq(Nat) /\ Layout(record) \in FieldLists
      /\ item \in 1 .. record.views[view].fmds + 1
      /\ item + 1 \in 1 .. record.views[view].fmds + 1
  <2>1. record.format_std \in AllFormats /\ record.views[view].fmds \in Nat
    BY <1>1, <1>3, PartsType
  <2>2. /\ item \in 1 .. record.views[view].fmds + 1
        /\ item + 1 \in 1 .. record.views[view].fmds + 1
    BY <1>3, <2>1
  <2> QED BY <1>1, <1>3, <2>1, <2>2, SizesType, LayoutType DEF Parts
<1>5. Place \in FieldLists
  BY <1>1, <1>3, <1>4, FmdPlaces
<1>6. /\ BeforeFmd(record, view, item + 1) = Join(Place, q)
      /\ Begins(Join(Place, q), Layout(record))
  BY <1>1, <1>3, <1>4, FmdPlaces
<1>7. Fields("fmd", sizes) = q
  BY DEF FmdPart
<1> HIDE DEF sizes, q
<1>8. k = Len(sizes) => Goes(Join(Place, Fields("fmd", sizes)))
  <2> SUFFICES ASSUME k = Len(sizes) PROVE Goes(Join(Place, q))
    BY <1>7
  <2>1. ToFmd(item + 1)
    BY <1>2
  <2> QED BY <1>1, <1>3, <1>4, <1>6, <2>1, GoesToFmd
<1>9. k # Len(sizes) => Returns(WRITE_ERROR)
  BY <1>2
<1>10. Begins(Join(Place, Fields("fmd", sizes)), Layout(record)) /\ writing # "done"
  BY <1>3, <1>6, <1>7
<1> QED BY <1>2, <1>3, <1>4, <1>5, <1>8, <1>9, <1>10, PartKeeps

\* internal_write_fedb's length.
LEMMA WriteBlockLengthKeeps ==
  ASSUME WriterInv, WriteBlockLength
  PROVE  WriterInv'
<1>1. SinkType /\ record \in FmrRecords /\ wret \in WRITE_CODES
  BY DEF WriterInv, SinkType
<1> DEFINE sizes == <<FEDB_HEADER_LENGTH>>
           q == BlockPart
<1>2. PICK k \in Emitted(sizes) :
        /\ Put("block", sizes, k)
        /\ IF k = Len(sizes) THEN ToFed(1) ELSE Returns(WRITE_ERROR)
  BY DEF WriteBlockLength
<1>3. /\ writing = "fedb" /\ Frame /\ Place = BeforeFmd(record, view, record.views[view].fmds + 1)
      /\ view \in DOMAIN record.views /\ record.format_std \notin Cards
  BY DEF WriteBlockLength, Place, WriterInv, AtPart
<1>4. /\ "block" \in Parts /\ sizes \in Seq(Nat) /\ Layout(record) \in FieldLists
      /\ record.views[view].fmds + 1 \in 1 .. record.views[view].fmds + 1
      /\ 1 \in 1 .. Len(record.views[view].feds) + 1
  BY <1>1, <1>3, SizesType, LayoutType DEF Parts
<1>5. Place \in FieldLists
  BY <1>1, <1>3, <1>4, FmdPlaces
<1>6. /\ BeforeFed(record, view, 1) = Join(Place, q)
      /\ Begins(Join(Place, q), Layout(record))
  BY <1>1, <1>3, <1>4, FedPlaces
<1>7. Fields("block", sizes) = q
  BY DEF BlockPart
<1> HIDE DEF sizes, q
<1>8. k = Len(sizes) => Goes(Join(Place, Fields("block", sizes)))
  <2> SUFFICES ASSUME k = Len(sizes) PROVE Goes(Join(Place, q))
    BY <1>7
  <2>1. ToFed(1)
    BY <1>2
  <2> QED BY <1>1, <1>3, <1>4, <1>6, <2>1, GoesToFed
<1>9. k # Len(sizes) => Returns(WRITE_ERROR)
  BY <1>2
<1>10. Begins(Join(Place, Fields("block", sizes)), Layout(record)) /\ writing # "done"
  BY <1>3, <1>6, <1>7
<1> QED BY <1>2, <1>3, <1>4, <1>5, <1>8, <1>9, <1>10, PartKeeps

\* internal_write_fed, whose result nobody looks at.
LEMMA WriteFedKeeps ==
  ASSUME WriterInv, WriteFed
  PROVE  WriterInv'
<1>1. SinkType /\ record \in FmrRecords /\ wret \in WRITE_CODES
  BY DEF WriterInv, SinkType
<1> DEFINE sizes == FedFields(record.views[view].feds[item])
           q == FedPart(record, view, item)
<1>2. PICK k \in Emitted(sizes) : Put("fed", sizes, k)
  BY DEF WriteFed, CurrentView
<1>3. /\ writing = "fed" /\ Frame /\ Place = BeforeFed(record, view, item)
      /\ view \in DOMAIN record.views /\ record.format_std \notin Cards
      /\ item \in DOMAIN record.views[view].feds /\ ToFed(item + 1)
  BY DEF WriteFed, Place, WriterInv, AtPart
<1>4. /\ Layout(record) \in FieldLists
      /\ item \in 1 .. Len(record.views[view].feds) + 1
      /\ item + 1 \in 1 .. Len(record.views[view].feds) + 1
      /\ record.views[view].feds[item] \in Feds
  BY <1>1, <1>3, LayoutType
<1>5. Place \in FieldLists /\ sizes \in Seq(Nat)
  BY <1>1, <1>3, <1>4, FedPlaces, SizesType
<1>6. /\ BeforeFed(record, view, item + 1) = Join(Place, q)
      /\ Begins(Join(Place, q), Layout(record))
  BY <1>1, <1>3, <1>4, FedPlaces
<1>7. Fields("fed", sizes) = q
  BY DEF FedPart, FedLayout
<1> HIDE DEF sizes, q
<1>8. Goes(Join(Place, q))
  BY <1>1, <1>3, <1>4, <1>6, GoesToFed
<1>9. writing # "done"
  BY <1>3
<1> QED BY <1>2, <1>3, <1>5, <1>6, <1>7, <1>8, <1>9, AnyFed

\* Nothing is written yet.
LEMMA WriterStarts == WriterInit => WriterInv
<1> SUFFICES ASSUME WriterInit PROVE WriterInv
  OBVIOUS
<1>1. /\ record \in FmrRecords /\ sink \in Sources /\ end \in Nat
      /\ current = 0 /\ out = <<>> /\ writing = "header" /\ wret = WRITE_OK
  BY RecordsAssumption, WriterEndAssumption DEF WriterInit
<1>2. <<>> \in FieldLists /\ SumOf(SizesOf(<<>>)) = 0
  <2>1. DOMAIN SizesOf(<<>>) = 1 .. 0
    BY DEF SizesOf
  <2>2. SumFunction(SizesOf(<<>>)) = 0
    BY <2>1, SumType
  <2> QED BY <2>2, Joined DEF SumOf
<1>3. SinkType /\ AtPart /\ wret \in WRITE_CODES
  BY <1>1 DEF SinkType, AtPart, Pcs, WRITE_CODES
<1>4. CursorInv
  BY <1>1, <1>2 DEF CursorInv
<1>5. Place = <<>>
  BY <1>1 DEF Place
<1>6. CopyInv
  BY <1>1, <1>5 DEF CopyInv, Copied
<1> QED BY <1>1, <1>2, <1>3, <1>4, <1>6 DEF WriterInv

\* Every step keeps the invariant.
LEMMA WriterKeeps == WriterInv /\ [WriterNext]_writerVars => WriterInv'
<1> SUFFICES ASSUME WriterInv, [WriterNext]_writerVars PROVE WriterInv'
  OBVIOUS
<1>1. CASE WriteHeader
  BY <1>1, WriteHeaderKeeps
<1>2. CASE WriteViewHeader
  BY <1>2, WriteViewHeaderKeeps
<1>3. CASE WriteFmd
  BY <1>3, WriteFmdKeeps
<1>4. CASE WriteBlockLength
  BY <1>4, WriteBlockLengthKeeps
<1>5. CASE WriteFed
  BY <1>5, WriteFedKeeps
<1>6. CASE UNCHANGED writerVars
  <2>1. /\ record' = record /\ sink' = sink /\ end' = end /\ current' = current /\ out' = out
        /\ writing' = writing /\ view' = view /\ item' = item /\ wret' = wret
    BY <1>6 DEF writerVars
  <2>2. SinkType' /\ AtPart' /\ CursorInv' /\ (Large' <=> Large) /\ Place' = Place
    BY <2>1 DEF WriterInv, SinkType, AtPart, CursorInv, Large, Place
  <2>3. CopyInv'
    BY <2>1, <2>2 DEF WriterInv, CopyInv, Copied, Cut
  <2> QED BY <2>1, <2>2, <2>3 DEF WriterInv
<1> QED BY <1>1, <1>2, <1>3, <1>4, <1>5, <1>6 DEF WriterNext

\* The invariant holds throughout.
LEMMA WriterInvHolds == WriterSpec => []WriterInv
<1>1. WriterInit => WriterInv
  BY WriterStarts
<1>2. WriterInv /\ [WriterNext]_writerVars => WriterInv'
  BY WriterKeeps
<1> QED BY <1>1, <1>2, PTL DEF WriterSpec

(***************************************************************************)
(* For every record, every size of the buffer and every place where a disk *)
(* fails: the cursor of internal_write_fmr stays in the buffer, and counts *)
(* the bytes that were written.                                            *)
(***************************************************************************)
THEOREM CursorIsTrueHolds == WriterSpec => []CursorIsTrue
<1>1. WriterInv => CursorIsTrue
  <2> SUFFICES ASSUME WriterInv PROVE CursorIsTrue
    OBVIOUS
  <2>1. out \in Seq(Parts \X Nat) /\ SumOf(SizesOf(out)) \in Nat
    BY SumsConcat DEF WriterInv, FieldLists, AllFields
  <2>2. WriterTypeOK
    BY <2>1 DEF WriterInv, WriterTypeOK, SinkType, CursorInv, AtPart, CurrentView
  <2> QED BY <2>2 DEF WriterInv, CursorInv, CursorIsTrue
<1> QED BY <1>1, WriterInvHolds, PTL

\* Where the writer is, the record has something before it.
LEMMA PlaceBegins ==
  ASSUME WriterInv
  PROVE  Place \in FieldLists /\ Begins(Place, Layout(record)) /\ Layout(record) \in FieldLists
<1>1. record \in FmrRecords /\ AtPart
  BY DEF WriterInv, SinkType
<1>2. Layout(record) \in FieldLists
  BY <1>1, LayoutType
<1>3. CASE writing = "header"
  <2>1. Place = <<>> /\ <<>> \in FieldLists
    BY <1>3, Joined DEF Place
  <2>2. Layout(record) = Join(<<>>, Layout(record))
    BY <1>2 DEF Join, FieldLists
  <2> QED BY <1>2, <2>1, <2>2 DEF Begins
<1>4. CASE writing = "view"
  <2>1. view \in 1 .. Len(record.views) + 1
    BY <1>1, <1>4, LayoutType DEF AtPart
  <2> QED BY <1>1, <1>2, <1>4, <2>1, ViewPlaces DEF Place
<1>5. CASE writing \in {"fmd", "fedb"}
  <2> DEFINE n == IF writing = "fmd" THEN item ELSE record.views[view].fmds + 1
  <2>1. view \in DOMAIN record.views /\ Place = BeforeFmd(record, view, n)
    BY <1>1, <1>5 DEF AtPart, Place
  <2>2. record.views[view].fmds \in Nat
    BY <1>1, <2>1, LayoutType
  <2>3. n \in 1 .. record.views[view].fmds + 1
    BY <1>1, <1>5, <2>2 DEF AtPart
  <2> HIDE DEF n
  <2> QED BY <1>1, <1>2, <2>1, <2>3, FmdPlaces
<1>6. CASE writing = "fed"
  <2>1. /\ view \in DOMAIN record.views /\ item \in DOMAIN record.views[view].feds
        /\ Place = BeforeFed(record, view, item) /\ record.format_std \notin Cards
    BY <1>1, <1>6 DEF AtPart, Place
  <2>2. item \in 1 .. Len(record.views[view].feds) + 1
    BY <1>1, <2>1, LayoutType
  <2> QED BY <1>1, <1>2, <2>1, <2>2, FedPlaces
<1>7. CASE writing = "done"
  <2>1. Place = Layout(record)
    BY <1>7 DEF Place
  <2> QED BY <1>2, <2>1, BeginsJoined
<1> QED BY <1>1, <1>3, <1>4, <1>5, <1>6, <1>7 DEF AtPart, Pcs

(***************************************************************************)
(* Whatever does not fit of the extended data, the rest of the record      *)
(* comes out in order, whole when internal_write_fmr returns WRITE_OK; and *)
(* a buffer that can hold the record gets all of it, extended data, too.   *)
(***************************************************************************)
THEOREM OnlyFedsAreCutHolds == WriterSpec => []OnlyFedsAreCut
<1>1. WriterInv => OnlyFedsAreCut
  <2> SUFFICES ASSUME WriterInv PROVE OnlyFedsAreCut
    OBVIOUS
  <2> DEFINE l == Layout(record)
  <2>1. Place \in FieldLists /\ Begins(Place, l) /\ l \in FieldLists
    BY PlaceBegins
  <2>2. out \in FieldLists /\ CopyInv /\ wret \in WRITE_CODES
    BY DEF WriterInv
  <2>3. WithoutFeds(out) \in FieldLists /\ WithoutFeds(l) \in FieldLists
    BY <2>1, <2>2, WithoutConcat
  <2>4. Begins(WithoutFeds(Place), WithoutFeds(l))
    <3>1. PICK rest \in FieldLists : l = Join(Place, rest)
      BY <2>1 DEF Begins
    <3>2. /\ WithoutFeds(l) = Join(WithoutFeds(Place), WithoutFeds(rest))
          /\ WithoutFeds(rest) \in FieldLists
      BY <2>1, <3>1, WithoutConcat
    <3> QED BY <3>2 DEF Begins
  <2>5. writing = "done" => Place = l
    BY DEF Place
  <2> HIDE DEF l
  <2>6. Begins(WithoutFeds(out), WithoutFeds(l))
    <3>1. CASE writing # "done" \/ wret = WRITE_OK
      BY <2>2, <2>4, <3>1 DEF CopyInv, Copied
    <3>2. CASE writing = "done" /\ wret # WRITE_OK
      BY <2>2, <3>2 DEF CopyInv, Cut, l
    <3> QED BY <3>1, <3>2
  <2>7. IsPrefix(WithoutFeds(out), WithoutFeds(l))
    BY <2>3, <2>6, BeginsIsPrefix
  <2>8. writing = "done" /\ wret = WRITE_OK => WithoutFeds(out) = WithoutFeds(l)
    BY <2>2, <2>5 DEF CopyInv, Copied
  <2>9. writing = "done" /\ Large => wret = WRITE_OK /\ out = l
    BY <2>2, <2>5 DEF CopyInv, Copied, Cut
  <2> QED BY <2>7, <2>8, <2>9 DEF OnlyFedsAreCut, Large, l
<1> QED BY <1>1, WriterInvHolds, PTL

-----------------------------------------------------------------------------
(* The checker's memory.                                                   *)

\* What is expected next of a finger is one more than the number of a view.
Remembered ==
  \A f \in FingerCodes : next_min_view[f] # 0 =>
    \E i \in DOMAIN finger_views :
      /\ finger_views[i].finger_number = f
      /\ finger_views[i].view_number = next_min_view[f] - 1

\* View i was entered, or a later one of its finger.
Entered(i) ==
  /\ finger_views[i].finger_number \in FingerCodes
  /\ finger_views[i].view_number < next_min_view[finger_views[i].finger_number]

Passed    == pc = "view" /\ IsChecked(header) => \A i \in 1 .. at - 1 : Entered(i)
PassedAll == accepted /\ IsChecked(header) => \A i \in 1 .. Len(finger_views) : Entered(i)

\* Of the type invariant what is not a flag.
Counted ==
  /\ header \in Headers
  /\ finger_views \in Seq(Views) /\ Len(finger_views) <= MaxViews
  /\ next_min_view \in [FingerCodes -> UCHAR]
  /\ pc \in {"idle", "view"}
  /\ at \in 0 .. Len(finger_views) /\ (pc = "view" <=> at # 0)
  /\ calls \in 0 .. MaxCalls

CallCounted == pc = "view" => calls < MaxCalls

MemoryInv == TypeOK /\ CallCounted /\ Remembered /\ Passed /\ PassedAll

\* View numbers that one can be added to, as are all of four bits.
NumbersHaveNext == \A v \in Views : v.view_number < UCHAR_MAX

-----------------------------------------------------------------------------
LEMMA TypeParts == Counted /\ ret \in BOOLEAN /\ accepted \in BOOLEAN <=> TypeOK
BY DEF Counted, TypeOK

LEMMA MemoryInit == Init => MemoryInv
<1> SUFFICES ASSUME Init PROVE MemoryInv
  OBVIOUS
<1>1. finger_views = <<>> /\ Len(finger_views) = 0 /\ finger_views \in Seq(Views)
  BY EmptySeq DEF Init
<1>2. next_min_view \in [FingerCodes -> UCHAR] /\ \A f \in FingerCodes : next_min_view[f] = 0
  BY DEF Init, UCHAR, UCHAR_MAX
<1>3. Counted
  BY <1>1, <1>2, BoundsAssumption DEF Init, Counted
<1>4. ret \in BOOLEAN /\ accepted \in BOOLEAN
  BY DEF Init
<1>5. Remembered
  BY <1>2 DEF Remembered
<1>6. CallCounted /\ Passed /\ PassedAll
  BY DEF Init, CallCounted, Passed, PassedAll
<1> QED
  BY <1>3, <1>4, <1>5, <1>6, TypeParts DEF MemoryInv

\* A view is added.
LEMMA AddViewKeeps == ASSUME MemoryInv, AddView PROVE MemoryInv'
<1>1. PICK w \in Views : finger_views' = Append(finger_views, w)
  BY DEF AddView
<1>2. /\ finger_views \in Seq(Views) /\ finger_views' \in Seq(Views)
      /\ Len(finger_views') = Len(finger_views) + 1
      /\ \A i \in DOMAIN finger_views :
           i \in DOMAIN finger_views' /\ finger_views'[i] = finger_views[i]
  BY <1>1 DEF MemoryInv, TypeOK
<1>3. TypeOK'
  <2>1. Counted'
    BY <1>2, BoundsAssumption DEF MemoryInv, TypeOK, Counted, AddView
  <2>2. ret' \in BOOLEAN /\ accepted' \in BOOLEAN
    BY DEF MemoryInv, TypeOK, AddView
  <2> QED
    BY <2>1, <2>2, TypeParts DEF Counted, TypeOK
<1>4. Remembered'
  BY <1>2 DEF MemoryInv, Remembered, AddView
<1>5. CallCounted' /\ Passed' /\ PassedAll'
  BY DEF CallCounted, Passed, PassedAll, AddView
<1> QED
  BY <1>3, <1>4, <1>5 DEF MemoryInv

\* A call begins.
LEMMA ValidateHeaderKeeps == ASSUME MemoryInv, ValidateHeader PROVE MemoryInv'
<1>1. HeaderConforms(header) \in BOOLEAN
  BY DEF HeaderConforms
<1>2. UNCHANGED <<header, finger_views, next_min_view>> /\ calls < MaxCalls
  BY DEF ValidateHeader
<1>3. Len(finger_views) \in Nat
  BY DEF MemoryInv, TypeOK
<1>4. Remembered'
  BY <1>2 DEF MemoryInv, Remembered
<1>5. CASE 1 <= Len(finger_views)
  <2>1. pc' = "view" /\ at' = 1 /\ ret' = HeaderConforms(header) /\ UNCHANGED <<calls, accepted>>
    BY <1>5 DEF ValidateHeader, GoTo
  <2>2. TypeOK'
    BY <1>1, <1>2, <1>3, <1>5, <2>1 DEF MemoryInv, TypeOK
  <2>3. CallCounted' /\ Passed' /\ PassedAll'
    BY <1>2, <2>1 DEF MemoryInv, CallCounted, Passed, PassedAll, Entered, IsChecked
  <2> QED
    BY <1>4, <2>2, <2>3 DEF MemoryInv
<1>6. CASE ~ (1 <= Len(finger_views))
  <2>1. /\ pc' = "idle" /\ at' = 0 /\ ret' = HeaderConforms(header) /\ calls' = calls + 1
        /\ accepted' = (accepted \/ HeaderConforms(header))
    BY <1>6 DEF ValidateHeader, GoTo, Return
  <2>2. TypeOK'
    BY <1>1, <1>2, <1>3, <2>1, BoundsAssumption DEF MemoryInv, TypeOK
  <2>3. CallCounted' /\ Passed' /\ PassedAll'
    BY <1>2, <1>3, <1>6, <2>1 DEF CallCounted, Passed, PassedAll
  <2> QED
    BY <1>4, <2>2, <2>3 DEF MemoryInv
<1> QED
  BY <1>5, <1>6

LEMMA NextNumber ==
  ASSUME NEW n \in UCHAR, n < UCHAR_MAX
  PROVE  (n + 1) % (UCHAR_MAX + 1) = n + 1
<1>1. n \in 0 .. 254 /\ UCHAR_MAX + 1 = 256
  BY DEF UCHAR, UCHAR_MAX
<1> QED
  BY <1>1

\* What a view that is numbered leaves in the memory.
LEMMA NumberingKeeps ==
  ASSUME MemoryInv, NumbersHaveNext, ValidateView
  PROVE  /\ next_min_view' \in [FingerCodes -> UCHAR]
         /\ \A f \in FingerCodes : next_min_view'[f] >= next_min_view[f]
         /\ Remembered'
<1> DEFINE v == finger_views[at]
<1>1. /\ at \in DOMAIN finger_views /\ v \in Views /\ v \in View
      /\ UNCHANGED <<header, finger_views>>
  BY ViewsAssumption DEF ValidateView, MemoryInv, TypeOK
<1>2. v.view_number \in UCHAR /\ v.view_number < UCHAR_MAX
  BY <1>1 DEF View, NumbersHaveNext
<1>3. \A f \in FingerCodes : next_min_view[f] \in UCHAR
  BY DEF MemoryInv, TypeOK
<1>4. CASE UNCHANGED next_min_view
  BY <1>1, <1>3, <1>4 DEF MemoryInv, TypeOK, Remembered, UCHAR
<1>5. CASE v.finger_number \in FingerCodes /\ NumberConforms(v) /\ Enter(v)
  <2>1. (v.view_number + 1) % (UCHAR_MAX + 1) = v.view_number + 1
    BY <1>2, NextNumber
  <2>2. next_min_view' = [next_min_view EXCEPT ![v.finger_number] = v.view_number + 1]
    BY <1>5, <2>1 DEF Enter
  <2>3. v.view_number + 1 \in UCHAR
    BY <1>2 DEF UCHAR, UCHAR_MAX
  <2>4. v.view_number + 1 >= next_min_view[v.finger_number]
    BY <1>2, <1>3, <1>5 DEF NumberConforms, UCHAR
  <2>5. next_min_view \in [FingerCodes -> UCHAR]
    BY DEF MemoryInv, TypeOK
  <2>6. \A f \in FingerCodes : next_min_view'[f] >= next_min_view[f]
    BY <1>3, <1>5, <2>2, <2>4, <2>5 DEF UCHAR
  <2>7. Remembered'
    <3> SUFFICES ASSUME NEW f \in FingerCodes, next_min_view'[f] # 0
                 PROVE  \E i \in DOMAIN finger_views' :
                          /\ finger_views'[i].finger_number = f
                          /\ finger_views'[i].view_number = next_min_view'[f] - 1
      BY DEF Remembered
    <3>1. CASE f = v.finger_number
      BY <1>1, <1>2, <2>2, <2>5, <3>1 DEF UCHAR
    <3>2. CASE f # v.finger_number
      <4>1. next_min_view'[f] = next_min_view[f]
        BY <2>2, <2>5, <3>2
      <4> QED
        BY <1>1, <4>1 DEF MemoryInv, Remembered
    <3> QED
      BY <3>1, <3>2
  <2> QED
    BY <2>2, <2>3, <2>5, <2>6, <2>7
<1> QED
  BY <1>4, <1>5 DEF ValidateView

\* A view is checked.
LEMMA ValidateViewKeeps ==
  ASSUME MemoryInv, NumbersHaveNext, ValidateView
  PROVE  MemoryInv'
<1> DEFINE v == finger_views[at]
<1>1. /\ pc = "view" /\ at \in 1 .. Len(finger_views) /\ Len(finger_views) \in Nat
      /\ UNCHANGED <<header, finger_views>> /\ ret \in BOOLEAN /\ accepted \in BOOLEAN
  BY DEF ValidateView, MemoryInv, TypeOK
<1>2. /\ v \in Views /\ v \in View
  BY <1>1, ViewsAssumption DEF MemoryInv, TypeOK
<1>3. /\ next_min_view' \in [FingerCodes -> UCHAR]
      /\ \A f \in FingerCodes : next_min_view'[f] >= next_min_view[f]
      /\ Remembered'
  BY NumberingKeeps
<1>4. \A i \in 1 .. Len(finger_views) : Entered(i) => Entered(i)'
  <2> SUFFICES ASSUME NEW i \in 1 .. Len(finger_views), Entered(i) PROVE Entered(i)'
    OBVIOUS
  <2>1. finger_views[i] \in Views
    BY DEF MemoryInv, TypeOK
  <2>2. finger_views[i].view_number \in UCHAR
    BY <2>1, ViewsAssumption DEF View
  <2>3. finger_views[i].finger_number \in FingerCodes
    BY DEF Entered
  <2>4. next_min_view[finger_views[i].finger_number] \in UCHAR
    BY <2>3 DEF MemoryInv, TypeOK
  <2>5. next_min_view'[finger_views[i].finger_number] \in UCHAR
    BY <1>3, <2>3
  <2> QED
    BY <1>1, <1>3, <2>2, <2>3, <2>4, <2>5 DEF Entered, UCHAR
<1>5. PassedAll => (accepted /\ IsChecked(header) => \A i \in 1 .. Len(finger_views) : Entered(i)')
  BY <1>4 DEF PassedAll
<1>6. calls < MaxCalls /\ calls \in Nat
  BY <1>1, BoundsAssumption DEF MemoryInv, CallCounted, TypeOK
<1>7. CASE Return(FALSE)
  <2>1. pc' = "idle" /\ at' = 0 /\ ret' = FALSE /\ calls' = calls + 1 /\ accepted' = accepted
    BY <1>1, <1>7 DEF Return
  <2>2. TypeOK'
    <3>1. Counted'
      BY <1>1, <1>3, <1>6, <2>1, BoundsAssumption DEF MemoryInv, TypeOK, Counted
    <3>2. ret' \in BOOLEAN /\ accepted' \in BOOLEAN
      BY <1>1, <2>1
    <3> QED
      BY <3>1, <3>2 DEF Counted, TypeOK
  <2>3. CallCounted' /\ Passed' /\ PassedAll'
    BY <1>1, <1>5, <2>1 DEF MemoryInv, CallCounted, Passed, PassedAll, IsChecked
  <2> QED
    BY <1>3, <2>2, <2>3 DEF MemoryInv
<1>8. CASE /\ ContentsConform(v, header)
           /\ IsChecked(header) /\ v.finger_number \in FingerCodes => NumberConforms(v)
           /\ GoTo(at + 1, ret)
  <2>1. IsChecked(header) => \A i \in 1 .. at : Entered(i)'
    <3> SUFFICES ASSUME IsChecked(header) PROVE \A i \in 1 .. at : Entered(i)'
      OBVIOUS
    <3>1. \A i \in 1 .. at - 1 : Entered(i)'
      BY <1>1, <1>4 DEF MemoryInv, Passed
    <3>2. v.finger_number \in FingerCodes
      BY <1>8 DEF ContentsConform
    <3>3. Enter(v)
      BY <1>8, <3>2 DEF ValidateView
    <3>4. v.view_number \in UCHAR /\ v.view_number < UCHAR_MAX
      BY <1>2 DEF View, NumbersHaveNext
    <3>5. (v.view_number + 1) % (UCHAR_MAX + 1) = v.view_number + 1
      BY <3>4, NextNumber
    <3>6. next_min_view \in [FingerCodes -> UCHAR]
      BY DEF MemoryInv, TypeOK
    <3>7. next_min_view'[v.finger_number] = v.view_number + 1
      BY <3>2, <3>3, <3>5, <3>6 DEF Enter
    <3>8. v.view_number < v.view_number + 1
      BY <3>4 DEF UCHAR
    <3>9. ASSUME NEW i, i = at PROVE Entered(i)'
      BY <1>1, <3>2, <3>7, <3>8, <3>9 DEF Entered
    <3> QED
      BY <1>1, <3>1, <3>9
  <2>2. CASE at + 1 <= Len(finger_views)
    <3>1. pc' = "view" /\ at' = at + 1 /\ ret' = ret /\ UNCHANGED <<calls, accepted>>
      BY <1>8, <2>2 DEF GoTo
    <3>2. TypeOK'
      BY <1>1, <1>3, <2>2, <3>1 DEF MemoryInv, TypeOK
    <3>3. CallCounted'
      BY <1>6, <3>1 DEF CallCounted
    <3>4. Passed'
      BY <1>1, <2>1, <3>1 DEF Passed, IsChecked
    <3>5. PassedAll'
      BY <1>1, <1>5, <3>1 DEF MemoryInv, PassedAll, IsChecked
    <3> QED
      BY <1>3, <3>2, <3>3, <3>4, <3>5 DEF MemoryInv
  <2>3. CASE ~ (at + 1 <= Len(finger_views))
    <3>1. /\ pc' = "idle" /\ at' = 0 /\ ret' = ret /\ calls' = calls + 1
          /\ accepted' = (accepted \/ ret)
      BY <1>8, <2>3 DEF GoTo, Return
    <3>2. Counted'
      BY <1>1, <1>3, <1>6, <3>1, BoundsAssumption DEF MemoryInv, TypeOK, Counted
    <3>3. ret' \in BOOLEAN /\ accepted' \in BOOLEAN
      BY <1>1, <3>1
    <3>4. TypeOK'
      BY <3>2, <3>3 DEF Counted, TypeOK
    <3>5. CallCounted' /\ Passed'
      BY <3>1 DEF CallCounted, Passed
    <3>6. at = Len(finger_views)
      BY <1>1, <2>3
    <3>7. PassedAll'
      BY <1>1, <2>1, <3>6 DEF PassedAll, IsChecked
    <3> QED
      BY <1>3, <3>4, <3>5, <3>7 DEF MemoryInv
  <2> QED
    BY <2>2, <2>3
<1> QED
  BY <1>7, <1>8 DEF ValidateView

LEMMA MemoryNext == ASSUME MemoryInv, NumbersHaveNext, [Next]_vars PROVE MemoryInv'
<1>1. CASE AddView
  BY <1>1, AddViewKeeps
<1>2. CASE ValidateHeader
  BY <1>2, ValidateHeaderKeeps
<1>3. CASE ValidateView
  BY <1>3, ValidateViewKeeps
<1>4. CASE UNCHANGED vars
  BY <1>4 DEF vars, MemoryInv, TypeOK, CallCounted, Remembered, Passed, PassedAll, Entered,
              IsChecked
<1> QED
  BY <1>1, <1>2, <1>3, <1>4 DEF Next

LEMMA InvImpliesMemory == MemoryInv => MemoryIsOfTheViews
BY DEF MemoryInv, MemoryIsOfTheViews, Remembered, PassedAll, Entered, TypeOK

(***************************************************************************)
(* However often validate_fmr is called on a record, and whatever views    *)
(* are added in between: what it expects next of a finger comes from a     *)
(* view on the list, and after a verdict that the record conforms it is    *)
(* beyond all of them, so that another call finds them numbered too low    *)
(* (validate.c:157-173).  A number of 255, of which 1 more is 0, is no     *)
(* number the formats have that are checked.                               *)
(***************************************************************************)
THEOREM MemoryHolds ==
  ASSUME NumbersHaveNext PROVE Spec => []MemoryIsOfTheViews
<1>1. MemoryInv /\ [Next]_vars => MemoryInv'
  BY MemoryNext
<1> QED
  BY <1>1, MemoryInit, InvImpliesMemory, PTL DEF Spec

-----------------------------------------------------------------------------
(***************************************************************************)
(* The first call.  Up to the view it is at, what it remembers comes from  *)
(* views it has passed, and these conform and are numbered as they should  *)
(* be; as what it has passed is entered, too, a number is next to the      *)
(* memory exactly if it is next to the list (NumberLemma).                 *)
(***************************************************************************)
FirstCall ==
  calls = 0 =>
    /\ \A f \in FingerCodes : next_min_view[f] # 0 =>
         \E i \in 1 .. at - 1 :
           /\ finger_views[i].finger_number = f
           /\ finger_views[i].view_number = next_min_view[f] - 1
    /\ pc = "view" =>
         /\ ret <=> HeaderConforms(header)
         /\ \A i \in 1 .. at - 1 : ContentsConform(finger_views[i], header)
         /\ IsChecked(header) => \A i \in 1 .. at - 1 : NumberIsNext(i, finger_views)

FirstInv == MemoryInv /\ FirstCall

LEMMA FirstInit == Init => FirstInv
<1> SUFFICES ASSUME Init PROVE FirstInv
  OBVIOUS
<1>1. \A f \in FingerCodes : next_min_view[f] = 0
  BY DEF Init
<1> QED
  BY <1>1, MemoryInit DEF Init, FirstInv, FirstCall

LEMMA NumberLemma ==
  ASSUME FirstInv, calls = 0, pc = "view", IsChecked(header),
         finger_views[at].finger_number \in FingerCodes
  PROVE  NumberConforms(finger_views[at]) <=> NumberIsNext(at, finger_views)
<1> DEFINE v == finger_views[at]
           least == next_min_view[v.finger_number]
           before == {k \in 1 .. at - 1 : finger_views[k].finger_number = v.finger_number}
<1>1. /\ at \in 1 .. Len(finger_views) /\ Len(finger_views) \in Nat
      /\ \A k \in 1 .. Len(finger_views) : finger_views[k].view_number \in UCHAR
      /\ least \in UCHAR
  BY ViewsAssumption DEF FirstInv, MemoryInv, TypeOK, View
<1>2. \A k \in before : finger_views[k].view_number < least
  BY DEF FirstInv, MemoryInv, Passed, Entered
<1>3. NumberIsNext(at, finger_views) <=> IF before = {} THEN v.view_number = 0
                             ELSE \A k \in before : finger_views[k].view_number < v.view_number
  BY DEF NumberIsNext
<1>4. NumberConforms(v) <=> IF least = 0 THEN v.view_number = 0 ELSE v.view_number >= least
  BY DEF NumberConforms
<1>5. CASE least = 0
  <2>1. before = {}
    BY <1>1, <1>2, <1>5 DEF UCHAR
  <2> QED
    BY <1>3, <1>4, <1>5, <2>1
<1>6. CASE least # 0
  <2>1. PICK i \in before : finger_views[i].view_number = least - 1
    BY <1>6 DEF FirstInv, FirstCall
  <2>2. before # {} /\ i \in 1 .. Len(finger_views)
    BY <1>1, <2>1
  <2>3. ASSUME v.view_number >= least
        PROVE  \A k \in before : finger_views[k].view_number < v.view_number
    BY <1>1, <1>2, <2>3 DEF UCHAR
  <2>4. ASSUME \A k \in before : finger_views[k].view_number < v.view_number
        PROVE  v.view_number >= least
    BY <1>1, <2>1, <2>4 DEF UCHAR
  <2> QED
    BY <1>3, <1>4, <1>6, <2>2, <2>3, <2>4
<1> QED
  BY <1>5, <1>6

\* What is remembered still comes from views that were passed, this one included.
LEMMA FirstMemory ==
  ASSUME FirstInv, NumbersHaveNext, ValidateView, calls = 0
  PROVE  \A f \in FingerCodes : next_min_view'[f] # 0 =>
           \E k \in 1 .. at : /\ finger_views[k].finger_number = f
                              /\ finger_views[k].view_number = next_min_view'[f] - 1
<1> DEFINE v == finger_views[at]
<1>1. /\ at \in 1 .. Len(finger_views) /\ Len(finger_views) \in Nat
      /\ v.view_number \in UCHAR /\ v.view_number < UCHAR_MAX
  BY ViewsAssumption DEF ValidateView, FirstInv, MemoryInv, TypeOK, View, NumbersHaveNext
<1>2. next_min_view \in [FingerCodes -> UCHAR]
  BY DEF FirstInv, MemoryInv, TypeOK
<1>3. \A f \in FingerCodes : next_min_view[f] # 0 =>
        \E k \in 1 .. at : /\ finger_views[k].finger_number = f
                           /\ finger_views[k].view_number = next_min_view[f] - 1
  BY <1>1 DEF FirstInv, FirstCall
<1>4. CASE UNCHANGED next_min_view
  BY <1>3, <1>4
<1>5. CASE v.finger_number \in FingerCodes /\ Enter(v)
  <2>1. (v.view_number + 1) % (UCHAR_MAX + 1) = v.view_number + 1
    BY <1>1, NextNumber
  <2>2. next_min_view' = [next_min_view EXCEPT ![v.finger_number] = v.view_number + 1]
    BY <1>5, <2>1 DEF Enter
  <2> SUFFICES ASSUME NEW f \in FingerCodes, next_min_view'[f] # 0
               PROVE  \E k \in 1 .. at :
                        /\ finger_views[k].finger_number = f
                        /\ finger_views[k].view_number = next_min_view'[f] - 1
    OBVIOUS
  <2>3. CASE f = v.finger_number
    <3>1. next_min_view'[f] - 1 = v.view_number
      BY <1>1, <1>2, <2>2, <2>3 DEF UCHAR
    <3> QED
      BY <1>1, <2>3, <3>1
  <2>4. CASE f # v.finger_number
    <3>1. next_min_view'[f] = next_min_view[f]
      BY <1>2, <2>2, <2>4
    <3> QED
      BY <1>3, <3>1
  <2> QED
    BY <2>3, <2>4
<1> QED
  BY <1>4, <1>5 DEF ValidateView

Verdict == calls = 0 /\ calls' = 1 => (ret' <=> RecordConforms(header, finger_views))

\* The contents of a view depend on the header and the view only.
LEMMA ContentsRest ==
  ASSUME UNCHANGED <<header, finger_views>>
  PROVE  \A k : ContentsConform(finger_views[k], header)' <=> ContentsConform(finger_views[k], header)
<1> SUFFICES ASSUME NEW k
             PROVE  ContentsConform(finger_views[k], header)' <=> ContentsConform(finger_views[k], header)
  OBVIOUS
<1> DEFINE v == finger_views[k]
<1>1. header' = header /\ v' = v
  OBVIOUS
<1> HIDE DEF v
<1>2. IsChecked(header)' <=> IsChecked(header)
  BY <1>1 DEF IsChecked
<1>3. \A m : FmdConforms(v.minutiae_data[m], header)' <=> FmdConforms(v.minutiae_data[m], header)
  BY <1>1, <1>2 DEF FmdConforms, PointConforms
<1>4. \A b : FedbConforms(v.extended[b], v, header)' <=> FedbConforms(v.extended[b], v, header)
  BY <1>1 DEF FedbConforms, FedConforms, PointConforms
<1> QED
  BY <1>1, <1>2, <1>3, <1>4 DEF ContentsConform, v

LEMMA LastOne == ASSUME NEW n \in Nat, NEW m \in 1 .. n, ~ (m + 1 <= n) PROVE m = n
OBVIOUS

\* A call ends before its first view.
LEMMA HeaderVerdict == ASSUME FirstInv, ValidateHeader PROVE FirstCall' /\ Verdict
<1>1. Len(finger_views) \in Nat /\ calls \in Nat /\ DOMAIN finger_views = 1 .. Len(finger_views)
  BY BoundsAssumption DEF FirstInv, MemoryInv, TypeOK
<1>2. UNCHANGED <<header, finger_views, next_min_view>> /\ at = 0
  BY DEF ValidateHeader, FirstInv, MemoryInv, TypeOK
<1>3. CASE 1 <= Len(finger_views)
  <2>1. pc' = "view" /\ at' = 1 /\ (ret' <=> HeaderConforms(header)) /\ calls' = calls
    BY <1>3 DEF ValidateHeader, GoTo
  <2>2. HeaderConforms(header)' <=> HeaderConforms(header)
    BY <1>2 DEF HeaderConforms, HasHeader, MinRecordLength, IsChecked
  <2>3. calls = 0 => \A f \in FingerCodes : next_min_view[f] = 0
    BY <1>2 DEF FirstInv, FirstCall
  <2>4. FirstCall'
    BY <1>2, <2>1, <2>2, <2>3 DEF FirstCall
  <2> QED
    BY <1>1, <2>1, <2>4 DEF Verdict
<1>4. CASE ~ (1 <= Len(finger_views))
  <2>1. (ret' <=> HeaderConforms(header)) /\ calls' = calls + 1
    BY <1>4 DEF ValidateHeader, GoTo, Return
  <2>2. RecordConforms(header, finger_views) <=> HeaderConforms(header)
    BY <1>1, <1>4 DEF RecordConforms
  <2> QED
    BY <1>1, <2>1, <2>2 DEF FirstCall, Verdict
<1> QED
  BY <1>3, <1>4

\* A view that does not conform ends the call, and the record does not conform.
LEMMA ViewVerdict ==
  ASSUME FirstInv, NumbersHaveNext, ValidateView
  PROVE  FirstCall' /\ Verdict
<1> DEFINE v == finger_views[at]
           numbered == IsChecked(header) /\ v.finger_number \in FingerCodes
           fine == ContentsConform(v, header) /\ (numbered => NumberConforms(v))
<1>1. /\ pc = "view" /\ at \in 1 .. Len(finger_views) /\ Len(finger_views) \in Nat
      /\ DOMAIN finger_views = 1 .. Len(finger_views)
      /\ UNCHANGED <<header, finger_views>> /\ calls \in Nat
  BY BoundsAssumption DEF ValidateView, FirstInv, MemoryInv, TypeOK
<1> SUFFICES ASSUME calls = 0 PROVE FirstCall' /\ Verdict
  <2>1. calls' \in {calls, calls + 1}
    BY DEF ValidateView, GoTo, Return
  <2> QED
    BY <1>1, <2>1 DEF FirstCall, Verdict
<1>2. fine <=> ContentsConform(v, header) /\ (IsChecked(header) => NumberIsNext(at, finger_views))
  <2>1. IsChecked(header) /\ ContentsConform(v, header) => v.finger_number \in FingerCodes
    BY DEF ContentsConform
  <2> QED
    BY <1>1, <2>1, NumberLemma
<1>3. /\ ret <=> HeaderConforms(header)
      /\ \A k \in 1 .. at - 1 : ContentsConform(finger_views[k], header)
      /\ IsChecked(header) => \A k \in 1 .. at - 1 : NumberIsNext(k, finger_views)
  BY <1>1 DEF FirstInv, FirstCall
<1>4. CASE ~ fine
  <2>1. ret' = FALSE /\ calls' = calls + 1
    BY <1>4 DEF ValidateView, Return
  <2>2. ~ RecordConforms(header, finger_views)
    BY <1>1, <1>2, <1>4 DEF RecordConforms
  <2> QED
    BY <1>1, <2>1, <2>2 DEF FirstCall, Verdict
<1>5. CASE fine
  <2>1. GoTo(at + 1, ret)
    BY <1>5 DEF ValidateView
  <2>2. /\ \A k \in 1 .. at : ContentsConform(finger_views[k], header)
        /\ IsChecked(header) => \A k \in 1 .. at : NumberIsNext(k, finger_views)
    BY <1>1, <1>2, <1>3, <1>5
  <2>3. CASE at + 1 <= Len(finger_views)
    <3>1. pc' = "view" /\ at' = at + 1 /\ (ret' <=> ret) /\ calls' = calls
      BY <2>1, <2>3 DEF GoTo
    <3>2. \A f \in FingerCodes : next_min_view'[f] # 0 =>
            \E k \in 1 .. at : /\ finger_views[k].finger_number = f
                               /\ finger_views[k].view_number = next_min_view'[f] - 1
      BY FirstMemory
    <3>3. HeaderConforms(header)' <=> HeaderConforms(header)
      BY <1>1 DEF HeaderConforms, HasHeader, MinRecordLength, IsChecked
    <3>4. \A k \in 1 .. at : ContentsConform(finger_views[k], header)'
      BY <1>1, <2>2, ContentsRest
    <3>5. IsChecked(header)' => \A k \in 1 .. at : NumberIsNext(k, finger_views)'
      BY <1>1, <2>2 DEF NumberIsNext, IsChecked
    <3>6. 1 .. at' - 1 = 1 .. at
      BY <1>1, <3>1
    <3>7. FirstCall'
      BY <1>1, <1>3, <3>1, <3>2, <3>3, <3>4, <3>5, <3>6 DEF FirstCall
    <3> QED
      BY <1>1, <3>1, <3>7 DEF Verdict
  <2>4. CASE ~ (at + 1 <= Len(finger_views))
    <3>1. (ret' <=> ret) /\ calls' = calls + 1
      BY <2>1, <2>4 DEF GoTo, Return
    <3>2. at = Len(finger_views)
      BY <1>1, <2>4, LastOne
    <3>3. RecordConforms(header, finger_views) <=> HeaderConforms(header)
      BY <1>1, <2>2, <3>2 DEF RecordConforms
    <3> QED
      BY <1>1, <1>3, <3>1, <3>3 DEF FirstCall, Verdict
  <2> QED
    BY <2>3, <2>4
<1> QED
  BY <1>4, <1>5

LEMMA FirstNext ==
  ASSUME FirstInv, NumbersHaveNext, [Next]_vars
  PROVE  FirstInv' /\ Verdict
<1>1. MemoryInv'
  BY MemoryNext DEF FirstInv
<1>2. CASE AddView
  <2>1. UNCHANGED <<next_min_view, pc, at, calls>> /\ pc = "idle" /\ at = 0
    BY <1>2 DEF AddView, FirstInv, MemoryInv, TypeOK
  <2>2. calls = 0 => \A f \in FingerCodes : next_min_view[f] = 0
    BY <2>1 DEF FirstInv, FirstCall
  <2> QED
    BY <1>1, <2>1, <2>2 DEF FirstInv, FirstCall, Verdict
<1>3. CASE ValidateHeader
  BY <1>1, <1>3, HeaderVerdict DEF FirstInv
<1>4. CASE ValidateView
  BY <1>1, <1>4, ViewVerdict DEF FirstInv
<1>5. CASE UNCHANGED vars
  <2>1. HeaderConforms(header)' <=> HeaderConforms(header)
    BY <1>5 DEF vars, HeaderConforms, HasHeader, MinRecordLength, IsChecked
  <2>2. \A k : ContentsConform(finger_views[k], header)' <=> ContentsConform(finger_views[k], header)
    BY <1>5, ContentsRest DEF vars
  <2>3. \A k : NumberIsNext(k, finger_views)' <=> NumberIsNext(k, finger_views)
    BY <1>5 DEF vars, NumberIsNext
  <2>4. FirstCall'
    BY <1>5, <2>1, <2>2, <2>3 DEF vars, FirstInv, FirstCall, IsChecked
  <2> QED
    BY <1>1, <1>5, <2>4 DEF vars, FirstInv, Verdict
<1> QED
  BY <1>2, <1>3, <1>4, <1>5 DEF Next

(***************************************************************************)
(* For any header and any list of views the first call of validate_fmr     *)
(* returns VALIDATE_OK precisely when the header and all views conform and *)
(* the numbers of each finger increase from 0, however the fingers         *)
(* alternate.                                                              *)
(***************************************************************************)
THEOREM FirstVerdictHolds ==
  ASSUME NumbersHaveNext PROVE Spec => FirstVerdictIsExact
<1>1. FirstInv /\ [Next]_vars => FirstInv'
  BY FirstNext
<1>2. FirstInv /\ [Next]_vars => [calls = 0 /\ calls' = 1 => (ret' <=> RecordConforms(header, finger_views))]_vars
  BY FirstNext DEF Verdict
<1> QED
  BY <1>1, <1>2, FirstInit, PTL DEF Spec, FirstVerdictIsExact

=============================================================================
