-------------------------- MODULE FmrFilters_proofs -------------------------
(***************************************************************************)
(* What fmrprune, fmrsort, fmrmod and fmrisocompact make of the views of a *)
(* record: a record that conforms is left conforming, and the minutiae are *)
(* kept, but for those that fmrprune was asked to leave out.  Both follow  *)
(* from the invariant of FmrTools_proofs, which says of each program that  *)
(* has ended what it made of what it read.                                 *)
(***************************************************************************)
EXTENDS FmrTools_proofs

-----------------------------------------------------------------------------
(* What it is for a record of a file to conform, part by part.             *)

GoodHeader(record) ==
  record.record_length >= 26 /\ record.owner # 0 /\ record.x_resolution # 0 /\ record.y_resolution # 0

GoodPlace(p, record) ==
  p.x <= LastCoord(record.x_image_size) /\ p.y <= LastCoord(record.y_image_size)

GoodMinutia(m, record) ==
  /\ m.type \in MINUTIA_TYPES /\ m.angle <= 179 /\ m.quality <= 100
  /\ GoodPlace(m, record)

GoodExtended(view, record) ==
  \A k \in DOMAIN CheckedView(view).extended :
    FedbConforms(CheckedView(view).extended[k], CheckedView(view), CheckedHeader(record))

GoodView(view, record) ==
  /\ view.finger_number \in FingerCodes
  /\ view.impression_type \in IMPRESSIONS /\ view.finger_quality <= 100
  /\ \A m \in DOMAIN view.minutiae : GoodMinutia(view.minutiae[m], record)
  /\ GoodExtended(view, record)

Numbered(views) == \A k \in DOMAIN views : NumberIsNext(k, views)

\* Only the numbers and the fingers of the views matter to their order.
LEMMA SameNumbers ==
  ASSUME NEW v, NEW w, NEW n \in Nat, DOMAIN v = 1 .. n, DOMAIN w = 1 .. n,
         \A k \in 1 .. n : /\ w[k].view_number = v[k].view_number
                           /\ w[k].finger_number = v[k].finger_number
  PROVE  Numbered(v) <=> Numbered(w)
<1>1. ASSUME NEW k \in 1 .. n PROVE NumberIsNext(k, v) <=> NumberIsNext(k, w)
  <2> DEFINE S == {l \in 1 .. k - 1 : v[l].finger_number = v[k].finger_number}
             T == {l \in 1 .. k - 1 : w[l].finger_number = w[k].finger_number}
  <2>1. \A l \in 1 .. k - 1 : l \in 1 .. n
    OBVIOUS
  <2>2. S = T
    BY <2>1
  <2>3. NumberIsNext(k, v) <=> IF S = {} THEN v[k].view_number = 0
                                 ELSE \A l \in S : v[l].view_number < v[k].view_number
    BY DEF NumberIsNext
  <2>4. NumberIsNext(k, w) <=> IF T = {} THEN w[k].view_number = 0
                                 ELSE \A l \in T : w[l].view_number < w[k].view_number
    BY DEF NumberIsNext
  <2>5. \A l \in S : w[l].view_number = v[l].view_number
    BY <2>1
  <2>6. w[k].view_number = v[k].view_number
    OBVIOUS
  <2> HIDE DEF S, T
  <2> QED
    BY <2>2, <2>3, <2>4, <2>5, <2>6
<1> QED
  BY <1>1 DEF Numbered

LEMMA HeaderSays ==
  ASSUME NEW record \in Fmrs
  PROVE  HeaderConforms(CheckedHeader(record)) <=> GoodHeader(record)
<1>1. PICK header : header = CheckedHeader(record)
  OBVIOUS
<1>2. /\ header.format_std = "ANSI" /\ header.fields = TRUE /\ header.reserved = 0
      /\ header.record_length = record.record_length /\ header.owner = record.owner
      /\ header.x_resolution = record.x_resolution /\ header.y_resolution = record.y_resolution
  BY <1>1 DEF CheckedHeader
<1>3. HasHeader(header) /\ IsChecked(header)
  BY <1>2 DEF HasHeader, IsChecked
<1>4. MinRecordLength(header) = 26
  <2>1. HeaderLengths(header.format_std) = {26, 30}
    BY <1>2 DEF HeaderLengths
  <2> QED
    BY <2>1 DEF MinRecordLength
<1> QED
  BY <1>1, <1>2, <1>3, <1>4 DEF HeaderConforms, GoodHeader

LEMMA ViewSays ==
  ASSUME NEW record \in Fmrs, NEW view \in Fvmrs
  PROVE  ContentsConform(CheckedView(view), CheckedHeader(record)) <=> GoodView(view, record)
<1>1. PICK header, checked : header = CheckedHeader(record) /\ checked = CheckedView(view)
  OBVIOUS
<1>2. /\ IsChecked(header) /\ header.x_image_size = record.x_image_size
      /\ header.y_image_size = record.y_image_size
  BY <1>1 DEF IsChecked, CheckedHeader
<1>3. /\ checked.finger_number = view.finger_number
      /\ checked.fields = (view.impression_type \in IMPRESSIONS /\ view.finger_quality <= 100)
  BY <1>1 DEF CheckedView
<1>4. DOMAIN checked.minutiae_data = DOMAIN view.minutiae
  BY <1>1 DEF CheckedView
<1>5. ASSUME NEW k \in DOMAIN view.minutiae
      PROVE  FmdConforms(checked.minutiae_data[k], header) <=> GoodMinutia(view.minutiae[k], record)
  <2>1. PICK m, fmd : m = view.minutiae[k] /\ fmd = checked.minutiae_data[k]
    OBVIOUS
  <2>2. fmd = [at |-> [x |-> m.x, y |-> m.y],
               fields |-> m.type \in MINUTIA_TYPES /\ m.angle <= 179 /\ m.quality <= 100]
    BY <1>1, <2>1 DEF CheckedView
  <2>3. /\ fmd.at.x = m.x /\ fmd.at.y = m.y
        /\ fmd.fields = (m.type \in MINUTIA_TYPES /\ m.angle <= 179 /\ m.quality <= 100)
    BY <2>2
  <2> QED
    BY <1>2, <2>1, <2>3 DEF FmdConforms, PointConforms, GoodMinutia, GoodPlace
<1>6. GoodExtended(view, record) <=>
        \A k \in DOMAIN checked.extended : FedbConforms(checked.extended[k], checked, header)
  BY <1>1 DEF GoodExtended
<1> QED
  BY <1>1, <1>2, <1>3, <1>4, <1>5, <1>6 DEF ContentsConform, GoodView

LEMMA ConformsSays ==
  ASSUME NEW record \in Fmrs
  PROVE  Conforms(record) <=> /\ GoodHeader(record)
                              /\ \A v \in DOMAIN record.views : GoodView(record.views[v], record)
                              /\ Numbered(record.views)
<1>1. PICK header, checked : /\ header = CheckedHeader(record)
                             /\ checked = [k \in DOMAIN record.views |-> CheckedView(record.views[k])]
  OBVIOUS
<1>2. PICK n \in Nat : /\ DOMAIN record.views = 1 .. n
                       /\ \A k \in 1 .. n : record.views[k] \in Fvmrs
  BY MinutiaeLens
<1>3. DOMAIN checked = 1 .. n /\ \A k \in 1 .. n : checked[k] = CheckedView(record.views[k])
  BY <1>1, <1>2
<1>4. \A k \in 1 .. n : /\ checked[k].view_number = record.views[k].view_number
                        /\ checked[k].finger_number = record.views[k].finger_number
  BY <1>3 DEF CheckedView
<1>5. Numbered(record.views) <=> Numbered(checked)
  BY <1>2, <1>3, <1>4, SameNumbers
<1>6. \A k \in 1 .. n : ContentsConform(checked[k], header) <=> GoodView(record.views[k], record)
  BY <1>1, <1>2, <1>3, ViewSays
<1>7. HeaderConforms(header) <=> GoodHeader(record)
  BY <1>1, HeaderSays
<1>8. IsChecked(header)
  BY <1>1 DEF IsChecked, CheckedHeader
<1>9. Conforms(record) <=> RecordConforms(header, checked)
  BY <1>1 DEF Conforms
<1> QED
  BY <1>2, <1>3, <1>5, <1>6, <1>7, <1>8, <1>9 DEF RecordConforms, Numbered

-----------------------------------------------------------------------------
(* What the filters make of what conforms.                                 *)

LEMMA LastCoordTypes == \A n \in USHORT : LastCoord(n) \in Nat
<1>1. \A n \in USHORT : n - 1 \in Int
  BY Unsigned
<1>2. \A n \in Int : n % (USHRT_MAX + 1) \in USHORT
  BY Remainders
<1> QED
  BY <1>1, <1>2, Unsigned DEF LastCoord

\* What is stored of a coordinate.
Coordinate(n) == n % 16384

LEMMA CoordinateLess == \A n \in Nat : Coordinate(n) \in Nat /\ Coordinate(n) <= n
BY SMT DEF Coordinate

LEMMA StoredCoordinates ==
  /\ \A p : StoredPlace(p).x = Coordinate(p.x) /\ StoredPlace(p).y = Coordinate(p.y)
  /\ \A m : /\ StoredMinutia(m).type = m.type % 4 /\ StoredMinutia(m).angle = m.angle
           /\ StoredMinutia(m).x = Coordinate(m.x) /\ StoredMinutia(m).y = Coordinate(m.y)
           /\ StoredMinutia(m).quality = m.quality
BY SMT DEF StoredPlace, StoredMinutia, Coordinate

\* What is stored of a place is no further from the origin.
LEMMA NotFurther ==
  ASSUME NEW record \in Fmrs, NEW p, p.x \in USHORT, p.y \in USHORT, GoodPlace(p, record),
         NEW q, q.x = Coordinate(p.x), q.y = Coordinate(p.y)
  PROVE  GoodPlace(q, record)
<1>2. p.x \in Nat /\ p.y \in Nat
  BY Unsigned
<1>3. q.x \in Nat /\ q.x <= p.x /\ q.y \in Nat /\ q.y <= p.y
  BY <1>2, CoordinateLess, Zenon
<1>4. PICK a, b : a = LastCoord(record.x_image_size) /\ b = LastCoord(record.y_image_size)
  OBVIOUS
<1>5. a \in Nat /\ b \in Nat
  BY <1>4, LastCoordTypes DEF Fmrs
<1>6. p.x <= a /\ p.y <= b
  BY <1>4 DEF GoodPlace
<1>7. q.x <= a /\ q.y <= b
  BY <1>2, <1>3, <1>5, <1>6
<1> QED
  BY <1>4, <1>7 DEF GoodPlace

LEMMA StoredMinutiaGood ==
  ASSUME NEW record \in Fmrs, NEW m \in Minutiae, GoodMinutia(m, record)
  PROVE  GoodMinutia(StoredMinutia(m), record)
<1>1. PICK stored : stored = StoredMinutia(m)
  OBVIOUS
<1>2. /\ stored.type = m.type % 4 /\ stored.x = Coordinate(m.x) /\ stored.y = Coordinate(m.y)
      /\ stored.angle = m.angle /\ stored.quality = m.quality
  BY <1>1, StoredCoordinates, Zenon
<1>3. m.type % 4 = m.type
  <2>1. m.type \in 0 .. 2
    BY DEF GoodMinutia, MINUTIA_TYPES
  <2> QED
    BY <2>1
<1>4. m.x \in USHORT /\ m.y \in USHORT /\ GoodPlace(m, record)
  BY DEF Minutiae, GoodMinutia
<1>5. GoodPlace(stored, record)
  BY <1>2, <1>4, NotFurther, Zenon
<1> QED
  BY <1>1, <1>2, <1>3, <1>5, Zenon DEF GoodMinutia

LEMMA StoredFedGood ==
  ASSUME NEW record \in Fmrs, NEW fed \in Feds, NEW view, NEW other_view,
         other_view.number_of_minutiae = view.number_of_minutiae,
         FedConforms(CheckedFed(fed), view, CheckedHeader(record))
  PROVE  FedConforms(CheckedFed(StoredFed(fed)), other_view, CheckedHeader(record))
<1>1. PICK header : header = CheckedHeader(record) /\ header.x_image_size = record.x_image_size
                    /\ header.y_image_size = record.y_image_size
  BY DEF CheckedHeader
<1>2. CASE fed.type = FED_RIDGE_COUNT
  <2>1. StoredFed(fed) = fed
    BY <1>2 DEF StoredFed
  <2> QED
    BY <2>1 DEF FedConforms
<1>3. CASE fed.type # FED_RIDGE_COUNT
  <2>1. /\ fed.cores \in Seq(Places) /\ fed.deltas \in Seq(Places)
    BY <1>3 DEF Feds
  <2>2. PICK cores, deltas : /\ cores = [k \in DOMAIN fed.cores |-> StoredPlace(fed.cores[k])]
                             /\ deltas = [k \in DOMAIN fed.deltas |-> StoredPlace(fed.deltas[k])]
    OBVIOUS
  <2>3. StoredFed(fed) = [fed EXCEPT !.cores = cores, !.deltas = deltas]
    BY <1>3, <2>2 DEF StoredFed
  <2>4. /\ StoredFed(fed).type # FED_RIDGE_COUNT /\ StoredFed(fed).cores = cores
        /\ StoredFed(fed).deltas = deltas
    BY <1>3, <2>3 DEF Feds
  <2>5. PICK old, new : old = fed.cores \o fed.deltas /\ new = cores \o deltas
    OBVIOUS
  <2>6. /\ CheckedFed(fed).at = old /\ CheckedFed(StoredFed(fed)).at = new
        /\ CheckedFed(StoredFed(fed)).index = <<>> /\ CheckedFed(StoredFed(fed)).fields = TRUE
    BY <1>3, <2>4, <2>5 DEF CheckedFed
  <2>7. /\ DOMAIN new = DOMAIN old
        /\ \A k \in DOMAIN old : old[k] \in Places /\ new[k] = StoredPlace(old[k])
    <3>1. /\ cores \in Seq(Places) /\ deltas \in Seq(Places)
          /\ Len(cores) = Len(fed.cores) /\ Len(deltas) = Len(fed.deltas)
          /\ \A k \in 1 .. Len(fed.cores) : cores[k] = StoredPlace(fed.cores[k])
          /\ \A k \in 1 .. Len(fed.deltas) : deltas[k] = StoredPlace(fed.deltas[k])
      <4>1. cores = LowPlaces(fed.cores) /\ deltas = LowPlaces(fed.deltas)
        BY <2>2 DEF LowPlaces
      <4>2. /\ DOMAIN fed.cores = 1 .. Len(fed.cores) /\ DOMAIN fed.deltas = 1 .. Len(fed.deltas)
        BY <2>1, LenProperties
      <4>3. \A k \in 1 .. Len(fed.cores) : cores[k] = StoredPlace(fed.cores[k])
        BY <2>2, <4>2, Zenon
      <4>4. \A k \in 1 .. Len(fed.deltas) : deltas[k] = StoredPlace(fed.deltas[k])
        BY <2>2, <4>2, Zenon
      <4> QED
        BY <2>1, <4>1, <4>3, <4>4, LowPlacesType
    <3>2. PICK a \in Nat, b \in Nat : a = Len(fed.cores) /\ b = Len(fed.deltas)
      BY <2>1, LenProperties
    <3>3. /\ old \in Seq(Places) /\ Len(old) = a + b /\ new \in Seq(Places) /\ Len(new) = a + b
          /\ \A k \in 1 .. a + b : /\ old[k] = (IF k <= a THEN fed.cores[k] ELSE fed.deltas[k - a])
                                   /\ new[k] = (IF k <= a THEN cores[k] ELSE deltas[k - a])
      <4>1. fed.cores \in Seq(Places) /\ fed.deltas \in Seq(Places)
        BY <2>1
      <4>2. /\ old \in Seq(Places) /\ Len(old) = a + b
            /\ \A k \in 1 .. a + b : old[k] = (IF k <= a THEN fed.cores[k] ELSE fed.deltas[k - a])
        BY <2>5, <3>2, <4>1, ConcatProperties
      <4>3. cores \in Seq(Places) /\ deltas \in Seq(Places) /\ Len(cores) = a /\ Len(deltas) = b
        BY <3>1, <3>2
      <4>4. /\ new \in Seq(Places) /\ Len(new) = a + b
            /\ \A k \in 1 .. a + b : new[k] = (IF k <= a THEN cores[k] ELSE deltas[k - a])
        BY <2>5, <4>3, ConcatProperties
      <4> QED
        BY <4>2, <4>4
    <3>4. \A k \in 1 .. a + b : new[k] = StoredPlace(old[k])
      <4>1. \A k \in 1 .. a : cores[k] = StoredPlace(fed.cores[k])
        BY <3>1, <3>2
      <4>2. \A k \in 1 .. b : deltas[k] = StoredPlace(fed.deltas[k])
        BY <3>1, <3>2
      <4>3. ASSUME NEW k \in 1 .. a + b PROVE new[k] = StoredPlace(old[k])
        <5>1. CASE k <= a
          <6>1. k \in 1 .. a /\ old[k] = fed.cores[k] /\ new[k] = cores[k]
            BY <3>3, <5>1
          <6> QED
            BY <4>1, <6>1
        <5>2. CASE ~ (k <= a)
          <6>1. k - a \in 1 .. b /\ old[k] = fed.deltas[k - a] /\ new[k] = deltas[k - a]
            BY <3>3, <5>2
          <6> QED
            BY <4>2, <6>1
        <5> QED
          BY <5>1, <5>2
      <4> QED
        BY <4>3
    <3>5. DOMAIN old = 1 .. a + b /\ DOMAIN new = 1 .. a + b /\ \A k \in 1 .. a + b : old[k] \in Places
      BY <3>2, <3>3, LenProperties, ElementOfSeq
    <3> QED
      BY <3>4, <3>5
  <2>8. ASSUME NEW k \in DOMAIN new PROVE PointConforms(new[k], header)
    <3>1. PointConforms(old[k], header)
      BY <1>1, <2>6, <2>7 DEF FedConforms
    <3>2. old[k].x \in USHORT /\ old[k].y \in USHORT /\ GoodPlace(old[k], record)
      BY <1>1, <2>7, <3>1 DEF Places, PointConforms, GoodPlace
    <3>3. new[k].x = Coordinate(old[k].x) /\ new[k].y = Coordinate(old[k].y)
      BY <2>7, StoredCoordinates
    <3>4. GoodPlace(new[k], record)
      BY <3>2, <3>3, NotFurther, Zenon
    <3> QED
      BY <1>1, <3>4 DEF PointConforms, GoodPlace
  <2>9. \A k \in DOMAIN CheckedFed(StoredFed(fed)).index : FALSE
    BY <2>6
  <2> QED
    BY <1>1, <2>6, <2>8, <2>9 DEF FedConforms
<1> QED
  BY <1>2, <1>3


LEMMA SameLengths ==
  ASSUME NEW v, NEW w, NEW n \in Nat, DOMAIN v = 1 .. n, DOMAIN w = 1 .. n,
         \A k \in 1 .. n : w[k].length = v[k].length
  PROVE  FedLengths(w) = FedLengths(v)
<1>1. [k \in DOMAIN w |-> w[k].length] = [k \in DOMAIN v |-> v[k].length]
  OBVIOUS
<1> QED
  BY <1>1, Zenon DEF FedLengths

LEMMA ExtendedSays ==
  ASSUME NEW record \in Fmrs, NEW view \in Fvmrs
  PROVE  GoodExtended(view, record) <=>
           (view.extended # <<>> =>
              /\ view.extended[1].block_length = FedLengths(FedsOf(view))
              /\ \A k \in DOMAIN FedsOf(view) :
                   FedConforms(CheckedFed(FedsOf(view)[k]), CheckedView(view), CheckedHeader(record)))
<1>1. CASE view.extended = <<>>
  <2>1. CheckedView(view).extended = <<>>
    BY <1>1 DEF CheckedView
  <2> QED
    BY <1>1, <2>1 DEF GoodExtended
<1>2. CASE view.extended # <<>>
  <2>1. PICK feds, checked, header : /\ feds = [k \in DOMAIN FedsOf(view) |-> CheckedFed(FedsOf(view)[k])]
                                     /\ checked = CheckedView(view) /\ header = CheckedHeader(record)
    OBVIOUS
  <2>2. view.extended[1].feds = FedsOf(view)
    BY <1>2 DEF FedsOf
  <2>3. checked.extended = <<[block_length |-> view.extended[1].block_length, feds |-> feds]>>
    BY <1>2, <2>1, <2>2 DEF CheckedView
  <2>4. /\ DOMAIN checked.extended = {1} /\ checked.extended[1].feds = feds
        /\ checked.extended[1].block_length = view.extended[1].block_length
    BY <2>3
  <2>5. PICK n \in Nat : DOMAIN FedsOf(view) = 1 .. n
    BY FedsType
  <2>6. DOMAIN feds = 1 .. n /\ \A k \in 1 .. n : feds[k] = CheckedFed(FedsOf(view)[k])
    BY <2>1, <2>5
  <2>7. \A k \in 1 .. n : feds[k].length = FedsOf(view)[k].length
    <3>1. \A fed : CheckedFed(fed).length = fed.length
      <4>1. ASSUME NEW fed PROVE CheckedFed(fed).length = fed.length
        <5>1. CASE fed.type = FED_RIDGE_COUNT
          BY <5>1 DEF CheckedFed
        <5>2. CASE fed.type # FED_RIDGE_COUNT
          BY <5>2 DEF CheckedFed
        <5> QED
          BY <5>1, <5>2
      <4> QED
        BY <4>1
    <3> QED
      BY <2>6, <3>1
  <2>8. FedLengths(feds) = FedLengths(FedsOf(view))
    BY <2>5, <2>6, <2>7, SameLengths
  <2>9. GoodExtended(view, record) <=> FedbConforms(checked.extended[1], checked, header)
    BY <2>1, <2>4 DEF GoodExtended
  <2> QED
    BY <1>2, <2>1, <2>4, <2>5, <2>6, <2>8, <2>9 DEF FedbConforms
<1> QED
  BY <1>1, <1>2

LEMMA StoredViewGood ==
  ASSUME NEW record \in Fmrs, NEW view \in Fvmrs, GoodView(view, record)
  PROVE  GoodView(StoredView(view), record)
<1>1. PICK stored : stored = StoredView(view)
  OBVIOUS
<1>2. /\ stored \in Fvmrs /\ stored.finger_number = view.finger_number
      /\ stored.impression_type = view.impression_type % 16 /\ stored.finger_quality = view.finger_quality
      /\ stored.minutiae = [k \in DOMAIN view.minutiae |-> StoredMinutia(view.minutiae[k])]
      /\ Len(stored.minutiae) = Len(view.minutiae)
      /\ FedsOf(view) = <<>> => stored.extended = <<>>
      /\ FedsOf(view) # <<>> => stored.extended[1].block_length = view.extended[1].block_length
      /\ FedsOf(stored) = [k \in DOMAIN FedsOf(view) |-> StoredFed(FedsOf(view)[k])]
  BY <1>1, StoredViewFields, Zenon
<1>3. ASSUME NEW m \in DOMAIN stored.minutiae PROVE GoodMinutia(stored.minutiae[m], record)
  <2>1. m \in DOMAIN view.minutiae /\ stored.minutiae[m] = StoredMinutia(view.minutiae[m])
    BY <1>2
  <2>2. view.minutiae \in Seq(Minutiae)
    BY DEF Fvmrs
  <2>3. view.minutiae[m] \in Minutiae
    BY <2>1, <2>2
  <2>4. GoodMinutia(view.minutiae[m], record)
    BY <2>1 DEF GoodView
  <2> QED
    BY <2>1, <2>3, <2>4, StoredMinutiaGood
<1>4. GoodExtended(stored, record)
  <2>1. CASE FedsOf(view) = <<>>
    <3>1. stored.extended = <<>>
      BY <1>2, <2>1
    <3> QED
      BY <1>2, <3>1, ExtendedSays
  <2>2. CASE FedsOf(view) # <<>>
    <3>1. view.extended # <<>>
      BY <2>2 DEF FedsOf
    <3>2. PICK n \in Nat : DOMAIN FedsOf(view) = 1 .. n /\ FedsOf(view) \in Seq(Feds)
      BY FedsType
    <3>3. \A k \in 1 .. n : FedsOf(view)[k] \in Feds
      BY <3>2
    <3>4. DOMAIN FedsOf(stored) = 1 .. n /\ \A k \in 1 .. n : FedsOf(stored)[k] = StoredFed(FedsOf(view)[k])
      BY <1>2, <3>2
    <3>5. GoodExtended(view, record)
      BY DEF GoodView
    <3>6. /\ view.extended[1].block_length = FedLengths(FedsOf(view))
          /\ \A k \in 1 .. n :
               FedConforms(CheckedFed(FedsOf(view)[k]), CheckedView(view), CheckedHeader(record))
      BY <3>1, <3>2, <3>5, ExtendedSays
    <3>7. \A fed \in Feds : StoredFed(fed).length = fed.length
      BY DEF StoredFed, Feds
    <3>8. FedLengths(FedsOf(stored)) = FedLengths(FedsOf(view))
      BY <3>2, <3>3, <3>4, <3>7, SameLengths
    <3>9. CheckedView(stored).number_of_minutiae = CheckedView(view).number_of_minutiae
      BY <1>2 DEF CheckedView
    <3>10. \A k \in 1 .. n :
             FedConforms(CheckedFed(FedsOf(stored)[k]), CheckedView(stored), CheckedHeader(record))
      BY <3>3, <3>4, <3>6, <3>9, StoredFedGood
    <3> QED
      BY <1>2, <2>2, <3>4, <3>6, <3>8, <3>10, ExtendedSays
  <2> QED
    BY <2>1, <2>2
<1>5. view.impression_type % 16 = view.impression_type
  <2>1. view.impression_type \in IMPRESSIONS
    BY DEF GoodView
  <2> QED
    BY <2>1 DEF IMPRESSIONS
<1>6. stored.impression_type = view.impression_type
  BY <1>2, <1>5
<1> QED
  BY <1>1, <1>2, <1>3, <1>4, <1>6, Zenon DEF GoodView


\* What a filter keeps of a view, and of its minutiae, one by one.
LEMMA MakesParts ==
  ASSUME NEW e, NEW old \in Fvmrs, NEW new \in Fvmrs, Makes(e, old, new), e.prog \in Filters,
         [prog |-> e.prog, o |-> e.o] \in Runs
  PROVE  /\ new.finger_number = old.finger_number /\ new.view_number = old.view_number
         /\ new.impression_type = old.impression_type /\ new.finger_quality = old.finger_quality
         /\ e.prog \in {"fmrprune", "fmrsort"} => new.extended = <<>>
         /\ e.prog = "fmrprune" => new.minutiae \in Pruned(old.minutiae, e.o)
         /\ e.prog = "fmrsort" => new.minutiae \in Resorted(old.minutiae, e.o)
         /\ e.prog \notin {"fmrprune", "fmrsort"} =>
              new.extended = old.extended /\ Len(new.minutiae) = Len(old.minutiae)
         /\ e.prog = "fmrmod" => \A m \in 1 .. Len(old.minutiae) :
              new.minutiae[m] = [old.minutiae[m] EXCEPT !.quality = e.o.q % (UCHAR_MAX + 1)]
         /\ e.prog = "fmrisocompact" => \A m \in 1 .. Len(old.minutiae) :
              new.minutiae[m] = IsoMinutia(old.minutiae[m])
<1>1. CASE e.prog = "fmrprune"
  <2>1. PICK m \in Pruned(old.minutiae, e.o) : new = [old EXCEPT !.minutiae = m, !.extended = <<>>]
    BY <1>1 DEF Makes
  <2>2. new.minutiae = m
    BY <2>1 DEF Fvmrs
  <2> QED
    BY <1>1, <2>1, <2>2 DEF Fvmrs
<1>2. CASE e.prog = "fmrsort"
  <2>1. PICK m \in Resorted(old.minutiae, e.o) : new = [old EXCEPT !.minutiae = m, !.extended = <<>>]
    BY <1>2 DEF Makes
  <2>2. new.minutiae = m
    BY <2>1 DEF Fvmrs
  <2> QED
    BY <1>2, <2>1, <2>2 DEF Fvmrs
<1>3. CASE e.prog = "fmrmod"
  <2>1. e.o.q \in Int
    BY <1>3, RunTypes
  <2>2. new = [old EXCEPT !.minutiae = [m \in DOMAIN @ |-> [@[m] EXCEPT !.quality = e.o.q % (UCHAR_MAX + 1)]]]
    BY <1>3 DEF Makes
  <2>3. /\ new.extended = old.extended /\ Len(new.minutiae) = Len(old.minutiae)
        /\ \A m \in 1 .. Len(old.minutiae) :
             new.minutiae[m] = [old.minutiae[m] EXCEPT !.quality = e.o.q % (UCHAR_MAX + 1)]
        /\ new.finger_number = old.finger_number /\ new.view_number = old.view_number
        /\ new.impression_type = old.impression_type /\ new.finger_quality = old.finger_quality
    BY <2>1, <2>2, ModifiedTypes
  <2> QED
    BY <1>3, <2>3
<1>4. CASE e.prog = "fmrisocompact"
  <2>1. new = [old EXCEPT !.minutiae = [m \in DOMAIN @ |-> IsoMinutia(@[m])]]
    BY <1>4 DEF Makes
  <2>2. /\ new.extended = old.extended /\ Len(new.minutiae) = Len(old.minutiae)
        /\ \A m \in 1 .. Len(old.minutiae) : new.minutiae[m] = IsoMinutia(old.minutiae[m])
        /\ new.finger_number = old.finger_number /\ new.view_number = old.view_number
        /\ new.impression_type = old.impression_type /\ new.finger_quality = old.finger_quality
    BY <2>1, CompactedTypes
  <2> QED
    BY <1>4, <2>2
<1> QED
  BY <1>1, <1>2, <1>3, <1>4, Zenon DEF Filters


\* Of the header only the size of the image matters to a view.
LEMMA GoodElsewhere ==
  ASSUME NEW one \in Fmrs, NEW another \in Fmrs, NEW view \in Fvmrs, GoodView(view, one),
         another.x_image_size = one.x_image_size, another.y_image_size = one.y_image_size
  PROVE  GoodView(view, another)
<1>1. \A p : GoodPlace(p, one) => GoodPlace(p, another)
  BY DEF GoodPlace
<1>2. \A m \in DOMAIN view.minutiae : GoodMinutia(view.minutiae[m], another)
  BY <1>1 DEF GoodView, GoodMinutia
<1>3. /\ CheckedHeader(another).x_image_size = CheckedHeader(one).x_image_size
      /\ CheckedHeader(another).y_image_size = CheckedHeader(one).y_image_size
  BY DEF CheckedHeader
<1>4. \A fed : FedConforms(fed, CheckedView(view), CheckedHeader(one)) =>
                 FedConforms(fed, CheckedView(view), CheckedHeader(another))
  BY <1>3 DEF FedConforms, PointConforms
<1>5. GoodExtended(view, another)
  BY <1>4, ExtendedSays DEF GoodView
<1> QED
  BY <1>2, <1>5, Zenon DEF GoodView

\* An angle below 179 is moved to one of 64 that is not above 177.
LEMMA IsoAngleGood ==
  ASSUME NEW angle \in Nat, angle <= 178
  PROVE  IsoAngle(angle) <= 179
<1>1. PICK t \in Int : t = IsoTheta(angle)
  BY DEF IsoTheta
<1>2. t >= 0 /\ t <= 63
  <2>1. t = (32 * angle + 45) \div 90
    BY <1>1 DEF IsoTheta
  <2>2. 90 * t <= 32 * angle + 45 /\ 32 * angle + 45 < 90 * t + 90
    BY <2>1, SMT
  <2> QED
    BY <2>2, SMT
<1>3. PICK a \in Int : a = (45 * t + 8) \div 16
  OBVIOUS
<1>4. a >= 0 /\ a <= 177
  <2>1. 16 * a <= 45 * t + 8 /\ 45 * t + 8 < 16 * a + 16
    BY <1>3, SMT
  <2> QED
    BY <1>2, <2>1, SMT
<1>5. a % 256 = a
  BY <1>4, SMT
<1>6. IsoAngle(angle) = a % 256
  BY <1>1, <1>3, SMT DEF IsoAngle, UCHAR_MAX
<1> QED
  BY <1>4, <1>5, <1>6, SMT

LEMMA MakesGood ==
  ASSUME NEW e, NEW old \in Fvmrs, NEW new \in Fvmrs, Makes(e, old, new), e.prog \in Filters,
         [prog |-> e.prog, o |-> e.o] \in Runs, NEW record \in Fmrs, GoodView(old, record),
         e.prog = "fmrmod" => e.o.q % (UCHAR_MAX + 1) <= 100,
         e.prog = "fmrisocompact" => \A m \in DOMAIN old.minutiae : old.minutiae[m].angle # 179
  PROVE  GoodView(new, record)
<1>1. /\ new.finger_number = old.finger_number
      /\ new.impression_type = old.impression_type /\ new.finger_quality = old.finger_quality
  BY MakesParts
<1>2. /\ old.minutiae \in Seq(Minutiae) /\ new.minutiae \in Seq(Minutiae)
      /\ DOMAIN old.minutiae = 1 .. Len(old.minutiae) /\ DOMAIN new.minutiae = 1 .. Len(new.minutiae)
  BY LenProperties DEF Fvmrs
<1>3. \A m \in DOMAIN old.minutiae : old.minutiae[m] \in Minutiae /\ GoodMinutia(old.minutiae[m], record)
  BY <1>2, ElementOfSeq DEF GoodView
<1>4. GoodExtended(old, record)
  BY DEF GoodView
<1>5. CASE e.prog \in {"fmrprune", "fmrsort"}
  <2>1. new.extended = <<>>
    BY <1>5, MakesParts
  <2>2. GoodExtended(new, record)
    BY <2>1, ExtendedSays
  <2>3. Range(new.minutiae) \subseteq Range(old.minutiae)
    <3>1. CASE e.prog = "fmrprune"
      <4>1. new.minutiae \in Pruned(old.minutiae, e.o)
        BY <3>1, MakesParts
      <4>2. e.o \in PruneOptions
        BY <3>1, RunTypes
      <4> QED
        BY <1>2, <4>1, <4>2, SelectedTypes
    <3>2. CASE e.prog = "fmrsort"
      <4>1. new.minutiae \in Resorted(old.minutiae, e.o)
        BY <3>2, MakesParts
      <4>2. e.o \in SortOptions
        BY <3>2, RunTypes
      <4> QED
        BY <1>2, <4>1, <4>2, SelectedTypes
    <3> QED
      BY <1>5, <3>1, <3>2
  <2>4. ASSUME NEW m \in DOMAIN new.minutiae PROVE GoodMinutia(new.minutiae[m], record)
    <3>1. PICK l \in DOMAIN old.minutiae : new.minutiae[m] = old.minutiae[l]
      BY <2>3 DEF Range
    <3> QED
      BY <1>3, <3>1
  <2> QED
    BY <1>1, <2>2, <2>4, Zenon DEF GoodView
<1>6. CASE e.prog \in {"fmrmod", "fmrisocompact"}
  <2>1. new.extended = old.extended /\ Len(new.minutiae) = Len(old.minutiae)
    BY <1>6, MakesParts
  <2>2. GoodExtended(new, record)
    <3>1. FedsOf(new) = FedsOf(old)
      BY <2>1 DEF FedsOf
    <3>2. CheckedView(new).number_of_minutiae = CheckedView(old).number_of_minutiae
      BY <2>1 DEF CheckedView
    <3>3. \A fed : FedConforms(fed, CheckedView(old), CheckedHeader(record)) =>
                     FedConforms(fed, CheckedView(new), CheckedHeader(record))
      BY <3>2 DEF FedConforms
    <3> QED
      BY <1>4, <2>1, <3>1, <3>3, ExtendedSays
  <2>3. ASSUME NEW m \in DOMAIN new.minutiae PROVE GoodMinutia(new.minutiae[m], record)
    <3>1. m \in 1 .. Len(old.minutiae) /\ m \in DOMAIN old.minutiae
      BY <1>2, <2>1
    <3>2. PICK a, b : a = old.minutiae[m] /\ b = new.minutiae[m]
      OBVIOUS
    <3>3. a \in Minutiae /\ GoodMinutia(a, record)
      BY <1>3, <3>1, <3>2
    <3>4. CASE e.prog = "fmrmod"
      <4>1. PICK q : q = e.o.q % (UCHAR_MAX + 1)
        OBVIOUS
      <4>2. b = [a EXCEPT !.quality = q]
        BY <3>1, <3>2, <3>4, <4>1, MakesParts
      <4>3. b.type = a.type /\ b.x = a.x /\ b.y = a.y /\ b.angle = a.angle /\ b.quality = q
        BY <3>3, <4>2 DEF Minutiae
      <4>4. q <= 100
        BY <3>4, <4>1
      <4> QED
        BY <3>2, <3>3, <4>3, <4>4 DEF GoodMinutia, GoodPlace
    <3>5. CASE e.prog = "fmrisocompact"
      <4>1. b = IsoMinutia(a)
        BY <3>1, <3>2, <3>5, MakesParts
      <4>2. /\ b.type = a.type /\ b.x = a.x /\ b.y = a.y /\ b.quality = a.quality
            /\ b.angle = IsoAngle(a.angle)
        BY <3>3, <4>1 DEF Minutiae, IsoMinutia
      <4>3. a.angle \in Nat /\ a.angle <= 178
        <5>1. a.angle \in Nat /\ a.angle <= 179 /\ a.angle # 179
          BY <3>1, <3>2, <3>3, <3>5, Unsigned DEF Minutiae, GoodMinutia
        <5> QED
          BY <5>1
      <4>4. IsoAngle(a.angle) <= 179
        BY <4>3, IsoAngleGood
      <4> QED
        BY <3>2, <3>3, <4>2, <4>4 DEF GoodMinutia, GoodPlace
    <3> QED
      BY <1>6, <3>4, <3>5
  <2> QED
    BY <1>1, <2>2, <2>3, Zenon DEF GoodView
<1> QED
  BY <1>5, <1>6 DEF Filters


LEMMA FilteredConforms ==
  ASSUME NEW e, e.prog \in Filters, [prog |-> e.prog, o |-> e.o] \in Runs,
         NEW source \in FileFmrs, NEW record \in Fmrs, FilteredTo(e, source, record), Conforms(source),
         e.prog = "fmrmod" => e.o.q % (UCHAR_MAX + 1) <= 100,
         e.prog = "fmrisocompact" =>
           \A v \in DOMAIN source.views : \A m \in DOMAIN source.views[v].minutiae :
             source.views[v].minutiae[m].angle # 179
  PROVE  Conforms(Stored(record))
<1>1. PICK stored : stored = Stored(record)
  OBVIOUS
<1>2. /\ source \in Fmrs
      /\ \A k \in DOMAIN source.views : /\ source.views[k].view_number \in 0 .. 15
                                        /\ source.views[k].impression_type \in 0 .. 15
  BY DEF FileFmrs, FileViews
<1>3. PICK n \in Nat : /\ n = Len(source.views) /\ DOMAIN source.views = 1 .. n
                       /\ \A k \in 1 .. n : source.views[k] \in Fvmrs
  BY <1>2, MinutiaeLens
<1>4. Len(record.views) = n /\ DOMAIN record.views = 1 .. n /\ \A k \in 1 .. n : record.views[k] \in Fvmrs
  BY <1>3, MinutiaeLens DEF FilteredTo
<1>5. \A k \in 1 .. n : Makes(e, source.views[k], record.views[k])
  BY <1>3 DEF FilteredTo
<1>6. /\ record.owner = source.owner
      /\ record.x_image_size = source.x_image_size /\ record.y_image_size = source.y_image_size
      /\ record.x_resolution = source.x_resolution /\ record.y_resolution = source.y_resolution
  <2>1. PICK views, l : record = [source EXCEPT !.views = views, !.record_length = l]
    BY DEF FilteredTo
  <2> QED
    BY <1>2, <2>1 DEF Fmrs
<1>7. /\ stored \in Fmrs /\ stored.record_length = record.record_length /\ stored.owner = record.owner
      /\ stored.x_image_size = record.x_image_size /\ stored.y_image_size = record.y_image_size
      /\ stored.x_resolution = record.x_resolution /\ stored.y_resolution = record.y_resolution
      /\ Len(stored.views) = n /\ \A k \in 1 .. n : stored.views[k] = StoredView(record.views[k])
  BY <1>1, <1>4, StoredFields DEF FileFmrs
<1>8. DOMAIN stored.views = 1 .. n
  BY <1>7, MinutiaeLens
<1>9. /\ GoodHeader(source) /\ \A k \in 1 .. n : GoodView(source.views[k], source)
      /\ Numbered(source.views)
  BY <1>2, <1>3, ConformsSays
<1>10. record.record_length >= 26
  <2>1. CASE e.prog \in {"fmrprune", "fmrsort"}
    <3>1. record.record_length = HeaderOf(source) + SumFunction(BareBytesOf(record))
      BY <2>1 DEF FilteredTo
    <3>2. SumFunction(BareBytesOf(record)) \in Nat
      BY BareBytesTypes
    <3>3. HeaderOf(source) \in Nat /\ HeaderOf(source) >= 26
      BY DEF HeaderOf, SMALL_HEADER, LARGE_HEADER
    <3> QED
      BY <3>1, <3>2, <3>3
  <2>2. CASE e.prog \notin {"fmrprune", "fmrsort"}
    BY <1>9, <2>2 DEF FilteredTo, GoodHeader
  <2> QED
    BY <2>1, <2>2
<1>11. GoodHeader(stored)
  BY <1>6, <1>7, <1>9, <1>10 DEF GoodHeader
<1>12. ASSUME NEW k \in 1 .. n PROVE GoodView(stored.views[k], stored)
  <2>1. PICK old \in Fvmrs, new \in Fvmrs : old = source.views[k] /\ new = record.views[k]
    BY <1>3, <1>4
  <2>2. GoodView(old, source)
    BY <1>9, <2>1
  <2>3. stored.x_image_size = source.x_image_size /\ stored.y_image_size = source.y_image_size
    BY <1>6, <1>7
  <2>4. GoodView(old, stored)
    BY <1>2, <1>7, <2>2, <2>3, GoodElsewhere
  <2>5. Makes(e, old, new)
    BY <1>5, <2>1
  <2>6. e.prog = "fmrisocompact" => \A m \in DOMAIN old.minutiae : old.minutiae[m].angle # 179
    BY <1>3, <2>1
  <2>7. GoodView(new, stored)
    BY <1>7, <2>4, <2>5, <2>6, MakesGood
  <2>8. GoodView(StoredView(new), stored)
    BY <1>7, <2>7, StoredViewGood
  <2> QED
    BY <1>7, <2>1, <2>8
<1>13. ASSUME NEW k \in 1 .. n
       PROVE  /\ stored.views[k].view_number = source.views[k].view_number
              /\ stored.views[k].finger_number = source.views[k].finger_number
  <2>1. PICK old \in Fvmrs, new \in Fvmrs : old = source.views[k] /\ new = record.views[k]
    BY <1>3, <1>4
  <2>2. Makes(e, old, new)
    BY <1>5, <2>1
  <2>3. /\ new.view_number = old.view_number /\ new.finger_number = old.finger_number
        /\ new.impression_type = old.impression_type
    BY <2>2, MakesParts
  <2>9. PICK view : view = StoredView(new)
    OBVIOUS
  <2>4. /\ new.impression_type <= 15 => view.view_number = new.view_number % 16
        /\ view.finger_number = new.finger_number
    BY <2>9, StoredViewFields
  <2>5. old.view_number \in 0 .. 15 /\ old.impression_type \in 0 .. 15
    <3>1. k \in DOMAIN source.views
      BY <1>3
    <3> QED
      BY <1>2, <2>1, <3>1
  <2>6. old.view_number % 16 = old.view_number
    BY <2>5
  <2>7. view = stored.views[k]
    BY <1>7, <2>1, <2>9
  <2> QED
    BY <2>1, <2>3, <2>4, <2>5, <2>6, <2>7
<1>14. Numbered(stored.views)
  BY <1>3, <1>8, <1>9, <1>13, SameNumbers
<1>15. Conforms(stored)
  BY <1>7, <1>8, <1>11, <1>12, <1>14, ConformsSays
<1> QED
  BY <1>1, <1>15

\* fmrprune, fmrsort, fmrmod and fmrisocompact: what conforms is left conforming, unless the
\* quality asked for is above 100 or an angle is moved past the last one.
THEOREM FilteringConforms == Spec => []ConformanceIsKept
<1>1. ASSUME DoneInv PROVE ConformanceIsKept
  <2>1. ASSUME NEW e \in Ended, Filtered(e), Conforms(Source(e)), ~ AsksForTrouble(e)
        PROVE  Conforms(Result(e))
    <3>1. e \in Entries /\ Done(e) /\ e.from \in Files
      BY <1>1, <2>1, LogEntries DEF Entries
    <3>2. e.prog \in Filters /\ [prog |-> e.prog, o |-> e.o] \in Runs
      BY <2>1, <3>1 DEF Filtered, Entries
    <3>3. FilterDone(e)
      BY <2>1, <3>1, <3>2 DEF Done, Filtered
    <3>4. PICK record \in Fmrs : e.to = Fmr(<<Stored(record)>>) /\ FilteredTo(e, Source(e), record)
      BY <3>3 DEF FilterDone
    <3>5. PICK source \in FileFmrs : source = Source(e)
      BY <3>1, <3>3, FirstRecord DEF FilterDone, HasViews, Source
    <3>6. e.prog = "fmrmod" => e.o.q % (UCHAR_MAX + 1) <= 100
      <4>1. CASE e.prog = "fmrmod"
        <5>1. e.o.q \in Int
          BY <3>2, <4>1, RunTypes
        <5>2. ~ (e.o.q % 256 > 100)
          BY <2>1, <4>1 DEF AsksForTrouble
        <5>3. e.o.q % 256 \in Int
          BY <5>1
        <5> QED
          BY <5>2, <5>3 DEF UCHAR_MAX
      <4> QED
        BY <4>1
    <3>7. e.prog = "fmrisocompact" =>
            \A v \in DOMAIN source.views : \A m \in DOMAIN source.views[v].minutiae :
              source.views[v].minutiae[m].angle # 179
      BY <2>1, <3>5 DEF AsksForTrouble
    <3>8. FilteredTo(e, source, record) /\ Conforms(source)
      BY <2>1, <3>4, <3>5
    <3>9. Conforms(Stored(record))
      BY <3>2, <3>6, <3>7, <3>8, FilteredConforms
    <3>10. Result(e) = Stored(record)
      BY <3>4 DEF Result, Fmr
    <3> QED
      BY <3>9, <3>10
  <2> QED
    BY <2>1 DEF ConformanceIsKept
<1> QED
  BY <1>1, DoneInvariant, PTL

-----------------------------------------------------------------------------
(* How often a minutia is among those selected.                            *)

\* Where in these minutiae, at these places, m is.
Where(m, minutiae, S) == {k \in S : minutiae[k] = m}

LEMMA TimesTypes ==
  ASSUME NEW minutiae \in Seq(Minutiae), NEW m
  PROVE  /\ Times(m, minutiae) \in Nat
         /\ Times(m, minutiae) >= 1 <=> m \in Range(minutiae)
         /\ Times(m, minutiae) = Cardinality(Where(m, minutiae, DOMAIN minutiae))
<1>1. DOMAIN minutiae = 1 .. Len(minutiae) /\ Len(minutiae) \in Nat
  BY LenProperties
<1> DEFINE D == Where(m, minutiae, DOMAIN minutiae)
<1>2. IsFiniteSet(1 .. Len(minutiae))
  BY <1>1, FS_Interval
<1>3. D \subseteq 1 .. Len(minutiae)
  BY <1>1 DEF Where
<1>4. IsFiniteSet(D)
  BY <1>2, <1>3, FS_Subset
<1>5. Cardinality(D) \in Nat
  BY <1>4, FS_CardinalityType
<1>6. Cardinality(D) = 0 <=> D = {}
  BY <1>4, FS_EmptySet
<1>7. D # {} <=> m \in Range(minutiae)
  BY DEF Where, Range
<1>8. Times(m, minutiae) = Cardinality(D)
  BY DEF Times, Where
<1> QED
  BY <1>5, <1>6, <1>7, <1>8

LEMMA ArrangedTimes ==
  ASSUME NEW minutiae \in Seq(Minutiae), NEW S, S \subseteq DOMAIN minutiae, NEW s \in SetToSeqs(S),
         NEW m
  PROVE  Times(m, Arranged(minutiae, s)) = Cardinality(Where(m, minutiae, S))
<1>1. DOMAIN minutiae = 1 .. Len(minutiae) /\ Len(minutiae) \in Nat
  BY LenProperties
<1>2. /\ DOMAIN s = 1 .. Cardinality(S) /\ Cardinality(S) \in Nat /\ Range(s) = S
      /\ \A k, l \in DOMAIN s : s[k] = s[l] => k = l
  BY <1>1, InOrder
<1>3. /\ DOMAIN Arranged(minutiae, s) = DOMAIN s
      /\ \A k \in DOMAIN s : Arranged(minutiae, s)[k] = minutiae[s[k]]
  BY ArrangedTypes
<1> DEFINE D == {k \in DOMAIN s : minutiae[s[k]] = m}
           T == Where(m, minutiae, S)
           f == [k \in D |-> s[k]]
<1>4. Times(m, Arranged(minutiae, s)) = Cardinality(D)
  <2>1. {k \in DOMAIN Arranged(minutiae, s) : Arranged(minutiae, s)[k] = m} = D
    BY <1>3
  <2> QED
    BY <2>1 DEF Times
<1>5. IsFiniteSet(1 .. Cardinality(S))
  BY <1>2, FS_Interval
<1>6. D \subseteq 1 .. Cardinality(S)
  BY <1>2
<1>7. IsFiniteSet(D)
  BY <1>5, <1>6, FS_Subset
<1>8. \A k \in D : s[k] \in T
  BY <1>2 DEF Where, Range
<1>9. \A t \in T : \E k \in D : s[k] = t
  BY <1>2 DEF Where, Range
<1>10. \A k, l \in D : f[k] = f[l] => k = l
  BY <1>2
<1>11. f \in [D -> T] /\ \A t \in T : \E k \in D : f[k] = t
  BY <1>8, <1>9
<1>12. f \in Bijection(D, T)
  BY <1>10, <1>11 DEF Bijection, Injection, Surjection, IsInjective
<1>13. ExistsBijection(D, T)
  BY <1>12 DEF ExistsBijection
<1> HIDE DEF D, T, f
<1>14. Cardinality(T) = Cardinality(D)
  BY <1>7, <1>13, FS_Bijection
<1> QED
  BY <1>4, <1>14 DEF T

\* What is selected is there no more often than before; if less often, then one of those
\* places was not selected.
LEMMA SelectedTimes ==
  ASSUME NEW minutiae \in Seq(Minutiae), NEW S, S \subseteq DOMAIN minutiae, NEW s \in SetToSeqs(S),
         NEW m
  PROVE  LET new == Arranged(minutiae, s)
         IN /\ Times(m, new) <= Times(m, minutiae)
            /\ Times(m, new) < Times(m, minutiae) => \E k \in DOMAIN minutiae \ S : minutiae[k] = m
            /\ m \in Range(new) => \E k \in S : minutiae[k] = m
<1> DEFINE D == Where(m, minutiae, DOMAIN minutiae)
           T == Where(m, minutiae, S)
<1>1. Times(m, Arranged(minutiae, s)) = Cardinality(T)
  BY ArrangedTimes
<1>2. Times(m, minutiae) = Cardinality(D) /\ Times(m, minutiae) \in Nat
  BY TimesTypes
<1>3. DOMAIN minutiae = 1 .. Len(minutiae) /\ Len(minutiae) \in Nat
  BY LenProperties
<1>4. IsFiniteSet(1 .. Len(minutiae)) /\ D \subseteq 1 .. Len(minutiae)
  BY <1>3, FS_Interval DEF Where
<1>5. IsFiniteSet(D)
  BY <1>4, FS_Subset
<1>6. T \subseteq D
  BY DEF Where
<1>7. IsFiniteSet(T) /\ Cardinality(T) <= Cardinality(D)
  BY <1>5, <1>6, FS_Subset
<1>8. (\A k \in DOMAIN minutiae \ S : minutiae[k] # m) => T = D
  BY DEF Where
<1>9. Cardinality(T) \in Nat
  BY <1>7, FS_CardinalityType
<1>10. ASSUME Times(m, Arranged(minutiae, s)) < Times(m, minutiae)
       PROVE  \E k \in DOMAIN minutiae \ S : minutiae[k] = m
  <2>1. Cardinality(T) # Cardinality(D)
    BY <1>1, <1>2, <1>9, <1>10
  <2> QED
    BY <1>8, <2>1
<1>11. ASSUME m \in Range(Arranged(minutiae, s)) PROVE \E k \in S : minutiae[k] = m
  <2>1. /\ DOMAIN Arranged(minutiae, s) = DOMAIN s
        /\ \A k \in DOMAIN s : Arranged(minutiae, s)[k] = minutiae[s[k]]
    BY ArrangedTypes
  <2>2. Range(s) = S
    BY <1>3, InOrder
  <2> QED
    BY <1>11, <2>1, <2>2 DEF Range
<1> QED
  BY <1>1, <1>2, <1>7, <1>10, <1>11

\* The first n of an order.
LEMMA FirstCount ==
  ASSUME NEW l \in Nat, NEW S, S \subseteq 1 .. l, NEW s \in SetToSeqs(S), NEW n \in Nat
  PROVE  /\ First(n, s) \subseteq S
         /\ Cardinality(First(n, s)) = IF n < Cardinality(S) THEN n ELSE Cardinality(S)
<1>1. /\ DOMAIN s = 1 .. Cardinality(S) /\ Cardinality(S) \in Nat /\ Range(s) = S
      /\ \A k, j \in DOMAIN s : s[k] = s[j] => k = j
  BY InOrder
<1>2. PICK c \in Nat : c = IF n < Cardinality(S) THEN n ELSE Cardinality(S)
  BY <1>1
<1>3. DOMAIN s \cap 1 .. n = 1 .. c
  BY <1>1, <1>2
<1> DEFINE f == [k \in 1 .. c |-> s[k]]
<1>4. First(n, s) = {s[k] : k \in 1 .. c}
  BY <1>3 DEF First
<1>5. 1 .. c \subseteq DOMAIN s
  BY <1>3
<1>6. f \in [1 .. c -> First(n, s)] /\ \A t \in First(n, s) : \E k \in 1 .. c : f[k] = t
  BY <1>4
<1>7. \A k, j \in 1 .. c : f[k] = f[j] => k = j
  BY <1>1, <1>5
<1>8. f \in Bijection(1 .. c, First(n, s))
  BY <1>6, <1>7 DEF Bijection, Injection, Surjection, IsInjective
<1>9. ExistsBijection(1 .. c, First(n, s))
  BY <1>8 DEF ExistsBijection
<1>10. Cardinality(First(n, s)) = c
  BY <1>9, FS_CountingElements
<1>11. First(n, s) \subseteq S
  BY <1>1, <1>4, <1>5 DEF Range
<1> QED
  BY <1>2, <1>10, <1>11

LEMMA CenterTypes ==
  ASSUME NEW minutiae \in Seq(Minutiae), minutiae # <<>>
  PROVE  LET c == CenterOfMass(minutiae)
         IN c.x \in Int /\ c.y \in Int
<1>1. DOMAIN minutiae = 1 .. Len(minutiae) /\ Len(minutiae) \in Nat /\ Len(minutiae) # 0
  BY LenProperties, EmptySeq
<1>2. \A k \in 1 .. Len(minutiae) : minutiae[k].x \in Nat /\ minutiae[k].y \in Nat
  <2>1. \A k \in 1 .. Len(minutiae) : minutiae[k] \in Minutiae
    BY ElementOfSeq
  <2>2. \A k \in 1 .. Len(minutiae) : minutiae[k].x \in USHORT /\ minutiae[k].y \in USHORT
    BY <2>1 DEF Minutiae
  <2> QED
    BY <2>2, Unsigned
<1>3. PICK n \in Nat : n = Len(minutiae) /\ n # 0
  BY <1>1
<1> DEFINE x == [k \in DOMAIN minutiae |-> minutiae[k].x]
           y == [k \in DOMAIN minutiae |-> minutiae[k].y]
<1>4. /\ DOMAIN x = 1 .. n /\ \A k \in 1 .. n : x[k] \in Nat
      /\ DOMAIN y = 1 .. n /\ \A k \in 1 .. n : y[k] \in Nat
  BY <1>1, <1>2, <1>3
<1>5. /\ SumOf(LAMBDA m : m.x, minutiae) = SumFunction(x)
      /\ SumOf(LAMBDA m : m.y, minutiae) = SumFunction(y)
  BY DEF SumOf
<1> HIDE DEF x, y
<1>6. SumFunction(x) \in Nat /\ SumFunction(y) \in Nat
  BY <1>4, SumType
<1>7. CenterOfMass(minutiae) = [x |-> SumFunction(x) \div n, y |-> SumFunction(y) \div n]
  BY <1>3, <1>5 DEF CenterOfMass
<1>8. \A k \in Nat : k \div n \in Int
  BY <1>3
<1> QED
  BY <1>6, <1>7, <1>8

LEMMA DistanceTypes ==
  ASSUME NEW m \in Minutiae, NEW c, c.x \in Int, c.y \in Int
  PROVE  Distance2(m, c) \in Int
<1>1. m.x \in Int /\ m.y \in Int
  BY Unsigned DEF Minutiae
<1>2. \A k \in Int : Square(k) \in Int
  BY DEF Square
<1>3. m.x - c.x \in Int /\ m.y - c.y \in Int
  BY <1>1
<1> QED
  BY <1>2, <1>3 DEF Distance2

\* An order by distance: what is selected is not farther from the center than what is not.
LEMMA PolarIsNear ==
  ASSUME NEW minutiae \in Seq(Minutiae), minutiae # <<>>, NEW s \in Sorted(minutiae, "polar"),
         NEW n \in Nat, NEW k \in First(n, s), NEW l \in DOMAIN minutiae \ First(n, s)
  PROVE  LET c == CenterOfMass(minutiae)
         IN Distance2(minutiae[k], c) <= Distance2(minutiae[l], c)
<1>1. DOMAIN minutiae = 1 .. Len(minutiae) /\ Len(minutiae) \in Nat
  BY LenProperties
<1>2. s \in SetToSeqs(DOMAIN minutiae)
  BY SortedIsOrder
<1>3. /\ DOMAIN s = 1 .. Cardinality(DOMAIN minutiae) /\ Cardinality(DOMAIN minutiae) \in Nat
      /\ Range(s) = DOMAIN minutiae
  BY <1>1, <1>2, InOrder
<1>4. PICK p \in DOMAIN s \cap 1 .. n : s[p] = k
  BY DEF First
<1>5. PICK q \in DOMAIN s : s[q] = l
  BY <1>3 DEF Range
<1>6. q \notin 1 .. n
  BY <1>5 DEF First
<1>7. p < q
  BY <1>3, <1>4, <1>5, <1>6
<1> DEFINE c == CenterOfMass(minutiae)
<1>8. s \in Order(minutiae, LAMBDA m, w : BeforeByPolar(m, w, c))
  BY DEF Sorted, sort_fmd_by_polar
<1>9. \A g, h \in DOMAIN s : g < h => ~ BeforeByPolar(minutiae[s[h]], minutiae[s[g]], c)
  BY <1>8 DEF Order, Qsort
<1>10. ~ BeforeByPolar(minutiae[l], minutiae[k], c)
  BY <1>4, <1>5, <1>7, <1>9
<1>11. ~ (Distance2(minutiae[l], c) < Distance2(minutiae[k], c))
  BY <1>10 DEF BeforeByPolar, Lexicographic
<1>12. k \in DOMAIN minutiae
  BY <1>3, <1>4 DEF Range
<1>13. minutiae[k] \in Minutiae /\ minutiae[l] \in Minutiae
  BY <1>1, <1>12, ElementOfSeq
<1>14. c.x \in Int /\ c.y \in Int
  BY CenterTypes
<1> HIDE DEF c
<1>15. Distance2(minutiae[l], c) \in Int /\ Distance2(minutiae[k], c) \in Int
  BY <1>13, <1>14, DistanceTypes
<1>16. Distance2(minutiae[k], c) <= Distance2(minutiae[l], c)
  BY <1>11, <1>15
<1> QED
  BY <1>16 DEF c

LEMMA InRectangle ==
  ASSUME NEW minutiae \in Seq(Minutiae), NEW o \in PruneOptions, NEW k \in DOMAIN minutiae
  PROVE  k \in Rectangular(minutiae, o) <=>
           minutiae[k].x - o.x \in 0 .. o.a /\ minutiae[k].y - o.y \in 0 .. o.b
<1>1. o.x \in Int /\ o.y \in Int /\ o.a \in Int /\ o.b \in Int
  BY DEF PruneOptions
<1>2. DOMAIN minutiae = 1 .. Len(minutiae)
  BY LenProperties
<1>3. minutiae[k] \in Minutiae
  BY <1>2, ElementOfSeq
<1>4. minutiae[k].x \in Int /\ minutiae[k].y \in Int
  BY <1>3, Unsigned DEF Minutiae
<1>5. \A n, from, by \in Int : n \in from .. from + by <=> n - from \in 0 .. by
  OBVIOUS
<1> QED
  BY <1>1, <1>4, <1>5 DEF Rectangular

\* The minutiae that are in the rectangle, and no others.
LEMMA RectangularTimes ==
  ASSUME NEW minutiae \in Seq(Minutiae), NEW o \in PruneOptions,
         NEW s \in SetToSeqs(Rectangular(minutiae, o)), NEW m \in Range(minutiae)
  PROVE  Times(m, Arranged(minutiae, s)) =
           IF m.x - o.x \in 0 .. o.a /\ m.y - o.y \in 0 .. o.b THEN Times(m, minutiae) ELSE 0
<1> DEFINE S == Rectangular(minutiae, o)
           inside == m.x - o.x \in 0 .. o.a /\ m.y - o.y \in 0 .. o.b
<1>1. S \subseteq DOMAIN minutiae
  BY DEF Rectangular
<1>2. Times(m, Arranged(minutiae, s)) = Cardinality(Where(m, minutiae, S))
  BY <1>1, ArrangedTimes
<1>3. \A k \in DOMAIN minutiae : minutiae[k] = m => (k \in S <=> inside)
  BY InRectangle
<1> HIDE DEF S, inside
<1>4. CASE inside
  <2>1. Where(m, minutiae, S) = Where(m, minutiae, DOMAIN minutiae)
    BY <1>1, <1>3, <1>4 DEF Where
  <2>2. Times(m, Arranged(minutiae, s)) = Times(m, minutiae)
    BY <1>2, <2>1, TimesTypes
  <2> QED
    BY <1>4, <2>2 DEF inside
<1>5. CASE ~ inside
  <2>1. Where(m, minutiae, S) = {}
    BY <1>1, <1>3, <1>5 DEF Where
  <2>2. Times(m, Arranged(minutiae, s)) = 0
    BY <1>2, <2>1, FS_EmptySet
  <2> QED
    BY <1>5, <2>2 DEF inside
<1> QED
  BY <1>4, <1>5

LEMMA NothingPruned ==
  ASSUME NEW o \in PruneOptions, LegalPrune(o)
  PROVE  PrunedWell(<<>>, <<>>, o)
<1>1. Len(<<>>) = 0 /\ Range(<<>>) = {}
  BY DEF Range
<1>2. o.n \in Int /\ (o.method \in {"polar", "random", "elliptical"} => o.n >= 0)
  BY DEF PruneOptions, LegalPrune
<1>3. LeftOut(<<>>, <<>>) = {}
  BY <1>1 DEF LeftOut
<1> QED
  BY <1>1, <1>2, <1>3 DEF PrunedWell

LEMMA PruneKeepsWell ==
  ASSUME NEW old \in Seq(Minutiae), NEW o \in PruneOptions, LegalPrune(o), NEW new \in Pruned(old, o)
  PROVE  PrunedWell(old, new, o)
<1>1. CASE old = <<>>
  <2>1. new = <<>>
    BY <1>1 DEF Pruned
  <2> QED
    BY <1>1, <2>1, NothingPruned
<1>2. CASE old # <<>>
  <2>1. PICK S \in Selected(old, o) : \E s \in SetToSeqs(S) :
               S \subseteq DOMAIN old /\ new = Arranged(old, s)
    BY <1>2, PrunedIsArranged
  <2>2. PICK s \in SetToSeqs(S) : S \subseteq DOMAIN old /\ new = Arranged(old, s)
    BY <2>1
  <2>3. DOMAIN old = 1 .. Len(old) /\ Len(old) \in Nat
    BY LenProperties
  <2>4. Len(new) = Cardinality(S)
    BY <2>2, ArrangedTypes
  <2>5. o.n \in Int /\ (o.method \in {"polar", "random", "elliptical"} => o.n >= 0)
    BY DEF PruneOptions, LegalPrune
  <2>6. \A m \in Range(new) : Times(m, new) <= Times(m, old)
    BY <2>2, SelectedTimes
  <2>7. Cardinality(DOMAIN old) = Len(old)
    BY <2>3, FS_Interval
  <2>8. ASSUME o.method \in {"polar", "random"}
        PROVE  \E t \in Sorted(old, o.method) :
                 /\ S = First(o.n, t)
                 /\ Cardinality(S) = IF o.n < Len(old) THEN o.n ELSE Len(old)
    <3>1. PICK t \in Sorted(old, o.method) : S = First(o.n, t)
      BY <2>1, <2>8 DEF Selected
    <3>2. t \in SetToSeqs(DOMAIN old)
      BY <2>8, SortedIsOrder
    <3>3. o.n \in Nat
      BY <2>5, <2>8
    <3>4. Cardinality(First(o.n, t)) = IF o.n < Cardinality(DOMAIN old) THEN o.n ELSE Cardinality(DOMAIN old)
      BY <2>3, <3>2, <3>3, FirstCount
    <3> QED
      BY <2>7, <3>1, <3>4
  <2>9. o.method \in {"polar", "random"} => Len(new) = IF o.n < Len(old) THEN o.n ELSE Len(old)
    BY <2>4, <2>8
  <2>10. ASSUME o.method = "elliptical" PROVE Len(new) <= o.n
    <3>1. PICK t \in Elliptical(old, o.a, o.b) : S = First(o.n, t)
      BY <2>1, <2>10 DEF Selected
    <3>2. PICK T : T \subseteq DOMAIN old /\ t \in SetToSeqs(T)
      BY EllipticalIsOrder
    <3>3. o.n \in Nat
      BY <2>5, <2>10
    <3>4. Cardinality(T) \in Nat
      BY <2>3, <3>2, InOrder
    <3>5. Cardinality(S) = IF o.n < Cardinality(T) THEN o.n ELSE Cardinality(T)
      BY <2>3, <3>1, <3>2, <3>3, FirstCount
    <3> QED
      BY <2>4, <3>3, <3>4, <3>5
  <2>11. ASSUME o.method = "polar", NEW m \in Range(new), NEW l \in LeftOut(old, new)
         PROVE  Distance2(m, CenterOfMass(old)) <= Distance2(l, CenterOfMass(old))
    <3>1. PICK t \in Sorted(old, "polar") : S = First(o.n, t)
      BY <2>8, <2>11
    <3>2. PICK k \in S : old[k] = m
      BY <2>2, <2>11, SelectedTimes
    <3>3. Times(l, new) < Times(l, old)
      BY <2>11 DEF LeftOut
    <3>4. PICK j \in DOMAIN old \ S : old[j] = l
      BY <2>2, <3>3, SelectedTimes
    <3>5. o.n \in Nat
      BY <2>5, <2>11
    <3> QED
      BY <1>2, <3>1, <3>2, <3>4, <3>5, PolarIsNear
  <2>12. ASSUME o.method = "rectangular", NEW m \in Range(old)
         PROVE  Times(m, new) = IF m.x - o.x \in 0 .. o.a /\ m.y - o.y \in 0 .. o.b
                                  THEN Times(m, old) ELSE 0
    <3>1. S = Rectangular(old, o)
      BY <2>1, <2>12 DEF Selected
    <3> QED
      BY <2>2, <2>12, <3>1, RectangularTimes
  <2> QED
    BY <2>6, <2>9, <2>10, <2>11, <2>12, Zenon DEF PrunedWell
<1> QED
  BY <1>1, <1>2

LEMMA SortKeepsWell ==
  ASSUME NEW old \in Seq(Minutiae), NEW o \in SortOptions, NEW new \in Resorted(old, o)
  PROVE  Len(new) = Len(old) /\ \A m \in Range(old) : Times(m, new) = Times(m, old)
<1>1. CASE old = <<>>
  BY <1>1 DEF Resorted
<1>2. CASE old # <<>>
  <2>1. PICK s \in SetToSeqs(DOMAIN old) : new = Arranged(old, s)
    BY <1>2, ResortedIsArranged
  <2>2. DOMAIN old = 1 .. Len(old) /\ Len(old) \in Nat
    BY LenProperties
  <2>3. Cardinality(DOMAIN old) = Len(old)
    BY <2>2, FS_Interval
  <2>4. Len(new) = Cardinality(DOMAIN old)
    BY <2>1, ArrangedTypes
  <2>5. \A m : Times(m, new) = Times(m, old)
    BY <2>1, ArrangedTimes, TimesTypes
  <2> QED
    BY <2>3, <2>4, <2>5
<1> QED
  BY <1>1, <1>2

-----------------------------------------------------------------------------
(* What the filters leave of the minutiae of a view, once and again.       *)

LEMMA CoordinatesStay == \A n \in Coordinates : n % 16384 = n
BY SMT DEF Coordinates

LEMMA StoredSame ==
  ASSUME NEW m \in FileMinutiae
  PROVE  StoredMinutia(m) = m
<1>1. m \in Minutiae /\ m.type \in 0 .. 3 /\ m.x \in Coordinates /\ m.y \in Coordinates
  BY DEF FileMinutiae
<1>2. PICK x, y : x = m.x % 16384 /\ y = m.y % 16384
  OBVIOUS
<1>3. x = m.x /\ y = m.y
  BY <1>1, <1>2, CoordinatesStay
<1>4. m.type % 4 = m.type
  BY <1>1
<1>5. StoredMinutia(m) = [type |-> m.type % 4, x |-> x, y |-> y, angle |-> m.angle,
                          quality |-> m.quality]
  BY <1>2 DEF StoredMinutia
<1> HIDE <1>2
<1> QED
  BY <1>1, <1>3, <1>4, <1>5, Zenon DEF Minutiae

\* The options of a filter's entry.
LEMMA FilterRuns ==
  ASSUME NEW e, [prog |-> e.prog, o |-> e.o] \in Runs
  PROVE  /\ e.prog = "fmrprune" => e.o \in PruneOptions
         /\ e.prog = "fmrsort" => e.o \in SortOptions
         /\ e.prog = "fmrmod" => e.o.q \in Int
<1>1. PICK run \in Runs : run = [prog |-> e.prog, o |-> e.o]
  OBVIOUS
<1>2. run.prog = e.prog /\ run.o = e.o
  BY <1>1
<1> QED
  BY <1>2, RunTypes

\* What a filter makes of minutiae that are in a file can be written as it is.
LEMMA KeptInFile ==
  ASSUME NEW e, e.prog \in Filters, [prog |-> e.prog, o |-> e.o] \in Runs,
         NEW old \in FileViews, NEW new \in Fvmrs, Makes(e, old, new)
  PROVE  StoredView(new).minutiae = new.minutiae
<1>1. old \in Fvmrs /\ \A m \in DOMAIN old.minutiae : old.minutiae[m] \in FileMinutiae
  BY DEF FileViews
<1>2. old.minutiae \in Seq(Minutiae) /\ new.minutiae \in Seq(Minutiae)
  BY <1>1 DEF Fvmrs
<1>3. /\ DOMAIN old.minutiae = 1 .. Len(old.minutiae) /\ DOMAIN new.minutiae = 1 .. Len(new.minutiae)
      /\ \A m \in 1 .. Len(new.minutiae) : new.minutiae[m] \in Minutiae
  BY <1>2, LenProperties, ElementOfSeq
<1>4. ASSUME NEW m \in DOMAIN new.minutiae PROVE new.minutiae[m] \in FileMinutiae
  <2>1. CASE e.prog \in {"fmrprune", "fmrsort"}
    <3>1. \/ e.o \in PruneOptions /\ new.minutiae \in Pruned(old.minutiae, e.o)
          \/ e.o \in SortOptions /\ new.minutiae \in Resorted(old.minutiae, e.o)
      BY <1>1, <2>1, MakesParts, FilterRuns
    <3>2. Range(new.minutiae) \subseteq Range(old.minutiae)
      BY <1>2, <3>1, SelectedTypes
    <3>3. \E k \in DOMAIN old.minutiae : new.minutiae[m] = old.minutiae[k]
      BY <3>2 DEF Range
    <3> QED
      BY <1>1, <3>3
  <2>2. CASE e.prog \notin {"fmrprune", "fmrsort"}
    <3>1. e.prog \in {"fmrmod", "fmrisocompact"}
      BY <2>2 DEF Filters
    <3>2. m \in 1 .. Len(old.minutiae)
      BY <1>1, <1>3, <2>2, MakesParts
    <3>3. PICK before : before = old.minutiae[m]
      OBVIOUS
    <3>4. before \in FileMinutiae /\ before \in Minutiae
      BY <1>1, <1>3, <3>2, <3>3 DEF FileMinutiae
    <3>5. \/ new.minutiae[m] = [before EXCEPT !.quality = e.o.q % (UCHAR_MAX + 1)]
          \/ new.minutiae[m] = IsoMinutia(before)
      BY <1>1, <3>1, <3>2, <3>3, MakesParts
    <3>6. PICK after \in Minutiae : after = new.minutiae[m]
      BY <1>3
    <3>7. after.type = before.type /\ after.x = before.x /\ after.y = before.y
      BY <3>4, <3>5, <3>6 DEF IsoMinutia, Minutiae
    <3> QED
      BY <3>4, <3>6, <3>7 DEF FileMinutiae
  <2> QED
    BY <2>1, <2>2
<1>5. PICK stored : stored = StoredView(new)
  OBVIOUS
<1>6. stored.minutiae = [m \in DOMAIN new.minutiae |-> StoredMinutia(new.minutiae[m])]
  BY <1>5, StoredViewFields
<1>7. stored.minutiae = [m \in DOMAIN new.minutiae |-> new.minutiae[m]]
  BY <1>4, <1>6, StoredSame
<1>8. new.minutiae = [m \in DOMAIN new.minutiae |-> new.minutiae[m]]
  BY <1>2
<1> QED
  BY <1>5, <1>7, <1>8

LEMMA MakesKeptWell ==
  ASSUME NEW e, e.prog \in Filters, [prog |-> e.prog, o |-> e.o] \in Runs, Legal(e.prog, e.o),
         NEW old \in Fvmrs, NEW new \in Fvmrs, Makes(e, old, new)
  PROVE  KeptWell(e, old.minutiae, new.minutiae)
<1>1. old.minutiae \in Seq(Minutiae) /\ new.minutiae \in Seq(Minutiae)
  BY DEF Fvmrs
<1>2. ASSUME e.prog = "fmrprune" PROVE PrunedWell(old.minutiae, new.minutiae, e.o)
  <2>1. e.o \in PruneOptions /\ LegalPrune(e.o) /\ new.minutiae \in Pruned(old.minutiae, e.o)
    BY <1>2, MakesParts, FilterRuns DEF Legal
  <2> QED
    BY <1>1, <2>1, PruneKeepsWell
<1>3. ASSUME e.prog = "fmrsort"
      PROVE  /\ Len(new.minutiae) = Len(old.minutiae)
             /\ \A m \in Range(old.minutiae) : Times(m, new.minutiae) = Times(m, old.minutiae)
  <2>1. e.o \in SortOptions /\ new.minutiae \in Resorted(old.minutiae, e.o)
    BY <1>3, MakesParts, FilterRuns
  <2> QED
    BY <1>1, <2>1, SortKeepsWell
<1>4. ASSUME e.prog \in {"fmrmod", "fmrisocompact"}
      PROVE  [k \in DOMAIN new.minutiae |-> Place2(new.minutiae[k])] =
               [k \in DOMAIN old.minutiae |-> Place2(old.minutiae[k])]
  <2>1. Len(new.minutiae) = Len(old.minutiae)
    BY <1>4, MakesParts
  <2>2. /\ DOMAIN old.minutiae = 1 .. Len(old.minutiae) /\ DOMAIN new.minutiae = 1 .. Len(old.minutiae)
        /\ \A m \in 1 .. Len(old.minutiae) : old.minutiae[m] \in Minutiae
    BY <1>1, <2>1, LenProperties, ElementOfSeq
  <2>3. ASSUME NEW m \in 1 .. Len(old.minutiae) PROVE Place2(new.minutiae[m]) = Place2(old.minutiae[m])
    <3>1. PICK before \in Minutiae : before = old.minutiae[m]
      BY <2>2
    <3>2. \/ new.minutiae[m] = [before EXCEPT !.quality = e.o.q % (UCHAR_MAX + 1)]
          \/ new.minutiae[m] = IsoMinutia(before)
      BY <1>4, <3>1, MakesParts
    <3>3. PICK after : after = new.minutiae[m]
      OBVIOUS
    <3>4. after.type = before.type /\ after.x = before.x /\ after.y = before.y
      BY <3>2, <3>3 DEF IsoMinutia, Minutiae
    <3> QED
      BY <3>1, <3>3, <3>4 DEF Place2
  <2> QED
    BY <2>2, <2>3
<1> QED
  BY <1>2, <1>3, <1>4, Zenon DEF KeptWell

\* modify_fvmr_theta: an angle moved to one of 64 stays there.
LEMMA IsoAngleAgain ==
  ASSUME NEW angle \in UCHAR
  PROVE  IsoAngle(IsoAngle(angle)) = IsoAngle(angle)
<1>1. angle \in Nat /\ angle <= 255
  BY Unsigned DEF UCHAR_MAX
<1>2. PICK t \in Int : t = (32 * angle + 45) \div 90
  BY <1>1
<1>3. 90 * t <= 32 * angle + 45 /\ 32 * angle + 45 < 90 * t + 90
  BY <1>1, <1>2, SMT
<1>4. t >= 0 /\ t <= 91
  BY <1>1, <1>3, SMT
<1>5. PICK a \in Int : a = (45 * t + 8) \div 16
  OBVIOUS
<1>6. 16 * a <= 45 * t + 8 /\ 45 * t + 8 < 16 * a + 16
  BY <1>5, SMT
<1>7. IsoAngle(angle) = a % 256
  BY <1>2, <1>5, SMT DEF IsoAngle, IsoTheta, UCHAR_MAX
<1>8. CASE t <= 90
  <2>1. a >= 0 /\ a <= 253
    BY <1>4, <1>6, <1>8, SMT
  <2>2. IsoAngle(angle) = a
    BY <1>7, <2>1, SMT
  <2>3. 90 * t <= 32 * a + 45 /\ 32 * a + 45 < 90 * t + 90
    BY <1>6, SMT
  <2>4. (32 * a + 45) \div 90 = t
    BY <1>4, <2>1, <2>3, SMT
  <2>5. IsoAngle(a) = a % 256
    BY <1>5, <2>4, SMT DEF IsoAngle, IsoTheta, UCHAR_MAX
  <2> QED
    BY <1>7, <2>2, <2>5
<1>9. CASE t = 91
  <2>1. a = 256
    BY <1>6, <1>9, SMT
  <2>2. IsoAngle(angle) = 0
    BY <1>7, <2>1, SMT
  <2>3. IsoAngle(0) = 0
    BY SMT DEF IsoAngle, IsoTheta, UCHAR_MAX
  <2> QED
    BY <2>2, <2>3
<1> QED
  BY <1>4, <1>8, <1>9

\* As many as before are all of them.
LEMMA AllSelected ==
  ASSUME NEW old \in Seq(Minutiae), NEW o \in PruneOptions, NEW new \in Pruned(old, o),
         Len(new) = Len(old)
  PROVE  LeftOut(old, new) = {}
<1>1. CASE old = <<>>
  BY <1>1 DEF LeftOut, Range
<1>2. CASE old # <<>>
  <2>1. PICK S \in Selected(old, o) : \E s \in SetToSeqs(S) :
               S \subseteq DOMAIN old /\ new = Arranged(old, s)
    BY <1>2, PrunedIsArranged
  <2>2. PICK s \in SetToSeqs(S) : S \subseteq DOMAIN old /\ new = Arranged(old, s)
    BY <2>1
  <2>3. DOMAIN old = 1 .. Len(old) /\ Len(old) \in Nat
    BY LenProperties
  <2>4. IsFiniteSet(DOMAIN old) /\ Cardinality(DOMAIN old) = Len(old)
    <3>1. PICK n \in Nat : n = Len(old)
      BY <2>3
    <3>2. IsFiniteSet(1 .. n) /\ Cardinality(1 .. n) = n
      BY FS_Interval
    <3> QED
      BY <2>3, <3>1, <3>2
  <2>5. Cardinality(S) = Len(old)
    BY <2>2, ArrangedTypes
  <2>6. S = DOMAIN old
    BY <2>2, <2>4, <2>5, FS_Subset
  <2>7. \A m : ~ (Times(m, new) < Times(m, old))
    BY <2>2, <2>6, SelectedTimes
  <2> QED
    BY <2>7 DEF LeftOut
<1> QED
  BY <1>1, <1>2

\* Pruned with the same options once more.
LEMMA PrunedAgain ==
  ASSUME NEW o \in PruneOptions, LegalPrune(o), o.method \in {"polar", "rectangular"},
         NEW first_ones \in Seq(Minutiae), NEW old \in Pruned(first_ones, o), NEW new \in Pruned(old, o)
  PROVE  LeftOut(old, new) = {}
<1>1. old \in Seq(Minutiae) /\ new \in Seq(Minutiae)
  BY SelectedTypes
<1>2. PrunedWell(first_ones, old, o) /\ PrunedWell(old, new, o)
  BY <1>1, PruneKeepsWell
<1>3. CASE o.method = "polar"
  <2>1. o.n \in Int /\ Len(first_ones) \in Nat
    BY LenProperties DEF PruneOptions
  <2>2. /\ Len(old) = IF o.n < Len(first_ones) THEN o.n ELSE Len(first_ones)
        /\ Len(new) = IF o.n < Len(old) THEN o.n ELSE Len(old)
    BY <1>2, <1>3 DEF PrunedWell
  <2>3. Len(new) = Len(old)
    BY <2>1, <2>2
  <2> QED
    BY <1>1, <2>3, AllSelected
<1>4. CASE o.method = "rectangular"
  <2>1. ASSUME NEW m \in Range(old) PROVE ~ (Times(m, new) < Times(m, old))
    <3>1. Times(m, old) \in Nat /\ Times(m, old) >= 1 /\ Times(m, old) <= Times(m, first_ones)
      BY <1>1, <1>2, <2>1, TimesTypes DEF PrunedWell
    <3>2. Times(m, first_ones) \in Nat /\ Times(m, first_ones) >= 1
      BY <3>1, TimesTypes
    <3>3. m \in Range(first_ones)
      BY <3>2, TimesTypes
    <3>4. Times(m, old) = IF m.x - o.x \in 0 .. o.a /\ m.y - o.y \in 0 .. o.b
                            THEN Times(m, first_ones) ELSE 0
      BY <1>2, <1>4, <3>3 DEF PrunedWell
    <3>5. m.x - o.x \in 0 .. o.a /\ m.y - o.y \in 0 .. o.b
      BY <3>1, <3>4
    <3>6. Times(m, new) = Times(m, old)
      BY <1>2, <1>4, <2>1, <3>5 DEF PrunedWell
    <3> QED
      BY <3>1, <3>6
  <2> QED
    BY <2>1 DEF LeftOut
<1> QED
  BY <1>3, <1>4

\* fmrmod gives all minutiae one quality.
LEMMA ModifiedMinutiae ==
  ASSUME NEW e, e.prog = "fmrmod", [prog |-> e.prog, o |-> e.o] \in Runs,
         NEW old \in Fvmrs, NEW new \in Fvmrs, Makes(e, old, new),
         NEW q, q = e.o.q % (UCHAR_MAX + 1)
  PROVE  \A m \in 1 .. Len(old.minutiae) : new.minutiae[m] = [old.minutiae[m] EXCEPT !.quality = q]
BY MakesParts DEF Filters

LEMMA MadeAgain ==
  ASSUME NEW e, e.prog \in Filters, [prog |-> e.prog, o |-> e.o] \in Runs, Legal(e.prog, e.o),
         NEW d, d.prog = e.prog, d.o = e.o,
         NEW begin \in Fvmrs, NEW made_once \in Fvmrs, Makes(d, begin, made_once),
         NEW old \in Fvmrs, NEW new \in Fvmrs, Makes(e, old, new), old.minutiae = made_once.minutiae
  PROVE  Settled(e, old.minutiae, new.minutiae)
<1>1. Makes(e, begin, made_once)
  BY Zenon DEF Makes
<1>2. /\ begin.minutiae \in Seq(Minutiae) /\ old.minutiae \in Seq(Minutiae)
      /\ new.minutiae \in Seq(Minutiae)
  BY DEF Fvmrs
<1>3. ASSUME e.prog \in {"fmrmod", "fmrisocompact"} PROVE new.minutiae = old.minutiae
  <2>1. Len(new.minutiae) = Len(old.minutiae) /\ Len(old.minutiae) = Len(begin.minutiae)
    BY <1>1, <1>3, MakesParts
  <2>2. \A m \in 1 .. Len(old.minutiae) : begin.minutiae[m] \in Minutiae
    BY <1>2, <2>1, ElementOfSeq
  <2>3. ASSUME e.prog = "fmrmod"
        PROVE  \A m \in 1 .. Len(old.minutiae) : new.minutiae[m] = old.minutiae[m]
    <3>1. PICK q : q = e.o.q % (UCHAR_MAX + 1)
      OBVIOUS
    <3>2. \A m \in 1 .. Len(begin.minutiae) : made_once.minutiae[m] = [begin.minutiae[m] EXCEPT !.quality = q]
      BY <1>1, <2>3, <3>1, ModifiedMinutiae
    <3>3. \A m \in 1 .. Len(old.minutiae) : new.minutiae[m] = [old.minutiae[m] EXCEPT !.quality = q]
      BY <2>3, <3>1, ModifiedMinutiae
    <3>4. ASSUME NEW m \in 1 .. Len(old.minutiae) PROVE new.minutiae[m] = old.minutiae[m]
      <4>1. PICK zero, one, two :
              /\ zero \in Minutiae
              /\ zero = begin.minutiae[m] /\ one = old.minutiae[m] /\ two = new.minutiae[m]
        BY <2>2
      <4>2. one = [zero EXCEPT !.quality = q]
        BY <2>1, <3>2, <4>1
      <4>3. two = [one EXCEPT !.quality = q]
        BY <3>3, <4>1
      <4> QED
        BY <4>1, <4>2, <4>3 DEF Minutiae
    <3> QED
      BY <3>4
  <2>4. ASSUME e.prog = "fmrisocompact"
        PROVE  \A m \in 1 .. Len(old.minutiae) : new.minutiae[m] = old.minutiae[m]
    <3>2. \A m \in 1 .. Len(begin.minutiae) : made_once.minutiae[m] = IsoMinutia(begin.minutiae[m])
      BY <1>1, <2>4, MakesParts
    <3>3. \A m \in 1 .. Len(old.minutiae) : new.minutiae[m] = IsoMinutia(old.minutiae[m])
      BY <2>4, MakesParts
    <3>4. ASSUME NEW m \in 1 .. Len(old.minutiae) PROVE new.minutiae[m] = old.minutiae[m]
      <4>1. PICK zero, one, two :
              /\ zero \in Minutiae
              /\ zero = begin.minutiae[m] /\ one = old.minutiae[m] /\ two = new.minutiae[m]
        BY <2>2
      <4>2. zero.angle \in UCHAR
        BY <4>1 DEF Minutiae
      <4>3. IsoAngle(IsoAngle(zero.angle)) = IsoAngle(zero.angle)
        BY <4>2, IsoAngleAgain
      <4>4. one = [zero EXCEPT !.angle = IsoAngle(zero.angle)]
        BY <2>1, <3>2, <4>1 DEF IsoMinutia
      <4>5. two = [one EXCEPT !.angle = IsoAngle(one.angle)]
        BY <3>3, <4>1 DEF IsoMinutia
      <4>6. one.angle = IsoAngle(zero.angle)
        BY <4>4 DEF Minutiae
      <4>7. two = [one EXCEPT !.angle = one.angle]
        BY <4>3, <4>5, <4>6
      <4> QED
        BY <4>1, <4>4, <4>7 DEF Minutiae
    <3> QED
      BY <3>4
  <2>5. \A m \in 1 .. Len(old.minutiae) : new.minutiae[m] = old.minutiae[m]
    BY <1>3, <2>3, <2>4
  <2>6. DOMAIN new.minutiae = 1 .. Len(new.minutiae) /\ DOMAIN old.minutiae = 1 .. Len(old.minutiae)
    BY <1>2, LenProperties
  <2> QED
    BY <1>2, <2>1, <2>5, <2>6
<1>4. ASSUME e.prog = "fmrprune", e.o.method \in {"polar", "rectangular"}
      PROVE  LeftOut(old.minutiae, new.minutiae) = {}
  <2>1. /\ e.o \in PruneOptions /\ LegalPrune(e.o)
        /\ old.minutiae \in Pruned(begin.minutiae, e.o) /\ new.minutiae \in Pruned(old.minutiae, e.o)
    BY <1>1, <1>4, MakesParts, FilterRuns DEF Legal
  <2> QED
    BY <1>2, <1>4, <2>1, PrunedAgain
<1> QED
  BY <1>3, <1>4, Zenon DEF Settled

-----------------------------------------------------------------------------
(* A filter that was cut off leaves nothing that a filter reads.           *)

Leaves(e) == e.prog \in Filters /\ HasViews(e.to) => WellMade(e)

KeptInv == DoneInv /\ \A k \in DOMAIN log : Leaves(log[k])

LEMMA CutHasNoViews ==
  ASSUME NEW record \in FileFmrs, Whole(record), NEW cut \in CutRecord(record)
  PROVE  ~ HasViews(Fmr(cut))
<1>1. CASE cut = <<>>
  BY <1>1 DEF HasViews, Reads, Fmr
<1>2. CASE cut # <<>>
  <2>1. record.views \in Seq(Fvmrs) /\ record \in Fmrs
    BY DEF FileFmrs, Fmrs
  <2>2. Len(record.views) \in Nat
    BY <2>1, LenProperties
  <2>3. PICK h \in Nat : h = Len(record.views) \div 2
    <3>1. ASSUME NEW m \in Nat PROVE m \div 2 \in Nat
      OBVIOUS
    <3> QED
      BY <2>2, <3>1
  <2>4. h <= Len(record.views) /\ (h = Len(record.views) => h = 0)
    <3>1. ASSUME NEW m \in Nat PROVE m \div 2 <= m /\ (m \div 2 = m => m \div 2 = 0)
      OBVIOUS
    <3> QED
      BY <2>2, <2>3, <3>1
  <2>5. PICK half : half = SubSeq(record.views, 1, h)
    OBVIOUS
  <2>6. Len(half) = h /\ half \in Seq(Fvmrs)
    BY <2>1, <2>3, <2>4, <2>5, FrontPart
  <2>7. PICK left : left = [record EXCEPT !.views = half]
    OBVIOUS
  <2>8. cut = <<left>>
    BY <1>2, <2>3, <2>5, <2>7 DEF CutRecord
  <2>9. left.views = half /\ left.num_views = Len(record.views)
    BY <2>1, <2>7 DEF Fmrs, Whole
  <2>10. Head(Fmr(cut).records) = left
    BY <2>8 DEF Fmr
  <2>11. ASSUME HasViews(Fmr(cut)) PROVE FALSE
    <3>1. left.num_views = Len(left.views) /\ left.views # <<>>
      BY <2>10, <2>11 DEF HasViews, Reads, Whole
    <3>2. Len(half) = 0
      BY <2>4, <2>6, <2>9, <3>1
    <3> QED
      BY <2>6, <2>9, <3>1, <3>2, EmptySeq
  <2> QED
    BY <2>11
<1> QED
  BY <1>1, <1>2

\* What an ending leaves, for a filter: nothing with views, or a record well made.
EndsSo ==
  \E status, leaves, fault :
    /\ Ends(status, leaves, fault)
    /\ Prog \in Filters /\ HasViews(leaves) =>
         status = "success" /\ fault = "none" /\ leaves.kind = "fmr"

LEMMA NothingToRead == ~ HasViews(NoFile) /\ ~ HasViews(Empty)
<1>1. NoFile.kind # "fmr" /\ Empty.records = <<>>
  BY FileTypes
<1> QED
  BY <1>1 DEF HasViews, Reads

LEMMA FailureLeaves ==
  ASSUME DoneInv, OptionError \/ CannotRead \/ NoMemory \/ LoadFails \/ NotValid \/ NoImage
  PROVE  EndsSo
<1>1. CASE OptionError
  BY <1>1, NothingToRead DEF OptionError, EndsSo
<1>2. CASE CannotRead
  <2>1. Ends("failure", Empty, "none") \/ Ends("failure", NoFile, "none")
    BY <1>2 DEF CannotRead
  <2> QED
    BY <2>1, NothingToRead DEF EndsSo
<1>3. CASE NoMemory
  <2>1. /\ Ends("failure", output, "memory")
        /\ pc \in {"views", "convert", "type9", "load", "verify", "compare"}
    BY <1>3 DEF NoMemory
  <2>2. (Prog \in Filters) => output = Empty
    BY <2>1 DEF DoneInv, Control, InPlace, Filters
  <2> QED
    BY <2>1, <2>2, NothingToRead DEF EndsSo
<1>4. CASE LoadFails
  <2>1. Ends("failure", output, "none") /\ Prog \notin Filters
    BY <1>4 DEF LoadFails, DoneInv, Control, InPlace, Filters
  <2> QED
    BY <2>1 DEF EndsSo
<1>5. CASE NotValid
  BY <1>5, NothingToRead DEF NotValid, EndsSo
<1>6. CASE NoImage
  BY <1>6, NothingToRead DEF NoImage, EndsSo
<1> QED
  BY <1>1, <1>2, <1>3, <1>4, <1>5, <1>6

LEMMA WriteFilteredLeaves ==
  ASSUME DoneInv, WriteFiltered
  PROVE  EndsSo
<1>1. /\ pc = "views" /\ Len(ofmr.views) = Len(ifmr.views) /\ HasViews(file)
      /\ ifmr = Head(file.records) /\ ofmr \in Fmrs /\ ifmr \in Fmrs /\ fmr_length \in Nat
  BY DEF WriteFiltered, DoneInv, Control, InPlace, Typed, FileFmrs
<1>2. PICK record :
        /\ Writes(record)
        /\ record = IF Prog \in {"fmrprune", "fmrsort"} THEN [ofmr EXCEPT !.record_length = fmr_length]
                                                       ELSE ofmr
  BY DEF WriteFiltered
<1>3. record \in Fmrs /\ record.views = ofmr.views /\ record.num_views = ofmr.num_views
  BY <1>1, <1>2 DEF Fmrs
<1>4. ofmr = [ifmr EXCEPT !.views = ofmr.views]
  BY <1>1 DEF DoneInv, Progress, Filtering
<1>5. ofmr.num_views = ifmr.num_views
  BY <1>1, <1>4 DEF Fmrs
<1>6. ifmr.num_views = Len(ifmr.views)
  BY <1>1 DEF HasViews, Reads, Whole
<1>7. PICK stored : stored = Stored(record)
  OBVIOUS
<1>8. stored \in FileFmrs /\ stored.num_views = record.num_views /\ Len(stored.views) = Len(record.views)
  BY <1>3, <1>7, StoredFields
<1>9. Whole(stored)
  BY <1>1, <1>3, <1>5, <1>6, <1>8 DEF Whole
<1>10. CASE Ends("success", Fmr(<<stored>>), "none")
  BY <1>10 DEF EndsSo, Fmr
<1>11. CASE \E cut \in CutRecord(stored) : Ends("success", Fmr(cut), "disk")
  BY <1>8, <1>9, <1>11, CutHasNoViews DEF EndsSo
<1> QED
  BY <1>2, <1>7, <1>10, <1>11 DEF Writes

LEMMA OtherLeaves ==
  ASSUME DoneInv, WriteAn2k \/ An2k2fmrEnds \/ OverlapEnds \/ Refuse \/ VerifyEnds \/ WriteMade
  PROVE  EndsSo
<1>1. Prog \notin Filters
  BY DEF WriteAn2k, An2k2fmrEnds, OverlapEnds, Refuse, Verifying, VerifyEnds, WriteMade,
         DoneInv, Control, InPlace, Filters
<1>2. \E status, leaves, fault : Ends(status, leaves, fault)
  BY DEF WriteAn2k, An2k2fmrEnds, OverlapEnds, Refuse, VerifyEnds, WriteMade, Writes
<1> QED
  BY <1>1, <1>2 DEF EndsSo

LEMMA ConvertType9Leaves ==
  ASSUME DoneInv, ConvertType9
  PROVE  log' = log \/ EndsSo
<1>1. Prog \notin Filters
  BY DEF ConvertType9, DoneInv, Control, InPlace, Filters
<1>2. log' = log \/ \E status, leaves, fault : Ends(status, leaves, fault)
  BY DEF ConvertType9, toolVars
<1> QED
  BY <1>1, <1>2 DEF EndsSo

LEMMA GoingOnLeaves ==
  ASSUME \/ StartFilter \/ FiltersView \/ StartMkfmr \/ LoadNext \/ StartFmr2an2k \/ ConvertView
         \/ StartAn2k2fmr \/ StartOverlap \/ CompareViews \/ PairMinutiae \/ ComparedViews
         \/ StartFmrv \/ VerifyRecord \/ Finished \/ UNCHANGED vars
  PROVE  log' = log
<1>1. CASE StartFilter
  BY <1>1 DEF StartFilter
<1>2. CASE FiltersView
  BY <1>2 DEF FiltersView, copy_and_select_fvmr, sort_and_copy_fvmr, copy_and_modify_fvmr,
              modify_fvmr_theta, AddView
<1>3. CASE StartMkfmr \/ LoadNext
  BY <1>3 DEF StartMkfmr, LoadNext, toolVars
<1>4. CASE StartFmr2an2k \/ ConvertView \/ StartAn2k2fmr
  BY <1>4 DEF StartFmr2an2k, ConvertView, StartAn2k2fmr
<1>5. CASE StartOverlap \/ CompareViews \/ PairMinutiae \/ ComparedViews
  BY <1>5 DEF StartOverlap, CompareViews, PairMinutiae, ComparedViews, toolVars
<1>6. CASE StartFmrv \/ VerifyRecord
  BY <1>6 DEF StartFmrv, VerifyRecord, toolVars
<1>7. CASE Finished \/ UNCHANGED vars
  BY <1>7 DEF Finished, vars, toolVars
<1> QED
  BY <1>1, <1>2, <1>3, <1>4, <1>5, <1>6, <1>7

LEMMA StepLeaves ==
  ASSUME KeptInv, [Next]_vars
  PROVE  KeptInv'
<1>1. DoneInv /\ DoneInv'
  BY StepDone DEF KeptInv
<1>2. log' = log \/ EndsSo
  <2>1. CASE OptionError \/ CannotRead \/ NoMemory \/ LoadFails \/ NotValid \/ NoImage
    BY <1>1, <2>1, FailureLeaves
  <2>2. CASE WriteFiltered
    BY <1>1, <2>2, WriteFilteredLeaves
  <2>3. CASE WriteAn2k \/ An2k2fmrEnds \/ OverlapEnds \/ Refuse \/ VerifyEnds \/ WriteMade
    BY <1>1, <2>3, OtherLeaves
  <2>4. CASE ConvertType9
    BY <1>1, <2>4, ConvertType9Leaves
  <2>5. CASE \/ StartFilter \/ FiltersView \/ StartMkfmr \/ LoadNext \/ StartFmr2an2k \/ ConvertView
             \/ StartAn2k2fmr \/ StartOverlap \/ CompareViews \/ PairMinutiae \/ ComparedViews
             \/ StartFmrv \/ VerifyRecord \/ Finished \/ UNCHANGED vars
    BY <2>5, GoingOnLeaves
  <2> QED
    BY <2>1, <2>2, <2>3, <2>4, <2>5 DEF Next, Filter, FiltersView, Make, Exchange, Overlap, Verify
<1>3. CASE log' = log
  BY <1>1, <1>3 DEF KeptInv
<1>4. CASE EndsSo
  <2>1. PICK status, leaves, fault :
          /\ Ends(status, leaves, fault)
          /\ Prog \in Filters /\ HasViews(leaves) =>
               status = "success" /\ fault = "none" /\ leaves.kind = "fmr"
    BY <1>4 DEF EndsSo
  <2>2. PICK e : e = Entry(status, leaves, fault)
    OBVIOUS
  <2>3. log' = Append(log, e)
    BY <2>1, <2>2 DEF Ends, Entry
  <2>4. Leaves(e)
    BY <2>1, <2>2 DEF Leaves, Entry, WellMade
  <2>5. log \in Seq(Entries)
    BY <1>1 DEF DoneInv, Control, Typed
  <2>6. \A k \in DOMAIN log' : (k \in DOMAIN log /\ log'[k] = log[k]) \/ log'[k] = e
    <3>1. log \in Seq(Entries \cup {e}) /\ e \in Entries \cup {e}
      BY <2>5
    <3> QED
      BY <2>3, <3>1, AppendProperties
  <2>7. \A k \in DOMAIN log' : Leaves(log'[k])
    BY <2>4, <2>6 DEF KeptInv
  <2> QED
    BY <1>1, <2>7 DEF KeptInv
<1> QED
  BY <1>2, <1>3, <1>4

\* No filter leaves a record with views that it has not made well.
THEOREM KeptInvariant == Spec => []KeptInv
<1>1. Init => \A k \in DOMAIN log : Leaves(log[k])
  BY DEF Init
<1>2. DoneInv /\ (\A k \in DOMAIN log : Leaves(log[k])) => KeptInv
  BY DEF KeptInv
<1>3. KeptInv /\ [Next]_vars => KeptInv'
  BY StepLeaves
<1> DEFINE AllLeave == \A k \in DOMAIN log : Leaves(log[k])
<1>4. Init => AllLeave
  BY <1>1
<1>5. DoneInv /\ AllLeave => KeptInv
  BY <1>2
<1> HIDE DEF AllLeave
<1> QED
  BY <1>3, <1>4, <1>5, DoneInvariant, PTL DEF Spec

\* What a filter that has ended well has made of each view.
LEMMA FilterParts ==
  ASSUME NEW e \in Entries, e.prog \in Filters, FilterDone(e)
  PROVE  /\ Len(Result(e).views) = Len(Source(e).views)
         /\ \A v \in DOMAIN Source(e).views : \E old \in FileViews, new \in Fvmrs :
              /\ old = Source(e).views[v] /\ Makes(e, old, new)
              /\ Result(e).views[v].minutiae = new.minutiae
<1>1. [prog |-> e.prog, o |-> e.o] \in Runs /\ e.from \in Files
  BY DEF Entries
<1>2. PICK record \in Fmrs : e.to = Fmr(<<Stored(record)>>) /\ FilteredTo(e, Source(e), record)
  BY DEF FilterDone
<1>3. PICK source \in FileFmrs : source = Source(e)
  BY <1>1, FirstRecord DEF FilterDone, HasViews, Source
<1>4. PICK stored : stored = Stored(record)
  OBVIOUS
<1>5. Result(e) = stored
  BY <1>2, <1>4 DEF Result, Fmr
<1>6. /\ Len(stored.views) = Len(record.views)
      /\ \A k \in 1 .. Len(record.views) : stored.views[k] = StoredView(record.views[k])
  BY <1>4, StoredFields
<1>7. /\ Len(record.views) = Len(source.views)
      /\ \A v \in DOMAIN source.views : Makes(e, source.views[v], record.views[v])
  BY <1>2, <1>3 DEF FilteredTo
<1>8. /\ source \in Fmrs
      /\ \A k \in DOMAIN source.views : source.views[k] \in FileViews
  BY DEF FileFmrs
<1>9. /\ DOMAIN source.views = 1 .. Len(source.views)
      /\ \A k \in 1 .. Len(record.views) : record.views[k] \in Fvmrs
  BY <1>8, MinutiaeLens
<1>10. ASSUME NEW v \in DOMAIN source.views
       PROVE  \E old \in FileViews, new \in Fvmrs :
                /\ old = source.views[v] /\ Makes(e, old, new)
                /\ stored.views[v].minutiae = new.minutiae
  <2>1. PICK old \in FileViews, new \in Fvmrs : old = source.views[v] /\ new = record.views[v]
    BY <1>7, <1>8, <1>9
  <2>2. Makes(e, old, new)
    BY <1>7, <2>1
  <2>3. StoredView(new).minutiae = new.minutiae
    BY <1>1, <2>2, KeptInFile
  <2>4. stored.views[v] = StoredView(new)
    BY <1>6, <1>7, <1>9, <2>1
  <2> QED
    BY <2>1, <2>2, <2>3, <2>4
<1> QED
  BY <1>3, <1>5, <1>6, <1>7, <1>10

\* fmrprune, fmrsort, fmrmod and fmrisocompact keep of the minutiae what they are asked to
\* keep, and a second run with the same options finds nothing to do.
THEOREM MinutiaeStay == Spec => []MinutiaeAreKept
<1>1. ASSUME KeptInv PROVE MinutiaeAreKept
  <2>1. /\ DoneInv /\ \A k \in DOMAIN log : Leaves(log[k])
        /\ log \in Seq(Entries)
    BY <1>1 DEF KeptInv, DoneInv, Control, Typed
  <2>2. ASSUME NEW k \in DOMAIN log
        PROVE  log[k] \in Entries /\ (Filtered(log[k]) => FilterDone(log[k]) /\ log[k].prog \in Filters)
    BY <2>1, <2>2 DEF DoneInv, AllDone, Done, Filtered
  <2>3. ASSUME NEW k \in DOMAIN log, Filtered(log[k])
        PROVE  /\ Len(Result(log[k]).views) = Len(Source(log[k]).views)
               /\ \A v \in DOMAIN Source(log[k]).views :
                    LET old == Source(log[k]).views[v].minutiae
                        new == Result(log[k]).views[v].minutiae
                    IN KeptWell(log[k], old, new) /\ (Again(k) => Settled(log[k], old, new))
    <3>1. PICK e \in Entries : e = log[k]
      BY <2>2
    <3>2. e.prog \in Filters /\ FilterDone(e) /\ Legal(e.prog, e.o) /\ HasViews(e.from)
      BY <2>2, <2>3, <3>1 DEF FilterDone
    <3>3. [prog |-> e.prog, o |-> e.o] \in Runs
      BY DEF Entries
    <3>4. /\ Len(Result(e).views) = Len(Source(e).views)
          /\ \A v \in DOMAIN Source(e).views : \E old \in FileViews, new \in Fvmrs :
               /\ old = Source(e).views[v] /\ Makes(e, old, new)
               /\ Result(e).views[v].minutiae = new.minutiae
      BY <3>2, FilterParts
    <3>5. ASSUME Again(k)
          PROVE  \E d \in Entries :
                   /\ d.prog = e.prog /\ d.o = e.o /\ FilterDone(d) /\ Result(d) = Source(e)
      <4>1. k - 1 \in DOMAIN log
        <5>1. DOMAIN log = 1 .. Len(log) /\ Len(log) \in Nat
          BY <2>1, LenProperties
        <5> QED
          BY <3>5, <5>1 DEF Again
      <4>2. PICK d \in Entries : d = log[k - 1]
        BY <2>2, <4>1
      <4>3. d.to = e.from /\ d.prog = e.prog /\ d.o = e.o
        BY <3>1, <3>5, <4>2 DEF Again
      <4>4. Leaves(d)
        BY <2>1, <4>1, <4>2
      <4>5. Filtered(d)
        BY <3>2, <4>3, <4>4 DEF Leaves, Filtered
      <4>6. FilterDone(d)
        BY <2>2, <4>1, <4>2, <4>5
      <4>7. Result(d) = Source(e)
        BY <4>3 DEF Result, Source
      <4> QED
        BY <4>3, <4>6, <4>7
    <3>6. ASSUME NEW v \in DOMAIN Source(e).views
          PROVE  LET old == Source(e).views[v].minutiae
                     new == Result(e).views[v].minutiae
                 IN KeptWell(e, old, new) /\ (Again(k) => Settled(e, old, new))
      <4>1. PICK old \in FileViews, new \in Fvmrs :
              /\ old = Source(e).views[v] /\ Makes(e, old, new)
              /\ Result(e).views[v].minutiae = new.minutiae
        BY <3>4
      <4>2. old \in Fvmrs
        BY DEF FileViews
      <4>3. KeptWell(e, old.minutiae, new.minutiae)
        BY <3>2, <3>3, <4>1, <4>2, MakesKeptWell
      <4>4. ASSUME Again(k) PROVE Settled(e, old.minutiae, new.minutiae)
        <5>1. PICK d \in Entries :
                /\ d.prog = e.prog /\ d.o = e.o /\ FilterDone(d) /\ Result(d) = Source(e)
          BY <3>5, <4>4
        <5>2. /\ Len(Result(d).views) = Len(Source(d).views)
              /\ \A w \in DOMAIN Source(d).views : \E b \in FileViews, n \in Fvmrs :
                   /\ b = Source(d).views[w] /\ Makes(d, b, n)
                   /\ Result(d).views[w].minutiae = n.minutiae
          BY <3>2, <5>1, FilterParts
        <5>3. v \in DOMAIN Source(d).views
          <6>1. PICK s1 \in FileFmrs, s2 \in FileFmrs : s1 = Source(d) /\ s2 = Source(e)
            BY <3>2, <5>1, FirstRecord DEF FilterDone, HasViews, Source, Entries
          <6>2. DOMAIN s1.views = 1 .. Len(s1.views) /\ DOMAIN s2.views = 1 .. Len(s2.views)
            BY MinutiaeLens DEF FileFmrs
          <6> QED
            BY <5>1, <5>2, <6>1, <6>2
        <5>4. PICK b \in FileViews, n \in Fvmrs :
                b = Source(d).views[v] /\ Makes(d, b, n) /\ Result(d).views[v].minutiae = n.minutiae
          BY <5>2, <5>3
        <5>5. b \in Fvmrs /\ old.minutiae = n.minutiae
          BY <4>1, <5>1, <5>4 DEF FileViews
        <5> QED
          BY <3>2, <3>3, <4>1, <4>2, <5>1, <5>4, <5>5, MadeAgain
      <4> QED
        BY <4>1, <4>3, <4>4
    <3> QED
      BY <3>1, <3>4, <3>6
  <2> QED
    BY <2>3 DEF MinutiaeAreKept
<1> QED
  BY <1>1, KeptInvariant, PTL

=============================================================================
