----------------------------- MODULE FmrCodec -------------------------------
(***************************************************************************)
(* How the parts of a Finger Minutiae Record are put on the wire and taken *)
(* from it again, byte by byte: minutiae (libfmr/fmd.c), the view header   *)
(* (libfmr/fvmr.c), the record header (libfmr/fmr.c), and the core and     *)
(* delta block (libfmr/fedb.c).                                            *)
(*                                                                         *)
(* A program holds one object; it writes it, and reads it back into an     *)
(* object of its own.  The object is one a program has filled in, or one   *)
(* it has read from a wire of somebody else.                               *)
(***************************************************************************)
EXTENDS FmrDefs, Integers, SequencesExt, Bitwise

CONSTANTS
  Objects,   \* <<kind, object>>: what a program may have filled in
  Wires      \* <<kind, format, bytes>>: what it may have to read first

VARIABLES
  kind,      \* what is written and read: "fmd", "view", "header" or "block"
  phase,     \* the object is "filled", "written" to the wire, or "read" back
  object,    \* the object the program holds, or None
  wire,      \* the bytes written
  copy,      \* what was read from the wire, or None
  consumed   \* how many bytes that took

vars == <<kind, phase, object, wire, copy, consumed>>

None  == [format |-> "none"]
Kinds == {"fmd", "view", "header", "block"}

-----------------------------------------------------------------------------
(* The macros: CPUT, SPUT and LPUT truncate their value to the field and   *)
(* put it in network order; CGET, SGET and LGET are their inverses.        *)

CPut(v) == <<v % 256>>
SPut(v) == <<(v \div 256) % 256, v % 256>>
LPut(v) == SPut(v \div 65536) \o SPut(v % 65536)

\* Bytes beyond the end read as 0 here; `consumed' tells that it was passed.
CGet(b, i) == IF i \in DOMAIN b THEN b[i] ELSE 0
SGet(b, i) == CGet(b, i) * 256 + CGet(b, i + 1)
LGet(b, i) == SGet(b, i) * 65536 + SGet(b, i + 2)

SPuts(values)   == FlattenSeq([i \in DOMAIN values |-> SPut(values[i])])
SGets(b, i, n)  == [k \in 1 .. n |-> SGet(b, i + 2 * (k - 1))]

\* (hi << shift) | lo, and the two halves of such a field.
Packed(hi, shift, lo) == (hi * 2^shift) | lo
High(v, shift)        == v \div 2^shift
Low(v, shift)         == v % 2^shift

TYPE_SHIFT       == 14   \* type over a coordinate, in 16 bits
SMALL_TYPE_SHIFT == 6    \* type over an angle or a count, in 8 bits
VIEW_SHIFT       == 4    \* view number over impression type
COMPLIANCE_SHIFT == 12   \* compliance over scanner id

-----------------------------------------------------------------------------
(* Minutiae.                                                               *)

WriteFmd(m) ==
  IF m.format = "ISO_COMPACT_CARD"
    THEN CPut(m.x) \o CPut(m.y) \o
         CPut(Packed(m.type, SMALL_TYPE_SHIFT, Low(m.angle, SMALL_TYPE_SHIFT)))
    ELSE SPut(Packed(m.type, TYPE_SHIFT, Low(m.x, TYPE_SHIFT))) \o
         SPut(Low(m.y, TYPE_SHIFT)) \o CPut(m.angle) \o
         IF m.format = "ISO_NORMAL_CARD" THEN <<>> ELSE CPut(m.quality)

\* The quality of a compact minutia is not known; that of a normal card one
\* stays as new_fmd has cleared it.
ISO_UNKNOWN_FINGER_QUALITY == 0

ReadFmd(format, b) ==
  IF format = "ISO_COMPACT_CARD"
    THEN [format |-> format, x |-> CGet(b, 1), y |-> CGet(b, 2),
          type |-> High(CGet(b, 3), SMALL_TYPE_SHIFT),
          angle |-> Low(CGet(b, 3), SMALL_TYPE_SHIFT),
          quality |-> ISO_UNKNOWN_FINGER_QUALITY, reserved |-> 0]
    ELSE [format |-> format,
          x |-> Low(SGet(b, 1), TYPE_SHIFT), y |-> Low(SGet(b, 3), TYPE_SHIFT),
          type |-> High(SGet(b, 1), TYPE_SHIFT), angle |-> CGet(b, 5),
          quality |-> IF format = "ISO_NORMAL_CARD" THEN 0 ELSE CGet(b, 6),
          reserved |-> High(SGet(b, 3), TYPE_SHIFT)]

FmdOf(format, b) == [object |-> ReadFmd(format, b), consumed |-> FmdLength(format)]

-----------------------------------------------------------------------------
(* The header of a view.                                                   *)

WriteView(v) ==
  CPut(v.finger) \o
  (IF v.format = "ANSI07"
     THEN CPut(v.view) \o CPut(v.impression) \o CPut(v.quality) \o
          LPut(v.algorithm) \o SPuts(v.image)
     ELSE CPut(Packed(v.view, VIEW_SHIFT, v.impression)) \o CPut(v.quality)) \o
  CPut(v.minutiae)

ReadView(format, b) ==
  IF format = "ANSI07"
    THEN [format |-> format, finger |-> CGet(b, 1), view |-> CGet(b, 2),
          impression |-> CGet(b, 3), quality |-> CGet(b, 4),
          algorithm |-> LGet(b, 5), image |-> SGets(b, 9, 4), minutiae |-> CGet(b, 17)]
    ELSE [format |-> format, finger |-> CGet(b, 1), view |-> High(CGet(b, 2), VIEW_SHIFT),
          impression |-> Low(CGet(b, 2), VIEW_SHIFT), quality |-> CGet(b, 3),
          algorithm |-> 0, image |-> <<0, 0, 0, 0>>, minutiae |-> CGet(b, 4)]

ViewOf(format, b) ==
  [object |-> ReadView(format, b), consumed |-> ViewHeaderLength(format)]

-----------------------------------------------------------------------------
(* The header of a record, without the identifier and version, which are   *)
(* put and taken as they are.  `large' stands for record_length_type       *)
(* FMR_ANSI_LARGE_HEADER_TYPE.                                             *)

FMR_ANSI_MAX_SHORT_LENGTH == 65535

WriteHeader(h) ==
  (IF h.format # "ANSI" THEN LPut(h.length)
     ELSE IF h.length > FMR_ANSI_MAX_SHORT_LENGTH THEN SPut(0) \o LPut(h.length)
                                                  ELSE SPut(h.length)) \o
  (IF h.format = "ISO" THEN <<>> ELSE SPuts(h.product)) \o
  SPut(Packed(h.compliance, COMPLIANCE_SHIFT, h.scanner)) \o
  (IF h.format = "ANSI07" THEN <<>> ELSE SPuts(h.image)) \o
  CPut(h.views) \o CPut(0)

ReadHeader(format, b) ==
  LET large   == format = "ANSI" /\ SGet(b, 1) = 0
      product == CASE large           -> 7     \* where each field starts
                   [] format = "ANSI" -> 3
                   [] OTHER           -> 5
      scanner == IF format = "ISO" THEN product ELSE product + 4
      image   == scanner + 2
      views   == IF format = "ANSI07" THEN image ELSE image + 8
  IN [object |->
        [format |-> format, large |-> large,
         length |-> CASE large           -> LGet(b, 3)
                      [] format = "ANSI" -> SGet(b, 1)
                      [] OTHER           -> LGet(b, 1),
         product |-> IF format = "ISO" THEN <<0, 0>> ELSE SGets(b, product, 2),
         compliance |-> High(SGet(b, scanner), COMPLIANCE_SHIFT),
         scanner |-> Low(SGet(b, scanner), COMPLIANCE_SHIFT),
         image |-> IF format = "ANSI07" THEN <<0, 0, 0, 0>> ELSE SGets(b, image, 4),
         views |-> CGet(b, views), reserved |-> CGet(b, views + 1)],
      consumed |-> views + 1]

-----------------------------------------------------------------------------
(* The core and delta block: its core_type (only ANSI), the cores, its     *)
(* delta_type, the deltas.  A core has one angle, a delta three.           *)

ANGULAR == 1

WritePoint(p, format, block_type) ==
  SPut(IF format \in IsoFormats THEN Packed(p.type, TYPE_SHIFT, p.x) ELSE p.x) \o
  SPut(p.y) \o
  IF block_type = ANGULAR THEN FlattenSeq([i \in DOMAIN p.angles |-> CPut(p.angles[i])])
                          ELSE <<>>

\* Mutant: the type of the block is forgotten.
WriteCountOnly(n, format, block_type) == CPut(n)

WriteCount(n, format, block_type) ==
  CPut(IF format \in IsoFormats THEN n ELSE Packed(block_type, SMALL_TYPE_SHIFT, n))

WritePoints(points, format, type) ==
  FlattenSeq([i \in DOMAIN points |-> WritePoint(points[i], format, type)])

WriteBlock(c) ==
  WriteCount(c.num_cores, c.format, c.core_type) \o
  WritePoints(c.cores, c.format, c.core_type) \o
  WriteCount(c.num_deltas, c.format, c.delta_type) \o
  WritePoints(c.deltas, c.format, c.delta_type)

\* One point at i of the wire, with n angles if it is angular.
ReadPoint(b, i, format, block_type, n) ==
  LET type == IF format \in IsoFormats THEN High(SGet(b, i), TYPE_SHIFT) ELSE block_type
      k    == IF type = ANGULAR THEN n ELSE 0
  IN [point |-> [type   |-> IF format \in IsoFormats THEN type ELSE 0,
                 x      |-> Low(SGet(b, i), TYPE_SHIFT),
                 y      |-> Low(SGet(b, i + 2), TYPE_SHIFT),
                 angles |-> [a \in 1 .. n |-> IF a <= k THEN CGet(b, i + 3 + a) ELSE 0]],
      next  |-> i + 4 + k]

\* `count' points from i on.
ReadPoints(b, i, count, format, block_type, n) ==
  FoldLeft(LAMBDA read, k :
             LET one == ReadPoint(b, read.next, format, block_type, n)
             IN [points |-> Append(read.points, one.point), next |-> one.next],
           [points |-> <<>>, next |-> i],
           [k \in 1 .. count |-> k])

BlockType(format, v) == IF format = "ANSI" THEN High(v, SMALL_TYPE_SHIFT) ELSE 0
\* Mutant: the ISO mask is used for both formats.
NumCoresIso(format, v) == v % 64
NumCores(format, v)  == IF format = "ANSI" THEN v % 16 ELSE v % 64
NumDeltas(v)         == v % 64

ReadBlock(format, b) ==
  LET core_type  == BlockType(format, CGet(b, 1))
      num_cores  == NumCores(format, CGet(b, 1))
      cores      == ReadPoints(b, 2, num_cores, format, core_type, 1)
      delta_type == BlockType(format, CGet(b, cores.next))
      num_deltas == NumDeltas(CGet(b, cores.next))
      deltas     == ReadPoints(b, cores.next + 1, num_deltas, format, delta_type, 3)
  IN [object |-> [format |-> format, core_type |-> core_type, num_cores |-> num_cores,
                  cores |-> cores.points, delta_type |-> delta_type,
                  num_deltas |-> num_deltas, deltas |-> deltas.points],
      consumed |-> deltas.next - 1]

-----------------------------------------------------------------------------
Init ==
  /\ copy = None /\ consumed = 0
  /\ \/ \E o \in Objects :
          kind = o[1] /\ object = o[2] /\ wire = <<>> /\ phase = "filled"
     \/ \E w \in Wires :
          /\ kind = w[1] /\ object = [None EXCEPT !.format = w[2]]
          /\ wire = w[3] /\ phase = "written"

\* An object of somebody else's wire has only a format before it is read.
Foreign == DOMAIN object = {"format"}

Emit(bytes) == wire' = bytes /\ phase' = "written" /\ UNCHANGED <<kind, object, copy, consumed>>

Write ==
  /\ phase = "filled"
  /\ \/ kind = "fmd"    /\ Emit(WriteFmd(object))
     \/ kind = "view"   /\ Emit(WriteView(object))
     \/ kind = "header" /\ Emit(WriteHeader(object))
     \/ kind = "block"  /\ Emit(WriteBlock(object))

Take(read) ==
  /\ copy' = read.object /\ consumed' = read.consumed
  /\ phase' = "read" /\ UNCHANGED <<kind, object, wire>>

Read ==
  /\ phase = "written"
  /\ \/ kind = "fmd"    /\ Take(FmdOf(object.format, wire))
     \/ kind = "view"   /\ Take(ViewOf(object.format, wire))
     \/ kind = "header" /\ Take(ReadHeader(object.format, wire))
     \/ kind = "block"  /\ Take(ReadBlock(object.format, wire))

\* A program goes on with what it read from a wire that did not end too soon.
Keep ==
  /\ phase = "read" /\ Foreign
  /\ consumed <= Len(wire)
  /\ object' = copy /\ copy' = None /\ phase' = "filled"
  /\ UNCHANGED <<kind, wire, consumed>>

Next == Write \/ Read \/ Keep

Spec == Init /\ [][Next]_vars

-----------------------------------------------------------------------------
(* Properties.                                                             *)

(***************************************************************************)
(* The values that the fields of the wire can hold.                        *)
(***************************************************************************)
COORDINATE == 0 .. 2^TYPE_SHIFT - 1
TYPE       == 0 .. 3

Points(angles) == [type : TYPE, x : COORDINATE, y : COORDINATE, angles : [1 .. angles -> UCHAR]]

FmdInWidth(m) ==
  /\ m.type \in TYPE /\ m.angle \in UCHAR /\ m.quality \in UCHAR
  /\ m.format \in Cards => m.quality = 0
  /\ IF m.format = "ISO_COMPACT_CARD" THEN m.x \in UCHAR /\ m.y \in UCHAR /\ m.angle < 64
                                      ELSE m.x \in COORDINATE /\ m.y \in COORDINATE

ViewInWidth(v) ==
  /\ {v.finger, v.view, v.impression, v.quality, v.minutiae} \subseteq UCHAR
  /\ v.format # "ANSI07" => v.view < 16 /\ v.impression < 16

HeaderInWidth(h) ==
  /\ h.views \in UCHAR /\ h.compliance < 16 /\ h.scanner < 4096
  /\ h.format = "ANSI" /\ ~ h.large => h.length \in USHORT

BlockInWidth(c) ==
  /\ c.num_cores = Len(c.cores) /\ c.num_deltas = Len(c.deltas)
  /\ c.num_cores < (IF c.format = "ANSI" THEN 16 ELSE 64) /\ c.num_deltas < 64
  /\ \A i \in DOMAIN c.cores  : c.cores[i]  \in Points(1)
  /\ \A i \in DOMAIN c.deltas : c.deltas[i] \in Points(3)
  /\ c.format # "ANSI" => c.core_type = 0 /\ c.delta_type = 0

InWidth(o) ==
  CASE kind = "fmd"    -> FmdInWidth(o)
    [] kind = "view"   -> ViewInWidth(o)
    [] kind = "header" -> HeaderInWidth(o)
    [] kind = "block"  -> BlockInWidth(o)

(***************************************************************************)
(* What is read from any wire fits the wire again: the masks of the        *)
(* readers agree with the shifts of the writers.                           *)
(***************************************************************************)
ReadersStayInWidth == phase = "read" => InWidth(copy)

(***************************************************************************)
(* An object that fits the wire is read back as it was written, by a read  *)
(* that consumes what was written.  Reserved bits are written as 0; ISO    *)
(* cores and deltas with angles are left to AnglesSurvive.                 *)
(***************************************************************************)
Unreserved(o) == IF "reserved" \in DOMAIN o THEN [o EXCEPT !.reserved = 0] ELSE o
HasIsoAngles(o) ==
  /\ kind = "block" /\ o.format \in IsoFormats
  /\ \E p \in Range(o.cores) \cup Range(o.deltas) : p.type = ANGULAR
LargeAsNeeded(o) == kind = "header" => o.large = (o.format = "ANSI" /\ o.length > FMR_ANSI_MAX_SHORT_LENGTH)

RoundTrip ==
  phase = "read" /\ ~ Foreign /\ InWidth(object) /\ ~ HasIsoAngles(object)
                 /\ LargeAsNeeded(object) =>
    /\ copy = Unreserved(object)
    /\ consumed = Len(wire)

-----------------------------------------------------------------------------
(***************************************************************************)
(* fedb.c:1031 "The presence of angular information is defined by the type *)
(* of Core data": a block that was read is written with its angles.        *)
(***************************************************************************)
AnglesSurvive ==
  phase = "read" /\ ~ Foreign /\ kind = "block" => copy = object

=============================================================================
