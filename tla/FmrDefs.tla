------------------------------ MODULE FmrDefs -------------------------------
(***************************************************************************)
(* The constants of the finger minutiae library that its components share: *)
(* record formats and the lengths of the fixed parts (include/fmr.h).      *)
(***************************************************************************)
EXTENDS Bdb

\* Values of format_std.
Cards      == {"ISO_NORMAL_CARD", "ISO_COMPACT_CARD"}
AllFormats == {"ANSI", "ISO", "ANSI07"} \cup Cards

\* The formats whose cores and deltas carry a type each.
IsoFormats == {"ISO"} \cup Cards

\* The integers of the fields.
UCHAR_MAX == 255
USHRT_MAX == 65535
UCHAR  == 0 .. UCHAR_MAX
USHORT == 0 .. USHRT_MAX

\* The record header of each format; ANSI has a long one, for a long record length.
HeaderLengths(format) ==
  CASE format = "ANSI"   -> {26, 30}
    [] format = "ISO"    -> {24}
    [] format = "ANSI07" -> {20}

ViewHeaderLength(format) == IF format = "ANSI07" THEN 17 ELSE 4

FmdLength(format) ==
  CASE format = "ISO_NORMAL_CARD"  -> 5
    [] format = "ISO_COMPACT_CARD" -> 3
    [] OTHER -> 6

FEDB_HEADER_LENGTH == 2

FED_RIDGE_COUNT    == "ridge count"
FED_CORE_AND_DELTA == "core and delta"
FED_OTHER          == "unknown"
FedTypes == {FED_RIDGE_COUNT, FED_CORE_AND_DELTA, FED_OTHER}

FED_HEADER_LENGTH       == 4
RIDGE_COUNT_DATA_LENGTH == 3

\* Bytes of one core (delta): two coordinates and, for the angular type, the angle(s).
CoreSize(angular)  == IF angular THEN 5 ELSE 4
DeltaSize(angular) == IF angular THEN 7 ELSE 4

=============================================================================
