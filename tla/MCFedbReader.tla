---------------------------- MODULE MCFedbReader ----------------------------
(***************************************************************************)
(* FedbReader on small wires: blocks of up to two or three FEDs, sources   *)
(* that end at every byte of them.                                         *)
(***************************************************************************)
EXTENDS FedbReader

MCFormats      == {"ANSI", "ISO", "ANSI07"}
MCBlockLengths == {0, 4, 9, 13, 40000}
MCFedLengths   == {0, 3, 4, 5, 8, 11, 32773}  \* the last one is more than a short can count
MCCounts       == {0, 1, 2}
MCEnds         == {0, 1, 2, 5, 6, 7, 9, 10, 13, 15, 17, 18}
=============================================================================
