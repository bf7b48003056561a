--------------------------- MODULE MCImageWriter ----------------------------
(***************************************************************************)
(* ImageWriter on records of up to two parts of each format, whole and cut.*)
(***************************************************************************)
EXTENDS ImageWriter

MCRecordLengths == [FIR_ANSI |-> {51}, FIR_ISO |-> {47}, FRF |-> {47, 94},
                    IIR_2005 |-> {107, 200}, IIR_2011 |-> {16, 72}]

\* Ends within the parts, behind one record, and behind two.
MCEnds == [FIR_ANSI |-> {51, 65},
           FIR_ISO  |-> {47, 62},
           FRF      |-> {0, 55, 94, 110},
           IIR_2005 |-> {113, 121, 190},
           IIR_2011 |-> {67, 83, 136}]

\* The record that testiid of 2011 reads and writes.
MCReadBackFormats == {"IIR_2011"}

MCPartCounts  == {0, 1, 2}
MCSubCounts   == {0, 1}
MCLengths     == {0, 15, 41}
MCCodeLengths == {0, 8}
MCSpaces      == {0, 60}
MCImageSizes  == {1, 3}
=============================================================================
