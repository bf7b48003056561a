---------------------------- MODULE MCImageFile -----------------------------
(***************************************************************************)
(* ImageFile on files of up to two small records of each format.           *)
(***************************************************************************)
EXTENDS ImageFile

\* Record lengths: none, true for some records, and too long for the file.
MCRecordLengths == [FIR_ANSI |-> {0, 51, 500}, FIR_ISO |-> {0, 47, 500},
                    FRF |-> {0, 55, 500},
                    IIR_2005 |-> {0, 107, 999}, IIR_2011 |-> {0, 68, 999}]

\* Ends in every part of a record, behind it, and behind a second one.
MCEnds == [FIR_ANSI |-> {0, 35, 36, 50, 51, 102, 130},
           FIR_ISO  |-> {0, 31, 47, 94},
           FRF      |-> {0, 13, 33, 41, 45, 55, 110},
           IIR_2005 |-> {0, 46, 104, 107, 113, 121, 214},
           IIR_2011 |-> {0, 15, 16, 67, 83, 136}]

MCPartCounts  == {0, 1, 2}
MCSubCounts   == {0, 1, 2}
MCLengths     == {0, 15, 41}
MCCodeLengths == {0, 5, 8}
=============================================================================
