---------------------------- MODULE MCFmrReader -----------------------------
(***************************************************************************)
(* FmrReader on small records: up to two views of up to two minutiae, with *)
(* and without extended data, and sources that end inside each of them.    *)
(***************************************************************************)
EXTENDS FmrReader

MCViewCounts    == {0, 1, 2}
MCMinutiaCounts == {0, 2}
MCBlockLengths  == {0, 8, 14}
MCFedLengths    == {6, 8}
MCCounts        == {0, 1}
MCEnds          == {0, 19, 25, 26, 36, 38, 44, 48, 52, 64}

\* Cards: every end inside the first minutiae, and more than 255 minutiae.
MCCardEnds      == (0 .. 16) \cup {765, 767, 768, 771, 1275, 1280, 1283}
=============================================================================
