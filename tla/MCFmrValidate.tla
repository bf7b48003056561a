--------------------------- MODULE MCFmrValidate ----------------------------
(***************************************************************************)
(* FmrValidate on records of up to three views of two fingers and of one   *)
(* code out of range, validated up to three times.                         *)
(***************************************************************************)
EXTENDS FmrValidate

Good == [format_std |-> "ISO", fields |-> TRUE, record_length |-> 24, owner |-> 0,
         x_resolution |-> 1, y_resolution |-> 1, x_image_size |-> 2,
         y_image_size |-> 3, reserved |-> 0]

MCHeaders ==
  { Good,
    [Good EXCEPT !.record_length = 23],
    [Good EXCEPT !.x_image_size = 0],
    [Good EXCEPT !.reserved = 1],
    [Good EXCEPT !.format_std = "ANSI", !.record_length = 26],
    [Good EXCEPT !.format_std = "ANSI", !.record_length = 26, !.owner = 1],
    [Good EXCEPT !.format_std = "ANSI07", !.x_resolution = 0, !.x_image_size = 0],
    [Good EXCEPT !.format_std = "ISO_NORMAL_CARD", !.record_length = 0] }

Bare(finger, number) ==
  [finger_number |-> finger, view_number |-> number, fields |-> TRUE,
   number_of_minutiae |-> 1,
   minutiae_data |-> << [at |-> [x |-> 1, y |-> 2], fields |-> TRUE] >>,
   extended |-> <<>>]

Extended(block, index) ==
  << [block_length |-> block,
      feds |-> << [length |-> 8, index |-> <<index>>, at |-> <<>>, fields |-> TRUE],
                  [length |-> 10, index |-> <<>>, at |-> <<[x |-> 1, y |-> 1]>>,
                   fields |-> TRUE] >>] >>

MCViews ==
  { Bare(f, n) : f \in {1, 10}, n \in {0, 1, 15} } \cup
  { Bare(11, 0),
    [Bare(1, 0) EXCEPT !.minutiae_data = << [at |-> [x |-> 2, y |-> 0], fields |-> TRUE] >>],
    [Bare(1, 1) EXCEPT !.extended = Extended(18, 1)],
    [Bare(1, 1) EXCEPT !.extended = Extended(18, 2)],
    [Bare(1, 2) EXCEPT !.extended = Extended(17, 1)] }
=============================================================================
