---------------------------- MODULE MCFmrConvert ----------------------------
(***************************************************************************)
(* Files for FmrConvert: every angle of every format, coordinates at the   *)
(* edges of the fields, the qualities that ANSI07 adds, extended data,     *)
(* views of two resolutions, no views, and too many minutiae for a card.   *)
(***************************************************************************)
EXTENDS FmrConvert

Minutia(x, angle, quality) == [x |-> x, angle |-> angle, quality |-> quality]

View(resolution, extended, minutiae) ==
  [resolution |-> resolution, extended |-> extended, minutiae |-> minutiae]

File(format, resolution, views) ==
  LET f == [format_std |-> format, num_views |-> Len(views), resolution |-> resolution,
            length |-> 0, views |-> views]
      long == IF format = "ANSI" /\ Bytes(f) > USHRT_MAX THEN 4 ELSE 0
  IN IF format \in Cards THEN f ELSE [f EXCEPT !.length = Bytes(f) + long]

\* n minutiae that point everywhere, from `first' on.
AllAround(n, first, step, quality) ==
  [i \in 1 .. n |-> Minutia(step * (i - 1), first + i - 1, quality)]

MCResolutions == {197}

MCFiles ==
  {File("ANSI", 197, <<View(0, 0, AllAround(180, 0, 2, 50))>>),
   File("ISO", 99, <<View(0, 0, AllAround(128, 0, 1, 0)), View(0, 0, AllAround(128, 128, 1, 100))>>),
   File("ISO_COMPACT_CARD", 0, <<View(0, 0, AllAround(64, 0, 4, 0))>>),
   File("ISO_NORMAL_CARD", 0, <<View(0, 0, AllAround(256, 0, 60, 0))>>),
   File("ISO_NORMAL_CARD", 0,
        <<View(0, 0, <<Minutia(0, 255, 0), Minutia(1, 0, 0), Minutia(500, 128, 0), Minutia(16383, 1, 0)>>)>>),
   File("ISO_COMPACT_CARD", 0, <<View(0, 0, [i \in 1 .. 257 |-> Minutia(7, 7, 0)])>>),
   File("ANSI07", 0, <<View(197, 0, <<Minutia(10, 5, 254), Minutia(11, 6, 255)>>),
                       View(197, 0, <<Minutia(12, 7, 0), Minutia(1000, 8, 100)>>)>>),
   File("ANSI07", 0, <<View(197, 9, <<Minutia(10, 179, 254)>>), View(99, 0, <<Minutia(10, 178, 1)>>)>>),
   File("ANSI", 197, <<>>),
   File("ANSI", 197, <<View(0, 10, <<Minutia(16383, 179, 1)>>), View(0, 0, <<>>), View(0, 20, <<>>)>>),
   File("ANSI", 0, <<View(0, 65535, <<Minutia(3, 180, 1), Minutia(3, 255, 200)>>)>>)}

=============================================================================
