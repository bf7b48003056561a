------------------------------- MODULE MkFmr --------------------------------
(***************************************************************************)
(* mkfmr (mkfmr/mkfmr.c): a Finger Minutiae Record is made of text files,  *)
(* one for the header, one for the views, one for the minutiae of all      *)
(* views and, if wanted, one for the ridge counts and one for the cores    *)
(* and deltas of all views.                                                *)
(*                                                                         *)
(* A text is the sequence of the numbers in it; fscanf takes them without  *)
(* regard to lines.  A number that is missing leaves its field as it is,   *)
(* which is 0; an error is only seen when all that are asked for are       *)
(* missing.  The angles of cores and deltas are read and left out.         *)
(*                                                                         *)
(* Two numbers are read into variables of the stack that nothing has set:  *)
(* the CBEFF-ID (mkfmr.c:55), so a text for the header that is not empty   *)
(* has it; and the number of ridge counts (mkfmr.c:143, 156), where it     *)
(* makes no difference: a text that ends before it has no counts, and      *)
(* whatever the number, the loop ends with the first of them.              *)
(***************************************************************************)
EXTENDS FmrFile

VARIABLES
  texts,         \* what is left to read of the files
  with,          \* the files given: a subset of {"rcs", "cds"}
  made,          \* the record in memory
  total_length,  \* its length, so far
  stage,         \* what is loaded next, "none" when mkfmr does not run
  at             \* the view it is loaded for

mkfmrVars == <<texts, with, made, total_length, stage, at>>

TextFiles == {"hdr", "fvmr", "xyt", "rcs", "cds"}

\* The fields fscanf fills from position p on, and what it leaves.
Scan(text, p, n) == [f \in 1 .. n |-> IF p + f \in DOMAIN text THEN text[p + f] ELSE 0]
After(text, n)   == SubSeq(text, n + 1, Len(text))

uchar(n)  == n % (UCHAR_MAX + 1)
ushort(n) == n % (USHRT_MAX + 1)

\* %hhx: decimal digits are taken for hexadecimal ones, and a byte keeps the last two.
Hexadecimal(n) == 16 * ((n \div 10) % 10) + (n % 10)

\* load_hdr; the length in the file is not used, and the equipment (Eqpt) is left out.
\* CBEFF-ID X-Size Y-Size X-Res Y-Res Num-Views
LoadHdr ==
  /\ stage = "hdr" /\ texts["hdr"] # <<>>
  /\ LET f == Scan(texts["hdr"], 0, 6)
     IN made' = [record_length |-> 0, long |-> FALSE, owner |-> ushort(f[1]),
                 x_image_size |-> ushort(f[2]), y_image_size |-> ushort(f[3]),
                 x_resolution |-> ushort(f[4]), y_resolution |-> ushort(f[5]),
                 num_views |-> uchar(Hexadecimal(f[6])), views |-> <<>>]
  /\ total_length' = SMALL_HEADER
  /\ stage' = "fvmr" /\ at' = 1
  /\ UNCHANGED <<texts, with>>

\* The stage that follows.
NextStage(s) ==
  CASE s = "fvmr" -> "xyt"
    [] s = "xyt" -> IF "rcs" \in with THEN "rcs" ELSE IF "cds" \in with THEN "cds" ELSE "write"
    [] s = "rcs" -> IF "cds" \in with THEN "cds" ELSE "write"
    [] s = "cds" -> "write"

\* main is done with all views: the loops of the stages that follow are entered.
EndStage ==
  /\ stage \in {"fvmr", "xyt", "rcs", "cds"}
  /\ at > made.num_views
  /\ stage' = NextStage(stage) /\ at' = 1
  /\ UNCHANGED <<texts, with, made, total_length>>

Loading(s) == stage = s /\ at <= made.num_views
Loaded(s, n) == texts' = [texts EXCEPT ![s] = After(@, n)] /\ at' = at + 1

\* A minutia of zeros, in the place of one that is still to come.
NewFmd == [type |-> 0, x |-> 0, y |-> 0, angle |-> 0, quality |-> 0]

\* Mutant: no block length for a view without extended data.
LoadFvmrBare ==
  /\ Loading("fvmr") /\ texts["fvmr"] # <<>>
  /\ LET f == Scan(texts["fvmr"], 0, 5)
     IN made' = [made EXCEPT !.views = Append(@,
          [finger_number |-> uchar(f[1]), view_number |-> uchar(f[2]),
           impression_type |-> uchar(f[3]), finger_quality |-> uchar(f[4]),
           minutiae |-> [m \in 1 .. uchar(f[5]) |-> NewFmd], extended |-> <<>>])]
  /\ total_length' = total_length + FVMR_HEADER_LENGTH
  /\ Loaded("fvmr", 5)
  /\ UNCHANGED <<with, stage>>

\* load_fvmr; the minutiae are still to come.
LoadFvmr ==
  /\ Loading("fvmr") /\ texts["fvmr"] # <<>>
  /\ LET f == Scan(texts["fvmr"], 0, 5)
     IN made' = [made EXCEPT !.views = Append(@,
          [finger_number |-> uchar(f[1]), view_number |-> uchar(f[2]),
           impression_type |-> uchar(f[3]), finger_quality |-> uchar(f[4]),
           minutiae |-> [m \in 1 .. uchar(f[5]) |-> NewFmd], extended |-> <<>>])]
  /\ total_length' = total_length + FVMR_HEADER_LENGTH + FEDB_HEADER_LENGTH
  /\ Loaded("fvmr", 5)
  /\ UNCHANGED <<with, stage>>

\* Mutant: a missing number is no error.
EnoughForAny(text, p, n, k) == TRUE

\* There is a number left for each of n lines of k numbers from position p on.
Enough(text, p, n, k) == n = 0 \/ p + (n - 1) * k < Len(text)

\* load_fmds: index type x y theta quality
FMD_LINE == 6
LoadFmds ==
  /\ Loading("xyt")
  /\ LET n == Len(made.views[at].minutiae)
         line(m) == Scan(texts["xyt"], (m - 1) * FMD_LINE, FMD_LINE)
     IN /\ Enough(texts["xyt"], 0, n, FMD_LINE)
        /\ made' = [made EXCEPT !.views[at].minutiae =
             [m \in 1 .. n |->
                [type |-> uchar(line(m)[2]), x |-> ushort(line(m)[3]), y |-> ushort(line(m)[4]),
                 angle |-> uchar(line(m)[5]), quality |-> uchar(line(m)[6])]]]
        /\ total_length' = total_length + FMD_DATA_LENGTH * n
        /\ Loaded("xyt", FMD_LINE * n)
  /\ UNCHANGED <<with, stage>>

\* add_fed_to_fedb, and the lengths it adds to.
AddFed(fed) ==
  LET feds == FedsOf(made.views[at])
  IN /\ made' = [made EXCEPT !.views[at].extended =
           <<[feds |-> Append(feds, fed), block_length |-> ushort(FedLengths(feds) + fed.length)]>>]
     /\ total_length' = total_length + fed.length

\* load_rcs: Method Num-of-Ridge-Counts, then Index1 Index2 Count; the end of the
\* file ends the counts, however many were announced.
LoadRcs ==
  /\ Loading("rcs") /\ texts["rcs"] # <<>>
  /\ LET text == texts["rcs"]
         head == Scan(text, 0, 2)
         n    == CHOOSE c \in 0 .. head[2] :
                   Enough(text, 2, c, 3) /\ (c < head[2] => ~ Enough(text, 2, c + 1, 3))
         line(c) == Scan(text, 2 + (c - 1) * 3, 3)
     IN /\ AddFed([type |-> FED_RIDGE_COUNT,
                   length |-> ushort(FED_HEADER_LENGTH + 1 + RIDGE_COUNT_DATA_LENGTH * n),
                   method |-> uchar(head[1]),
                   counts |-> [c \in 1 .. n |-> [one |-> uchar(line(c)[1]), two |-> uchar(line(c)[2]),
                                                 count |-> uchar(line(c)[3])]]])
        /\ Loaded("rcs", 2 + 3 * (IF n < head[2] THEN n + 1 ELSE n))
  /\ UNCHANGED <<with, stage>>

NONANGULAR == 0

\* A core or delta; without angles the numbers are taken as y and x.
Place(line, type) ==
  IF type = NONANGULAR THEN [x |-> ushort(line[2]), y |-> ushort(line[1])]
                       ELSE [x |-> ushort(line[1]), y |-> ushort(line[2])]

\* The places in a text of cores and deltas: the type and number of cores, the numbers
\* each takes, the type and number of deltas, the numbers each takes.
Layout(text) ==
  LET bytes(n) == [f \in DOMAIN n |-> uchar(n[f])]
      head   == bytes(Scan(text, 0, 2))
      core   == IF head[1] = NONANGULAR THEN 2 ELSE 3
      middle == 2 + core * head[2]
      head2  == bytes(Scan(text, middle, 2))
  IN [head |-> head, core |-> core, middle |-> middle, head2 |-> head2,
      delta |-> IF head2[1] = NONANGULAR THEN 2 ELSE 5]

CdsComplete(text) ==
  LET l == Layout(text)
  IN /\ text # <<>> /\ Enough(text, 2, l.head[2], l.core)
     /\ l.middle < Len(text) /\ Enough(text, l.middle + 2, l.head2[2], l.delta)

\* load_cds: Core-Type Num-of-Cores, X-Coord Y-Coord [Core-Angle], Delta-Type
\* Num-of-Deltas, X-Coord Y-Coord [Angle1 Angle2 Angle3].
LoadCds ==
  /\ Loading("cds") /\ CdsComplete(texts["cds"])
  /\ LET text == texts["cds"]
         l == Layout(text)
         places(n, from, size, type) ==
           [k \in 1 .. n |-> Place(Scan(text, from + (k - 1) * size, size), type)]
     IN /\ AddFed([type |-> FED_CORE_AND_DELTA,
                   length |-> ushort(FED_HEADER_LENGTH
                                       + 1 + CoreSize(l.head[1] # NONANGULAR) * l.head[2]
                                       + 1 + DeltaSize(l.head2[1] # NONANGULAR) * l.head2[2]),
                   core_type |-> l.head[1],
                   cores  |-> places(l.head[2], 2, l.core, l.head[1]),
                   delta_type |-> l.head2[1],
                   deltas |-> places(l.head2[2], l.middle + 2, l.delta, l.head2[1])])
        /\ Loaded("cds", l.middle + 2 + l.delta * l.head2[2])
  /\ UNCHANGED <<with, stage>>

\* A loader meets the end of its file.
TextEnds ==
  \/ stage = "hdr" /\ texts["hdr"] = <<>>
  \/ Loading("fvmr") /\ texts["fvmr"] = <<>>
  \/ Loading("xyt") /\ ~ Enough(texts["xyt"], 0, Len(made.views[at].minutiae), FMD_LINE)
  \/ Loading("rcs") /\ texts["rcs"] = <<>>
  \/ Loading("cds") /\ ~ CdsComplete(texts["cds"])

Load == LoadHdr \/ LoadFvmr \/ LoadFmds \/ LoadRcs \/ LoadCds \/ EndStage

=============================================================================
