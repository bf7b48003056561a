----------------------------- MODULE MCFmrTools -----------------------------
(***************************************************************************)
(* Sessions of one to three programs, on records of two fingers and up to  *)
(* three minutiae in a view, with ridge counts, cores and deltas; on files *)
(* that are empty, cut off, or have two records; and on texts.             *)
(***************************************************************************)
EXTENDS FmrTools

\* Where a minutia is, its type, angle and quality.
Fmd(x, y, type, angle, quality) ==
  [type |-> type, x |-> x, y |-> y, angle |-> angle, quality |-> quality]

Fvmr4(finger, number, minutiae, extended) ==
  [finger_number |-> finger, view_number |-> number, impression_type |-> 0,
   finger_quality |-> 70, minutiae |-> minutiae, extended |-> extended]

\* A record of size 48 x 40, 197 pixels per centimeter, with its length true.
Record(views) ==
  LET record == [record_length |-> 0, long |-> FALSE, owner |-> 27,
                 x_image_size |-> 48, y_image_size |-> 40,
                 x_resolution |-> 197, y_resolution |-> 197,
                 num_views |-> Len(views), views |-> views]
  IN [record EXCEPT !.record_length = RecordBytes(record)]

Three == <<Fmd(10, 20, 1, 0, 60), Fmd(14, 23, 2, 89, 0), Fmd(40, 6, 0, 178, 99)>>
Two   == <<Fmd(47, 39, 1, 90, 50), Fmd(0, 0, 2, 135, 50)>>

Ridges == [type |-> FED_RIDGE_COUNT, length |-> 11, method |-> 1,
           counts |-> <<[one |-> 1, two |-> 3, count |-> 4], [one |-> 2, two |-> 2, count |-> 1]>>]
CoresOnly == [type |-> FED_CORE_AND_DELTA, length |-> 10, core_type |-> 0,
              cores |-> <<[x |-> 12, y |-> 21]>>, delta_type |-> 0, deltas |-> <<>>]
Block(feds) == <<[block_length |-> SumOf(LAMBDA e : e.length, feds), feds |-> feds]>>

Full    == Record(<<Fvmr4(1, 0, Three, Block(<<Ridges, CoresOnly>>)), Fvmr4(2, 0, Two, <<>>)>>)
Plain   == Record(<<Fvmr4(7, 0, Two, <<>>)>>)
Shifted == Record(<<Fvmr4(7, 0, <<Fmd(46, 39, 0, 5, 5), Fmd(46, 37, 0, 5, 5), Fmd(2, 1, 0, 5, 5)>>, <<>>)>>)
NoMinutiae == Record(<<Fvmr4(7, 0, <<>>, <<>>)>>)
Same    == Record(<<Fvmr4(3, 0, Two, <<>>), Fvmr4(3, 1, Three, <<>>)>>)
\* Of an angle that fmrisocompact makes 180.
Steep   == Record(<<Fvmr4(1, 0, <<Fmd(1, 2, 1, 179, 9)>>, <<>>)>>)
\* Points outside the image, no owner.
Wrong   == [Record(<<Fvmr4(1, 0, <<Fmd(48, 2, 1, 200, 101)>>, <<>>)>>) EXCEPT !.owner = 0]
\* Stands for a record with more than 64 KiB of extended data; behind another one its length
\* makes the sum of fmrv start over.
Long    == [Plain EXCEPT !.long = TRUE, !.record_length = 70000]
\* Of 2 pixels per centimeter: 20 of them are five digits of ANSI/NIST.
Coarse  == [Record(<<Fvmr4(1, 0, <<Fmd(20, 39, 1, 45, 9)>>, <<>>)>>)
              EXCEPT !.x_resolution = 2, !.y_resolution = 2]
Cut     == [Full EXCEPT !.views = <<Full.views[1]>>]

Run(prog, o) == [prog |-> prog, o |-> o]
Prune(method, n, a, b, x, y) ==
  Run("fmrprune", [method |-> method, n |-> n, a |-> a, b |-> b, x |-> x, y |-> y])
Prunes == {Prune("polar", 2, -1, -1, -1, -1), Prune("random", 1, -1, -1, -1, -1),
           Prune("elliptical", 2, 8, 12, -1, -1), Prune("rectangular", -1, 30, 10, 10, 20)}
Sort(method, descending) == Run("fmrsort", [method |-> method, descending |-> descending])
Sorts == {Sort("polar", FALSE), Sort("xy", FALSE), Sort("yx", TRUE), Sort("angle", FALSE),
          Sort("random", TRUE)}
Mod(q)    == Run("fmrmod", [q |-> q])
Iso       == Run("fmrisocompact", <<>>)
ToAn2k(v, t, f, images) == Run("fmr2an2k", [v |-> v, t |-> t, f |-> f, images |-> images])
ToFmr(v)  == Run("an2k2fmr", [v |-> v])
Overlaps(radius) == Run("fmroverlap", [r |-> radius])
Fmrv      == Run("fmrv", <<>>)
Mkfmr(w)  == Run("mkfmr", [with |-> w])

Sess(plans, records) ==
  {[plan |-> p, original |-> Fmr(f), other |-> Fmr(f)] : p \in plans, f \in records}

TextsOf(views, fvmr, xyt, rcs, cds) ==
  [kind |-> "text",
   texts |-> [hdr |-> <<27, 48, 40, 197, 197, views>>,
              fvmr |-> fvmr, xyt |-> xyt, rcs |-> rcs, cds |-> cds]]
Texts(views, xyt, rcs, cds) == TextsOf(views, <<1, 0, 0, 70, 2, 2, 0, 0, 70, 1>>, xyt, rcs, cds)
\* A header that announces so many views, and n lines of views without minutiae.
Bare(views, n) == TextsOf(views, FlattenSeq([v \in 1 .. n |-> <<7, v - 1, 0, 70, 0>>]), <<>>, <<>>, <<>>)
Lines == <<1, 1, 10, 20, 30, 40,  2, 2, 11, 21, 31, 41,  1, 1, 12, 22, 32, 42>>

Made(files) == {<<Mkfmr({}), Fmrv>>, <<Mkfmr({"rcs"}), Fmrv>>,
                <<Mkfmr({"rcs", "cds"}), ToAn2k(TRUE, FALSE, FALSE, 0)>>} \X files
MadeSessions ==
  {[plan |-> m[1], original |-> m[2], other |-> NoFile] :
     m \in Made({Texts(2, Lines, <<1, 1, 1, 2, 3,  1, 0>>, <<0, 1, 12, 21,  1, 1, 5, 6, 7, 8, 9,
                                                              0, 0, 0, 0>>),
                 Texts(2, SubSeq(Lines, 1, 12), <<1, 9, 1, 2, 3>>, <<0, 1, 12>>),
                 Texts(1, SubSeq(Lines, 1, 12), <<1, 3, 1, 9, 3,  2, 1>>, <<0, 1, 12, 21,  0, 0>>),
                 Texts(10, Lines, <<>>, <<>>)})}
\* As many as 10 is taken for.
  \cup {[plan |-> <<Mkfmr({}), Fmrv>>, original |-> Bare(10, 16), other |-> NoFile]}
\* Cores and deltas of reserved types; a reader would lose its place in what is made.
  \cup {[plan |-> <<Mkfmr({"cds"})>>, other |-> NoFile,
         original |-> Texts(2, Lines, <<>>, <<core, 2, 12, 21, 30, 13, 22, 31,  delta, 1, 5, 6, 7, 8, 9,
                                              1, 0, delta, 0>>)] : core \in {1, 2}, delta \in {1, 3}}

\* A file of somebody else: an image of low resolution, and one of none.
Type4(idc, isr) == [type |-> 4, idc |-> idc, isr |-> isr, width |-> 48, height |-> 40]
Minutia9(index, place, type, counts) ==
  [index |-> index, at |-> place, quality |-> 20, type |-> type, counts |-> counts]
Latent(idc, finger) ==
  [type |-> 9, idc |-> idc, impression |-> 4, finger |-> finger,
   cores |-> <<<<0, 1, 0, 0, 0, 0, 9, 9>>>>, deltas |-> <<>>, count |-> 2,
   minutiae |-> <<Minutia9(1, <<0, 1, 0, 0, 0, 0, 5, 0, 2, 7, 0>>, "A", <<[other |-> 2, count |-> 3]>>),
                  Minutia9(2, <<0, 0, 0, 0, 0, 1, 9, 8, 3, 5, 8>>, "C", <<>>)>>]
Foreign(records) ==
  An2k([contents |-> [k \in DOMAIN records |-> <<records[k].type, records[k].idc>>],
        records |-> records])
ForeignSessions ==
  {[plan |-> <<ToFmr(v), Fmrv>>, original |-> Foreign(records), other |-> NoFile] :
     v \in BOOLEAN, records \in {<<Latent(1, 2), Type4(1, 0), Latent(0, 2)>>,
                                 <<Type4(0, 1), Latent(0, 3)>>}}

MCSessions ==
  \* Each filter, twice, and the verdict.
  Sess({<<p, p, Fmrv>> : p \in Prunes \cup {Mod(60), Mod(356), Iso}},
       {<<Full>>, <<NoMinutiae>>, <<Steep>>})
  \cup Sess({<<s, Prune("polar", 1, -1, -1, -1, -1), Overlaps(5)>> : s \in Sorts},
            {<<Full>>, <<Same>>})
  \cup Sess({<<p, Fmrv>> : p \in {Mod(60), Iso, Sort("polar", TRUE), Prune("polar", 1, -1, -1, -1, -1)}},
            {<<Long>>, <<Wrong>>, <<Cut>>})
  \cup Sess({<<p>> : p \in {Prune("elliptical", 2, 12, 8, -1, -1), Mod(-1), Prune("polar", -1, -1, -1, -1, -1)}},
            {<<Plain>>})
  \cup Sess({<<Fmrv>>}, {<<>>, <<Plain>>, <<Plain, Full>>, <<Full, Wrong>>, <<Plain, Cut>>, <<Same, Long>>})
  \* There and back, and the verdict.
  \cup Sess({<<ToAn2k(v, FALSE, TRUE, 2), ToFmr(FALSE), Fmrv>> : v \in BOOLEAN},
            {<<Full>>, <<Same>>, <<Wrong>>})
  \cup Sess({<<ToAn2k(FALSE, TRUE, FALSE, 0), ToFmr(TRUE)>>, <<ToAn2k(FALSE, FALSE, TRUE, 1), ToFmr(FALSE)>>},
            {<<Full>>, <<Coarse>>, <<>>})
  \cup Sess({<<ToFmr(FALSE)>>, <<Overlaps(3)>>, <<ToAn2k(TRUE, TRUE, FALSE, 0), Fmrv>>}, {<<>>, <<Plain>>})
  \cup Sess({<<Mod(7), Overlaps(0)>>, <<Iso, Overlaps(3)>>,
              <<Prune("polar", 0, -1, -1, -1, -1), Overlaps(3)>>}, {<<Full>>})
  \cup {[plan |-> <<Overlaps(3)>>, original |-> Fmr(<<f>>), other |-> Fmr(<<Plain>>)] :
          f \in {Shifted, Steep, Full}}
  \cup MadeSessions \cup ForeignSessions

=============================================================================
