------------------------------ MODULE FmrTools ------------------------------
(***************************************************************************)
(* The programs of fingerminutia/src, run one after the other: each reads  *)
(* the file the one before it has made.                                    *)
(*                                                                         *)
(*   mkfmr          texts -> record          (MkFmr)                       *)
(*   fmrprune, fmrsort, fmrmod, fmrisocompact: record -> record (FmrSelect)*)
(*   fmr2an2k, an2k2fmr: record -> ANSI/NIST file -> records   (FmrAn2k)   *)
(*   fmroverlap     a file and another one                     (FmrOverlap)*)
(*   fmrv           the verdict of validate_fmr on all records of a file   *)
(*                                                                         *)
(* A program may find no memory and exit, and the disk may be full when it *)
(* writes.  A file that is there before a program is run is not its output *)
(* file: all of them refuse to write over one.                             *)
(***************************************************************************)
EXTENDS FmrOverlap, MkFmr, FmrSelect, FmrAn2k

CONSTANTS
  UintModulus, \* one more than the largest unsigned int, 2^32 in the code
  Sessions,    \* what may be run: records [plan, original, other], of a sequence of
               \* programs [prog, o] with their options, the file that the first one reads,
               \* and the file that fmroverlap compares with
  Faults       \* a subset of {"memory", "disk"}

Filters == {"fmrprune", "fmrsort", "fmrmod", "fmrisocompact"}

\* The programs with their options; a number that is not given is -1.
Runs ==
  [prog : {"fmrprune"}, o : [method : {"polar", "random", "elliptical", "rectangular"},
                             n : Int, a : Int, b : Int, x : Int, y : Int]]
    \cup [prog : {"fmrsort"}, o : [method : {"polar", "xy", "yx", "angle", "random"},
                                  descending : BOOLEAN]]
    \cup [prog : {"fmrmod"}, o : [q : Int]]
    \cup [prog : {"fmrisocompact", "fmrv"}, o : {<<>>}]
    \cup [prog : {"mkfmr"}, o : [with : SUBSET {"rcs", "cds"}]]
    \cup [prog : {"fmr2an2k"}, o : [v : BOOLEAN, t : BOOLEAN, f : BOOLEAN, images : Nat]]
    \cup [prog : {"an2k2fmr"}, o : [v : BOOLEAN]]
    \cup [prog : {"fmroverlap"}, o : [r : Int]]

\* Files: text, fmr and an2k; no file at all; the empty file that "wb" makes.
NoFile        == [kind |-> "none", records |-> <<>>]
Fmr(records)  == [kind |-> "fmr", records |-> records]
An2k(ansi)    == [kind |-> "an2k", contents |-> ansi.contents, records |-> ansi.records]
Empty         == Fmr(<<>>)

Files ==
  {NoFile}
    \cup [kind : {"text"}, texts : [TextFiles -> Seq(Nat)]]
    \cup [kind : {"fmr"}, records : Seq(FileFmrs)]
    \cup [kind : {"an2k"}, contents : Seq(Nat \X Nat), records : Seq(AnsiRecords)]

ASSUME UintAssumption == UintModulus \in Nat \ {0}

\* Only mkfmr reads texts, and nothing else does.
ASSUME SessionsAssumption ==
  \A s \in Sessions :
    /\ s.plan \in Seq(Runs) /\ s.original \in Files /\ s.other \in Files
    /\ \A k \in DOMAIN s.plan :
         s.plan[k].prog = "mkfmr" <=> k = 1 /\ s.original.kind = "text"

VARIABLES
  plan,        \* the programs to run; the first of them is running unless pc is "ready"
  other,       \* the file that fmroverlap compares with
  file,        \* the file that was made last
  pc,          \* where the program is
  ifmr, ofmr,  \* the record read, the one made of it
  fmr_length,  \* the length of the one made
  ansi_nist,   \* what fmr2an2k makes
  output,      \* the file the program makes
  log          \* what the programs that have ended did

toolVars == <<plan, other, file, pc, ifmr, ofmr, fmr_length, ansi_nist, output, log>>
vars     == <<toolVars, mkfmrVars, overlapVars>>

Prog    == Head(plan).prog
Options == Head(plan).o

NoRecord == [record_length |-> 0, long |-> FALSE, owner |-> 0, x_image_size |-> 0,
             y_image_size |-> 0, x_resolution |-> 0, y_resolution |-> 0, num_views |-> 0,
             views |-> <<>>]

Init ==
  /\ \E s \in Sessions : plan = s.plan /\ file = s.original /\ other = s.other
  /\ pc = "ready" /\ ifmr = NoRecord /\ ofmr = NoRecord /\ fmr_length = 0
  /\ ansi_nist = NewAnsi /\ output = NoFile /\ log = <<>>
  /\ texts = [f \in TextFiles |-> <<>>] /\ with = {} /\ made = NoRecord
  /\ total_length = 0 /\ stage = "none" /\ at = 0
  /\ first = <<>> /\ second = <<>> /\ r_opt = 0 /\ r = 0 /\ i = 1 /\ pairs = {}

\* The program ends, and leaves this file.
Ends(status, leaves, fault) ==
  /\ log' = Append(log, [prog |-> Prog, o |-> Options, from |-> file, to |-> leaves,
                         status |-> status, fault |-> fault])
  /\ plan' = Tail(plan) /\ pc' = "ready" /\ output' = NoFile
  /\ file' = IF leaves = NoFile THEN file ELSE leaves
  /\ ifmr' = NoRecord /\ ofmr' = NoRecord /\ fmr_length' = 0 /\ ansi_nist' = NewAnsi
  /\ texts' = [f \in TextFiles |-> <<>>] /\ with' = {} /\ made' = NoRecord
  /\ total_length' = 0 /\ stage' = "none" /\ at' = 0
  /\ UNCHANGED other

\* What a full disk leaves of a record; the result of the writing is not used.
Writes(record) ==
  \/ Ends("success", Fmr(<<Stored(record)>>), "none")
  \/ "disk" \in Faults /\ \E cut \in CutRecord(Stored(record)) : Ends("success", Fmr(cut), "disk")

-----------------------------------------------------------------------------
(* Starting a program.                                                     *)

\* get_options of the programs; options that are not given have the value -1.
LegalPrune(o) ==
  CASE o.method \in {"polar", "random"} -> o.n >= 0
    [] o.method = "elliptical"  -> o.n >= 0 /\ o.a > 0 /\ o.b > 0 /\ o.a <= o.b
    [] o.method = "rectangular" -> o.a > 0 /\ o.b > 0 /\ o.x >= 0 /\ o.y >= 0

Legal(prog, o) ==
  CASE prog = "fmrprune"   -> LegalPrune(o)
    [] prog = "fmrmod"     -> o.q >= 0
    [] prog = "fmroverlap" -> o.r > 0
    [] OTHER -> TRUE

\* The output file, if it was made already, is removed.
OptionError ==
  /\ pc = "ready" /\ plan # <<>> /\ ~ Legal(Prog, Options)
  /\ Ends("failure", NoFile, "none")
  /\ UNCHANGED overlapVars

Starts == pc = "ready" /\ plan # <<>> /\ Legal(Prog, Options)

\* new_fmr, read_fmr
Reads(f) == f.kind = "fmr" /\ f.records # <<>> /\ Whole(Head(f.records))
HasViews(f) == Reads(f) /\ Head(f.records).views # <<>>

\* fmroverlap: both files, with as many views each.
Comparable ==
  /\ HasViews(other) /\ HasViews(file)
  /\ Len(Head(other.records).views) = Len(Head(file.records).views)

\* main of the filters up to the loop over the views.
StartFilter ==
  /\ Starts /\ Prog \in Filters /\ HasViews(file)
  /\ ifmr' = Head(file.records) /\ ofmr' = [ifmr' EXCEPT !.views = <<>>]
  /\ fmr_length' = HeaderOf(ifmr')
  /\ output' = Empty /\ pc' = "views"
  /\ UNCHANGED <<plan, other, file, ansi_nist, log, mkfmrVars, overlapVars>>

\* A program cannot read its input; the output file is left empty.
CannotRead ==
  /\ Starts
  /\ \/ Prog \in Filters /\ ~ HasViews(file) /\ Ends("failure", Empty, "none")
     \/ Prog = "fmr2an2k" /\ ~ Reads(file)   /\ Ends("failure", Empty, "none")
     \/ Prog = "an2k2fmr" /\ file.kind # "an2k" /\ Ends("failure", Empty, "none")
     \/ Prog = "fmroverlap" /\ ~ Comparable /\ Ends("failure", NoFile, "none")
  /\ UNCHANGED overlapVars

\* An allocation fails while a program runs; that of fmroverlap's lists of views comes
\* before all comparisons (for those see CompareViews).
NoMemory ==
  /\ "memory" \in Faults
  /\ \/ pc \in {"views", "convert", "type9", "load", "verify"}
     \/ pc = "compare" /\ at = 1
  /\ Ends("failure", output, "memory")
  /\ UNCHANGED overlapVars

-----------------------------------------------------------------------------
(* fmrprune, fmrsort, fmrmod and fmrisocompact.                            *)

Viewing(prog) == pc = "views" /\ Prog = prog /\ Len(ofmr.views) < Len(ifmr.views)
View          == ifmr.views[Len(ofmr.views) + 1]

\* add_fvmr_to_fmr
AddView(view) ==
  /\ ofmr' = [ofmr EXCEPT !.views = Append(@, view)]
  /\ UNCHANGED <<plan, other, file, pc, ifmr, ansi_nist, output, log, mkfmrVars, overlapVars>>

\* The length of a view without extended data.
BareLength(view) == FVMR_HEADER_LENGTH + FEDB_HEADER_LENGTH + FMD_DATA_LENGTH * Len(view.minutiae)

\* Mutant: the extended data stay with a view whose minutiae are not the same.
KeepsExtended ==
  /\ Viewing("fmrprune")
  /\ \E minutiae \in Pruned(View.minutiae, Options) :
       LET view == [View EXCEPT !.minutiae = minutiae]
       IN AddView(view) /\ fmr_length' = fmr_length + BareLength(view)

copy_and_select_fvmr ==
  /\ Viewing("fmrprune")
  /\ \E minutiae \in Pruned(View.minutiae, Options) :
       LET view == [View EXCEPT !.minutiae = minutiae, !.extended = <<>>]
       IN AddView(view) /\ fmr_length' = fmr_length + BareLength(view)

sort_and_copy_fvmr ==
  /\ Viewing("fmrsort")
  /\ \E minutiae \in Resorted(View.minutiae, Options) :
       LET view == [View EXCEPT !.minutiae = minutiae, !.extended = <<>>]
       IN AddView(view) /\ fmr_length' = fmr_length + BareLength(view)

\* The record keeps its length; the extended data move along.
copy_and_modify_fvmr ==
  /\ Viewing("fmrmod")
  /\ AddView([View EXCEPT !.minutiae =
       [m \in DOMAIN @ |-> [@[m] EXCEPT !.quality = Options.q % (UCHAR_MAX + 1)]]])
  /\ UNCHANGED fmr_length

\* The angle, in steps of 2 degrees, as one of 64, and back.
IsoTheta(angle) == (32 * angle + 45) \div 90
IsoAngle(angle) == ((45 * IsoTheta(angle) + 8) \div 16) % (UCHAR_MAX + 1)
IsoMinutia(m)   == [m EXCEPT !.angle = IsoAngle(@)]

modify_fvmr_theta ==
  /\ Viewing("fmrisocompact")
  /\ AddView([View EXCEPT !.minutiae = [m \in DOMAIN @ |-> IsoMinutia(@[m])]])
  /\ UNCHANGED fmr_length

\* The rest of main.
WriteFiltered ==
  /\ pc = "views" /\ Len(ofmr.views) = Len(ifmr.views)
  /\ Writes(IF Prog \in {"fmrprune", "fmrsort"} THEN [ofmr EXCEPT !.record_length = fmr_length]
                                                ELSE ofmr)
  /\ UNCHANGED overlapVars

Filter ==
  \/ StartFilter \/ WriteFiltered
  \/ copy_and_select_fvmr \/ sort_and_copy_fvmr \/ copy_and_modify_fvmr \/ modify_fvmr_theta

-----------------------------------------------------------------------------
(* mkfmr.                                                                  *)

StartMkfmr ==
  /\ Starts /\ Prog = "mkfmr"
  /\ texts' = file.texts /\ with' = Options.with
  /\ total_length' = 0 /\ stage' = "hdr" /\ at' = 1
  /\ output' = Empty /\ pc' = "load"
  /\ UNCHANGED <<plan, other, file, ifmr, ofmr, fmr_length, ansi_nist, log, made, overlapVars>>

LoadNext == pc = "load" /\ Load /\ UNCHANGED <<toolVars, overlapVars>>

LoadFails == pc = "load" /\ TextEnds /\ Ends("failure", output, "none") /\ UNCHANGED overlapVars

\* What validate_fmr says of the record is only printed.
WriteMade ==
  /\ pc = "load" /\ stage = "write"
  /\ Writes([made EXCEPT !.record_length = total_length])
  /\ UNCHANGED overlapVars

Make == StartMkfmr \/ LoadNext \/ LoadFails \/ WriteMade

-----------------------------------------------------------------------------
(* fmr2an2k and an2k2fmr.  -v asks for the verdict of validate_fmr.        *)

StartFmr2an2k ==
  /\ Starts /\ Prog = "fmr2an2k" /\ Reads(file)
  /\ Options.v => Conforms(Head(file.records))
  /\ ifmr' = Head(file.records)
  /\ ansi_nist' = IF Options.t THEN Add(NewAnsi, Type2) ELSE NewAnsi
  /\ output' = Empty /\ at' = 1 /\ pc' = "convert"
  /\ UNCHANGED <<plan, other, file, ofmr, fmr_length, log,
                 texts, with, made, total_length, stage, overlapVars>>

NotValid ==
  /\ Starts /\ Prog = "fmr2an2k" /\ Reads(file)
  /\ Options.v /\ ~ Conforms(Head(file.records))
  /\ Ends("failure", Empty, "none")
  /\ UNCHANGED overlapVars

\* The turn of main's loop for a view: with -f, its image goes along.
ConvertView ==
  /\ pc = "convert" /\ at <= Len(ifmr.views)
  /\ Options.f => at <= Options.images
  /\ \E record9 \in Type9(ifmr, ifmr.views[at], at - 1) :
       IF Options.f
         THEN \E image \in Type13(ifmr, at - 1) :
                ansi_nist' = Add(Add(ansi_nist, record9), image)
         ELSE ansi_nist' = Add(ansi_nist, record9)
  /\ at' = at + 1
  /\ UNCHANGED <<plan, other, file, pc, ifmr, ofmr, fmr_length, output, log,
                 texts, with, made, total_length, stage, overlapVars>>

\* The list of images is shorter than that of the views.
NoImage ==
  /\ pc = "convert" /\ at <= Len(ifmr.views) /\ Options.f /\ at > Options.images
  /\ Ends("failure", Empty, "none")
  /\ UNCHANGED overlapVars

\* write_ANSI_NIST, whose result is used.  When it fails, what was freed before (fmr2an2k.c:892,
\* 903) is freed once more (:917-922), which may abort: another failure, with no other file.
WriteAn2k ==
  /\ pc = "convert" /\ at > Len(ifmr.views)
  /\ \/ Ends("success", An2k(ansi_nist), "none")
     \/ "disk" \in Faults /\ Ends("failure", Empty, "disk")
  /\ UNCHANGED overlapVars

StartAn2k2fmr ==
  /\ Starts /\ Prog = "an2k2fmr" /\ file.kind = "an2k"
  /\ output' = Empty /\ at' = 1 /\ pc' = "type9"
  /\ UNCHANGED <<plan, other, file, ifmr, ofmr, fmr_length, ansi_nist, log,
                 texts, with, made, total_length, stage, overlapVars>>

\* fgp_view: the Type-9 records of a finger are numbered.
ViewNumber(n) ==
  Cardinality({k \in 1 .. n - 1 : /\ file.records[k].type = 9
                                  /\ file.records[k].finger = file.records[n].finger})

\* A record of the ANSI/NIST file: a Type-9 record is converted, and the result
\* written and then, with -v, validated.
ConvertType9 ==
  /\ pc = "type9" /\ at <= Len(file.records)
  /\ IF file.records[at].type # 9
       THEN at' = at + 1 /\ UNCHANGED <<toolVars, texts, with, made, total_length, stage>>
       ELSE \E fmr \in FmrsOf(file, file.records[at], ViewNumber(at)) :
              LET written == Fmr(Append(output.records, Stored(fmr)))
              IN \/ /\ ~ Options.v \/ Conforms(fmr)
                    /\ output' = written /\ at' = at + 1
                    /\ UNCHANGED <<plan, other, file, pc, ifmr, ofmr, fmr_length, ansi_nist,
                                   log, texts, with, made, total_length, stage>>
                 \/ Options.v /\ ~ Conforms(fmr) /\ Ends("failure", written, "none")
                 \/ /\ "disk" \in Faults
                    /\ \E cut \in CutRecord(Stored(fmr)) :
                         Ends("failure", Fmr(output.records \o cut), "disk")
  /\ UNCHANGED overlapVars

An2k2fmrEnds ==
  /\ pc = "type9" /\ at > Len(file.records)
  /\ Ends("success", output, "none")
  /\ UNCHANGED overlapVars

Exchange ==
  \/ StartFmr2an2k \/ NotValid \/ ConvertView \/ NoImage \/ WriteAn2k
  \/ StartAn2k2fmr \/ ConvertType9 \/ An2k2fmrEnds

-----------------------------------------------------------------------------
(* fmroverlap: the views of the other file and of this one, one by one.    *)

StartOverlap ==
  /\ Starts /\ Prog = "fmroverlap" /\ Comparable
  /\ at' = 1 /\ pc' = "compare"
  /\ UNCHANGED <<plan, other, file, ifmr, ofmr, fmr_length, ansi_nist, output, log,
                 texts, with, made, total_length, stage, overlapVars>>

Fvmr(f)     == Head(f.records).views[at]
PlacesOf(view) == [m \in DOMAIN view.minutiae |->
                     [x |-> view.minutiae[m].x, y |-> view.minutiae[m].y]]

\* compare_fvmrs up to the loops; without memory nothing is compared.
CompareViews ==
  /\ pc = "compare" /\ at <= Len(Head(file.records).views)
  /\ IF /\ Fvmr(other).finger_number = Fvmr(file).finger_number
        /\ Fvmr(other).minutiae # <<>> /\ Fvmr(file).minutiae # <<>>
       THEN \/ /\ first' = PlacesOf(Fvmr(other)) /\ second' = PlacesOf(Fvmr(file))
               /\ r_opt' = Options.r /\ r' = 0 /\ i' = 1 /\ pairs' = {}
               /\ pc' = "pairing" /\ UNCHANGED at
            \/ "memory" \in Faults /\ at' = at + 1 /\ UNCHANGED <<pc, overlapVars>>
       ELSE at' = at + 1 /\ UNCHANGED <<pc, overlapVars>>
  /\ UNCHANGED <<plan, other, file, ifmr, ofmr, fmr_length, ansi_nist, output, log,
                 texts, with, made, total_length, stage>>

PairMinutiae == pc = "pairing" /\ OverlapNext /\ UNCHANGED <<toolVars, mkfmrVars>>

ComparedViews ==
  /\ pc = "pairing" /\ ~ Comparing
  /\ pc' = "compare" /\ at' = at + 1
  /\ UNCHANGED <<plan, other, file, ifmr, ofmr, fmr_length, ansi_nist, output, log,
                 texts, with, made, total_length, stage, overlapVars>>

OverlapEnds ==
  /\ pc = "compare" /\ at > Len(Head(file.records).views)
  /\ Ends("success", NoFile, "none")
  /\ first' = <<>> /\ second' = <<>> /\ r_opt' = 0 /\ r' = 0 /\ i' = 1 /\ pairs' = {}

Overlap == StartOverlap \/ CompareViews \/ PairMinutiae \/ ComparedViews \/ OverlapEnds

-----------------------------------------------------------------------------
(* fmrv.                                                                   *)

StartFmrv ==
  /\ Starts /\ Prog = "fmrv"
  /\ total_length' = 0 /\ at' = 1 /\ pc' = "verify"
  /\ UNCHANGED <<plan, other, file, ifmr, ofmr, fmr_length, ansi_nist, output, log,
                 texts, with, made, stage, overlapVars>>

\* The loop goes on while the lengths the records declare, added up in an unsigned int, are
\* less than the file's.
Verifying == pc = "verify" /\ file.kind = "fmr" /\ total_length < FileBytes(file.records)

VerifyRecord ==
  /\ Verifying
  /\ at \in DOMAIN file.records /\ Whole(file.records[at]) /\ Conforms(file.records[at])
  /\ total_length' = (total_length + file.records[at].record_length) % UintModulus
  /\ at' = at + 1
  /\ UNCHANGED <<toolVars, texts, with, made, stage, overlapVars>>

Refuse ==
  /\ \/ /\ Verifying
        /\ at \in DOMAIN file.records =>
             ~ Whole(file.records[at]) \/ ~ Conforms(file.records[at])
     \/ pc = "verify" /\ file.kind # "fmr"
  /\ Ends("failure", NoFile, "none")
  /\ UNCHANGED overlapVars

\* Mutant: ret is READ_OK before anything is read.
VerifyEndsWell ==
  /\ pc = "verify" /\ file.kind = "fmr" /\ ~ Verifying
  /\ Ends("success", NoFile, "none")
  /\ UNCHANGED overlapVars

\* ret is READ_ERROR if nothing was read.
VerifyEnds ==
  /\ pc = "verify" /\ file.kind = "fmr" /\ ~ Verifying
  /\ Ends(IF at = 1 THEN "failure" ELSE "success", NoFile, "none")
  /\ UNCHANGED overlapVars

Verify == StartFmrv \/ VerifyRecord \/ Refuse \/ VerifyEnds

-----------------------------------------------------------------------------

\* All programs have been run.
Finished == pc = "ready" /\ plan = <<>> /\ UNCHANGED vars

Next ==
  \/ OptionError \/ CannotRead \/ NoMemory
  \/ Filter \/ Make \/ Exchange \/ Overlap \/ Verify
  \/ Finished

Spec == Init /\ [][Next]_vars

-----------------------------------------------------------------------------
(* Properties.  Most are about each program that has ended, its entry in   *)
(* the log.                                                                *)

Programs == Filters \cup {"mkfmr", "fmr2an2k", "an2k2fmr", "fmroverlap", "fmrv"}

\* A program is where it can be, and only it has a file open.
TypeOK ==
  /\ pc \in {"ready", "views", "load", "convert", "type9", "compare", "pairing", "verify"}
  /\ pc = "ready" => output = NoFile /\ stage = "none"
  /\ pc # "ready" => plan # <<>> /\ (output = NoFile <=> Prog \in {"fmroverlap", "fmrv"})
  /\ Len(ofmr.views) <= Len(ifmr.views)
  /\ total_length \in Nat /\ fmr_length \in Nat /\ at \in Nat
  /\ \A k \in DOMAIN log : log[k].prog \in Programs /\ log[k].status \in {"success", "failure"}

Ended       == Range(log)
WellMade(e) == e.status = "success" /\ e.fault = "none" /\ e.to.kind = "fmr"
Filtered(e) == WellMade(e) /\ e.prog \in Filters
Source(e)   == Head(e.from.records)
Result(e)   == Head(e.to.records)

\* By how much a record declares more bytes than it has.
Drift(record) == record.record_length - RecordBytes(record)

\* The FEDs that an2k2fmr makes of cores only or of deltas only.
OneSided(view) ==
  {k \in DOMAIN FedsOf(view) :
     LET fed == FedsOf(view)[k]
     IN fed.type = FED_CORE_AND_DELTA /\ (fed.cores = <<>> \/ fed.deltas = <<>>)}

\* The bytes of the angles that mkfmr reads with cores and deltas of a reserved type, and
\* that are not written.
UnwrittenOf(fed) ==
  IF fed.type = FED_RIDGE_COUNT THEN 0
    ELSE (IF fed.core_type \in {NONANGULAR, ANGULAR} THEN 0 ELSE Len(fed.cores)) +
         (IF fed.delta_type \in {NONANGULAR, ANGULAR} THEN 0 ELSE 3 * Len(fed.deltas))
UnwrittenAngles(view) == SumOf(UnwrittenOf, FedsOf(view))

\* The length of the extended data has 16 bits; so, with two bytes to spare, have those
\* of its parts.
DataFit(record) ==
  \A v \in DOMAIN record.views :
    BlockBytes(record.views[v]) + UnwrittenAngles(record.views[v]) < USHRT_MAX - 1

(***************************************************************************)
(* The record length is that of the record, but for what is known:         *)
(* fmrprune and fmrsort count the header that was read, and a short one is *)
(* written (fmrprune.c:376-379); fmrmod and fmrisocompact pass on what     *)
(* they read; mkfmr and an2k2fmr count the short header, also where the    *)
(* length makes it a long one; mkfmr counts angles for all types of cores  *)
(* and deltas but the nonangular one (mkfmr.c:240-241, 271-272), and they  *)
(* are written for the angular one only (fedb.c:1190, 1228); an2k2fmr      *)
(* leaves out the block length of a view without extended data             *)
(* (an2k2fmr.c:700-705) and the count of the cores or deltas that are not  *)
(* there.  (Of extended data whose length has 16 bits.)                    *)
(***************************************************************************)
TrueLength(e) ==
  \A record \in Range(e.to.records) :
    DataFit(record) =>
      Drift(record) =
        CASE e.prog = "mkfmr" ->
               SMALL_HEADER - HeaderOf(record) + SumOf(UnwrittenAngles, record.views)
          [] e.prog \in {"fmrprune", "fmrsort"} -> HeaderOf(Source(e)) - HeaderOf(record)
          [] e.prog \in {"fmrmod", "fmrisocompact"} ->
               Drift(Source(e)) + HeaderOf(Source(e)) - HeaderOf(record)
          [] e.prog = "an2k2fmr" ->
               SMALL_HEADER - HeaderOf(record) -
               IF record.views[1].extended = <<>>
                 THEN FEDB_HEADER_LENGTH ELSE Cardinality(OneSided(record.views[1]))

LengthIsTrue == TypeOK /\ \A e \in Ended : WellMade(e) => TrueLength(e)

\* What the programs may be asked for that makes an illegal record of a legal one.
AsksForTrouble(e) ==
  \/ e.prog = "fmrmod" /\ e.o.q % 256 > 100
  \/ e.prog = "fmrisocompact" /\ \E v \in DOMAIN Source(e).views :
       \E m \in DOMAIN Source(e).views[v].minutiae : Source(e).views[v].minutiae[m].angle = 179

(***************************************************************************)
(* A conforming record is left conforming by fmrprune, fmrsort, fmrmod and *)
(* fmrisocompact: indexes of ridge counts do not point past the minutiae   *)
(* that are left.  The exceptions are a quality above 100, and an angle of *)
(* 179, of which fmrisocompact makes 180 (fmrisocompact.c:150-155).        *)
(***************************************************************************)
ConformanceIsKept ==
  \A e \in Ended :
    Filtered(e) /\ Conforms(Source(e)) /\ ~ AsksForTrouble(e) => Conforms(Result(e))

Times(m, minutiae) == Cardinality({k \in DOMAIN minutiae : minutiae[k] = m})
Place2(m) == <<m.type, m.x, m.y>>

\* fmrprune left m out.
LeftOut(old, new) == {m \in Range(old) : Times(m, new) < Times(m, old)}

PrunedWell(old, new, o) ==
  /\ \A m \in Range(new) : Times(m, new) <= Times(m, old)
  /\ o.method \in {"polar", "random"} => Len(new) = IF o.n < Len(old) THEN o.n ELSE Len(old)
  /\ o.method = "elliptical" => Len(new) <= o.n
  /\ o.method = "polar" => \A m \in Range(new), l \in LeftOut(old, new) :
       LET c == CenterOfMass(old) IN Distance2(m, c) <= Distance2(l, c)
  /\ o.method = "rectangular" => \A m \in Range(old) :
       Times(m, new) = IF m.x - o.x \in 0 .. o.a /\ m.y - o.y \in 0 .. o.b
                         THEN Times(m, old) ELSE 0

\* What a program makes of the minutiae of a view.
KeptWell(e, old, new) ==
  /\ e.prog = "fmrprune" => PrunedWell(old, new, e.o)
  /\ e.prog = "fmrsort" => Len(new) = Len(old) /\ \A m \in Range(old) : Times(m, new) = Times(m, old)
  /\ e.prog \in {"fmrmod", "fmrisocompact"} =>
       [k \in DOMAIN new |-> Place2(new[k])] = [k \in DOMAIN old |-> Place2(old[k])]

\* The second run of a program in a row, with the same options.
Again(k) == /\ k > 1 /\ log[k - 1].to = log[k].from
            /\ log[k - 1].prog = log[k].prog /\ log[k - 1].o = log[k].o

\* Whether one of these makes nothing new of them, but for the order.
Settled(e, old, new) ==
  /\ e.prog \in {"fmrmod", "fmrisocompact"} => new = old
  /\ e.prog = "fmrprune" /\ e.o.method \in {"polar", "rectangular"} => LeftOut(old, new) = {}

(***************************************************************************)
(* fmrsort keeps all minutiae of each view, fmrmod and fmrisocompact their *)
(* places and order, too; fmrprune keeps as many as asked for, by distance *)
(* none that is farther from the center than one left out.  To run         *)
(* fmrisocompact, fmrmod or fmrprune by distance or by a rectangle once    *)
(* more changes nothing but the order fmrprune leaves.                     *)
(***************************************************************************)
MinutiaeAreKept ==
  \A k \in DOMAIN log : Filtered(log[k]) =>
    /\ Len(Result(log[k]).views) = Len(Source(log[k]).views)
    /\ \A v \in DOMAIN Source(log[k]).views :
         LET old == Source(log[k]).views[v].minutiae
             new == Result(log[k]).views[v].minutiae
         IN KeptWell(log[k], old, new) /\ (Again(k) => Settled(log[k], old, new))

(***************************************************************************)
(* fmrv accepts a file if and only if it has records and all of them are   *)
(* whole and conform, although it goes by the lengths that they declare    *)
(* (fmrv.c:71-75): as long as these leave no record out, and their sum     *)
(* fits an unsigned int.  So it accepts nothing that a program left empty  *)
(* or cut off.                                                             *)
(***************************************************************************)
AcceptedIsWhole ==
  \A e \in Ended : e.prog = "fmrv" /\ e.fault = "none" =>
    LET records == e.from.records
        fit == \A k \in DOMAIN records : Drift(records[k]) <= 0
        sum == SumOf(LAMBDA record : record.record_length, records)
        fine == /\ e.from.kind = "fmr" /\ records # <<>>
                /\ \A k \in DOMAIN records : Whole(records[k]) /\ Conforms(records[k])
    IN /\ (e.status = "success" /\ fit) => fine
       /\ (fine /\ sum >= FileBytes(records) /\ sum < UintModulus) => e.status = "success"

\* fmr2an2k and then an2k2fmr, with images whose scale is in centimeters.
Exchanged(k) ==
  /\ k > 1 /\ WellMade(log[k]) /\ log[k].prog = "an2k2fmr"
  /\ log[k - 1].prog = "fmr2an2k" /\ log[k - 1].o.f /\ log[k - 1].status = "success"
  /\ \A n \in DOMAIN log[k].from.records :
       log[k].from.records[n].type = 13 => log[k].from.records[n].units = "cm"

Pairs(counts) == {<<{c.one, c.two}, c.count>> : c \in Range(counts)}

\* The resolution is less than a pixel in 10 micrometers, and nothing is as far as
\* 10 centimeters from the origin.
InReach(record) ==
  /\ record.x_resolution \in 1 .. 999 /\ record.y_resolution = record.x_resolution
  /\ 1000 * record.x_image_size < 9999 * record.x_resolution
  /\ 1000 * record.y_image_size < 9999 * record.y_resolution

\* Two views that differ by the ways of their coordinates at most.
Returned(old, new) ==
  /\ new.finger_number = old.finger_number
  /\ new.impression_type = old.impression_type
  /\ Len(new.minutiae) = Len(old.minutiae)
  /\ \A m \in DOMAIN old.minutiae :
       /\ new.minutiae[m].type  = old.minutiae[m].type
       /\ new.minutiae[m].angle = old.minutiae[m].angle
       /\ new.minutiae[m].x = old.minutiae[m].x
       /\ old.minutiae[m].y - new.minutiae[m].y \in {0, 1}
  /\ Pairs(RidgeCounts(new)) = Pairs(RidgeCounts(old))

(***************************************************************************)
(* Through ANSI/NIST and back each view becomes a record of its own, with  *)
(* its finger, impression and ridge counts, and its minutiae have their    *)
(* type, angle and x, though x and y are turned into other units, y is     *)
(* counted from the other side, and both are truncated                     *)
(* (fmr2an2k.c:88-111, an2k2fmr.c:88-106).  Where a float is next to an    *)
(* integer y may be one less.                                              *)
(***************************************************************************)
An2kRoundTrip ==
  \A k \in DOMAIN log : Exchanged(k) =>
    LET source == Source(log[k - 1])
    IN Conforms(source) /\ InReach(source) =>
         /\ Len(log[k].to.records) = Len(source.views)
         /\ \A v \in DOMAIN source.views : Returned(source.views[v], log[k].to.records[v].views[1])

\* The number at position p of a text; a number that is missing counts as 0.
NumberAt(text, p) == IF p \in DOMAIN text THEN text[p] ELSE 0

\* How many minutiae there are in front of view v.
MinutiaeBefore(record, v) == SumOf(LAMBDA view : Len(view.minutiae), SubSeq(record.views, 1, v - 1))

(***************************************************************************)
(* A record that mkfmr makes has as many views as the header announces, as *)
(* long as these are not more than 9: the number is said to be decimal     *)
(* (mkfmr.c:51, mkfmr.1:55-56) and read as hexadecimal (mkfmr.c:58), so    *)
(* that 10 views are taken for 16 and what is made is not what was told.   *)
(* However many there are, each has as many minutiae as its line says, and *)
(* one after the other these are the lines of the text, none left out and  *)
(* none used twice: the loaders of five files stay in step                 *)
(* (mkfmr.c:383-427), and all lines have been there, if not always with    *)
(* all their numbers.  (An impression of more than four bits gets into the *)
(* view number: fvmr.c:234-235.)  The block length is that of the data,    *)
(* and of the angles that are not written.                                 *)
(***************************************************************************)
ToldView(view, v, before, texts_of) ==
  LET number(p) == NumberAt(texts_of["fvmr"], 5 * (v - 1) + p)
  IN /\ 5 * (v - 1) < Len(texts_of["fvmr"])
     /\ view.finger_number = uchar(number(1)) /\ view.finger_quality = uchar(number(4))
     /\ view.impression_type = number(3) % 16
     /\ uchar(number(3)) <= 15 => view.view_number = number(2) % 16
     /\ Len(view.minutiae) = uchar(number(5))
     /\ \A m \in DOMAIN view.minutiae :
          LET line(p) == NumberAt(texts_of["xyt"], FMD_LINE * (before + m - 1) + p)
          IN /\ FMD_LINE * (before + m - 1) < Len(texts_of["xyt"])
             /\ view.minutiae[m] = [type |-> line(2) % 4, x |-> line(3) % 16384,
                                    y |-> line(4) % 16384, angle |-> uchar(line(5)),
                                    quality |-> uchar(line(6))]

MadeAsTold ==
  \A e \in Ended : WellMade(e) /\ e.prog = "mkfmr" =>
    /\ Whole(Result(e))
    /\ LET told == NumberAt(e.from.texts["hdr"], 6)
       IN told <= 9 => Len(Result(e).views) = told
    /\ \A v \in DOMAIN Result(e).views :
         LET view == Result(e).views[v]
         IN /\ ToldView(view, v, MinutiaeBefore(Result(e), v), e.from.texts)
            /\ DataFit(Result(e)) /\ view.extended # <<>> =>
                 view.extended[1].block_length = BlockBytes(view) + UnwrittenAngles(view)

=============================================================================
