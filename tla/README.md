# A TLA+ model of BiomDI

BiomDI reads, writes, validates and converts biometric data records: finger
minutiae (FMR), finger images (FIR), face images (FRF) and iris images (IIR), in
ANSI/INCITS and ISO/IEC formats. It is C, single threaded, a set of libraries
with command line programs around them. This directory models the part that
carries the most logic, the finger minutiae library `libfmr` with the programs that
use it, and the readers and writers of the three kinds of image record with the
programs that validate, copy and make them.

What makes this code hard is not concurrency but the wire. A record is nested
(record, views, minutiae, extended data block, extended data records), every
level has its own length or count, the levels need not agree, and the source may
end, a disk may fail, and an allocation may fail between any two fields. A reader
must say what it got, own each piece it allocated once, and leave the cursor
where the next record starts. A writer must not claim to have written what it
has not. A program that makes one record of another must keep lengths, counts and
indexes true that are added up by hand, and its output is the next one's input.

## 1. Inventory

Paths are below `src/`; `libfmr` is `fingerminutia/src/libfmr`.

| Component | State | Operations | Hard behaviours | What makes it correct |
|---|---|---|---|---|
| Common macros (`common/src/include`) | BDB: start, current, end; or a `FILE` | OGET/CGET/SGET/LGET, OPUT/CPUT/SPUT/LPUT, all jumping to `eof_out`/`err_out` | the end of the buffer, short reads, truncation to the field | cursor never beyond the end; a value that fits is read back |
| Extended data block (`libfmr/fedb.c`) | FEDB: length, partial flag, list of FEDs; each with its ridge counts, cores and deltas, or bytes | read, write, add, free | partial blocks, lengths that do not match the contents, failure with FEDs on the list | every FED owned once; nothing lost at EOF; block length accounted for |
| Records and views (`libfmr/fmr.c`, `fvmr.c`, `fmd.c`) | FMR header and list of views; view header, list of minutiae, block | read, scan, write, push, add, get | views cut by EOF, counts versus lists, cards read to EOF | the caller gets whole views, at most one partial one, and knows which |
| Validation (`libfmr/validate.c`) | `next_min_view` in the record | validate_fmr and below | memory that outlives the call | the verdict is conformance |
| Conversion (`libfmr/ansi2iso.c`, `iso2ansi.c`, `fmr2fmr`) | two records | FMD and FVMR conversion between angle units and coordinate scales | rounding, clamping, lengths recomputed | results fit the target format; lengths true |
| Selection (`fmrprune`, `fmrsort`, `fmrmod`, `fmrisocompact`) | the record read, the one made | prune, sort, overwrite the quality, round the angles | ridge counts that index pruned lists; orders with ties | the rest is untouched; a conforming record stays one |
| Comparison (`fmroverlap`) | two views, two arrays of flags | pair minutiae over growing rings | greedy choice, flags consulted twice | one to one; nothing close left over |
| Making (`mkfmr`) | a record, five texts | one loader per text | the texts carry no marks, the loaders must stay in step | every line is in its view; length true |
| Exchange (`fmr2an2k`, `an2k2fmr`) | a record and an ANSI/NIST file | one Type-9 record per view, one record per Type-9 record | float arithmetic, digits strung together, lengths by hand | there and back gives the same minutiae |
| Record loops (`fmrv`, `firv`, `frfv`, `iibdbv`) | bytes consumed | read, validate, free, until the declared lengths reach the file size | declared length versus bytes read | every record of the file is looked at once |
| Face records (`facerecognition/src/libfrf`) | facial data blocks, features, image | read, write, validate, add image | unsigned arithmetic on lengths | block length true |
| Finger image records (`fingerimage/src/libfir`) | header, list of views with images | read, write, validate | counts versus lists | like FMR |
| Iris records 2005 (`irisimage/src/libiid`) | header, two feature headers, images | read, write, clone | array of two, partial reads, shallow clone | each image owned once |
| Iris records 2011 (`irisimage2011/src/libiid`) | header, list of representations | read, write, clone, validate | order of fields on the wire | round trip |
| Image makers and copier (`mkfir`, `mkfrf`, `cpfrf`) | a record, texts and image files | load, write; copy record by record | files that are missing, results that are ignored | length true; the copy is the original |

Components interact by calls and by files. The program calls the record reader,
which calls the view reader, which calls the minutia and block readers; all of them
share the `FILE` or BDB and move its cursor. Back pointers (FED to block to view
to record) are used by the validators only. Programs meet in the files they leave
each other.

`PROJECT.json` lists the hazards of the code, each at its line.

## 2. Modules

| Module | Models | Kind |
|---|---|---|
| `Bdb` | return codes, the size test of the macros | shared definitions |
| `FmrDefs` | formats and the lengths of fixed parts (`fmr.h`) | shared definitions |
| `FedbReader` | reading one extended data block | component |
| `FedbReader_proofs` | its theorems | proofs |
| `RecordRead` | what reading a record promises, without saying how | abstract specification |
| `FmrReader` | reading a record; composes `FedbReader` | component |
| `FmrReader_proofs` | its theorems, and that it implements `RecordRead` | proofs |
| `FmrWriter` | writing a record | component |
| `FmrCodec` | bytes and bits of each part, both ways | component |
| `FmrConform` | what it is for a record to conform (`validate.c`) | operators |
| `FmrValidate` | validating a record, repeatedly; uses `FmrConform` | component |
| `FmrRecord_proofs` | theorems about writing a record and about validating one | proofs |
| `FmrConvert` | `fmr2fmr`: converting records between the formats, run after run | component |
| `FmrFile` | what the minutiae programs exchange: records, their bytes, their conformance (`FmrConform`), what is stored of them | shared definitions |
| `FmrSelect` | the orders of `fmrsort`, the choices of `fmrprune` | operators |
| `FmrAn2k` | what `fmr2an2k` and `an2k2fmr` make of a view and a Type-9 record | operators |
| `MkFmr` | the five loaders of `mkfmr` | component |
| `FmrOverlap` | the pairing of `fmroverlap` | component |
| `FmrPrograms_proofs` | theorems about `fmr2fmr` and `fmroverlap`, run after run | proofs |
| `FmrTools` | the programs run one after the other; composes `FmrFile` to `FmrOverlap` | composition |
| `FmrTools_proofs` | theorems about sessions: what every program makes of what it reads | proofs |
| `FmrFilters_proofs` | theorems about the four programs that make a record of a record | proofs |
| `ImageReader` | reading a finger image, face or iris record (five formats) | component |
| `ImageClient` | what the clients of the readers share: who they are, how they end | shared definitions |
| `ImageFile` | validating files of them, cloning and freeing them; composes `ImageReader` | composition |
| `ImageWriter` | writing what was read, edited, cloned or made of texts; composes `ImageReader` | composition |
| `ImagePrograms_proofs` | what every client of the readers may rely on; that they implement `RecordRead`; the theorems about `ImageFile` and `ImageWriter` | proofs |
| `Sums` | sums and lists strung together, as the folds of the community modules compute them | proofs |
| `MC*` | values for the constants, one module per run's component | model checking |

### FedbReader

One action per read of the C code, each reading any value the wire may hold
there. `pc` is the place in the nest of functions; `fed`, `block_length` and
`todo` (the loop counter of the body) are the C locals, `heap` is every FED that
`new_fed` returned, in order, with a flag `live` that `free_fed` clears. Of a
body only the number of elements, the bytes consumed and the current core or
delta type are kept. A FED of unknown type and length 4 is a case of its own: a
file read of no bytes fails where a buffer read succeeds (`fedb.c:416`).

### FmrReader

Adds the record header, the loop over views, the view header and minutiae, and
hands the wire to `FedbReader` (an `INSTANCE` on the same cursor) for the block.
`ViewReturns` is the code after `read_fvmr`: list the view, list it only if it is
partial, or give up. Only the number of minutiae of a view and its FEDs are kept.
`RecordRead` sees the declared number of views, the views taken (whole or
partial), and the verdict; `FmrReader` maps its state to that.

### FmrWriter

A function that writes is one action that emits its fields up to the first that
fails. `out` is the sequence of fields that came out, each with the part of the
record it belongs to, so that holes can be seen. A file fails anywhere, a buffer
where a field does not fit.

### FmrCodec

The data side of the same functions: shifts, masks, byte order, optional fields.
A program fills in an object (or reads it from a wire that somebody else wrote),
writes it, and reads it back. Strings of the header and ridge counts, which are
copied as they are, are left out.

### FmrValidate

`validate_fmr` is two kinds of step, the header and one view each, so that the
early end at the first bad view and the memory that survives it are visible; a
client may add views between two calls. Range checks of single fields (quality,
impression type, angle, extraction method) are one Boolean of their element;
coordinates, ridge count indexes, block lengths and view numbers are followed.
`next_min_view` is never cleared, so the second verdict on a record that conforms is
that it does not (`validate.c:171`).

### FmrConvert

A state is a file and a run of `fmr2fmr` on it: `Start` reads it, `ConvertView` and
`CopyView` are one turn of the two loops, `GiveUp` is every way out of them with -1,
and `Write` writes whatever there is and exits with success, as `main` does; the
results that it ignores are recorded in `ignored`. The next run takes the new file.
A file is the record that a reader takes from it, so `Stored` composes the writer
and the reader (masks, and cards that keep nothing but minutiae). A double is the
fraction it stands for: `round` of it is exact in all places the code uses it, while
at a half the last bit of `0.5 + x` decides, which `Nearest` leaves open. A
conversion to an integer type that cannot hold the value wraps or saturates.
`-ti` is the true format of the file; of the two coordinates one is kept.

### FmrTools and its parts

`FmrTools` runs a session: `plan` is the programs to run with their options, `file`
what the last one left, `log` what each of them did. `Start...` is `main` up to the
loop over the views, one action is one turn of the loop, `Ends` closes the output.
All of these programs open the output file before they read the input, so that one
that fails leaves a file that is empty (`CannotRead`) or cut (`CutRecord`); the
filters and `mkfmr` do not look at the result of writing and exit with success
(`Writes`). Any allocation may fail (`NoMemory`).

* `FmrFile` has a record as the programs see it, `RecordBytes`, and `Conforms`, which
  is the verdict of `validate_fmr` on a record that is validated for the first time
  (the memory between two verdicts is `FmrValidate`'s subject; the conditions are
  those of `FmrConform` for both). More than 64 KiB of extended data, which makes the
  header long, is a flag `long`. A record in memory (`Fmrs`) may hold more in a field
  than a file has bits for (`FileFmrs`), and `Stored` says what becomes of it: the type
  of a minutia has two bits, a coordinate 14, and view number and impression share a
  byte into which `internal_write_fvmr` puts both without a mask (`fvmr.c:234`), so that
  an impression above 15 gets into the view number (`Either`).
* `FmrSelect`: what `qsort` leaves of equal elements is open, so an order is a set of
  arrangements. The comparison by index of `fmrprune` takes pointers for minutiae, so
  that the order it leaves is any (`ByIndex`).
* `MkFmr`: a text is its sequence of numbers. `fscanf` that finds only a part of what
  it asks for is not an error; the number of views is read with `%hhx`, so 10 means
  16 (see Edges); for cores and deltas without angles x and y are read the other way
  round than the comments of the file say (`mkfmr.c:229,261` and `:191,193`). The
  CBEFF-ID is read into a variable that was not set (`mkfmr.c:55`): a header that is
  not empty has it. So is the number of ridge counts (`:143`), where a text that ends
  before it has no counts whatever the number is.
* `FmrAn2k`: both programs calculate in `float`; what is next to an integer may be
  truncated to either side, so `Truncated` is a set. The library that keeps and writes
  ANSI/NIST files is not in the repository and external: only its records, their
  order, and the digits of their items are there.
* `FmrOverlap`: one action is one minutia of the first view in one ring. Views of
  different fingers are skipped, and the statistics printed are left out.
* `fmrv` is `StartFmrv` to `VerifyEnds`: the loop over declared lengths, added up in 32
  bits (`UintModulus`, 70001 in the runs, so that the sum starts over). The verdict
  of `an2k2fmr -v` comes after the record was written (`an2k2fmr.c:706,709`).

### ImageReader

`libfir`, `libfrf` and the two `libiid` have one pattern: a header with a count, that
many parts, each allocated, read, and listed if it could be read. The module is that
pattern, with the places where they differ: feature points and an image information
block behind them (faces), a second list of images with two boundary codes each
(irises of 2005), quality blocks (irises of 2011). One action is a read of fixed
pieces up to the next allocation or decision, since nothing is observable between.
`heap` is every block of memory, with the blocks that point to it and the bytes of the
wire it holds; `Reached` is what a caller can get at (and free) from the record.
A face block shorter than its contents announces nearly 2^32 bytes (`DataLength`).

### ImageFile

Two clients of the reader. A `program` is the loop of `firv`, `frfv` and both
`iibdbv`: read, add the declared length, validate, free, allocate the next record,
until the declared lengths reach the size of the file. They differ in what ends them
(`firv` and `frfv` stop at the first record that does not conform, the iris programs
remember it) and in the width of the sum. A `caller` of the library reads one record
and then may clone it (`libiid`), free the clone and free the record, in any order.
Of the validation only checks of lengths and counts are followed (`MayConform`); the
others may reject any record.

### ImageWriter

Three more clients: a `caller` who has read a record, all or a part of it, may replace
the image of a face or clone the irises without their images, and writes it; `cpfrf`,
which copies a file of faces; a `maker`, `mkfir` or `mkfrf`. The record is the memory
that `ImageReader` left, and what the writers put out is a sequence of pieces, each
belonging to a block of that memory: `Layout` walks the lists as the writers do (`Each`),
`WritePiece` puts out the next one if it has room. So the copy can be compared with
`taken`, the pieces in the order they were read. `FollowNull` is the writer of 2005
at an eye that was counted and never read. What the code does besides, and the
model follows: `add_image_to_fdb` leaves the bytes of the old image in `block_length`
and the old length with a file it cannot read (`surplus`; no property is about it,
since `frf.h:454` says no more of the length than that it is updated); `cpfrf` exits
with success however the last read failed, and the makers even if writing failed.

## 3. What is checked

All runs finish within a few seconds to about a minute. Deadlock checking is off in
each run whose program stops; the sessions of `fmr_tools` stutter when they are over,
and there it is on.

| Run | Question | Bounds |
|---|---|---|
| `fedb_reader` | ownership, partial data, accounting and cursor of the block reader | 3 formats; blocks of up to 3 FEDs of every type with true, wrong, zero and oversized lengths; up to 2 cores and deltas; sources ending at each field of the first FEDs; any read or allocation may fail |
| `fmr_reader` | what the caller gets of a record; cards take every whole minutia; refinement of `RecordRead`; the reader ends | all formats; 0 to 2 views of 0 or 2 minutiae with 0 to 2 FEDs; ends in every part of the first and second view, for cards in and after the first minutiae and around 256 minutiae; failures |
| `fmr_writer` | what may be missing of a record that was written; enough space is enough | all formats, both ANSI header lengths, 0 to 2 views, FEDs of every type, buffers of every size from 0 to more than the record, disks failing at any field |
| `fmr_codec` | round trip of every part and agreement of masks and shifts | values at the edges of each field, beyond them where C would truncate, and foreign wires with bytes at the edges of each mask |
| `fmr_validate` | the first verdict is conformance; the memory is that of the views | 8 headers, 11 kinds of view, up to 3 views and 3 calls |
| `fmr_convert` | minutiae, legality and lengths over runs of `fmr2fmr`; conversions do not drift | every angle of every format, coordinates and resolutions at the edges, 11 files, up to 4 runs in a row between all formats, memory and disk failing in the second |
| `fmr_tools` | lengths, conformance and minutiae over the programs; what `fmrv` accepts; ANSI/NIST there and back; texts loaded in step; pairing | sessions of 1 to 3 programs on 10 records of one or two views with up to 3 minutiae, with ridge counts, cores and deltas, and wrong, long or cut ones; files without records and with two; texts that fit, end early or ask for too much, with up to 16 views; 2^32 scaled to 70001; foreign ANSI/NIST files; memory and disk failing |
| `image_file` | every byte and block of an image record; clones; when the validation programs exit with success; everything ends | five formats; up to 2 parts (eyes, faces, views, representations) with up to 2 points, images or quality blocks; data and codes absent, short and present; record lengths 0, true and too long; ends in every piece and behind a second record; failures; 2^32 scaled to 1000 |
| `image_writer` | the copy is the original; which writer follows a NULL pointer; buffers; lengths of what is made | five formats, up to 2 parts with an image and a point or code each; ends within the parts, behind one record and behind two; files that fail, buffers of 0, 60 and the declared number of bytes; images of two sizes; texts of up to 2 parts |
| `fedb_reader_free`, `fmr_codec_angles`, `image_writer_back` | findings, see below | the same |

Why the bounds are enough: the readers handle one element at a time and keep only
the locals named above, so two turns of each loop (first and later ones) with the
source ending in, before and after each show every path; the third FED of a block
is there for `fed` pointing at an element in the middle. Lengths are chosen at 0,
below the header, exact, between, and beyond what a `short` holds. The view
numbers of the checker need two fingers and three views to alternate. Four runs of
`fmr2fmr` are two trips to another format and back, which is what `Settles` compares.
A session of three programs is a change, the same change again (`MinutiaeAreKept`)
and a verdict, or there, back and a verdict. Three minutiae have a middle one to be
pruned, ridge counts that point to the last one, and two candidates for a pair.
A second record of a file shows what the loops do with lengths that are not true.

### Fairness

`fmr_reader` and `image_file` have a liveness property, that the read, and the loop
over a file, come to an end. They assume weak fairness of `Next`: there is one
thread, and whatever call is next is executed. For a caller of the image libraries
this means that it does free what it was given, which their headers ask of it.
Failures may happen but are never what the end depends on: no fairness is assumed of
one outcome against another.

### Findings

* `fedb_reader_free`: `err_out` of `internal_read_fedb` frees the FED that `fed`
  points to, which is already on the list when the header of the next FED cannot be read;
  freeing the block afterwards frees it again.
* `fmr_codec_angles`: cores and deltas of ISO blocks are read by their own type and
  written by the type of the block, which is never set for ISO; their angles are lost.
* `image_writer_back`: the writer of 2011 irises puts the image length before the
  image width, the reader takes it as the last field of the header (`iid.c:353` and
  `:244`), so that what `testiid` pushes is not what it reads back.

### Edges

The passing properties leave these out explicitly, each because the code behaves
differently there. In the reader and the writer of minutiae:

* ridge count FEDs longer than a `short` counts (`RidgeBlockFilled`, `fedb.c:610`);
* card records of more than 255 minutiae (`RecordAccounted`, `fvmr.c:104`);
* ANSI records that carry the long length field without needing it (`LargeAsNeeded`
  in `FmrCodec`, `fmr.c:233`);
* FEDs whose length is not that of their contents (`LengthIsTrue` in `FedbReader`);
* a FED that does not fit is cut and `WRITE_OK` returned, as the result of
  `internal_write_fed` is not used (`fedb.c:252`); `OnlyFedsAreCut` says that nothing
  else is lost this way, and nothing at all where there is room.

In `FmrConvert`:

* cards of more than 255 minutiae (`Countable`), views of different resolutions
  (`Resolved`), coordinates that the new format cannot hold (`FitsField`). For
  `Settles` they must fit on every way: 250 on a compact card, which has 100 units to
  the centimeter, may come back as 3 with `-rx 1`, and on a card that is 300, which
  has no room in a byte;
* ANSI07 records and compact cards: the cards get no coordinates, because the
  resolution is that of the header, where ANSI07 has none (`fmr2fmr.c:366`), and the
  records made from them get no resolution (`LosesResolution`);
* the length of ANSI07 output, 13 bytes per view too short, because every
  conversion counts a view header of 4 bytes (`LengthIsTrue`, `ansi2iso.c:38`);
* conversion between ANSI and ANSI07 is refused but exits with success and a header
  without views (`GiveUp`). Angles of ISO records may move by two units in two trips
  to ANSI and back before they settle.

In `FmrTools`:

* `fmrprune` and `fmrsort` count the header that was read, which may be the long one
  where a short one is written; `fmrmod` and `fmrisocompact` pass on what they read;
  `an2k2fmr` leaves out the two bytes of an empty block and the count of cores or
  deltas that are not there; `mkfmr` and `an2k2fmr` count the short header even where
  the length asks for the long one, and `mkfmr` counts angles for cores and deltas of
  the reserved types 2 and 3, which are written without (`LengthIsTrue`,
  `UnwrittenAngles`): a reader loses its place in such a record, so that no program is
  run on it;
* `fmrmod` with a quality above 100, and an angle of 179, which `fmrisocompact` makes
  180 (`AsksForTrouble`);
* for the round trip through ANSI/NIST: resolutions of 1000 and more, coordinates 10
  centimeters from the origin, which take five digits where four are read back
  (`InReach`), and images whose scale is not in centimeters;
* for `fmrv`, records that declare more than they have (`fit` in `AcceptedIsWhole`):
  the records behind them are not looked at; and files whose records declare 2^32 bytes
  or more together, which may be refused although all is well with them, as the sum
  starts over (`fmrv.c:75`);
* headers for `mkfmr` that announce more than 9 views (`MadeAsTold`). Its comment
  ("Num-Views(dec)", `mkfmr.c:51`) and its manual ("Decimal number of finger views",
  `mkfmr.1:55-56`) say that the number is decimal, and the code reads it as hexadecimal
  (`%hhx`, `mkfmr.c:58`). So 10 views are looked for as 16: texts of 10 views make no
  record, and texts of 16 make one of 16 views. The run has both, and what holds of the
  views that were made is checked for them too;
* a point below its image, which no conforming record has: `fmr2an2k` casts a negative
  float to an unsigned short (`AnsiY`, `fmr2an2k.c:108`); and what `fmr2an2k` frees
  twice when it could not write (`WriteAn2k`, `fmr2an2k.c:917`): it fails either way.

`fmroverlap` pairs what is within the radius and at it (`fmroverlap.c:274`, and
"within" in its manual), where the comment in front of `compare_fvmrs` says "less than"
(`:186`); the model and the properties go by the code.

In `ImageReader`, `ImageFile` and `ImageWriter`:

* a third eye in a record of 2005, which is written behind the array of two
  (`Countable`, `iid.c:342`);
* clones of 2005 records with boundary codes, which share the codes with the original,
  so that freeing both frees the codes twice (`SharesCodes`, `iid.h:329`);
* images of faces, which nobody frees (`FreedBlocks`, `fdb.c:48`);
* files whose records are not as long as they declare (`honest`): one that overstates
  its length hides the records behind it from all four programs;
* a 2005 clone without its images, which still announces their bytes, where the one of
  2011 sets the length to 0.

## 4. What is proved

The theorems assume nothing but the `ASSUME`s on the constants, which TLC evaluates
in every run; only the two about validation have one hypothesis more, about the numbers
of views.

`FedbReader_proofs` proves for all constants (every wire, end of source and
failure) seven of the properties `fedb_reader` checks. None is inductive on its own.
The invariant is `ReaderInv`, their conjunction with three parts about the locals:

* `LoopInv`: where the reader is in the nest says whether `fed` is in hand (the last
  entry of the heap, not yet on the list) or everything allocated is listed;
* `FedInv`: the FED in hand is no longer than the bytes left of the block and of the
  type whose body is being read;
* `RidgeInv`: counts read and counts to come add up to the body of a ridge count FED.

`NextKeepsReaderInv` goes action by action; the reads of a body share
`BodyGetKeeps` (a field was consumed) and `BodyFailureKeeps` (it was not). The
action property `ListedFedsFrozen` follows from `StepsLeaveList`.

`BlockAccounted` compares two sums over the list. `Accounted` keeps them in step: what
is left of the block is its length less the lengths on the list, and the cursor is
where the block began, plus the bytes on the list and of the FED in hand; a FED that
was read to its end holds what its kind asks for (`Filled`). A FED joins the list at
the end only, so one lemma about sums (`SumNext`) is enough for every action.

`Sums` is what all such proofs stand on. `MapThenFoldSet` takes elements in the order
of a `CHOOSE`; `AnyOrder` says that the order does not matter, and `SumFunctionIsSum`
that the fold of the community modules is the sum. Sums then have a type, grow by one
element at a time (`SumNext`), change with one element (`SumChanges`), split
(`SumSplits`) and are over two lists what they are over each (`SumConcat`). The
induction theorems of the library take an operator as a parameter, which the installed
provers cannot instantiate; here an induction is over a set of numbers instead, whose
least element outside would be a counterexample (`Least`, `Induct`, and `SeqInduct`
for sets of sequences). `FlattenSeq`, which the models use to string lists together,
has its own lemmas: one more list comes behind the others (`FlattenSeqGrows`), lists
that are related place by place are so when strung together (`FlattenSeqPairs`), and
what all elements of the lists have, all elements of the whole have
(`FlattenSeqElements`).

`FmrReader_proofs` builds on it. It takes the lemmas of `FedbReader_proofs` by an
`INSTANCE` (`FP`), shows that its steps are those of the block inside the record
(`SameNext`), and that the block's invariant survives the record reader's own steps
(`BlockIdleKeeps`). `RecordInv` adds what each place knows of the view in hand
(`PlaceInv`) and what the list holds at the end (`ListInv`); `PlaceInv` needs the
block's invariant at one point, that only a block cut by the end of the source is
partial (`BlockResult`). Every action is then one of two cases, `GoingOnKeeps` or
`ViewReturnsKeeps`, and the second one is also a step of `RecordRead`, which gives
the refinement theorem `ReaderImplementsRecordRead`.

`RecordAccounted` follows from `AccountInv`. `CursorInv` has the cursor at the header
and the views listed so far, then at the minutiae of the view in hand, and then in its
block, where the `Accounted` of the block reader takes over with that place as its
`start`. A block of no bytes is dropped from the view, which must not lose FEDs:
`NoBlockNoFeds`. `CardInv` is the same for cards, which have one view without a header
and count its minutiae in eight bits.

`FmrRecord_proofs` follows the writer and the checker of a record.

* The writer (`WriterInv`): whatever part comes next has a `Place`, which is all that a
  complete copy holds before that part. Each action leads from one place to the next
  (`Goes`), and what came out is the place up to FEDs, in a buffer that is large enough
  the place itself (`Copied`), or, after a failure, begins like the complete copy
  (`Cut`). Places are FEDs in minutiae in views, so that their lemmas are about lists
  strung together. That a large buffer cuts nothing needs a sum over the whole record:
  what came out, the part in hand and what follows make up the layout, so that the part
  fits. `CursorIsTrue` holds with and without cut FEDs, and is what makes this work,
  because the room that is left is measured by the cursor.
* The checker: `next_min_view`, which is in the record, through any number of calls. What makes
  `MemoryIsOfTheViews` inductive (`MemoryInv`) is where the call under way is: the views
  it has passed are all below the memory (`Passed`), and so are the views of a record
  that was accepted (`PassedAll`), because entering a number never lowers what is
  expected next. For the first verdict (`FirstInv`) the memory still holds only what
  this call entered, so that a number is next to the memory exactly if it is next to
  the views before it on the list (`NumberLemma`). Both theorems assume that one can be
  added to a view number, `NumbersHaveNext`: `view_number` has four bits on the wire,
  although a byte in memory.

`FmrPrograms_proofs` has two programs.

* `fmr2fmr`, value by value: for every angle, that conversions stay legal and close,
  that compact card angles come back as they were, that ANSI angles settle after one
  trip to ISO; for every coordinate and resolution below 1000, that a normal card gives
  it back.
* `fmr2fmr`, file by file and run after run. `ConvertInv` says of the record that is
  being made that its length is the sum over the views done (`MadeSoFar`): by conversion
  a view header of 4 bytes, the minutiae that are counted and an empty block for each,
  by copying the length that was read less the blocks that are left out. Whether an ANSI
  record gets the long header depends on its length itself (`LongHeader`), so the proof
  must show that what is taken away or made smaller never changes that.
  `MinutiaeKept` follows from pairs: each minutia of a view is paired with what the
  conversion makes of it, at its place to half a unit and in its direction to a unit of
  the coarser format (`Keeps`), one list of pairs per view (`KeptBetween`), and lists
  paired view by view are paired when strung together. How halves are rounded is left
  open, as in the model.
* `fmr2fmr`, there and back (`SettlesHolds`). `TripsInv` says that every file of the
  history follows from the one before (`Follows`): if no failure was ignored, its views
  have one resolution again, and if it has as many minutiae they are paired as above.
  As many minutiae is what the coordinates that must fit bring along; strings of lists
  none of which grew are as long only if each list is (`FewerTogether`), so that no
  count has run over. Four files that follow make four pairs of each minutia (`Trips`).
  Its angle is one of 64 or 180 directions after the first trip and then returns
  (`TripAngle`); its place is a multiple of the coarser unit, or the finer one gives
  it back (`TripReturns`), at any two resolutions and whichever way halves are rounded.
* `fmroverlap`: for any two views and any radius, pairs are one to one and no wider than
  their ring (`OverlapPairsOnce`), and a ring is not over before nothing within it is
  left on both sides (`OverlapIsComplete`). The second is not inductive: `RingIsReached`
  adds what is known in the middle of a ring, that the minutiae of the first view before
  `i` have been seen to in this one: each is in a pair, or has nothing within the ring
  that is not. That the search always finds a nearest one, so that the two loops never
  stand still, is left to TLC's deadlock check.

`ImagePrograms_proofs` begins with what the clients of the five image readers share:
where the cursor can be, and that a count is true once a record was read (`CountInv`).
Each read of a part either stays within the part or returns from it with a code
(`WithinPart`), and `WithinPartKeeps` covers both. The heap plays no part in this and
stays open. It has two invariants of its own. `HeapInv` says that nothing is freed while
a record is read, that the first block stays the record's, and how much of the part in
hand is still to be read. `TreeInv` says that blocks are a tree (`Tree`): each has
owners of the kind that may point to it (`MayOwn`), but for those in hand and what a
read that failed gave up (`Loose`), and as long as nothing failed their sizes add up to
the bytes read.

* `ImageFile`: for all formats a reader keeps its promise and takes one step of
  `RecordRead` at a time (`ReadsRecords`), and a program that exits with success has
  seen all of a file of honest records (`SuccessIsComplete`). `FileInv` adds to the
  reader's invariant what the sum of lengths means at each place of the loop: at most
  `start` before a record is counted and at most `current` behind it (`Counted`). The
  sum may wrap around in the iris programs; it is then too small, never too large,
  which is why the loop cannot end too early (`SumIsSmall`).
  It also proves `MemoryIsFreedOnce`. `MemoryInv` says where a record may have been
  freed already (`HeldInv`: a caller's, or a program's on its way to the next), that a
  clone shares nothing but Freeman codes with it (`CloneInv`), and that all is fresh as
  long as it is held. What a free reaches depends on owners only, which freeing leaves
  alone (`Freeing`), so that it is the same before and after.
  And `OnlyPartInHandIsLost`: from `TreeInv` at the end of a read, all that is not
  reached from the record is what was in hand, so that the sum over the reached blocks
  and those given up is the sum over all of them (`SameTree`: freeing and cloning
  change nobody's owners or sizes).
* `ImageWriter`: only the writer of 2005, and only after a read that failed,
  follows a NULL pointer (`OnlyPartialCrashesHolds`). `WriterInv` carries the truth of
  the count from the end of the read through edits and clones to the writer, also
  where `cpfrf` begins to read again; the makers, which never compare count and list,
  do not make records of 2005.
  `BufferIsEnough`: `OutInv` says that what came out is how `Layout` begins, at every
  moment of writing, so that the next piece has room or `Bytes(Layout)` is more than the
  space. For this the layout must stand still while it is written and be made of pieces
  of natural length, which for 2011 needs that the header of every listed
  representation was read as far as its image length (`Whole`, `SizedInv` of the
  reader).
  `MadeLengthIsTrue`: `MadeInv` says that what a maker added up so far is the length of
  the header and of the pieces of the parts loaded so far. A part is loaded as a whole:
  the lemmas about `Loaded` say which blocks memory then has more, that the pieces of
  earlier parts are what they were, and that the new ones are its points and its data.
  Both rest on lists strung along memory (`Strung`): what a block contributes, in the
  order of the blocks, and how that changes when blocks are added behind (`StrungGrows`)
  or nothing that belongs to the list does (`StrungKeeps`).

`FmrTools_proofs` and `FmrFilters_proofs` are about sessions of all the programs, for any
plan, any options, any texts, records and ANSI/NIST files, and any failure.

* What has to be inductive is not about the log alone. `Control` says what the program
  that runs has open and where it can be: that its file is one it can read (`InPlace`),
  and that all files, records, views and minutiae are of the types of `FmrFile`
  (`Typed`, `MkTyped`). That the files a program leaves can be read again is part of it
  (`StoredFields`, `CutTypes`), so that a plan of any length goes on. `TypeOK` follows.
* `DoneInv` adds what has been made so far of what was read (`Progress`): by a filter,
  each view of the new record from the view in the same place (`Makes`), and the bytes
  counted up to there; by `an2k2fmr`, records whose lengths are off by what is known; by
  `mkfmr` (`LeftOf`, `CountedSo`, `ToldSo`), which numbers of each text are still to be
  read, and that those that were are in their views in their order. And it says the same
  of the programs that have ended, from their entry in the log alone (`Done`), because
  a program's variables are gone when it ends.
* `AcceptedIsWhole`, `LengthIsTrue` and `MadeAsTold` follow from `Done`. For the first,
  `fmrv` adds up declared lengths; if none is more than its record has, the sum cannot
  reach the end of the file before the last record was looked at. For the second,
  `Stored` must not change what `RecordBytes` counts, and the parts of a length that
  have 16 bits must not wrap (`DataFit`). The third needs a place in each text for every
  minutia of every view (`MinutiaeBefore`), a sum that grows by a view at a time.
* `ConformanceIsKept`: conformance is taken apart into the header, each view and the
  order of numbers (`ConformsSays`). Filters change no number, finger, size or
  resolution; `fmrprune` and `fmrsort` drop the extended data whose indexes would be
  wrong; minutiae are either those of the old view (`SelectedTypes`) or differ in the
  quality or the angle, where the two exceptions are.
* `MinutiaeAreKept`: a choice of `fmrprune` is a set of places, so that a minutia is
  kept as often as it has places in it (`SelectedTimes`), and the choices by distance
  begin a sorted list (`PolarIsNear`). That a second run finds nothing to do needs that
  the first one has left what the second one reads (`KeptInv`): a filter that was cut
  off has left a record that announces more views than it has (`CutHasNoViews`), which
  is not read again. Then as many minutiae as before are all of them (`AllSelected`), a
  quality is written twice, and an angle moved to one of 64 stays (`IsoAngleAgain`).

Model-checked only:

* `An2kRoundTrip` of `FmrTools`: digits of decimal numbers strung together and taken
  apart again, and three truncations in a row;
* `CopyIsTrue` of `ImageWriter`: it relates the order in which blocks were read to the
  order in which the tree of blocks is walked, for five formats;
* everything of `FmrCodec`, whose bits the prover has no theory of;
* liveness, which is out of this prover's reach.

## 5. Not modelled

Left out:

* printing and plotting of records (`pr*`, `fmrplot`), command line parsing beyond
  the options `FmrTools` checks, the statistics of `fmroverlap`;
* `minexv`, which checks one profile with the same library, and `pgm2fir`, which wraps
  one picture into a record by calls that are modelled;
* `sort_fmd_by_quality` and `copy_fivr`, which no program calls;
* the integer sets of `common`, a membership test inside range checks that are one
  Boolean here;
* memory that is overrun (a third eye, cards of more than 255 minutiae in a
  conversion, finger numbers beyond `next_min_view`): what happens then depends on the
  layout of the heap;
* the an2k library, which is not in the repository;
* the MSVC build files and the samples.
