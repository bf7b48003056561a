---------------------------- MODULE MCFmrWriter -----------------------------
(***************************************************************************)
(* FmrWriter on small records of every format: up to two views, with up to *)
(* two FEDs of every type, into buffers of every size up to the largest.   *)
(***************************************************************************)
EXTENDS FmrWriter

Fed(type, length, angular, elems, deltas) ==
  [type |-> type, length |-> length, angular |-> angular, elems |-> elems,
   deltas |-> deltas]

Ridge   == Fed(FED_RIDGE_COUNT, 11, FALSE, 2, 0)
Plain   == Fed(FED_CORE_AND_DELTA, 14, FALSE, 1, 1)
Angular == Fed(FED_CORE_AND_DELTA, 18, TRUE, 1, 1)
Unknown == Fed(FED_OTHER, 7, FALSE, 0, 0)
Empty   == Fed(FED_OTHER, 4, FALSE, 0, 0)

FedLists == {<<>>, <<Ridge>>, <<Angular, Empty>>, <<Plain, Unknown>>}
MCViews    == {[fmds |-> n, feds |-> feds] : n \in {0, 2}, feds \in FedLists}
OneView  == {<<v>> : v \in MCViews}
TwoViews == {<<v, w>> : v \in {u \in MCViews : u.fmds = 0}, w \in {u \in MCViews : u.fmds = 2}}

CardViews == {<<[fmds |-> n, feds |-> <<>>]>> : n \in {0, 1, 3}}

MCRecords ==
  [format_std : {"ISO", "ANSI07"}, long : {FALSE}, views : {<<>>} \cup OneView \cup TwoViews]
  \cup [format_std : {"ANSI"}, long : BOOLEAN, views : {<<>>} \cup OneView]
  \cup [format_std : Cards, long : {FALSE}, views : CardViews]

MCEnds == 0 .. 130
=============================================================================
