----------------------------- MODULE MCFmrCodec -----------------------------
(***************************************************************************)
(* FmrCodec on objects whose fields lie at the edges of their widths, and  *)
(* on foreign wires whose bytes have the edges of each mask.               *)
(***************************************************************************)
EXTENDS FmrCodec

Of(k, objects) == {<<k, o>> : o \in objects}

MCFmds ==
  [format : AllFormats, type : {0, 1, 3}, x : {0, 255, 256, 16383, 16384},
   y : {0, 255, 16383, 16384}, angle : {0, 63, 64, 255}, quality : {0, 254}, reserved : {0}]

MCViews ==
  [format : {"ANSI", "ISO"}, finger : {0, 10}, view : {0, 1, 15, 16}, impression : {0, 9, 15, 29},
   quality : {0, 100}, algorithm : {0}, image : {<<0, 0, 0, 0>>}, minutiae : {0, 255}]
  \cup
  [format : {"ANSI07"}, finger : {0, 10}, view : {0, 255}, impression : {0, 29},
   quality : {100}, algorithm : {65537}, image : {<<1, 256, 3, 65535>>}, minutiae : {255}]

MCHeaders ==
  [format : {"ANSI"}, large : BOOLEAN, length : {26, 65535, 65536}, product : {<<1, 513>>},
   compliance : {0, 8, 15}, scanner : {0, 4095, 4096}, image : {<<1, 256, 3, 65535>>},
   views : {0, 255}, reserved : {0, 7}]
  \cup
  [format : {"ISO"}, large : {FALSE}, length : {24, 65536}, product : {<<0, 0>>},
   compliance : {0, 15}, scanner : {0, 4095}, image : {<<1, 256, 3, 65535>>},
   views : {1}, reserved : {0}]
  \cup
  [format : {"ANSI07"}, large : {FALSE}, length : {20, 65536}, product : {<<1, 513>>},
   compliance : {0, 15}, scanner : {0, 4095}, image : {<<0, 0, 0, 0>>},
   views : {1}, reserved : {0}]

P(type, x, y, angles) == [type |-> type, x |-> x, y |-> y, angles |-> angles]
Lists(elements) == {<<>>} \cup {<<e>> : e \in elements} \cup {<<e, f>> : e \in elements, f \in elements}

IsoCores  == {P(0, 16383, 5, <<0>>), P(1, 7, 16383, <<200>>), P(2, 1, 2, <<0>>)}
IsoDeltas == {P(0, 300, 5, <<0, 0, 0>>), P(1, 7, 8, <<1, 2, 255>>)}
AnsiCores(t)  == {P(0, 16383, 5, <<IF t = 1 THEN 9 ELSE 0>>), P(0, 3, 4, <<0>>)}
AnsiDeltas(t) == {P(0, 300, 5, IF t = 1 THEN <<1, 2, 255>> ELSE <<0, 0, 0>>)}

BlocksOf(format, core_type, cores, delta_type, deltas) ==
  {[format |-> format, core_type |-> core_type, num_cores |-> Len(c), cores |-> c,
    delta_type |-> delta_type, num_deltas |-> Len(d), deltas |-> d] :
     c \in Lists(cores), d \in Lists(deltas)}

MCBlocks ==
  BlocksOf("ISO", 0, IsoCores, 0, IsoDeltas)
  \cup BlocksOf("ANSI07", 0, AnsiCores(0), 0, AnsiDeltas(0))
  \cup UNION {BlocksOf("ANSI", t, AnsiCores(t), u, AnsiDeltas(u)) : t \in {0, 1, 2}, u \in {0, 1}}

MCObjects ==
  Of("fmd", MCFmds) \cup Of("view", MCViews) \cup Of("header", MCHeaders) \cup Of("block", MCBlocks)

\* Only what the library has read itself is written.
NoObjects == {}

\* Wires of n bytes from a set.
Bytes(n, values) == [1 .. n -> values]
WiresOf(k, formats, wires) == {<<k, f, w>> : f \in formats, w \in wires}

MCWires ==
  WiresOf("fmd", {"ANSI", "ISO", "ANSI07"}, Bytes(6, {0, 64, 255}))
  \cup WiresOf("fmd", {"ISO_NORMAL_CARD"}, Bytes(5, {0, 64, 255}))
  \cup WiresOf("fmd", {"ISO_COMPACT_CARD"}, Bytes(3, {0, 63, 64, 255}))
  \cup WiresOf("view", {"ANSI", "ISO"}, Bytes(4, {0, 15, 16, 255}))
  \cup WiresOf("header", {"ANSI"}, {l \o <<1, 2, 3, 4>> \o s \o <<1, 2, 3, 4, 5, 6, 7, 8>> \o v :
         l \in {<<0, 26>>, <<255, 255>>, <<0, 0, 0, 0, 0, 30>>, <<0, 0, 0, 1, 0, 0>>},
         s \in Bytes(2, {0, 16, 255}), v \in Bytes(2, {0, 255})})
  \cup WiresOf("block", {"ANSI", "ISO", "ANSI07"}, {<<c>> \o p \o <<d>> \o q :
         c \in {1, 17, 65, 129}, d \in {0, 1, 65},
         p \in {<<0, 5, 64, 6>>, <<64, 5, 255, 6, 7>>},
         q \in {<<>>, <<0, 5, 0, 6>>, <<64, 5, 0, 6, 7, 8, 9>>}})
=============================================================================
