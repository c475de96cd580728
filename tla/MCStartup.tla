------------------------------ MODULE MCStartup ------------------------------
(***************************************************************************)
(* Two cards: c1 has a mega99 directory and everything the console needs,  *)
(* c2 the optional ROMs; and RPK files of every kind of layout.            *)
(***************************************************************************)
EXTENDS Startup

A == <<"a">>
MCTree == [c \in Cards |-> IF c = "c1" THEN {<<>>, <<"mega99">>, A}
                           ELSE {<<>>, A, <<"a", "b">>}]

Own(d, name) == [dir |-> d, name |-> name, whole |-> {name}]
Cut(d, name) == [dir |-> d, name |-> name, whole |-> {}]
Zipped(d, name, roms) == [dir |-> d, name |-> name, whole |-> roms]

MCAux == [c \in Cards |->
  IF c = "c1" THEN {Own(<<"mega99">>, "rom"), Zipped(<<>>, "ti", {"rom", "grom0"}),
                    Cut(<<>>, "grom1"), Cut(<<>>, "dsr"), Own(<<>>, "dsr2"), Own(<<>>, "p0")}
  ELSE {Own(<<>>, "grom1"), Zipped(<<>>, "pcode", {"p0", "p1"})}]

MCRoms == <<[name |-> "rom",   zip |-> "ti", board |-> "console", grom |-> NoGrom],
            [name |-> "grom0", zip |-> "ti", board |-> "console", grom |-> 0],
            [name |-> "dsr",   zip |-> "tipi", board |-> "tipi", grom |-> NoGrom],
            [name |-> "dsr2",  zip |-> "tipi", board |-> "tipi", grom |-> NoGrom],
            [name |-> "p0",    zip |-> "pcode", board |-> "pcode", grom |-> NoGrom],
            [name |-> "p1",    zip |-> "pcode", board |-> "pcode", grom |-> NoGrom]>>

R(i, f) == [el |-> "rom", id |-> i, file |-> f]
S(s, i) == [el |-> "socket", id |-> s, uses |-> i]
P(t)    == [el |-> "pcb", type |-> t]
Made(layout, size) ==
  [layout |-> layout, files |-> [f \in {e.file : e \in {x \in Range(layout) : x.el = "rom"}} |-> size]]

MCRpks ==
  {Made(<<R("g", "g"), R("c", "c"), P("standard"), S("grom_socket", "g"), S("rom_socket", "c")>>, 5),
   Made(<<R("c", "c"), P("paged378"), S("rom_socket", "c")>>, 5),
   Made(<<R("c", "c"), P("paged378"), S("rom_socket", "c")>>, 9),
   Made(<<R("c", "c"), R("d", "d"), P("paged"), S("rom_socket", "c"), S("rom2_socket", "d")>>, 2),
   Made(<<R("c", "c"), P("minimem"), S("ram_socket", "c"), S("rom_socket", "c")>>, 1),
   Made(<<R("c", "c"), P("mbx"), S("rom_socket", "c")>>, 4),
   Made(<<P("gromemu"), R("c", "c"), S("grom_socket", "c")>>, 12),
   Made(<<P("standard"), S("rom_socket", "c"), R("c", "c")>>, 2)}
=============================================================================
