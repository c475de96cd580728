-------------------------------- MODULE Menu --------------------------------
(***************************************************************************)
(* The menu (menu.c): its pages, the line that is highlighted, the list of *)
(* files that scrolls through the window, the settings, and the input of a *)
(* name. Each key is handled to the end before the next. What a line says  *)
(* is a pair here; lines are chosen by their numbers, as in the code.      *)
(* Where the directories of the list come from is in Cards.                *)
(***************************************************************************)
EXTENDS TextInput, SequencesExt

CONSTANTS
  Rows,       \* MAX_FILESELECTOR_ENTRIES
  MaxFiles,   \* MAX_FILESELECTOR_FILES
  Listings,   \* what is read from a directory
  Configs,    \* settings that a configuration file may hold
  Defaults,   \* settings at first
  MaxChanged  \* bound: settings that differ from them

ASSUME MenuAssumption ==
  /\ Rows \in Nat /\ Rows > 4 /\ MaxFiles \in Nat \ {0}
  /\ Listings \subseteq Seq({"file", "dir", "label", "."})
  /\ \A config \in Configs \cup {Defaults} :
       "1200" \in config => "tipi" \in config  \* settings_menu_select leaves no others to save

VARIABLES
  page, input,       \* current_menu; whether textinput_func is set
  lines, cursor_y,   \* the lines in the window, and the highlighted one, or 0
  top_entry,
  names,             \* fileselector_menu_names, by their types
  purpose,           \* what the file, or the name, is for
  enable, roms,      \* REGS_MISC.enable; the ROMs that are there
  marks,             \* the option that is marked, of each line of settings
  asked, call        \* the line that led here; what the last key had done

pagevars == <<page, input, lines, cursor_y, top_entry, names, purpose, asked>>
settings == <<enable, roms, marks>>
vars == <<inputvars, pagevars, settings, call>>

None == "none"
Nothing == <<None, 0>>

----------------------------------------------------------------------------
(* The lines of the pages.                                                  *)

Line0(kind) == <<kind, 0>>

MainMenu ==
  << Line0("title"), Line0("rule"), Line0("rpk"), Line0("rule"),
     <<"disk", 0>>, <<"disk", 1>>, <<"disk", 2>>, Line0("rule"),
     Line0("tape"), <<"savetape", 0>>, <<"savetape", 1>>, Line0("rule"),
     Line0("mm"), Line0("savemm"), Line0("rule"), Line0("settings"), Line0("rule"),
     Line0("reset"), Line0("exit") >>

\* settings_menu_update says of a card without its ROM that it is unavailable.
OrMinor(rom, line) == IF rom \in roms THEN Line0(line) ELSE Line0("minor")

SettingsMenu ==
  << Line0("title"), Line0("rule"), Line0("minor"), Line0("ram32k"), Line0("minor"), Line0("fdc"),
     Line0("minor"), Line0("vsp"), Line0("minor"), Line0("sp1k"), Line0("minor"), Line0("joyswp"),
     Line0("minor"), OrMinor("pcode", "pcode"), Line0("minor"), OrMinor("tipi", "tipi"),
     OrMinor("tipi", "internal"), Line0("rule"), Line0("load"), Line0("save"), Line0("back") >>

\* fileselector_menu_refill: the names from top_entry on, by type and number.
Refill(ns, top) ==
  << Line0("title"), Line0("label"), Line0("rule") >> \o
  [i \in 1..Min({Len(ns) - top, Rows - 4}) |-> <<ns[top + i], top + i>>]

Selectable(line) == line[1] \notin {"title", "rule", "minor", "label", "error"}
Offered(ls) == {y \in DOMAIN ls : Selectable(ls[y])}

----------------------------------------------------------------------------
(* The highlighted line.                                                    *)

Scroll(ns, top, dir) ==
  IF dir > 0 THEN Len(ns) > top + Rows - 4 ELSE top > 0

At(ls, y, top) == [lines |-> ls, cursor_y |-> y, top_entry |-> top]

\* The line that the list has been scrolled to, or else the one next to it.
Scrolled(ns, top, dir) ==
  LET ls == Refill(ns, top + dir)
  IN  At(ls, IF Offered(ls) = {} THEN 0 ELSE IF dir > 0 THEN Max(Offered(ls)) ELSE Min(Offered(ls)),
         top + dir)

\* (a defect: the list is scrolled only to an entry that can be chosen)
MovedShort(ls, y, top, dir, ns) ==
  LET ahead == {z \in Offered(ls) : IF dir > 0 THEN z > y ELSE z < y}
  IN  IF ahead # {} THEN At(ls, IF dir > 0 THEN Min(ahead) ELSE Max(ahead), top)
      ELSE IF Scroll(ns, top, dir) /\ ns[IF dir > 0 THEN top + Rows - 3 ELSE top] # "label"
           THEN Scrolled(ns, top, dir) ELSE At(ls, y, top)

\* (a defect: the list is scrolled but the entries in the window are not)
MovedStale(ls, y, top, dir, ns) ==
  LET ahead == {z \in Offered(ls) : IF dir > 0 THEN z > y ELSE z < y}
  IN  IF ahead # {} THEN At(ls, IF dir > 0 THEN Min(ahead) ELSE Max(ahead), top)
      ELSE IF Scroll(ns, top, dir) THEN At(ls, y, top + dir) ELSE At(ls, y, top)

\* menu_move by one: to the next line that can be chosen, or else the list scrolls.
Moved(ls, y, top, dir, ns) ==
  LET ahead == {z \in Offered(ls) : IF dir > 0 THEN z > y ELSE z < y}
  IN  IF ahead # {} THEN At(ls, IF dir > 0 THEN Min(ahead) ELSE Max(ahead), top)
      ELSE IF Scroll(ns, top, dir) THEN Scrolled(ns, top, dir) ELSE At(ls, y, top)

Show(m) == lines' = m.lines /\ cursor_y' = m.cursor_y /\ top_entry' = m.top_entry

\* menu_set. The list is at its top then.
Set(p, ls, ns) == page' = p /\ names' = ns /\ Show(Moved(ls, 0, 0, 1, ns))

SetMain == Set("main", MainMenu, <<>>)
SetSelect(ns) == Set("select", Refill(ns, 0), ns)

----------------------------------------------------------------------------
(* Settings.                                                                *)

\* update_settings_line3: the mark of option i, if first and second are true
\* of the first two; the state of the loop is what is left of them.
Marked3(first, second) ==
  LET left[i \in 0..3] ==
        IF i = 0 THEN <<first, second>>
        ELSE CASE left[i - 1][1] -> <<FALSE, FALSE>>
               [] ~left[i - 1][1] /\ left[i - 1][2] -> <<TRUE, FALSE>>
               [] OTHER -> <<FALSE, TRUE>>
  IN  {i \in 1..3 : left[i - 1][1]}

Marked(first) == Marked3(first, ~first) \cap 1..2

\* settings_menu_update.
Marks(on) ==
  [ram32k |-> Marked("ram32k" \in on), fdc |-> Marked("fdc" \in on), vsp |-> Marked("vsp" \in on),
   sp1k |-> Marked("sp1k" \notin on), joyswp |-> Marked("joyswp" \notin on),
   pcode |-> Marked("pcode" \in on), internal |-> Marked("internal" \in on),
   tipi |-> Marked3("1200" \in on, "tipi" \in on)]

UpdateSettings(on) == enable' = on /\ roms' = roms /\ marks' = Marks(on)

Flip(on, bit) == IF bit \in on THEN on \ {bit} ELSE on \cup {bit}

\* TIPI goes from >1200 to >1000 to none.
NextTipi(on) ==
  CASE "tipi" \notin on -> on \cup {"tipi", "1200"}
    [] "tipi" \in on /\ "1200" \in on -> on \ {"1200"}
    [] OTHER -> on \ {"tipi"}

\* What is loaded of a card without its ROM is ignored.
Loaded(config) ==
  config \ ((IF "pcode" \in roms THEN {} ELSE {"pcode"})
            \cup (IF "tipi" \in roms THEN {} ELSE {"tipi", "1200", "internal"}))

----------------------------------------------------------------------------
(* Keys.                                                                    *)

Init ==
  /\ Empty /\ page = None /\ input = FALSE /\ lines = <<>> /\ cursor_y = 0 /\ top_entry = 0
  /\ names = <<>> /\ purpose = Nothing /\ asked = Nothing /\ call = <<>>
  /\ roms \in SUBSET {"pcode", "tipi"} /\ enable = Loaded(Defaults) /\ marks = Marks({})

\* menu_open, and keyboard_block.
MenuOpen ==
  /\ page = None /\ SetMain /\ call' = <<>>
  /\ UNCHANGED <<inputvars, input, purpose, asked, settings>>

\* What a page that is closed leaves behind is not read again: it is forgotten here.
Forget == purpose' = Nothing /\ asked' = Nothing

\* (a defect: Escape from a name leaves the menu altogether)
CloseBoth ==
  /\ input' = FALSE /\ Forget
  /\ IF page # "main" THEN SetMain
     ELSE page' = None /\ lines' = <<>> /\ cursor_y' = 0 /\ top_entry' = 0 /\ names' = <<>>
  /\ typed' = <<>> /\ offs' = 0 /\ cursor_x' = 1 /\ inverse' = {} /\ arrows' = <<FALSE, FALSE>>
  /\ cells' = [x \in Line |-> Blank]

\* menu_close.
Close ==
  /\ input' = FALSE /\ Forget
  /\ IF input \/ page # "main" THEN SetMain
     ELSE page' = None /\ lines' = <<>> /\ cursor_y' = 0 /\ top_entry' = 0 /\ names' = <<>>
  /\ typed' = <<>> /\ offs' = 0 /\ cursor_x' = 1 /\ inverse' = {} /\ arrows' = <<FALSE, FALSE>>
  /\ cells' = [x \in Line |-> Blank]

Calls(what) == call' = what
NoCall == call' = <<>>

\* fileselector_menu_fill: "." is left out, and what is too much; an error takes
\* the place of the files.
Listed(listing) ==
  LET filled[n \in 0..Len(listing)] ==
        IF n = 0 THEN <<>>
        ELSE IF listing[n] = "." \/ Len(filled[n - 1]) = MaxFiles THEN filled[n - 1]
        ELSE Append(filled[n - 1], listing[n])
  IN  filled[Len(listing)]
Fillings == {Listed(l) : l \in Listings} \cup {<<"error">>}

OpenSelector(for) ==
  /\ \E ns \in Fillings : SetSelect(ns)
  /\ purpose' = for /\ asked' = lines[cursor_y]
  /\ NoCall /\ UNCHANGED <<inputvars, input, settings>>

\* menu_text_input: the page stays the current one.
AskName(for) ==
  /\ Begin /\ input' = TRUE /\ purpose' = for /\ asked' = lines[cursor_y]
  /\ NoCall /\ UNCHANGED <<page, lines, cursor_y, top_entry, names, settings>>

MainMenuSelect(entry) ==
  CASE entry = 3 -> OpenSelector(Line0("rpk"))
    [] entry \in 5..7 -> OpenSelector(<<"disk", entry - 5>>)
    [] entry = 9 -> OpenSelector(Line0("tape"))
    [] entry \in 10..11 -> AskName(<<"savetape", entry - 10>>)
    [] entry = 13 -> OpenSelector(Line0("mm"))
    [] entry = 14 -> AskName(Line0("savemm"))
    [] entry = 16 -> /\ UpdateSettings(enable) /\ Set("settings", SettingsMenu, <<>>)
                     /\ NoCall /\ UNCHANGED <<inputvars, input, purpose, asked>>
    [] entry = 18 -> Close /\ Calls(<<Line0("reset")>>) /\ UNCHANGED settings
    [] entry = 19 -> Close /\ NoCall /\ UNCHANGED settings
    [] OTHER -> NoCall /\ UNCHANGED <<inputvars, pagevars, settings>>

\* A change of the settings draws the page again.
Change(on) ==
  /\ Cardinality(SymDiff(on, Loaded(Defaults))) <= MaxChanged
  /\ UpdateSettings(on) /\ NoCall /\ UNCHANGED <<inputvars, pagevars>>

SettingsMenuSelect(entry) ==
  CASE entry = 4 -> Change(Flip(enable, "ram32k"))
    [] entry = 6 -> Change(Flip(enable, "fdc"))
    [] entry = 8 -> Change(Flip(enable, "vsp"))
    [] entry = 10 -> Change(Flip(enable, "sp1k"))
    [] entry = 12 -> Change(Flip(enable, "joyswp"))
    [] entry = 14 -> Change(Flip(enable, "pcode"))
    [] entry = 16 -> Change(NextTipi(enable))
    [] entry = 17 -> Change(Flip(enable, "internal"))
    [] entry = 19 -> \E config \in Configs \cup {enable} : Change(Loaded(config))
    [] entry = 20 -> Calls(<<Line0("save")>>) /\ UNCHANGED <<inputvars, pagevars, settings>>
    [] entry = 21 -> Close /\ NoCall /\ UNCHANGED settings
    [] OTHER -> NoCall /\ UNCHANGED <<inputvars, pagevars, settings>>

FileselectorSelect(entry) ==
  LET i == entry - 3 + top_entry
      type == IF entry >= 4 /\ i <= Len(names) THEN names[i] ELSE None
  IN  CASE type = "dir" ->
             /\ \E ns \in Fillings : SetSelect(ns)
             /\ NoCall /\ UNCHANGED <<inputvars, input, purpose, asked, settings>>
        [] type = "file" -> Close /\ Calls(<<purpose, i>>) /\ UNCHANGED settings
        [] OTHER -> Close /\ NoCall /\ UNCHANGED settings

Enter ==
  IF input THEN Close /\ Calls(<<purpose, "name", Trimmed>>) /\ UNCHANGED settings
  ELSE CASE page = "main" -> MainMenuSelect(cursor_y)
         [] page = "settings" -> SettingsMenuSelect(cursor_y)
         [] page = "select" -> FileselectorSelect(cursor_y)

Step1(dir) ==
  /\ Show(Moved(lines, cursor_y, top_entry, dir, names))
  /\ NoCall /\ UNCHANGED <<inputvars, page, input, names, purpose, asked, settings>>

\* A full stop shows the root of the other card.
Dot ==
  /\ page = "select" /\ \E ns \in Fillings : SetSelect(ns)
  /\ NoCall /\ UNCHANGED <<inputvars, input, purpose, asked, settings>>

InputKeys == {"left", "right", "backspace"} \cup Chars

\* menu_key.
MenuKey ==
  /\ page # None
  /\ \/ Close /\ NoCall /\ UNCHANGED settings  \* the escape key
     \/ Enter
     \/ /\ input
        /\ \E key \in InputKeys : InputKey(key)
        /\ NoCall /\ UNCHANGED <<pagevars, settings>>
     \/ ~input /\ \E dir \in {-1, 1} : Step1(dir)
     \/ ~input /\ Dot

Next == MenuOpen \/ MenuKey

Spec == Init /\ [][Next]_vars

----------------------------------------------------------------------------
(* Properties.                                                              *)

\* The input of a name is a line editor (menu.c:801-868), though the cursor's place
\* in the text is known only from its column and from the offset of the window.
Editor == INSTANCE LineEditor WITH Chars <- Chars \ Refused, text <- typed, pos <- input_pos
ImplementsEditor == Editor!Spec

\* The menu opens and closes its pages as the keyboard expects it (menu.c:766-790):
\* it is open as long as the keys are kept from the TI, which Keyboard builds on.
Level == CASE page = None -> 0 [] page = "main" /\ ~input -> 1 [] OTHER -> 2
Pages == INSTANCE MenuPages WITH Deepest <- 2, level <- Level
ImplementsPages == Pages!Spec

\* The window shows what has been typed around the cursor, the only cell in
\* reverse, and its borders tell of the rest (menu.c:578-591, 801-868).
ShownIsTyped ==
  input =>
    /\ \A x \in Line : cells[x] = IF offs + x <= Len(typed) THEN typed[offs + x] ELSE Blank
    /\ inverse = {cursor_x} /\ cursor_x \in Line /\ input_pos \in 0..Len(typed)
    /\ arrows = <<offs > 0, offs + Columns - 2 < Len(typed)>>

\* Every file of the list can be highlighted, with Down or with Up alone, from
\* wherever the list has been scrolled to; labels on the way do not hold up
\* (menu.c:593-627).
Reached(dir) ==
  LET after[n \in 0..2 * Len(names)] ==
        IF n = 0 THEN At(lines, cursor_y, top_entry)
        ELSE LET m == after[n - 1] IN Moved(m.lines, m.cursor_y, m.top_entry, dir, names)
  IN  {after[n].lines[after[n].cursor_y] : n \in {k \in DOMAIN after : after[k].cursor_y > 0}}
AllReachable ==
  page = "select" =>
    \A i \in DOMAIN names :
      names[i] \in {"file", "dir"} => <<names[i], i>> \in Reached(1) \cup Reached(-1)

\* What a key has done is what the lines said that were highlighted: the file that
\* is opened, what it is opened for, and the setting that changes (menu.c:274-382,
\* 697-722), though only the numbers of lines are looked at.
DoesWhatItSays ==
  [][/\ call' # <<>> /\ page = "select" => call'[1] = asked /\ <<"file", call'[2]>> = lines[cursor_y]
     /\ call' # <<>> /\ input => call'[1] = asked
     /\ call' # <<>> /\ page # "select" /\ ~input => call'[1] = lines[cursor_y]
     /\ enable' # enable /\ lines[cursor_y][1] # "load" =>
          \A bit \in (enable \ enable') \cup (enable' \ enable) :
            lines[cursor_y][1] = IF bit = "1200" THEN "tipi" ELSE bit]_vars

\* The settings page marks the option in force, and just that one, and a card
\* without its ROM is never enabled (menu.c:322-439).
SettingsShown ==
  /\ page = "settings" =>
       /\ \A bit \in {"ram32k", "fdc", "vsp", "pcode", "internal"} :
            marks[bit] = IF bit \in enable THEN {1} ELSE {2}
       /\ \A bit \in {"sp1k", "joyswp"} : marks[bit] = IF bit \in enable THEN {2} ELSE {1}
       /\ marks.tipi = CASE "tipi" \notin enable -> {3}
                         [] "1200" \in enable -> {1}
                         [] OTHER -> {2}
  /\ "pcode" \in enable => "pcode" \in roms
  /\ "tipi" \in enable \/ "internal" \in enable => "tipi" \in roms

\* The screen tells the truth about what is behind it.
ScreenTrue == ShownIsTyped /\ AllReachable /\ SettingsShown
=============================================================================
