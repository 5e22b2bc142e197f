------------------------------ MODULE ConfFile ------------------------------
(***************************************************************************)
(* The configuration file codec, conf.c (and its copy in libconf/): the    *)
(* type table, the writer conf_save, the parser conf_load and the access   *)
(* by name.  A section is the path of names that leads to it, an entry is  *)
(* a section and a name.  A file is a sequence of lines, whose text is     *)
(* kept as far as the parser tells texts apart.                            *)
(*                                                                         *)
(* The application changes the configuration, saves it, loads it; somebody *)
(* may edit the file; a crash may strike while the file is written, after  *)
(* which the program starts from its defaults.                             *)
(***************************************************************************)
EXTENDS Integers, SequencesExt

CONSTANTS
    Sections,   \* the sections in the order the writer visits them, root first
    Fields,     \* the names of each section's entries, in table order
    Tables,     \* the tables in question: which copy, and the entries' types
    Inputs(_),  \* values the application gives to a variable of a type
    Modulus,    \* 2^n for n = 8, 16, 32, 64
    StrLen,     \* entry->len of a string
    StrSize,    \* size of the array behind it
    Behind,     \* the entry stored right behind a string's array, if any
    Foreign,    \* lines that an edit may put into the file; the text of an entry
                \* is in the form that its type prints, or in no type's
    MaxEdits,   \* bound on the edits of the file
    MaxChanges, \* bound on the changes of variables
    Tears       \* whether a crash may cut a line short

VARIABLES
    table,      \* which copy runs, and the type of every entry
    mem,        \* the configuration in memory
    file, cut,  \* the lines of the file; whether the last one lacks its end
    state,      \* what file is: "old", "part" or "whole" of saved, "edited"
    edits, changes, \* edits of the file and changes of variables so far
    pc,         \* what the program does
    pos, sec,   \* the parser's line and section; <<"skip">> for none
    saved,      \* mem when the file was last written
    before      \* mem when the load began
vars == <<table, mem, file, cut, state, edits, changes, pc, pos, sec, saved, before>>

Known == UNION {{<<s, f>> : f \in ToSet(Fields[s])} : s \in ToSet(Sections)}
Skip == <<"skip">>

ASSUME ConfFileAssumption ==
    /\ Sections \in Seq(ToSet(Sections)) /\ Len(Sections) >= 1
    /\ Sections[1] = <<>> /\ IsInjective(Sections)
    /\ Skip \notin ToSet(Sections)
    /\ \A s \in ToSet(Sections) :
         Fields[s] \in Seq(ToSet(Fields[s])) /\ IsInjective(Fields[s])
    /\ Known # {}
    /\ \A t \in Tables : t.copy \in {"app", "lib"} /\ DOMAIN t.type = Known
    /\ \A t \in Tables, e \in Known : t.type[e] \notin {"VOID", "SECTION"}
    /\ \A e \in DOMAIN Behind :
         e \in Known /\ Behind[e] \in Known /\ Behind[e] # e
    /\ \A n \in {8, 16, 32, 64} : Modulus[n] \in Nat \ {0, 1}
    /\ StrLen \in Nat \ {0} /\ StrSize \in StrLen .. StrLen + 1
    /\ MaxEdits \in Nat /\ MaxChanges \in Nat /\ Tears \in BOOLEAN

-----------------------------------------------------------------------------
(* The type table.                                                         *)

TypeNames ==
    <<"VOID", "SECTION", "INT", "UINT", "FLOAT", "STRING", "BOOLEAN", "CHAR",
      "INT8", "UINT8", "HEX8", "BIN8", "OCT8",
      "INT16", "UINT16", "HEX16", "BIN16", "OCT16",
      "INT32", "UINT32", "HEX32", "BIN32", "OCT32",
      "INT64", "UINT64", "HEX64", "BIN64", "OCT64",
      "IPV4ADDR", "RGB", "RGBI", "CYMK", "RATIO">>

\* The numbers of the types.  In libconf's conf.h INT32 and UINT32 are INT and
\* UINT; in include/conf.h they have numbers of their own, and from INT64 on
\* the numbers are two behind.
Place == [t \in ToSet(TypeNames) |-> SelectInSeq(TypeNames, LAMBDA x : x = t)]
Code ==
    [app |-> [t \in DOMAIN Place |-> IF Place[t] > 23 THEN Place[t] - 3
                                                     ELSE Place[t] - 1],
     lib |-> [t \in DOMAIN Place |->
                CASE t \in {"INT32", "UINT32"} -> Place[t] - 17
                  [] Place[t] > 20 -> Place[t] - 3
                  [] OTHER -> Place[t] - 1]]

\* A pair of get and set functions: how they print, and the width they read.
Fmt(f, n) == [fmt |-> f, bits |-> n]
Stub == Fmt("stub", 8)
Family(n) ==
    <<Fmt("signed", n), Fmt("unsigned", n), Fmt("hex", n), Stub, Stub>>
Basic ==
    <<Fmt("pointer", 64), Fmt("pointer", 64), Fmt("signed", 32),
      Fmt("unsigned", 32), Fmt("float", 64), Fmt("string", 8),
      Fmt("bool", 8), Fmt("char", 8)>>
Bits8 == Family(8)
Bits16 == Family(16)
Bits32 == Family(32)
Bits64 == Family(64)
Other == <<Fmt("ipv4", 32), Stub, Stub, Stub, Stub>>

\* libconf's table has no rows of its own for INT32 and UINT32.
conf_type_tab ==
    [app |-> Basic \o Bits8 \o Bits16 \o Bits32 \o Bits64 \o Other,
     lib |-> Basic \o Bits8 \o Bits16 \o SubSeq(Bits32, 3, 5) \o Bits64 \o Other]
CONF_TYPE(tab, e) == conf_type_tab[tab.copy][Code[tab.copy][tab.type[e]] + 1]
Of(e) == CONF_TYPE(table, e)

(***************************************************************************)
(* t_get.  A text is its form and what it spells.  A float is counted in   *)
(* units of 10^-7, of which "%f" prints the multiples of 10; a char of     *)
(* value 0 stands for a space or the end of a string.                      *)
(***************************************************************************)
Printed(h, v) ==
    CASE h.fmt = "signed" ->
           <<"dec", IF 2 * v >= Modulus[h.bits] THEN v - Modulus[h.bits] ELSE v>>
      [] h.fmt = "unsigned" -> <<"dec", v>>
      [] h.fmt = "hex" -> <<"hex", v>>
      [] h.fmt = "float" -> <<"fixed", (v + 5) \div 10>>
      [] h.fmt = "bool" -> <<"word", v>>
      [] h.fmt = "char" -> IF v = 0 THEN <<"empty">> ELSE <<"raw", v>>
      [] h.fmt = "string" -> <<"quoted", v>>
      [] h.fmt = "ipv4" -> <<"dotted", v>>
      [] OTHER -> <<"null">>

\* A quoted string ends at the next quote, whatever was printed.
UpTo(s, c) ==
    IF Contains(s, c) THEN SubSeq(s, 1, SelectInSeq(s, LAMBDA x : x = c) - 1)
                      ELSE s

\* string_set copies no more than entry->len characters.
Fitted_Unbounded(s) == s
Fitted(s) == SubSeq(s, 1, Min({Len(s), StrLen}))

\* What a variable of a type may hold, and what a text may be.
String == Seq({"text", "quote", "newline"})
AnyOf(h) == 0 .. Modulus[h.bits] - 1
Values(h) ==
    CASE h.fmt = "string" -> {s \in String : Len(s) <= StrLen}
      [] h.fmt = "float" -> Nat
      [] h.fmt = "bool" -> {0, 1}
      [] OTHER -> AnyOf(h)
Texts ==
    ({"dec"} \X Int) \cup ({"hex", "fixed", "dotted"} \X Nat)
    \cup ({"word"} \X {0, 1}) \cup ({"raw"} \X (0 .. Modulus[8] - 1))
    \cup ({"quoted", "open"} \X String)
    \cup {<<"empty">>, <<"null">>, <<"white">>, <<"other">>}
IsLine(l) ==
    /\ l.kind \in {"blank", "comment", "junk", "section", "entry"}
    /\ l.kind = "entry" => l.text \in Texts

ASSUME ValuesAssumption ==
    /\ \A t \in Tables, e \in Known :
         /\ t.type[e] \in ToSet(TypeNames)
         /\ \A v \in Inputs(t.type[e]) : v \in Values(CONF_TYPE(t, e))
    /\ \A l \in Foreign : IsLine(l)

(***************************************************************************)
(* t_set: what the variable may hold after it, old being what it held.     *)
(* "other" is a text that starts with some other line of the file, "white" *)
(* one that is all white space.  When a hex text is none, hex8_set and     *)
(* hex16_set store a local variable that was never set.                    *)
(***************************************************************************)
Scanned(h, old, text) ==
    CASE h.fmt \in {"signed", "unsigned"} ->
           IF text[1] = "dec" THEN {text[2] % Modulus[h.bits]} ELSE {0}
      [] h.fmt = "hex" ->
           IF text[1] = "hex" THEN {text[2] % Modulus[h.bits]}
           ELSE IF text[1] = "other" \/ h.bits < 32 THEN AnyOf(h) ELSE {old}
      [] h.fmt = "float" -> IF text[1] = "fixed" THEN {10 * text[2]} ELSE {old}
      [] h.fmt = "bool" ->
           CASE text[1] = "word" -> {text[2]}
             [] text[1] = "other" -> {old, 0, 1}
             [] OTHER -> {old}
      [] h.fmt = "char" ->
           CASE text[1] = "raw" -> {text[2]}
             [] text[1] = "white" -> {old}
             [] OTHER -> {1}
      [] h.fmt = "string" ->
           CASE text[1] = "quoted" -> {Fitted(UpTo(text[2], "quote"))}
             [] text[1] = "open" ->
                  {IF Contains(text[2], "quote") THEN Fitted(UpTo(text[2], "quote"))
                                                 ELSE <<>>}
             [] text[1] = "white" -> {<<>>}
             [] OTHER -> {Fitted(<<"text">>)}
      [] OTHER -> {old}

\* What else a t_set writes to: a string of the greatest length is ended one
\* byte behind an array of that size, in the first byte of what follows.
Clobbers(e, v) ==
    Of(e).fmt = "string" /\ Len(v) >= StrSize /\ e \in DOMAIN Behind
FirstByteZero(e, v) ==
    IF Of(e).fmt = "string" THEN <<>> ELSE v - (v % Modulus[8])
Assign(e, text) ==
    \E v \in Scanned(Of(e), mem[e], text) :
        mem' = IF Clobbers(e, v)
                 THEN [mem EXCEPT ![e] = v,
                                  ![Behind[e]] = FirstByteZero(Behind[e], @)]
                 ELSE [mem EXCEPT ![e] = v]

-----------------------------------------------------------------------------
(* The writer.                                                             *)

Blank == [kind |-> "blank"]
Junk == [kind |-> "junk"]
Header(s) == [kind |-> "section", name |-> s]
Entry(f, t) == [kind |-> "entry", name |-> f, text |-> t]

\* A newline within a string ends the line; what follows makes no entry.
Line(e, v) ==
    IF Of(e).fmt = "string" /\ Contains(v, "newline")
      THEN <<Entry(e[2], <<"open", UpTo(v, "newline")>>), Junk>>
      ELSE <<Entry(e[2], Printed(Of(e), v))>>

\* write_section: the entries of a section, then its sections in turn.
Body(m, s) ==
    FlattenSeq([j \in 1 .. Len(Fields[s]) |->
                   Line(<<s, Fields[s][j]>>, m[<<s, Fields[s][j]>>])])
write_section_Late(m) ==
    FlattenSeq([i \in 1 .. Len(Sections) - 1 |->
        <<Blank, Header(Sections[i + 1])>> \o Body(m, Sections[i + 1])])
    \o Body(m, Sections[1])
write_section(m) ==
    FlattenSeq([i \in 1 .. Len(Sections) |->
        IF i = 1 THEN Body(m, Sections[1])
                 ELSE <<Blank, Header(Sections[i])>> \o Body(m, Sections[i])])

-----------------------------------------------------------------------------

Default == [e \in Known |-> IF Of(e).fmt = "string" THEN <<>> ELSE 0]

Init ==
    /\ table \in Tables
    /\ mem = Default /\ saved = Default /\ before = Default
    /\ file = <<>> /\ cut = FALSE /\ state = "old" /\ edits = 0 /\ changes = 0
    /\ pc = "idle" /\ pos = 1 /\ sec = <<>>

\* The program changes a variable, as often as the bound allows.
Changing ==
    /\ pc = "idle" /\ changes < MaxChanges /\ changes' = changes + 1
    /\ UNCHANGED <<table, file, cut, state, edits, pc, pos, sec, saved, before>>

\* The application writes a variable, a string with its end within the array.
Modify(e) ==
    /\ Changing
    /\ \E v \in Inputs(table.type[e]) :
         /\ Of(e).fmt = "string" => Len(v) < StrSize
         /\ mem' = [mem EXCEPT ![e] = v]

\* Access by name; NULL stands for the text "NULL".
conf_entry_set(e) ==
    /\ Changing
    /\ \E text \in {Printed(Of(e), v) : v \in Inputs(table.type[e])} \cup {<<"null">>} :
         text # <<"empty">> /\ Assign(e, text)

\* conf_save truncates the file and writes it anew.
Opened ==
    /\ pc = "idle" /\ file' = <<>> /\ cut' = FALSE /\ state' = "part"
    /\ saved' = mem
    /\ UNCHANGED <<table, mem, edits, changes, pos, sec, before>>

\* A string that fills its array has lost its end when the variable behind it
\* has been set since.
Unended(e) ==
    /\ e \in DOMAIN Behind /\ Clobbers(e, mem[e])
    /\ mem[Behind[e]] # FirstByteZero(Behind[e], mem[Behind[e]])

SaveBegin == Opened /\ (\A e \in Known : ~Unended(e)) /\ pc' = "saving"

\* Printing such a string runs on into what follows it: not followed further.
SaveOverread == Opened /\ (\E e \in Known : Unended(e)) /\ pc' = "overread"

SaveEnd ==
    /\ pc = "saving" /\ pc' = "idle"
    /\ file' = write_section(mem) /\ state' = "whole"
    /\ UNCHANGED <<table, mem, cut, edits, changes, pos, sec, saved, before>>

Restart ==
    /\ pc' = "idle" /\ mem' = Default /\ before' = Default
    /\ pos' = 1 /\ sec' = <<>>
    /\ UNCHANGED <<table, edits, changes, saved>>

\* What is left of a line that a crash cut short: all but its end, a piece
\* that makes no entry, a name without its value.
Stumps(l) ==
    {l} \cup (IF l.kind = "blank" THEN {} ELSE {Junk})
        \cup (IF l.kind = "entry" THEN {Entry(l.name, <<"empty">>)} ELSE {})

CrashSaving ==
    /\ pc = "saving" /\ Restart /\ UNCHANGED state
    /\ \E n \in 0 .. Len(write_section(mem)) :
         LET part == SubSeq(write_section(mem), 1, n)
         IN \/ file' = part /\ cut' = FALSE
            \/ /\ Tears /\ n > 0
               /\ \E l \in Stumps(part[n]) : file' = [part EXCEPT ![n] = l]
               /\ cut' = TRUE

CrashLoading == pc = "loading" /\ Restart /\ UNCHANGED <<file, cut, state>>

Edit ==
    /\ pc = "idle" /\ edits < MaxEdits /\ ~cut
    /\ \E l \in Foreign, n \in 1 .. Len(file) + 1 :
         file' = InsertAt(file, n, l)
    /\ edits' = edits + 1 /\ state' = "edited" /\ saved' = Default
    /\ UNCHANGED <<table, mem, cut, changes, pc, pos, sec, before>>

-----------------------------------------------------------------------------
(* conf_load and conf_parse.  An empty file fails to load, as one that     *)
(* does not exist.                                                         *)

LoadBegin ==
    /\ pc = "idle"
    /\ pc' = IF file = <<>> THEN "failed" ELSE "loading"
    /\ before' = mem /\ pos' = 1 /\ sec' = <<>>
    /\ UNCHANGED <<table, mem, file, cut, state, edits, changes, saved>>

Reading(k) == pc = "loading" /\ pos <= Len(file) /\ file[pos].kind \in k
IsCut == cut /\ pos = Len(file)
Parsed(p, s, n) ==
    /\ pc' = p /\ sec' = s /\ pos' = pos + n
    /\ UNCHANGED <<table, file, cut, state, edits, changes, saved, before>>

\* Blank lines, comments, and whatever an unknown section holds.
SkipLine ==
    /\ \/ Reading({"blank", "comment"})
       \/ Reading({"entry", "junk"}) /\ sec = Skip
    /\ Parsed("loading", sec, 1) /\ UNCHANGED mem

section_lookup_Stays(s) == IF s \in ToSet(Sections) THEN s ELSE sec
section_lookup(s) == IF s \in ToSet(Sections) THEN s ELSE Skip

TakeHeader ==
    /\ Reading({"section"})
    /\ IF IsCut THEN Parsed("failed", sec, 0)
                ELSE Parsed("loading", section_lookup(file[pos].name), 1)
    /\ UNCHANGED mem

Malformed ==
    /\ Reading({"junk"}) /\ sec # Skip
    /\ Parsed("failed", sec, 0) /\ UNCHANGED mem

Here == <<sec, file[pos].name>>

UnknownEntry ==
    /\ Reading({"entry"}) /\ sec # Skip
    /\ Here \notin Known /\ Append(sec, file[pos].name) \notin ToSet(Sections)
    /\ Parsed("loading", sec, 1) /\ UNCHANGED mem

\* An entry by the name of a section is assigned as a pointer: the parser
\* then takes for a section whatever is at that address.
SectionAsEntry ==
    /\ Reading({"entry"}) /\ sec # Skip
    /\ Here \notin Known /\ Append(sec, file[pos].name) \in ToSet(Sections)
    /\ Parsed("wild", sec, 1) /\ UNCHANGED mem

\* The value ends with the line.  An empty one is taken to begin with the end
\* of the line and ends with the next line.  A value that the end of the text
\* ends is assigned, but the parser goes on behind the text: what follows is
\* not modelled.
Empty == file[pos].text[1] = "empty"
Value ==
    IF ~Empty THEN file[pos].text
    ELSE IF pos < Len(file) /\ file[pos + 1].kind # "blank" THEN <<"other">>
    ELSE <<"white">>
LastLine == IF Empty /\ ~IsCut THEN pos + 1 ELSE pos
Overrun == LastLine > Len(file) \/ (cut /\ LastLine = Len(file))

TakeEntry ==
    /\ Reading({"entry"}) /\ sec # Skip /\ Here \in Known
    /\ IF Overrun THEN Parsed("wild", sec, 1) /\ UNCHANGED mem
                  ELSE Parsed("loading", sec, LastLine + 1 - pos) /\ Assign(Here, Value)

LoadEnd ==
    /\ pc = "loading" /\ pos > Len(file)
    /\ Parsed("loaded", sec, 0) /\ UNCHANGED mem

Return ==
    /\ pc \in {"loaded", "failed"} /\ pc' = "idle"
    /\ pos' = 1 /\ sec' = <<>> /\ before' = Default
    /\ UNCHANGED <<table, mem, file, cut, state, edits, changes, saved>>

conf_parse ==
    \/ SkipLine \/ TakeHeader \/ Malformed \/ UnknownEntry \/ SectionAsEntry
    \/ TakeEntry \/ LoadEnd

Next ==
    \/ \E e \in Known : Modify(e) \/ conf_entry_set(e)
    \/ SaveBegin \/ SaveOverread \/ SaveEnd \/ CrashSaving \/ CrashLoading \/ Edit
    \/ LoadBegin \/ conf_parse \/ Return

Spec == Init /\ [][Next]_vars

-----------------------------------------------------------------------------
(* Properties.                                                             *)

TypeOK ==
    /\ table \in Tables
    /\ \A e \in Known : mem[e] \in Values(Of(e))
    /\ \A i \in 1 .. Len(file) : IsLine(file[i])
    /\ cut \in BOOLEAN /\ state \in {"old", "part", "whole", "edited"}
    /\ edits \in 0 .. MaxEdits /\ changes \in 0 .. MaxChanges
    /\ pc \in {"idle", "saving", "loading", "loaded", "failed", "overread", "wild"}
    /\ pos \in 1 .. Len(file) + 1 /\ sec \in ToSet(Sections) \cup {Skip}

\* Types the library can print and read, and values that survive it.
Storable(e) ==
    table.type[e] \notin {"VOID", "SECTION", "BIN8", "OCT8", "BIN16", "OCT16",
                       "BIN32", "OCT32", "BIN64", "OCT64",
                       "IPV4ADDR", "RGB", "RGBI", "CYMK", "RATIO"}
Survives(e, v) ==
    CASE table.type[e] = "STRING" -> ~Contains(v, "quote")
      [] table.type[e] = "FLOAT" -> v % 10 = 0
      [] OTHER -> TRUE
Kept == {e \in Known : Storable(e) /\ Survives(e, saved[e])}
\* No variable's value breaks the lines of the file.
Orderly ==
    \A e \in Known :
        /\ table.type[e] = "STRING" => ~Contains(saved[e], "newline")
        /\ table.type[e] = "CHAR" => saved[e] # 0

(***************************************************************************)
(* A file that was saved whole loads, and every variable whose type the    *)
(* library supports has the value it was saved with, whatever it held      *)
(* before the load: printing and scanning, the order of the lines and the  *)
(* look up of sections agree (conf_save against conf_load, conf.c).        *)
(***************************************************************************)
RoundTrip ==
    pc \in {"loaded", "failed"} /\ state = "whole" /\ Orderly =>
        pc = "loaded" /\ \A e \in Kept : mem[e] = saved[e]

\* The variables in the order in which the writer visits them.
Order ==
    FlattenSeq([i \in 1 .. Len(Sections) |->
        [j \in 1 .. Len(Fields[Sections[i]]) |->
            <<Sections[i], Fields[Sections[i]][j]>>]])

\* Setting t to v ends the string in the first byte of e.
FillsUpTo(t, v, e) == Clobbers(t, v) /\ Behind[t] = e

(***************************************************************************)
(* conf_save writes over the only copy, and loading what a crash left of   *)
(* it, at whole lines, restores the first variables in the order of the    *)
(* writer and leaves all the others as they were: never a later one        *)
(* without an earlier one, never a value under another section.  Only the  *)
(* first byte of a variable right behind a restored string that fills its  *)
(* array may be lost (string_set).                                         *)
(***************************************************************************)
CrashKeepsPrefix ==
    pc \in {"loading", "loaded", "failed"} /\ state = "part" /\ ~cut /\ Orderly =>
        \E n \in 0 .. Len(Order) : \A i \in 1 .. Len(Order) :
            Order[i] \in Kept =>
                \/ mem[Order[i]] = (IF i <= n THEN saved ELSE before)[Order[i]]
                \/ /\ i > n
                   /\ mem[Order[i]] = FirstByteZero(Order[i], before[Order[i]])
                   /\ \E j \in 1 .. n : FillsUpTo(Order[j], saved[Order[j]], Order[i])

\* Line i of the file is an entry of e's name in e's section.
Names(i, e) ==
    LET headers == {j \in 1 .. i - 1 : file[j].kind = "section"}
    IN /\ file[i].kind = "entry" /\ file[i].name = e[2]
       /\ e[1] = IF headers = {} THEN <<>> ELSE file[Max(headers)].name

\* Line i of the file sets a string that ends in the first byte of e.
EndsIn(i, e) ==
    \E t \in DOMAIN Behind :
        /\ Names(i, t)
        /\ \E v \in Scanned(Of(t), before[t], file[i].text) : FillsUpTo(t, v, e)

(***************************************************************************)
(* A load changes a variable only where a line, already parsed, in the     *)
(* variable's own section names it: not through an unknown section, not by *)
(* the line of another section.  All that the neighbour's line can do, a   *)
(* string that fills the array right before the variable, is to set its    *)
(* first byte to zero (conf_parse, string_set).  Files with an empty value *)
(* are excepted, as that value takes in the next line, which may be a      *)
(* section's.                                                              *)
(***************************************************************************)
NoEmptyValue ==
    \A i \in 1 .. Len(file) :
        file[i].kind = "entry" => file[i].text # <<"empty">>
LoadLocal ==
    pc \in {"loading", "loaded", "failed"} /\ NoEmptyValue =>
        \A e \in Known :
            \/ mem[e] = before[e]
            \/ \E i \in 1 .. pos - 1 : Names(i, e)
            \/ /\ mem[e] = FirstByteZero(e, before[e])
               /\ \E i \in 1 .. pos - 1 : EndsIn(i, e)

(***************************************************************************)
(* conf_parse reads no further than the end of the text that conf_load has *)
(* terminated (conf.c, "null terminate the string").                       *)
(***************************************************************************)
ParserStaysInside == pc # "wild"
=============================================================================
