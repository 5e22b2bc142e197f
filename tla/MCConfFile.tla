----------------------------- MODULE MCConfFile -----------------------------
(***************************************************************************)
(* A small instance of ConfFile: three sections, one within another, and   *)
(* one entry, x, that takes every type of the table in turn.  The widths   *)
(* are scaled down: 2 to 5 bits for 8 to 64.                               *)
(***************************************************************************)
EXTENDS ConfFile, TLC

MCSections == <<<<>>, <<"session">>, <<"session", "io">>>>
MCFields ==
    (<<>> :> <<"x">>) @@ (<<"session">> :> <<"name">>)
    @@ (<<"session", "io">> :> <<"mode">>)
MCModulus == (8 :> 4) @@ (16 :> 8) @@ (32 :> 16) @@ (64 :> 32)

With(c, t) ==
    [copy |-> c,
     type |-> (<<<<>>, "x">> :> t) @@ (<<<<"session">>, "name">> :> "STRING")
              @@ (<<<<"session", "io">>, "mode">> :> "BOOLEAN")]

\* Types of which the program's own copy has the numbers right.
Right == {"FLOAT", "STRING", "CHAR", "INT8", "HEX8", "BIN8"}
MCTables ==
    {With("app", t) : t \in Right} \cup {With("lib", t) : t \in {"UINT32", "INT64"}}

MCInputs(t) ==
    CASE t = "STRING" ->
           {<<"text", "text">>, <<"text", "quote">>, <<"newline", "text">>,
            <<"text", "text", "text">>}
      [] t = "FLOAT" -> {0, 4, 10}
      [] t \in {"BOOLEAN", "CHAR"} -> {0, 1}
      [] t \in {"INT8", "HEX8", "BIN8"} -> {1, 3}
      [] OTHER -> {3, 15}

\* Lines that an edit may add: an unknown section, a known one, an entry that
\* one section has, one with a string that is too long, one that names a
\* section.
MCForeign ==
    {Header(<<"none">>), Header(<<"session">>), Entry("mode", <<"word", 1>>),
     Entry("name", <<"quoted", <<"text", "text", "text", "text">>>>),
     Entry("io", <<"hex", 0>>)}
NoForeign == {}
\* The arrays are as long as the strings may be, one variable right behind the
\* other, as in struct syscfg.
MCBehind ==
    (<<<<>>, "x">> :> <<<<"session">>, "name">>)
    @@ (<<<<"session">>, "name">> :> <<<<"session", "io">>, "mode">>)
=============================================================================
