---------------------------- MODULE MCLineCounter ----------------------------
(***************************************************************************)
(* Texts for the scanners of module Grammars: for each of a set of         *)
(* languages all texts of at most so many of the symbols its scanner tells *)
(* apart, or of some of them.                                              *)
(***************************************************************************)
EXTENDS LineCounter, Grammars

Symbols(regions) ==
    {"nl", "ws", "x"}
        \cup {r.open : r \in regions} \cup ({r.close : r \in regions} \ {"eol"})
        \cup (IF \E r \in regions : r.pair \/ "escaped" \in r.newline
              THEN {"bs"} ELSE {})

Of(symbols, n) == UNION {[1 .. k -> symbols] : k \in 0 .. n}
All ==
    [as |-> as_line, ada |-> ada_line, ampl |-> ampl_line,
     asm |-> asm_line, augeas |-> augeas_line, am |-> am_line,
     awk |-> awk_line, bat |-> bat_line, c |-> c_line,
     cs |-> cs_line, cmake |-> cmake_line, crystal |-> crystal_line,
     css |-> css_line, d |-> d_line, dart |-> dart_line,
     ebuild |-> ebuild_line, eiffel |-> eiffel_line, erlang |-> erlang_line,
     exheres |-> exheres_line, factor |-> factor_line, forth |-> forth_line,
     ffree |-> ffree_line, fsharp |-> fsharp_line, glsl |-> glsl_line,
     golang |-> golang_line, grace |-> grace_line, groovy |-> groovy_line,
     hx |-> hx_line, idl_pvwave |-> idl_pvwave_line, jam |-> jam_line,
     java |-> java_line, limbo |-> limbo_line, livecode |-> livecode_line,
     logtalk |-> logtalk_line, make |-> make_line, metafont |-> metafont_line,
     metapost |-> metapost_line, modula3 |-> modula3_line, nsis |-> nsis_line,
     objc |-> objc_line, objj |-> objj_line, ocaml |-> ocaml_line,
     pascal |-> pascal_line, php |-> php_line, pike |-> pike_line,
     prolog |-> prolog_line, puppet |-> puppet_line, python |-> python_line,
     r |-> r_line, rexx |-> rexx_line, ruby |-> ruby_line,
     rust |-> rust_line, scala |-> scala_line, scilab |-> scilab_line,
     shell |-> shell_line, smalltalk |-> smalltalk_line, sql |-> sql_line,
     sb |-> sb_line, swift |-> swift_line, tcl |-> tcl_line,
     tex |-> tex_line, tex_dtx |-> tex_dtx_line, umple |-> umple_line,
     unrealscript |-> unrealscript_line, vb |-> vb_line, xaml |-> xaml_line,
     xml |-> xml_line, xmlschema |-> xmlschema_line, xslt |-> xslt_line]

\* All texts of up to three symbols, longer ones of the symbols that matter to
\* one region, and still longer ones of those that matter to some.
Longer(l) == UNION {Of(Symbols({r}) \cup {"bs"}, 4) : r \in All[l]}
Longest ==
    [java |-> Of({"nl", "ws", "x", "vt", "/*", "*/"}, 5),
     ocaml |-> Of({"nl", "x", "(*", "*)"}, 6),
     swift |-> Of({"nl", "x", "//", "bs"}, 6),
     ruby |-> Of({"nl", "x", "'", "=begin", "=end", "#"}, 5),
     crystal |-> Of({"nl", "x", "bs", "\"", "%q(", ")"}, 5)]
AllTexts ==
    [l \in DOMAIN All |->
        Of(Symbols(All[l]), 3) \cup Longer(l)
            \cup (IF l \in DOMAIN Longest THEN Longest[l] ELSE {})]

\* Texts that leave something in the queue, or use what is left there.
NextTexts ==
    [l \in DOMAIN All |->
        IF l = "ruby" THEN {<<"x", "'">>, <<"'", "nl", "'">>} ELSE {}]

Php == [php |-> php_line]
PhpTexts == [php |-> Of({"nl", "x", "\"", "/*", "*/"}, 4)]
=============================================================================
