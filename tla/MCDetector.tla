----------------------------- MODULE MCDetector -----------------------------
(***************************************************************************)
(* A small instance of Detector for TLC: for each shared extension all     *)
(* short texts of what its disambiguator looks for, under that extension   *)
(* and under two more, and all short beginnings of files without one.      *)
(***************************************************************************)
EXTENDS Detector

\* The extension of each disambiguator.
Extensions ==
    [e \in Ambiguous |-> IF e = "basic" THEN "bas" ELSE IF e = "fortran" THEN "f" ELSE e]

Shared == {Extensions[e] : e \in Ambiguous}

ExtensionTable ==
    [e \in Shared \cup {"C", "c", "jpg"} |->
       CASE e = "C" -> "cpp" [] e = "c" -> "c" [] e = "jpg" -> BINARY
         [] OTHER -> CHOOSE a \in Ambiguous : Extensions[a] = e]

NameTable == [n \in {"c", "cpp", "perl", "ruby"} |-> n]

FilenameTable == (<<"Makefile">> :> "make") @@ (<<"configure">> :> "autoconf")

Modes == ("-*- C -*-" :> "C") @@ ("-*- mode: Ruby -*-" :> "Ruby")
         @@ ("-*- m -*-" :> "m") @@ ("-*- none -*-" :> "none")

Small == [e \in DOMAIN ExtensionTable \cup DOMAIN NameTable
               \cup {"", "foo", "Makefile", "configure", "IN", "Ruby", "none"} |->
            CASE e = "C" -> "c" [] e = "IN" -> "in" [] e = "Ruby" -> "ruby" [] OTHER -> e]

Says == {<<"ascii">>, <<"an", "xml">>, <<"perl", "-w", "script">>,
         <<"a", "zsh", "script">>, <<"script", "text", "for", "perl", "-w">>}

\* All sequences of at most n of the parts.
Built(parts, n) == {FlattenSeq(s) : s \in BoundedSeq(parts, n)}

\* A file of a shared extension; once is enough to add others.
Of(e, texts) ==
    [names |-> {<<"foo", Extensions[e]>>, <<"foo", Extensions[e], "IN", "in">>},
     texts |-> texts,
     besides |->
       CASE e = "h" -> {{}, {<<"foo", "m">>}}
         [] e = "basic" -> {{}, {<<"foo", "vbs">>}}
         [] e = "m" -> {{}, {<<"", "h">>}, {<<"", "h">>, <<"foo", "cpp">>}}
         [] OTHER -> {{}}]

\* A file whose extension decides nothing, or everything.
Beginning(texts) ==
    [names |-> {<<"foo">>, <<"Makefile">>, <<"configure", "in">>, <<"foo", "none">>,
                <<"foo", "C">>, <<"foo", "jpg", "in">>, <<"foo", "in", "in">>, <<"", "in">>},
     texts |-> texts, besides |-> {{}}]

Groups == {
    Of("aspx", Built({<<"<%@">>, <<"<%@", " ", "page">>, <<"language=\"vb\"">>, <<"%>">>, <<"nl">>}, 4)),
    Of("asx", BoundedSeq({" ", "nl", "<", "x", "nul"}, 3)),
    Of("b", BoundedSeq({"include", " ", "\"", ";", "nl"}, 4)),
    Of("b", Built({<<"implement">>, <<" ">>, <<"case">>, <<"{">>, <<"return">>, <<";">>, <<"10", " ", "x">>}, 2)),
    Of("basic", BoundedSeq({"10", " ", "x", "nl"}, 5)),
    Of("cs", BoundedSeq({"<?cs", "x", "nl"}, 3)),
    Of("dat", BoundedSeq({" ", "nl", "/*", "/", "data", "x"}, 3)),
    Of("def", BoundedSeq({" ", "nl", "(*", "DEFINITION", "x"}, 3)),
    Of("fortran", BoundedSeq({" ", "10", "x", "&", "!", "'", "nl", "C"}, 4)),
    Of("fortran", BoundedSeq({" ", "&", "nl", "'"}, 6)),
    Of("fs", BoundedSeq({"\\ ", "let ", " ", "nl", "x"}, 5)),
    Of("h", BoundedSeq({"class", " ", "nl", "x"}, 4)),
    Of("h", Built({<<"#", " ">>, <<"include", " ">>, <<"<iostream>">>, <<"\"x.hpp\"">>, <<"x">>, <<"nl">>}, 4)),
    Of("inc", BoundedSeq({"?php", "x", "nl"}, 3)),
    Of("m", BoundedSeq({"#", " ", "%", "nl", "endwhile"}, 4)),
    Of("m", BoundedSeq({"&", ",", " ", "(*", "%", "nl"}, 4)),
    Of("m", Built({<<":", " ">>, <<"module">>, <<"+">>, <<"nl">>, <<"(*">>}, 5)),
    Of("m", Built({<<"function", " ">>, <<"(">>, <<"_">>, <<"endwhile">>, <<"nl">>}, 4)),
    Of("mod", BoundedSeq({" ", "nl", "(*", "(", "MODULE", "M", "x"}, 3)),
    Of("pl", BoundedSeq({"#!", "perl", ":-", " ", "nl", "x"}, 4)),
    Of("pp", BoundedSeq({"require", "=>", " ", "x", "nl"}, 4)),
    Of("pp", Built({<<"class", " ", "x">>, <<" ", "inherits">>, <<"nl">>, <<" ", "x">>, <<"{">>, <<"class">>}, 5)),
    Of("pp", Built({<<"define", " ">>, <<"import", " ">>, <<"include", "nl">>, <<"node", " ">>, <<"x">>, <<"(">>, <<"\"">>, <<"{">>}, 3)),
    Of("pro", BoundedSeq({"SOURCES +=", "x", "nl"}, 3)),
    Of("r", BoundedSeq({"rebol", "x", "nl"}, 3)),
    Of("rs", BoundedSeq({"#pragma version", "x", "nl"}, 4)),
    Of("st", BoundedSeq({":", "=", "[", "]", "nl"}, 4)),
    Of("st", Built({<<":", "=">>, <<":", " ", "[">>, <<"]", ".">>, <<"nl">>, <<":">>}, 4)),
    Beginning(BoundedSeq({"#!", "-*- C -*-", "-*- mode: Ruby -*-", "nl", "x"}, 3)),
    Beginning(BoundedSeq({"-*- m -*-", "-*- none -*-", "nl", "%"}, 2))}

Names ==
    {"c", "cpp", "perl", "ruby", "xml", "make", "autoconf", "assembler", "ampl",
     "modula2", "vb_aspx", "cs_aspx", "clearsilver_template", "csharp", "php",
     "idl_pvwave", "puppet", "pascal", "prolog", "rebol", "R", "rust", "limbo",
     "classic_basic", "visualbasic", "structured_basic", "forth", "fsharp",
     "fortranfree", "fortranfixed", "objective_c", "smalltalk", "mathematica",
     "octave", "matlab"}
=============================================================================
