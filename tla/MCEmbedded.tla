----------------------------- MODULE MCEmbedded -----------------------------
(***************************************************************************)
(* The hosts of module Grammars with the scanners they embed, and all      *)
(* their texts of at most so many of the symbols that matter to both.      *)
(***************************************************************************)
EXTENDS Embedded, Grammars

AllHosts ==
    [html |-> html_host, mxml |-> mxml_host, mptex |-> mptex_host,
     jsp |-> jsp_host, rhtml |-> rhtml_host, cshtml |-> cshtml_host,
     phtml |-> phtml_host, cs_aspx |-> cs_aspx_host, vb_aspx |-> vb_aspx_host]
Both ==
    [html |-> html_line, mxml |-> mxml_line, mptex |-> mptex_line,
     jsp |-> page_line, rhtml |-> page_line, cshtml |-> page_line,
     phtml |-> page_line, cs_aspx |-> page_line, vb_aspx |-> page_line,
     css |-> css_line, javascript |-> js_line, as |-> as_line,
     tex |-> tex_line, java |-> java_line, ruby |-> ruby_line,
     clearsilver |-> cs_line, php |-> php_line, csharp |-> c_line,
     vb |-> vb_line]

Of(symbols, n) == UNION {[1 .. k -> symbols] : k \in 0 .. n}

\* All ways into and out of the embedded languages.
DoorsOf(h) ==
    UNION {{e.open} \cup e.outries : e \in AllHosts[h].entries}
\* The symbols of the host's own comments and strings.
Rooms(h) == IF AllHosts[h].page THEN {"<!--", "-->", "-", "'", "bs", "<"}
            ELSE UNION {{r.open, r.close} : r \in Both[h]} \ {"eol"}
PageDoors(h) ==
    UNION {{e.open} \cup e.outries : e \in {f \in AllHosts[h].entries : f.inside}}
\* One comment or string of an embedded language.
Inner == [html |-> {"/*", "*/"}, mxml |-> {"\""}, mptex |-> {"%"},
          jsp |-> {"/*", "*/"}, rhtml |-> {"'", "#"}, cshtml |-> {"#"},
          phtml |-> {"'", "//"}, cs_aspx |-> {"\""}, vb_aspx |-> {"'"}]

Basic == {"nl", "x"}
\* No delimiter across others.
Apart(t) ==
    \A i \in 1 .. Len(t) - 1 :
        /\ t[i] = "<" => t[i + 1] \notin {"?", "?>", "%>"}
        /\ t[i] = "/*" => t[i + 1] # "/*"
        /\ t[i] = "*/" => t[i + 1] \notin {"/*", "*/"}
EmbTexts ==
    [l \in DOMAIN Both |->
        IF l \notin DOMAIN AllHosts THEN {}
        ELSE {t \in Of(Basic \cup {"ws"} \cup DoorsOf(l) \cup Rooms(l), 3)
             \cup Of(Basic \cup PageDoors(l) \cup (Rooms(l) \ {"bs", "<"}),
                    IF l \in {"jsp", "phtml"} THEN 4 ELSE 3)
             \cup Of(Basic \cup PageDoors(l) \cup Inner[l],
                    IF l = "jsp" THEN 5 ELSE 4) :
                Apart(t)}]

\* What a second file is: a line of the host's that nothing embedded is on.
NextTexts == [l \in DOMAIN Both |-> IF l = "jsp" THEN {<<"x", "nl">>} ELSE {}]
=============================================================================
