------------------------------ MODULE Grammars ------------------------------
(***************************************************************************)
(* The comments and strings of the line counting scanners, one definition  *)
(* per src/parsers/X.rl.  A region says                                    *)
(*   open, close   its delimiters ("eol": it ends before the newline)      *)
(*   mark          what the opening delimiter makes of the line            *)
(*   inner, blank  what another symbol, or a space, inside it does         *)
(*   last          what the closing delimiter does                         *)
(*   without       the symbols it cannot contain                           *)
(*   nested        it can be open several times, and ends with the last    *)
(*   newline       the newlines it can contain: "internal" ones and        *)
(*                 "escaped" ones end a line, a "raw" one is not noticed   *)
(*   pair          a backslash and the symbol after it are read together   *)
(*   long          the opening delimiter has several characters            *)
(*   enqueue, commit   the callbacks of its lines wait until it is closed  *)
(***************************************************************************)

Region(open, close, mark) ==
    [open |-> open, close |-> close, mark |-> mark, inner |-> "none",
     blank |-> "none", last |-> "none", without |-> {},
     nested |-> FALSE, newline |-> {}, pair |-> FALSE, long |-> FALSE,
     enqueue |-> FALSE, commit |-> FALSE]

\* '#' @comment nonnewline*
LineComment(open) == Region(open, "eol", "comment")

\* '//' @comment (escaped_newline %INTERNAL_NL | ws | (nonnewline - ws) @comment)*
ContinuedComment(open) ==
    [LineComment(open) EXCEPT !.inner = "comment", !.newline = {"escaped"}]

\* '/*' @comment (newline %INTERNAL_NL | ws | (nonnewline - ws) @comment)* :>> '*/'
\* The first character of a closing delimiter of several still is (nonnewline - ws).
BlockComment(open, close) ==
    [Region(open, close, "comment") EXCEPT
        !.inner = "comment", !.last = "comment", !.newline = {"internal"},
        !.long = TRUE]

SlashStar == BlockComment("/*", "*/")

\* The same with a closing delimiter of one character, which :>> takes away
\* from the loop.
BraceComment(open, close) ==
    [BlockComment(open, close) EXCEPT !.last = "none", !.long = FALSE]

\* '/+' @comment (... | '/+' @inc @comment | '+/' @dec @comment
\*               | (nonnewline - ws) @comment)* :>> ('+/' when no nest) @comment
NestedComment(open, close) ==
    [BlockComment(open, close) EXCEPT !.nested = TRUE]

\* The same with ^space @comment.
NestedVisible(open, close) ==
    [NestedComment(open, close) EXCEPT !.without = {"vt"}]

\* '/*' @comment (newline %INTERNAL_NL | ws | (nonnewline - ws) @code)* :>> '*/'
WithCode(r) == [r EXCEPT !.inner = "code", !.last = "code"]

\* '<![CDATA[' @code (newline %INTERNAL_NL | ws | (nonnewline - ws) @code)* :>> ']]>'
CodeBlock(open, close) == [WithCode(BlockComment(open, close)) EXCEPT !.mark = "code"]

\* '"' @code ([^\r\n\f"\\] | '\\' nonnewline)* '"'
String(quote) == [Region(quote, quote, "code") EXCEPT !.pair = TRUE]
Strings == {String("'"), String("\"")}

\* '"' @code [^\r\n\f"]* '"'
VerbatimString(quote) == Region(quote, quote, "code")

\* '"' [^\r\n\f"]* '"' @code
AttributeString(quote) == [Region(quote, quote, "none") EXCEPT !.last = "code"]
AttributeStrings == {AttributeString("'"), AttributeString("\"")}

\* '"' ([^\r\n\f"\\] | '\\' nonnewline)* '"' @code
EscapedAttribute(quote) == [AttributeString(quote) EXCEPT !.pair = TRUE]
EscapedAttributes == {EscapedAttribute("'"), EscapedAttribute("\"")}

\* '"' @code (newline %INTERNAL_NL | ws | [^\r\n\f\t "] @code)* '"'
PlainMultilineString(quote) ==
    [Region(quote, quote, "code") EXCEPT
        !.inner = "code", !.newline = {"internal"}]

\* The same with '\\' nonnewline @code.
MultilineString(quote) == [PlainMultilineString(quote) EXCEPT !.pair = TRUE]

\* '%' [qQ]? [(\[{] @code (newline %INTERNAL_NL | ws | ...)* [)\]}]
Bracketed(open, close) ==
    [MultilineString(open) EXCEPT !.close = close, !.long = TRUE]

\* '"' @code (escaped_newline %INTERNAL_NL | ws | [^\t "\\] @code
\*            | '\\' nonnewline @code)* '"'
\* [^\t "\\] is also a newline, which then ends no line.
ContinuedString(quote) ==
    [MultilineString(quote) EXCEPT !.newline = {"escaped", "raw"}]
ContinuedStrings == {ContinuedString("'"), ContinuedString("\"")}

\* ... @enqueue ... @commit
Queued(r) == [r EXCEPT !.enqueue = TRUE, !.commit = TRUE]

\* ... @code at the end
CodeLast(r) == [r EXCEPT !.last = "code"]

\* '"' @enqueue @code (newline %INTERNAL_NL | '\\' newline %INTERNAL_NL | ws
\*                     | [^\r\n\f\t "\\] @code | '\\' nonnewline @code)* '"' @commit
ShellString(quote) ==
    Queued([MultilineString(quote) EXCEPT !.newline = {"internal", "escaped"}])
ShellStrings == {ShellString("'"), ShellString("\"")}

-----------------------------------------------------------------------------
(* The scanners.                                                           *)

as_line ==
    {LineComment("//"), SlashStar, CodeBlock("<![CDATA[", "]]>")} \cup Strings
ada_line == {LineComment("--"), VerbatimString("\"")}
ampl_line == {LineComment("#"), SlashStar}
asm_line ==
    {LineComment("//"), LineComment(";"), LineComment("!"), SlashStar, String("\"")}
augeas_line == {NestedComment("(*", "*)"), String("\"")}
am_line == {LineComment("#")} \cup Strings
awk_line == {LineComment("#"), String("\""), String("/")}
bat_line == {LineComment("rem"), LineComment("@rem"), LineComment("::")}
c_line == {ContinuedComment("//"), SlashStar} \cup ContinuedStrings
cs_line == {LineComment("#"), String("\"")}
cmake_line == {LineComment("#"), Queued(CodeLast(MultilineString("\"")))}
crystal_line ==
    {LineComment("#"), Queued(BlockComment("=begin", "=end")),
     EscapedAttribute("/")} \cup
    {Queued(CodeLast(r)) : r \in
        {MultilineString("\""), MultilineString("bq"),
         Bracketed("%q(", ")"), Bracketed("%w(", ")")}}
css_line == {SlashStar, MultilineString("'"), MultilineString("\"")}
d_line ==
    {ContinuedComment("//"), SlashStar, NestedVisible("/+", "+/"),
     ContinuedString("bq")} \cup ContinuedStrings
dart_line == {ContinuedComment("//"), SlashStar}
ebuild_line == {LineComment("#")} \cup Strings
eiffel_line == {LineComment("--"), VerbatimString("\"")}
erlang_line == {LineComment("%%")} \cup Strings
exheres_line == {LineComment("#")} \cup Strings
factor_line == {LineComment("!"), MultilineString("\"")}
forth_line ==
    {LineComment("bs"), BraceComment("(", ")"), VerbatimString("\"")}
ffree_line ==
    {LineComment("!"), PlainMultilineString("'"), PlainMultilineString("\"")}
fsharp_line ==
    {ContinuedComment("//"), BlockComment("(*", "*)")} \cup ContinuedStrings
glsl_line == {ContinuedComment("//"), SlashStar} \cup ContinuedStrings
golang_line == {ContinuedComment("//"), SlashStar} \cup ContinuedStrings
grace_line ==
    {LineComment("//"),
     Queued([PlainMultilineString("\"") EXCEPT !.without = {"bs"}])}
groovy_line == {ContinuedComment("//"), SlashStar} \cup ContinuedStrings
hx_line == {ContinuedComment("//"), SlashStar} \cup Strings
idl_pvwave_line == {LineComment(";")}
jam_line ==
    {LineComment("#"),
     Queued(MultilineString("'")), Queued(MultilineString("\""))}
java_line == {LineComment("//"), SlashStar} \cup Strings
\* A string without spaces; only one of the two is enqueued.
limbo_line ==
    {LineComment("#")} \cup
    {[MultilineString(quote) EXCEPT
        !.newline = {}, !.without = {"ws"},
        !.enqueue = (quote = "\""), !.commit = TRUE] : quote \in {"'", "\""}}
livecode_line ==
    {LineComment("--"), LineComment("#"), LineComment("//"), SlashStar,
     String("\"")}
logtalk_line == {LineComment("%"), SlashStar} \cup Strings
make_line == {LineComment("#")} \cup Strings
metafont_line == {LineComment("%"), String("\"")}
metapost_line == {LineComment("%"), String("\"")}
modula3_line == {NestedVisible("(*", "*)")} \cup ContinuedStrings
nsis_line ==
    {LineComment("#"), LineComment(";"), SlashStar, String("bq")} \cup Strings
objc_line == {ContinuedComment("//"), SlashStar} \cup Strings
objj_line == {ContinuedComment("//"), SlashStar} \cup Strings
ocaml_line == {NestedComment("(*", "*)"), String("\"")}
pascal_line ==
    {LineComment("//"), WithCode(BlockComment("(*", "*)")),
     BraceComment("{", "}"), MultilineString("'")}
php_line ==
    {LineComment("//"), LineComment("#"), SlashStar} \cup
    {Queued(CodeLast([MultilineString(quote) EXCEPT !.blank = "code"])) :
        quote \in {"'", "\""}}
pike_line == {LineComment("//"), SlashStar} \cup Strings
prolog_line == {LineComment("%"), SlashStar} \cup Strings
puppet_line == {LineComment("#"), WithCode(SlashStar), MultilineString("'")}
python_line ==
    {LineComment("#"), LineComment("//"), SlashStar,
     BlockComment("'''", "'''"),
     BlockComment("\"\"\"", "\"\"\"")} \cup EscapedAttributes
r_line == {LineComment("#")} \cup Strings
rexx_line == {NestedVisible("/*", "*/")} \cup Strings
ruby_line == crystal_line \cup {Queued(CodeLast(MultilineString("'")))}
rust_line == {ContinuedComment("//"), SlashStar, ContinuedString("\"")}
scala_line == {LineComment("//"), SlashStar} \cup Strings
scilab_line == {LineComment("//")} \cup Strings
shell_line == {LineComment("#")} \cup ShellStrings
smalltalk_line == {BraceComment("\"", "\""), VerbatimString("'")}
sql_line ==
    {LineComment("--"), LineComment("#"), LineComment("//"), SlashStar,
     BraceComment("{", "}")} \cup Strings
sb_line == {LineComment("'"), LineComment("rem"), String("\"")}
swift_line == {ContinuedComment("//"), SlashStar}
tcl_line ==
    {ContinuedComment("#"),
     [ContinuedString("\"") EXCEPT !.newline = {"escaped"}]}
tex_line == {LineComment("%")}
tex_dtx_line == {LineComment("%%")}
umple_line == {LineComment("//"), SlashStar} \cup Strings
unrealscript_line == {LineComment("//"), SlashStar} \cup ContinuedStrings
vb_line == {LineComment("'"), LineComment("rem"), String("\"")}
xaml_line ==
    {BlockComment("<!--", "-->"), CodeBlock("<![CDATA[", "]]>")} \cup
    AttributeStrings
xml_line ==
    {BlockComment("<!--", "-->"), CodeBlock("<![CDATA[", "]]>")} \cup
    AttributeStrings
xmlschema_line ==
    {BlockComment("<!--", "-->"), CodeBlock("<![CDATA[", "]]>")} \cup
    EscapedAttributes
xslt_line ==
    {BlockComment("<!--", "-->"), CodeBlock("<![CDATA[", "]]>")} \cup
    EscapedAttributes

-----------------------------------------------------------------------------
(* The scanners that embed others.  An entry says                          *)
(*   open, lang    its delimiter and the language it goes to               *)
(*   outries       the delimiters that go back, of which those in          *)
(*   checked       run check_blank_outry, those in                         *)
(*   coded         run code, and those in                                  *)
(*   alone         have only one character                                 *)
(*   inside        it is looked for in the host's comments and strings too *)
(*   own           what is in front of it on a line that it ends is        *)
(*                 reported in the embedded language                       *)
(* A host that is a page reads its comments and strings with machines of   *)
(* their own, and ends its lines with emb_newline and emb_internal_newline. *)

Entry(open, lang, outries) ==
    [open |-> open, lang |-> lang, outries |-> outries, checked |-> outries,
     coded |-> outries, alone |-> {}, inside |-> FALSE, own |-> FALSE]

\* html_css_entry, html_css_outry, html_js_entry, html_js_outry
css_entry == Entry("<style>", "css", {"</style>"})
js_entry == Entry("<script>", "javascript", {"</script>"})

\* jsp_java_entry, jsp_java_outry
PageEntry(open, lang, close) ==
    [Entry(open, lang, {close}) EXCEPT !.inside = TRUE]

\* phtml_php_outry runs p = ts; fret already with its first character, before
\* any other action: any ? goes back.
php_entry ==
    [Entry("<?php", "php", {"?>", "?", "<?php"}) EXCEPT
        !.checked = {}, !.coded = {"<?php"}, !.alone = {"?"},
        !.inside = TRUE, !.own = TRUE]

\* cs_aspx_cs_entry, cs_aspx_cs_outry: only </script> runs check_blank_outry.
AspEntry(open, lang) ==
    [Entry(open, lang, {"%>", "</script>"}) EXCEPT
        !.checked = {"</script>"}, !.inside = (open = "<%")]
AspEntries(lang) == {AspEntry("<%", lang), AspEntry("<script server>", lang)}

Markup(entries) == [entries |-> entries, page |-> FALSE]
Page(entries) ==
    [entries |-> {css_entry, js_entry} \cup entries, page |-> TRUE]

html_host == Markup({css_entry, js_entry})
mxml_host ==
    Markup({Entry("<style>", "css", {"</style>"}),
            Entry("<script>", "as", {"</script>"})})
mptex_host == Markup({Entry("btex", "tex", {"etex"})})
jsp_host == Page({PageEntry("<%", "java", "%>")})
rhtml_host == Page({PageEntry("<%", "ruby", "%>")})
cshtml_host == Page({PageEntry("<?cs", "clearsilver", "?>")})
phtml_host == Page({php_entry})

\* With C_LANG set to LANG_CSHARP while it parses.
cs_aspx_host == Page(AspEntries("csharp"))
vb_aspx_host == Page(AspEntries("vb"))

\* The hosts' own comments and strings; those of a page are no regions.
html_line == {BlockComment("<!--", "-->")} \cup EscapedAttributes
mxml_line ==
    {BlockComment("<!--", "-->"), MultilineString("'"), MultilineString("\"")}
mptex_line == {LineComment("%"), String("\"")}
page_line == {}

\* Without js_regex_str, whose first character may be a newline.
js_line == {LineComment("//"), SlashStar} \cup ContinuedStrings
=============================================================================
