-------------------------------- MODULE MCTexts --------------------------------
(***************************************************************************)
(* The text algorithms on bounded inputs: a text of one of four kinds       *)
(* grows rune by rune, and every invariant speaks of the text so far.  A    *)
(* line of the routes file starts with one of Beginnings, so that few runes *)
(* reach each stage of the scanner, and a template with includes may start  *)
(* with a directive.                                                        *)
(***************************************************************************)
EXTENDS RouteLine, TemplateText

CONSTANTS LineRoom,         \* bounds: how many runes are added
          TemplateRoom,
          JadeRoom,
          IncludeRoom

VARIABLES kind, text, room
textVars == <<kind, text, room>>

Call == <<"M", "_", "/", "_", "x">>

Beginnings ==
    {<<>>, <<"M", "_", "/">>, Call \o <<"_">>, Call \o <<"(">>,
     Call \o <<"(", "quote">>, Call \o <<"(", "quote", ")", "quote", ")">>}

\* Nothing, a partial, and one with a name.
FirstPartials ==
    {<<>>, <<"open", "x", "}", "}">>,
     <<"open", "quote", "x", "quote", "_", "x", "}", "}">>}

Alphabet(k) == CASE k = "line" -> Runes
                 [] k = "template" -> {"%", "x", "y"}
                 [] k = "jade" -> {"{", "}", "'", "x"}
                 [] k = "include" -> {"open", "}", "quote", "_", "x"}

TextInit ==
    \/ kind = "line" /\ text \in Beginnings /\ room = LineRoom
    \/ kind = "template" /\ text = <<>> /\ room = TemplateRoom
    \/ kind = "jade" /\ text = <<>> /\ room = JadeRoom
    \/ kind = "include" /\ text \in FirstPartials /\ room = IncludeRoom

TextNext ==
    /\ room > 0
    /\ \E r \in Alphabet(kind) : text' = Append(text, r)
    /\ room' = room - 1
    /\ UNCHANGED kind

TextSpec == TextInit /\ [][TextNext]_textVars

-----------------------------------------------------------------------------
(* routeParseLine accepts a line when, and only when, it is a method, a path  *)
(* that starts with a slash and an action, then arguments in parentheses if   *)
(* any, TLS if wanted and a comment, and it reads them right: a parenthesis,  *)
(* comma or escaped quote within a string ends nothing.  Two slips are part   *)
(* of the meaning: an unknown last word after arguments is accepted, and so   *)
(* is a line without an action.                                               *)
LinesAreRead == kind = "line" => routeParseLine(text) = Meaning(text)

\* Text whose markers are closed has its keys translated and nothing else
\* changed, except when it ends in a % and one other rune; of other text what
\* precedes the open marker is right.  It panics when an open marker ends it.
Localized(provider) ==
    LET out == LocalizeTemplate(text, provider)
        meant == Replaced(text, provider)
        closed == meant.unclosed = <<>>
        size == Len(meant.tail)
        stray == size > 1 /\ meant.tail[size - 1] = "%" /\ meant.tail[size] # "%"
    IN  /\ closed /\ ~stray => out = meant.written
        /\ ~closed => IsPrefix(meant.written, out)
        /\ "panic" \in ToSet(out) <=> meant.unclosed = <<"%", "%", "%">>

\* Quotes within actions become double quotes and nothing else changes;
\* when delimiters do not alternate, still nothing but quotes changes.
JadeFixed ==
    LET out == tempJadeFix(text)
        fixed(i) == IF text[i] = "'" THEN "\"" ELSE text[i]
    IN  /\ Len(out) = Len(text)
        /\ \A i \in DOMAIN text : out[i] \in {text[i], fixed(i)}
        /\ Alternating(text) =>
             \A i \in DOMAIN text :
                out[i] = IF Within(text, i) THEN fixed(i) ELSE text[i]

(* What LocalizeTemplate and tempJadeFix do to the text of a template, on its *)
(* way from the file to the parser: translations in the place of their keys,  *)
(* quotes of actions doubled, no rune lost, added or moved -- with the limits *)
(* named above, of which one is a panic in the loader or the watcher.         *)
TemplatesKeepTheirText ==
    /\ kind = "template" => \A provider \in Providers \ {"none"} :
                                Localized(provider)
    /\ kind = "jade" => JadeFixed

(* {{partial "NAME" /path}} is documented (templateutils.go:13) as a partial  *)
(* with a name.  A text becomes the partials with a name, as definitions,    *)
(* and the text with the other partials in the place of their directives;   *)
(* an unclosed directive and one without a path is an error (20-119).  What  *)
(* is documented is written when, and only when, no name is given: the code  *)
(* leaves out the quote that closes the name (58, 93).  Three slips more: a  *)
(* directive that ends within four bytes is text (Late), one without a word  *)
(* is a panic, a quote alone gives no name.                                 *)
IncludesAreRead ==
    kind = "include" =>
        LET out == parseTemplateIncludeDeps(text)
        IN  /\ out = IncludedUnquoted(text)
            /\ out = Included(text) <=> ~Defines(text)
=============================================================================
