----------------------------- MODULE TemplateText -----------------------------
(***************************************************************************)
(* The three rewritings of the text of a template: parseTemplateIncludeDeps *)
(* (templateutils.go) puts partials in the place of {{partial path}},        *)
(* LocalizeTemplate (i18n.go) replaces %%%key%%% by its translation,         *)
(* tempJadeFix (jadefix.go) turns the single quotes within {{ }} into       *)
(* double ones.                                                             *)
(*                                                                         *)
(* A text is a sequence of runes, of which "open" stands for the ten bytes  *)
(* that begin a directive and "quote" for a double quote.  A translation is *)
(* its key between "<" and ">"; the provider of translations is external.   *)
(* A partial is one rune, the path it was read from: whether it can be read, *)
(* where it leads and what its own text includes is TemplateReload's.       *)
(***************************************************************************)
EXTENDS Naturals, Sequences, SequencesExt

\* What LocalizeTemplate is given: no provider, one that lacks the language,
\* one that has it.
Providers == {"none", "other", "language"}

T(provider, key) ==
    IF provider = "language" THEN <<"<">> \o key \o <<">">> ELSE key

Panic == <<"panic">>

MarkerAt(text, i) ==
    i \in 1 .. Len(text) - 2 /\ \A j \in i .. i + 2 : text[j] = "%"

CloseAtTwo(text, k) ==
    Min({j \in k .. Len(text) :
           \/ j < Len(text) /\ text[j] = "%" /\ text[j + 1] = "%"
           \/ j = Len(text)})

\* The capture that starts at k stops at a marker, at %% before the end, or at
\* the last rune.
CaptureEnd(text, k) ==
    Min({j \in k .. Len(text) :
           \/ MarkerAt(text, j)
           \/ j = Len(text) - 1 /\ text[j] = "%" /\ text[j + 1] = "%"
           \/ j = Len(text)})

\* What the loop writes from position i on, out[j] being what it writes from a
\* later position j on.  Two cases look odd and are the code's: a % before the last
\* rune is written as that rune, and the capture after a marker that ends the text
\* reads beyond the text.
LocalizeFrom(text, provider, i, out) ==
    LET max == Len(text)
        end == CaptureEnd(text, i + 3)
    IN  IF i > max THEN <<>>
        ELSE IF text[i] # "%" \/ i = max THEN <<text[i]>> \o out[i + 1]
        ELSE IF i + 1 = max THEN <<text[max]>> \o out[i + 1]
        ELSE IF ~MarkerAt(text, i) THEN <<text[i]>> \o out[i + 1]
        ELSE IF i + 2 = max THEN <<"%", "%", "%">> \o Panic
        ELSE IF MarkerAt(text, end)
          THEN T(provider, SubSeq(text, i + 3, end - 1)) \o out[end + 3]
        ELSE <<text[end]>> \o out[end + 1]

LocalizeTemplate(text, provider) ==
    LET out[i \in 1 .. Len(text) + 3] == LocalizeFrom(text, provider, i, out)
    IN  IF provider = "none" THEN text ELSE out[1]

\* One turn of the loop over the runes; inside is the depth, prev the rune
\* before.
JadeRune(s, r) ==
    [buf |-> Append(s.buf, IF s.inside > 0 /\ r = "'" THEN "\"" ELSE r),
     inside |-> CASE r = "{" /\ s.prev = "{" -> s.inside + 1
                  [] r = "}" /\ s.prev = "}" -> s.inside - 1
                  [] OTHER -> s.inside,
     prev |-> r]

JadeStart == [buf |-> <<>>, inside |-> 0, prev |-> "none"]

tempJadeFix(text) ==
    LET after[n \in 0 .. Len(text)] ==
            IF n = 0 THEN JadeStart ELSE JadeRune(after[n - 1], text[n])
    IN  after[Len(text)].buf

\* TrimSpace.
Trim(s) ==
    LET ink == {i \in DOMAIN s : s[i] # "_"}
    IN  IF ink = {} THEN <<>> ELSE SubSeq(s, Min(ink), Max(ink))

\* The name is cut off before the last quote and keeps the first: {{define "NAME}} is
\* what is written.
NameOf(s) ==
    IF Head(s) # "quote" THEN <<>>
    ELSE SubSeq(s, 1, Max({i \in DOMAIN s : s[i] = "quote"}) - 1)
PathOf(s) ==
    IF Head(s) # "quote" THEN s
    ELSE Trim(SubSeq(s, Max({i \in DOMAIN s : s[i] = "quote"}) + 1, Len(s)))

\* Back to the text, with nothing left in wb.
KeepWb(s) == [s EXCEPT !.mode = "text"]
Reset(s) == [s EXCEPT !.mode = "text", !.wb = <<>>]

\* What a directive does to the two buffers, stackb and fb.  Without a word it
\* reads the first byte of nothing; without a path it reads a folder.
Partial(s, word) ==
    IF word = <<>> THEN [s EXCEPT !.mode = "panic"]
    ELSE LET path == PathOf(word) IN
         IF path = <<>> THEN [s EXCEPT !.mode = "error"]
         ELSE IF NameOf(word) = <<>>
           THEN [Reset(s) EXCEPT !.fb = Append(@, path)]
           ELSE [Reset(s) EXCEPT
                   !.stackb = @ \o <<<<"define", NameOf(word)>>, path, "end">>]

Bytes(text, i) ==
    Len(text) - i + 1 + 9 * Cardinality({j \in i .. Len(text) : text[j] = "open"})

\* A directive is looked for where more than 13 bytes are left.
Opens(text, i) == text[i] = "open" /\ Bytes(text, i) > 13

IncludeStart == [mode |-> "text", wb |-> <<>>, fb |-> <<>>, stackb |-> <<>>]

\* One turn of the loops.  A directive is read up to the first brace, after which
\* must come another.
IncludeRune(text, s, i) ==
    CASE s.mode = "text" /\ Opens(text, i) -> [s EXCEPT !.mode = "body"]
      [] s.mode = "text" /\ ~Opens(text, i) -> [s EXCEPT !.fb = Append(@, text[i])]
      [] s.mode = "body" /\ text[i] = "}" -> [s EXCEPT !.mode = "brace"]
      [] s.mode = "body" /\ text[i] # "}" -> [s EXCEPT !.wb = Append(@, text[i])]
      [] s.mode = "brace" /\ text[i] = "}" -> Partial(s, Trim(s.wb))
      [] s.mode = "brace" /\ text[i] # "}" -> [s EXCEPT !.mode = "error"]
      [] OTHER -> s

\* The input ends: within a directive that is an error.
IncludeEnd(s) ==
    IF s.mode = "text" THEN s.stackb \o s.fb
    ELSE IF s.mode \in {"body", "brace"} THEN <<"error">> ELSE <<s.mode>>

parseTemplateIncludeDeps(text) ==
    LET after[n \in 0 .. Len(text)] ==
            IF n = 0 THEN IncludeStart ELSE IncludeRune(text, after[n - 1], n)
    IN  IncludeEnd(after[Len(text)])

-----------------------------------------------------------------------------
(* What the three are meant to do.                                           *)

\* A directive is {{partial /path}} or {{partial "NAME" /path}}.  It ends with the first
\* brace behind its beginning and the rune after it.
EndOf(text, i) == Min({j \in i .. Len(text) : text[j] = "}"} \cup {Len(text) + 1}) + 1
Closed(text, i) == EndOf(text, i) <= Len(text) /\ text[EndOf(text, i)] = "}"
Word(text, i) == Trim(SubSeq(text, i + 1, EndOf(text, i) - 2))

\* A slip of the code: with fewer than four bytes behind it, it is text.
Late(text, i) == Len(text) < i + 4 /\ \A j \in i + 1 .. Len(text) : text[j] # "open"
Directive(text, i) == text[i] = "open" /\ ~Late(text, i)

\* NAME is what the first quote and the last one enclose, the path what follows them.
\* Another slip: a quote alone gives no name.
Quotes(word) == {j \in DOMAIN word : word[j] = "quote"}
Named(word) == word[1] = "quote" /\ Quotes(word) # {1}
Name(word) == SubSeq(word, 2, Max(Quotes(word)) - 1)
Place(word) == IF word[1] = "quote"
                THEN Trim(SubSeq(word, Max(Quotes(word)) + 1, Len(word))) ELSE word

\* {{define "NAME"}}, path, {{end}}, when closing is a quote: a template that others
\* can name.  Without one it is what no parser takes.
Definition(word, closing) ==
    <<<<"define", <<"quote">> \o Name(word) \o closing>>, Place(word), "end">>

Stop(wrong) == [defined |-> <<>>, kept |-> <<>>, wrong |-> wrong]

\* From position i on, until something is wrong: the definitions, in their order, and
\* the text with a partial in the place of each directive without a name.
IncludedFrom(text, i, closing, out) ==
    LET word == Word(text, i)
        rest == out[EndOf(text, i) + 1]
    IN  IF i > Len(text) THEN Stop("nothing")
        ELSE IF ~Directive(text, i) THEN [out[i + 1] EXCEPT !.kept = <<text[i]>> \o @]
        ELSE IF ~Closed(text, i) THEN Stop("error")
        ELSE IF word = <<>> THEN Stop("panic")
        ELSE IF Place(word) = <<>> THEN Stop("error")
        ELSE IF Named(word) THEN [rest EXCEPT !.defined = Definition(word, closing) \o @]
        ELSE [rest EXCEPT !.kept = <<Place(word)>> \o @]

IncludedParts(text, closing) ==
    LET out[i \in 1 .. Len(text) + 1] == IncludedFrom(text, i, closing, out)
    IN  out[1]

Whole(parts) ==
    IF parts.wrong = "nothing" THEN parts.defined \o parts.kept ELSE <<parts.wrong>>

\* As documented, and with the closing quotes of the names left out.
Included(text) == Whole(IncludedParts(text, <<"quote">>))
IncludedUnquoted(text) == Whole(IncludedParts(text, <<>>))

\* Does it define templates, and nothing is wrong with it?
Defines(text) ==
    LET parts == IncludedParts(text, <<"quote">>)
    IN  parts.wrong = "nothing" /\ parts.defined # <<>>

\* The first marker from i on; none: a position after the text.
Marker(text, i) ==
    Min({j \in i .. Len(text) : MarkerAt(text, j)} \cup {Len(text) + 1})

\* Keys between markers are translated, the rest is kept, as far as every marker
\* that opens is closed: from position i on, and from the beginning.
ReplacedFrom(text, provider, i, out) ==
    LET open == Marker(text, i)
        close == Marker(text, open + 3)
    IN  IF open <= Len(text) /\ close <= Len(text)
          THEN [out[close + 3] EXCEPT
                  !.written = SubSeq(text, i, open - 1)
                                \o T(provider, SubSeq(text, open + 3, close - 1)) \o @]
          ELSE [written |-> SubSeq(text, i, open - 1),
                tail |-> SubSeq(text, i, open - 1),
                unclosed |-> SubSeq(text, open, Len(text))]

Replaced(text, provider) ==
    LET out[i \in 1 .. Len(text) + 1] == ReplacedFrom(text, provider, i, out)
    IN  out[1]

\* Does the delimiter that is d twice end at i?
Delimiter(text, i, d) == i > 1 /\ text[i - 1] = d /\ text[i] = d

\* Is i within an action: {{ has ended before it and no }} since?
Within(text, i) ==
    \E j \in 2 .. i - 1 :
        /\ Delimiter(text, j, "{")
        /\ ~\E k \in j + 1 .. i - 1 : Delimiter(text, k, "}")

\* The delimiters alternate: no {{ within an action, no }} outside.
Alternating(text) ==
    \A i \in 1 .. Len(text) :
        /\ Delimiter(text, i, "{") => ~Within(text, i)
        /\ Delimiter(text, i, "}") => Within(text, i)

=============================================================================
