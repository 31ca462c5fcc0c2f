------------------------------ MODULE RouteLine ------------------------------
(***************************************************************************)
(* routeParseLine (Router.go): the scanner of a line of the routes file,    *)
(*     METHOD  /path  Controller.Action("fixed","args")  TLS  # comment     *)
(* one rune after the other, in five stages.                                *)
(*                                                                         *)
(* A line is a sequence of runes, of which these are told apart: a blank    *)
(* (space or tab) "_", slash, parentheses, "#", comma, the double quote     *)
(* "quote", the backslash "escape", any letter "x"; a whole valid method is *)
(* the one rune "M", the word TLS the one rune "TLS".                       *)
(***************************************************************************)
EXTENDS Naturals, Sequences, SequencesExt

Runes == {"_", "/", "(", ")", "#", ",", "quote", "escape", "x", "M", "TLS"}

Blank(r) == r = "_"

\* The local variables and results of routeParseLine; bbackslashes counts.
Start == [stage |-> 0, begin |-> FALSE, quoted |-> FALSE, bbackslashes |-> 0,
          buf |-> <<>>, method |-> <<>>, path |-> <<>>, action |-> <<>>,
          fixedArgs |-> <<>>, tls |-> FALSE, found |-> FALSE,
          returned |-> FALSE]

Returned(s, found) == [s EXCEPT !.found = found, !.returned = TRUE]
Begin(s, r) == [s EXCEPT !.begin = TRUE, !.buf = <<r>>]
Keep(s, r) == [s EXCEPT !.buf = Append(@, r)]
GoTo(s, stage) ==
    [s EXCEPT !.stage = stage, !.begin = FALSE, !.buf = <<>>]

Method(s, r) ==
    CASE ~s.begin -> IF Blank(r) THEN s ELSE Begin(s, r)
      [] s.begin /\ ~Blank(r) -> Keep(s, r)
      [] s.begin /\ Blank(r) -> IF s.buf = <<"M">>
                                  THEN GoTo([s EXCEPT !.method = s.buf], 1)
                                  ELSE Returned(s, FALSE)

Path(s, r) ==
    CASE ~s.begin -> IF Blank(r) THEN s
                     ELSE IF r = "/" THEN Begin(s, r) ELSE Returned(s, FALSE)
      [] s.begin /\ ~Blank(r) -> Keep(s, r)
      [] s.begin /\ Blank(r) -> GoTo([s EXCEPT !.path = s.buf], 2)

Action(s, r) ==
    CASE ~s.begin -> IF Blank(r) THEN s ELSE Begin(s, r)
      [] s.begin /\ ~Blank(r) /\ r # "(" -> Keep(s, r)
      [] s.begin /\ (Blank(r) \/ r = "(") ->
            GoTo([s EXCEPT !.action = s.buf], IF r = "(" THEN 3 ELSE 4)

QuotedIgnoringEscapes(s, r) ==
    [Keep(s, r) EXCEPT !.quoted = (r # "quote")]

\* Within quotes: a quote after an even number of backslashes ends them.
Quoted(s, r) ==
    [Keep(s, r) EXCEPT
        !.quoted = ~(r = "quote" /\ s.bbackslashes % 2 = 0),
        !.bbackslashes = IF r = "escape" THEN @ + 1 ELSE 0]

FixedArgs(s, r) ==
    CASE ~s.begin ->
            IF r = "#" THEN Returned(s, FALSE)
            ELSE IF Blank(r) THEN s
            ELSE [Begin(s, r) EXCEPT !.quoted = (r = "quote")]
      [] s.begin /\ s.quoted -> Quoted(s, r)
      [] s.begin /\ ~s.quoted ->
            IF r = ")" THEN GoTo([s EXCEPT !.fixedArgs = s.buf, !.found = TRUE,
                                           !.bbackslashes = 0], 4)
            ELSE IF r \notin {"_", ",", "quote"} THEN Returned(s, FALSE)
            ELSE IF Blank(r) THEN s
            ELSE [Keep(s, r) EXCEPT !.quoted = (r = "quote")]

Tls(s, r) ==
    CASE ~s.begin -> IF r = "#" THEN Returned(s, TRUE)
                     ELSE IF Blank(r) THEN s ELSE Begin(s, r)
      [] s.begin /\ r = "#" -> Returned(s, FALSE)
      [] s.begin /\ Blank(r) ->
            IF s.buf = <<"TLS">> THEN Returned([s EXCEPT !.tls = TRUE], TRUE)
                                 ELSE Returned(s, FALSE)
      [] s.begin /\ ~Blank(r) /\ r # "#" -> Keep(s, r)

Scan(s, r) ==
    CASE s.returned -> s
      [] ~s.returned /\ s.stage = 0 -> Method(s, r)
      [] ~s.returned /\ s.stage = 1 -> Path(s, r)
      [] ~s.returned /\ s.stage = 2 -> Action(s, r)
      [] ~s.returned /\ s.stage = 3 -> FixedArgs(s, r)
      [] ~s.returned /\ s.stage = 4 -> Tls(s, r)

\* What follows the loop.  The last return gives `found' as it stands: after
\* fixedArgs it is true already, whatever word was begun since.
EndOfLine(s) ==
    IF s.returned THEN s
    ELSE IF s.stage \in {0, 1, 3} THEN Returned(s, FALSE)
    ELSE IF s.stage = 2 THEN Returned([s EXCEPT !.action = s.buf], TRUE)
    ELSE IF ~s.begin THEN Returned(s, TRUE)
    ELSE IF s.buf = <<"TLS">> THEN Returned([s EXCEPT !.tls = TRUE], TRUE)
    ELSE Returned(s, s.found)

Results == {"method", "path", "action", "fixedArgs", "tls", "found"}

\* The results that a caller looks at.
routeParseLine(line) ==
    LET after[n \in 0 .. Len(line)] ==
            IF n = 0 THEN Start ELSE Scan(after[n - 1], line[n])
        s == EndOfLine(after[Len(line)])
    IN  IF s.found THEN [f \in Results |-> s[f]] ELSE [found |-> FALSE]

-----------------------------------------------------------------------------
(* What a line means, word by word instead of rune by rune.                  *)

\* The first position of line, from i on, of one of these runes, or the position
\* after its end.
From(line, i, runes) ==
    Min({j \in i .. Len(line) : line[j] \in runes} \cup {Len(line) + 1})

Blanks == {r \in Runes : Blank(r)}
Solids == Runes \ Blanks

Rejected == [found |-> FALSE]

\* How many backslashes come just before i; the first rune of the arguments
\* escapes nothing.  A quote after an odd number is part of a string.
Escapes(args, i) ==
    i - Min({j \in 2 .. i : \A k \in j .. i - 1 : args[k] = "escape"})
Escaped(args, i) == Escapes(args, i) % 2 = 1

\* Is the rune at i, after the first, within a string?
InString(args, i) ==
    Cardinality({j \in 1 .. i - 1 : /\ args[j] = "quote"
                                    /\ j = 1 \/ ~Escaped(args, j)}) % 2 = 1

\* Where the arguments end: the first parenthesis outside strings, not taken
\* for one in the first place.
ArgsEnd(args) ==
    Min({i \in 2 .. Len(args) : args[i] = ")" /\ ~InString(args, i)}
           \cup {Len(args) + 1})

\* The first n runes without the blanks outside strings.
Kept(args, n) ==
    LET kept[k \in 0 .. Len(args)] ==
            IF k = 0 THEN <<>>
            ELSE IF k > 1 /\ Blank(args[k]) /\ ~InString(args, k) THEN kept[k - 1]
            ELSE Append(kept[k - 1], args[k])
    IN  kept[n]

\* The word after action and arguments: TLS, a comment, or nothing.  After
\* arguments an unknown word at the very end of the line goes unnoticed.
Parameter(line, from, result) ==
    LET i == From(line, from, Solids)
        end == From(line, i, {"_", "#"})
        word == SubSeq(line, i, end - 1)
        atEnd == end > Len(line)
    IN  IF word = <<>> THEN result
        ELSE IF word = <<"TLS">> /\ (atEnd \/ Blank(line[end]))
          THEN [result EXCEPT !.tls = TRUE]
        ELSE IF word # <<"TLS">> /\ atEnd /\ result.fixedArgs # <<>> THEN result
        ELSE Rejected

Arguments(line, from, result) ==
    LET i == From(line, from, Solids)
        args == SubSeq(line, i, Len(line))
        end == ArgsEnd(args)
    IN  IF \/ end > Len(args)
           \/ args[1] = "#"
           \/ \E j \in 2 .. end - 1 :
                 ~InString(args, j) /\ args[j] \notin {"_", ",", "quote"}
          THEN Rejected
          ELSE Parameter(args, end + 1,
                         [result EXCEPT !.fixedArgs = Kept(args, end - 1)])

Meaning(line) ==
    LET m == From(line, 1, Solids)
        mEnd == From(line, m, Blanks)
        p == From(line, mEnd, Solids)
        pEnd == From(line, p, Blanks)
        a == From(line, pEnd, Solids)
        aEnd == From(line, a + 1, {"_", "("})
        result == [method |-> SubSeq(line, m, mEnd - 1),
                   path |-> SubSeq(line, p, pEnd - 1),
                   action |-> SubSeq(line, a, aEnd - 1),
                   fixedArgs |-> <<>>, tls |-> FALSE, found |-> TRUE]
    IN  IF result.method # <<"M">> \/ pEnd > Len(line) \/ line[p] # "/" THEN Rejected
        ELSE IF aEnd > Len(line) THEN result
        ELSE IF line[aEnd] = "(" THEN Arguments(line, aEnd + 1, result)
        ELSE Parameter(line, aEnd, result)
=============================================================================
