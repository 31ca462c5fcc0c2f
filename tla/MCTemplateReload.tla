-------------------------- MODULE MCTemplateReload --------------------------
(***************************************************************************)
(* A page that includes a layout part and a footer, the part including the  *)
(* footer as well: partials two levels deep, and one reached on two ways;   *)
(* and a note whose extension the watcher does not know.                   *)
(***************************************************************************)
EXTENDS TemplateReload

CONSTANTS page, part, foot, note

T(includes, parses) == [includes |-> includes, parses |-> parses]
Rel(f) == [file |-> f, rooted |-> FALSE]
Abs(f) == [file |-> f, rooted |-> TRUE]

SomeTexts == [f \in {page, part, foot, note} |->
    CASE f = page -> {T(<<Rel(part), Abs(foot)>>, TRUE), T(<<Abs(foot)>>, TRUE), T(<<Rel(note)>>, TRUE)}
      [] f = part -> {T(<<Rel(foot)>>, TRUE), T(<< >>, FALSE)}
      [] f = note -> {T(<< >>, TRUE)}
      [] f = foot -> {T(<< >>, TRUE), T(<< >>, FALSE)}]
=============================================================================
