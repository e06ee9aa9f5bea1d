---------------------- MODULE MCDocumentationPipeline ----------------------
(* The files and the answers with which TLC checks DocumentationPipeline.  *)
EXTENDS DocumentationPipeline

Span(name, parent, line) == [name |-> name, parent |-> parent, line |-> line]

\* A file without content; one without a grammar; two classes with a method
\* of one name; three chunks for two permits.
MCSources ==
    { <<>>,
      << <<>> >>,
      << <<Span("save", <<"A">>, 1), Span("save", <<"B">>, 2)>>,
         <<Span("load", <<>>, 3)>> >>,
      << <<Span("a", <<>>, 1)>>, <<Span("b", <<>>, 2)>>, <<Span("c", <<>>, 3)>> >> }

MCNameOrder == <<"a", "b", "c", "load", "save", "x">>

MCKeySets == {{"openai"}, {"gemini", "anthropic"}}

MCCalls ==
    {<<r, 0>> : r \in {"reader", "verifier", "summarizer"}} \cup
    {<<r, k>> : r \in {"writer", "improver", "rewrite"}, k \in 1 .. 3}

\* The lines the models claim are those of other symbols, or of none.
Entry(label) == [label |-> label, guess |-> <<>>, line |-> 9, length |-> Len(label)]
Claimed(label, line) == [Entry(label) EXCEPT !.line = line]

Qualified(span) == Append(span.parent, span.name)

\* Everything under its qualified name; under the bare one; nothing but an
\* invention.
MCWrites(spans) ==
    IF spans = <<>> THEN {<<Entry(<<"x">>)>>,
                          <<Claimed(<<"x">>, 2), Claimed(<<"c">>, 1), Entry(<<"x">>)>>}
    ELSE { [i \in DOMAIN spans |-> Entry(Qualified(spans[i]))],
           Append([i \in DOMAIN spans |-> Entry(<<spans[i].name>>)], Entry(<<"x">>)),
           <<Entry(<<"x">>)>> }

Draft(label, severity) ==
    [title |-> "t", label |-> label, line |-> 3, severity |-> severity]

MCImproves(spans) ==
    { <<>>,
      <<Draft(<<>>, 2), Draft(<<"x">>, 1)>> \o
          (IF spans = <<>> THEN <<>>
           ELSE <<Draft(Qualified(spans[1]), 1), Draft(<<spans[1].name>>, 1)>>) }

MCGuesses == {<<>>, <<"A">>}
=============================================================================
