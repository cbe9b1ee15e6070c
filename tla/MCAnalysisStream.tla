-------------------------- MODULE MCAnalysisStream --------------------------
(* AnalysisStream for TLC.  The objects are one without findings, one with *)
(* a finding and one with a brace in a string; the answers are what        *)
(* backend/tests/test_result_parser.py tries, what breaks the parser, a    *)
(* draft before the analysis, and the rest of an answer that broke off.    *)
EXTENDS AnalysisStream

Empty   == <<"{", "members", "}">>
Finding == <<"{", "members", "{", "}", "}">>
InText  == <<"{", "members", "}s", "}">>
Rest    == <<"{", "}", "}">>

MCResultObjects == {Empty, Finding, InText}
MCAnswers ==
  {Finding, <<"fence", "prose", "fence", "fence">> \o Empty \o <<"fence">>,
   <<"prose">> \o Empty \o <<"}">>, InText, <<"prose">>,
   Empty \o Finding, Rest}
=============================================================================
