--------------------------- MODULE MCMessageIntake ---------------------------
(* MessageIntake for TLC: every text of a head of up to four characters,   *)
(* an empty line of either kind and a body, absent, empty, short, binary,  *)
(* long or with an empty line of its own, so that each of the two texts,   *)
(* both, or neither go over the limit and over limit and marker, and that  *)
(* a cut takes away the empty line that hid a control character, or not.   *)
EXTENDS MessageIntake

Heads  == {<<"head">>, <<"head", "head">>, <<"head", "head", "head", "head">>}
Bodies == {<< >>, <<"char">>, <<"control">>, <<"char", "char">>,
           <<"char", "lf", "char", "control">>,
           <<"control", "crlf">>,
           <<"control", "char", "char", "crlf", "char">>,
           <<"char", "char", "char", "char", "char">>}

MCTexts == Heads \cup {head \o <<line>> \o body :
                         head \in Heads, line \in EmptyLines, body \in Bodies}
=============================================================================
