------------------------------ MODULE MCHistory ------------------------------
(* History for TLC: two visits of one endpoint, one of another host whose  *)
(* URL mentions the first, and a message without a target URL.             *)
EXTENDS History

Message == [url |-> "shop", header |-> None, line |-> TRUE, method |-> "GET",
            path |-> <<"item", "7">>, params |-> {}, auth |-> {},
            answerAuth |-> {}, pathMarks |-> {}, answerMarks |-> {}, tech |-> {},
            findings |-> << >>, status |-> "ok"]

Visit == [Message EXCEPT !.path = <<"item", "8">>, !.params = {"q"},
                         !.answerAuth = {"cookie_session"}, !.tech = {"nginx"},
                         !.findings = <<"medium", "high">>]
Other == [Message EXCEPT !.url = "api.shop", !.auth = {"bearer_token"},
                         !.pathMarks = {"rest_api"}, !.answerMarks = {"spa"},
                         !.findings = <<"medium">>]
Bare  == [Message EXCEPT !.url = None, !.header = "shop", !.method = "POST",
                         !.status = "failed"]
NoRequest == [Other EXCEPT !.line = FALSE]

MCHosts    == {"shop", "api.shop"}
MCMentions == [h \in MCHosts |-> IF h = "shop" THEN MCHosts ELSE {h}]
MCAnalyses == {Message, Visit, Other, Bare, NoRequest}
MCOld      == {<< >>, <<Visit>>}
MCFilters  == {All, OfHost("shop"), [All EXCEPT !.severity = "medium"]}
=============================================================================
