---------------------------- MODULE MCTokenEndpoint ----------------------------
(* Requests to the token endpoint, for TLC: what their DPoP proofs and client *)
(* assertions are over several requests and retries (part "dpop"), and how    *)
(* one is put together and sent again (part "request").  The parts share no   *)
(* state; a behavior is one of one of them.  The requests are numbered and    *)
(* made in that order.                                                        *)
EXTENDS TokenEndpointDPoP

CONSTANTS Requests, Configurations, Given, Application, None

VARIABLES part, given, lists, config, requestPc, proof, requestAssertion, issued, messages

Default == [
    kind |-> "refresh_token", style |-> "body", secret |-> "secret", assertion |-> "none", dpop |-> TRUE,
    scope |-> "s", resources |-> <<"r">>]
Kinds == {"client_credentials", "refresh_token", "authorization_code", "password", "device_code",
          "token_exchange", "ciba", "pushed"}

\* For TLC: every kind of request, and every way to authenticate the client.
TheConfigurations ==
    {[Default EXCEPT !.kind = kind, !.style = style, !.resources = <<"r", "q">>] :
        kind \in Kinds, style \in {"header", "body"}}
    \cup {[Default EXCEPT !.style = style, !.assertion = mode] :
        style \in {"header", "body"}, mode \in AssertionModes \cup {"factory"}}
    \cup {[Default EXCEPT !.secret = None], [Default EXCEPT !.secret = None, !.assertion = "service"],
          [Default EXCEPT !.dpop = FALSE, !.scope = None]}

\* What the application adds: nothing, a parameter the client does not know, one
\* that the request has too, with the same value or another, or one twice.
TheGiven == {
    <<>>, <<<<"tenant", "t">>>>, <<<<"client_id", "client">>>>, <<<<"client_secret", "other">>>>,
    <<<<"resource", "r">>>>, <<<<"password", "p">>>>, <<<<"refresh_token", "other">>>>, <<<<"tenant", "t">>, <<"tenant", "u">>>>}

Request == INSTANCE ProtocolRequest WITH pc <- requestPc, assertion <- requestAssertion

ASSUME RequestAssumption == Request!IsData

requestVars == <<given, lists, config, requestPc, proof, requestAssertion, issued, messages>>

MCInit ==
    /\ part \in {"dpop", "request"}
    /\ IF part = "dpop" THEN Init ELSE Init /\ key = 0 /\ current = 0
    /\ IF part = "request" THEN Request!Init ELSE Request!Init /\ given = <<>>

MCNext ==
    /\ \/ part = "dpop" /\ Next /\ UNCHANGED requestVars
       \/ part = "request" /\ Request!Next /\ UNCHANGED vars
          /\ \A q, r \in Requests : q < r /\ requestPc'[r] # "idle" => requestPc[q] # "idle"
    /\ UNCHANGED part

MCSpec == MCInit /\ [][MCNext]_<<part, vars, requestVars>>

-----------------------------------------------------------------------------
\* A request that could be sent once can be sent again, although it and other
\* requests share the application's list of parameters: nothing throws, the
\* second message repeats the first one but for its proof and for a client
\* assertion that the application did not pass in itself, and neither message
\* has lost a parameter or has one twice.
RequestsCanBeSentAgain == Request!RequestsCanBeSentAgain
================================================================================
