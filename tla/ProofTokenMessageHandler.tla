-------------------------- MODULE ProofTokenMessageHandler --------------------------
(***************************************************************************)
(* ProofTokenMessageHandler of IdentityModel.OidcClient.Extensions: the     *)
(* DPoP handler of the token endpoint's or an API's HttpClient.  The last   *)
(* nonce a response brought is a field of the handler, read and written by  *)
(* every request in flight without a lock.                                  *)
(*                                                                          *)
(* A nonce is the number of the period in which the server issued it; 0     *)
(* stands for no nonce, and a server in period 0 asks for none.             *)
(***************************************************************************)
EXTENDS Naturals, Sequences, FiniteSets

CONSTANTS
    Requests,   \* the calls of SendAsync
    MaxNonce    \* bound of the model: how often the server changes its nonce

VARIABLES
    current,     \* the nonce the server asks for
    nonce,       \* _nonce
    pc,          \* pc[r]: where request r is in SendAsync
    factory,     \* factory[r]: what ClientAssertionFactory does when it is asked again
    sent,        \* sent[r]: the messages of r that left the handler
    responses,   \* responses[r]: the responses to them
    alone,       \* alone[r]: no other request was in flight since r began
    undisturbed  \* undisturbed[r]: the server kept its nonce since r began

vars == <<current, nonce, pc, factory, sent, responses, alone, undisturbed>>

Nonces == 0..MaxNonce
Labels == {"idle", "sent", "answered", "differs", "retry", "resent", "done"}

\* The body has no assertion; or it has one and the options no factory, or one
\* that gives none or throws; or it has one and a factory that gives a fresh one.
Factories == {"no assertion", "kept", "fresh"}

Messages == [nonce : Nonces, assertion : {"none", "first", "second"}]
Responses == [status : {"ok", "refused", "error"}, nonce : Nonces]

TypeOK ==
    /\ current \in Nonces /\ nonce \in Nonces
    /\ pc \in [Requests -> Labels]
    /\ factory \in [Requests -> Factories]
    /\ sent \in [Requests -> Seq(Messages)]
    /\ responses \in [Requests -> Seq(Responses)]
    /\ alone \in [Requests -> BOOLEAN]
    /\ undisturbed \in [Requests -> BOOLEAN]
    /\ \A r \in Requests : pc[r] \in {"sent", "answered", "differs", "retry"} => Len(sent[r]) = 1

Init ==
    /\ current \in {0, 1} \cap Nonces
    /\ nonce = 0
    /\ pc = [r \in Requests |-> "idle"]
    /\ factory \in [Requests -> Factories]
    /\ sent = [r \in Requests |-> <<>>]
    /\ responses = [r \in Requests |-> <<>>]
    /\ alone = [r \in Requests |-> TRUE]
    /\ undisturbed = [r \in Requests |-> TRUE]

InFlight == {r \in Requests : pc[r] \notin {"idle", "done"}}
Goto(r, label) == pc' = [pc EXCEPT ![r] = label]
Response(r) == responses[r][Len(responses[r])]

\* CreateProofToken and the inner handler: the proof carries _nonce as it is now.
SendWith(r, assertion) ==
    sent' = [sent EXCEPT ![r] = Append(@, [nonce |-> nonce, assertion |-> assertion])]

Start(r) ==
    /\ pc[r] = "idle"
    /\ SendWith(r, IF factory[r] = "no assertion" THEN "none" ELSE "first")
    /\ Goto(r, "sent")
    /\ alone' = [q \in Requests |-> IF q = r THEN InFlight = {} ELSE alone[q] /\ q \notin InFlight]
    /\ UNCHANGED <<current, nonce, factory, responses, undisturbed>>

\* What the server answers to a message.  A response that is not about the nonce
\* brings the current one or none.
Answers(m) ==
    {[status |-> "error", nonce |-> n] : n \in {0, current}} \cup
    IF current \in {0, m.nonce}
    THEN {[status |-> "ok", nonce |-> n] : n \in {0, current}}
    ELSE {[status |-> "refused", nonce |-> current]}

Serve(r) ==
    /\ pc[r] \in {"sent", "resent"}
    /\ \E a \in Answers(sent[r][Len(sent[r])]) : responses' = [responses EXCEPT ![r] = Append(@, a)]
    /\ Goto(r, IF pc[r] = "sent" THEN "answered" ELSE "done")
    /\ UNCHANGED <<current, nonce, factory, sent, alone, undisturbed>>

\* The server's nonce expires.
Rotate ==
    /\ current < MaxNonce
    /\ current' = current + 1
    /\ undisturbed' = [r \in Requests |-> undisturbed[r] /\ r \notin InFlight]
    /\ UNCHANGED <<nonce, pc, factory, sent, responses, alone>>

Compare(r) ==
    /\ pc[r] = "answered"
    /\ Goto(r, IF Response(r).nonce # nonce THEN "differs" ELSE "done")
    /\ UNCHANGED <<current, nonce, factory, sent, responses, alone, undisturbed>>

\* Mutant: the nonce is held onto only when the request has succeeded.
HoldAfterSuccess(r) ==
    /\ pc[r] = "differs"
    /\ nonce' = IF Response(r).status = "ok" THEN Response(r).nonce ELSE nonce
    /\ Goto(r, IF Response(r).status = "ok" THEN "done" ELSE "retry")
    /\ UNCHANGED <<current, factory, sent, responses, alone, undisturbed>>

Hold(r) ==
    /\ pc[r] = "differs"
    /\ nonce' = Response(r).nonce
    /\ Goto(r, IF Response(r).status = "ok" THEN "done" ELSE "retry")
    /\ UNCHANGED <<current, factory, sent, responses, alone, undisturbed>>

\* RefreshClientAssertionAsync: the body keeps its assertion unless the factory
\* gives another one.
Refreshed(r, assertion) == IF factory[r] = "fresh" THEN "second" ELSE assertion

\* _nonce is read again: it need not be the nonce of r's own response any more.
Retry(r) ==
    /\ pc[r] = "retry"
    /\ SendWith(r, Refreshed(r, sent[r][1].assertion))
    /\ Goto(r, "resent")
    /\ UNCHANGED <<current, nonce, factory, responses, alone, undisturbed>>

Step(r) == Start(r) \/ Serve(r) \/ Compare(r) \/ Hold(r) \/ Retry(r)
Next == Rotate \/ \E r \in Requests : Step(r)

Spec == Init /\ [][Next]_vars

-----------------------------------------------------------------------------
Refused(r) == pc[r] = "done" /\ Response(r).status = "refused"

\* A request that has the handler to itself is sent again when it is refused for
\* its nonce, and accepted then if the server has kept its nonce, whatever the
\* earlier requests have left in _nonce.  With a factory that works the second
\* message has an assertion the server has not seen.
SoleRefusalsAreOvercome ==
    \A r \in Requests :
        pc[r] = "done" /\ alone[r] /\ responses[r][1].status = "refused" =>
            /\ Len(sent[r]) = 2
            /\ undisturbed[r] => ~Refused(r)
            /\ factory[r] = "fresh" => sent[r][1].assertion # sent[r][2].assertion

\* "failure and nonce was different so we retry": a request whose proof had
\* another nonce than the refusal brings is sent a second time.
RefusalsAreRetried ==
    \A r \in Requests :
        Refused(r) /\ Response(r).nonce # sent[r][1].nonce => Len(sent[r]) = 2

=============================================================================
