---------------------------- MODULE ProtocolRequest ----------------------------
(***************************************************************************)
(* Requests of IdentityModel's protocol client: the clone that is sent, the *)
(* parameters it is given by the request, by its grant and by Prepare, and  *)
(* the caller that sends a request again with a new DPoP proof.  All        *)
(* requests are given one list of parameters by the application, as those   *)
(* for a user's tokens are by the application's request parameters.         *)
(*                                                                          *)
(* A list of parameters is a sequence of pairs of a key and a value.        *)
(***************************************************************************)
EXTENDS Naturals, SequencesExt

CONSTANTS
    Requests,        \* requests, each sent once or twice
    Configurations,  \* how the application may have configured them
    Given,           \* the parameters the application may have put into the list
    Application,     \* the list of the application
    None

VARIABLES
    given,      \* what the application put into its list
    lists,      \* the lists: the application's, and those of the clones
    config,     \* config[r]: how request r is configured
    pc,         \* pc[r]: where it is
    proof,      \* proof[r]: its DPoPProofToken, 0 for none
    assertion,  \* assertion[r]: its ClientAssertion, or its clone's, 0 for none
    issued,     \* how many client assertions have been made
    messages    \* messages[r]: what was sent for it

vars == <<given, lists, config, pc, proof, assertion, issued, messages>>

Kinds == {"client_credentials", "refresh_token", "authorization_code", "password", "device_code",
          "token_exchange", "ciba", "pushed"}
Assertions == {"none", "fixed", "service", "factory"}
Labels == {"idle", "ready", "assertion", "prepare", "sent", "refused", "done", "threw", "failed"}

TypeOK ==
    /\ given \in Given
    /\ DOMAIN lists = {Application} \cup Requests
    /\ DOMAIN config = Requests
    /\ pc \in [Requests -> Labels]
    /\ proof \in [Requests -> 0..2]
    /\ assertion \in [Requests -> 0..issued]
    /\ \A r \in Requests : Len(messages[r]) <= 2

Init ==
    /\ given \in Given
    /\ lists = [l \in {Application} \cup Requests |-> IF l = Application THEN given ELSE <<>>]
    /\ config = [r \in Requests |-> None]
    /\ pc = [r \in Requests |-> "idle"]
    /\ proof = [r \in Requests |-> 0]
    /\ assertion = [r \in Requests |-> 0]
    /\ issued = 0
    /\ messages = [r \in Requests |-> <<>>]

-----------------------------------------------------------------------------
(* Parameters.AddRequired and AddOptional.                                 *)

Parameter(required, key, value) ==
    [required |-> required, key |-> key, value |-> value, duplicates |-> FALSE, empty |-> FALSE]
Required(key, value) == Parameter(TRUE, key, value)
Optional(key, value) == Parameter(FALSE, key, value)

ContainsKey(list, key) == \E i \in DOMAIN list : list[i][1] = key

\* Whether adding p throws: a required value that is missing, or a key that is
\* there already, for a required one with another value.
Throws(list, p) ==
    LET contained == ContainsKey(list, p.key)
    IN  IF p.value = None
        THEN p.required /\ ~p.empty /\ ~contained
        ELSE contained /\ ~p.duplicates /\ ~(p.required /\ Contains(list, <<p.key, p.value>>))

IsAdded(list, p) ==
    IF p.value = None
    THEN p.required /\ p.empty
    ELSE p.duplicates \/ ~ContainsKey(list, p.key)

Add(result, p) ==
    IF result.threw \/ Throws(result.list, p)
    THEN [result EXCEPT !.threw = TRUE]
    ELSE [result EXCEPT !.list = IF IsAdded(@, p) THEN Append(@, <<p.key, p.value>>) ELSE @]

AddAll(list, parameters) ==
    LET added[n \in 0..Len(parameters)] ==
            IF n = 0 THEN [list |-> list, threw |-> FALSE] ELSE Add(added[n - 1], parameters[n])
    IN  added[Len(parameters)]

-----------------------------------------------------------------------------
(* The parameters of a request.                                            *)

Resources(c) ==
    [i \in DOMAIN c.resources |->
        [Parameter(c.kind # "pushed", "resource", c.resources[i]) EXCEPT !.duplicates = TRUE]]

\* Those of its kind, without the grant type.
Specific(c) ==
    CASE c.kind = "client_credentials" -> <<Optional("scope", c.scope)>> \o Resources(c)
      [] c.kind = "refresh_token" -> <<Required("refresh_token", "rt"), Optional("scope", c.scope)>> \o Resources(c)
      [] c.kind = "authorization_code" ->
            <<Required("code", "code"), Required("redirect_uri", "uri"), Optional("code_verifier", "v")>> \o Resources(c)
      [] c.kind = "password" ->
            <<Required("username", "user"), [Required("password", None) EXCEPT !.empty = TRUE],
              Optional("scope", c.scope)>> \o Resources(c)
      [] c.kind = "device_code" -> <<Required("device_code", "code")>>
      [] c.kind = "token_exchange" ->
            <<Required("subject_token", "t"), Required("subject_token_type", "type"),
              Optional("audience", None), Optional("scope", c.scope)>>
      [] c.kind = "ciba" -> <<Required("auth_req_id", "id")>> \o Resources(c)
      [] c.kind = "pushed" ->
            <<Required("response_type", "code"), Optional("scope", c.scope), Optional("redirect_uri", "uri"),
              Optional("state", "s")>> \o Resources(c)

Own(c) ==
    IF c.kind = "pushed"
    THEN (IF c.style = "header" THEN <<Required("client_id", "client")>> ELSE <<>>) \o Specific(c)
    ELSE <<Required("grant_type", c.kind)>> \o Specific(c)

\* Those that Prepare adds.
Client(c, value) ==
    (IF c.style = "body" THEN <<Required("client_id", "client"), Optional("client_secret", c.secret)>> ELSE <<>>)
    \o (IF value = 0 THEN <<>>
        ELSE <<Optional("client_assertion_type", "jwt"), Optional("client_assertion", value)>>)

-----------------------------------------------------------------------------
Goto(r, label) == pc' = [pc EXCEPT ![r] = label]

\* Mutant: the clone has the list of the request.
SharedTarget(r) == Application

\* Clone: the list that is added to is the clone's own.
Target(r) == r

\* The caller makes a request; an assertion makes it send its credentials in
\* the body.  Its own factory is asked for each attempt.
Create(r) ==
    /\ pc[r] = "idle"
    /\ \E c \in Configurations :
          /\ config' = [config EXCEPT ![r] =
                IF c.assertion \in {"fixed", "service"} THEN [c EXCEPT !.style = "body"] ELSE c]
          /\ proof' = [proof EXCEPT ![r] = IF c.dpop THEN 1 ELSE 0]
          /\ IF c.assertion \in {"fixed", "service"}
             THEN issued' = issued + 1 /\ assertion' = [assertion EXCEPT ![r] = issued + 1]
             ELSE UNCHANGED <<issued, assertion>>
    /\ Goto(r, "ready")
    /\ UNCHANGED <<given, lists, messages>>

\* request.Clone, and the parameters of its kind.
Send(r) ==
    /\ pc[r] = "ready"
    /\ LET result == AddAll(lists[Application], Own(config[r]))
       IN  /\ lists' = [lists EXCEPT ![Target(r)] = result.list]
           /\ Goto(r, CASE result.threw -> "threw"
                        [] ~result.threw /\ config[r].assertion = "factory" -> "assertion"
                        [] OTHER -> "prepare")
    /\ UNCHANGED <<given, config, proof, assertion, issued, messages>>

ReceiveAssertion(r) ==
    /\ pc[r] = "assertion"
    /\ issued' = issued + 1
    /\ assertion' = [assertion EXCEPT ![r] = issued + 1]
    /\ Goto(r, "prepare")
    /\ UNCHANGED <<given, lists, config, proof, messages>>

FailAssertion(r) ==
    /\ pc[r] = "assertion"
    /\ Goto(r, "failed")
    /\ UNCHANGED <<given, lists, config, proof, assertion, issued, messages>>

\* Prepare, and the message goes out.
Prepare(r) ==
    /\ pc[r] = "prepare"
    /\ LET result == AddAll(lists[Target(r)], Client(config[r], assertion[r]))
           threw == result.threw \/ (config[r].style = "header" /\ assertion[r] # 0)
       IN  /\ lists' = [lists EXCEPT ![Target(r)] = result.list]
           /\ Goto(r, IF threw THEN "threw" ELSE "sent")
           /\ messages' = IF threw THEN messages
                          ELSE [messages EXCEPT ![r] = Append(@, [
                                    parameters |-> result.list, proof |-> proof[r],
                                    basic |-> config[r].style = "header"])]
    /\ UNCHANGED <<given, config, proof, assertion, issued>>

\* The server answers, and may want another proof.
Serve(r) ==
    /\ pc[r] = "sent"
    /\ \E label \in {"refused", "done"} : Goto(r, label)
    /\ UNCHANGED <<given, lists, config, proof, assertion, issued, messages>>

\* The caller puts a new proof, and a new assertion of the service, into the
\* same request and sends it again.
Retry(r) ==
    /\ pc[r] = "refused"
    /\ Len(messages[r]) = 1
    /\ proof[r] # 0
    /\ proof' = [proof EXCEPT ![r] = @ + 1]
    /\ IF config[r].assertion = "service"
       THEN issued' = issued + 1 /\ assertion' = [assertion EXCEPT ![r] = issued + 1]
       ELSE UNCHANGED <<issued, assertion>>
    /\ Goto(r, "ready")
    /\ UNCHANGED <<given, lists, config, messages>>

-----------------------------------------------------------------------------
Step(r) ==
    \/ Create(r) \/ Send(r) \/ ReceiveAssertion(r) \/ FailAssertion(r)
    \/ Prepare(r) \/ Serve(r) \/ Retry(r)

Next == \E r \in Requests : Step(r)

Spec == Init /\ [][Next]_vars

-----------------------------------------------------------------------------
(* The data.                                                               *)

IsData ==
    /\ Application \notin Requests
    /\ None \notin Nat
    /\ \A list \in Given : list \in Seq(STRING \X STRING)
    /\ \A c \in Configurations :
          c \in [kind : Kinds, style : {"header", "body"}, secret : {None} \cup STRING, assertion : Assertions,
                dpop : BOOLEAN, scope : {None} \cup STRING, resources : Seq(STRING)]

-----------------------------------------------------------------------------
(* Properties.                                                             *)

\* A message begins with what the application gave, has what its request adds,
\* and has no key twice unless the application or a resource repeats it; a
\* password that is left empty is added even if the application gave one.
IsWhole(r, m) ==
    LET wanted == Own(config[r]) \o Client(config[r], 0)
    IN  /\ IsPrefix(given, m.parameters)
        /\ \A i \in DOMAIN wanted : wanted[i].value # None =>
              Contains(m.parameters, <<wanted[i].key, wanted[i].value>>)
        /\ \A i, j \in DOMAIN m.parameters :
              i < j /\ m.parameters[i][1] = m.parameters[j][1] =>
                  j <= Len(given) \/ m.parameters[i][1] \in {"resource", "password"}

\* A message has the parameters of another one, but for the value of a client
\* assertion.
Repeats(second, first) ==
    /\ second.basic = first.basic
    /\ Len(second.parameters) = Len(first.parameters)
    /\ \A i \in DOMAIN first.parameters :
          \/ second.parameters[i] = first.parameters[i]
          \/ second.parameters[i][1] = "client_assertion" /\ first.parameters[i][1] = "client_assertion"

\* A request that could be sent once can be sent again, although it and other
\* requests share the application's list of parameters: nothing throws, the
\* second message repeats the first one but for its proof and for a client
\* assertion that the application did not pass in itself, and neither message
\* has lost a parameter or has one twice.
RequestsCanBeSentAgain ==
    \A r \in Requests :
        /\ pc[r] = "threw" => messages[r] = <<>>
        /\ \A i \in DOMAIN messages[r] : IsWhole(r, messages[r][i])
        /\ Len(messages[r]) = 2 =>
              LET first == messages[r][1]
                  second == messages[r][2]
              IN  /\ Repeats(second, first)
                  /\ first.proof # second.proof
                  /\ config[r].assertion \in {"service", "factory"} <=> first.parameters # second.parameters
================================================================================
