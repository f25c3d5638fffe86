-------------------------- MODULE TokenEndpoint_proofs --------------------------
(***************************************************************************)
(* Requests to the token endpoint.  Keys, nonces and client assertions, for *)
(* any number of logins and clients, of key changes, of nonces and of       *)
(* exchanges; and a request that is put together and sent again, for any    *)
(* number of requests, for every configuration, and for all parameters that *)
(* the application gives.                                                   *)
(***************************************************************************)
EXTENDS MCTokenEndpoint, FiniteSetTheorems, SequenceTheorems, TLAPS

\* The types, with the numbers of the client assertions unbounded.
AnyMessages == [nonce : Nat, key : Keys, jti : Nat]
AnyResponses == [status : {"ok", "refused", "error"}, nonce : Nat]

Typing ==
    /\ key \in Keys /\ current \in Nat /\ store \in Nat
    /\ pc \in [Flows -> Labels]
    /\ assertion \in [Flows -> AssertionModes]
    /\ jwk \in [Flows -> Keys] /\ bound \in [Flows -> Keys]
    /\ seen \in [Flows -> SUBSET Nat]
    /\ sent \in [Flows -> Seq(AnyMessages)]
    /\ responses \in [Flows -> Seq(AnyResponses)]

\* What has been sent and answered at each label.
Shape(f) ==
    /\ pc[f] \in {"idle", "redirected"} => sent[f] = <<>>
    /\ pc[f] = "sent" => Len(sent[f]) = Len(responses[f]) + 1
    /\ pc[f] \in {"answered", "session", "failed"} => Len(sent[f]) = Len(responses[f]) /\ sent[f] # <<>>
    /\ Len(sent[f]) \in 0..2

\* The messages have the key of the flow, and the server has bound to it what it
\* has issued.
KeyInv(f) ==
    /\ \A i \in DOMAIN sent[f] : sent[f][i].key = jwk[f]
    /\ f \in Logins => jwk[f] = bound[f]
    /\ pc[f] \in {"answered", "session"} /\ Response(f).status = "ok" => jwk[f] = bound[f]
    /\ pc[f] = "session" => Response(f).status = "ok"

\* No nonce is newer than the server's; a second message has the nonce of the
\* first response, and was refused only for an older nonce.
NonceInv(f) ==
    /\ \A i \in DOMAIN sent[f] : sent[f][i].nonce <= current
    /\ \A i \in DOMAIN responses[f] :
          /\ responses[f][i].nonce <= current
          /\ responses[f][i].status = "refused" =>
                 /\ sent[f][i].key # 0
                 /\ sent[f][i].nonce < responses[f][i].nonce
    /\ Len(sent[f]) = 2 => sent[f][2].nonce = responses[f][1].nonce
    /\ pc[f] = "failed" /\ Response(f).status = "refused" => Len(sent[f]) = 2

\* The assertions are numbered in the order in which the server has seen them.
JtiInv(f) ==
    /\ IsFiniteSet(seen[f])
    /\ seen[f] \subseteq 1..Cardinality(seen[f])
    /\ pc[f] = "answered" => LastMessage(f).jti \in seen[f] \cup {0}
    /\ pc[f] = "sent" => LastMessage(f).jti \in seen[f] \cup {0, FreshJti(f)}
    /\ pc[f] = "sent" /\ assertion[f] = "service" => LastMessage(f).jti = FreshJti(f)

Inv ==
    /\ Typing
    /\ store <= current
    /\ \A f \in Flows : Shape(f) /\ KeyInv(f) /\ NonceInv(f) /\ JtiInv(f)

LEMMA SeqElements ==
    ASSUME NEW T, NEW s \in Seq(T)
    PROVE  DOMAIN s = 1..Len(s) /\ Len(s) \in Nat /\ \A i \in DOMAIN s : s[i] \in T
  OBVIOUS

LEMMA FreshIsNew ==
    ASSUME Typing, NEW f \in Flows, JtiInv(f)
    PROVE  FreshJti(f) \in Nat \ {0} /\ FreshJti(f) \notin seen[f]
  BY FS_CardinalityType DEF JtiInv, FreshJti

LEMMA InitInv == Init => Inv
  <1> SUFFICES ASSUME Init PROVE Inv
    OBVIOUS
  <1>1. Typing
    BY BoundsAssumption DEF Init, Typing, Keys, Nonces, Labels, AssertionModes
  <1>2. store <= current
    BY BoundsAssumption DEF Init, Nonces
  <1>3. ASSUME NEW f \in Flows PROVE Shape(f) /\ KeyInv(f) /\ NonceInv(f)
    BY <1>3 DEF Init, Shape, KeyInv, NonceInv
  <1>4. ASSUME NEW f \in Flows PROVE JtiInv(f)
    <2>1. seen[f] = {} /\ pc[f] = "idle"
      BY <1>4 DEF Init
    <2>2. QED
      BY <2>1, FS_EmptySet DEF JtiInv
  <1>5. QED
    BY <1>1, <1>2, <1>3, <1>4 DEF Inv

\* The first message of an exchange is typed and shaped for every key and mode.
LEMMA FirstMessage ==
    ASSUME Inv, NEW f \in Flows, NEW k \in Keys, NEW mode \in AssertionModes, SendFirst(f, k, mode)
    PROVE  \E m \in AnyMessages :
              /\ sent' = [sent EXCEPT ![f] = <<m>>]
              /\ m.key = k /\ m.nonce <= current
              /\ m.jti \in {0, FreshJti(f)} /\ (mode = "service" => m.jti = FreshJti(f))
  <1> DEFINE m == [nonce |-> IF k = 0 THEN 0 ELSE store, key |-> k,
                   jti |-> IF mode = "none" THEN 0 ELSE FreshJti(f)]
  <1>1. FreshJti(f) \in Nat
    BY FreshIsNew DEF Inv
  <1>2. m \in AnyMessages /\ m.nonce <= current
    BY <1>1 DEF Inv, Typing, AnyMessages
  <1>3. sent' = [sent EXCEPT ![f] = <<m>>]
    BY DEF SendFirst
  <1>4. m.key = k /\ m.jti \in {0, FreshJti(f)} /\ (mode = "service" => m.jti = FreshJti(f))
    OBVIOUS
  <1>5. QED
    BY <1>2, <1>3, <1>4

\* An exchange that begins with key k, the flow's own from then on.
LEMMA BeginInv ==
    ASSUME Inv, NEW f \in Flows, NEW k \in Keys, NEW mode \in AssertionModes, SendFirst(f, k, mode),
           jwk' = [jwk EXCEPT ![f] = k],
           \/ bound' = bound /\ jwk' = jwk
           \/ f \notin Logins /\ bound' = [bound EXCEPT ![f] = 0]
    PROVE  Inv'
  <1> PICK m \in AnyMessages :
              /\ sent' = [sent EXCEPT ![f] = <<m>>]
              /\ m.key = k /\ m.nonce <= current
              /\ m.jti \in {0, FreshJti(f)} /\ (mode = "service" => m.jti = FreshJti(f))
    BY FirstMessage
  <1>1. Typing'
    <2> USE DEF Inv, Typing, SendFirst, Goto
    <2>1. key' \in Keys /\ current' \in Nat /\ store' \in Nat /\ seen' \in [Flows -> SUBSET Nat]
      OBVIOUS
    <2>2. pc' \in [Flows -> Labels] /\ assertion' \in [Flows -> AssertionModes]
      BY DEF Labels
    <2>3. jwk' \in [Flows -> Keys] /\ bound' \in [Flows -> Keys]
      <3>1. 0 \in Keys
        BY BoundsAssumption DEF Keys
      <3>2. bound' \in [Flows -> Keys]
        <4>1. CASE bound' = bound
          BY <4>1
        <4>2. CASE bound' = [bound EXCEPT ![f] = 0]
          BY <3>1, <4>2
        <4>3. QED
          BY <4>1, <4>2
      <3>3. QED
        BY <3>2
    <2>4. sent' \in [Flows -> Seq(AnyMessages)] /\ responses' \in [Flows -> Seq(AnyResponses)]
      OBVIOUS
    <2>5. QED
      BY <2>1, <2>2, <2>3, <2>4
  <1>2. store' <= current'
    BY DEF Inv, SendFirst
  <1>3. ASSUME NEW g \in Flows, g # f PROVE (Shape(g) /\ KeyInv(g) /\ NonceInv(g) /\ JtiInv(g))'
    BY <1>3 DEF Inv, Typing, Shape, KeyInv, NonceInv, JtiInv, SendFirst, Goto, Response, LastMessage, FreshJti
  <1>4. /\ pc'[f] = "sent" /\ sent'[f] = <<m>> /\ responses'[f] = <<>> /\ seen'[f] = seen[f]
        /\ assertion'[f] = mode /\ jwk'[f] = k /\ current' = current
    BY DEF Inv, Typing, SendFirst, Goto
  <1>5. Shape(f)'
    BY <1>4 DEF Shape
  <1>6. KeyInv(f)'
    BY <1>4 DEF Inv, Typing, KeyInv
  <1>7. NonceInv(f)'
    BY <1>4 DEF NonceInv
  <1>8. JtiInv(f)'
    BY <1>4 DEF JtiInv, LastMessage, FreshJti, Inv
  <1>9. QED
    BY <1>1, <1>2, <1>3, <1>5, <1>6, <1>7, <1>8 DEF Inv

LEMMA ServeInv ==
    ASSUME Inv, NEW f \in Flows, Serve(f)
    PROVE  Inv'
  <1> DEFINE m == LastMessage(f)
  <1> PICK a \in Answers(f, m) :
          /\ responses' = [responses EXCEPT ![f] = Append(@, a)]
          /\ bound' = IF a.status = "ok" THEN [bound EXCEPT ![f] = m.key] ELSE bound
    BY DEF Serve
  <1>1. /\ sent[f] \in Seq(AnyMessages) /\ responses[f] \in Seq(AnyResponses)
        /\ Len(sent[f]) = Len(responses[f]) + 1 /\ Len(sent[f]) \in 1..2
        /\ pc[f] = "sent" /\ current \in Nat
    BY DEF Inv, Typing, Shape, Serve
  <1>2. m = sent[f][Len(sent[f])] /\ Len(sent[f]) \in DOMAIN sent[f] /\ m \in AnyMessages
    BY <1>1 DEF LastMessage
  <1>3. m.key = jwk[f] /\ m.nonce <= current
    BY <1>2 DEF Inv, KeyInv, NonceInv
  <1>4. /\ a \in AnyResponses /\ a.nonce <= current
        /\ a.status = "refused" => m.key # 0 /\ m.nonce < a.nonce
    <2>1. CASE a = [status |-> "error", nonce |-> 0]
      BY <2>1, <1>1 DEF AnyResponses
    <2>2. CASE a \in {[status |-> "ok", nonce |-> n] : n \in {0, current}}
      BY <2>2, <1>1 DEF AnyResponses
    <2>3. CASE m.key # 0 /\ current \notin {0, m.nonce} /\ a = [status |-> "refused", nonce |-> current]
      BY <2>3, <1>1, <1>2, <1>3 DEF AnyResponses, AnyMessages
    <2>4. QED
      BY <2>1, <2>2, <2>3 DEF Answers
  <1>5. Typing'
    <2> USE DEF Inv, Typing, Serve, Goto
    <2>1. key' \in Keys /\ current' \in Nat /\ store' \in Nat /\ assertion' \in [Flows -> AssertionModes]
      OBVIOUS
    <2>2. pc' \in [Flows -> Labels]
      BY DEF Labels
    <2>3. jwk' \in [Flows -> Keys] /\ bound' \in [Flows -> Keys]
      BY <1>3
    <2>4. sent' \in [Flows -> Seq(AnyMessages)] /\ responses' \in [Flows -> Seq(AnyResponses)]
      BY <1>1, <1>4
    <2>5. seen' \in [Flows -> SUBSET Nat]
      BY <1>2 DEF AnyMessages
    <2>6. QED
      BY <2>1, <2>2, <2>3, <2>4, <2>5
  <1>6. store' <= current'
    BY DEF Inv, Serve
  <1>7. ASSUME NEW g \in Flows, g # f PROVE (Shape(g) /\ KeyInv(g) /\ NonceInv(g) /\ JtiInv(g))'
    BY <1>7 DEF Inv, Typing, Shape, KeyInv, NonceInv, JtiInv, Serve, Goto, Response, LastMessage, FreshJti
  <1>8. /\ pc'[f] = "answered" /\ sent' = sent /\ jwk' = jwk /\ current' = current /\ assertion' = assertion
        /\ responses'[f] = Append(responses[f], a) /\ seen'[f] = seen[f] \cup ({m.jti} \ {0})
        /\ bound'[f] = IF a.status = "ok" THEN m.key ELSE bound[f]
    BY DEF Inv, Typing, Serve, Goto
  <1>9. /\ Len(responses'[f]) = Len(sent[f]) /\ responses'[f][Len(sent[f])] = a
        /\ \A i \in DOMAIN responses[f] : responses'[f][i] = responses[f][i]
        /\ DOMAIN responses'[f] = DOMAIN responses[f] \cup {Len(sent[f])}
    BY <1>1, <1>4, <1>8
  <1>10. Shape(f)'
    <2>1. sent[f] # <<>> /\ Len(sent[f]) \in 0..2
      BY <1>1
    <2>2. QED
      BY <1>8, <1>9, <2>1 DEF Shape
  <1>11. KeyInv(f)'
    BY <1>1, <1>3, <1>8, <1>9 DEF Inv, KeyInv, Response
  <1>12. NonceInv(f)'
    <2>1. \A i \in DOMAIN responses'[f] :
             /\ responses'[f][i].nonce <= current
             /\ responses'[f][i].status = "refused" =>
                    /\ sent[f][i].key # 0
                    /\ sent[f][i].nonce < responses'[f][i].nonce
      BY <1>2, <1>4, <1>9 DEF Inv, NonceInv
    <2>2. Len(sent[f]) = 2 => sent[f][2].nonce = responses'[f][1].nonce
      BY <1>1, <1>9 DEF Inv, NonceInv
    <2>3. QED
      BY <2>1, <2>2, <1>8 DEF Inv, NonceInv
  <1>13. JtiInv(f)'
    <2>1. IsFiniteSet(seen[f]) /\ seen[f] \subseteq 1..Cardinality(seen[f]) /\ Cardinality(seen[f]) \in Nat
      BY FS_CardinalityType DEF Inv, JtiInv
    <2>2. m.jti \in seen[f] \cup {0, Cardinality(seen[f]) + 1}
      BY <1>1, <2>1 DEF Inv, JtiInv, FreshJti
    <2>3. 0 \notin seen[f]
      BY <2>1
    <2>4. CASE m.jti \in seen[f] \cup {0}
      <3>1. seen'[f] = seen[f]
        BY <1>8, <2>3, <2>4
      <3>2. QED
        BY <1>8, <2>1, <2>4, <3>1 DEF JtiInv, LastMessage
    <2>5. CASE m.jti = Cardinality(seen[f]) + 1
      <3>1. seen'[f] = seen[f] \cup {m.jti} /\ m.jti \notin seen[f]
        BY <1>8, <2>1, <2>5
      <3>2. IsFiniteSet(seen'[f]) /\ Cardinality(seen'[f]) = Cardinality(seen[f]) + 1
        BY <2>1, <3>1, FS_AddElement
      <3>3. seen'[f] \subseteq 1..Cardinality(seen'[f])
        BY <2>1, <2>5, <3>1, <3>2
      <3>4. QED
        BY <1>8, <3>1, <3>2, <3>3 DEF JtiInv, LastMessage
    <2>6. QED
      BY <2>2, <2>4, <2>5
  <1>14. QED
    BY <1>5, <1>6, <1>7, <1>10, <1>11, <1>12, <1>13 DEF Inv

LEMMA RetryInv ==
    ASSUME Inv, NEW f \in Flows, Retry(f)
    PROVE  Inv'
  <1> DEFINE m == [nonce |-> Response(f).nonce, key |-> LastMessage(f).key, jti |-> RetryJti(f)]
  <1>1. /\ pc[f] = "answered" /\ Len(sent[f]) = 1 /\ Response(f).status = "refused"
        /\ sent' = [sent EXCEPT ![f] = Append(@, m)] /\ store' = Response(f).nonce
    BY DEF Retry, MayRetry
  <1>2. /\ sent[f] \in Seq(AnyMessages) /\ responses[f] \in Seq(AnyResponses) /\ Len(responses[f]) = 1
        /\ current \in Nat
    BY <1>1 DEF Inv, Typing, Shape
  <1>3. Response(f) = responses[f][1] /\ Response(f) \in AnyResponses
        /\ LastMessage(f) = sent[f][1] /\ LastMessage(f) \in AnyMessages
    BY <1>1, <1>2 DEF Response, LastMessage
  <1>4. Response(f).nonce <= current /\ LastMessage(f).key = jwk[f] /\ LastMessage(f).key # 0
    BY <1>1, <1>2, <1>3 DEF Inv, NonceInv, KeyInv
  <1>5. /\ RetryJti(f) \in Nat
        /\ RetryJti(f) \in seen[f] \cup {0, FreshJti(f)}
        /\ assertion[f] = "service" => RetryJti(f) = FreshJti(f)
    <2>1. FreshJti(f) \in Nat /\ LastMessage(f).jti \in seen[f] \cup {0} /\ seen[f] \subseteq Nat
      BY <1>1, FreshIsNew DEF Inv, JtiInv, Typing
    <2>2. assertion[f] \in {"none", "service", "fixed"}
      BY DEF Inv, Typing, AssertionModes
    <2>3. QED
      BY <2>1, <2>2 DEF RetryJti
  <1>6. m \in AnyMessages
    BY <1>3, <1>5 DEF AnyMessages, AnyResponses
  <1>7. Typing'
    <2> USE DEF Inv, Typing, Retry, Goto
    <2>1. key' \in Keys /\ current' \in Nat /\ assertion' \in [Flows -> AssertionModes]
      OBVIOUS
    <2>2. store' \in Nat
      BY <1>1, <1>3 DEF AnyResponses
    <2>3. pc' \in [Flows -> Labels]
      BY DEF Labels
    <2>4. jwk' \in [Flows -> Keys] /\ bound' \in [Flows -> Keys] /\ seen' \in [Flows -> SUBSET Nat]
      OBVIOUS
    <2>5. sent' \in [Flows -> Seq(AnyMessages)] /\ responses' \in [Flows -> Seq(AnyResponses)]
      BY <1>1, <1>2, <1>6
    <2>6. QED
      BY <2>1, <2>2, <2>3, <2>4, <2>5
  <1>8. store' <= current'
    BY <1>1, <1>4 DEF Retry
  <1>9. ASSUME NEW g \in Flows, g # f PROVE (Shape(g) /\ KeyInv(g) /\ NonceInv(g) /\ JtiInv(g))'
    BY <1>9 DEF Inv, Typing, Shape, KeyInv, NonceInv, JtiInv, Retry, Goto, Response, LastMessage, FreshJti
  <1>10. /\ pc'[f] = "sent" /\ sent'[f] = Append(sent[f], m) /\ UNCHANGED <<jwk, bound, current, assertion, seen, responses>>
    BY <1>1 DEF Inv, Typing, Retry, Goto
  <1>11. /\ Len(sent'[f]) = 2 /\ sent'[f][1] = sent[f][1] /\ sent'[f][2] = m
         /\ DOMAIN sent'[f] = {1, 2} /\ DOMAIN sent[f] = {1} /\ DOMAIN responses[f] = {1}
    BY <1>1, <1>2, <1>6, <1>10
  <1>12. Shape(f)'
    BY <1>2, <1>10, <1>11 DEF Shape
  <1>13. KeyInv(f)'
    BY <1>4, <1>10, <1>11 DEF Inv, KeyInv
  <1>14. NonceInv(f)'
    BY <1>3, <1>4, <1>10, <1>11 DEF Inv, NonceInv
  <1>15. JtiInv(f)'
    BY <1>5, <1>10, <1>11 DEF Inv, JtiInv, LastMessage, FreshJti
  <1>16. QED
    BY <1>7, <1>8, <1>9, <1>12, <1>13, <1>14, <1>15 DEF Inv

LEMMA ReturnInv ==
    ASSUME Inv, NEW f \in Flows, Return(f)
    PROVE  Inv'
  <1>1. /\ pc[f] = "answered" /\ ~MayRetry(f)
        /\ pc'[f] = IF Response(f).status = "ok" THEN "session" ELSE "failed"
        /\ UNCHANGED <<key, current, assertion, jwk, bound, seen, sent, responses>>
    BY DEF Inv, Typing, Return, Goto
  <1>2. /\ sent[f] \in Seq(AnyMessages) /\ responses[f] \in Seq(AnyResponses)
        /\ Len(responses[f]) = Len(sent[f]) /\ Len(sent[f]) \in 1..2 /\ current \in Nat
    BY <1>1 DEF Inv, Typing, Shape
  <1>3. Len(sent[f]) \in DOMAIN responses[f] /\ Response(f) = responses[f][Len(sent[f])] /\ Response(f) \in AnyResponses
    <2>1. DOMAIN responses[f] = 1..Len(responses[f])
      BY <1>2, SeqElements
    <2>2. Len(sent[f]) \in 1..Len(responses[f])
      <3>1. \A n \in 1..2 : n \in 1..n
        OBVIOUS
      <3>2. Len(sent[f]) \in 1..Len(sent[f])
        BY <1>2, <3>1
      <3>3. QED
        BY <1>2, <3>2
    <2>3. Len(sent[f]) \in DOMAIN responses[f]
      BY <2>1, <2>2
    <2>4. responses[f][Len(sent[f])] \in AnyResponses
      BY <1>2, <2>3, SeqElements
    <2>5. QED
      BY <1>2, <2>3, <2>4 DEF Response
  <1>4. Response(f).nonce <= current
    BY <1>3 DEF Inv, NonceInv
  <1>5. store' \in Nat /\ store' <= current'
    BY <1>1, <1>3, <1>4 DEF Inv, Typing, Return, AnyResponses
  <1>6. Typing'
    <2>1. pc' \in [Flows -> Labels]
      BY DEF Inv, Typing, Return, Goto, Labels
    <2>2. QED
      BY <1>1, <1>5, <2>1 DEF Inv, Typing
  <1>7. ASSUME NEW g \in Flows, g # f PROVE (Shape(g) /\ KeyInv(g) /\ NonceInv(g) /\ JtiInv(g))'
    BY <1>7 DEF Inv, Typing, Shape, KeyInv, NonceInv, JtiInv, Return, Goto, Response, LastMessage, FreshJti
  <1>8. Shape(f)'
    BY <1>1, <1>2 DEF Inv, Shape
  <1>9. KeyInv(f)'
    BY <1>1 DEF Inv, KeyInv, Response
  <1>10. NonceInv(f)'
    <2>1. Response(f).status = "refused" => Len(sent[f]) = 2
      <3>1. Response(f).status = "refused" => LastMessage(f).key # 0
        BY <1>3 DEF Inv, NonceInv, LastMessage
      <3>2. QED
        BY <1>1, <1>2, <3>1 DEF MayRetry
    <2>2. QED
      BY <1>1, <2>1 DEF Inv, NonceInv, Response
  <1>11. JtiInv(f)'
    BY <1>1 DEF Inv, JtiInv
  <1>12. QED
    BY <1>5, <1>6, <1>7, <1>8, <1>9, <1>10, <1>11 DEF Inv

LEMMA RedirectInv ==
    ASSUME Inv, NEW f \in Flows, Redirect(f)
    PROVE  Inv'
  <1>1. /\ pc[f] = "idle" /\ sent[f] = <<>>
        /\ pc' = [pc EXCEPT ![f] = "redirected"] /\ jwk' = [jwk EXCEPT ![f] = key] /\ bound' = [bound EXCEPT ![f] = key]
        /\ UNCHANGED <<key, current, store, assertion, seen, sent, responses>>
    BY DEF Inv, Shape, Redirect, Goto
  <1>2. Typing'
    BY <1>1 DEF Inv, Typing, Labels
  <1>3. ASSUME NEW g \in Flows PROVE (Shape(g) /\ KeyInv(g) /\ NonceInv(g) /\ JtiInv(g))'
    BY <1>1, <1>3 DEF Inv, Typing, Shape, KeyInv, NonceInv, JtiInv, Response, LastMessage, FreshJti
  <1>4. QED
    BY <1>1, <1>2, <1>3 DEF Inv

\* RotateKey and RotateNonce: the numbers only grow.
LEMMA RotateInv ==
    ASSUME Inv,
           key' \in Keys, current' \in Nat, current <= current',
           UNCHANGED <<store, pc, assertion, jwk, bound, seen, sent, responses>>
    PROVE  Inv'
  <1>1. Typing'
    BY DEF Inv, Typing
  <1>2. store' <= current'
    BY DEF Inv, Typing
  <1>3. ASSUME NEW f \in Flows PROVE (Shape(f) /\ KeyInv(f) /\ JtiInv(f))'
    BY <1>3 DEF Inv, Shape, KeyInv, JtiInv, Response, LastMessage, FreshJti
  <1>4. ASSUME NEW f \in Flows PROVE NonceInv(f)'
    <2>1. sent[f] \in Seq(AnyMessages) /\ responses[f] \in Seq(AnyResponses) /\ current \in Nat
      BY <1>4 DEF Inv, Typing
    <2>2. ASSUME NEW i \in DOMAIN sent[f] PROVE sent[f][i].nonce <= current'
      <3>1. sent[f][i].nonce \in Nat
        <4>1. sent[f][i] \in AnyMessages
          BY <2>1, <2>2, SeqElements
        <4>2. QED
          BY <4>1 DEF AnyMessages
      <3>2. sent[f][i].nonce <= current
        BY <2>2, <1>4 DEF Inv, NonceInv
      <3>3. QED
        BY <2>1, <3>1, <3>2
    <2>3. ASSUME NEW i \in DOMAIN responses[f] PROVE responses[f][i].nonce <= current'
      <3>1. responses[f][i].nonce \in Nat
        <4>1. responses[f][i] \in AnyResponses
          BY <2>1, <2>3, SeqElements
        <4>2. QED
          BY <4>1 DEF AnyResponses
      <3>2. responses[f][i].nonce <= current
        BY <2>3, <1>4 DEF Inv, NonceInv
      <3>3. QED
        BY <2>1, <3>1, <3>2
    <2>4. QED
      BY <2>2, <2>3, <1>4 DEF Inv, NonceInv, Response
  <1>5. QED
    BY <1>1, <1>2, <1>3, <1>4 DEF Inv

LEMMA NextInv == Inv /\ [Next]_vars => Inv'
  <1> SUFFICES ASSUME Inv, [Next]_vars PROVE Inv'
    OBVIOUS
  <1>1. CASE RotateKey
    <2>1. key' \in Keys
      BY <1>1, BoundsAssumption DEF RotateKey, Inv, Typing, Keys
    <2>2. QED
      BY <1>1, <2>1, RotateInv DEF RotateKey, Inv, Typing
  <1>2. CASE RotateNonce
    BY <1>2, RotateInv DEF RotateNonce, Inv, Typing
  <1>3. ASSUME NEW f \in Flows, Redirect(f) PROVE Inv'
    BY <1>3, RedirectInv
  <1>4. ASSUME NEW f \in Flows, ExchangeCode(f) \/ Refresh(f) PROVE Inv'
    <2>1. PICK mode \in AssertionModes : SendFirst(f, jwk[f], mode)
      BY <1>4 DEF ExchangeCode, Refresh, AssertionModes
    <2>2. jwk[f] \in Keys /\ jwk' = jwk /\ bound' = bound /\ jwk' = [jwk EXCEPT ![f] = jwk[f]]
      BY <1>4 DEF ExchangeCode, Refresh, Inv, Typing
    <2>3. QED
      BY <2>1, <2>2, BeginInv
  <1>5. ASSUME NEW f \in Flows, RequestToken(f) PROVE Inv'
    <2>1. PICK mode \in AssertionModes : SendFirst(f, key, mode)
      BY <1>5 DEF RequestToken
    <2>2. f \notin Logins /\ key \in Keys
      BY <1>5, DisjointAssumption DEF RequestToken, Inv, Typing
    <2>3. QED
      BY <1>5, <2>1, <2>2, BeginInv DEF RequestToken
  <1>6. ASSUME NEW f \in Flows, Serve(f) PROVE Inv'
    BY <1>6, ServeInv
  <1>7. ASSUME NEW f \in Flows, Retry(f) PROVE Inv'
    BY <1>7, RetryInv
  <1>8. ASSUME NEW f \in Flows, Return(f) PROVE Inv'
    BY <1>8, ReturnInv
  <1>9. CASE UNCHANGED vars
    <2>1. UNCHANGED <<key, current, store, pc, assertion, jwk, bound, seen, sent, responses>>
      BY <1>9 DEF vars
    <2>2. QED
      BY <2>1, RotateInv DEF Inv, Typing
  <1>10. QED
    BY <1>1, <1>2, <1>3, <1>4, <1>5, <1>6, <1>7, <1>8, <1>9 DEF Next, Step

LEMMA Invariance == Spec => []Inv
  BY InitInv, NextInv, PTL DEF Spec

\* A login's proofs are made with one key, and a token is saved with the key
\* that the server has bound it to.
THEOREM LoginKeysAreKept == Spec => []KeysAreKept
  <1>1. Inv => KeysAreKept
    BY DEF Inv, KeyInv, KeysAreKept, Flows
  <1>2. QED
    BY <1>1, Invariance, PTL

\* A final refusal comes after a second proof, for a nonce that has expired since
\* the first refusal gave it.
THEOREM RefusalsLeadToARetry == Spec => []RefusalsAreOvercome
  <1>1. Inv => RefusalsAreOvercome
    <2> SUFFICES ASSUME Inv, NEW f \in Flows, pc[f] = "failed", Response(f).status = "refused"
                 PROVE  Len(sent[f]) = 2 /\ sent[f][2].nonce = responses[f][1].nonce
                        /\ sent[f][2].nonce < responses[f][2].nonce
      BY DEF RefusalsAreOvercome
    <2>1. Len(sent[f]) = 2 /\ Len(responses[f]) = 2 /\ responses[f] \in Seq(AnyResponses)
      BY DEF Inv, Typing, Shape, NonceInv
    <2>2. 2 \in DOMAIN responses[f] /\ Response(f) = responses[f][2]
      BY <2>1 DEF Response
    <2>3. QED
      BY <2>1, <2>2 DEF Inv, NonceInv
  <1>2. QED
    BY <1>1, Invariance, PTL

\* A client assertion of the assertion service reaches the server once.
THEOREM AssertionsReachTheServerOnce == Spec => []AssertionsAreUsedOnce
  <1>1. Inv => AssertionsAreUsedOnce
    BY FreshIsNew DEF Inv, JtiInv, AssertionsAreUsedOnce
  <1>2. QED
    BY <1>1, Invariance, PTL

\* A request that is sent again can succeed, for its nonce and for its assertion.
THEOREM RetriesAreNotFutile == Spec => []RetriesCanSucceed
  BY RefusalsLeadToARetry, AssertionsReachTheServerOnce, PTL DEF RetriesCanSucceed

-----------------------------------------------------------------------------
(* Requests, put together and sent again.                                  *)

LessThan == {p \in Nat \X Nat : p[1] < p[2]}

\* A set of numbers that has 0 and the successor of each of its members has
\* every number.
LEMMA Induction ==
  ASSUME NEW S, 0 \in S, \A n \in Nat : n \in S => n + 1 \in S
  PROVE  Nat \subseteq S
  <1> DEFINE T == Nat \ S
  <1> SUFFICES ASSUME T # {} PROVE FALSE
    OBVIOUS
  <1>1. IsWellFoundedOn(LessThan, Nat)
    <2>1. OpToRel(<, Nat) = LessThan
      BY DEF OpToRel, LessThan
    <2>2. QED
      BY <2>1, NatLessThanWellFounded
  <1>2. PICK m \in T : \A k \in T : <<k, m>> \notin LessThan
    BY <1>1, WFMin
  <1>3. m # 0 /\ m - 1 \in Nat
    OBVIOUS
  <1>4. m - 1 \in S
    <2>1. <<m - 1, m>> \in LessThan
      BY <1>3 DEF LessThan
    <2>2. QED
      BY <1>2, <1>3, <2>1
  <1>5. QED
    BY <1>3, <1>4

Names == {"grant_type", "client_id", "client_secret", "client_assertion_type", "client_assertion", "scope", "resource",
          "refresh_token", "code", "redirect_uri", "code_verifier", "username", "password", "device_code",
          "subject_token", "subject_token_type", "audience", "auth_req_id", "response_type", "state"}
Literals == {"rt", "code", "uri", "v", "user", "t", "type", "id", "s", "client", "jwt"} \cup Request!Kinds
Values == STRING \cup Literals \cup {None} \cup Nat

\* Parameters of which only a resource repeats its key and only a password can be empty.
Parameters ==
    {p \in [required : BOOLEAN, key : Names, value : Values, duplicates : BOOLEAN, empty : BOOLEAN] :
        /\ p.duplicates => p.key = "resource"
        /\ p.empty => p.key = "password"}

Pairs == (STRING \cup Names) \X Values
Results == [list : Seq(Pairs), threw : BOOLEAN]

\* Adding one parameter to a list.
LEMMA AddOne ==
    ASSUME NEW result \in Results, NEW p \in Parameters
    PROVE  /\ Request!Add(result, p) \in Results
           /\ Request!Add(result, p).threw <=> result.threw \/ Request!Throws(result.list, p)
           /\ Request!Add(result, p).list =
                 IF ~Request!Add(result, p).threw /\ Request!IsAdded(result.list, p)
                 THEN Append(result.list, <<p.key, p.value>>) ELSE result.list
  <1>1. result.list \in Seq(Pairs) /\ <<p.key, p.value>> \in Pairs
    BY DEF Results, Parameters, Pairs
  <1>2. Append(result.list, <<p.key, p.value>>) \in Seq(Pairs)
    BY <1>1
  <1>3. CASE result.threw \/ Request!Throws(result.list, p)
    <2>1. Request!Add(result, p) = [result EXCEPT !.threw = TRUE]
      BY <1>3 DEF Request!Add
    <2>2. QED
      BY <1>1, <1>3, <2>1 DEF Results
  <1>4. CASE ~(result.threw \/ Request!Throws(result.list, p))
    <2> DEFINE l == IF Request!IsAdded(result.list, p) THEN Append(result.list, <<p.key, p.value>>) ELSE result.list
    <2>1. Request!Add(result, p) = [result EXCEPT !.list = l]
      BY <1>4 DEF Request!Add
    <2>2. l \in Seq(Pairs)
      BY <1>1, <1>2
    <2> HIDE DEF l
    <2>3. Request!Add(result, p) \in Results /\ Request!Add(result, p).list = l
          /\ Request!Add(result, p).threw = result.threw
      BY <2>1, <2>2 DEF Results
    <2>4. QED
      BY <1>4, <2>3 DEF l
  <1>5. QED
    BY <1>3, <1>4

Start(list) == [list |-> list, threw |-> FALSE]

Steps(f, n, list, parameters) ==
    f = [k \in 0..n |-> IF k = 0 THEN Start(list) ELSE Request!Add(f[k - 1], parameters[k])]

LEMMA StartTyped ==
    ASSUME NEW list \in Seq(Pairs)
    PROVE  Start(list) \in Results /\ Start(list).list = list /\ ~Start(list).threw
  BY DEF Start, Results

\* Adding them one by one.
LEMMA AddAllSteps ==
    ASSUME NEW list \in Seq(Pairs), NEW parameters \in Seq(Parameters)
    PROVE  \E f \in [0..Len(parameters) -> Results] :
              /\ f[0].list = list /\ ~f[0].threw
              /\ \A k \in 1..Len(parameters) : f[k] = Request!Add(f[k - 1], parameters[k])
              /\ Request!AddAll(list, parameters) = f[Len(parameters)]
  <1> DEFINE N == Len(parameters)
             S == {n \in Nat : n <= N => \E f \in [0..n -> Results] : Steps(f, n, list, parameters)}
  <1>0. N \in Nat /\ \A k \in 1..N : parameters[k] \in Parameters
    OBVIOUS
  <1>1. 0 \in S
    <2> DEFINE f == [k \in 0..0 |-> Start(list)]
    <2>1. f \in [0..0 -> Results]
      BY StartTyped
    <2>2. Steps(f, 0, list, parameters)
      BY DEF Steps
    <2>3. QED
      BY <2>1, <2>2
  <1>2. ASSUME NEW n \in Nat, n \in S PROVE n + 1 \in S
    <2> SUFFICES ASSUME n + 1 <= N PROVE \E f \in [0..(n + 1) -> Results] : Steps(f, n + 1, list, parameters)
      OBVIOUS
    <2>1. PICK g \in [0..n -> Results] : Steps(g, n, list, parameters)
      BY <1>0, <1>2
    <2>2. PICK last : last = Request!Add(g[n], parameters[n + 1])
      OBVIOUS
    <2>3. last \in Results
      <3>1. g[n] \in Results /\ parameters[n + 1] \in Parameters
        BY <1>0
      <3>2. Request!Add(g[n], parameters[n + 1]) \in Results
        BY <3>1, AddOne
      <3>3. QED
        BY <2>2, <3>2
    <2> DEFINE f == [k \in 0..(n + 1) |-> IF k = n + 1 THEN last ELSE g[k]]
    <2>4. f \in [0..(n + 1) -> Results]
      BY <2>3
    <2>5. \A k \in 0..n : g[k] = IF k = 0 THEN Start(list) ELSE Request!Add(g[k - 1], parameters[k])
      BY <2>1 DEF Steps
    <2>6. ASSUME NEW k \in 0..(n + 1)
          PROVE  f[k] = IF k = 0 THEN Start(list) ELSE Request!Add(f[k - 1], parameters[k])
      <3>1. CASE k = n + 1
        BY <2>2, <3>1
      <3>2. CASE k = 0
        BY <2>5, <3>2
      <3>3. CASE k \in 1..n
        <4>1. f[k] = g[k] /\ f[k - 1] = g[k - 1] /\ k \in 0..n /\ k # 0
          BY <3>3
        <4>2. QED
          BY <2>5, <4>1
      <3>4. QED
        BY <3>1, <3>2, <3>3
    <2>7. Steps(f, n + 1, list, parameters)
      BY <2>6 DEF Steps
    <2>8. QED
      BY <2>4, <2>7
  <1>3. N \in S
    BY <1>0, <1>1, <1>2, Induction
  <1>4. \E f : Steps(f, N, list, parameters)
    BY <1>0, <1>3
  <1> DEFINE added == CHOOSE f : Steps(f, N, list, parameters)
  <1>5. Steps(added, N, list, parameters)
    BY <1>4
  <1>6. Request!AddAll(list, parameters) = added[N]
    BY DEF Request!AddAll, Steps, Start
  <1>7. PICK f : f = added
    OBVIOUS
  <1>8. \A k \in 0..N : f[k] = IF k = 0 THEN Start(list) ELSE Request!Add(f[k - 1], parameters[k])
    BY <1>5, <1>7 DEF Steps
  <1>9. DOMAIN f = 0..N /\ f = [k \in DOMAIN f |-> f[k]]
    BY <1>5, <1>7 DEF Steps
  <1>10. \A n \in 0..N : f[n] \in Results
    <2> DEFINE Q == {n \in Nat : n <= N => f[n] \in Results}
    <2>1. 0 \in Q
      BY <1>0, <1>8, StartTyped
    <2>2. ASSUME NEW n \in Nat, n \in Q PROVE n + 1 \in Q
      <3> SUFFICES ASSUME n + 1 <= N PROVE f[n + 1] \in Results
        OBVIOUS
      <3>1. f[n + 1] = Request!Add(f[n], parameters[n + 1]) /\ f[n] \in Results /\ parameters[n + 1] \in Parameters
        BY <1>0, <1>8, <2>2
      <3>2. QED
        BY <3>1, AddOne
    <2>3. Nat \subseteq Q
      BY <2>1, <2>2, Induction
    <2>4. QED
      BY <1>0, <2>3
  <1>11. f \in [0..N -> Results]
    BY <1>9, <1>10
  <1>12. f[0] = Start(list)
    BY <1>0, <1>8
  <1>13. f[0].list = list /\ ~f[0].threw
    BY <1>12, StartTyped
  <1>14. \A k \in 1..N : f[k] = Request!Add(f[k - 1], parameters[k])
    BY <1>0, <1>8
  <1>15. Request!AddAll(list, parameters) = f[N]
    BY <1>6, <1>7
  <1>16. QED
    BY <1>11, <1>13, <1>14, <1>15

Extends(l, list) == Len(list) <= Len(l) /\ \A i \in 1..Len(list) : l[i] = list[i]
Holds(l, p) == p.value # None => \E i \in 1..Len(l) : l[i] = <<p.key, p.value>>
Repeated(l, n) ==
    \A i, j \in 1..Len(l) : i < j /\ l[i][1] = l[j][1] => j <= n \/ l[i][1] \in {"resource", "password"}

LEMMA ExtendsHolds ==
    ASSUME NEW list \in Seq(Pairs), NEW l \in Seq(Pairs), NEW m \in Seq(Pairs), Extends(l, list), Extends(m, l)
    PROVE  Extends(m, list) /\ \A p : Holds(l, p) => Holds(m, p)
  BY DEF Extends, Holds

\* A parameter that is added without an exception is there, and is not repeated.
LEMMA AddOneWhole ==
    ASSUME NEW l \in Seq(Pairs), NEW p \in Parameters, NEW m, ~Request!Throws(l, p),
           m = IF Request!IsAdded(l, p) THEN Append(l, <<p.key, p.value>>) ELSE l
    PROVE  Extends(m, l) /\ Holds(m, p) /\ \A n \in Nat : Repeated(l, n) => Repeated(m, n)
  <1>1. DOMAIN l = 1..Len(l) /\ Len(l) \in Nat
    OBVIOUS
  <1>2. <<p.key, p.value>> \in Pairs
    BY DEF Parameters, Pairs
  <1>3. CASE ~Request!IsAdded(l, p)
    <2>1. m = l /\ Extends(m, l)
      BY <1>1, <1>3 DEF Extends
    <2>2. ASSUME p.value # None PROVE \E i \in 1..Len(l) : l[i] = <<p.key, p.value>>
      <3>1. Request!ContainsKey(l, p.key) /\ ~p.duplicates
        BY <1>3, <2>2 DEF Request!IsAdded
      <3>2. Request!Contains(l, <<p.key, p.value>>)
        BY <2>2, <3>1 DEF Request!Throws
      <3>3. QED
        BY <3>2 DEF Request!Contains
    <2>3. QED
      BY <2>1, <2>2 DEF Holds
  <1>4. CASE Request!IsAdded(l, p)
    <2>1. PICK e \in Pairs : e = <<p.key, p.value>>
      BY <1>2
    <2>2. m = Append(l, e)
      BY <1>4, <2>1
    <2>3. /\ Len(m) = Len(l) + 1 /\ m[Len(l) + 1] = e
          /\ \A i \in 1..Len(l) : m[i] = l[i]
      BY <2>1, <2>2, AppendProperties
    <2>4. Extends(m, l) /\ Holds(m, p)
      BY <1>1, <2>1, <2>3 DEF Extends, Holds
    <2>5. p.key \in {"resource", "password"} \/ ~Request!ContainsKey(l, p.key)
      BY <1>4 DEF Request!IsAdded, Parameters
    <2>6. ASSUME NEW n \in Nat, Repeated(l, n), NEW i \in 1..Len(m), NEW j \in 1..Len(m), i < j, m[i][1] = m[j][1]
          PROVE  j <= n \/ m[i][1] \in {"resource", "password"}
      <3>1. i \in 1..Len(l) /\ m[i] = l[i]
        BY <1>1, <2>3, <2>6
      <3>2. CASE j \in 1..Len(l)
        <4>1. l[i][1] = l[j][1]
          BY <2>3, <2>6, <3>1, <3>2
        <4>2. j <= n \/ l[i][1] \in {"resource", "password"}
          BY <2>6, <3>1, <3>2, <4>1 DEF Repeated
        <4>3. QED
          BY <3>1, <4>2
      <3>3. CASE j = Len(l) + 1
        <4>1. l[i][1] = p.key
          BY <2>1, <2>3, <2>6, <3>1, <3>3
        <4>2. Request!ContainsKey(l, p.key)
          BY <1>1, <3>1, <4>1 DEF Request!ContainsKey
        <4>3. QED
          BY <2>5, <3>1, <4>1, <4>2
      <3>4. QED
        BY <1>1, <2>3, <3>2, <3>3
    <2>7. \A n \in Nat : Repeated(l, n) => Repeated(m, n)
      BY <2>6 DEF Repeated
    <2>8. QED
      BY <2>4, <2>7
  <1>5. QED
    BY <1>3, <1>4

\* Parameters that are all added without an exception.
LEMMA AddAllWhole ==
    ASSUME NEW list \in Seq(Pairs), NEW parameters \in Seq(Parameters)
    PROVE  LET result == Request!AddAll(list, parameters)
           IN  /\ result \in Results
               /\ ~result.threw =>
                     /\ Extends(result.list, list)
                     /\ \A k \in 1..Len(parameters) : Holds(result.list, parameters[k])
                     /\ \A n \in Nat : Repeated(list, n) => Repeated(result.list, n)
  <1> DEFINE N == Len(parameters)
  <1>0. N \in Nat /\ \A k \in 1..N : parameters[k] \in Parameters
    OBVIOUS
  <1>1. PICK f \in [0..N -> Results] :
              /\ f[0].list = list /\ ~f[0].threw
              /\ \A k \in 1..N : f[k] = Request!Add(f[k - 1], parameters[k])
              /\ Request!AddAll(list, parameters) = f[N]
    BY AddAllSteps
  <1> DEFINE Good(n) ==
                 /\ Extends(f[n].list, list)
                 /\ \A k \in 1..n : Holds(f[n].list, parameters[k])
                 /\ \A i \in Nat : Repeated(list, i) => Repeated(f[n].list, i)
             S == {n \in Nat : n <= N /\ ~f[n].threw => Good(n)}
  <1>2. 0 \in S
    BY <1>1 DEF Extends
  <1>3. ASSUME NEW n \in Nat, n \in S PROVE n + 1 \in S
    <2> SUFFICES ASSUME n + 1 <= N, ~f[n + 1].threw PROVE Good(n + 1)
      OBVIOUS
    <2>1. PICK p \in Parameters : p = parameters[n + 1]
      BY <1>0
    <2>2. PICK r \in Results : r = f[n]
      <3>1. n \in 0..N
        BY <1>0
      <3>2. QED
        BY <1>1, <3>1
    <2>3. f[n + 1] = Request!Add(r, p)
      <3>1. n + 1 \in 1..N /\ (n + 1) - 1 = n
        BY <1>0
      <3>2. f[n + 1] = Request!Add(f[(n + 1) - 1], parameters[n + 1])
        BY <1>1, <3>1
      <3>3. QED
        BY <2>1, <2>2, <3>1, <3>2
    <2>4. ~r.threw /\ ~Request!Throws(r.list, p)
      BY <2>3, AddOne
    <2>5. PICK m : m = f[n + 1].list
      OBVIOUS
    <2>6. PICK l \in Seq(Pairs) : l = r.list
      BY DEF Results
    <2>7. m = IF Request!IsAdded(l, p) THEN Append(l, <<p.key, p.value>>) ELSE l
      BY <2>3, <2>5, <2>6, AddOne
    <2>8. m \in Seq(Pairs)
      <3>1. f[n + 1] \in Results
        BY <1>0, <1>1
      <3>2. QED
        BY <2>5, <3>1 DEF Results
    <2>9. Extends(m, l) /\ Holds(m, p) /\ \A i \in Nat : Repeated(l, i) => Repeated(m, i)
      BY <2>4, <2>6, <2>7, AddOneWhole
    <2>10. /\ Extends(l, list)
           /\ \A k \in 1..n : Holds(l, parameters[k])
           /\ \A i \in Nat : Repeated(list, i) => Repeated(l, i)
      BY <1>0, <1>3, <2>2, <2>4, <2>6
    <2>11. Extends(m, list) /\ \A q : Holds(l, q) => Holds(m, q)
      BY <2>8, <2>9, <2>10, ExtendsHolds
    <2>12. \A k \in 1..(n + 1) : Holds(m, parameters[k])
      BY <2>1, <2>9, <2>10, <2>11
    <2>13. QED
      BY <2>5, <2>9, <2>10, <2>11, <2>12
  <1>4. N \in S
    BY <1>0, <1>2, <1>3, Induction
  <1>5. f[N] \in Results
    BY <1>0, <1>1
  <1>6. QED
    BY <1>0, <1>1, <1>4, <1>5

\* Two lists, and two parameters, that are alike but for the value of a client assertion.
Agree(l, m) ==
    /\ Len(m) = Len(l)
    /\ \A i \in 1..Len(l) : m[i] = l[i] \/ (l[i][1] = "client_assertion" /\ m[i][1] = "client_assertion")

Matches(p, q) ==
    /\ q.required = p.required /\ q.key = p.key /\ q.duplicates = p.duplicates /\ q.empty = p.empty
    /\ p.required => p.key # "client_assertion"
    /\ q.value = p.value \/ (p.key = "client_assertion" /\ p.value # None /\ q.value # None)

LEMMA AddOneAgrees ==
    ASSUME NEW l \in Seq(Pairs), NEW m \in Seq(Pairs), NEW p \in Parameters, NEW q \in Parameters, Agree(l, m), Matches(p, q)
    PROVE  /\ Request!Throws(l, p) <=> Request!Throws(m, q)
           /\ Request!IsAdded(l, p) <=> Request!IsAdded(m, q)
           /\ Agree(Append(l, <<p.key, p.value>>), Append(m, <<q.key, q.value>>))
  <1>1. DOMAIN l = 1..Len(l) /\ DOMAIN m = 1..Len(l) /\ Len(l) \in Nat /\ Len(m) = Len(l)
    BY DEF Agree
  <1>2. \A i \in 1..Len(l) : m[i][1] = l[i][1]
    BY DEF Agree
  <1>3. Request!ContainsKey(l, p.key) <=> Request!ContainsKey(m, q.key)
    BY <1>1, <1>2 DEF Request!ContainsKey, Matches
  <1>4. (p.value = None) <=> (q.value = None)
    BY DEF Matches
  <1>5. ASSUME p.required PROVE Request!Contains(l, <<p.key, p.value>>) <=> Request!Contains(m, <<q.key, q.value>>)
    <2>1. p.key # "client_assertion" /\ q.key = p.key /\ q.value = p.value
      BY <1>5 DEF Matches
    <2>2. PICK k, e : k = p.key /\ e = <<k, p.value>>
      OBVIOUS
    <2>3. e[1] = k /\ k # "client_assertion"
      BY <2>1, <2>2
    <2>4. ASSUME NEW i \in 1..Len(l) PROVE l[i] = e <=> m[i] = e
      BY <2>3 DEF Agree
    <2>5. (\E i \in 1..Len(l) : l[i] = e) <=> (\E i \in 1..Len(m) : m[i] = e)
      BY <1>1, <2>4
    <2>6. QED
      BY <2>1, <2>2, <2>5 DEF Request!Contains
  <1>6. Request!Throws(l, p) <=> Request!Throws(m, q)
    <2>1. /\ p.required <=> q.required
          /\ p.empty <=> q.empty
          /\ p.duplicates <=> q.duplicates
      BY DEF Matches
    <2>2. QED
      BY <1>3, <1>4, <1>5, <2>1 DEF Request!Throws
  <1>7. Request!IsAdded(l, p) <=> Request!IsAdded(m, q)
    <2>1. /\ p.required <=> q.required
          /\ p.empty <=> q.empty
          /\ p.duplicates <=> q.duplicates
      BY DEF Matches
    <2>2. QED
      BY <1>3, <1>4, <2>1 DEF Request!IsAdded
  <1>8. PICK e \in Pairs, f \in Pairs : e = <<p.key, p.value>> /\ f = <<q.key, q.value>>
    BY DEF Parameters, Pairs
  <1>9. f = e \/ (e[1] = "client_assertion" /\ f[1] = "client_assertion")
    BY <1>8 DEF Matches
  <1>10. Agree(Append(l, e), Append(m, f))
    <2>1. /\ Len(Append(l, e)) = Len(l) + 1 /\ Append(l, e)[Len(l) + 1] = e
          /\ \A i \in 1..Len(l) : Append(l, e)[i] = l[i]
      BY AppendProperties
    <2>2. /\ Len(Append(m, f)) = Len(l) + 1 /\ Append(m, f)[Len(l) + 1] = f
          /\ \A i \in 1..Len(l) : Append(m, f)[i] = m[i]
      BY <1>1, AppendProperties
    <2>3. PICK x, y : x = Append(l, e) /\ y = Append(m, f)
      OBVIOUS
    <2>4. Agree(x, y)
      <3>1. Len(y) = Len(x)
        BY <2>1, <2>2, <2>3
      <3>2. ASSUME NEW i \in 1..Len(x) PROVE y[i] = x[i] \/ (x[i][1] = "client_assertion" /\ y[i][1] = "client_assertion")
        <4>1. CASE i \in 1..Len(l)
          <5>1. x[i] = l[i] /\ y[i] = m[i]
            BY <2>1, <2>2, <2>3, <4>1
          <5>2. QED
            BY <4>1, <5>1 DEF Agree
        <4>2. CASE i = Len(l) + 1
          <5>1. x[i] = e /\ y[i] = f
            BY <2>1, <2>2, <2>3, <4>2
          <5>2. QED
            BY <1>9, <5>1
        <4>3. QED
          BY <1>1, <2>1, <2>3, <3>2, <4>1, <4>2
      <3>3. QED
        BY <3>1, <3>2 DEF Agree
    <2>5. QED
      BY <2>3, <2>4
  <1>11. QED
    BY <1>6, <1>7, <1>8, <1>10

\* Parameters that match are added alike.
LEMMA AddAllAgrees ==
    ASSUME NEW list \in Seq(Pairs), NEW ps \in Seq(Parameters), NEW qs \in Seq(Parameters), Len(qs) = Len(ps),
           \A k \in 1..Len(ps) : Matches(ps[k], qs[k])
    PROVE  /\ Request!AddAll(list, ps).threw <=> Request!AddAll(list, qs).threw
           /\ Agree(Request!AddAll(list, ps).list, Request!AddAll(list, qs).list)
  <1> DEFINE N == Len(ps)
  <1>0. N \in Nat /\ \A k \in 1..N : ps[k] \in Parameters /\ qs[k] \in Parameters
    OBVIOUS
  <1>1. PICK f \in [0..N -> Results] :
              /\ f[0].list = list /\ ~f[0].threw
              /\ \A k \in 1..N : f[k] = Request!Add(f[k - 1], ps[k])
              /\ Request!AddAll(list, ps) = f[N]
    BY AddAllSteps
  <1>2. PICK g \in [0..N -> Results] :
              /\ g[0].list = list /\ ~g[0].threw
              /\ \A k \in 1..N : g[k] = Request!Add(g[k - 1], qs[k])
              /\ Request!AddAll(list, qs) = g[N]
    BY AddAllSteps
  <1> DEFINE S == {n \in Nat : n <= N => (f[n].threw <=> g[n].threw) /\ Agree(f[n].list, g[n].list)}
  <1>3. 0 \in S
    BY <1>1, <1>2 DEF Agree
  <1>4. ASSUME NEW n \in Nat, n \in S PROVE n + 1 \in S
    <2> SUFFICES ASSUME n + 1 <= N PROVE (f[n + 1].threw <=> g[n + 1].threw) /\ Agree(f[n + 1].list, g[n + 1].list)
      OBVIOUS
    <2>1. PICK p \in Parameters, q \in Parameters : p = ps[n + 1] /\ q = qs[n + 1]
      BY <1>0
    <2>2. n \in 0..N /\ n + 1 \in 1..N
      BY <1>0
    <2>3. PICK r \in Results, s \in Results : r = f[n] /\ s = g[n]
      BY <1>1, <1>2, <2>2
    <2>4. f[n + 1] = Request!Add(r, p) /\ g[n + 1] = Request!Add(s, q)
      BY <1>1, <1>2, <2>1, <2>2, <2>3
    <2>5. (r.threw <=> s.threw) /\ Agree(r.list, s.list) /\ Matches(p, q)
      BY <1>4, <2>1, <2>2, <2>3
    <2>6. PICK l \in Seq(Pairs), m \in Seq(Pairs) : l = r.list /\ m = s.list
      BY DEF Results
    <2>7. /\ Request!Throws(l, p) <=> Request!Throws(m, q)
          /\ Request!IsAdded(l, p) <=> Request!IsAdded(m, q)
          /\ Agree(Append(l, <<p.key, p.value>>), Append(m, <<q.key, q.value>>))
      BY <2>5, <2>6, AddOneAgrees
    <2>8. /\ Request!Add(r, p).threw <=> r.threw \/ Request!Throws(l, p)
          /\ Request!Add(r, p).list =
                 IF ~Request!Add(r, p).threw /\ Request!IsAdded(l, p) THEN Append(l, <<p.key, p.value>>) ELSE l
      BY <2>6, AddOne
    <2>9. /\ Request!Add(s, q).threw <=> s.threw \/ Request!Throws(m, q)
          /\ Request!Add(s, q).list =
                 IF ~Request!Add(s, q).threw /\ Request!IsAdded(m, q) THEN Append(m, <<q.key, q.value>>) ELSE m
      BY <2>6, AddOne
    <2>10. Request!Add(r, p).threw <=> Request!Add(s, q).threw
      BY <2>5, <2>7, <2>8, <2>9
    <2>11. Agree(Request!Add(r, p).list, Request!Add(s, q).list)
      BY <2>5, <2>6, <2>7, <2>8, <2>9, <2>10
    <2>12. QED
      BY <2>4, <2>10, <2>11
  <1>5. N \in S
    BY <1>0, <1>3, <1>4, Induction
  <1>6. QED
    BY <1>0, <1>1, <1>2, <1>5

\* An optional parameter that is added last without an exception ends the list.
LEMMA LastAdded ==
    ASSUME NEW list \in Seq(Pairs), NEW ps \in Seq(Parameters), ps # <<>>, ~Request!AddAll(list, ps).threw,
           NEW p \in Parameters, p = ps[Len(ps)], p.value # None, ~p.required, ~p.duplicates
    PROVE  /\ Request!AddAll(list, ps).list # <<>>
           /\ Request!AddAll(list, ps).list[Len(Request!AddAll(list, ps).list)] = <<p.key, p.value>>
  <1> DEFINE N == Len(ps)
  <1>0. N \in Nat /\ N # 0 /\ N \in 1..N /\ N - 1 \in 0..N
    OBVIOUS
  <1>1. PICK f \in [0..N -> Results] :
              /\ f[0].list = list /\ ~f[0].threw
              /\ \A k \in 1..N : f[k] = Request!Add(f[k - 1], ps[k])
              /\ Request!AddAll(list, ps) = f[N]
    BY AddAllSteps
  <1>2. PICK r \in Results : r = f[N - 1]
    BY <1>0, <1>1
  <1>3. Request!AddAll(list, ps) = Request!Add(r, p)
    BY <1>0, <1>1, <1>2
  <1>4. PICK l \in Seq(Pairs) : l = r.list
    BY DEF Results
  <1>5. ~Request!Throws(l, p)
    BY <1>3, <1>4, AddOne
  <1>6. Request!IsAdded(l, p)
    BY <1>5 DEF Request!Throws, Request!IsAdded
  <1>7. Request!Add(r, p).list = Append(l, <<p.key, p.value>>)
    BY <1>3, <1>4, <1>6, AddOne
  <1>8. PICK e \in Pairs : e = <<p.key, p.value>>
    BY DEF Parameters, Pairs
  <1>9. /\ Append(l, e) # <<>> /\ Len(Append(l, e)) = Len(l) + 1
        /\ Append(l, e)[Len(l) + 1] = e
    BY AppendProperties
  <1>10. QED
    BY <1>3, <1>7, <1>8, <1>9

-----------------------------------------------------------------------------
Settings ==
    [kind : Request!Kinds, style : {"header", "body"}, secret : {None} \cup STRING, assertion : Request!Assertions,
     dpop : BOOLEAN, scope : {None} \cup STRING, resources : Seq(STRING)]

LEMMA Data ==
    /\ Application \notin Requests /\ None \notin Nat
    /\ Configurations \subseteq Settings
    /\ \A list \in Given : list \in Seq(Pairs)
  <1>1. \A list \in Given : list \in Seq(STRING \X STRING)
    BY RequestAssumption DEF Request!IsData
  <1>2. STRING \X STRING \subseteq Pairs
    BY DEF Pairs, Values
  <1>3. \A list \in Given : list \in Seq(Pairs)
    BY <1>1, <1>2, SeqMonotonic
  <1>4. QED
    BY <1>3, RequestAssumption DEF Request!IsData, Settings

LEMMA ParameterTyped ==
    ASSUME NEW required \in BOOLEAN, NEW k \in Names, NEW value \in Values
    PROVE  LET p == Request!Parameter(required, k, value)
           IN  /\ p \in Parameters
               /\ p.required = required /\ p.key = k /\ p.value = value /\ ~p.duplicates /\ ~p.empty
  <1> DEFINE no == FALSE
  <1>1. Request!Parameter(required, k, value) =
           [required |-> required, key |-> k, value |-> value, duplicates |-> no, empty |-> no]
    BY DEF Request!Parameter
  <1>2. no \in BOOLEAN /\ ~no
    OBVIOUS
  <1> HIDE DEF no
  <1>3. QED
    BY <1>1, <1>2 DEF Parameters

LEMMA RequiredTyped ==
    ASSUME NEW k \in Names, NEW value \in Values
    PROVE  LET p == Request!Required(k, value)
           IN  p \in Parameters /\ p.required /\ p.key = k /\ p.value = value /\ ~p.duplicates /\ ~p.empty
  BY ParameterTyped DEF Request!Required

LEMMA OptionalTyped ==
    ASSUME NEW k \in Names, NEW value \in Values
    PROVE  LET p == Request!Optional(k, value)
           IN  p \in Parameters /\ ~p.required /\ p.key = k /\ p.value = value /\ ~p.duplicates /\ ~p.empty
  BY ParameterTyped DEF Request!Optional

LEMMA ResourcesTyped ==
    ASSUME NEW c \in Settings
    PROVE  Request!Resources(c) \in Seq(Parameters)
  <1> DEFINE yes == TRUE
             e(i) == [Request!Parameter(c.kind # "pushed", "resource", c.resources[i]) EXCEPT !.duplicates = yes]
  <1>1. PICK rs \in Seq(STRING) : rs = c.resources
    BY DEF Settings
  <1>2. DOMAIN rs = 1..Len(rs) /\ Len(rs) \in Nat /\ \A i \in 1..Len(rs) : rs[i] \in STRING
    OBVIOUS
  <1>3. ASSUME NEW i \in 1..Len(rs) PROVE e(i) \in Parameters
    <2>1. PICK p : p = Request!Parameter(c.kind # "pushed", "resource", c.resources[i])
      OBVIOUS
    <2>2. c.resources[i] \in Values /\ "resource" \in Names
      BY <1>1, <1>2 DEF Values, Names
    <2>3. p \in Parameters /\ p.key = "resource" /\ ~p.empty
      BY <2>1, <2>2, ParameterTyped
    <2>4. e(i) = [p EXCEPT !.duplicates = yes]
      BY <2>1
    <2>5. yes \in BOOLEAN
      OBVIOUS
    <2> HIDE DEF yes, e
    <2>6. QED
      BY <2>3, <2>4, <2>5 DEF Parameters
  <1>4. Request!Resources(c) = [i \in 1..Len(rs) |-> e(i)]
    BY <1>1, <1>2 DEF Request!Resources
  <1> HIDE DEF e
  <1>5. QED
    BY <1>2, <1>3, <1>4

LEMMA OwnTyped ==
    ASSUME NEW c \in Settings
    PROVE  Request!Own(c) \in Seq(Parameters)
  <1>1. PICK rs \in Seq(Parameters) : rs = Request!Resources(c)
    BY ResourcesTyped
  <1>2. c.kind \in Request!Kinds /\ c.kind \in Values /\ c.scope \in Values
    BY DEF Settings, Values, Literals
  <1>3. \A k \in Names, v \in Values : Request!Required(k, v) \in Parameters /\ Request!Optional(k, v) \in Parameters
    BY RequiredTyped, OptionalTyped
  <1>. PICK scope \in Parameters : scope = Request!Optional("scope", c.scope)
    BY <1>2, <1>3 DEF Names
  <1>4. [Request!Required("password", None) EXCEPT !.empty = TRUE] \in Parameters
    <2> DEFINE yes == TRUE
    <2>1. PICK p : p = Request!Required("password", None)
      OBVIOUS
    <2>2. p \in Parameters /\ p.key = "password" /\ ~p.duplicates
      <3>1. "password" \in Names /\ None \in Values
        BY DEF Names, Values
      <3>2. QED
        BY <2>1, <3>1, RequiredTyped
    <2>3. yes \in BOOLEAN
      OBVIOUS
    <2>4. [Request!Required("password", None) EXCEPT !.empty = TRUE] = [p EXCEPT !.empty = yes]
      BY <2>1
    <2> HIDE DEF yes
    <2>5. QED
      BY <2>2, <2>3, <2>4 DEF Parameters
  <1>5. Request!Specific(c) \in Seq(Parameters)
    <2> USE <1>1, <1>2, <1>3 DEF Names, Values, Literals
    <2>1. CASE c.kind = "client_credentials"
      <3>1. <<scope>> \in Seq(Parameters)
        OBVIOUS
      <3>2. <<scope>> \o rs \in Seq(Parameters)
        BY <3>1
      <3>3. QED
        BY <2>1, <3>2 DEF Request!Specific
    <2>2. CASE c.kind = "refresh_token"
      <3>1. PICK p \in Parameters : p = Request!Required("refresh_token", "rt")
        OBVIOUS
      <3>2. <<p, scope>> \o rs \in Seq(Parameters)
        OBVIOUS
      <3>3. QED
        BY <2>2, <3>1, <3>2 DEF Request!Specific
    <2>3. CASE c.kind = "authorization_code"
      <3>1. <<Request!Required("code", "code"), Request!Required("redirect_uri", "uri"),
              Request!Optional("code_verifier", "v")>> \o rs \in Seq(Parameters)
        OBVIOUS
      <3>2. QED
        BY <2>3, <3>1 DEF Request!Specific
    <2>4. CASE c.kind = "password"
      <3>1. <<Request!Required("username", "user"), [Request!Required("password", None) EXCEPT !.empty = TRUE],
              Request!Optional("scope", c.scope)>> \o rs \in Seq(Parameters)
        BY <1>4
      <3>2. QED
        BY <2>4, <3>1 DEF Request!Specific
    <2>5. CASE c.kind = "device_code"
      <3>1. <<Request!Required("device_code", "code")>> \in Seq(Parameters)
        OBVIOUS
      <3>2. QED
        BY <2>5, <3>1 DEF Request!Specific
    <2>6. CASE c.kind = "token_exchange"
      <3>1. PICK p \in Parameters, q \in Parameters, a \in Parameters :
                /\ p = Request!Required("subject_token", "t") /\ q = Request!Required("subject_token_type", "type")
                /\ a = Request!Optional("audience", None)
        OBVIOUS
      <3>2. <<p, q, a, scope>> \in Seq(Parameters)
        OBVIOUS
      <3>3. QED
        BY <2>6, <3>1, <3>2 DEF Request!Specific
    <2>7. CASE c.kind = "ciba"
      <3>1. <<Request!Required("auth_req_id", "id")>> \o rs \in Seq(Parameters)
        OBVIOUS
      <3>2. QED
        BY <2>7, <3>1 DEF Request!Specific
    <2>8. CASE c.kind = "pushed"
      <3>1. <<Request!Required("response_type", "code"), Request!Optional("scope", c.scope),
              Request!Optional("redirect_uri", "uri"), Request!Optional("state", "s")>> \o rs \in Seq(Parameters)
        OBVIOUS
      <3>2. QED
        BY <2>8, <3>1 DEF Request!Specific
    <2>9. QED
      BY <2>1, <2>2, <2>3, <2>4, <2>5, <2>6, <2>7, <2>8 DEF Request!Kinds
  <1>6. PICK sp \in Seq(Parameters) : sp = Request!Specific(c)
    BY <1>5
  <1>7. CASE c.kind = "pushed"
    <2>1. PICK s \in Seq(Parameters) : s = IF c.style = "header" THEN <<Request!Required("client_id", "client")>> ELSE <<>>
      <3>1. PICK p \in Parameters : p = Request!Required("client_id", "client")
        BY <1>3 DEF Names, Values, Literals
      <3>2. <<p>> \in Seq(Parameters) /\ <<>> \in Seq(Parameters)
        OBVIOUS
      <3>3. QED
        BY <3>1, <3>2
    <2>2. Request!Own(c) = s \o sp
      BY <1>6, <1>7, <2>1 DEF Request!Own
    <2>3. QED
      BY <2>2
  <1>8. CASE c.kind # "pushed"
    <2>1. PICK s \in Seq(Parameters) : s = <<Request!Required("grant_type", c.kind)>>
      <3>1. PICK p \in Parameters : p = Request!Required("grant_type", c.kind)
        BY <1>2, <1>3 DEF Names
      <3>2. <<p>> \in Seq(Parameters)
        OBVIOUS
      <3>3. QED
        BY <3>1, <3>2
    <2>2. Request!Own(c) = s \o sp
      BY <1>6, <1>8, <2>1 DEF Request!Own
    <2>3. QED
      BY <2>2
  <1>9. QED
    BY <1>7, <1>8

\* What Prepare adds has what it adds without an assertion, and ends with the
\* assertion; two assertions are added by parameters that match.
LEMMA ClientTyped ==
    ASSUME NEW c \in Settings, NEW v \in Nat
    PROVE  /\ Request!Client(c, v) \in Seq(Parameters)
           /\ Len(Request!Client(c, 0)) <= Len(Request!Client(c, v))
           /\ \A i \in 1..Len(Request!Client(c, 0)) : Request!Client(c, v)[i] = Request!Client(c, 0)[i]
           /\ v # 0 => /\ Request!Client(c, v) # <<>>
                       /\ Request!Client(c, v)[Len(Request!Client(c, v))] = Request!Optional("client_assertion", v)
           /\ \A w \in Nat \ {0} : v # 0 =>
                  /\ Len(Request!Client(c, w)) = Len(Request!Client(c, v))
                  /\ \A i \in 1..Len(Request!Client(c, v)) : Matches(Request!Client(c, v)[i], Request!Client(c, w)[i])
  <1>1. c.secret \in Values /\ \A w \in Nat : w \in Values /\ w # None
    BY Data DEF Settings, Values
  <1>0. /\ "client_id" \in Names /\ "client_secret" \in Names /\ "client_assertion_type" \in Names
        /\ "client_assertion" \in Names /\ "client" \in Values /\ "jwt" \in Values
    BY DEF Names, Values, Literals
  <1>2. \A w \in Nat : Request!Optional("client_assertion", w) \in Parameters
    BY <1>1, <1>0, OptionalTyped
  <1>3. PICK a \in Parameters, b \in Parameters, t \in Parameters :
            /\ a = Request!Required("client_id", "client") /\ b = Request!Optional("client_secret", c.secret)
            /\ t = Request!Optional("client_assertion_type", "jwt")
    BY <1>1, <1>0, RequiredTyped, OptionalTyped
  <1>4. Matches(a, a) /\ Matches(b, b) /\ Matches(t, t)
    <2>1. a.required /\ a.key = "client_id"
      BY <1>3, <1>0, RequiredTyped
    <2>2. ~b.required /\ ~t.required
      BY <1>1, <1>3, <1>0, OptionalTyped
    <2>3. QED
      BY <2>1, <2>2 DEF Matches
  <1>5. ASSUME NEW x \in Nat \ {0}, NEW y \in Nat \ {0}
        PROVE  Matches(Request!Optional("client_assertion", x), Request!Optional("client_assertion", y))
    <2>1. PICK p \in Parameters, q \in Parameters :
              p = Request!Optional("client_assertion", x) /\ q = Request!Optional("client_assertion", y)
      BY <1>2
    <2>2. /\ ~p.required /\ p.key = "client_assertion" /\ p.value = x /\ ~p.duplicates /\ ~p.empty
          /\ ~q.required /\ q.key = "client_assertion" /\ q.value = y /\ ~q.duplicates /\ ~q.empty
      BY <1>1, <2>1, OptionalTyped DEF Names
    <2>3. p.required \in BOOLEAN /\ p.duplicates \in BOOLEAN /\ p.empty \in BOOLEAN
          /\ q.required \in BOOLEAN /\ q.duplicates \in BOOLEAN /\ q.empty \in BOOLEAN
      BY DEF Parameters
    <2>4. QED
      BY <1>1, <2>1, <2>2, <2>3 DEF Matches
  <1>6. PICK s : s = IF c.style = "body" THEN <<a, b>> ELSE <<>>
    OBVIOUS
  <1>7. s \in Seq(Parameters) /\ Len(s) \in Nat /\ \A i \in 1..Len(s) : Matches(s[i], s[i])
    BY <1>4, <1>6
  <1>8. Request!Client(c, 0) = s
    BY <1>3, <1>6, <1>7 DEF Request!Client
  <1>9. ASSUME NEW w \in Nat \ {0}, NEW o \in Parameters, o = Request!Optional("client_assertion", w)
        PROVE  /\ Request!Client(c, w) \in Seq(Parameters)
               /\ Len(Request!Client(c, w)) = Len(s) + 2
               /\ \A i \in 1..Len(s) : Request!Client(c, w)[i] = s[i]
               /\ Request!Client(c, w)[Len(s) + 1] = t
               /\ Request!Client(c, w)[Len(s) + 2] = o
    <2>1. Request!Client(c, w) = s \o <<t, o>>
      BY <1>3, <1>6, <1>9 DEF Request!Client
    <2>2. QED
      BY <1>7, <2>1
  <1>10. CASE v = 0
    BY <1>7, <1>8, <1>10
  <1>11. CASE v # 0
    <2>1. PICK o \in Parameters : o = Request!Optional("client_assertion", v)
      BY <1>2
    <2>2. PICK d : d = Request!Client(c, v)
      OBVIOUS
    <2>3. /\ d \in Seq(Parameters) /\ Len(d) = Len(s) + 2 /\ d[Len(s) + 1] = t /\ d[Len(s) + 2] = o
          /\ \A i \in 1..Len(s) : d[i] = s[i]
      BY <1>9, <1>11, <2>1, <2>2
    <2>4. ASSUME NEW w \in Nat \ {0}
          PROVE  /\ Len(Request!Client(c, w)) = Len(d)
                 /\ \A i \in 1..Len(d) : Matches(d[i], Request!Client(c, w)[i])
      <3>1. PICK q \in Parameters : q = Request!Optional("client_assertion", w)
        BY <1>2
      <3>2. PICK e : e = Request!Client(c, w)
        OBVIOUS
      <3>3. /\ Len(e) = Len(s) + 2 /\ e[Len(s) + 1] = t /\ e[Len(s) + 2] = q
            /\ \A i \in 1..Len(s) : e[i] = s[i]
        BY <1>9, <3>1, <3>2
      <3>4. ASSUME NEW i \in 1..Len(d) PROVE Matches(d[i], e[i])
        <4>1. CASE i \in 1..Len(s)
          BY <1>7, <2>3, <3>3, <4>1
        <4>2. CASE i = Len(s) + 1
          BY <1>4, <2>3, <3>3, <4>2
        <4>3. CASE i = Len(s) + 2
          <5>1. Matches(o, q)
            BY <1>5, <1>11, <2>1, <3>1
          <5>2. QED
            BY <2>3, <3>3, <4>3, <5>1
        <4>4. QED
          BY <1>7, <2>3, <3>4, <4>1, <4>2, <4>3
      <3>5. QED
        BY <2>3, <3>2, <3>3, <3>4
    <2>5. d # <<>> /\ d[Len(d)] = o
      BY <1>7, <2>3
    <2>6. QED
      BY <1>7, <1>8, <2>1, <2>2, <2>3, <2>4, <2>5
  <1>12. QED
    BY <1>10, <1>11

-----------------------------------------------------------------------------
\* What is sent for a request configured as c to which the application has given
\* g, with the client assertion v.
Cloned(g, c) == Request!AddAll(g, Request!Own(c))
Prepared(g, c, v) == Request!AddAll(Cloned(g, c).list, Request!Client(c, v))
CanBeSent(g, c, v) == ~Cloned(g, c).threw /\ ~Prepared(g, c, v).threw /\ ~(c.style = "header" /\ v # 0)

Sends(g, c, m, v) ==
    /\ CanBeSent(g, c, v)
    /\ m.parameters = Prepared(g, c, v).list
    /\ m.basic = (c.style = "header")
    /\ (v = 0) <=> (c.assertion = "none")

LEMMA PreparedTyped ==
    ASSUME NEW g \in Seq(Pairs), NEW c \in Settings, NEW v \in Nat
    PROVE  Cloned(g, c) \in Results /\ Cloned(g, c).list \in Seq(Pairs)
           /\ Prepared(g, c, v) \in Results /\ Prepared(g, c, v).list \in Seq(Pairs)
  <1>1. Cloned(g, c) \in Results
    BY OwnTyped, AddAllWhole DEF Cloned
  <1>2. Cloned(g, c).list \in Seq(Pairs)
    BY <1>1 DEF Results
  <1>3. Prepared(g, c, v) \in Results
    BY <1>2, ClientTyped, AddAllWhole DEF Prepared
  <1>4. QED
    BY <1>1, <1>2, <1>3 DEF Results

\* One assertion can be sent where another can, and is all that is different.
LEMMA AssertionsAreAlike ==
    ASSUME NEW g \in Seq(Pairs), NEW c \in Settings, NEW v \in Nat, NEW w \in Nat, CanBeSent(g, c, v), (v = 0) <=> (w = 0)
    PROVE  /\ CanBeSent(g, c, w)
           /\ Agree(Prepared(g, c, v).list, Prepared(g, c, w).list)
           /\ v # w => Prepared(g, c, v).list # Prepared(g, c, w).list
  <1>1. CASE v = w
    BY <1>1 DEF Agree
  <1>2. CASE v # w
    <2>1. v # 0 /\ w # 0
      BY <1>2
    <2>2. PICK l \in Seq(Pairs) : l = Cloned(g, c).list
      BY PreparedTyped
    <2>3. PICK d \in Seq(Parameters), e \in Seq(Parameters) : d = Request!Client(c, v) /\ e = Request!Client(c, w)
      BY ClientTyped
    <2>4. Len(e) = Len(d) /\ \A i \in 1..Len(d) : Matches(d[i], e[i])
      BY <2>1, <2>3, ClientTyped
    <2>5. /\ Prepared(g, c, v) = Request!AddAll(l, d)
          /\ Prepared(g, c, w) = Request!AddAll(l, e)
      BY <2>2, <2>3 DEF Prepared
    <2>6. /\ Request!AddAll(l, d).threw <=> Request!AddAll(l, e).threw
          /\ Agree(Request!AddAll(l, d).list, Request!AddAll(l, e).list)
      BY <2>4, AddAllAgrees
    <2>7. CanBeSent(g, c, w)
      BY <2>1, <2>5, <2>6 DEF CanBeSent
    <2>8. ~Request!AddAll(l, d).threw /\ ~Request!AddAll(l, e).threw
      BY <2>5, <2>6 DEF CanBeSent
    <2>9. "client_assertion" \in Names /\ v \in Values /\ w \in Values /\ v # None /\ w # None
      BY Data DEF Names, Values
    <2>10. PICK p \in Parameters, q \in Parameters :
               p = Request!Optional("client_assertion", v) /\ q = Request!Optional("client_assertion", w)
      BY <2>9, OptionalTyped
    <2>11. /\ ~p.required /\ p.value = v /\ ~p.duplicates
           /\ ~q.required /\ q.value = w /\ ~q.duplicates
      BY <2>9, <2>10, OptionalTyped
    <2>12. d # <<>> /\ p = d[Len(d)] /\ e # <<>> /\ q = e[Len(e)]
      BY <2>1, <2>3, <2>10, ClientTyped
    <2>13. Request!AddAll(l, d).list[Len(Request!AddAll(l, d).list)] = <<p.key, p.value>>
      BY <2>8, <2>9, <2>11, <2>12, LastAdded
    <2>14. Request!AddAll(l, e).list[Len(Request!AddAll(l, e).list)] = <<q.key, q.value>>
      BY <2>8, <2>9, <2>11, <2>12, LastAdded
    <2>15. <<p.key, p.value>> # <<q.key, q.value>>
      BY <1>2, <2>11
    <2>16. QED
      BY <2>5, <2>6, <2>7, <2>13, <2>14, <2>15
  <1>3. QED
    BY <1>1, <1>2

-----------------------------------------------------------------------------
AllMessages == [parameters : Seq(Pairs), proof : Nat, basic : BOOLEAN]

RequestTyping ==
    /\ given \in Seq(Pairs)
    /\ lists \in [{Application} \cup Requests -> Seq(Pairs)]
    /\ lists[Application] = given
    /\ config \in [Requests -> Settings \cup {None}]
    /\ requestPc \in [Requests -> Request!Labels]
    /\ proof \in [Requests -> Nat]
    /\ requestAssertion \in [Requests -> Nat]
    /\ issued \in Nat
    /\ messages \in [Requests -> Seq(AllMessages)]

\* The assertion of the first message and the next one: it is another one if the
\* service or the factory of the client makes it.
Changes(c, at, a, v) ==
    /\ at \in {"ready", "assertion"} => c.assertion = "factory" \/ (v # a <=> c.assertion = "service")
    /\ at = "prepare" => (v # a <=> c.assertion \in {"service", "factory"})

Once(g, c, at, p, a, n, ms) ==
    /\ Len(ms) = 1
    /\ ms[1].proof # p
    /\ \E v \in Nat : v <= n /\ Sends(g, c, ms[1], v) /\ Changes(c, at, a, v)

Twice(g, c, ms) ==
    /\ Len(ms) = 2
    /\ ms[1].proof # ms[2].proof
    /\ \E v, w \in Nat : /\ Sends(g, c, ms[1], v) /\ Sends(g, c, ms[2], w)
                         /\ v # w <=> c.assertion \in {"service", "factory"}

\* A request at a label, with list l, configuration c, proof p, assertion a and
\* messages ms, when n assertions have been made.
RequestState(g, l, c, at, p, a, n, ms) ==
    /\ a <= n
    /\ at = "idle" => a = 0
    /\ at # "idle" => /\ c \in Settings
                      /\ c.assertion = "none" => a = 0
                      /\ c.assertion \in {"fixed", "service"} => a # 0
    /\ at \in {"assertion", "prepare"} => ~Cloned(g, c).threw /\ l = Cloned(g, c).list
    /\ at = "assertion" => c.assertion = "factory"
    /\ at \in {"prepare", "sent", "refused", "done"} => ((a = 0) <=> (c.assertion = "none"))
    /\ at \in {"idle", "threw"} => ms = <<>>
    /\ at \in {"ready", "assertion", "prepare", "failed"} => ms = <<>> \/ Once(g, c, at, p, a, n, ms)
    /\ at \in {"sent", "refused", "done"} =>
           \/ Len(ms) = 1 /\ ms[1].proof = p /\ Sends(g, c, ms[1], a)
           \/ Twice(g, c, ms)

RequestInv ==
    /\ RequestTyping
    /\ \A r \in Requests :
          RequestState(given, lists[r], config[r], requestPc[r], proof[r], requestAssertion[r], issued, messages[r])

LEMMA LaterState ==
    ASSUME NEW g, NEW l, NEW c, NEW at, NEW p, NEW a \in Nat, NEW n \in Nat, NEW k \in Nat, NEW ms, n <= k,
           RequestState(g, l, c, at, p, a, n, ms)
    PROVE  RequestState(g, l, c, at, p, a, k, ms)
  <1>1. Once(g, c, at, p, a, n, ms) => Once(g, c, at, p, a, k, ms)
    BY DEF Once
  <1>2. a <= k
    BY DEF RequestState
  <1>3. QED
    BY <1>1, <1>2 DEF RequestState

\* A step of one request leaves the others as they are.
LEMMA OthersAreKept ==
    ASSUME RequestInv, NEW r \in Requests, RequestTyping', given' = given, issued <= issued',
           \A q \in Requests \ {r} :
              /\ lists'[q] = lists[q] /\ config'[q] = config[q] /\ requestPc'[q] = requestPc[q]
              /\ proof'[q] = proof[q] /\ requestAssertion'[q] = requestAssertion[q] /\ messages'[q] = messages[q],
           RequestState(given, lists'[r], config'[r], requestPc'[r], proof'[r], requestAssertion'[r], issued', messages'[r])
    PROVE  RequestInv'
  <1>1. ASSUME NEW q \in Requests \ {r}
        PROVE  RequestState(given', lists'[q], config'[q], requestPc'[q], proof'[q], requestAssertion'[q], issued', messages'[q])
    <2>1. RequestState(given, lists[q], config[q], requestPc[q], proof[q], requestAssertion[q], issued, messages[q])
      BY DEF RequestInv
    <2>2. issued \in Nat /\ issued' \in Nat /\ requestAssertion[q] \in Nat
      BY DEF RequestInv, RequestTyping
    <2>3. RequestState(given, lists[q], config[q], requestPc[q], proof[q], requestAssertion[q], issued', messages[q])
      BY <2>1, <2>2, LaterState
    <2>4. QED
      BY <2>3
  <1>2. QED
    BY <1>1 DEF RequestInv

LEMMA RequestInit == Request!Init => RequestInv
  <1> SUFFICES ASSUME Request!Init PROVE RequestInv
    OBVIOUS
  <1>1. given \in Seq(Pairs)
    BY Data DEF Request!Init
  <1>2. RequestTyping
    BY <1>1, Data DEF Request!Init, RequestTyping, Request!Labels
  <1>3. ASSUME NEW r \in Requests
        PROVE  RequestState(given, lists[r], config[r], requestPc[r], proof[r], requestAssertion[r], issued, messages[r])
    BY <1>3 DEF Request!Init, RequestState
  <1>4. QED
    BY <1>2, <1>3 DEF RequestInv

LEMMA CreateKeeps ==
    ASSUME RequestInv, NEW r \in Requests, Request!Create(r)
    PROVE  RequestInv'
  <1> USE DEF Request!Create, Request!Goto
  <1>1. RequestTyping /\ messages[r] = <<>>
    BY DEF RequestInv, RequestState
  <1>2. PICK c \in Configurations :
            /\ config' = [config EXCEPT ![r] = IF c.assertion \in {"fixed", "service"} THEN [c EXCEPT !.style = "body"] ELSE c]
            /\ proof' = [proof EXCEPT ![r] = IF c.dpop THEN 1 ELSE 0]
            /\ IF c.assertion \in {"fixed", "service"}
               THEN issued' = issued + 1 /\ requestAssertion' = [requestAssertion EXCEPT ![r] = issued + 1]
               ELSE UNCHANGED <<issued, requestAssertion>>
    OBVIOUS
  <1>3. c \in Settings
    BY Data
  <1> DEFINE credential == c.assertion \in {"fixed", "service"}
             d == IF credential THEN [c EXCEPT !.style = "body"] ELSE c
             p == IF c.dpop THEN 1 ELSE 0
             a == IF credential THEN issued + 1 ELSE requestAssertion[r]
             n == IF credential THEN issued + 1 ELSE issued
  <1>4. d \in Settings /\ d.assertion = c.assertion
    <2>1. CASE credential
      <3>1. "body" \in {"header", "body"}
        OBVIOUS
      <3>2. [c EXCEPT !.style = "body"] \in Settings /\ [c EXCEPT !.style = "body"].assertion = c.assertion
        BY <1>3, <3>1 DEF Settings
      <3>3. QED
        BY <2>1, <3>2
    <2>2. CASE ~credential
      BY <1>3, <2>2
    <2>3. QED
      BY <2>1, <2>2
  <1>5. /\ config' = [config EXCEPT ![r] = d] /\ requestPc' = [requestPc EXCEPT ![r] = "ready"]
        /\ given' = given /\ lists' = lists /\ messages' = messages /\ requestPc[r] = "idle"
    BY <1>2
  <1>6. p \in Nat /\ proof' = [proof EXCEPT ![r] = p]
    BY <1>2
  <1>7. requestAssertion[r] = 0 /\ requestAssertion[r] \in Nat /\ issued \in Nat
    BY <1>1, <1>5 DEF RequestInv, RequestState, RequestTyping
  <1>8. /\ issued' = n /\ requestAssertion' = [requestAssertion EXCEPT ![r] = a]
        /\ a \in Nat /\ n \in Nat /\ issued <= n /\ a <= n
        /\ d.assertion = "none" => a = 0
        /\ d.assertion \in {"fixed", "service"} => a # 0
    <2>1. CASE credential
      BY <1>2, <1>4, <1>7, <2>1
    <2>2. CASE ~credential
      BY <1>1, <1>2, <1>4, <1>7, <2>2 DEF RequestTyping
    <2>3. QED
      BY <2>1, <2>2
  <1> HIDE DEF credential, d, p, a, n
  <1>9. RequestTyping'
    BY <1>1, <1>4, <1>5, <1>6, <1>8 DEF RequestTyping, Request!Labels
  <1>10. /\ config'[r] = d /\ requestPc'[r] = "ready" /\ proof'[r] = p /\ requestAssertion'[r] = a
         /\ lists'[r] = lists[r] /\ messages'[r] = <<>>
    BY <1>1, <1>5, <1>6, <1>8 DEF RequestTyping
  <1>11. RequestState(given, lists'[r], config'[r], requestPc'[r], proof'[r], requestAssertion'[r], issued', messages'[r])
    BY <1>4, <1>8, <1>10 DEF RequestState
  <1>12. QED
    BY <1>1, <1>5, <1>6, <1>8, <1>9, <1>11, OthersAreKept DEF RequestTyping

LEMMA SendKeeps ==
    ASSUME RequestInv, NEW r \in Requests, Request!Send(r)
    PROVE  RequestInv'
  <1>1. RequestTyping
    BY DEF RequestInv
  <1>2. PICK c : c = config[r]
    OBVIOUS
  <1>3. PICK result : result = Cloned(given, c)
    OBVIOUS
  <1>4. PICK label : label = CASE result.threw -> "threw"
                               [] ~result.threw /\ c.assertion = "factory" -> "assertion"
                               [] OTHER -> "prepare"
    OBVIOUS
  <1>5. /\ requestPc[r] = "ready"
        /\ lists' = [lists EXCEPT ![r] = result.list] /\ requestPc' = [requestPc EXCEPT ![r] = label]
        /\ given' = given /\ config' = config /\ proof' = proof /\ requestAssertion' = requestAssertion
        /\ issued' = issued /\ messages' = messages
    BY <1>1, <1>2, <1>3, <1>4 DEF Request!Send, Request!Goto, Request!Target, Cloned, RequestTyping
  <1>6. RequestState(given, lists[r], c, "ready", proof[r], requestAssertion[r], issued, messages[r])
    BY <1>2, <1>5 DEF RequestInv
  <1>7. c \in Settings
    BY <1>6 DEF RequestState
  <1>8. result \in Results /\ result.list \in Seq(Pairs)
    BY <1>1, <1>3, <1>7, OwnTyped, AddAllWhole DEF Cloned, Results, RequestTyping
  <1>9. \/ result.threw /\ label = "threw"
        \/ ~result.threw /\ c.assertion = "factory" /\ label = "assertion"
        \/ ~result.threw /\ c.assertion # "factory" /\ label = "prepare"
    BY <1>4, <1>8 DEF Results
  <1>10. RequestTyping'
    BY <1>1, <1>5, <1>8, <1>9, Data DEF RequestTyping, Request!Labels
  <1>11. /\ lists'[r] = result.list /\ requestPc'[r] = label
    BY <1>1, <1>5 DEF RequestTyping
  <1>12. RequestState(given, result.list, c, label, proof[r], requestAssertion[r], issued, messages[r])
    <2> PICK l \in Seq(Pairs), p \in Nat, a \in Nat, n \in Nat, ms \in Seq(AllMessages) :
            l = lists[r] /\ p = proof[r] /\ a = requestAssertion[r] /\ n = issued /\ ms = messages[r]
      BY <1>1 DEF RequestTyping
    <2>1. /\ a <= n /\ c \in Settings
          /\ c.assertion = "none" => a = 0
          /\ c.assertion \in {"fixed", "service"} => a # 0
          /\ ms = <<>> \/ Once(given, c, "ready", p, a, n, ms)
      BY <1>6 DEF RequestState
    <2>2. c.assertion \in {"none", "fixed", "service", "factory"}
      BY <1>7 DEF Settings, Request!Assertions
    <2>3. CASE label = "threw"
      <3>1. ms = <<>>
        BY <1>3, <1>9, <2>1, <2>3 DEF Once, Sends, CanBeSent
      <3>2. QED
        BY <2>1, <2>3, <3>1 DEF RequestState
    <2>4. CASE label = "assertion"
      <3>1. Once(given, c, "ready", p, a, n, ms) => Once(given, c, "assertion", p, a, n, ms)
        BY <1>9, <2>4 DEF Once, Changes
      <3>2. QED
        BY <1>3, <1>9, <2>1, <2>4, <3>1 DEF RequestState
    <2>5. CASE label = "prepare"
      <3>1. Once(given, c, "ready", p, a, n, ms) => Once(given, c, "prepare", p, a, n, ms)
        BY <1>9, <2>2, <2>5 DEF Once, Changes
      <3>2. QED
        BY <1>3, <1>9, <2>1, <2>2, <2>5, <3>1 DEF RequestState
    <2>6. QED
      BY <1>9, <2>3, <2>4, <2>5
  <1>13. QED
    <2>1. RequestState(given, lists'[r], config'[r], requestPc'[r], proof'[r], requestAssertion'[r], issued', messages'[r])
      BY <1>2, <1>5, <1>11, <1>12
    <2>2. issued <= issued'
      BY <1>1, <1>5 DEF RequestTyping
    <2>3. \A q \in Requests \ {r} :
              /\ lists'[q] = lists[q] /\ config'[q] = config[q] /\ requestPc'[q] = requestPc[q]
              /\ proof'[q] = proof[q] /\ requestAssertion'[q] = requestAssertion[q] /\ messages'[q] = messages[q]
      BY <1>1, <1>5 DEF RequestTyping
    <2>4. QED
      BY <1>5, <1>10, <2>1, <2>2, <2>3, OthersAreKept

LEMMA ReceiveAssertionKeeps ==
    ASSUME RequestInv, NEW r \in Requests, Request!ReceiveAssertion(r)
    PROVE  RequestInv'
  <1>1. RequestTyping
    BY DEF RequestInv
  <1>2. /\ requestPc[r] = "assertion"
        /\ requestPc' = [requestPc EXCEPT ![r] = "prepare"] /\ requestAssertion' = [requestAssertion EXCEPT ![r] = issued + 1]
        /\ issued' = issued + 1
        /\ given' = given /\ lists' = lists /\ config' = config /\ proof' = proof /\ messages' = messages
    BY DEF Request!ReceiveAssertion, Request!Goto
  <1>3. RequestTyping'
    BY <1>1, <1>2 DEF RequestTyping, Request!Labels
  <1>4. PICK l \in Seq(Pairs), c \in Settings \cup {None}, p \in Nat, a \in Nat, n \in Nat, ms \in Seq(AllMessages) :
            l = lists[r] /\ c = config[r] /\ p = proof[r] /\ a = requestAssertion[r] /\ n = issued /\ ms = messages[r]
    BY <1>1 DEF RequestTyping
  <1>5. RequestState(given, l, c, "assertion", p, a, n, ms)
    BY <1>2, <1>4 DEF RequestInv
  <1>6. Once(given, c, "assertion", p, a, n, ms) => Once(given, c, "prepare", p, n + 1, n + 1, ms)
    BY <1>5 DEF Once, Changes, RequestState
  <1>7. RequestState(given, l, c, "prepare", p, n + 1, n + 1, ms)
    BY <1>5, <1>6 DEF RequestState
  <1>8. /\ lists'[r] = l /\ config'[r] = c /\ requestPc'[r] = "prepare" /\ proof'[r] = p
        /\ requestAssertion'[r] = n + 1 /\ issued' = n + 1 /\ messages'[r] = ms
    BY <1>1, <1>2, <1>4 DEF RequestTyping
  <1>9. QED
    <2>1. RequestState(given, lists'[r], config'[r], requestPc'[r], proof'[r], requestAssertion'[r], issued', messages'[r])
      BY <1>7, <1>8
    <2>2. issued <= issued'
      BY <1>1, <1>2 DEF RequestTyping
    <2>3. \A q \in Requests \ {r} :
              /\ lists'[q] = lists[q] /\ config'[q] = config[q] /\ requestPc'[q] = requestPc[q]
              /\ proof'[q] = proof[q] /\ requestAssertion'[q] = requestAssertion[q] /\ messages'[q] = messages[q]
      BY <1>1, <1>2 DEF RequestTyping
    <2>4. QED
      BY <1>2, <1>3, <2>1, <2>2, <2>3, OthersAreKept

\* A request that only goes to another label.
LEMMA MoveKeeps ==
    ASSUME RequestInv, NEW r \in Requests, NEW label \in Request!Labels,
           \/ requestPc[r] = "assertion" /\ label = "failed"
           \/ requestPc[r] = "sent" /\ label \in {"refused", "done"},
           Request!Goto(r, label), UNCHANGED <<given, lists, config, proof, requestAssertion, issued, messages>>
    PROVE  RequestInv'
  <1>1. RequestTyping
    BY DEF RequestInv
  <1>2. /\ requestPc' = [requestPc EXCEPT ![r] = label]
        /\ given' = given /\ lists' = lists /\ config' = config /\ proof' = proof /\ requestAssertion' = requestAssertion
        /\ issued' = issued /\ messages' = messages
    BY DEF Request!Goto
  <1>3. RequestTyping'
    BY <1>1, <1>2 DEF RequestTyping
  <1>4. PICK l \in Seq(Pairs), c \in Settings \cup {None}, p \in Nat, a \in Nat, n \in Nat, ms \in Seq(AllMessages) :
            l = lists[r] /\ c = config[r] /\ p = proof[r] /\ a = requestAssertion[r] /\ n = issued /\ ms = messages[r]
    BY <1>1 DEF RequestTyping
  <1>5. RequestState(given, l, c, requestPc[r], p, a, n, ms)
    BY <1>4 DEF RequestInv
  <1>6. RequestState(given, l, c, label, p, a, n, ms)
    <2>1. CASE requestPc[r] = "assertion" /\ label = "failed"
      <3>1. Once(given, c, "assertion", p, a, n, ms) => Once(given, c, "failed", p, a, n, ms)
        BY DEF Once, Changes
      <3>2. QED
        BY <1>5, <2>1, <3>1 DEF RequestState
    <2>2. CASE requestPc[r] = "sent" /\ label \in {"refused", "done"}
      BY <1>5, <2>2 DEF RequestState
    <2>3. QED
      BY <2>1, <2>2
  <1>7. /\ lists'[r] = l /\ config'[r] = c /\ requestPc'[r] = label /\ proof'[r] = p
        /\ requestAssertion'[r] = a /\ issued' = n /\ messages'[r] = ms
    BY <1>1, <1>2, <1>4 DEF RequestTyping
  <1>8. QED
    <2>1. RequestState(given, lists'[r], config'[r], requestPc'[r], proof'[r], requestAssertion'[r], issued', messages'[r])
      BY <1>6, <1>7
    <2>2. issued <= issued'
      BY <1>1, <1>2 DEF RequestTyping
    <2>3. \A q \in Requests \ {r} :
              /\ lists'[q] = lists[q] /\ config'[q] = config[q] /\ requestPc'[q] = requestPc[q]
              /\ proof'[q] = proof[q] /\ requestAssertion'[q] = requestAssertion[q] /\ messages'[q] = messages[q]
      BY <1>1, <1>2 DEF RequestTyping
    <2>4. QED
      BY <1>2, <1>3, <2>1, <2>2, <2>3, OthersAreKept

LEMMA PrepareKeeps ==
    ASSUME RequestInv, NEW r \in Requests, Request!Prepare(r)
    PROVE  RequestInv'
  <1>1. RequestTyping
    BY DEF RequestInv
  <1>2. PICK l \in Seq(Pairs), c \in Settings \cup {None}, p \in Nat, a \in Nat, n \in Nat, ms \in Seq(AllMessages) :
            l = lists[r] /\ c = config[r] /\ p = proof[r] /\ a = requestAssertion[r] /\ n = issued /\ ms = messages[r]
    BY <1>1 DEF RequestTyping
  <1>3. requestPc[r] = "prepare" /\ RequestState(given, l, c, "prepare", p, a, n, ms)
    BY <1>2 DEF RequestInv, Request!Prepare
  <1>4. c \in Settings /\ l = Cloned(given, c).list /\ ~Cloned(given, c).threw
    BY <1>3 DEF RequestState
  <1>5. PICK result : result = Prepared(given, c, a)
    OBVIOUS
  <1>6. result = Request!AddAll(lists[Request!Target(r)], Request!Client(config[r], requestAssertion[r]))
    BY <1>2, <1>4, <1>5 DEF Prepared, Request!Target
  <1>7. result \in Results /\ result.list \in Seq(Pairs)
    BY <1>1, <1>4, <1>5, PreparedTyped DEF RequestTyping
  <1>8. PICK threw \in BOOLEAN : threw <=> (result.threw \/ (c.style = "header" /\ a # 0))
    OBVIOUS
  <1>9. threw <=> ~CanBeSent(given, c, a)
    BY <1>4, <1>5, <1>8 DEF CanBeSent
  <1>10. PICK basic \in BOOLEAN : basic = (c.style = "header")
    OBVIOUS
  <1>11. PICK m : m = [parameters |-> result.list, proof |-> p, basic |-> basic]
    OBVIOUS
  <1>12. m \in AllMessages /\ m.parameters = result.list /\ m.proof = p /\ m.basic = (c.style = "header")
    BY <1>7, <1>10, <1>11 DEF AllMessages
  <1>13. PICK ns : ns = IF threw THEN ms ELSE Append(ms, m)
    OBVIOUS
  <1>14. PICK label : label = IF threw THEN "threw" ELSE "sent"
    OBVIOUS
  <1>15. /\ requestPc' = [requestPc EXCEPT ![r] = label] /\ lists' = [lists EXCEPT ![r] = result.list]
         /\ given' = given /\ config' = config /\ proof' = proof /\ requestAssertion' = requestAssertion /\ issued' = issued
    BY <1>2, <1>6, <1>8, <1>14 DEF Request!Prepare, Request!Goto, Request!Target
  <1>16. messages' = [messages EXCEPT ![r] = ns]
    <2>1. CASE threw
      BY <1>1, <1>2, <1>6, <1>8, <1>13, <2>1 DEF Request!Prepare, RequestTyping
    <2>2. CASE ~threw
      <3>1. messages' = [messages EXCEPT ![r] = Append(@, [parameters |-> result.list, proof |-> proof[r], basic |-> config[r].style = "header"])]
        BY <1>2, <1>6, <1>8, <2>2 DEF Request!Prepare
      <3>2. [parameters |-> result.list, proof |-> proof[r], basic |-> config[r].style = "header"] = m
        BY <1>2, <1>10, <1>11
      <3>3. QED
        BY <1>2, <1>13, <2>2, <3>1, <3>2
    <2>3. QED
      BY <2>1, <2>2
  <1>17. ns \in Seq(AllMessages)
    BY <1>2, <1>12, <1>13
  <1>18. RequestTyping'
    BY <1>1, <1>7, <1>14, <1>15, <1>16, <1>17, Data DEF RequestTyping, Request!Labels
  <1>19. /\ a <= n
         /\ c.assertion = "none" => a = 0
         /\ c.assertion \in {"fixed", "service"} => a # 0
         /\ (a = 0) <=> (c.assertion = "none")
         /\ ms = <<>> \/ Once(given, c, "prepare", p, a, n, ms)
    BY <1>3 DEF RequestState
  <1>20. RequestState(given, result.list, c, label, p, a, n, ns)
    <2>1. CASE threw
      <3>1. ms = <<>>
        <4> SUFFICES ASSUME Once(given, c, "prepare", p, a, n, ms) PROVE FALSE
          BY <1>19
        <4>1. PICK v \in Nat : Sends(given, c, ms[1], v)
          BY DEF Once
        <4>2. CanBeSent(given, c, v) /\ ((v = 0) <=> (a = 0))
          BY <1>19, <4>1 DEF Sends
        <4>3. CanBeSent(given, c, a)
          BY <1>1, <1>4, <4>2, AssertionsAreAlike DEF RequestTyping
        <4>4. QED
          BY <1>9, <2>1, <4>3
      <3>2. QED
        BY <1>4, <1>13, <1>14, <1>19, <2>1, <3>1 DEF RequestState
    <2>2. CASE ~threw
      <3>1. Sends(given, c, m, a)
        BY <1>5, <1>9, <1>12, <1>19, <2>2 DEF Sends
      <3>2. CASE ms = <<>>
        <4>1. Len(ns) = 1 /\ ns[1] = m
          <5>1. Len(ns) = Len(ms) + 1 /\ ns[Len(ms) + 1] = m
            BY <1>12, <1>13, <2>2, AppendProperties
          <5>2. Len(ms) = 0
            BY <3>2
          <5>3. QED
            BY <5>1, <5>2
        <4>2. QED
          BY <1>4, <1>12, <1>14, <1>19, <2>2, <3>1, <4>1 DEF RequestState
      <3>3. CASE Once(given, c, "prepare", p, a, n, ms)
        <4>1. PICK v \in Nat : Sends(given, c, ms[1], v) /\ Changes(c, "prepare", a, v)
          BY <3>3 DEF Once
        <4>2. Len(ms) = 1 /\ ms[1].proof # p
          BY <3>3 DEF Once
        <4>3. Len(ns) = 2 /\ ns[1] = ms[1] /\ ns[2] = m
          <5>1. Len(ns) = Len(ms) + 1 /\ ns[Len(ms) + 1] = m /\ \A i \in 1..Len(ms) : ns[i] = ms[i]
            BY <1>12, <1>13, <2>2, AppendProperties
          <5>2. QED
            BY <4>2, <5>1
        <4>4. Twice(given, c, ns)
          BY <1>12, <3>1, <4>1, <4>2, <4>3 DEF Twice, Changes
        <4>5. QED
          BY <1>4, <1>14, <1>19, <2>2, <4>4 DEF RequestState
      <3>4. QED
        BY <1>19, <3>2, <3>3
    <2>3. QED
      BY <2>1, <2>2
  <1>21. /\ lists'[r] = result.list /\ config'[r] = c /\ requestPc'[r] = label /\ proof'[r] = p
         /\ requestAssertion'[r] = a /\ issued' = n /\ messages'[r] = ns
    BY <1>1, <1>2, <1>15, <1>16 DEF RequestTyping
  <1>22. QED
    <2>1. RequestState(given, lists'[r], config'[r], requestPc'[r], proof'[r], requestAssertion'[r], issued', messages'[r])
      BY <1>20, <1>21
    <2>2. issued <= issued'
      BY <1>1, <1>15 DEF RequestTyping
    <2>3. \A q \in Requests \ {r} :
              /\ lists'[q] = lists[q] /\ config'[q] = config[q] /\ requestPc'[q] = requestPc[q]
              /\ proof'[q] = proof[q] /\ requestAssertion'[q] = requestAssertion[q] /\ messages'[q] = messages[q]
      BY <1>1, <1>15, <1>16 DEF RequestTyping
    <2>4. QED
      BY <1>15, <1>18, <2>1, <2>2, <2>3, OthersAreKept

LEMMA RetryKeeps ==
    ASSUME RequestInv, NEW r \in Requests, Request!Retry(r)
    PROVE  RequestInv'
  <1>1. RequestTyping
    BY DEF RequestInv
  <1>2. PICK l \in Seq(Pairs), c \in Settings \cup {None}, p \in Nat, a \in Nat, n \in Nat, ms \in Seq(AllMessages) :
            l = lists[r] /\ c = config[r] /\ p = proof[r] /\ a = requestAssertion[r] /\ n = issued /\ ms = messages[r]
    BY <1>1 DEF RequestTyping
  <1>3. requestPc[r] = "refused" /\ Len(ms) = 1 /\ RequestState(given, l, c, "refused", p, a, n, ms)
    BY <1>2 DEF RequestInv, Request!Retry
  <1> DEFINE b == IF c.assertion = "service" THEN n + 1 ELSE a
             k == IF c.assertion = "service" THEN n + 1 ELSE n
  <1>4. /\ requestPc' = [requestPc EXCEPT ![r] = "ready"] /\ proof' = [proof EXCEPT ![r] = p + 1]
        /\ given' = given /\ lists' = lists /\ config' = config /\ messages' = messages
    BY <1>2 DEF Request!Retry, Request!Goto
  <1>5. /\ requestAssertion' = [requestAssertion EXCEPT ![r] = b] /\ issued' = k
        /\ b \in Nat /\ k \in Nat /\ n <= k /\ b <= k
    <2>1. a <= n
      BY <1>3 DEF RequestState
    <2>2. CASE c.assertion = "service"
      BY <1>2, <2>1, <2>2 DEF Request!Retry
    <2>3. CASE c.assertion # "service"
      BY <1>1, <1>2, <2>1, <2>3 DEF Request!Retry, RequestTyping
    <2>4. QED
      BY <2>2, <2>3
  <1>6. /\ c \in Settings /\ ((a = 0) <=> (c.assertion = "none"))
        /\ ms[1].proof = p /\ Sends(given, c, ms[1], a) /\ a <= n
    BY <1>3 DEF RequestState, Twice
  <1>7. /\ c.assertion = "none" => b = 0
        /\ c.assertion \in {"fixed", "service"} => b # 0
        /\ a # b <=> c.assertion = "service"
    BY <1>6
  <1> HIDE DEF b, k
  <1>8. RequestTyping'
    BY <1>1, <1>4, <1>5 DEF RequestTyping, Request!Labels
  <1>9. Changes(c, "ready", b, a)
    BY <1>7 DEF Changes
  <1>10. Once(given, c, "ready", p + 1, b, k, ms)
    <2>1. a <= k /\ ms[1].proof # p + 1
      BY <1>5, <1>6
    <2>2. QED
      BY <1>3, <1>6, <1>9, <2>1 DEF Once
  <1>11. RequestState(given, l, c, "ready", p + 1, b, k, ms)
    BY <1>5, <1>6, <1>7, <1>10 DEF RequestState
  <1>12. /\ lists'[r] = l /\ config'[r] = c /\ requestPc'[r] = "ready" /\ proof'[r] = p + 1
         /\ requestAssertion'[r] = b /\ issued' = k /\ messages'[r] = ms
    BY <1>1, <1>2, <1>4, <1>5 DEF RequestTyping
  <1>13. QED
    <2>1. RequestState(given, lists'[r], config'[r], requestPc'[r], proof'[r], requestAssertion'[r], issued', messages'[r])
      BY <1>11, <1>12
    <2>2. issued <= issued'
      BY <1>2, <1>5
    <2>3. \A q \in Requests \ {r} :
              /\ lists'[q] = lists[q] /\ config'[q] = config[q] /\ requestPc'[q] = requestPc[q]
              /\ proof'[q] = proof[q] /\ requestAssertion'[q] = requestAssertion[q] /\ messages'[q] = messages[q]
      BY <1>1, <1>4, <1>5 DEF RequestTyping
    <2>4. QED
      BY <1>4, <1>8, <2>1, <2>2, <2>3, OthersAreKept

LEMMA RequestNext == RequestInv /\ [Request!Next]_Request!vars => RequestInv'
  <1> SUFFICES ASSUME RequestInv, [Request!Next]_Request!vars PROVE RequestInv'
    OBVIOUS
  <1>1. ASSUME NEW r \in Requests, Request!Create(r) PROVE RequestInv'
    BY <1>1, CreateKeeps
  <1>2. ASSUME NEW r \in Requests, Request!Send(r) PROVE RequestInv'
    BY <1>2, SendKeeps
  <1>3. ASSUME NEW r \in Requests, Request!ReceiveAssertion(r) PROVE RequestInv'
    BY <1>3, ReceiveAssertionKeeps
  <1>4. ASSUME NEW r \in Requests, Request!FailAssertion(r) PROVE RequestInv'
    <2>1. "failed" \in Request!Labels
      BY DEF Request!Labels
    <2>2. QED
      BY <1>4, <2>1, MoveKeeps DEF Request!FailAssertion
  <1>5. ASSUME NEW r \in Requests, Request!Prepare(r) PROVE RequestInv'
    BY <1>5, PrepareKeeps
  <1>6. ASSUME NEW r \in Requests, Request!Serve(r) PROVE RequestInv'
    <2>1. PICK label \in {"refused", "done"} : Request!Goto(r, label)
      BY <1>6 DEF Request!Serve
    <2>2. label \in Request!Labels
      BY DEF Request!Labels
    <2>3. QED
      BY <1>6, <2>1, <2>2, MoveKeeps DEF Request!Serve
  <1>7. ASSUME NEW r \in Requests, Request!Retry(r) PROVE RequestInv'
    BY <1>7, RetryKeeps
  <1>8. CASE UNCHANGED Request!vars
    BY <1>8 DEF Request!vars, RequestInv, RequestTyping
  <1>9. QED
    BY <1>1, <1>2, <1>3, <1>4, <1>5, <1>6, <1>7, <1>8 DEF Request!Next, Request!Step

LEMMA MessagesAreWhole ==
    ASSUME RequestTyping, NEW r \in Requests, config[r] \in Settings, NEW m, NEW v \in Nat, Sends(given, config[r], m, v)
    PROVE  Request!IsWhole(r, m)
  <1>1. PICK c \in Settings : c = config[r]
    OBVIOUS
  <1>2. PICK g \in Seq(Pairs) : g = given
    BY DEF RequestTyping
  <1>3. PICK l \in Seq(Pairs) : l = Cloned(g, c).list
    BY PreparedTyped
  <1>4. PICK ps \in Seq(Pairs) : ps = m.parameters /\ ps = Prepared(g, c, v).list
    BY <1>1, <1>2, PreparedTyped DEF Sends
  <1>5. ~Cloned(g, c).threw /\ ~Prepared(g, c, v).threw
    BY <1>1, <1>2 DEF Sends, CanBeSent
  <1>6. PICK own \in Seq(Parameters), client \in Seq(Parameters), basic \in Seq(Parameters) :
            own = Request!Own(c) /\ client = Request!Client(c, v) /\ basic = Request!Client(c, 0)
    BY OwnTyped, ClientTyped
  <1>7. /\ Extends(l, g)
        /\ \A k \in 1..Len(own) : Holds(l, own[k])
        /\ \A n \in Nat : Repeated(g, n) => Repeated(l, n)
    BY <1>3, <1>5, <1>6, AddAllWhole DEF Cloned
  <1>8. /\ Extends(ps, l)
        /\ \A k \in 1..Len(client) : Holds(ps, client[k])
        /\ \A n \in Nat : Repeated(l, n) => Repeated(ps, n)
    BY <1>3, <1>4, <1>5, <1>6, AddAllWhole DEF Prepared
  <1>9. Extends(ps, g) /\ \A p : Holds(l, p) => Holds(ps, p)
    BY <1>7, <1>8, ExtendsHolds
  <1>10. \A k \in 1..Len(basic) : Holds(ps, basic[k])
    <2>1. Len(basic) <= Len(client) /\ \A k \in 1..Len(basic) : client[k] = basic[k]
      BY <1>6, ClientTyped
    <2>2. Len(basic) \in Nat /\ Len(client) \in Nat
      OBVIOUS
    <2>3. ASSUME NEW k \in 1..Len(basic) PROVE Holds(ps, basic[k])
      <3>1. k \in 1..Len(client) /\ client[k] = basic[k]
        BY <2>1, <2>2
      <3>2. QED
        BY <1>8, <3>1
    <2>4. QED
      BY <2>3
  <1>11. PICK wanted : wanted = own \o basic
    OBVIOUS
  <1>12. ASSUME NEW i \in DOMAIN wanted PROVE Holds(ps, wanted[i])
    <2>1. /\ DOMAIN wanted = 1..(Len(own) + Len(basic))
          /\ Len(own) \in Nat /\ Len(basic) \in Nat
          /\ wanted[i] = IF i <= Len(own) THEN own[i] ELSE basic[i - Len(own)]
      BY <1>11, <1>12
    <2>2. CASE i <= Len(own)
      BY <1>7, <1>9, <2>1, <2>2
    <2>3. CASE i > Len(own)
      <3>1. i - Len(own) \in 1..Len(basic)
        BY <2>1, <2>3
      <3>2. QED
        BY <1>10, <2>1, <2>3, <3>1
    <2>4. QED
      BY <2>1, <2>2, <2>3
  <1>13. Request!IsPrefix(g, ps)
    <2>1. Len(g) \in Nat /\ Len(ps) \in Nat /\ Len(g) <= Len(ps) /\ \A i \in 1..Len(g) : ps[i] = g[i]
      BY <1>9 DEF Extends
    <2>2. SubSeq(g, 1, Len(g)) = SubSeq(ps, 1, Len(g))
      BY <2>1
    <2>3. QED
      BY <2>1, <2>2 DEF Request!IsPrefix
  <1>14. Repeated(ps, Len(g))
    <2>1. Len(g) \in Nat /\ Repeated(g, Len(g))
      BY DEF Repeated
    <2>2. QED
      BY <1>7, <1>8, <2>1
  <1>15. \A i \in DOMAIN wanted : wanted[i].value # None => Request!Contains(ps, <<wanted[i].key, wanted[i].value>>)
    BY <1>12 DEF Holds, Request!Contains
  <1>16. \A i, j \in DOMAIN ps : i < j /\ ps[i][1] = ps[j][1] => j <= Len(g) \/ ps[i][1] \in {"resource", "password"}
    BY <1>14 DEF Repeated
  <1>17. wanted = Request!Own(config[r]) \o Request!Client(config[r], 0)
    BY <1>1, <1>6, <1>11
  <1>18. QED
    BY <1>2, <1>4, <1>13, <1>15, <1>16, <1>17 DEF Request!IsWhole

\* A request that could be sent once can be sent again: nothing throws, the second
\* message repeats the first one but for its proof and for a client assertion, and
\* neither message has lost a parameter or has one twice.
THEOREM RequestsCanBeRepeated == Request!Spec => []RequestsCanBeSentAgain
  <1>1. RequestInv => RequestsCanBeSentAgain
    <2> SUFFICES ASSUME RequestInv, NEW r \in Requests
                 PROVE  /\ requestPc[r] = "threw" => messages[r] = <<>>
                        /\ \A i \in DOMAIN messages[r] : Request!IsWhole(r, messages[r][i])
                        /\ Len(messages[r]) = 2 =>
                              LET first == messages[r][1]
                                  second == messages[r][2]
                              IN  /\ Request!Repeats(second, first)
                                  /\ first.proof # second.proof
                                  /\ config[r].assertion \in {"service", "factory"} <=> first.parameters # second.parameters
      BY DEF RequestsCanBeSentAgain, Request!RequestsCanBeSentAgain
    <2>1. RequestTyping /\ RequestState(given, lists[r], config[r], requestPc[r], proof[r], requestAssertion[r], issued, messages[r])
      BY DEF RequestInv
    <2>2. PICK g \in Seq(Pairs), c \in Settings \cup {None}, ms \in Seq(AllMessages) :
              g = given /\ c = config[r] /\ ms = messages[r]
      BY <2>1 DEF RequestTyping
    <2>3. requestPc[r] \in Request!Labels /\ requestAssertion[r] \in Nat
      BY <2>1 DEF RequestTyping
    <2>4. \/ ms = <<>>
          \/ Len(ms) = 1 /\ \E v \in Nat : Sends(g, c, ms[1], v)
          \/ Twice(g, c, ms)
      BY <2>1, <2>2, <2>3 DEF RequestState, Once, Request!Labels
    <2>5. ms # <<>> => c \in Settings
      BY <2>1, <2>2, <2>3 DEF RequestState
    <2>6. requestPc[r] = "threw" => messages[r] = <<>>
      BY <2>1 DEF RequestState
    <2>7. Twice(g, c, ms) => Len(ms) = 2
      BY DEF Twice
    <2>8. ASSUME NEW i \in DOMAIN ms PROVE Request!IsWhole(r, ms[i])
      <3>1. c \in Settings /\ i \in 1..Len(ms)
        BY <2>5, <2>8
      <3>2. \E v \in Nat : Sends(g, c, ms[i], v)
        <4>1. CASE Len(ms) = 1 /\ \E v \in Nat : Sends(g, c, ms[1], v)
          BY <3>1, <4>1
        <4>2. CASE Twice(g, c, ms)
          <5>1. i = 1 \/ i = 2
            BY <2>7, <3>1, <4>2
          <5>2. QED
            BY <4>2, <5>1 DEF Twice
        <4>3. QED
          BY <2>4, <3>1, <4>1, <4>2
      <3>3. QED
        BY <2>1, <2>2, <3>1, <3>2, MessagesAreWhole
    <2>9. ASSUME Len(ms) = 2
          PROVE  /\ Request!Repeats(ms[2], ms[1])
                 /\ ms[1].proof # ms[2].proof
                 /\ c.assertion \in {"service", "factory"} <=> ms[1].parameters # ms[2].parameters
      <3>1. Twice(g, c, ms) /\ c \in Settings
        <4>1. ms # <<>> /\ ~(Len(ms) = 1)
          <5>1. Len(<<>>) = 0 /\ 0 # 2 /\ 1 # 2
            BY EmptySeq
          <5>2. QED
            BY <2>9, <5>1
        <4>2. QED
          BY <2>4, <2>5, <4>1
      <3>2. PICK v \in Nat, w \in Nat :
                /\ Sends(g, c, ms[1], v) /\ Sends(g, c, ms[2], w)
                /\ v # w <=> c.assertion \in {"service", "factory"}
        BY <3>1 DEF Twice
      <3>3. /\ CanBeSent(g, c, v) /\ ((v = 0) <=> (w = 0))
            /\ ms[1].parameters = Prepared(g, c, v).list /\ ms[2].parameters = Prepared(g, c, w).list
            /\ ms[2].basic = ms[1].basic
        BY <3>2 DEF Sends
      <3>4. PICK l \in Seq(Pairs), k \in Seq(Pairs) : l = Prepared(g, c, v).list /\ k = Prepared(g, c, w).list
        BY <3>1, PreparedTyped
      <3>5. Agree(l, k) /\ (v # w => l # k)
        BY <3>1, <3>3, <3>4, AssertionsAreAlike
      <3>6. v = w => l = k
        BY <3>4
      <3>7. Request!Repeats(ms[2], ms[1])
        <4>1. /\ Len(k) = Len(l) /\ DOMAIN l = 1..Len(l)
              /\ \A i \in 1..Len(l) : k[i] = l[i] \/ (l[i][1] = "client_assertion" /\ k[i][1] = "client_assertion")
          BY <3>5 DEF Agree
        <4>2. ms[1].parameters = l /\ ms[2].parameters = k
          BY <3>3, <3>4
        <4>3. QED
          BY <3>3, <4>1, <4>2 DEF Request!Repeats
      <3>8. QED
        BY <3>1, <3>2, <3>3, <3>4, <3>5, <3>6, <3>7 DEF Twice
    <2>10. QED
      BY <2>2, <2>6, <2>8, <2>9
  <1>2. QED
    BY <1>1, RequestInit, RequestNext, PTL DEF Request!Spec

================================================================================
