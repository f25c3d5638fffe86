---------------------- MODULE IntrospectionClientAssertion ----------------------
(***************************************************************************)
(* CreateTokenIntrospectionRequest with a client assertion instead of a     *)
(* secret: concurrent requests renew the assertion in the options, under a  *)
(* lock and with a second test of its expiration.                           *)
(*                                                                          *)
(* An assertion is the time it expires, None at first.  Time is counted in  *)
(* ticks and DateTime.MinValue is 0.                                        *)
(***************************************************************************)
EXTENDS Naturals

CONSTANTS
    Requests,
    Lifetime,  \* of an assertion
    MaxTime,   \* bound of the model: the clock stops here
    None

States == {"idle", "wait", "retest", "update", "writeAssertion", "writeExpiration", "release", "throw", "read", "done"}

VARIABLES
    now,        \* the clock
    assertion,  \* options.ClientAssertion
    expiration, \* options.ClientAssertionExpirationTime
    lock,       \* the count of AssertionUpdateLock
    pc,         \* pc[r]: where request r is
    tested,     \* tested[r]: when r tested the expiration first
    updated,    \* updated[r]: the assertion r got from UpdateClientAssertion
    used        \* used[r]: the assertion r is sent with

vars == <<now, assertion, expiration, lock, pc, tested, updated, used>>

TypeOK ==
    /\ now \in 0..MaxTime
    /\ assertion \in Nat \cup {None}
    /\ expiration \in Nat
    /\ lock \in 0..1
    /\ pc \in [Requests -> States]
    /\ tested \in [Requests -> 0..MaxTime]
    /\ updated \in [Requests -> Nat \cup {None}]
    /\ used \in [Requests -> Nat \cup {None}]

Init ==
    /\ now = 0
    /\ assertion = None
    /\ expiration = 0
    /\ lock = 1
    /\ pc = [r \in Requests |-> "idle"]
    /\ tested = [r \in Requests |-> 0]
    /\ updated = [r \in Requests |-> None]
    /\ used = [r \in Requests |-> None]

-----------------------------------------------------------------------------
Goto(r, label) == pc' = [pc EXCEPT ![r] = label]

Expired == expiration <= now

Tick ==
    /\ now < MaxTime
    /\ now' = now + 1
    /\ UNCHANGED <<assertion, expiration, lock, pc, tested, updated, used>>

Test(r) ==
    /\ pc[r] = "idle"
    /\ tested' = [tested EXCEPT ![r] = now]
    /\ Goto(r, IF Expired THEN "wait" ELSE "read")
    /\ UNCHANGED <<now, assertion, expiration, lock, updated, used>>

Wait(r) ==
    /\ pc[r] = "wait"
    /\ lock > 0
    /\ lock' = lock - 1
    /\ Goto(r, "retest")
    /\ UNCHANGED <<now, assertion, expiration, tested, updated, used>>

\* Another request may have renewed the assertion while this one waited.
Retest(r) ==
    /\ pc[r] = "retest"
    /\ Goto(r, IF Expired THEN "update" ELSE "release")
    /\ UNCHANGED <<now, assertion, expiration, lock, tested, updated, used>>

\* The event returns a new assertion.
Update(r) ==
    /\ pc[r] = "update"
    /\ updated' = [updated EXCEPT ![r] = now + Lifetime]
    /\ Goto(r, "writeAssertion")
    /\ UNCHANGED <<now, assertion, expiration, lock, tested, used>>

\* Mutant: the expiration is written before the assertion.
WriteExpirationFirst(r) ==
    /\ \/ /\ pc[r] = "writeAssertion"
          /\ expiration' = updated[r]
          /\ Goto(r, "writeExpiration")
          /\ UNCHANGED assertion
       \/ /\ pc[r] = "writeExpiration"
          /\ assertion' = updated[r]
          /\ Goto(r, "release")
          /\ UNCHANGED expiration
    /\ UNCHANGED <<now, lock, tested, updated, used>>

\* The assertion is written to the options, then its expiration.
Write(r) ==
    /\ \/ /\ pc[r] = "writeAssertion"
          /\ assertion' = updated[r]
          /\ Goto(r, "writeExpiration")
          /\ UNCHANGED expiration
       \/ /\ pc[r] = "writeExpiration"
          /\ expiration' = updated[r]
          /\ Goto(r, "release")
          /\ UNCHANGED assertion
    /\ UNCHANGED <<now, lock, tested, updated, used>>

\* The event handler throws.
UpdateThrows(r) ==
    /\ pc[r] = "update"
    /\ Goto(r, "throw")
    /\ UNCHANGED <<now, assertion, expiration, lock, tested, updated, used>>

\* Mutant: the lock is not released after an exception.
ReleaseUnlessThrown(r) ==
    /\ pc[r] \in {"release", "throw"}
    /\ lock' = IF pc[r] = "throw" THEN lock ELSE lock + 1
    /\ Goto(r, IF pc[r] = "throw" THEN "done" ELSE "read")
    /\ UNCHANGED <<now, assertion, expiration, tested, updated, used>>

\* The finally block.
Release(r) ==
    /\ pc[r] \in {"release", "throw"}
    /\ lock' = lock + 1
    /\ Goto(r, IF pc[r] = "throw" THEN "done" ELSE "read")
    /\ UNCHANGED <<now, assertion, expiration, tested, updated, used>>

\* The assertion of the request is read without the lock.
Read(r) ==
    /\ pc[r] = "read"
    /\ used' = [used EXCEPT ![r] = assertion]
    /\ Goto(r, "done")
    /\ UNCHANGED <<now, assertion, expiration, lock, tested, updated>>

-----------------------------------------------------------------------------
RequestStep(r) ==
    \/ Wait(r) \/ Retest(r) \/ Update(r) \/ Write(r) \/ UpdateThrows(r)
    \/ Release(r) \/ Read(r)

Next == Tick \/ \E r \in Requests : Test(r) \/ RequestStep(r)

Spec == Init /\ [][Next]_vars

-----------------------------------------------------------------------------
(* Properties.                                                             *)

\* The assertion a request reads is there and had not expired when the request
\* was made, whatever other requests renew in between, and one that has not
\* expired is not renewed: those who waited for the lock find the new one.
RenewsOnce ==
    \A r \in Requests :
        /\ pc[r] = "read" /\ pc'[r] = "done" => assertion # None /\ (assertion # None => assertion > tested[r])
        /\ pc[r] = "retest" /\ pc'[r] = "update" => (assertion # None => assertion <= now)

=================================================================================
