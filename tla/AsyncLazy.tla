------------------------------- MODULE AsyncLazy -------------------------------
(***************************************************************************)
(* The two AsyncLazy classes, which start an asynchronous initialization    *)
(* once, share it, and start another one when it failed.                    *)
(*                                                                          *)
(* The one of AccessTokenManagement decides under its lock.  The one of the *)
(* introspection handler reads its field twice without the lock, and again  *)
(* under it only when it saw a failure (DoubleChecked); it does not start   *)
(* another attempt after one that was cancelled (Restarts).  Which of the   *)
(* two a lazy is of never changes.  The statements under the lock are one   *)
(* step.  Attempt 0 is the lazy of the constructor.                         *)
(***************************************************************************)
EXTENDS Naturals, FiniteSets

CONSTANTS
    Callers,      \* threads that read Value
    MaxAttempts,  \* bound of the model: attempts after this one succeed
    None

ASSUME BoundAssumption == MaxAttempts \in Nat
ASSUME NoneAssumption == None \notin Nat

VARIABLES
    class,      \* which class it is
    current,    \* the attempt the field holds
    status,     \* status[n]: the state of attempt n
    pc,         \* pc[c]: where caller c is in Value
    task,       \* task[c]: the attempt c was given
    failed      \* failed[c]: the attempts that had failed when c started

vars == <<class, current, status, pc, task, failed>>

Attempts == 0..MaxAttempts
Failures == {"faulted", "canceled"}
Statuses == {"none", "created", "running", "succeeded"} \cup Failures
States == {"idle", "check", "read", "lock", "await", "canceled", "done"}

\* Is the field read without the lock first?
DoubleChecked == class = "introspection"

\* The failures after which an attempt is started again.
Restarts == IF class = "introspection" THEN {"faulted"} ELSE Failures

TypeOK ==
    /\ class \in {"introspection", "management"}
    /\ current \in Attempts
    /\ status \in [Attempts -> Statuses]
    /\ pc \in [Callers -> States]
    /\ task \in [Callers -> Attempts \cup {None}]
    /\ failed \in [Callers -> SUBSET Attempts]

Init ==
    /\ class \in {"introspection", "management"}
    /\ current = 0
    /\ status = [n \in Attempts |-> IF n = 0 THEN "created" ELSE "none"]
    /\ pc = [c \in Callers |-> "idle"]
    /\ task = [c \in Callers |-> None]
    /\ failed = [c \in Callers |-> {}]

Goto(c, label) == pc' = [pc EXCEPT ![c] = label]

Call(c) ==
    /\ pc[c] = "idle"
    /\ failed' = [failed EXCEPT ![c] = {n \in Attempts : status[n] \in Failures}]
    /\ Goto(c, IF DoubleChecked THEN "check" ELSE "lock")
    /\ UNCHANGED <<class, current, status, task>>

\* Mutant: a failed attempt is the value of the lazy for ever.
CheckNothing(c) ==
    /\ pc[c] = "check"
    /\ Goto(c, "read")
    /\ UNCHANGED <<class, current, status, task, failed>>

\* The test without the lock.
Check(c) ==
    /\ pc[c] = "check"
    /\ Goto(c, IF status[current] \in Restarts THEN "lock" ELSE "read")
    /\ UNCHANGED <<class, current, status, task, failed>>

\* Reading the value of a lazy that was not read before starts the attempt.
Started(s) == [s EXCEPT ![current] = IF @ = "created" THEN "running" ELSE @]

\* The field is read a second time without the lock.
Read(c) ==
    /\ pc[c] = "read"
    /\ status' = Started(status)
    /\ task' = [task EXCEPT ![c] = current]
    /\ Goto(c, "await")
    /\ UNCHANGED <<class, current, failed>>

\* Mutant: the test is not repeated under the lock.
RestartUnchecked(c) ==
    /\ pc[c] = "lock"
    /\ current' = current + 1
    /\ status' = [status EXCEPT ![current + 1] = "running"]
    /\ task' = [task EXCEPT ![c] = current']
    /\ Goto(c, "await")
    /\ UNCHANGED <<class, failed>>

\* Under the lock a failed attempt is replaced, any other is shared.
Lock(c) ==
    /\ pc[c] = "lock"
    /\ IF status[current] \in Restarts
       THEN current' = current + 1 /\ status' = [status EXCEPT ![current + 1] = "running"]
       ELSE UNCHANGED current /\ status' = Started(status)
    /\ task' = [task EXCEPT ![c] = current']
    /\ Goto(c, "await")
    /\ UNCHANGED <<class, failed>>

\* The initialization ends; a discovery request that times out is cancelled.
Complete(n) ==
    /\ status[n] = "running"
    /\ \E s \in {"succeeded"} \cup (IF n < MaxAttempts THEN Failures ELSE {}) :
        status' = [status EXCEPT ![n] = s]
    /\ UNCHANGED <<class, current, pc, task, failed>>

Return(c) ==
    /\ pc[c] = "await"
    /\ status[task[c]] \in Failures \cup {"succeeded"}
    /\ Goto(c, "done")
    /\ UNCHANGED <<class, current, status, task, failed>>

\* The client credentials client waits with WaitAsync: its own cancellation
\* ends the wait and not the attempt.
CancelWait(c) ==
    /\ ~DoubleChecked
    /\ pc[c] = "await"
    /\ Goto(c, "canceled")
    /\ UNCHANGED <<class, current, status, task, failed>>

CallerStep(c) == Check(c) \/ Read(c) \/ Lock(c) \/ Return(c)

Next ==
    \/ \E c \in Callers : Call(c) \/ CallerStep(c) \/ CancelWait(c)
    \/ \E n \in Attempts : Complete(n)

Spec == Init /\ [][Next]_vars

-----------------------------------------------------------------------------
(* Properties.                                                             *)

\* In-flight initializations are shared, also by callers that race to
\* replace a failed one.
OneAttemptRuns ==
    \A m, n \in Attempts : status[m] = "running" /\ status[n] = "running" => m = n

\* Once an initialization has succeeded the field keeps it.
SuccessIsKept == \A n \in Attempts : status[n] = "succeeded" => current = n

\* A caller is not given an attempt of which it could have seen that it had
\* failed, if it is one that the class starts again: "Share in-flight and
\* successful results, but allow failed initialization to be retried".
FailureIsNotServedAgain ==
    \A c \in Callers : task[c] # None /\ task[c] \in failed[c] => status[task[c]] \notin Restarts

================================================================================
