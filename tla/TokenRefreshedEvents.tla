------------------------- MODULE TokenRefreshedEvents -------------------------
(***************************************************************************)
(* RefreshTokenDelegatingHandler with its TokenRefreshed event and the one  *)
(* subscriber it is made for: an application that saves the refresh token,  *)
(* to construct a handler with it after a restart.                          *)
(*                                                                         *)
(* The event is raised by a task of its own that nobody awaits, so the      *)
(* subscriber is called some time after the semaphore was released, and the *)
(* events of two refreshes in any order.                                    *)
(***************************************************************************)
EXTENDS RefreshTokenDelegatingHandler

VARIABLES
    events,    \* the refresh tokens whose event has not reached the application
    saved,     \* the refresh token the application has saved
    overtaken  \* has a new refresh token been reported before an older one?

eventVars == <<events, saved, overtaken>>

EventTypeOK ==
    /\ events \subseteq Nat
    /\ saved \in Nat
    /\ overtaken \in BOOLEAN

EventInit == events = {} /\ saved = 0 /\ overtaken = FALSE

\* Mutant: the event is raised with what the handler had before.
RaiseWithOldToken(r) ==
    /\ RefreshSucceeds(r)
    /\ events' = events \cup {refreshToken}
    /\ UNCHANGED <<saved, overtaken>>

\* The task is started before the semaphore is released.  An event without a
\* refresh token leaves what the application has, and is left out.
RaiseTokenRefreshed(r) ==
    /\ RefreshSucceeds(r)
    /\ events' = events \cup ({response[r].refresh} \ {None})
    /\ UNCHANGED <<saved, overtaken>>

\* The subscriber is called.
TokenRefreshed(e) ==
    /\ events' = events \ {e}
    /\ saved' = e
    /\ overtaken' = (overtaken \/ \E d \in events : d < e)
    /\ UNCHANGED vars

EventRequestStep(r) == RaiseTokenRefreshed(r) \/ (QuietStep(r) /\ UNCHANGED eventVars)

Silent(r) == SendAsync(r) \/ RefreshFails(r) \/ RequestFails(r)

EventNext ==
    \/ Expire /\ UNCHANGED eventVars
    \/ \E r \in Requests : EventRequestStep(r) \/ (Silent(r) /\ UNCHANGED eventVars)
    \/ \E e \in events : TokenRefreshed(e)

EventSpec == Init /\ EventInit /\ [][EventNext]_<<vars, eventVars>>

-----------------------------------------------------------------------------
\* An application that saves what the event reports has the refresh token of
\* the handler as soon as every event has reached it, unless two of them were
\* reported in the wrong order, which nothing in the handler prevents.
SavedTokenIsCurrent == events = {} /\ ~overtaken => saved = refreshToken
===============================================================================
