---------------------------- MODULE WebRequests -----------------------------
(***************************************************************************)
(* What class Handler of the web client promises its users, whichever      *)
(* platform it is built for: every request that is sent has its onDone     *)
(* called, once.                                                           *)
(***************************************************************************)
EXTENDS Naturals

CONSTANT Request

VARIABLES
    sent,    \* requests for which send() was called
    answers  \* how often the onDone of each was called

vars == <<sent, answers>>

Init == sent = {} /\ answers = [r \in Request |-> 0]

\* Request::send().
Send(r) ==
    /\ r \notin sent
    /\ sent' = sent \cup {r}
    /\ UNCHANGED answers

\* The call of its DoneCallback.
Answer(r) ==
    /\ r \in sent /\ answers[r] = 0
    /\ answers' = [answers EXCEPT ![r] = 1]
    /\ UNCHANGED sent

Next == \E r \in Request : Send(r) \/ Answer(r)

Spec == Init /\ [][Next]_vars /\ \A r \in Request : WF_vars(Answer(r))
=============================================================================
