----------------------------- MODULE RequestReply -----------------------------
(***************************************************************************)
(* What the query client promises its callers, whatever carries the        *)
(* messages: a request ends once, and what it ends with is founded.  It    *)
(* ends with an answer only if the registry gave that answer to it, after  *)
(* it was asked, and blames the registry only for a reply that it gave and *)
(* that answers nothing.                                                   *)
(***************************************************************************)
CONSTANTS
    Requests,
    Replies,   \* what the registry can say: a thread and a body
    None

VARIABLES
    asked,     \* the requests the registry was sent
    answers,   \* the replies it gave
    results    \* what each request ended with

Open == [outcome |-> "open", document |-> None]

Init ==
    /\ asked = {}
    /\ answers = {}
    /\ results = [r \in Requests |-> Open]

Ask(r) ==
    /\ results[r] = Open
    /\ asked' = asked \union {r}

Come(reply) ==
    /\ reply.thread \in asked \union {None}
    /\ answers' = answers \union {reply}

\* A reply may end the request at once.
Founded(r, result) ==
    LET document == result.document IN
    \/ /\ result.outcome = "response"
       /\ document \in answers' /\ document.thread = r /\ document.body = "response"
    \/ /\ result.outcome = "rejected"
       /\ document \in answers' /\ document.thread = r /\ document.body = "error"
    \/ /\ result = [outcome |-> "contract", document |-> None]
       /\ \E reply \in answers' : reply.thread # r \/ reply.body \notin {"response", "error"}
    \/ result \in [outcome : {"transport", "timeout", "cancelled"}, document : {None}]

Outcomes == {"response", "rejected", "contract", "transport", "timeout", "cancelled"}

End(r) ==
    /\ results[r] = Open
    /\ \E result \in [outcome : Outcomes, document : answers' \union {None}] :
         /\ Founded(r, result)
         /\ results' = [results EXCEPT ![r] = result]

Ends == UNCHANGED results \/ \E r \in Requests : End(r)

Next ==
    \/ \E r \in Requests : Ask(r) /\ UNCHANGED <<answers, results>>
    \/ \E reply \in Replies : Come(reply) /\ Ends /\ UNCHANGED asked
    \/ Ends /\ UNCHANGED <<asked, answers>>

Spec == Init /\ [][Next]_<<asked, answers, results>>

=============================================================================
