------------------------------ MODULE TrqlClient ------------------------------
(***************************************************************************)
(* The query client: it picks a transport the registry advertises in its   *)
(* DID document and runs exchanges over it, many at a time.                *)
(*                                                                         *)
(* Over a mediator (DIDComm or TSP) one task, the demux, owns the inbound  *)
(* stream and hands each reply to the request it answers, by threadId, in  *)
(* a map of waiters the requests share with it.  Over HTTPS a request has  *)
(* a connection of its own.  The registry is external: it may answer a     *)
(* request once, twice (it may have been delivered twice) or never.        *)
(***************************************************************************)
EXTENDS Naturals, Sequences

CONSTANTS
    Requests,    \* the documents' ids (new_task_id never returns one twice)
    Endpoints,   \* mediator DIDs and base URLs
    Setups,      \* bound: DID documents, transports of the client, profiles
    Mishaps,     \* the kinds of failure considered
    MaxMishaps,  \* bound: how many failures happen in a behavior
    None

Kinds == {"tsp", "didcomm", "https"}

\* TSPTransport, DIDCommMessaging, TrustRegistryREST and VTARest, and any other.
ServiceTypes == {"TSP", "DIDComm", "REST", "VTARest", "other"}

Service == [types : SUBSET ServiceTypes, uri : Endpoints \union {None}]

AllMishaps == {"send", "stray", "unreadable", "unpack", "delete", "panic", "cancel"}

ASSUME ClientAssumption ==
    /\ \A s \in Setups : /\ s.services \in Seq(Service)
                         /\ s.ours \subseteq Kinds
                         /\ s.mediator \in BOOLEAN
    /\ Mishaps \subseteq AllMishaps /\ MaxMishaps \in Nat
    /\ None \notin Requests /\ None \notin Endpoints /\ None \notin Kinds

VARIABLES
    setup,      \* the registry's DID document and what the client can do
    client,     \* the transport it was built with
    requests,   \* the exchanges
    pending,    \* PendingReplies: the requests that have a waiter
    inbox,      \* the replies the mediator holds for the client
    demux,      \* the task that reads the inbox
    mishaps,    \* how many failures happened so far
    asked,      \* history: the requests the registry was sent
    answers,    \* history: what it answered
    handed,     \* history: the replies given to a live waiter
    spoiled     \* history: the requests whose reply could not be read

vars == <<setup, client, requests, pending, inbox, demux, mishaps, asked, answers, handed, spoiled>>

Bodies == {"response", "error", "otherType", "unreadable"}

Reply == [thread : Requests \union {None}, body : Bodies]

ASSUME NoneAssumption == None \notin Reply

Outcomes == {"response", "rejected", "contract", "transport", "timeout"}

-----------------------------------------------------------------------------
(* Discovery                                                               *)

\* (Mistaken: DIDComm before TSP.)
didcomm_first == <<"didcomm", "tsp", "https">>

PREFERENCE_ORDER == <<"tsp", "didcomm", "https">>

\* The one kind an entry counts for: the tests come in this order, and an entry
\* of two types counts for the first of them.
KindOf(service) ==
    CASE "TSP" \in service.types -> "tsp"
      [] "TSP" \notin service.types /\ "DIDComm" \in service.types -> "didcomm"
      [] service.types \intersect {"TSP", "DIDComm"} = {}
         /\ service.types \intersect {"REST", "VTARest"} # {} -> "https"
      [] OTHER -> None

\* from_document: the endpoint of the first usable entry of that kind.
endpoint(services, kind) ==
    LET usable == {i \in DOMAIN services : services[i].uri # None /\ KindOf(services[i]) = kind}
    IN  IF usable = {} THEN None
        ELSE services[CHOOSE i \in usable : \A j \in usable : i <= j].uri

Refusal == [status |-> "noMatchingTransport"]

select(services, ours) ==
    LET shared == {i \in DOMAIN PREFERENCE_ORDER :
                     /\ PREFERENCE_ORDER[i] \in ours
                     /\ endpoint(services, PREFERENCE_ORDER[i]) # None}
    IN  IF shared = {} THEN Refusal
        ELSE LET kind == PREFERENCE_ORDER[CHOOSE i \in shared : \A j \in shared : i <= j]
             IN  [status |-> "ready", kind |-> kind, endpoint |-> endpoint(services, kind)]

Ready(kinds) == client.status = "ready" /\ client.kind \in kinds

Mediated == Ready({"tsp", "didcomm"})

-----------------------------------------------------------------------------

Init ==
    /\ setup \in Setups
    /\ client = [status |-> "unset"]
    /\ requests = [r \in Requests |-> [pc |-> "idle"]]
    /\ pending = {} /\ inbox = {} /\ asked = {} /\ answers = {} /\ handed = {} /\ spoiled = {}
    /\ demux = [at |-> "polling"]
    /\ mishaps = 0

Mishap(kind) ==
    /\ kind \in Mishaps
    /\ mishaps < MaxMishaps
    /\ mishaps' = mishaps + 1

histories == <<asked, answers, handed, spoiled>>
others == <<setup, client>>

Become(r, request) == requests' = [requests EXCEPT ![r] = request]

Finish(r, outcome) == Become(r, [pc |-> "done", outcome |-> outcome])

\* A transport is selected and built; both mediated ones need a profile with a
\* mediator.
Connect ==
    /\ client.status = "unset"
    /\ LET choice == select(setup.services, setup.ours) IN
         client' = IF choice.status = "ready" /\ choice.kind # "https" /\ ~setup.mediator
                   THEN [status |-> "config"] ELSE choice
    /\ UNCHANGED <<setup, requests, pending, inbox, demux, mishaps, histories>>

-----------------------------------------------------------------------------
(* Exchanges over a mediator                                               *)

\* The receiver of the waiter's channel exists until the timeout drops it.
Alive(r) == requests[r].pc \in {"sending", "unsent", "waiting", "late"}

register(r) ==
    /\ Mediated /\ requests[r].pc = "idle"
    /\ pending' = pending \union {r}
    /\ Become(r, [pc |-> "sending", slot |-> None])
    /\ UNCHANGED <<others, inbox, demux, mishaps, histories>>

\* The request is with the mediator; a send that fails may have got there.
send_envelope(r) ==
    /\ requests[r].pc = "sending" /\ r \notin asked
    /\ asked' = asked \union {r}
    /\ UNCHANGED <<others, requests, pending, inbox, demux, mishaps, answers, handed, spoiled>>

Sent(r) ==
    /\ requests[r].pc = "sending"
    /\ \/ r \in asked /\ Become(r, [requests[r] EXCEPT !.pc = "waiting"]) /\ UNCHANGED mishaps
       \/ Mishap("send") /\ Become(r, [requests[r] EXCEPT !.pc = "unsent"])
    /\ UNCHANGED <<others, pending, inbox, demux, histories>>

\* The timeout polls the channel first, and the clock when it is empty.
Receive(r) ==
    /\ requests[r].pc = "waiting" /\ requests[r].slot # None
    /\ Become(r, [pc |-> "received", document |-> requests[r].slot])
    /\ UNCHANGED <<others, pending, inbox, demux, mishaps, histories>>

\* (Mistaken: one waits as long as the registry takes.)
ElapseIfSent(r) ==
    /\ requests[r].pc = "waiting" /\ requests[r].slot = None /\ ~(r \in asked)
    /\ Become(r, [requests[r] EXCEPT !.pc = "late"])
    /\ UNCHANGED <<others, pending, inbox, demux, mishaps, histories>>

Elapse(r) ==
    /\ requests[r].pc = "waiting" /\ requests[r].slot = None
    /\ Become(r, [requests[r] EXCEPT !.pc = "late"])
    /\ UNCHANGED <<others, pending, inbox, demux, mishaps, histories>>

\* (Mistaken: the channel outlives the timeout.)
ExpireLater(r) ==
    /\ requests[r].pc = "late"
    /\ Become(r, [requests[r] EXCEPT !.pc = "expired"])
    /\ UNCHANGED <<others, pending, inbox, demux, mishaps, histories>>

\* The timeout is returned, and drops the channel with what came since.
Expire(r) ==
    /\ requests[r].pc = "late"
    /\ Become(r, [pc |-> "expired"])
    /\ UNCHANGED <<others, pending, inbox, demux, mishaps, histories>>

\* (Mistaken: the waiter is left behind after a timeout.)
abandon_if_unsent(r) ==
    /\ requests[r].pc \in {"unsent", "expired"}
    /\ pending' = IF requests[r].pc = "unsent" THEN pending \ {r} ELSE pending
    /\ Finish(r, IF requests[r].pc = "unsent" THEN "transport" ELSE "timeout")
    /\ UNCHANGED <<others, inbox, demux, mishaps, histories>>

\* (Mistaken: the map is cleared, not the one entry.)
abandon_all(r) ==
    /\ requests[r].pc \in {"unsent", "expired"}
    /\ pending' = {}
    /\ Finish(r, IF requests[r].pc = "unsent" THEN "transport" ELSE "timeout")
    /\ UNCHANGED <<others, inbox, demux, mishaps, histories>>

abandon(r) ==
    /\ requests[r].pc \in {"unsent", "expired"}
    /\ pending' = pending \ {r}
    /\ Finish(r, IF requests[r].pc = "unsent" THEN "transport" ELSE "timeout")
    /\ UNCHANGED <<others, inbox, demux, mishaps, histories>>

\* The caller drops the future; nothing takes the waiter out of the map.
Cancel(r) ==
    /\ requests[r].pc \in {"sending", "waiting", "late", "posting"}
    /\ Mishap("cancel")
    /\ Become(r, [pc |-> "cancelled"])
    /\ UNCHANGED <<others, pending, inbox, demux, histories>>

-----------------------------------------------------------------------------
(* The demux                                                               *)

UnchangedButDemux == UNCHANGED <<others, requests, asked, answers>>

\* live_stream_next(_frame).  TSP has the mediator delete the frame (auto_delete);
\* over DIDComm it stays until it is acknowledged, and may come again.
Take(reply) ==
    /\ Mediated /\ demux.at = "polling" /\ reply \in inbox
    /\ demux' = [at |-> "routing", reply |-> reply]
    /\ inbox' = IF client.kind = "tsp" THEN inbox \ {reply} ELSE inbox
    /\ UnchangedButDemux /\ UNCHANGED <<pending, mishaps, handed, spoiled>>

Poll == demux' = [at |-> "polling"]

\* A frame that cannot be unpacked or is no document is logged.
Discard ==
    /\ demux.at = "routing"
    /\ Poll
    /\ spoiled' = spoiled \union {demux.reply.thread}
    /\ \/ demux.reply.body = "unreadable" /\ UNCHANGED mishaps
       \/ client.kind = "tsp" /\ Mishap("unpack")
    /\ UnchangedButDemux /\ UNCHANGED <<pending, inbox, handed>>

\* The waiter is taken out under the lock; without one the reply is left.
route ==
    /\ demux.at = "routing" /\ demux.reply.body # "unreadable"
    /\ IF demux.reply.thread \in pending
       THEN /\ pending' = pending \ {demux.reply.thread}
            /\ demux' = [at |-> "handing", reply |-> demux.reply]
       ELSE Poll /\ UNCHANGED pending
    /\ UnchangedButDemux /\ UNCHANGED <<inbox, mishaps, handed, spoiled>>

\* (Mistaken: a reply is acknowledged when its waiter was found.)
HandAnyway ==
    /\ demux.at = "handing"
    /\ LET r == demux.reply.thread IN
         /\ IF Alive(r)
            THEN /\ Become(r, [requests[r] EXCEPT !.slot = demux.reply])
                 /\ handed' = handed \union {demux.reply}
            ELSE UNCHANGED <<requests, handed>>
         /\ IF client.kind = "didcomm" THEN demux' = [at |-> "acking", reply |-> demux.reply] ELSE Poll
    /\ UNCHANGED <<others, pending, inbox, mishaps, asked, answers, spoiled>>

\* The lock is released, and the reply sent into the channel.
Hand ==
    /\ demux.at = "handing"
    /\ LET r == demux.reply.thread IN
         IF Alive(r)
         THEN /\ Become(r, [requests[r] EXCEPT !.slot = demux.reply])
              /\ handed' = handed \union {demux.reply}
              /\ IF client.kind = "didcomm"
                 THEN demux' = [at |-> "acking", reply |-> demux.reply] ELSE Poll
         ELSE Poll /\ UNCHANGED <<requests, handed>>
    /\ UNCHANGED <<others, pending, inbox, mishaps, asked, answers, spoiled>>

\* delete_message_background may fail; the reply comes again.
Ack ==
    /\ demux.at = "acking"
    /\ Poll
    /\ \/ inbox' = inbox \ {demux.reply} /\ UNCHANGED mishaps
       \/ Mishap("delete") /\ UNCHANGED inbox
    /\ UnchangedButDemux /\ UNCHANGED <<pending, handed, spoiled>>

\* The task is gone; the waiters are still in the map, so nobody is told.
Panic ==
    /\ Mediated /\ demux.at \in {"polling", "routing"}
    /\ Mishap("panic")
    /\ demux' = [at |-> "stopped"]
    /\ spoiled' = IF demux.at = "routing" THEN spoiled \union {demux.reply.thread} ELSE spoiled
    /\ UnchangedButDemux /\ UNCHANGED <<pending, inbox, handed>>

-----------------------------------------------------------------------------
(* Exchanges over HTTPS, and the registry                                  *)

Post(r) ==
    /\ Ready({"https"}) /\ requests[r].pc = "idle"
    /\ Become(r, [pc |-> "posting"])
    /\ asked' = asked \union {r}
    /\ UNCHANGED <<others, pending, inbox, demux, mishaps, answers, handed, spoiled>>

\* What the registry answers, and what else the client may be given.
Answer(r, reply) ==
    /\ r \in asked /\ reply \notin answers
    /\ \/ reply.thread = r /\ reply.body \in {"response", "error"} /\ UNCHANGED mishaps
       \/ reply.thread \in (asked \ {r}) \union {None} /\ reply.body = "response" /\ Mishap("stray")
       \/ reply.thread = r /\ reply.body = "otherType" /\ Mishap("stray")
       \/ reply.thread = r /\ reply.body = "unreadable" /\ Mishap("unreadable")
    /\ answers' = answers \union {reply}

\* The mediator holds it for the client.
AnswerByMediator(r, reply) ==
    /\ Mediated
    /\ Answer(r, reply)
    /\ inbox' = inbox \union {reply}
    /\ UNCHANGED <<others, requests, pending, demux, asked, handed, spoiled>>

\* On the request's connection: a body that is no document is a contract
\* violation under a success status, else a failure of the transport.
AnswerByHttps(r, reply) ==
    /\ requests[r].pc = "posting"
    /\ Answer(r, reply)
    /\ IF reply.body = "unreadable"
       THEN \E outcome \in {"contract", "transport"} : Finish(r, outcome)
       ELSE Become(r, [pc |-> "received", document |-> reply])
    /\ UNCHANGED <<others, pending, inbox, demux, asked, handed, spoiled>>

\* The request's timeout, which is reported as one until the head of the response is
\* there and as a failure of the transport while the body is read; or a connection
\* that fails, which is no other outcome.
PostFails(r) ==
    /\ requests[r].pc = "posting"
    /\ \E outcome \in {"timeout", "transport"} : Finish(r, outcome)
    /\ UNCHANGED <<others, pending, inbox, demux, mishaps, histories>>

\* (Mistaken: what comes on one's own connection is one's own.)
outcome_unchecked(r, document) ==
    CASE document.body = "error" -> "rejected"
      [] document.body = "otherType" -> "contract"
      [] OTHER -> "response"

\* send_query: a reply to someone else is a contract violation.
outcome_of(r, document) ==
    CASE document.thread # r -> "contract"
      [] document.thread = r /\ document.body = "error" -> "rejected"
      [] document.thread = r /\ document.body = "response" -> "response"
      [] OTHER -> "contract"

send_query(r) ==
    /\ requests[r].pc = "received"
    /\ LET document == requests[r].document IN
         Become(r, [pc |-> "done", outcome |-> outcome_of(r, document), document |-> document])
    /\ UNCHANGED <<others, pending, inbox, demux, mishaps, histories>>

Step(r) ==
    \/ register(r) \/ Sent(r) \/ Receive(r) \/ Elapse(r) \/ Expire(r) \/ abandon(r)
    \/ PostFails(r) \/ send_query(r)

Next ==
    \/ Connect
    \/ \E r \in Requests : Step(r) \/ send_envelope(r) \/ Cancel(r) \/ Post(r)
    \/ \E reply \in Reply : Take(reply)
    \/ Discard \/ route \/ Hand \/ Ack \/ Panic
    \/ \E r \in Requests, reply \in Reply : AnswerByMediator(r, reply) \/ AnswerByHttps(r, reply)

Spec == Init /\ [][Next]_vars

\* Timers elapse and started tasks run on; a send comes to an end, because the
\* messaging library bounds it.  Nothing is assumed of the registry, the mediator
\* or the demux.
Fairness == \A r \in Requests : WF_vars(requests[r].pc # "idle" /\ (Step(r) \/ send_envelope(r)))

FairSpec == Spec /\ Fairness

-----------------------------------------------------------------------------
(* Properties                                                              *)

Request ==
    [pc : {"idle", "posting", "expired", "cancelled"}]
    \union [pc : {"sending", "unsent", "waiting", "late"}, slot : Reply \union {None}]
    \union [pc : {"received"}, document : Reply]
    \union [pc : {"done"}, outcome : Outcomes]
    \union [pc : {"done"}, outcome : Outcomes, document : Reply]

TypeOK ==
    /\ setup \in Setups
    /\ client \in [status : {"unset", "config", "noMatchingTransport"}]
                  \union [status : {"ready"}, kind : setup.ours, endpoint : Endpoints]
    /\ requests \in [Requests -> Request]
    /\ pending \subseteq Requests /\ asked \subseteq Requests
    /\ spoiled \subseteq Requests \union {None}
    /\ inbox \subseteq answers /\ answers \subseteq Reply /\ handed \subseteq answers
    /\ demux \in [at : {"polling", "stopped"}]
                 \union [at : {"routing", "handing", "acking"}, reply : answers]
    /\ mishaps \in 0..MaxMishaps

\* A request is answered by the reply to it, however many run at once and
\* whatever else comes in.
OwnReply ==
    \A r \in Requests :
        requests[r].pc = "done" /\ requests[r].outcome \in {"response", "rejected"} =>
            requests[r].document.thread = r

\* The reply to a request that still waits is on its way to it: none is missed
\* because it was faster than the registration, went to another waiter or met
\* another request's timeout.
FastReplyKept ==
    \A r \in Requests :
        /\ requests[r].pc = "waiting" /\ requests[r].slot = None
        /\ r \notin spoiled
        /\ \E reply \in answers : reply.thread = r
        => \/ \E reply \in inbox : reply.thread = r
           \/ demux.at # "stopped" /\ demux.at # "polling" /\ demux.reply.thread = r

\* Over DIDComm a reply is deleted only after a live waiter was given it.
AckedWereHanded == Ready({"didcomm"}) => answers \ handed \subseteq inbox

\* Waiters are left in the map only by callers that dropped the exchange.
NoWaiterLeaks ==
    \A r \in pending : Alive(r) \/ requests[r].pc \in {"expired", "cancelled"}

\* What a service offers by its types, whatever other types it has.
TypesOf == [tsp |-> {"TSP"}, didcomm |-> {"DIDComm"}, https |-> {"REST", "VTARest"}]

Advertises(service, kind) ==
    service.uri # None /\ service.types \intersect TypesOf[kind] # {}

Better(kind) == CASE kind = "tsp" -> {} [] kind = "didcomm" -> {"tsp"} [] OTHER -> {"tsp", "didcomm"}

\* The transports the client has and did not choose although it prefers them.
Declined ==
    CASE client.status = "ready" -> Better(client.kind) \intersect setup.ours
      [] client.status = "noMatchingTransport" -> setup.ours
      [] OTHER -> {}

\* The client uses a transport the document advertises, at an endpoint advertised
\* for it, and it passes over a preferred one, or refuses, only where that is not
\* advertised but by services that offer one more preferred still: from_document
\* counts such a service for its best type alone (discovery.rs:164-170).
BestSharedTransport ==
    /\ client.status = "ready" =>
         \E i \in DOMAIN setup.services : /\ Advertises(setup.services[i], client.kind)
                                          /\ setup.services[i].uri = client.endpoint
    /\ \A i \in DOMAIN setup.services, kind \in Declined :
         Advertises(setup.services[i], kind) =>
             \E other \in Better(kind) : Advertises(setup.services[i], other)

\* discovery.rs on the choice: "the highest-preference protocol both sides speak",
\* and "Never silently downgrade past what the registry advertises".
NeverDowngrades ==
    \A i \in DOMAIN setup.services, kind \in Declined : ~Advertises(setup.services[i], kind)

\* What a caller has got: the result of its request, and with an answer the document.
Result(r) ==
    LET request == requests[r] IN
    CASE request.pc = "done" /\ request.outcome \in {"response", "rejected"} ->
           [outcome |-> request.outcome, document |-> request.document]
      [] request.pc = "done" /\ request.outcome \notin {"response", "rejected"} ->
           [outcome |-> request.outcome, document |-> None]
      [] request.pc = "cancelled" -> [outcome |-> "cancelled", document |-> None]
      [] OTHER -> [outcome |-> "open", document |-> None]

Exchanges == INSTANCE RequestReply WITH
    Replies <- Reply, results <- [r \in Requests |-> Result(r)]

\* As the callers see it, over any transport: every request ends at most once; it is
\* answered only with what the registry, asked, replied to it; and it reports a
\* contract violation only if the registry sent something that is no answer to it.
ImplementsRequestReply == Exchanges!Spec

\* A registry that answers each request once or more, with a response or an error to
\* it, is never reported to violate the contract: no race in the client (two
\* requests' replies crossing, a reply that comes after the timeout or while another
\* is handed over) makes a good reply look like a bad one.
GoodRegistryNeverBlamed ==
    Mishaps \intersect {"stray", "unreadable"} = {} =>
        \A r \in Requests : requests[r].pc = "done" => requests[r].outcome # "contract"

\* An exchange comes to an end although the registry never answers, the reply is
\* unreadable or the demux is gone.
EveryExchangeEnds ==
    \A r \in Requests :
        requests[r].pc # "idle" ~> requests[r].pc \in {"done", "cancelled"}

\* transport.rs on replies: a body that is no Trust Task document is a contract
\* violation, never silently dropped.
UnreadableIsReported ==
    \A r \in Requests \intersect spoiled :
        /\ \E reply \in answers : reply.thread = r /\ reply.body = "unreadable"
        /\ requests[r].pc = "done"
        => requests[r].outcome # "timeout"

=============================================================================
