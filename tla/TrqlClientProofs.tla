-------------------------- MODULE TrqlClientProofs --------------------------
(***************************************************************************)
(* Proofs about TrqlClient: the choice of a transport for every DID        *)
(* document and client, and the waiters for any number of requests,        *)
(* whatever the registry answers and however often anything fails; and     *)
(* that the client implements RequestReply.                                *)
(***************************************************************************)
EXTENDS TrqlClient, WellFoundedInduction, TLAPS

-----------------------------------------------------------------------------
(* The choice of a transport                                               *)

\* Every nonempty set of natural numbers has a least element.
LEMMA LeastElement ==
    ASSUME NEW S, S \subseteq Nat, S # {}
    PROVE  \E m \in S : \A n \in S : m <= n
<1>1. IsWellFoundedOn({ss \in Nat \X Nat : ss[1] < ss[2]}, Nat)
  BY NatLessThanWellFounded DEF OpToRel
<1>2. PICK m \in S : \A n \in S : ~ (<<n, m>> \in {ss \in Nat \X Nat : ss[1] < ss[2]})
  BY <1>1, WFMin
<1>3. \A n \in S : ~ (n < m)
  BY <1>2
<1> QED  BY <1>3

\* An entry with an endpoint counts for a kind it advertises, and for each one it
\* advertises unless it advertises a better one.
LEMMA KindFacts ==
    ASSUME NEW service, NEW kind \in Kinds, service.uri # None
    PROVE  /\ KindOf(service) = kind => Advertises(service, kind)
           /\ Advertises(service, kind) =>
                \/ KindOf(service) = kind
                \/ \E other \in Better(kind) : Advertises(service, other)
<1>0. /\ Advertises(service, "tsp") <=> "TSP" \in service.types
      /\ Advertises(service, "didcomm") <=> "DIDComm" \in service.types
      /\ Advertises(service, "https") <=> service.types \intersect {"REST", "VTARest"} # {}
  BY DEF Advertises, TypesOf
<1>1. CASE "TSP" \in service.types
  <2>1. KindOf(service) = "tsp"
    BY <1>1 DEF KindOf
  <2>2. kind # "tsp" => "tsp" \in Better(kind)
    BY DEF Better, Kinds
  <2> QED  BY <1>0, <1>1, <2>1, <2>2
<1>2. CASE "TSP" \notin service.types /\ "DIDComm" \in service.types
  <2>1. KindOf(service) = "didcomm"
    BY <1>2 DEF KindOf
  <2>2. kind = "https" => "didcomm" \in Better(kind)
    BY DEF Better
  <2> QED  BY <1>0, <1>2, <2>1, <2>2 DEF Kinds
<1>3. CASE /\ "TSP" \notin service.types /\ "DIDComm" \notin service.types
           /\ service.types \intersect {"REST", "VTARest"} # {}
  <2>1. service.types \intersect {"TSP", "DIDComm"} = {}
    BY <1>3
  <2>2. KindOf(service) = "https"
    BY <1>3, <2>1 DEF KindOf
  <2> QED  BY <1>0, <1>3, <2>2 DEF Kinds
<1>4. CASE /\ "TSP" \notin service.types /\ "DIDComm" \notin service.types
           /\ service.types \intersect {"REST", "VTARest"} = {}
  <2>1. KindOf(service) = None
    BY <1>4 DEF KindOf
  <2> QED  BY <1>0, <1>4, <2>1, ClientAssumption DEF Kinds
<1> QED  BY <1>1, <1>2, <1>3, <1>4

\* endpoint() finds an entry that counts for the kind if there is one, and nothing
\* else; where it finds none, the kind is advertised by better services at most.
LEMMA EndpointFacts ==
    ASSUME NEW services \in Seq(Service), NEW kind \in Kinds
    PROVE  /\ endpoint(services, kind) # None =>
                \E i \in DOMAIN services : /\ Advertises(services[i], kind)
                                           /\ services[i].uri = endpoint(services, kind)
           /\ endpoint(services, kind) = None =>
                \A i \in DOMAIN services :
                    Advertises(services[i], kind) =>
                        \E other \in Better(kind) : Advertises(services[i], other)
<1> DEFINE usable == {i \in DOMAIN services : services[i].uri # None /\ KindOf(services[i]) = kind}
           first == CHOOSE i \in usable : \A j \in usable : i <= j
<1>1. ASSUME NEW i \in DOMAIN services
      PROVE  /\ i \in usable => Advertises(services[i], kind)
             /\ Advertises(services[i], kind) =>
                  i \in usable \/ \E other \in Better(kind) : Advertises(services[i], other)
  <2>1. CASE services[i].uri # None
    BY <2>1, KindFacts
  <2>2. CASE services[i].uri = None
    BY <2>2 DEF Advertises
  <2> QED  BY <2>1, <2>2
<1>2. CASE usable = {}
  <2>1. endpoint(services, kind) = None
    BY <1>2 DEF endpoint
  <2> QED  BY <1>1, <1>2, <2>1
<1>3. CASE usable # {}
  <2>1. usable \subseteq Nat
    OBVIOUS
  <2>2. \E i \in usable : \A j \in usable : i <= j
    BY <1>3, <2>1, LeastElement
  <2>3. first \in usable
    BY <2>2
  <2>4. endpoint(services, kind) = services[first].uri
    BY <1>3 DEF endpoint
  <2>5. first \in DOMAIN services /\ services[first].uri # None
    BY <2>3
  <2> QED  BY <1>1, <2>3, <2>4, <2>5
<1> QED  BY <1>2, <1>3

\* select() is ready with the best kind both sides have, and its endpoint, or finds
\* no endpoint for any.
LEMMA SelectFacts ==
    ASSUME NEW services \in Seq(Service), NEW ours \in SUBSET Kinds
    PROVE  \/ /\ select(services, ours) = Refusal
              /\ \A other \in ours : endpoint(services, other) = None
           \/ \E kind \in ours :
                /\ select(services, ours) =
                     [status |-> "ready", kind |-> kind, endpoint |-> endpoint(services, kind)]
                /\ endpoint(services, kind) # None
                /\ \A other \in Better(kind) \intersect ours : endpoint(services, other) = None
<1> DEFINE shared == {i \in DOMAIN PREFERENCE_ORDER :
                        /\ PREFERENCE_ORDER[i] \in ours
                        /\ endpoint(services, PREFERENCE_ORDER[i]) # None}
           first == CHOOSE i \in shared : \A j \in shared : i <= j
           kind == PREFERENCE_ORDER[first]
<1>1. CASE shared = {}
  <2>1. \A other \in Kinds : \E i \in DOMAIN PREFERENCE_ORDER : PREFERENCE_ORDER[i] = other
    <3>1. DOMAIN PREFERENCE_ORDER = 1..3
      BY DEF PREFERENCE_ORDER
    <3> QED  BY <3>1 DEF PREFERENCE_ORDER, Kinds
  <2>2. \A other \in ours : endpoint(services, other) = None
    BY <1>1, <2>1
  <2> QED  BY <1>1, <2>2 DEF select
<1>2. CASE shared # {}
  <2>0. DOMAIN PREFERENCE_ORDER = 1..3
    BY DEF PREFERENCE_ORDER
  <2>1. \E i \in shared : \A j \in shared : i <= j
    <3>1. shared \subseteq Nat
      BY <2>0
    <3> QED  BY <1>2, <3>1, LeastElement
  <2>2. first \in shared /\ \A j \in shared : first <= j
    BY <2>1
  <2>3. kind \in ours /\ endpoint(services, kind) # None
    BY <2>2
  <2>4. select(services, ours) =
          [status |-> "ready", kind |-> kind, endpoint |-> endpoint(services, kind)]
    BY <1>2 DEF select
  <2>5. ASSUME NEW other \in Better(kind) \intersect ours
        PROVE  endpoint(services, other) = None
    <3>1. PICK j \in 1..3 : j < first /\ PREFERENCE_ORDER[j] = other
      <4>1. first \in 1..3
        BY <2>0, <2>2
      <4> HIDE DEF first
      <4>2. CASE first = 1
        BY <4>2, <2>5 DEF PREFERENCE_ORDER, Better
      <4>3. CASE first = 2
        BY <4>3, <2>5 DEF PREFERENCE_ORDER, Better
      <4>4. CASE first = 3
        <5>1. other \in {"tsp", "didcomm"}
          BY <4>4, <2>5 DEF PREFERENCE_ORDER, Better
        <5> QED  BY <4>4, <5>1 DEF PREFERENCE_ORDER
      <4> QED  BY <4>1, <4>2, <4>3, <4>4
    <3>2. first \in 1..3 /\ j \notin shared
      BY <2>0, <2>2, <3>1
    <3> QED  BY <2>0, <2>5, <3>1, <3>2
  <2> QED  BY <2>3, <2>4, <2>5
<1> QED  BY <1>1, <1>2

-----------------------------------------------------------------------------
(* The invariant                                                           *)

Live == {"sending", "unsent", "waiting", "late"}

\* A client uses a transport that is advertised, at its endpoint, and there was no
\* endpoint for those it declined.
ClientInv ==
    /\ client.status = "ready" =>
         /\ client.kind \in setup.ours
         /\ \E i \in DOMAIN setup.services :
              /\ Advertises(setup.services[i], client.kind)
              /\ setup.services[i].uri = client.endpoint
    /\ \A other \in Declined : endpoint(setup.services, other) = None

\* Nothing is asked before there is a client, and nothing answered before it is
\* asked.
AskedInv ==
    /\ client.status # "ready" =>
         /\ answers = {} /\ asked = {}
         /\ \A r \in Requests : requests[r].pc = "idle"
    /\ \A r \in Requests : requests[r].pc = "posting" => Ready({"https"})
    /\ \A r \in asked : requests[r].pc # "idle"
    /\ \A reply \in answers : reply.thread \in asked \union {None}

Handing(r) == demux.at = "handing" /\ demux.reply.thread = r

\* An exchange that still lasts and got nothing has its waiter in the map, or the
\* demux just took it out; one that got its reply has not.
WaiterInv ==
    /\ \A r \in pending : requests[r].pc \in Live \union {"expired", "cancelled"}
    /\ \A r \in Requests : Alive(r) => (requests[r].slot = None <=> r \in pending \/ Handing(r))
    /\ demux.at = "handing" =>
         /\ demux.reply.thread \in Requests \ pending
         /\ requests[demux.reply.thread].pc # "idle"

\* An exchange that got nothing was handed nothing, and the reply to it is with
\* the mediator or with the demux.
KeptInv ==
    \A r \in Requests :
        Alive(r) /\ requests[r].slot = None =>
            /\ \A reply \in handed : reply.thread # r
            /\ \A reply \in answers : reply.thread = r /\ r \notin spoiled =>
                 \/ \E other \in inbox : other.thread = r
                 \/ demux.at \in {"routing", "handing"} /\ demux.reply.thread = r

AckedInv ==
    /\ AckedWereHanded
    /\ demux.at = "acking" => demux.reply \in handed

ExchangesInv == AskedInv /\ WaiterInv /\ KeptInv /\ AckedInv /\ OwnReply

ClientsInv == TypeOK /\ ClientInv /\ ExchangesInv

\* Waiters are for exchanges over a mediator.
LiveInv == \A r \in Requests : Alive(r) => Mediated

LEMMA InitClients == Init => ClientsInv
<1> SUFFICES ASSUME Init
             PROVE  ClientsInv
  OBVIOUS
<1>1. requests \in [Requests -> Request]
  BY DEF Init, Request
<1>2. \A r \in Requests : requests[r].pc = "idle"
  BY DEF Init
<1>3. TypeOK
  BY <1>1, ClientAssumption DEF Init, TypeOK
<1>4. ClientInv
  BY DEF Init, ClientInv, Declined
<1>5. AskedInv
  BY <1>2 DEF Init, AskedInv
<1>6. WaiterInv /\ KeptInv
  BY <1>2 DEF Init, WaiterInv, KeptInv, Alive
<1>7. AckedInv /\ OwnReply
  BY <1>2 DEF Init, AckedInv, AckedWereHanded, OwnReply
<1> QED  BY <1>3, <1>4, <1>5, <1>6, <1>7 DEF ClientsInv, ExchangesInv

LEMMA MishapBounded ==
    ASSUME mishaps \in 0..MaxMishaps, NEW kind, Mishap(kind)
    PROVE  mishaps' \in 0..MaxMishaps
BY ClientAssumption DEF Mishap

\* What Become does.
LEMMA BecomeFacts ==
    ASSUME requests \in [Requests -> Request], NEW r \in Requests, NEW q \in Request, Become(r, q)
    PROVE  /\ requests' \in [Requests -> Request]
           /\ requests'[r] = q
           /\ \A s \in Requests \ {r} : requests'[s] = requests[s]
BY DEF Become

LEMMA ConnectClients ==
    ASSUME ClientsInv, Connect
    PROVE  ClientsInv'
<1> USE DEF ClientsInv
<1> DEFINE choice == select(setup.services, setup.ours)
<1>0. /\ client.status = "unset"
      /\ UNCHANGED <<setup, requests, pending, inbox, demux, mishaps, histories>>
  BY DEF Connect
<1>1. setup.services \in Seq(Service) /\ setup.ours \in SUBSET Kinds
  BY ClientAssumption DEF TypeOK
<1>2. /\ client' \in [status : {"unset", "config", "noMatchingTransport"}]
                     \union [status : {"ready"}, kind : setup.ours, endpoint : Endpoints]
      /\ ClientInv'
  <2>1. CASE client' = [status |-> "config"]
    BY <2>1 DEF ClientInv, Declined
  <2>4. ASSUME client' = Refusal,
               \A other \in setup.ours : endpoint(setup.services, other) = None
        PROVE  /\ client' \in [status : {"unset", "config", "noMatchingTransport"}]
                              \union [status : {"ready"}, kind : setup.ours, endpoint : Endpoints]
               /\ ClientInv'
    <3>1. client'.status = "noMatchingTransport" /\ Declined' = setup.ours
      BY <1>0, <2>4 DEF Refusal, Declined
    <3> QED  BY <1>0, <2>4, <3>1 DEF ClientInv, Refusal
  <2>2. ASSUME NEW kind \in setup.ours,
               client' = [status |-> "ready", kind |-> kind,
                          endpoint |-> endpoint(setup.services, kind)],
               endpoint(setup.services, kind) # None,
               \A other \in Better(kind) \intersect setup.ours :
                  endpoint(setup.services, other) = None
        PROVE  /\ client' \in [status : {"unset", "config", "noMatchingTransport"}]
                              \union [status : {"ready"}, kind : setup.ours, endpoint : Endpoints]
               /\ ClientInv'
    <3>1. PICK i \in DOMAIN setup.services :
             /\ Advertises(setup.services[i], kind)
             /\ setup.services[i].uri = endpoint(setup.services, kind)
      BY <1>1, <2>2, EndpointFacts
    <3>2. endpoint(setup.services, kind) \in Endpoints
      <4>1. setup.services[i] \in Service
        BY <1>1
      <4> QED  BY <2>2, <3>1, <4>1 DEF Service
    <3>3. client'.status = "ready" /\ Declined' = Better(kind) \intersect setup.ours
      BY <1>0, <2>2 DEF Declined
    <3> QED  BY <1>0, <2>2, <3>1, <3>2, <3>3 DEF ClientInv
  <2>3. \/ client' = [status |-> "config"]
        \/ client' = choice
    BY DEF Connect
  <2> QED  BY <1>1, <2>1, <2>2, <2>3, <2>4, SelectFacts
<1>3. TypeOK'
  BY <1>0, <1>2 DEF TypeOK, histories
<1>4. AskedInv'
  BY <1>0 DEF ExchangesInv, AskedInv, histories
<1>5. WaiterInv' /\ KeptInv' /\ OwnReply'
  BY <1>0 DEF ExchangesInv, WaiterInv, KeptInv, OwnReply, Alive, Handing, histories
<1>6. AckedInv'
  BY <1>0 DEF ExchangesInv, AskedInv, AckedInv, AckedWereHanded, histories
<1> QED  BY <1>2, <1>3, <1>4, <1>5, <1>6 DEF ExchangesInv

\* A step of one exchange that leaves the map alone: the exchange goes on with
\* what it has, or ends and was not waiting or is dropped.
LEMMA OneExchange ==
    ASSUME ClientsInv, NEW r \in Requests, NEW q \in Request,
           Become(r, q), UNCHANGED <<others, pending, inbox, demux, histories>>,
           mishaps' \in 0..MaxMishaps,
           requests[r].pc # "idle", q.pc \notin {"idle", "posting"},
           q.pc \in Live => requests[r].pc \in Live /\ q.slot = requests[r].slot,
           r \in pending => q.pc \in Live \union {"expired", "cancelled"},
           q.pc = "done" /\ q.outcome \in {"response", "rejected"} => q.document.thread = r
    PROVE  ClientsInv'
<1> USE DEF ClientsInv, ExchangesInv
<1>0. /\ requests' \in [Requests -> Request] /\ requests'[r] = q
      /\ \A s \in Requests \ {r} : requests'[s] = requests[s]
  BY BecomeFacts DEF TypeOK
<1>1. UNCHANGED <<setup, client, pending, inbox, demux, asked, answers, handed, spoiled>>
  BY DEF others, histories
<1>2. TypeOK'
  BY <1>0, <1>1 DEF TypeOK
<1>3. ClientInv'
  BY <1>1 DEF ClientInv, Declined
<1>4. AskedInv'
  <2>1. client.status = "ready"
    BY DEF AskedInv
  <2>2. asked \subseteq Requests
    BY DEF TypeOK
  <2>3. \A s \in Requests : requests'[s].pc = "posting" => Ready({"https"})'
    BY <1>0, <1>1 DEF AskedInv, Ready
  <2>4. \A s \in asked : requests'[s].pc # "idle"
    BY <1>0, <1>1, <2>2 DEF AskedInv
  <2> QED  BY <1>1, <2>1, <2>3, <2>4 DEF AskedInv
<1>5. WaiterInv'
  <2>1. pending \subseteq Requests
    BY DEF TypeOK
  <2>2. \A s \in pending : requests'[s].pc \in Live \union {"expired", "cancelled"}
    BY <1>0, <2>1 DEF WaiterInv
  <2>3. \A s \in Requests : Alive(s)' =>
          (requests'[s].slot = None <=> s \in pending \/ Handing(s))
    BY <1>0 DEF WaiterInv, Alive, Live
  <2>4. demux.at = "handing" => requests'[demux.reply.thread].pc # "idle"
    BY <1>0 DEF WaiterInv
  <2> QED  BY <1>1, <2>2, <2>3, <2>4 DEF WaiterInv, Handing
<1>6. KeptInv'
  BY <1>0, <1>1 DEF KeptInv, Alive, Live
<1>7. AckedInv' /\ OwnReply'
  BY <1>0, <1>1 DEF AckedInv, AckedWereHanded, Ready, OwnReply
<1> QED  BY <1>2, <1>3, <1>4, <1>5, <1>6, <1>7

\* What the exchanges' own steps make of them.
LEMMA ExchangeSteps ==
    ASSUME ClientsInv, NEW r \in Requests,
           \/ Sent(r) \/ Receive(r) \/ Elapse(r) \/ Expire(r) \/ Cancel(r)
           \/ PostFails(r) \/ send_query(r)
    PROVE  ClientsInv'
<1> USE DEF ClientsInv, ExchangesInv
<1>0. requests[r] \in Request /\ mishaps \in 0..MaxMishaps
  BY DEF TypeOK
<1>a. r \in pending => requests[r].pc \in Live \union {"expired", "cancelled"}
  BY DEF WaiterInv
<1>1. CASE Sent(r)
  <2>1. mishaps' \in 0..MaxMishaps
    BY <1>0, <1>1, MishapBounded DEF Sent
  <2>2. /\ requests[r].pc = "sending"
        /\ requests[r] \in [pc : {"sending", "unsent", "waiting", "late"}, slot : Reply \union {None}]
    BY <1>0, <1>1 DEF Sent, Request
  <2>3. PICK pc \in {"waiting", "unsent"} : Become(r, [requests[r] EXCEPT !.pc = pc])
    BY <1>1 DEF Sent
  <2> DEFINE q == [requests[r] EXCEPT !.pc = pc]
  <2>4. q \in Request /\ q.pc = pc /\ q.slot = requests[r].slot
    BY <2>2 DEF Request
  <2> QED  BY <1>1, <2>1, <2>2, <2>3, <2>4, OneExchange DEF Sent, Live
<1>2. CASE Receive(r)
  <2>1. /\ requests[r].pc = "waiting" /\ requests[r].slot # None
        /\ requests[r].slot \in Reply
    BY <1>0, <1>2 DEF Receive, Request
  <2>2. r \notin pending
    BY <2>1 DEF WaiterInv, Alive
  <2> DEFINE q == [pc |-> "received", document |-> requests[r].slot]
  <2>3. q \in Request /\ q.pc = "received"
    BY <2>1 DEF Request
  <2> QED  BY <1>0, <1>2, <2>1, <2>2, <2>3, OneExchange DEF Receive, Live
<1>3. CASE Elapse(r)
  <2>1. /\ requests[r].pc = "waiting"
        /\ requests[r] \in [pc : {"sending", "unsent", "waiting", "late"}, slot : Reply \union {None}]
    BY <1>0, <1>3 DEF Elapse, Request
  <2> DEFINE q == [requests[r] EXCEPT !.pc = "late"]
  <2>2. q \in Request /\ q.pc = "late" /\ q.slot = requests[r].slot
    BY <2>1 DEF Request
  <2> QED  BY <1>0, <1>3, <2>1, <2>2, OneExchange DEF Elapse, Live
<1>4. CASE Expire(r)
  <2> DEFINE q == [pc |-> "expired"]
  <2>1. q \in Request /\ q.pc = "expired"
    BY DEF Request
  <2> QED  BY <1>0, <1>4, <2>1, OneExchange DEF Expire, Live
<1>5. CASE Cancel(r)
  <2>1. mishaps' \in 0..MaxMishaps
    BY <1>0, <1>5, MishapBounded DEF Cancel
  <2> DEFINE q == [pc |-> "cancelled"]
  <2>2. q \in Request /\ q.pc = "cancelled"
    BY DEF Request
  <2> QED  BY <1>5, <2>1, <2>2, OneExchange DEF Cancel, Live
<1>6. CASE PostFails(r)
  <2>1. mishaps' \in 0..MaxMishaps
    BY <1>0, <1>6 DEF PostFails
  <2>2. PICK outcome \in {"timeout", "transport"} : Become(r, [pc |-> "done", outcome |-> outcome])
    BY <1>6 DEF PostFails, Finish
  <2> DEFINE q == [pc |-> "done", outcome |-> outcome]
  <2>3. q \in Request /\ q.pc = "done" /\ q.outcome \notin {"response", "rejected"}
    BY DEF Request, Outcomes
  <2>4. requests[r].pc = "posting" /\ r \notin pending
    BY <1>6, <1>a DEF PostFails, Live
  <2> QED  BY <1>6, <2>1, <2>2, <2>3, <2>4, OneExchange DEF PostFails, Live
<1>7. CASE send_query(r)
  <2> DEFINE document == requests[r].document
             q == [pc |-> "done", outcome |-> outcome_of(r, document), document |-> document]
  <2>1. requests[r].pc = "received" /\ document \in Reply /\ Become(r, q)
    BY <1>0, <1>7 DEF send_query, Request
  <2>2. /\ outcome_of(r, document) \in Outcomes
        /\ outcome_of(r, document) \in {"response", "rejected"} => document.thread = r
    <3>1. CASE document.thread # r
      BY <3>1 DEF outcome_of, Outcomes
    <3>2. CASE document.thread = r /\ document.body = "error"
      BY <3>2 DEF outcome_of, Outcomes
    <3>3. CASE document.thread = r /\ document.body = "response"
      BY <3>3 DEF outcome_of, Outcomes
    <3>4. CASE document.thread = r /\ document.body \notin {"error", "response"}
      BY <3>4 DEF outcome_of, Outcomes
    <3> QED  BY <3>1, <3>2, <3>3, <3>4
  <2>3. /\ q \in Request /\ q.pc = "done" /\ q.document = document
        /\ q.outcome = outcome_of(r, document)
    BY <2>1, <2>2 DEF Request
  <2>4. r \notin pending
    BY <1>a, <2>1 DEF Live
  <2> HIDE DEF q, document
  <2> QED  BY <1>0, <1>7, <2>1, <2>2, <2>3, <2>4, OneExchange DEF send_query, Live
<1> QED  BY <1>1, <1>2, <1>3, <1>4, <1>5, <1>6, <1>7

LEMMA RegisterClients ==
    ASSUME ClientsInv, NEW r \in Requests, register(r)
    PROVE  ClientsInv'
<1> USE DEF ClientsInv, ExchangesInv
<1> DEFINE q == [pc |-> "sending", slot |-> None]
<1>0. /\ requests[r].pc = "idle" /\ client.status = "ready" /\ Mediated
      /\ UNCHANGED <<setup, client, inbox, demux, mishaps, asked, answers, handed, spoiled>>
      /\ pending' = pending \union {r}
  BY DEF register, Mediated, Ready, others, histories
<1>1. q \in Request
  BY DEF Request
<1>2. /\ requests' \in [Requests -> Request] /\ requests'[r] = q
      /\ \A s \in Requests \ {r} : requests'[s] = requests[s]
  BY <1>1, BecomeFacts DEF register, TypeOK
<1>3. r \notin asked /\ \A reply \in answers : reply.thread # r
  BY <1>0, ClientAssumption DEF AskedInv
<1>4. TypeOK'
  BY <1>0, <1>2 DEF TypeOK
<1>5. ClientInv' /\ AckedInv' /\ OwnReply'
  BY <1>0, <1>2 DEF ClientInv, Declined, AckedInv, AckedWereHanded, Ready, OwnReply
<1>6. AskedInv'
  <2>1. asked \subseteq Requests
    BY DEF TypeOK
  <2>2. \A s \in Requests : requests'[s].pc = "posting" => Ready({"https"})'
    BY <1>0, <1>2 DEF AskedInv, Ready
  <2>3. \A s \in asked : requests'[s].pc # "idle"
    BY <1>2, <2>1 DEF AskedInv
  <2> QED  BY <1>0, <2>2, <2>3 DEF AskedInv
<1>7. WaiterInv'
  <2>1. pending \subseteq Requests
    BY DEF TypeOK
  <2>2. \A s \in pending' : requests'[s].pc \in Live \union {"expired", "cancelled"}
    BY <1>0, <1>2, <2>1 DEF WaiterInv, Live
  <2>3. demux.at = "handing" => demux.reply.thread # r
    BY <1>0 DEF WaiterInv
  <2>4. \A s \in Requests : Alive(s)' => (requests'[s].slot = None <=> s \in pending' \/ Handing(s))
    BY <1>0, <1>2 DEF WaiterInv, Alive
  <2>5. demux.at = "handing" =>
          /\ demux.reply.thread \in Requests \ pending'
          /\ requests'[demux.reply.thread].pc # "idle"
    BY <1>0, <1>2, <2>3 DEF WaiterInv
  <2> QED  BY <1>0, <2>2, <2>4, <2>5 DEF WaiterInv, Handing
<1>8. KeptInv'
  <2>1. \A reply \in handed : reply.thread # r
    BY <1>3 DEF TypeOK
  <2> QED  BY <1>0, <1>2, <1>3, <2>1 DEF KeptInv, Alive
<1> QED  BY <1>4, <1>5, <1>6, <1>7, <1>8

LEMMA SendClients ==
    ASSUME ClientsInv, NEW r \in Requests, send_envelope(r)
    PROVE  ClientsInv'
<1> USE DEF ClientsInv, ExchangesInv
<1>0. /\ UNCHANGED <<setup, client, requests, pending, inbox, demux, mishaps, answers, handed, spoiled>>
      /\ asked' = asked \union {r} /\ requests[r].pc = "sending"
  BY DEF send_envelope, others
<1>1. TypeOK' /\ ClientInv' /\ AckedInv' /\ OwnReply'
  BY <1>0 DEF TypeOK, ClientInv, Declined, AckedInv, AckedWereHanded, Ready, OwnReply
<1>2. AskedInv'
  BY <1>0 DEF AskedInv, Ready
<1>3. WaiterInv' /\ KeptInv'
  BY <1>0 DEF WaiterInv, KeptInv, Alive, Handing
<1> QED  BY <1>1, <1>2, <1>3

LEMMA AbandonClients ==
    ASSUME ClientsInv, NEW r \in Requests, abandon(r)
    PROVE  ClientsInv'
<1> USE DEF ClientsInv, ExchangesInv
<1>0. /\ UNCHANGED <<setup, client, inbox, demux, mishaps, asked, answers, handed, spoiled>>
      /\ pending' = pending \ {r} /\ requests[r].pc \in {"unsent", "expired"}
  BY DEF abandon, others, histories
<1>1. PICK outcome \in {"transport", "timeout"} : Become(r, [pc |-> "done", outcome |-> outcome])
  BY DEF abandon, Finish
<1> DEFINE q == [pc |-> "done", outcome |-> outcome]
<1>2. q \in Request /\ q.pc = "done" /\ q.outcome \notin {"response", "rejected"}
  BY DEF Request, Outcomes
<1>3. /\ requests' \in [Requests -> Request] /\ requests'[r] = q
      /\ \A s \in Requests \ {r} : requests'[s] = requests[s]
  BY <1>1, <1>2, BecomeFacts DEF TypeOK
<1> HIDE DEF q
<1>4. TypeOK'
  BY <1>0, <1>3 DEF TypeOK
<1>5. ClientInv' /\ AckedInv' /\ OwnReply'
  BY <1>0, <1>2, <1>3 DEF ClientInv, Declined, AckedInv, AckedWereHanded, Ready, OwnReply
<1>6. AskedInv'
  <2>1. client.status = "ready" /\ asked \subseteq Requests
    BY <1>0 DEF AskedInv, TypeOK
  <2>2. \A s \in Requests : requests'[s].pc = "posting" => Ready({"https"})'
    BY <1>0, <1>2, <1>3 DEF AskedInv, Ready
  <2>3. \A s \in asked : requests'[s].pc # "idle"
    BY <1>2, <1>3, <2>1 DEF AskedInv
  <2> QED  BY <1>0, <2>1, <2>2, <2>3 DEF AskedInv
<1>7. WaiterInv'
  <2>1. pending \subseteq Requests
    BY DEF TypeOK
  <2>2. \A s \in pending' : requests'[s].pc \in Live \union {"expired", "cancelled"}
    BY <1>0, <1>3, <2>1 DEF WaiterInv
  <2>3. \A s \in Requests : Alive(s)' => (requests'[s].slot = None <=> s \in pending' \/ Handing(s))
    BY <1>0, <1>2, <1>3 DEF WaiterInv, Alive
  <2>4. demux.at = "handing" => requests'[demux.reply.thread].pc # "idle"
    BY <1>2, <1>3 DEF WaiterInv
  <2> QED  BY <1>0, <2>2, <2>3, <2>4 DEF WaiterInv, Handing
<1>8. KeptInv'
  BY <1>0, <1>2, <1>3 DEF KeptInv, Alive
<1> QED  BY <1>4, <1>5, <1>6, <1>7, <1>8

LEMMA PostClients ==
    ASSUME ClientsInv, NEW r \in Requests, Post(r)
    PROVE  ClientsInv'
<1> USE DEF ClientsInv, ExchangesInv
<1> DEFINE q == [pc |-> "posting"]
<1>0. /\ UNCHANGED <<setup, client, pending, inbox, demux, mishaps, answers, handed, spoiled>>
      /\ asked' = asked \union {r} /\ requests[r].pc = "idle" /\ Ready({"https"})
  BY DEF Post, others
<1>1. q \in Request
  BY DEF Request
<1>2. /\ requests' \in [Requests -> Request] /\ requests'[r] = q
      /\ \A s \in Requests \ {r} : requests'[s] = requests[s]
  BY <1>1, BecomeFacts DEF Post, TypeOK
<1>3. TypeOK'
  BY <1>0, <1>2 DEF TypeOK
<1>4. ClientInv' /\ AckedInv' /\ OwnReply'
  BY <1>0, <1>2 DEF ClientInv, Declined, AckedInv, AckedWereHanded, Ready, OwnReply
<1>5. AskedInv'
  <2>1. asked \subseteq Requests /\ client'.status = "ready"
    BY <1>0 DEF TypeOK, Ready
  <2>2. \A s \in Requests : requests'[s].pc = "posting" => Ready({"https"})'
    BY <1>0 DEF Ready
  <2>3. \A s \in asked' : requests'[s].pc # "idle"
    BY <1>0, <1>2, <2>1 DEF AskedInv
  <2> QED  BY <1>0, <2>1, <2>2, <2>3 DEF AskedInv
<1>6. WaiterInv'
  <2>1. pending \subseteq Requests /\ r \notin pending
    BY <1>0 DEF TypeOK, WaiterInv, Live
  <2>2. \A s \in pending : requests'[s].pc \in Live \union {"expired", "cancelled"}
    BY <1>2, <2>1 DEF WaiterInv
  <2>3. \A s \in Requests : Alive(s)' => (requests'[s].slot = None <=> s \in pending \/ Handing(s))
    BY <1>2 DEF WaiterInv, Alive
  <2>4. demux.at = "handing" => requests'[demux.reply.thread].pc # "idle"
    BY <1>2 DEF WaiterInv
  <2> QED  BY <1>0, <2>2, <2>3, <2>4 DEF WaiterInv, Handing
<1>7. KeptInv'
  BY <1>0, <1>2 DEF KeptInv, Alive
<1> QED  BY <1>3, <1>4, <1>5, <1>6, <1>7

-----------------------------------------------------------------------------
(* The demux and the registry                                              *)

LEMMA TakeClients ==
    ASSUME ClientsInv, NEW reply \in Reply, Take(reply)
    PROVE  ClientsInv'
<1> USE DEF ClientsInv, ExchangesInv
<1>0. /\ UNCHANGED <<setup, client, requests, pending, mishaps, asked, answers, handed, spoiled>>
      /\ demux.at = "polling" /\ reply \in inbox
      /\ demux' = [at |-> "routing", reply |-> reply]
      /\ inbox' \subseteq inbox /\ inbox \ {reply} \subseteq inbox'
      /\ Ready({"didcomm"}) => inbox' = inbox
  BY DEF Take, UnchangedButDemux, others, Ready
<1>1. TypeOK'
  BY <1>0 DEF TypeOK
<1>2. ClientInv' /\ AskedInv' /\ AckedInv' /\ OwnReply'
  BY <1>0 DEF ClientInv, Declined, AskedInv, AckedInv, AckedWereHanded, Ready, OwnReply
<1>3. WaiterInv'
  BY <1>0 DEF WaiterInv, Alive, Handing
<1>4. KeptInv'
  BY <1>0 DEF KeptInv, Alive
<1> QED  BY <1>1, <1>2, <1>3, <1>4

LEMMA DiscardClients ==
    ASSUME ClientsInv, Discard
    PROVE  ClientsInv'
<1> USE DEF ClientsInv, ExchangesInv
<1>0. /\ UNCHANGED <<setup, client, requests, pending, inbox, asked, answers, handed>>
      /\ demux.at = "routing" /\ demux' = [at |-> "polling"]
      /\ spoiled' = spoiled \union {demux.reply.thread}
  BY DEF Discard, Poll, UnchangedButDemux, others
<1>1. mishaps' \in 0..MaxMishaps
  BY MishapBounded DEF Discard, TypeOK
<1>2. demux.reply \in answers /\ demux.reply.thread \in Requests \union {None}
  BY <1>0 DEF TypeOK, Reply
<1>3. TypeOK'
  BY <1>0, <1>1, <1>2 DEF TypeOK
<1>4. ClientInv' /\ AskedInv' /\ AckedInv' /\ OwnReply'
  BY <1>0 DEF ClientInv, Declined, AskedInv, AckedInv, AckedWereHanded, Ready, OwnReply
<1>5. WaiterInv'
  BY <1>0 DEF WaiterInv, Alive, Handing
<1>6. KeptInv'
  BY <1>0 DEF KeptInv, Alive
<1> QED  BY <1>3, <1>4, <1>5, <1>6

LEMMA RouteClients ==
    ASSUME ClientsInv, route
    PROVE  ClientsInv'
<1> USE DEF ClientsInv, ExchangesInv
<1> DEFINE t == demux.reply.thread
<1>0. /\ UNCHANGED <<setup, client, requests, inbox, mishaps, asked, answers, handed, spoiled>>
      /\ demux.at = "routing"
  BY DEF route, UnchangedButDemux, others
<1>1. CASE /\ t \in pending /\ pending' = pending \ {t}
           /\ demux' = [at |-> "handing", reply |-> demux.reply]
  <2>1. t \in Requests /\ requests[t].pc # "idle"
    BY <1>1 DEF TypeOK, WaiterInv, Live
  <2>2. TypeOK'
    BY <1>0, <1>1 DEF TypeOK
  <2>3. ClientInv' /\ AskedInv' /\ AckedInv' /\ OwnReply'
    BY <1>0, <1>1 DEF ClientInv, Declined, AskedInv, AckedInv, AckedWereHanded, Ready, OwnReply
  <2>4. WaiterInv'
    BY <1>0, <1>1, <2>1 DEF WaiterInv, Alive, Handing
  <2>5. KeptInv'
    BY <1>0, <1>1 DEF KeptInv, Alive
  <2> QED  BY <2>2, <2>3, <2>4, <2>5
<1>2. CASE t \notin pending /\ demux' = [at |-> "polling"] /\ pending' = pending
  <2>1. TypeOK'
    BY <1>0, <1>2 DEF TypeOK
  <2>2. ClientInv' /\ AskedInv' /\ AckedInv' /\ OwnReply'
    BY <1>0, <1>2 DEF ClientInv, Declined, AskedInv, AckedInv, AckedWereHanded, Ready, OwnReply
  <2>3. WaiterInv'
    BY <1>0, <1>2 DEF WaiterInv, Alive, Handing
  <2>4. KeptInv'
    BY <1>0, <1>2 DEF KeptInv, WaiterInv, Alive, Handing
  <2> QED  BY <2>1, <2>2, <2>3, <2>4
<1> QED  BY <1>1, <1>2 DEF route, Poll

LEMMA HandClients ==
    ASSUME ClientsInv, Hand
    PROVE  ClientsInv'
<1> USE DEF ClientsInv, ExchangesInv
<1> DEFINE t == demux.reply.thread
           q == [requests[t] EXCEPT !.slot = demux.reply]
<1>0. /\ UNCHANGED <<setup, client, pending, inbox, mishaps, asked, answers, spoiled>>
      /\ demux.at = "handing" /\ t \in Requests \ pending /\ requests[t].pc # "idle"
      /\ demux.reply \in answers /\ demux.reply \in Reply
  BY DEF Hand, others, WaiterInv, TypeOK
<1>1. CASE Alive(t)
  <2>1. requests[t] \in [pc : {"sending", "unsent", "waiting", "late"}, slot : Reply \union {None}]
    BY <1>0, <1>1 DEF TypeOK, Request, Alive
  <2>2. q \in Request /\ q.pc = requests[t].pc /\ q.slot = demux.reply /\ q.pc \in Live
    BY <1>0, <2>1 DEF Request, Live
  <2>3. /\ Become(t, q) /\ handed' = handed \union {demux.reply}
        /\ \/ demux' = [at |-> "acking", reply |-> demux.reply]
           \/ demux' = [at |-> "polling"]
    BY <1>1 DEF Hand, Poll
  <2>4. /\ requests' \in [Requests -> Request] /\ requests'[t] = q
        /\ \A s \in Requests \ {t} : requests'[s] = requests[s]
    BY <1>0, <2>2, <2>3, BecomeFacts DEF TypeOK
  <2> HIDE DEF q
  <2>5. TypeOK'
    BY <1>0, <2>3, <2>4 DEF TypeOK
  <2>6. AskedInv'
    <3>1. \A s \in Requests : requests'[s].pc = "posting" => Ready({"https"})'
      BY <1>0, <2>2, <2>4 DEF AskedInv, Ready, Live
    <3>2. \A s \in asked : requests'[s].pc # "idle"
      BY <1>0, <2>2, <2>4 DEF AskedInv, TypeOK, Live
    <3>3. client.status = "ready"
      BY <1>0 DEF AskedInv
    <3> QED  BY <1>0, <3>1, <3>2, <3>3 DEF AskedInv
  <2>7. WaiterInv'
    <3>1. \A s \in pending : requests'[s].pc \in Live \union {"expired", "cancelled"}
      BY <1>0, <2>4 DEF WaiterInv, TypeOK
    <3>2. \A s \in Requests : Alive(s)' => (requests'[s].slot = None <=> s \in pending)
      <4> SUFFICES ASSUME NEW s \in Requests, Alive(s)'
                   PROVE  requests'[s].slot = None <=> s \in pending
        OBVIOUS
      <4>1. CASE s = t
        BY <1>0, <2>2, <2>4, <4>1, NoneAssumption
      <4>2. CASE s # t
        BY <1>0, <2>4, <4>2 DEF WaiterInv, Alive, Handing
      <4> QED  BY <4>1, <4>2
    <3> QED  BY <1>0, <2>3, <3>1, <3>2 DEF WaiterInv, Handing
  <2>8. KeptInv'
    <3> SUFFICES ASSUME NEW s \in Requests, Alive(s)', requests'[s].slot = None
                 PROVE  /\ \A reply \in handed' : reply.thread # s
                        /\ \A reply \in answers : reply.thread = s /\ s \notin spoiled =>
                             \E other \in inbox : other.thread = s
      BY <1>0 DEF KeptInv
    <3>1. s # t
      BY <1>0, <2>2, <2>4, NoneAssumption
    <3>2. Alive(s) /\ requests[s].slot = None
      BY <2>4, <3>1 DEF Alive
    <3> QED  BY <1>0, <2>3, <3>1, <3>2 DEF KeptInv
  <2>9. ClientInv' /\ AckedInv'
    BY <1>0, <2>3 DEF ClientInv, Declined, AckedInv, AckedWereHanded, Ready
  <2>10. OwnReply'
    BY <2>2, <2>4 DEF OwnReply, Live
  <2> QED  BY <2>5, <2>6, <2>7, <2>8, <2>9, <2>10
<1>2. CASE ~Alive(t)
  <2>0. demux' = [at |-> "polling"] /\ UNCHANGED <<requests, handed>>
    BY <1>2 DEF Hand, Poll
  <2>1. TypeOK'
    BY <1>0, <2>0 DEF TypeOK
  <2>2. ClientInv' /\ AskedInv' /\ AckedInv' /\ OwnReply'
    BY <1>0, <2>0 DEF ClientInv, Declined, AskedInv, AckedInv, AckedWereHanded, Ready, OwnReply
  <2>3. WaiterInv'
    BY <1>0, <1>2, <2>0 DEF WaiterInv, Alive, Handing
  <2>4. KeptInv'
    BY <1>0, <1>2, <2>0 DEF KeptInv, Alive
  <2> QED  BY <2>1, <2>2, <2>3, <2>4
<1> QED  BY <1>1, <1>2

LEMMA AckClients ==
    ASSUME ClientsInv, Ack
    PROVE  ClientsInv'
<1> USE DEF ClientsInv, ExchangesInv
<1>0. /\ UNCHANGED <<setup, client, requests, pending, asked, answers, handed, spoiled>>
      /\ demux.at = "acking" /\ demux' = [at |-> "polling"]
      /\ inbox' \subseteq inbox /\ inbox \ {demux.reply} \subseteq inbox'
  BY DEF Ack, Poll, UnchangedButDemux, others
<1>1. mishaps' \in 0..MaxMishaps
  BY MishapBounded DEF Ack, TypeOK
<1>2. TypeOK'
  BY <1>0, <1>1 DEF TypeOK
<1>3. ClientInv' /\ AskedInv' /\ AckedInv' /\ OwnReply'
  BY <1>0 DEF ClientInv, Declined, AskedInv, AckedInv, AckedWereHanded, Ready, OwnReply
<1>4. WaiterInv'
  BY <1>0 DEF WaiterInv, Alive, Handing
<1>5. KeptInv'
  <2>1. demux.reply \in handed
    BY <1>0 DEF AckedInv
  <2> QED  BY <1>0, <2>1 DEF KeptInv, Alive
<1> QED  BY <1>2, <1>3, <1>4, <1>5

LEMMA PanicClients ==
    ASSUME ClientsInv, Panic
    PROVE  ClientsInv'
<1> USE DEF ClientsInv, ExchangesInv
<1>0. /\ UNCHANGED <<setup, client, requests, pending, inbox, asked, answers, handed>>
      /\ demux.at \in {"polling", "routing"} /\ demux' = [at |-> "stopped"]
      /\ spoiled' = IF demux.at = "routing" THEN spoiled \union {demux.reply.thread} ELSE spoiled
  BY DEF Panic, UnchangedButDemux, others
<1>1. mishaps' \in 0..MaxMishaps
  BY MishapBounded DEF Panic, TypeOK
<1>2. demux.at = "routing" => demux.reply.thread \in Requests \union {None}
  BY DEF TypeOK, Reply
<1>3. TypeOK'
  BY <1>0, <1>1, <1>2 DEF TypeOK
<1>4. ClientInv' /\ AskedInv' /\ AckedInv' /\ OwnReply'
  BY <1>0 DEF ClientInv, Declined, AskedInv, AckedInv, AckedWereHanded, Ready, OwnReply
<1>5. WaiterInv'
  BY <1>0 DEF WaiterInv, Alive, Handing
<1>6. KeptInv'
  BY <1>0 DEF KeptInv, Alive
<1> QED  BY <1>3, <1>4, <1>5, <1>6

LEMMA AnswerFacts ==
    ASSUME ClientsInv, NEW r \in Requests, NEW reply \in Reply, Answer(r, reply)
    PROVE  /\ answers' = answers \union {reply}
           /\ reply.thread \in asked \union {None}
           /\ mishaps' \in 0..MaxMishaps
BY MishapBounded DEF Answer, ClientsInv, TypeOK

LEMMA MediatorClients ==
    ASSUME ClientsInv, NEW r \in Requests, NEW reply \in Reply, AnswerByMediator(r, reply)
    PROVE  ClientsInv'
<1> USE DEF ClientsInv, ExchangesInv
<1>0. /\ UNCHANGED <<setup, client, requests, pending, demux, asked, handed, spoiled>>
      /\ inbox' = inbox \union {reply} /\ client.status = "ready" /\ Answer(r, reply)
  BY DEF AnswerByMediator, Mediated, Ready, others
<1>1. /\ answers' = answers \union {reply}
      /\ reply.thread \in asked \union {None}
      /\ mishaps' \in 0..MaxMishaps
  BY <1>0, AnswerFacts
<1>2. TypeOK'
  BY <1>0, <1>1 DEF TypeOK
<1>3. ClientInv' /\ AskedInv' /\ AckedInv' /\ OwnReply'
  BY <1>0, <1>1 DEF ClientInv, Declined, AskedInv, AckedInv, AckedWereHanded, Ready, OwnReply
<1>4. WaiterInv'
  BY <1>0 DEF WaiterInv, Alive, Handing
<1>5. KeptInv'
  BY <1>0, <1>1 DEF KeptInv, Alive
<1> QED  BY <1>2, <1>3, <1>4, <1>5

LEMMA HttpsClients ==
    ASSUME ClientsInv, NEW r \in Requests, NEW reply \in Reply, AnswerByHttps(r, reply),
           LiveInv
    PROVE  ClientsInv'
<1> USE DEF ClientsInv, ExchangesInv
<1>0. /\ UNCHANGED <<setup, client, pending, inbox, demux, asked, handed, spoiled>>
      /\ requests[r].pc = "posting" /\ Ready({"https"}) /\ Answer(r, reply)
  BY DEF AnswerByHttps, AskedInv, others
<1>1. /\ answers' = answers \union {reply}
      /\ reply.thread \in asked \union {None}
      /\ mishaps' \in 0..MaxMishaps
  BY <1>0, AnswerFacts
<1>2. PICK q \in Request :
        /\ Become(r, q) /\ q.pc \in {"received", "done"}
        /\ q.pc = "done" => q.outcome \notin {"response", "rejected"}
  <2>1. CASE reply.body = "unreadable"
    <3>1. PICK outcome \in {"contract", "transport"} : Become(r, [pc |-> "done", outcome |-> outcome])
      BY <2>1 DEF AnswerByHttps, Finish
    <3> DEFINE e == [pc |-> "done", outcome |-> outcome]
    <3>2. e \in Request /\ e.pc = "done" /\ e.outcome \notin {"response", "rejected"}
      BY DEF Request, Outcomes
    <3> QED  BY <3>1, <3>2
  <2>2. CASE reply.body # "unreadable"
    <3> DEFINE e == [pc |-> "received", document |-> reply]
    <3>1. e \in Request /\ e.pc = "received"
      BY DEF Request
    <3> QED  BY <2>2, <3>1 DEF AnswerByHttps
  <2> QED  BY <2>1, <2>2
<1>3. /\ requests' \in [Requests -> Request] /\ requests'[r] = q
      /\ \A s \in Requests \ {r} : requests'[s] = requests[s]
  BY <1>2, BecomeFacts DEF TypeOK
<1>4. TypeOK'
  BY <1>0, <1>1, <1>3 DEF TypeOK
<1>5. ClientInv' /\ AckedInv'
  BY <1>0, <1>1 DEF ClientInv, Declined, AckedInv, AckedWereHanded, Ready
<1>6. OwnReply'
  BY <1>2, <1>3 DEF OwnReply
<1>7. AskedInv'
  <2>1. \A s \in Requests : requests'[s].pc = "posting" => Ready({"https"})'
    BY <1>0 DEF Ready
  <2>2. \A s \in asked : requests'[s].pc # "idle"
    BY <1>2, <1>3 DEF AskedInv, TypeOK
  <2>3. \A other \in answers' : other.thread \in asked \union {None}
    BY <1>1 DEF AskedInv
  <2> QED  BY <1>0, <2>1, <2>2, <2>3 DEF AskedInv, Ready
<1>8. WaiterInv'
  <2>1. pending \subseteq Requests /\ r \notin pending
    BY <1>0 DEF TypeOK, WaiterInv, Live
  <2>2. \A s \in pending : requests'[s].pc \in Live \union {"expired", "cancelled"}
    BY <1>3, <2>1 DEF WaiterInv
  <2>3. \A s \in Requests : Alive(s)' => (requests'[s].slot = None <=> s \in pending \/ Handing(s))
    BY <1>2, <1>3 DEF WaiterInv, Alive
  <2>4. demux.at = "handing" => requests'[demux.reply.thread].pc # "idle"
    BY <1>2, <1>3 DEF WaiterInv
  <2> QED  BY <1>0, <2>2, <2>3, <2>4 DEF WaiterInv, Handing
<1>9. KeptInv'
  <2> SUFFICES ASSUME NEW s \in Requests, Alive(s)'
               PROVE  FALSE
    BY DEF KeptInv
  <2>1. s # r
    BY <1>2, <1>3 DEF Alive
  <2>2. Alive(s)
    BY <1>3, <2>1 DEF Alive
  <2> QED  BY <1>0, <2>2 DEF LiveInv, Mediated, Ready
<1> QED  BY <1>4, <1>5, <1>6, <1>7, <1>8, <1>9

\* Only register makes an exchange live.
LEMMA LiveNext ==
    ASSUME ClientsInv, LiveInv, [Next]_vars
    PROVE  LiveInv'
<1> USE DEF LiveInv
<1>0. requests \in [Requests -> Request]
  BY DEF ClientsInv, TypeOK
<1>1. CASE Connect
  BY <1>1 DEF Connect, ClientsInv, ExchangesInv, AskedInv, Alive
<1>2. CASE client' = client /\ requests' = requests
  BY <1>2 DEF Alive, Mediated, Ready
<1>3. ASSUME NEW r \in Requests, NEW q, Become(r, q), client' = client,
             q.pc \in Live => Mediated
      PROVE  LiveInv'
  <2>1. requests'[r] = q /\ \A s \in Requests \ {r} : requests'[s] = requests[s]
    BY <1>0, <1>3 DEF Become
  <2> QED  BY <1>3, <2>1 DEF Alive, Mediated, Ready, Live
<1>4. ASSUME NEW r \in Requests,
             register(r) \/ Sent(r) \/ Elapse(r)
      PROVE  LiveInv'
  <2>1. Mediated /\ client' = client
    BY <1>4 DEF register, Sent, Elapse, Alive, others
  <2>2. \E q : Become(r, q)
    BY <1>4 DEF register, Sent, Elapse
  <2> QED  BY <1>3, <2>1, <2>2
<1>5. ASSUME NEW r \in Requests,
             Receive(r) \/ Expire(r) \/ abandon(r) \/ Cancel(r) \/ PostFails(r) \/ send_query(r) \/ Post(r)
      PROVE  LiveInv'
  <2>1. \E q : Become(r, q) /\ q.pc \notin Live
    BY <1>5 DEF Receive, Expire, abandon, Cancel, PostFails, send_query, Post, Finish, Live
  <2>2. client' = client
    BY <1>5 DEF Receive, Expire, abandon, Cancel, PostFails, send_query, Post, others
  <2> QED  BY <1>3, <2>1, <2>2
<1>6. ASSUME NEW r \in Requests, NEW reply \in Reply, AnswerByHttps(r, reply)
      PROVE  LiveInv'
  <2>1. \E q : Become(r, q) /\ q.pc \notin Live
    BY <1>6 DEF AnswerByHttps, Finish, Live
  <2>2. client' = client
    BY <1>6 DEF AnswerByHttps, others
  <2> QED  BY <1>3, <2>1, <2>2
<1>7. CASE Hand
  <2> DEFINE t == demux.reply.thread
             q == [requests[t] EXCEPT !.slot = demux.reply]
  <2>1. client' = client /\ t \in Requests
    BY <1>7 DEF Hand, others, ClientsInv, ExchangesInv, WaiterInv
  <2>2. CASE Alive(t)
    BY <1>3, <1>7, <2>1, <2>2 DEF Hand
  <2>3. CASE ~Alive(t)
    BY <1>2, <1>7, <2>1, <2>3 DEF Hand
  <2> QED  BY <2>2, <2>3
<1>8. CASE \/ \E r \in Requests : send_envelope(r)
           \/ \E reply \in Reply : Take(reply)
           \/ Discard \/ route \/ Ack \/ Panic
           \/ \E r \in Requests, reply \in Reply : AnswerByMediator(r, reply)
           \/ UNCHANGED vars
  <2>1. client' = client /\ requests' = requests
    BY <1>8 DEF send_envelope, Take, Discard, route, Ack, Panic, AnswerByMediator, UnchangedButDemux,
                others, vars
  <2> QED  BY <1>2, <2>1
<1> QED  BY <1>1, <1>4, <1>5, <1>6, <1>7, <1>8 DEF Next, Step

LEMMA NextClients ==
    ASSUME ClientsInv, LiveInv, [Next]_vars
    PROVE  ClientsInv'
<1>1. CASE \E r \in Requests :
             \/ Sent(r) \/ Receive(r) \/ Elapse(r) \/ Expire(r) \/ Cancel(r)
             \/ PostFails(r) \/ send_query(r)
  BY <1>1, ExchangeSteps
<1>2. CASE \E r \in Requests : register(r) \/ send_envelope(r) \/ abandon(r) \/ Post(r)
  BY <1>2, RegisterClients, SendClients, AbandonClients, PostClients
<1>3. CASE \E reply \in Reply : Take(reply)
  BY <1>3, TakeClients
<1>4. CASE Connect \/ Discard \/ route \/ Hand \/ Ack \/ Panic
  BY <1>4, ConnectClients, DiscardClients, RouteClients, HandClients, AckClients, PanicClients
<1>5. CASE \E r \in Requests, reply \in Reply : AnswerByMediator(r, reply) \/ AnswerByHttps(r, reply)
  BY <1>5, MediatorClients, HttpsClients
<1>6. CASE UNCHANGED vars
  <2>1. UNCHANGED <<setup, client, requests, pending, inbox, demux, mishaps, asked, answers, handed, spoiled>>
    BY <1>6 DEF vars
  <2>2. TypeOK' /\ ClientInv'
    BY <2>1 DEF ClientsInv, TypeOK, ClientInv, Declined
  <2>3. AskedInv' /\ WaiterInv' /\ KeptInv' /\ AckedInv' /\ OwnReply'
    BY <2>1 DEF ClientsInv, ExchangesInv, AskedInv, WaiterInv, KeptInv, AckedInv, AckedWereHanded,
                OwnReply, Alive, Handing, Ready
  <2> QED  BY <2>2, <2>3 DEF ClientsInv, ExchangesInv
<1> QED  BY <1>1, <1>2, <1>3, <1>4, <1>5, <1>6 DEF Next, Step

\* Everything below follows from this invariant.
THEOREM ClientInvariant == Spec => [](ClientsInv /\ LiveInv)
<1>1. Init => ClientsInv /\ LiveInv
  <2>1. Init => LiveInv
    BY DEF Init, LiveInv, Alive
  <2> QED  BY <2>1, InitClients
<1>2. ClientsInv /\ LiveInv /\ [Next]_vars => (ClientsInv /\ LiveInv)'
  BY NextClients, LiveNext
<1> QED  BY <1>1, <1>2, PTL DEF Spec

-----------------------------------------------------------------------------
\* The client's state has the types TypeOK gives it.
THEOREM ClientTypeCorrect == Spec => []TypeOK
<1>1. ClientsInv => TypeOK
  BY DEF ClientsInv
<1> QED  BY <1>1, ClientInvariant, PTL

\* A request is answered by its own reply.
THEOREM OwnReplyHolds == Spec => []OwnReply
<1>1. ClientsInv => OwnReply
  BY DEF ClientsInv, ExchangesInv
<1> QED  BY <1>1, ClientInvariant, PTL

\* No reply to a request that still waits is missed.
THEOREM FastReplyKeptHolds == Spec => []FastReplyKept
<1>1. ClientsInv => FastReplyKept
  BY DEF ClientsInv, ExchangesInv, KeptInv, FastReplyKept, Alive
<1> QED  BY <1>1, ClientInvariant, PTL

\* Over DIDComm only a reply that was handed over is deleted.
THEOREM AckedWereHandedHolds == Spec => []AckedWereHanded
<1>1. ClientsInv => AckedWereHanded
  BY DEF ClientsInv, ExchangesInv, AckedInv
<1> QED  BY <1>1, ClientInvariant, PTL

\* No waiter is left behind by an exchange that ended.
THEOREM NoWaiterLeaksHolds == Spec => []NoWaiterLeaks
<1>1. ClientsInv => NoWaiterLeaks
  BY DEF ClientsInv, ExchangesInv, WaiterInv, NoWaiterLeaks, Alive, Live
<1> QED  BY <1>1, ClientInvariant, PTL

\* For every document and client the transport is advertised at its endpoint, and a
\* better one is passed over only where services offer one better still.
THEOREM BestSharedTransportHolds == Spec => []BestSharedTransport
<1>1. ClientsInv => BestSharedTransport
  <2> SUFFICES ASSUME ClientsInv, NEW i \in DOMAIN setup.services, NEW kind \in Declined,
                      Advertises(setup.services[i], kind)
               PROVE  \E other \in Better(kind) : Advertises(setup.services[i], other)
    BY DEF ClientsInv, ClientInv, BestSharedTransport
  <2>1. setup.services \in Seq(Service) /\ setup.ours \subseteq Kinds
    BY ClientAssumption DEF ClientsInv, TypeOK
  <2>2. kind \in Kinds
    BY <2>1 DEF Declined
  <2>3. endpoint(setup.services, kind) = None
    BY DEF ClientsInv, ClientInv
  <2> QED  BY <2>1, <2>2, <2>3, EndpointFacts
<1> QED  BY <1>1, ClientInvariant, PTL

-----------------------------------------------------------------------------
(* What the callers see                                                    *)

\* What an exchange holds, the registry replied.
DocumentsInv ==
    \A r \in Requests :
        /\ Alive(r) /\ requests[r].slot # None => requests[r].slot \in answers
        /\ requests[r].pc = "received" => requests[r].document \in answers

\* A step that leaves the answers, and gives one exchange at most what it holds
\* already or one of them.
LEMMA DocumentsFrame ==
    ASSUME ClientsInv, DocumentsInv, answers \subseteq answers', NEW r \in Requests, NEW q,
           Become(r, q),
           q.pc \in Live => q.slot = None \/ q.slot \in answers',
           q.pc = "received" => q.document \in answers'
    PROVE  DocumentsInv'
<1>1. requests \in [Requests -> Request]
  BY DEF ClientsInv, TypeOK
<1>2. requests'[r] = q /\ \A s \in Requests \ {r} : requests'[s] = requests[s]
  BY <1>1 DEF Become
<1> QED  BY <1>2 DEF DocumentsInv, Alive, Live

LEMMA DocumentsStep ==
    ASSUME ClientsInv, DocumentsInv, [Next]_vars
    PROVE  DocumentsInv'
<1>1. ASSUME NEW r \in Requests, register(r)
      PROVE  DocumentsInv'
  <2>1. Become(r, [pc |-> "sending", slot |-> None]) /\ answers' = answers
    BY <1>1 DEF register, histories
  <2> QED  BY <2>1, DocumentsFrame
<1>2. ASSUME NEW r \in Requests, Sent(r) \/ Elapse(r)
      PROVE  DocumentsInv'
  <2>1. PICK pc \in {"waiting", "unsent", "late"} : Become(r, [requests[r] EXCEPT !.pc = pc])
    BY <1>2 DEF Sent, Elapse
  <2>2. requests[r].pc \in Live /\ answers' = answers
    BY <1>2 DEF Sent, Elapse, histories, Live
  <2>3. requests[r] \in [pc : Live, slot : Reply \union {None}]
    BY <2>2 DEF ClientsInv, TypeOK, Request, Live
  <2> DEFINE q == [requests[r] EXCEPT !.pc = pc]
  <2>4. q.pc = pc /\ q.slot = requests[r].slot
    BY <2>3
  <2>5. q.slot = None \/ q.slot \in answers'
    BY <2>2, <2>4 DEF DocumentsInv, Alive, Live
  <2> HIDE DEF q
  <2> QED  BY <2>1, <2>2, <2>4, <2>5, DocumentsFrame DEF q
<1>3. ASSUME NEW r \in Requests, Receive(r)
      PROVE  DocumentsInv'
  <2>1. /\ Become(r, [pc |-> "received", document |-> requests[r].slot])
        /\ answers' = answers /\ requests[r].slot \in answers
    BY <1>3 DEF Receive, histories, DocumentsInv, Alive
  <2> QED  BY <2>1, DocumentsFrame DEF Live
<1>4. ASSUME NEW r \in Requests,
             Expire(r) \/ abandon(r) \/ Cancel(r) \/ PostFails(r) \/ send_query(r) \/ Post(r)
      PROVE  DocumentsInv'
  <2>1. \E q : Become(r, q) /\ q.pc \notin Live \union {"received"}
    BY <1>4 DEF Expire, abandon, Cancel, PostFails, send_query, Post, Finish, Live
  <2>2. answers' = answers
    BY <1>4 DEF Expire, abandon, Cancel, PostFails, send_query, Post, histories
  <2> QED  BY <2>1, <2>2, DocumentsFrame
<1>5. ASSUME NEW r \in Requests, NEW reply \in Reply, AnswerByHttps(r, reply)
      PROVE  DocumentsInv'
  <2>1. answers' = answers \union {reply}
    BY <1>5 DEF AnswerByHttps, Answer
  <2>2. \E q : /\ Become(r, q) /\ q.pc \notin Live
               /\ q.pc = "received" => q.document = reply
    BY <1>5 DEF AnswerByHttps, Finish, Live
  <2> QED  BY <2>1, <2>2, DocumentsFrame
<1>6. CASE Hand
  <2> DEFINE t == demux.reply.thread
             q == [requests[t] EXCEPT !.slot = demux.reply]
  <2>1. t \in Requests /\ demux.reply \in answers /\ answers' = answers
    BY <1>6 DEF Hand, ClientsInv, ExchangesInv, WaiterInv, TypeOK
  <2>2. CASE Alive(t)
    <3>1. requests[t] \in [pc : Live, slot : Reply \union {None}]
      BY <2>1, <2>2 DEF ClientsInv, TypeOK, Request, Alive, Live
    <3>2. q.slot = demux.reply /\ q.pc \in Live
      BY <3>1
    <3>3. Become(t, q)
      BY <1>6, <2>2 DEF Hand
    <3> HIDE DEF q, t
    <3> QED  BY <2>1, <3>2, <3>3, DocumentsFrame DEF Live
  <2>3. CASE ~Alive(t)
    BY <1>6, <2>1, <2>3 DEF Hand, DocumentsInv, Alive
  <2> QED  BY <2>2, <2>3
<1>7. CASE \/ Connect
           \/ \E r \in Requests : send_envelope(r)
           \/ \E reply \in Reply : Take(reply)
           \/ Discard \/ route \/ Ack \/ Panic
           \/ \E r \in Requests, reply \in Reply : AnswerByMediator(r, reply)
           \/ UNCHANGED vars
  <2>1. answers \subseteq answers' /\ requests' = requests
    BY <1>7 DEF Connect, send_envelope, Take, Discard, route, Ack, Panic, AnswerByMediator, Answer,
                UnchangedButDemux, histories, vars
  <2> QED  BY <2>1 DEF DocumentsInv, Alive
<1> QED  BY <1>1, <1>2, <1>3, <1>4, <1>5, <1>6, <1>7 DEF Next, Step

results == [r \in Requests |-> Result(r)]

Ended == {"done", "cancelled"}

LEMMA OpenResult ==
    ASSUME NEW r \in Requests, requests[r].pc \notin Ended
    PROVE  results[r] = Exchanges!Open
BY DEF results, Result, Ended, Exchanges!Open

\* An exchange that goes on keeps its result open, and no other one changes.
LEMMA GoesOn ==
    ASSUME ClientsInv, NEW r \in Requests, NEW q, Become(r, q),
           requests[r].pc \notin Ended, q.pc \notin Ended
    PROVE  results' = results
<1>1. requests \in [Requests -> Request]
  BY DEF ClientsInv, TypeOK
<1>2. requests'[r] = q /\ \A s \in Requests \ {r} : requests'[s] = requests[s]
  BY <1>1 DEF Become
<1>3. \A s \in Requests : Result(s)' = Result(s)
  <2>1. Result(r)' = [outcome |-> "open", document |-> None]
        /\ Result(r) = [outcome |-> "open", document |-> None]
    BY <1>2 DEF Result, Ended
  <2>2. \A s \in Requests \ {r} : Result(s)' = Result(s)
    BY <1>2 DEF Result
  <2> QED  BY <2>1, <2>2
<1> QED  BY <1>3 DEF results

\* One that ends does so with the result its last state shows.
LEMMA EndsWith ==
    ASSUME ClientsInv, NEW r \in Requests, NEW q, Become(r, q), requests[r].pc \notin Ended,
           NEW result \in [outcome : Exchanges!Outcomes, document : answers' \union {None}],
           Exchanges!Founded(r, result), Result(r)' = result
    PROVE  Exchanges!Ends
<1>1. requests \in [Requests -> Request]
  BY DEF ClientsInv, TypeOK
<1>2. \A s \in Requests \ {r} : requests'[s] = requests[s]
  BY <1>1 DEF Become
<1>3. \A s \in Requests \ {r} : Result(s)' = Result(s)
  BY <1>2 DEF Result
<1>4. results' = [results EXCEPT ![r] = result]
  BY <1>3 DEF results
<1>5. results[r] = Exchanges!Open
  BY OpenResult
<1>6. Exchanges!End(r)
  BY <1>4, <1>5 DEF Exchanges!End, results
<1> QED  BY <1>6 DEF Exchanges!Ends

\* The failures a caller may be told of need no foundation.
LEMMA FailsWith ==
    ASSUME ClientsInv, NEW r \in Requests, NEW q, Become(r, q), requests[r].pc \notin Ended,
           NEW outcome \in {"transport", "timeout", "cancelled"},
           \/ q = [pc |-> "done", outcome |-> outcome]
           \/ outcome = "cancelled" /\ q = [pc |-> "cancelled"]
    PROVE  Exchanges!Ends
<1> DEFINE result == [outcome |-> outcome, document |-> None]
<1>1. requests'[r] = q
  BY DEF Become, ClientsInv, TypeOK
<1>2. Result(r)' = result
  BY <1>1 DEF Result
<1>3. result \in [outcome : Exchanges!Outcomes, document : answers' \union {None}]
  BY DEF Exchanges!Outcomes
<1>4. Exchanges!Founded(r, result)
  BY DEF Exchanges!Founded
<1> HIDE DEF result
<1> QED  BY <1>2, <1>3, <1>4, EndsWith

\* A reply is told to the caller as what it is.
LEMMA SendQueryEnds ==
    ASSUME ClientsInv, DocumentsInv, NEW r \in Requests, send_query(r)
    PROVE  Exchanges!Ends
<1> DEFINE document == requests[r].document
           q == [pc |-> "done", outcome |-> outcome_of(r, document), document |-> document]
           result == [outcome |-> outcome_of(r, document),
                      document |-> IF outcome_of(r, document) = "contract" THEN None ELSE document]
<1>1. requests[r].pc = "received" /\ Become(r, q) /\ answers' = answers
  BY DEF send_query, histories
<1>2. document \in answers' /\ requests[r].pc \notin Ended
  BY <1>1 DEF DocumentsInv, Ended
<1>3. /\ outcome_of(r, document) \in {"response", "rejected", "contract"}
      /\ outcome_of(r, document) = "response" =>
            document.thread = r /\ document.body = "response"
      /\ outcome_of(r, document) = "rejected" =>
            document.thread = r /\ document.body = "error"
      /\ outcome_of(r, document) = "contract" =>
            document.thread # r \/ document.body \notin {"response", "error"}
  BY DEF outcome_of
<1>4. requests'[r] = q
  BY <1>1 DEF Become, ClientsInv, TypeOK
<1> HIDE DEF document
<1>5. Result(r)' = result
  BY <1>3, <1>4 DEF Result
<1>6. result \in [outcome : Exchanges!Outcomes, document : answers' \union {None}]
  BY <1>2, <1>3 DEF Exchanges!Outcomes
<1>7. Exchanges!Founded(r, result)
  BY <1>2, <1>3 DEF Exchanges!Founded
<1> HIDE DEF result, q
<1> QED  BY <1>1, <1>2, <1>5, <1>6, <1>7, EndsWith

\* A reply over HTTPS is received, or ends the exchange as unreadable.
LEMMA AnswerByHttpsRefines ==
    ASSUME ClientsInv, NEW r \in Requests, NEW reply \in Reply, AnswerByHttps(r, reply)
    PROVE  Exchanges!Next
<1>1. requests[r].pc = "posting" /\ asked' = asked
  BY DEF AnswerByHttps
<1>2. Exchanges!Come(reply) /\ answers' = answers \union {reply}
  BY DEF AnswerByHttps, Answer, Exchanges!Come
<1>3. CASE reply.body # "unreadable"
  <2>1. Become(r, [pc |-> "received", document |-> reply])
    BY <1>3 DEF AnswerByHttps
  <2>2. results' = results
    BY <1>1, <2>1, GoesOn DEF Ended
  <2> QED  BY <1>1, <1>2, <2>2 DEF Exchanges!Next, Exchanges!Ends, results
<1>4. CASE reply.body = "unreadable"
  <2>1. PICK outcome \in {"contract", "transport"} : Become(r, [pc |-> "done", outcome |-> outcome])
    BY <1>4 DEF AnswerByHttps, Finish
  <2> DEFINE result == [outcome |-> outcome, document |-> None]
  <2>2. requests'[r] = [pc |-> "done", outcome |-> outcome]
    BY <2>1 DEF Become, ClientsInv, TypeOK
  <2>3. Result(r)' = result
    BY <2>2 DEF Result
  <2>4. result \in [outcome : Exchanges!Outcomes, document : answers' \union {None}]
    BY DEF Exchanges!Outcomes
  <2>5. Exchanges!Founded(r, result)
    BY <1>2, <1>4 DEF Exchanges!Founded
  <2> HIDE DEF result
  <2>6. Exchanges!Ends
    BY <1>1, <2>1, <2>3, <2>4, <2>5, EndsWith DEF Ended
  <2> QED  BY <1>1, <1>2, <2>6 DEF Exchanges!Next
<1> QED  BY <1>3, <1>4

\* Every step maps to a step of the abstract specification, or to none.
LEMMA ExchangesRefine ==
    ASSUME ClientsInv, LiveInv, DocumentsInv, [Next]_vars
    PROVE  [Exchanges!Next]_<<asked, answers, results>>
<1>1. ASSUME NEW r \in Requests,
             register(r) \/ Sent(r) \/ Receive(r) \/ Elapse(r) \/ Expire(r)
      PROVE  UNCHANGED <<asked, answers, results>>
  <2>1. \E q : Become(r, q) /\ q.pc \in Live \union {"received", "expired"}
    <3>1. requests[r] \in Request
      BY DEF ClientsInv, TypeOK
    <3>2. CASE register(r) \/ Receive(r) \/ Expire(r)
      BY <3>2 DEF register, Receive, Expire, Live
    <3>3. CASE Sent(r) \/ Elapse(r)
      <4>1. PICK pc \in {"waiting", "unsent", "late"} : Become(r, [requests[r] EXCEPT !.pc = pc])
        BY <3>3 DEF Sent, Elapse
      <4>2. requests[r].pc \in Live
        BY <3>3 DEF Sent, Elapse, Live
      <4>3. requests[r] \in [pc : Live, slot : Reply \union {None}]
        BY <3>1, <4>2 DEF Request, Live
      <4>4. [requests[r] EXCEPT !.pc = pc].pc = pc
        BY <4>3
      <4> QED  BY <4>1, <4>4 DEF Live
    <3> QED  BY <1>1, <3>2, <3>3
  <2>2. requests[r].pc \notin Ended /\ UNCHANGED <<asked, answers>>
    BY <1>1 DEF register, Sent, Receive, Elapse, Expire, histories, Ended
  <2> QED  BY <2>1, <2>2, GoesOn DEF Live, Ended
<1>2. ASSUME NEW r \in Requests, send_envelope(r)
      PROVE  Exchanges!Next
  <2>1. results' = results /\ answers' = answers
    BY <1>2 DEF send_envelope, results, Result
  <2>2. Exchanges!Ask(r)
    BY <1>2, OpenResult DEF send_envelope, Exchanges!Ask, Ended, results
  <2> QED  BY <2>1, <2>2 DEF Exchanges!Next, results
<1>3. ASSUME NEW r \in Requests, Post(r)
      PROVE  Exchanges!Next
  <2>1. results' = results /\ answers' = answers
    BY <1>3, GoesOn DEF Post, Ended
  <2>2. Exchanges!Ask(r)
    BY <1>3, OpenResult DEF Post, Exchanges!Ask, Ended, results
  <2> QED  BY <2>1, <2>2 DEF Exchanges!Next, results
<1>4. ASSUME NEW r \in Requests, abandon(r) \/ Cancel(r) \/ PostFails(r)
      PROVE  Exchanges!Next
  <2>1. UNCHANGED <<asked, answers>> /\ requests[r].pc \notin Ended
    BY <1>4 DEF abandon, Cancel, PostFails, histories, Ended
  <2>2. \E outcome \in {"transport", "timeout", "cancelled"} : \E q :
          /\ Become(r, q)
          /\ \/ q = [pc |-> "done", outcome |-> outcome]
             \/ outcome = "cancelled" /\ q = [pc |-> "cancelled"]
    BY <1>4 DEF abandon, Cancel, PostFails, Finish
  <2>3. Exchanges!Ends
    BY <2>1, <2>2, FailsWith
  <2> QED  BY <2>1, <2>3 DEF Exchanges!Next
<1>5. ASSUME NEW r \in Requests, send_query(r)
      PROVE  Exchanges!Next
  <2>1. UNCHANGED <<asked, answers>>
    BY <1>5 DEF send_query, histories
  <2> QED  BY <1>5, <2>1, SendQueryEnds DEF Exchanges!Next
<1>6. ASSUME NEW r \in Requests, NEW reply \in Reply, AnswerByMediator(r, reply)
      PROVE  Exchanges!Next
  <2>1. results' = results /\ asked' = asked
    BY <1>6 DEF AnswerByMediator, results, Result
  <2>2. Exchanges!Come(reply)
    BY <1>6 DEF AnswerByMediator, Answer, Exchanges!Come
  <2> QED  BY <2>1, <2>2 DEF Exchanges!Next, Exchanges!Ends, results
<1>7. CASE Hand
  <2> DEFINE t == demux.reply.thread
             q == [requests[t] EXCEPT !.slot = demux.reply]
  <2>1. UNCHANGED <<asked, answers>> /\ t \in Requests
    BY <1>7 DEF Hand, ClientsInv, ExchangesInv, WaiterInv
  <2>2. CASE Alive(t)
    <3>1. requests[t] \in [pc : Live, slot : Reply \union {None}]
      BY <2>1, <2>2 DEF ClientsInv, TypeOK, Request, Alive, Live
    <3>2. q.pc \notin Ended /\ requests[t].pc \notin Ended
      BY <3>1 DEF Live, Ended
    <3>3. Become(t, q)
      BY <1>7, <2>2 DEF Hand
    <3> HIDE DEF q, t
    <3> QED  BY <2>1, <3>2, <3>3, GoesOn
  <2>3. CASE ~Alive(t)
    BY <1>7, <2>1, <2>3 DEF Hand, results, Result
  <2> QED  BY <2>2, <2>3
<1>8. CASE \/ Connect
           \/ \E reply \in Reply : Take(reply)
           \/ Discard \/ route \/ Ack \/ Panic
           \/ UNCHANGED vars
  <2>1. UNCHANGED <<asked, answers, requests>>
    BY <1>8 DEF Connect, Take, Discard, route, Ack, Panic, UnchangedButDemux, histories, vars
  <2> QED  BY <2>1 DEF results, Result
<1> QED
  <2>1. CASE \E r \in Requests, reply \in Reply : AnswerByHttps(r, reply)
    BY <2>1, AnswerByHttpsRefines
  <2> QED  BY <1>1, <1>2, <1>3, <1>4, <1>5, <1>6, <1>7, <1>8, <2>1 DEF Next, Step

\* The client implements RequestReply, for any requests, transports and failures.
THEOREM ImplementsRequestReplyHolds == Spec => ImplementsRequestReply
<1>1. Init => DocumentsInv /\ Exchanges!Init
  BY DEF Init, DocumentsInv, Alive, Exchanges!Init, Exchanges!Open, Result
<1>2. Spec => []DocumentsInv
  BY <1>1, ClientInvariant, DocumentsStep, PTL DEF Spec
<1>3. (ClientsInv /\ LiveInv) /\ DocumentsInv /\ [Next]_vars
        => [Exchanges!Next]_<<asked, answers, [r \in Requests |-> Result(r)]>>
  BY ExchangesRefine DEF results
<1> QED  BY <1>1, <1>2, <1>3, ClientInvariant, PTL DEF Spec, ImplementsRequestReply, Exchanges!Spec

-----------------------------------------------------------------------------
(* A registry that answers as it should                                    *)

Good(reply) == reply.thread \in Requests /\ reply.body \in {"response", "error"}

\* All its replies are good, and each is with the request it answers.
GoodInv ==
    /\ \A reply \in answers : Good(reply)
    /\ \A r \in Requests :
         /\ Alive(r) /\ requests[r].slot # None => requests[r].slot.thread = r
         /\ requests[r].pc = "received" => requests[r].document.thread = r
         /\ requests[r].pc = "done" => requests[r].outcome # "contract"

\* A step of one exchange that adds good replies only.
LEMMA GoodFrame ==
    ASSUME ClientsInv, GoodInv, \A reply \in answers' : Good(reply), NEW r \in Requests, NEW q,
           Become(r, q),
           q.pc \in Live => q.slot = None \/ q.slot.thread = r,
           q.pc = "received" => q.document.thread = r,
           q.pc = "done" => q.outcome # "contract"
    PROVE  GoodInv'
<1>1. requests \in [Requests -> Request]
  BY DEF ClientsInv, TypeOK
<1>2. requests'[r] = q /\ \A s \in Requests \ {r} : requests'[s] = requests[s]
  BY <1>1 DEF Become
<1>3. \A reply : Good(reply)' <=> Good(reply)
  BY DEF Good
<1> QED  BY <1>2, <1>3 DEF GoodInv, Alive, Live

LEMMA GoodStep ==
    ASSUME Mishaps \intersect {"stray", "unreadable"} = {},
           ClientsInv, DocumentsInv, GoodInv, [Next]_vars
    PROVE  GoodInv'
<1>0. \A reply \in answers : Good(reply)
  BY DEF GoodInv
<1>a. ASSUME NEW r, NEW reply, Answer(r, reply)
      PROVE  reply.thread = r /\ r \in asked /\ answers' = answers \union {reply}
             /\ reply.body \in {"response", "error"}
  BY <1>a DEF Answer, Mishap
<1>b. asked \subseteq Requests
  BY DEF ClientsInv, TypeOK
<1>1. ASSUME NEW r \in Requests, register(r)
      PROVE  GoodInv'
  <2>1. Become(r, [pc |-> "sending", slot |-> None]) /\ answers' = answers
    BY <1>1 DEF register, histories
  <2> QED  BY <1>0, <2>1, GoodFrame
<1>2. ASSUME NEW r \in Requests, Sent(r) \/ Elapse(r)
      PROVE  GoodInv'
  <2>1. PICK pc \in {"waiting", "unsent", "late"} : Become(r, [requests[r] EXCEPT !.pc = pc])
    BY <1>2 DEF Sent, Elapse
  <2>2. requests[r].pc \in Live /\ answers' = answers
    BY <1>2 DEF Sent, Elapse, histories, Live
  <2>3. requests[r] \in [pc : Live, slot : Reply \union {None}]
    BY <2>2 DEF ClientsInv, TypeOK, Request, Live
  <2> DEFINE q == [requests[r] EXCEPT !.pc = pc]
  <2>4. q.pc = pc /\ q.slot = requests[r].slot
    BY <2>3
  <2>5. q.slot = None \/ q.slot.thread = r
    BY <2>2, <2>4 DEF GoodInv, Alive, Live
  <2> HIDE DEF q
  <2> QED  BY <1>0, <2>1, <2>2, <2>4, <2>5, GoodFrame DEF q
<1>3. ASSUME NEW r \in Requests, Receive(r)
      PROVE  GoodInv'
  <2>1. /\ Become(r, [pc |-> "received", document |-> requests[r].slot])
        /\ answers' = answers /\ requests[r].slot.thread = r
    BY <1>3 DEF Receive, histories, GoodInv, Alive
  <2> QED  BY <1>0, <2>1, GoodFrame DEF Live
<1>4. ASSUME NEW r \in Requests,
             Expire(r) \/ abandon(r) \/ Cancel(r) \/ PostFails(r) \/ Post(r)
      PROVE  GoodInv'
  <2>1. \E q : /\ Become(r, q) /\ q.pc \notin Live \union {"received"}
               /\ q.pc = "done" => q.outcome # "contract"
    BY <1>4 DEF Expire, abandon, Cancel, PostFails, Post, Finish, Live
  <2>2. answers' = answers
    BY <1>4 DEF Expire, abandon, Cancel, PostFails, Post, histories
  <2> QED  BY <1>0, <2>1, <2>2, GoodFrame
<1>5. ASSUME NEW r \in Requests, send_query(r)
      PROVE  GoodInv'
  <2> DEFINE document == requests[r].document
             q == [pc |-> "done", outcome |-> outcome_of(r, document), document |-> document]
  <2>1. Become(r, q) /\ answers' = answers /\ document \in answers /\ document.thread = r
    BY <1>5 DEF send_query, histories, DocumentsInv, GoodInv
  <2>2. document.body \in {"response", "error"}
    BY <1>0, <2>1 DEF Good
  <2>3. outcome_of(r, document) # "contract"
    BY <2>1, <2>2 DEF outcome_of
  <2> HIDE DEF document
  <2> QED  BY <1>0, <2>1, <2>3, GoodFrame DEF Live
<1>6. ASSUME NEW r \in Requests, NEW reply \in Reply, AnswerByHttps(r, reply)
      PROVE  GoodInv'
  <2>1. reply.thread = r /\ answers' = answers \union {reply} /\ reply.body \in {"response", "error"}
    BY <1>6, <1>a DEF AnswerByHttps
  <2>2. Become(r, [pc |-> "received", document |-> reply])
    BY <1>6, <2>1 DEF AnswerByHttps
  <2>3. \A other \in answers' : Good(other)
    BY <1>0, <2>1 DEF Good
  <2> QED  BY <2>1, <2>2, <2>3, GoodFrame DEF Live
<1>7. ASSUME NEW r \in Requests, NEW reply \in Reply, AnswerByMediator(r, reply)
      PROVE  GoodInv'
  <2>1. /\ answers' = answers \union {reply} /\ requests' = requests
        /\ reply.thread \in Requests /\ reply.body \in {"response", "error"}
    BY <1>7, <1>a, <1>b DEF AnswerByMediator
  <2>2. \A other \in answers' : Good(other)
    BY <1>0, <2>1 DEF Good
  <2> QED  BY <2>1, <2>2 DEF GoodInv, Alive, Good
<1>8. CASE Hand
  <2> DEFINE t == demux.reply.thread
             q == [requests[t] EXCEPT !.slot = demux.reply]
  <2>1. t \in Requests /\ answers' = answers
    BY <1>8 DEF Hand, ClientsInv, ExchangesInv, WaiterInv
  <2>2. CASE Alive(t)
    <3>1. requests[t] \in [pc : Live, slot : Reply \union {None}]
      BY <2>1, <2>2 DEF ClientsInv, TypeOK, Request, Alive, Live
    <3>2. q.slot = demux.reply /\ q.pc \in Live
      BY <3>1
    <3>3. Become(t, q) /\ demux.reply.thread = t
      BY <1>8, <2>2 DEF Hand
    <3> HIDE DEF q, t
    <3> QED  BY <1>0, <2>1, <3>2, <3>3, GoodFrame DEF Live
  <2>3. CASE ~Alive(t)
    BY <1>8, <2>1, <2>3 DEF Hand, GoodInv, Alive, Good
  <2> QED  BY <2>2, <2>3
<1>9. CASE \/ Connect
           \/ \E r \in Requests : send_envelope(r)
           \/ \E reply \in Reply : Take(reply)
           \/ Discard \/ route \/ Ack \/ Panic
           \/ UNCHANGED vars
  <2>1. answers' = answers /\ requests' = requests
    BY <1>9 DEF Connect, send_envelope, Take, Discard, route, Ack, Panic, UnchangedButDemux,
                histories, vars
  <2> QED  BY <2>1 DEF GoodInv, Alive, Good
<1> QED  BY <1>1, <1>2, <1>3, <1>4, <1>5, <1>6, <1>7, <1>8, <1>9 DEF Next, Step

\* A registry that answers as it should is never reported for violating the
\* contract, however many requests and replies cross.
THEOREM GoodRegistryNeverBlamedHolds == Spec => []GoodRegistryNeverBlamed
<1> DEFINE Strays == Mishaps \intersect {"stray", "unreadable"} # {}
<1>1. CASE Strays
  <2>1. GoodRegistryNeverBlamed
    BY <1>1 DEF GoodRegistryNeverBlamed
  <2> QED  BY <2>1, PTL
<1>2. CASE ~Strays
  <2>1. Init => GoodInv /\ DocumentsInv
    BY DEF Init, GoodInv, DocumentsInv, Alive
  <2>2. Spec => []DocumentsInv
    BY <2>1, ClientInvariant, DocumentsStep, PTL DEF Spec
  <2>3. ClientsInv /\ DocumentsInv /\ GoodInv /\ [Next]_vars => GoodInv'
    BY <1>2, GoodStep
  <2>4. GoodInv => GoodRegistryNeverBlamed
    BY DEF GoodInv, GoodRegistryNeverBlamed
  <2> QED  BY <2>1, <2>2, <2>3, <2>4, ClientInvariant, PTL DEF Spec
<1> QED  BY <1>1, <1>2


=============================================================================
