---------------------------- MODULE MCTrqlClient ----------------------------
(* TrqlClient on a small instance. *)
EXTENDS TrqlClient

CONSTANTS r1, r2, med, url

Entry(types, uri) == [types |-> types, uri |-> uri]

\* What the registry's own document builder writes, and what others may.
All == <<Entry({"DIDComm"}, med), Entry({"TSP"}, med), Entry({"REST"}, url)>>

Some == {[services |-> All, ours |-> Kinds, mediator |-> TRUE],
         [services |-> All, ours |-> {"didcomm", "https"}, mediator |-> TRUE],
         [services |-> All, ours |-> {"https"}, mediator |-> FALSE],
         [services |-> All, ours |-> Kinds, mediator |-> FALSE],
         [services |-> <<Entry({"TSP"}, None), Entry({"REST"}, url)>>, ours |-> Kinds, mediator |-> TRUE],
         [services |-> <<Entry({"TSP", "DIDComm"}, med), Entry({"VTARest"}, url)>>,
          ours |-> {"didcomm", "https"}, mediator |-> TRUE],
         [services |-> <<Entry({"TSP", "DIDComm"}, med)>>, ours |-> {"didcomm"}, mediator |-> TRUE],
         [services |-> <<Entry({"other"}, url)>>, ours |-> Kinds, mediator |-> TRUE]}

=============================================================================
