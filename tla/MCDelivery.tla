----------------------------- MODULE MCDelivery -----------------------------
EXTENDS Delivery, TLC

CONSTANTS k1, v1, root, guest, mallory, i1

message(via, form, sender, issued, op, fault) ==
    [via |-> via, form |-> form, sender |-> sender, issued |-> issued, id |-> i1, op |-> op,
     key |-> IF op \in {"list", "rotate", "govern"} THEN None ELSE k1,
     value |-> IF op \in {"create", "update"} THEN v1 ELSE None, fault |-> fault]

\* One document over both transports, the same id from another administrator,
\* the other forms, and messages that are turned away.
Mail == {
    message("didcomm", "task", root, TRUE, "update", "none"),
    message("tsp", "task", root, TRUE, "update", "none"),
    message("didcomm", "task", root, FALSE, "delete", "badProof"),
    message("tsp", "task", root, TRUE, "update", "payload"),
    message("tsp", "task", guest, TRUE, "govern", "none"),
    message("tsp", "task", root, TRUE, "rotate", "none"),
    message("didcomm", "task", root, TRUE, "rotate", "none"),
    message("tsp", "task", mallory, FALSE, "read", "poison"),
    message("didcomm", "task", mallory, FALSE, "list", "none"),
    message("didcomm", "admin", root, FALSE, "delete", "none"),
    message("didcomm", "admin", mallory, FALSE, "create", "none"),
    message("didcomm", "admin", guest, FALSE, "update", "malformed"),
    message("didcomm", "query", mallory, FALSE, "read", "none"),
    message("unknown", "other", mallory, FALSE, "read", "none") }

\* A repository in which every key has its record.
Filled == {[k \in Keys |-> v1]}

\* One handler per envelope: both may carry the same document.
Handlers == {<<1, 1>>, <<2, 1>>}

=============================================================================
