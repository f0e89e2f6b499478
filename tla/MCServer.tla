------------------------------ MODULE MCServer ------------------------------
(* Server on a small instance. *)
EXTENDS Server

Default == [flags |-> [t \in Transports |-> "unset"], complete |-> TRUE, vta |-> FALSE,
            backend |-> FALSE, storable |-> TRUE, inline |-> TRUE, url |-> "https", override |-> [set |-> FALSE],
            web |-> FALSE, embedded |-> FALSE]

Flags(rest, didcomm, tsp) ==
    [Default EXCEPT !.flags = [t \in Transports |->
        CASE t = "rest" -> rest [] t = "didcomm" -> didcomm [] OTHER -> tsp]]

\* One deployment of each kind the code tells apart.
Deployments ==
    {Default,
     [Default EXCEPT !.web = TRUE, !.url = "none"],
     [Default EXCEPT !.embedded = TRUE, !.url = "loopback"],
     [Default EXCEPT !.complete = FALSE],
     [Default EXCEPT !.url = "cleartext"],
     [Default EXCEPT !.override = [set |-> TRUE, kinds |-> Transports]],
     [Default EXCEPT !.backend = TRUE],
     [Default EXCEPT !.backend = TRUE, !.inline = FALSE],
     [Default EXCEPT !.vta = TRUE],
     [Default EXCEPT !.vta = TRUE, !.backend = TRUE],
     [Default EXCEPT !.vta = TRUE, !.storable = FALSE],
     [Default EXCEPT !.vta = TRUE, !.url = "cleartext"],
     Flags("unset", "true", "true"), Flags("true", "false", "unset"),
     Flags("false", "false", "unset"), Flags("unset", "false", "true"),
     Flags("unset", "unset", "yes")}
=============================================================================
