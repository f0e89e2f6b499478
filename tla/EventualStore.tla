---------------------------- MODULE EventualStore ---------------------------
(***************************************************************************)
(* What a service with eventually consistent reads promises: writes are    *)
(* decided and take effect in one step, on the table; a read or a list     *)
(* shows of each record something it holds or has held, of each on its own *)
(* and however long ago.  (Nothing in DynamoDbStorage asks for more: it    *)
(* never sets consistent_read.)                                            *)
(***************************************************************************)
EXTENDS Records

VARIABLES
    records,   \* the table
    replicas,  \* what each record holds or has held
    calls      \* each client's current call

vars == <<records, replicas, calls>>

-----------------------------------------------------------------------------

Init ==
    /\ records \in Table
    /\ replicas \in [Keys -> SUBSET (Values \union {None})]
    /\ \A k \in Keys : records[k] \in replicas[k]
    /\ calls = [c \in Clients |-> NoCall]

Invoke(c, op, k, v) ==
    /\ calls[c].op = "none"
    /\ Arguments(op, k, v)
    /\ calls' = [calls EXCEPT ![c] = NewCall(op, k, v)]
    /\ UNCHANGED <<records, replicas>>

Answer(c, answer, seen) ==
    calls' = [calls EXCEPT ![c].answer = answer, ![c].seen = seen]

Write(c) ==
    LET call == calls[c] IN
    /\ call.answer = "pending" /\ call.op \in Writes
    /\ records' = Written(call.op, call.key, call.value, records)
    /\ replicas' = [k \in Keys |-> replicas[k] \union {records'[k]}]
    /\ Answer(c, Verdict(call.op, call.key, records), EmptyTable)

Look(c, t) ==
    LET call == calls[c] IN
    /\ call.answer = "pending" /\ call.op \notin Writes
    /\ \A k \in Keys : t[k] \in replicas[k]
    /\ Answer(c, Verdict(call.op, call.key, t), Shown(call.op, call.key, t))
    /\ UNCHANGED <<records, replicas>>

\* The backend fails, before or after the call took effect.
Fail(c) ==
    /\ calls[c].op # "none"
    /\ calls[c].answer \in {"pending", "ok"}
    /\ Answer(c, "failed", EmptyTable)
    /\ UNCHANGED <<records, replicas>>

Return(c) ==
    /\ calls[c].op # "none"
    /\ calls[c].answer # "pending"
    /\ calls' = [calls EXCEPT ![c] = NoCall]
    /\ UNCHANGED <<records, replicas>>

Next ==
    \E c \in Clients :
        \/ \E op \in Ops, k \in Keys \union {None}, v \in Values \union {None} :
              Invoke(c, op, k, v)
        \/ Write(c) \/ (\E t \in Table : Look(c, t)) \/ Fail(c) \/ Return(c)

Spec == Init /\ [][Next]_vars

=============================================================================
