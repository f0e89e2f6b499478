---------------------------- MODULE RecordStore -----------------------------
(***************************************************************************)
(* What the registry relies on a TrustRecordAdminRepository for: a table   *)
(* of records on which every call takes effect in one step, at some moment *)
(* between its invocation and its return.  A call may also fail, and a     *)
(* caller who is told so cannot know whether it took effect.               *)
(*                                                                         *)
(* LocalStorage, which does everything under one lock, is this very thing; *)
(* the other backends are compared with it.                                *)
(***************************************************************************)
EXTENDS Records

VARIABLES
    records,   \* the table
    calls      \* each client's current call

vars == <<records, calls>>

-----------------------------------------------------------------------------

Init ==
    /\ records \in Table
    /\ calls = [c \in Clients |-> NoCall]

Invoke(c, op, k, v) ==
    /\ calls[c].op = "none"
    /\ Arguments(op, k, v)
    /\ calls' = [calls EXCEPT ![c] = NewCall(op, k, v)]
    /\ UNCHANGED records

Perform(c) ==
    LET call == calls[c] IN
    /\ call.answer = "pending"
    /\ records' = Written(call.op, call.key, call.value, records)
    /\ calls' = [calls EXCEPT ![c].answer = Verdict(call.op, call.key, records),
                              ![c].seen = Shown(call.op, call.key, records)]

\* The backend fails, before or after the call took effect.
Fail(c) ==
    /\ calls[c].op # "none"
    /\ calls[c].answer \in {"pending", "ok"}
    /\ calls' = [calls EXCEPT ![c].answer = "failed", ![c].seen = EmptyTable]
    /\ UNCHANGED records

Return(c) ==
    /\ calls[c].op # "none"
    /\ calls[c].answer # "pending"
    /\ calls' = [calls EXCEPT ![c] = NoCall]
    /\ UNCHANGED records

Next ==
    \E c \in Clients :
        \/ \E op \in Ops, k \in Keys \union {None}, v \in Values \union {None} :
              Invoke(c, op, k, v)
        \/ Perform(c) \/ Fail(c) \/ Return(c)

Spec == Init /\ [][Next]_vars

=============================================================================
