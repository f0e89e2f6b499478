------------------------------- MODULE Records ------------------------------
(***************************************************************************)
(* The data of the repository: records under keys, and the calls of the    *)
(* TrustRecordAdminRepository trait with what each of them answers, writes *)
(* and shows when it runs alone.                                           *)
(***************************************************************************)
CONSTANTS
    Keys,      \* record keys (authority, action, resource, entity)
    Values,    \* what a record says about its key
    None,      \* no record, no key, no caller
    Clients    \* callers, one call at a time each

ASSUME NoneAssumption == None \notin Keys \union Values \union Clients

Table == [Keys -> Values \union {None}]
EmptyTable == [k \in Keys |-> None]

Writes == {"create", "update", "delete"}
Ops == Writes \union {"read", "list"}
Answers == {"pending", "ok", "exists", "notFound", "failed"}

\* seen is what a read or a list returned.
Call == [op : Ops \union {"none"}, key : Keys \union {None},
         value : Values \union {None}, answer : Answers, seen : Table]

NoCall == [op |-> "none", key |-> None, value |-> None,
           answer |-> "ok", seen |-> EmptyTable]

NewCall(op, k, v) == [op |-> op, key |-> k, value |-> v,
                      answer |-> "pending", seen |-> EmptyTable]

\* The arguments each operation takes: list has no key, only create and
\* update carry a value.
Arguments(op, k, v) ==
    /\ (k = None) <=> (op = "list")
    /\ (v = None) <=> (op \notin {"create", "update"})

\* The answer of op on key k of table t, when nothing fails.
Verdict(op, k, t) ==
    IF op = "list" THEN "ok"
    ELSE IF op = "create"
         THEN IF t[k] = None THEN "ok" ELSE "exists"
         ELSE IF t[k] = None THEN "notFound" ELSE "ok"

\* What an accepted write leaves in the table (v is None for a delete).
Written(op, k, v, t) ==
    IF op \in Writes /\ Verdict(op, k, t) = "ok" THEN [t EXCEPT ![k] = v] ELSE t

\* What a read or a list shows of the table.
Shown(op, k, t) ==
    IF op = "list" THEN t
    ELSE IF op = "read" THEN [EmptyTable EXCEPT ![k] = t[k]] ELSE EmptyTable

=============================================================================
