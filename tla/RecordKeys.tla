----------------------------- MODULE RecordKeys -----------------------------
(***************************************************************************)
(* What a record is kept under.  The local and the file backend keep it    *)
(* under its four names (TrustRecordKey); Redis, DynamoDB and fjall under  *)
(* one string that joins them (sk).  Here both get the same calls, one     *)
(* after the other, and must give the same answers.                        *)
(*                                                                         *)
(* A name is a sequence of characters, "#" one of them: no check of the    *)
(* code keeps it out of a name.                                            *)
(***************************************************************************)
EXTENDS Records, Integers, Sequences

CONSTANT Characters

Name == Seq(Characters)

ASSUME RecordKeysAssumption ==
    /\ Keys \subseteq [authority_id : Name, action : Name, resource : Name, entity_id : Name]
    /\ {"T", "R", "#"} \subseteq Characters

VARIABLES
    named,    \* the records under their names
    joined,   \* the records under their joined names
    answers   \* what each of the two answered last

namedVars == <<named, joined, answers>>

-----------------------------------------------------------------------------

TR_SK_PREFIX == <<"T", "R", "#">>

\* (Mistaken: the names are not kept apart.)
sk_unseparated(key) ==
    TR_SK_PREFIX \o (key.authority_id \o (key.action \o (key.resource \o key.entity_id)))

sk(key) ==
    TR_SK_PREFIX \o (key.authority_id \o <<"#">> \o
        (key.action \o <<"#">> \o (key.resource \o <<"#">> \o key.entity_id)))

SortKeys == {sk(k) : k \in Keys}

\* A record says what its names are.
Item == [names : Keys, value : Values]

item(k, v) == IF v = None THEN None ELSE [names |-> k, value |-> v]

\* How a table answers op at a place.
Served(op, place, table) ==
    [verdict |-> Verdict(op, place, table),
     shown   |-> LET places == CASE op = "list" -> DOMAIN table
                                 [] op = "read" -> {place}
                                 [] OTHER -> {}
                 IN  {table[p] : p \in places} \ {None}]

NamedInit ==
    /\ named = [k \in Keys |-> None]
    /\ joined = [s \in SortKeys |-> None]
    /\ answers = [named |-> [verdict |-> "ok", shown |-> {}],
                  joined |-> [verdict |-> "ok", shown |-> {}]]

\* A call on record k, of both: its place is its names in one, the joined names in
\* the other.
OnRecord(op, k, v) ==
    /\ Arguments(op, k, v)
    /\ named' = Written(op, k, item(k, v), named)
    /\ joined' = Written(op, sk(k), item(k, v), joined)
    /\ answers' = [named |-> Served(op, k, named), joined |-> Served(op, sk(k), joined)]

OnAll ==
    /\ answers' = [named |-> Served("list", None, named), joined |-> Served("list", None, joined)]
    /\ UNCHANGED <<named, joined>>

NamedNext ==
    \/ \E op \in Ops, k \in Keys, v \in Values \union {None} : OnRecord(op, k, v)
    \/ OnAll

NamedSpec == NamedInit /\ [][NamedNext]_namedVars

-----------------------------------------------------------------------------
(* Properties                                                              *)

NamedTypeOK ==
    /\ named \in [Keys -> Item \union {None}]
    /\ joined \in [SortKeys -> Item \union {None}]

\* No "#" but in the entity's identifier, which may be a DID URL with a fragment.
PlainNames ==
    \A k \in Keys : \A name \in {k.authority_id, k.action, k.resource} :
        \A i \in 1..Len(name) : name[i] # "#"

\* Whatever was created, updated and deleted before, and under whatever names, a
\* backend that joins the names answers what the others answer: no record hides or
\* replaces another one.  (With names as in PlainNames; otherwise two records may
\* share a sort key.)
BackendsAgree == answers.named = answers.joined

=============================================================================
