---------------------------- MODULE MCRecordKeys ----------------------------
(* Instances of RecordKeys for TLC.                                        *)
EXTENDS RecordKeys

Key(authority, action, resource, entity) ==
    [authority_id |-> authority, action |-> action, resource |-> resource, entity_id |-> entity]

\* Names that look alike when they are joined: a longer one before a shorter one,
\* an empty one, and an entity with a fragment.
AlikeKeys ==
    {Key(<<"a">>, <<"a", "b">>, <<"r">>, <<"e">>),
     Key(<<"a", "a">>, <<"b">>, <<"r">>, <<"e">>),
     Key(<<"a">>, <<"a", "b">>, <<>>, <<"r", "e">>),
     Key(<<"a">>, <<"a", "b">>, <<"r">>, <<"e", "#", "e">>),
     Key(<<"a">>, <<"a", "b">>, <<"r">>, <<"#", "e">>)}

\* The same with "#" in a resource, too.
FragmentKeys == AlikeKeys \union {Key(<<"a">>, <<"a", "b">>, <<"r", "#", "e">>, <<"e">>)}

Letters == {"T", "R", "#", "a", "b", "r", "e"}
=============================================================================
