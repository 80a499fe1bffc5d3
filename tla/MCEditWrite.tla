---------------------------- MODULE MCEditWrite ----------------------------
(* Instances of EditWrite for TLC. *)
EXTENDS EditWrite, TLC

NoBuiltinNames == [b \in {} |-> "none"]

Int5 == [type |-> "score", col |-> "integer", text |-> "5"]
Score(text) == [type |-> "score", col |-> "string", text |-> text]
State(text) == [type |-> "state", col |-> "string", text |-> text]
Becomes(col) == [type |-> "bitical_type", col |-> "string", text |-> col]
Every(type) == [type |-> type, col |-> "any", text |-> "any"]

\* No edit query, one node of each kind, and pairs: two values of a type that
\* replaces, one of each kind of type, a definition configured and tagged.
SomeTagQueries ==
    {<<>>} \cup {<<n>> : n \in {Int5, Score("x"), State("x"),
                               Becomes("string"), Becomes("integer")}}
           \cup {<<State("5"), State("x")>>, <<Int5, State("x")>>,
                 <<Int5, Score("x")>>, <<Becomes("integer"), Int5>>}
SomeUntagQueries ==
    {<<Int5>>, <<Score("x")>>, <<Every("state")>>, <<Score("5"), Every("name")>>}
=============================================================================
