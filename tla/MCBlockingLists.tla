-------------------------- MODULE MCBlockingLists --------------------------
(* Texts for TLC: a domain and its parent, in capitals and as a wildcard.   *)
EXTENDS BlockingLists

Parent == <<"net">>
Child  == <<"ads", "net">>

MCName        == {Parent, Child}
MCListedText  == {[wild |-> FALSE, spelled |-> s, name |-> Child] : s \in Spelling}
MCGravityText == {Literal(Child), [wild |-> TRUE, spelled |-> "lower", name |-> Parent]}
MCPublished   == {{Literal(Child)}}
MCDenyRegex   == {Parent}
=============================================================================
