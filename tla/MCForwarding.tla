---------------------------- MODULE MCForwarding ----------------------------
(* Forwarding for TLC: two names, one of them asked for in two classes, and *)
(* upstreams that are replaced while queries are under way.                *)
EXTENDS Forwarding

MCMessage ==
  {[id |-> 1, key |-> "a", class |-> "IN"],
   [id |-> 1, key |-> "b", class |-> "IN"],
   [id |-> 2, key |-> "a", class |-> "CH"]}

MCUpstreamLists == {<<"plain", "tls">>, <<"tls">>}
=============================================================================
