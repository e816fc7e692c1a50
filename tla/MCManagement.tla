---------------------------- MODULE MCManagement ----------------------------
(* Bodies of PATCH for TLC: one that is stripped, one that is invalid, one   *)
(* that removes a section, and one for the DHCP server.                     *)
EXTENDS Management, TLC

MCPatches ==
  {[set |-> [password |-> 0, mode |-> "disabled"], nulled |-> {}],
   [set |-> [upstreams |-> FALSE], nulled |-> {}],
   [set |-> [dhcp |-> TRUE], nulled |-> {"webserver"}]}

MCEdited == {[Default EXCEPT !.password = 1, !.upstreams = FALSE],
             [Default EXCEPT !.password = 1, !.dhcp = TRUE]}
Symmetry == Permutations(Request)
=============================================================================
