----------------------------- MODULE MCDnsCache -----------------------------
(* DnsCache for TLC: three keys, two of them of one domain, in two shards. *)
EXTENDS DnsCache

MCKey == {<<"d1", "A">>, <<"d1", "AAAA">>, <<"d2", "A">>}

MCShardOf == [k \in MCKey |-> IF k[2] = "A" THEN 1 ELSE 2]
=============================================================================
