---------------------------- MODULE MC_DnsLookup ----------------------------
(* Model-checking instance of DnsLookup: the daemon of MC_Pipeline with   *)
(* one client service and the dns_lookup client.                          *)
EXTENDS DnsLookup

CONSTANTS a, v1, v2

MC_ClientSvcs1 == {a}
MC_Values == {v1, v2}
=============================================================================
