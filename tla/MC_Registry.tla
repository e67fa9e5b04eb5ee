----------------------------- MODULE MC_Registry -----------------------------
(* Model-checking instance of Registry: one service, one non-zero port,   *)
(* two targets: t1 is sent explicitly, t2 is the address every client     *)
(* connects from, so an omitted target stores t2.                         *)
EXTENDS Registry

CONSTANTS c1, c2, c3, s1, s2, t1, t2

MC_Clients3 == {c1, c2, c3}
MC_Clients2 == {c1, c2}
MC_Clients1 == {c1}
MC_Targets == {t1, t2}
MC_Ports == {8080}
MC_ClientAddr == [c \in Clients |-> t2]
\* An explicit target, an omitted one (remote address), and the two
\* blank forms the put handler rejects.
MC_Bodies ==
    { [target |-> t1, port |-> 8080], [target |-> "", port |-> 8080],
      [target |-> "", port |-> 0],    [target |-> ".", port |-> 8080] }

=============================================================================
