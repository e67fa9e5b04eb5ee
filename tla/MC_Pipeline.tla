----------------------------- MODULE MC_Pipeline -----------------------------
(* Model-checking instance of Pipeline.  One or two client services, two  *)
(* client record sets, up to two manifest loads (so up to two watch       *)
(* goroutines and two zones), responses of up to two events.              *)
EXTENDS Pipeline

CONSTANTS a, b, v1, v2

MC_ClientSvcs1 == {a}
MC_ClientSvcs2 == {a, b}
MC_Values == {v1, v2}

=============================================================================
