-------------------------- MODULE RegistryAbstract --------------------------
(***************************************************************************)
(* What the registration API promises (spec section 4.3): each POST/PUT   *)
(* or DELETE on /service/{name} takes effect atomically on the stored     *)
(* record set, or not at all.  A request that fails may or may not have   *)
(* taken effect; either way the record set is one of these two.           *)
(***************************************************************************)
EXTENDS Sequences, SequencesExt

CONSTANTS Services, Record, Absent

VARIABLE kv

\* Append-if-absent: registering an endpoint twice is a no-op.
Added(set, rec) ==
    IF set = Absent THEN <<rec>>
    ELSE IF rec \in ToSet(set) THEN set ELSE Append(set, rec)

\* Remove-by-match; a set left empty is no set at all.
Removed(set, rec) ==
    IF set = Absent THEN Absent
    ELSE LET rest == RemoveFirst(set, rec)
         IN IF rest = <<>> THEN Absent ELSE rest

Init == kv = [s \in Services |-> Absent]

Register(s, rec) == kv' = [kv EXCEPT ![s] = Added(kv[s], rec)]

Unregister(s, rec) == kv' = [kv EXCEPT ![s] = Removed(kv[s], rec)]

Next == \E s \in Services, rec \in Record : Register(s, rec) \/ Unregister(s, rec)

Spec == Init /\ [][Next]_kv

=============================================================================
