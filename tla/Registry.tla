------------------------------ MODULE Registry ------------------------------
(***************************************************************************)
(* The registration gateway (httpServer plugin, handlePutService and       *)
(* handleDeleteService) over the etcd data plugin (Get, Put, Delete).      *)
(*                                                                         *)
(* net/http serves every request on its own goroutine, so several          *)
(* requests may be inside a handler at once.  Each handler reads the       *)
(* service's record set with dataGet and later writes the modified set     *)
(* with dataPut or dataDelete: the read and the write are two separate     *)
(* etcd round trips and nothing serialises handlers between them.          *)
(*                                                                         *)
(* An SRV record is abstracted to its (target, port) pair; Priority and    *)
(* Weight are always 10 in the code.  The JSON encoding of a record set    *)
(* is the sequence itself (json.Marshal/Unmarshal of []dns.SRV round-trip  *)
(* field for field and keep order).                                        *)
(***************************************************************************)
EXTENDS Naturals, Sequences, SequencesExt

CONSTANTS
    Clients,      \* concurrent HTTP requests (one goroutine each)
    Services,     \* service names used in /service/{name}
    Targets,      \* non-blank targets a client may send ("10.0.0.1." ...)
    Ports,        \* non-zero ports a client may send
    ClientAddr,   \* ClientAddr[c]: the target r.RemoteAddr yields for c
    Bodies,       \* the request bodies clients send (a subset of Body)
    Absent        \* marker: no etcd key for the service

ASSUME Absent \notin Seq([target : Targets, port : Ports \cup {0}])
ASSUME 0 \notin Ports /\ ClientAddr \in [Clients -> Targets]

VARIABLES
    kv,      \* kv[s]: the record set stored under servicePrefix + s
    req,     \* req[c]: the handler goroutine serving client c
    acked    \* <<s, rec>> written by a put that answered Success, and not
             \* since removed by a delete of that same record (history)

vars == <<kv, req, acked>>

\* Request bodies {"port": p, "target": t}; "" and "." are the blank targets
\* the handlers test for.
Body == [target : Targets \cup {"", "."}, port : Ports \cup {0}]
ASSUME Bodies \subseteq Body
Record == [target : Targets, port : Ports \cup {0}]
RecordSet == BoundedSeq(Record, Cardinality(Record))

\* Outcomes of one etcd write.  "timeout": the request deadline expired,
\* the handler answers 503, but the server committed the write.
WriteOutcome == {"ok", "fail", "timeout"}

Idle == [pc |-> "idle", op |-> "none", svc |-> CHOOSE s \in Services : TRUE,
         rec |-> [target |-> "", port |-> 0], snap |-> Absent]

TypeOK ==
    /\ kv \in [Services -> RecordSet \cup {Absent}]
    /\ req \in [Clients ->
                 [pc : {"idle", "write"}, op : {"none", "put", "delete"},
                  svc : Services, rec : Body, snap : RecordSet \cup {Absent}]]
    /\ acked \subseteq Services \X Record

Init ==
    /\ kv = [s \in Services |-> Absent]
    /\ req = [c \in Clients |-> Idle]
    /\ acked = {}

-----------------------------------------------------------------------------
(* handlePutService, lines 685-716: dataGet, then the blank-data check,   *)
(* then the target taken from the client's address when omitted.         *)
\* A blank body: no target and no port, or the bare root ".".
BlankBody(b) == (b.target = "" /\ b.port = 0) \/ b.target = "."

\* Mutant: the body is stored as sent, "" target included.
PutRecordAsSent(c, b) == b

\* The record a put stores: an omitted target becomes the remote address.
PutRecord(c, b) ==
    IF b.target = "" THEN [target |-> ClientAddr[c], port |-> b.port] ELSE b

PutRead(c) ==
    /\ req[c].pc = "idle"
    \* A failed dataGet or a blank body answers 503 and changes nothing, so
    \* only the successful read of a non-blank body is a step.
    /\ \E s \in Services, b \in Bodies :
        /\ ~BlankBody(b)
        /\ req' = [req EXCEPT ![c] = [pc |-> "write", op |-> "put",
                      svc |-> s, rec |-> PutRecord(c, b), snap |-> kv[s]]]
    /\ UNCHANGED <<kv, acked>>

(* handlePutService, lines 718-783: a one-record set when the key is      *)
(* missing, else append unless a record with the same port and target    *)
(* is already in the set read by dataGet.                                 *)
\* Mutant: the read set is replaced instead of appended to.
PutValueReplacing(snap, rec) == <<rec>>

\* The record set a put stores, computed from the set it read.
PutValue(snap, rec) ==
    IF snap = Absent THEN <<rec>> ELSE Append(snap, rec)

\* Mutant: the duplicate check of lines 751-757 is missing.
PutWritesAlways(snap, rec) == TRUE

\* The put needs a write: the key is missing or holds no record like rec.
PutWrites(snap, rec) == snap = Absent \/ ~Contains(snap, rec)

PutWrite(c) ==
    LET r == req[c] IN
    /\ r.pc = "write" /\ r.op = "put"
    /\ req' = [req EXCEPT ![c] = Idle]
    /\ IF PutWrites(r.snap, r.rec)
       THEN \E out \in WriteOutcome :
              /\ kv' = IF out = "fail" THEN kv
                       ELSE [kv EXCEPT ![r.svc] = PutValue(r.snap, r.rec)]
              /\ acked' = IF out = "ok" THEN acked \cup {<<r.svc, r.rec>>}
                          ELSE acked
       ELSE UNCHANGED <<kv, acked>>                \* duplicate: no write

-----------------------------------------------------------------------------
(* handleDeleteService, lines 466-495: dataGet; a missing key answers     *)
(* 200 with no objects.  The body is matched as sent: no blank check and  *)
(* no remote-address substitution.                                        *)
DeleteRead(c) ==
    /\ req[c].pc = "idle"
    \* A failed dataGet (503) and found == 0 (200) change nothing.
    /\ \E s \in Services, b \in Bodies :
        /\ kv[s] # Absent
        /\ req' = [req EXCEPT ![c] = [pc |-> "write", op |-> "delete",
                      svc |-> s, rec |-> b, snap |-> kv[s]]]
    /\ UNCHANGED <<kv, acked>>

(* handleDeleteService, lines 497-543: remove the first record with the   *)
(* same port and target from the set read; if none is left delete the     *)
(* key, else put the shorter set.  No match: nothing is written.          *)
\* Mutant: the shorter set is always put, even when it is empty.
DeleteWriteKeepingKey(c) ==
    LET r == req[c] IN
    /\ r.pc = "write" /\ r.op = "delete"
    /\ req' = [req EXCEPT ![c] = Idle]
    /\ IF Contains(r.snap, r.rec)
       THEN \E out \in WriteOutcome :
              /\ kv' = IF out = "fail" THEN kv
                       ELSE [kv EXCEPT ![r.svc] = RemoveFirst(r.snap, r.rec)]
              /\ acked' = IF out = "fail" THEN acked
                          ELSE acked \ {<<r.svc, r.rec>>}
       ELSE UNCHANGED <<kv, acked>>

DeleteWrite(c) ==
    LET r == req[c]
        rest == RemoveFirst(r.snap, r.rec)
    IN
    /\ r.pc = "write" /\ r.op = "delete"
    /\ req' = [req EXCEPT ![c] = Idle]
    /\ IF Contains(r.snap, r.rec)
       THEN \E out \in WriteOutcome :
              /\ kv' = IF out = "fail" THEN kv
                       ELSE [kv EXCEPT ![r.svc] =
                               IF rest = <<>> THEN Absent ELSE rest]
              /\ acked' = IF out = "fail" THEN acked
                          ELSE acked \ {<<r.svc, r.rec>>}
       ELSE UNCHANGED <<kv, acked>>

Next ==
    \E c \in Clients :
        \/ PutRead(c) \/ PutWrite(c)
        \/ DeleteRead(c) \/ DeleteWrite(c)

Spec == Init /\ [][Next]_vars

-----------------------------------------------------------------------------
(* Properties.                                                            *)

\* No stored record set holds two records with the same target and port,
\* whatever the interleaving of concurrent POST/PUT and DELETE handlers
\* (the duplicate check of handlePutService, lines 751-757).
NoDuplicateEndpoints ==
    \A s \in Services :
        kv[s] # Absent =>
            \A i, j \in DOMAIN kv[s] : i < j => kv[s][i] # kv[s][j]

\* A service with no endpoints has no key: the store never holds an empty
\* record set (handleDeleteService deletes the key at lines 521-528),
\* however deletes and puts of concurrent handlers interleave.
NoEmptyRecordSet ==
    \A s \in Services : kv[s] # <<>>

\* A record a put wrote and answered Success for is still stored, unless a
\* DELETE for that very record has been written since.  Two handlers that
\* read the same set and write back their own change lose the other's.
RegistrationNotLost ==
    \A <<s, rec>> \in acked : kv[s] # Absent /\ Contains(kv[s], rec)

\* Spec 4.3: DELETE takes "the same { port, target } body shape" as POST
\* and removes the matching record.  A delete whose body, read the way
\* handlePutService reads it (an omitted target is the caller's address),
\* names a record of the set it read also matches that record in the
\* comparison of handleDeleteService (line 509), which uses the body as sent.
DeleteFindsRegisteredRecord ==
    \A c \in Clients :
        LET r == req[c] IN
        (r.op = "delete" /\ r.pc = "write" /\ ~BlankBody(r.rec)
           /\ Contains(r.snap, PutRecord(c, r.rec)))
          => Contains(r.snap, r.rec)

\* Abstract registry: each request applied atomically (RegistryAbstract).
Abstract == INSTANCE RegistryAbstract WITH kv <- kv, Record <- Record

AbstractSpec == Abstract!Spec

=============================================================================
