------------------------------ MODULE Pipeline ------------------------------
(***************************************************************************)
(* The store-to-zone synchronisation of 2_dns/main.go: each time the      *)
(* manifest is (re)loaded, tickerFuncToReloadPlugin loads the plugins,    *)
(* starts an etcd watch on the service prefix, installs the watch          *)
(* callback, registers the DNS endpoint over HTTP and seeds the zone with *)
(* one prefix scan.  Each Watch call starts a goroutine (etcd.go watch)   *)
(* that runs for ever and feeds watch responses to the callback, which    *)
(* writes into the DNS plugin's current zone.                             *)
(*                                                                         *)
(* Keys are service names under the prefix (the prefix is stripped by     *)
(* strings.Replace, which removes exactly the leading prefix).  A value   *)
(* is an opaque record set.  Store writes by HTTP clients or by anyone    *)
(* else with access to etcd are ClientPut and ClientDelete.               *)
(***************************************************************************)
EXTENDS Naturals, Sequences, SequencesExt

CONSTANTS
    ClientSvcs,     \* service names written by clients
    HttpSvc,        \* name the HTTP plugin self-registers ("register" conf)
    DnsSvc,         \* "dns.service.discover", registered by main.go
    FakeSvc,        \* "test.fake.service", set and removed by Dns.Test
    Values,         \* record sets clients store
    SelfVal,        \* the record set the daemon registers for itself
    FakeVal,        \* the record set Dns.Test sets
    Absent,         \* no key / no zone entry
    MaxWrites,      \* bound on client writes
    MaxLoads,       \* bound on manifest (re)loads
    MaxBatch,       \* bound on events in one watch response
    ClientDeletes,  \* whether clients delete keys in this model
    LookupMayFail,  \* whether Dns.Test's SRV lookup may fail
    StoreMayFail    \* whether etcd requests (Get, Put, GetByPrefix) may fail

Keys == ClientSvcs \cup {HttpSvc, DnsSvc}
ZoneKeys == Keys \cup {FakeSvc}
Event == [key : Keys, type : {"PUT", "DELETE"}, val : Values \cup {SelfVal, Absent}]

ASSUME FakeSvc \notin Keys /\ Absent \notin Values \cup {SelfVal, FakeVal}
ASSUME MaxBatch >= 1

VARIABLES
    kv,        \* etcd: kv[k] for the key servicePrefix + k
    log,       \* etcd revision history under the prefix, one event each
    writes,    \* client writes so far
    watchers,  \* one record per watch goroutine: state and next revision
    cb,        \* el.onWatchFunc has been set (nil until SetOnWatch)
    zones,     \* zones[i]: the zone of the i-th dns.Server Connect built
    served,    \* index of the zone the listening server answers from
    pc,        \* step of tickerFuncToReloadPlugin
    loads,     \* manifest loads so far
    seedTodo,  \* entries of the prefix scan not yet applied
    failedLoads  \* history: loads whose self-registration or seed scan failed

vars == <<kv, log, writes, watchers, cb, zones, served, pc, loads, seedTodo,
          failedLoads>>

EmptyZone == [k \in ZoneKeys |-> Absent]
\* The zone the DNS plugin's el.server holds now: the one built last.
Cur == Len(zones)
\* What a DNS query for k is answered with.
ServedValue(k) == IF served = 0 THEN Absent ELSE zones[served][k]

TypeOK ==
    /\ kv \in [Keys -> Values \cup {SelfVal, Absent}]
    /\ log \in Seq(Event)
    /\ writes \in 0..MaxWrites
    /\ watchers \in Seq([st : {"starting", "live", "dead"}, pos : Nat])
    /\ cb \in BOOLEAN
    /\ zones \in Seq([ZoneKeys -> Values \cup {SelfVal, FakeVal, Absent}])
    /\ served \in 0..Len(zones)
    /\ pc \in {"idle", "watch", "setcb", "register", "seedRead", "seedApply"}
    /\ loads \in 0..MaxLoads
    /\ seedTodo \in Seq(Keys \X (Values \cup {SelfVal}))
    /\ failedLoads \subseteq 1..MaxLoads

Init ==
    /\ kv = [k \in Keys |-> Absent]
    /\ log = <<>>
    /\ writes = 0
    /\ watchers = <<>>
    /\ cb = FALSE
    /\ zones = <<>>
    /\ served = 0
    /\ pc = "idle"
    /\ loads = 0
    /\ seedTodo = <<>>
    /\ failedLoads = {}

-----------------------------------------------------------------------------
(* Store writes.                                                          *)

\* Outcomes of an etcd request: it succeeds, or it fails (a timeout, no
\* leader, etcd down).
Outcomes == IF StoreMayFail THEN BOOLEAN ELSE {TRUE}

\* The POST of HttpServer.SelfRegister or HttpServer.Register, served by
\* handlePutService through Etcd.Get and Etcd.Put: append-if-absent of the
\* daemon's own record; a repeated registration writes nothing.  When
\* dataGet or dataPut fails the handler answers 503 and writes nothing;
\* neither caller reads resp.StatusCode, so load number n goes on.
SelfRegister(k, n) ==
    \E ok \in Outcomes :
        /\ IF ok /\ kv[k] = Absent
           THEN /\ kv' = [kv EXCEPT ![k] = SelfVal]
                /\ log' = Append(log, [key |-> k, type |-> "PUT", val |-> SelfVal])
           ELSE UNCHANGED <<kv, log>>
        /\ failedLoads' = IF ok THEN failedLoads ELSE failedLoads \cup {n}

\* Etcd.Put of a record set under the prefix by a client.
ClientPut(k, v) ==
    /\ writes < MaxWrites
    /\ kv' = [kv EXCEPT ![k] = v]
    /\ log' = Append(log, [key |-> k, type |-> "PUT", val |-> v])
    /\ writes' = writes + 1
    /\ UNCHANGED <<watchers, cb, zones, served, pc, loads, seedTodo, failedLoads>>

\* Etcd.Delete of a key (handleDeleteService removing the last record).
ClientDelete(k) ==
    /\ ClientDeletes
    /\ writes < MaxWrites
    /\ kv[k] # Absent
    /\ kv' = [kv EXCEPT ![k] = Absent]
    /\ log' = Append(log, [key |-> k, type |-> "DELETE", val |-> Absent])
    /\ writes' = writes + 1
    /\ UNCHANGED <<watchers, cb, zones, served, pc, loads, seedTodo, failedLoads>>

-----------------------------------------------------------------------------
(* tickerFuncToReloadPlugin, one pass after the manifest's mtime changed. *)

\* Dns.Test's SetServiceByName: test.fake.service in the new el.server.
ProbedZone == [EmptyZone EXCEPT ![FakeSvc] = FakeVal]

\* Dns.Test: set test.fake.service in el.server, look it up over UDP at
\* 127.0.0.1:53535, and remove it only when the lookup found it.  The
\* lookup is answered by whichever server holds the port: reached is its
\* zone; listening is FALSE when no server has bound the port yet.
TestedZone(reached, listening) ==
    IF listening /\ reached[FakeSvc] # Absent THEN EmptyZone ELSE ProbedZone

\* Mutant: the new server takes the port over from the old one.
ReloadRebinding ==
    /\ pc = "idle"
    /\ loads < MaxLoads
    /\ zones' = Append(zones, TestedZone(ProbedZone, TRUE))
    /\ served' = Len(zones) + 1
    /\ SelfRegister(HttpSvc, loads + 1)
    /\ loads' = loads + 1
    /\ pc' = "watch"
    /\ UNCHANGED <<writes, watchers, cb, seedTodo>>

\* Lines 297-375: load the plugins.  openPluginDns runs Connect, which
\* builds a new dns.Server with an empty zone; only the first one binds the
\* port, the later ListenAndServe calls fail and their error is dropped, so
\* from the second load on Test's lookup reaches the first server.  Test's
\* error is not checked.  openPluginHttpServer ends with SelfRegister.
Reload ==
    /\ pc = "idle"
    /\ loads < MaxLoads
    /\ LET reached == IF served = 0 THEN ProbedZone ELSE zones[served]
       IN \E listening \in IF LookupMayFail /\ served = 0 THEN BOOLEAN
                                                         ELSE {TRUE} :
            zones' = Append(zones, TestedZone(reached, listening))
    /\ served' = IF served = 0 THEN Len(zones) + 1 ELSE served
    /\ SelfRegister(HttpSvc, loads + 1)
    /\ loads' = loads + 1
    /\ pc' = "watch"
    /\ UNCHANGED <<writes, watchers, cb, seedTodo>>

\* Line 379: pluginData.Watch starts a goroutine; it registers the etcd
\* watch later, at a revision of its own (Establish).
StartWatch ==
    /\ pc = "watch"
    /\ watchers' = Append(watchers, [st |-> "starting", pos |-> 0])
    /\ pc' = "setcb"
    /\ UNCHANGED <<kv, log, writes, cb, zones, served, loads, seedTodo, failedLoads>>

\* Lines 380-394: SetOnWatch installs the callback.
SetCallback ==
    /\ pc = "setcb"
    /\ cb' = TRUE
    /\ pc' = "register"
    /\ UNCHANGED <<kv, log, writes, watchers, zones, served, loads, seedTodo, failedLoads>>

\* Lines 397-414: register the DNS endpoint through the HTTP plugin.  An
\* error of the request itself ends the daemon in log.Fatal (Orchestrator);
\* a 503 answer is not an error to Register.
RegisterDns ==
    /\ pc = "register"
    /\ SelfRegister(DnsSvc, loads)
    /\ pc' = "seedRead"
    /\ UNCHANGED <<writes, watchers, cb, zones, served, loads, seedTodo>>

\* Mutant: the scan lists every service, present or not.
SeedReadAllKeys ==
    /\ pc = "seedRead"
    /\ LET order == SetToSeq(Keys)
       IN seedTodo' = [i \in DOMAIN order |-> <<order[i], kv[order[i]]>>]
    /\ pc' = "seedApply"
    /\ UNCHANGED <<kv, log, writes, watchers, cb, zones, served, loads, failedLoads>>

\* Lines 416-420: GetByPrefix, the keys in etcd's (sorted) order.  Its error
\* is assigned to err and never read: a failed scan returns a nil slice and
\* the loop seeds nothing (etcd.go 186-190, 205-208).
SeedRead ==
    /\ pc = "seedRead"
    /\ \E ok \in Outcomes :
        LET present == IF ok THEN {k \in Keys : kv[k] # Absent} ELSE {}
            order == SetToSeq(present)
        IN /\ seedTodo' = [i \in DOMAIN order |-> <<order[i], kv[order[i]]>>]
           /\ pc' = IF present = {} THEN "idle" ELSE "seedApply"
           /\ failedLoads' = IF ok THEN failedLoads ELSE failedLoads \cup {loads}
    /\ UNCHANGED <<kv, log, writes, watchers, cb, zones, served, loads>>

\* Dns.SetServiceBySRV: the stored value is unmarshalled into SRV records
\* and replaces the key's whole record set in the zone of el.server.
SetServiceBySRV(zone, k, v) == [zone EXCEPT ![k] = v]

\* Lines 422-426: SetServiceBySRV for one scanned entry, on the current zone.
SeedApply ==
    /\ pc = "seedApply"
    /\ LET e == Head(seedTodo) IN
         zones' = [zones EXCEPT ![Cur] = SetServiceBySRV(@, e[1], e[2])]
    /\ seedTodo' = Tail(seedTodo)
    /\ pc' = IF Tail(seedTodo) = <<>> THEN "idle" ELSE "seedApply"
    /\ UNCHANGED <<kv, log, writes, watchers, cb, served, loads, failedLoads>>

-----------------------------------------------------------------------------
(* A watch goroutine (etcd.go watch, lines 255-287).                      *)

\* The etcd watch is registered: it reports revisions after the current one.
Establish(w) ==
    /\ watchers[w].st = "starting"
    /\ watchers' = [watchers EXCEPT ![w] = [st |-> "live", pos |-> Len(log) + 1]]
    /\ UNCHANGED <<kv, log, writes, cb, zones, served, pc, loads, seedTodo, failedLoads>>

\* The callback: SetServiceBySRV for every event of the response, in order.
\* found := len(new) is never 0 inside the loop, so RemoveServiceByName
\* (line 387) is never called.
ApplyEvents(zone, batch) ==
    FoldLeft(LAMBDA z, e : SetServiceBySRV(z, e.key, e.val), zone, batch)

\* One watch response of n consecutive events.  With no callback yet the
\* response is skipped.  Otherwise each event's value is unmarshalled
\* first: a DELETE event carries an empty value, json.Unmarshal fails and
\* the goroutine returns (line 272) without calling the callback.
Deliver(w) ==
    LET p == watchers[w].pos IN
    /\ watchers[w].st = "live"
    /\ p <= Len(log)
    /\ \E n \in 1..MaxBatch :
        /\ p + n - 1 <= Len(log)
        /\ LET batch == SubSeq(log, p, p + n - 1) IN
           IF cb /\ \E i \in 1..n : batch[i].type = "DELETE"
           THEN /\ watchers' = [watchers EXCEPT ![w].st = "dead"]
                /\ UNCHANGED zones
           ELSE /\ watchers' = [watchers EXCEPT ![w].pos = p + n]
                /\ zones' = IF cb
                            THEN [zones EXCEPT ![Cur] = ApplyEvents(@, batch)]
                            ELSE zones
    /\ UNCHANGED <<kv, log, writes, cb, served, pc, loads, seedTodo, failedLoads>>

-----------------------------------------------------------------------------
Ticker == StartWatch \/ SetCallback \/ RegisterDns \/ SeedRead \/ SeedApply

Next ==
    \/ \E k \in ClientSvcs : \/ \E v \in Values : ClientPut(k, v)
                             \/ ClientDelete(k)
    \/ Reload
    \/ Ticker
    \/ \E w \in DOMAIN watchers : Establish(w)
    \/ \E w \in DOMAIN watchers : Deliver(w)

\* The ticker goroutine and every watch goroutine keep running; clients and
\* the operator who touches the manifest need not act.
Fairness ==
    /\ WF_vars(Ticker)
    /\ \A w \in 1..MaxLoads :
         WF_vars(w \in DOMAIN watchers /\ (Establish(w) \/ Deliver(w)))

Spec == Init /\ [][Next]_vars
FairSpec == Spec /\ Fairness

-----------------------------------------------------------------------------
(* Properties.                                                            *)

\* The record set etcd holds for a zone key; test.fake.service is never
\* stored.
StoredValue(k) == IF k \in Keys THEN kv[k] ELSE Absent

\* Once the daemon has loaded, whatever etcd holds for a service is
\* eventually what DNS answers for it, unless the key is written again
\* (spec 8, watch-to-zone convergence): a
\* put is served, a delete stops resolving, and a service nobody stored
\* (the fake one of Dns.Test) does not resolve.
ZoneMatchesStore ==
    \A k \in ZoneKeys, v \in Values \cup {SelfVal, Absent} :
        (served # 0 /\ StoredValue(k) = v)
            ~> (ServedValue(k) = v \/ StoredValue(k) # v)

\* Every change the pipeline makes to the zone it writes is a change of
\* the zone DNS answers from.
UpdatesReachServedZone ==
    [][Len(zones') = Len(zones) /\ zones' # zones =>
         \A k \in ZoneKeys : ServedValue(k)' = zones'[Len(zones')][k]]_vars

=============================================================================
