---------------------------- MODULE Orchestrator ----------------------------
(***************************************************************************)
(* The reload loop of 2_dns/main.go (tickerFuncToReloadPlugin) and the    *)
(* openPlugin* functions, seen from the roles it fills: which plugin      *)
(* instances the package variables pluginData, pluginDns and              *)
(* pluginHttpServer hold, how many watch goroutines are running, and      *)
(* whether the process is still alive.                                    *)
(*                                                                         *)
(* A manifest is the set of roles it lists (the order of the entries does *)
(* not change the outcome).  The onLoad role only sets environment        *)
(* variables and is left out.  The zone and the store contents are the    *)
(* business of the Pipeline module; the seed scan changes nothing here.   *)
(***************************************************************************)
EXTENDS Naturals

CONSTANTS
    Manifests,        \* the role sets the manifest file may list
    Garbage,          \* a manifest that json.Unmarshal rejects
    Missing,          \* roles whose plugin file is not on disk
    MaxEdits,         \* bound on manifest edits (mtime changes)
    ReadMayFail,      \* ioutil.ReadFile of the manifest may fail
    StoreFaults,      \* etcd Connect, Put and Get may fail
    DnsSlow,          \* Dns.Connect may assign el.server after the 333 ms
    RegisterMayFail,  \* the HTTP POST of Register may fail
    ConfigFaults      \* a plugin's JSON configuration file may be bad

Kinds == {"onLoad", "data", "dns", "http"}

ASSUME Manifests \subseteq SUBSET Kinds /\ Garbage \notin Manifests
ASSUME Missing \subseteq Kinds

VARIABLES
    file,       \* the manifest on disk
    ver,        \* its modification time (one tick per edit)
    lastRead,   \* fileTimeModifiedLastRead
    list,       \* pluginList: the entries last parsed
    role,       \* role[k]: the package variable of role k, "nil" or "up"
    conf,       \* conf[k]: the configuration fields of role k's plugin instance
    server,     \* Dns.el.server has been assigned (Connect ran far enough)
    watches,    \* watch goroutines started by pluginData.Watch
    pc,         \* step of the loop body
    crash       \* "none", "panic" (nil dereference) or "fatal" (log.Fatal)

vars == <<file, ver, lastRead, list, role, conf, server, watches, pc, crash>>

Choice(flag) == IF flag THEN BOOLEAN ELSE {TRUE}

\* What a plugin's OnLoad finds in its configuration file: a good file; a
\* file that is missing, unreadable or not JSON (OnLoad returns before it
\* assigns any field); a required key absent; a required key "" or 0; a
\* value of another JSON type than the one the code reads.
Configs == IF ConfigFaults
           THEN {"ok", "unreadable", "missingKey", "emptyValue", "wrongType"}
           ELSE {"ok"}

TypeOK ==
    /\ file \in Manifests \cup {Garbage}
    /\ ver \in 1..MaxEdits + 1 /\ lastRead \in 0..MaxEdits + 1
    /\ list \in Manifests \cup {{}}
    /\ role \in [Kinds -> {"nil", "up"}]
    /\ conf \in [Kinds -> {"none", "ok", "bad"}]
    /\ server \in BOOLEAN
    /\ watches \in 0..MaxEdits + 1
    /\ pc \in {"tick", "onLoad", "data", "servers", "wire", "register"}
    /\ crash \in {"none", "panic", "fatal"}

Init ==
    /\ file \in Manifests
    /\ ver = 1 /\ lastRead = 0
    /\ list = {}
    /\ role = [k \in Kinds |-> "nil"]
    /\ conf = [k \in Kinds |-> "none"]
    /\ server = FALSE
    /\ watches = 0
    /\ pc = "tick"
    /\ crash = "none"

Alive == crash = "none"

-----------------------------------------------------------------------------
\* An operator rewrites (or just touches) the manifest: a new mtime.
Edit ==
    /\ ver <= MaxEdits
    /\ file' \in Manifests \cup {Garbage}
    /\ ver' = ver + 1
    /\ UNCHANGED <<lastRead, list, role, conf, server, watches, pc, crash>>

\* Mutant: a parse error is not checked and the undecoded file is used.
TickUsingUnparsed ==
    /\ Alive /\ pc = "tick"
    /\ lastRead # ver
    /\ lastRead' = ver
    /\ \E readOk \in Choice(ReadMayFail) :
         IF readOk THEN list' = file /\ pc' = "onLoad" ELSE UNCHANGED <<list, pc>>
    /\ UNCHANGED <<file, ver, role, conf, server, watches, crash>>

\* Lines 297-322: a tick with a new mtime records it first, then reads and
\* parses the file.  A read error skips this tick, and the mtime is already
\* recorded; a parse error is only logged and pluginList, declared outside
\* the loop, keeps the entries of the previous load.
Tick ==
    /\ Alive /\ pc = "tick"
    /\ lastRead # ver
    /\ lastRead' = ver
    /\ \E readOk \in Choice(ReadMayFail) :
         IF readOk
         THEN /\ list' = IF file = Garbage THEN list ELSE file
              /\ pc' = "onLoad"
         ELSE UNCHANGED <<list, pc>>
    /\ UNCHANGED <<file, ver, role, conf, server, watches, crash>>

\* OnLoad.OnLoad (setEnvironmentVarByJson.go 17-43) sets an environment
\* variable per key; a missing or unreadable file, or one that is not a
\* JSON object, returns; a value that is not a string panics in
\* value.(string).
EnvOnLoad(c) == IF c = "wrongType" THEN "panic" ELSE "ok"

\* Lines 324-329 and openPluginOnLoad (lines 189-214): pluginOnLoad is nil
\* when its file is missing; OnLoad's result is not checked.
LoadOnLoad ==
    /\ Alive /\ pc = "onLoad"
    /\ IF "onLoad" \notin list
       THEN UNCHANGED <<role, crash>>
       ELSE IF "onLoad" \in Missing
       THEN /\ role' = [role EXCEPT !["onLoad"] = "nil"]
            /\ UNCHANGED crash
       ELSE \E c \in Configs :
              IF EnvOnLoad(c) = "panic"
              THEN /\ crash' = "panic"
                   /\ UNCHANGED role
              ELSE /\ role' = [role EXCEPT !["onLoad"] = "up"]
                   /\ UNCHANGED crash
    /\ pc' = "data"
    /\ UNCHANGED <<file, ver, lastRead, list, conf, server, watches>>

\* Etcd.OnLoad (etcd.go 56-110), with the fault in hostList: an absent
\* or non-string key panics in the type assertion jsonData[...].(string); an empty one is
\* assigned before it is rejected, and clientv3.New then fails; a missing,
\* unreadable or non-JSON file leaves the fields as they were.
EtcdOnLoad(c, old) ==
    CASE c = "ok" -> "ok" [] c = "unreadable" -> old
      [] c \in {"missingKey", "wrongType"} -> "panic" [] c = "emptyValue" -> "bad"

\* openPluginData (lines 154-187) and the health check (lines 335-354).
\* A missing file gives nil.  OnLoad's error is only logged.  Connect with
\* no usable configuration, or a failed Connect, leaves el.cli nil and the
\* health-check Put dereferences it.  A failed Put sets pluginData to nil
\* and the next line calls Get on the nil interface.  A failed Get sets
\* pluginData to nil.
LoadData ==
    /\ Alive /\ pc = "data"
    /\ IF "data" \notin list
       THEN UNCHANGED <<role, conf, crash>>
       ELSE IF "data" \in Missing
       THEN /\ role' = [role EXCEPT !["data"] = "nil"]
            /\ UNCHANGED <<conf, crash>>
       ELSE \E c \in Configs, connectOk, putOk, getOk \in Choice(StoreFaults) :
              LET cf == EtcdOnLoad(c, conf["data"]) IN
              IF cf = "ok" /\ connectOk /\ putOk
              THEN /\ role' = [role EXCEPT !["data"] =
                                  IF getOk THEN "up" ELSE "nil"]
                   /\ conf' = [conf EXCEPT !["data"] = cf]
                   /\ UNCHANGED crash
              ELSE /\ crash' = "panic"
                   /\ UNCHANGED <<role, conf>>
    /\ pc' = "servers"
    /\ UNCHANGED <<file, ver, lastRead, list, server, watches>>

\* Dns.OnLoad (benBurkertDns.go 67-111): an absent or non-string
\* addressAndPort panics in the type assertion; an empty one is assigned,
\* then rejected.
DnsOnLoad(c, old) ==
    CASE c = "ok" -> "ok" [] c = "unreadable" -> old
      [] c \in {"missingKey", "wrongType"} -> "panic" [] c = "emptyValue" -> "bad"

\* HttpServer.OnLoad (httpServer.go 200-244) decodes into a struct, with
\* the fault in Port: an absent or zero Port is assigned to el.port before
\* it is rejected, and Register later POSTs to port 0; a Port of another
\* JSON type fails json.Unmarshal before any field is assigned.
HttpOnLoad(c, old) ==
    CASE c = "ok" -> "ok" [] c \in {"unreadable", "wrongType"} -> old
      [] c \in {"missingKey", "emptyValue"} -> "bad"

\* openPluginDns (lines 119-152): Connect runs in a goroutine and, with an
\* address configured, assigns a new el.server; Test, 333 ms later, writes
\* test.fake.service through el.server, a nil dereference if no Connect
\* ever assigned it.  The instance is a package variable, so a server
\* assigned on an earlier load is still there.
DnsOutcome(s) == IF s THEN "up" ELSE "panic"

\* openPluginHttpServer (lines 78-117): the method value pluginData.Get is
\* taken before anything else, a nil dereference when no data plugin is set.
HttpOutcome(data) == IF data = "up" THEN "up" ELSE "panic"

\* Lines 357-367: pluginDns and pluginHttpServer from their entries.
LoadServers ==
    /\ Alive /\ pc = "servers"
    /\ \E ready \in Choice(DnsSlow), cd, ch \in Configs :
         LET dnsLoads == "dns" \in list /\ "dns" \notin Missing
             httpLoads == "http" \in list /\ "http" \notin Missing
             dcf == IF dnsLoads THEN DnsOnLoad(cd, conf["dns"]) ELSE conf["dns"]
             hcf == IF httpLoads THEN HttpOnLoad(ch, conf["http"]) ELSE conf["http"]
             srv == server \/ (dnsLoads /\ dcf = "ok" /\ ready)
             outs == (IF dnsLoads THEN {dcf, DnsOutcome(srv)} ELSE {})
                     \cup (IF httpLoads THEN {HttpOutcome(role["data"])} ELSE {})
         IN IF "panic" \in outs
            THEN /\ crash' = "panic"
                 /\ UNCHANGED <<role, conf, server>>
            ELSE /\ role' = [k \in Kinds |->
                               IF k \in {"dns", "http"} /\ k \in list
                               THEN IF k \in Missing THEN "nil" ELSE "up"
                               ELSE role[k]]
                 /\ conf' = [conf EXCEPT !["dns"] = dcf, !["http"] = hcf]
                 /\ server' = srv
                 /\ UNCHANGED crash
    /\ pc' = "wire"
    /\ UNCHANGED <<file, ver, lastRead, list, watches>>

\* Lines 377-395: with data and DNS set, read the prefix from the HTTP
\* plugin (a nil interface if it is not set), start a watch goroutine and
\* install the callback.
Wire ==
    /\ Alive /\ pc = "wire"
    /\ IF role["data"] = "up" /\ role["dns"] = "up"
       THEN IF role["http"] = "up"
            THEN /\ watches' = watches + 1
                 /\ UNCHANGED crash
            ELSE /\ crash' = "panic"
                 /\ UNCHANGED watches
       ELSE UNCHANGED <<watches, crash>>
    /\ pc' = "register"
    /\ UNCHANGED <<file, ver, lastRead, list, role, conf, server>>

\* Lines 397-427: register dns.service.discover, then the seed scan, and
\* back to waiting for the ticker.  The port is cut from the DNS address
\* with a regexp and ParseInt (log.Fatal when the address is empty), and
\* Register POSTs to the HTTP plugin's own port (log.Fatal when it fails,
\* as it must when el.port is 0).
Register ==
    /\ Alive /\ pc = "register"
    /\ IF role["http"] = "up" /\ role["dns"] = "up"
       THEN \E ok \in Choice(RegisterMayFail) :
              crash' = IF ok /\ conf["dns"] = "ok" /\ conf["http"] = "ok"
                       THEN "none" ELSE "fatal"
       ELSE UNCHANGED crash
    /\ pc' = "tick"
    /\ UNCHANGED <<file, ver, lastRead, list, role, conf, server, watches>>

Next == Edit \/ Tick \/ LoadOnLoad \/ LoadData \/ LoadServers \/ Wire \/ Register

\* The ticker goroutine runs for ever; the operator need not edit.
Spec == Init /\ [][Next]_vars
             /\ WF_vars(Tick \/ LoadOnLoad \/ LoadData \/ LoadServers
                        \/ Wire \/ Register)

-----------------------------------------------------------------------------
(* Properties.                                                            *)

\* Spec 7: configuration, load and connect failures leave the role absent
\* and never end the process.  The plugins' OnLoad type assertions, the
\* health check of lines 342-352, the prefix read of line 378,
\* openPluginHttpServer's pluginData.Get, openPluginDns's Test and the
\* port parsing of Register all end it on a fault or a nil role.
NoCrash == crash = "none"

=============================================================================
