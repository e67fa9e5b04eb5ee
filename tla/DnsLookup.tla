----------------------------- MODULE DnsLookup -----------------------------
(***************************************************************************)
(* src/dns_lookup/main.go run against the daemon of Pipeline: it resolves *)
(* dns.service.discover.tld. and then http.service.discover.tld. over UDP  *)
(* at 127.0.0.1:53535, so both questions are answered by the server that  *)
(* holds that port, from the zone Pipeline calls served.  A name that     *)
(* does not resolve ends the program with os.Exit(1).  The client runs    *)
(* once, at any moment of the daemon's life, and changes nothing in it.   *)
(***************************************************************************)
EXTENDS Pipeline

VARIABLE
    demo    \* demo.st: the step of dns_lookup's main; demo.after: whether
            \* the daemon had finished its first load when main started

allVars == <<vars, demo>>

\* The daemon has finished a load: Pipeline's last ticker step of the first
\* load is behind it.
FirstLoadDone == loads > 1 \/ (loads = 1 /\ pc = "idle")

DemoInit ==
    /\ demo = [st |-> "notRun", after |-> FALSE]
    /\ Init

\* Lines 12-31: the first LookupSRV, for dns.service.discover.
LookupDnsService ==
    /\ demo.st = "notRun"
    /\ demo' = [st |-> IF ServedValue(DnsSvc) # Absent THEN "http" ELSE "exit1",
                after |-> FirstLoadDone]

\* Lines 33-41: the second LookupSRV, for http.service.discover.
LookupHttpService ==
    /\ demo.st = "http"
    /\ demo' = [demo EXCEPT !.st =
                   IF ServedValue(HttpSvc) # Absent THEN "ok" ELSE "exit1"]

DemoNext ==
    \/ Next /\ UNCHANGED demo
    \/ (LookupDnsService \/ LookupHttpService) /\ UNCHANGED vars

DemoSpec == DemoInit /\ [][DemoNext]_allVars

-----------------------------------------------------------------------------
\* dns_lookup started at any time after the daemon's first load exits with
\* status 1 only if that first load lost a self-registration or its seed
\* scan to an etcd failure, which main.go does not see (Register and
\* SelfRegister ignore the 503, GetByPrefix's error is dropped).  A clean
\* first load is enough whatever follows: the seed scan and the watch have
\* put both records in the zone of the server that holds port 53535, and a
\* reload, clean or not, builds and writes another zone; by the same token
\* no later load can repair a first load that failed.
LookupSucceedsAfterLoad == (demo.st = "exit1" /\ demo.after) => 1 \in failedLoads

=============================================================================
