# TLA+ models of the 2_dns service-discovery daemon

This directory holds the TLA+ models of `src/2_dns`, with the TLC
configurations that check them. `src/2_dns` is a DNS service-discovery
daemon built from Go plugins. `src/listen`, a TCP proxy, is modelled on
its own (`Proxy`), and so is `src/mobyServer`, a Docker client script
(`Moby`). `src/dns_lookup` is a client of the daemon and is composed with
it (`DnsLookup`). The other programs under `src/` are small demos. They
are listed under "Not modelled" below.

## The system

`main.go` (`tickerFuncToReloadPlugin`) polls `plugin.json` once a second.
When the file's mtime changes, it opens the plugins the file lists. Each
plugin instance is a package variable, so reopening a plugin hands back
the same instance. After loading, the orchestrator wires the plugins
together, in this order:

1. `pluginData.Watch()` starts a goroutine that registers an etcd watch on
   the service prefix.
2. `SetOnWatch` installs a callback. For every event in a watch response,
   the callback calls `SetServiceBySRV(key, value)` on the DNS plugin.
3. The DNS endpoint `dns.service.discover` is registered through the HTTP
   plugin.
4. `GetByPrefix` reads every key under the prefix (the seed scan), and
   each entry is written into the zone.

The plugins are:

- **etcd data plugin** (`plugin/dataPlugin/etcd/etcd.go`): `Put`, `Get`,
  `GetByPrefix` and `Delete` (each a round trip with a deadline), plus
  `Watch`/`watch` (a goroutine feeding watch responses to the callback).
- **DNS plugin** (`plugin/serviceDiscover/dns/benBurkertDns.go`):
  - `Connect` builds a *new* `dns.Server` with an empty zone, assigns it
    to `el.server` and calls `ListenAndServe`.
  - `SetServiceBySRV` and `RemoveServiceByName` edit the zone of
    `el.server`.
  - `Test` sets `test.fake.service`, looks it up, then removes it.
- **HTTP gateway** (`plugin/serviceDiscover/httpServer/...`):
  - `handlePutService` and `handleDeleteService` read a service's record
    set with `dataGet`, change it, and write it back with `dataPut` or
    `dataDelete`. net/http runs every request on its own goroutine.
  - `SelfRegister` and `Register` add a record to a set if it is not
    already there.
- **onLoad plugin** (`plugin/onLoad/setEnvironmentVarByJson.go`): `OnLoad`
  sets one environment variable per key of its configuration file. It is
  loaded first in each pass.

## Modules

| Module | Models | State | Actions |
|---|---|---|---|
| `RegistryAbstract` | what the registry promises: one request is one atomic change | `kv` | `Register`, `Unregister` |
| `Registry` | the PUT/POST and DELETE handlers over etcd Get/Put/Delete | `kv` (etcd), `req` (one handler goroutine per client: pc, service, record, the set it read), `acked` (the records answered with Success) | `PutRead`, `PutWrite`, `DeleteRead`, `DeleteWrite` |
| `Pipeline` | the reload loop, the watch goroutines, the callback, the seed scan and the DNS zones | `kv`, `log` (etcd revision history), `watchers`, `cb`, `zones` (one per `Connect`), `served`, `pc`, `seedTodo`, `failedLoads` (history: the loads that lost a self-registration or the seed scan) | `ClientPut`, `ClientDelete`, `Reload`, `StartWatch`, `SetCallback`, `RegisterDns`, `SeedRead`, `SeedApply`, `Establish`, `Deliver` |
| `Orchestrator` | the reload loop's control over the roles: mtime polling, manifest read/parse errors, each plugin's `OnLoad` (`EnvOnLoad`, `EtcdOnLoad`, `DnsOnLoad`, `HttpOnLoad`), `openPluginOnLoad`, `openPluginData` with the health check, `openPluginDns`, `openPluginHttpServer`, wiring and `Register`, with every failure path | `file`, `ver` (mtime), `lastRead`, `list` (pluginList), `role` (the package variables), `conf` (whether each plugin instance holds usable configuration fields), `server` (Dns `el.server` assigned), `watches`, `pc`, `crash` | `Edit`, `Tick`, `LoadOnLoad`, `LoadData`, `LoadServers`, `Wire`, `Register` |
| `Proxy` | one connection of `src/listen`: the two `chanFromConn` reader goroutines, the `select` loop of `handleRequest`, and the two peers | `wire`, `eof`, `sent` (what each peer sent), `reader` (each goroutine: reading, blocked on a send, done), `buf` (its buffer `b`), `main`, `pend`, `delivered` | `PeerSend`, `PeerClose`, `Read`, `Receive`, `Write` |
| `Moby` | `src/mobyServer/main.go` run again and again against one Docker daemon: the container listing, the cleanup loop, create, start, the blocking log follow, the wait | `ctr` (the daemon's containers: state and image), `runs`, `pc` (the step of `main`), `snap` (the listing the cleanup loop walks), `mine` (`resp.ID`), `failedLists` (history: the runs whose `ContainerList` failed) | `Rerun`, `Interrupt`, `Exit`, `List`, `Clean`, `Pull`, `Create`, `Start`, `Stats`, `Logs`, `Copy`, `Wait`, `Relist` |
| `DnsLookup` | `src/dns_lookup/main.go` run against the daemon of `Pipeline`: its two `LookupSRV` calls for the daemon's own names | the variables of `Pipeline`, and `demo` (the client's step, and whether the daemon's first load was done when it started) | `LookupDnsService`, `LookupHttpService`, with every `Pipeline` action leaving `demo` unchanged |
| `MC_Registry`, `MC_Pipeline`, `MC_DnsLookup`, `MC_Orchestrator`, `MC_Proxy`, `MC_Moby` | model values and small sets for TLC | | |

How the state maps to the code:

- **Handlers in `Registry`.** A handler is two steps, as in the code:
  - the read step covers `dataGet` and the request checks: the blank
    body, and a target omitted so the remote address is used instead;
  - the write step is the single etcd write.
  A write may fail. It may also time out after etcd has committed it: the
  handler then answers 503, but the value is stored.
- **Error paths with no step.** Paths that change nothing, such as a
  failed `dataGet` or a blank body, give no step in the model.
- **The etcd log in `Pipeline`.** `log` is the revision history. Each
  watch goroutine keeps its own position in it. A goroutine starts in
  state "starting" and registers its etcd watch later (`Establish`), at
  the revision current then.
- **Watch responses.** `Deliver` hands over a response of 1..`MaxBatch`
  consecutive events. The callback runs only if `SetOnWatch` has run.
  When a response contains a DELETE, the goroutine dies. In the code, the
  empty value of the DELETE fails to unmarshal and `watch` returns.
- **DNS zones.** `zones[i]` is the zone of the i-th server that `Connect`
  built. Writes go to the last one (`Cur`, that is `el.server`). Queries
  are answered from the first one (`served`), because only the first
  server bound the port.
- **The DNS self-test.** `Dns.Test` sets `test.fake.service` in the new
  zone and looks it up at 127.0.0.1:53535. The lookup is answered by the
  server that holds the port, so from the second load on it reaches the
  first zone, which does not hold the name. The lookup fails, and Test
  returns before removing the name. `openPluginDns` ignores the error, so
  every reload leaves the fake service in the zone it builds.
  `LookupMayFail` adds the first load's lookup failing because the new
  server is not listening yet after the 333 ms sleep.
- **Failures the load does not see.** With `StoreMayFail`, each etcd
  request of a load may fail. A failed self-registration POST (from
  `SelfRegister`, or `Register` for `dns.service.discover`) is answered
  503 by `handlePutService` and stores nothing; neither caller reads the
  status, so the load goes on. A failed `GetByPrefix` returns nil, its
  error is never read (`main.go` line 420), and the seed loop does
  nothing. `failedLoads` records which loads were hit, so that a
  property can say what a failure costs. A failed POST itself (no
  answer) ends the daemon in `log.Fatal`; that is `Orchestrator`'s.
- **The `dns_lookup` client.** `DnsLookup` composes it with `Pipeline`.
  A `Pipeline` step leaves the client's state alone, and a client step
  leaves the daemon's state alone. Each lookup reads the served zone.

In `Orchestrator`, environment faults are constants that switch on nondeterministic choices:
- an unreadable manifest;
- etcd connect/put/get errors;
- a DNS `Connect` goroutine that has not assigned `el.server` after the 333 ms sleep;
- a failed self-registration POST;
- (`ConfigFaults`) a plugin configuration file that is good, unreadable, without a required key, with it empty, or with a value of the wrong JSON type. Each `OnLoad` maps that to its outcome: an unreadable file keeps the fields of the earlier load; an absent or wrongly typed key panics in the type assertions of the etcd, DNS and onLoad plugins; an empty value is assigned and then rejected, so `Connect`, `Test` or `Register` later fail on it. The HTTP plugin decodes into a struct, so an absent `Port` is 0, like an empty one, and a wrongly typed one fails the decoding.

A nil dereference is `crash = "panic"`, and `log.Fatal` is `"fatal"`; after either, nothing moves.

In `Proxy`, a Go unbuffered channel is a rendezvous: a reader goroutine that read a chunk waits in state "send" until `handleRequest` takes it in a `Receive`. Each case of the `select` is one `Receive(d)`. A chunk is a model value. The copy of lines 67-69 is `ReadResult`. Without it, the chunk would be a reference to the buffer (`Shared`), resolved when `Write` runs.

In `Moby`, the daemon's containers are the only state that outlives a run. A run ends early when the operator interrupts it (it blocks in `io.Copy` for as long as its container runs) or when a Docker call whose error it checks fails (`panic`, `log.Panic` or `log.Fatal`); both are `Interrupt`, which leaves the containers as they are. The error of `ContainerList` (line 137) is never checked: with `ListMayFail`, `List` may return nothing, the cleanup loop visits nothing, and the run goes on to create and start its container. `failedLists` records those runs. `Clean` is one iteration of the loop of lines 143-157 and reads the state of the listing, as the code does, not the container's current state. `Exit` is the ghost server stopping by itself. `Start` fails (`pc = "failed"`, the panic of line 219) when another ghost container holds host port 8080.

Each definition's source lines are listed in `PROJECT.json` under "map".

## Runs

| Run | Expect | What it shows |
|---|---|---|
| `registry_safety` | pass | With 3 concurrent handler goroutines, failing and late-committing writes, and 4 body shapes (named target, omitted target, no port, root `.`): no record set holds a duplicate endpoint, and no key holds an empty set (`NoDuplicateEndpoints`, `NoEmptyRecordSet`). |
| `registry_refines` | pass | With one request at a time, the handlers implement `RegistryAbstract` (`AbstractSpec`), and a record answered with Success stays stored (`RegistrationNotLost`). |
| `registry_lost_update` | violation | Two concurrent POSTs for one service both read "absent". The second put overwrites the record the first already answered Success for. |
| `registry_delete_omitted` | violation | A DELETE with the same body as a POST that omitted its target compares the target as sent (line 509), so it misses the record the POST stored under the caller's address (`DeleteFindsRegisteredRecord`). |
| `pipeline_safety` | pass | Over client puts and deletes, two loads, batched watch responses, a self-test lookup that may fail and etcd requests of the load that may fail, with the `dns_lookup` client composed in (`MC_DnsLookup`): `dns_lookup` started after the first load exits 1 only if that first load lost a self-registration or its seed scan (`LookupSucceedsAfterLoad`). A clean first load is enough whatever follows, reloads and their failures included; and since a reload writes a zone no query reads, a failed first load is never repaired. The clean case holds only because the first server keeps the port: its mutant, a reload whose new server takes the port over, makes the client exit 1 in the window before the seed scan. |
| `pipeline_converge` | violation | DNS does not converge to etcd (`ZoneMatchesStore`, spec §8). TLC's trace: a put reaches the zone, the client deletes the key, the DELETE event ends the watch goroutine (`etcd.go` line 272), and neither the delete nor a later put ever reaches the zone. The model admits other ways the property fails that this trace does not show: the seed scan writing a value older than one the watch already applied, a put between the seed scan and the watch registration, and a leftover `test.fake.service`. |
| `pipeline_reload` | violation | After a manifest reload, updates go to a zone no listening server answers from (`UpdatesReachServedZone`). |
| `orchestrator_reload` | pass | Over three edits, with manifests that are unreadable or unparsable at times and never leave HTTP out while data and DNS are set, the loop's state stays well-formed (`TypeOK`); its mutant uses an undecodable manifest as the entry list. The run fires every action of the loop's fault-free paths; `orchestrator_crash` covers the faulty ones. |
| `orchestrator_crash` | violation | With bad configuration files, etcd errors, a DNS `Connect` that has not assigned `el.server` when `Test` runs, and a missing HTTP plugin file, loading ends the process (`NoCrash`), where spec §7 says the role is left absent. TLC's shortest trace: an onLoad configuration value that is not a string panics in the first load. |
| `proxy_relay` | pass | With two chunks per direction and either peer half-closing at any time: each socket receives exactly what the other peer sent, in order and not overwritten by the next `Read` (`RelayedInOrder`). Every chunk is relayed while `handleRequest` runs (`DataRelayedWhileOpen`). |
| `moby_rerun` | pass | Over four runs of the Docker script, each interruptible at any step while earlier containers exit on their own and any listing may fail: `ContainerStart` fails for want of host port 8080 only in a run whose `ContainerList` failed (`ContainerStartSucceeds`); and the earlier ghost containers left beside a new one are at most one plus one per failed listing (`AtMostOneLeftover`). The one: a container the listing shows as running is stopped at line 145 but, since line 151 tests the same stale listing, never removed; the next run that gets its listing removes it. |
| `proxy_complete` | violation | Once both peers have finished sending, the connection does not complete (`ConnectionCompletes`). TLC's trace: the backend closes first, `handleRequest` returns on the nil from its channel (lines 45-46), and the client's reader goroutine blocks for ever on its send: on `c <- res` (line 69), the client's last chunk then never reaching the backend, or on `c <- nil` (line 72). Neither socket is closed. The client closing first is the mirror case. |

Each property of a passing run has a mutant in `PROJECT.json`. A mutant is
a plausible bug, such as a dropped duplicate check, storing an omitted
target as sent, or keeping the key of an empty set, and TLC finds the
property broken under it.

## Bounds

- **Registry.**
  - 3 clients are enough for two handlers to interleave while a third
    deletes.
  - 1 service for the safety runs; 2 for the refinement run, so that
    writes to different keys are covered.
  - 2 targets and 1 port.
  - The bodies cover every branch of the handlers.
- **Orchestrator.** 3 edits give 4 loads, enough for a parse failure followed by a good manifest. The four manifests cover each role being absent without a dependent role needing it, with and without the onLoad plugin.
- **Proxy.** 2 chunk values and 2 chunks per direction. That is enough for a second `Read` to overwrite the buffer while the first chunk is being written, and for data to be pending on one side when the other closes.
- **Moby.** 3 ghost container IDs (the new container, the one left over, and one more, so that a second leftover would show) and 1 container of another image. 4 runs give three interrupted runs before a last one, enough for a leftover of one run to meet the cleanup of the next two.
- **Pipeline.**
  - 1 client service and 2 values.
  - 3 client writes (2 in `pipeline_safety`, where the etcd failures
    multiply the states) and batches of up to 2 events, so a response
    can mix a put with a delete.
  - 2 loads, which is the smallest number that shows the reload
    behaviour. The convergence run uses 1.
  - One `dns_lookup` run. TLC starts it from every reachable daemon
    state, so every moment of the daemon's life is covered, the window
    of a reload included.

## Fairness

- The ticker goroutine runs for ever, and so does each watch goroutine
  until it returns. Both get weak fairness (`Fairness` in `Pipeline`).
- In `Orchestrator`, one weak-fairness condition covers the whole loop body (`Tick` to `Register`), because one goroutine runs it.
- In `Proxy`, each reader goroutine and `handleRequest` get weak
  fairness. Each `select` case is a separate `Receive(d)` with its own
  fairness. That matches Go, which picks uniformly among ready cases, so no
  ready case starves.
- `DnsLookup` gives the client no fairness. Its property is an invariant about the answers it gets whenever it runs.
- `Moby` checks only invariants and assumes no fairness: the script blocks for as long as its container runs, and the operator need not interrupt it.
- Clients, the operator who edits the manifest, and the proxy's peers need
  not act, so their actions get no fairness.

## Not modelled

- **The environment** the onLoad plugin sets: no other component reads
  it, so only the plugin's control flow (and its panic) is modelled.
- **The DNS wire protocol:** it lives in the external `helmutkemper/dns`
  library.
- **Formatting:** the JSON response envelope and `externalIP`.
- **The race on `handleList`:** `handleFunc` assigns it on every request,
  but always the same value, so every outcome of the race is the same.
- **In `listen`:** the accept loop of `main` only starts an independent
  `handleRequest` per connection. A failed `Dial` panics before any state
  is shared. So `Proxy` models one connection after a successful `Dial`.
- **In `mobyServer`:** the JSON printing, the image pull output and the
  image inspection only print. The stats goroutine prints a copy of
  `stats` taken before anything fills it, and `DockerStats.Decode` with
  its `calculate*` helpers is never called; only printing depends on it. A container's image is a fixed
  name: the daemon reporting an image ID once its tag has moved is not
  modelled.
- **The ordering of watch callbacks.** Every reload starts another watch
  goroutine (`main.go` line 379), all feeding the callback, so a lagging
  one can write an older value over a newer one. It writes the zone of the
  newest server, which no query reads while the reload fault of
  `pipeline_reload` stands, so no run checks that ordering.
- **The fake service a reload leaves behind.** It is left only in zones
  no query reaches while the first server keeps the port, so no property
  can observe it. The first load's leftover, in the served zone, is one of
  the ways `ZoneMatchesStore` fails.
- **The demo programs:** `miek`, `3_avahi_register`,
  `bonjour_find`, `yaml` and `staticServer` are one-shot calls into
  libraries outside this repository: miekg/dns against resolv.conf,
  avahi and bonjour mDNS, a YAML decode, `http.FileServer`. None talks to
  the daemon or keeps state of its own. (`staticServer` prints its
  `-server` flag but always listens on `:3000`.)
- **The callback's delete branch.** The watch callback sets
  `found := len(new)` before its loop, so `RemoveServiceByName` is
  unreachable. The model has no such step. A DELETE event already ends the
  watch goroutine before the callback runs.

## Plan

1. **Composition.** Compose `Registry` with `Pipeline`, so that HTTP
   writes drive the watch.
