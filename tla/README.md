# A TLA+ model of roxey

roxey gives a local development environment public (or local) HTTPS hosts. A
*relay* (`src/backend`) accepts tunnels from CLIs over a websocket and routes
public requests into them. A *CLI* (`src/cli`) reads a manifest, spawns the
services it names, keeps one detached tunnel worker per route, and, for local
use, has a root *helper daemon* that supervises a relay on port 443 and owns
the managed block of `/etc/hosts`.

This directory holds a TLA+ model of that code, the TLC configurations that
check it on small instances, and proofs of its main results for instances of
every size, checked by TLAPS.

1. [Inventory](#inventory)
2. [Modules and the code](#modules-and-the-code)
3. [Runs](#runs), bounds and symmetry
4. [Fairness](#fairness)
5. [Proofs](#proofs)
6. [Findings](#findings) and other divergences
7. [What is not modelled](#what-is-not-modelled)
8. [Plan](#plan)

`PROJECT.json` maps every definition to the lines it models, every property to
a mutation of the code that breaks it, and lists the hazards, each at its line.

## Inventory

| Component | Source | State it keeps | Operations | What is hard |
|---|---|---|---|---|
| Routing table | `backend/relay/relay.go` | host -> root entry and sorted list of prefixed entries, under one mutex | `Check`, `Register`, `Unregister`, `Resolve`, `ListActive` | check-then-register, late removals, longest prefix by first match |
| Tunnel handlers, public requests | `backend/main.go` `handleWSUpgrade`, `handleTunnelRequest`; `relay.Entry` | one goroutine per tunnel and per request; `ready` channel; `tunnel_events` rows | upgrade, register, greet, ready, accept loop, deferred clean-up; resolve, gate, open stream | every interleaving of two handlers and a request; link failures at each step; crash |
| Preview gate | `backend/main.go` `serveGate`, `visitorCredential`; `auth/sessions.go` | signed cookies held by visitors | issue and verify host and group grants | a grant outliving what it was issued for; which of several cookies is looked at |
| Rate limiter | `auth/limiter.go` | hits per address in a sliding window | `Allow` with its periodic sweep | window boundary, sweep against live counts |
| Accounts | `backend/main.go` `buildMux`, `store/store.go`, `auth` | sqlite rows: users, API keys, events | signup, login, keys, validate, revoke, seed | check-then-insert, two statements per validation, seeding over older rows |
| Access to the local relay | `cli/internal/localrelay/ensure.go`, `cli/main.go` `ensureLocalRelay`, `config.json` | credentials and API key per TLD | make up credentials, log in, create and keep a key | daemon and commands overwrite one entry |
| Certificates | `backend/main.go` `certLoader`, `cli/internal/localca`, `ensureLocalRelay`, `RunDaemon`, `waitRelay` | cached pair with an mtime; CA and leaf files and whose they are; the OS trust store | stat, load, cache; check, re-issue, trust, ask the relay for its health | four files written one after the other by several processes, truncated first, and read in between |
| Tunnel worker | `cli/tunnel`, `cli/internal/worker` | one session, a back-off | `Dial`, `Hold` | reconnect against a relay that still holds the old route |
| Streams of a tunnel | `cli/tunnel` `Serve`, `handleStream`, `pipe` | a goroutine and two copiers per stream, its two ends | accept, dial the target, copy both ways, close | a request that never ends beside others; ends closed in any order while the session drops |
| up / down / start / stop | `cli/main.go`, `cli/runner`, `internal/config` | `tunnels.json`, `services.json`, processes, ports | bring up, tear down, start and stop one tunnel by hand, prune, reclaim | unlocked read-modify-write files; a crash between spawn and save |
| Projects registry | `internal/projects` | `projects.json` | register, forget, prune, collisions | two writers, name suffixes |
| Hosts file | `internal/localrelay/hosts.go` | the managed block of `/etc/hosts` | render, merge, write | stale snapshots of the registry; a file that others edit, too, cut and put together again |
| Helper daemon and relay supervisor | `internal/helper` | the child process, its TLD | `Ensure`, `Stop`, `watch`, socket handlers | a restart that sleeps while the world changes |
| Manifest and preview naming | `cli/manifest`, `cli/preview` | none (pure) | load, validation, preview hosts, ports, templates | distinct hosts and ports, references that survive the rewriting |
| Doctor, service units, control plane client, npm wrapper, web pages | various | none of their own | I/O | not modelled |

How they interact: a worker (CLI) opens a websocket to a handler (relay), which
validates the API key in the store and claims a route in the table; public
requests resolve the table, pass the gate and open a stream in the handler's
session. `up` starts services and workers, after it has registered the project,
issued the certificate and asked the daemon, over a socket, to publish the names
and run the relay. Daemon, `up` and `down` share the files under `~/.roxey`.

## Modules and the code

| Module | Models | EXTENDS / refines |
|---|---|---|
| `RouteDirectory` | what the table promises: each route has at most one owner; claim, release by the owner, crash | abstract |
| `RouteTable` | the data structure: `TableAt`, `Vacant` (`Check`), `Register`, `Unregister`, `Resolve` | |
| `Registry` | the table under arbitrary calls (`RegistryInit`, `RegistryNext`, `RegistrySpec`) | `RouteTable`, implements `RouteDirectory` |
| `Relay` | `handleWSUpgrade` and `handleTunnelRequest` step by step | `RouteTable`, implements `RouteDirectory` |
| `Subsequences` | the list a filtering loop leaves, without recursion | used by `Limiter` and `HostsFile` |
| `Limiter` | `Limiter.Allow` as operators on its state | `Subsequences` |
| `Gate` | the gate's tokens, one visitor's browser and addresses | `Limiter` |
| `Accounts` | store and dashboard handlers | |
| `LocalAccess` | daemon and `up` on the config entry of a local relay | `Accounts` |
| `CertLoader` | the certificate files and the relay's `certLoader` | |
| `Certificates` | `localca.Ensure` by `up`, `setup` and the daemon, trust and the health check | `CertLoader` |
| `TunnelWorkers` | `Dial`/`Hold` of worker processes against the relay's routes | implements `RouteDirectory` |
| `TunnelStreams` | `Serve`, `handleStream`, `pipe` for the streams of the workers' sessions | `TunnelWorkers` |
| `Lifecycle` | `up`, `up -d`, `down`, `start`, `stop` over `tunnels.json` and `services.json` | `TunnelWorkers` |
| `RelaySupervisor` | `RelaySupervisor`, `RunDaemon`, socket handlers that call `Ensure` | |
| `HostsFile` | rendering and merging the block, as operators on the lines of the file | `Subsequences` |
| `LocalNames` | `projects.json`, `/etc/hosts`, leaf names, agents under all commands that touch them | `HostsFile` |
| `Topology` | manifest -> preview -> ports -> references -> tunnels, in the order of `cmdUp` | |
| `RelayProofs` (with the table and `Registry`), `RelaySupervisorProofs`, `GateProofs` (with the limiter), `AccountsProofs`, `CertificatesProofs`, `LifecycleProofs` (with the workers and their streams), `LocalNamesProofs` (with the hosts file), `TopologyProofs` | proofs | |
| `MC*` | values of the constants for TLC | |

State and actions:

* **Relay.** `table` is `Registry.hosts`; `handler[e]` is the program counter of
  the goroutine whose entry is `e` (a handler makes at most one `*Entry`, so the
  two share an identity), `tunnel[e]` the query parameters of its request,
  `link[e]` its yamux session and websocket, `ready[e]` the closed `ready`
  channel, `event[e]` its row in `tunnel_events`. Each step between two accesses
  to something shared is one action: `Check`, `Upgrade`, `RegisterPending`,
  `Greet`/`GreetFails`, `MarkReady`, `RecordConnect`, `AcceptFails`, and the
  deferred `Leave` and `RecordDisconnect`. A request is `ResolveRequest`,
  `PassGate`, `AwaitReady` (channel, timer or session end), `OpenStream`.
  `Crash` loses the memory and keeps the rows.
* **Gate.** `entries` is what tunnels have registered, `jar` the browser's
  cookies in the order RFC 6265 sends them (equal paths, so by creation),
  `limiter` the gate's limiter. `earned` and `posted` are history variables.
  `Asks` is a posted password, behind the limiter; `Carries` a request with a
  secret as HTTP Basic or `?access_token=`, which is compared without it. A
  relay restart keeps the secret (`loadSessionSecret`) and loses the limiter.
* **Accounts, LocalAccess.** `users` and `keys` are the tables; each SQL
  statement of a handler is a step (`SignupCheck`, `SignupCreate`;
  `ValidateAPIKey`, `Admit`). A key, its hash and its row's id are one value,
  drawn fresh. `entry` is `config.Servers[tld]`; `starter` is `RelayEnv` in the
  daemon and the start of the relay; `up[p]` goes from `HealthOK` through
  `LoginAndCreateKey` to the two `SetServer` calls. `kind` tells a hosted relay,
  a self-hosted single-user one and a local one apart.
* **CertLoader, Certificates.** `file` is what the four files hold: nothing, a
  CA, a key, a leaf (its key, its issuer, its names), or half of something
  (`Torn`). `loader` is a handshake's progress and the cached pair with the
  time it was stored under; times are told apart only as that of the file as it
  is, an older one, or none. `proc[p]` is where a process is in `Ensure`;
  `Truncate` and `Fill` are the two halves of an `os.WriteFile`, `Kill` falls
  between any two steps. `rooted` are the files the daemon has created and not
  given to the user yet, `store` the CAs the OS trusts.
* **TunnelWorkers.** A worker is a process id used once. `owner` is the relay's
  table in `RouteDirectory`'s terms; `linked` the live sessions; `signal` the
  workers sent SIGTERM.
* **TunnelStreams.** `stream[s]` is one yamux stream from the moment the relay
  opens it: `at` is `handleStream`'s place, `up` and `down` are the copiers of
  `pipe`, `relay` says whether the relay holds its end open, `target` whether the
  connection to the target is open at both ends. A copier whose source has ended
  may be "stuck": its last write has no deadline, and the far end does not read.
  A lost session or an ended worker takes its streams with it (`Follows`).
* **Lifecycle.** A service is a process id used once. A command's state is its
  program counter, its copies of the two files, the ports it chose and the
  routes still to do; `path[w]` is the manifest a worker's record names, or none
  for a tunnel started by hand. `service[s]` is what is left of a process group:
  "up" has its leader (the process `Spawn` started, whose pid is recorded) and a
  listener on its port, "quiet" the leader only, "lingering" a listener only,
  "leftover" neither, but members that may listen later; "dead" nothing.
  `ReclaimPort` takes the listener and, at most, what follows it; `KillGroup`
  the leader and, but for stubborn members, the rest. `late` is a history
  variable: the groups whose listener came later, by itself (`ListensAgain`).
* **RelaySupervisor.** `cmd` and `tld` are the struct's fields, `child` the
  processes, `watch` the goroutines, `caller` the socket handlers and
  `RunDaemon`; the body of `Ensure` is one action because it holds the mutex.
  Identities of children are used again after `Wait`.
* **HostsFile, LocalNames.** `projects` is `projects.json` as a function of the
  suffix of the base name, `cli[c].reg` a command's copy; `hosts` is the file as
  a sequence of lines, in which `WriteHosts` replaces the block line by line as
  `mergeHostsBlock` does; `leaf` and `agents` are sets of names. `last` records
  how the last command ended.
* **Topology.** A host is a sequence of labels, a label a sequence of words, so
  that flattening `app.acme` to `fix-app-acme` is concatenation. A path is the
  sequence of what its slashes separate, so that `/api/` ends in an empty one.
  A route's tunnel is its host and its prefix (`TunnelKey`).

## Runs

| Run | Checks | Instance |
|---|---|---|
| `registry` | `ResolvesLongest` | four entries, two hosts, prefixes `/a`, `/b`, `/a/b`: two of one length, one nested |
| `relay` | who holds a route and when it goes, greeting and gate before streams, history rows, refinement of `RouteDirectory`, two liveness properties | two tunnels, one request, one secret, nested prefixes, one crash; fair |
| `gate` | `GrantIsEarned`, `UnlockedStaysOpen`, `PostsLimited`, `AbandonedAreSwept` | two owners, two groups, two secrets, three hosts, two addresses; six entries tunnels may register |
| `gate_nested` | `UnlockedStaysOpen`, **violated** | a local project's bare domain and one host below it |
| `accounts` | `OneAccountPerEmail`, `EverythingHasAnAccount`, `CredentialsWork` | all three kinds of relay, two clients, two `up`s, two addresses, passwords and keys, any number of crashes |
| `accounts_local` | `OneAdminAccount`, **violated** | same |
| `certificates` | `ServesTheDisk`, `AloneCovers`, `UndisturbedUpsWork` | two processes at a time, any number one after the other, of one or two projects; two CAs, two key pairs; killed anywhere |
| `workers` | `LinkedIsRouted`, `ComesBack`, `StoppedFreesRoute`, `NobodyWaitsBehind`, `StreamsEnd` | two workers for one route, two streams, the ends of one of which may stop reading, any number of drops and relay restarts; fair |
| `lifecycle` | `CleanSlate`, `DownStopsEverything`, `OneWorkerPerRoute`, `OnlyItsOwn` | two commands on two manifests and one route by hand, overlapping at every step, one killed anywhere |
| `supervisor` | `CurrentIsWatched`, `NoRivals`, `NoNeedlessRestart`, `KeepsServing` | three child identities, two handlers, two TLDs; fair |
| `names` | `BlockIsRegistry`, `DownForgetsEverything`, `OthersKeepTheirNames`, `AdminsLinesStay` | two directories of one base name, every command, each cut short anywhere; an admin adds a line |
| `topology` | `PortsApart`, `TargetsFollow`, `TunnelsApart` | 9504 manifests, valid and invalid, with references by label, by host and by a host flattening would make, two slugs, every assignment of four free ports |

Type invariants are conjuncts of the inductive invariants that are proved
(*Proofs*) and have no run of their own.

Deadlock is not checked where the system may stop: handlers, commands and
workers end, identities are used up, a bounded clock runs out.

Bounds, all in the guards:

* `MaxCrashes`, `MaxErrors`, `MaxStops`, `MaxSyncs` (Relay, RelaySupervisor) are
  1 or 2: every fault can fall between any two steps, and the properties relate
  at most a fault to what happened before and after it. The proofs hold for
  every value.
* `MaxRunning`, `MaxBusy`, `MaxKills` (Lifecycle): two commands at once, one of
  them killed. Three commands would be needed only to hide what one left behind
  from the next; `CleanSlate` looks at the state after each.
* `Stubborn`, `Restarting` (Lifecycle) are TRUE: members of a group may ignore
  SIGTERM, and may listen once the port is free.
* `Stalling` (TunnelStreams) is one of the two streams: what hangs beside a
  stream that does not is the case `NobodyWaitsBehind` is about. With both the
  run takes several times as long; the theorems hold for any set.
* Two certificate processes at a time meet every pair of steps; a third would
  repeat what one of the two does. A CA and a key are used again once nothing
  refers to them, so that two of each are enough for one in use and one being
  made, and the number of processes is unbounded. Only where the trust store has
  kept both CAs can no third be made; the three properties are proved for any
  number, and three CAs pass, too, in a run that takes longer.
* One route is enough in `workers` because a worker's and a stream's actions
  touch only their own route and session: what may go wrong is between two
  workers of one route, or between streams of one or of successive sessions.
* The two manifests of `lifecycle` have hosts of their own, as
  `DownStopsEverything` presupposes: an `up` of a host another manifest has open
  writes over its record.
* `MaxNames` (LocalNames) is the number of suffixes, 2 for two directories of
  one base name; `MaxAgents` is 1, an agent of either directory. `FirstHosts` is
  the file the machine comes with, an older block above a line of the
  administrator's, and one more line is added at its end at any time between
  commands. `Command` has one element: the properties are promises about
  commands one at a time (see *Other divergences*).
* `TTL`, `Window`, `MaxHits` are 2 and `SweepEvery` is 1, `MaxTime` is 4 and
  `MaxUnlocks` 2 (Gate): enough for a window to slide past hits, for a sweep
  between two calls, and for a token to expire next to one that has not.
* In `accounts` the two addresses bound how often new credentials are made up.

Symmetry is used on identities no constant tells apart, in safety runs only.

## Fairness

* `Relay`: weak fairness of each handler's and each request's next step. Go
  runs every runnable goroutine, and the ten-second timer of `OpenStream` fires.
  That a CLI asks, leaves or stays, that a stream ends, that the relay crashes
  or is restarted is not assumed.
* `TunnelWorkers`: weak fairness of a signalled worker's end and of the relay's
  clean-up of a dead session; strong fairness of a redial that gets through
  (`GetsThrough`), because `Hold` retries for ever and the network and the relay
  are not assumed to be down for ever.
* `TunnelStreams`: weak fairness of `handleStream` (`HandlerRuns`: accepting, the
  dial, which ends within ten seconds, `pipe`'s return), of a copier whose read
  has ended or whose write has failed (`UpFinishes`, `DownFinishes`), and of the
  relay closing a stream the worker has closed (`RelayFollows`: its transport
  does, and yamux closes the stream itself after its `StreamCloseTimeout` of five
  minutes). No fairness of the far ends: the target and the visitor may stay,
  silent, for ever, and need not take what is written to them.
* `RelaySupervisor`: weak fairness of callers past the mutex, of `Wait`, of the
  two-second sleep, of `Kill` and of binding the port, all of which take finite
  time, and of the service manager that starts the daemon. No fairness of
  syncs, deaths and failures.

## Proofs

Every invariant, every action property and every liveness property but one of a
passing run is a theorem, for all values of the constants that satisfy the
modules' `ASSUME`s. These say that
sentinels are not elements of the sets they extend and that counters are
naturals, and, beyond that:

* `RouteAssumption`: of the prefixes of a path no two have the same length.
* `LifecycleAssumption`: no route is in two manifests, and a manifest's `run`
  routes name a port or leave it open.
* `NamesAssumption`, `FirstHostsAssumption`: `localhost` is a TLD systems resolve
  natively, and the bare name a host name; host names, the administrator's lines
  and the markers differ from each other, and in the file the machine
  comes with every begin marker has its end.
* `TopologyAssumption`: manifests are records of the types YAML gives them, a
  route's environment is one of the manifest's, and free ports are ports.

Of the safety theorems three have a hypothesis, named in their statement: `Under = {}`
(`GateUnlockedStaysOpen`), `HostsApart` (`LifecycleDownStopsEverything`),
`OneAtATime` (`NamesOthersKeepTheirs`; `BlockIsRegistry` and
`DownForgetsEverything`, promises about commands one at a time, too, state it
themselves).

* **RouteTable.** `RelayProofs` begins with what `Register`, `Unregister` and
  `Resolve` do to a table that is well typed, sorted and without duplicates
  (`TableTypeOK`, `TableOK`), as effects on the relation `Holds`.
* **Registry.** The inductive invariant is `TypeOK /\ TableOK /\ HeldExactly`.
  `HeldExactly` alone is not inductive: that removing an entry removes no other
  rests on the absence of duplicates. From it: the refinement of
  `RouteDirectory`, step by step, and `ResolvesLongest` from sortedness.
* **Relay.** The inductive invariant adds to these `HandlerInv`, which ties a
  handler's phase to its link, its greeting, its ready channel and its row, and
  `VisitInv`, which ties a request's phase to the entry it resolved: a request
  past `AwaitReady` has an entry that was greeted, one past the gate an entry
  that admits it. From it all safety properties of the relay run and
  the refinement, for any number of tunnels, requests, hosts, prefixes and
  crashes.
* **RelaySupervisor.** Types, `CurrentIsWatched`, `NoRivals` and
  `NoNeedlessRestart` from one invariant: every child that lives and was not
  killed and is watched is the current one, and the current one is watched.
* **Gate.** `GrantIsEarned` from an invariant on the jar: each cookie's token is
  one that an accepted password earned, and sits under the name and domain of
  what it covers. `UnlockedStaysOpen` is proved under the hypothesis
  `Under = {}`, that no host is below another; without it the property is false,
  which `gate_nested` shows. Its invariant says that of two cookies of one name
  and domain at most one is unexpired, and that the last password's is there.
* **Limiter.** `Allow` filters with `Live`, a `Subsequence` of the hits. Of an
  ascending list the live ones are a suffix (`LiveIsSuffix`), which is all the
  proof needs to know of it. `LimiterInv` ties the limiter to the history
  variable `posted`: the live part of an address's hits are the posted passwords
  the relay looked at within the window, of which there are at most `MaxHits`
  (`HitsOK`), and the last hit of a list that is kept was live at the last sweep
  (`Recent`). `PostsLimited` follows from the first, `AbandonedAreSwept` from
  the second.
* **Accounts, LocalAccess.** `OneAccountPerEmail`, `EverythingHasAnAccount` and
  `CredentialsWork` from one invariant. That the entry's credentials open an
  account while the relay serves is not inductive: an `up` writes back what it
  read before it logged in. The invariant adds that credentials kept or about to
  be seeded contradict no account, so that a seeding changes no password
  (`CredentialsAgree`), and that an entry without a key is the first there was,
  which stays until somebody has logged in with it (`FirstEntry`).

* **Certificates.** The inductive invariant has four parts. `DiskInv`: a time
  that is current is that of the pair it is kept with, and a handshake nothing
  was written during has read what is there; `ServesTheDisk` follows. `ProcInv`:
  a process has what it is about to write. `AloneInv`: one that was alone finds
  what it wrote; `AloneCovers` follows. `UndisturbedInv`, under the condition
  that processes came one at a time: a leaf on disk has its CA on disk, which is
  why the code may keep a leaf without looking at its issuer, and the daemon's
  files are the user's again when it is done; `UndisturbedUpsWork` follows.
* **TunnelWorkers, Lifecycle.** `WorkersInv` adds to `LinkedIsRouted` that an
  owner was started for its route (`OwnersJob`) and that a live session's worker
  holds (`LinkedHolds`). It is kept by a worker's steps, by starting one and by
  signalling one, so `LinkedIsRouted` and the refinement of `RouteDirectory`
  hold whoever does so (`FreeSpec`), and under the commands
  (`LifecycleImplementsDirectory`). For `OnlyItsOwn`
  the invariant (`IInv`) follows the identities: whatever a file or a command's
  copy of it says of a route is a worker or service that was started for that
  route and manifest, however old the copy. For `OneWorkerPerRoute`, which
  speaks of commands that follow each other, `OrderInv` adds that every live
  worker is on record, in the file or in the copy of the one command there is.

  `CleanSlate` and `DownStopsEverything` need to know what a command has done when
  it comes to a place. `TaskInv`: a service serves a `run` route, a worker a
  route of its record's manifest. `Newest`: while commands do not overlap only
  the last one started runs. `SlateInv`, with kills anywhere: from the place
  where an `up` has reclaimed its ports, whoever listens on a pinned one and is
  not `late` is a service of its own, in its copy of `services.json` and, once
  it has saved, in the file; `CleanSlate` follows. Between commands listeners
  end, and those that come are `late` (`ServiceSteps`). Ports left to the system
  are not in it, because nobody reclaims those. `LedgerInv`, without kills:
  every service whose leader lives is on record, in the file or in the copy
  about to be saved. `TornInv`: what a `down` has passed is stopped;
  `DownStopsEverything` follows. That a `down` stops the tunnels by host and not
  by manifest is why `HostsApart` is needed: an `up` of a host that another
  manifest has open drops its record.
* **TunnelStreams.** Workers that serve streams implement `TunnelWorkers`
  (`StreamsImplementWorkers`), so what is proved of the workers holds of them.
  `StreamsInv` adds, stream by stream, how far `handleStream` is and what its
  copiers do there (`HandlerAt`), and that what the relay holds of a stream is
  of a connected worker (`WorkerServes`). `StreamsAreSafe` follows: a stream the
  relay holds open is with its route's owner, one that both ends hold open is
  copied both ways, and no copier blocks. The last needs to count: pipe's
  channel is sent to at most twice (`WhatIsSent`).
* **HostsFile, LocalNames.** `Subsequence` lists a set of indices in increasing
  order: `Nth` and `Rank` are inverse to each other. From that, what `Kept`,
  `Merge` and `RenderBlock` leave of a file whose blocks are ended: the other
  lines in their order, and one block or none (`TypeInv`, in which every file is
  `WellFormed`). It holds for any number of overlapping commands, each with its
  own old copy of the registry, and so does `AdminsLinesStay`. `AloneInv` is
  about commands one at a time: the copy of the registry is the registry
  (`InStep`), an `up` that comes to publish has its names in the leaf, and a
  `down` has no entry left. `BlockIsRegistry` (the names of the registry, and
  the bare `localhost` where a reconcile finds that TLD to be the primary one),
  `DownForgetsEverything` and `OthersKeepTheirNames` follow.
* **Topology.** `FlattenSeq` is a recursive function over a sequence whose
  length nobody bounds. That it yields a sequence of words is shown by a least
  counterexample and not by the library's induction (`JoinsExists`,
  `FlattenType`). `PreviewHostsApart` has what the names of a preview tell
  apart, `PrefixesApart` what `TunnelKey` does. The inductive invariant says how
  far the manifest has been rewritten (`Rewritten`, `PortsFollow`) and that
  nothing else of a route has changed (`RoutesStay`). `MeansMeant` turns the
  lookup of a reference among renamed hosts back into what the author wrote,
  and finds the one case where it does not: a reference that is `Mistaken`.

Liveness. The prover reasons about `WF_` and `SF_`, but takes `ENABLED A` as a
proposition it knows nothing of. The six liveness theorems therefore have one
more hypothesis each, `[]RequestsCanStep`, `[]HandlersCanStep` (`RelayProofs`),
`[]WorkersCanStep` or `[]StreamsCanStep` (`LifecycleProofs`): where the guard of
a step the fairness is about holds, the step is enabled. That is so by the form
of the steps, each of which gives every variable a value under its guard and
changes one at least; TLC finds the four formulas invariant on the instances of
`relay` and `workers`. All that is not about `ENABLED` is proved:

* `RequestsSettle`, `BrokenTunnelFreesRoute`: others leave a request or a
  handler where it is or, in a crash, take it to its end (`VisitMoves`,
  `HandlerMoves`), and its own step takes it to the next place of a chain
  (`RequestAdvances`, `HandlerAdvances`). A session that is down stays down
  (`BrokenStays`), and outside `Holding` there is no route to give up.
* `StoppedFreesRoute`: a signal stays, a worker that is gone stays gone and
  takes no route (`GoneTakesNothing`), and the clean-up of its session leaves it
  none (`ReleaseFrees`), since it owns at most the route of its job.
* `ComesBack` rests on strong fairness: while a worker retries and its route is
  not another's, the route is free, or is its own old session's and is freed;
  a dial whose answer is lost may claim it again, so it is free again and again
  and not for good.
* `NobodyWaitsBehind`, `StreamsEnd`: what has ended of a stream does not begin
  again (`EndingGoesOn`). From either end closed, one copier ends, `pipe`
  returns, the relay closes, the other copier ends, and a stream of which all
  has ended is gone (`AllSettled`). The one exception is in the formula: a copier
  stuck in a write to the end that is still open (`Hangs`).

Only model-checked: `KeepsServing`. That the relay's children do not go on
replacing each other rests on counting down crashes, failures and syncs, whose
bounds are constants: an induction over numbers of a temporal formula, which is
out of the prover's reach. The two refuted properties are refuted by runs.

## Findings

* `gate_nested`: `SetGateCookie` sets `Domain` to the host, which makes browsers
  send the cookie to subdomains as well, the older one first, and
  `visitorCredential` looks at the first cookie only (`main.go:696`). On a local
  relay a visitor who unlocked `proj.dev` can enter the password of
  `app.proj.dev` for ever. `sessions.go:190-191` says the cookie "never leaks to
  other subdomains".
* `accounts_local`: `cmdUp` replaces the config entry of a local TLD by one with
  the key only (`main.go:616`). `RelayEnv` therefore makes up credentials not
  "on first use" (`ensure.go:192-193`) but at each start of the relay after an
  `up`, and the relay seeds one more account each time, which owns neither the
  key that is in use nor the tunnels.

Other divergences the models show, which no run is spent on:

* `limiter.go:9-10` says the limiter "guards signup and tunnel-gate attempts",
  but `visitorCredential` compares secrets sent as HTTP Basic or
  `?access_token=` on every request, before the limiter and without it
  (`main.go:636`, `707-712`), as often as they are sent (`Carries` in `Gate`).
  `PostsLimited` is about the password form only.
* Two secrets in one manifest share a group cookie, so unlocking a host with one
  locks the hosts with the other again (`Superseded` in `Gate`).
* Two first `up`s at once: the second finds neither key nor credentials
  (`LocalAccess`). A key on file that was revoked is never replaced.
* Two first `up`s at once may also leave the CA of one with the leaf of the
  other, which covers the names and so is kept for ever: the relay's health
  check then fails in every later `up`. A daemon killed before `chownCerts`
  leaves keys of root's, which no `up` may open (`Certificates`; the hypothesis
  `disturbed` of `UndisturbedUpsWork`).
* The relay makes a transport for each request (`main.go:665-670`), which keeps
  its idle stream, and the connection behind it, until the target closes it or
  the session ends; and `handleStream` returns with the first copier, so an
  answer given before the upload has been read may be cut (`TunnelStreams`).
* `io.Copy` in `pipe` writes without a deadline (`tunnel.go:242-243`). Where a
  visitor leaves during an upload and the target stays, reading nothing, or the
  target closes and the relay stays, reading nothing, both goroutines, the
  handler and the connection stay as long as that end does (`Hangs` in
  `TunnelStreams`).
* A key revoked between the `SELECT` and the `UPDATE` of `ValidateAPIKey` is let
  in; revoking ends no tunnel (`Accounts`).
* A crash of the relay leaves `tunnel_events` rows open for good (`Relay`).
* A second `up` beside a foreground one is torn down by the first, which sees
  its services exit and stops whatever is on record for the manifest; a worker
  started between `Start` and `Save` of a killed `up` is found by nobody;
  `services.json` loses records of overlapping commands (`Lifecycle`).
* The restart of `up` "keeps `roxey up` deterministic and orphans impossible"
  (`main.go:671-673`), but `ReclaimPort` signals whoever listens on a pinned port
  and nobody else (`runner.go:274-293`): the leader of an unrecorded group, a
  shell or a watcher, and its other members live on unrecorded and may take the
  port when nobody listens on it. After a failed
  `Spawn`, `KillGroup` returns with the leader's end and may leave a stubborn
  member in a group nobody records (`runner.go:62-65`). `SpawnForeground` leaves
  none: nobody reaps its leader, so `KillGroup` waits its five seconds and sends
  SIGKILL. `CleanSlate` excludes what came back in such a way (`late`), and says
  nothing of groups that do not listen (`Lifecycle`).
* `Stop` "prevents restarts" (`relay.go:49`), but a goroutine that sleeps starts
  a child afterwards; a restart that fails is not tried again; a relay of an
  earlier daemon that binds after `ReclaimPort443` keeps the port; a goroutine
  that wakes, or a handler that read the primary TLD before another's sync,
  restores the older TLD (`RelaySupervisor`).
* Two overlapping commands each publish the block from the registry as they
  loaded it: the later one unmaps what the other registered; without the helper
  the last project's names stay mapped, since `SyncHosts` ignores an empty list;
  `service uninstall` leaves the agents of entries that lost their flag
  (`LocalNames`).
* The block is not only of registered names: where `localhost` is the primary
  TLD the daemon's reconcile writes the bare `localhost` into it
  (`daemon.go:70-72`), which the next `up` or `down` that publishes takes out
  again (`Reconciled`, `HostNames` in `LocalNames`).
* What stands below a block that lost its end marker is taken for the block and
  dropped; what another program writes to `/etc/hosts` while `sudo` asks for the
  password is overwritten (`HostsFile`).
* Flattening makes one host of `a.b` and `a-b`, and up one prefix of `/api` and
  `/api/`, which `Validate` tells apart (`Topology`, the exceptions
  `TunnelsApart` names).
* `portIndex.port` compares hosts after they have been renamed
  (`manifest.go:240`), so that in a preview on a relay that flattens a
  `{{port:a.b}}` whose host has no spawned root route gets the port of `a-b`,
  where the README has it resolve to "the named host's spawned `/` route"
  (`README.md:277-278`). Without a preview it is the error of `manifest.go:252`
  (`Topology`, the exception `Mistaken` of `TargetsFollow`).
* The keys of `tunnels.json` have no TLD (`main.go:170-207`): tunnels of one
  host under two TLDs share a record. A worker that ended under a foreground
  `up` that runs on is a zombie and counts as alive for `processAlive`. Neither
  is in the model.

## What is not modelled

* The protocols below a session: websocket frames, yamux, TLS, HTTP; bytes of
  cookies, tokens and hashes (a signature is a token nobody else can make).
* `doctor`, the texts of service units, the control plane and lookup clients,
  web pages, packaging: no state, or nothing but I/O.
* Expiry of certificates (the leaf's 825 days are looked at by nobody), names
  of other TLDs in them, and the old `_service-relay` entry. Two writes to a
  file are taken to have different mtimes.
* Writes of `tunnels.json`, `services.json`, `config.json` and `projects.json`
  cut in half: they are atomic in the models, while `saveJSON` truncates first.
  The code does not recover from one: every later command fails where it loads
  the file.
* A write of `/etc/hosts` cut in half. As root it is a rename; without root it is
  `sudo cp` (`hosts.go:115-116`), which truncates the file before it writes it.
  `AdminsLinesStay` is about what the merge makes of the file it read.
* A service's leader that exits by itself and leaves its listener behind
  (`Lifecycle`): by itself a group ends as a whole, or loses its listener; a
  leader that goes first goes by `KillGroup`.
* Config entries of several TLDs, which overlapping commands also overwrite.
  `roxey auth`, which beside a first `up` whose daemon fails may put back an
  entry without an account; and the start of the relay through `sudo`, outside
  the supervisor's mutex, where two starters may seed twice.
* YAML, syntax of names, working directories, references in environment values,
  the labels a hosted relay adds (`Topology`).

## Plan

Written, in this order: the routing table and its directory; the relay's
handlers over it; their proofs; workers and the commands that start them; the
supervisor and its proofs; names; gate and limiter; topology; accounts;
certificates; streams; the hosts file; the proofs about certificates, workers
and commands, the limiter, names and topology; those about streams and about
what happens in the end.

Next:

1. Proofs: an abstract specification of what `up` and `down` promise, and
   `Lifecycle` shown to implement it, over the invariants there are.
2. `LocalNames` with previews told apart and two commands at once.
3. `roxey auth` and the start through `sudo` in `LocalAccess`; writes cut in
   half in `Lifecycle`.
