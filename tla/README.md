# A verification project for the uBlockDNS client

The client is a DNS proxy on `127.0.0.1`. It forwards the host's queries over
DoH to a filtering profile, falls back to plaintext resolvers when DoH cannot
be reached, purges its caches when the profile's rules change, updates its own
binary, and points the host's DNS at itself while it runs. Its hard parts are
not in the packets but in the goroutines around them: who tests endpoints and
when, which timer flushes a cache, and who restores the host's DNS when a
process ends. That is what is modelled here.

Paths are relative to `src/internal/` unless they start with `src/`.

## The system

| component | code | state | operations | interacts with |
|---|---|---|---|---|
| endpoint manager | `runtime/endpoint_fallback.go` | the selection, the run in progress and its error | `Test` (coalesced), `probe`, `watch` | queries, watch, network change and refresher call `Test`; the DNS library reads the selection |
| query retry | `runtime/resolver_retry.go` | one query's payload, buffer, deadline | first attempt, recovery, second attempt | calls the endpoint manager's `Test` |
| bootstrap lookup | `runtime/dns_bootstrap.go` | a channel of results, two budgets | race resolvers, discover the network's | used at the start, and by the refresh |
| bootstrap refresh | `runtime/dns_bootstrap.go` | the DoH endpoint behind an atomic, `busy` | look up, store, `Test` | started by a network change |
| network watch | `runtime/network_watch.go`, `dns_activation.go` | last snapshot, a channel of one event | poll, compare, send | re-activates system DNS, tests endpoints |
| fallback provider | `runtime/endpoint_fallback.go` | cached servers (Windows), `refreshing` | `GetEndpoints`, `refresh` | the endpoint manager's second provider |
| rules watcher | `runtime/rules_watcher.go`, `rules_sse.go`, `rules_api.go` | `currentVersion`, backoff, the stream | fetch, stream, reconcile | hands versions to the flush |
| debounced flush | `runtime/rules_watcher.go`, `core/dns_cache_flush.go` | `flushTimer`, `flushGen`, `firstPending` | `scheduleFlush`, timer callback, `doFlush` | purges the proxy's cache, then the system's |
| proxy runner | `runtime/proxy_runner.go` | context, `stopped`, hooks | `Start`, serve, join, `Stop` | runs the init and ready hooks |
| system DNS hook | `runtime/dns_activation.go`, `core/dns_activate.go` | the host's DNS setting | activate, re-activate, restore | ready hook of the runner; also called by commands |
| auto update | `runtime/auto_update.go` | timer | check, apply, relaunch | init hook; ends the process |
| binary update | `update/update.go` | the executable, `.new`, `.old` | compare versions, download, verify, replace | auto update and the upgrade command, at the same time |
| Linux system DNS | `core/linux_dns_*.go` | `resolv.conf`, backups, drop-ins of five DNS managers | configure, restore | daemon and commands, at the same time |
| service commands | `service/control.go`, `install.go`, `systemd_unit.go` | the installed service, state files | install, roll back, start, stop, upgrade, uninstall | service manager, system DNS |
| status | `service/status*.go` | none | conclude readiness | reads the platform |
| state store | `state/*.go` | token and install files | write, read, clear | install, run |
| daemon log | `runtime/daemon_log.go` | the open file and its size | write, rotate, close | everything that logs |
| command line | `src/cli.go`, `runtime/runtime_config.go` | none | parse, dispatch | all commands |

What makes each correct, and what makes that hard:

- **endpoint manager**: one run at a time; its outcome reaches every waiter; a
  selection is never replaced by an older one; the library uses what is
  selected. Probes take a second without any lock, and any caller's context
  may end meanwhile.
- **recovery as a whole**: a dead endpoint is left by the queries that meet it;
  the plaintext fallback is left without any query failing.
- **query retry**: the second attempt has time, asks the right question, and an
  expired cached answer is not lost, although payload and buffer may be one
  piece of memory.
- **flush**: every rules version leads to a purge that covers it, bursts are
  coalesced, the proxy is purged before the system. Callbacks may be late.
- **rules watcher**: no version is recorded without a flush; what was published
  while no stream was open is found out.
- **daemon and system DNS**: the host never asks a proxy that is gone for good;
  a stopped runner has restored DNS.
- **Linux system DNS**: the host's own `resolv.conf` is never lost and comes
  back, whichever step fails, dies or is repeated, and whoever does it.
- **service commands**: an install that fails takes back exactly what it did,
  over a service that may have been there before, whichever step fails; wherever
  a command is killed, the host does not keep asking a proxy that is not there.
- **binary update**: a crash between two renames, a release that is withdrawn,
  and versions of different kinds neither lose the executable nor lead back to
  an older one, and the newest release is reached.
- **bootstrap lookup**: the first usable answer of a race counts, however the
  others end; public resolvers that are blocked leave time for the network's own;
  no goroutine stays behind.

`PROJECT.json` lists every component with what is modelled of it, and the
hazards of the code, each at its line with the properties that would catch it.

## Modules

| module | models | how it corresponds to the code |
|---|---|---|
| `EndpointManager` | `endpointManager.Test` | `pc` is where a goroutine is inside `Test`; one action per stretch between two points where another goroutine may run: the critical section that joins or leads (`EnterJoin`, `EnterLead`), each provider, each probe, the check of the context with the swap, the library's test, the deferred close. `reach` is the network. A DoH endpoint is its generation, so that "older" is `<`. |
| `Recovery` | callers of the manager | EXTENDS `EndpointManager`; a query, the five-second watch, the loop of network changes and the refresh goroutine are its callers and replace its free `Call` and `Cancel`. `srv` is where the service really is. |
| `Bootstrap` | `bootstrapLookup.resolve` and `lookup` | an exchange is a server and a transport; `flying` are the goroutines that have not ended, `results` and `room` the channel, `left`, `pleft` and `dleft` what the three contexts have left. |
| `FlushPromise` | what `scheduleFlush` promises | two variables: what was handed over, what the caches are as new as. |
| `RulesFlush` | `scheduleFlush`, its timers, `doFlush` | `flushTimer`, `flushGen`, `firstPending` as in the code; `armed` and `fired` hold timers before and after they can be stopped; `purging` and `osFlushing` are the goroutines inside `doFlush`. Implements `FlushPromise`. |
| `RulesWatcher` | the loop of `watchRulesUpdates` | EXTENDS `FlushPromise`, so that the loop is checked against the promise and not against the timers. (`WInit`, `WNext`, `WSpec`: `RulesProofs` extends both modules.) |
| `DaemonLifecycle` | `proxyRunner`, its hooks, the updater, `ServiceStart` and `ServiceStop`, the service manager | one variable per goroutine; `dns` is the host's setting; a scenario `may` says which mishaps and commands occur. |
| `Install` | `InstallDetailed` with `rollbackInstall`, `Uninstall`, `ServiceStart`, `ServiceStop`, `Upgrade`, `ensureSystemdRestartPolicy` | `pc` is the step a command is at, `cmd` what it remembers; `unit`, `stored`, `token` are what it leaves on the host. The daemon is followed as far as its proxy and its hook go. `before` and `cmd.spent` are history: what the host was like, and what had failed when a rollback began. |
| `Versions` | `compareVersions`, `IsNewer` | pure operators; a version is three numbers and a sequence of identifiers. |
| `SelfUpdate` | `Apply`, by the daemon and the upgrade command | EXTENDS `Versions`; `exe`, `old`, `new` are the files, `fd` where a download writes to, wherever that was moved; a file holds the number of a release. |
| `RetryResolver` | `retryResolver.Resolve` | `left` is the time left, in tenths of a second; an attempt takes any part of its budget; `buf` is the buffer, `payload` where `q.Payload` lies (the buffer, memory of its own, the copy), `copy` what the copy holds. |
| `LinuxSystemDNS` | `ConfigureLinuxSystemDNS`, `restorePlatformInstallArtifacts` | `resolv` and `bak` are `resolv.conf` and its backup; the host has one of six DNS managers, whose file is `conf` with backup `confBak`, and `loaded` is what it runs with; `own` and `ownConf` remember what the host had. `pc` is where a process is; each look at `resolv.conf`, each change of a file and each command is one action. A scenario's `overlap` says which calls may run beside which: the code has no lock. |
| `SystemDNS` | what `ActivatePlatformSystemDNS` and `restorePlatformInstallArtifacts` promise | three variables: the host's own setting, whom the host asks, where each call is. The setting is lent, a call has its effect at one moment, success means that it had it. `LinuxSystemDNS` implements it. |
| `*Proofs` | | the theorems about the module of that name; `RecoveryProofs` has those of `EndpointManager` too, `RulesProofs` those of `RulesFlush`, of `RulesWatcher` and of both together. |
| `MC*` | | sets for the configurations. |

`DaemonLifecycle`, `Install` and `LinuxSystemDNS` overlap on purpose. The first
has the goroutines of one process and single-step commands, the second every
step of the commands and a daemon in four states, the third every file that
both of them touch when they set or restore system DNS in one step. What lets
them take one step is `SystemDNS`: among its steps only `Activates` points the
host at the proxy, a call that reports success has had its effect (which an
activation beside it may be about to repeat), and an activation that fails has
had none of its own, or only that the old setting is gone. Its restores run
alone; neither the code nor those two modules see to that.

Definitions whose comment starts with "Mutant:" are not part of a
specification. Each is a plausible slip in the definition that follows it, kept
to show that a property notices it.

## What the runs check

| run | configuration | shows |
|---|---|---|
| `endpoint_manager` | two callers, DoH generations 0 and 1, one plaintext resolver, free contexts and network, fair scheduling | `OneRun`, `SyncedAfterSuccess`, `SelectionNeverRegresses`, `TestReturns` |
| `recovery` | one query at a time beside the three goroutines of the daemon, two DoH generations, one plaintext resolver | once DoH keeps answering, queries end up on it (`ReturnsToEncrypted`); queries that fail on a dead encrypted selection, which `watch` does not look at, bring the stored endpoint into use (`QueriesRecover`); addresses the service moved to come into use (`MovesAreFollowed`) |
| `rules_flush` | four versions, five ticks, debounce 1, cap 2 | `FlushIsOwed`, `SettledIsFresh`, `FlushAfterPause`, refinement of `FlushPromise` with its liveness |
| `rules_flush_cap` | debounce 2, cap 4, no lag | **violated**: see finding 1 |
| `rules_watcher` | four versions, services that do and do not replay | `KnowsWhatItScheduled`; a change of the rules after the initial fetch leads to a purge, whatever was lost (`UpToDateWhenOpen`, `LaterReconcileRepairs`) |
| `daemon` | two scenarios, up to three mishaps | a stopped runner has restored DNS (`RestoredBeforeStopped`), whenever nobody answers something due ends that (`OutageIsMended`), and it does (`OutageEnds`, `StopRestoresDNS`) |
| `retry_resolver` | every deadline up to 5 s in tenths | `SecondAttemptHasTime`, `CachedAnswerSurvives`, `AsksTheQuery` |
| `linux_dns` | daemon and command, two contents of `resolv.conf` and a symbolic link, six managers, three scenarios | activations alone and overlapping, restores alone: `KeepsOwn` at every step; `RestoredGivesBack` after every restore that reports success; each step is one of `SystemDNS` or none (`ImplementsSetting`) |
| `self_update` | six releases, the daemon and one upgrade command, two mishaps | `KeepsABinary`, `OnlyVerified`, `NeverDowngrades`, and the newest release is reached (`EventuallyUpdated`) |
| `install` | every command in any order, two profiles, three mishaps of one scenario | a failed install is taken back (`RollbackRestores`), an outage always has something due that ends it (`OutageIsMended`) and does end whatever fails or is killed (`OutageEnds`), an install that succeeds serves (`InstallServes`) |
| `install_rollback` | one failing step | **violated**: see finding 2 |
| `bootstrap` | two public resolvers, one of the network and a loopback one, five deadlines | `AnswerCounts`, `HalfIsReserved`, `EverybodyEnds`; no goroutine waits for room in a channel nobody reads (`NobodyBlocks`) |

### Bounds

- *Two callers* are enough for a leader, a waiter and a caller that arrives in
  the middle of a close. The safety properties are proved for any number; a
  run with three callers and a local resolver was also explored (2.25 million
  states) and passed.
- *Two generations* let a refresh happen while the old endpoint is probed; more
  repeat that. The proof has no bound.
- *One query at a time* in `Recovery`: a second query would only join the
  run of the first, which the watch and the network change do already. A
  scenario has a service that moves or clients that send queries, not both: the
  variable `clients` keeps the state space at six hundred thousand states (two
  minutes). With clients the service has moved before the first query, so that
  a refresh may store the new endpoint while the old one is selected, and the
  test that follows may find nothing that answers; changes of the network end
  once the refresh has found the new address, so that nothing but a query
  repairs that. Addresses the service has not moved to yet do not answer.
- *Four versions, five ticks*: the first pending version, one that replaces its
  timer, one that finds it overdue and one that meets a late callback. The
  clock is bounded by `MaxTime`; `Event` keeps the due time within it, so that
  no flush is cut off by the bound. `rules_flush_cap` needs eight versions and
  nine ticks to let events outlast the cap.
- *Three mishaps* let a process fail, come back and fail again, or an install
  fail, its rollback fail, and the service with it. In `install` the scenarios
  are steps that fail; commands that are killed; a daemon that crashes beside
  another program on port 53. Properties about what a rollback restores hold
  only while nothing fails in the rollback itself, so combining them adds little.
- *Two profiles* are an install over another one's service. What a rollback
  restores and that outages are mended is proved for any profiles and mishaps.
- *Two processes, two contents*: backup and file hold at most two contents that
  differ from the managed one, and a third process would find the host as one
  of the two leaves it. The scenarios of `linux_dns` are edits of the host
  without failures; failures and deaths without edits; activations that overlap
  on a host that has a backup, with failures and deaths. Three combinations are
  left out because they lose the host's file by themselves: a backup that a
  failed or killed process left behind is trusted although the host edited its
  file since; two activations that are both the host's first may back up each
  other's file; and a restore beside an activation removes the backup before the
  managed file is written. All are in the list of hazards. So nothing is shown
  of a restore that does not run alone (`RestoredGivesBack` included). The three
  properties are also proved, for any number of processes and contents.
- *Six releases* (0.2.9, 0.3.0-7, 0.3.0-rc.2, 0.3.0-rc.10, 0.3.0, 0.10.0) have
  one of each comparison the code makes: numbers of different length,
  numeric and alphanumeric identifiers, a candidate and its release. That the
  order is strict and total is proved for all versions. *Two mishaps* are a
  crash and what may follow it: another crash, a step that fails, a withdrawal.
- *Six ticks* of budget, one of them for a discovery; deadlines from none, over
  one too short to be halved, to one longer than the budget. Two public
  resolvers make four exchanges, so that errors, unusable answers and a usable
  one come in every order. The safety properties are proved for any finite sets
  of resolvers.
- *Tenths of a second* keep the proportions of 1.5 s, 2 s and 5 s.

### Fairness

Only what the runtime does is fair: a goroutine that can run runs, a timer that
is due fires, a request ends one way or the other, the service manager launches
what it wants to run, time passes. Nothing is assumed of the network, of
clients, of the DNS library's own tests, of crashes, failures or updates, or of
another program on the port; liveness properties that need the network say so
(`DohStaysUp`, `LookupsFind`, "the stream stays open", "fetches keep
succeeding"). A command, once begun, goes on until it ends or is killed; the
daily check for updates is made again and again. `RulesWatcher` also takes
`FlushPromise`'s liveness, which `rules_flush` shows. All fairness is weak, but
for that liveness assumption: a goroutine inside a function stays enabled until
it moves. `LinuxSystemDNS` has safety properties only and assumes no fairness.

Deadlock is not looked for where the system may stop: the clock of `RulesFlush`
ends, a resolution of `Bootstrap` ends, a daemon that was stopped stays so
(`DaemonLifecycle`), and a host whose update was cut off between two renames
has no executable to run (`SelfUpdate`).

## Findings

1. *Maximum delay* (`rules_flush_cap`). A stale callback clears `flushTimer`
   before it compares generations, although "the stale callback is a no-op".
   The next event takes that for an idle timer and restarts the cap, and the
   newest timer cannot be stopped any more. No flush is lost (`FlushIsOwed` is
   proved); it is late. With the assignment moved behind the comparison
   `FlushCap` holds in the same configuration.
2. *Recovered service* (`install_rollback`). The unit the service library writes
   has no `Restart=`, and `ensureSystemdRestartPolicy` "fixes" it
   (`service/systemd_unit.go` 35-37). `InstallDetailed` calls it after
   registering (130); `rollbackInstall` registers the previous service again
   (192) and does not. A failed install over a service that was restarted after
   a crash leaves one that is not: its next crash leaves system DNS at
   127.0.0.1 until somebody starts it.

### Not in a run of its own

Modelling met more behaviours that a comment or the README of the repository
does not lead one to expect. The runs above leave them out, by a scenario, a
guard or a constant that is named here, and each can be seen by changing it:

- *Network change that joins an old run.* `runtime_run.go` 115-116 wants a dead
  DoH connection replaced "immediately instead of after queries fail into it". A
  network change that comes while a run is under way joins it, also after that
  run's probe was answered on the old network (`endpoint_fallback.go` 64). The
  call reports success and the dead endpoint stays; `watch` does not look at an
  encrypted selection. Only queries that fail repair it, as they do in the run,
  where it is a refresh that leaves the dead endpoint (`QueriesRecover`).
- *What was cached before the initial fetch.* `watchRulesUpdates` runs beside
  the listener (`proxy_runner.go` 25-27, 51), and its first fetch may take 30
  seconds (`rules_api.go` 47). The version it returns is recorded and nothing is
  purged (`rules_watcher.go` 22-24): what the proxy answered until then, and what
  the system has cached since before the daemon was launched, stays until the
  next version, and no reconciliation repairs it, since the version is not newer.
  `src/README.md` 120 says that the client "flushes the local DNS cache
  automatically so new decisions take effect quickly", and `runtime_run.go`
  69-71 that changes "take effect immediately". `UpToDateWhenOpen` and
  `LaterReconcileRepairs` are violated without their condition `Changed`.
- *A restore beside an activation.* A start command (`control.go` 67) that has
  found the backup (`linux_dns_configure.go` 99) goes on to write the managed
  file while the daemon's hook restores (`dns_activation.go` 37). If it writes
  after the restore has removed the backup (`linux_dns_restore.go` 98), the
  host's own file is gone: the managed one is left without a backup, which the
  next activation backs up. `KeepsOwn` is violated in the scenario `Racing`.
- *An activation that is undone by another.* On a host whose `resolv.conf` is a
  link, two activations may both see the link; the second removes the managed
  file that the first has written (`linux_dns_configure.go` 132-133) and writes
  it again. In between the first reports success although there is no
  `resolv.conf`, and if the second dies there it stays so. The backup is intact.
  This is in the run: `SystemDNS` says of success only that the host is away
  from its own servers.
- *Zombie.* A listener that fails later than five seconds after the start leaves
  a process without a proxy. The hook restores DNS, but the process is still
  "running": `ServiceStart` starts nothing and points DNS at it. `StartServes`
  of `DaemonLifecycle` is violated in the scenario `Repairing`.
- *Own backup.* `backupResolvConf` does not look for the marker of the managed
  file. Without a `resolv.conf` the first activation has nothing to back up, and
  the second backs up the file of the first. A restore gives that back, takes it
  for the host's and skips the clean-up that would have removed it. (A second
  restore removes it.) `RestoredIsNotOurs` of `LinuxSystemDNS` is violated in
  the scenario `WithoutResolvConf`.
- *Update while stopping.* The updater is not joined by `Stop`. If an update
  ends the process (`auto_update.go` 69) while the hook is about to restore DNS,
  and the service was asked to stop, nobody restores it. `StopRestoresDNS` is
  violated when a scenario has both "update" and "managerStop".
- *Two updates at once.* The daemon and the upgrade command use the same
  `exe.new` and `exe.old` and nothing keeps them apart. With `Overlap = TRUE`
  `SelfUpdate` puts a download that is not whole in place (`OnlyVerified`,
  thirteen states) and loses both executables (`KeepsABinary`, fifteen).
- *A daemon behind an upgrade.* It compares the latest release with its own
  version and not with that of the file it replaces (`update.go` 215). If the
  restart after an upgrade failed and the release is withdrawn, it may go back;
  `NeverDowngrades` excepts it.
- *Killed in the first five seconds.* A command that is killed between stopping
  a service and restoring DNS leaves the setting to the daemon's hook, which
  a daemon that has just started does not have yet. `Kill` of `Install` leaves
  that point out.

## What is proved

TLAPS proves, for every value of the constants:

- `RecoveryProofs`, of the endpoint manager: `TypeOK`, `OneRun`,
  `SyncedAfterSuccess` and `SelectionNeverRegresses`. None is inductive: that
  the swap never goes back needs to know what a run in progress holds. `IInv`
  adds `CandidateNotOlder` (while DoH is probed, the candidates are no older
  than the selection and no newer than the stored endpoint; a chosen endpoint is
  plaintext or the same) and `Synced` (a run about to close with success has
  told the library). `OneRun` is used in every step: the run's candidates are
  shared state and only the leader touches them.
- `RecoveryProofs`, of the composition: the same for any number of queries and
  moves of the service, while queries, ticks, network changes and refreshes
  call the manager. The lemma `StepOfManager` says that each of their
  steps is one of the manager's, a refresh that stores addresses and calls, or
  none of the manager's; `RefreshKeepsIInv`, that such a refresh in the middle
  of a run leaves what the run holds valid. `Composed` adds that nobody knows a
  newer address than the service has.
- `RulesProofs`, of the flush: `TypeOK`, `FlushIsOwed`, `SettledIsFresh`,
  `FlushAfterPause`, and that every initial state and step of `RulesFlush` is
  one of `FlushPromise`. `IInv` adds that generations are never ahead of the
  version, that the newest timer does not fire early, and that every purge is
  followed by the system's flush.
- `RulesProofs`, of the loop: `WTypeOK` and `KnowsWhatItScheduled`. The
  strengthening is `StreamOfPublished`: an event on its way announces a version
  that was published.
- `RulesProofs`, of both: the conjunction of the two specifications, with the
  variables of the promise taken for those of the flush (`Linked`), keeps
  `KnownIsOwed`: every version the loop knows of, other than the one its
  initial fetch returned, is covered by a purge or has a flush owed for it. For
  that one nothing is purged (see the findings).
- `BootstrapProofs`: `TypeOK`, `AnswerCounts`, `NobodyBlocks` and
  `HalfIsReserved`, for any finite sets of resolvers, deadlines and budgets.
  `IInv` says whose turn it is (`Turns`), that the room left in a channel is
  enough for the goroutines still in flight (`HasRoom`), that what was received,
  what is in the channel and what is in flight make up what was asked
  (`Counted`, which is why a lookup that has received as many results as it
  expects has nothing more to wait for), that an answer that came in time is
  in the channel or returned (`Kept`), and what is left of the budget at each
  phase (`HalfLeft`). Counting rests on the library's facts about finite sets.
- `InstallProofs`: `TypeOK` without a hypothesis; `RollbackRestores` and
  `OutageIsMended`, each for scenarios that keep certain mishaps apart.
  `IInv` says which steps each kind of command goes through (`KindAt`), what it
  remembers (`Remembered`), what it has established at each step (`StepAt`), and
  that only a mishap makes it fail (`Blame`). `RollbackRestores` adds
  `Achieved`, what each step of a rollback has given back so far, and assumes
  `Apart`: steps that fail do not come together with another program that
  takes the port, since no rollback can give back a service whose port is
  taken meanwhile. `OutageIsMended` adds `OutInv`, in two halves (only steps
  fail or are killed; only daemons die), and assumes `Sheltered`, which keeps
  them apart: a unit whose patch failed does not bring back a daemon that
  crashes later. Both hypotheses hold of the three scenarios of the run.
- `DaemonLifecycleProofs`: `TypeOK`, `RestoredBeforeStopped` and
  `OutageIsMended`, for any number of mishaps. `HookOwnsDNS` is the
  strengthening of the second: once the hook is done DNS is restored, because
  nobody else sets it while the command line is not used. That of the third is
  `OutInv`: what the goroutines of a process know of each other (`Process`), and
  one half for each kind of scenario, those in which only a stop command takes
  the proxy away for good (`WhileCommanded`) and those in which the process ends
  only as it should (`WhileManaged`). It assumes `Sheltered`, which keeps
  listeners that fail late apart from crashes and commands: the zombie of the
  findings is an outage that nothing ends. The two scenarios of the run satisfy
  it.
- `RetryResolverProofs`: `TypeOK`, `SecondAttemptHasTime`,
  `CachedAnswerSurvives` and `AsksTheQuery`, for any set of deadlines and any
  caps. The strengthening bounds what is left after each stage, keeps the copy of
  the cached answer intact, and says that the payload's copy holds the query
  from before the first attempt on (`Preserved`).
- `SelfUpdateProofs`: `TypeOK`, `KeepsABinary`, `OnlyVerified` and
  `NeverDowngrades`, for any releases and any number of processes, crashes and
  failures, **if updates take turns** (`~Overlap`; without that they are false).
  `IInv` says of each step of `Apply` what the three files hold. The last one
  also assumes `InOrder`, that releases were published in the order of their
  versions, and rests on `StrictOrder`. `InOrder` is a hypothesis of the theorem
  and not an `ASSUME`, so that a run with another order of versions shows what
  it means for updates; the six releases satisfy it. `StrictOrder` and
  `TotalOrder` say that `Precedes` is a strict total order on versions with any
  numbers and any number of identifiers of both kinds; their lemmas go by the
  first place at which two versions differ.
- `LinuxSystemDNSProofs`: `TypeOK`, and `KeepsOwn`, `RestoredGivesBack` and
  `ImplementsSetting` for any number of processes and contents of the file. The
  last three are proved of scenarios that are `Sound`: the host has a
  `resolv.conf`, where it edits it nothing fails, dies or overlaps, and a restore
  runs alone (see the bounds; the scenarios of the run satisfy it, the code does
  not see to the last). `IInv` adds whose turn it is (`Turns`: only activations
  overlap, and only once there is a backup), what a process has read at each
  step and what may have become of what it wrote (`StepAt`), that only the
  managed file is ever locked (`LockedIsOurs`), and that without failures a host
  that is at rest with a backup has the managed file (`Calm`), which is why its
  edits make no backup stale. The lemma `OneMoves` says once
  that a step of one process disturbs none of that of the others.
  `BackInv` strengthens `IInv` for what a restore gives back: the manager's file
  and its backup fit what the host had, manager by manager (`ConfFits`: where no
  backup is kept, the file itself tells what the host's was), a manager that
  runs with our configuration still has it in its file or is about to be
  restarted (`LoadedFits`), and what each step of a restore without errors has
  established (`ConfAt`).
  The refinement maps `resolv` to whom the host asks and the place of a process
  to that of its call; it needs `IInv` and, for a restore that succeeds,
  `RestoredGivesBack`. An activation may report success while another one has
  removed the managed file in order to write it again, which is why success in
  `SystemDNS` says that the host is away from its own servers and no more.

The types of `RulesWatcher`, `RetryResolver`, `DaemonLifecycle` and
`LinuxSystemDNS` are proved only; the runs have deeper properties to spend
their time on.

Assumptions: the named `ASSUME`s of the modules (numbers are naturals, the nil
pointer is not a caller, endpoints of different kinds differ, there are finitely
many resolvers, no profile is the mark of a missing one) and the hypotheses
named above. Every run evaluates the `ASSUME`s.

Only model-checked: every liveness property (`TestReturns`,
`ReturnsToEncrypted`, `QueriesRecover`, `MovesAreFollowed`, `UpToDateWhenOpen`,
`LaterReconcileRepairs`, `OutageEnds` of both modules, `StopRestoresDNS`,
`InstallServes`, `EventuallyUpdated`, `EverybodyEnds`) and the liveness half of
`KeepsPromise`, since the prover has no `ENABLED`.

## Abstractions

- Probing, resolving and fetching are one step each with a free outcome; what a
  DNS message looks like is left out.
- A discovery finds any subset of the local resolvers.
- The run's two seconds are a flag that may be set once DoH was probed without
  success (a probe takes at most one second). A caller's context may end at any
  time in `EndpointManager`; in `Recovery` it outlasts the probe of DoH, as the
  code's budgets do.
- Activating system DNS may fail and changes nothing then; restoring it is
  assumed to succeed in `DaemonLifecycle` and `Install`, because how it fails is
  the subject of `LinuxSystemDNS`. A step of a command that fails changes
  nothing. `Upgrade` may or may not have replaced the executable; how is the
  subject of `SelfUpdate`.
- In `SelfUpdate` a file holds a whole release, known by its number, something
  that is not whole, or nothing. The download, the checksums and the signature
  of the manifest are taken to tell these apart; a check before the download
  that fails changes nothing and is no step. That a parsed version is the one
  that was written is external.
- In `Bootstrap` an answer is usable or not, and time is counted in ticks. A
  result that is in the channel is received before the next tick; only at the
  end of a context does `select` choose freely.
- In `LinuxSystemDNS` reading or writing a file is one step. What only runs where
  nothing overlaps looks at `resolv.conf` and reads it in one step (`Read`), and
  unlocking looks at the file and changes it in one. An error of a
  file operation during an activation is a death; a manager's file is one of
  the contents the code can tell apart ("mixed": our lines in the host's file).
  The two files of dhclient are one. The manager does not change. The host
  edits `resolv.conf` only while it is its own and no process is active.
  Clean-up of what the predecessor and older versions left
  (`resetSystemDNS`) is external. `RestoredGivesBack` asks for the manager to
  run without our configuration only where nothing failed or died: a restart
  that failed is not repeated.
- `Break` stands for every way a stream ends, the inactivity deadline included.
  The length of the backoff makes no difference to the properties.
- The start command's Windows and macOS details, the service library and the
  operating system's service manager are external.

## Not modelled

- *Service status* (`service/status*.go`): reads the platform once and prints a
  conclusion. It keeps no state and guards against no step of others.
- *Comparison of interfaces* (`runtime/network_watch.go`): a pure function of two
  snapshots with a test for each case; `Recovery` takes a change at any time,
  and whether one is reported only makes fewer of them.
- *Cache of the fallback provider* (Windows): stale servers only widen a choice
  of resolvers that is already free in `EndpointManager`.
- *`idleReader`* (`runtime/rules_sse.go`): a timer that closes a stream. Its
  effect is `Break`, at any time.
- *Daemon log*: one writer under one mutex; nothing depends on what it wrote. A
  rotation that fails leaves the writer on a closed file (`daemon_log.go` 69).
- *DNS probe and message helpers, command line, configuration, installers*:
  encoding, parsing and input or output, without state that outlives a call.
- *System DNS on macOS and Windows*: commands of the operating system, whose
  state the code does not keep; single steps in `DaemonLifecycle`.
- *Encoding, permissions and places of state files*: `Install` has which profile
  and whether a token is stored, and writes that fail.

## What is left

1. `SystemDNS` in place of the single steps of `DaemonLifecycle` and `Install`,
   with restores that fail, which the hook and the stop command only log
   (`dns_activation.go` 37, `control.go` 83).
2. `RollbackRestores` of `Install` for scenarios in which another program takes
   the port, as far as a rollback can restore then.
