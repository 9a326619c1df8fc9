# A TLA+ model of Telemy / Aegis

Telemy is a streaming companion in three programs that run in three places:

* a **control plane** (Go, `aegis-control-plane/`) with a PostgreSQL database: it opens and
  closes relay sessions, launches and terminates one EC2 relay per session and meters usage;
* a **core** (Rust, `obs-telemetry-bridge/`) on the streamer's PC: it collects telemetry, serves a
  local HTTP API, calls the control plane and talks to OBS through two named pipes;
* an **OBS plugin** (C++, `obs-plugin-shim/`) with a dock page: it applies scene switches, sends
  results back and carries the dock's actions to the core.

This directory holds TLA+ models of the parts of these programs whose correctness depends on the
order of events, the TLC runs that check them on small instances and TLAPS proofs that hold for
every instance.

## Inventory

| component | state | operations | talks to | what is hard | what makes it correct |
|---|---|---|---|---|---|
| relay handlers `internal/api/handlers.go` | per request: parsed input, rows read, launched instance, context | start, stop, active, manifest, usage, health | store, provisioner | every request interleaves with every other between two statements; context cancelled half way; process death; compensation that itself fails | one live session per user, one launch per session, nothing left running, true answers |
| store `internal/store/store.go`, migrations | sessions, relay instances, idempotency records, usage, health events | `StartOrGetSession`, `ActivateProvisionedSession`, `StopSession`, reads, jobs' statements | PostgreSQL | READ COMMITTED: rows read are stale when used; lost commit acknowledgements; unique index conflicts | session life cycle, replay of the right session |
| EC2 provisioner `internal/relay/aws.go` | instances and their tags (external) | `Provision`, `Deprovision`, `retryAWS` | EC2 | failure after the effect; retries | no second launch, terminate is idempotent |
| jobs `internal/jobs/runner.go` | three tickers | cleanup, usage rollup, outage reconciliation | store | jobs overwrite each other's rows from snapshots of different age | meters never go back, bills follow them |
| core IPC server `ipc/mod.rs` | two pipes; one session at a time: handshake flag, pending switches, overrides, heartbeat, recent protocol errors; the command bus; debug status | create and join pipes, drain commands, expire, push status, heartbeat, read and answer a frame | plugin through pipes, HTTP server through the bus | pipes opened one after the other, read cancelled in the middle of a frame, both sides blocked on a write, bus overflow, commands before the handshake, late results, session loss with requests pending | every emitted switch is settled once, a result is believed only when it is true, a plugin that runs gets a session again |
| core HTTP server `server/mod.rs` | cached relay session, Grafana flag, bus sender | settings, output names, relay status, start and stop, scene switch, dashboard socket; pages that only read | control plane, IPC server, config file, vault, frame channel | cached session written by several requests after an await; configuration read-modify-write without a lock | an answer is about now, a stop stops, saves that do not overlap add up |
| configuration `config/mod.rs`, vault `security/mod.rs` | `config.toml`, `vault.json`, the vault in memory | load, environment, validate, save; open, store | HTTP server, start-up, `vault-set`, `config-init` | a write empties the file first; two processes rewrite one file; save validates without the environment that load applies | the next start loads, what is referred to is stored |
| control-plane client `aegis/mod.rs` | none | start, active, stop; 15 s timeout, no retries | control plane | outcome unknown after a timeout | - |
| app loop `app/mod.rs`, metrics, exporters, tray | latest telemetry frame, connection to OBS, shutdown channel | start up, collect, publish, export, quit | OBS, dashboards, Grafana | calls to OBS without a timeout, a connection that outlives its OBS, a shutdown sent before anybody listens | frames say what OBS is, outages and recoveries are shown, Quit ends the process |
| autostart `startup/mod.rs` | a registry value | enable, disable | Windows | - | - |
| plugin IPC client `ipc_client.cpp` | worker thread, pipe handles, five outgoing queues | connect, drain queues, read, dispatch, stop | core, plugin entry | a failed send re-queues while another thread queues; stop closes handles under the worker | nothing sent twice, latest setting wins |
| plugin entry `obs_plugin_entry.cpp` | switch queue, pending dock actions, replay cache | OBS tick, dock action, incoming envelope, load, unload | IPC client, OBS, dock page | three threads; completion of dock actions by matching snapshots; unload racing the worker | a switch is applied once and in order, a dock action is answered once |
| dock page and bridges (`aegis-dock*.{html,js}`) | view state | render, send action | plugin | - | - |

The hazards behind the "what is hard" column are listed one by one, at their source lines, in
`PROJECT.json`, each with the properties that would catch it going wrong.

## Modules

| module | models | state taken from the code |
|---|---|---|
| `SessionLifecycle` | the promise: a user opens a session, it is bound once to an instance nobody else has, it closes for good | - |
| `RelayControlPlane` | start and stop handlers, the store transactions they run, the EC2 calls, the idempotency clean-up job; implements `SessionLifecycle` | tables `sessions`, `relay_instances`, `idempotency_records`; instances and tags; local variables of every request in flight |
| `SceneSwitch` | a scene switch from `POST /ipc/switch-scene` to OBS and its result back | broadcast bus, `pending_switches`, debug status, pipes, the worker's result queue, the OBS thread's switch queue |
| `SettingsSync` | dock actions `set_mode`, `set_setting`, `request_status`, from the dock to the core's overrides and back as snapshots | outgoing queues, `SessionOverrides`, pipes, pending dock actions, the snapshot shown |
| `UsageJobs` | health reports, the jobs `session_usage_rollup` and `outage_reconciliation` and the usage rows, next to the sessions of `SessionLifecycle` | `sessions` (meters), `relay_health_events`, `usage_records`, what a running upsert has computed |
| `ConfigStore` | `config.toml` and `vault.json`: start-up, the handlers that rewrite them, `vault-set` and `config-init` beside the core, failed writes, kills, restarts | both files, the vault in memory, each request's edited copy |
| `RelayCache` | the relay session the core shows: probe, refresh, start, stop; extends `ConfigStore`, runs against `SessionLifecycle` as the control plane | `aegis_session_snapshot`, calls in flight |
| `Telemetry` | the metrics task, its readers, and how the process ends | `MetricsHub`, watch channel, sockets, exporter, tray, `run()` |
| `IpcLink` | the two pipes, handshake, heartbeat, framing, protocol errors and resets | pipe instances, session loop of both sides, frames in each pipe |
| `*Proofs` | theorems about the module they are named after; `SessionLifecycle` alone has none of its own | - |
| `MC*` | instances for TLC: symmetry and checks on the size of the id pools | - |

### RelayControlPlane

A request is a process with a program counter. One step is one SQL statement whose snapshot matters,
or one provider call; PostgreSQL runs at READ COMMITTED, so each statement sees what was committed
when it starts. The last write of a transaction and its commit are one step.
`StartIdemLookup`, `StartFindActive`, `StartPersistExisting`, `StartInsert` and `StartInsertConflict` are
`StartOrGetSession`; `RunInstances` and `InstanceRunning` are the two halves of `Provision`;
`ActivateProvisionedSession`, `CompensateDeprovision` and `StopSession*` follow in the order of
`handleRelayStart`. `StopGetSession`, `StopDeprovision` and `StopSession*` are `handleRelayStop`.
Failures are steps of their own: a call that fails before or after its effect, a commit whose
acknowledgement is lost (`ack = FALSE`), a request whose context is cancelled (all its later calls fail,
the compensating ones too, because they share the context), the death of the process. `ExpireRecord`
is the passing of an hour. A session row, an instance and an idempotency record are never deleted
except by the clean-up job.

Left out: everything in `model.Session` that no decision depends on (region, addresses, tokens,
timestamps), routing and authentication (a request carries its user). Health and usage are `UsageJobs`.

### SceneSwitch

Four processes: HTTP handlers (`PostSwitch`), the core's session task (`Core*`: drain the bus, expire,
heartbeat, read one frame, in the order of `handle_session_io`), the client worker (`Client*`: hello,
drain results and notices, read), and the OBS thread (`TickDrain`, `TickSwitch`). A frame written by the
worker is read before the worker goes on, because `WriteFrame` ends in `FlushFileBuffers`. `CoreReadCut`
is the poll timeout that fires inside `read_frame`: the bytes already read are gone and the stream is
out of step (`garbled`) until it is rejected. `CoreCrash` and `ObsCrash` end a process. `outcome` and `applied`
are history for the properties.

### SettingsSync

Three threads of the plugin and the core's session task. A dock action is tracked, queued and answered
in three steps on the dock's thread (`Track`, `Enqueue`, `Answer`), so the worker can run between them.
The worker drains the mode queue, then the settings queue, and puts what it could not send back in
front (`Requeue`). The core applies a value that differs and shows it at once (`CoreSet`), shows its state on
request and every interval (`CoreStatus`, `CorePush`) and forgets all overrides with the session. A
snapshot completes every action whose value it shows (`ReadSnapshot`); the OBS tick fails those older
than three seconds (`DrainExpired`). `ThemeRead` and `ThemeEmit` are the theme refresh that copies the
cached snapshot under the lock and shows the copy without it. The mode is one more target beside the setting keys; its value
follows telemetry, that is any value, until it is overridden.

Left out: repeated delivery of one action (the duplicate filter), replay to a reloaded page, actions
with the same identifier, wording of results.

### ConfigStore

A configuration is reduced to what decides: which request set the host and each output's name, which secrets
it refers to, and whether each field that `validate` looks at would pass. `Load` is `Config::load`: defaults, then the
file if it can be read and parsed, then the environment. `fs::write` is two steps, one that empties the file
and one that fills it, so another handler, a command or a kill can come between; a write that lands on a file
somebody else filled meanwhile leaves either content or a torn file. `Submit` is a handler up to and including
its load, `StoreSecret` and `PersistSecret` are `Vault::store` under the mutex, `Save` and `WriteConfig` are `Config::save`.
`Start`, `PassProbe`, `TakeToken` and `KeepToken` are `run()` up to the server; its configuration is the one it loaded.
`Cli*` is `vault-set` with a copy of the vault of its own. `config-init` looks whether the file exists (`CheckAbsent`) and empties and
fills it later (`EmptyForDefault`, `WriteDefault`); a save can be acknowledged in between and is then overwritten, which `hurt` records. `clean`, `acked`, `installed`, `hurt` and
`vaultHurt` are history: they say which saves were made from a load that was still current, and whether a
file was ever cut short, or written from a load or a check that was out of date.

### RelayCache

The handlers of `ConfigStore` and those of the relay session share requests, configuration and vault. A handler loads
the configuration, builds its client under the vault's mutex, and then awaits one or two calls. `Serve` is
the control plane, any time after the call was sent, also when the caller has given up; its sessions are those of
`SessionLifecycle`, which `RelayControlPlane` implements. `Hear` is the answer, `GiveUp` an error status, the 15 s timeout
or a browser that hangs up. `CloseElsewhere` and `CliRelayStart` are the changes the core is not told of. An active session
and one being provisioned are both live; instances play no part and the instance set is empty.
`before`, `during`, `fresh` and `behind` are history.

### Telemetry

`collect()` is one step per call to OBS, since OBS can exit, restart or hang between two of them; a launch of
OBS has a number and a connection belongs to one. A frame is reduced to the one bit `obs.connected`. Auto-detection looks for
`obs.process_name` among the processes of this machine (`Listed`): it tells of OBS where OBS runs here under that name (`setup.local`), and
of anything otherwise, since a remote `obs.host` says nothing about the local process list. Sockets and
exporter read the channel on timers of their own. `app` follows `run()` from the first spawned task to its return,
with the tray thread, the server's graceful shutdown and `run()`'s own `select!`.

### IpcLink

Below the sessions that `SceneSwitch` and `SettingsSync` describe: `CreateCmd`, `CreateEvt` and `Join` are one round of
`run_named_pipe_server`, `OpenCmd` and `OpenEvt` are `ConnectPipes`. The core's loop pushes status, checks the heartbeat and reads a
frame in two parts; the client's loop sends its opening frames, drains its requests, pings and reads one frame a pass.
A client frame is flushed before the next, so the command pipe holds one frame; the event pipe holds `EvtCap`. What fills it is
counted as the code writes it: a push, an answer, a protocol error and a command from the bus are one frame each (`SwitchCommand`), a switch
that timed out is one more (`SwitchTimeout`), a changed mode or setting is two, a notice and a snapshot, an unchanged one none (`Override`).
Requests that were taken from the queue and not sent when the session ends go back into it (`Drop`), the one being written too
unless it got through. Which switch a result belongs to is left to `SceneSwitch`.
`CutRead` is the poll timeout between length and body; afterwards words of the body are taken for lengths
(`Misread`) until the error limit resets the session or the frame is used up. Time is counted in seconds
(`Second`), in which both loops finish a pass unless a callback hangs.

### UsageJobs

Sessions move as `SessionLifecycle` lets them (`SessionStep`), which `RelayControlPlane` is proved to implement, so
metering is checked against every order of opens, activations and closings that the handlers can produce.
`started_at` is written from the clock of the API process, `now()` is the database's; `Skew` is how far
the first may be ahead. A health report names its own observation time and is accepted for any session with a
relay, stopped ones included. `RollupLiveSessionDurations` and `ReconcileOutageFromHealth` raise meters with
`greatest()` on the row as it is when locked, so each is one step; `UpsertUsageRollups` computes its rows from
the snapshot of its start (`UpsertSelect`) and writes them later (`UpsertWrite`), over what the other job wrote
meanwhile. A failed statement ends the run of its job (`JobFails`). `closed` is history.

Between two upserts that overlap, `billable_seconds` may go back for a moment; what holds is that it is never
ahead of the meters and ends at them. The billing cycle of a user is the constant `Cycle`, because no code moves it; the upsert
takes the sessions started in it (`Billable`), so a session started outside is metered and never billed, and `UsageSettles` promises a bill to those
inside only. Reconciliation has no such filter (`Reconcilable`). No code sets the status `grace`.

## Runs

| run | question | result |
|---|---|---|
| `relay_faults` | are sessions, launches and answers right under every interleaving of two starts and two stops, with one failure anywhere? | holds, and refines `SessionLifecycle` |
| `relay_live` | does every request get an answer and every session leave provisioning? | holds without failures |
| `stop_activate_race` | is a stopped session's instance gone? (`aegis-control-plane/README.md`) | **violated** |
| `scene_switch` | are switches applied once, in order, reported truthfully and finally, and is every emitted one settled? | holds |
| `settings_sync` | does the newest request win, does an action end once, does the dock show what the core holds? | holds, for settings as long as no send of a setting failed |
| `settings_live` | does every action end, is an overwritten snapshot replaced? | holds |
| `stale_setting_wins` | is a completed setting what the core holds? (`docs/QA_CHECKLIST_OBS_CEF_DOCK_ACTION_LOOP.md`) | **violated** |
| `usage_jobs` | do meters only grow, stop with the session, and do bills follow them to the end for sessions of the cycle, with late reports, skewed clocks, overlapping jobs and a failed statement? | holds |
| `config_store` | does the next start load what is left, do saves add up, are referenced secrets stored, does the token survive, with `vault-set` and `config-init` run beside the core? | holds where no file was cut short or written from a stale copy or check; the restart always |
| `relay_cache` | is a reported session current, does a stop stop, is the cache right, is every request answered? | holds |
| `telemetry` | is a connected frame firsthand, are outage and recovery shown, does Quit end the process? | holds, recovery where OBS can be detected |
| `ipc_link` | do both pipes go to one client, do the two sides never wait for each other, are resets deserved, does the plugin get a session again? | holds, except in the cases `LinkRecovers` names |

What the two violated runs show:

* **Stop racing activation.** Stop reads a provisioning session without an instance and skips the provider
  call; start then activates; stop's update closes the now active session. Nobody terminates the instance.
* **Stale setting.** *on* is being sent when the session ends; *off* is queued; *on* is put back in front of
  it. A third action, *on* again, is coalesced into the first entry of the key, the older one. After the
  reconnect *on* is sent and completes the third action, then *off* is applied and stays.

Seen while modelling, in the code and the properties' conditions rather than in a run of their own:

* Two overlapping stops: the second update hits no row and is answered 404 although its read found the session.
* A replayed start returns the record written with the insert, before the session had a relay.
* A switch posted between the pipes' connection and the handshake is answered "queued" and dropped.
* Two overlapping saves of `config.toml` lose the names of one (`hurt`); an environment override is written into the
  file by any save, since the handlers save what they loaded.
* A push interval below 500 ms in the environment loads while Grafana is off and refuses the next start once the settings page
  has switched Grafana on (`EnvSound` excludes it).
* A key set by `vault-set` while the core runs is lost when the core next stores one (`vaultHurt`).
* The core's idempotency keys are not UUIDs, which the control plane asks for.
* A client that opened the command pipe and closed it before the event pipe existed leaves the pair waiting for an event
  client that cannot come (`LockedOut`). A failed creation or connection ends the server task, which nothing restarts.
* A plugin whose callbacks are slow pass after pass falls behind the status pushes until both sides wait for
  each other; `RoomAssumption` says how much slowness the event pipe absorbs. Requests count twice, because a changed mode or setting
  is answered by two frames. With two queued requests, no hang and room for five frames TLC finds the deadlock. Nothing in the code limits
  how many switches are posted while the plugin hangs: more than `MaxSwitches` of them can fill the pipe.
* A session started outside its user's billing cycle is never billed, and no code moves the cycle on.
* `config-init` can overwrite a save that was acknowledged after it looked for the file (`hurt`).
* With auto-detection on, an OBS on another machine or under another process name than `obs.process_name` is not found,
  whatever `obs.host` says (`RecoveryShown` excludes it).
* The dock's thread queues a request before it reports it queued, so the worker may report *completed* first, where
  `docs/QA_CHECKLIST_OBS_CEF_DOCK_ACTION_LOOP.md` has `queued` then `completed`.
* Outage reconciliation takes the report observed last, where `docs/DB_SCHEMA_v1.md` asks for the largest uptime.
* `collect_network` subtracts the previous totals from figures that already are differences.

Deadlock is not checked: each behaviour is a finite set of requests, posts or actions, and a system that
has served them all and shut down may rest.

### Bounds

* `relay_faults`: two users, one key, two starts and two stops. Two starts are needed for every race on
  the unique index and on one key, two stops for overlapping stops; a third actor of either kind adds no
  statement the first two do not run. One failure anywhere covers each lost commit, failed call,
  disconnect and crash alone. Pools hold one id per start (asserted in the MC module).
  `relay_live` has two hashes, so that a key is reused with another body.
* `scene_switch`: two posts, one dock switch, a bus of one (so that it overflows; the code has 64), one
  crash, missed heartbeat or cut frame. Two posts are what an order needs.
* `settings_sync`: two actions of every kind on one setting key and the mode, one lost session, at most one
  periodic snapshot unread. Two actions are what coalescing and competition need. `stale_setting_wins`
  has three actions on the setting only: the defect needs three.
  `settings_live` has one action, one lost session and one theme refresh.
* `usage_jobs`: one session, because no statement of a job relates two rows; two ticks of the clock, one of skew,
  two reports with uptimes up to two, one failed statement; a billing cycle from 1 to 2, so that sessions start before it,
  at both its ends and after it. Two reports are what "observed last" needs,
  and both jobs run any number of times.
* `config_store`: two requests, because a race on the file needs two writers; two outputs, so that one save can leave
  another's name alone; two starts (one restart), one `config-init`, one failed write or kill (its safety theorems below take any number), one use of `vault-set`; installed with and without a file
  and a vault, with no override and with one that `EnvSound` excludes.
* `relay_cache`: two requests of any kind, two sessions (one replaced by another behind the core's back), one failure; a
  stop makes two calls, so two requests already interleave four.
* `telemetry`: one socket (sockets share nothing), two launches of OBS so that a connection outlives one, one error of a living OBS,
  three setups: password and endpoint good, both bad, and good with an OBS the process list does not tell of. Password and endpoint
  concern different tasks, so their mixed combinations add nothing.
* `ipc_link`: the plugin and one client of another build; a heartbeat timeout of two seconds, an error window of one
  and a threshold of one (the code has 3.5 s, 10 s and 5: what counts is that one error fits and two do not, and that
  a session can be silent for less and for longer). `BodyAssumption`: the first words of a frame, its id, are more than the
  threshold, so a lost frame alone resets the session. `RoomAssumption`: the event pipe holds, for each hang, a push a
  second until the heartbeat ends the session, two answers to each request queued meanwhile and command and notice of each switch posted
  meanwhile; and besides, two answers to each request and two frames for each switch that one pass of the plugin can call for, its opening
  and the errors. With one request, one switch and one hang that is fifteen frames, fewer than the buffer of 64 KiB holds of status snapshots.
  The dock and the posts are as slow as people (`Settled`), so they pile up only while the plugin hangs or is away.
* Settings keys are independent in the code, so one key stands for five. Symmetry is used in the safety runs
  only, over identifiers that nothing compares except for equality.

### Fairness

* `RelayControlPlane`: weak fairness of each request's own steps. `net/http` runs a handler's
  goroutine until it returns, and no step waits for another request for longer than a transaction.
  Liveness is checked with no failures; with them the code has no promise to keep (nothing reaps
  a session left in provisioning by a crash).
* `SceneSwitch`: weak fairness of the session task, of the worker and of time. HTTP clients and the OBS
  thread may stop for ever.
* `SettingsSync`: weak fairness of worker, session task, periodic push, OBS tick and time; the tick is needed
  because the timeout of an action runs there. Nobody is forced to submit, to refresh the theme or
  to unload.
* `RelayCache`: weak fairness of a handler's own steps; the HTTP client's timeout ends every call, so hearing or giving up is
  one fair step. The control plane owes nothing.
* `Telemetry`: weak fairness of the metrics task, of timers, of the exporter and of `run()`. OBS, browsers and the user owe nothing;
  a hung OBS disables the metrics task, it is not forced to answer.
* `IpcLink`: weak fairness of the session task, of each worker and of time. Hangs, cut reads and pipe errors are never
  forced, and a worker that hangs is excluded from `LinkRecovers`.
* `UsageJobs`: weak fairness of each job's ticker and of its statements. `runEvery` loops until the process ends
  and each call returns. Statements fail a bounded number of times. Sessions, reports and the clock
  may stop for ever.

## Proofs

`RelayControlPlaneProofs` proves, for every set of users, keys, sessions, instances and requests and any
number of failures:

| theorem | states |
|---|---|
| `TypeCorrect` | `TypeOK` always holds |
| `SessionInvariant` | the inductive invariant `SessionInv` always holds |
| `OneLiveSession` | no user ever has two live sessions |
| `OneLaunch` | no session is ever launched twice |
| `Implements` | the control plane implements `SessionLifecycle` |

Assumptions: the null values are not members of their sets (`NullsAssumption`), a request is a start or
a stop (`RequestsAssumption`), the failure bound is a natural number (`MaxFaultsAssumption`).

`OneLiveSessionPerUser` and `AtMostOneLaunchPerSession` are not inductive: the second depends on who may
launch. `SessionInv` adds that a session is bound only by its activation (`RowInv`), to an instance launched
for it (`BindInv`); that launched instances are tagged with existing sessions (`TagInv`); that requests hold ids of
launched instances only (`ProvInv`); and that the start that inserted a session is the only one to work on
it and has launched nothing before `run_instances` (`CreatorInv`). The last is the heart of the argument: a
replay or a found session never takes a request to its launch, so one insert means one launch.

The proof splits the steps in two. A `Quiet` step leaves rows and tags alone and takes no start to its
launch, and keeps `SessionInv` by that alone; a `Loud` step is one of insert, launch, activation and closing,
and is treated action by action. `QuietOrLoud` shows there is no other. The refinement uses that each
insert, activation and closing is `Open`, `Activate` or `Close`, for which `UniqueLiveHolds`, `BoundOnce` and
the life of a row are needed, and that every other step stutters.

On top of `SessionInv`, three theorems say what answers are worth:

| theorem | states |
|---|---|
| `StopAnswers` | a stop answered 200 has closed its session, and the instance it read is gone |
| `FailedStartsCompensate` | a start that fails after its launch leaves nothing behind, unless a compensating call failed |
| `InstancesTracked` | while nothing has failed, a running instance is held by its start or named by its row |

`OutcomeInv` says of every request in flight what it will be able to claim: a stop past its terminate call holds a
terminated instance, a start that compensates works on a row of its own. It is kept because nothing undoes a termination, a
closing or an owner (`Settled`), so a request that does not move keeps its part whatever the others do.

`UsageJobsProofs` proves, for any sessions, clocks, skew, reports and failures (`MeterBoundsAssumption`: the bounds
are natural numbers; `CycleAssumption`: a cycle begins and ends at a time):

| theorem | states |
|---|---|
| `MeteringTypeCorrect` | `TypeOK` always holds: no meter or bill is negative |
| `MetersNeverShrink` | no step lowers a meter |
| `BillsVouched` | no bill is ahead of the meters, and only sessions of the cycle are billed |
| `StoppedMetersRest` | a stopped session's duration is moved by reports only |

`BillVouched` alone is not inductive, since an upsert writes what it computed earlier: `BillInv` adds that computed
rows are covered too and are of sessions in the cycle, and meters that only rise keep both. `StoppedMeterRests` speaks of stopped sessions
only; `RestInv` carries it back through the life of the session: nothing is metered before it is live,
and while it is live no more than the time since its start or a reported uptime.

`ConfigStoreProofs`, for every environment, installed file, set of requests and form, and any number of starts, commands,
failed writes and kills (`ConfigAssumption`: inputs have their types, every start has a token to generate):

| theorem | states | further hypothesis |
|---|---|---|
| `RestartSafe` | `AlwaysRestarts` | - |
| `StoreTypes` | `StoreTypeOK` | - |
| `SecretsStored` | `ReferencedSecretsStored` | `NoSecretsInstalled`: neither the installed file nor the environment refers to a secret nobody stored |
| `TokenKept` | `TokenStable` | `vault-set` is not used for `server_token` |
| `AckedSettingsKept` | `AckedSettingsHold` | `HostNotOverridden`: the environment does not set the host |

The hypotheses exclude what the code does not prevent: a reference to a secret can be written by hand or come from
the environment; `vault-set server_token` is there to change the token; an override is in every draft and any save writes it to
the file, over the host that was acknowledged. The `config_store` run satisfies all three.

`AlwaysRestarts` is about the file as it is; a save replaces it by a draft made earlier, from an older load, and
validated without the environment. `RestartInv` adds that every draft which passes the validation also loads under the
environment (`DraftsLoad`) and that a request about to write has passed it (`WritersValid`). The core of the
argument is `EditLoads`: a handler edits what `load` returned, so the environment is already in the draft, and the
edit neither switches the control plane on nor takes credentials away; `SoundKeepsValid` does the rest from
`EnvSound`. An emptied or torn file reads as the defaults, which load because the environment is sound.
The vault exists in three copies, the core's, the file and that of a command, and any of them can become the file. `SecretInv`
therefore says of all three that they have the wanted secrets, where wanted is what the file, a draft past its secrets or
the page refers to; `CopiesAgree` says the same of the token. Both rest on the mutex (`LockInv`). `AckedInv` says that a draft made
from a current load is what was acknowledged plus its own request, and an undisturbed
`config-init` changes nothing that is read: a missing file, an emptied one and the defaults load alike.

`IpcLinkProofs`, for any clients, timeouts, thresholds, window, hangs, queued requests and switches (assumptions of `IpcLink`, above):

| theorem | states |
|---|---|
| `PairsMatch` | `PairMatched` |
| `EndsAreDeserved` | `EndsDeserved` |
| `LinkNotWedged` | `NotWedged` |

`PairInv` says which pipes there are and who holds them at each point of the server: only the holder of the command pipe gets to
the event pipe. `LoopInv` orders the tracked errors by age, which makes the eviction from the front complete, and puts the core's clock
behind the plugin's; it also bounds the requests queued or under way, put back included (`QueueOK`), and the switches on the bus or waited for
(`SwitchesOK`). `RoomOK` bounds what is in the event pipe together with what the two loops can still write before time
passes again, two frames for each request and each switch, with a share for every hang still to come; a write that finds the pipe full contradicts it.

`TelemetryProofs` proves `ConnectedFirsthand` for any number of launches, sockets and faults: a connection that was dead when
the collect began is dead to its end, since a launch never takes the number of an earlier one (`StaysDead`).

`RelayCacheProofs` proves `AnswersCurrent`, `StopsStop` and `SnapshotCurrent` for any requests, sessions and faults, with the
handlers of `ConfigStore` and its failures beside them. `CacheInv` relates each call in flight to the sessions that have
been live since its request came: what the control plane answered was so at that moment (`SeenInv`), is still so if nothing changed
since (`FreshInv`), and the session a stop asked for is the one live when it came, or that one has ended (`StopInv`).
It uses of the control plane what `Implements` proves of it: one live session, and stopped for good.

`SceneSwitchProofs` proves, for any posts, dock actions, faults and capacity of the bus, `OutcomesAreFinal`, `OkIsTrue` and
`SwitchesAreInOrder`, and that a post is switched to once. A switch is on the bus, then in the table, then has its outcome
(`TableInv`); wherever a result waits, also re-queued across sessions, an *ok* in it is true (`TruthInv`); and
switches made, tick, queue, pipe and bus, one behind the other, are in the order of acceptance (`RouteInv`).

`SettingsSyncProofs` proves, for any actions, settings, values, lost sessions and theme refreshes, `OneEnd`,
`ViewShowsOverrides` and `LatestIsHeld`. A pending action has no end yet and is on one list once (`EndInv`). The last snapshot of a
session has every override, in the pipe or shown (`ShowInv`). Of the newest request for a target, `LatestInv` says that
in the first of queue, batch, pipe and overrides that has the target at all, its last value is the newest one (`Line`); each
queue operation has a lemma about lines. Putting a batch of settings back breaks it, since an older value can then
be coalesced over, which is the run `stale_setting_wins`; for the mode, of which the queue keeps one, it holds.

Model-checked only: the liveness properties (`RequestsAnswered`, `ProvisioningSettles`, `EmittedSettles`, `ActionsSettle`,
`ViewRepaired`, `UsageSettles`, `HandlersAnswer`, `OutageShown`, `RecoveryShown`, `QuitEnds`, `LinkRecovers`). They hold under
fairness, which is out of the prover's reach. Every safety property that a passing run checks is also proved.

## Not modelled

* Autostart: one registry write nothing else reads.
* Dock page, browser host, bridges, harness and development client: presentation and tools.
* Endpoints that only read, routing, authentication and metrics of the control plane; pages and downloads of the core.
* The MessagePack, JSON and TOML codecs and the encryption of a vault entry: data conversion without state.
* The figures of a telemetry frame and their export: arithmetic on samples of the machine.
* Replay of cached envelopes to a reloaded dock page beyond the snapshot, and the filter of repeated dock actions.

## Plan

* `SessionLifecycle`: its own invariants (one live session, an instance bound to one session), proved once and carried to
  `RelayControlPlane`, `RelayCache` and `UsageJobs` by refinement, in place of `RemoteInv`.
* `RelayCache` and `UsageJobs` implement `SessionLifecycle` in the part they share with it.
* `UsageJobs`: what `UsageSettles` comes down to without fairness, that an upsert which runs undisturbed ends at the meters.
* `Telemetry`: safety of the shutdown, that nothing is published or exported after `run()` has returned.
