# A specification of EspScreenOS

TLA+ modules for EspScreenOS: its concurrent and transactional core, the devices
it boots, its shell and its applications; TLC configurations that check them on
small instances, and theorems checked by TLAPS. Paths of source files are
relative to the repository; `core/`, `runtime/`, `hal/`, `services/`, `apps/`,
`ui/`, `resources/` and `expansion/` stand for `components/espscreen_<name>/`
with its `src` and `include` directories.

`PROJECT.json` maps every definition that models code to the lines it models
and lists the runs, the hazards, the findings and the theorems. A definition
whose comment starts with "Mutant" is not part of a specification: it is the
form a plausible bug would give to the definition that follows it, and TLC
finds the property named beside it in `PROJECT.json` violated when it takes
that definition's place.

1. [The system](#1-the-system)
2. [The modules](#2-the-modules)
3. [What the runs show](#3-what-the-runs-show)
4. [Fairness and outside assumptions](#4-fairness-and-outside-assumptions)
5. [Where the code and its documents disagree](#5-where-the-code-and-its-documents-disagree)
6. [What is proved](#6-what-is-proved)
7. [What is not modelled](#7-what-is-not-modelled)
8. [The plan](#8-the-plan)

## 1. The system

EspScreenOS is firmware for ESP32 display boards. One task, `app_main` (the
**UI task**), boots the object graph, then runs the frame loop: it drains the
event mailbox, ticks services and the active application, and drives LVGL.
Everything else that runs concurrently is a task with one job:

| Task | Code | Talks to the UI task through |
|---|---|---|
| job worker | `runtime/firmware_application_jobs.cpp` | a FreeRTOS queue, two binary semaphores, an atomic count and lifecycle |
| haptics worker | `hal/haptics_controller.cpp` | three atomics, a generation, a task notification |
| tone worker | `hal/audio_device.cpp` | three atomics, a notification, an output lock |
| event loop task (SDK) | `runtime/firmware_wifi_platform.cpp`, `firmware_network_transport.cpp` | atomic lifecycles, atomic observer pointers, the event mailbox |
| HTTP server task (SDK) | `runtime/firmware_provisioning_server.cpp` | an atomic lifecycle and provisioner pointer |
| DMA completion (interrupt) | `hal/display_device.cpp` | a binary semaphore |

The components, the state each keeps, and what would make it wrong:

| Component | State | Operations | Hard part | Right when |
|---|---|---|---|---|
| component lifecycles (`core/component_lifecycle.hpp`, `atomic_component_lifecycle.hpp`) | one of four states | begin/finish start and stop | two policies that differ on a stop of a stopped component | a component can be started again after any failed start and any stop |
| application jobs | lifecycle, queue, two semaphores, `pending_`, `worker_task_` | start, submit, quiesce, stop, the worker loop | submit against stop, quiesce against the last completion, a join that times out | the RTOS objects outlive their users, no wait is missed, jobs run once and in order |
| application manager | registry, `state_`, `active_`, a transition's locals | register, activate, stop, clear, tick, dispatch | callbacks that call the manager again, a start that fails after the previous application was stopped, jobs in flight | one application at a time, no job outlives its application, transitions end |
| startup plans, boot, hardware platform | completed steps, a session | execute, roll back, shut down | failures at every step of two nested plans | all or nothing, reverse order |
| service manager | catalog, health records, lifecycle, `started_count_` | register, start_all, stop_all, clear, tick | optional services that fail but may hold resources | a stop reaches whatever may hold something; health is honest |
| network stack (five classes) | four lifecycles, connection policy, server handle, observers | start, stop, Wi-Fi and IP events, a submitted form | three tasks in it, two of which start and stop the HTTP server | no callback of an ended session changes anything; the policy follows the radio |
| haptics controller | command atomics, generation, duty | initialize, pulse, off, stop, the worker | commands of one task against the worker's steps | the motor is never left on; off holds; the last command runs |
| resource broker, expansion, GPIO toolbox | slots with owners and reference counts; the toolbox's pins | reserve, release, reset; the fixed plan; the toolbox's start and stop | partial failures while leasing, reference counts per owner | nobody loses or steals a lease; the toolbox drives only pins of its own |
| I2C bus | lease table, bus handles | acquire, release, reset | shared buses whose pins must agree | one handle per bus, freed with the last lease |
| events: mailbox, relay, bus | ring buffer under a spin lock, subscriptions | post, poll, publish, subscribe, unsubscribe | posts of several tasks and priorities, observers that unsubscribe while being called | posted events arrive in order, once; nobody waits for ever |
| runtime loop | pacing counters | one frame | order of work | services tick before applications see their events |
| settings, Wi-Fi credentials | NVS keys, a cached profile | load, save, erase | two keys that belong together, failing writes, power loss | the stored pair is the old or the new one |
| display transfers | staging buffer, completion semaphore | flush | a timeout racing a late completion | a buffer is not written while the panel reads it |
| display power, shell policies | idle timer, brightness, current page | interaction, tick, navigation, restore | 32-bit time that wraps, settings that fail to save | a sleeping display wakes only by an interaction |
| touch | debounce state | sample | wrapping time, noise | one press per contact |
| audio | tone atomics, codec and I2S state | tone, stop, capture | a worker that is deleted when it does not stop in time | the output lock is free after stop |
| storage, power sensing | mount state, samples | mount, remount, sample | retries | a failed mount leaves the bus usable |
| recorder, notes | a command slot, buffers, application state | commands on the UI task, jobs on the worker | payload reserved on one task and read on the other | a command in flight keeps its payload |
| SD applications | checkpointed factory, loaded applications | discover, register | failures between creation and registration | what is registered exists, what is not is freed |
| other applications, views, assets, diagnostics, files, memory, protocol, board descriptors, tools | see `PROJECT.json` | | mostly sequential | |

Interactions: `FirmwareApplication::start` runs the boot plan, one step of
which runs the hardware plan; applications call the job executor through
`IApplicationJobs`, and the application manager waits for it (`quiesce`) before
it stops an application; the Wi-Fi platform calls the transport, the transport
the service, the service the policy and back; the network service posts events
to the mailbox, which the UI task drains into the bus; the GPIO toolbox leases
pins from the broker that the hardware platform filled first.

`PROJECT.json` lists the hazards of this code at the lines where they bite, each
with the properties that watch it, and says of every component how much of it is
modelled.

## 2. The modules

`MC<Module>.tla` and the `.cfg` files give the constants values for TLC;
`<Module>Proofs.tla` holds theorems (those of `GpioToolbox` and `Shell` are in
`UiTaskProofs`). Modules compose in four groups:

    FirmwareApplication   StartupPlan <- Boot  <- Firmware <- Display, I2cBus, Storage
    services and loop     ServiceManager, Settings, Events <- Runtime
    applications          AppManager, Recorder, Notes, HardwareTest, ExternalApps <- Applications
    shell                 ShellSettings <- Shell

`AppJobs`, `Network`, `Haptics` and `GpioToolbox` are checked by themselves.

**Lifecycle** — the two `begin_start`/`begin_stop` policies as functions from a
state to the next state and the answer. Used by every module with a lifecycle.

**AppJobs** implements **JobExecutor** — `FirmwareApplicationJobs`. The
variables are its members (`life`, `obj` for the three RTOS handles, `items` for
the queue, `token` for the semaphores, `pending`, `worker`), and where each task
is. One action per atomic access and RTOS call, so that TLC interleaves them as
the scheduler may: a submission is `SubmitCall`, `SubmitCount`, `SubmitRecheck`,
`SubmitSend` or `SubmitFull`, and `SubmitGive`; `pending_` is a machine counter
(`CounterSize`). A worker that is created runs at once, before `worker_task_` is
assigned; the wait of a join may expire (`StopJoinTimeout`), and only then is
the handle read and the worker deleted where it stands, or the caller if the
worker has cleared the handle meanwhile (`StopKill`). Reading the handle and
deleting its task are one step. `env` is chosen once from `Environments`: who
else submits, how often the executor is started, and whether a join may time
out. `JobExecutor` is the promise of the port: jobs run one at a time, once, in
the order of acceptance, and the executor goes down only when nothing it
accepted is unfinished. The refinement maps `outstanding` to the job that runs
followed by the jobs in the queue.

**AppManager** — `core::AppManager` over `JobExecutor`. `phase` is how far
`activate` or `stop` is, because every application it starts or stops is a
callback in which the manager may be called again; only `state_` refuses such a
call, so `Register`, `Clear`, `Activate` and `Stop` are enabled in the middle of
transitions exactly when the code's guards let them in. `life` is external to
the manager: each application between its start and its stop.

**CommandSlot**, **Recorder**, **Notes**, **HardwareTest**, **ExternalApps**,
**Applications** — what applications do under that manager. `CommandSlot` is
`AtomicCommandSlot`: reserve an empty slot, empty it. In `Recorder` and `Notes`
the UI task's buttons reserve it, the job on the worker takes it and makes one
audio or file call per step, so that ticks, buttons and transitions of the
manager come in between. A capture buffer is a few chunks, each with the number
of the take that recorded it; a note is one of a few texts. `HardwareTest` keeps
its preferences across screens and asks for pulses. `ExternalApps` is the
factory of Lua applications, `SdAppLoader`, and the life of one script: a
runtime and its buttons. A discovery takes a checkpoint, creates one candidate
per file, and registers them all or restores the checkpoint; the listing may end
or fail after any file, and the registry may refuse what was found.
`Applications` ties them to the manager's phases: an application's start or stop
is what it does to its record when `AppManager` calls it, a job in the executor
is a command in a slot or a job that runs, and `FirmwareApplications` registers
the built-in applications, discovers the others and takes all down when a boot
fails.

**StartupPlan**, **Boot** — `execute_startup_plan` and `shutdown_startup_plan`
over any plan, and the boot of the firmware: the boot plan (the module's own
variables) reaches its step "hardware platform" and runs a second instance `HW`
of the same module with the hardware plan and a session. A component is on or
off; a start that fails may leave it partly acquired, and whether that is
cleaned up is what the kind of the step (`startup_step` or
`transactional_startup_step`) decides.

**Display**, **I2cBus**, **Storage**, **Firmware** — what is behind some of
those steps. `Display` is the flush path: two draw buffers and a staging buffer,
the transfers under way as a queue of the buffer each reads, and the completion
semaphore that the interrupt gives; a wait may give up. `I2cBus` counts the
holders of a port and is used by the touch controller and the codec, which may
agree on its configuration or not. `Storage` is the card with its mount policy,
over an SPI bus that may be refused or an SDMMC host. `Firmware` makes each of
them change in the very step of `Boot` that starts or stops it and, once a boot
is in force, lets the loop render frames and take the diagnostics samples that
retry the card.

**ServiceManager**, **Settings**, **Events**, **Runtime** — `ServiceManager` is
`register_services`, `start_all`, `stop_all` and `clear`, one action per service
callback, with the health records beside the catalog; `running` is external: the
services that hold resources. `Settings` is the namespace and the two keys of
the Wi-Fi credentials, saved one backend call at a time, where a write may fail
with or without effect, a read may fail and power may be lost; `torn` records
that a fault happened which the code cannot undo. `Events` is the mailbox, one
field access at a time under its spin lock, with the relay that drains it.
`Runtime` is `FirmwareServices` and `RuntimeLoop`: the boot registers a catalog
and starts it, the loop ticks services, relays events and ticks the shell, and
while the network service runs the Wi-Fi task posts and the HTTP task saves. The
boot that fails later takes the services down, and a loss of power ends
everything but the flash.

**Shell**, **ShellSettings** — `ui::Shell` with its policies and views. Handlers
run to completion on the UI task, so each is one action, and what it does is a
composition of operators on the record `ui` in the order of the calls: surface,
widgets that exist and are shown, their palettes, title, selection, the texts
of the settings and the positions of their sliders' knobs, network label, power
state and backlight. A knob is set when its row is built and by the finger that
drags it; `update` writes the text only. `ShellSettings` holds the two catalogs
of the preferences and what restoring, changing and storing them computes; a
commit may stop after some of its keys, and a start reads one of the sets of
keys in `Readable`, each key's read failing by itself. The clock counts ticks of
`Unit` seconds and wraps at `Wrap`.

**Network** — `NetworkService`, `NetworkConnectionPolicy`,
`FirmwareNetworkTransport`, `FirmwareWifiPlatform` and
`FirmwareProvisioningServer` in one module, because every call goes through
several of them. `pc` says where each of the three tasks is; a step ends where
another task can observe or change what follows. The radio, the event loop's
queue and the HTTP server are external: a station asked to connect is "trying",
then "joined" to an access point and "linked" with an address, or it fails; a
connect that the driver refuses leaves it "refused" (`Reconnect`, whose result
the code drops). `timing`, chosen once from `Timings`,
says what the SDK's timing does in a behaviour: `early` (the radio answers
before `start` has set `running`), `stale` (an event of a stopped session is
delivered to the next), `overlap` (a stop overtakes a server start on the event
task).

**Haptics** — `HapticsController`, one action per atomic access of the UI task's
call and of the worker. Time is abstract: a timed wait may end at any moment.
Kick and duties are constants; only whether an intensity is kicked matters.
The write of a duty and that of `running_` beside it are one step of `Kick`,
`Run` and `OffDuty`: nothing in the firmware reads `running_`.
`Preempted` says whether `off` may come between the worker's check of the
generation and its write of the duty.

**ResourceBroker** implements **Leases**; **GpioToolbox** — the slot table of
the broker as an array searched by key, and the promise as references per owner
and a mode per resource. The owners of a slot are a function of the owner, which
is what a table without duplicates stands for; only their number (`MaxOwners`)
remains. `GpioToolbox` adds the users on the UI task: the hardware platform's
fixed reservations (`FixedResourcePlan` merges the requests of a descriptor, an
exclusive one wins), the toolbox with every refusal and failure of its start
(the candidates are the first `MaxCandidates` pins of GPIO headers, each once),
and expansion owners between the toolbox's calls. The steps of one call are
separate so that each is one step on the leases; nobody else runs in between.

## 3. What the runs show

| Run | Instance | Properties |
|---|---|---|
| `appjobs` | two jobs, queue of two; either the UI task alone submits, as in the firmware, with two starts and joins that time out, or two more tasks submit, with one start and no timeouts | `DrainedBeforeDelete`, `ObjectsOutliveUsers`, `QuiesceMeansIdle`, `ImplementsExecutor`, `CallsReturn`, `AcceptedJobRuns` |
| `appmanager` | three applications, up to three unfinished jobs | `OneApplicationAlive`, `JobsHaveLiveOwner`, `LiveIsRegistered`, `TransitionEnds` |
| `applications` | recorder, notes, hardware test and two slots for Lua applications with one button each; two unfinished jobs, capture buffers of two chunks, two texts, two presets | `WorkerOwnsData`, `PendingIsUnderway`, `PlayedIsOneClip`, `WidgetsHaveLiveOwner`, `RegisteredAreCreated`, `DisabledMotorRests` |
| `boot` | the eleven-step boot plan with the seven-step hardware plan inside; two I2C configurations, three wirings of the card, areas of one and three rows with a staging buffer of two, two transfers in flight | `PlanSafe`, `HardwareFollowsBoot`, `DevicesOutliveUsers`, `DmaReadsStillBuffer` |
| `services` | the firmware's catalog, and one with settings after network; all optional, or diagnostics critical; a mailbox of two, three posts, two networks | `StopReachesRunning`, `HealthIsHonest`, `WifiPairWhole`, `EventsInOrder`, `SavesMeetOpenStore` |
| `mailbox_spin` | violation: both tasks on one core | `PostsReturn` |
| `shell` | two applications, one of them docked, and a dock button without one, one timeout, three brightnesses; a store that is read, is not, or lacks one key | `SurfaceShown`, `ScreenFollowsPolicy`, `ViewsAgree`, `TouchedScreenIsOn` |
| `network` | two retries, three queued events; no race, those of the radio, or all | `ServerIsHeldOnce`, `StoppedIsQuiet`, `SavesInsideSession`, `PolicyAgreesWithRadio`, `ConnectingResolves`, `CallsReturn` |
| `network_stuck` | violation | `ServerCanRestart` |
| `haptics` | four commands, three intensities, three durations, one kicked intensity, no preemption at the write | `OffHolds`, `RunsLatestCommand`, `MotorStops` |
| `haptics_cutoff` | violation: with preemption | `SettledIsOff` |
| `resources` | five resources, four slots, three boards, two expansion owners | `ToolboxOwnsItsPins`, `ImplementsLeases` |

Each property is stated and explained in its module; `PROJECT.json` names for
each a mutant of the code's model that breaks it. What they come to:

- *Jobs and applications.* A stop drains before it deletes, quiesce returns
  exactly when the executor is idle, and every accepted job runs. Whatever fails
  in a transition, one application is alive, jobs belong to a live one, and the
  transition ends. The worker's buffers are left alone by the UI task while a
  command is under way, an application is pending only while a job of its own
  exists, what is played is one recording, no widget or Lua callback outlives
  its application, and what the manager can activate has a slot of its own,
  wherever a discovery failed.
- *Boot and devices.* A plan is in force as a whole or nothing of it is on,
  devices outlive their users, the I2C port is held by exactly the devices that
  are on, a card that could not be mounted keeps no bus, and no draw or staging
  buffer is written while a transfer reads it.
- *Services.* A stop reaches every service that may hold something, health says
  what happened, credentials are read back as they were submitted together,
  events are published in the order in which post accepted them, and the
  namespace is not closed under a save when settings is registered first.
- *Shell.* Widgets, theme, title, navigation bar, the texts of the settings and
  the network label agree with the controller after any sequence of inputs,
  failed activations and restarts, and so do the sliders' knobs but that of the
  brightness, which the status panel leaves behind (section 5); the backlight
  follows the power policy when the clock wraps.
- *Network, haptics, resources.* One server handle, nothing happens in a stopped
  service, saves end before the session does; when no race interferes the policy
  agrees with the radio, and connecting comes to an end unless no address comes
  or the driver refused the reconnect; the motor obeys the last command and
  stops; nobody loses or steals a lease.

Type invariants are not among the runs' properties: where a module has a proof
its `TypeOK` is a theorem, and elsewhere every other invariant would break or
TLC would stop at an operator applied outside its domain.

The bounds, and why they are enough:

- *AppJobs.* Two jobs and a queue of two show order, a full queue and a queue
  with the stop request behind jobs. Two starts show everything a worker or a
  token left behind by the first can do to the second; three would repeat it.
  `CounterSize` is larger than any count the run reaches, so an underflow would
  be seen as a large value. The two environments split what is unbounded
  together (why restart *with* other submitters is left out is in section 5).
- *AppManager.* Three applications: one to leave, one to start and one to be
  asked for in the middle. The theorems of section 6 lift the bound.
- *Applications.* One application of each kind that has a job, one with
  preferences, two of the card (a discovery that fails after none, the first or
  both). Two
  chunks make a half-recorded buffer; two jobs make an executor that is busy
  with one application's job while the next is refused. Presets 0 and 65 are the
  one that stops the motor and one that drives it.
- *Boot.* The plans are the firmware's own. Areas of one and three rows against
  a staging buffer of two are a transfer in one chunk and one in two of different
  size. The two configurations are interchangeable (symmetry). `RetrySamples`
  counts the samples of the two seconds between attempts: one passes, the next
  tries.
- *Runtime.* A mailbox of two is empty, half full, full and wrapped with three
  posts; the tasks may stand at any step of it. Two networks make a torn pair
  visible. The services are critical and optional as the firmware has them.
- *Shell.* Two catalog applications and a dock button whose application is
  missing; a timeout of two ticks against a clock of four wraps inside every
  idle period; commits that store nothing, theme and brightness but not the
  timeouts, or everything; starts that read nothing, everything, or everything
  but the seconds of the timeout, whose older key then counts.
- *Network.* A queue of three holds the events of an old and a new session;
  two retries tell a first from a last retry. Sessions are unbounded.
- *Haptics.* `MaxCommands` bounds the generation: four commands are a pulse, a
  superseding one, an off and one after it.
- *GpioToolbox.* Four slots for five resources and two owners per slot make each
  limit a refusal that happens; three boards: one with free pins, one whose
  requests overlap and whose header has a pin more than the catalog, one with
  more requests than slots. Two references per owner
  reach the limit of the count.

`CHECK_DEADLOCK FALSE` stands in `appjobs` (a stop may delete its own task after
a join that timed out), in the two runs of `Haptics` (no command after
`MaxCommands`) and in `mailbox_spin` (no event after `MaxPosts`). Every other
run checks for deadlock: no call waits for something that cannot come.

`PolicyAgreesWithRadio` and `ConnectingResolves` speak of behaviours without a race
(`timing = {}`): with `early` they do not hold (section 5), with `stale` an event
of the old session changes the policy of the new one. Both name the reconnect
that the driver refuses and the address that does not come as what may leave a
session connecting; nothing else may. `SavesInsideSession` and
`CallsReturn` hold with the races of the radio, and without `overlap`: a server
that a stop misses outlives its session. `ServerIsHeldOnce` and `StoppedIsQuiet`
hold with every race. In the same way `haptics` shows that the write of the
worker is the only place where `off` may be lost, `DmaReadsStillBuffer` excepts
the time after a wait that gave up, and `WifiPairWhole` the faults that the code
has no means to undo.

## 4. Fairness and outside assumptions

Fairness is weak fairness of a task that is inside an operation, never of a call:
nobody is assumed to submit, start, stop or press anything.

- FreeRTOS runs every ready task in the end: the UI task's calls, submitters,
  the job worker, the haptics worker, the SDK's two tasks.
- A job's `run` and an application's callbacks return. The code relies on it:
  `quiesce` and `activate` have no timeout.
- The Wi-Fi driver ends every association it accepted to attempt
  (`WF(RadioAnswers)`): it is joined or reported as lost. It may refuse the
  attempt, and no address need follow an association.
- A timed wait ends.
- `mailbox_spin` is about the scheduler itself. `MayRun` says who may run: on one
  core the UI task only while the event task has nothing to do. Under it the UI
  task is weakly fair, and the event task's posts are strongly fair: a lock that
  is free again and again is taken. Even so a post does not return.

`boot`, `services`, `shell`, `applications` and `resources` check safety only.

External behaviour that the modules take from how the code uses it:

- `esp_event_handler_instance_unregister` returns only when the handler is not
  running, and a handler that is unregistered is not called again.
- `httpd_stop` waits for the request being handled; `httpd_start` refuses a
  second server on the same port.
- `vTaskDelete` of another task ends it wherever it is; of a null handle, the
  caller.
- Transfers to the panel complete in the order in which they were queued, each
  with one call of the completion interrupt.
- One NVS write is atomic; a key survives a loss of power as it was before or
  after the write.
- Reading `ComponentLifecycle` (not atomic) of the network service from other
  tasks is a data race in the language; it is one aligned byte, every read
  returns a value that was written.

## 5. Where the code and its documents disagree

Three disagreements are runs of their own (`findings` in `PROJECT.json`):

- **`network_stuck`**: `AtomicComponentLifecycle::begin_stop` leaves a component
  that was stopped in `stopping`; the transport stops the provisioning server
  also when it never ran, and the server then refuses every later start.
- **`haptics_cutoff`**: `off` between the worker's check and its write; the
  motor then runs until the next command, although the README promises a
  five-second cutoff.
- **`mailbox_spin`**: the mailbox spins for its lock without yielding. The Wi-Fi
  event task has the higher priority; when it finds the lock held by the UI task
  of the same core, neither runs again. `services` has the two tasks on two
  cores, where every post returns.

Others were met while modelling and shape the instances above.

Jobs and services:

- *A submission in flight.* With a submitting task other than the UI task, that
  task may have decremented `pending_` to zero but not yet given `idle_` when
  stop deletes `idle_` (`firmware_application_jobs.cpp:56`). docs/architecture.md
  says that shutdown waits for in-flight submissions. The late give is a step of
  the model (`GiveIdle`, whatever is left of `idle_`), and
  `ObjectsOutliveUsers` excepts it. Only the UI task submits in the firmware.
- *A count that is stored 0.* At the end of stop `pending_` is set to zero; a
  submission that joined it before then decrements below zero after a restart.
- *A worker that forgets its successor.* The worker gives `worker_stopped_`
  before it clears `worker_task_`; a start in between assigns the new worker's
  handle, which the old worker then clears. The next stop finds no worker and
  deletes the queue under it. The window is in the model; the property that a
  running executor knows its worker does not hold in it, and
  `ObjectsOutliveUsers` speaks of the workers of a first session only.
- *A join that expires.* The worker may report and clear `worker_task_` after
  the wait has expired and before `vTaskDelete` reads the handle
  (`firmware_application_jobs.cpp:79-81`), in a first session too; the null
  handle then deletes the task that called stop (`StopKill`). `CallsReturn` says
  so where joins may time out.
- *A nested clear.* `ServiceManager::clear` is not refused while services start;
  called from a service's `start` it empties the catalog under the loop. No
  service of the firmware holds the manager, and `Runtime` makes no such call.
- *A retry nobody makes.* docs/architecture.md says that a failed boot can be
  retried; the model retries it and shows that it could be, `main/app_main.cpp`
  halts.

Network and settings:

- *An early answer.* The station is told to connect before the service is
  `running` (`network_service.cpp:20`); an answer in between is dropped and the
  policy stays `connecting` until the link changes.
- *A server that survives its session.* The event task starts the HTTP server
  without the UI task's knowledge; a stop between its check and its start leaves
  a server running after the service stopped, and a stop after the handle was
  stored frees the server under the registration of its routes
  (`firmware_provisioning_server.cpp:74`). What the use of the freed handle does
  is undefined; `ServerRoutes` has the outcomes in which the program goes on.
- *A reconnect that is refused.* `FirmwareWifiPlatform::reconnect` drops the
  result of `esp_wifi_connect` (`firmware_wifi_platform.cpp:126`): no event
  follows a refused call, and the policy stays `connecting` with retries left.
  Nothing is published on a reconnect, so the shell shows what it showed before.
- *An association without an address.* Only the address and the disconnection are
  listened for; a station to which DHCP gives no address stays `connecting` as
  long as it is associated.
- *A torn pair.* `torn` is true after power is lost between the two writes, after
  a rollback that fails and after a write that fails and took effect: the next
  boot then tries the new name with the old password. And a rollback erases the
  old name when the read before it failed (`wifi_settings.cpp:20` takes every
  failure for "there was none").

Devices:

- *A wait that gave up.* After a transfer timed out (`display_device.cpp:64`) the
  next wait may take the late token and the staging buffer is written under the
  DMA, although docs/architecture.md says that the flush path waits for each
  transfer. It ends when a transfer begins with no other under way, which clears
  the token; `adrift` is that time.
- *A bus that is refused.* When `spi_bus_initialize` fails, `StorageDevice` stays
  "starting" and notes no time of the attempt, so every later sample tries again.
- *A card that comes later* is not among the session's completed steps, so a
  shutdown of the platform would not unmount it. Nothing stops the platform once
  a boot is in force, and the loop that mounts runs only then.
- *A port without owners.* The I2C lease table counts holders only; what keeps a
  device from giving back another's reference is that each stops once, which
  `HardwareFollowsBoot` checks.
- *An exclusive lease that is none.* The owner of a shared lease that reserves it
  again for exclusive use is told that it succeeded (`resource_broker.cpp:36`),
  and others may still join. `Leases` therefore fixes the mode by the first
  owner, which is what the code guarantees.

Shell and applications:

- *A clock that wraps* wakes nobody and puts nobody to sleep too early, except
  that an idle time beyond the range of the clock starts at zero again: a screen
  that slept for 49 days wakes by itself.
- *One drag, two surfaces.* The gesture that closes the drawer does not end the
  drag; its release may open the status panel as well.
- *A save over a load.* A note that was loaded is shown by the next tick; a save
  pressed in between is admitted and overwrites it with what the editor had
  before. `write_text` truncates the note before it writes, and a short write
  leaves the file open (`firmware_application_files.cpp:64`).
- *A knob left behind.* A settings row sets its slider's knob when it is built;
  later updates write its text (`settings_view.cpp:124`, `138-143`). Dimming in
  the status panel changes the brightness and not the knob, which is wrong until
  it is dragged or the shell starts again. It is the only slider setting that is
  changed outside its row: `ViewsAgree` holds for every other knob.
- *Two owners of a preference.* The hardware test keeps its own copy of the
  haptic preferences, and the shell stores the same keys: whoever writes last
  wins over what the other shows.

## 6. What is proved

The proofs hold for every value of the constants under the named `ASSUME`s,
which TLC evaluates in the runs. Where a theorem needs more about the constants
it says so with an `ASSUME` of its own, and the reason is given below. Every
invariant was found with TLC first.

**AppJobsProofs.** `JobsInv` follows the executor through every interleaving of
atomic accesses: which RTOS objects exist at which step (`LifeInv`), who may be
inside a submission (`SubmitInv`), what the queue holds (`WorkInv`), and
`CountInv`: `pending_` is the number of submitters between their two checks plus
the queue's length plus the running job; after a join that expired the worker
may be anywhere, also gone, when `StopKill` reads its handle. From it
`DrainedBeforeDelete`, `ObjectsOutliveUsers`, `QuiesceMeansIdle`, and
`ImplementsExecutor` step by step: a submission is accepted when it is sent, a
job is finished when the worker has run it. All under `NoLateSubmitter`: other
tasks submit only where the executor is started once. Without it they are false:
a submission overtaken by a stop and a start is counted against a `pending_`
that was set to zero in between (TLC has the behaviour; in the firmware only the
UI task submits, so `e.submitters = {}` is its case). `CounterSize` is assumed
larger than any count that can be reached.

**ApplicationsProofs** holds the manager and what lives in it. For
`AppManager` (`AppsAssumption`): `OneApplicationAlive`, `JobsHaveLiveOwner`,
`ExposedIsStarted`, `LiveIsRegistered` and `InactiveIsClean`. None is inductive:
they speak of `state_` and `active_`, which say nothing in the middle of a
transition. The invariant `IInv` says which of the transition's applications
are registered in which phase (`PhaseInv`) and that the application between its
start and its stop is a function `Owner` of the phase, whose jobs all unfinished
ones are (`OwnerInv`). The jobs are those of `JobExecutor`, so with
`ImplementsExecutor` the result rests on proofs down to the atomics.
For `Applications` (`ApplicationsAssumption`: the applications of the card are
none of the built-in ones and have distinct names): `ApplicationsKeepManager`,
every step is one of the manager's, and then all six properties of the
`applications` run. The argument classifies a step by what it is to the manager
(`Turns`: nothing, a job accepted, a job finished, a start, a stop), so that each
application's invariant needs one lemma per class. `RecorderInv` and `NotesInv`
count: a command in the slot or a job on its way, and together as many as the
executor holds for that application. What makes `PlayedIsOneClip` inductive is
`OneTake`: the chunks that may be played carry the take of the first chunk; a
take number that is fresh exists because the buffer has fewer chunks than there
are numbers (`FreshTake`). `RegistryInv` ties the registry to the factory's count
through every step of a discovery: while it goes on, its candidates are exactly
the slots taken and none is registered, and its checkpoint is what a restore
must go back to.

**StartupPlanProofs** (`PlanAssumption`: steps as the two builders make them).
For any plan, with or without a session: `TypeOK`, `PlanSafe` (its parts are
`AllOrNothing`, `CriticalRun` and `OnlyCompletedRun`) and `StopsInReverse`, which
is left to the proof. While a plan runs or is undone the invariant says which
components can still be on (`StartInv`, `UndoInv`: stoppable components that are
on are completed steps at or before the index), between calls `IdleInv`, and
that a session has recorded exactly the completed steps; without the last a
shutdown could miss one.

**FirmwareProofs** is about the boot with everything behind it. `BootInv` is the
plan's invariant twice, for the boot plan and, through an instance of
`StartupPlanProofs`, for the hardware plan inside its step, with `Nesting`
saying when the inner plan may move; `BootIsPlanSafe` and `DevicesOutliveUsers`
follow. `BusInv` and `CardInv` then tie the I2C port's count and the card to the
components that are on, which gives `HardwareFollowsBoot`. The theorems that
speak of the order of the two plans assume the plan is the firmware's
(`TheBootPlan`); wiring, card, areas and sizes are arbitrary. `DmaReadsStillBuffer`
comes from `TransferInv`: at every step of a flush the queue of transfers is
empty or holds the one that reads the other buffer, unless a wait gave up.

**RuntimeProofs** is about services, settings and mailbox under the loop.
`MailboxInv` says which ring positions hold the events that were accepted and
not yet published, for a mailbox of any capacity (`EventsInOrder`). `ManagerInv`
says that what may hold resources is in the prefix of the catalog that a stop or
a rollback still reaches, and that health follows that prefix
(`StopReachesRunning`, `HealthIsHonest`); it holds for any catalog. `SaveInv`
follows a save of the pair through its writes, its rollback and a loss of power
(`WifiPairWhole`). With `SaveServed` (a save goes on only while the network
service runs) a catalog that has settings before network keeps the namespace
open under a save: `SavesMeetOpenStore`. That the save is over when the stop of
the network service returns is taken from `Network` (`SavesInsideSession`, which
holds but for a server that survives its session).

**NetworkProofs.** One invariant over the three tasks: `SessionInv` (the
service's, the transport's and the driver's lifecycles against where the UI task
is), `QuietInv` (what an event handler may be doing in a session that starts or
has ended), `OwnerInv` (which task may be inside a start or a stop of the
server, without `overlap`), `FormInv`, and `AgreeInv`, which lists for a running
session without races the radio, also refused or joined without an address, the
policy and the events between them. The four safety properties of the run follow
for any retry budget and any length of the queue; `ServerIsHeldOnce` and
`StoppedIsQuiet` with every race.

**HapticsProofs.** `CommandsInv` relates the worker's copies of a command to the
command of the generation it read; `RunsLatestCommand` needs no more.
`OffHolds` and `SettledIsOff` need `MotorInv` and that nothing comes between a
check of the worker and its write (`~Preempted`): with the counterexample of
`haptics_cutoff`, that window is the only way in which a motor is left on.

**UiTaskProofs** holds two clients of the UI task, because they share lemmas.
*The toolbox over the broker* (`BrokerAssumption`: positive sizes, finitely many
owners). `SlotsAreUnique`: the table has one slot per resource, none without an
owner, an exclusive one with a single owner. `BrokerImplementsLeases`: every
operation of the slot table is the corresponding step of `Leases`, with `refs`
and `mode` read from the slot a key is found in. The uniqueness of keys is the
invariant the refinement needs: `find` returns the first match, and only if it
is the only one do the writes to a slot change one resource and no other. The
argument goes through two lemmas about writing and freeing one slot (`WriteMap`,
`FreeMap`). With the broker's users on top (`BoardsAssumption`: a descriptor
requests valid resources): `ToolboxKeepsBroker`, `ToolboxImplementsLeases`, and
`ToolboxOwnsItsPins` for any boards. Its invariant says of the pins listed that
they are exactly the leases of the toolbox (`PinsInv`), of the candidates left
that none is listed (`AtInv`), and of a platform that starts that it holds what
it has gone through of its plan (`PlanInv`). That needs what the folds over a
descriptor compute: `FixedResourcePlan` is a sequence of valid reservations and
`GpioPinCatalog` has each pin once. The library's induction theorems take a
predicate as parameter, which no backend instantiates; `SetInduction` states
induction over a set and follows from the well-foundedness of the natural
numbers, and `FoldExists` and `FoldReaches` are what it gives for `FoldLeft`.

*The shell* (`ShellAssumption`: the drawer's button is no docked application,
the sliders belong to settings of the catalog, a commit stores a prefix of it).
The record `ui` is taken apart by every operator, so each has a lemma that says
what it sets and what it `Keeps`. The invariant of a running shell is `Whole`:
what is built, shown, powered, themed and named fits together. One part is
broken inside a handler: time that passes makes the power state late until the
tick's own update (`DueOK`), unless the handler was activity, which sets the
idle time to zero. A knob follows the preference it belongs to whoever changes
it but for the brightness (`KnobFollows`). The four safety properties of the run
need more than they say: that a status panel that is not built shows no network
state, that a touch keeps the power state awake, and that preferences are in
their ranges, so that `configure` clamps nothing. The last rests on what
`Restore` computes from any store, a fold again: `Read` and `Written` give its
closed form and that of `Persist`, and from them follow `SavedIsRestored` (a
whole save is restored as it was, with the theme and the haptic switch in their
encodings) and `TornSaveIsOldOrNew` (a save cut off after any key leaves each
setting old or new, also the haptic strength, which two keys hold).

Only model-checked: liveness under fairness (`CallsReturn`, `AcceptedJobRuns`,
`TransitionEnds`, `ConnectingResolves`, `MotorStops`), and that the calls of the
runs never deadlock, because TLAPS has no rules for `ENABLED`. In `GpioToolbox`,
which uses `ENABLED` to say that a request is refused, no proof needs to know
when that is.

## 7. What is not modelled

- `FirmwareSystemRestart::restart` switches the haptics off on the HTTP task
  before it restarts (`firmware_system_restart.cpp:7`): `Network.Restart` leaves
  that out, `Haptics` has `off` on the UI task only.
- A renewal or a loss of the address while associated: the event is not listened
  for.
- Inside modelled parts: wording of status values, logging, pacing statistics and
  the frame delay, health timestamps and the sampled numbers, the level written to
  a pin, the rows of a view, the contents of forms and credentials.
- Views: layout, telemetry labels and animation timing. What a view shows of the
  controllers' state is in `Shell`.
- Paint, calculator, dashboard and board information: coordinators of one view
  on one task, and arithmetic.
- Touch sampling, its debounce filter and geometry; power sensing: sequential
  arithmetic over device reads, which host tests cover. Only start and stop of
  the touch controller are in `I2cBus`.
- The tone worker of the audio device: its stop runs only when a boot is rolled
  back, before any tone was asked for, and a mixture of two requests is a click
  of the wrong length. The codec's hold of the I2C port is in `I2cBus`.
- Codec and panel registers, the backlight's PWM, I2S and ADC setup, signal
  rendering.
- A storage host of the wrong family for the board, which profile validation
  excludes.
- `EventBus` with several observers: the firmware has one subscription, the
  shell's (`Shell`); the bus's snapshot for observers that unsubscribe in a
  callback has no user.
- COBS, frames and the RPC router: pure functions with host tests, which no
  transport of the firmware uses yet.
- The Lua interpreter, script contents, path and file-name strings, the heap.
- Board descriptors with their generator, assets, examples, tools: constant data.

## 8. The plan

Written and checked: every module of section 2; proved: what section 6 says.
What is left, most important first.

Proofs: what is left of the runs' properties is liveness. Of the rest, that the
jobs of the manager over `AppJobs` implement those over `JobExecutor`, once the
two are composed.

Modelling: `AppManager` over the real `AppJobs` in the place of `JobExecutor`;
`Network` as the poster of `Events` and the saver of `Settings`; the tone worker
with its output lock; the touch filter over a wrapping clock; the telemetry that
diagnostics publishes to the views.
