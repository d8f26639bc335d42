# Verification of the Stellaris 15 Gen3 fan control

TLA+ models of the fan control in `src/`, the TLC runs that check them and the TLAPS proofs
about them. Section 1 is the inventory of the system, section 2 the plan, sections 3 to 6 say
what is modelled, what the runs show and what is proved, section 7 where the code and its own
documents part, section 8 what is left out. `PROJECT.json` maps every definition to the source
lines it models, and lists the runs, the hazards with their lines, and for each checked property
one faulty variant of the code that breaks it.

    tlc -workers 2 -config FanController_stop.cfg MCFanController     # a run
    tlapm FanController_proofs.tla                                     # the proofs of a module

## 1. Inventory

The program overrides the fan control of a laptop. A privileged backend (a systemd service on
Linux, an elevated process on Windows) owns the embedded controller (EC); an unprivileged Qt
frontend sends it requests over a local socket. Hot hardware is the hazard: whatever fails, the
fans must not stay slow without anybody noticing.

| Component | State | Operations | Must hold |
|---|---|---|---|
| Bounded operation lane, `shared/bounded_operation.py` | slot owner, condition variable, `abandoned` flag per call | `call` with deadline, safety callbacks `on_timeout`, `after_timeout` | native work is exclusive; every caller is answered; the slot comes back only after the repair of a late call |
| Controller, `backend/fan_control_backend.py` | mode, end points, schedule, cached Boost, sensor emergency, output fault, last duties | the request handlers, Automatic loop, sensor watchdog, output fallback, stop | the cached state agrees with the EC; an emergency keeps Boost; Automatic writes only what is still wanted and is not stranded |
| Automatic curve, `shared/fan_control_common.py` | none | `auto_target` | in range, full at 80 C, monotonic |
| Linux fan service and EC client, `backend/linux_fan_service.py`, `backend/linux_ec.py` | what was asked for (`_desired_*`), the EC bytes | fan, Boost, GPU and lightbar requests, `maintain`, transaction with readback and rollback | what is remembered is in the EC, after failures too; drift is repaired |
| Firmware MUX, `backend/gpu_mux.py`, `backend/linux_polkit.py` | a UEFI variable, its immutable flag, backups, a lock | `set_mode`, `read_state`, `block_writes` | the password covers what is written; the reboot hint is true; an orderly stop cuts no save off |
| Linux lifecycle, `backend/linux_backend.py` | settings file, signals, process lock, journal, maintenance thread | `begin_stop`, final write, `stop`, save and load | final 100% is final; the file is not older than the EC |
| Peer server, `backend/linux_backend.py` | 16 request slots | accept, check peer, serve | each slot comes back |
| Linux sensors, `backend/linux_sensors.py` | last energy samples | validated reads, RAPL and Ryzen wrap-around | no value from a stale or wrapped sample |
| Windows services, `backend/fan_control_service.py`, `direct_fan_control.py`, `fan_control.py`, `windows_broker.py` | OEM broker or Direct EC as writer, verified target, cached OEM curve, saved choices | the same requests, maintenance, change of writer | no byte into the OEM service's EC beyond the one under way; an answer tells what the EC shows; a failure is undone; drift is repaired |
| Windows temperatures and power, `backend/temperature_service.py` | last samples | driver reads | as above |
| NVIDIA helper, `backend/nvidia_helper.py` | child process, request ids, pipes | query, restart after time-out, close | an answer belongs to its question; a start has its time; the lane recovers |
| IPC and supervision, `shared/fan_control_ipc.py`, `stellaris15gen3*.py` | socket, in-process client, frontend heartbeat | client calls with deadlines, frontend watchdog | a request that was given up does not undo a later one |
| Qt frontend, `frontend/fan_control_gui.py` | flags `_busy`, `_closing`, `_exit_in_progress`, timers, one pool thread | user input, questions, results, session end | goodbye is said only after a final write that stays; the window comes back |
| Probe, icon, stress script | none shared | diagnostics, assets | |

**Interaction.** Request threads of the socket server, the Automatic loop, the watchdog and, on
Linux, the maintenance thread and the main thread call the controller. Everything that writes the
fans holds the controller's `_state_lock` and goes through one lane (`BoundedOperation`), behind
which is the service of the platform. On Windows the frontend, the controller and an in-process
client are one process: the window queues requests for one pool thread, which waits for the
controller with a deadline and then reports to the window's event loop. Temperatures and telemetry
of NVIDIA come over two lanes of their own from helper processes. The lane cannot cancel a native call. It releases the caller
at the deadline; the call itself goes on, may take effect later, and is followed by Boost before
anything else may run. The MUX has a lock of its own and does not touch the EC.

**What is hard.** A call that returns after its caller gave up; requests admitted before a stop,
an emergency or a fault and carried out after it; an Automatic cycle that spends seconds on
sensors without the lock; flags that are cached in one handler and invalidated in another; loops
that sleep without a deadline; transactions that fail half-way and whose undo fails too; a
password dialog of two minutes between a check and its use; kills and reboots. `PROJECT.json`
lists these as hazards, each at its line with the properties that cover it, or with the reason
why none does.

## 2. Plan

Done, in this order:

1. `ExclusiveLane`, `BoundedOperation`: the lane, its abstract promise, refinement. *Proved.*
2. `FanController` with `AutoCurve`: the controller and the stop of the Linux service. *Six
   theorems. It uses the lane as `BoundedOperation` shows it to its callers.*
3. `FirmwareMux`. *Five theorems.*
4. `LinuxFanService`: transaction, rollback, maintenance. *Proved.*
5. `LinuxService`: request slots, settings file, resync signal, start, stop, kill. *Proved.*
6. `WindowsFanService`: broker and Direct EC, byte by byte. *Proved.*
7. `NvidiaHelper`. *Proved.*
8. `FrontendSession`: the window's requests, exit and session end. *Proved.*
9. `PowerMeter`: the wrap-around of the energy counters. *Proved; its two statements are theorems
   and no run.*

*Proved* means every safety property that a run checks, for every value of the constants; what
stays with TLC is said at the end of section 6.

Next: `FanSafety`, an abstract controller (faulted, emergency, normal) that `FanController` is to
implement; the same for the transactions of the two platforms, which promise their callers one
thing (all written, all as before, or reported); the two GPU display paths of section 8; and the
source-mode supervision of frontend and backend.

## 3. The modules and the code

### BoundedOperation, ExclusiveLane

`kind[c]` is how `call` is used: `ec` (waits for the slot, both callbacks), `sensor` (waits, no
callback), `query` (does not wait). `active` is `_active`, `lock` the caller inside the time-out
block of `_lock`; `pc[c]` is the calling thread, `worker[c]` the thread that `call` starts. Each
block under `_lock` is one action. Only the time-out block is two, `Publish` and `Abandon`, since
its two effects are told apart. A wait ends by a wake-up (`MustLook`) or by the deadline
(`expired`), which may pass at any time. `AfterTimeout` and `ReleaseLate` are the end of a worker
that was given up. `ExclusiveLane` is what this comes to: a call is refused or works alone;
overdue work keeps the lane until it has returned and been repaired. `ImplementsLane` maps the
threads to it.

### FanController

`held` is the handler inside `_state_lock` and how far it got (`call`, `run`, `ok`, then the
fallback stages); `lane` is the operation in the slot and whether it is abandoned or late; `ec` is
what the registers hold. `auto` has the Automatic loop with what its cycle captured; `watchdog` is
the freshness the watchdog saw before it waits for the lock. A handler is a request action
(guards, early returns, taking the lock), the steps of its EC call, and one action for what it
does with the result, so that other threads run in between exactly where the code lets them.

Merged, because nobody can see the middle: a failed call with latching the fault, both under the
lock; the end of a wait with the capture that follows it; a cycle's end with its `finally`; waking
the loop with leaving the lock. `set_mode` is `Configure` followed by `SetMode`.

Abstracted: a pair of duties is `full` or `low`; time is a choice of the environment, so that any
deadline and the 30 s of sensor silence can pass at any moment; telemetry, lightbar, GPU power and
maintenance of an undrifted EC are lane traffic (`other`), and can time out like the rest;
`boost_off` does what the Linux service does. `FailureTakesEffect` says whether a write that is
reported as failed may have been carried out (a lost confirmation, a failed rollback). Requests
may arrive after a stop began, which the closing socket mostly prevents: a superset.

### AutoCurve

`auto_target` over whole degrees. Python rounds halves to even; the model's rounding does the same.
`MCFanController` builds the `Target` of the checked controller from it.

### FirmwareMux

`save[c]` is a thread in `set_mode`; its `pc` names what comes next, from the first look, the
dialog and the second look to backup, recheck, last look at other writers, write, restored flag
and readback. Everything from `SecondLook` on is under `_lock`. `main` is the service process:
`block_writes` takes the lock for good (`BlockWrites`), and a stop that waited 10 s in vain exits
nevertheless (`ExitInSave`). The variable is its mode byte and a version of the rest. `active`,
`foreignNow` and `flagLost` are history: the mode of this boot, whether another tool wrote in it,
whether a flag could not be put back. `read_state` changes nothing and is a look under the lock.

### LinuxFanService

`ec` is a record of cells: a cell is what the code writes for one purpose, the 96 bytes of the fan
tables or some bits of a control byte. `chosen` is the `_desired_*`. `job` is the transaction under
`_operation_lock`: the cells left to write in the order of the code, the previous values, and the
choice to be remembered if it succeeds. `WriteGoesWrong` is an access that raises or is lost, which
may tear the tables; `Verify` reads back and turns to `Undo`, which nobody verifies. `maintain`
goes through its four stages and drops the later ones when one fails. `Drift` is the firmware,
`KilledAndRestarted` a kill, also in the middle of an access. `shown` is history: the settings that
a verified transaction showed and nothing has disturbed since.

### LinuxService

`conn[p]` is one connection of `PeerCredentialServer` and the thread that handles it: refused by
its uid, turned away for want of a slot, stalled, or working through a setting from the EC call to
the answer. `_save_settings` is its own steps, as in the code: a snapshot of memory, opening
`settings.tmp` (which empties it), writing, `os.replace`. Nothing locks them, so two savers overlap. One saver is no request: the main thread.
`controller.start` captures the end points (`linux_backend.py:143-144`), and its `set_mode`
configures and saves them again (:146), while the server thread already serves
(`StartThreads`, then the same steps as a request's for `conn[Main]`, then `Started`).
An EC call that timed out stays on `lane` and may still set `desired`. `End` may come anywhere;
`Start` loads the file, and a file that is torn or empty loads the defaults. `upkeep`, `wakeup`,
`resync` and `handler` are the maintenance thread and the signal handler with its two events. The
history `last` holds the choices that were answered. `excused` is set when changes overlap (that of
the main thread is one), an EC call times out or a request's save fails: there the code gives up the
promise (section 7). It ends with a restart, or with the next change that begins when everything
has `Settled`. What a call does to the fans is in `FanController`.

### WindowsFanService

One request runs under `_operation_lock`. `run` is its record: the operation, the cells left to
write, what was found before, how many accesses failed, and whether anybody else came between
(`clean`). It picks its client (`_get_method`), checks, reads, writes and reads back cell by cell;
before each byte it asks again whether the broker listens. `late` counts the bytes that went out
after the broker came up. The short way of `set_curve`, which writes nothing when the target is
`verified` and a fresh read agrees, is there, and so are the cleared tables of a stopping OEM
service with the OEM curve kept for them, the rollback, the saved choices and the 15 s maintenance.
The environment starts and stops the OEM service (`set_oem_service` is one who does), clears the
tables late, drifts, and kills the process.

### NvidiaHelper

`call[c]` is a caller in `query`, `requests` and `messages` are the two pipes, `helper` the child in
`serve`, `session` its NVML session and `gpu` what PnP reports. `_kill` drops the child with both
pipes; an answer of the driver that comes after it is lost, one that came before lies in `messages`
and carries the id of its question. `StillStarting` is the branch of a query whose deadline passes
while the helper has not reported ready. `nvidia_gpu_powered_off` is an operator over the set of
display devices.

### FrontendSession

`gui` has the window's flags; `asked` is the stack of questions on the screen (each runs an event
loop, in which timers and results go on); `timers` the single-shot timers; `pool` the queue of the
pool's one thread, `thread` what it waits for, `posts` the results on their way to the event loop;
`lane` the request the controller works on, which goes on after the pool's thread timed out.
`_run` is in every action that starts a request, with its refusals. `SessionEnds` queues the final
write and waits for the whole pool; `Cancel` is a session end that was called off. `final` is
history: a final 100% write was the last thing done to the fans.

### PowerMeter

`RaplSample`, `RyzenSample` and `RyzenFails` are the two `sample` methods. `energy` is the counter,
`used` what the package really used, `Tick` half a second of it. A power is kept as the pair of
energy and time, so that nothing is rounded.

## 4. The runs

`MC*` modules hold the instances; the `.cfg` files the bounds. States are distinct states.

| Run | Question | Bounds | States |
|---|---|---|---|
| `lane` | can three calls of any kind overlap, leak the slot, sleep for ever, contradict the abstract lane, or stay unanswered? does the slot come back? | 3 calls, kinds in order | 209 k |
| `requests` | requests, Automatic, watchdog, time-outs, failures with effect: is a write unaccounted for, a confirmed Boost off, or an emergency's full speed left? | 50 and 85 C, default end points | 2 M |
| `stop` | does anything undo the final 100%? Does a cycle write for what no longer holds? | 50 C, two pairs of end points | 1.7 M |
| `boost_live` | do lost sensors lead to Boost while clients and late calls compete, failures with effect included? | manual, exit and mode requests, telemetry | 234 k |
| `auto_live` | does Automatic keep reading? | Boost and mode requests | 447 k |
| `mux` | two saves, another writer, stop, kill, restart, reboot | 2 callers, 2 lives, 1 foreign write | 471 k |
| `drift` | requests, maintenance, failed and torn accesses, drift, kills | 2 groups of settings, 2 upsets | 502 k |
| `service` | requests that save, time out, stall, beside the save of the start; kill and restart at any step; the resync signal | 2 peers that change, 3 that read, or signals; 2 slots, 1 EC setting and the end points, 1 value | 1.3 M |
| `windows` | requests and maintenance while the OEM service comes and goes between bytes; failures, drift, kills | each part by itself, 1 upset, 1 start of the OEM service | 560 k |
| `helper` | two callers on a helper that hangs, starts slowly, dies or loses its GPU | 3 ids, 3 upsets | 222 k |
| `gui` | every user input, timer, question, result, hanging request, exit, session end and its cancellation | 3 inputs | 258 k |
| `v_users` | section 7 | | |

What the properties say:

* `ExclusiveDriver`, `SlotNotLeaked`, `NoLostWakeup`, `RepairBeforeRelease`, `AnswerMatchesWork`,
  `ImplementsLane`, `EveryCallAnswered`, `SlotComesBack`: the lane never runs two native calls,
  never loses its slot or a wake-up, repairs before it releases, and tells a caller neither
  success for work that was given up nor refusal for work that will still be done.
* `NoUnaccountedWrite`: unless a fault is latched, the tables hold what was last verified.
  `ConfirmedIsTrue`: a Boost that is reported as confirmed is on, except while a fault is latched
  and failed writes may have been carried out (section 7). `EmergencyKeepsFull`: in an emergency,
  fans at full speed are slowed only by an Automatic write, by the watchdog's restore, or by an
  operation abandoned before; Boost itself is also left by an exit or the stop, for 100% tables.
  `AutoWriteIsWanted`: mode, end points and Boost captured before the sensors were read hold when
  the cycle writes. `FinalWriteIsFinal`. `StaleLeadsToBoost` and `AutoKeepsRunning` are liveness:
  lost sensors lead to Boost, to readings, or to the stale mark of section 7.
* `PasswordCoversWrite`, `RebootHintIsTrue`, `SaveIsWhole`, `FlagIsRestored`, `LockComesFree`.
* `FansAsChosen`, `GpuAsChosen`, `LightbarAsChosen`: what was shown once and not disturbed is what
  is remembered, also after a transaction that failed and was undone. `BoostLeftWithTables`: Boost
  is left for written tables only. `DriftIsRepaired`: everything that is remembered is in the EC
  again and again, once tccd is gone.
* `SavedIsChosen`: killed at any moment, the service finds every answered choice in its file, and
  between requests remembers and asserts it, unless `excused`: changes overlapped (also with the
  save of the start), an EC call timed out, or the save of an answered change failed, and things
  have not settled since.
  `RefusedOnlyWhenFull`: no way out of a request loses a slot. `ResyncIsPrompt`: no resume signal
  is lost between the two events.
* `OneByteLate`: once the OEM service is there, at most the byte under way follows, no rollback
  either. `AnswerIsTrue`: success means that the EC shows it, on the short way too.
  `FailureIsUndone`: one failed access leaves the EC as it was. `DriftIsRepaired`: Automatic's target and the
  saved GPU and light choices come back after a drift; manual duties nobody maintains.
* `AnswerIsCurrent`: a caller is told of the GPU as it was while it asked. `StartIsGivenTime`:
  short deadlines never kill a helper that is starting. `LaneRecovers`.
* `FullOnExit`: the window says goodbye only when the final write is the last thing done to the
  fans, also with a manual write that was given up and returns late. `ComesBack`: it does not stay
  busy or closing for ever, although the driver may hang and the session end be called off.

**Why the bounds are enough.** *Lane:* one call can own the slot, one sleep behind it and one
arrive; the calls do not differ otherwise. Each multiset of kinds is tried in one order, which is
TLC's symmetry without its unsoundness for liveness. *Controller:* nothing is counted, so these
runs are exhaustive over any number of requests, cycles and failures. Two temperatures give both
duties; two pairs of end points disagree at 50 C. The requests are split over the runs by what can
disturb the property: `stop` has the requests that move duties and mode, and `requests` the ones
that move Boost. `boost_live` leaves out Boost and load requests for the time a liveness check
takes; `FanController_boost_live_clients.cfg`, beside the runs, has them instead of mode requests
(385 k states, no error). *MUX:* two callers give every race of a save with a dialog; one foreign write is
enough to come between any two steps; two lives are a restart or a reboot. One initial value stands
for all by renaming. *Linux service:* two upsets are a fault and the fault of its undo, or a fault
and a drift. The settings are taken in two groups, {fans, lightbar} and the two GPU settings that
share a byte; the offsets are 0, 25 and a refused 60.
*Service:* two peers that make changes are, with the main thread, three savers who share the
temporary file; a GPU setting and the end points are the two kinds (through the
EC, and only kept). One value beside the default tells an old file from a new one. Two slots and
three peers that only read give a full house with one more at the door; how a request ends does not
depend on what it changed. The two peers are symmetric, and no liveness is checked there. Signals
share no state with the requests and have behaviours of their own. *Windows:* the three parts write disjoint cells and share the broker check,
so each is taken by itself; one start of the OEM service falls between any two bytes, and one upset
is a failure or a drift or a kill; a second failure is the failure of the rollback, which
`FailureIsUndone` excuses. *Helper:* ids come again after three, so that a stale id is as close
as it can be; three upsets are a hang, a slow restart and a lost session, one after the other.
*Window:* three inputs are a command, an exit and a session end in any order and overlap; timers
and results are not bounded. The proofs of section
6 remove the bounds from every safety property; for liveness the bounds are what is said here.

Deadlock is checked everywhere except in `mux`, where the service may be down for good after its
last life, and the machine then only waits, and in `gui`, where the window goes and the process
ends. No passing run states a constraint.

## 5. Fairness

* **Lane:** every thread that can run runs, and a deadline passes. A native call has no fairness
  in `EveryCallAnswered`: the driver may hang for ever. `SlotComesBack` is conditional on the
  return of the driver.
* **Controller**, `LaneFairness`: a thread inside the lock goes on, an operation ends or is
  abandoned at its deadline, and an abandoned one returns some time. `AutoFairness`: the loop gets
  the lock in its turn, and its deadline `_next_auto_at` is not moved by wake-ups, so a wait begun
  again and again runs out (strong fairness). `WatchdogFairness` is the same for the watchdog.
  `WorkingBoost`, for `StaleLeadsToBoost` only: a Boost tried again and again gets through once,
  and from some time on the fallback does not find the lane taken by a running operation. The
  lane's own deadlines justify the second: it is a plain mutex that such operations leave. No
  fairness on sensors, clients and outcomes otherwise.
* **MUX:** weak fairness of a caller's own steps. The dialog has none: it may stay open for ever
  as far as `LockComesFree` is concerned.
* **Linux service:** who has the lock goes on; the maintenance thread, every 15 s, gets it in its
  turn. The finite number of upsets says that accesses do not fail for ever.

* **Windows:** the request under the lock goes on, and a stopping OEM service clears the tables
  when it does. Automatic and maintenance come back every few seconds and get the lock in their
  turn (strong fairness). Nothing on the OEM service or the user.
* **Helper:** threads run, queries keep coming (telemetry is periodic), deadlines and the start
  limit pass, a helper that does not hang works. Nothing on the driver.
* **Window:** the pool's thread goes on and gives up at its deadline, the event loop delivers
  results, the wait for the pool ends by itself. Nothing on the user, the timers or the driver.
* **Service:** none; its three properties are safety.

## 6. The proofs

`tlapm` checks the modules `*_proofs`. Nothing is assumed but the ASSUMEs of the modules, which say
what kind of thing each constant is.

In most modules no property of a run is inductive alone. The invariant that is, `IInv`, was first
checked by TLC on the run's bounds. Below is what it adds, and why the property needs it.

**Lane.** For any set of calls, finite or not. `IInv` is, call by call: a call before its start has
no worker, and one after it has; the slot's owner is the call that starts or whose worker is alive;
who is in the time-out block has the lock; only the time-out block abandons, after it published the
fault; what a caller is told is the result of a worker that has gone; a sleeper waits behind work
that is still awaited. None of the properties is inductive alone: that native work is exclusive
rests on who owns the slot, which rests on where the starting thread is. From it follow all six
invariants of run `lane`, and `Implements`: every step of the threads is a step of `ExclusiveLane`
or a stutter.

**Controller.** For any temperatures, end points, requests and curve. `IInv` is `TypeOK` with
`HeldShape` (each handler calls what its code calls), `LaneShape` (the lane's operation is the one
of the handler that is in its call, or was abandoned by one), `AutoShape` (what the cycle captured,
and that it still holds in its call), `DutyShape` (an abandoned write has latched the fault; the
tables hold what was last verified, or what the handler is about to record), `FinalShape` (after
the final write, no operation on the lane, late or not, lowers the tables), `EmergencyShape` (a
handler that may slow the fans was admitted before the emergency) and `ConfirmShape` (a confirmed
Boost is on, or was left by a call whose handler is about to clear the mark, or a fault is latched). The fan properties need all of
them: what an operation may do to the registers depends on who started it and whether it was given
up. Results: `TypeCorrect`, `Accounted`, `Final`, `AutoWanted`, `EmergencyKept` (with the
exceptions of `EmergencyKeepsFull`, the exit among them) and `Confirmed`, both without further
assumptions.

**Curve.** For all integers, also end points in the wrong order: the duty is between 30 and 100,
it is 100 from 80 C on, and it never falls when the temperature rises
(in `FanController_proofs`). The model rounds an exact
fraction where the code rounds a float, so that nothing is said of temperatures within float
precision of a rounding threshold.

**MUX.** For any number of calls, lives and foreign writes. `IInv` adds to the two invariants that
who saves has the lock, that a stop that got through keeps it, and what a call knows: at its second
look it has the password if the mode differs from what it looked at, and from then on the state it
will write over is the one it asked the password for. Results: `TypeCorrect`, `Whole`,
`FlagRestored`, `PasswordCovers`, `HintTrue`. The last is about the first backup of a boot, and
needs `HintShape`: no backup is of a later boot; until the first save of a boot the variable has
the mode the machine runs in, and from then on the first backup has it; a save that has not backed
up yet still has before it what it read; and no save outlives its process. A caller's step is
summarised in `Moves` (what it leaves in its record, the lock and the flag), so that each conjunct
is shown once and not once per action.

**Linux fan service.** For any duties, watts, colours and number of upsets. A setting that was shown
must survive a transaction that fails half-way, so `IInv` speaks of what the EC held `Before` it:
`Remembered` (what was shown is what that shows), `Kept` (a cell that is not written yet is
unchanged), `PutBack` (while undoing, a written cell is as before or its turn is still to come) and
`Pending` (the same on the way forward, for what is wanted, as long as nothing has gone wrong).
`JobShape` says what a transaction can be: one of five plans, each of which shows the choice it
will leave (`Planned`) and leaves the other settings alone (`AgreeBut`). The case that is easily
overlooked is two settings in one byte: the plan for Dynamic Boost keeps the two bits of the
offset if the byte had them. Results: `FansFollow`, `GpuFollows`, `LightbarFollows`,
`TablesBeforeMode`, `TypeCorrect`.

**Linux service.** For any peers, slots, settings and values, the main thread's save included.
`SlotsCount`: free slots and served
threads make up `MAX_CONCURRENT_REQUESTS`. `OneChange`: unless the behaviour is excused, at most one
thread is at work on a change, nothing late is in the lane, the file has the last answered choices,
and `Progress` says how far the change got, through the lane, memory, `settings.tmp` and
`os.replace`. A kill between any two of its steps then leaves the file as it was or as it was asked
for. `ResyncIsComing`: a resume that was not looked at has set the wake-up or is about to. `Down`:
nothing is left of a process that is down. Results: `SavedChosen` (with the
exemption of `excused`), `RefusedWhenFull`, `ResyncPrompt`.

**Windows.** For any targets, offsets, lights, upsets and starts of the OEM service. `Direct`: who
writes has the direct client, and the broker was not there when it asked, unless disturbed since.
`LateByte`: once the byte under way is late, no other is about to go. For the other two results a
request is followed from what it found (`Found`) to what it wants (`Asked`). `Forward`: a cell is
right or has its turn to come, and as it was found unless written. `Back`: on the way back for one
fault, a cell is as found or has its turn to come. `Answered`: what was read back holds until the
answer, on the short way of `set_curve` too. Results: `LateByteAtMost`, `AnswersHold`,
`FailuresAreUndone`.

**Window.** For any number of inputs. The queues may grow without bound.
`OneRequest`: at most one request of `_run` is queued, runs or has an undelivered result, and the
window is busy with it. `SameWork`: the thread waits for what the controller works on.
`SessionIsLast`: the write of a session end is the last in the pool, and only its own success
is taken for one. `GoodbyeIsTrue`: an exit's success that is not yet delivered is final, and no fan
command is on the lane. Results: `FinalOnExit`, and `NothingUndoesIt`, which is stronger: after
goodbye no fan command is on the lane, with the thread or in the pool.

**NVIDIA helper.** For any callers, any bound on ids and any number of upsets. `LockShape`: one
caller is past the lock, and it knows the helper's state. `OneInFlight`: of a helper that runs, one
question or answer at most is in the two pipes and the helper together, and only while its caller
waits. This is why ids may come again early: a caller that gives up kills the helper with both
pipes. `Told`: an answer in the pipe was true of the GPU at some moment since the caller came.
Results: `AnswersAreCurrent`, `StartsHaveTime`.

**Power meters.** For every range of the counter. `Tracks` says that since the last reading the
counter went as far as the package used, as long as that is less than one range. `WrapUndone`
holds of both meters. `RyzenTrue` needs `Parameters`: what the package can use until
`MAX_POWER_INTERVAL` is less than the range (2^32 units against 30 s). The RAPL meter has no such
limit, so nothing like it can be said of it: after a long pause its counter may have wrapped twice,
and only the plausibility limit stands between that and the display. A tick is the shortest
interval, and the bound on the interval is then a number of ticks. The module is not in a run.

**Model-checked only.** All liveness: `EveryCallAnswered`, `SlotComesBack`, `StaleLeadsToBoost`,
`AutoKeepsRunning`, `LockComesFree`, both `DriftIsRepaired`, `LaneRecovers`, `ComesBack`. Fairness
and ENABLED are beyond the prover. `AutoCurve` is proved for its rounding of exact fractions, and
`FanController` for any curve; that the two meet is an instance of the run.
No module with a theorem uses a RECURSIVE operator.

## 7. Where the code and its documents part

Each counterexample is a few steps long; the statement is the document's. `v_users` is a listed
run; the others are configurations beside the runs, to be started by hand.

* `v_users`: in Automatic mode the emergency is cleared before the write that leaves its Boost.
  A `load_state` in between caches it as the user's (`fan_control_backend.py:470`), and that pauses
  the write. DESIGN.md:256 says it is not cached.
* `FanController_v_flag.cfg`: a restore of the manual duties at the end of an emergency leaves Boost
  in the EC, but not the cached Boost that a client set during the emergency
  (`fan_control_backend.py:364`). The comment at :458-459 says what a stale value blocks.
* `FanController_v_fault.cfg`: a lower manual write tests the fault (:454), waits for the lane,
  succeeds after another call timed out, and clears the fault that call latched (:427).
  DESIGN.md:256 says what clears one.
* `FanController_v_stranded.cfg`: `apply_manual` clears the cached Boost without waking the
  Automatic loop, which sleeps without a deadline (:460, :553-558); DESIGN.md:56 says that Boost
  pauses it while enabled.
* `FanController_v_confirmed.cfg`: with a fault already latched, a write that fails does not
  clear the mark of a confirmed Boost (`fan_control_backend.py:423`, `:622`). If the write was
  carried out and its fallback fails too, the mark stays with Boost off, and a stale-sensor
  emergency is then not answered by another Boost (`:348`). safety.md:23 requires Boost then, and
  safety.md:29 says that a confirmed one is told from an unconfirmed one.
* `LinuxService_v_start.cfg`: a change of the end points that is answered while the service starts
  may be put back, in memory and in the file, by what the start captured before it
  (`linux_backend.py:143-146`, beside the requests served since :410). No document speaks of it.
* `WindowsFanService_v_drift.cfg`: `set_dynamic_boost` keeps the GPU offset that the EC shows at the
  moment (`fan_control_service.py:289`), so that a drift just before it becomes the choice;
  docs/windows.md:68 says the choice is restored after drift.
* `FrontendSession_v_exit.cfg`: while the exit's question is open, a timer may start a request.
  The confirmed exit then sets `_exit_in_progress`, `_run` refuses it without a word because the
  window is busy, and no later exit is accepted (`fan_control_gui.py:2500`).

Gaps that a model shows and no property claims:

* `prepare_exit` is the one fan request without `_refuse_during_sensor_emergency`
  (`fan_control_backend.py:645-650`): it leaves the emergency's Boost for tables of 100%, while
  safety.md:23 holds Boost until the readings recover. The fans stay at full speed, which is what
  `EmergencyKeepsFull` says.
* `maintain` on Linux compares only the offset byte, so an enable bit of the GPU offset that the
  firmware clears is not put back (`linux_fan_service.py:233`). `DriftIsRepaired` speaks of the
  offset byte only.
* Two savers share `settings.tmp` (`linux_backend.py:216`): the older snapshot may win, or a torn
  file is moved into place and loads the defaults. A GPU or lightbar call that timed out may set
  what maintenance asserts, while the file keeps the old choice. A save that fails is logged and
  the request answered as a success. `SavedIsChosen` excuses these, and the start's save beside a
  change (`excused`), until things have settled again or the service restarts.
* A value edited in the window is sent when its debounce timer fires, unless the window is busy
  then: it is dropped (`fan_control_gui.py:1929`, DESIGN.md:156). So is the resynchronisation after
  a heartbeat that came back, and a failed mode or Boost request leaves its toggle on what was
  not done. A session end that is called off may still carry out its `prepare_exit` later, and
  leave Automatic while the window shows it.
* With cleared fan tables and no cached OEM curve, Direct EC refuses everything, the GPU and
  lightbar choices included (`direct_fan_control.py:375-379`): `Refused` in `DriftIsRepaired`.

## 8. Not modelled

* Display state, wording, logging, backup files of the EC: nothing here decides about the fans.
  The nested `load_state` of the Windows-only `set_oem_service`.
* Clocks. Any deadline may pass at any time, which contains every real timing for safety. The age
  of a sensor reading is a choice, so two overlapping reads are not told apart.
* Windows: the NVIDIA limits, which only refuse; Control Center 4.9's or-ed mode bytes; the hashes
  and DLL checks before Direct EC is allowed; the OEM service behind its broker, which is external;
  the Windows transport of the MUX, which has neither password nor flag.
* Frontend: its Linux branches, drawing, values of the controls, preferences, tray (also its Exit
  during an open question) and second instance; `read_lightbar`; error boxes and the event loops
  they run; source mode's two processes with the socket client, `ensure_backend` and the frontend
  watchdog of the backend.
* Linux: the journal, the process lock, the MUX wait of `stop` (it is in `FirmwareMux`), the kernel
  driver's `ctgp_offset` file, the GPU limits of nvidia-smi, the discovery of hwmon files, and the
  two GPU bytes that only ever get one value.
* The UEFI variable beyond its mode byte, and the power-on of the firmware, except for the applied
  mode. Backups are ordered as they were taken: a clock that is set back between two of them would
  break the reboot hint.
* Probe, stress script, icon, installers: no state shared with the running system.
