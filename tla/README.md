# A formal model of alarmd

`alarmd` keeps a queue of alarm events for a Maemo device.  Clients add, change
and delete events over D-Bus; the daemon wakes itself (or the device) up when
an event is due, takes it through a state machine, shows dialogs through system
ui, does the actions bound to its life and to the user's answer, snoozes it,
lets it recur or removes it, and tells dsme, mce and the status bar what is
queued.  All of `src/src/*.c` is C; the daemon is one thread on a GLib main
loop.

This directory holds TLA+ modules of the daemon, the instances TLC checks and
proofs that TLAPS checks.

## Inventory

| Part | State | Operations | What must be right |
|---|---|---|---|
| event state machine (`server.c`, `states.inc`) | per event: state, trigger, snooze total, recurrence count, response, disabled flag; `queue_dirty` | the rethink loop: 16 functions over the events of one state each, repeated until nothing moved backwards | the loop ends, settles every event, computes triggers that lie ahead, keeps phases, cancels and requests dialogs |
| server timers (`server.c`) | pending rethink, wakeup, save, limbo timeout; clock stability statics | requests, cancels, callbacks | no wakeup or rethink is lost, whatever the clock does |
| server state flags (`server.c`) | services up / have been down, connection, zone and clock changes, acting dead, desktop up, power up wish | D-Bus signals, `server_state_sync` at the end of a rethink | every change is acted upon; restarted services are synchronised |
| queue status (`server.c`) | current and last broadcast status, icon counters | recomputed in each pass, broadcast on change | listeners are up to date |
| queue (`queue.c`) | events in two sorted tables, cookie counter, default snooze | add, delete, set state / trigger, queries, cleanup | tables agree and stay sorted; backward moves mark the queue dirty |
| storage (`queue.c`, `xutil.c`, `inifile.c`) | database, backup and temporary file; stat data of the last save | save (forced or not), load | an interrupted save loses nothing; a restored file is not overwritten |
| time (`ticker.c`, `recurrence.c`) | zone, libtime driver | time, zone, mask alignment | next trigger of recurring events |
| peers (`ipc_systemui.c`, `ipc_dsme.c`, `ipc_statusbar.c`, `ipc_icd.c`, `hwrtc.c`, `ipc_exec.c`) | set of connected access points, rtc handle | messages | requests and cancels agree with the queue |
| process (`alarmd.c`, `mainloop.c`, `sighnd.c`) | signal pipe, main loop | start, stop, signal forwarding | the queue is saved on exit |
| client library (`client.c`, `event.c`, `action.c`, `attr.c`, `dbusif.c`) | none across calls | marshalling, sanity check | what is decoded is what was encoded |
| formats and helpers (`codec.c`, `serialize.c`, `escape.c`, `unique.c`, `symtab.c`, `strbuf.c`, `inifile.c`, `xutil.c`, `logging.c`) | containers | conversions | round trips |
| tools (`alarmclient.c`, `alarmtool.c`) | none | command lines | outside the daemon |

Interaction: clients and services talk to the server by D-Bus method calls and
signals, handled one at a time; handlers change events or flags and request a
rethink, which runs from the main loop, alone, to its end.  The server uses the
queue by direct calls.  Nothing is shared with other processes but the queue
file (which a backup tool may replace) and the hardware clock.  The library blocks its
caller until the reply, an error or a time limit.

Hard behaviours: stimuli between two rethinks in any order; answers that are
late; services that restart; clock jumps, drift and zone changes around
pending timers; the fixpoint loop; restart from a file saved at some earlier
moment.  The list, with the line where each bites, is `hazards` in
`PROJECT.json`.

## Plan

1. **Core** (done): `AlarmTypes`, `AlarmState`, `Rethink`, `AlarmServer`,
   `MCAlarmServer`, and `AlarmServerProofs` with the inductive invariant of the
   rethink loop.
2. **Files and process** (done): `StoredQueue`, `QueueStorage`, `AlarmProcess`:
   loading and saving as file operations, start, exit, signals, crashes and
   restores; the abstract specification `DurableQueue`, which they refine.
3. **Restart** (done): `AlarmRestart`, the server of step 1 with a daemon that dies
   and starts again.
4. **Requests** (done): `EventWire`, `CallArgs`, `QueueFile`, `QueueTables`,
   `AlarmClients`: from the application through library, bus, handlers and
   sorted tables to the file and back; the abstract specification `AlarmRegistry`,
   which they refine.
5. **Recurrence** (done): `Recurrence`, masks and special periods on a calendar without
   daylight saving.
6. **More proofs**: of the server `WakeupCovers`, `PhaseKept`, `TriggersAhead`,
   `LimboHolds`, `Durable`, `LocalTimeKept`, `NoneMissed`, `DialogsMatch` and `StatusFresh` (done), and again with restarts,
   together with `DialogsOwned` and `RingsAgain` (done); of the process and its
   files all safety properties and the refinement of `DurableQueue` (done); of the queue that
   its searches find what they look for and both tables stay sorted, `TablesAgree` (done);
   of the calls `TypeOK`, `ActionsComplete` and `ArgsDelivered`, with the round trips through
   packed arguments, message and file (done); of recurrences all properties, in every calendar
   (done).  Left: the refinement of `AlarmRegistry`.
7. Not started: zones with daylight saving in recurrences, the access points of
   `ipc_icd.c`.

No module that proofs are about declares a RECURSIVE operator; recursion is
written as recursive functions and folds.

## Modules

* **AlarmTypes**: states (their numeric order is part of the program), event
  records, the filter and the dirty mark of `queue_event_set_state`, actions,
  and the arithmetic of triggers (`server_bump_time`,
  `server_event_get_next_trigger`).  An event under change is a *cell*: the
  event and the mark it leaves on `queue_dirty`.
* **AlarmState**: the variables and what the handlers share: `server_state_set`
  (a rethink is requested when the flags change), rethink, wakeup and save
  timers, snapshots of the queue.
* **Rethink**: `server_rethink_start_cb`, one action per function it calls,
  `pc` telling which one is next, plus the clock stability check in front of
  it.  Each function looks up the events of its state once and takes each
  through a step function.
* **AlarmServer**: one action per D-Bus handler, timer callback and move of the
  environment (user, services, clocks), the specification and the properties.
* **AlarmRestart** (extends AlarmServer): the daemon is killed at any point, exits and
  comes back, or the device is switched off and on; what the new process makes
  of the file, of its peers on the bus and of dialogs its predecessor left.
* **AlarmServerProofs**: types, and the invariant of the rethink loop.
* **AlarmSafetyProofs** (on top of it): the life of one event (whatever an action does, each event
  afterwards is the same, has become something its state function allows (`Becomes`), was handled
  by a client or user (`Handled`) or is new (`Added`)), and with it file, limbo, triggers,
  clock, wakeup and recurrences.  **AlarmPeerProofs** (on top of that): dialogs and status.
* **AlarmRestartProofs** (on top of them and AlarmRestart): the same across restarts.
* **AlarmProcessProofs**: the theorems of `AlarmProcess`, its refinement of `DurableQueue`
  included.
* **QueueTablesProofs**: searching, inserting, moving and dropping in sorted tables of any
  length.  **AlarmClientsProofs** (on top of it): texts, messages, and the theorems of
  `AlarmClients`.
* **StoredQueue**: the queue as far as storage is concerned, and what loading
  makes of it.
* **QueueStorage**: `queue_save_internal`, `queue_load`, `xsavefile` and `xcyclefiles`, one
  step per file operation.
* **AlarmProcess**: the process around it: start, signals, main loop, clearing
  user data (which saves twice), exit; and a backup tool that replaces the file.
* **DurableQueue** (abstract): a stored queue that is replaced as a whole or not
  at all.  What a save set aside (`aside`) may come back when its last rename fails.
* **EventWire**: events as libalarm builds them, the sanity check, and the
  arguments of a D-Bus message they become and are read from.
* **CallArgs**: the packed text in which the arguments of a D-Bus action travel.
* **QueueFile**: sections and lines of the queue file.
* **QueueTables**: the tables sorted by cookie and by trigger.
* **AlarmClients**: applications, library, bus, method handlers, queue and file
  together.
* **AlarmRegistry** (abstract): what the calls promise to applications.
* **Recurrence**: `alarm_recur_handle_masks` field by field, special periods, and how
  the server finds the first trigger and the next one.  The calendar is a constant: the units
  and the first day of each month.  **RecurrenceProofs**: its theorems.
* **MCAlarmServer, MCAlarmRestart, MCAlarmProcess, MCAlarmClients, MCRecurrence**:
  alarms, applications, environments and a calendar for TLC.

The server is modelled three times at different grain.  `AlarmServer` has the whole
state machine and a file that is written in one step; `AlarmProcess` has the file
operations and reduces an event to the stage that loading tells apart;
`AlarmClients` has the contents of events, the tables and the messages, and reduces
the state machine to changes of triggers and the clean up.  What one abstracts
another justifies: `AlarmRestart` and `AlarmClients` may write the file in one step
because the run `storage` shows that a death within a save leaves the queue
of before or after it.  The daily alarm of `AlarmTypes` (`AlignDaily`) is the case of
`Recurrence` that has one minute and one hour, for which `NoneSkipped` shows that
aligning field by field finds the next time of day.

| TLA+ | C |
|---|---|
| `ev`, `lastCookie`, `snooze` | `queue_by_cookie`, `queue_cookie`, `queue_snooze` |
| `flags`, `up`, `dn` | `server_state_real` and its `*_UP`, `*_DN` bits |
| `rethink`, `wakeup`, `save`, `limboTimer` | `server_rethink_id`, `server_wakeup_id`/`_time`, `server_queue_save_id`, `server_limbo_timeout_id`; a time is the monotonic second at which the source is due |
| `mono`, `delta`, `clk` | monotonic clock, system minus monotonic time, the statics of `server_clock_source_is_stable` with `delta_forw`, `delta_back` |
| `tz`, `tzCurr`, `tzPrev` | zone of the device, `server_tz_curr`, `server_tz_prev` |
| `qs`, `qsPrev`, `icons`, `iconsPrev`, `rtc` | `server_queuestate_curr`/`_prev`, `server_icons_curr`/`_prev`, the hardware alarm |
| `dialogs`, `answers`, `views`, `iconShown` | what system ui shows, answers on the bus, the status dsme and mce were told, the status bar's icon |
| `disk` | contents of the queue file |
| `db`, `bak`, `tmp`, `stat` (QueueStorage) | `QUEUE_DATABASE`, `QUEUE_BACKUP`, `QUEUE_TEMPSAVE`, `queue_save_stat` |
| `sigpipe`, `sighnd_exit`, `quitting`, `exitTimer` (AlarmProcess) | contents of `sighnd_pipe`, `sighnd_exit`, a main loop told to quit, `mainloop_exit_id` |
| `queue` (AlarmClients) | `queue_by_cookie`, `queue_by_trigger`, `queue_cookie`, `queue_snooze` and the events |
| `waiting`, `bus`, `replies` (AlarmClients) | callers blocked in `client_exec_method_call`, messages to and from the daemon |

Operators whose comment begins with "Mistake" are variants of a definition with
a plausible bug; they are used to see that each property can fail.

### Abstractions

* No time passes inside a rethink; delays below a second (idle sources and the
  100 ms of a delayed request) are one instant.  The idle source and the one
  second timer of a requested save are one flag.
* `Prompt = FALSE` lets a due timer be arbitrarily late (a suspended device);
  with `Prompt = TRUE` time waits for due timers and for answers on the bus.
* A zone is an offset; its daylight saving flag is part of it.  Zones of single
  events (`alarm_tz`) are left out.  In the server a recurrence mask
  selects one time of day.
* Dbus and exec actions have no effect on the daemon.  Kinds that bind a snooze
  action to WHEN_QUEUED are excluded: the loop would not end for them (see the
  hazards).
* `server_queuestate_reset` is part of `RethinkQueued`, its first reader.
* The debugging overrides of the state flags are left out, so the effective
  state is the real one and `server_state_prev` equals it between handlers.
* A system ui that leaves takes its dialogs with it; the answers it sent before
  are delivered first (the order of the bus).
* `CLK_BCAST` stands for the announcement `time_change_ind`: clearing the flag
  sends it.
* In `AlarmServer` the daemon starts with an empty queue; `AlarmRestart` adds starts from
  a file.
* A file that was synchronised or renamed survives a crash; stat data is one
  number per version of a file.  A restore replaces the database by rename.
* A text is a sequence over a small alphabet with the characters the formats
  treat specially (blank, line feed, backslash, control characters).  Texts
  are compared without the white space around them, which the file drops
  (`inifile.c:709`).
* Answers of system ui on their way are a set: two equal answers to two dialogs of one
  cookie, which only a dead daemon's dialog makes possible, count once.
* Messages of one sender arrive in order and are lost only when the daemon dies.

### Bounds

Times are scaled: a day is 4, the missed limit 1 (0 in `lifecycle`), the snooze floor
2, two weeks 2 to 6 (2 in `lifecycle`, so that the wakeups must be chained), jitter and stability delay 1, rescheduling limit 1 or 2.
They keep the order of the real values where the code compares them.
`MaxTime` stops the clock, `Busy` the environment; the difference leaves the timers
room to finish.  `Cookies` bounds the events ever accepted (2 in most runs, enough for
a pending wakeup of one alarm to meet a second one), `MaxDelta` the accumulated
clock changes.  Since the clock stops, the instances end in states without a
successor, and deadlock is not checked; that the daemon does not get stuck is
what `NoWorkLeftBehind` and the liveness properties say.

`Storage.cfg`: one alarm, one failing operation (or restore in the middle of a
save), one change, two signals to a process (the second is the one
that may find the first still waiting) and one restore; crashes are not bounded.
Crashes in the middle of several saves in a row are thereby included: the third can find
the only copy in the temporary file and cut it short, and `DurableQueue` says so.
`Requests.cfg`: two applications that may be exchanged, two calls out of 15 (three more the library refuses), one of them
possibly while the other waits (queries have both limits or none), two alarms from an earlier run, and two
upsets (timeouts, moved triggers, saves, restarts): enough for an alarm to be
added, saved and loaded, or for a late reply to meet a new call; up to four events
in the tables exercise every branch of the bisections.  `Restart.cfg`: one
alarm whose button snoozes it, one restart, three seconds with no tolerance for lateness, so that an alarm is too
late after a restart.
`Recurrence.cfg`: a minute of 2 seconds, an hour of 3 minutes, a day of 3 hours, a week of 3 days,
months of 2 or 3 days, two to a year: every field has a value that is
allowed, one that is not, and one after which it wraps, and 200 of the calendar's 576
seconds see every alignment of weeks and months.  Alarms are 215 combinations of masks and five
tables, each with three ways to give the first time; they are served 0 to 20 seconds
(more than a day) late.

## Runs

| run | module | what happens | properties |
|---|---|---|---|
| lifecycle | MCAlarmServer | two alarms, one-shot and recurring, ring, are acknowledged, answered, snoozed, deleted; wakeups are capped at 2 s and nothing may be late | `TypeOK`, `DialogsMatch`, `PhaseKept`, `NoneMissed` |
| missed | MCAlarmServer | late timers; postponed, disabled, snoozed and offline alarms | `PassInv`, `NoWorkLeftBehind`, `TriggersAhead` |
| clock | MCAlarmServer | jumps beyond every limit, drift within the jitter, zone changes, clockd's news | `WakeupCovers`, `LocalTimeKept` |
| boot | MCAlarmServer | acting dead or user mode, desktop comes up; updates, clear user data, factory reset, save signals, save timer | `LimboHolds`, `NoWorkLeftBehind`, `Durable` |
| live | MCAlarmServer | fairness; deletions, answers, clock jumps; dsme comes and goes while the user asks to power up | `RethinkTerminates`, `DueIsHandled`, `PowerupSent`, `TimeChangeAnnounced` |
| restart | MCAlarmRestart | the daemon or the device dies and starts again; system ui, dsme and status bar come and go | `DialogsOwned`, `RingsAgain`, `StatusFresh` |
| storage | MCAlarmProcess | saves, loads, clearing of user data, signals, crashes, failures, restores | `TypeOK`, `RestoreSurvives`, `KeepsPromise`, `ExitSaves`, `Stops` |
| recurrence | MCRecurrence | alarms of all masks, served in time or late, clock set back and forth | `TriggerPermitted`, `NoneSkipped`, `GoesOn` |
| requests | MCAlarmClients | calls of two applications, timeouts, late replies, snoozes, saves, restarts | `TypeOK`, `TablesAgree`, `ActionsComplete`, `ArgsDelivered`, `IsRegistry` |

Two properties are refinements:

* `KeepsPromise`: `AlarmProcess` implements `DurableQueue`, under the mapping of the
  stored queue to the first of database, backup and temporary file that
  exists, which is what the next process loads.
* `IsRegistry`: `AlarmClients` implements `AlarmRegistry`, under the mapping of each event
  to its contents, due time and whether it was deleted: alarms are kept as they were
  meant through two messages and the file, a call is done once or not at all,
  queries find what they ask for, a restart goes back to the last save.

Three runs show where the code and its documentation differ (`findings` in
`PROJECT.json` quotes the lines):

* **outage**: a system ui that restarts faster than the daemon's main loop turns
  loses its dialogs for good.  (Ordinary restarts are handled: run `restart`.)
* **offline**: an alarm in limbo is run without the connection it needs.
* **backupleft**: after user data was cleared the backup still holds the alarms, because
  the second save finds nothing to do.

Three more, seen while modelling, have no run: deleting a disabled alarm skips its
WHEN_DELETED actions (`queue.c:631`).  Several recurrences that are evaluated at a time that one of
them permits, such as `alarm_time` on the first of them, skip it
for the next time of another (`server.c:1649`), and `NoneSkipped` leaves this case out.
An alarm with a special period and no masks is deleted when it is
served on a full minute, since `alarm_recur_handle_masks` then builds no time
(`recurrence.c:120`).

### Fairness

`FairSpec` assumes what the main loop provides: the functions of a running rethink
run, a due rethink or wakeup callback runs, messages are dispatched (weak fairness).
Time passes: `Tick` is strongly fair, because a handler that is always about to
run would otherwise hold the clock for ever within one second.  No fairness is
assumed of clients, services or the user.

`FairSpec` of `AlarmProcess`: a process that runs takes its next step while it starts,
loads, saves or exits (weak fairness), and its main loop serves the signal pipe,
the exit timer and its own end even though saves come between (strong fairness,
since a save disables them for a while): GLib dispatches every ready source of
an iteration.  No fairness is assumed of starting the daemon, signals, crashes or
the backup tool.

## Proofs

All theorems hold for all constants that satisfy the named assumptions, whatever
the number of events, services, signals, failures or seconds.  Each rests on an
invariant that is inductive; the lemmas show, action by action, that it is.

### The rethink loop (`AlarmServerProofs`)

* `TypeCorrect`: `Spec => []TypeOK`;
* `PassesSettle`: `Spec => []PassInv`;
* `NothingLeftBehind`: `Spec => []NoWorkLeftBehind`.

`NoWorkLeftBehind` speaks of the daemon at rest, which it reaches at the end of a
rethink; that nothing is left then depends on the pass that ended it, in which
every phase found the earlier states settled and moved no event back without a
mark.  `PassInv` says this for every point of the pass: unless the pass is marked for
repetition, all visible events in states the pass has gone past are settled.
`CleanFinish` says that after the loop the queue is not dirty.
`IInv == Typed /\ PassInv /\ NoWorkLeftBehind /\ CleanFinish` is inductive
(lemma `Inductive`, one step per action of `Next`).  A lemma per phase shows that its step
function either leaves an event, moves it forward past the phase, or marks the queue
dirty; the handlers keep `NoWorkLeftBehind` because each that changes an
event, a flag or a service also requests a rethink.  `TypeOK` adds to `Typed` that no dialog or
answer carries a cookie above `queue_cookie` (`HandedOut`), which is shown separately because a
restart breaks it: the counter starts again from the file.

### File, limbo, triggers (`AlarmSafetyProofs`)

* `SavedAtRest`: `Spec => []Durable`.  `Durable` is inductive by itself: what changes the
  queue requests a rethink or a save, and every rethink ends with a save or a request
  for one.
* `QueuedAhead`: `Spec => TriggersAhead`, from the lemmas on the arithmetic of triggers
  among those on one event.  The assumption that an alarm with an absolute time has a
  positive one (`EnvironmentConstants`) is the code's own test for it
  (`alarm_time > 0`).
* `LimboKept`: `Spec => []LimboHolds`.  Between the limbo and the dialog the flags may
  change, so the invariant is about all states from triggered to answered
  (`LimboGate`): for each such event the desktop is up, and in acting dead the event
  asked to be shown there.  It is inductive since neither flag goes back.

### Clock, wakeup, recurrences (`AlarmSafetyProofs`)

* `WakeupSet`: `Spec => []WakeupCovers`.  The source holds a monotonic due time and a wall
  clock time, and the clock may have moved between their computation and
  the end of the rethink.  `WakeupInv` relates them to the clock known to the stability
  check (`TimerTrue`), keeps that clock within the jitter while the loop runs
  (`LoopClock`) and says that from the queued phase on the wakeup covers every queued
  event (`Covered`), which twice the jitter then bounds.
* `RecurrencesInPhase`: `RecurrencesFit => (Spec => []PhaseKept)`.  `PhaseInv` says for every
  state that the trigger or, while snoozed, the trigger without the snooze is a multiple of the
  period away from the time asked for; `ClockRange` bounds the clock.
  `RecurrencesFit` (the greatest time plus a period is below `INT_MAX`) is needed:
  beyond it `server_event_get_next_trigger` finds no next time and a snoozed event is
  deleted with the trigger of its snooze.  All runs satisfy it.
* `LocalTimesKept`: `DatesOnce => (Spec => []LocalTimeKept)`.  A zone the daemon knows of and
  has not acted upon is marked (`ZoneNoted`), the mark is gone once a pass has looked for it
  (`ZoneHandled`), and while nothing is marked every alarm given by date that is about to be
  queued, or is, has its time in the zone known (`DateInv`, which also says that none is outside the
  queue when changes are looked for).  `DatesOnce` is about such alarms
  only: that they ring once, since the later times of a recurring alarm are not the one asked for; that
  they do not wait for the internet, since `rethink_timechange` looks at queued events
  and an alarm that waits meanwhile keeps the time of the old zone; and that none is due at
  the very beginning of time, where a `snooze_total` of 0 would read as not snoozed.  TLC shows the
  property violated for the first two.  After a restart the times are those of the file and
  the zone is that of the start, so it is not among the theorems about restarts.
* `AlarmsNotMissed`: `PromptAlarms => (Spec => []NoneMissed)`.  Time passes only when nothing is
  pending; the daemon then is at rest, so that by `NoWorkLeftBehind` every waiting alarm is queued and
  by `Covered` the wakeup is not later than its trigger.  What has to be added is that a
  wakeup rings exactly when it says (`Punctual`) and the stability check never puts a
  rethink off (`Steady`); then no alarm that waits lets its time pass (`AheadInv`).  No bound on lateness is used:
  `SERVER_MISSED_LIMIT` may be 0.  `PromptAlarms` leaves out late timers, clock and zone changes with the
  news of them, and alarms that wait for the internet; with any of these TLC finds an alarm missed.
  The run `lifecycle` satisfies it.

### Peers (`AlarmPeerProofs`)

* `DialogsAgree`: `DialogsOwn => (Spec => []DialogsMatch)`.  `DialogInv` follows dialogs and
  answers through the loop: which events may have a dialog at each point of a pass
  (`DialogsShown`), that whoever asks has a dialog, an answer or nobody to ask (`Asked`),
  and that there is one answer to a dialog and its event still waits for it (`AnswersOpen`).
  `DialogsOwn` leaves out three things the property is false for: clearing user data, which
  empties the queue and leaves dialogs on the screen; a system ui that returns before
  the daemon saw it go (run `outage`); and kinds that bind a snooze action to
  WHEN_DELETED (`Revives`), where the new dialog of an event that was deleted and
  revived can meet the answer to its old one.  The run `lifecycle` satisfies it.
* `StatusTold`: `"CUD" \notin Stimuli => (Spec => []StatusFresh)`.  A listener is up to date if
  it was told since it came (`Told`), if the last broadcast was computed from the queue as it is
  (`Computed`), and if whoever left is marked as such (`DownNoted`), each of which several
  handlers and phases maintain together.  Clearing user data changes the queue without a
  rethink, so that the old status stays out until the next one.

### Restarts (`AlarmRestartProofs`)

For any number of restarts, each after any step of the old daemon, inside a rethink too:

* `RungRingsAgain`: `RestartSpec => []RingsAgain`;
* `DialogsAgreeAnew`: `DialogsOwn => (RestartSpec => []DialogsOwned)`;
* `StatusToldAnew`, `WakeupSetAnew`, `RecurrencesInPhaseAnew`, `RestedAnew`: `StatusFresh`,
  `WakeupCovers`, `PhaseKept`, `NoWorkLeftBehind` and `Durable` hold of the daemon after restarts,
  under the conditions they have without.

A restart replaces the queue by that of the file, so the invariant is about both
(`RestartInv`): what is in the file are events a client once asked for (`Storable`), and it is
only ever written from a queue (`FileWritten`).  A new process requests a rethink and has
told its peers nothing, which gives the invariants of the single process at its start; from there
on their step lemmas apply.  `PhaseInv` needs the file as well (`FilePhase`): the time a recurrence is
counted from has to survive being written and read.  `LimboHolds` is not among them, since dialogs of a dead
daemon stay up whatever the new one takes the desktop for.

`RingsAgain` is inductive once it says that what is owed has not rung (`OwedInv`): no step leads from limbo,
triggered or waiting for system ui anywhere but towards the user, except a deletion,
an action that hides the alarm, or the end of an alarm without buttons, which rings by being triggered.

For `DialogsOwned` the invariant of `DialogsAgree` is stated for all dialogs but those left by a
dead daemon (`DialogInv(L)`, `HandedOutBut(L)`).  Its steps are proved for a fixed set `L`, and a dialog
may leave the set when it is gone and answered or asked for again (`FewerLeft`).  The proof
showed that being asked for again is not enough.  A user may answer the dialog of a dead daemon,
and the answer reach the new one after it asked for that alarm anew: it is then taken for the
answer to the new dialog, which stays on the screen of an alarm that was snoozed by it.  A dialog
therefore counts as left over while an answer to it is on its way, and the alarm of the run
`restart` has a button that snoozes so that this happens there.

### The process and its files (`AlarmProcessProofs`)

* `TypeCorrect`, `RestoredIsLoaded` (`[]RestoreSurvives`), `LeavingSaves` (`ExitSaves`);
* `PromiseKept`: `Spec => KeepsPromise`, that is, `AlarmProcess` implements `DurableQueue`: lemma
  by lemma each file operation is a step of the stored queue or a stutter.

The invariant says where a save in progress is: the temporary file exists from its
opening to the commit (`Written`) and is whole after the write (`Whole`), the backup
has been removed when the file is about to take its place (`Room`), a process that has
not loaded has no alarms (`Unloaded`), a restored queue is first in the
order of loading and the running process takes it for somebody else's (`OwedSafe`), and
after an undisturbed save the file holds the queue (`Settled`).

The proof found what the run `storage` is too small for: with more than one failure, a queue
restored between the two renames of a save is overwritten when the second
rename fails and `xcyclefiles` puts the old file back (`xutil.c:199`).  The restored queue
then is lost although nothing was saved.  `DurableQueue` therefore has a step for putting back
what was set aside (`DPutBack`); `PromiseKept` covers any number of failures, the run one.

### The tables of the queue (`QueueTablesProofs`, `AlarmClientsProofs`)

* `EventFound`: the bisection of `queue_get_event` finds an event exactly when the
  table holds it;
* `CookieInserted`, `TriggerInserted`: an event put into the slot that the bisection returns
  leaves the table sorted and adds nothing else;
* `TriggerMoved`: the shifting of `queue_event_set_trigger` leaves a sorted
  table of the same events, whether the event goes up, down or stays;
* `TablesStayInStep`: `Spec => []TablesAgree`;
* `WrittenIsRead`: escaped text that is unescaped is the same text again;
* `TypesKept`: `Spec => []TypeOK` of `AlarmClients`;
* `ActionsStayComplete`: `TextsSeen` and `EarlierSane` imply `Spec => []ActionsComplete`;
* `PackedIsUnpacked`: `Unpack[Pack(args)] = args` for all arguments that `CallArgs` can express;
* `ArgsStayTheirs`: `Spec => []ArgsDelivered`.

The first four are about sorted tables of any length.  A bisection and a loop are recursive
functions; instead of an induction, which these provers cannot instantiate, the proofs look at
the shortest interval, or the first round of the loop, with a wrong result
(`LeastNumber`) and refute it.  A search by trigger is right only if the triggers in `events`
are those the table was sorted by: an event has to be taken out of its old slot before it gets
its new trigger, and `TriggerMoved` has that order.

`TablesAgree` is not inductive because the queue is filled from the file and from
messages.  `QueueInv` adds that the file is what a queue of this kind is written to (`Sound`:
no two sections have the same cookie, none lacks one), that the cookie counter is
at least every cookie in use (`IsQueue`), and that messages on their way have
numbers where the handlers expect them (`IsMessage`).  `RequestTypes` assumes of
applications that they build events with the constructors of libalarm and pass numbers where
C does, and strings where C does.

`ActionsComplete` is about the daemon, which checks nothing itself: what it has was checked
by `alarm_event_is_sane` in another process and has since been encoded, decoded, saved
and loaded.  `ActsInv` says that actions are whole wherever they are, in the queue, in what
a section of the file will be loaded as (`SectionActs`) and in what a message on its way
will be decoded as (`CalledWhole`, by `EncodedValues` and `ActionsArrive`: five values for
each action, found where `encode_event` put them).  Two conditions are
needed.  `EarlierSane`: the first file was written for alarms that had been checked.
`TextsSeen`: no text is white space only.  The library takes `"  "` for a label, the daemon
keeps it, but after a restart `xstrip` has made it empty and the dialog has a button
without a label; the theorem excludes it, and the alarms of the run have no such text.

The functions of `CallArgs` and `QueueFile` are recursive on texts.  `Recursion` says that such
a function exists and satisfies its equations whenever its argument gets smaller; it is
proved from `LeastNumber`, and what the functions compute (`EscapeTextValue`, `UnescapeValue`,
`StrippedValue`) follows from it.  `TextComesBack` then refutes the shortest text that does not
come back.

`ArgsDelivered` needs that what `serialize_pack_strbuf_from_dbus_args` wrote is read again by
`serialize_unpack_strbuf_to_dbus_message`.  The packed text has no index: where a value begins is
known only to who has read all values before it, and a string may hold the very characters
that end one.  `Lies(s, p, t)` says that a text lies at a place of another;
`TextEndThere` finds the end of an escaped string whatever follows it, `ElementsThere` the
elements of an array, and `PutThere` any argument, so that each is read where it was
put and leaves the reader at the next (`UnpackValue`).  Arguments are any number of
strings of any length, numbers (one character each), and arrays of up to four of either;
arrays do not nest, as in `strbuf_put_array`.  The invariant (`Carries`, a part of `WholeActs`)
is that wherever actions are, their arguments are the packed form of those that were meant for
them.  `CallCarries` shows it of `encode_action`, which gives the arguments of the call to the
first D-Bus action without any of its own (`TakerValue`), and `PackedStays` of the file, whose `xstrip`
could take white space off a packed text if there were any at its ends.

### Recurrences (`RecurrenceProofs`)

The run has a small calendar; the theorems are about every length of minute, hour, day and
year, every sequence of months (`CalendarUnits`: hours are whole minutes, days whole hours), all
masks of the width that the types of `alarm_recur_t` leave, any number of recurrences, delays and
clock changes of any size, as long as things happen before the end of the calendar.

* `TriggersAreTimes`: type correctness.  The -1 of `recurrence.c` never becomes a trigger.
* `RingsWhenPermitted`: `Foreseen => (Spec => []TriggerPermitted)`.
* `PermittedNotSkipped`: `Spec => []NoneSkipped`.
* `RingsAgainLater`: `Lasting => (Spec => GoesOn)`.

`Foreseen` says that some recurrence has a time left before the calendar ends whenever an alarm
is given to the queue, `Lasting` that some recurrence, moved by its special period, has one on a
later day whenever the alarm was served.  Without them the alarm rings at a time that nothing permits, or
is deleted: that is what `server_event_get_next_trigger` and `server_rethink_recurring` do when
no time is found.  Both are about `Permits`, what masks mean, and not about how the code looks for
a time; `MCRecurrence` assumes them, so that TLC finds them true of the run.

All three properties hold of a state because of the step that led to it, so the invariant is
only `Types`.  The work is in what `alarm_recur_handle_masks` computes.  `MasksSound`: what it
gives is permitted and not before the time asked for.  Each field is moved to the first unit that is in
its mask and keeps what was set before it (`AdvanceValue`, `MinutesValue`, `HoursValue`), since
minutes are whole hours' parts wherever the hour begins; `DateValue` says that the days that are
tried, month by month and day by day, lead to the first good one, or that there is none:
`DateFrom` is the function of days that satisfies its equations, and a last day for which it were
wrong is refuted.  `MasksComplete`: it gives nothing only if no permitted time is left, or the
time asked for will do.

`NoneBefore` is the lemma that `NoneSkipped` needs, and shows why the property has its two
conditions.  Fields are handled from small to large, and a larger one that moves does not set
the smaller ones back.  The first time found is thus the first permitted one only if the smaller
fields were at their first value when the larger one moved.  With one time of day they always
are.  From a minute that is permitted they are as well: if the hour is left, then because the
minutes wrapped to the least of the mask (`EveryMinute`), and if the day is left, because the hours did
(`EveryHour`); and if neither is left, the day was good.

### Checked by TLC only

The refinement of `AlarmRegistry` by `AlarmClients`, and all
liveness (`RethinkTerminates`, `DueIsHandled`, `PowerupSent`, `TimeChangeAnnounced`, `Stops`),
which these provers do not reach.

## Not modelled

* Logging and the containers behind the formats (`strbuf.c`, `symtab.c`, `inifile.c` as
  tables, `unique.c`): no behaviour depends on them beyond what the modules say.
* The command line tools `alarmclient.c` and `alarmtool.c`: sequential programs outside the
  daemon.  `alarmclient.c` is the longest file of the repository.
* Conversion of broken down times in zones with daylight saving (`ticker.c`): it rests
  on libtime, which is not part of the repository.  An alarm with a fully
  given `alarm_tm` is converted by it and is left out of `Recurrence`.
* The set of access points in `ipc_icd.c`, the message contents of
  `ipc_systemui.c`, exec of commands and the privileges they run with.
* A second daemon on the same queue file.
* Hazards without a property have a note in `PROJECT.json` that says why.

`components` in `PROJECT.json` gives the status of every part.
