# Verification of the PeterVoice daemon

TLA+ models of the programs in this repository, the TLC runs that check them on
small instances, and proofs that TLAPS checks for every instance. Source paths
are relative to `src/`; line numbers are those of the commit beside this
directory.

1. [The system](#1-the-system)
2. [Modules](#2-modules)
3. [Runs](#3-runs)
4. [Proofs](#4-proofs)
5. [Not modelled](#5-not-modelled)

## 1. The system

The daemon (`scripts/claude_daemon.py`, package `scripts/daemon/`) runs on a
user's machine. It polls a server for messages, runs the Claude CLI for each in
the folder of the message's project, and posts the answer back. The server, a
web application, is not in this repository. A second program,
`scripts/cloud_daemon.py` with `cloud_container.py`, does the same for many
users on one host, each in a container; `cloud_cron.py` runs their batches. A
third, `scripts/home-portal.js` with `meeting/`, is a web server on the user's
machine behind a tunnel, which takes in recordings of meetings.

### Inventory

| Component | State | Operations | Hard behaviour | Module |
|---|---|---|---|---|
| Turn dispatcher, `daemon/dispatch.py` | pending list, three counters, condition variable | enqueue, pick, submit, release | four kinds of thread; shutdown between pick and submit | `Dispatcher`, `TurnLanes` |
| Message pipeline, `daemon/worker.py`, `queue.py`, `api.py`, recovery in `claude_daemon.py` 42-110 | `_spawned_ids`, `processed_ids`, project locks, `queue.json`, the server's rows | poll, submit, lock, enqueue, mark, turn, reply, dequeue, recover | crash between any two; stale poll response; recovery beside polling; lost calls | `MessagePipeline`, `Custody` |
| Claude turn, `daemon/claude_runner.py`, `limits.py` | semaphore, cooldown per account, active seat, stop request; one process, its output and its clocks | run, retry, fall back, switch seat, stop; read, collect, drain, kill | recursive retries; values read before a wait and used after it; output after the result | `ClaudeTurn`, `EngineRun` |
| Tunnel self-healing, `claude_daemon.py` 373-778 | breaker, streaks, time stamps | one check a minute | sequences of failures of different kinds; lost reports | `TunnelHealth` |
| Session store, hygiene, `sessions.py`, `autoreset.py`, `health.py` | `sessions.json`, dictionary and lock, `pending_resets.json` | load, save, reset, summarise | write outside the lock and not atomic; reset under a running turn | `SessionStore` |
| Manager, `manager/thread.py` | state file, wake event | cycle, wake, retry, deep task | wake lost when cleared; three writers of one file; a post that is lost unnoticed | `ManagerLoop` |
| Summons, `summon.py` | session on the server, thread | rounds, cancel | cancel between poll and start; lost words about the end; a thread that dies | `Summons` |
| Team turns, `team.py` | members' runs, permits | lead, delegate, members, talk, review, sum up | nested permits; stops and shutdown inside a round | `TeamTurn` |
| Heartbeat, `heartbeat.py`, `scout.py` | schedules, `_pending`, instructions file | tick, scout, wake up, count | calls that fail half way; restarts; a hung scout | `Heartbeat` |
| Re-login, `relogin.py`, `relogin_settings.py` | login session, flow threads, two fields of the database | begin, capture, hand in, verify, expire, poll | a session replaced under a running thread; lost calls | `Relogin` |
| Daemon shell and updater, `config.py`, `globals.py`, main loop, `syncers/auto_updater.py` | PID file and its lock, shutdown event, working tree | start, lock, drain, exit; fetch, pull, install, request a restart | PID file removed under a living daemon; crash between pull and install | `DaemonShell` |
| Site manager, `site_manager.py`, `publish.py` | registry file, launchd jobs, ports | publish, rebuild, unpublish, find orphans | overlapping commands, whole-file writes; a command killed | `SiteManager` |
| Meetings, `home-portal.js`, `meeting/*.js` | chunks, state file, metadata, transcripts | upload, transcribe, poll, ask for minutes, sweep | crash between two files; repeated chunks; two jobs of one meeting | `Meetings` |
| Cloud worker, `cloud_daemon.py` 2579-3164 | `_processed`, `_inflight`, key locks | poll, process, drain, requeue, reap | mark before the turn; drain against ending turns; processes that outlive the daemon | `CloudWorker` |
| Cloud containers, `cloud_container.py` | a container, its services, locks in two processes | ensure, replace, hand off, reap, keep | idle stop against a new turn; a lock per process; commands whose failure nobody looks at | `UserContainer` |
| Cloud accounts, `cloud_daemon.py`, `cloud_container.py` | cooldown, login sessions, usage flags | limit, probe, log in, collect | a snapshot used after a lock; sessions popped by another thread; a press during a round | `CloudLimits`, `CloudLogin`, `CloudUsage` |
| Cloud cron, `cloud_cron.py` | declarations, records on disk, the dashboard | tick, run, record, push, sweep, restart | two ways of pushing one record; midnight; a crash in a run | `CronRunner` |

`PROJECT.json` lists each with its sources and status, and the hazards at their
lines with the properties that would catch them.

### Interactions

* The polling thread of `Worker.run` reads the server's pending list and submits
  each message. A message goes to `TurnDispatcher.enqueue`, a paragraph of a live
  meeting to an executor of its own; both end in `_process_message_safe`, which
  takes the project's lock. The main thread starts the polling thread and then
  recovers `queue.json` by submitting messages through the same door.
* A turn calls `run_claude`, which shares `claude_semaphore`, the cooldowns, the
  active seat and the user's single stop request with every other turn. Team
  members, the manager's steps and a turn's own retries are such calls too;
  summoned experts are processes of their own, without a permit.
* A turn reads and saves its session in `g.sessions`; the hygiene thread and the
  resets asked for over the health server drop sessions without the turn's lock.
* Heartbeat and cron put messages into the server's list. A 401 in a turn begins
  a login in `relogin.py`; `poll_relogin` carries the settings page's side.
* The main loop checks the tunnel once a minute. `shutdown_event` ends every
  loop; the updater pulls new code and sets `restart_requested` with it, and launchd or
  systemd starts the process that exited again.
* The portal process is started by the daemon but runs alone; the daemon judges
  it from outside. The cloud daemon, cron and the browser hand-off are separate
  processes that use the same containers.

### What makes each part correct

* Dispatcher: one turn per project, no more turns than lanes, lanes kept for
  people, order by priority and arrival, no lane lost, no item starved.
* Pipeline: no request lost, none run twice in one life, each answered, each
  taken off the server's list, one job at a time in a project.
* Turn: permits given back exactly, a waiting turn gets one; what the process
  says is told once and in order; no process outlives its turn or its limits.
* Tunnel: repairs are rationed, given up only after a long outage, taken up again
  on recovery; an outage ends or somebody is told.
* Session store: the file follows the dictionary, a dropped session does not come
  back, a reset asked for is carried out, a session over its size goes.
* Manager: a task that was registered is kept until it is taken, and its end is posted. Summons: a cancel is heeded. Teams: nobody sums up what nobody said.
  Heartbeat: one wake-up at a time, none beyond the task's number.
* Re-login: no login beside a fresh one; no code and no session left waiting.
* Shell: new code is served in the end. (One daemon at work does not hold: see "Met while
  modelling".) Sites: no old server
  keeps answering; the registry says what runs. Meetings: nothing that was
  recorded is lost before its minutes, and the agent is asked once.
* Cloud: a marked message is answered or put back, a conversation has one process
  over restarts; a container's replacement kills no turn; nobody is turned away
  longer than the limit's rules say; a login that lives is in somebody's hands; a
  batch does not run beside itself, and its records say what happened.

## 2. Modules

The 22 modules of the inventory are the models (two per part where an abstract
promise or a second level is apart). `MC...` modules give TLC its constants, and
`...Proofs` modules hold the theorems.

Conventions. An action is the whole handler up to the next point at which
another thread, process or a crash may come in between: a critical section is
one step, two of them are two. A call over the network may be lost where the
code does not find out; a crash forgets memory and keeps files. Time is a count
of rounds where only its order against limits matters. Each bound on the length of a
behaviour is a constant
named `Max...` and stands in a guard. Definitions whose name
ends in a word such as `Blindly`, `Unsaved`, `Regardless` or `Untold` are used
by no `Next`: each stands beside the action it varies, as the way that action
could plausibly have been written wrong, and shows that the properties notice.

How state and actions correspond to the code is in the comment at the head of
each module and before each definition; here is what a reader needs first.

* `Dispatcher`. `stage` says where an `_Item` is: *drawn* (its number is drawn,
  line 59), *pending*, *held* (picked, its lane counted), *submitted*, *running*,
  *ending* (the lane not yet released), *returning*. `DrawSeq` is apart from
  `Enqueue` and `Submit` from `Pick`, since those are outside the lock. The timed
  wait is a loop check that can always be repeated, which is why no lost
  notification is possible. `TurnLanes` is what it promises: a message arrives,
  takes a lane when the rules allow it, and leaves it.
* `MessagePipeline`. A job is a call of `_process_message_safe`; its stage is the
  next call it will make: *check*, *enqueue*, *mark*, *turn*, *send* part after
  part, *dequeue*, *followup*, and *error*. Recovery is a second program counter.
  `api_request` returns None on a failure, so a lost reply is no event for the job.
  `Custody` is what it promises: a request is on the server's list or kept here until
  its word is out, and come to once in a life, however the daemon stumbles.
* `ClaudeTurn`. What turns share. A retry is a recursive call: the turn goes back
  to *entry* with the arguments the call passes (`CallAgain`). The directory and
  the seat are read in two lines (403, 404) and are two steps.
  `EngineRun`: the loop over one process's output on claude, codex, gemini or in
  a container, with silence, hard limit, drain after the result, grace after a
  stop, and the ways a process may end, hang or leave a descendant. A text the
  engine writes is its number, so that what is sent can be compared with it; what
  the caller sends is the sequence of messages `Outgoing` makes of it.
* `TunnelHealth`. A time stamp is its age in checks, up to the age at which the
  code no longer tells it from an older one. The disjuncts of `Check` are the ways
  through the function in the order of its early returns.
* `SessionStore`. A save is two steps, `Copy` (which empties the file) and
  `Write`, of any thread, the health checker's among them, so two saves may cut across
  one another.
* `ManagerLoop`. `at` is the place in the loop; the state is in memory, in the
  file, and in a loader's hands (`loaded`), which is where commands get lost. A `/do` is
  two steps, into the dictionary and into the file. Which reply belongs to which message
  is the server's affair: the poll asks it for `reply_to`.
* `Summons`, `TeamTurn`, `Heartbeat`, `DaemonShell`: one thread or process each
  per action, with the server's row or the file beside it. `DaemonShell` has the
  PID file as an inode that is opened, locked, written and unlinked apart, and starts as
  `config.py` starts: whatever the file says, it is taken away.
* `Relogin`. A flow thread and the session it began; the session may meanwhile be
  another's. `poll` is the main loop within `poll_relogin`; `userless` is a life in which
  it is never called.
* `SiteManager`. A command goes from reading the registry to writing it, over a
  build that takes minutes; launchd's instances start and bind by themselves, and launchd
  may refuse what it is told (`refused`), which no command looks at.
* `Meetings`. The browser, the portal's jobs and its two timers; `meta` is the
  metadata file, `Torn` when a crash cut its write.
* `CloudWorker`. A message has at most one job; `at` says where it is, `loop` where
  the main thread is, `orphans` are processes that run without the daemon.
* `UserContainer`. `ensure_running` podman command by podman command, for turns,
  batches of the other process, hand-offs and `keep_services`. A command may time out, which
  leaves the function, or fail, which nobody looks at (`failed`); a look for turns that
  fails finds none (`blind`).
* `CloudLimits`, `CloudLogin`, `CloudUsage`. A cooldown with its probe; the table of
  login sessions and who has which in hand, with processes that can be signalled or belong
  to another user (`foreign`); the flags and the collecting thread.
* `CronRunner`. A run is named by batch, minute and life. `disk` is its record, in
  a day's directory; `dash` what the dashboard shows; `held` what each sweep has read.

## 3. Runs

Twelve runs. Where a run has several parts, its `MC` module composes models that
share no state: a behaviour is about one of them, its `subject`, and the others
rest, so that one TLC run asks the questions of all. All runs pass; the deepest
have some millions of states.

| Run | Parts | Invariants | Step and liveness properties |
|---|---|---|---|
| `Dispatcher` | `Dispatcher`, `SiteManager` | `OldServersGone`, `RegistryTrue` | `AcceptedRuns`, `ImplementsPromise`, `SiteComesUp` |
| `Pipeline` | `MessagePipeline`, `Custody` | | `KeepsCustody`, `EachServed` |
| `Tunnel` | `TunnelHealth`, `Meetings`, `CloudUsage` | `MeetingKept`, `PressHeard` | `HealedOrTold`, `MinutesInTheEnd`, `BannerSettles` |
| `ClaudeTurn` | `ClaudeTurn` | `PermitsExact` | `WaitersServed` |
| `Cloud` | `CloudWorker` | `MessagesKept`, `OneProcess` | `EventuallyTold` |
| `Sessions` | `SessionStore` | `SessionsKept` | `OversizedGoes` |
| `Cron` | `CronRunner` | `RunsRecorded`, `PushedMeansShown` | `PendingPosted` |
| `Container` | `UserContainer`, `Heartbeat` | `ContainerServes`, `WokenSparingly` | `ServicesKept`, `WorkComesUp` |
| `Team` | `TeamTurn`, `Summons`, `DaemonShell` | `RoundsTrue`, `CancelHeeded` | `TurnEnds`, `SummonEnds`, `UpdateServed` |
| `Manager` | `ManagerLoop` | `TasksAccounted` | `ManagerServes` |
| `Relogin` | `Relogin` | `OneWhileFresh` | `SessionsServed` |
| `Engine` | `EngineRun`, `CloudLimits`, `CloudLogin` | `AllSaid`, `ProcessBounded`, `TurnedAwayFairly`, `LoginInHand` | |

What each shows, in a sentence, is the comment before the property and the
`about` of the run in `PROJECT.json`. Where the code leaves a gap, the property
names it: "unless launchd did not do as told" (`RegistryTrue`), "unless the set
was cleared" (`MessagesKept`), "unless one was left running unwatched"
(`OneProcess`), and so on. A history variable (`excused`, `slipped`, `lost`,
`crossed`, `refused`, `blind`, `upset`, `left` ...) records that the gap was used; everything outside
it is what the property claims, and what the proofs carry to every instance.

### Bounds

* Dispatcher: two lanes and a clamped reserve leave one lane for automatic turns,
  so each rule can be the one that blocks; two messages share a project across the
  two classes; reserve 5 is beyond the clamp. Sites: two sites of two kinds, two
  ports, three instances, two commands, one kill and one site whose job launchd refuses:
  the least at which two commands overlap on one site or on one registry and an orphan is
  left.
* Pipeline: an empty message and a live paragraph of one project compete for its
  lock, two jobs, two parts, one fault. The instance is small because
  `KeepsCustody` is proved for all of them; liveness is what it is for.
* Tunnel: the constants keep the order the code relies on (threshold < breaker <
  window, trial shorter than opening). The hour is 6 checks instead of 60, a long
  exhaustion is reported every 5 checks, not 10. Meetings: three chunks are a
  first, a middle and a last one; two faults allow a crash after a repeated chunk.
  Two users: one whose collections always raise can starve the other.
* ClaudeTurn: five processes let one turn use up every kind of retry while the
  other waits; a user has one stop request, which is what the server stores.
* Cloud: two messages of one conversation contend for the lock and can be the
  earlier life's process and the next life's turn; two faults allow a crash with a
  failed mark, or a lost client with a failed kill.
* Sessions: a conversation and a member's session at their size, one turn, two
  faults (a summary that hangs is one), and a pre-save or a request: two savers and a
  failed write, or a crash between two. All else is proved for every instance.
* Cron: three minutes over a midnight that is also a Monday and the second, two
  runs, two lives, two sweeps and one mishap: an overlap, a skipped minute, a record of
  yesterday, two sweeps with one record.
* Container: one client of each kind; two of one kind behave like one after the
  other under their process's lock. One command that fails or times out. Heartbeat: an interval of 3 minutes, forced
  every second run, two disturbances.
* Team: two members and one permit make every delegation wait; two lives. Summons:
  three rounds of two experts, two lost calls or exceptions. Shell: launchd's process and one
  started by hand, one commit, three faults.
* Manager: three turns, a checkpoint at the second, two lives, one exception.
* Relogin: one login of each origin and a fault, which may be a restart into a life
  without polls, so three sessions may follow one
  another while the first thread is still at work.
* Engine: limits of 1 and 2 passes keep the order of the code's, three events of
  output are a text, a result and a text after it. Limits: two projects and two
  accounts. Login: three sessions over two threads: one held, one starting, one
  replaced; on the host or in a container, with signals that reach the process or not.

`CHECK_DEADLOCK FALSE` stands where the system may stop: messages are used up, the
daemon is down for good, turns are done, bounds are reached.

### Fairness

Weak fairness is asked of threads, timers and supervisors, never of users, faults,
crashes, signals or the network.

* Threads and processes that nothing holds up go on: the dispatcher's loop and its
  pool, jobs, flow threads, batch threads, team steps, commands of the site manager
  that are not killed, node's jobs. A turn ends, since every engine has a hard
  limit.
* Timers come round: polls, the health check, hygiene, sweeps, the manager's wait,
  heartbeat's tick, `keep_services` and the reaper.
* launchd and systemd start a daemon that ended again (unit files with `Restart`,
  plists with `KeepAlive`), whichever way it ended: an update, too, ends the process.
* Strong fairness where an action is enabled again and again and not for good: a
  permit given back and taken in between (`Spawn` of `ClaudeTurn`: a semaphore's
  waiters are served in turn); a user's lock that `keep_services` waits for (`Look` of `UserContainer`);
  the passing of the time that the portal's timers
  look at (`Age`); a post that is not refused every time (`SweepAccepted` of
  `CronRunner`); a steady user's collection that does not always raise and a PATCH
  that does not always get lost (`CloudUsage`); the manager's look every five
  minutes, which some time falls outside night and interval.

With endless crashes or lost calls nothing would be answered: faults are bounded.

### Met while modelling

None of the following is claimed absent by a property; each is kept in the models
or named here because it is outside them.

Messages and turns.
* Recovery takes any reply in the conversation for the answer (`claude_daemon.py:82`).
  A paragraph of a live meeting takes only the project lock, so a typed message may
  hold a lane while it waits, against `dispatch.py:9`.
* A waiting turn starts in a cooldown that began meanwhile (`claude_runner.py:411-414`);
  a turn that starts withdraws another conversation's stop (`worker.py:368`).
* Words after the last result are not sent when there are two parts or more
  (`worker.py:431`); a forced stop before any text is told as an error without
  `mark_interrupted`; the last overload (`claude_runner.py:729`) and an exception
  return without killing the process; a cut turn's new session id is not saved;
  codex and gemini look at a stop only when the output is quiet for 2 s.
* Stale candidates of the hygiene cycle are judged by a snapshot (`autoreset.py:206`);
  a member's key `p:m:main` is summarised under `p:m:default`, which has no session
  (`:159`), so that it goes only when that has failed often enough; a crash
  between a reset and the removal of its request repeats it (`sessions.py:115`). The
  checker's `summary_saved` is never cleared while the entry lives, so a session is
  summarised before its expiry once only (`health.py:67`, 75). A summary that goes silent
  holds the hygiene thread for ever: its output is read without a time-out
  (`sessions.py:273`), its errors are not read at all, and `wait(timeout)` (`:298`) comes
  after the end of the output. `OversizedGoes` has it as an exception.

The daemon's other threads.
* An alarm of exhaustion is not lifted when another failure comes between
  (`claude_daemon.py:680`, 702); the notice's cooldown starts though the server has
  not taken it (`:617`).
* Manager: a wake during a cycle is cleared (`manager/thread.py:799`); a `/do` between
  a load's read and its assignment, or between the two steps of `/manager run`, is lost; a
  crash after the pop loses the task; a lost post about a task's end is not noticed
  (`:280`); in a shutdown three waits return at once and are told as three turns of
  silence. Two saves at the same moment share one temporary file (`utils.py:115`), which
  is not modelled.
* Teams: the first member's poller takes a stop away from the others; a member given
  two tasks has two processes on one session. Summons: a shutdown is told as the last
  round, a completion overwrites a cancel, a lost last word leaves the project unable
  to summon (409), and so does an exception before the speaker's process is run: its
  prompt file (`summon.py:112`) and the secrets (`:127`) are outside every `try`, the
  thread ends and the session stays active.
* Heartbeat: a scout whose process hangs silently blocks the project's later runs;
  a crash between moving the schedule and the message loses the slot.
* Re-login: an overdue thread fails or finishes a session that is not its own
  (`relogin.py:166`); a rejected code leaves the engine waiting for ten minutes; a
  start pressed after an end and before the next poll is not begun
  (`relogin_settings.py:64-69`); a restart leaves the database at "starting". A life whose
  one question for its user's id fails (`claude_daemon.py:1068`) polls the settings page
  never (`:1119`): a code entered there waits for the next life. `SessionsServed` says so.
* Shell: `_is_daemon_process` ("Check if a PID belongs to an actual daemon process",
  `config.py:112`) calls `subprocess.run` in a module that does not import `subprocess`;
  the NameError is caught with the rest and the answer is always no. So "Previous daemon
  still running ..., waiting up to 30s" (`:133`) and "Another daemon is still running"
  (`:143`) are never reached: a start takes the PID file of a living daemon away, locks a
  new one, and two daemons work side by side. `DaemonShell` starts as the code starts, and
  no property says that there is one daemon; the other models of the daemon are of one
  process and take for granted that nobody starts a second. The branch for
  PermissionError is never reached either (`:145` has it); an
  exception after a pull, or a second daemon that loaded its code before it, leaves
  old code running until the next commit; three failed fetches pause updates until
  a restart.

Sites and meetings.
* Two overlapping publishes are given one port or lose each other's entry; a registry
  read while another writes is taken for empty and saved so; what `launchctl` answers is not
  looked at (`site_manager.py:379-390`, 408-411), so that a site is written down as running
  whose job is not loaded, or as stopped whose job is; an instance launchd starts
  between a command's snapshot and its restart may hold the port for ever.
* A crash after the last chunk's state and before the metadata makes the repeated chunk
  a duplicate that is answered well, and no meeting is made (`home-portal.js:2265`);
  a rough transcript whose request was refused is asked for by no timer
  (`processor.js:460`); an upload of more than thirty minutes is taken for stuck; where a
  browser does not say how long a recording is, its length is not checked (`:2283`); two
  jobs of one meeting may both ask for minutes (excused by `AskedOnce`).

Cloud.
* A turn whose client podman lost, its session id unknown, is left running with its lock
  given up (`cloud_daemon.py:1888`); a watchdog kills the user's other turns too
  (`cloud_container.py:617`); in a requeue a turn that is being answered is put back.
* A turn begun with the old account reports its limit after a login and opens a cooldown
  (against the comment at `cloud_daemon.py:2711`); a reset hour that has just passed is
  read as tomorrow's; a replaced login that is still starting leaves its process.
* `terminate` catches a process that is gone and not one that may not be signalled
  (`cloud_daemon.py:2113-2119`), as root's `sudo podman exec` of a container is not
  (`cloud_container.py:748`): a second "login" takes the old session out of the table and
  fails before the new one is put in; a code nobody answers leaves a failed session there;
  and once one there has expired, every message of that user fails (`:2692`) until the
  daemon is started again. `CloudLogin` has these ways out; `LoginInHand` counts what is
  then left as lost.
* A success of the announcement marks a record pushed, and the result's failed push is
  not repeated (`cloud_cron.py:739` against 668-681); one bad declaration ends every tick
  (`:319`); a run over midnight is recorded in another day's directory. `reconcile_orphans`
  comes once in a life, over a roster that is empty when the server could not be asked just
  then (`:844`, 109-117), and ends at its first exception (`:847`): records it has not come
  to stay running (`left`), against its comment. A sweep leaves alone the records of a user
  whose key it does not have (`:741`), however old.
* Locks and last use of a container are each process's own; `reap_idle` takes no lock
  (`cloud_container.py:846`); a look for turns that fails counts as none (`:248`, 449), and
  the container is replaced with the turn inside, although `exec_race` (`:554-563`) knows
  that podman may answer 255 for nothing; of stop, rm and cleanup nobody reads the result
  (`:273-302`); callers without limits and callers with a tier replace it
  in turn (`:255`).


## 4. Proofs

A theorem holds for every value of the constants that satisfies the `ASSUME` of its
model: any messages, projects, users, keys, any number of threads, and bounds as
large as one likes. The assumptions say no more than that the sets are finite where
the code counts them, that names are distinct, and that limits are ordered as the
code's defaults are; TLC evaluates them in the run of their module. A bound on faults or on
length is such a constant too: since it is arbitrary, it takes nothing away.

Each proof has an inductive invariant, checked by TLC on a small instance before it
was proved. The property alone is seldom inductive, because what makes it true is
kept somewhere else: in a thread's local values, in a file, in the order of two
calls. What was added, and why:

| Module | Invariant | Properties proved | What the invariant adds |
|---|---|---|---|
| `DispatcherProofs` | `LaneInv` | `TypeCorrect`, `CountersAgree`, `LanesSafe`, `PoolNeverBacklogged` | the counters are the numbers of items by stage; the one item a loop holds has its lane counted |
| | `RefInv` | `ImplementsPromise` (refinement of `TurnLanes`) | numbers are distinct, so that the item picked is the first in the promise's order |
| | `ServerInv` | `OldServersGone` | which instance a command has in its snapshot; an instance it has overlooked began after its restart, or the command is not alone |
| | `RegistryInv` | `RegistryTrue` | what a command read is what the file holds, unless another overlapped; what it is about to write; which job launchd has, unless it refused; ports of two entries differ |
| `MessagePipelineProofs` | `PipelineInv` | `RequestsKept`, `ProjectsExclusive` | for each message, who answers for it: the server, a job, `queue.json` or recovery; which job began the first turn |
| | `CustodyInv` | `KeepsCustody` (refinement of `Custody`) | whatever the daemon has of a message, it has from the server's list |
| | `ManagerInv` | `TasksAccounted` | a task is in hand until its end was posted or cut short; what a `/do`, a reading back and a `/manager run` under way will leave in memory and file |
| `ClaudeTurnProofs` | `TurnInv` | `PermitsExact`, `SessionsSpared` | a turn asks for another seat only at its first limit; sessions thrown away are the retries its call carries |
| | `ReloginInv` | `OneWhileFresh` | the last session's thread is in step with session and process, as long as none outlived its time |
| | `StoreInv` | `SessionsKept` | an id belongs to one key and has been opened; what a save under way will leave in the file; that the thread of the hygiene cycle saves nothing while it waits; where a request that is owed stands |
| `CloudWorkerProofs` | `CloudInv` | `MessagesKept`, `OneProcess`, `AllPutBack` | the pool's queue, one lock holder, for each message who answers for it, and which processes run without the daemon |
| `CloudAccountProofs` | `LoginInv` | `LoginInHand` | only the newest session is in the table; which state belongs to which step of its starter; who holds each process, or that it cannot be signalled |
| | `LimitInv` | `TurnedAwayFairly` | a probe is due in time; a turn's account is known; an older cooldown is let in |
| | `EngineInv` | `ProcessBounded` | the clocks count what the process ran, in a container too; what passes in one look is less than a limit |
| | `SpeechInv` | `AllSaid` | the words collected hold each text heard, once and in order, and the parts those before the last result; the lines between process and turn bring the others, and a result repeats at most the last one; who leaves the loop by itself has nothing left on the way |
| | `UsageInv` | `PressHeard` | where the round stands, and which users it has still to come to |
| `TunnelHealthProofs` | `HealthInv` | `BreakerOpensLate`, `KicksRationed`, `KicksOnlyClosed` | the outage behind an age; how far apart the restarts of the window lie |
| | `MeetingInv` | `MeetingKept` | the pieces of the recording are a prefix; what each job has read; that what was asked for was seen |
| `CronRunnerProofs` | `CronInv` | `RunsRecorded` | one thread per run, numbers of a life; the record of an open run is what its thread will finish, or one that a restart has left |
| | `PostInv` | `PushedMeansShown` | which flag of a record stands for which call, with two ways of posting one record, and any number of sweeps |
| | `ContainerInv` | `ContainerServes` | who is at it has their process's lock; what was seen stands until another changes it; who replaces it found no turn there, or is one whose look failed; whose commands failed |
| `DaemonProofs` | `SummonInv` | `CancelHeeded` | a cancel that the thread has read is remembered |
| | `TeamInv` | `RoundsTrue` | each member's place in the round, turn by turn, and that an answer it gave is a run that ended |
| | `HbInv` | `WokenSparingly` | what `_pending` and the counter say of the messages that were sent |

Two components have an abstract specification. `TurnLanes` is the dispatcher's: in the
proof of `KeepsPromise` every step of the dispatcher is an arrival, the taking or
leaving of a lane, or a stutter. `Custody` is the pipeline's: in the proof of
`PipelineKeepsCustody` every step of a poll, a job, recovery or a crash is one of its
eight steps or a stutter, under a mapping that forgets polls, jobs and locks. Marking a
message and beginning its turn are one step in `MessagePipeline` (`Mark`), and so they
are in the promise (`Begin`). `CustodySuffices` shows that the promise alone entails
`RequestsKept`, which is why the run checks `KeepsCustody` in its place.

The proofs are laid out alike: the parts of the invariant; lemmas on what a step
does to them, by kind of step where many actions have one effect; `Init`; one step
per action; the theorem, by `PTL`.

### Only model-checked

* Liveness (the last column of the table of runs, but for `ImplementsPromise` and `KeepsCustody`):
  the prover has neither fairness nor `ENABLED`.
Every invariant of the runs is stated by a theorem. For `AllSaid`, which speaks of
sequences, the order is kept as a statement on positions, so that no induction over
their length is needed.

No module that has a theorem, or is extended by one, declares a `RECURSIVE` operator.

## 5. Not modelled

* Secrets and skills sync: a one-way copy of server data into files, replaced whole.
* Home portal provisioning: installs and starts processes; `TunnelHealth` takes its
  success as a choice of the environment. Also the portal's own launchd job.
* Kanban: nothing calls `process_kanban_message` or `run_kanban_claude` any more.
* Branches, prompts, folders: reads of the server and text.
* Bridges and one-off tools, skills and operations files: scripts run by hand, prompts,
  shell wrappers and unit files.
* Inside modelled parts: the site route API and `status`; what the session checker tells
  the session manager; the commands of a message that are answered without a turn; live
  captions; how reset texts, usage screens and terminal output are parsed; prompts,
  wording, logs.
* Times no clock of the code bounds, or not the clock that is modelled: a read that waits on
  half a line (`claude_runner.py:589`) or on the error output (819), and the wait of up to
  300 s for a process that has closed its output (817). `EngineRun`'s lines come whole, and
  `InTime`, a part of `ProcessBounded`, speaks of the loop. Likewise a pull whose git is
  killed at its time-out while its merge still moves HEAD.
* The server: the models contain what the programs here rely on (a message is listed
  until it is marked, a row is what was last written to it) and nothing more.

The notes of the components in `PROJECT.json` say what is left out of each.
