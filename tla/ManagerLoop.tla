----------------------------- MODULE ManagerLoop -----------------------------
(***************************************************************************)
(* The autonomous manager: scripts/daemon/manager/thread.py, with what the *)
(* worker (/do and /manager run, daemon/worker.py) and the status server   *)
(* (manager/http_server.py) do to it.                                      *)
(*                                                                         *)
(* One thread waits, is woken or finds its interval over, and runs a       *)
(* cycle: a task from its queue, turn after turn in the task's project; or *)
(* a round of a project (scout, triage, perhaps a suggestion to the user,  *)
(* execution).  A turn is a message put into the project's conversation,   *)
(* and the wait for the reply.                                             *)
(*                                                                         *)
(* What it knows is a dictionary, saved as a whole at every change; the    *)
(* wake-up makes it read the file back, and other threads write the        *)
(* dictionary or the file under no lock.  Projects are not told apart:     *)
(* there is one.                                                           *)
(***************************************************************************)
EXTENDS Integers, FiniteSets

CONSTANTS
    Tasks,          \* tasks given with /do
    None,
    MaxTurns,       \* max_turns of a task
    Checkpoint,     \* CHECKPOINT_INTERVAL
    ExecTurns,      \* max_turns of a project's workflow
    MaxStreak,      \* turns in a row without a reply after which a task is given up
    MaxCommands,    \* bound: /manager run
    MaxLives,       \* bound: lives of the daemon
    MaxRaises       \* bound: cycles that end in an exception

ASSUME ManagerAssumption ==
    /\ IsFiniteSet(Tasks) /\ None \notin Tasks
    /\ {MaxTurns, Checkpoint, ExecTurns, MaxStreak, MaxLives} \subseteq Nat \ {0}
    /\ {MaxCommands, MaxRaises} \subseteq Nat

VARIABLES
    mem,        \* self.state: the tasks queued, and whether a retry is on the list
    file,       \* manager_state.json
    wake,       \* manager_wake_event
    forced,     \* a cycle has been asked for
    at,         \* where the thread is
    loaded,     \* the state read back, before it is put in place
    task,       \* the task being run
    turns,      \* turns of the task, or of the execution
    streak,     \* timeout_streak
    sent,       \* the message injected for this turn
    late,       \* one injected before it, and given up
    busy,       \* the user has a turn in the project
    command,    \* the state /manager run has read
    giving,     \* the task /do has put into the dictionary and not saved yet
    down,       \* shutdown_event
    commands, lives, raises,
    accepted,   \* history: tasks the user has been told are registered
    popped,     \* history: tasks taken from the queue
    ended,      \* history: of a task that came to its end, whether the user has been told
    short,      \* history: tasks cut short by a shutdown or an exception
    crossed     \* history: tasks given while the thread read its state back, or between
                \* the two steps of /manager run

thread == <<forced, at, loaded, task, turns, streak>>
project == <<sent, late, busy>>
counters == <<commands, lives, raises>>
users == <<command, giving>>
history == <<accepted, popped, ended, short, crossed>>
managerVars == <<mem, file, wake, thread, project, users, down, counters, history>>

Message == {"none", "queued", "running", "answered"}
State == [tasks : SUBSET Tasks, retry : BOOLEAN]
Fresh == [tasks |-> {}, retry |-> FALSE]

ManagerInit ==
    /\ mem = Fresh /\ file = Fresh
    /\ wake = FALSE /\ forced = FALSE
    /\ at = "wait" /\ loaded = Fresh
    /\ task = None /\ turns = 0 /\ streak = 0
    /\ sent = "none" /\ late = "none" /\ busy = FALSE
    /\ command = None /\ giving = None /\ down = FALSE
    /\ commands = 0 /\ lives = 1 /\ raises = 0
    /\ accepted = {} /\ popped = {} /\ ended = [d \in Tasks |-> "nothing"]
    /\ short = {} /\ crossed = {}

Save(state) == mem' = state /\ file' = state
Busy == busy \/ sent = "running" \/ late = "running"

-----------------------------------------------------------------------------
(* The loop: _wait_or_wake and run.                                          *)

Crosses == crossed' = crossed \cup ({giving} \ {None})

Woken ==
    /\ at = "wait" /\ wake
    /\ wake' = FALSE /\ loaded' = file /\ at' = "load" /\ Crosses
    /\ UNCHANGED <<mem, file, forced, task, turns, streak, project, users, down, counters,
                   accepted, popped, ended, short>>

PutInPlace ==
    /\ at = "load"
    /\ mem' = loaded /\ loaded' = Fresh
    /\ forced' = TRUE /\ at' = "top"
    /\ UNCHANGED <<file, wake, task, turns, streak, project, users, down, counters,
                   history>>

WaitedLong ==
    /\ at = "wait" /\ ~wake
    /\ forced' = FALSE /\ at' = "top"
    /\ UNCHANGED <<mem, file, wake, loaded, task, turns, streak, project, users, down,
                   counters, history>>

\* Not in quiet hours, and not before the interval is over, unless it is forced.  What
\* the clock says is anything.
Top ==
    /\ at = "top" /\ ~down
    /\ \/ forced' = FALSE /\ at' = "cycle"
       \/ ~forced /\ at' = "wait" /\ UNCHANGED forced
    /\ UNCHANGED <<mem, file, wake, loaded, task, turns, streak, project, users, down,
                   counters, history>>

Stopped ==
    /\ at = "top" /\ down /\ at' = "stopped"
    /\ UNCHANGED <<mem, file, wake, forced, loaded, task, turns, streak, project,
                   users, down, counters, history>>

\* run clears the event when the cycle is through.
Clear ==
    /\ at = "clear" /\ at' = "wait" /\ wake' = FALSE
    /\ UNCHANGED <<mem, file, forced, loaded, task, turns, streak, project, users, down,
                   counters, history>>

Cycling == {"cycle", "deep", "deepwait", "judge", "scout", "scoutwait", "triage", "suggest",
            "exec", "execwait", "finish"}

\* An exception in the cycle is logged, and the thread waits.
CycleRaises ==
    /\ at \in Cycling /\ raises < MaxRaises /\ raises' = raises + 1
    /\ at' = "wait"
    /\ short' = IF task # None THEN short \cup {task} ELSE short
    /\ task' = None /\ turns' = 0 /\ streak' = 0
    /\ UNCHANGED <<mem, file, wake, forced, loaded, project, users, down,
                   commands, lives, accepted, popped, ended, crossed>>

-----------------------------------------------------------------------------
(* A turn in the project: _inject_and_wait.                                  *)

\* The API takes the message, or not.  One of an earlier turn, given up, may still be
\* answered (of several, one that runs or the last is kept).
Inject(s) ==
    /\ sent' \in {"queued", "none"}
    /\ late' = IF sent \in {"queued", "running"} /\ late # "running" THEN sent ELSE late
    /\ at' = s

\* The wait is for the replies to this message, and for its turn's end; what it has said
\* so far counts when the time is over.  None may come in time; or the message is not
\* taken, the polls fail, or a shutdown waits for nothing.
Replied == sent \in {"running", "answered"}

-----------------------------------------------------------------------------
(* A task: _run_deep_task.                                                   *)

Pop ==
    /\ at = "cycle" /\ mem.tasks # {}
    /\ \E d \in mem.tasks :
          /\ Save([mem EXCEPT !.tasks = @ \ {d}])
          /\ task' = d /\ popped' = popped \cup {d}
    /\ turns' = 0 /\ streak' = 0 /\ at' = "deep"
    /\ UNCHANGED <<wake, forced, loaded, project, users, down, counters, accepted,
                   ended, short, crossed>>

\* A busy project is waited for, and the wait is one of the turns.
DeepBusyUncounted ==
    /\ at = "deep" /\ turns < MaxTurns /\ Busy
    /\ at' = IF down THEN "finish" ELSE "deep"
    /\ short' = IF down THEN short \cup {task} ELSE short
    /\ UNCHANGED <<mem, file, wake, forced, loaded, task, turns, streak, project, users,
                   down, counters, accepted, popped, ended, crossed>>
DeepBusy ==
    /\ at = "deep" /\ turns < MaxTurns /\ Busy
    /\ turns' = turns + 1
    /\ at' = IF down THEN "finish" ELSE "deep"
    /\ short' = IF down THEN short \cup {task} ELSE short
    /\ UNCHANGED <<mem, file, wake, forced, loaded, task, streak, project, users, down,
                   counters, accepted, popped, ended, crossed>>

DeepTurn ==
    /\ at = "deep" /\ turns < MaxTurns /\ ~Busy
    /\ turns' = turns + 1
    /\ Inject("deepwait")
    /\ UNCHANGED <<mem, file, wake, forced, loaded, task, streak, busy, users, down,
                   counters, history>>

\* Every so many turns the manager looks at how far it got.
DeepReply ==
    /\ at = "deepwait" /\ Replied
    /\ streak' = 0
    /\ at' = IF turns > 1 /\ turns % Checkpoint = 0 THEN "judge" ELSE "deep"
    /\ UNCHANGED <<mem, file, wake, forced, loaded, task, turns, project, users, down,
                   counters, history>>

\* How the task ended is posted; that a post is lost nobody notices.
Tell == \E heard \in {"told", "unheard"} : ended' = [ended EXCEPT ![task] = heard]

DeepSilence ==
    /\ at = "deepwait"
    /\ streak' = streak + 1
    /\ IF streak' >= MaxStreak
       THEN at' = "finish" /\ Tell
       ELSE at' = "deep" /\ UNCHANGED ended
    /\ UNCHANGED <<mem, file, wake, forced, loaded, task, turns, project, users, down,
                   counters, accepted, popped, short, crossed>>

\* The task is done, or goes on, perhaps with a question.
Judge ==
    /\ at = "judge"
    /\ \/ at' = "finish" /\ Tell
       \/ at' = "deep" /\ UNCHANGED ended
    /\ UNCHANGED <<mem, file, wake, forced, loaded, task, turns, streak, project, users,
                   down, counters, accepted, popped, short, crossed>>

\* The turns are used up.
DeepOut ==
    /\ at = "deep" /\ turns = MaxTurns
    /\ at' = "finish" /\ Tell
    /\ UNCHANGED <<mem, file, wake, forced, loaded, task, turns, streak, project, users,
                   down, counters, accepted, popped, short, crossed>>

\* A cycle's end: last_run is now.
CycleEnds ==
    /\ at = "finish"
    /\ Save(mem)
    /\ task' = None /\ turns' = 0 /\ streak' = 0 /\ at' = "clear"
    /\ UNCHANGED <<wake, forced, loaded, project, users, down, counters, history>>

-----------------------------------------------------------------------------
(* A project's round: _run_cycle and _run_project_cycle.                     *)

\* A retry, when it is due, comes first, if the project is free; it is taken off the list
\* before it is tried.
Round ==
    /\ at = "cycle" /\ mem.tasks = {}
    /\ \/ mem.retry /\ ~Busy /\ Save([mem EXCEPT !.retry = FALSE]) /\ at' = "scout"
       \/ at' = "scout" /\ Save(mem)
       \/ at' = "finish" /\ UNCHANGED <<mem, file>>      \* no project to look after
    /\ UNCHANGED <<wake, forced, loaded, task, turns, streak, project, users, down,
                   counters, history>>

\* A busy project is left alone, and last_run as it was.
ScoutBusy ==
    /\ at = "scout" /\ Busy
    /\ at' = "clear"
    /\ \E again \in {TRUE, mem.retry} : Save([mem EXCEPT !.retry = again])
    /\ UNCHANGED <<wake, forced, loaded, task, turns, streak, project, users, down,
                   counters, history>>

Scout ==
    /\ at = "scout" /\ ~Busy
    /\ Inject("scoutwait")
    /\ file' = mem
    /\ UNCHANGED <<mem, wake, forced, loaded, task, turns, streak, busy, users, down,
                   counters, history>>

ScoutReply ==
    /\ at = "scoutwait" /\ Replied
    /\ at' = "triage" /\ file' = mem
    /\ UNCHANGED <<mem, wake, forced, loaded, task, turns, streak, project, users, down,
                   counters, history>>

\* No reply; after too long a silence the round is to be tried again.
ScoutSilence ==
    /\ at = "scoutwait"
    /\ at' = "finish"
    /\ \E again \in {TRUE, mem.retry} : Save([mem EXCEPT !.retry = again])
    /\ UNCHANGED <<wake, forced, loaded, task, turns, streak, project, users, down,
                   counters, history>>

\* SKIP; AUTO, or ASK on its own authority; or a suggestion to the user.
Triage ==
    /\ at = "triage"
    /\ \/ at' = "finish" /\ Save([mem EXCEPT !.retry = FALSE])
       \/ at' \in {"exec", "suggest"} /\ Save(mem)
    /\ turns' = 0
    /\ UNCHANGED <<wake, forced, loaded, task, streak, project, users, down, counters,
                   history>>

\* The user approves; refuses, or says something else, or nothing in time.
Suggest ==
    /\ at = "suggest"
    /\ \/ at' = "exec" /\ ~down /\ Save(mem)
       \/ at' = "finish" /\ Save([mem EXCEPT !.retry = FALSE])
    /\ UNCHANGED <<wake, forced, loaded, task, turns, streak, project, users, down,
                   counters, history>>

Exec ==
    /\ at = "exec"
    /\ turns' = turns + 1
    /\ Inject("execwait")
    /\ UNCHANGED <<mem, file, wake, forced, loaded, task, streak, busy, users, down,
                   counters, history>>

\* The user is told; a result that is not all goes on for another turn, unless the
\* project has become busy.
ExecEnds ==
    /\ at = "execwait"
    /\ \/ Replied /\ turns < ExecTurns /\ ~Busy /\ at' = "exec" /\ UNCHANGED <<mem, file>>
       \/ at' = "finish" /\ Save([mem EXCEPT !.retry = FALSE])
    /\ UNCHANGED <<wake, forced, loaded, task, turns, streak, project, users, down,
                   counters, history>>

-----------------------------------------------------------------------------
(* The other threads.                                                        *)

\* /do: enqueue_deep_task, called by the worker, adds the task to whatever dictionary
\* the thread has just then, and saves the one it has then; the user hears that the task
\* is registered.
DoAppends(d) ==
    /\ d \notin accepted /\ giving = None /\ ~down
    /\ mem' = [mem EXCEPT !.tasks = @ \cup {d}] /\ giving' = d
    /\ crossed' = IF at = "load" \/ command # None THEN crossed \cup {d} ELSE crossed
    /\ UNCHANGED <<file, wake, thread, project, command, down, counters, accepted, popped,
                   ended, short>>

DoUnsaved ==
    /\ giving # None /\ giving' = None
    /\ wake' = TRUE /\ accepted' = accepted \cup {giving}
    /\ UNCHANGED <<mem, file, thread, project, command, down, counters, popped, ended, short,
                   crossed>>
DoSaves ==
    /\ giving # None /\ giving' = None
    /\ file' = mem /\ wake' = TRUE /\ accepted' = accepted \cup {giving}
    /\ UNCHANGED <<mem, thread, project, command, down, counters, popped, ended, short,
                   crossed>>

\* /manager run: the file is read, its last_run changed, and written.
RunReads ==
    /\ command = None /\ ~down /\ commands < MaxCommands
    /\ commands' = commands + 1 /\ command' = file /\ Crosses
    /\ UNCHANGED <<mem, file, wake, thread, project, giving, down, lives, raises, accepted,
                   popped, ended, short>>
RunWrites ==
    /\ command # None
    /\ file' = command /\ command' = None
    /\ wake' = TRUE
    /\ UNCHANGED <<mem, thread, project, giving, down, counters, history>>

\* POST /api/manager/refresh.
Refresh ==
    /\ ~down /\ wake' = TRUE
    /\ UNCHANGED <<mem, file, thread, project, users, down, counters, history>>

\* The project's turns: the user's, and those of the messages injected, one at a time.
UserTurn ==
    /\ busy' = ~busy /\ (busy \/ (~Busy /\ ~down))
    /\ UNCHANGED <<mem, file, wake, thread, sent, late, users, down, counters, history>>

ProjectTurnBegins ==
    /\ ~Busy /\ ~down
    /\ \/ late = "queued" /\ late' = "running" /\ UNCHANGED sent
       \/ late # "queued" /\ sent = "queued" /\ sent' = "running" /\ UNCHANGED late
    /\ UNCHANGED <<mem, file, wake, thread, busy, users, down, counters, history>>

ProjectTurnEnds ==
    /\ \/ late = "running" /\ late' = "none" /\ UNCHANGED sent
       \/ sent = "running" /\ sent' = "answered" /\ UNCHANGED late
    /\ UNCHANGED <<mem, file, wake, thread, busy, users, down, counters, history>>

Shutdown ==
    /\ ~down /\ lives < MaxLives /\ down' = TRUE
    /\ UNCHANGED <<mem, file, wake, thread, project, users, counters, history>>

\* The daemon exits, and begins anew with what the file says.
ManagerRestarts ==
    /\ down /\ down' = FALSE /\ lives' = lives + 1
    /\ mem' = file /\ wake' = FALSE /\ forced' = FALSE /\ loaded' = Fresh /\ at' = "wait"
    /\ short' = IF task # None THEN short \cup {task} ELSE short
    /\ task' = None /\ turns' = 0 /\ streak' = 0 /\ busy' = FALSE
    /\ command' = None /\ giving' = None
    /\ UNCHANGED <<file, sent, late, commands, raises, accepted, popped, ended, crossed>>

-----------------------------------------------------------------------------
Loop == Woken \/ PutInPlace \/ WaitedLong \/ Top \/ Stopped \/ Clear
Deep == Pop \/ DeepBusy \/ DeepTurn \/ DeepReply \/ DeepSilence \/ Judge \/ DeepOut \/ CycleEnds
Rounds ==
    \/ Round \/ ScoutBusy \/ Scout \/ ScoutReply \/ ScoutSilence \/ Triage \/ Suggest \/ Exec
    \/ ExecEnds
Manager == Loop \/ Deep \/ Rounds

ManagerNext ==
    \/ Manager \/ CycleRaises
    \/ (\E d \in Tasks : DoAppends(d)) \/ DoSaves \/ RunReads \/ RunWrites \/ Refresh
    \/ UserTurn \/ ProjectTurnBegins \/ ProjectTurnEnds \/ Shutdown \/ ManagerRestarts

ManagerSpec == ManagerInit /\ [][ManagerNext]_managerVars

\* The thread goes on, and waits for nothing without a limit; looking every five minutes,
\* it finds the night and the interval over some time; a daemon told to exit does, and
\* is started again.
ManagerFairSpec ==
    /\ ManagerSpec
    /\ WF_managerVars(Manager) /\ WF_managerVars(ManagerRestarts)
    /\ SF_managerVars(Top /\ at' = "cycle")

-----------------------------------------------------------------------------
(* Properties.                                                               *)

ManagerTypeOK ==
    /\ {mem, file, loaded} \subseteq State /\ command \in State \cup {None}
    /\ giving \in Tasks \cup {None}
    /\ {wake, forced, busy, down} \subseteq BOOLEAN
    /\ at \in Cycling \cup {"wait", "load", "top", "clear", "stopped"}
    /\ task \in Tasks \cup {None} /\ (at \in {"deep", "deepwait", "judge"} => task # None)
    /\ turns \in 0..(MaxTurns + ExecTurns) /\ streak \in 0..MaxStreak
    /\ {sent, late} \subseteq Message
    /\ commands \in 0..MaxCommands /\ lives \in 1..MaxLives /\ raises \in 0..MaxRaises
    /\ {accepted, popped, short, crossed} \subseteq SUBSET Tasks
    /\ ended \in [Tasks -> {"nothing", "told", "unheard"}]

\* "완료되면 알려드릴게요" (worker.py:295): how a task ended - done, given up for silence,
\* out of turns - is posted to the user, but for one a shutdown or an exception has cut
\* short; the post itself may be lost (thread.py:280-283).
ToldHowItEnded ==
    \A d \in popped : d # task => ended[d] \in {"told", "unheard"} \/ d \in short

\* "매니저에 작업을 등록했습니다" (worker.py:295): a task is in the dictionary and in the file
\* until it is taken, whoever writes them, unless it was given just when the thread read
\* its state back (thread.py:767-769), or between the reading and the writing of
\* /manager run (worker.py:249-252): both put an older state in the place of its own.
TasksKept ==
    \A d \in accepted \ popped : d \in crossed \/ (d \in mem.tasks /\ d \in file.tasks)

\* What the user is told of a task holds: one that is registered is kept until it is
\* taken, and one that was taken is reported on when it is over.
TasksAccounted == TasksKept /\ ToldHowItEnded

\* Whatever a cycle meets with, the thread comes back to where it can be woken.
ComesBack == []<>(at = "wait")

\* A task in the manager's queue does not stay there for ever.
TasksTaken == \A d \in Tasks : d \in mem.tasks ~> d \notin mem.tasks

\* The manager stays at the user's service: its thread comes back from whatever it
\* does, and takes the tasks that wait.
ManagerServes == ComesBack /\ TasksTaken
=============================================================================
