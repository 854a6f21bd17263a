----------------------------- MODULE DaemonShell -----------------------------
(***************************************************************************)
(* What is around the daemon's threads: its processes and their PID file   *)
(* (scripts/daemon/config.py), main with its loop and its way out          *)
(* (scripts/claude_daemon.py), and the updater, which pulls new code and   *)
(* has the daemon replaced (scripts/daemon/syncers/auto_updater.py).       *)
(*                                                                         *)
(* launchd keeps one process alive and starts it again however it ended;   *)
(* a second one may be started by hand.                                    *)
(***************************************************************************)
EXTENDS Naturals, FiniteSets

CONSTANTS
    Procs,         \* the processes: launchd's and those started by hand
    Service,       \* launchd's
    MaxStarts,     \* starts by hand in one behaviour
    MaxCommits,    \* commits that reach the remote branch
    MaxFailures,   \* MAX_FAILURES
    MaxShellFaults,\* crashes, failing commands, restarts asked for
    Nobody         \* who holds a lock that is free

ASSUME ShellAssumption ==
    /\ Service \in Procs /\ IsFiniteSet(Procs) /\ Nobody \notin Procs
    /\ {MaxStarts, MaxCommits, MaxShellFaults} \subseteq Nat
    /\ MaxFailures \in Nat \ {0}

VARIABLES
    proc,          \* per process: where it is, its open file, the code it loaded
    pidFile,       \* the file under PID_PATH now: a number for the inode, 0 for none
    lock,          \* per inode: who holds its lock
    ending,        \* per process: its shutdown_event and whether a restart was requested
    updater,       \* per process: where its updater is, failures in a row
    remote, disk,  \* the newest commit, and the one checked out
    dirty,         \* the working tree: "clean", "npm" (its files only) or "other"
    forced,        \* users.force_restart on the server
    starts, shellFaults,
    spoilt         \* history: the last update was broken off after its pull, or another
                   \* process was up or on its way up with the code of before

shellVars == <<proc, pidFile, lock, ending, updater, remote, disk, dirty, forced,
               starts, shellFaults, spoilt>>

Inodes == 1 .. Cardinality(Procs) + 1
Off == [at |-> "off", fd |-> 0, code |-> 0]
On(p) == proc[p].at # "off"
Main(p) == proc[p].at \in {"running", "draining"}
Live(p) == proc[p].at = "running" /\ ~ending[p].shutdown
Calm == [shutdown |-> FALSE, restart |-> FALSE]
Resting == [at |-> "resting", failures |-> 0]

ShellFault == shellFaults < MaxShellFaults /\ shellFaults' = shellFaults + 1
NoFault == UNCHANGED shellFaults
FileStays == UNCHANGED <<pidFile, lock>>
CodeStays == UNCHANGED <<updater, remote, disk, dirty, spoilt>>

ShellInit ==
    /\ proc = [p \in Procs |-> Off] /\ pidFile = 0
    /\ lock = [i \in Inodes |-> Nobody]
    /\ ending = [p \in Procs |-> Calm] /\ updater = [p \in Procs |-> Resting]
    /\ remote = 1 /\ disk = 1 /\ dirty = "clean"
    /\ forced = FALSE /\ starts = 0 /\ shellFaults = 0 /\ spoilt = FALSE

-----------------------------------------------------------------------------
(* Coming up: cleanup_stale_state, then acquire_pid_lock.                  *)

To(p, where) == proc' = [proc EXCEPT ![p].at = where]
Leaves(p) == proc' = [proc EXCEPT ![p] = Off]
UsedBy(p, i) == On(p) /\ proc[p].fd = i

Launch(p) ==
    /\ ~On(p) /\ NoFault
    /\ IF p = Service THEN UNCHANGED starts ELSE starts < MaxStarts /\ starts' = starts + 1
    /\ proc' = [proc EXCEPT ![p] = [Off EXCEPT !.at = "cleaning", !.code = disk]]
    /\ ending' = [ending EXCEPT ![p] = Calm]
    /\ FileStays /\ CodeStays /\ UNCHANGED <<forced>>

(* Reads the PID in the file, if there is one.                             *)
ReadPid(p) ==
    /\ proc[p].at = "cleaning" /\ NoFault
    /\ To(p, IF pidFile = 0 THEN "opening" ELSE "judging")
    /\ FileStays /\ CodeStays /\ UNCHANGED <<ending, forced, starts>>

(* The file goes whatever was in it: no number, a process that has ended,  *)
(* or one that _is_daemon_process says is no daemon.  That it says of      *)
(* every process: it calls subprocess.run in a module that does not import *)
(* subprocess, and takes the NameError for a no.  So a daemon that runs is *)
(* not waited for: the thirty seconds for it (:131-143) are never come to. *)
ClearStale(p) ==
    /\ proc[p].at = "judging" /\ To(p, "opening") /\ NoFault
    /\ pidFile' = 0
    /\ CodeStays /\ UNCHANGED <<lock, ending, forced, starts>>

(* open(PID_PATH, "w"), whoever holds its lock.                            *)
OpenFile(p) ==
    /\ proc[p].at = "opening" /\ NoFault
    /\ LET i == IF pidFile # 0 THEN pidFile
                ELSE CHOOSE n \in Inodes : \A q \in Procs : ~UsedBy(q, n)
       IN /\ pidFile' = i
          /\ proc' = [proc EXCEPT ![p].at = "locking", ![p].fd = i]
    /\ CodeStays /\ UNCHANGED <<lock, ending, forced, starts>>

Lock(p) ==
    /\ proc[p].at = "locking" /\ NoFault
    /\ IF lock[proc[p].fd] = Nobody
       THEN lock' = [lock EXCEPT ![proc[p].fd] = p] /\ To(p, "writing")
       ELSE Leaves(p) /\ UNCHANGED lock
    /\ CodeStays /\ UNCHANGED <<pidFile, ending, forced, starts>>

(* The PID is in the file, and main begins, and its updater with it.       *)
WritePid(p) ==
    /\ proc[p].at = "writing" /\ To(p, "running") /\ NoFault
    /\ updater' = [updater EXCEPT ![p] = [Resting EXCEPT !.at = "starting"]]
    /\ FileStays /\ UNCHANGED <<ending, remote, disk, dirty, spoilt, forced, starts>>

-----------------------------------------------------------------------------
(* main's loop and its way out.                                            *)

EndProc(p, restart) ==
    ending' = [ending EXCEPT ![p] = [shutdown |-> TRUE, restart |-> @.restart \/ restart]]

(* SIGTERM or SIGINT; or the worker's thread is found dead.                *)
Signalled(p) ==
    /\ Live(p) /\ ShellFault
    /\ \E dead \in BOOLEAN : EndProc(p, dead)
    /\ FileStays /\ CodeStays /\ UNCHANGED <<proc, forced, starts>>

(* The flag is cleared before the restart; clearing it may fail unnoticed. *)
ForceRestart(p) ==
    /\ Live(p) /\ forced /\ EndProc(p, TRUE)
    /\ \/ forced' = FALSE /\ NoFault
       \/ ShellFault /\ UNCHANGED forced
    /\ FileStays /\ CodeStays /\ UNCHANGED <<proc, starts>>

Press ==
    /\ ~forced /\ ShellFault /\ forced' = TRUE
    /\ FileStays /\ CodeStays /\ UNCHANGED <<proc, ending, starts>>

(* Out of the loop: turns are drained for a limited time, and in the       *)
(* finally the lock is given up first, then the file removed.              *)
Drain(p) ==
    /\ proc[p].at = "running" /\ ending[p].shutdown /\ To(p, "draining") /\ NoFault
    /\ FileStays /\ CodeStays /\ UNCHANGED <<ending, forced, starts>>

Unlock(p) ==
    /\ proc[p].at = "draining" /\ To(p, "releasing") /\ NoFault
    /\ lock' = [lock EXCEPT ![proc[p].fd] = Nobody]
    /\ CodeStays /\ UNCHANGED <<pidFile, ending, forced, starts>>

Release(p) ==
    /\ proc[p].at = "releasing" /\ Leaves(p) /\ NoFault
    /\ pidFile' = 0
    /\ updater' = [updater EXCEPT ![p] = Resting]
    /\ UNCHANGED <<lock, ending, remote, disk, dirty, spoilt, forced, starts>>

(* The process is killed: the system frees its lock, the file stays.       *)
Killed(p) ==
    /\ On(p) /\ ShellFault /\ Leaves(p)
    /\ lock' = [i \in Inodes |-> IF lock[i] = p THEN Nobody ELSE lock[i]]
    /\ updater' = [updater EXCEPT ![p] = Resting]
    /\ UNCHANGED <<pidFile, ending, remote, disk, dirty, spoilt, forced, starts>>

-----------------------------------------------------------------------------
(* The updater.                                                            *)

(* A check under way does not look at the shutdown, a new one does.        *)
Updating(p, where) ==
    /\ Main(p) /\ updater[p].at = where
    /\ where = "resting" => Live(p)
ShellStays == UNCHANGED <<proc, pidFile, lock, starts>>
Goes(p, where) == updater' = [updater EXCEPT ![p].at = where]
Fails(p) == updater' = [updater EXCEPT ![p] = [at |-> "resting", failures |-> @.failures + 1]]

Commit ==
    /\ remote <= MaxCommits /\ remote' = remote + 1
    /\ ShellStays /\ NoFault /\ UNCHANGED <<ending, updater, disk, dirty, forced, spoilt>>

(* Somebody edits a tracked file, or a run of npm does.                    *)
Dirtied ==
    /\ ShellFault /\ dirty = "clean" /\ dirty' \in {"npm", "other"}
    /\ ShellStays /\ UNCHANGED <<ending, updater, remote, disk, forced, spoilt>>

Npm == {dirty, IF dirty = "clean" THEN "npm" ELSE dirty}

(* run: what the terminal needs is installed if it is missing.             *)
SelfHeal(p) ==
    /\ Updating(p, "starting") /\ Goes(p, "resting") /\ NoFault
    /\ dirty' \in Npm
    /\ ShellStays /\ UNCHANGED <<ending, remote, disk, forced, spoilt>>

(* check_once up to the comparison.  After so many failures in a row       *)
(* nothing is fetched until the next start.                                *)
Paused(p) == updater[p].failures >= MaxFailures

Fetch(p) ==
    /\ Updating(p, "resting") /\ ~Paused(p)
    /\ \/ /\ NoFault
          /\ IF disk = remote THEN updater' = [updater EXCEPT ![p].failures = 0] ELSE Goes(p, "pulling")
       \/ ShellFault /\ Fails(p)
    /\ ShellStays /\ UNCHANGED <<ending, remote, disk, dirty, forced, spoilt>>

(* npm's own edits are thrown away before the pull, others block it.       *)
Pullable == dirty # "other"

Pull(p) ==
    /\ Updating(p, "pulling") /\ Pullable /\ NoFault
    /\ dirty' = "clean" /\ disk' = remote
    /\ IF disk = remote
       THEN updater' = [updater EXCEPT ![p] = Resting] /\ UNCHANGED spoilt
       ELSE Goes(p, "installing") /\ spoilt' = (\E q \in Procs \ {p} : On(q))
    /\ ShellStays /\ UNCHANGED <<ending, remote, forced>>

PullFails(p) ==
    /\ Updating(p, "pulling") /\ Fails(p)
    /\ IF Pullable THEN ShellFault ELSE NoFault
    /\ dirty' = IF dirty = "npm" THEN "clean" ELSE dirty
    /\ ShellStays /\ UNCHANGED <<ending, remote, disk, forced, spoilt>>

(* Bytecode, pip, npm, the portal, and then the daemon itself.             *)
InstallOnly(p) ==
    /\ Updating(p, "installing") /\ NoFault
    /\ updater' = [updater EXCEPT ![p] = Resting]
    /\ dirty' \in Npm
    /\ ShellStays /\ UNCHANGED <<ending, remote, disk, forced, spoilt>>

Install(p) ==
    /\ Updating(p, "installing") /\ NoFault
    /\ updater' = [updater EXCEPT ![p] = Resting]
    /\ dirty' \in Npm
    /\ EndProc(p, TRUE)
    /\ ShellStays /\ UNCHANGED <<remote, disk, forced, spoilt>>

(* git diff takes more than its thirty seconds, say: the exception ends    *)
(* the check between the pull and the restart, and the next check finds    *)
(* nothing to pull.                                                        *)
InstallRaises(p) ==
    /\ Updating(p, "installing") /\ ShellFault
    /\ Fails(p) /\ spoilt' = TRUE
    /\ ShellStays /\ UNCHANGED <<ending, remote, disk, dirty, forced>>

Updates(p) == SelfHeal(p) \/ Fetch(p) \/ Pull(p) \/ PullFails(p) \/ Install(p) \/ InstallRaises(p)

ProcStep(p) ==
    \/ ReadPid(p) \/ ClearStale(p) \/ OpenFile(p) \/ Lock(p) \/ WritePid(p) \/ Drain(p) \/ Unlock(p) \/ Release(p)

ShellNext ==
    \/ \E p \in Procs : Launch(p) \/ ProcStep(p) \/ Signalled(p) \/ ForceRestart(p) \/ Killed(p) \/ Updates(p)
    \/ Press \/ Commit \/ Dirtied

ShellFairness ==
    /\ WF_shellVars(Launch(Service))
    /\ \A p \in Procs : WF_shellVars(ProcStep(p)) /\ WF_shellVars(Updates(p))

(***************************************************************************)
(* A commit is what a daemon runs in the end, whatever was pressed, killed *)
(* or failed, unless the updates are paused, a local edit blocks them, the *)
(* last one was broken off between its pull and its restart, or a second   *)
(* daemon had loaded its code before the pull: to the next check, which    *)
(* compares the checkout with the branch, all is well in both.             *)
(***************************************************************************)
Served == \E p \in Procs : proc[p].at = "running" /\ proc[p].code = remote
UpdateServed ==
    <>(\E p \in Procs : On(p)) =>
        <>[](Served \/ spoilt \/ dirty = "other" \/ \E p \in Procs : Live(p) /\ Paused(p))

ShellSpec == ShellInit /\ [][ShellNext]_shellVars /\ ShellFairness
=============================================================================
