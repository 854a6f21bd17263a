------------------------------ MODULE CloudLogin ------------------------------
(***************************************************************************)
(* Logging a cloud user in with Claude through the chat: LoginSession and the *)
(* login part of CloudWorker.process (scripts/cloud_daemon.py), and           *)
(* login_start (scripts/cloud_container.py).  `claude auth login` runs on a    *)
(* terminal; the link it prints is told to the user, the code the user pastes  *)
(* is written to it.                                                          *)
(*                                                                         *)
(* There is one table entry per user, but the user's projects are handled by   *)
(* threads of their own: one may replace a session another is still starting,  *)
(* or is handing a code to.                                                    *)
(***************************************************************************)
EXTENDS Integers, FiniteSets

CONSTANTS
    LoginThread,    \* the threads handling this user's projects
    MaxLogins       \* bound: login sessions in all

ASSUME LoginAssumption == IsFiniteSet(LoginThread) /\ MaxLogins \in Nat \ {0}

VARIABLES
    contained,  \* the user has a container (ctr.enabled_for)
    foreign,    \* the login runs as another system user: in a container, or on
                \* the host when users are isolated (wrap_isolated)
    held,       \* login_sessions[user], 0 for none
    login,    \* each LoginSession: its state, whether it knows its process
                \* (_pid) and terminal (_fd), whether the process runs and has
                \* its link still to say, and whether it is over LOGIN_CODE_TTL_SEC
    handler,    \* each thread: where it is, the login, the code's link
    links,      \* the links told to the user, by session
    lost        \* history: sessions taken out of the table, or replaced, by a
                \* thread that could not end their process

loginVars == <<contained, foreign, held, login, handler, links, lost>>

Session == 1..MaxLogins
Unborn == [state |-> "unborn", pid |-> FALSE, fd |-> FALSE, up |-> FALSE, silent |-> TRUE, late |-> FALSE]
Idle == [at |-> "idle", s |-> 0, code |-> 0]

LoginInit ==
    /\ contained \in BOOLEAN /\ foreign \in BOOLEAN /\ (contained => foreign)
    /\ held = 0
    /\ login = [s \in Session |-> Unborn]
    /\ handler = [t \in LoginThread |-> Idle]
    /\ links = {} /\ lost = {}

(* LoginSession.terminate and _cleanup: without a _pid nothing is killed.   *)
Terminated(x) == [x EXCEPT !.up = @ /\ ~x.pid, !.fd = FALSE]

(* Another user's process may not be signalled: os.kill raises PermissionError, *)
(* which terminate does not catch, until submit_code has seen it to its end -  *)
(* the only thing that closes the terminal of such a session.                *)
Unkillable(s) == foreign /\ login[s].pid /\ login[s].fd

(* Ended without its process being known: it goes on, if it was begun.       *)
Loses(s) == lost' = IF login[s].pid THEN lost ELSE lost \cup {s}

Goes(t, where) == handler' = [handler EXCEPT ![t].at = where]
Rests(t) == handler' = [handler EXCEPT ![t] = Idle]

-----------------------------------------------------------------------------
(* process(), up to the branch the message takes.                            *)

Deleted(s) == held' = 0

(* Under login_lock an expired session is ended and deleted; the one held is *)
(* read.  The branch is taken later, with whatever state it has then.  While   *)
(* the expired one cannot be ended the exception comes before the deletion:   *)
(* no message of this user gets any further.                                 *)
Take(t, what, code) ==
    /\ handler[t].at = "idle"
    /\ IF held # 0 /\ login[held].late
       THEN /\ ~Unkillable(held)
            /\ login' = [login EXCEPT ![held] = Terminated(@)]
            /\ Deleted(held) /\ Loses(held)
            /\ handler' = [handler EXCEPT ![t] = [at |-> what, s |-> 0, code |-> code]]
       ELSE /\ handler' = [handler EXCEPT ![t] = [at |-> what, s |-> held, code |-> code]]
            /\ UNCHANGED <<login, held, lost>>
    /\ UNCHANGED <<contained, foreign, links>>

Message(t) == Take(t, "login", 0) \/ Take(t, "other", 0) \/ \E c \in links : Take(t, "code", c)

Awaits(t) == handler[t].s # 0 /\ login[handler[t].s].state = "waiting"

(* Nothing to do with a login, or a code that no session waits for: a reply, *)
(* or a turn, which is CloudWorker's matter.                                *)
Otherwise(t) ==
    /\ handler[t].at = "other" \/ (handler[t].at = "code" /\ ~Awaits(t))
    /\ Rests(t)
    /\ UNCHANGED <<contained, foreign, held, login, links, lost>>

-----------------------------------------------------------------------------
(* A login trigger.                                                          *)

(* MUTANT ReplacedUnended: the old session is replaced but not ended.        *)
ReplacedUnended(s) == login[s]
ReplacedEnded(s) == Terminated(login[s])

(* Under login_lock the old session is taken out and ended, the new one put in. *)
BeginLogin(t) ==
    /\ handler[t].at = "login" /\ (held # 0 => ~Unkillable(held))
    /\ \E s \in Session :
        /\ login[s].state = "unborn" /\ \A r \in Session : r < s => login[r].state # "unborn"
        /\ login' = [r \in Session |->
            IF r = s THEN [Unborn EXCEPT !.state = "starting"]
            ELSE IF r = held THEN ReplacedEnded(r) ELSE login[r]]
        /\ held' = s
        /\ handler' = [handler EXCEPT ![t] = [at |-> "forking", s |-> s, code |-> 0]]
    /\ IF held = 0 THEN lost' = lost ELSE Loses(held)
    /\ UNCHANGED <<contained, foreign, links>>

(* The old session's process cannot be ended: it is out of the table, the new  *)
(* one is not put in, and the user is told of an error.                      *)
BeginRaises(t) ==
    /\ handler[t].at = "login" /\ held # 0 /\ Unkillable(held)
    /\ held' = 0 /\ lost' = lost \cup {held} /\ Rests(t)
    /\ UNCHANGED <<contained, foreign, login, links>>

Mine(t) == login[handler[t].s]
Becomes(t, x) == login' = [login EXCEPT ![handler[t].s] = x]

(* The process begins: on the host the session knows it at once, ...         *)
ForkOnHost(t) ==
    /\ handler[t].at = "forking" /\ ~contained /\ Goes(t, "starting")
    /\ Becomes(t, [Mine(t) EXCEPT !.up = TRUE, !.silent = FALSE, !.pid = TRUE, !.fd = TRUE])
    /\ UNCHANGED <<contained, foreign, held, links, lost>>

(* ... in a container only login_start does.                                 *)
ForkInContainer(t) ==
    /\ handler[t].at = "forking" /\ contained /\ Goes(t, "starting")
    /\ Becomes(t, [Mine(t) EXCEPT !.up = TRUE, !.silent = FALSE])
    /\ UNCHANGED <<contained, foreign, held, links, lost>>

(* ensure_running fails: no process.                                         *)
NoContainer(t) ==
    /\ handler[t].at = "forking" /\ contained /\ Goes(t, "nolink")
    /\ Becomes(t, [Mine(t) EXCEPT !.state = "failed"])
    /\ UNCHANGED <<contained, foreign, held, links, lost>>

(* The link is printed in full.                                             *)
LinkComplete(t) == Mine(t).up /\ ~Mine(t).silent

Told(t) ==
    /\ Becomes(t, [Mine(t) EXCEPT !.state = "waiting", !.pid = TRUE, !.fd = TRUE, !.silent = TRUE])
    /\ links' = links \cup {handler[t].s}
    /\ Rests(t)
    /\ UNCHANGED <<contained, foreign, held, lost>>

LinkSeen(t) ==
    /\ handler[t].at = "starting" /\ ~contained /\ Mine(t).fd /\ LinkComplete(t)
    /\ Told(t)

(* login_start comes back with the process, also for a session replaced since: *)
(* its link is told too.                                                    *)
LinkReturned(t) ==
    /\ handler[t].at = "starting" /\ contained /\ LinkComplete(t)
    /\ Told(t)

(* Another thread has closed the terminal of a session being started: select  *)
(* raises out of start(), and the user is told of an error ...               *)
StartBroken(t) ==
    /\ handler[t].at = "starting" /\ ~contained /\ ~Mine(t).fd
    /\ Rests(t)
    /\ UNCHANGED <<contained, foreign, held, login, links, lost>>

(* ... unless the newer session's terminal has been given the same number:    *)
(* then the link of that one is read here, and its own thread misses it.     *)
LinkStolen(t, r) ==
    /\ handler[t].at = "starting" /\ ~contained /\ ~Mine(t).fd
    /\ r > handler[t].s /\ login[r].up /\ ~login[r].silent
    /\ login' = [login EXCEPT ![handler[t].s].state = "waiting", ![r].silent = TRUE]
    /\ links' = links \cup {r}
    /\ Rests(t)
    /\ UNCHANGED <<contained, foreign, held, lost>>

GivenUp(x) == [x EXCEPT !.up = FALSE, !.fd = FALSE, !.state = "failed"]

(* LOGIN_URL_TIMEOUT_SEC, or the process ended: killed by its own starter.   *)
NoLink(t) ==
    /\ handler[t].at = "starting" /\ ~foreign /\ Mine(t).fd
    /\ Becomes(t, GivenUp(Mine(t)))
    /\ Goes(t, "nolink")
    /\ UNCHANGED <<contained, foreign, held, links, lost>>

(* Another user's process is not: the exception leaves the session in the table, *)
(* "starting" for good, and in a container without its process.              *)
NoLinkRaises(t) ==
    /\ handler[t].at = "starting" /\ foreign
    /\ \E ended \in BOOLEAN : Becomes(t, [Mine(t) EXCEPT !.up = @ /\ ~ended])
    /\ Rests(t)
    /\ UNCHANGED <<contained, foreign, held, links, lost>>

(* login_sessions.pop: whichever session is there now goes, unended.  The     *)
(* handler's own is over by now, but for one whose end has raised.           *)
PopFor(t) ==
    /\ held' = 0
    /\ lost' = IF held # 0 /\ (held # handler[t].s \/ foreign) THEN lost \cup {held} ELSE lost

Apologise(t) ==
    /\ handler[t].at = "nolink" /\ PopFor(t) /\ Rests(t)
    /\ UNCHANGED <<contained, foreign, login, links>>

-----------------------------------------------------------------------------
(* A code for a session that waits for one: submit_code.                     *)

(* Not while another thread hands one in (the session's own lock); the state  *)
(* is looked at again under it.                                             *)
Submitting(s) == \E t \in LoginThread : handler[t].at = "submitting" /\ handler[t].s = s

Submit(t) ==
    /\ handler[t].at = "code" /\ Awaits(t) /\ Goes(t, "queued")
    /\ UNCHANGED <<contained, foreign, held, login, links, lost>>

Written(t) ==
    /\ handler[t].at = "queued" /\ ~Submitting(handler[t].s)
    /\ Goes(t, IF Mine(t).state = "waiting" /\ Mine(t).fd THEN "submitting" ELSE "answered")
    /\ UNCHANGED <<contained, foreign, held, login, links, lost>>

(* The process ends: well if the code belongs to its own link.  Also one that *)
(* was killed meanwhile may be seen to have ended.                           *)
CodeTaken(t) ==
    /\ handler[t].at = "submitting"
    /\ \/ /\ Mine(t).up /\ handler[t].code = handler[t].s
          /\ Becomes(t, [Mine(t) EXCEPT !.state = "done", !.up = FALSE, !.fd = FALSE])
       \/ /\ handler[t].code # handler[t].s \/ ~Mine(t).up
          /\ Becomes(t, [Mine(t) EXCEPT !.state = "failed", !.up = FALSE, !.fd = FALSE])
    /\ Goes(t, "answered")
    /\ UNCHANGED <<contained, foreign, held, links, lost>>

(* 60 s without an end.                                                      *)
CodeUnanswered(t) ==
    /\ handler[t].at = "submitting" /\ Mine(t).fd /\ ~foreign
    /\ Becomes(t, [Terminated(Mine(t)) EXCEPT !.state = "failed"])
    /\ Goes(t, "answered")
    /\ UNCHANGED <<contained, foreign, held, links, lost>>

(* Another user's process: the exception comes out of submit_code, before the  *)
(* pop, and the failed session stays in the table with its process.          *)
CodeUnansweredRaises(t) ==
    /\ handler[t].at = "submitting" /\ Mine(t).fd /\ foreign
    /\ Becomes(t, [Mine(t) EXCEPT !.state = "failed"])
    /\ Rests(t)
    /\ UNCHANGED <<contained, foreign, held, links, lost>>

(* Another thread has ended the session: select has no terminal and raises.  *)
SubmitBroken(t) ==
    /\ handler[t].at = "submitting" /\ ~Mine(t).fd
    /\ Rests(t)
    /\ UNCHANGED <<contained, foreign, held, login, links, lost>>

Answer(t) ==
    /\ handler[t].at = "answered" /\ PopFor(t) /\ Rests(t)
    /\ UNCHANGED <<contained, foreign, login, links>>

-----------------------------------------------------------------------------
(* LOGIN_CODE_TTL_SEC passes: longer than a login takes to start.            *)
GrowsLate(s) ==
    /\ login[s].state \in {"starting", "waiting", "failed"} /\ ~login[s].late
    /\ \A t \in LoginThread : handler[t].at \in {"forking", "starting"} => handler[t].s # s
    /\ login' = [login EXCEPT ![s].late = TRUE]
    /\ UNCHANGED <<contained, foreign, held, handler, links, lost>>

LoginNext ==
    \/ \E t \in LoginThread :
        \/ Message(t) \/ Otherwise(t) \/ BeginLogin(t) \/ ForkOnHost(t) \/ ForkInContainer(t)
        \/ BeginRaises(t) \/ NoContainer(t) \/ LinkSeen(t) \/ LinkReturned(t) \/ StartBroken(t)
        \/ NoLink(t) \/ NoLinkRaises(t) \/ Apologise(t)
        \/ Submit(t) \/ Written(t) \/ CodeTaken(t) \/ CodeUnanswered(t) \/ CodeUnansweredRaises(t)
        \/ SubmitBroken(t) \/ Answer(t)
        \/ \E r \in Session : LinkStolen(t, r)
    \/ \E s \in Session : GrowsLate(s)

LoginSpec == LoginInit /\ [][LoginNext]_loginVars

-----------------------------------------------------------------------------
Places == {"idle", "login", "other", "code", "forking", "starting", "nolink", "queued",
           "submitting", "answered"}

LoginTypeOK ==
    /\ contained \in BOOLEAN /\ foreign \in BOOLEAN /\ held \in {0} \cup Session
    /\ login \in [Session -> [state : {"unborn", "starting", "waiting", "done", "failed"},
         pid : BOOLEAN, fd : BOOLEAN, up : BOOLEAN, silent : BOOLEAN, late : BOOLEAN]]
    /\ handler \in [LoginThread -> [at : Places, s : {0} \cup Session, code : {0} \cup Session]]
    /\ links \subseteq Session /\ lost \subseteq Session

(* The session a code would be given to can take it: while it waits, its      *)
(* process lives and its terminal is open, whatever other threads have done    *)
(* to sessions of the same user.                                             *)
HeldTakesCode ==
    held # 0 /\ login[held].state = "waiting" => login[held].up /\ login[held].fd

(* A login process that lives is held - but for the ways the code lets one go: *)
(* a session replaced, or expired, without knowing its process; one that       *)
(* another message's handler has popped; and, where the process is another     *)
(* user's, one replaced or popped because it could not be ended.             *)
NoStray == \A s \in Session : login[s].up => s = held \/ s \in lost

(* The table of login sessions and the processes agree, whichever threads      *)
(* replace, pop and end sessions of one user: what is held can take the code, *)
(* and what lives is held.                                                   *)
LoginInHand == HeldTakesCode /\ NoStray
=============================================================================
