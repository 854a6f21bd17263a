---------------------------- MODULE SessionStore ----------------------------
(***************************************************************************)
(* The store of Claude sessions of scripts/daemon/sessions.py and who        *)
(* changes it: the turns of claude_runner.py and the /reset command of       *)
(* worker.py, each holding the lock of its project; the hygiene thread of    *)
(* autoreset.py and the checker of health.py, which hold no such lock; the    *)
(* main loop, which carries out the resets asked for in pending_resets.json. *)
(*                                                                         *)
(* g.sessions is only touched under sessions_lock, so a change of it is one  *)
(* step.  save_sessions is not: it copies under the lock and opens the file   *)
(* (which empties it), then writes, and any other thread or a crash may come   *)
(* in between.                                                               *)
(***************************************************************************)
EXTENDS Integers, FiniteSets

CONSTANTS
    Key,            \* keys of g.sessions: "<project>:default" and members' keys
    TeamKey,        \* the members' keys: the summariser finds no session for them
    Hygiene, Main, Checker,     \* the threads that are not turns
    None, Empty, Mixed, NoFile,
    Left,           \* the sessions an earlier run of the daemon left behind
    Stale,          \* session_stale_message_count
    MaxMsgs,        \* session_max_messages
    MaxFailures,    \* session_summary_max_failures
    PerCycle,       \* session_reset_max_per_cycle
    MaxSids,        \* bound: sessions Claude opens in all
    MaxTurns,       \* bound: turns and commands in all
    MaxRequested,   \* bound: requests the session manager writes
    MaxPreSaves,    \* bound: pre-saves in all
    MaxMishaps      \* bound: crashes, failed writes and summaries that hang

ASSUME StoreAssumption ==
    /\ IsFiniteSet(Key) /\ TeamKey \subseteq Key
    /\ {Hygiene, Main, Checker, None, Empty, NoFile, "idle", "cycle", "hung"} \cap Key = {}
    /\ Hygiene \notin {Main, Checker} /\ Main \notin {Checker, None} /\ Empty \notin {Mixed, NoFile}
    /\ {Stale, MaxMsgs, MaxFailures, PerCycle} \subseteq Nat
    /\ {MaxSids, MaxTurns, MaxRequested, MaxPreSaves, MaxMishaps} \subseteq Nat
    /\ MaxMsgs > 0 /\ MaxFailures > 0 /\ PerCycle > 0

Entry == [sid : 1..MaxSids, msgs : 1..MaxMsgs]
Store == [Key -> Entry \cup {None}]
LeftKeys == {k \in Key : Left[k] # None}

ASSUME LeftAssumption ==
    /\ Left \in Store
    /\ \A k \in LeftKeys : Left[k].sid <= Cardinality(LeftKeys)
    /\ \A j, k \in LeftKeys : Left[j].sid = Left[k].sid => j = k
    /\ Cardinality(LeftKeys) <= MaxSids

VARIABLES
    sessions,   \* g.sessions
    file,       \* sessions.json: what it says, or emptied, or two writes mixed up
    saver,      \* each thread's progress in save_sessions
    turn,       \* each key's turn: where it is, the id it read, and (history)
                \* whether another thread has dropped that session since
    hygiene,    \* the cycle: where it is, candidates, the stale ones, summaries made
    heavy,      \* sessions that are old, or whose transcript or context is large
    failures,   \* _save_failures
    pending,    \* pending_resets.json
    asking,     \* the session manager between opening that file and writing it
    main,       \* the main loop: the request it has read, or Main before it unlinks
    up,         \* the daemon is running
    opened,     \* how many sessions Claude has opened
    turns,      \* how many turns and commands have begun
    requested,  \* how many requests have been made
    presaves,   \* how many sessions the checker has pre-saved
    mishaps,
    gone,       \* history: ids a reset has dropped
    unsettled,  \* history: the file may be behind the dictionary
    owed        \* history: requests written whole while nobody looked

counters == <<opened, turns, requested, presaves, mishaps>>
resetFile == <<pending, asking, main, owed>>
storeVars == <<sessions, file, saver, turn, hygiene, heavy, failures, resetFile, up, counters,
          gone, unsettled>>

Thread == Key \cup {Hygiene, Main, Checker}
NoSessions == [k \in Key |-> None]
NotSaving == [step |-> "no", data |-> NoSessions]
NoTurn == [at |-> "idle", sid |-> None, lost |-> FALSE]
NoCycle == [at |-> "idle", todo |-> {}, stale |-> {}, made |-> 0]

StoreInit ==
    /\ sessions = Left /\ opened = Cardinality(LeftKeys)
    /\ file = sessions
    /\ saver = [t \in Thread |-> NotSaving]
    /\ turn = [k \in Key |-> NoTurn]
    /\ hygiene = NoCycle /\ heavy = {} /\ failures = [k \in Key |-> 0]
    /\ pending = NoFile /\ asking = None /\ main = None /\ owed = {}
    /\ up = TRUE /\ turns = 0 /\ requested = 0 /\ presaves = 0 /\ mishaps = 0
    /\ gone = {} /\ unsettled = FALSE

-----------------------------------------------------------------------------
(* save_sessions, one step at a time.                                        *)

Saving(t) == saver[t].step # "no"
Free(t) == up /\ ~Saving(t)
BeginSave(t) == saver' = [saver EXCEPT ![t].step = "copy"]

\* The copy is made under the lock, and the file is opened, which empties it.
Copy(t) ==
    /\ up /\ saver[t].step = "copy"
    /\ saver' = [saver EXCEPT ![t] = [step |-> "write", data |-> sessions]]
    /\ file' = Empty
    /\ unsettled' = \E u \in Thread \ {t} : saver[u].step = "write"
    /\ UNCHANGED <<sessions, turn, hygiene, heavy, failures, resetFile, up, counters, gone>>

\* Whoever wrote since this thread emptied the file may leave a longer text,
\* the end of which stays behind this one.
Write(t) ==
    /\ up /\ saver[t].step = "write"
    /\ saver' = [saver EXCEPT ![t] = NotSaving]
    /\ \/ file' = saver[t].data
       \/ file # Empty /\ file' = Mixed
    /\ UNCHANGED <<sessions, turn, hygiene, heavy, failures, resetFile, up, counters, gone,
                   unsettled>>

\* Opening or writing raises: save_sessions logs it and returns.
WriteFails(t) ==
    /\ up /\ saver[t].step = "write" /\ mishaps < MaxMishaps
    /\ mishaps' = mishaps + 1
    /\ saver' = [saver EXCEPT ![t] = NotSaving]
    /\ unsettled' = TRUE
    /\ UNCHANGED <<sessions, file, turn, hygiene, heavy, failures, resetFile, up, opened, turns,
                   requested, presaves, gone>>

-----------------------------------------------------------------------------
(* The operations on the dictionary.                                         *)

\* Leaving the file to the next save.
ResetSessionUnsaved(t, k) ==
    IF sessions[k] = None
    THEN UNCHANGED <<sessions, saver, gone>>
    ELSE /\ sessions' = [sessions EXCEPT ![k] = None]
         /\ gone' = gone \cup {sessions[k].sid}
         /\ UNCHANGED saver

\* reset_session: pop, and save only when something was popped.
ResetSession(t, k) ==
    IF sessions[k] = None
    THEN UNCHANGED <<sessions, saver, gone>>
    ELSE /\ sessions' = [sessions EXCEPT ![k] = None]
         /\ gone' = gone \cup {sessions[k].sid}
         /\ BeginSave(t)

\* The turn of a key another thread resets goes on with the id it has read.
Overtake(k) ==
    turn' = [turn EXCEPT ![k].lost =
                 @ \/ (sessions[k] # None /\ turn[k].sid = sessions[k].sid)]

\* update_session_by_key: the count of an entry that is there goes on, one that
\* is not there begins anew.
UpdateSession(k, sid) ==
    /\ sessions' = [sessions EXCEPT ![k] =
           IF sessions[k] = None THEN [sid |-> sid, msgs |-> 1]
           ELSE [sessions[k] EXCEPT !.sid = sid,
                                    !.msgs = IF @ < MaxMsgs THEN @ + 1 ELSE @]]
    /\ BeginSave(k)

-----------------------------------------------------------------------------
(* Turns, and the command that resets.                                       *)

ReadSid(k) == IF sessions[k] = None THEN None ELSE sessions[k].sid

\* run_claude reads the id; when the project's account has changed since the
\* session was opened, it has the session summarised first.
StartTurn(k) ==
    /\ Free(k) /\ turn[k].at = "idle" /\ turns < MaxTurns
    /\ turns' = turns + 1
    /\ \/ turn' = [turn EXCEPT ![k] = [NoTurn EXCEPT !.at = "run", !.sid = ReadSid(k)]]
       \/ /\ ReadSid(k) # None
          /\ turn' = [turn EXCEPT ![k] = [NoTurn EXCEPT !.at = "moving", !.sid = ReadSid(k)]]
    /\ UNCHANGED <<sessions, file, saver, hygiene, heavy, failures, resetFile, up, opened,
                   requested, presaves, mishaps, gone, unsettled>>

\* ... then dropped, and forgotten by the turn.
DropOldAccount(k) ==
    /\ Free(k) /\ turn[k].at = "moving"
    /\ turn' = [turn EXCEPT ![k] = [NoTurn EXCEPT !.at = "run"]]
    /\ ResetSession(k, k)
    /\ UNCHANGED <<file, hygiene, heavy, failures, resetFile, up, counters, unsettled>>

\* The turn succeeds: in the session it resumed, or in one Claude has opened.
EndTurn(k) ==
    /\ Free(k) /\ turn[k].at = "run"
    /\ \/ /\ turn[k].sid # None
          /\ UpdateSession(k, turn[k].sid)
          /\ gone' = IF turn[k].lost THEN gone \ {turn[k].sid} ELSE gone
          /\ UNCHANGED opened
       \/ /\ opened < MaxSids /\ opened' = opened + 1
          /\ UpdateSession(k, opened')
          /\ UNCHANGED gone
    /\ turn' = [turn EXCEPT ![k] = NoTurn]
    /\ UNCHANGED <<file, hygiene, heavy, failures, resetFile, up, turns, requested, presaves,
                   mishaps, unsettled>>

\* Time-outs, limits, stops and exceptions save nothing.
TurnFails(k) ==
    /\ Free(k) /\ turn[k].at = "run"
    /\ turn' = [turn EXCEPT ![k] = NoTurn]
    /\ UNCHANGED <<sessions, file, saver, hygiene, heavy, failures, resetFile, up, counters, gone,
                   unsettled>>

\* The context overflows, an image cannot be read, or Claude does not know the
\* session: it is dropped, and run_claude calls itself or gives up.
TurnOverflows(k) ==
    /\ Free(k) /\ turn[k].at = "run"
    /\ ResetSession(k, k)
    /\ turn' = [turn EXCEPT ![k] = NoTurn]
    /\ UNCHANGED <<file, hygiene, heavy, failures, resetFile, up, counters, unsettled>>

\* /reset: the command stands in the place of a turn.
ResetCommand(k) ==
    /\ Free(k) /\ turn[k].at = "idle" /\ k \notin TeamKey
    /\ turns < MaxTurns /\ turns' = turns + 1
    /\ turn' = [turn EXCEPT ![k].at = "command"]
    /\ UNCHANGED <<sessions, file, saver, hygiene, heavy, failures, resetFile, up, opened,
                   requested, presaves, mishaps, gone, unsettled>>

ResetAfterSummary(k) ==
    /\ Free(k) /\ turn[k].at = "command"
    /\ ResetSession(k, k)
    /\ turn' = [turn EXCEPT ![k] = NoTurn]
    /\ UNCHANGED <<file, hygiene, heavy, failures, resetFile, up, counters, unsettled>>

-----------------------------------------------------------------------------
(* The hygiene thread: what it saw when the cycle began is what it goes by.   *)

Oversized(k) == sessions[k] # None /\ (sessions[k].sid \in heavy \/ sessions[k].msgs = MaxMsgs)

\* A session grows old, its transcript or its context grows large (of no effect
\* on one that has too many messages anyway).
GrowsHeavy(k) ==
    /\ up /\ sessions[k] # None /\ sessions[k].msgs < MaxMsgs
    /\ heavy' = heavy \cup {sessions[k].sid} /\ heavy' # heavy
    /\ UNCHANGED <<sessions, file, saver, turn, hygiene, failures, resetFile, up, counters,
                   gone, unsettled>>

Collect ==
    /\ Free(Hygiene) /\ hygiene.at = "idle"
    /\ LET todo == {k \in Key : Oversized(k)} IN
       /\ todo # {}
       /\ hygiene' = [at |-> "cycle", todo |-> todo, made |-> 0,
                      stale |-> {k \in todo : sessions[k].msgs <= Stale}]
    /\ UNCHANGED <<sessions, file, saver, turn, heavy, failures, resetFile, up, counters, gone,
                   unsettled>>

Leave(k) == hygiene' = [hygiene EXCEPT !.todo = @ \ {k}]
Summarised(k) == hygiene' = [hygiene EXCEPT !.todo = @ \ {k}, !.made = @ + 1, !.at = "cycle"]

\* Hardly any conversation: dropped without a summary.
ResetStale(k) ==
    /\ Free(Hygiene) /\ hygiene.at = "cycle" /\ k \in hygiene.todo \cap hygiene.stale
    /\ ResetSession(Hygiene, k) /\ Overtake(k)
    /\ Leave(k)
    /\ UNCHANGED <<file, heavy, failures, resetFile, up, counters, unsettled>>

\* The cycle's summaries are used up.
Defer(k) ==
    /\ Free(Hygiene) /\ hygiene.at = "cycle" /\ k \in hygiene.todo \ hygiene.stale
    /\ hygiene.made >= PerCycle
    /\ Leave(k)
    /\ UNCHANGED <<sessions, file, saver, turn, heavy, failures, resetFile, up, counters, gone,
                   unsettled>>

\* save_session_context: minutes of a Claude call, no lock held.
Summarise(k) ==
    /\ Free(Hygiene) /\ hygiene.at = "cycle" /\ k \in hygiene.todo \ hygiene.stale
    /\ hygiene.made < PerCycle
    /\ hygiene' = [hygiene EXCEPT !.at = k]
    /\ UNCHANGED <<sessions, file, saver, turn, heavy, failures, resetFile, up, counters, gone,
                   unsettled>>

SummarySaved(k) ==
    /\ up /\ hygiene.at = k /\ k \notin TeamKey
    /\ Summarised(k)
    /\ failures' = [failures EXCEPT ![k] = 0]
    /\ ResetSession(Hygiene, k) /\ Overtake(k)
    /\ UNCHANGED <<file, heavy, resetFile, up, counters, unsettled>>

\* Never giving up: the code before it counted.
SummaryFailsForEver(k) ==
    /\ up /\ hygiene.at = k
    /\ Summarised(k)
    /\ UNCHANGED <<sessions, saver, gone, turn, failures>>
    /\ UNCHANGED <<file, heavy, resetFile, up, counters, unsettled>>

\* The context could not be saved: kept for another cycle, but not for ever.
SummaryFails(k) ==
    /\ up /\ hygiene.at = k
    /\ Summarised(k)
    /\ IF failures[k] + 1 >= MaxFailures
       THEN /\ failures' = [failures EXCEPT ![k] = 0]
            /\ ResetSession(Hygiene, k) /\ Overtake(k)
       ELSE /\ failures' = [failures EXCEPT ![k] = @ + 1]
            /\ UNCHANGED <<sessions, saver, gone, turn>>
    /\ UNCHANGED <<file, heavy, resetFile, up, counters, unsettled>>

\* The call says nothing more and does not end: what it says is read without a
\* time-out (the one on its end comes after that), and nobody ends it.
SummaryHangs(k) ==
    /\ up /\ hygiene.at = k /\ k \notin TeamKey
    /\ mishaps < MaxMishaps /\ mishaps' = mishaps + 1
    /\ hygiene' = [hygiene EXCEPT !.at = "hung"]
    /\ UNCHANGED <<sessions, file, saver, turn, heavy, failures, resetFile, up, opened, turns,
                   requested, presaves, gone, unsettled>>

EndCycle ==
    /\ Free(Hygiene) /\ hygiene.at = "cycle" /\ hygiene.todo = {}
    /\ hygiene' = NoCycle
    /\ UNCHANGED <<sessions, file, saver, turn, heavy, failures, resetFile, up, counters, gone,
                   unsettled>>

\* The checker of health.py has summarised a session that is close to its end,
\* marks the entry if it is still there, and saves whether or not it is.
PreSave ==
    /\ Free(Checker) /\ opened > 0 /\ presaves < MaxPreSaves
    /\ presaves' = presaves + 1
    /\ BeginSave(Checker)
    /\ UNCHANGED <<sessions, file, turn, hygiene, heavy, failures, resetFile, up, opened, turns,
                   requested, mishaps, gone, unsettled>>

-----------------------------------------------------------------------------
(* Resets asked for in a file: the session manager, a Claude session with a   *)
(* shell, rewrites it whole; the main loop looks every ten seconds.          *)

AskOpen(k) ==
    /\ asking = None /\ requested < MaxRequested /\ k \notin TeamKey
    /\ requested' = requested + 1
    /\ asking' = k /\ pending' = Empty
    /\ owed' = owed \ {pending}
    /\ UNCHANGED <<sessions, file, saver, turn, hygiene, heavy, failures, main, up, opened,
                   turns, presaves, mishaps, gone, unsettled>>

\* Into a file that was removed meanwhile, it writes for nobody.
AskWrite ==
    /\ asking # None
    /\ asking' = None
    /\ pending' = IF pending = NoFile THEN NoFile ELSE asking
    /\ owed' = IF pending = Empty /\ main = None THEN owed \cup {asking} ELSE owed
    /\ UNCHANGED <<sessions, file, saver, turn, hygiene, heavy, failures, main, up, counters,
                   gone, unsettled>>

\* _process_pending_resets: what does not parse is removed.
ReadPending ==
    /\ Free(Main) /\ main = None /\ pending # NoFile
    /\ IF pending = Empty THEN pending' = NoFile /\ UNCHANGED main
       ELSE main' = pending /\ UNCHANGED pending
    /\ UNCHANGED <<sessions, file, saver, turn, hygiene, heavy, failures, asking, owed, up,
                   counters, gone, unsettled>>

ResetPending(k) ==
    /\ Free(Main) /\ main = k
    /\ ResetSession(Main, k) /\ Overtake(k)
    /\ main' = Main
    /\ owed' = owed \ {k}
    /\ UNCHANGED <<file, hygiene, heavy, failures, pending, asking, up, counters, unsettled>>

UnlinkPending ==
    /\ Free(Main) /\ main = Main
    /\ main' = None /\ pending' = NoFile
    /\ UNCHANGED <<sessions, file, saver, turn, hygiene, heavy, failures, asking, owed, up,
                   counters, gone, unsettled>>

-----------------------------------------------------------------------------
(* The process ends, with all its threads, and is started again.             *)

DaemonDies ==
    /\ up /\ mishaps < MaxMishaps /\ mishaps' = mishaps + 1
    /\ up' = FALSE
    /\ unsettled' = (unsettled \/ \E t \in Thread : Saving(t))
    /\ sessions' = NoSessions
    /\ saver' = [t \in Thread |-> NotSaving] /\ turn' = [k \in Key |-> NoTurn]
    /\ hygiene' = NoCycle /\ failures' = [k \in Key |-> 0] /\ main' = None
    /\ UNCHANGED <<file, heavy, pending, asking, owed, opened, turns, requested, presaves, gone>>

\* load_sessions: a file that does not parse is as good as none.
Restart ==
    /\ ~up /\ up' = TRUE
    /\ IF file \in {Empty, Mixed}
       THEN sessions' = NoSessions /\ unsettled' = TRUE /\ UNCHANGED gone
       ELSE /\ sessions' = file /\ UNCHANGED unsettled
            /\ gone' = IF unsettled
                       THEN gone \ {file[k].sid : k \in {j \in Key : file[j] # None}}
                       ELSE gone
    /\ UNCHANGED <<file, saver, turn, hygiene, heavy, failures, resetFile, counters>>

-----------------------------------------------------------------------------
SaveStep(t) == Copy(t) \/ Write(t)
SessionTurn(k) ==
    \/ StartTurn(k) \/ DropOldAccount(k) \/ EndTurn(k) \/ TurnFails(k)
    \/ TurnOverflows(k) \/ ResetCommand(k) \/ ResetAfterSummary(k)
HygieneStep(k) ==
    ResetStale(k) \/ Defer(k) \/ Summarise(k) \/ SummarySaved(k) \/ SummaryFails(k)

StoreNext ==
    \/ \E t \in Thread : SaveStep(t) \/ WriteFails(t)
    \/ \E k \in Key : SessionTurn(k) \/ HygieneStep(k) \/ SummaryHangs(k) \/ GrowsHeavy(k)
                      \/ AskOpen(k) \/ ResetPending(k)
    \/ Collect \/ EndCycle \/ PreSave
    \/ AskWrite \/ ReadPending \/ UnlinkPending
    \/ DaemonDies \/ Restart

StoreSpec == StoreInit /\ [][StoreNext]_storeVars

\* The hygiene thread comes round while no summary hangs, every save it begins goes on, and the
\* supervisor restarts the daemon.  Nothing is asked of the turns.
StoreFairness ==
    /\ WF_storeVars(SaveStep(Hygiene))
    /\ WF_storeVars(Collect \/ EndCycle \/ \E k \in Key : HygieneStep(k))
    /\ WF_storeVars(Restart)

StoreFairSpec == StoreSpec /\ StoreFairness

-----------------------------------------------------------------------------
(* Properties.                                                               *)

StoreTypeOK ==
    /\ sessions \in Store
    /\ file \in Store \cup {Empty, Mixed}
    /\ saver \in [Thread -> [step : {"no", "copy", "write"}, data : Store]]
    /\ turn \in [Key -> [at : {"idle", "moving", "run", "command"},
                         sid : 1..MaxSids \cup {None}, lost : BOOLEAN]]
    /\ hygiene \in [at : {"idle", "cycle", "hung"} \cup Key, todo : SUBSET Key,
                    stale : SUBSET Key, made : 0..Cardinality(Key)]
    /\ heavy \subseteq 1..MaxSids
    /\ failures \in [Key -> 0..MaxFailures - 1]
    /\ pending \in Key \cup {NoFile, Empty} /\ asking \in Key \cup {None}
    /\ main \in Key \cup {None, Main} /\ owed \subseteq Key
    /\ up \in BOOLEAN /\ unsettled \in BOOLEAN
    /\ opened \in 0..MaxSids /\ turns \in 0..MaxTurns /\ requested \in 0..MaxRequested
    /\ presaves \in 0..MaxPreSaves /\ mishaps \in 0..MaxMishaps
    /\ gone \subseteq 1..MaxSids

\* sessions.json says what g.sessions says as soon as no save is under way,
\* whatever threads saved and in whatever order, unless the last save began
\* while another was writing, or failed, or the process ended in one.
FileFollows ==
    up /\ ~unsettled /\ (\A t \in Thread : ~Saving(t)) => file = sessions

\* A session that was dropped (by a reset, a change of account, hygiene, a
\* request) is not resumed again: it comes back only with the turn that was
\* running in it when another thread dropped it, or from a file that was behind.
DroppedStaysDropped ==
    \A k \in Key : sessions[k] # None => sessions[k].sid \notin gone

\* A reset that was asked for while the main loop was elsewhere is in the file or
\* in the main loop's hands until it has been carried out, across crashes.
PendingHonoured == owed \subseteq {pending, main}

\* The three together: what a thread has done to the dictionary is neither undone
\* by a file that another thread wrote, nor lost in a crash, nor asked for in vain.
SessionsKept == FileFollows /\ DroppedStaysDropped /\ PendingHonoured

\* A session over a threshold does not stay: its context is saved and it is
\* dropped, or saving failed as often as it may - unless a summary hangs, which
\* stops the thread until the daemon is started again.  (It ends too if a turn
\* does it, or with the process.)
OversizedGoes == \A k \in Key : Oversized(k) ~> (~Oversized(k) \/ hygiene.at = "hung")
=============================================================================
