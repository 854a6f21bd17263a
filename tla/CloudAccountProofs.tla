-------------------------- MODULE CloudAccountProofs -------------------------
(***************************************************************************)
(* Proofs about a turn's surroundings in the cloud and its engine: CloudLogin  *)
(* for any number of threads and login sessions, CloudLimits for any number   *)
(* of projects and accounts, CloudUsage for any roster, EngineRun for any      *)
(* times and any output: its clocks, and the words it sends.                  *)
(* The inductive invariant of the logins says what each thread may count on     *)
(* about the session it has in hand, that the session held is the newest one, *)
(* that a session that can take a code knows its process, and that one that    *)
(* has failed with its process alive could not end it (another user's).       *)
(***************************************************************************)
EXTENDS CloudLogin, CloudLimits, CloudUsage, EngineRun, SequenceTheorems, TLAPS

\* The table never goes back to an older session.
Newest ==
    held # 0 =>
        /\ login[held].state # "unborn"
        /\ \A r \in Session : r > held => login[r].state = "unborn"

\* Sessions come into being one after the other.
Born ==
    \A r, s \in Session : r < s /\ login[r].state = "unborn" => login[s].state = "unborn"

\* What a session's state says of its process.
StateTrue ==
    \A s \in Session :
        /\ login[s].state \in {"unborn", "done"} => ~login[s].up
        /\ login[s].state = "failed" /\ login[s].up => foreign /\ login[s].pid /\ login[s].fd
        /\ login[s].state = "waiting" => login[s].pid

\* A session has one thread that starts it.
OneStarter ==
    \A t, u \in LoginThread :
        /\ handler[t].at \in {"forking", "starting"} /\ handler[u].at \in {"forking", "starting"}
        /\ handler[t].s = handler[u].s
        => t = u

\* What each thread may count on.
InHand(t) ==
    LET at == handler[t].at
        s == handler[t].s
        state == login[s].state
    IN /\ at \notin {"idle", "login", "other", "code"} => s # 0
       /\ at \in {"forking", "starting"} => state = "starting"
       /\ at = "forking" => ~login[s].up /\ ~login[s].pid /\ (s = held \/ s \in lost)
       /\ at = "starting" /\ ~contained => login[s].pid
       /\ at = "nolink" => state = "failed" /\ ~login[s].up
       /\ at \in {"queued", "submitting", "answered"} => state \in {"waiting", "done", "failed"}
       /\ at = "answered" /\ state = "waiting" => s # held

InHands == \A t \in LoginThread : InHand(t)

LoginInv ==
    /\ LoginTypeOK /\ Newest /\ Born /\ StateTrue /\ OneStarter /\ InHands
    /\ HeldTakesCode /\ NoStray

LoginRecord == [state : {"unborn", "starting", "waiting", "done", "failed"},
    pid : BOOLEAN, fd : BOOLEAN, up : BOOLEAN, silent : BOOLEAN, late : BOOLEAN]

\* A thread past the branches has a session in hand.
LEMMA HandInSession ==
    ASSUME LoginInv, NEW t \in LoginThread,
           handler[t].at \notin {"idle", "login", "other", "code"}
    PROVE  handler[t].s \in Session /\ Mine(t) \in LoginRecord
BY DEF LoginInv, LoginTypeOK, InHands, InHand, Mine, LoginRecord

\* What Message does: an expired session is ended, with its process if it knows that.
Taken(t, what, code, s) ==
    /\ handler[t].at = "idle"
    /\ handler' = [handler EXCEPT ![t] = [at |-> what, s |-> s, code |-> code]]
    /\ UNCHANGED <<contained, foreign, links>>
    /\ \/ s = held /\ UNCHANGED <<login, held, lost>>
       \/ /\ s = 0 /\ held # 0 /\ held' = 0 /\ Loses(held)
          /\ \E x \in LoginRecord :
                /\ login' = [login EXCEPT ![held] = x]
                /\ x.up => login[held].up /\ ~login[held].pid
                /\ x.state = login[held].state /\ x.pid = login[held].pid /\ x.late = login[held].late

\* A message that arrives is taken up in that way, whatever it says.
LEMMA MessageTaken ==
    ASSUME LoginInv, NEW t \in LoginThread, Message(t)
    PROVE  \E what \in {"login", "other", "code"}, code \in {0} \cup Session, s \in {0} \cup Session :
               Taken(t, what, code, s)
<1>1. PICK what \in {"login", "other", "code"}, code \in {0} \cup Session : Take(t, what, code)
  BY DEF Message, LoginInv, LoginTypeOK
<1>2. CASE held # 0 /\ login[held].late
  <2> DEFINE x == Terminated(login[held])
  <2>1. login[held] \in LoginRecord
    BY <1>2 DEF LoginInv, LoginTypeOK, LoginRecord
  <2>2. /\ x \in LoginRecord /\ (x.up => login[held].up /\ ~login[held].pid)
        /\ x.state = login[held].state /\ x.pid = login[held].pid /\ x.late = login[held].late
    BY <2>1 DEF Terminated, LoginRecord
  <2>3. login' = [login EXCEPT ![held] = x] /\ held' = 0 /\ Loses(held)
    BY <1>1, <1>2 DEF Take, Deleted
  <2> HIDE DEF x
  <2>4. Taken(t, what, code, 0)
    BY <1>1, <1>2, <2>2, <2>3 DEF Take, Taken
  <2>5. QED BY <2>4
<1>3. CASE ~(held # 0 /\ login[held].late)
  <2>1. Taken(t, what, code, held)
    BY <1>1, <1>3 DEF Take, Taken
  <2>2. QED BY <2>1 DEF LoginInv, LoginTypeOK
<1>4. QED BY <1>2, <1>3

\* What BeginLogin does to the sessions: the one held is ended, if it knows its process.
Begun(t, s) ==
    /\ handler[t].at = "login" /\ login[s].state = "unborn"
    /\ handler' = [handler EXCEPT ![t] = [at |-> "forking", s |-> s, code |-> 0]]
    /\ held' = s /\ UNCHANGED <<contained, foreign, links>>
    /\ IF held = 0 THEN lost' = lost ELSE Loses(held)
    /\ \A r \in Session : r > s => login[r].state = "unborn"
    /\ \A r \in Session : r < s => login[r].state # "unborn"
    /\ login' \in [Session -> LoginRecord]
    /\ login'[s].state = "starting" /\ ~login'[s].up /\ ~login'[s].pid /\ ~login'[s].late
    /\ \A r \in Session \ {s} :
          /\ login'[r].state = login[r].state /\ login'[r].pid = login[r].pid
          /\ login'[r].late = login[r].late
          /\ login'[r].up => login[r].up /\ (r = held => ~login[r].pid)
          /\ r # held => login'[r] = login[r]

\* start() puts a session of its own into the table, in that way.
LEMMA LoginBegun ==
    ASSUME LoginInv, NEW t \in LoginThread, BeginLogin(t)
    PROVE  \E s \in Session : Begun(t, s)
<1>1. PICK s \in Session :
        /\ login[s].state = "unborn"
        /\ \A r \in Session : r < s => login[r].state # "unborn"
        /\ login' = [r \in Session |->
            IF r = s THEN [Unborn EXCEPT !.state = "starting"]
            ELSE IF r = held THEN ReplacedEnded(r) ELSE login[r]]
        /\ held' = s
        /\ handler' = [handler EXCEPT ![t] = [at |-> "forking", s |-> s, code |-> 0]]
  BY DEF BeginLogin
<1> DEFINE y == [Unborn EXCEPT !.state = "starting"]
<1>2. y \in LoginRecord /\ y.state = "starting" /\ ~y.up /\ ~y.pid /\ ~y.late
  BY DEF Unborn, LoginRecord
<1>3. \A r \in Session :
        /\ ReplacedEnded(r) \in LoginRecord
        /\ ReplacedEnded(r).state = login[r].state /\ ReplacedEnded(r).pid = login[r].pid
        /\ ReplacedEnded(r).late = login[r].late
        /\ ReplacedEnded(r).up => login[r].up /\ ~login[r].pid
  <2> SUFFICES ASSUME NEW r \in Session
      PROVE  /\ ReplacedEnded(r) \in LoginRecord
             /\ ReplacedEnded(r).state = login[r].state /\ ReplacedEnded(r).pid = login[r].pid
             /\ ReplacedEnded(r).late = login[r].late
             /\ ReplacedEnded(r).up => login[r].up /\ ~login[r].pid
    OBVIOUS
  <2>1. login[r] \in LoginRecord
    BY DEF LoginInv, LoginTypeOK, LoginRecord
  <2>2. QED BY <2>1 DEF ReplacedEnded, Terminated, LoginRecord
<1>4. \A r \in Session : r > s => login[r].state = "unborn"
  BY <1>1 DEF LoginInv, Born
<1>5. login' \in [Session -> LoginRecord]
  BY <1>1, <1>2, <1>3 DEF LoginRecord, LoginInv, LoginTypeOK
<1>6. /\ login'[s].state = "starting" /\ ~login'[s].up /\ ~login'[s].pid /\ ~login'[s].late
  BY <1>1, <1>2
<1>7. \A r \in Session \ {s} :
          /\ login'[r].state = login[r].state /\ login'[r].pid = login[r].pid
          /\ login'[r].late = login[r].late
          /\ login'[r].up => login[r].up /\ (r = held => ~login[r].pid)
          /\ r # held => login'[r] = login[r]
  BY <1>1, <1>3
<1>8. QED BY <1>1, <1>4, <1>5, <1>6, <1>7 DEF Begun, BeginLogin

\* What the end of a login does: the state says so, and the process is over.
Over(t) ==
    /\ handler[t].at = "submitting" /\ handler' = [handler EXCEPT ![t].at = "answered"]
    /\ UNCHANGED <<contained, foreign, held, links, lost>>
    /\ \E x \in LoginRecord :
          /\ login' = [login EXCEPT ![handler[t].s] = x]
          /\ x.state \in {"done", "failed"} /\ ~x.up /\ (x.state = "done" => Mine(t).up)
          /\ x.pid = Mine(t).pid /\ x.late = Mine(t).late

\* A handed-in code ends its session in that way, taken or unanswered.
LEMMA LoginOver ==
    ASSUME LoginInv, NEW t \in LoginThread, CodeTaken(t) \/ CodeUnanswered(t)
    PROVE  Over(t)
<1>1. handler[t].at = "submitting" /\ Mine(t) \in LoginRecord /\ handler[t].s \in Session
  BY HandInSession DEF CodeTaken, CodeUnanswered
<1>2. CASE CodeTaken(t)
  <2>1. PICK v \in {"done", "failed"} :
          /\ login' = [login EXCEPT ![handler[t].s] = [Mine(t) EXCEPT !.state = v, !.up = FALSE, !.fd = FALSE]]
          /\ v = "done" => Mine(t).up
    BY <1>2 DEF CodeTaken, Becomes
  <2> DEFINE x == [Mine(t) EXCEPT !.state = v, !.up = FALSE, !.fd = FALSE]
  <2>2. /\ x \in LoginRecord /\ x.state = v /\ ~x.up
        /\ x.pid = Mine(t).pid /\ x.late = Mine(t).late
    BY <1>1 DEF LoginRecord
  <2>3. login' = [login EXCEPT ![handler[t].s] = x]
    BY <2>1
  <2> HIDE DEF x
  <2>4. QED BY <1>1, <1>2, <2>1, <2>2, <2>3 DEF CodeTaken, Over, Goes
<1>3. CASE CodeUnanswered(t)
  <2> DEFINE x == [Terminated(Mine(t)) EXCEPT !.state = "failed"]
  <2>1. Mine(t).up => Mine(t).pid
    BY <1>1 DEF LoginInv, InHands, InHand, StateTrue, Mine
  <2>2. x = [Mine(t) EXCEPT !.state = "failed", !.up = FALSE, !.fd = FALSE]
    BY <1>1, <2>1 DEF Terminated, LoginRecord
  <2>3. x \in LoginRecord /\ x.state = "failed" /\ ~x.up /\ x.pid = Mine(t).pid /\ x.late = Mine(t).late
    BY <1>1, <2>2 DEF LoginRecord
  <2> HIDE DEF x
  <2>4. login' = [login EXCEPT ![handler[t].s] = x]
    BY <1>3 DEF CodeUnanswered, Becomes, x
  <2>5. QED BY <1>1, <1>3, <2>3, <2>4 DEF CodeUnanswered, Over, Goes
<1>4. QED BY <1>2, <1>3

\* Every step keeps the types.
LEMMA LoginTypeStep == LoginInv /\ [LoginNext]_loginVars => LoginTypeOK'
<1> SUFFICES ASSUME LoginInv, [LoginNext]_loginVars PROVE LoginTypeOK'
  OBVIOUS
<1> USE DEF LoginInv, LoginTypeOK, Idle, Places
<1>1. ASSUME NEW t \in LoginThread, Message(t) PROVE LoginTypeOK'
  <2>1. PICK what \in {"login", "other", "code"}, code \in {0} \cup Session, s \in {0} \cup Session :
          Taken(t, what, code, s)
    BY <1>1, MessageTaken
  <2>2. QED BY <2>1 DEF Taken, Loses, LoginRecord
<1>2. ASSUME NEW t \in LoginThread, Otherwise(t) PROVE LoginTypeOK'
  BY <1>2 DEF Otherwise, Rests, Awaits
<1>3. ASSUME NEW t \in LoginThread, BeginLogin(t) PROVE LoginTypeOK'
  <2>1. PICK s \in Session : Begun(t, s)
    BY <1>3, LoginBegun
  <2>2. QED BY <2>1 DEF Begun, Loses, LoginRecord
<1>4. ASSUME NEW t \in LoginThread, ForkOnHost(t) PROVE LoginTypeOK'
  BY ZenonT(40), <1>4 DEF ForkOnHost, Goes, Becomes, Mine
<1>5. ASSUME NEW t \in LoginThread, ForkInContainer(t) PROVE LoginTypeOK'
  BY ZenonT(40), <1>5 DEF ForkInContainer, Goes, Becomes, Mine
<1>6. ASSUME NEW t \in LoginThread, NoContainer(t) PROVE LoginTypeOK'
  BY ZenonT(40), <1>6 DEF NoContainer, Goes, Becomes, Mine
<1>7. ASSUME NEW t \in LoginThread, LinkSeen(t) PROVE LoginTypeOK'
  <2>1. handler[t].s \in Session /\ Mine(t) \in LoginRecord
    BY <1>7, HandInSession DEF LinkSeen
  <2>2. login' \in [Session -> LoginRecord]
    BY <1>7, <2>1 DEF LinkSeen, LinkComplete, Told, Becomes, Mine, Rests, LoginRecord
  <2>3. QED BY <1>7, <2>1, <2>2 DEF LinkSeen, LinkComplete, Told, Becomes, Mine, Rests, LoginRecord
<1>8. ASSUME NEW t \in LoginThread, LinkReturned(t) PROVE LoginTypeOK'
  <2>1. handler[t].s \in Session /\ Mine(t) \in LoginRecord
    BY <1>8, HandInSession DEF LinkReturned
  <2>2. login' \in [Session -> LoginRecord]
    BY <1>8, <2>1 DEF LinkReturned, LinkComplete, Told, Becomes, Mine, Rests, LoginRecord
  <2>3. QED BY <1>8, <2>1, <2>2 DEF LinkReturned, LinkComplete, Told, Becomes, Mine, Rests, LoginRecord
<1>9. ASSUME NEW t \in LoginThread, StartBroken(t) PROVE LoginTypeOK'
  BY <1>9 DEF StartBroken, Rests, Mine
<1>10. ASSUME NEW t \in LoginThread, NoLink(t) PROVE LoginTypeOK'
  <2>1. handler[t].s \in Session /\ Mine(t) \in LoginRecord
    BY <1>10, HandInSession DEF NoLink
  <2>2. login' \in [Session -> LoginRecord]
    BY <1>10, <2>1 DEF NoLink, Becomes, Mine, GivenUp, Goes, LoginRecord
  <2>3. QED BY <1>10, <2>1, <2>2 DEF NoLink, Becomes, Mine, GivenUp, Goes, LoginRecord
<1>11. ASSUME NEW t \in LoginThread, Apologise(t) PROVE LoginTypeOK'
  BY <1>11 DEF Apologise, PopFor, Rests
<1>12. ASSUME NEW t \in LoginThread, Submit(t) PROVE LoginTypeOK'
  BY SMTT(30), <1>12 DEF Submit, Goes, Awaits
<1>13. ASSUME NEW t \in LoginThread, Written(t) PROVE LoginTypeOK'
  BY <1>13 DEF Written, Goes, Mine, Submitting
<1>14. ASSUME NEW t \in LoginThread, CodeTaken(t) PROVE LoginTypeOK'
  <2>1. Over(t) /\ handler[t].s \in Session
    BY <1>14, LoginOver, HandInSession DEF Over
  <2>2. PICK x \in LoginRecord :
          /\ login' = [login EXCEPT ![handler[t].s] = x]
          /\ x.state \in {"done", "failed"} /\ ~x.up /\ (x.state = "done" => Mine(t).up)
          /\ x.pid = Mine(t).pid /\ x.late = Mine(t).late
    BY <2>1 DEF Over
  <2>3. login \in [Session -> LoginRecord]
    BY DEF LoginRecord
  <2>4. login' \in [Session -> LoginRecord]
    BY <2>1, <2>2, <2>3
  <2>5. handler' \in [LoginThread -> [at : Places, s : {0} \cup Session, code : {0} \cup Session]]
    BY <2>1 DEF Over
  <2>6. contained' \in BOOLEAN /\ foreign' \in BOOLEAN /\ held' \in {0} \cup Session
        /\ links' \subseteq Session /\ lost' \subseteq Session
    BY <2>1 DEF Over
  <2>7. QED BY <2>4, <2>5, <2>6 DEF LoginRecord
<1>15. ASSUME NEW t \in LoginThread, CodeUnanswered(t) PROVE LoginTypeOK'
  <2>1. Over(t) /\ handler[t].s \in Session
    BY <1>15, LoginOver, HandInSession DEF Over
  <2>2. PICK x \in LoginRecord :
          /\ login' = [login EXCEPT ![handler[t].s] = x]
          /\ x.state \in {"done", "failed"} /\ ~x.up /\ (x.state = "done" => Mine(t).up)
          /\ x.pid = Mine(t).pid /\ x.late = Mine(t).late
    BY <2>1 DEF Over
  <2>3. login \in [Session -> LoginRecord]
    BY DEF LoginRecord
  <2>4. login' \in [Session -> LoginRecord]
    BY <2>1, <2>2, <2>3
  <2>5. handler' \in [LoginThread -> [at : Places, s : {0} \cup Session, code : {0} \cup Session]]
    BY <2>1 DEF Over
  <2>6. contained' \in BOOLEAN /\ foreign' \in BOOLEAN /\ held' \in {0} \cup Session
        /\ links' \subseteq Session /\ lost' \subseteq Session
    BY <2>1 DEF Over
  <2>7. QED BY <2>4, <2>5, <2>6 DEF LoginRecord
<1>16. ASSUME NEW t \in LoginThread, SubmitBroken(t) PROVE LoginTypeOK'
  BY <1>16 DEF SubmitBroken, Mine, Rests
<1>17. ASSUME NEW t \in LoginThread, Answer(t) PROVE LoginTypeOK'
  BY <1>17 DEF Answer, PopFor, Rests
<1>18. ASSUME NEW t \in LoginThread, NEW r \in Session, LinkStolen(t, r) PROVE LoginTypeOK'
  <2>1. handler[t].s \in Session /\ login \in [Session -> LoginRecord]
    BY <1>18, HandInSession DEF LinkStolen, LoginRecord
  <2>2. [login EXCEPT ![handler[t].s].state = "waiting"] \in [Session -> LoginRecord]
    BY <2>1 DEF LoginRecord
  <2> DEFINE f == [login EXCEPT ![handler[t].s].state = "waiting"]
  <2>3. login' = [f EXCEPT ![r].silent = TRUE]
    BY <1>18 DEF LinkStolen
  <2>4. f \in [Session -> LoginRecord]
    BY <2>2
  <2> HIDE DEF f
  <2>5. login' \in [Session -> LoginRecord]
    BY <2>3, <2>4 DEF LoginRecord
  <2>6. QED BY <1>18, <2>1, <2>5 DEF LinkStolen, Rests, LoginRecord
<1>19. ASSUME NEW s \in Session, GrowsLate(s) PROVE LoginTypeOK'
  BY <1>19 DEF GrowsLate
<1>20. ASSUME NEW t \in LoginThread, BeginRaises(t) PROVE LoginTypeOK'
  BY <1>20 DEF BeginRaises, Rests
<1>21. ASSUME NEW t \in LoginThread, NoLinkRaises(t) PROVE LoginTypeOK'
  <2>1. handler[t].s \in Session /\ Mine(t) \in LoginRecord
    BY <1>21, HandInSession DEF NoLinkRaises
  <2>2. login' \in [Session -> LoginRecord]
    <3>1. PICK ended \in BOOLEAN :
            login' = [login EXCEPT ![handler[t].s] = [Mine(t) EXCEPT !.up = @ /\ ~ended]]
      BY <1>21 DEF NoLinkRaises, Becomes
    <3>2. [Mine(t) EXCEPT !.up = @ /\ ~ended] \in LoginRecord
      BY <2>1 DEF LoginRecord
    <3>3. login \in [Session -> LoginRecord]
      BY DEF LoginRecord
    <3>4. QED BY <2>1, <3>1, <3>2, <3>3
  <2>3. handler' \in [LoginThread -> [at : Places, s : {0} \cup Session, code : {0} \cup Session]]
    BY <1>21 DEF NoLinkRaises, Rests
  <2>4. contained' \in BOOLEAN /\ foreign' \in BOOLEAN /\ held' \in {0} \cup Session
        /\ links' \subseteq Session /\ lost' \subseteq Session
    BY <1>21 DEF NoLinkRaises
  <2>5. QED BY <2>2, <2>3, <2>4 DEF LoginRecord
<1>22. ASSUME NEW t \in LoginThread, CodeUnansweredRaises(t) PROVE LoginTypeOK'
  <2>1. handler[t].s \in Session /\ Mine(t) \in LoginRecord
    BY <1>22, HandInSession DEF CodeUnansweredRaises
  <2>2. login' \in [Session -> LoginRecord]
    BY <1>22, <2>1 DEF CodeUnansweredRaises, Becomes, Mine, LoginRecord
  <2>3. handler' \in [LoginThread -> [at : Places, s : {0} \cup Session, code : {0} \cup Session]]
    BY <1>22 DEF CodeUnansweredRaises, Rests
  <2>4. contained' \in BOOLEAN /\ foreign' \in BOOLEAN /\ held' \in {0} \cup Session
        /\ links' \subseteq Session /\ lost' \subseteq Session
    BY <1>22 DEF CodeUnansweredRaises
  <2>5. QED BY <2>2, <2>3, <2>4 DEF LoginRecord
<1>23. CASE UNCHANGED loginVars
  BY <1>23 DEF loginVars
<1>24. QED
  BY <1>1, <1>2, <1>3, <1>4, <1>5, <1>6, <1>7, <1>8, <1>9, <1>10, <1>11, <1>12, <1>13,
     <1>14, <1>15, <1>16, <1>17, <1>18, <1>19, <1>20, <1>21, <1>22, <1>23 DEF LoginNext

\* A session comes after those before it.
LEMMA NewestStep == LoginInv /\ [LoginNext]_loginVars => Newest'
<1> SUFFICES ASSUME LoginInv, [LoginNext]_loginVars PROVE Newest'
  OBVIOUS
<1> USE DEF LoginInv, LoginTypeOK, Session, Newest, InHands, InHand
<1>1. ASSUME NEW t \in LoginThread, Message(t) PROVE Newest'
  <2>1. PICK what \in {"login", "other", "code"}, code \in {0} \cup Session, s \in {0} \cup Session :
          Taken(t, what, code, s)
    BY <1>1, MessageTaken
  <2>2. QED BY <2>1 DEF Taken, Loses, LoginRecord
<1>2. ASSUME NEW t \in LoginThread, Otherwise(t) PROVE Newest'
  BY <1>2 DEF Otherwise, Rests, Awaits
<1>3. ASSUME NEW t \in LoginThread, BeginLogin(t) PROVE Newest'
  <2>1. PICK s \in Session : Begun(t, s)
    BY <1>3, LoginBegun
  <2>2. QED BY <2>1 DEF Begun, Loses, LoginRecord
<1>4. ASSUME NEW t \in LoginThread, ForkOnHost(t) PROVE Newest'
  BY <1>4 DEF ForkOnHost, Goes, Becomes, Mine
<1>5. ASSUME NEW t \in LoginThread, ForkInContainer(t) PROVE Newest'
  BY <1>5 DEF ForkInContainer, Goes, Becomes, Mine
<1>6. ASSUME NEW t \in LoginThread, NoContainer(t) PROVE Newest'
  BY <1>6 DEF NoContainer, Goes, Becomes, Mine
<1>7. ASSUME NEW t \in LoginThread, LinkSeen(t) PROVE Newest'
  BY <1>7 DEF LinkSeen, LinkComplete, Told, Becomes, Mine, Rests
<1>8. ASSUME NEW t \in LoginThread, LinkReturned(t) PROVE Newest'
  BY <1>8 DEF LinkReturned, LinkComplete, Told, Becomes, Mine, Rests
<1>9. ASSUME NEW t \in LoginThread, StartBroken(t) PROVE Newest'
  BY <1>9 DEF StartBroken, Rests, Mine
<1>10. ASSUME NEW t \in LoginThread, NoLink(t) PROVE Newest'
  BY <1>10 DEF NoLink, Becomes, Mine, GivenUp, Goes
<1>11. ASSUME NEW t \in LoginThread, Apologise(t) PROVE Newest'
  BY <1>11 DEF Apologise, PopFor, Rests
<1>12. ASSUME NEW t \in LoginThread, Submit(t) PROVE Newest'
  BY <1>12 DEF Submit, Goes, Awaits
<1>13. ASSUME NEW t \in LoginThread, Written(t) PROVE Newest'
  BY <1>13 DEF Written, Goes, Mine, Submitting
<1>14. ASSUME NEW t \in LoginThread, CodeTaken(t) PROVE Newest'
  <2>1. Over(t) /\ handler[t].s \in Session
    BY <1>14, LoginOver, HandInSession DEF Over
  <2>2. PICK x \in LoginRecord :
          /\ login' = [login EXCEPT ![handler[t].s] = x]
          /\ x.state \in {"done", "failed"} /\ ~x.up /\ (x.state = "done" => Mine(t).up)
          /\ x.pid = Mine(t).pid /\ x.late = Mine(t).late
    BY <2>1 DEF Over
  <2>3. QED BY <2>1, <2>2 DEF Over, LoginRecord, Mine
<1>15. ASSUME NEW t \in LoginThread, CodeUnanswered(t) PROVE Newest'
  <2>1. Over(t) /\ handler[t].s \in Session
    BY <1>15, LoginOver, HandInSession DEF Over
  <2>2. PICK x \in LoginRecord :
          /\ login' = [login EXCEPT ![handler[t].s] = x]
          /\ x.state \in {"done", "failed"} /\ ~x.up /\ (x.state = "done" => Mine(t).up)
          /\ x.pid = Mine(t).pid /\ x.late = Mine(t).late
    BY <2>1 DEF Over
  <2>3. QED BY <2>1, <2>2 DEF Over, LoginRecord, Mine
<1>16. ASSUME NEW t \in LoginThread, SubmitBroken(t) PROVE Newest'
  BY <1>16 DEF SubmitBroken, Mine, Rests
<1>17. ASSUME NEW t \in LoginThread, Answer(t) PROVE Newest'
  BY <1>17 DEF Answer, PopFor, Rests
<1>18. ASSUME NEW t \in LoginThread, NEW r \in Session, LinkStolen(t, r) PROVE Newest'
  BY <1>18 DEF LinkStolen, Mine, Rests
<1>19. ASSUME NEW s \in Session, GrowsLate(s) PROVE Newest'
  BY <1>19 DEF GrowsLate
<1>20. ASSUME NEW t \in LoginThread, BeginRaises(t) PROVE Newest'
  BY <1>20 DEF BeginRaises, Rests
<1>21. ASSUME NEW t \in LoginThread, NoLinkRaises(t) PROVE Newest'
  BY <1>21 DEF NoLinkRaises, Becomes, Mine, Rests
<1>22. ASSUME NEW t \in LoginThread, CodeUnansweredRaises(t) PROVE Newest'
  BY <1>22 DEF CodeUnansweredRaises, Becomes, Mine, Rests
<1>23. CASE UNCHANGED loginVars
  BY <1>23 DEF loginVars
<1>24. QED
  BY <1>1, <1>2, <1>3, <1>4, <1>5, <1>6, <1>7, <1>8, <1>9, <1>10, <1>11, <1>12, <1>13,
     <1>14, <1>15, <1>16, <1>17, <1>18, <1>19, <1>20, <1>21, <1>22, <1>23 DEF LoginNext

\* Sessions are born in turn.
LEMMA BornStep == LoginInv /\ [LoginNext]_loginVars => Born'
<1> SUFFICES ASSUME LoginInv, [LoginNext]_loginVars PROVE Born'
  OBVIOUS
<1> USE DEF LoginInv, LoginTypeOK, Session, Born, InHands, InHand
<1>1. ASSUME NEW t \in LoginThread, Message(t) PROVE Born'
  <2>1. PICK what \in {"login", "other", "code"}, code \in {0} \cup Session, s \in {0} \cup Session :
          Taken(t, what, code, s)
    BY <1>1, MessageTaken
  <2>2. \A r \in Session : login'[r].state = login[r].state
    BY ZenonT(40), <2>1 DEF Taken, Loses, LoginRecord
  <2>3. QED BY <2>2
<1>2. ASSUME NEW t \in LoginThread, Otherwise(t) PROVE Born'
  BY <1>2 DEF Otherwise, Rests, Awaits
<1>3. ASSUME NEW t \in LoginThread, BeginLogin(t) PROVE Born'
  <2>1. PICK s \in Session : Begun(t, s)
    BY <1>3, LoginBegun
  <2>2. SUFFICES ASSUME NEW q \in Session, NEW r \in Session, q < r,
                        login'[q].state = "unborn", login'[r].state # "unborn"
                 PROVE  FALSE
    OBVIOUS
  <2>3. q # s
    BY <2>1, <2>2 DEF Begun
  <2>4. login[q].state = "unborn" /\ login[r].state = "unborn"
    BY <2>1, <2>2, <2>3 DEF Begun
  <2>5. r = s
    BY <2>1, <2>2, <2>4 DEF Begun
  <2>6. FALSE
    BY <2>1, <2>2, <2>4, <2>5 DEF Begun
  <2>7. QED BY <2>6
<1>4. ASSUME NEW t \in LoginThread, ForkOnHost(t) PROVE Born'
  BY <1>4 DEF ForkOnHost, Goes, Becomes, Mine
<1>5. ASSUME NEW t \in LoginThread, ForkInContainer(t) PROVE Born'
  BY <1>5 DEF ForkInContainer, Goes, Becomes, Mine
<1>6. ASSUME NEW t \in LoginThread, NoContainer(t) PROVE Born'
  BY <1>6 DEF NoContainer, Goes, Becomes, Mine
<1>7. ASSUME NEW t \in LoginThread, LinkSeen(t) PROVE Born'
  BY <1>7 DEF LinkSeen, LinkComplete, Told, Becomes, Mine, Rests
<1>8. ASSUME NEW t \in LoginThread, LinkReturned(t) PROVE Born'
  BY <1>8 DEF LinkReturned, LinkComplete, Told, Becomes, Mine, Rests
<1>9. ASSUME NEW t \in LoginThread, StartBroken(t) PROVE Born'
  BY <1>9 DEF StartBroken, Rests, Mine
<1>10. ASSUME NEW t \in LoginThread, NoLink(t) PROVE Born'
  BY <1>10 DEF NoLink, Becomes, Mine, GivenUp, Goes
<1>11. ASSUME NEW t \in LoginThread, Apologise(t) PROVE Born'
  BY <1>11 DEF Apologise, PopFor, Rests
<1>12. ASSUME NEW t \in LoginThread, Submit(t) PROVE Born'
  BY <1>12 DEF Submit, Goes, Awaits
<1>13. ASSUME NEW t \in LoginThread, Written(t) PROVE Born'
  BY <1>13 DEF Written, Goes, Mine, Submitting
<1>14. ASSUME NEW t \in LoginThread, CodeTaken(t) PROVE Born'
  <2>1. Over(t) /\ handler[t].s \in Session
    BY <1>14, LoginOver, HandInSession DEF Over
  <2>2. PICK x \in LoginRecord :
          /\ login' = [login EXCEPT ![handler[t].s] = x]
          /\ x.state \in {"done", "failed"} /\ ~x.up /\ (x.state = "done" => Mine(t).up)
          /\ x.pid = Mine(t).pid /\ x.late = Mine(t).late
    BY <2>1 DEF Over
  <2>3. QED BY <2>1, <2>2 DEF Over, LoginRecord, Mine
<1>15. ASSUME NEW t \in LoginThread, CodeUnanswered(t) PROVE Born'
  <2>1. Over(t) /\ handler[t].s \in Session
    BY <1>15, LoginOver, HandInSession DEF Over
  <2>2. PICK x \in LoginRecord :
          /\ login' = [login EXCEPT ![handler[t].s] = x]
          /\ x.state \in {"done", "failed"} /\ ~x.up /\ (x.state = "done" => Mine(t).up)
          /\ x.pid = Mine(t).pid /\ x.late = Mine(t).late
    BY <2>1 DEF Over
  <2>3. QED BY <2>1, <2>2 DEF Over, LoginRecord, Mine
<1>16. ASSUME NEW t \in LoginThread, SubmitBroken(t) PROVE Born'
  BY <1>16 DEF SubmitBroken, Mine, Rests
<1>17. ASSUME NEW t \in LoginThread, Answer(t) PROVE Born'
  BY <1>17 DEF Answer, PopFor, Rests
<1>18. ASSUME NEW t \in LoginThread, NEW r \in Session, LinkStolen(t, r) PROVE Born'
  BY <1>18 DEF LinkStolen, Mine, Rests
<1>19. ASSUME NEW s \in Session, GrowsLate(s) PROVE Born'
  BY <1>19 DEF GrowsLate
<1>20. ASSUME NEW t \in LoginThread, BeginRaises(t) PROVE Born'
  BY <1>20 DEF BeginRaises, Rests
<1>21. ASSUME NEW t \in LoginThread, NoLinkRaises(t) PROVE Born'
  BY <1>21 DEF NoLinkRaises, Becomes, Mine, Rests
<1>22. ASSUME NEW t \in LoginThread, CodeUnansweredRaises(t) PROVE Born'
  BY <1>22 DEF CodeUnansweredRaises, Becomes, Mine, Rests
<1>23. CASE UNCHANGED loginVars
  BY <1>23 DEF loginVars
<1>24. QED
  BY <1>1, <1>2, <1>3, <1>4, <1>5, <1>6, <1>7, <1>8, <1>9, <1>10, <1>11, <1>12, <1>13,
     <1>14, <1>15, <1>16, <1>17, <1>18, <1>19, <1>20, <1>21, <1>22, <1>23 DEF LoginNext

\* A session's process ends before its state says so.
LEMMA StateStep == LoginInv /\ [LoginNext]_loginVars => StateTrue'
<1> SUFFICES ASSUME LoginInv, [LoginNext]_loginVars PROVE StateTrue'
  OBVIOUS
<1> USE DEF LoginInv, LoginTypeOK, Session, StateTrue, InHands, InHand
<1>1. ASSUME NEW t \in LoginThread, Message(t) PROVE StateTrue'
  <2>1. PICK what \in {"login", "other", "code"}, code \in {0} \cup Session, s \in {0} \cup Session :
          Taken(t, what, code, s)
    BY <1>1, MessageTaken
  <2>2. QED BY ZenonT(40), <2>1 DEF Taken, Loses, LoginRecord
<1>2. ASSUME NEW t \in LoginThread, Otherwise(t) PROVE StateTrue'
  BY <1>2 DEF Otherwise, Rests, Awaits
<1>3. ASSUME NEW t \in LoginThread, BeginLogin(t) PROVE StateTrue'
  <2>1. PICK s \in Session : Begun(t, s)
    BY <1>3, LoginBegun
  <2>2. QED BY <2>1 DEF Begun, Loses, LoginRecord
<1>4. ASSUME NEW t \in LoginThread, ForkOnHost(t) PROVE StateTrue'
  BY <1>4 DEF ForkOnHost, Goes, Becomes, Mine
<1>5. ASSUME NEW t \in LoginThread, ForkInContainer(t) PROVE StateTrue'
  BY <1>5 DEF ForkInContainer, Goes, Becomes, Mine
<1>6. ASSUME NEW t \in LoginThread, NoContainer(t) PROVE StateTrue'
  BY <1>6 DEF NoContainer, Goes, Becomes, Mine
<1>7. ASSUME NEW t \in LoginThread, LinkSeen(t) PROVE StateTrue'
  BY <1>7 DEF LinkSeen, LinkComplete, Told, Becomes, Mine, Rests
<1>8. ASSUME NEW t \in LoginThread, LinkReturned(t) PROVE StateTrue'
  BY <1>8 DEF LinkReturned, LinkComplete, Told, Becomes, Mine, Rests
<1>9. ASSUME NEW t \in LoginThread, StartBroken(t) PROVE StateTrue'
  BY <1>9 DEF StartBroken, Rests, Mine
<1>10. ASSUME NEW t \in LoginThread, NoLink(t) PROVE StateTrue'
  BY <1>10 DEF NoLink, Becomes, Mine, GivenUp, Goes
<1>11. ASSUME NEW t \in LoginThread, Apologise(t) PROVE StateTrue'
  BY <1>11 DEF Apologise, PopFor, Rests
<1>12. ASSUME NEW t \in LoginThread, Submit(t) PROVE StateTrue'
  BY <1>12 DEF Submit, Goes, Awaits
<1>13. ASSUME NEW t \in LoginThread, Written(t) PROVE StateTrue'
  BY <1>13 DEF Written, Goes, Mine, Submitting
<1>14. ASSUME NEW t \in LoginThread, CodeTaken(t) PROVE StateTrue'
  <2>1. Over(t) /\ handler[t].s \in Session
    BY <1>14, LoginOver, HandInSession DEF Over
  <2>2. PICK x \in LoginRecord :
          /\ login' = [login EXCEPT ![handler[t].s] = x]
          /\ x.state \in {"done", "failed"} /\ ~x.up /\ (x.state = "done" => Mine(t).up)
          /\ x.pid = Mine(t).pid /\ x.late = Mine(t).late
    BY <2>1 DEF Over
  <2>3. QED BY <2>1, <2>2 DEF Over, LoginRecord, Mine
<1>15. ASSUME NEW t \in LoginThread, CodeUnanswered(t) PROVE StateTrue'
  <2>1. Over(t) /\ handler[t].s \in Session
    BY <1>15, LoginOver, HandInSession DEF Over
  <2>2. PICK x \in LoginRecord :
          /\ login' = [login EXCEPT ![handler[t].s] = x]
          /\ x.state \in {"done", "failed"} /\ ~x.up /\ (x.state = "done" => Mine(t).up)
          /\ x.pid = Mine(t).pid /\ x.late = Mine(t).late
    BY <2>1 DEF Over
  <2>3. QED BY <2>1, <2>2 DEF Over, LoginRecord, Mine
<1>16. ASSUME NEW t \in LoginThread, SubmitBroken(t) PROVE StateTrue'
  BY <1>16 DEF SubmitBroken, Mine, Rests
<1>17. ASSUME NEW t \in LoginThread, Answer(t) PROVE StateTrue'
  BY <1>17 DEF Answer, PopFor, Rests
<1>18. ASSUME NEW t \in LoginThread, NEW r \in Session, LinkStolen(t, r) PROVE StateTrue'
  BY <1>18 DEF LinkStolen, Mine, Rests
<1>19. ASSUME NEW s \in Session, GrowsLate(s) PROVE StateTrue'
  BY <1>19 DEF GrowsLate
<1>20. ASSUME NEW t \in LoginThread, BeginRaises(t) PROVE StateTrue'
  BY <1>20 DEF BeginRaises, Rests
<1>21. ASSUME NEW t \in LoginThread, NoLinkRaises(t) PROVE StateTrue'
  BY <1>21 DEF NoLinkRaises, Becomes, Mine, Rests
<1>22. ASSUME NEW t \in LoginThread, CodeUnansweredRaises(t) PROVE StateTrue'
  BY <1>22 DEF CodeUnansweredRaises, Becomes, Mine, Rests
<1>23. CASE UNCHANGED loginVars
  BY <1>23 DEF loginVars
<1>24. QED
  BY <1>1, <1>2, <1>3, <1>4, <1>5, <1>6, <1>7, <1>8, <1>9, <1>10, <1>11, <1>12, <1>13,
     <1>14, <1>15, <1>16, <1>17, <1>18, <1>19, <1>20, <1>21, <1>22, <1>23 DEF LoginNext

\* The thread that puts a session in starts it.
LEMMA StarterStep == LoginInv /\ [LoginNext]_loginVars => OneStarter'
<1> SUFFICES ASSUME LoginInv, [LoginNext]_loginVars PROVE OneStarter'
  OBVIOUS
<1> USE DEF LoginInv, LoginTypeOK, Session, OneStarter, InHands, InHand, Idle
<1>1. ASSUME NEW t \in LoginThread, Message(t) PROVE OneStarter'
  <2>1. PICK what \in {"login", "other", "code"}, code \in {0} \cup Session, s \in {0} \cup Session :
          Taken(t, what, code, s)
    BY <1>1, MessageTaken
  <2>2. QED BY <2>1 DEF Taken, Loses, LoginRecord
<1>2. ASSUME NEW t \in LoginThread, Otherwise(t) PROVE OneStarter'
  BY <1>2 DEF Otherwise, Rests, Awaits
<1>3. ASSUME NEW t \in LoginThread, BeginLogin(t) PROVE OneStarter'
  <2>1. PICK s \in Session : Begun(t, s)
    BY <1>3, LoginBegun
  <2>2. QED BY <2>1 DEF Begun, Loses, LoginRecord
<1>4. ASSUME NEW t \in LoginThread, ForkOnHost(t) PROVE OneStarter'
  BY <1>4 DEF ForkOnHost, Goes, Becomes, Mine
<1>5. ASSUME NEW t \in LoginThread, ForkInContainer(t) PROVE OneStarter'
  BY <1>5 DEF ForkInContainer, Goes, Becomes, Mine
<1>6. ASSUME NEW t \in LoginThread, NoContainer(t) PROVE OneStarter'
  BY <1>6 DEF NoContainer, Goes, Becomes, Mine
<1>7. ASSUME NEW t \in LoginThread, LinkSeen(t) PROVE OneStarter'
  BY <1>7 DEF LinkSeen, LinkComplete, Told, Becomes, Mine, Rests
<1>8. ASSUME NEW t \in LoginThread, LinkReturned(t) PROVE OneStarter'
  BY <1>8 DEF LinkReturned, LinkComplete, Told, Becomes, Mine, Rests
<1>9. ASSUME NEW t \in LoginThread, StartBroken(t) PROVE OneStarter'
  BY <1>9 DEF StartBroken, Rests, Mine
<1>10. ASSUME NEW t \in LoginThread, NoLink(t) PROVE OneStarter'
  BY <1>10 DEF NoLink, Becomes, Mine, GivenUp, Goes
<1>11. ASSUME NEW t \in LoginThread, Apologise(t) PROVE OneStarter'
  BY <1>11 DEF Apologise, PopFor, Rests
<1>12. ASSUME NEW t \in LoginThread, Submit(t) PROVE OneStarter'
  BY <1>12 DEF Submit, Goes, Awaits
<1>13. ASSUME NEW t \in LoginThread, Written(t) PROVE OneStarter'
  BY <1>13 DEF Written, Goes, Mine, Submitting
<1>14. ASSUME NEW t \in LoginThread, CodeTaken(t) PROVE OneStarter'
  <2>1. Over(t) /\ handler[t].s \in Session
    BY <1>14, LoginOver, HandInSession DEF Over
  <2>2. PICK x \in LoginRecord :
          /\ login' = [login EXCEPT ![handler[t].s] = x]
          /\ x.state \in {"done", "failed"} /\ ~x.up /\ (x.state = "done" => Mine(t).up)
          /\ x.pid = Mine(t).pid /\ x.late = Mine(t).late
    BY <2>1 DEF Over
  <2>3. QED BY <2>1, <2>2 DEF Over, LoginRecord, Mine
<1>15. ASSUME NEW t \in LoginThread, CodeUnanswered(t) PROVE OneStarter'
  <2>1. Over(t) /\ handler[t].s \in Session
    BY <1>15, LoginOver, HandInSession DEF Over
  <2>2. PICK x \in LoginRecord :
          /\ login' = [login EXCEPT ![handler[t].s] = x]
          /\ x.state \in {"done", "failed"} /\ ~x.up /\ (x.state = "done" => Mine(t).up)
          /\ x.pid = Mine(t).pid /\ x.late = Mine(t).late
    BY <2>1 DEF Over
  <2>3. QED BY <2>1, <2>2 DEF Over, LoginRecord, Mine
<1>16. ASSUME NEW t \in LoginThread, SubmitBroken(t) PROVE OneStarter'
  BY <1>16 DEF SubmitBroken, Mine, Rests
<1>17. ASSUME NEW t \in LoginThread, Answer(t) PROVE OneStarter'
  BY <1>17 DEF Answer, PopFor, Rests
<1>18. ASSUME NEW t \in LoginThread, NEW r \in Session, LinkStolen(t, r) PROVE OneStarter'
  BY <1>18 DEF LinkStolen, Mine, Rests
<1>19. ASSUME NEW s \in Session, GrowsLate(s) PROVE OneStarter'
  BY <1>19 DEF GrowsLate
<1>20. ASSUME NEW t \in LoginThread, BeginRaises(t) PROVE OneStarter'
  BY <1>20 DEF BeginRaises, Rests
<1>21. ASSUME NEW t \in LoginThread, NoLinkRaises(t) PROVE OneStarter'
  BY <1>21 DEF NoLinkRaises, Becomes, Mine, Rests
<1>22. ASSUME NEW t \in LoginThread, CodeUnansweredRaises(t) PROVE OneStarter'
  BY <1>22 DEF CodeUnansweredRaises, Becomes, Mine, Rests
<1>23. CASE UNCHANGED loginVars
  BY <1>23 DEF loginVars
<1>24. QED
  BY <1>1, <1>2, <1>3, <1>4, <1>5, <1>6, <1>7, <1>8, <1>9, <1>10, <1>11, <1>12, <1>13,
     <1>14, <1>15, <1>16, <1>17, <1>18, <1>19, <1>20, <1>21, <1>22, <1>23 DEF LoginNext

\* What a thread counts on is not taken from it.
LEMMA HandsStep == LoginInv /\ [LoginNext]_loginVars => InHands'
<1> SUFFICES ASSUME LoginInv, [LoginNext]_loginVars PROVE InHands'
  OBVIOUS
<1> USE DEF LoginInv, LoginTypeOK, Session, Newest, StateTrue, OneStarter, HeldTakesCode, InHands, InHand, Idle
<1>1. ASSUME NEW t \in LoginThread, Message(t) PROVE InHands'
  <2>1. PICK what \in {"login", "other", "code"}, code \in {0} \cup Session, s \in {0} \cup Session :
          Taken(t, what, code, s)
    BY <1>1, MessageTaken
  <2>2. \A r \in Session :
          /\ login'[r].state = login[r].state /\ login'[r].pid = login[r].pid
          /\ login'[r].up => login[r].up
    BY <2>1 DEF Taken, Loses, LoginRecord
  <2>3. SUFFICES ASSUME NEW u \in LoginThread PROVE InHand(u)'
    OBVIOUS
  <2>4. CASE u = t
    BY <2>1, <2>4 DEF Taken
  <2>5. CASE u # t
    <3>1. handler'[u] = handler[u] /\ contained' = contained /\ lost \subseteq lost'
      BY <2>1, <2>5 DEF Taken, Loses
    <3>2. handler[u].at = "forking" /\ handler[u].s = held => held' = held \/ held \in lost'
      BY <2>1 DEF Taken, Loses
    <3>3. held' \in {0, held}
      BY <2>1 DEF Taken
    <3>4. handler[u].at \notin {"idle", "login", "other", "code"} => handler[u].s \in Session
      OBVIOUS
    <3>5. InHand(u)
      OBVIOUS
    <3>6. QED BY <2>2, <3>1, <3>2, <3>3, <3>4, <3>5
  <2>6. QED BY <2>4, <2>5
<1>2. ASSUME NEW t \in LoginThread, Otherwise(t) PROVE InHands'
  BY <1>2 DEF Otherwise, Rests, Awaits
<1>3. ASSUME NEW t \in LoginThread, BeginLogin(t) PROVE InHands'
  <2>1. PICK s \in Session : Begun(t, s)
    BY <1>3, LoginBegun
  <2>2. QED BY <2>1 DEF Begun, Loses, LoginRecord
<1>4. ASSUME NEW t \in LoginThread, ForkOnHost(t) PROVE InHands'
  BY <1>4 DEF ForkOnHost, Goes, Becomes, Mine
<1>5. ASSUME NEW t \in LoginThread, ForkInContainer(t) PROVE InHands'
  BY <1>5 DEF ForkInContainer, Goes, Becomes, Mine
<1>6. ASSUME NEW t \in LoginThread, NoContainer(t) PROVE InHands'
  BY <1>6 DEF NoContainer, Goes, Becomes, Mine
<1>7. ASSUME NEW t \in LoginThread, LinkSeen(t) PROVE InHands'
  BY <1>7 DEF LinkSeen, LinkComplete, Told, Becomes, Mine, Rests
<1>8. ASSUME NEW t \in LoginThread, LinkReturned(t) PROVE InHands'
  BY <1>8 DEF LinkReturned, LinkComplete, Told, Becomes, Mine, Rests
<1>9. ASSUME NEW t \in LoginThread, StartBroken(t) PROVE InHands'
  BY <1>9 DEF StartBroken, Rests, Mine
<1>10. ASSUME NEW t \in LoginThread, NoLink(t) PROVE InHands'
  BY <1>10 DEF NoLink, Becomes, Mine, GivenUp, Goes
<1>11. ASSUME NEW t \in LoginThread, Apologise(t) PROVE InHands'
  BY <1>11 DEF Apologise, PopFor, Rests
<1>12. ASSUME NEW t \in LoginThread, Submit(t) PROVE InHands'
  BY <1>12 DEF Submit, Goes, Awaits
<1>13. ASSUME NEW t \in LoginThread, Written(t) PROVE InHands'
  BY <1>13 DEF Written, Goes, Mine, Submitting
<1>14. ASSUME NEW t \in LoginThread, CodeTaken(t) PROVE InHands'
  <2>1. Over(t) /\ handler[t].s \in Session
    BY <1>14, LoginOver, HandInSession DEF Over
  <2>2. PICK x \in LoginRecord :
          /\ login' = [login EXCEPT ![handler[t].s] = x]
          /\ x.state \in {"done", "failed"} /\ ~x.up /\ (x.state = "done" => Mine(t).up)
          /\ x.pid = Mine(t).pid /\ x.late = Mine(t).late
    BY <2>1 DEF Over
  <2>3. SUFFICES ASSUME NEW u \in LoginThread PROVE InHand(u)'
    OBVIOUS
  <2>4. CASE u = t
    <3>1. handler'[t].at = "answered" /\ handler'[t].s = handler[t].s
      BY <2>1 DEF Over
    <3>2. login'[handler[t].s] = x
      BY <2>1, <2>2
    <3>3. QED BY <2>1, <2>2, <2>4, <3>1, <3>2
  <2>5. CASE u # t
    <3>1. handler'[u] = handler[u] /\ UNCHANGED <<contained, foreign, lost, held>>
      BY <2>1, <2>5 DEF Over
    <3>2. Mine(t).state \in {"waiting", "done", "failed"}
      BY <2>1 DEF Over, Mine
    <3>3. handler[u].s = handler[t].s => handler[u].at \notin {"forking", "starting"}
      BY <3>2 DEF Mine
    <3>4. handler[u].s # handler[t].s /\ handler[u].s # 0 => login'[handler[u].s] = login[handler[u].s]
      BY <2>1, <2>2
    <3>5. handler[u].s = handler[t].s => login'[handler[u].s] = x
      BY <2>1, <2>2
    <3>6. InHand(u)
      OBVIOUS
    <3>7. CASE handler[u].s = handler[t].s
      <4>1. handler[u].at = "nolink" => x.state = "failed" /\ ~x.up
        BY <2>1, <2>2, <3>6, <3>7 DEF Mine
      <4>2. handler[u].at \notin {"idle", "login", "other", "code"} => handler[u].s # 0
        BY <3>6
      <4>3. QED BY <2>2, <3>1, <3>3, <3>5, <3>7, <4>1, <4>2
    <3>8. CASE handler[u].s # handler[t].s
      BY <3>1, <3>4, <3>6, <3>8
    <3>9. QED BY <3>7, <3>8
  <2>6. QED BY <2>4, <2>5
<1>15. ASSUME NEW t \in LoginThread, CodeUnanswered(t) PROVE InHands'
  <2>1. Over(t) /\ handler[t].s \in Session
    BY <1>15, LoginOver, HandInSession DEF Over
  <2>2. PICK x \in LoginRecord :
          /\ login' = [login EXCEPT ![handler[t].s] = x]
          /\ x.state \in {"done", "failed"} /\ ~x.up /\ (x.state = "done" => Mine(t).up)
          /\ x.pid = Mine(t).pid /\ x.late = Mine(t).late
    BY <2>1 DEF Over
  <2>3. SUFFICES ASSUME NEW u \in LoginThread PROVE InHand(u)'
    OBVIOUS
  <2>4. CASE u = t
    <3>1. handler'[t].at = "answered" /\ handler'[t].s = handler[t].s
      BY <2>1 DEF Over
    <3>2. login'[handler[t].s] = x
      BY <2>1, <2>2
    <3>3. QED BY <2>1, <2>2, <2>4, <3>1, <3>2
  <2>5. CASE u # t
    <3>1. handler'[u] = handler[u] /\ UNCHANGED <<contained, foreign, lost, held>>
      BY <2>1, <2>5 DEF Over
    <3>2. Mine(t).state \in {"waiting", "done", "failed"}
      BY <2>1 DEF Over, Mine
    <3>3. handler[u].s = handler[t].s => handler[u].at \notin {"forking", "starting"}
      BY <3>2 DEF Mine
    <3>4. handler[u].s # handler[t].s /\ handler[u].s # 0 => login'[handler[u].s] = login[handler[u].s]
      BY <2>1, <2>2
    <3>5. handler[u].s = handler[t].s => login'[handler[u].s] = x
      BY <2>1, <2>2
    <3>6. InHand(u)
      OBVIOUS
    <3>7. CASE handler[u].s = handler[t].s
      <4>1. handler[u].at = "nolink" => x.state = "failed" /\ ~x.up
        BY <2>1, <2>2, <3>6, <3>7 DEF Mine
      <4>2. handler[u].at \notin {"idle", "login", "other", "code"} => handler[u].s # 0
        BY <3>6
      <4>3. QED BY <2>2, <3>1, <3>3, <3>5, <3>7, <4>1, <4>2
    <3>8. CASE handler[u].s # handler[t].s
      BY <3>1, <3>4, <3>6, <3>8
    <3>9. QED BY <3>7, <3>8
  <2>6. QED BY <2>4, <2>5
<1>16. ASSUME NEW t \in LoginThread, SubmitBroken(t) PROVE InHands'
  BY <1>16 DEF SubmitBroken, Mine, Rests
<1>17. ASSUME NEW t \in LoginThread, Answer(t) PROVE InHands'
  BY <1>17 DEF Answer, PopFor, Rests
<1>18. ASSUME NEW t \in LoginThread, NEW r \in Session, LinkStolen(t, r) PROVE InHands'
  BY <1>18 DEF LinkStolen, Mine, Rests
<1>19. ASSUME NEW s \in Session, GrowsLate(s) PROVE InHands'
  BY <1>19 DEF GrowsLate
<1>20. ASSUME NEW t \in LoginThread, BeginRaises(t) PROVE InHands'
  BY <1>20 DEF BeginRaises, Rests
<1>21. ASSUME NEW t \in LoginThread, NoLinkRaises(t) PROVE InHands'
  BY <1>21 DEF NoLinkRaises, Becomes, Mine, Rests
<1>22. ASSUME NEW t \in LoginThread, CodeUnansweredRaises(t) PROVE InHands'
  BY <1>22 DEF CodeUnansweredRaises, Becomes, Mine, Rests
<1>23. CASE UNCHANGED loginVars
  BY <1>23 DEF loginVars
<1>24. QED
  BY <1>1, <1>2, <1>3, <1>4, <1>5, <1>6, <1>7, <1>8, <1>9, <1>10, <1>11, <1>12, <1>13,
     <1>14, <1>15, <1>16, <1>17, <1>18, <1>19, <1>20, <1>21, <1>22, <1>23 DEF LoginNext

\* Whoever ends the session held takes it out of the table, or says that it is over.
LEMMA CodeStep == LoginInv /\ [LoginNext]_loginVars => HeldTakesCode'
<1> SUFFICES ASSUME LoginInv, [LoginNext]_loginVars PROVE HeldTakesCode'
  OBVIOUS
<1> USE DEF LoginInv, LoginTypeOK, Session, Newest, StateTrue, HeldTakesCode, InHands, InHand
<1>1. ASSUME NEW t \in LoginThread, Message(t) PROVE HeldTakesCode'
  <2>1. PICK what \in {"login", "other", "code"}, code \in {0} \cup Session, s \in {0} \cup Session :
          Taken(t, what, code, s)
    BY <1>1, MessageTaken
  <2>2. QED BY <2>1 DEF Taken, Loses, LoginRecord
<1>2. ASSUME NEW t \in LoginThread, Otherwise(t) PROVE HeldTakesCode'
  BY <1>2 DEF Otherwise, Rests, Awaits
<1>3. ASSUME NEW t \in LoginThread, BeginLogin(t) PROVE HeldTakesCode'
  <2>1. PICK s \in Session : Begun(t, s)
    BY <1>3, LoginBegun
  <2>2. QED BY <2>1 DEF Begun, Loses, LoginRecord
<1>4. ASSUME NEW t \in LoginThread, ForkOnHost(t) PROVE HeldTakesCode'
  BY <1>4 DEF ForkOnHost, Goes, Becomes, Mine
<1>5. ASSUME NEW t \in LoginThread, ForkInContainer(t) PROVE HeldTakesCode'
  BY <1>5 DEF ForkInContainer, Goes, Becomes, Mine
<1>6. ASSUME NEW t \in LoginThread, NoContainer(t) PROVE HeldTakesCode'
  BY <1>6 DEF NoContainer, Goes, Becomes, Mine
<1>7. ASSUME NEW t \in LoginThread, LinkSeen(t) PROVE HeldTakesCode'
  BY <1>7 DEF LinkSeen, LinkComplete, Told, Becomes, Mine, Rests
<1>8. ASSUME NEW t \in LoginThread, LinkReturned(t) PROVE HeldTakesCode'
  BY <1>8 DEF LinkReturned, LinkComplete, Told, Becomes, Mine, Rests
<1>9. ASSUME NEW t \in LoginThread, StartBroken(t) PROVE HeldTakesCode'
  BY <1>9 DEF StartBroken, Rests, Mine
<1>10. ASSUME NEW t \in LoginThread, NoLink(t) PROVE HeldTakesCode'
  BY <1>10 DEF NoLink, Becomes, Mine, GivenUp, Goes
<1>11. ASSUME NEW t \in LoginThread, Apologise(t) PROVE HeldTakesCode'
  BY <1>11 DEF Apologise, PopFor, Rests
<1>12. ASSUME NEW t \in LoginThread, Submit(t) PROVE HeldTakesCode'
  BY <1>12 DEF Submit, Goes, Awaits
<1>13. ASSUME NEW t \in LoginThread, Written(t) PROVE HeldTakesCode'
  BY <1>13 DEF Written, Goes, Mine, Submitting
<1>14. ASSUME NEW t \in LoginThread, CodeTaken(t) PROVE HeldTakesCode'
  <2>1. Over(t) /\ handler[t].s \in Session
    BY <1>14, LoginOver, HandInSession DEF Over
  <2>2. PICK x \in LoginRecord :
          /\ login' = [login EXCEPT ![handler[t].s] = x]
          /\ x.state \in {"done", "failed"} /\ ~x.up /\ (x.state = "done" => Mine(t).up)
          /\ x.pid = Mine(t).pid /\ x.late = Mine(t).late
    BY <2>1 DEF Over
  <2>3. QED BY <2>1, <2>2 DEF Over, LoginRecord, Mine
<1>15. ASSUME NEW t \in LoginThread, CodeUnanswered(t) PROVE HeldTakesCode'
  <2>1. Over(t) /\ handler[t].s \in Session
    BY <1>15, LoginOver, HandInSession DEF Over
  <2>2. PICK x \in LoginRecord :
          /\ login' = [login EXCEPT ![handler[t].s] = x]
          /\ x.state \in {"done", "failed"} /\ ~x.up /\ (x.state = "done" => Mine(t).up)
          /\ x.pid = Mine(t).pid /\ x.late = Mine(t).late
    BY <2>1 DEF Over
  <2>3. QED BY <2>1, <2>2 DEF Over, LoginRecord, Mine
<1>16. ASSUME NEW t \in LoginThread, SubmitBroken(t) PROVE HeldTakesCode'
  BY <1>16 DEF SubmitBroken, Mine, Rests
<1>17. ASSUME NEW t \in LoginThread, Answer(t) PROVE HeldTakesCode'
  BY <1>17 DEF Answer, PopFor, Rests
<1>18. ASSUME NEW t \in LoginThread, NEW r \in Session, LinkStolen(t, r) PROVE HeldTakesCode'
  BY <1>18 DEF LinkStolen, Mine, Rests
<1>19. ASSUME NEW s \in Session, GrowsLate(s) PROVE HeldTakesCode'
  BY <1>19 DEF GrowsLate
<1>20. ASSUME NEW t \in LoginThread, BeginRaises(t) PROVE HeldTakesCode'
  BY <1>20 DEF BeginRaises, Rests
<1>21. ASSUME NEW t \in LoginThread, NoLinkRaises(t) PROVE HeldTakesCode'
  BY <1>21 DEF NoLinkRaises, Becomes, Mine, Rests
<1>22. ASSUME NEW t \in LoginThread, CodeUnansweredRaises(t) PROVE HeldTakesCode'
  BY <1>22 DEF CodeUnansweredRaises, Becomes, Mine, Rests
<1>23. CASE UNCHANGED loginVars
  BY <1>23 DEF loginVars
<1>24. QED
  BY <1>1, <1>2, <1>3, <1>4, <1>5, <1>6, <1>7, <1>8, <1>9, <1>10, <1>11, <1>12, <1>13,
     <1>14, <1>15, <1>16, <1>17, <1>18, <1>19, <1>20, <1>21, <1>22, <1>23 DEF LoginNext

\* A process is ended, or leaves the table, with its session.
LEMMA StrayStep == LoginInv /\ [LoginNext]_loginVars => NoStray'
<1> SUFFICES ASSUME LoginInv, [LoginNext]_loginVars PROVE NoStray'
  OBVIOUS
<1> USE DEF LoginInv, LoginTypeOK, Session, Newest, StateTrue, NoStray, InHands, InHand
<1>1. ASSUME NEW t \in LoginThread, Message(t) PROVE NoStray'
  <2>1. PICK what \in {"login", "other", "code"}, code \in {0} \cup Session, s \in {0} \cup Session :
          Taken(t, what, code, s)
    BY <1>1, MessageTaken
  <2>2. QED BY ZenonT(40), <2>1 DEF Taken, Loses, LoginRecord
<1>2. ASSUME NEW t \in LoginThread, Otherwise(t) PROVE NoStray'
  BY <1>2 DEF Otherwise, Rests, Awaits
<1>3. ASSUME NEW t \in LoginThread, BeginLogin(t) PROVE NoStray'
  <2>1. PICK s \in Session : Begun(t, s)
    BY <1>3, LoginBegun
  <2>2. QED BY <2>1 DEF Begun, Loses, LoginRecord
<1>4. ASSUME NEW t \in LoginThread, ForkOnHost(t) PROVE NoStray'
  BY <1>4 DEF ForkOnHost, Goes, Becomes, Mine
<1>5. ASSUME NEW t \in LoginThread, ForkInContainer(t) PROVE NoStray'
  BY <1>5 DEF ForkInContainer, Goes, Becomes, Mine
<1>6. ASSUME NEW t \in LoginThread, NoContainer(t) PROVE NoStray'
  BY <1>6 DEF NoContainer, Goes, Becomes, Mine
<1>7. ASSUME NEW t \in LoginThread, LinkSeen(t) PROVE NoStray'
  BY <1>7 DEF LinkSeen, LinkComplete, Told, Becomes, Mine, Rests
<1>8. ASSUME NEW t \in LoginThread, LinkReturned(t) PROVE NoStray'
  BY <1>8 DEF LinkReturned, LinkComplete, Told, Becomes, Mine, Rests
<1>9. ASSUME NEW t \in LoginThread, StartBroken(t) PROVE NoStray'
  BY <1>9 DEF StartBroken, Rests, Mine
<1>10. ASSUME NEW t \in LoginThread, NoLink(t) PROVE NoStray'
  BY <1>10 DEF NoLink, Becomes, Mine, GivenUp, Goes
<1>11. ASSUME NEW t \in LoginThread, Apologise(t) PROVE NoStray'
  BY <1>11 DEF Apologise, PopFor, Rests
<1>12. ASSUME NEW t \in LoginThread, Submit(t) PROVE NoStray'
  BY <1>12 DEF Submit, Goes, Awaits
<1>13. ASSUME NEW t \in LoginThread, Written(t) PROVE NoStray'
  BY <1>13 DEF Written, Goes, Mine, Submitting
<1>14. ASSUME NEW t \in LoginThread, CodeTaken(t) PROVE NoStray'
  <2>1. Over(t) /\ handler[t].s \in Session
    BY <1>14, LoginOver, HandInSession DEF Over
  <2>2. PICK x \in LoginRecord :
          /\ login' = [login EXCEPT ![handler[t].s] = x]
          /\ x.state \in {"done", "failed"} /\ ~x.up /\ (x.state = "done" => Mine(t).up)
          /\ x.pid = Mine(t).pid /\ x.late = Mine(t).late
    BY <2>1 DEF Over
  <2>3. QED BY <2>1, <2>2 DEF Over, LoginRecord, Mine
<1>15. ASSUME NEW t \in LoginThread, CodeUnanswered(t) PROVE NoStray'
  <2>1. Over(t) /\ handler[t].s \in Session
    BY <1>15, LoginOver, HandInSession DEF Over
  <2>2. PICK x \in LoginRecord :
          /\ login' = [login EXCEPT ![handler[t].s] = x]
          /\ x.state \in {"done", "failed"} /\ ~x.up /\ (x.state = "done" => Mine(t).up)
          /\ x.pid = Mine(t).pid /\ x.late = Mine(t).late
    BY <2>1 DEF Over
  <2>3. QED BY <2>1, <2>2 DEF Over, LoginRecord, Mine
<1>16. ASSUME NEW t \in LoginThread, SubmitBroken(t) PROVE NoStray'
  BY <1>16 DEF SubmitBroken, Mine, Rests
<1>17. ASSUME NEW t \in LoginThread, Answer(t) PROVE NoStray'
  BY <1>17 DEF Answer, PopFor, Rests
<1>18. ASSUME NEW t \in LoginThread, NEW r \in Session, LinkStolen(t, r) PROVE NoStray'
  BY <1>18 DEF LinkStolen, Mine, Rests
<1>19. ASSUME NEW s \in Session, GrowsLate(s) PROVE NoStray'
  BY <1>19 DEF GrowsLate
<1>20. ASSUME NEW t \in LoginThread, BeginRaises(t) PROVE NoStray'
  BY <1>20 DEF BeginRaises, Rests
<1>21. ASSUME NEW t \in LoginThread, NoLinkRaises(t) PROVE NoStray'
  BY <1>21 DEF NoLinkRaises, Becomes, Mine, Rests
<1>22. ASSUME NEW t \in LoginThread, CodeUnansweredRaises(t) PROVE NoStray'
  BY <1>22 DEF CodeUnansweredRaises, Becomes, Mine, Rests
<1>23. CASE UNCHANGED loginVars
  BY <1>23 DEF loginVars
<1>24. QED
  BY <1>1, <1>2, <1>3, <1>4, <1>5, <1>6, <1>7, <1>8, <1>9, <1>10, <1>11, <1>12, <1>13,
     <1>14, <1>15, <1>16, <1>17, <1>18, <1>19, <1>20, <1>21, <1>22, <1>23 DEF LoginNext

\* No session, no process.
LEMMA LoginStarts == LoginInit => LoginInv
<1> SUFFICES ASSUME LoginInit PROVE LoginInv
  OBVIOUS
<1>1. LoginTypeOK
  BY DEF LoginInit, LoginTypeOK, Unborn, Idle, Places
<1>2. Newest /\ Born /\ StateTrue /\ HeldTakesCode /\ NoStray
  BY DEF LoginInit, Newest, Born, StateTrue, HeldTakesCode, NoStray, Unborn
<1>3. OneStarter /\ InHands
  BY DEF LoginInit, OneStarter, InHands, InHand, Idle
<1>4. QED BY <1>1, <1>2, <1>3 DEF LoginInv

\* The invariant of the logins of one user.
THEOREM LoginInvariant == LoginSpec => []LoginInv
<1>1. LoginInv /\ [LoginNext]_loginVars => LoginInv'
  BY LoginTypeStep, NewestStep, BornStep, StateStep, StarterStep, HandsStep, CodeStep, StrayStep DEF LoginInv
<1>2. QED BY LoginStarts, <1>1, PTL DEF LoginSpec

\* The table and the processes agree, for any number of threads and sessions: what is
\* held can take the code, and what lives is held or was let go in one of the named ways.
THEOREM LoginsInHand == LoginSpec => []LoginInHand
<1>1. LoginInv => LoginInHand
  BY DEF LoginInv, LoginInHand
<1>2. QED BY LoginInvariant, <1>1, PTL

-----------------------------------------------------------------------------
(* The cooldown.                                                           *)

\* While a cooldown lasts, the next probe is due before the quiet has lasted the whole
\* interval, and one that began before a login is cleared when that login is told.
ProbeInTime == Cooling => slot.probe + told.quiet <= ProbeGap
OldIsWelcomed == slot.before => welcome

\* A turn runs with an account.
TurnsHaveAccounts == \A p \in Project : talk[p].at \in {"running", "limited"} => talk[p].with \in Account

LimitInv == LimitTypeOK /\ ProbeInTime /\ OldIsWelcomed /\ TurnsHaveAccounts /\ TurnedAwayFairly

\* The intervals are numbers.
LEMMA LimitNumbers ==
    /\ ProbeGap \in Nat \ {0} /\ DefaultCooldown \in Nat \ {0} /\ MaxCooldown \in Nat \ {0}
    /\ MaxReset \in Nat \ {0} /\ DefaultCooldown <= MaxCooldown
BY LimitsAssumption

\* No cooldown is one that has run out.
LEMMA NoneOpen == NoCooldown \in Open /\ NoCooldown.left = 0 /\ ~NoCooldown.before
<1>1. 0 \in 0..MaxCooldown /\ 0 \in 0..ProbeGap
  BY LimitNumbers
<1>2. QED BY <1>1 DEF NoCooldown, Open, Mail

\* A cooldown that is opened ends within the bound.
LEMMA OpenedTyped ==
    ASSUME LimitTypeOK, NEW a \in Account, NEW n \in Remaining(a), NEW m \in Mail
    PROVE  /\ Opened(n, m) \in Open /\ Opened(n, m).probe <= ProbeGap
           /\ Opened(n, m).before => slot.before
<1>1. n \in Nat
  BY LimitNumbers DEF Remaining, LimitTypeOK
<1>2. Capped(n) \in 0..MaxCooldown
  BY <1>1, LimitNumbers DEF Capped
<1>3. slot \in Open
  BY DEF LimitTypeOK
<1>4. QED BY <1>2, <1>3, LimitNumbers DEF Opened, Open

\* Every step keeps the types.
LEMMA LimitTypeStep == LimitInv /\ [LimitNext]_limitVars => (LimitTypeOK)'
<1> SUFFICES ASSUME LimitInv, [LimitNext]_limitVars PROVE (LimitTypeOK)'
  OBVIOUS
<1> USE LimitNumbers, NoneOpen DEF LimitInv, LimitTypeOK, Mail, NotAsking, Cooling, ProbeInTime, OldIsWelcomed,
          TurnsHaveAccounts, TurnedAwayFairly, RefusedBriefly, NewAccountServed
<1>1. ASSUME NEW p \in Project, Ask(p) PROVE (LimitTypeOK)'
  <2>1. slot' \in Open
    BY <1>1 DEF Ask, Spawn, Clear, Open
  <2>2. told' \in [quiet : 0..ProbeGap, late : BOOLEAN, old : BOOLEAN]
    BY <1>1 DEF Ask, Spawn, Clear
  <2>3. talk' \in [Project -> [at : {"idle", "asked", "read", "running", "limited"}, with : Mail]]
    BY <1>1 DEF Ask, Spawn, Clear, Open
  <2>4. QED BY <1>1, <2>1, <2>2, <2>3 DEF Ask
<1>2. ASSUME NEW p \in Project, ReadEmail(p) PROVE (LimitTypeOK)'
  <2>1. slot' \in Open
    BY <1>2 DEF ReadEmail, Spawn, Clear, Email, Open
  <2>2. told' \in [quiet : 0..ProbeGap, late : BOOLEAN, old : BOOLEAN]
    BY <1>2 DEF ReadEmail, Spawn, Clear, Email
  <2>3. talk' \in [Project -> [at : {"idle", "asked", "read", "running", "limited"}, with : Mail]]
    BY <1>2 DEF ReadEmail, Spawn, Clear, Email, Open
  <2>4. QED BY <1>2, <2>1, <2>2, <2>3 DEF ReadEmail
<1>3. ASSUME NEW p \in Project, Decide(p) PROVE (LimitTypeOK)'
  <2>1. slot' \in Open
    BY <1>3 DEF Decide, Spawn, OnCooldown, ProbeDue, Open
  <2>2. told' \in [quiet : 0..ProbeGap, late : BOOLEAN, old : BOOLEAN]
    <3>1. CASE ~Cooling
      BY <1>3, <3>1 DEF Decide, Spawn, OnCooldown
    <3>2. CASE Cooling /\ ProbeDue
      BY <1>3, <3>2 DEF Decide, OnCooldown
    <3>3. CASE Cooling /\ ~ProbeDue
      <4> DEFINE l == told.late \/ told.quiet >= ProbeGap
                 o == told.old \/ (~welcome /\ (slot.before \/ ~Cooling))
      <4>1. l \in BOOLEAN /\ o \in BOOLEAN
        OBVIOUS
      <4>2. told' = [told EXCEPT !.late = l, !.old = o]
        BY <1>3, <3>3 DEF Decide, OnCooldown
      <4> HIDE DEF l, o
      <4>3. QED BY <4>1, <4>2
    <3>4. QED BY <3>1, <3>2, <3>3
  <2>3. talk' \in [Project -> [at : {"idle", "asked", "read", "running", "limited"}, with : Mail]]
    BY <1>3 DEF Decide, Spawn, OnCooldown, ProbeDue, Open
  <2>4. QED BY <1>3, <2>1, <2>2, <2>3 DEF Decide
<1>4. ASSUME NEW p \in Project, GoesWell(p) PROVE (LimitTypeOK)'
  BY <1>4 DEF GoesWell, Clear
<1>5. ASSUME NEW p \in Project, GoesBadly(p) PROVE (LimitTypeOK)'
  BY <1>5 DEF GoesBadly
<1>6. ASSUME NEW p \in Project, HitLimit(p) PROVE (LimitTypeOK)'
  BY <1>6 DEF HitLimit
<1>7. ASSUME NEW p \in Project, Report(p) PROVE (LimitTypeOK)'
  <2>1. PICK n \in Remaining(talk[p].with), m \in Mail : slot' = Opened(n, m)
    BY <1>7 DEF Report, Email
  <2>2. talk[p].with \in Account
    BY <1>7 DEF Report
  <2>3. slot' \in Open /\ slot'.probe <= ProbeGap /\ (slot'.before => slot.before)
    BY <2>1, <2>2, OpenedTyped
  <2>4. talk' = [talk EXCEPT ![p] = NotAsking] /\ told' = [told EXCEPT !.quiet = 0]
        /\ UNCHANGED <<account, reset, report, welcome>>
    BY <1>7 DEF Report
  <2>5. told'.quiet = 0 /\ told'.late = told.late /\ told'.old = told.old
    BY <2>4
  <2>6. slot'.probe \in 0..ProbeGap
    BY <2>3 DEF Open
  <2>7. QED BY <2>3, <2>4, <2>5, <2>6
<1>8. CASE ReadUsage
  BY <1>8 DEF ReadUsage, Readings
<1>9. CASE StoreUsage
  BY <1>9 DEF StoreUsage, ClearIfStale, Clear
<1>10. CASE Welcome
  BY <1>10 DEF Welcome, Clear
<1>11. CASE TimePasses
  <2>1. reset' \in [Account -> 0..MaxReset]
    BY <1>11 DEF TimePasses, Down
  <2>2. slot' \in Open
    <3>1. CASE slot.left > 1
      <4> DEFINE l == Down(slot.left)
                 q == Down(slot.probe)
      <4>1. slot \in Open /\ slot.left \in 0..MaxCooldown /\ slot.probe \in 0..ProbeGap
        BY DEF Open
      <4>2. l \in 0..MaxCooldown /\ q \in 0..ProbeGap
        BY <3>1, <4>1 DEF Down
      <4>3. slot' = [slot EXCEPT !.left = l, !.probe = q]
        BY <1>11, <3>1 DEF TimePasses
      <4> HIDE DEF l, q
      <4>4. QED BY <4>1, <4>2, <4>3 DEF Open
    <3>2. CASE ~(slot.left > 1)
      BY <1>11, <3>2 DEF TimePasses
    <3>3. QED BY <3>1, <3>2
  <2>3. told' \in [quiet : 0..ProbeGap, late : BOOLEAN, old : BOOLEAN]
    BY <1>11 DEF TimePasses
  <2>4. QED BY <1>11, <2>1, <2>2, <2>3 DEF TimePasses
<1>12. ASSUME NEW a \in Account, LogIn(a) PROVE (LimitTypeOK)'
  <2>1. slot' \in Open
    BY <1>12 DEF LogIn, Open
  <2>2. account' \in Account /\ welcome' = TRUE
    BY <1>12 DEF LogIn
  <2>3. QED BY <1>12, <2>1, <2>2 DEF LogIn
<1>13. ASSUME NEW a \in Account, RunOut(a) PROVE (LimitTypeOK)'
  BY <1>13 DEF RunOut
<1>14. CASE UNCHANGED limitVars
  BY <1>14 DEF limitVars
<1>15. QED
  BY <1>1, <1>2, <1>3, <1>4, <1>5, <1>6, <1>7, <1>8, <1>9, <1>10, <1>11, <1>12, <1>13, <1>14
     DEF LimitNext

\* Quiet is counted from what sets the next probe, and only a welcome ends a welcome.
LEMMA LimitSafeStep == LimitInv /\ [LimitNext]_limitVars => (ProbeInTime /\ OldIsWelcomed /\ TurnsHaveAccounts /\ TurnedAwayFairly)'
<1> SUFFICES ASSUME LimitInv, [LimitNext]_limitVars PROVE (ProbeInTime /\ OldIsWelcomed /\ TurnsHaveAccounts /\ TurnedAwayFairly)'
  OBVIOUS
<1> USE LimitNumbers, NoneOpen DEF LimitInv, LimitTypeOK, Mail, NotAsking, Cooling, ProbeInTime, OldIsWelcomed,
          TurnsHaveAccounts, TurnedAwayFairly, RefusedBriefly, NewAccountServed
<1>1. ASSUME NEW p \in Project, Ask(p) PROVE (ProbeInTime /\ OldIsWelcomed /\ TurnsHaveAccounts /\ TurnedAwayFairly)'
  BY <1>1 DEF Ask, Spawn, Clear, Open
<1>2. ASSUME NEW p \in Project, ReadEmail(p) PROVE (ProbeInTime /\ OldIsWelcomed /\ TurnsHaveAccounts /\ TurnedAwayFairly)'
  BY <1>2 DEF ReadEmail, Spawn, Clear, Email, Open
<1>3. ASSUME NEW p \in Project, Decide(p) PROVE (ProbeInTime /\ OldIsWelcomed /\ TurnsHaveAccounts /\ TurnedAwayFairly)'
  <2>1. CASE ~Cooling
    BY <1>3, <2>1 DEF Decide, Spawn, OnCooldown
  <2>2. CASE Cooling /\ ProbeDue
    BY <1>3, <2>2 DEF Decide, OnCooldown, Open
  <2>3. CASE Cooling /\ ~ProbeDue
    <3>1. slot.probe \in Nat \ {0} /\ told.quiet \in Nat /\ told.quiet < ProbeGap
      BY <2>3 DEF ProbeDue, Open
    <3>2. told' = [told EXCEPT !.late = told.late \/ told.quiet >= ProbeGap,
                               !.old = told.old \/ (~welcome /\ (slot.before \/ ~Cooling))]
      BY <1>3, <2>3 DEF Decide, OnCooldown
    <3>3. ~told'.late
      BY <3>1, <3>2
    <3>4. ~told'.old /\ told'.quiet = told.quiet
      BY <2>3, <3>2
    <3>5. UNCHANGED <<slot, welcome>> /\ talk' = [talk EXCEPT ![p] = NotAsking]
      BY <1>3, <2>3 DEF Decide, OnCooldown
    <3>6. QED BY <3>3, <3>4, <3>5
  <2>4. QED BY <2>1, <2>2, <2>3
<1>4. ASSUME NEW p \in Project, GoesWell(p) PROVE (ProbeInTime /\ OldIsWelcomed /\ TurnsHaveAccounts /\ TurnedAwayFairly)'
  BY <1>4 DEF GoesWell, Clear
<1>5. ASSUME NEW p \in Project, GoesBadly(p) PROVE (ProbeInTime /\ OldIsWelcomed /\ TurnsHaveAccounts /\ TurnedAwayFairly)'
  BY <1>5 DEF GoesBadly
<1>6. ASSUME NEW p \in Project, HitLimit(p) PROVE (ProbeInTime /\ OldIsWelcomed /\ TurnsHaveAccounts /\ TurnedAwayFairly)'
  BY <1>6 DEF HitLimit
<1>7. ASSUME NEW p \in Project, Report(p) PROVE (ProbeInTime /\ OldIsWelcomed /\ TurnsHaveAccounts /\ TurnedAwayFairly)'
  <2>1. PICK n \in Remaining(talk[p].with), m \in Mail : slot' = Opened(n, m)
    BY <1>7 DEF Report, Email
  <2>2. talk[p].with \in Account
    BY <1>7 DEF Report
  <2>3. slot' \in Open /\ slot'.probe <= ProbeGap /\ (slot'.before => slot.before)
    BY <2>1, <2>2, OpenedTyped
  <2>4. talk' = [talk EXCEPT ![p] = NotAsking] /\ told' = [told EXCEPT !.quiet = 0]
        /\ UNCHANGED <<account, reset, report, welcome>>
    BY <1>7 DEF Report
  <2>5. told'.quiet = 0 /\ told'.late = told.late /\ told'.old = told.old
    BY <2>4
  <2>6. slot'.probe \in 0..ProbeGap
    BY <2>3 DEF Open
  <2>7. QED BY <2>3, <2>4, <2>5, <2>6
<1>8. CASE ReadUsage
  BY <1>8 DEF ReadUsage, Readings
<1>9. CASE StoreUsage
  BY <1>9 DEF StoreUsage, ClearIfStale, Clear
<1>10. CASE Welcome
  BY <1>10 DEF Welcome, Clear
<1>11. CASE TimePasses
  BY <1>11 DEF TimePasses, Down, Open
<1>12. ASSUME NEW a \in Account, LogIn(a) PROVE (ProbeInTime /\ OldIsWelcomed /\ TurnsHaveAccounts /\ TurnedAwayFairly)'
  BY <1>12 DEF LogIn
<1>13. ASSUME NEW a \in Account, RunOut(a) PROVE (ProbeInTime /\ OldIsWelcomed /\ TurnsHaveAccounts /\ TurnedAwayFairly)'
  BY <1>13 DEF RunOut
<1>14. CASE UNCHANGED limitVars
  BY <1>14 DEF limitVars
<1>15. QED
  BY <1>1, <1>2, <1>3, <1>4, <1>5, <1>6, <1>7, <1>8, <1>9, <1>10, <1>11, <1>12, <1>13, <1>14
     DEF LimitNext

\* At the start no cooldown is open and nobody asks.
LEMMA LimitStarts == LimitInit => LimitInv
<1> SUFFICES ASSUME LimitInit PROVE LimitInv
  OBVIOUS
<1> USE LimitNumbers, NoneOpen
<1>1. LimitTypeOK
  <2>1. 0 \in 0..MaxReset /\ ProbeGap \in 0..ProbeGap
    OBVIOUS
  <2>2. reset \in [Account -> 0..MaxReset]
    BY <2>1 DEF LimitInit
  <2>3. talk \in [Project -> [at : {"idle", "asked", "read", "running", "limited"}, with : Mail]]
    BY DEF LimitInit, NotAsking, Mail
  <2>4. told \in [quiet : 0..ProbeGap, late : BOOLEAN, old : BOOLEAN]
    BY <2>1 DEF LimitInit
  <2>5. QED BY <2>2, <2>3, <2>4 DEF LimitInit, LimitTypeOK
<1>2. ProbeInTime /\ OldIsWelcomed /\ TurnsHaveAccounts /\ TurnedAwayFairly
  BY DEF LimitInit, ProbeInTime, Cooling, OldIsWelcomed, TurnsHaveAccounts, TurnedAwayFairly,
         RefusedBriefly, NewAccountServed, NotAsking
<1>3. QED BY <1>1, <1>2 DEF LimitInv

\* The invariant of a cooldown.
THEOREM LimitInvariant == LimitSpec => []LimitInv
<1>1. LimitInv /\ [LimitNext]_limitVars => LimitInv'
  BY LimitTypeStep, LimitSafeStep DEF LimitInv
<1>2. QED BY LimitStarts, <1>1, PTL DEF LimitSpec

\* Nobody is turned away longer than the probe interval without a try, nor over a cooldown
\* from before a login: for any number of projects and accounts, any intervals, however
\* wrong the reset times read are.
THEOREM TurnedAwayByRule == LimitSpec => []TurnedAwayFairly
<1>1. LimitInv => TurnedAwayFairly
  BY DEF LimitInv
<1>2. QED BY LimitInvariant, <1>1, PTL

(***************************************************************************)
(* One turn of EngineRun, for any times, any number of retries and any       *)
(* chatter: its process is bounded by it.  A pass that found nothing to do     *)
(* leaves every clock within its limit, and a tick needs such a pass.        *)
(***************************************************************************)

\* The constants are numbers.
LEMMA EngineNumbers ==
    /\ Hard \in Nat /\ HardTools \in Nat /\ Quiet \in Nat /\ Drain \in Nat /\ Grace \in Nat
    /\ Hard <= HardTools
BY EngineAssumption

\* Places and signs of the turn.
EngineTypes ==
    /\ engine \in {"claude", "codex", "gemini", "cloud"}
    /\ pc \in {"start", "loop", "end", "await_again", "await_error", "over"}
    /\ proc \in {"none", "running", "closed", "exited", "killed"}
    /\ {looked, shutdown, fired} \subseteq BOOLEAN
    /\ result = NoResult \/ pc = "over"
    /\ DOMAIN answer = DOMAIN NoAnswer /\ answer.tools \in BOOLEAN
    /\ faults \in Nat

\* The clocks count from the process's start, and no other counts more.
ClockTrue ==
    /\ clock \in [age : Nat, quiet : Nat, grace : Nat \cup {-1}, drain : Nat \cup {-1}]
    /\ clock.quiet <= clock.age /\ clock.grace <= clock.age /\ clock.drain <= clock.age

\* The cloud has neither drain nor interrupt, and its timer leaves no process.
CloudClock ==
    /\ fired => ~Alive
    /\ engine = "cloud" => clock.grace = -1 /\ clock.drain = -1

\* A pass that went on to read found every limit kept.
PassedInTime ==
    pc = "loop" /\ looked /\ Alive /\ engine # "cloud" =>
        /\ clock.age <= (IF answer.tools THEN HardTools ELSE Hard)
        /\ clock.drain < Drain \/ clock.drain <= 0
        /\ clock.grace <= Grace /\ clock.quiet <= Quiet

EngineInv ==
    /\ EngineTypes /\ ClockTrue /\ CloudClock /\ PassedInTime
    /\ EndsWithTurn /\ InTime

\* What a line adds to the answer: a tool that was used stays used.
LEMMA CollectTools ==
    ASSUME NEW a, NEW line, DOMAIN a = DOMAIN NoAnswer, a.tools \in BOOLEAN
    PROVE  /\ DOMAIN Collect(a, line) = DOMAIN NoAnswer
           /\ Collect(a, line).tools \in BOOLEAN /\ (a.tools => Collect(a, line).tools)
<1>1. /\ DOMAIN CollectText(a, line.text) = DOMAIN a
      /\ CollectText(a, line.text).tools = a.tools
  BY DEF CollectText, NoAnswer
<1>2. /\ DOMAIN CollectResult(a, line.text) = DOMAIN a
      /\ CollectResult(a, line.text).tools = a.tools
  BY DEF CollectResult, NoAnswer
<1>3. QED BY <1>1, <1>2 DEF Collect, NoAnswer

\* Every step keeps the places and signs.
LEMMA EngineTypeStep == EngineInv /\ [Next]_vars => EngineTypes'
<1> SUFFICES ASSUME EngineInv, [Next]_vars PROVE EngineTypes'
  OBVIOUS
<1> USE EngineNumbers DEF EngineInv, Return, Kill, Fault, Thread, process, asked, session, Alive, NoClock, NoResult, Save, EngineTypes, NoAnswer
<1>1. CASE Start
  BY <1>1 DEF Start
<1>2. CASE KeyMissing
  BY <1>2 DEF KeyMissing
<1>3. CASE StartFails
  BY <1>3 DEF StartFails
<1>4. CASE StartDrain
  BY <1>4 DEF StartDrain, Loop, DrainBegins
<1>5. CASE CutByDrain
  BY <1>5 DEF CutByDrain, Loop, DrainOver
<1>6. CASE Interrupt
  BY <1>6 DEF Interrupt, Loop, DrainBegins, DrainOver, StopDue
<1>7. CASE ForceStop
  BY <1>7 DEF ForceStop, Loop, DrainBegins, DrainOver, StopDue, GraceOver
<1>8. CASE HardTimeout
  BY <1>8 DEF HardTimeout, Loop, DrainBegins, DrainOver, StopDue, GraceOver, TooOld
<1>9. CASE EndedUnheard
  BY <1>9 DEF EndedUnheard, Loop, Reads, DrainBegins, DrainOver, StopDue, GraceOver, TooOld, Ready
<1>10. CASE SilentTooLong
  BY <1>10 DEF SilentTooLong, Loop, Reads, DrainBegins, DrainOver, StopDue, GraceOver, TooOld, Ready
<1>11. CASE StopWhileQuiet
  BY <1>11 DEF StopWhileQuiet, Loop, Reads, DrainBegins, DrainOver, StopDue, GraceOver, TooOld, Ready
<1>12. CASE QuietPass
  BY <1>12 DEF QuietPass, Loop, Reads, DrainBegins, DrainOver, StopDue, GraceOver, TooOld, Ready
<1>13. CASE Read
  BY <1>13, CollectTools DEF Read, Loop, Reads, DrainBegins, DrainOver, StopDue, GraceOver, TooOld, Ready, Reading, TakeLine
<1>14. CASE EndOfOutput
  BY <1>14 DEF EndOfOutput, Loop, Reads, DrainBegins, DrainOver, StopDue, GraceOver, TooOld, Ready
<1>15. CASE Overloaded
  BY <1>15 DEF Overloaded, Loop, Reads, DrainBegins, DrainOver, StopDue, GraceOver, TooOld, Ready, Reading, ErrorLine, AfterLine, TakeLine
<1>16. CASE TooLong
  BY <1>16 DEF TooLong, Loop, Reads, DrainBegins, DrainOver, StopDue, GraceOver, TooOld, Ready, Reading, ErrorLine, AfterLine, TakeLine
<1>17. CASE Denied
  BY <1>17 DEF Denied, Loop, Reads, DrainBegins, DrainOver, StopDue, GraceOver, TooOld, Ready, Reading, ErrorLine, AfterLine, TakeLine
<1>18. CASE Raise
  BY <1>18 DEF Raise, Loop
<1>19. CASE Awaited
  BY <1>19 DEF Awaited
<1>20. CASE WaitTimesOut
  BY <1>20 DEF WaitTimesOut
<1>21. CASE LostSession
  BY <1>21 DEF LostSession, Ended, Failed
<1>22. CASE FailedOtherwise
  BY <1>22 DEF FailedOtherwise, Ended, Failed
<1>23. CASE SaidTooLong
  BY <1>23 DEF SaidTooLong, Ended
<1>24. CASE Answered
  BY <1>24 DEF Answered, Ended
<1>25. CASE CloudRead
  BY <1>25, CollectTools DEF CloudRead, CloudLoop, TakeLine
<1>26. CASE CloudEndOfOutput
  BY <1>26 DEF CloudEndOfOutput, CloudLoop
<1>27. CASE CloudTimeout
  BY <1>27 DEF CloudTimeout, CloudEnded
<1>28. CASE CloudLostSession
  BY <1>28 DEF CloudLostSession, CloudEnded
<1>29. CASE CloudRaise
  BY <1>29 DEF CloudRaise, CloudLoop
<1>30. CASE CloudFails
  BY <1>30 DEF CloudFails, CloudEnded
<1>31. CASE CloudAnswered
  BY <1>31 DEF CloudAnswered, CloudEnded
<1>32. CASE CloudSilent
  BY <1>32 DEF CloudSilent, CloudEnded
<1>33. CASE Write
  BY <1>33 DEF Write
<1>34. CASE CloseOutput
  BY <1>34 DEF CloseOutput
<1>35. CASE Exit
  BY <1>35 DEF Exit
<1>36. CASE Shutdown
  BY <1>36 DEF Shutdown
<1>37. CASE AskStop
  BY <1>37 DEF AskStop
<1>38. CASE SeeStop
  BY <1>38 DEF SeeStop, StopUnseen
<1>39. CASE Watchdog
  BY <1>39 DEF Watchdog, TimerDue
<1>40. CASE Tick
  BY <1>40 DEF Tick, StopUnseen, TimerDue, Later
<1>41. CASE UNCHANGED vars
  BY <1>41 DEF vars
<1> HIDE DEF EngineInv, Return, Kill, Fault, Thread, process, asked, session, Alive, NoClock, NoResult, Save, EngineTypes, NoAnswer
<1>42. QED
  BY <1>1, <1>2, <1>3, <1>4, <1>5, <1>6, <1>7, <1>8, <1>9, <1>10, <1>11, <1>12,
     <1>13, <1>14, <1>15, <1>16, <1>17, <1>18, <1>19, <1>20, <1>21, <1>22,
     <1>23, <1>24, <1>25, <1>26, <1>27, <1>28, <1>30, <1>31, <1>32, <1>33,
     <1>34, <1>35, <1>36, <1>37, <1>38, <1>39, <1>40, <1>41, <1>29
     DEF Next, ClaudePass, CodexPass, GeminiPass, CloudPass, PlainPass, Returned

\* The clocks go on together.
LEMMA ClockStep == EngineInv /\ [Next]_vars => (ClockTrue /\ CloudClock)'
<1> SUFFICES ASSUME EngineInv, [Next]_vars PROVE (ClockTrue /\ CloudClock)'
  OBVIOUS
<1> USE EngineNumbers DEF EngineInv, Return, Kill, Fault, Thread, process, asked, session, Alive, NoClock, NoResult, Save, EngineTypes, ClockTrue, CloudClock
<1>1. CASE Start
  BY <1>1 DEF Start
<1>2. CASE KeyMissing
  BY <1>2 DEF KeyMissing
<1>3. CASE StartFails
  BY <1>3 DEF StartFails
<1>4. CASE StartDrain
  BY <1>4 DEF StartDrain, Loop, DrainBegins
<1>5. CASE CutByDrain
  BY <1>5 DEF CutByDrain, Loop, DrainOver
<1>6. CASE Interrupt
  BY <1>6 DEF Interrupt, Loop, DrainBegins, DrainOver, StopDue
<1>7. CASE ForceStop
  BY <1>7 DEF ForceStop, Loop, DrainBegins, DrainOver, StopDue, GraceOver
<1>8. CASE HardTimeout
  BY <1>8 DEF HardTimeout, Loop, DrainBegins, DrainOver, StopDue, GraceOver, TooOld
<1>9. CASE EndedUnheard
  BY <1>9 DEF EndedUnheard, Loop, Reads, DrainBegins, DrainOver, StopDue, GraceOver, TooOld, Ready
<1>10. CASE SilentTooLong
  BY <1>10 DEF SilentTooLong, Loop, Reads, DrainBegins, DrainOver, StopDue, GraceOver, TooOld, Ready
<1>11. CASE StopWhileQuiet
  BY <1>11 DEF StopWhileQuiet, Loop, Reads, DrainBegins, DrainOver, StopDue, GraceOver, TooOld, Ready
<1>12. CASE QuietPass
  BY <1>12 DEF QuietPass, Loop, Reads, DrainBegins, DrainOver, StopDue, GraceOver, TooOld, Ready
<1>13. CASE Read
  BY <1>13 DEF Read, Loop, Reads, DrainBegins, DrainOver, StopDue, GraceOver, TooOld, Ready, Reading, TakeLine
<1>14. CASE EndOfOutput
  BY <1>14 DEF EndOfOutput, Loop, Reads, DrainBegins, DrainOver, StopDue, GraceOver, TooOld, Ready
<1>15. CASE Overloaded
  BY <1>15 DEF Overloaded, Loop, Reads, DrainBegins, DrainOver, StopDue, GraceOver, TooOld, Ready, Reading, ErrorLine, AfterLine, TakeLine
<1>16. CASE TooLong
  BY <1>16 DEF TooLong, Loop, Reads, DrainBegins, DrainOver, StopDue, GraceOver, TooOld, Ready, Reading, ErrorLine, AfterLine, TakeLine
<1>17. CASE Denied
  BY <1>17 DEF Denied, Loop, Reads, DrainBegins, DrainOver, StopDue, GraceOver, TooOld, Ready, Reading, ErrorLine, AfterLine, TakeLine
<1>18. CASE Raise
  BY <1>18 DEF Raise, Loop
<1>19. CASE Awaited
  BY <1>19 DEF Awaited
<1>20. CASE WaitTimesOut
  BY <1>20 DEF WaitTimesOut
<1>21. CASE LostSession
  BY <1>21 DEF LostSession, Ended, Failed
<1>22. CASE FailedOtherwise
  BY <1>22 DEF FailedOtherwise, Ended, Failed
<1>23. CASE SaidTooLong
  BY <1>23 DEF SaidTooLong, Ended
<1>24. CASE Answered
  BY <1>24 DEF Answered, Ended
<1>25. CASE CloudRead
  BY <1>25 DEF CloudRead, CloudLoop, TakeLine
<1>26. CASE CloudEndOfOutput
  BY <1>26 DEF CloudEndOfOutput, CloudLoop
<1>27. CASE CloudTimeout
  BY <1>27 DEF CloudTimeout, CloudEnded
<1>28. CASE CloudLostSession
  BY <1>28 DEF CloudLostSession, CloudEnded
<1>29. CASE CloudRaise
  BY <1>29 DEF CloudRaise, CloudLoop
<1>30. CASE CloudFails
  BY <1>30 DEF CloudFails, CloudEnded
<1>31. CASE CloudAnswered
  BY <1>31 DEF CloudAnswered, CloudEnded
<1>32. CASE CloudSilent
  BY <1>32 DEF CloudSilent, CloudEnded
<1>33. CASE Write
  BY <1>33 DEF Write
<1>34. CASE CloseOutput
  BY <1>34 DEF CloseOutput
<1>35. CASE Exit
  BY <1>35 DEF Exit
<1>36. CASE Shutdown
  BY <1>36 DEF Shutdown
<1>37. CASE AskStop
  BY <1>37 DEF AskStop
<1>38. CASE SeeStop
  BY <1>38 DEF SeeStop, StopUnseen
<1>39. CASE Watchdog
  BY <1>39 DEF Watchdog, TimerDue
<1>40. CASE Tick
  BY SMTT(30), <1>40 DEF Tick, StopUnseen, TimerDue, Later
<1>41. CASE UNCHANGED vars
  BY <1>41 DEF vars
<1> HIDE DEF EngineInv, Return, Kill, Fault, Thread, process, asked, session, Alive, NoClock, NoResult, Save, EngineTypes, ClockTrue, CloudClock
<1>42. QED
  BY <1>1, <1>2, <1>3, <1>4, <1>5, <1>6, <1>7, <1>8, <1>9, <1>10, <1>11, <1>12,
     <1>13, <1>14, <1>15, <1>16, <1>17, <1>18, <1>19, <1>20, <1>21, <1>22,
     <1>23, <1>24, <1>25, <1>26, <1>27, <1>28, <1>30, <1>31, <1>32, <1>33,
     <1>34, <1>35, <1>36, <1>37, <1>38, <1>39, <1>40, <1>41, <1>29
     DEF Next, ClaudePass, CodexPass, GeminiPass, CloudPass, PlainPass, Returned

\* A pass that reads has looked at every limit first.
LEMMA PassStep == EngineInv /\ [Next]_vars => PassedInTime'
<1> SUFFICES ASSUME EngineInv, [Next]_vars PROVE PassedInTime'
  OBVIOUS
<1> USE EngineNumbers DEF EngineInv, Return, Kill, Fault, Thread, process, asked, session, Alive, NoClock, NoResult, Save, EngineTypes, ClockTrue, CloudClock, PassedInTime
<1>1. CASE Start
  BY <1>1 DEF Start
<1>2. CASE KeyMissing
  BY <1>2 DEF KeyMissing
<1>3. CASE StartFails
  BY <1>3 DEF StartFails
<1>4. CASE StartDrain
  BY <1>4 DEF StartDrain, Loop, DrainBegins
<1>5. CASE CutByDrain
  BY <1>5 DEF CutByDrain, Loop, DrainOver
<1>6. CASE Interrupt
  BY <1>6 DEF Interrupt, Loop, DrainBegins, DrainOver, StopDue
<1>7. CASE ForceStop
  BY <1>7 DEF ForceStop, Loop, DrainBegins, DrainOver, StopDue, GraceOver
<1>8. CASE HardTimeout
  BY <1>8 DEF HardTimeout, Loop, DrainBegins, DrainOver, StopDue, GraceOver, TooOld
<1>9. CASE EndedUnheard
  BY <1>9 DEF EndedUnheard, Loop, Reads, DrainBegins, DrainOver, StopDue, GraceOver, TooOld, Ready
<1>10. CASE SilentTooLong
  BY <1>10 DEF SilentTooLong, Loop, Reads, DrainBegins, DrainOver, StopDue, GraceOver, TooOld, Ready
<1>11. CASE StopWhileQuiet
  BY <1>11 DEF StopWhileQuiet, Loop, Reads, DrainBegins, DrainOver, StopDue, GraceOver, TooOld, Ready
<1>12. CASE QuietPass
  BY <1>12 DEF QuietPass, Loop, Reads, DrainBegins, DrainOver, StopDue, GraceOver, TooOld, Ready
<1>13. CASE Read
  <2>1. /\ answer'.tools \in BOOLEAN /\ (answer.tools => answer'.tools)
    BY <1>13, CollectTools DEF Read, EngineTypes
  <2>2. QED BY <1>13, <2>1 DEF Read, Loop, Reads, DrainBegins, DrainOver, StopDue, GraceOver, TooOld, Ready, Reading, TakeLine
<1>14. CASE EndOfOutput
  BY <1>14 DEF EndOfOutput, Loop, Reads, DrainBegins, DrainOver, StopDue, GraceOver, TooOld, Ready
<1>15. CASE Overloaded
  BY <1>15 DEF Overloaded, Loop, Reads, DrainBegins, DrainOver, StopDue, GraceOver, TooOld, Ready, Reading, ErrorLine, AfterLine, TakeLine
<1>16. CASE TooLong
  BY <1>16 DEF TooLong, Loop, Reads, DrainBegins, DrainOver, StopDue, GraceOver, TooOld, Ready, Reading, ErrorLine, AfterLine, TakeLine
<1>17. CASE Denied
  BY <1>17 DEF Denied, Loop, Reads, DrainBegins, DrainOver, StopDue, GraceOver, TooOld, Ready, Reading, ErrorLine, AfterLine, TakeLine
<1>18. CASE Raise
  BY <1>18 DEF Raise, Loop
<1>19. CASE Awaited
  BY <1>19 DEF Awaited
<1>20. CASE WaitTimesOut
  BY <1>20 DEF WaitTimesOut
<1>21. CASE LostSession
  BY <1>21 DEF LostSession, Ended, Failed
<1>22. CASE FailedOtherwise
  BY <1>22 DEF FailedOtherwise, Ended, Failed
<1>23. CASE SaidTooLong
  BY <1>23 DEF SaidTooLong, Ended
<1>24. CASE Answered
  BY <1>24 DEF Answered, Ended
<1>25. CASE CloudRead
  BY <1>25 DEF CloudRead, CloudLoop, TakeLine
<1>26. CASE CloudEndOfOutput
  BY <1>26 DEF CloudEndOfOutput, CloudLoop
<1>27. CASE CloudTimeout
  BY <1>27 DEF CloudTimeout, CloudEnded
<1>28. CASE CloudLostSession
  BY <1>28 DEF CloudLostSession, CloudEnded
<1>29. CASE CloudRaise
  BY <1>29 DEF CloudRaise, CloudLoop
<1>30. CASE CloudFails
  BY <1>30 DEF CloudFails, CloudEnded
<1>31. CASE CloudAnswered
  BY <1>31 DEF CloudAnswered, CloudEnded
<1>32. CASE CloudSilent
  BY <1>32 DEF CloudSilent, CloudEnded
<1>33. CASE Write
  BY <1>33 DEF Write
<1>34. CASE CloseOutput
  BY <1>34 DEF CloseOutput
<1>35. CASE Exit
  BY <1>35 DEF Exit
<1>36. CASE Shutdown
  BY <1>36 DEF Shutdown
<1>37. CASE AskStop
  BY <1>37 DEF AskStop
<1>38. CASE SeeStop
  BY <1>38 DEF SeeStop, StopUnseen
<1>39. CASE Watchdog
  BY <1>39 DEF Watchdog, TimerDue
<1>40. CASE Tick
  BY <1>40 DEF Tick, StopUnseen, TimerDue, Later
<1>41. CASE UNCHANGED vars
  BY <1>41 DEF vars
<1> HIDE DEF EngineInv, Return, Kill, Fault, Thread, process, asked, session, Alive, NoClock, NoResult, Save, EngineTypes, ClockTrue, CloudClock, PassedInTime
<1>42. QED
  BY <1>1, <1>2, <1>3, <1>4, <1>5, <1>6, <1>7, <1>8, <1>9, <1>10, <1>11, <1>12,
     <1>13, <1>14, <1>15, <1>16, <1>17, <1>18, <1>19, <1>20, <1>21, <1>22,
     <1>23, <1>24, <1>25, <1>26, <1>27, <1>28, <1>30, <1>31, <1>32, <1>33,
     <1>34, <1>35, <1>36, <1>37, <1>38, <1>39, <1>40, <1>41, <1>29
     DEF Next, ClaudePass, CodexPass, GeminiPass, CloudPass, PlainPass, Returned

\* The next tick is at most one past the limits, and whoever leaves has seen the process end.
LEMMA BoundStep == EngineInv /\ [Next]_vars => (EndsWithTurn /\ InTime)'
<1> SUFFICES ASSUME EngineInv, [Next]_vars PROVE (EndsWithTurn /\ InTime)'
  OBVIOUS
<1> USE EngineNumbers DEF EngineInv, Return, Kill, Fault, Thread, process, asked, session, Alive, NoClock, NoResult, Save, EngineTypes, ClockTrue, CloudClock, PassedInTime, EndsWithTurn, InTime
<1>1. CASE Start
  BY <1>1 DEF Start
<1>2. CASE KeyMissing
  BY <1>2 DEF KeyMissing
<1>3. CASE StartFails
  BY <1>3 DEF StartFails
<1>4. CASE StartDrain
  BY <1>4 DEF StartDrain, Loop, DrainBegins
<1>5. CASE CutByDrain
  BY <1>5 DEF CutByDrain, Loop, DrainOver
<1>6. CASE Interrupt
  BY <1>6 DEF Interrupt, Loop, DrainBegins, DrainOver, StopDue
<1>7. CASE ForceStop
  BY <1>7 DEF ForceStop, Loop, DrainBegins, DrainOver, StopDue, GraceOver
<1>8. CASE HardTimeout
  BY <1>8 DEF HardTimeout, Loop, DrainBegins, DrainOver, StopDue, GraceOver, TooOld
<1>9. CASE EndedUnheard
  BY <1>9 DEF EndedUnheard, Loop, Reads, DrainBegins, DrainOver, StopDue, GraceOver, TooOld, Ready
<1>10. CASE SilentTooLong
  BY <1>10 DEF SilentTooLong, Loop, Reads, DrainBegins, DrainOver, StopDue, GraceOver, TooOld, Ready
<1>11. CASE StopWhileQuiet
  BY <1>11 DEF StopWhileQuiet, Loop, Reads, DrainBegins, DrainOver, StopDue, GraceOver, TooOld, Ready
<1>12. CASE QuietPass
  BY <1>12 DEF QuietPass, Loop, Reads, DrainBegins, DrainOver, StopDue, GraceOver, TooOld, Ready
<1>13. CASE Read
  <2>1. /\ answer'.tools \in BOOLEAN /\ (answer.tools => answer'.tools)
    BY <1>13, CollectTools DEF Read, EngineTypes
  <2>2. QED BY <1>13, <2>1 DEF Read, Loop, Reads, DrainBegins, DrainOver, StopDue, GraceOver, TooOld, Ready, Reading, TakeLine
<1>14. CASE EndOfOutput
  BY <1>14 DEF EndOfOutput, Loop, Reads, DrainBegins, DrainOver, StopDue, GraceOver, TooOld, Ready
<1>15. CASE Overloaded
  BY <1>15 DEF Overloaded, Loop, Reads, DrainBegins, DrainOver, StopDue, GraceOver, TooOld, Ready, Reading, ErrorLine, AfterLine, TakeLine
<1>16. CASE TooLong
  BY <1>16 DEF TooLong, Loop, Reads, DrainBegins, DrainOver, StopDue, GraceOver, TooOld, Ready, Reading, ErrorLine, AfterLine, TakeLine
<1>17. CASE Denied
  BY <1>17 DEF Denied, Loop, Reads, DrainBegins, DrainOver, StopDue, GraceOver, TooOld, Ready, Reading, ErrorLine, AfterLine, TakeLine
<1>18. CASE Raise
  BY <1>18 DEF Raise, Loop
<1>19. CASE Awaited
  BY <1>19 DEF Awaited
<1>20. CASE WaitTimesOut
  BY <1>20 DEF WaitTimesOut
<1>21. CASE LostSession
  BY <1>21 DEF LostSession, Ended, Failed
<1>22. CASE FailedOtherwise
  BY <1>22 DEF FailedOtherwise, Ended, Failed
<1>23. CASE SaidTooLong
  BY <1>23 DEF SaidTooLong, Ended
<1>24. CASE Answered
  BY <1>24 DEF Answered, Ended
<1>25. CASE CloudRead
  <2>1. /\ answer'.tools \in BOOLEAN /\ (answer.tools => answer'.tools)
    BY <1>25, CollectTools DEF CloudRead, EngineTypes
  <2>2. QED BY <1>25, <2>1 DEF CloudRead, CloudLoop, TakeLine
<1>26. CASE CloudEndOfOutput
  BY <1>26 DEF CloudEndOfOutput, CloudLoop
<1>27. CASE CloudTimeout
  BY <1>27 DEF CloudTimeout, CloudEnded
<1>28. CASE CloudLostSession
  BY <1>28 DEF CloudLostSession, CloudEnded
<1>29. CASE CloudRaise
  BY <1>29 DEF CloudRaise, CloudLoop
<1>30. CASE CloudFails
  BY <1>30 DEF CloudFails, CloudEnded
<1>31. CASE CloudAnswered
  BY <1>31 DEF CloudAnswered, CloudEnded
<1>32. CASE CloudSilent
  BY <1>32 DEF CloudSilent, CloudEnded
<1>33. CASE Write
  BY <1>33 DEF Write
<1>34. CASE CloseOutput
  BY <1>34 DEF CloseOutput
<1>35. CASE Exit
  BY <1>35 DEF Exit
<1>36. CASE Shutdown
  BY <1>36 DEF Shutdown
<1>37. CASE AskStop
  BY <1>37 DEF AskStop
<1>38. CASE SeeStop
  BY <1>38 DEF SeeStop, StopUnseen
<1>39. CASE Watchdog
  BY <1>39 DEF Watchdog, TimerDue
<1>40. CASE Tick
  BY SMTT(30), <1>40 DEF Tick, StopUnseen, TimerDue, Later
<1>41. CASE UNCHANGED vars
  BY <1>41 DEF vars
<1> HIDE DEF EngineInv, Return, Kill, Fault, Thread, process, asked, session, Alive, NoClock, NoResult, Save, EngineTypes, ClockTrue, CloudClock, PassedInTime, EndsWithTurn, InTime
<1>42. QED
  BY <1>1, <1>2, <1>3, <1>4, <1>5, <1>6, <1>7, <1>8, <1>9, <1>10, <1>11, <1>12,
     <1>13, <1>14, <1>15, <1>16, <1>17, <1>18, <1>19, <1>20, <1>21, <1>22,
     <1>23, <1>24, <1>25, <1>26, <1>27, <1>28, <1>30, <1>31, <1>32, <1>33,
     <1>34, <1>35, <1>36, <1>37, <1>38, <1>39, <1>40, <1>41, <1>29
     DEF Next, ClaudePass, CodexPass, GeminiPass, CloudPass, PlainPass, Returned

\* A turn starts without a process.
LEMMA EngineStarts == Init => EngineInv
<1> SUFFICES ASSUME Init PROVE EngineInv
  OBVIOUS
<1>1. engine \in {"claude", "codex", "gemini", "cloud"}
  BY EngineAssumption DEF Init
<1>2. EngineTypes
  BY <1>1 DEF Init, EngineTypes, NoAnswer
<1>3. ClockTrue
  BY DEF Init, ClockTrue, NoClock
<1>4. ~Alive /\ pc # "loop" /\ clock.grace = -1 /\ clock.drain = -1
  BY DEF Init, Alive, NoClock
<1>5. CloudClock /\ PassedInTime /\ EndsWithTurn /\ InTime
  BY <1>4 DEF CloudClock, PassedInTime, EndsWithTurn, InTime
<1>6. QED BY <1>2, <1>3, <1>5 DEF EngineInv

\* The invariant of a turn's way through its engine.
THEOREM EngineInvariant == Spec => []EngineInv
<1>1. EngineInv /\ [Next]_vars => EngineInv'
  BY EngineTypeStep, ClockStep, PassStep, BoundStep DEF EngineInv
<1>2. QED BY EngineStarts, <1>1, PTL DEF Spec

\* A turn's process is bounded by its turn, on every engine: for any limits, any number of
\* retries, whatever the process writes and whenever it ends.
THEOREM BoundedByTurn == Spec => []ProcessBounded
<1>1. EngineInv => ProcessBounded
  BY DEF EngineInv, ProcessBounded
<1>2. QED BY EngineInvariant, <1>1, PTL

(***************************************************************************)
(* The usage banner, for any roster.  A press the poll has brought is not     *)
(* lost on a round that is under way: either the event is set, or the round  *)
(* has that user still before it.                                           *)
(***************************************************************************)

Round == [at : 0..Len(Roster), step : {"asleep", "look", "collect", "lower"}, refresh : BOOLEAN]

\* The round stands at a user of the roster, or nowhere.
RoundPlaced ==
    /\ round.step = "asleep" <=> round.at = 0
    /\ \A u \in Users : tries[u] < MaxTries

\* Whose press nobody has come to yet is before the round.
StillToCome ==
    \A i \in 1..Len(Roster) :
        ~wake /\ Roster[i] \in unheard =>
            /\ round.step # "asleep"
            /\ i > round.at \/ (i = round.at /\ round.step = "look")

UsageInv == UsageTypeOK /\ RoundPlaced /\ StillToCome

\* The roster is a sequence of its users.
LEMMA RosterKnown ==
    /\ Len(Roster) \in Nat /\ \A i \in 1..Len(Roster) : Roster[i] \in Users
    /\ \A u \in Users : \E i \in 1..Len(Roster) : Roster[i] = u
    /\ MaxTries \in Nat \ {0} /\ DueRounds \in Nat \ {0}
<1>1. Roster \in Seq(Users) /\ MaxTries \in Nat \ {0} /\ DueRounds \in Nat \ {0}
  BY UsageAssumption
<1>2. Len(Roster) \in Nat /\ \A i \in 1..Len(Roster) : Roster[i] \in Users
  BY <1>1
<1>3. \A u \in Users : \E i \in 1..Len(Roster) : Roster[i] = u
  BY DEF Users
<1>4. QED BY <1>1, <1>2, <1>3

\* The user the round is at, and where it goes next.
LEMMA OnwardInRoster ==
    ASSUME UsageInv
    PROVE  /\ round.step # "asleep" => round.at \in 1..Len(Roster) /\ Here \in Users
           /\ NextUser \in Round /\ NextUser.step \in {"asleep", "look"}
           /\ NextUser.step = "asleep" => NextUser.at = 0 /\ round.at = Len(Roster)
           /\ NextUser.step = "look" => NextUser.at = round.at + 1
           /\ NextUser = Asleep => NextUser.step = "asleep" /\ NextUser.at = 0
<1>1. Len(Roster) \in Nat /\ \A i \in 1..Len(Roster) : Roster[i] \in Users
  BY RosterKnown
<1>2. /\ round.at \in 0..Len(Roster) /\ (round.step = "asleep" <=> round.at = 0)
      /\ round.step \in {"asleep", "look", "collect", "lower"}
  BY DEF UsageInv, UsageTypeOK, RoundPlaced
<1>3. CASE round.at = Len(Roster)
  BY <1>1, <1>2, <1>3 DEF NextUser, Asleep, Here, Round
<1>4. CASE round.at # Len(Roster)
  BY <1>1, <1>2, <1>4 DEF NextUser, Asleep, Here, Round
<1>5. QED BY <1>3, <1>4

\* Every step keeps the types, and the round in the roster.
LEMMA UsageTypeStep == UsageInv /\ [UsageNext]_usageVars => (UsageTypeOK /\ RoundPlaced)'
<1> SUFFICES ASSUME UsageInv, [UsageNext]_usageVars PROVE (UsageTypeOK /\ RoundPlaced)'
  OBVIOUS
<1>1. /\ round.step # "asleep" => round.at \in 1..Len(Roster) /\ Here \in Users
      /\ NextUser \in Round /\ NextUser.step \in {"asleep", "look"}
      /\ NextUser.step = "asleep" => NextUser.at = 0 /\ round.at = Len(Roster)
      /\ NextUser.step = "look" => NextUser.at = round.at + 1
      /\ NextUser = Asleep => NextUser.step = "asleep" /\ NextUser.at = 0
  BY OnwardInRoster
<1> USE RosterKnown, <1>1 DEF UsageInv, Round, UsageTypeOK, RoundPlaced
<1>2. ASSUME NEW u \in Users, Press(u) PROVE (UsageTypeOK /\ RoundPlaced)'
  BY <1>2 DEF Press, ClearBeforeRound, NoteTime, Settles, Asleep
<1>3. CASE PollFlags
  BY <1>3 DEF PollFlags, ClearBeforeRound, NoteTime, Settles, Asleep
<1>4. CASE WakeUp
  <2>1. /\ round' \in Round /\ (round'.step = "asleep" <=> round'.at = 0)
        /\ round'.step # "asleep" => round'.step = "look" /\ round'.at = 1
        /\ round'.step = "asleep" => Len(Roster) = 0
    <3>1. round' = NextUser /\ round.at = 0
      BY <1>4 DEF WakeUp
    <3>2. round' \in Round
      BY <3>1
    <3>3. CASE NextUser.step = "asleep"
      BY <3>1, <3>3
    <3>4. CASE NextUser.step = "look"
      BY <3>1, <3>4
    <3>5. QED BY <3>2, <3>3, <3>4
  <2>2. wake' = FALSE /\ UNCHANGED <<flag, wanted, tries, unheard>>
    BY <1>4 DEF WakeUp, ClearBeforeRound
  <2>3. elapsed' \in [Users -> 0..DueRounds]
    BY <1>4 DEF WakeUp
  <2>4. QED BY <2>1, <2>2, <2>3
<1>5. CASE PassBy
  <2>1. wake' = wake /\ round.at \in 1..Len(Roster) /\ Here \in Users
    BY <1>5 DEF PassBy, ClearBeforeRound
  <2>2. /\ round' \in Round
        /\ round'.step = "asleep" => round'.at = 0 /\ round.at = Len(Roster)
        /\ round'.step # "asleep" => round'.step = "look" /\ round'.at = round.at + 1
    BY <1>5, <2>1 DEF PassBy, Asleep
  <2>3. UNCHANGED <<flag, wanted, elapsed, tries, unheard>> /\ Here \notin wanted
    BY <1>5, <2>1 DEF PassBy, NoteTime
  <2>4. QED BY <2>1, <2>2, <2>3 DEF Here
<1>6. CASE Begin
  <2>1. wake' = wake /\ round.at \in 1..Len(Roster) /\ Here \in Users
    BY <1>6 DEF Begin, ClearBeforeRound
  <2>2. round'.at = round.at /\ round'.step = "collect" /\ round' \in Round
    BY <1>6, <2>1 DEF Begin, Asleep
  <2>3. UNCHANGED <<flag, wanted, tries>> /\ elapsed' = [elapsed EXCEPT ![Here] = 0] /\ unheard' = unheard \ {Here}
    BY <1>6, <2>1 DEF Begin, NoteTime
  <2>4. QED BY <2>1, <2>2, <2>3 DEF Here
<1>7. ASSUME NEW u \in Users, NEW ok \in BOOLEAN, Collected(u, ok) PROVE (UsageTypeOK /\ RoundPlaced)'
  <2>1. wake' = wake /\ round.at \in 1..Len(Roster) /\ Here \in Users
    BY <1>7 DEF Collected, ClearBeforeRound
  <2>2. /\ round' \in Round
        /\ round'.step = "asleep" => round'.at = 0 /\ round.at = Len(Roster)
        /\ round'.step # "asleep" => round'.step = "look" /\ round'.at = round.at + 1
        \/ (round'.at = round.at /\ round'.step = "lower" /\ round' \in Round)
    BY ZenonT(40), <1>7, <2>1 DEF Collected, Asleep
  <2>3. UNCHANGED <<flag, wanted, elapsed, unheard>> /\ tries' \in [Users -> 0..MaxTries] /\ round.step = "collect"
        /\ \A v \in Users : tries'[v] < MaxTries
    <3>1. tries' = tries \/ (tries' = [tries EXCEPT ![u] = @ + 1] /\ tries[u] + 1 < MaxTries)
      BY <1>7 DEF Collected, Settles
    <3>2. UNCHANGED <<flag, wanted, elapsed, unheard>> /\ round.step = "collect"
      BY <1>7 DEF Collected
    <3>3. tries' \in [Users -> 0..MaxTries] /\ \A v \in Users : tries'[v] < MaxTries
      <4> DEFINE n == tries[u] + 1
      <4>1. CASE tries' = tries
        BY <4>1
      <4>2. CASE tries' = [tries EXCEPT ![u] = n] /\ n < MaxTries
        <5>1. n \in 0..MaxTries
          BY <4>2
        <5> HIDE DEF n
        <5>2. QED BY <4>2, <5>1
      <4>3. QED BY <3>1, <4>1, <4>2
    <3>4. QED BY <3>2, <3>3
  <2>4. QED BY <2>1, <2>2, <2>3 DEF Here
<1>8. CASE Raised
  <2>1. wake' = wake /\ round.at \in 1..Len(Roster) /\ Here \in Users
    BY <1>8 DEF Raised, ClearBeforeRound
  <2>2. round'.at = 0 /\ round'.step = "asleep" /\ round' \in Round
    BY <1>8, <2>1 DEF Raised, Asleep
  <2>3. UNCHANGED <<flag, wanted, elapsed, tries>> /\ unheard' = {}
    BY <1>8, <2>1 DEF Raised, NoteTime
  <2>4. QED BY <2>1, <2>2, <2>3 DEF Here
<1>9. ASSUME NEW arrives \in BOOLEAN, Lower(arrives) PROVE (UsageTypeOK /\ RoundPlaced)'
  <2>1. wake' = wake /\ round.at \in 1..Len(Roster) /\ Here \in Users
    BY <1>9 DEF Lower, ClearBeforeRound
  <2>2. /\ round' \in Round
        /\ round'.step = "asleep" => round'.at = 0 /\ round.at = Len(Roster)
        /\ round'.step # "asleep" => round'.step = "look" /\ round'.at = round.at + 1
    BY <1>9, <2>1 DEF Lower, Asleep
  <2>3. UNCHANGED <<wanted, elapsed, unheard>> /\ flag' \in [Users -> BOOLEAN] /\ tries' = [tries EXCEPT ![Here] = 0] /\ round.step = "lower"
    BY <1>9, <2>1 DEF Lower, NoteTime
  <2>4. QED BY <2>1, <2>2, <2>3 DEF Here
<1>10. CASE UNCHANGED usageVars
  BY <1>10 DEF usageVars
<1>11. QED BY <1>2, <1>3, <1>4, <1>5, <1>6, <1>7, <1>8, <1>9, <1>10 DEF UsageNext, UsageStep

\* No step leaves a press behind the round without setting the event.
LEMMA StillToComeStep == UsageInv /\ [UsageNext]_usageVars => StillToCome'
<1> SUFFICES ASSUME UsageInv, [UsageNext]_usageVars PROVE StillToCome'
  OBVIOUS
<1>1. /\ round.step # "asleep" => round.at \in 1..Len(Roster) /\ Here \in Users
      /\ NextUser \in Round /\ NextUser.step \in {"asleep", "look"}
      /\ NextUser.step = "asleep" => NextUser.at = 0 /\ round.at = Len(Roster)
      /\ NextUser.step = "look" => NextUser.at = round.at + 1
      /\ NextUser = Asleep => NextUser.step = "asleep" /\ NextUser.at = 0
  BY OnwardInRoster
<1> USE RosterKnown, <1>1 DEF UsageInv, Round, UsageTypeOK, RoundPlaced, StillToCome
<1>2. ASSUME NEW u \in Users, Press(u) PROVE StillToCome'
  BY <1>2 DEF Press, ClearBeforeRound, NoteTime, Settles, Asleep
<1>3. CASE PollFlags
  BY <1>3 DEF PollFlags, ClearBeforeRound, NoteTime, Settles, Asleep
<1>4. CASE WakeUp
  <2>1. /\ round' \in Round /\ (round'.step = "asleep" <=> round'.at = 0)
        /\ round'.step # "asleep" => round'.step = "look" /\ round'.at = 1
        /\ round'.step = "asleep" => Len(Roster) = 0
    <3>1. round' = NextUser /\ round.at = 0
      BY <1>4 DEF WakeUp
    <3>2. round' \in Round
      BY <3>1
    <3>3. CASE NextUser.step = "asleep"
      BY <3>1, <3>3
    <3>4. CASE NextUser.step = "look"
      BY <3>1, <3>4
    <3>5. QED BY <3>2, <3>3, <3>4
  <2>2. wake' = FALSE /\ UNCHANGED <<flag, wanted, tries, unheard>>
    BY <1>4 DEF WakeUp, ClearBeforeRound
  <2>3. elapsed' \in [Users -> 0..DueRounds]
    BY <1>4 DEF WakeUp
  <2>4. QED BY <2>1, <2>2, <2>3
<1>5. CASE PassBy
  <2>1. wake' = wake /\ round.at \in 1..Len(Roster) /\ Here \in Users
    BY <1>5 DEF PassBy, ClearBeforeRound
  <2>2. /\ round' \in Round
        /\ round'.step = "asleep" => round'.at = 0 /\ round.at = Len(Roster)
        /\ round'.step # "asleep" => round'.step = "look" /\ round'.at = round.at + 1
    BY <1>5, <2>1 DEF PassBy, Asleep
  <2>3. UNCHANGED <<flag, wanted, elapsed, tries, unheard>> /\ Here \notin wanted
    BY <1>5, <2>1 DEF PassBy, NoteTime
  <2>4. QED BY <2>1, <2>2, <2>3 DEF Here
<1>6. CASE Begin
  <2>1. wake' = wake /\ round.at \in 1..Len(Roster) /\ Here \in Users
    BY <1>6 DEF Begin, ClearBeforeRound
  <2>2. round'.at = round.at /\ round'.step = "collect" /\ round' \in Round
    BY <1>6, <2>1 DEF Begin, Asleep
  <2>3. UNCHANGED <<flag, wanted, tries>> /\ elapsed' = [elapsed EXCEPT ![Here] = 0] /\ unheard' = unheard \ {Here}
    BY <1>6, <2>1 DEF Begin, NoteTime
  <2>4. QED BY <2>1, <2>2, <2>3 DEF Here
<1>7. ASSUME NEW u \in Users, NEW ok \in BOOLEAN, Collected(u, ok) PROVE StillToCome'
  <2>1. wake' = wake /\ round.at \in 1..Len(Roster) /\ Here \in Users
    BY <1>7 DEF Collected, ClearBeforeRound
  <2>2. /\ round' \in Round
        /\ round'.step = "asleep" => round'.at = 0 /\ round.at = Len(Roster)
        /\ round'.step # "asleep" => round'.step = "look" /\ round'.at = round.at + 1
        \/ (round'.at = round.at /\ round'.step = "lower" /\ round' \in Round)
    BY ZenonT(40), <1>7, <2>1 DEF Collected, Asleep
  <2>3. UNCHANGED <<flag, wanted, elapsed, unheard>> /\ tries' \in [Users -> 0..MaxTries] /\ round.step = "collect"
        /\ \A v \in Users : tries'[v] < MaxTries
    <3>1. tries' = tries \/ (tries' = [tries EXCEPT ![u] = @ + 1] /\ tries[u] + 1 < MaxTries)
      BY <1>7 DEF Collected, Settles
    <3>2. UNCHANGED <<flag, wanted, elapsed, unheard>> /\ round.step = "collect"
      BY <1>7 DEF Collected
    <3>3. tries' \in [Users -> 0..MaxTries] /\ \A v \in Users : tries'[v] < MaxTries
      <4> DEFINE n == tries[u] + 1
      <4>1. CASE tries' = tries
        BY <4>1
      <4>2. CASE tries' = [tries EXCEPT ![u] = n] /\ n < MaxTries
        <5>1. n \in 0..MaxTries
          BY <4>2
        <5> HIDE DEF n
        <5>2. QED BY <4>2, <5>1
      <4>3. QED BY <3>1, <4>1, <4>2
    <3>4. QED BY <3>2, <3>3
  <2>4. QED BY SMTT(30), <2>1, <2>2, <2>3 DEF Here
<1>8. CASE Raised
  <2>1. wake' = wake /\ round.at \in 1..Len(Roster) /\ Here \in Users
    BY <1>8 DEF Raised, ClearBeforeRound
  <2>2. round'.at = 0 /\ round'.step = "asleep" /\ round' \in Round
    BY <1>8, <2>1 DEF Raised, Asleep
  <2>3. UNCHANGED <<flag, wanted, elapsed, tries>> /\ unheard' = {}
    BY <1>8, <2>1 DEF Raised, NoteTime
  <2>4. QED BY <2>1, <2>2, <2>3 DEF Here
<1>9. ASSUME NEW arrives \in BOOLEAN, Lower(arrives) PROVE StillToCome'
  <2>1. wake' = wake /\ round.at \in 1..Len(Roster) /\ Here \in Users
    BY <1>9 DEF Lower, ClearBeforeRound
  <2>2. /\ round' \in Round
        /\ round'.step = "asleep" => round'.at = 0 /\ round.at = Len(Roster)
        /\ round'.step # "asleep" => round'.step = "look" /\ round'.at = round.at + 1
    BY <1>9, <2>1 DEF Lower, Asleep
  <2>3. UNCHANGED <<wanted, elapsed, unheard>> /\ flag' \in [Users -> BOOLEAN] /\ tries' = [tries EXCEPT ![Here] = 0] /\ round.step = "lower"
    BY <1>9, <2>1 DEF Lower, NoteTime
  <2>4. QED BY <2>1, <2>2, <2>3 DEF Here
<1>10. CASE UNCHANGED usageVars
  BY <1>10 DEF usageVars
<1>11. QED BY <1>2, <1>3, <1>4, <1>5, <1>6, <1>7, <1>8, <1>9, <1>10 DEF UsageNext, UsageStep

\* The invariant of the banner.
THEOREM UsageInvariant == UsageSpec => []UsageInv
<1>1. UsageInit => UsageInv
  <2>1. 0 \in 0..Len(Roster) /\ 0 \in 0..MaxTries /\ DueRounds \in 0..DueRounds /\ 0 < MaxTries
    BY RosterKnown
  <2>2. UsageInit => UsageTypeOK
    <3>1. UsageInit => round \in Round /\ elapsed \in [Users -> 0..DueRounds]
                          /\ tries \in [Users -> 0..MaxTries] /\ flag \in [Users -> BOOLEAN]
      BY <2>1, RosterKnown DEF UsageInit, Asleep, Round
    <3>2. QED BY <3>1 DEF UsageInit, UsageTypeOK, Round
  <2>3. UsageInit => RoundPlaced /\ StillToCome
    BY <2>1 DEF UsageInit, RoundPlaced, StillToCome, Asleep
  <2>4. QED BY <2>2, <2>3 DEF UsageInv
<1>2. UsageInv /\ [UsageNext]_usageVars => UsageInv'
  BY UsageTypeStep, StillToComeStep DEF UsageInv
<1>3. QED BY <1>1, <1>2, PTL DEF UsageSpec

\* The thread does not sleep over a press the poll has brought: for any roster, however
\* many press, and whatever the collections come to.
THEOREM PressIsHeard == UsageSpec => []PressHeard
<1>1. UsageInv => PressHeard
  BY RosterKnown DEF UsageInv, UsageTypeOK, StillToCome, PressHeard
<1>2. QED BY UsageInvariant, <1>1, PTL

-----------------------------------------------------------------------------
(***************************************************************************)
(* The words of one turn of EngineRun, for any output of the process and any  *)
(* limits: AllSaid.  The inductive invariant relates four things: the words     *)
(* collected hold each text heard, once and in order (SaidInOrder); the parts   *)
(* hold those before the last result (PartsInOrder); the lines between the      *)
(* process and the turn bring the other texts written, in order, and a result  *)
(* repeats at most the last one, which then is among the words since the last   *)
(* result (StreamTrue); and a turn leaves its loop only when nothing is on the   *)
(* way any more, or the process was killed or is out of time (HeardOut).        *)
(***************************************************************************)

\* The shape of an answer.
AnswerTypes(a) ==
    a \in [said : Seq(Int), parts : Seq(Seq(Int)), start : Nat, resumed : BOOLEAN,
           tools : BOOLEAN, error : BOOLEAN, heard : Nat]

\* A text is among the words since the last result.
InPart(a, t) == \E i \in a.start + 1 .. Len(a.said) : a.said[i] = t

\* What has been collected is each text read, in order; the parts are what of it stands
\* before the last result.
SaidInOrder(a) ==
    /\ \A i, j \in 1..Len(a.said) : i < j /\ a.said[i] > 0 /\ a.said[j] > 0 => a.said[i] < a.said[j]
    /\ \A t \in Nat : t > 0 => (t <= a.heard <=> \E i \in 1..Len(a.said) : a.said[i] = t)
PartsInOrder(a) ==
    /\ InOrder(a.parts)
    /\ \A t \in Nat : t > 0 => (t \in Texts(a.parts) <=> \E i \in 1..a.start : a.said[i] = t)
    /\ a.start <= Len(a.said) /\ (a.resumed => a.start = Len(a.said) /\ a.start > 0)
AnswerTrue(a) == SaidInOrder(a) /\ PartsInOrder(a)

\* A text of some messages stands somewhere in one of them.
LEMMA TextsStand ==
    ASSUME NEW sent \in Seq(Seq(Int)), NEW t \in Int
    PROVE  t \in Texts(sent) <=>
             t > 0 /\ \E m \in 1..Len(sent) : \E i \in 1..Len(sent[m]) : sent[m][i] = t
<1>1. \A m \in 1..Len(sent) : sent[m] \in Seq(Int) /\ DOMAIN sent[m] = 1..Len(sent[m])
  OBVIOUS
<1>2. DOMAIN sent = 1..Len(sent)
  OBVIOUS
<1>3. t \in Texts(sent) <=> t > 0 /\ \E m \in DOMAIN sent : t \in ToSet(sent[m])
  BY Zenon DEF Texts
<1>4. \A m \in DOMAIN sent : t \in ToSet(sent[m]) <=> \E i \in 1..Len(sent[m]) : sent[m][i] = t
  BY <1>1, <1>2, Zenon DEF ToSet
<1>5. QED BY <1>2, <1>3, <1>4, Zenon

\* One more message, whose texts come after all the others.
LEMMA MessageAdded ==
    ASSUME NEW sent \in Seq(Seq(Int)), NEW more \in Seq(Int), InOrder(sent),
           \A i, j \in 1..Len(more) : i < j /\ more[i] > 0 /\ more[j] > 0 => more[i] < more[j],
           \A m \in 1..Len(sent), j \in 1..Len(more) : \A i \in 1..Len(sent[m]) :
               sent[m][i] > 0 /\ more[j] > 0 => sent[m][i] < more[j]
    PROVE  /\ Append(sent, more) \in Seq(Seq(Int)) /\ InOrder(Append(sent, more))
           /\ \A t \in Int : t \in Texts(Append(sent, more)) <=>
                t \in Texts(sent) \/ (t > 0 /\ \E i \in 1..Len(more) : more[i] = t)
<1> DEFINE both == Append(sent, more)
<1>1. /\ both \in Seq(Seq(Int)) /\ Len(both) = Len(sent) + 1
      /\ Len(sent) \in Nat /\ Len(more) \in Nat /\ Len(both) \in Nat
      /\ \A l \in 1..Len(more) : more[l] \in Int
  OBVIOUS
<1>2. /\ \A m \in 1..Len(sent) : both[m] = sent[m] /\ sent[m] \in Seq(Int)
      /\ both[Len(both)] = more
  OBVIOUS
<1> HIDE DEF both
<1>3. InOrder(both)
  <2> SUFFICES ASSUME NEW m \in 1..Len(both), NEW n \in 1..Len(both),
                      NEW i \in 1..Len(both[m]), NEW j \in 1..Len(both[n]),
                      m < n \/ (m = n /\ i < j), both[m][i] > 0, both[n][j] > 0
               PROVE  both[m][i] < both[n][j]
    <3>1. DOMAIN both = 1..Len(both) /\ \A l \in 1..Len(both) : both[l] \in Seq(Int)
      BY <1>1
    <3>2. \A l \in 1..Len(both) : DOMAIN both[l] = 1..Len(both[l])
      BY <3>1
    <3>3. QED BY <3>1, <3>2, Zenon DEF InOrder
  <2>1. CASE n < Len(both)
    <3>1. Len(both) = Len(sent) + 1 /\ Len(sent) \in Nat
      BY <1>1
    <3>2. m \in 1..Len(sent) /\ n \in 1..Len(sent)
      BY <3>1, <2>1
    <3>3. both[m] = sent[m] /\ both[n] = sent[n] /\ sent[m] \in Seq(Int) /\ sent[n] \in Seq(Int)
      BY <1>2, <3>2
    <3>4. DOMAIN sent = 1..Len(sent) /\ \A q \in Seq(Int) : DOMAIN q = 1..Len(q)
      OBVIOUS
    <3>5. /\ m \in DOMAIN sent /\ n \in DOMAIN sent
          /\ i \in DOMAIN sent[m] /\ j \in DOMAIN sent[n]
      BY <3>2, <3>3, <3>4, Zenon
    <3>6. QED BY <3>3, <3>5, Zenon DEF InOrder
  <2>2. CASE n = Len(both) /\ m < n
    <3>1. m \in 1..Len(sent)
      BY <1>1, <2>2
    <3>2. both[m] = sent[m] /\ both[n] = more
      BY <1>2, <2>2, <3>1, Zenon
    <3>3. QED BY <3>1, <3>2, Zenon
  <2>3. CASE n = Len(both) /\ m = n
    <3>1. both[m] = more /\ both[n] = more /\ i < j
      BY <1>1, <1>2, <2>3
    <3>2. QED BY <3>1, Zenon
  <2>4. QED BY <1>1, <2>1, <2>2, <2>3
<1>4. ASSUME NEW t \in Int
      PROVE  t \in Texts(both) <=>
               t \in Texts(sent) \/ (t > 0 /\ \E i \in 1..Len(more) : more[i] = t)
  <2>1. ASSUME NEW m \in 1..Len(both), NEW i \in 1..Len(both[m]), both[m][i] = t, t > 0
        PROVE  t \in Texts(sent) \/ \E k \in 1..Len(more) : more[k] = t
    <3>1. CASE m \in 1..Len(sent)
      <4>1. both[m] = sent[m]
        BY <1>2, <3>1, Zenon
      <4>2. t \in Texts(sent) <=> t > 0 /\ \E l \in 1..Len(sent) : \E k \in 1..Len(sent[l]) : sent[l][k] = t
        BY TextsStand, Zenon
      <4>3. QED BY <2>1, <3>1, <4>1, <4>2, Zenon
    <3>2. CASE m = Len(both)
      BY <1>2, <2>1, <3>2
    <3>3. QED BY <1>1, <3>1, <3>2
  <2>2. ASSUME NEW m \in 1..Len(sent), NEW i \in 1..Len(sent[m]), sent[m][i] = t
        PROVE  \E l \in 1..Len(both) : \E k \in 1..Len(both[l]) : both[l][k] = t
    <3>1. m \in 1..Len(both)
      BY <1>1
    <3>2. both[m] = sent[m]
      BY <1>2
    <3>3. QED BY <2>2, <3>1, <3>2, Zenon
  <2>3. ASSUME NEW i \in 1..Len(more), more[i] = t
        PROVE  \E l \in 1..Len(both) : \E k \in 1..Len(both[l]) : both[l][k] = t
    <3>1. Len(both) \in 1..Len(both)
      BY <1>1
    <3>2. QED BY <1>2, <2>3, <3>1, Zenon
  <2>4. t \in Texts(both) <=> t > 0 /\ \E l \in 1..Len(both) : \E k \in 1..Len(both[l]) : both[l][k] = t
    BY <1>1, TextsStand, Zenon
  <2>5. t \in Texts(sent) <=> t > 0 /\ \E l \in 1..Len(sent) : \E k \in 1..Len(sent[l]) : sent[l][k] = t
    BY TextsStand, Zenon
  <2>6. QED BY <2>1, <2>2, <2>3, <2>4, <2>5, Zenon
<1>5. QED BY <1>1, <1>3, <1>4 DEF both

\* The next text, put after all that was collected.
LEMMA SaidGrows ==
    ASSUME NEW a, AnswerTypes(a), SaidInOrder(a),
           NEW b, AnswerTypes(b), b.heard = a.heard + 1, Len(b.said) > Len(a.said),
           \A i \in 1..Len(a.said) : b.said[i] = a.said[i],
           \A i \in Len(a.said) + 1 .. Len(b.said) - 1 : b.said[i] = Boundary,
           b.said[Len(b.said)] = a.heard + 1
    PROVE  SaidInOrder(b)
<1> DEFINE k == Len(a.said)
           n == Len(b.said)
           old == a.said
           new == b.said
           h == a.heard
<1>1. k \in Nat /\ n \in Nat /\ h \in Nat /\ k < n /\ b.heard = h + 1
  BY DEF AnswerTypes
<1>2. /\ \A i \in 1..k : old[i] \in Int /\ new[i] = old[i]
      /\ \A i \in k + 1 .. n - 1 : new[i] = 0
      /\ new[n] = h + 1
      /\ \A i \in 1..n : new[i] \in Int
  BY DEF AnswerTypes, Boundary
<1>3. /\ \A i, j \in 1..k : i < j /\ old[i] > 0 /\ old[j] > 0 => old[i] < old[j]
      /\ \A t \in Nat : t > 0 => (t <= h <=> \E i \in 1..k : old[i] = t)
  BY DEF SaidInOrder
<1>4. SaidInOrder(b) <=>
        /\ \A i, j \in 1..n : i < j /\ new[i] > 0 /\ new[j] > 0 => new[i] < new[j]
        /\ \A t \in Nat : t > 0 => (t <= h + 1 <=> \E i \in 1..n : new[i] = t)
  BY <1>1, Zenon DEF SaidInOrder
<1> HIDE DEF k, n, old, new, h
<1>5. \A i \in 1..n : i \in 1..k \/ i \in k + 1 .. n - 1 \/ i = n
  BY <1>1
<1>6. \A i \in 1..n - 1 : new[i] > 0 => i \in 1..k /\ new[i] = old[i] /\ new[i] <= h
  <2>1. TAKE i \in 1..n - 1
  <2>2. CASE i \in 1..k
    BY <1>1, <1>2, <1>3, <2>2
  <2>3. CASE i \in k + 1 .. n - 1
    BY <1>1, <1>2, <2>3
  <2>4. QED BY <1>1, <2>2, <2>3
<1>7. ASSUME NEW i \in 1..n, NEW j \in 1..n, i < j, new[i] > 0, new[j] > 0
      PROVE  new[i] < new[j]
  <2>1. i \in 1..n - 1 /\ (j \in 1..n - 1 \/ j = n)
    BY <1>1, <1>7
  <2>2. i \in 1..k /\ new[i] = old[i] /\ new[i] <= h /\ new[i] \in Int
    BY <1>2, <1>6, <1>7, <2>1
  <2>3. CASE j \in 1..n - 1
    <3>1. j \in 1..k /\ new[j] = old[j]
      BY <1>6, <1>7, <2>3
    <3>2. QED BY <1>3, <1>7, <2>2, <3>1
  <2>4. CASE j = n
    BY <1>1, <1>2, <2>2, <2>4
  <2>5. QED BY <2>1, <2>3, <2>4
<1>8. ASSUME NEW t \in Nat, t > 0
      PROVE  t <= h + 1 <=> \E i \in 1..n : new[i] = t
  <2>1. n \in 1..n /\ \A i \in 1..k : i \in 1..n
    BY <1>1
  <2>2. t <= h => \E i \in 1..n : new[i] = t
    BY <1>2, <1>3, <1>8, <2>1
  <2>3. t = h + 1 => \E i \in 1..n : new[i] = t
    BY <1>2, <2>1
  <2>4. ASSUME NEW i \in 1..n, new[i] = t PROVE t <= h + 1
    <3>1. i \in 1..n - 1 \/ i = n
      BY <1>1
    <3>2. QED BY <1>1, <1>2, <1>6, <1>8, <2>4, <3>1
  <2>5. QED BY <1>1, <2>2, <2>3, <2>4
<1>9. QED BY <1>4, <1>7, <1>8, Zenon

\* A block of text (assistant) is the next text.
LEMMA TextCollected ==
    ASSUME NEW a, AnswerTypes(a), AnswerTrue(a),
           NEW b, b = [CollectText(a, a.heard + 1) EXCEPT !.heard = a.heard + 1]
    PROVE  AnswerTypes(b) /\ AnswerTrue(b) /\ InPart(b, b.heard)
<1> DEFINE bound == a.resumed /\ a.said # <<>>
           text == a.heard + 1
           said == IF bound THEN a.said \o <<Boundary, text>> ELSE Append(a.said, text)
           start == IF bound THEN Len(a.said) + 1 ELSE a.start
<1>1. /\ a.said \in Seq(Int) /\ a.heard \in Nat /\ a.start \in Nat /\ Len(a.said) \in Nat
      /\ a.start <= Len(a.said) /\ (a.resumed => a.start = Len(a.said))
      /\ Boundary \in Int /\ text \in Int /\ text \in Nat
  BY DEF AnswerTypes, AnswerTrue, PartsInOrder, Boundary
<1>2. b = [a EXCEPT !.said = said, !.start = start, !.resumed = FALSE, !.heard = text]
  <2>1. CASE bound
    BY <2>1 DEF CollectText, AnswerTypes
  <2>2. CASE ~bound
    BY <2>2 DEF CollectText, AnswerTypes
  <2>3. QED BY <2>1, <2>2
<1> HIDE DEF text
<1>3. /\ said \in Seq(Int)
      /\ Len(said) = (IF bound THEN Len(a.said) + 2 ELSE Len(a.said) + 1)
      /\ \A i \in 1..Len(a.said) : said[i] = a.said[i]
      /\ bound => said[Len(a.said) + 1] = Boundary
      /\ said[Len(said)] = text
  <2> DEFINE s == a.said
  <2>1. s \in Seq(Int) /\ text \in Int /\ Boundary \in Int
    BY <1>1
  <2> HIDE DEF s
  <2>2. /\ s \o <<Boundary, text>> \in Seq(Int) /\ Len(s \o <<Boundary, text>>) = Len(s) + 2
        /\ \A i \in 1..Len(s) : (s \o <<Boundary, text>>)[i] = s[i]
        /\ (s \o <<Boundary, text>>)[Len(s) + 1] = Boundary
        /\ (s \o <<Boundary, text>>)[Len(s) + 2] = text
    BY <2>1
  <2>3. /\ Append(s, text) \in Seq(Int) /\ Len(Append(s, text)) = Len(s) + 1
        /\ \A i \in 1..Len(s) : Append(s, text)[i] = s[i]
        /\ Append(s, text)[Len(s) + 1] = text
    BY <2>1
  <2>4. QED BY <2>2, <2>3 DEF s
<1> HIDE DEF bound, said, start
<1>4. /\ b.said = said /\ b.start = start /\ b.parts = a.parts /\ b.resumed = FALSE
      /\ b.heard = text /\ AnswerTypes(b)
      /\ start = IF bound THEN Len(a.said) + 1 ELSE a.start
  <2>1. start \in Nat
    BY <1>1 DEF start
  <2>2. QED BY <1>1, <1>2, <1>3, <2>1 DEF AnswerTypes, start
<1>5. text = a.heard + 1
  BY DEF text
<1>6. SaidInOrder(b)
  <2>1. \A i \in Len(a.said) + 1 .. Len(said) - 1 : said[i] = Boundary
    BY <1>1, <1>3
  <2>2. Len(said) > Len(a.said)
    BY <1>1, <1>3
  <2>3. QED BY <1>4, <1>3, <1>5, <2>1, <2>2, SaidGrows DEF AnswerTrue
<1>7. PartsInOrder(b)
  <2>1. InOrder(b.parts) /\ Texts(b.parts) = Texts(a.parts)
    BY <1>4 DEF AnswerTrue, PartsInOrder
  <2>2. ASSUME NEW t \in Nat, t > 0
        PROVE  (\E i \in 1..a.start : a.said[i] = t) <=> (\E i \in 1..start : said[i] = t)
    <3>1. CASE bound
      <4>1. a.start = Len(a.said) /\ start = a.start + 1 /\ said[start] = 0
        BY <1>1, <1>4, <1>3, <3>1 DEF bound, Boundary
      <4>2. a.start \in Nat /\ start \in Nat /\ \A i \in 1..a.start : said[i] = a.said[i]
        BY <1>1, <1>3, <4>1
      <4>3. \A i \in 1..start : i = start \/ i \in 1..a.start
        BY <4>2, <4>1
      <4>4. \A i \in 1..a.start : i \in 1..start
        BY <4>2, <4>1
      <4>5. t # 0
        BY <2>2
      <4>6. QED BY <4>2, <4>1, <4>3, <4>4, <4>5, Zenon
    <3>2. CASE ~bound
      <4>1. \A i \in 1..a.start : said[i] = a.said[i]
        BY <1>1, <1>3
      <4>2. QED BY <1>4, <3>2, <4>1
    <3>3. QED BY <3>1, <3>2
  <2>3. start <= Len(said)
    BY <1>1, <1>4, <1>3
  <2>4. QED BY <1>4, <2>1, <2>2, <2>3 DEF AnswerTrue, PartsInOrder
<1>8. InPart(b, b.heard)
  <2>1. Len(said) \in start + 1 .. Len(said)
    BY <1>1, <1>4, <1>3
  <2>2. QED BY <1>4, <1>3, <2>1 DEF InPart
<1>9. QED BY <1>4, <1>6, <1>7, <1>8 DEF AnswerTrue

\* The words from some place on.
From(s, k) == SubSeq(s, k + 1, Len(s))
Words(p, s, k) ==
    /\ p \in Seq(Int) /\ Len(p) = Len(s) - k /\ Len(s) \in Nat
    /\ \A i \in 1..Len(p) : p[i] = s[k + i] /\ k + i \in k + 1 .. Len(s)
    /\ \A x \in Int : (\E i \in 1..Len(p) : p[i] = x) <=> \E i \in k + 1 .. Len(s) : s[i] = x
\* What a suffix of the words holds.
LEMMA WordsFrom ==
    ASSUME NEW s \in Seq(Int), NEW k \in Nat, k <= Len(s)
    PROVE  Words(From(s, k), s, k)
<1> DEFINE p == From(s, k)
<1> DEFINE n == Len(s)
<1>1. n \in Nat /\ \A i \in 1..n : s[i] \in Int
  OBVIOUS
<1>2. \A i \in k + 1 .. n : s[i] \in Int
  BY <1>1
<1>3. /\ p \in Seq(Int) /\ Len(p) = (IF k + 1 <= n THEN n - (k + 1) + 1 ELSE 0)
      /\ \A i \in 1 .. n - (k + 1) + 1 : p[i] = s[(k + 1) + i - 1]
  BY <1>1, <1>2, SubSeqProperties DEF From
<1> DEFINE l == Len(p)
<1>4. k <= n
  OBVIOUS
<1> HIDE DEF n, l, p
<1>5. l = n - k /\ l \in Nat
  BY <1>1, <1>3, <1>4 DEF l
<1>6. \A i \in 1..l : p[i] = s[k + i] /\ k + i \in k + 1 .. n
  BY <1>1, <1>3, <1>4, <1>5
<1>7. \A i \in k + 1 .. n : i - k \in 1..l /\ k + (i - k) = i
  BY <1>1, <1>4, <1>5
<1>8. \A x \in Int : (\E i \in 1..l : p[i] = x) <=> \E i \in k + 1 .. n : s[i] = x
  BY <1>6, <1>7
<1>9. Words(p, s, k)
  BY <1>1, <1>3, <1>5, <1>6, <1>8 DEF n, l, Words
<1>10. QED BY <1>9 DEF p

\* A part is closed by a result: it is what was collected since the last one.
Closes(a, b, part) ==
    /\ AnswerTypes(a) /\ AnswerTrue(a) /\ AnswerTypes(b) /\ SaidInOrder(b)
    /\ Len(b.said) >= Len(a.said) /\ \A i \in 1..Len(a.said) : b.said[i] = a.said[i]
    /\ b.start = Len(b.said) /\ b.start > 0 /\ b.parts = Append(a.parts, part) /\ part \in Seq(Int)
    /\ \A i, j \in 1..Len(part) : i < j /\ part[i] > 0 /\ part[j] > 0 => part[i] < part[j]
    /\ \A t \in Nat : t > 0 =>
         ((\E i \in 1..Len(part) : part[i] = t) <=> \E i \in a.start + 1 .. Len(b.said) : b.said[i] = t)

\* Closing a part keeps the answer as it should be.
LEMMA PartClosed ==
    ASSUME NEW a, NEW b, NEW part, Closes(a, b, part)
    PROVE  AnswerTrue(b)
<1> DEFINE n == Len(b.said)
           k == a.start
<1>1. n \in Nat /\ k \in Nat /\ k <= n /\ b.start = n
  BY DEF Closes, AnswerTypes, AnswerTrue, PartsInOrder
<1>2. /\ \A i \in 1..n : b.said[i] \in Int
      /\ \A i \in 1..Len(part) : part[i] \in Int
  <2>1. b.said \in Seq(Int) /\ part \in Seq(Int)
    BY DEF Closes, AnswerTypes
  <2>2. QED BY <2>1
<1>3. \A m \in 1..Len(a.parts) : a.parts[m] \in Seq(Int)
  BY DEF Closes, AnswerTypes
<1>4. \A m \in 1..Len(a.parts) : \A i \in 1..Len(a.parts[m]) : a.parts[m][i] \in Int
  BY <1>3
<1>5. a.parts \in Seq(Seq(Int)) /\ InOrder(a.parts) /\ part \in Seq(Int) /\ b.parts = Append(a.parts, part)
  BY DEF Closes, AnswerTypes, AnswerTrue, PartsInOrder
<1>6. \A t \in Nat : t > 0 => (t \in Texts(a.parts) <=> \E i \in 1..k : b.said[i] = t)
  <2>1. \A i \in 1..k : b.said[i] = a.said[i]
    BY DEF Closes, AnswerTypes, AnswerTrue, PartsInOrder
  <2>2. \A t \in Nat : t > 0 => (t \in Texts(a.parts) <=> \E i \in 1..k : a.said[i] = t)
    BY DEF Closes, AnswerTrue, PartsInOrder
  <2>3. QED BY <2>1, <2>2, Zenon
<1>7. \A t \in Nat : t > 0 =>
        ((\E i \in 1..Len(part) : part[i] = t) <=> \E i \in k + 1 .. n : b.said[i] = t)
  BY DEF Closes
<1>8. \A i, j \in 1..n : i < j /\ b.said[i] > 0 /\ b.said[j] > 0 => b.said[i] < b.said[j]
  BY DEF Closes, SaidInOrder
<1>9. \A i, j \in 1..Len(part) : i < j /\ part[i] > 0 /\ part[j] > 0 => part[i] < part[j]
  BY DEF Closes
<1> HIDE DEF n, k
<1>10. ASSUME NEW x \in Nat, NEW y \in Nat, x > 0, y > 0, x \in Texts(a.parts),
              \E j \in 1..Len(part) : part[j] = y
       PROVE  x < y
  <2>1. PICK p \in 1..k : b.said[p] = x
    BY <1>6, <1>10
  <2>2. PICK q \in k + 1 .. n : b.said[q] = y
    BY <1>7, <1>10
  <2>3. p \in 1..n /\ q \in 1..n /\ p < q
    BY <1>1
  <2>4. QED BY <1>8, <1>10, <2>1, <2>2, <2>3
<1>11. \A m \in 1..Len(a.parts), j \in 1..Len(part) : \A i \in 1..Len(a.parts[m]) :
          a.parts[m][i] > 0 /\ part[j] > 0 => a.parts[m][i] < part[j]
  <2>1. TAKE m \in 1..Len(a.parts), j \in 1..Len(part)
  <2>2. TAKE i \in 1..Len(a.parts[m])
  <2> DEFINE x == a.parts[m][i]
             y == part[j]
  <2>3. x \in Int /\ y \in Int
    BY <1>2, <1>4
  <2>4. /\ \E e \in 1..Len(a.parts) : \E l \in 1..Len(a.parts[e]) : a.parts[e][l] = x
        /\ \E l \in 1..Len(part) : part[l] = y
    BY Zenon
  <2> HIDE DEF x, y
  <2>5. x > 0 => x \in Texts(a.parts)
    BY <1>5, <2>3, <2>4, TextsStand, Zenon
  <2>6. x > 0 /\ y > 0 => x < y
    BY <1>10, <2>3, <2>4, <2>5
  <2>7. QED BY <2>6 DEF x, y
<1>12. /\ InOrder(b.parts)
       /\ \A t \in Int : t \in Texts(b.parts) <=>
            t \in Texts(a.parts) \/ (t > 0 /\ \E i \in 1..Len(part) : part[i] = t)
  BY <1>5, <1>9, <1>11, MessageAdded, Zenon
<1>13. \A t \in Nat : t > 0 => (t \in Texts(b.parts) <=> \E i \in 1..n : b.said[i] = t)
  <2>1. \A i : i \in 1..n <=> i \in 1..k \/ i \in k + 1 .. n
    BY <1>1
  <2>2. QED BY <1>6, <1>7, <1>12, <2>1
<1>14. SaidInOrder(b) /\ b.start = Len(b.said) /\ b.start > 0 /\ b.start = n /\ n \in Nat
  BY <1>1 DEF Closes, n
<1>15. QED BY <1>12, <1>13, <1>14 DEF AnswerTrue, PartsInOrder

\* A text put at the end, with or without a boundary before it.
Put(u, s, t) == u = s \o <<Boundary, t>> \/ u = Append(s, t)
Ends(u, s, t) ==
    /\ u \in Seq(Int) /\ Len(s) \in Nat /\ Len(u) \in Nat /\ Len(u) > Len(s)
    /\ \A i \in 1..Len(s) : u[i] = s[i]
    /\ \A i \in Len(s) + 1 .. Len(u) - 1 : u[i] = Boundary
    /\ u[Len(u)] = t

\* What stands where once a text is put.
LEMMA TextPut ==
    ASSUME NEW s \in Seq(Int), NEW t \in Int, NEW u, Put(u, s, t)
    PROVE  Ends(u, s, t)
<1>1. CASE u = s \o <<Boundary, t>>
  BY <1>1 DEF Boundary, Ends
<1>2. CASE u = Append(s, t)
  BY <1>2 DEF Ends
<1>3. QED BY <1>1, <1>2 DEF Put

\* What a result with a text of its own does to the answer.
ResultPut(a, t, b, said, part) ==
    /\ AnswerTypes(a) /\ AnswerTrue(a) /\ t \in Nat /\ t > 0
    /\ said = IF t \in ToSet(Part(a)) THEN a.said
              ELSE IF Part(a) = <<>> /\ a.said # <<>> THEN a.said \o <<Boundary, t>> ELSE Append(a.said, t)
    /\ part = IF Part(a) = <<>> THEN <<t>> ELSE SubSeq(said, a.start + 1, Len(said))
    /\ b = [a EXCEPT !.said = said, !.parts = Append(@, part), !.start = Len(said),
                     !.resumed = TRUE, !.heard = IF t > a.heard THEN t ELSE a.heard]
    /\ t = a.heard + 1 \/ (t = a.heard /\ InPart(a, t))

\* Such a result keeps the answer as it should be.
LEMMA ResultIsPut ==
    ASSUME NEW a, NEW t, NEW b, NEW said, NEW part, ResultPut(a, t, b, said, part)
    PROVE  AnswerTypes(b) /\ AnswerTrue(b) /\ b.heard = (IF t > a.heard THEN t ELSE a.heard)
<1> DEFINE k == Len(a.said)
           n == Len(said)
           h == a.heard
           s == a.said
           st == a.start
<1>1. /\ s \in Seq(Int) /\ h \in Nat /\ st \in Nat /\ k \in Nat /\ st <= k /\ t \in Nat /\ t > 0
      /\ t \in Int
  BY DEF ResultPut, AnswerTypes, AnswerTrue, PartsInOrder
<1>2. SaidInOrder(a) /\ AnswerTypes(a) /\ AnswerTrue(a) /\ a.parts \in Seq(Seq(Int))
  BY DEF ResultPut, AnswerTrue, AnswerTypes
<1>3. t = h + 1 \/ (t = h /\ InPart(a, t))
  BY DEF ResultPut
<1>4. /\ Part(a) \in Seq(Int) /\ Len(Part(a)) = k - st
      /\ t \in ToSet(Part(a)) <=> \E i \in st + 1 .. k : s[i] = t
  <2>1. Part(a) = From(s, st) /\ st <= Len(s)
    BY <1>1 DEF Part, From
  <2> HIDE DEF s, st
  <2>2. /\ Part(a) \in Seq(Int) /\ Len(Part(a)) = Len(s) - st
        /\ (\E i \in 1..Len(Part(a)) : Part(a)[i] = t) <=> \E i \in st + 1 .. Len(s) : s[i] = t
    <3>1. s \in Seq(Int) /\ st \in Nat /\ t \in Int /\ Len(s) \in Nat
      BY <1>1
    <3>2. Words(From(s, st), s, st)
      BY <2>1, <3>1, WordsFrom, Zenon
    <3>3. QED BY <2>1, <3>1, <3>2 DEF Words
  <2>3. QED BY <2>2 DEF ToSet, s
<1>5. t \in ToSet(Part(a)) <=> t = h
  <2>1. t \in ToSet(Part(a)) <=> InPart(a, t)
    BY <1>4 DEF InPart
  <2>2. (\E i \in 1..k : s[i] = t) => t <= h
    BY <1>1, <1>2 DEF SaidInOrder
  <2>3. \A i \in st + 1 .. k : i \in 1..k
    BY <1>1
  <2>4. t \in ToSet(Part(a)) => t <= h
    BY <1>4, <2>2, <2>3
  <2>5. QED BY <1>1, <1>3, <2>1, <2>4
<1>6. said = IF t = h THEN s ELSE IF Part(a) = <<>> /\ s # <<>> THEN s \o <<Boundary, t>> ELSE Append(s, t)
  BY <1>5 DEF ResultPut
<1>7. part = IF Part(a) = <<>> THEN <<t>> ELSE SubSeq(said, st + 1, Len(said))
  BY DEF ResultPut
<1>8. b = [a EXCEPT !.said = said, !.parts = Append(@, part), !.start = Len(said),
                    !.resumed = TRUE, !.heard = IF t > a.heard THEN t ELSE a.heard]
  BY DEF ResultPut
<1> HIDE DEF k, n, h, s, st
<1>9. /\ said \in Seq(Int) /\ n \in Nat /\ n >= k /\ n > st
      /\ \A i \in 1..k : said[i] = s[i]
  <2>1. CASE t = h
    <3>1. InPart(a, t) /\ said = s
      BY <1>1, <1>3, <1>6, <2>1
    <3>2. k > st
      BY <1>1, <3>1 DEF InPart, k, st
    <3>3. QED BY <1>1, <3>1, <3>2 DEF k, n, s
  <2>2. CASE t # h
    <3>1. Put(said, s, t)
      BY <1>6, <2>2 DEF Put
    <3>2. /\ said \in Seq(Int) /\ n \in Nat /\ n > k /\ \A i \in 1..k : said[i] = s[i]
      <4>1. s \in Seq(Int) /\ t \in Int
        BY <1>1
      <4>2. Ends(said, s, t)
        BY <3>1, <4>1, TextPut, Zenon
      <4>3. QED BY <4>2 DEF Ends, k, n, s
    <3>3. QED BY <1>1, <3>2
  <2>3. QED BY <2>1, <2>2
<1>10. t # h => n > k /\ said[n] = t /\ \A i \in k + 1 .. n - 1 : said[i] = Boundary
  <2>1. ASSUME t # h PROVE Put(said, s, t)
    BY <1>6, <2>1 DEF Put
  <2>2. ASSUME t # h PROVE Ends(said, s, t)
    BY <1>1, <2>1, <2>2, TextPut, Zenon
  <2>3. QED BY <2>2 DEF Ends, k, n, s
<1>11. /\ part \in Seq(Int)
       /\ \A x \in Nat : x > 0 =>
            ((\E i \in 1..Len(part) : part[i] = x) <=> \E i \in st + 1 .. n : said[i] = x)
       /\ Part(a) = <<>> => part = <<t>>
       /\ Part(a) # <<>> => /\ Len(part) \in Nat
                            /\ \A i \in 1..Len(part) : part[i] = said[st + i] /\ st + i \in st + 1 .. n
  <2>1. CASE Part(a) = <<>>
    <3>1. st = k /\ part = <<t>>
      BY <1>1, <1>4, <1>7, <2>1
    <3>2. t # h
      BY <1>5, <2>1 DEF ToSet
    <3>3. /\ \A i \in st + 1 .. n : i = n \/ said[i] = 0
          /\ n \in st + 1 .. n /\ said[n] = t
      BY <1>1, <1>9, <1>10, <3>1, <3>2 DEF Boundary
    <3>4. ASSUME NEW x \in Nat, x > 0
          PROVE  (\E i \in 1..Len(part) : part[i] = x) <=> \E i \in st + 1 .. n : said[i] = x
      <4>1. (\E i \in 1..Len(part) : part[i] = x) <=> x = t
        BY <3>1
      <4>2. x # 0
        BY <3>4
      <4>3. (\E i \in st + 1 .. n : said[i] = x) <=> x = t
        BY <3>3, <4>2
      <4>4. QED BY <4>1, <4>3
    <3>5. QED BY <1>1, <2>1, <3>1, <3>4
  <2>2. CASE Part(a) # <<>>
    <3>1. part = From(said, st) /\ st <= Len(said)
      BY <1>1, <1>7, <1>9, <2>2 DEF n, From
    <3>2. /\ part \in Seq(Int) /\ Len(part) = Len(said) - st /\ Len(said) \in Nat
          /\ \A i \in 1..Len(part) : part[i] = said[st + i] /\ st + i \in st + 1 .. Len(said)
          /\ \A x \in Int : (\E i \in 1..Len(part) : part[i] = x) <=> \E i \in st + 1 .. Len(said) : said[i] = x
      <4>1. said \in Seq(Int) /\ st \in Nat /\ Len(said) \in Nat
        BY <1>1, <1>9 DEF n
      <4>2. Words(From(said, st), said, st)
        BY <3>1, <4>1, WordsFrom, Zenon
      <4>3. QED BY <3>1, <4>2 DEF Words
    <3>3. QED BY <2>2, <3>2 DEF n
  <2>3. QED BY <2>1, <2>2
<1>12. /\ b.said = said /\ b.parts = Append(a.parts, part) /\ b.start = n /\ b.resumed = TRUE
       /\ b.heard = (IF t > h THEN t ELSE h) /\ AnswerTypes(b)
  <2>1. Append(a.parts, part) \in Seq(Seq(Int)) /\ Len(said) \in Nat /\ (IF t > a.heard THEN t ELSE a.heard) \in Nat
    BY <1>1, <1>2, <1>9, <1>11 DEF n, h
  <2>2. QED BY <1>2, <1>8, <1>9, <2>1 DEF AnswerTypes, n, h
<1>13. SaidInOrder(b)
  <2>1. CASE t = h
    <3>1. b.said = a.said /\ b.heard = a.heard
      BY <1>1, <1>6, <1>12, <2>1 DEF s, h
    <3>2. QED BY <1>2, <3>1 DEF SaidInOrder
  <2>2. CASE t = h + 1
    <3>1. t # h /\ b.heard = a.heard + 1 /\ t = a.heard + 1
      BY <1>1, <1>12, <2>2 DEF h
    <3>2. /\ Len(b.said) > Len(a.said) /\ \A i \in 1..Len(a.said) : b.said[i] = a.said[i]
          /\ \A i \in Len(a.said) + 1 .. Len(b.said) - 1 : b.said[i] = Boundary
          /\ b.said[Len(b.said)] = a.heard + 1
      BY <1>9, <1>10, <1>12, <3>1 DEF k, n, s
    <3>3. QED BY <1>2, <1>12, <3>1, <3>2, SaidGrows
  <2>3. QED BY <1>3, <2>1, <2>2
<1>14. \A i, j \in 1..n : i < j /\ said[i] > 0 /\ said[j] > 0 => said[i] < said[j]
  BY <1>12, <1>13 DEF SaidInOrder, n
<1>15. \A i, j \in 1..Len(part) : i < j /\ part[i] > 0 /\ part[j] > 0 => part[i] < part[j]
  <2>1. CASE Part(a) = <<>>
    <3>1. part = <<t>>
      BY <1>11, <2>1
    <3>2. Len(part) = 1
      BY <3>1
    <3>3. QED BY <3>2
  <2>2. CASE Part(a) # <<>>
    <3>1. Len(part) \in Nat /\ \A i \in 1..Len(part) : part[i] = said[st + i] /\ st + i \in st + 1 .. n
      BY <1>11, <2>2
    <3>2. \A i, j \in 1..Len(part) : i < j => st + i \in 1..n /\ st + j \in 1..n /\ st + i < st + j
      BY <1>1, <1>9, <3>1
    <3>3. QED BY <1>14, <3>1, <3>2
  <2>3. QED BY <2>1, <2>2
<1>16. Closes(a, b, part)
  <2>1. Len(b.said) >= Len(a.said) /\ \A i \in 1..Len(a.said) : b.said[i] = a.said[i]
    BY <1>9, <1>12 DEF k, n, s
  <2>2. \A x \in Nat : x > 0 =>
          ((\E i \in 1..Len(part) : part[i] = x) <=> \E i \in a.start + 1 .. Len(b.said) : b.said[i] = x)
    BY <1>11, <1>12 DEF n, st
  <2>3. b.start = Len(b.said) /\ b.start > 0
    BY <1>1, <1>9, <1>12 DEF n
  <2>4. QED BY <1>2, <1>11, <1>12, <1>13, <1>15, <2>1, <2>2, <2>3 DEF Closes
<1>17. QED BY <1>12, <1>16, PartClosed DEF h

\* A result: no text of its own, one more, or the last one once more.
LEMMA ResultCollected ==
    ASSUME NEW a, AnswerTypes(a), AnswerTrue(a), NEW t \in Nat,
           t = 0 \/ t = a.heard + 1 \/ (t = a.heard /\ t > 0 /\ InPart(a, t)),
           NEW b, b = [CollectResult(a, t) EXCEPT !.heard = IF t > a.heard THEN t ELSE a.heard]
    PROVE  /\ AnswerTypes(b) /\ AnswerTrue(b)
           /\ b.heard = (IF t > a.heard THEN t ELSE a.heard)
           /\ t = 0 => b = a
<1>1. CASE t = 0
  <2>1. b = a
    BY <1>1 DEF CollectResult, AnswerTypes
  <2>2. QED BY <1>1, <2>1 DEF AnswerTypes
<1>2. CASE t # 0
  <2> DEFINE said == IF t \in ToSet(Part(a)) THEN a.said
                     ELSE IF Part(a) = <<>> /\ a.said # <<>> THEN a.said \o <<Boundary, t>>
                     ELSE Append(a.said, t)
             part == IF Part(a) = <<>> THEN <<t>> ELSE SubSeq(said, a.start + 1, Len(said))
  <2>1. CollectResult(a, t) = [a EXCEPT !.said = said, !.parts = Append(@, part), !.start = Len(said),
                                        !.resumed = TRUE]
    BY <1>2, Zenon DEF CollectResult
  <2> HIDE DEF said, part
  <2>2. b = [a EXCEPT !.said = said, !.parts = Append(@, part), !.start = Len(said),
                      !.resumed = TRUE, !.heard = IF t > a.heard THEN t ELSE a.heard]
    BY <2>1 DEF AnswerTypes
  <2>3. t > 0 /\ a.heard \in Nat
    BY <1>2 DEF AnswerTypes
  <2>4. ResultPut(a, t, b, said, part)
    BY <1>2, <2>2, <2>3 DEF ResultPut, said, part
  <2>5. QED BY <1>2, <2>4, ResultIsPut
<1>3. QED BY <1>1, <1>2

\* A line of the stream that may come next: a text is the next one, a result brings none,
\* the next one, or the last one once more.
MayCome(a, line) ==
    /\ line.text \in Nat /\ (line.text > 0 => line.kind \in {"text", "result"})
    /\ line.kind = "text" => line.text = a.heard + 1
    /\ line.kind = "result" => \/ line.text = 0 \/ line.text = a.heard + 1
                               \/ line.text = a.heard /\ line.text > 0 /\ InPart(a, line.text)

\* Collecting a line that may come keeps the answer as it should be.
LEMMA LineCollected ==
    ASSUME NEW a, AnswerTypes(a), AnswerTrue(a), NEW line, MayCome(a, line),
           NEW b, b = Collect(a, line)
    PROVE  /\ AnswerTypes(b) /\ AnswerTrue(b)
           /\ b.heard = (IF line.text > a.heard THEN line.text ELSE a.heard)
           /\ line.kind = "text" => InPart(b, b.heard)
           /\ line.text = 0 => \A t \in Nat : t > 0 /\ InPart(a, t) => InPart(b, t)
<1>1. a.heard \in Nat
  BY DEF AnswerTypes
<1>2. CASE line.kind = "text"
  <2>1. line.text = a.heard + 1 /\ line.text > a.heard /\ line.text # 0
    BY <1>1, <1>2 DEF MayCome
  <2>2. Collect(a, line) = [CollectText(a, line.text) EXCEPT !.heard = IF line.text > @ THEN line.text ELSE @]
    BY <1>2 DEF Collect
  <2>3. CollectText(a, line.text).heard = a.heard
    BY DEF CollectText, AnswerTypes
  <2>4. b = [CollectText(a, a.heard + 1) EXCEPT !.heard = a.heard + 1]
    BY <2>1, <2>2, <2>3
  <2>5. AnswerTypes(b) /\ AnswerTrue(b) /\ InPart(b, b.heard)
    BY <2>4, TextCollected, Zenon
  <2>6. b.heard = a.heard + 1
    BY <2>4 DEF CollectText, AnswerTypes
  <2>7. QED BY <2>1, <2>5, <2>6
<1>3. CASE line.kind = "result"
  <2> DEFINE t == line.text
  <2>1. t \in Nat /\ (t = 0 \/ t = a.heard + 1 \/ (t = a.heard /\ t > 0 /\ InPart(a, t)))
    BY <1>3 DEF MayCome
  <2>2. Collect(a, line) = [CollectResult(a, t) EXCEPT !.heard = IF t > @ THEN t ELSE @]
    BY <1>3 DEF Collect
  <2>3. CollectResult(a, t).heard = a.heard
    BY DEF CollectResult, AnswerTypes
  <2>4. b = [CollectResult(a, t) EXCEPT !.heard = IF t > a.heard THEN t ELSE a.heard]
    BY <2>2, <2>3
  <2> HIDE DEF t
  <2>5. /\ AnswerTypes(b) /\ AnswerTrue(b) /\ b.heard = (IF t > a.heard THEN t ELSE a.heard)
        /\ t = 0 => b = a
    BY <2>1, <2>4, ResultCollected
  <2>6. QED BY <1>3, <2>5 DEF t
<1>4. CASE line.kind \notin {"text", "result"}
  <2>1. line.text = 0
    BY <1>4 DEF MayCome
  <2>2. CASE line.kind = "error" /\ engine = "codex" /\ a.said = <<>>
    <3> DEFINE note == <<Note>>
    <3>1. note \in Seq(Int) /\ Len(note) = 1 /\ note[1] = -1
      BY DEF Note
    <3>2. [a EXCEPT !.said = <<Note>>].heard = a.heard
      BY DEF AnswerTypes
    <3>3. Collect(a, line) = [[a EXCEPT !.said = <<Note>>] EXCEPT !.heard = IF line.text > @ THEN line.text ELSE @]
      BY <1>4, <2>2 DEF Collect, note
    <3> HIDE DEF note
    <3>4. b = [[a EXCEPT !.said = note] EXCEPT !.heard = IF line.text > @ THEN line.text ELSE @]
      BY <3>3 DEF note
    <3>5. b = [a EXCEPT !.said = note]
      <4> DEFINE f == [a EXCEPT !.said = note]
      <4>1. AnswerTypes(f) /\ f.heard = a.heard
        BY <3>1 DEF AnswerTypes
      <4>2. b = [f EXCEPT !.heard = IF line.text > f.heard THEN line.text ELSE f.heard]
        BY <3>4
      <4> HIDE DEF f
      <4>3. ~(line.text > f.heard)
        BY <1>1, <2>1, <4>1
      <4>4. b = [f EXCEPT !.heard = f.heard]
        BY <4>2, <4>3
      <4>5. b = f
        BY <4>1, <4>4 DEF AnswerTypes
      <4>6. QED BY <4>5 DEF f
    <3>6. /\ b.said = note /\ b.parts = a.parts /\ b.start = a.start /\ b.resumed = a.resumed
          /\ b.heard = a.heard /\ AnswerTypes(b)
      BY <3>5, <3>1 DEF AnswerTypes
    <3>7. a.start = 0 /\ ~a.resumed
      BY <2>2 DEF AnswerTypes, AnswerTrue, PartsInOrder
    <3>8. /\ Len(b.said) = 1 /\ b.said[1] = -1 /\ Len(a.said) = 0
      BY <2>2, <3>6, <3>1
    <3>9. SaidInOrder(b)
      <4>1. \A t \in Nat : t > 0 => (t <= a.heard <=> \E i \in 1..0 : a.said[i] = t)
        BY <3>8 DEF AnswerTrue, SaidInOrder
      <4>2. \A t \in Nat : t > 0 => ~(t <= a.heard)
        BY <4>1
      <4>3. \A i \in 1..1 : b.said[i] = -1
        BY <3>8
      <4>4. QED BY <3>6, <3>8, <4>2, <4>3 DEF SaidInOrder
    <3>10. PartsInOrder(b)
      <4>1. InOrder(a.parts) /\ \A t \in Nat : t > 0 => ~(t \in Texts(a.parts))
        BY <3>7 DEF AnswerTrue, PartsInOrder
      <4>2. QED BY <3>6, <3>7, <3>8, <4>1 DEF PartsInOrder
    <3>11. \A t \in Nat : ~InPart(a, t)
      BY <3>7, <3>8 DEF InPart
    <3>12. QED BY <1>1, <1>4, <2>1, <3>6, <3>9, <3>10, <3>11 DEF AnswerTrue
  <2>3. CASE ~(line.kind = "error" /\ engine = "codex" /\ a.said = <<>>)
    <3>1. PICK f \in {[a EXCEPT !.tools = TRUE], [a EXCEPT !.error = TRUE]} :
             Collect(a, line) = [f EXCEPT !.heard = IF line.text > @ THEN line.text ELSE @]
      BY <1>4, <2>3 DEF Collect
    <3>2. b = f
      BY <1>1, <2>1, <3>1 DEF AnswerTypes
    <3>3. /\ b.said = a.said /\ b.parts = a.parts /\ b.start = a.start /\ b.resumed = a.resumed
          /\ b.heard = a.heard /\ AnswerTypes(b)
      BY <3>1, <3>2 DEF AnswerTypes
    <3>4. AnswerTrue(b) /\ \A t \in Nat : InPart(a, t) => InPart(b, t)
      BY <3>3 DEF AnswerTrue, SaidInOrder, PartsInOrder, InPart
    <3>5. QED BY <1>1, <1>4, <2>1, <3>3, <3>4
  <2>4. QED BY <2>2, <2>3
<1>5. QED BY <1>2, <1>3, <1>4

\* What is on its way from the process to the turn, behind what the answer a has heard of
\* the n texts written.
LineKinds == {"text", "tool", "error", "result", "denied", "busy", "long"}
Lines == [kind : LineKinds, text : Nat]
LineTrue(line, a, n) ==
    /\ line \in Lines /\ line.text <= n
    /\ line.text > 0 => line.kind \in {"text", "result"} /\ line.text >= a.heard
    /\ line.kind = "text" => line.text > a.heard
    /\ line.kind = "result" /\ line.text > 0 /\ line.text = a.heard => InPart(a, line.text)
After(line, next) ==
    line.text > 0 /\ next.text > 0 =>
        /\ line.text <= next.text
        /\ line.kind = "result" \/ next.kind = "text" => line.text < next.text
StreamTrue(stream, a, n, open) ==
    /\ stream \in Seq(Lines) /\ n \in Nat /\ a.heard <= n
    /\ \A k \in 1..Len(stream) : LineTrue(stream[k], a, n)
    /\ \A i, j \in 1..Len(stream) : i < j => After(stream[i], stream[j])
    /\ \A t \in a.heard + 1 .. n : \E k \in 1..Len(stream) : stream[k].text = t
    /\ open => /\ n > 0 /\ (n = a.heard => InPart(a, n))
               /\ \A k \in 1..Len(stream) : stream[k].kind = "result" => stream[k].text < n

\* The first line of the stream may come next.
LEMMA HeadMayCome ==
    ASSUME NEW a, AnswerTypes(a), NEW n, NEW open, NEW stream, StreamTrue(stream, a, n, open),
           stream # <<>>
    PROVE  Head(stream) \in Lines /\ MayCome(a, Head(stream))
<1> DEFINE line == stream[1]
           h == a.heard
<1>1. /\ Len(stream) \in Nat /\ Len(stream) > 0 /\ Head(stream) = line /\ h \in Nat
      /\ 1 \in 1..Len(stream)
  <2>1. stream \in Seq(Lines)
    BY DEF StreamTrue
  <2>2. h \in Nat
    BY DEF AnswerTypes
  <2>3. QED BY <2>1, <2>2
<1>2. LineTrue(line, a, n) /\ n \in Nat
  BY <1>1, Zenon DEF StreamTrue
<1>3. line \in Lines /\ line.text \in Nat /\ line.text <= n
  BY <1>2 DEF LineTrue, Lines
<1>4. ASSUME line.text > h PROVE line.text = h + 1
  <2>1. PICK k \in 1..Len(stream) : stream[k].text = h + 1
    <3>1. h + 1 \in h + 1 .. n
      BY <1>1, <1>2, <1>3, <1>4
    <3>2. QED BY <3>1, Zenon DEF StreamTrue
  <2>2. CASE k = 1
    BY <2>1, <2>2
  <2>3. CASE k > 1
    <3>1. After(line, stream[k])
      BY <1>1, <2>3, Zenon DEF StreamTrue
    <3>2. QED BY <1>1, <1>3, <1>4, <2>1, <3>1 DEF After
  <2>4. QED BY <2>2, <2>3
<1> HIDE DEF line
<1>5. MayCome(a, line)
  BY <1>1, <1>2, <1>3, <1>4 DEF LineTrue, MayCome
<1>6. QED BY <1>1, <1>3, <1>5

\* What hearing a line does to the answer, as far as the rest of the stream is concerned.
HeardLine(a, line, b) ==
    /\ AnswerTypes(a) /\ AnswerTypes(b)
    /\ b.heard = (IF line.text > a.heard THEN line.text ELSE a.heard)
    /\ line.kind = "text" => InPart(b, b.heard)
    /\ line.text = 0 => \A t \in Nat : t > 0 /\ InPart(a, t) => InPart(b, t)

\* The rest of the stream is in order for the answer that heard the line.
LEMMA TailTrue ==
    ASSUME NEW a, NEW b, NEW n, NEW open, NEW stream, StreamTrue(stream, a, n, open),
           stream # <<>>, HeardLine(a, Head(stream), b)
    PROVE  StreamTrue(Tail(stream), b, n, open)
<1> DEFINE line == stream[1]
           rest == Tail(stream)
           l == Len(stream)
           h == a.heard
<1>1. stream \in Seq(Lines) /\ n \in Nat /\ h <= n
  BY DEF StreamTrue
<1>2. /\ l \in Nat /\ l > 0 /\ Head(stream) = line /\ 1 \in 1..l
      /\ rest \in Seq(Lines) /\ Len(rest) = l - 1
      /\ \A k \in 1..l - 1 : rest[k] = stream[k + 1] /\ k + 1 \in 1..l
  BY <1>1
<1> HIDE DEF line, rest, l
<1>3. /\ HeardLine(a, line, b) /\ h \in Nat /\ b.heard \in Nat
      /\ b.heard = (IF line.text > h THEN line.text ELSE h)
  <2>1. HeardLine(a, line, b)
    BY <1>2
  <2>2. QED BY <2>1 DEF HeardLine, AnswerTypes
<1>4. /\ LineTrue(line, a, n) /\ \A k \in 1..l - 1 : LineTrue(rest[k], a, n) /\ After(line, rest[k])
      /\ \A i, j \in 1..l - 1 : i < j => After(rest[i], rest[j])
  <2>1. \A k \in 1..l : LineTrue(stream[k], a, n)
    BY DEF StreamTrue, l
  <2>2. \A i, j \in 1..l : i < j => After(stream[i], stream[j])
    BY DEF StreamTrue, l
  <2>3. \A k \in 1..l - 1 : 1 < k + 1
    OBVIOUS
  <2>4. \A i, j \in 1..l - 1 : i < j => i + 1 < j + 1
    OBVIOUS
  <2>5. LineTrue(line, a, n)
    BY <1>2, <2>1 DEF line
  <2>6. \A k \in 1..l - 1 : LineTrue(rest[k], a, n) /\ After(line, rest[k])
    BY <1>2, <2>1, <2>2, <2>3 DEF line
  <2>7. \A i, j \in 1..l - 1 : i < j => After(rest[i], rest[j])
    BY <1>2, <2>2, <2>4
  <2>8. QED BY <2>5, <2>6, <2>7
<1>5. line \in Lines /\ line.text \in Nat /\ line.text <= n /\ b.heard <= n /\ b.heard >= h
  BY <1>1, <1>3, <1>4 DEF LineTrue, Lines
<1>6. ASSUME NEW m, LineTrue(m, a, n), After(line, m) PROVE LineTrue(m, b, n)
  <2>1. m \in Lines /\ m.text \in Nat /\ m.text <= n
    BY <1>6 DEF LineTrue, Lines
  <2>2. m.text > 0 => m.kind \in {"text", "result"} /\ m.text >= b.heard
    BY <1>3, <1>5, <1>6, <2>1 DEF LineTrue, After
  <2>3. m.kind = "text" => m.text > b.heard
    BY <1>3, <1>5, <1>6, <2>1 DEF LineTrue, After
  <2>4. ASSUME m.kind = "result", m.text > 0, m.text = b.heard PROVE InPart(b, m.text)
    <3>1. CASE line.text = 0
      <4>1. b.heard = h /\ InPart(a, m.text)
        BY <1>3, <1>6, <2>4, <3>1 DEF LineTrue
      <4>2. QED BY <1>3, <2>1, <2>4, <3>1, <4>1 DEF HeardLine
    <3>2. CASE line.text > 0
      <4>1. line.kind \in {"text", "result"} /\ line.text >= h
        BY <1>4, <3>2 DEF LineTrue
      <4>2. b.heard = line.text
        BY <1>3, <1>5, <4>1
      <4>3. line.kind # "result"
        BY <1>5, <1>6, <2>1, <2>4, <3>2, <4>2 DEF After
      <4>4. QED BY <1>3, <2>4, <4>1, <4>3 DEF HeardLine
    <3>3. QED BY <1>5, <3>1, <3>2
  <2>5. QED BY <2>1, <2>2, <2>3, <2>4 DEF LineTrue
<1>7. ASSUME NEW t \in b.heard + 1 .. n PROVE \E k \in 1..l - 1 : rest[k].text = t
  <2>1. PICK k \in 1..l : stream[k].text = t
    <3>1. t \in h + 1 .. n
      BY <1>3, <1>5
    <3>2. QED BY <3>1, Zenon DEF StreamTrue, l
  <2>2. k # 1
    BY <1>3, <1>5, <2>1 DEF line
  <2>3. k - 1 \in 1..l - 1 /\ (k - 1) + 1 = k
    BY <1>2, <2>2
  <2>4. rest[k - 1].text = t
    BY <1>2, <2>1, <2>3
  <2>5. QED BY <2>3, <2>4
<1>8. ASSUME open
      PROVE  /\ n > 0 /\ (n = b.heard => InPart(b, n))
             /\ \A k \in 1..l - 1 : rest[k].kind = "result" => rest[k].text < n
  <2>1. /\ n > 0 /\ (n = h => InPart(a, n))
        /\ \A k \in 1..l : stream[k].kind = "result" => stream[k].text < n
    BY <1>8 DEF StreamTrue, l
  <2>2. \A k \in 1..l - 1 : rest[k].kind = "result" => rest[k].text < n
    BY <1>2, <2>1
  <2>3. line.kind = "result" => line.text < n
    BY <1>2, <2>1 DEF line
  <2>4. ASSUME n = b.heard PROVE InPart(b, n)
    <3>1. CASE line.text = 0
      <4>1. n = h /\ InPart(a, n)
        BY <1>3, <2>1, <2>4, <3>1
      <4>2. QED BY <1>1, <1>3, <2>1, <3>1, <4>1 DEF HeardLine
    <3>2. CASE line.text > 0
      <4>1. line.kind \in {"text", "result"} /\ line.text >= h
        BY <1>4, <3>2 DEF LineTrue
      <4>2. b.heard = line.text
        BY <1>3, <1>5, <4>1
      <4>3. line.kind # "result"
        BY <1>1, <1>5, <2>3, <2>4, <4>2
      <4>4. QED BY <1>3, <2>4, <4>1, <4>3 DEF HeardLine
    <3>3. QED BY <1>5, <3>1, <3>2
  <2>5. QED BY <2>1, <2>2, <2>4
<1>9. \A k \in 1..l - 1 : LineTrue(rest[k], b, n)
  BY <1>4, <1>6, Zenon
<1>10. StreamTrue(rest, b, n, open)
  BY <1>1, <1>2, <1>4, <1>5, <1>7, <1>8, <1>9 DEF StreamTrue
<1>11. QED BY <1>10 DEF rest

\* A line that the process may write, after n texts.
MayBeWritten(line, n, open) ==
    /\ line.kind \in LineKinds
    /\ line.text \in CASE line.kind = "text" -> {n + 1}
                       [] line.kind = "result" -> {0, n + 1} \cup (IF open THEN {n} ELSE {})
                       [] OTHER -> {0}

\* A line written keeps the stream in order.
LEMMA LineWritten ==
    ASSUME NEW a, AnswerTypes(a), NEW n, NEW open \in BOOLEAN, NEW stream, StreamTrue(stream, a, n, open),
           NEW line \in [kind : LineKinds, text : Int], MayBeWritten(line, n, open)
    PROVE  StreamTrue(Append(stream, line), a, IF line.text > n THEN line.text ELSE n,
                      CASE line.kind = "text" -> TRUE [] line.kind = "result" -> FALSE [] OTHER -> open)
<1> DEFINE more == Append(stream, line)
           l == Len(stream)
           h == a.heard
           m == IF line.text > n THEN line.text ELSE n
           still == CASE line.kind = "text" -> TRUE [] line.kind = "result" -> FALSE [] OTHER -> open
<1>1. stream \in Seq(Lines) /\ n \in Nat /\ h <= n /\ h \in Nat
  BY DEF StreamTrue, AnswerTypes
<1>2. /\ line.text = 0 \/ (line.kind \in {"text", "result"} /\ line.text = n + 1)
         \/ (line.kind = "result" /\ open /\ line.text = n)
      /\ line.kind = "text" => line.text = n + 1
  BY DEF MayBeWritten
<1>3. line \in Lines /\ line.text \in Nat
  BY <1>1, <1>2 DEF Lines
<1>4. /\ l \in Nat /\ more \in Seq(Lines) /\ Len(more) = l + 1 /\ more[l + 1] = line
      /\ \A k \in 1..l : more[k] = stream[k]
  BY <1>1, <1>3
<1>5. /\ \A k \in 1..l : LineTrue(stream[k], a, n)
      /\ \A i, j \in 1..l : i < j => After(stream[i], stream[j])
      /\ \A t \in h + 1 .. n : \E k \in 1..l : stream[k].text = t
      /\ open => /\ n > 0 /\ (n = h => InPart(a, n))
                 /\ \A k \in 1..l : stream[k].kind = "result" => stream[k].text < n
  BY DEF StreamTrue
<1> HIDE DEF more, l
<1>6. m \in Nat /\ m >= n /\ (m = n \/ m = n + 1) /\ line.text <= m
  BY <1>1, <1>2, <1>3
<1>7. /\ still => open \/ line.kind = "text"
      /\ still => line.kind # "result"
      /\ still /\ line.kind # "text" => m = n
      /\ line.kind = "text" => m = n + 1
  BY <1>1, <1>2, <1>3
<1>8. m = n + 1 => line.text = m
  BY <1>1, <1>2, <1>3
<1> HIDE DEF m, still
<1>9. \A k \in 1..l + 1 : k \in 1..l \/ k = l + 1
  BY <1>4
<1>10. \A k \in 1..l : stream[k] \in Lines /\ stream[k].text \in Nat /\ stream[k].text <= n
  BY <1>5 DEF LineTrue, Lines
<1>11. \A k \in 1..l : LineTrue(stream[k], a, m)
  BY <1>1, <1>5, <1>6, <1>10 DEF LineTrue
<1>12. LineTrue(line, a, m)
  <2>1. line.text > 0 => line.kind \in {"text", "result"} /\ line.text >= h
    BY <1>1, <1>2, <1>3
  <2>2. line.kind = "text" => line.text > h
    BY <1>1, <1>2, <1>3
  <2>3. line.kind = "result" /\ line.text > 0 /\ line.text = h => InPart(a, line.text)
    BY <1>1, <1>2, <1>3, <1>5
  <2>4. QED BY <1>3, <1>6, <2>1, <2>2, <2>3 DEF LineTrue
<1>13. \A k \in 1..l : After(stream[k], line)
  BY <1>1, <1>2, <1>3, <1>5, <1>10 DEF After
<1>14. \A k \in 1..l + 1 : LineTrue(more[k], a, m)
  BY <1>4, <1>9, <1>11, <1>12
<1>15. ASSUME NEW i \in 1..l + 1, NEW j \in 1..l + 1, i < j PROVE After(more[i], more[j])
  <2>1. i \in 1..l
    BY <1>4, <1>15
  <2>2. CASE j \in 1..l
    BY <1>4, <1>5, <1>15, <2>1, <2>2
  <2>3. CASE j = l + 1
    BY <1>4, <1>13, <2>1, <2>3
  <2>4. QED BY <1>9, <2>2, <2>3
<1>16. ASSUME NEW t \in h + 1 .. m PROVE \E k \in 1..l + 1 : more[k].text = t
  <2>1. l + 1 \in 1..l + 1 /\ \A k \in 1..l : k \in 1..l + 1
    BY <1>4
  <2>2. CASE t \in h + 1 .. n
    <3>1. PICK k \in 1..l : stream[k].text = t
      BY <1>5, <2>2
    <3>2. QED BY <1>4, <2>1, <3>1
  <2>3. CASE t = n + 1
    <3>1. line.text = t
      BY <1>1, <1>6, <1>8, <2>3
    <3>2. QED BY <1>4, <2>1, <3>1
  <2>4. QED BY <1>1, <1>6, <2>2, <2>3
<1>17. ASSUME still
       PROVE  /\ m > 0 /\ (m = h => InPart(a, m))
              /\ \A k \in 1..l + 1 : more[k].kind = "result" => more[k].text < m
  <2>1. CASE line.kind = "text"
    <3>1. m = n + 1 /\ m > 0 /\ m # h
      BY <1>1, <1>7, <2>1
    <3>2. \A k \in 1..l : stream[k].text < m
      BY <1>1, <1>10, <3>1
    <3>3. QED BY <1>4, <1>7, <1>9, <1>17, <3>1, <3>2
  <2>2. CASE line.kind # "text"
    BY <1>4, <1>5, <1>7, <1>9, <1>17, <2>2
  <2>3. QED BY <2>1, <2>2
<1>18. StreamTrue(more, a, m, still)
  BY <1>1, <1>4, <1>6, <1>14, <1>15, <1>16, <1>17 DEF StreamTrue
<1>19. QED BY <1>18 DEF more, m, still

-----------------------------------------------------------------------------
(* The words of one turn: what is said, what is on its way, and what is sent. *)

Speech == <<answer, ahead, pipe, texts, partOpen>>
SpeechTrue ==
    /\ AnswerTypes(answer) /\ AnswerTrue(answer)
    /\ ahead \in Seq(Lines) /\ pipe \in Seq(Lines) /\ partOpen \in BOOLEAN
    /\ StreamTrue(ahead \o pipe, answer, texts, partOpen)

\* A turn that heard the end of a process's output has heard all of it.
Unbroken == engine = "cloud" => faults = 0
HeardOut ==
    pc = "end" /\ Unbroken =>
        /\ proc # "running"
        /\ /\ proc = "closed" \/ (proc = "exited" /\ ~holder)
           /\ engine = "cloud" => clock.age <= Hard
           => ahead = <<>> /\ pipe = <<>>

\* The invariant.
SpeechInv == EngineInv /\ SpeechTrue /\ HeardOut /\ AllSaid

\* What readline leaves of the stream.
LEMMA LineTaken ==
    ASSUME SpeechTrue, TakeLine, ahead # <<>> \/ pipe # <<>>
    PROVE  /\ ahead' \in Seq(Lines) /\ pipe' \in Seq(Lines) /\ ahead \o pipe # <<>>
           /\ (ahead \o pipe)' = Tail(ahead \o pipe) /\ NextLine = Head(ahead \o pipe)
<1>1. ahead \in Seq(Lines) /\ pipe \in Seq(Lines)
  BY DEF SpeechTrue
<1>2. CASE ahead # <<>>
  <2>1. ahead' = Tail(ahead) /\ pipe' = pipe /\ NextLine = Head(ahead)
    BY <1>2 DEF TakeLine, NextLine
  <2>2. /\ ahead' \in Seq(Lines) /\ ahead \o pipe # <<>>
        /\ Tail(ahead) \o pipe = Tail(ahead \o pipe) /\ Head(ahead) = Head(ahead \o pipe)
    BY <1>1, <1>2, <2>1
  <2>3. QED BY <1>1, <2>1, <2>2
<1>3. CASE ahead = <<>>
  <2>1. ahead' = Tail(pipe) /\ pipe' = <<>> /\ NextLine = Head(pipe) /\ pipe # <<>>
    BY <1>3 DEF TakeLine, NextLine
  <2>2. ahead \o pipe = pipe
    BY <1>1, <1>3
  <2>3. Tail(pipe) \in Seq(Lines) /\ Tail(pipe) \o <<>> = Tail(pipe) /\ <<>> \in Seq(Lines)
    BY <1>1, <2>1
  <2>4. QED BY <2>1, <2>2, <2>3
<1>4. QED BY <1>2, <1>3

\* What a step may do to the words, and who may leave the loop or answer.
SpeechMoves ==
    \/ UNCHANGED Speech
    \/ Start \/ Write \/ Read \/ Overloaded \/ TooLong \/ Denied \/ CloudRead
LoopLeft ==
    \/ ForceStop \/ EndedUnheard \/ EndOfOutput \/ CloudRead \/ CloudEndOfOutput \/ CloudRaise
    \/ Exit \/ Watchdog \/ Tick \/ UNCHANGED <<pc, proc, holder, engine, clock, ahead, pipe, faults>>
    \/ pc = "end" /\ proc = "running" /\ UNCHANGED <<engine, faults>>
AnswerGiven ==
    \/ Answered \/ CloudAnswered
    \/ UNCHANGED <<result, answer, engine, clock, proc, holder, texts, faults>>

\* Each step is one of these.
LEMMA WhoMoves ==
    EngineTypes /\ [Next]_vars =>
        /\ SpeechMoves
        /\ pc' = "end" => LoopLeft
        /\ result'.kind = "answer" => AnswerGiven
<1> SUFFICES ASSUME EngineTypes, [Next]_vars
             PROVE  SpeechMoves /\ (pc' = "end" => LoopLeft) /\ (result'.kind = "answer" => AnswerGiven)
  OBVIOUS
<1>1. result.kind # "answer" \/ pc = "over"
  BY DEF EngineTypes, NoResult
<1> USE DEF Return, Kill, Fault, Thread, process, asked, session, AfterLine, Speech, SpeechMoves, LoopLeft, AnswerGiven
<1>2. CASE Start
  BY <1>1, <1>2 DEF Start
<1>3. CASE KeyMissing
  BY <1>1, <1>3 DEF KeyMissing
<1>4. CASE StartFails
  BY <1>1, <1>4 DEF StartFails
<1>5. CASE StartDrain
  BY <1>1, <1>5 DEF StartDrain, Loop
<1>6. CASE CutByDrain
  BY <1>1, <1>6 DEF CutByDrain, Loop
<1>7. CASE Interrupt
  BY <1>1, <1>7 DEF Interrupt, Loop
<1>8. CASE ForceStop
  BY <1>1, <1>8 DEF ForceStop, Loop
<1>9. CASE HardTimeout
  BY <1>1, <1>9 DEF HardTimeout, Loop
<1>10. CASE EndedUnheard
  BY <1>1, <1>10 DEF EndedUnheard, Loop, Reads
<1>11. CASE SilentTooLong
  BY <1>1, <1>11 DEF SilentTooLong, Loop, Reads
<1>12. CASE StopWhileQuiet
  BY <1>1, <1>12 DEF StopWhileQuiet, Loop, Reads
<1>13. CASE QuietPass
  BY <1>1, <1>13 DEF QuietPass, Loop, Reads
<1>14. CASE Read
  BY <1>1, <1>14 DEF Read, Loop, Reads, Reading
<1>15. CASE EndOfOutput
  BY <1>1, <1>15 DEF EndOfOutput, Loop, Reads
<1>16. CASE Overloaded
  BY <1>1, <1>16 DEF Overloaded, Loop, Reads, Reading, ErrorLine
<1>17. CASE TooLong
  BY <1>1, <1>17 DEF TooLong, Loop, Reads, Reading, ErrorLine
<1>18. CASE Denied
  BY <1>1, <1>18 DEF Denied, Loop, Reads, Reading, ErrorLine
<1>19. CASE Raise
  BY <1>1, <1>19 DEF Raise, Loop
<1>20. CASE Awaited
  BY <1>1, <1>20 DEF Awaited
<1>21. CASE WaitTimesOut
  BY <1>1, <1>21 DEF WaitTimesOut
<1>22. CASE LostSession
  BY <1>1, <1>22 DEF LostSession, Ended
<1>23. CASE FailedOtherwise
  BY <1>1, <1>23 DEF FailedOtherwise, Ended
<1>24. CASE SaidTooLong
  BY <1>1, <1>24 DEF SaidTooLong, Ended
<1>25. CASE Answered
  BY <1>1, <1>25 DEF Answered, Ended
<1>26. CASE CloudRead
  BY <1>1, <1>26 DEF CloudRead, CloudLoop
<1>27. CASE CloudEndOfOutput
  BY <1>1, <1>27 DEF CloudEndOfOutput, CloudLoop
<1>28. CASE CloudTimeout
  BY <1>1, <1>28 DEF CloudTimeout, CloudEnded
<1>29. CASE CloudLostSession
  BY <1>1, <1>29 DEF CloudLostSession, CloudEnded
<1>30. CASE CloudRaise
  BY <1>1, <1>30 DEF CloudRaise, CloudLoop
<1>31. CASE CloudFails
  BY <1>1, <1>31 DEF CloudFails, CloudEnded
<1>32. CASE CloudAnswered
  BY <1>1, <1>32 DEF CloudAnswered, CloudEnded
<1>33. CASE CloudSilent
  BY <1>1, <1>33 DEF CloudSilent, CloudEnded
<1>34. CASE Write
  BY <1>1, <1>34 DEF Write
<1>35. CASE CloseOutput
  BY <1>1, <1>35 DEF CloseOutput
<1>36. CASE Exit
  BY <1>1, <1>36 DEF Exit
<1>37. CASE Shutdown
  BY <1>1, <1>37 DEF Shutdown
<1>38. CASE AskStop
  BY <1>1, <1>38 DEF AskStop
<1>39. CASE SeeStop
  BY <1>1, <1>39 DEF SeeStop, StopUnseen
<1>40. CASE Watchdog
  BY <1>1, <1>40 DEF Watchdog, TimerDue
<1>41. CASE Tick
  BY <1>1, <1>41 DEF Tick, StopUnseen, TimerDue
<1>42. CASE UNCHANGED vars
  BY <1>1, <1>42 DEF vars
<1> HIDE DEF Return, Kill, Fault, Thread, process, asked, session, AfterLine, Speech, SpeechMoves, LoopLeft, AnswerGiven
<1>43. QED
  BY <1>2, <1>3, <1>4, <1>5, <1>6, <1>7, <1>8, <1>9, <1>10, <1>11, <1>12, <1>13,
     <1>14, <1>15, <1>16, <1>17, <1>18, <1>19, <1>20, <1>21, <1>22, <1>23, <1>24, <1>25,
     <1>26, <1>27, <1>28, <1>29, <1>31, <1>32, <1>33, <1>34, <1>35, <1>36, <1>37, <1>38,
     <1>39, <1>40, <1>41, <1>42, <1>30
     DEF Next, ClaudePass, CodexPass, GeminiPass, CloudPass, PlainPass, Returned

\* Every step keeps the answer and the stream as they should be.
LEMMA SpeechStep == EngineTypes /\ SpeechTrue /\ [Next]_vars => SpeechTrue'
<1> SUFFICES ASSUME EngineTypes, SpeechTrue, [Next]_vars PROVE SpeechTrue'
  OBVIOUS
<1> DEFINE stream == ahead \o pipe
<1>1. AnswerTypes(answer) /\ AnswerTrue(answer) /\ StreamTrue(stream, answer, texts, partOpen)
  BY DEF SpeechTrue
<1>2. CASE UNCHANGED Speech
  BY <1>2 DEF Speech, SpeechTrue
<1>3. CASE Start
  <2>1. /\ answer' = NoAnswer /\ ahead' = <<>> /\ pipe' = <<>> /\ texts' = 0 /\ partOpen' = FALSE
    BY <1>3 DEF Start
  <2>2. AnswerTypes(NoAnswer) /\ AnswerTrue(NoAnswer)
    BY DEF AnswerTypes, NoAnswer, AnswerTrue, SaidInOrder, PartsInOrder, InOrder, Texts
  <2>3. StreamTrue(<<>>, NoAnswer, 0, FALSE)
    BY DEF StreamTrue, NoAnswer
  <2>4. <<>> \in Seq(Lines) /\ <<>> \o <<>> = <<>>
    OBVIOUS
  <2>5. QED BY <2>1, <2>2, <2>3, <2>4 DEF SpeechTrue
<1>4. CASE Write
  <2>1. PICK kind \in Kinds :
          \E text \in CASE kind = "text" -> {texts + 1}
                        [] kind = "result" -> {0, texts + 1} \cup (IF partOpen THEN {texts} ELSE {})
                        [] OTHER -> {0} :
            /\ pipe' = Append(pipe, Line(kind, text))
            /\ texts' = IF text > texts THEN text ELSE texts
            /\ partOpen' = CASE kind = "text" -> TRUE [] kind = "result" -> FALSE [] OTHER -> partOpen
    BY <1>4, Zenon DEF Write
  <2>2. PICK text \in CASE kind = "text" -> {texts + 1}
                        [] kind = "result" -> {0, texts + 1} \cup (IF partOpen THEN {texts} ELSE {})
                        [] OTHER -> {0} :
            /\ pipe' = Append(pipe, Line(kind, text))
            /\ texts' = IF text > texts THEN text ELSE texts
            /\ partOpen' = CASE kind = "text" -> TRUE [] kind = "result" -> FALSE [] OTHER -> partOpen
    BY <2>1, Zenon
  <2>3. UNCHANGED <<ahead, answer>>
    BY <1>4 DEF Write
  <2>4. texts \in Nat /\ partOpen \in BOOLEAN
    BY DEF SpeechTrue, StreamTrue
  <2> DEFINE line == Line(kind, text)
  <2>5. line \in [kind : LineKinds, text : Int] /\ line.kind = kind /\ line.text = text
    BY <2>2, <2>4 DEF Line, LineKinds, Kinds
  <2>6. MayBeWritten(line, texts, partOpen)
    BY <2>2, <2>5 DEF MayBeWritten
  <2>7. line \in Lines
    BY <2>2, <2>4, <2>5 DEF Lines
  <2> HIDE DEF line
  <2>8. ahead \o Append(pipe, line) = Append(stream, line) /\ Append(pipe, line) \in Seq(Lines)
    BY <2>7 DEF SpeechTrue
  <2>9. StreamTrue(Append(stream, line), answer, IF line.text > texts THEN line.text ELSE texts,
                   CASE line.kind = "text" -> TRUE [] line.kind = "result" -> FALSE [] OTHER -> partOpen)
    BY <1>1, <2>4, <2>5, <2>6, LineWritten
  <2>10. /\ pipe' = Append(pipe, line) /\ texts' = (IF line.text > texts THEN line.text ELSE texts)
         /\ partOpen' = CASE line.kind = "text" -> TRUE [] line.kind = "result" -> FALSE [] OTHER -> partOpen
    BY <2>2, <2>5 DEF line
  <2>11. StreamTrue((ahead \o pipe)', answer', texts', partOpen')
    BY <2>3, <2>8, <2>9, <2>10
  <2>12. partOpen' \in BOOLEAN
    BY <2>4, <2>10
  <2>13. QED BY <2>3, <2>8, <2>10, <2>11, <2>12 DEF SpeechTrue
\* A line is taken out and, if it is one of those that are, collected.
<1>5. ASSUME TakeLine, ahead # <<>> \/ pipe # <<>>, UNCHANGED <<texts, partOpen>>,
             answer' = Collect(answer, NextLine)
             \/ (answer' = answer /\ NextLine.kind \in {"error", "busy", "long", "denied"})
      PROVE  SpeechTrue'
  <2> DEFINE line == Head(stream)
  <2>1. /\ ahead' \in Seq(Lines) /\ pipe' \in Seq(Lines) /\ stream # <<>>
        /\ stream' = Tail(stream) /\ NextLine = line
    BY <1>5, LineTaken
  <2> HIDE DEF stream
  <2>2. line \in Lines /\ MayCome(answer, line)
    BY <1>1, <2>1, HeadMayCome
  <2>3. ASSUME answer' = Collect(answer, line)
        PROVE  /\ AnswerTypes(answer') /\ AnswerTrue(answer')
               /\ StreamTrue(Tail(stream), answer', texts, partOpen)
    <3>1. /\ AnswerTypes(answer') /\ AnswerTrue(answer') /\ HeardLine(answer, line, answer')
      BY <1>1, <2>2, <2>3, LineCollected DEF HeardLine
    <3>2. StreamTrue(Tail(stream), answer', texts, partOpen)
      BY <1>1, <2>1, <3>1, TailTrue, Zenon
    <3>3. QED BY <3>1, <3>2
  <2>4. ASSUME answer' = answer, line.kind \in {"error", "busy", "long", "denied"}
        PROVE  /\ AnswerTypes(answer') /\ AnswerTrue(answer')
               /\ StreamTrue(Tail(stream), answer', texts, partOpen)
    <3>1. line.text = 0 /\ answer.heard \in Nat
      BY <1>1, <2>2, <2>4 DEF MayCome, AnswerTypes
    <3>2. HeardLine(answer, line, answer')
      BY <1>1, <2>4, <3>1 DEF HeardLine
    <3>3. StreamTrue(Tail(stream), answer', texts, partOpen)
      BY <1>1, <2>1, <3>2, TailTrue, Zenon
    <3>4. QED BY <1>1, <2>4, <3>3
  <2>5. AnswerTypes(answer') /\ AnswerTrue(answer') /\ StreamTrue(Tail(stream), answer', texts, partOpen)
    BY <1>5, <2>1, <2>3, <2>4
  <2>6. StreamTrue(stream', answer', texts', partOpen')
    BY <1>5, <2>1, <2>5
  <2>7. partOpen' \in BOOLEAN
    BY <1>5 DEF SpeechTrue
  <2>8. QED BY <2>1, <2>5, <2>6, <2>7 DEF SpeechTrue, stream
<1>6. CASE Read
  BY <1>5, <1>6 DEF Read, Reading
<1>7. CASE Overloaded
  BY <1>5, <1>7 DEF Overloaded, ErrorLine, Reading, AfterLine
<1>8. CASE TooLong
  BY <1>5, <1>8 DEF TooLong, ErrorLine, Reading, AfterLine
<1>9. CASE Denied
  BY <1>5, <1>9 DEF Denied, ErrorLine, Reading, AfterLine
<1>10. CASE CloudRead
  BY <1>5, <1>10 DEF CloudRead
<1>11. QED BY <1>2, <1>3, <1>4, <1>6, <1>7, <1>8, <1>9, <1>10, WhoMoves DEF SpeechMoves

\* The texts of messages are numbers above zero.
LEMMA TextsNumbered ==
    ASSUME NEW sent \in Seq(Seq(Int))
    PROVE  \A t \in Texts(sent) : t \in Nat /\ t > 0
<1>1. TAKE t \in Texts(sent)
<1>2. PICK m \in DOMAIN sent : t \in ToSet(sent[m])
  BY <1>1, Zenon DEF Texts
<1>3. sent[m] \in Seq(Int) /\ t > 0
  BY <1>1, <1>2 DEF Texts
<1>4. PICK i \in DOMAIN sent[m] : sent[m][i] = t
  BY <1>2, Zenon DEF ToSet
<1>5. t \in Int
  BY <1>3, <1>4
<1>6. QED BY <1>3, <1>5

\* One message has the texts of its words, and two with the same texts are no different.
LEMMA OneMessage ==
    ASSUME NEW s \in Seq(Int),
           \A i, j \in 1..Len(s) : i < j /\ s[i] > 0 /\ s[j] > 0 => s[i] < s[j]
    PROVE  /\ <<s>> \in Seq(Seq(Int)) /\ InOrder(<<s>>)
           /\ \A t \in Int : t \in Texts(<<s>>) <=> t > 0 /\ \E i \in 1..Len(s) : s[i] = t
<1> DEFINE none == <<>>
<1>1. none \in Seq(Seq(Int)) /\ Append(none, s) = <<s>> /\ Len(none) = 0
  OBVIOUS
<1>2. InOrder(none) /\ Texts(none) = {}
  BY DEF InOrder, Texts
<1> HIDE DEF none
<1>3. \A m \in 1..Len(none), j \in 1..Len(s) : \A i \in 1..Len(none[m]) :
         none[m][i] > 0 /\ s[j] > 0 => none[m][i] < s[j]
  BY <1>1
<1>4. /\ Append(none, s) \in Seq(Seq(Int)) /\ InOrder(Append(none, s))
      /\ \A t \in Int : t \in Texts(Append(none, s)) <=>
           t \in Texts(none) \/ (t > 0 /\ \E i \in 1..Len(s) : s[i] = t)
  BY <1>1, <1>2, <1>3, MessageAdded, Zenon
<1>5. QED BY <1>1, <1>2, <1>4, Zenon

\* Messages with the same texts.
LEMMA SameTexts ==
    ASSUME NEW p \in Seq(Seq(Int)), NEW q \in Seq(Seq(Int)),
           \A t \in Nat : t > 0 => (t \in Texts(p) <=> t \in Texts(q))
    PROVE  Texts(p) = Texts(q)
<1>1. \A t : t \in Texts(p) => t \in Nat /\ t > 0
  BY TextsNumbered, Zenon
<1>2. \A t : t \in Texts(q) => t \in Nat /\ t > 0
  BY TextsNumbered, Zenon
<1>3. \A t : t \in Texts(p) <=> t \in Texts(q)
  BY <1>1, <1>2, Zenon
<1>4. QED BY <1>3, Zenon

\* The words of an answer as one message.
LEMMA AllInOne ==
    ASSUME NEW a, AnswerTypes(a), SaidInOrder(a), NEW s, s = a.said \/ s = Append(a.said, Note)
    PROVE  /\ <<s>> \in Seq(Seq(Int)) /\ InOrder(<<s>>) /\ Texts(<<s>>) = 1..a.heard
<1> DEFINE w == a.said
           h == a.heard
           n == Len(s)
           k == Len(w)
<1>1. w \in Seq(Int) /\ h \in Nat /\ k \in Nat /\ (s = w \/ s = Append(w, Note)) /\ Note = -1
  BY DEF AnswerTypes, Note
<1>2. /\ w \in Seq(Int) /\ h \in Nat /\ s \in Seq(Int) /\ n \in Nat /\ k \in Nat
      /\ n = k \/ (n = k + 1 /\ s[n] = -1)
      /\ \A i \in 1..k : s[i] = w[i]
  <2> HIDE DEF w, h
  <2>1. CASE s = w
    BY <1>1, <2>1
  <2>2. CASE s = Append(w, Note)
    BY <1>1, <2>2
  <2>3. QED BY <1>1, <2>1, <2>2
<1>3. /\ \A i, j \in 1..k : i < j /\ w[i] > 0 /\ w[j] > 0 => w[i] < w[j]
      /\ \A t \in Nat : t > 0 => (t <= h <=> \E i \in 1..k : w[i] = t)
  BY DEF SaidInOrder
<1> HIDE DEF w, h, n, k
<1>4. \A i \in 1..n : s[i] > 0 => i \in 1..k
  BY <1>2
<1>5. \A i \in 1..k : i \in 1..n /\ s[i] = w[i]
  BY <1>2
<1>6. \A i, j \in 1..n : i < j /\ s[i] > 0 /\ s[j] > 0 => s[i] < s[j]
  BY <1>3, <1>4, <1>5
<1>7. \A t \in Nat : t > 0 => (t <= h <=> \E i \in 1..n : s[i] = t)
  BY <1>3, <1>4, <1>5
<1>8. /\ <<s>> \in Seq(Seq(Int)) /\ InOrder(<<s>>)
      /\ \A t \in Int : t \in Texts(<<s>>) <=> t > 0 /\ \E i \in 1..n : s[i] = t
  BY <1>2, <1>6, OneMessage DEF n
<1>9. \A t : t \in Texts(<<s>>) <=> t \in 1..h
  <2>1. \A t \in Nat : t > 0 => (t \in Texts(<<s>>) <=> t <= h)
    BY <1>7, <1>8
  <2>2. \A t : t \in Texts(<<s>>) => t \in Nat /\ t > 0
    BY <1>8, TextsNumbered, Zenon
  <2>3. \A t : t \in 1..h <=> t \in Nat /\ t > 0 /\ t <= h
    BY <1>2
  <2>4. QED BY <2>1, <2>2, <2>3, Zenon
<1>10. Texts(<<s>>) = 1..h
  BY <1>9, Zenon
<1>11. QED BY <1>8, <1>10 DEF h

\* The parts, with or without a note of their own, are the words before the last result,
\* and with a text have all before it.
LEMMA PartsOnly ==
    ASSUME NEW a, AnswerTypes(a), AnswerTrue(a),
           NEW p, p = a.parts \/ p = Append(a.parts, <<Note>>)
    PROVE  /\ InOrder(p) /\ Texts(p) = Texts(<<SubSeq(a.said, 1, a.start)>>)
           /\ \A t \in Texts(p) : 1..t \subseteq Texts(p)
<1> DEFINE w == a.said
           h == a.heard
           st == a.start
           k == Len(w)
           q == SubSeq(w, 1, st)
<1>1. w \in Seq(Int) /\ h \in Nat /\ st \in Nat /\ st <= k /\ k \in Nat /\ a.parts \in Seq(Seq(Int))
  BY DEF AnswerTypes, AnswerTrue, PartsInOrder
<1>2. /\ \A i, j \in 1..k : i < j /\ w[i] > 0 /\ w[j] > 0 => w[i] < w[j]
      /\ \A t \in Nat : t > 0 => (t <= h <=> \E i \in 1..k : w[i] = t)
      /\ \A t \in Nat : t > 0 => (t \in Texts(a.parts) <=> \E i \in 1..st : w[i] = t)
      /\ InOrder(a.parts)
  BY DEF AnswerTrue, SaidInOrder, PartsInOrder
<1>3. q \in Seq(Int) /\ Len(q) = st /\ \A i \in 1..st : q[i] = w[i]
  <2>1. w \in Seq(Int) /\ st \in Nat /\ st <= Len(w)
    BY <1>1
  <2> HIDE DEF w, st
  <2>2. \A i \in 1..st : w[i] \in Int
    BY <2>1
  <2>3. /\ q \in Seq(Int) /\ Len(q) = (IF 1 <= st THEN st - 1 + 1 ELSE 0)
        /\ \A i \in 1 .. st - 1 + 1 : q[i] = w[1 + i - 1]
    BY <2>1, <2>2, SubSeqProperties
  <2> HIDE DEF q
  <2>4. (IF 1 <= st THEN st - 1 + 1 ELSE 0) = st /\ st - 1 + 1 = st /\ \A i \in 1..st : 1 + i - 1 = i
    BY <2>1
  <2>5. QED BY <2>3, <2>4
<1> HIDE DEF w, h, st, k, q
<1>4. /\ <<q>> \in Seq(Seq(Int))
      /\ \A t \in Int : t \in Texts(<<q>>) <=> t > 0 /\ \E i \in 1..st : w[i] = t
  <2>1. \A i \in 1..st : i \in 1..k
    BY <1>1
  <2>2. \A i, j \in 1..st : i < j /\ q[i] > 0 /\ q[j] > 0 => q[i] < q[j]
    BY <1>2, <1>3, <2>1
  <2>3. \A t \in Int : (\E i \in 1..Len(q) : q[i] = t) <=> \E i \in 1..st : w[i] = t
    BY <1>3
  <2>4. QED BY <1>3, <2>2, <2>3, OneMessage
<1>5. /\ p \in Seq(Seq(Int)) /\ InOrder(p)
      /\ \A t \in Nat : t > 0 => (t \in Texts(p) <=> t \in Texts(a.parts))
  <2>1. CASE p = a.parts
    BY <1>1, <1>2, <2>1
  <2>2. CASE p = Append(a.parts, <<Note>>)
    <3> DEFINE note == <<Note>>
    <3>1. note \in Seq(Int) /\ Len(note) = 1 /\ note[1] = -1
      BY DEF Note
    <3>2. p = Append(a.parts, note)
      BY <2>2
    <3> HIDE DEF note
    <3>3. /\ \A i, j \in 1..Len(note) : i < j /\ note[i] > 0 /\ note[j] > 0 => note[i] < note[j]
          /\ \A m \in 1..Len(a.parts), j \in 1..Len(note) : \A i \in 1..Len(a.parts[m]) :
               a.parts[m][i] > 0 /\ note[j] > 0 => a.parts[m][i] < note[j]
          /\ \A t \in Nat : ~ \E i \in 1..Len(note) : note[i] = t
      BY <3>1
    <3> DEFINE parts == a.parts
    <3>4. /\ parts \in Seq(Seq(Int)) /\ InOrder(parts)
          /\ \A m \in 1..Len(parts), j \in 1..Len(note) : \A i \in 1..Len(parts[m]) :
               parts[m][i] > 0 /\ note[j] > 0 => parts[m][i] < note[j]
      BY <1>1, <1>2, <3>3
    <3> HIDE DEF parts
    <3>5. /\ Append(parts, note) \in Seq(Seq(Int)) /\ InOrder(Append(parts, note))
          /\ \A t \in Int : t \in Texts(Append(parts, note)) <=>
               t \in Texts(parts) \/ (t > 0 /\ \E i \in 1..Len(note) : note[i] = t)
      BY <3>1, <3>3, <3>4, MessageAdded
    <3>6. \A t \in Nat : t \in Int
      OBVIOUS
    <3>7. p = Append(parts, note)
      BY <3>2 DEF parts
    <3>8. \A t \in Nat : t \in Texts(p) <=> t \in Texts(parts)
      BY <3>3, <3>5, <3>6, <3>7, Zenon
    <3>9. QED BY <3>5, <3>7, <3>8 DEF parts
  <2>3. QED BY <2>1, <2>2
<1>6. \A t \in Nat : t > 0 => (t \in Texts(p) <=> \E i \in 1..st : w[i] = t)
  BY <1>2, <1>5
<1>7. Texts(p) = Texts(<<q>>)
  <2>1. \A t \in Nat : t > 0 => (t \in Texts(p) <=> t \in Texts(<<q>>))
    BY <1>4, <1>6
  <2>2. QED BY <1>4, <1>5, <2>1, SameTexts
<1>8. ASSUME NEW t \in Texts(p), NEW u \in 1..t PROVE u \in Texts(p)
  <2>1. t \in Nat /\ t > 0 /\ u \in Nat /\ u > 0 /\ u <= t
    BY <1>5, <1>8, TextsNumbered
  <2>2. PICK i \in 1..st : w[i] = t
    BY <1>6, <2>1
  <2>3. i \in 1..k
    BY <1>1
  <2>4. t <= h
    BY <1>2, <2>1, <2>2, <2>3
  <2>5. PICK j \in 1..k : w[j] = u
    BY <1>1, <1>2, <2>1, <2>4
  <2>6. ~(i < j)
    BY <1>2, <2>1, <2>2, <2>3, <2>5
  <2>7. j \in 1..st
    BY <1>1, <2>6
  <2>8. QED BY <1>6, <2>1, <2>5, <2>7
<1>9. QED BY <1>5, <1>7, <1>8 DEF q, w, st

\* Who leaves the loop has heard the end of the output, or seen the process killed.
LEMMA HeardStep == EngineInv /\ HeardOut /\ [Next]_vars => HeardOut'
<1> SUFFICES ASSUME EngineInv, HeardOut, [Next]_vars, pc' = "end" PROVE HeardOut'
  BY DEF HeardOut
<1>1. EngineTypes /\ clock.age \in Nat /\ Hard \in Nat
  BY EngineNumbers DEF EngineInv, ClockTrue
<1> USE DEF Kill, Thread, process, Alive, HeardOut, Unbroken
<1>2. CASE ForceStop
  BY <1>2 DEF ForceStop
<1>3. CASE EndedUnheard
  BY <1>1, <1>3 DEF EndedUnheard, Reads, Loop, Ready, EngineTypes
<1>4. CASE EndOfOutput
  BY <1>1, <1>4 DEF EndOfOutput, Reads, Loop, Ready
<1>5. CASE CloudRead
  BY <1>1, <1>5 DEF CloudRead, CloudLoop
<1>6. CASE CloudEndOfOutput
  BY <1>1, <1>6 DEF CloudEndOfOutput, CloudLoop
<1>7. CASE Exit
  BY <1>1, <1>7 DEF Exit
<1>8. CASE Watchdog
  BY <1>1, <1>8 DEF Watchdog, TimerDue, EngineTypes
<1>9. CASE Tick
  BY <1>1, <1>9 DEF Tick, TimerDue
<1>10. CASE UNCHANGED <<pc, proc, holder, engine, clock, ahead, pipe, faults>>
  BY <1>10
<1>11. CASE pc = "end" /\ proc = "running" /\ UNCHANGED <<engine, faults>>
  BY <1>11
<1>12. CASE CloudRaise
  <2>1. engine' = "cloud" /\ faults' = faults + 1
    BY <1>12 DEF CloudRaise, CloudLoop, Fault
  <2>2. faults' # 0
    <3>1. faults \in Nat
      BY <1>1 DEF EngineTypes
    <3>2. QED BY <2>1, <3>1
  <2>3. ~Unbroken'
    BY <2>1, <2>2 DEF Unbroken
  <2>4. QED BY <2>3
<1> HIDE DEF Kill, Thread, process, Alive, HeardOut, Unbroken
<1>13. QED
  BY <1>1, <1>2, <1>3, <1>4, <1>5, <1>6, <1>7, <1>8, <1>9, <1>10, <1>11, <1>12, WhoMoves DEF LoopLeft

\* What is sent is what was said, in one message or in its parts.
LEMMA SentIsSaid ==
    ASSUME NEW a, AnswerTypes(a), AnswerTrue(a), NEW noted \in BOOLEAN,
           NEW sent, sent = Outgoing(IF noted THEN Noted(a) ELSE a)
    PROVE  /\ InOrder(sent) /\ \A t \in Texts(sent) : 1..t \subseteq Texts(sent)
           /\ \/ Texts(sent) = 1..a.heard
              \/ /\ engine = "claude" /\ Len(a.parts) + (IF noted THEN 1 ELSE 0) > 1
                 /\ Texts(sent) = Texts(<<SubSeq(a.said, 1, a.start)>>)
<1> DEFINE said == IF noted THEN Append(a.said, Note) ELSE a.said
           parts == IF noted THEN Append(a.parts, <<Note>>) ELSE a.parts
<1>1. sent = IF engine = "claude" /\ Len(parts) > 1 THEN parts ELSE <<said>>
  BY DEF Outgoing, Noted, AnswerTypes
<1>2. Len(parts) = Len(a.parts) + (IF noted THEN 1 ELSE 0)
  <2>1. a.parts \in Seq(Seq(Int))
    BY DEF AnswerTypes
  <2> DEFINE note == <<Note>>
             old == a.parts
  <2>2. old \in Seq(Seq(Int)) /\ parts = IF noted THEN Append(old, note) ELSE old
    BY <2>1
  <2> HIDE DEF note, old, parts
  <2>3. Len(parts) = Len(old) + (IF noted THEN 1 ELSE 0)
    BY <2>2
  <2>4. QED BY <2>3 DEF old
<1>3. said = a.said \/ said = Append(a.said, Note)
  OBVIOUS
<1>4. parts = a.parts \/ parts = Append(a.parts, <<Note>>)
  OBVIOUS
<1> HIDE DEF said, parts
<1>5. CASE engine = "claude" /\ Len(parts) > 1
  <2>1. sent = parts
    BY <1>1, <1>5
  <2>2. /\ InOrder(parts) /\ Texts(parts) = Texts(<<SubSeq(a.said, 1, a.start)>>)
        /\ \A t \in Texts(parts) : 1..t \subseteq Texts(parts)
    BY <1>4, PartsOnly, Zenon
  <2>3. QED BY <1>2, <1>5, <2>1, <2>2
<1>6. CASE ~(engine = "claude" /\ Len(parts) > 1)
  <2>1. sent = <<said>>
    BY <1>1, <1>6
  <2>2. InOrder(<<said>>) /\ Texts(<<said>>) = 1..a.heard
    <3>1. SaidInOrder(a)
      BY DEF AnswerTrue
    <3>2. QED BY <1>3, <3>1, AllInOne, Zenon
  <2>3. a.heard \in Nat
    BY DEF AnswerTypes
  <2>4. \A t \in 1..a.heard : 1..t \subseteq 1..a.heard
    BY <2>3
  <2>5. QED BY <2>1, <2>2, <2>4, Zenon
<1>7. QED BY <1>5, <1>6

\* An answer sends what was said, and nothing is on its way any more.
LEMMA SaidStep == SpeechInv /\ [Next]_vars => AllSaid'
<1> SUFFICES ASSUME SpeechInv, [Next]_vars, result'.kind = "answer" PROVE AllSaid'
  BY DEF AllSaid
<1>1. EngineTypes /\ SpeechTrue /\ HeardOut /\ AllSaid /\ ClockTrue
  BY DEF SpeechInv, EngineInv
<1>2. ASSUME pc = "end", ~Alive, UNCHANGED <<engine, process, ahead, answer, clock, faults>>,
             NEW noted \in BOOLEAN, noted <=> clock.grace # -1,
             result' = [kind |-> "answer", sent |-> Outgoing(IF noted THEN Noted(answer) ELSE answer)]
      PROVE  AllSaid'
  <2> DEFINE sent == Outgoing(IF noted THEN Noted(answer) ELSE answer)
  <2>1. AnswerTypes(answer) /\ AnswerTrue(answer)
    BY <1>1 DEF SpeechTrue
  <2>2. /\ InOrder(sent) /\ \A t \in Texts(sent) : 1..t \subseteq Texts(sent)
        /\ \/ Texts(sent) = 1..answer.heard
           \/ /\ engine = "claude" /\ Len(answer.parts) + (IF noted THEN 1 ELSE 0) > 1
              /\ Texts(sent) = Texts(<<SubSeq(answer.said, 1, answer.start)>>)
    BY <2>1, SentIsSaid
  <2>3. ASSUME proc = "exited", ~holder, engine = "cloud" => clock.age <= Hard /\ faults = 0
        PROVE  answer.heard = texts
    <3>1. ahead = <<>> /\ pipe = <<>>
      BY <1>1, <1>2, <2>3 DEF HeardOut, Unbroken
    <3>2. ahead \o pipe = <<>> /\ Len(ahead \o pipe) = 0
      BY <3>1
    <3>3. /\ answer.heard \in Nat /\ texts \in Nat /\ answer.heard <= texts
          /\ \A t \in answer.heard + 1 .. texts : \E k \in 1..Len(ahead \o pipe) : (ahead \o pipe)[k].text = t
      BY <1>1, <2>1 DEF SpeechTrue, StreamTrue, AnswerTypes
    <3>4. ~ \E t \in answer.heard + 1 .. texts : TRUE
      BY <3>2, <3>3
    <3>5. texts \notin answer.heard + 1 .. texts
      BY <3>4
    <3>6. QED BY <3>3, <3>5
  <2>4. (IF noted THEN 1 ELSE 0) = (IF clock.grace = -1 THEN 0 ELSE 1)
    BY <1>2
  <2>5. result'.sent = sent
    BY <1>2
  <2> HIDE DEF sent
  <2>6. /\ answer' = answer /\ engine' = engine /\ clock' = clock /\ proc' = proc /\ holder' = holder
        /\ texts' = texts /\ faults' = faults
    BY <1>2 DEF process
  <2>7. QED BY <2>2, <2>3, <2>4, <2>5, <2>6 DEF AllSaid
<1>3. CASE Answered
  <2> DEFINE noted == clock.grace # -1
  <2>1. noted \in BOOLEAN /\ (noted <=> clock.grace # -1)
    OBVIOUS
  <2>2. (IF noted THEN Noted(answer) ELSE answer) = (IF clock.grace = -1 THEN answer ELSE Noted(answer))
    OBVIOUS
  <2>3. /\ pc = "end" /\ ~Alive /\ UNCHANGED <<engine, process, ahead, answer, clock, faults>>
        /\ result' = [kind |-> "answer", sent |-> Outgoing(IF clock.grace = -1 THEN answer ELSE Noted(answer))]
    BY <1>3 DEF Answered, Ended, Return
  <2>4. result' = [kind |-> "answer", sent |-> Outgoing(IF noted THEN Noted(answer) ELSE answer)]
    BY <2>2, <2>3
  <2> HIDE DEF noted
  <2>5. QED BY <1>2, <2>1, <2>3, <2>4
<1>4. CASE CloudAnswered
  <2>1. /\ pc = "end" /\ ~Alive /\ UNCHANGED <<engine, process, ahead, answer, clock, faults>>
        /\ result' = [kind |-> "answer", sent |-> Outgoing(answer)] /\ engine = "cloud"
    BY <1>4 DEF CloudAnswered, CloudEnded, Return
  <2>2. clock.grace = -1
    BY <2>1 DEF SpeechInv, EngineInv, CloudClock
  <2>3. FALSE \in BOOLEAN /\ (FALSE <=> clock.grace # -1) /\ (IF FALSE THEN Noted(answer) ELSE answer) = answer
    BY <2>2
  <2>4. QED BY <1>2, <2>1, <2>3
<1>5. CASE UNCHANGED <<result, answer, engine, clock, proc, holder, texts, faults>>
  BY <1>1, <1>5 DEF AllSaid
<1>6. QED BY <1>1, <1>3, <1>4, <1>5, WhoMoves DEF AnswerGiven

\* Nothing is said at first.
LEMMA SpeechStarts == Init => SpeechInv
<1> SUFFICES ASSUME Init PROVE SpeechInv
  OBVIOUS
<1>1. EngineInv
  BY EngineStarts
<1>2. /\ answer = NoAnswer /\ ahead = <<>> /\ pipe = <<>> /\ texts = 0 /\ partOpen = FALSE
      /\ pc = "start" /\ result = NoResult
  BY DEF Init
<1>3. AnswerTypes(NoAnswer) /\ AnswerTrue(NoAnswer)
  BY DEF AnswerTypes, NoAnswer, AnswerTrue, SaidInOrder, PartsInOrder, InOrder, Texts
<1>4. StreamTrue(<<>>, NoAnswer, 0, FALSE)
  BY DEF StreamTrue, NoAnswer
<1>5. <<>> \in Seq(Lines) /\ <<>> \o <<>> = <<>>
  OBVIOUS
<1>6. SpeechTrue
  BY <1>2, <1>3, <1>4, <1>5 DEF SpeechTrue
<1>7. HeardOut /\ AllSaid
  BY <1>2 DEF HeardOut, AllSaid, NoResult
<1>8. QED BY <1>1, <1>6, <1>7 DEF SpeechInv

\* For any limits and any output: what the turn has collected is each text it has read, in
\* order, its parts are what of it stands before the last result, the lines still on their
\* way bring every other text written, and who hears the end of the output has heard it all
\* (the loops of run_claude, run_codex and run_gemini, and run_claude_turn of the cloud).
THEOREM SpeechInvariant == Spec => []SpeechInv
<1>1. SpeechInv /\ [Next]_vars => SpeechInv'
  <2> SUFFICES ASSUME SpeechInv, [Next]_vars PROVE SpeechInv'
    OBVIOUS
  <2>1. EngineInv'
    BY EngineTypeStep, ClockStep, PassStep, BoundStep DEF SpeechInv, EngineInv
  <2>2. SpeechTrue'
    BY SpeechStep DEF SpeechInv, EngineInv
  <2>3. HeardOut'
    BY HeardStep DEF SpeechInv
  <2>4. AllSaid'
    BY SaidStep
  <2>5. QED BY <2>1, <2>2, <2>3, <2>4 DEF SpeechInv
<1>2. QED BY SpeechStarts, <1>1, PTL DEF Spec

\* What is sent is what was said: every text the turn has read, once and in order, or, where
\* Claude's parts are sent one by one, every one up to its last result; and it has read all
\* that a process wrote which ended by itself (the messages worker.py sends of a turn).
THEOREM AllIsSaid == Spec => []AllSaid
<1>1. SpeechInv => AllSaid
  BY DEF SpeechInv
<1>2. QED BY SpeechInvariant, <1>1, PTL

=============================================================================
