------------------------------ MODULE Meetings ------------------------------
(***************************************************************************)
(* One meeting in the home portal (scripts/home-portal.js, its endpoints   *)
(* /api/meetings/..., and scripts/meeting/).  A browser uploads the        *)
(* recording chunk by chunk, or only the captions it took down itself; the *)
(* portal keeps the audio and a file of metadata, has the audio            *)
(* transcribed, writes the transcript into the project's documents and     *)
(* asks the project's agent for the minutes.  Timers sweep up what a       *)
(* restart, a lost connection or a refusal left behind.                    *)
(*                                                                         *)
(* The portal is one node process: what stands between two awaits is not   *)
(* interleaved.  Each job below (the handler of an upload or of captions,  *)
(* the sweep, the timer of the minutes, a labelling) moves from one await  *)
(* to the next; `running` holds the process where a crash may fall between *)
(* two writes of one such stretch.                                         *)
(***************************************************************************)
EXTENDS Naturals, Sequences, FiniteSets

CONSTANTS
    Chunks,        \* chunks of the recording
    MaxAttempts,   \* precise transcriptions tried before the sweep lets go
    MaxFaults,     \* crashes, lost answers, refusals and failures of one behaviour
    NoFile,        \* in the place of a file that is not there
    Torn           \* in the place of a file whose writing was cut

ASSUME MeetingsAssumption ==
    /\ Chunks \in Nat \ {0, 1}
    /\ MaxAttempts \in Nat
    /\ MaxFaults \in Nat

Transcripts == {"precise", "fallback", "live"}

(* The metadata of a meeting, as far as they are looked at.               *)
Metadata ==
    [status : {"processing", "transcribed", "minutes_pending", "failed"},
     phase : {NoFile, "transcribing", "processing", "done", "fallback", "live"},
     source : {"audio", "live"}, doc : {NoFile} \cup Transcripts,
     attempts : Nat, asked : BOOLEAN, captions : BOOLEAN, age : 0 .. 2]

ASSUME FileAssumption ==
    /\ NoFile # Torn
    /\ NoFile \notin Metadata \cup Seq(Nat) \cup Transcripts /\ Torn \notin Metadata

VARIABLES
    client,        \* the browser: what it sends, how far it is, whether it says how long the
                   \* whole is (totalSize), whether names were entered
    part,          \* the file the chunks are put together in, or NoFile
    upto,          \* the state file: the next chunk expected; a missing file reads as 0
    audio,         \* the stored recording, or NoFile
    meta,          \* the metadata file: a record, NoFile, or Torn
    docs,          \* the transcripts in the project's documents
    job,           \* per job: where it waits and the metadata it read at its start
    running,       \* the job in the middle of a stretch without await, or NoJob
    posted,        \* requests for new minutes that reached the project's chat
    stored,        \* history: a recording was stored
    excused,       \* history: a request was sent whose success somebody could not know of
    late,          \* history: a crash fell after the last chunk and before its metadata
    old,           \* the meeting is more than 48 hours old
    faults

meetingVars == <<client, part, upto, audio, meta, docs, job, running, posted, stored, excused, late, old, faults>>

Places == {"idle", "listed", "key", "sending", "polling", "noting", "dropping", "asking", "refreshing", "renaming"}
Jobs == {"upload", "live", "sweep", "auto", "label"}
NoJob == "none"
Last == Chunks - 1
Whole == [i \in 1 .. Chunks |-> i - 1]

(* A new meeting's metadata.  age is the time since the last write: 0, ten *)
(* minutes (1) or thirty (2).                                              *)
NewMeta(source, phase) ==
    [status |-> "processing", phase |-> phase, source |-> source, doc |-> NoFile,
     attempts |-> 0, asked |-> FALSE, captions |-> client.captions, age |-> 0]

Known == meta \notin {NoFile, Torn}
Idle == [at |-> "idle", snap |-> NoFile]
At(j, where) == job[j].at = where
Goes(j, where) == job' = [job EXCEPT ![j].at = where]
Ends(j) == job' = [job EXCEPT ![j] = Idle]
Free(j) == running \in {NoJob, j}

(* updateMeta: the file as it is now, with some fields replaced, and fresh.*)
Update(patch) == [f \in DOMAIN meta |-> IF f \in DOMAIN patch THEN patch[f] ELSE IF f = "age" THEN 0 ELSE meta[f]]

Faulty == faults < MaxFaults /\ faults' = faults + 1
Sound == UNCHANGED faults
History == UNCHANGED <<stored, excused, late>>

MeetingInit ==
    /\ client \in [way : {"audio", "live"}, at : {0}, knows : {"nothing"}, captions : BOOLEAN, dir : BOOLEAN,
                   sized : BOOLEAN, named : {FALSE}]
    /\ client.way = "live" => client.captions /\ client.dir /\ client.sized
    /\ part = NoFile /\ upto = 0 /\ audio = NoFile /\ meta = NoFile /\ docs = {}
    /\ job = [j \in Jobs |-> Idle] /\ running = NoJob
    /\ posted = 0 /\ stored = FALSE /\ excused = FALSE /\ late = FALSE /\ old = FALSE /\ faults = 0

-----------------------------------------------------------------------------
(* The upload.  The browser sends a chunk again when it hears no answer.   *)

Sending == client.way = "audio" /\ client.knows = "nothing" /\ running = NoJob

(* The answer reaches the browser, which goes on as it is told, or it is   *)
(* lost.                                                                   *)
Answered(c) ==
    \/ client' = c /\ Sound
    \/ client' = client /\ Faulty

Told == [client EXCEPT !.knows = "told"]
Send(i) == [client EXCEPT !.at = i]
Onward == IF client.at = Last THEN Told ELSE Send(client.at + 1)

Already ==
    /\ Sending /\ Known /\ Answered(Told)
    /\ UNCHANGED <<part, upto, audio, meta, docs, job, running, posted, old>> /\ History

(* A chunk that is in already.  Nothing looks whether it was the last one. *)
Duplicate ==
    /\ Sending /\ ~Known /\ client.at > 0 /\ client.at < upto
    /\ Answered(Onward)
    /\ UNCHANGED <<part, upto, audio, meta, docs, job, running, posted, old>> /\ History

Fits == client.at = 0 \/ (client.at = upto /\ part # NoFile)

OutOfOrder ==
    /\ Sending /\ ~Known /\ ~Fits /\ client.at >= upto
    /\ LET resume == IF part # NoFile THEN upto ELSE 0 IN
       /\ Answered(Send(resume))
       /\ part' = IF resume = 0 THEN NoFile ELSE part
       /\ upto' = IF resume = 0 THEN 0 ELSE upto
    /\ UNCHANGED <<audio, meta, docs, job, running, posted, old>> /\ History

Appended == IF client.at = 0 THEN <<0>> ELSE Append(part, client.at)

TakeChunk ==
    /\ Sending /\ ~Known /\ Fits /\ client.at < Last
    /\ part' = Appended /\ upto' = client.at + 1
    /\ Answered(Send(client.at + 1))
    /\ UNCHANGED <<audio, meta, docs, job, running, posted, old>> /\ History

(* The last chunk: the size has to be the one the browser counted, if it did. *)
SizeRight == client.sized => Len(Appended) = Chunks

WrongSize ==
    /\ Sending /\ ~Known /\ Fits /\ client.at = Last /\ ~SizeRight
    /\ part' = NoFile /\ upto' = 0
    /\ Answered(Send(0))
    /\ UNCHANGED <<audio, meta, docs, job, running, posted, old>> /\ History

TakeLast ==
    /\ Sending /\ ~Known /\ Fits /\ client.at = Last /\ SizeRight
    /\ audio' = Appended /\ part' = NoFile /\ upto' = 0
    /\ meta' = NewMeta("audio", NoFile)
    /\ job' = [job EXCEPT !["upload"] = [at |-> "key", snap |-> meta']]
    /\ stored' = TRUE
    /\ Answered(Told)
    /\ UNCHANGED <<docs, running, posted, excused, late, old>>

(* The portal dies in the middle: after the chunk was appended, after the  *)
(* state file was written, or after the recording was moved to its place.  *)
Dies == Faulty /\ job' = [j \in Jobs |-> Idle] /\ running' = NoJob

TakeCut ==
    /\ Sending /\ ~Known /\ Fits /\ Dies
    /\ \/ part' = Appended /\ UNCHANGED <<upto, audio, late>>
       \/ /\ part' = Appended /\ upto' = client.at + 1
          /\ late' = (late \/ client.at = Last) /\ UNCHANGED audio
       \/ /\ client.at = Last /\ SizeRight
          /\ audio' = Appended /\ part' = NoFile /\ upto' = Chunks /\ late' = TRUE
    /\ UNCHANGED <<client, meta, docs, posted, stored, excused, old>>

(* The sweep removes pieces a day old; the browser may still come back.    *)
CleanParts ==
    /\ Faulty /\ running = NoJob /\ (part # NoFile \/ upto > 0)
    /\ part' = NoFile /\ upto' = 0
    /\ UNCHANGED <<client, audio, meta, docs, job, running, posted, old>> /\ History

-----------------------------------------------------------------------------
(* processMeeting, for an upload and for the sweep.                        *)

Process == {"upload", "sweep"}

(* The stretch of work ends with this metadata; the job is over or waits.  *)
Rest(j, patch) == meta' = Update(patch) /\ UNCHANGED <<client, part, upto, audio, running, posted, old>> /\ History

GotKey(j) ==
    /\ At(j, "key") /\ Free(j) /\ Sound
    /\ Rest(j, [status |-> "processing", phase |-> "transcribing"])
    /\ Goes(j, "sending") /\ UNCHANGED docs

(* No key: counted as an attempt; a meeting that had its rough minutes     *)
(* already is marked as failed, too.                                       *)
NoKey(j) ==
    /\ At(j, "key") /\ Free(j) /\ Faulty
    /\ Rest(j, [status |-> "failed", attempts |-> job[j].snap.attempts + 1])
    /\ Ends(j) /\ UNCHANGED docs

(* The remuxed recording goes up, which may take as long as the line is    *)
(* slow, and is then waited for with a sign of life every two minutes.     *)
Sent(j) ==
    /\ At(j, "sending") /\ Free(j) /\ audio # NoFile /\ Sound
    /\ Rest(j, [phase |-> "processing"])
    /\ Goes(j, "polling") /\ UNCHANGED docs

Nowhere(j) ==
    /\ At(j, "polling") /\ Free(j) /\ ~client.dir /\ Sound
    /\ Rest(j, [status |-> "failed"])
    /\ Ends(j) /\ UNCHANGED docs

WriteDoc(j) ==
    /\ At(j, "polling") /\ Free(j) /\ client.dir /\ Sound
    /\ docs' = docs \cup {"precise"}
    /\ Goes(j, "noting") /\ running' = j
    /\ UNCHANGED <<client, part, upto, audio, meta, posted, old>> /\ History

(* The precise transcript replaces the one from the captions.              *)
NoteDoc(j) ==
    /\ At(j, "noting") /\ Free(j) /\ Sound
    /\ meta' = Update([status |-> "transcribed", phase |-> "done", doc |-> "precise"])
    /\ docs' = IF job[j].snap.doc = "fallback" THEN docs \ {"fallback"} ELSE docs
    /\ Goes(j, "dropping")
    /\ UNCHANGED <<client, part, upto, audio, running, posted, old>> /\ History

DropAudio(j) ==
    /\ At(j, "dropping") /\ Free(j) /\ Sound
    /\ audio' = NoFile /\ running' = NoJob
    /\ Goes(j, IF job[j].snap.asked THEN "refreshing" ELSE "asking")
    /\ UNCHANGED <<client, part, upto, meta, docs, posted, old>> /\ History

(* fallbackToLiveTranscript: the captions stand in, and the minutes are    *)
(* asked for unless that was done.                                         *)
FallbackAsking(j) == Goes(j, "asking")
FallBack(j) == IF job[j].snap.asked THEN Ends(j) ELSE Goes(j, "asking")

Rescue(j) ==
    /\ docs' = docs \cup {"fallback"}
    /\ Rest(j, [status |-> IF job[j].snap.asked THEN "minutes_pending" ELSE "transcribed",
                phase |-> "fallback", doc |-> "fallback", attempts |-> job[j].snap.attempts + 1])
    /\ FallBack(j)

(* Remux, upload, submission, polling or fetching threw; without its       *)
(* recording a job always does.                                            *)
Throws(j) ==
    /\ job[j].at \in {"sending", "polling"} /\ Free(j)
    /\ IF At(j, "sending") /\ audio = NoFile THEN Sound ELSE Faulty
    /\ IF job[j].snap.captions /\ client.dir
       THEN Rescue(j)
       ELSE /\ Rest(j, [status |-> "failed", attempts |-> job[j].snap.attempts + 1])
            /\ Ends(j) /\ UNCHANGED docs

-----------------------------------------------------------------------------
(* triggerMinutes: a message into the project's chat.  refreshing and      *)
(* renaming are the two other texts, which change minutes that exist.      *)

Asks == {"asking", "refreshing", "renaming"}

(* Some other job will act on a view of the meeting from before now.       *)
Behind(j) == \E k \in Jobs \ {j} : job[k].at # "idle" /\ job[k].snap # NoFile /\ ~job[k].snap.asked

New(j) == IF At(j, "asking") THEN 1 ELSE 0
Listener(j) == client' = IF j = "live" /\ client.knows = "waiting" THEN Told ELSE client

AskHeard(j) ==
    /\ job[j].at \in Asks /\ Free(j) /\ Sound
    /\ posted' = posted + New(j)
    /\ excused' = (excused \/ (New(j) = 1 /\ Behind(j)))
    /\ meta' = Update([status |-> "minutes_pending", asked |-> TRUE])
    /\ Ends(j) /\ Listener(j)
    /\ UNCHANGED <<part, upto, audio, docs, running, stored, late, old>>

(* The server refuses, or takes it and its answer is lost: for the code    *)
(* one and the same.                                                       *)
AskFails(j) ==
    /\ job[j].at \in Asks /\ Free(j) /\ Faulty
    /\ \/ UNCHANGED <<posted, excused>>
       \/ posted' = posted + New(j) /\ excused' = (excused \/ New(j) = 1)
    /\ IF j = "auto" THEN UNCHANGED meta ELSE meta' = Update([status |-> "transcribed"])
    /\ Ends(j) /\ Listener(j)
    /\ UNCHANGED <<part, upto, audio, docs, running, stored, late, old>>

-----------------------------------------------------------------------------
(* processLiveMeeting: captions only.                                      *)

LiveNoted == [status |-> IF meta.asked THEN "minutes_pending" ELSE "transcribed",
              phase |-> "live", source |-> "live", doc |-> "live"]

Captions ==
    /\ client.way = "live" /\ client.knows = "nothing" /\ meta = NoFile /\ running = NoJob /\ Sound
    /\ docs' = docs \cup {"live"}
    /\ meta' = [NewMeta("live", "live") EXCEPT !.status = "transcribed", !.doc = "live"]
    /\ job' = [job EXCEPT !["live"] = [at |-> "asking", snap |-> meta']]
    /\ client' = [client EXCEPT !.knows = "waiting"]
    /\ UNCHANGED <<part, upto, audio, running, posted, old>> /\ History

(* The document cannot be written: the metadata goes again, so that the    *)
(* recording can still be uploaded under the same name.                    *)
CaptionsFail ==
    /\ client.way = "live" /\ client.knows = "nothing" /\ meta = NoFile /\ running = NoJob /\ Faulty
    /\ client' = [client EXCEPT !.way = "audio"]
    /\ UNCHANGED <<part, upto, audio, meta, docs, job, running, posted, old>> /\ History

CaptionsCut ==
    /\ client.way = "live" /\ client.knows = "nothing" /\ meta = NoFile /\ Dies
    /\ meta' = NewMeta("live", "live")
    /\ UNCHANGED <<client, part, upto, audio, docs, posted, old>> /\ History

(* The browser heard nothing and sends its captions again.                 *)
CaptionsAgain ==
    /\ client.way = "live" /\ client.knows # "told" /\ Known /\ running = NoJob /\ Sound
    /\ client' = Told
    /\ UNCHANGED <<part, upto, audio, meta, docs, job, running, posted, old>> /\ History

-----------------------------------------------------------------------------
(* sweepStuckMeetings.  It lists the meetings, works one after the other,  *)
(* and judges each by what the list said.                                  *)

SweepList ==
    /\ At("sweep", "idle") /\ Known /\ running = NoJob /\ Sound
    /\ job' = [job EXCEPT !["sweep"] = [at |-> "listed", snap |-> meta]]
    /\ UNCHANGED <<client, part, upto, audio, meta, docs, running, posted, old>> /\ History

Listed(j) == At(j, "listed") /\ running = NoJob /\ Sound
Seen == job["sweep"].snap
Stuck == Seen.status = "processing" /\ Seen.age = 2
Recoverable == Seen.status # "processing" /\ (Seen.status = "failed" \/ Seen.phase = "fallback")
               /\ audio # NoFile /\ client.dir /\ Seen.attempts < MaxAttempts /\ ~old

SweepPrecise ==
    /\ Listed("sweep")
    /\ (Stuck /\ Seen.source # "live" /\ audio # NoFile /\ client.dir) \/ Recoverable
    /\ job' = [job EXCEPT !["sweep"] = [at |-> "key", snap |-> meta]]
    /\ UNCHANGED <<client, part, upto, audio, meta, docs, running, posted, old>> /\ History

SweepLive ==
    /\ Listed("sweep") /\ Stuck /\ Seen.source = "live" /\ client.dir
    /\ docs' = docs \cup {"live"}
    /\ Rest("sweep", LiveNoted)
    /\ job' = [job EXCEPT !["sweep"] = IF meta.asked THEN Idle ELSE [at |-> "asking", snap |-> meta]]

SweepFallBack ==
    /\ Listed("sweep") /\ Stuck /\ Seen.source # "live" /\ audio = NoFile /\ Seen.captions /\ client.dir
    /\ Rescue("sweep")

SweepGivesUp ==
    /\ Listed("sweep") /\ Stuck /\ Seen.source # "live"
    /\ ~client.dir \/ (audio = NoFile /\ ~Seen.captions)
    /\ Rest("sweep", [status |-> "failed"])
    /\ Ends("sweep") /\ UNCHANGED docs

(* What is left of the audio goes after 48 hours.                          *)
Expired == old

SweepRest ==
    /\ Listed("sweep") /\ ~Stuck /\ ~Recoverable
    /\ audio' = IF Seen.status # "processing" /\ Expired THEN NoFile ELSE audio
    /\ Ends("sweep")
    /\ UNCHANGED <<client, part, upto, meta, docs, running, posted, old>> /\ History

-----------------------------------------------------------------------------
(* autoTriggerPendingMinutes, which asks by its list, too; and the user's  *)
(* names, for which there is a list of speakers once there is a precise    *)
(* transcript.                                                             *)

WaitsPrecise(m) == m.status = "transcribed" /\ m.phase = "done" /\ ~m.asked /\ m.age >= 1
Waits(m) == m.status = "transcribed" /\ m.phase \in {"done", "live"} /\ ~m.asked /\ m.age >= 1

AutoList ==
    /\ At("auto", "idle") /\ Known /\ Waits(meta) /\ running = NoJob /\ Sound
    /\ job' = [job EXCEPT !["auto"] = [at |-> "listed", snap |-> meta]]
    /\ UNCHANGED <<client, part, upto, audio, meta, docs, running, posted, old>> /\ History

AutoJudge ==
    /\ Listed("auto") /\ Goes("auto", "asking")
    /\ UNCHANGED <<client, part, upto, audio, meta, docs, running, posted, old>> /\ History

Label ==
    /\ At("label", "idle") /\ Known /\ meta.doc = "precise" /\ ~client.named /\ running = NoJob /\ Sound
    /\ client' = [client EXCEPT !.named = TRUE]
    /\ meta' = Update([doc |-> "precise"])
    /\ job' = [job EXCEPT !["label"] = [at |-> IF meta.asked THEN "renaming" ELSE "asking", snap |-> meta]]
    /\ UNCHANGED <<part, upto, audio, docs, running, posted, old>> /\ History

-----------------------------------------------------------------------------
(* The portal dies and is started again.  A write of the metadata that is  *)
(* cut leaves a file that does not parse; a request that is out may have   *)
(* been taken.                                                             *)
PortalDies ==
    /\ Dies /\ \E j \in Jobs : job[j].at # "idle"
    /\ meta' \in {meta, Torn}
    /\ \E taken \in SUBSET {j \in Jobs : At(j, "asking")} :
         /\ posted' = posted + Cardinality(taken)
         /\ excused' = (excused \/ taken # {} \/ (meta' = Torn /\ posted > 0))
    /\ client' = IF client.knows = "waiting" THEN [client EXCEPT !.knows = "nothing"] ELSE client
    /\ UNCHANGED <<part, upto, audio, docs, stored, late, old>>

(* Ten minutes, then thirty, without a write.  A request for a key or for  *)
(* minutes takes less than ten, and a job that polls writes every two.     *)
Age ==
    /\ Known /\ meta.age < 2 /\ running = NoJob /\ Sound
    /\ \A j \in Jobs : job[j].at \in {"idle", "listed", "sending"}
    /\ meta' = [meta EXCEPT !.age = @ + 1]
    /\ UNCHANGED <<client, part, upto, audio, docs, job, running, posted, old>> /\ History

GrowOld ==
    /\ Known /\ ~old /\ Sound /\ \A j \in Jobs : job[j].at = "idle"
    /\ old' = TRUE
    /\ UNCHANGED <<client, part, upto, audio, meta, docs, job, running, posted>> /\ History

ProcessStep(j) ==
    \/ GotKey(j) \/ NoKey(j) \/ Sent(j) \/ Nowhere(j) \/ WriteDoc(j) \/ NoteDoc(j) \/ DropAudio(j) \/ Throws(j)
AskStep(j) == AskHeard(j) \/ AskFails(j)
SweepStep == SweepPrecise \/ SweepLive \/ SweepFallBack \/ SweepGivesUp \/ SweepRest
Browser == Already \/ Duplicate \/ OutOfOrder \/ TakeChunk \/ WrongSize \/ TakeLast \/ Captions \/ CaptionsFail \/ CaptionsAgain

MeetingNext ==
    \/ Browser \/ TakeCut \/ CaptionsCut \/ CleanParts
    \/ \E j \in Process : ProcessStep(j)
    \/ \E j \in Jobs : AskStep(j)
    \/ SweepList \/ SweepStep \/ AutoList \/ AutoJudge \/ Label
    \/ PortalDies \/ Age \/ GrowOld

(* The browser repeats what was not answered, node comes back to every     *)
(* job, the timers fire, and time passes.                                  *)
MeetingFairness ==
    /\ WF_meetingVars(Browser)
    /\ \A j \in Process : WF_meetingVars(ProcessStep(j))
    /\ \A j \in Jobs : WF_meetingVars(AskStep(j))
    /\ WF_meetingVars(SweepList) /\ WF_meetingVars(SweepStep)
    /\ WF_meetingVars(AutoList) /\ WF_meetingVars(AutoJudge)
    /\ SF_meetingVars(Age)

(***************************************************************************)
(* The recording that is kept is all chunks in their order, however often  *)
(* one was sent, lost or cut (the idempotent upload of home-portal.js), if *)
(* the browser says how long the whole is: a crash between a chunk and the *)
(* state file has it put in twice, and only the size tells.  And a browser *)
(* that was told so has its meeting, unless the portal died between the    *)
(* last chunk and the metadata: the chunk is then taken for a duplicate.   *)
(***************************************************************************)
RecordingTaken ==
    /\ audio # NoFile /\ client.sized => audio = Whole
    /\ client.way = "audio" /\ client.knows = "told" => meta # NoFile \/ late

(***************************************************************************)
(* A recording goes only when there is a precise transcript, or after 48   *)
(* hours, and the transcript the metadata name is there: the retry that    *)
(* replaces one from the captions removes the file it replaces.            *)
(***************************************************************************)
NothingThrownAway ==
    /\ stored /\ audio = NoFile => "precise" \in docs \/ old
    /\ Known /\ meta.doc # NoFile => meta.doc \in docs

(***************************************************************************)
(* The agent is asked for new minutes once, by the upload's job, the sweep *)
(* that redoes it, the timer or the names, unless an answer was lost or a  *)
(* job went by a view of the meeting from before ("a sweep redo after the  *)
(* trigger already went out must not ask twice").                          *)
(***************************************************************************)
AskedOnce == posted > 1 => excused

(***************************************************************************)
(* A meeting is kept whole on its way from the browser to the minutes: the *)
(* recording is what was sent, recording and transcript stay while they    *)
(* are needed, and the agent is not asked twice.                           *)
(***************************************************************************)
MeetingKept == RecordingTaken /\ NothingThrownAway /\ AskedOnce

(***************************************************************************)
(* A meeting the browser handed over comes to its minutes in the end, or   *)
(* to a state the user is shown: failed, or transcribed in a phase the     *)
(* timer does not look at: a rough transcript whose request was refused,   *)
(* or one whose job a second one overtook, since an upload of more than    *)
(* thirty minutes is taken for stuck.                                      *)
(***************************************************************************)
Unwatched == meta.status = "transcribed" /\ meta.phase \notin {"done", "live"}
Settled ==
    \/ meta = Torn
    \/ Known /\ (meta.asked \/ meta.status = "failed" \/ Unwatched)
MinutesInTheEnd == (client.knows = "told" /\ Known) ~> []Settled

MeetingTypeOK ==
    /\ client \in [way : {"audio", "live"}, at : 0 .. Last, knows : {"nothing", "waiting", "told"},
                   captions : BOOLEAN, dir : BOOLEAN, sized : BOOLEAN, named : BOOLEAN]
    /\ part \in Seq(Nat) \cup {NoFile} /\ upto \in 0 .. Chunks
    /\ audio \in Seq(Nat) \cup {NoFile} /\ meta \in Metadata \cup {NoFile, Torn}
    /\ docs \subseteq Transcripts
    /\ job \in [Jobs -> [at : Places, snap : Metadata \cup {NoFile}]]
    /\ running \in Jobs \cup {NoJob}
    /\ posted \in Nat /\ {stored, excused, late, old} \subseteq BOOLEAN /\ faults \in 0 .. MaxFaults

MeetingSpec == MeetingInit /\ [][MeetingNext]_meetingVars /\ MeetingFairness
=============================================================================
