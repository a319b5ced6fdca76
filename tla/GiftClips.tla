------------------------------ MODULE GiftClips ------------------------------
(***************************************************************************)
(* The local program's exports of a gift's animation: giftClipJobManager   *)
(* with its queue, its one worker, its sweeper and Close; the encoder with *)
(* its retry in software; and the Windows process that encodes, from its   *)
(* suspended start to its end.  Requests create, cancel and look at clips  *)
(* while the worker runs; the program closes, or is killed.                *)
(***************************************************************************)
EXTENDS Naturals, Sequences

CONSTANTS
  Clips,        \* task IDs
  NoClip,       \* the worker has none
  MaxAccidents  \* bound: operations that fail

ASSUME ClipAssumption == NoClip \notin Clips /\ MaxAccidents \in Nat

VARIABLES
  clips,      \* manager.jobs: state, active, and whether finishedAt is set
  folder,     \* the task's directory, and how much of clip.mp4 is in it
  queue,      \* manager.queue
  unsignalled,\* clips whose Create has not called signal yet
  wake,       \* manager.wake, a channel of one
  worker,     \* runWorker: where it is, with which clip, mode and result
  ffmpeg,     \* the process of the attempt
  cache,      \* ffmpeg.exe in the cache directory
  software,   \* encoder.useSoftware
  program,    \* Close, or the end of the program
  accidents

clipVars == <<clips, folder, queue, unsignalled, wake, worker, ffmpeg, cache, software, program, accidents>>
jobs == <<clips, queue, unsignalled, wake>>
encoding == <<ffmpeg, cache, software>>

Terminal == {"ready", "failed", "cancelled"}
Working == {"taken", "resolve", "prepare", "extract", "start", "assign", "resume", "run", "attempted", "finish"}

NoJob == [state |-> "none", active |-> FALSE, ended |-> FALSE]
Idle == [at |-> "idle", clip |-> NoClip, mode |-> "hardware", error |-> "none"]

ClipInit ==
  /\ clips = [c \in Clips |-> NoJob]
  /\ folder = [c \in Clips |-> "none"]
  /\ queue = <<>> /\ unsignalled = {} /\ wake = FALSE
  /\ worker = Idle
  /\ ffmpeg = "none"
  /\ cache \in {"none", "damaged"}
  /\ software = FALSE
  /\ program = "open"
  /\ accidents = 0

Running == program # "killed"
Accident == accidents < MaxAccidents /\ accidents' = accidents + 1
InJobs(c) == clips[c].state \notin {"none", "writing", "refused", "forgotten"}

\* The job's context, or the manager's, is cancelled.
Stopped(c) == clips[c].state = "cancelled" \/ program # "open"

-----------------------------------------------------------------------------
(***************************************************************************)
(* Requests.                                                               *)
(***************************************************************************)

\* makeTaskDir, and the two layers of the picture.
MakeFolder(c) ==
  /\ Running /\ clips[c].state = "none"
  /\ clips' = [clips EXCEPT ![c].state = "writing"]
  /\ folder' = [folder EXCEPT ![c] = "layers"]
  /\ UNCHANGED <<queue, unsignalled, wake, worker, encoding, program, accidents>>

\* A layer is not written, or the manager is closed: the directory goes, if it can.
Refuse(c) ==
  /\ Running /\ clips[c].state = "writing"
  /\ clips' = [clips EXCEPT ![c].state = "refused"]
  /\ \/ program # "open" /\ folder' = [folder EXCEPT ![c] = "none"] /\ UNCHANGED accidents
     \/ Accident /\ folder' \in {folder, [folder EXCEPT ![c] = "none"]}
  /\ UNCHANGED <<queue, unsignalled, wake, worker, encoding, program>>

Commit(c) ==
  /\ program = "open" /\ clips[c].state = "writing"
  /\ clips' = [clips EXCEPT ![c].state = "queued"]
  /\ queue' = Append(queue, c)
  /\ unsignalled' = unsignalled \cup {c}
  /\ UNCHANGED <<folder, wake, worker, encoding, program, accidents>>

\* Mutant of Signal: the channel has no buffer.
SignalUnbuffered(c) ==
  /\ Running /\ c \in unsignalled
  /\ unsignalled' = unsignalled \ {c}
  /\ wake' = (wake \/ worker.at = "waiting")
  /\ UNCHANGED <<clips, folder, queue, worker, encoding, program, accidents>>

Signal(c) ==
  /\ Running /\ c \in unsignalled
  /\ unsignalled' = unsignalled \ {c}
  /\ wake' = TRUE
  /\ UNCHANGED <<clips, folder, queue, worker, encoding, program, accidents>>

\* Mutant of CancelledJob: the time of an active clip's end is set at once.
CancelledAtOnce(job) == [job EXCEPT !.state = "cancelled", !.ended = TRUE]

\* The worker ends an active clip when it has stopped using it.
CancelledJob(job) == [job EXCEPT !.state = "cancelled", !.ended = ~job.active]

Cancel(c) ==
  /\ Running /\ InJobs(c) /\ clips[c].state \notin Terminal
  /\ clips' = [clips EXCEPT ![c] = CancelledJob(@)]
  /\ UNCHANGED <<folder, queue, unsignalled, wake, worker, encoding, program, accidents>>

\* A directory that cannot be removed may have lost its files.
RemoveFails(c) == folder' \in {folder, [folder EXCEPT ![c] = "layers"]}

\* One clip of Sweep, when its time is over.
SweepClip(c) ==
  /\ program \in {"open", "closing"} /\ clips[c].state \in Terminal /\ clips[c].ended
  /\ \/ /\ folder' = [folder EXCEPT ![c] = "none"]
        /\ clips' = [clips EXCEPT ![c].state = "forgotten"]
        /\ UNCHANGED accidents
     \/ Accident /\ RemoveFails(c) /\ UNCHANGED clips
  /\ UNCHANGED <<queue, unsignalled, wake, worker, encoding, program>>

-----------------------------------------------------------------------------
(***************************************************************************)
(* The worker.                                                             *)
(***************************************************************************)
Wanted(i) == clips[queue[i]].state \notin {"cancelled", "forgotten"}
First == CHOOSE i \in DOMAIN queue : Wanted(i) /\ \A j \in 1..(i - 1) : ~Wanted(j)

Take ==
  /\ worker.at = "idle" /\ program = "open"
  /\ IF \E i \in DOMAIN queue : Wanted(i)
     THEN /\ worker' = [Idle EXCEPT !.at = "taken", !.clip = queue[First]]
          /\ clips' = [clips EXCEPT ![queue[First]].state = "encoding", ![queue[First]].active = TRUE]
          /\ queue' = SubSeq(queue, First + 1, Len(queue))
     ELSE worker' = [Idle EXCEPT !.at = "empty"] /\ queue' = <<>> /\ UNCHANGED clips
  /\ UNCHANGED <<folder, unsignalled, wake, encoding, program, accidents>>

\* Between nextJob and the receive from wake the manager's mutex is free.
Sleeps ==
  /\ worker.at = "empty" /\ Running
  /\ worker' = [Idle EXCEPT !.at = "waiting"]
  /\ UNCHANGED <<jobs, folder, encoding, program, accidents>>

Awake ==
  /\ worker.at = "waiting" /\ wake /\ Running
  /\ wake' = FALSE
  /\ worker' = Idle
  /\ UNCHANGED <<clips, folder, queue, unsignalled, encoding, program, accidents>>

WorkerStops ==
  /\ worker.at \in {"idle", "waiting"} /\ program = "closing"
  /\ worker' = [Idle EXCEPT !.at = "stopped"]
  /\ UNCHANGED <<jobs, folder, encoding, program, accidents>>

On == Running /\ worker.clip # NoClip
At(place) == On /\ worker.at = place
Goto(place) == worker' = [worker EXCEPT !.at = place]
Return(error) == worker' = [worker EXCEPT !.at = "finish", !.error = error]

\* encode's first look at the job it was given.
BeginEncoding ==
  /\ At("taken")
  /\ IF clips[worker.clip].state = "cancelled"
     THEN /\ clips' = [clips EXCEPT ![worker.clip].active = FALSE, ![worker.clip].ended = TRUE]
          /\ worker' = Idle
     ELSE Goto("resolve") /\ UNCHANGED clips
  /\ UNCHANGED <<folder, queue, unsignalled, wake, encoding, program, accidents>>

\* writeGiftClipSource makes the directory if there is none.
Written(c) == folder' = [folder EXCEPT ![c] = IF @ = "none" THEN "source" ELSE @]

\* The animation is looked up, fetched and written.
Resolve ==
  /\ At("resolve")
  /\ \/ Stopped(worker.clip) /\ Return("cancelled") /\ UNCHANGED <<folder, accidents>>
     \/ Accident /\ Return("source") /\ UNCHANGED folder
     \/ ~Stopped(worker.clip) /\ Written(worker.clip) /\ Goto("prepare") /\ UNCHANGED accidents
  /\ UNCHANGED <<jobs, encoding, program>>

\* Mutant of Matches: any file is taken for the encoder.
MatchesAny == cache # "none"

\* giftClipFileMatches: size and SHA-256.
Matches == cache = "good"

Mode == IF software THEN "software" ELSE "hardware"
Attempt(mode) == worker' = [worker EXCEPT !.at = "start", !.mode = mode]

Prepare ==
  /\ At("prepare")
  /\ CASE Stopped(worker.clip) -> Return("cancelled")
       [] ~Stopped(worker.clip) /\ Matches -> Attempt(Mode)
       [] OTHER -> Goto("extract")
  /\ UNCHANGED <<jobs, folder, encoding, program, accidents>>

\* The archive is extracted beside the cached file, verified, and replaces it.
Extract ==
  /\ At("extract")
  /\ \/ Stopped(worker.clip) /\ Return("cancelled") /\ UNCHANGED <<cache, accidents>>
     \/ Accident /\ Return("integrity") /\ cache' \in {cache, "none"}
     \/ cache' = "good" /\ Attempt(Mode) /\ UNCHANGED accidents
  /\ UNCHANGED <<jobs, folder, ffmpeg, software, program>>

-----------------------------------------------------------------------------
(***************************************************************************)
(* One attempt: the process is made suspended, put into a job object that  *)
(* dies with this program's handle, and only then resumed.                 *)
(***************************************************************************)
AttemptEnds(error) == worker' = [worker EXCEPT !.at = "attempted", !.error = error]

\* Mutant of AfterStart: the process runs before it is in the job object.
Unsuspended == "loose"
AfterStart == "suspended"

StartSuspended ==
  /\ At("start")
  /\ \/ ffmpeg' = AfterStart /\ Goto("assign") /\ UNCHANGED accidents
     \/ Accident /\ AttemptEnds("start") /\ UNCHANGED ffmpeg
  /\ UNCHANGED <<jobs, folder, cache, software, program>>

\* cleanupGiftClipUnassignedProcess: a process that is not killed stays suspended.
Assign ==
  /\ At("assign")
  /\ \/ ffmpeg' = "contained" /\ Goto("resume") /\ UNCHANGED accidents
     \/ Accident /\ ffmpeg' \in {"none", "suspended"} /\ AttemptEnds("assign")
  /\ UNCHANGED <<jobs, folder, cache, software, program>>

\* A failure closes the job object, which ends the process.
Resume ==
  /\ At("resume")
  /\ \/ /\ ffmpeg' = "running" /\ Goto("run") /\ UNCHANGED accidents
        /\ folder' = [folder EXCEPT ![worker.clip] = "partial"]
     \/ Accident /\ ffmpeg' = "none" /\ AttemptEnds("resume") /\ UNCHANGED folder
  /\ UNCHANGED <<jobs, cache, software, program>>

\* updateEncoding
Progress ==
  /\ At("run") /\ clips[worker.clip].state = "retrying"
  /\ clips' = [clips EXCEPT ![worker.clip].state = "encoding"]
  /\ UNCHANGED <<queue, unsignalled, wake, folder, worker, encoding, program, accidents>>

\* The process ends, or the context does: then the job object is terminated, or
\* closed if that fails, and the end of the process is awaited.
ProcessEnds ==
  /\ At("run")
  /\ ffmpeg' = "none"
  /\ \/ /\ AttemptEnds("none") /\ UNCHANGED accidents
        /\ folder' = [folder EXCEPT ![worker.clip] = "complete"]
     \/ Accident /\ UNCHANGED folder /\ \E error \in {"hardware", "encoder"} : AttemptEnds(error)
     \/ Stopped(worker.clip) /\ AttemptEnds("cancelled") /\ UNCHANGED <<folder, accidents>>
  /\ UNCHANGED <<jobs, cache, software, program>>

\* Mutant of Outcome: the result of the second attempt is lost in a shadowed err.
OutcomeOfFirst == IF worker.mode = "software" THEN "none" ELSE worker.error

\* What Encode returns after the last attempt.
Outcome == IF worker.error # "none" /\ Stopped(worker.clip) THEN "cancelled" ELSE worker.error

\* shouldRetryGiftClipSoftware
RetriesInSoftware == Outcome = "hardware" /\ worker.mode = "hardware"

\* A failure of the hardware's is tried again, and remembered for the next clips.
Attempted ==
  /\ At("attempted")
  /\ IF RetriesInSoftware
     THEN /\ software' = TRUE
          /\ clips' = [clips EXCEPT ![worker.clip].state = "retrying"]
          /\ worker' = [worker EXCEPT !.at = "start", !.mode = "software", !.error = "none"]
     ELSE Return(Outcome) /\ UNCHANGED <<software, clips>>
  /\ UNCHANGED <<queue, unsignalled, wake, folder, ffmpeg, cache, program, accidents>>

FinishEncoding ==
  /\ At("finish")
  /\ LET c == worker.clip
         state == CASE Stopped(c) \/ worker.error = "cancelled" -> "cancelled"
                    [] ~Stopped(c) /\ worker.error = "none" -> "ready"
                    [] OTHER -> "failed"
     IN clips' = [clips EXCEPT ![c] = [state |-> state, active |-> FALSE, ended |-> TRUE]]
  /\ worker' = Idle
  /\ UNCHANGED <<queue, unsignalled, wake, folder, encoding, program, accidents>>

-----------------------------------------------------------------------------
(***************************************************************************)
(* The end of the program.                                                 *)
(***************************************************************************)
Close ==
  /\ program = "open"
  /\ program' = "closing"
  /\ queue' = <<>>
  /\ clips' = [c \in Clips |-> IF InJobs(c) /\ clips[c].state \notin Terminal THEN CancelledJob(clips[c])
                                                                          ELSE clips[c]]
  /\ UNCHANGED <<folder, unsignalled, wake, worker, encoding, accidents>>

\* After wg.Wait: the directories go, or stay with the clip.
CloseRemoves ==
  /\ program = "closing" /\ worker.at = "stopped"
  /\ program' = "closed"
  /\ \E failing \in SUBSET {c \in Clips : InJobs(c)} :
       /\ IF failing = {} THEN UNCHANGED accidents ELSE Accident
       /\ clips' = [c \in Clips |-> IF InJobs(c) /\ c \notin failing
                                    THEN [clips[c] EXCEPT !.state = "forgotten"] ELSE clips[c]]
       /\ folder' = [c \in Clips |-> IF InJobs(c) /\ c \notin failing THEN "none" ELSE folder[c]]
  /\ UNCHANGED <<queue, unsignalled, wake, worker, encoding>>

\* The process is killed: Windows closes its handles, and a job object with them.
Kill ==
  /\ Running
  /\ program' = "killed"
  /\ ffmpeg' = IF ffmpeg \in {"contained", "running"} THEN "none" ELSE ffmpeg
  /\ UNCHANGED <<jobs, folder, worker, cache, software, accidents>>

ClipNext ==
  \/ \E c \in Clips : MakeFolder(c) \/ Refuse(c) \/ Commit(c) \/ Signal(c) \/ Cancel(c) \/ SweepClip(c)
  \/ Take \/ Sleeps \/ Awake \/ WorkerStops \/ BeginEncoding \/ Resolve \/ Prepare \/ Extract
  \/ StartSuspended \/ Assign \/ Resume \/ Progress \/ ProcessEnds \/ Attempted \/ FinishEncoding
  \/ Close \/ CloseRemoves \/ Kill

ClipSpec == ClipInit /\ [][ClipNext]_clipVars

-----------------------------------------------------------------------------
InUse(c) ==
  \/ c = worker.clip /\ worker.at \in Working
  \/ InJobs(c) /\ clips[c].state \notin Terminal

\* A clip keeps its directory for as long as it waits, or as the worker or the
\* process works in it, whoever cancels it, sweeps or closes meanwhile; a directory
\* that the manager has forgotten does not come back; and what a page is offered as
\* ready is never a video that an attempt has left unfinished.
ClipsKeepTheirFiles ==
  \A c \in Clips :
    /\ InUse(c) => folder[c] \notin {"none", "source"}
    /\ clips[c].state = "forgotten" => folder[c] = "none"
    /\ clips[c].state = "ready" => folder[c] # "partial"

\* The worker does not sleep over a clip: while one waits for it, the channel holds a
\* wake-up, or the request that brought the clip is about to put one there.
NoClipIsSleptOver ==
  worker.at \in {"empty", "waiting"} /\ program = "open" /\ ~wake =>
    \A i \in DOMAIN queue : Wanted(i) => queue[i] \in unsignalled

\* The clips keep their files until they are encoded, and none is slept over.
ClipsAreServed == ClipsKeepTheirFiles /\ NoClipIsSleptOver

\* No encoder runs on without the program that started it, whichever way the program
\* ends; and what runs has been verified.
EncodersEndWithThePanel ==
  /\ program \in {"closed", "killed"} => ffmpeg \notin {"running", "contained", "loose"}
  /\ ffmpeg \in {"running", "loose"} => cache = "good"
=============================================================================
