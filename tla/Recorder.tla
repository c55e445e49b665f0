------------------------------ MODULE Recorder ------------------------------
(***************************************************************************)
(* The recorder: MPEG4Encoder.java, the recording part of USBMonitor.java  *)
(* and the button of LocalUVCPreviewActivity.java that drives it.          *)
(*                                                                         *)
(*   ui       starts and stops capture and recording;                      *)
(*   "video"  the native capture thread in onFrame and encodeVideo;        *)
(*   "audio"  AudioRecordThread in encodeAudio;                            *)
(*   timers   one java.util.Timer per file that was started, in reset().   *)
(*                                                                         *)
(* encodeVideo, encodeAudio and getThumbnailImage hold the encoder's       *)
(* monitor; close and reset do not, so each call of theirs on a codec or a *)
(* muxer is a step, and so are the reads of the muxer and of an index for  *)
(* one sample; the assignments at the head of close and of reset are one.  *)
(* An exception ends the process in the audio thread; the native thread    *)
(* clears it, close and reset catch it.  What a sample contains and its    *)
(* time stamp are left out.                                                *)
(***************************************************************************)
EXTENDS Integers, Sequences, FiniteSets

CONSTANTS
  MaxRecordings,   \* bound: calls of startRecoder
  MaxFiles         \* bound: MediaMuxer objects

ASSUME ConstantsAssumption == {MaxRecordings, MaxFiles} \subseteq Nat \ {0}

Kinds == {"video", "audio"}
Encoders == 1..MaxRecordings
Files == 1..MaxFiles

VARIABLES
  ui,              \* where the UI thread is
  isCapture, capturing,   \* USBMonitor.isCapture; the capture thread lives
  isRecording,     \* the activity's
  mp4Encoder,      \* USBMonitor.mp4Encoder, 0 for null
  isAudioRecord, audioRecord,   \* USBMonitor's, the latter "not null"
  enc,             \* the MPEG4Encoder objects
  file,            \* the MediaMuxer objects, each with its file
  timer,           \* the Timer made when the file was started
  pc, using, receiver,    \* the encoding threads and their locals
  \* history
  saved,           \* the files onAutoSave was called with
  mixed            \* the files with a sample in the other kind's track

captureVars == <<isCapture, capturing>>
recordVars == <<isRecording, mp4Encoder, isAudioRecord, audioRecord>>
uiVars == <<ui, captureVars, recordVars>>
mediaVars == <<enc, file, timer>>
threadVars == <<pc, using, receiver>>
history == <<saved, mixed>>
vars == <<uiVars, mediaVars, threadVars, history>>

\* A track index; -1 before addTrack.
NoTracks == [k \in Kinds |-> -1]

UiLabels == {"idle", "joinCapture", "newEncoder", "thumbnail", "close",
             "stopCodecs", "stopMuxer", "forget", "stopAudio", "join",
             "destroyed"}
PcLabels == {"idle", "new", "loop", "look", "enter", "codec", "addTrack",
             "start", "schedule", "test", "receive", "write", "died"}
TimerLabels == {"none", "set", "mark", "swap", "addTracks", "start",
                "schedule", "finish", "over"}

TypeOK ==
  /\ ui \in UiLabels
  /\ {isCapture, capturing, isRecording, isAudioRecord, audioRecord}
       \subseteq BOOLEAN
  /\ mp4Encoder \in Encoders \cup {0}
  /\ enc \in [Encoders ->
                [open : BOOLEAN, started : BOOLEAN, track : [Kinds -> -1..1],
                 known : SUBSET Kinds, muxer : Files \cup {0},
                 timer : Files \cup {0},
                 codecs : {"none", "running", "released"},
                 monitor : Kinds \cup {"free"}, listener : BOOLEAN,
                 disturbed : BOOLEAN]]
  /\ file \in [Files -> [state : {"none", "new", "started", "stopped"},
                         enc : Encoders \cup {0}, tracks : Seq(Kinds)]]
  /\ timer \in [Files -> [pc : TimerLabels, periodic : BOOLEAN,
                          cancelled : BOOLEAN,
                          old : Files \cup {0}, next : Files \cup {0}]]
  /\ pc \in [Kinds -> PcLabels] /\ using \in [Kinds -> Encoders \cup {0}]
  /\ receiver \in [Kinds -> Files \cup {0}]
  /\ saved \in Seq(Files) /\ mixed \subseteq Files

-----------------------------------------------------------------------------
\* A MediaMuxer takes tracks while it is new, and samples of its tracks while
\* it is started.  Null and a call in another state throw.
FreeFiles == {f \in Files : file[f].state = "none"}
IsNext(f) == f \in FreeFiles /\ \A g \in FreeFiles : f <= g

\* stop(): the file can be played; its tracks do not matter any more.
Stop(f) ==
  file' = [file EXCEPT ![f].state = "stopped", ![f].tracks = <<>>]

Takes(f) == f # 0 /\ file[f].state = "new"
HasTrack(f, i) == i >= 0 /\ i < Len(file[f].tracks)
Accepts(f, i) == f # 0 /\ file[f].state = "started" /\ HasTrack(f, i)

\* Mutant: audio is added first, and each index given to the other kind.
RollTracks_Swapped == [video |-> 1, audio |-> 0]
\* Mutant: the indices are one too high.
RollTracks_FromOne == [video |-> 1, audio |-> 2]
\* The indices reset's addTrack calls return: video first.
RollTracks == [video |-> 0, audio |-> 1]

\* The two indices are known and nobody has started the muxer yet.
Ready(e) == (\A k \in Kinds : enc[e].track[k] # -1) /\ ~enc[e].started

NoTimer == [pc |-> "none", periodic |-> FALSE, cancelled |-> FALSE,
            old |-> 0, next |-> 0]

\* mediaMuxerTimer.cancel().  A TimerTask that runs goes on to its end.
Cancelled(t) ==
  IF t.pc = "set" THEN [NoTimer EXCEPT !.pc = "over"]
                  ELSE [t EXCEPT !.cancelled = TRUE]
CancelTimer(e) ==
  [f \in Files |-> IF f = enc[e].timer THEN Cancelled(timer[f]) ELSE timer[f]]

\* The timers whose reset of e has passed its test of mediaMuxerStarted.
Resets(e) == {f \in Files : file[f].enc = e
                  /\ timer[f].pc \notin {"none", "set", "over"}}

-----------------------------------------------------------------------------
(* ui: capture                                                             *)

StartCapture ==
  /\ ui = "idle" /\ ~isCapture
  /\ isCapture' = TRUE /\ capturing' = TRUE
  /\ UNCHANGED <<ui, recordVars, mediaVars, threadVars, history>>

\* stopCapture, also called by onPause: stopPreview joins the capture thread.
StopCapture ==
  /\ ui = "idle" /\ isCapture
  /\ isCapture' = FALSE /\ ui' = "joinCapture"
  /\ UNCHANGED <<capturing, recordVars, mediaVars, threadVars, history>>

JoinCapture ==
  /\ ui = "joinCapture" /\ pc["video"] = "idle"
  /\ capturing' = FALSE /\ ui' = "idle"
  /\ UNCHANGED <<isCapture, recordVars, mediaVars, threadVars, history>>

-----------------------------------------------------------------------------
(* ui: startRecoder.  The button calls it when isRecording is false; then  *)
(* no encoder and no audio thread of a recording before are left.          *)

StartRecoder ==
  /\ ui = "idle" /\ isCapture /\ ~isRecording
  /\ FreeFiles # {} /\ enc[MaxRecordings].codecs = "none"
  /\ isRecording' = TRUE
  /\ audioRecord' = TRUE /\ pc' = [pc EXCEPT !["audio"] = "new"]
  /\ ui' = "newEncoder"
  /\ UNCHANGED <<captureVars, mp4Encoder, isAudioRecord, mediaVars, using,
                 receiver, history>>

\* new MPEG4Encoder, its listener, and open(), which sets open at its end.
OpenEncoder(f) ==
  LET e == Cardinality({d \in Encoders : enc[d].codecs # "none"}) + 1 IN
  /\ ui = "newEncoder" /\ IsNext(f)
  /\ mp4Encoder' = e
  /\ file' = [file EXCEPT ![f].state = "new", ![f].enc = e]
  /\ enc' = [enc EXCEPT ![e].open = TRUE, ![e].codecs = "running",
                        ![e].muxer = f, ![e].listener = TRUE]
  /\ ui' = "idle"
  /\ UNCHANGED <<captureVars, isRecording, isAudioRecord, audioRecord,
                 timer, threadVars, history>>

-----------------------------------------------------------------------------
(* ui: stopRecoder and MPEG4Encoder.close.                                 *)

\* onStopReoder asks for a thumbnail, under the encoder's monitor.
StopRecoder ==
  /\ ui = "idle" /\ isCapture /\ isRecording
  /\ isRecording' = FALSE /\ ui' = "thumbnail"
  /\ UNCHANGED <<captureVars, mp4Encoder, isAudioRecord, audioRecord,
                 mediaVars, threadVars, history>>

GetThumbnail ==
  /\ ui = "thumbnail" /\ enc[mp4Encoder].monitor = "free"
  /\ enc' = [enc EXCEPT ![mp4Encoder].listener = FALSE]
  /\ ui' = "close"
  /\ UNCHANGED <<captureVars, recordVars, file, timer, threadVars, history>>

\* Mutant: close leaves the timer.
TimersOnClose_Kept(e) == timer
TimersOnClose(e) == CancelTimer(e)

CloseEncoder ==
  LET e == mp4Encoder IN
  /\ ui = "close" /\ ui' = "stopCodecs"
  /\ timer' = TimersOnClose(e)
  /\ enc' = [enc EXCEPT ![e].open = FALSE, ![e].started = FALSE,
                        ![e].track = NoTracks, ![e].timer = 0,
                        ![e].disturbed = @ \/ enc[e].monitor # "free"
                                           \/ Resets(e) # {}]
  /\ UNCHANGED <<captureVars, recordVars, file, threadVars, history>>

StopCodecs ==
  /\ ui = "stopCodecs" /\ ui' = "stopMuxer"
  /\ enc' = [enc EXCEPT ![mp4Encoder].codecs = "released"]
  /\ UNCHANGED <<captureVars, recordVars, file, timer, threadVars, history>>

\* stop, release and the assignment of null are one step.  stop() of a muxer
\* that is not started throws: it is neither released nor set to null.
StopMuxer ==
  LET f == enc[mp4Encoder].muxer IN
  /\ ui = "stopMuxer" /\ ui' = "forget"
  /\ IF f # 0 /\ file[f].state = "started"
     THEN /\ Stop(f)
          /\ enc' = [enc EXCEPT ![mp4Encoder].muxer = 0]
     ELSE UNCHANGED <<enc, file>>
  /\ UNCHANGED <<captureVars, recordVars, timer, threadVars, history>>

\* mp4Encoder = null, and the test of audioRecord.
ForgetEncoder ==
  /\ ui = "forget"
  /\ mp4Encoder' = 0
  /\ ui' = IF audioRecord THEN "stopAudio" ELSE "idle"
  /\ UNCHANGED <<captureVars, isRecording, isAudioRecord, audioRecord,
                 mediaVars, threadVars, history>>

\* Mutant: isAudioRecord is not cleared.
StopAudio_Kept ==
  /\ ui = "stopAudio" /\ ui' = "join"
  /\ UNCHANGED <<captureVars, recordVars, mediaVars, threadVars, history>>

StopAudio ==
  /\ ui = "stopAudio" /\ ui' = "join"
  /\ isAudioRecord' = FALSE
  /\ UNCHANGED <<captureVars, isRecording, mp4Encoder, audioRecord,
                 mediaVars, threadVars, history>>

JoinAudio ==
  /\ ui = "join" /\ pc["audio"] = "idle"
  /\ ui' = "idle"
  /\ UNCHANGED <<captureVars, recordVars, mediaVars, threadVars, history>>

\* onDestroy: stopRecoder and stopCapture have been called, or do nothing
\* because isCapture is false.  The threads of a recording may live on.
Destroy ==
  /\ ui = "idle" /\ ~isCapture
  /\ ui' = "destroyed"
  /\ UNCHANGED <<captureVars, recordVars, mediaVars, threadVars, history>>

Ui ==
  \/ StartCapture \/ StopCapture \/ JoinCapture \/ StartRecoder
  \/ (\E f \in Files : OpenEncoder(f))
  \/ StopRecoder \/ GetThumbnail \/ CloseEncoder \/ StopCodecs \/ StopMuxer
  \/ ForgetEncoder \/ StopAudio \/ JoinAudio \/ Destroy

-----------------------------------------------------------------------------
(* The encoding threads up to the call of the encoder.                     *)

Goto(k, label) == pc' = [pc EXCEPT ![k] = label]
Rest(k) == IF k = "video" THEN "idle" ELSE "loop"
\* An exception: cleared after onFrame, fatal in the audio thread.
Thrown(k) == IF k = "video" THEN "idle" ELSE "died"
\* releaseOutputBuffer, after a sample.
AfterSample(k) ==
  IF enc[using[k]].codecs = "running" THEN Rest(k) ELSE Thrown(k)

\* onFrame; getEncoder() is read several times, the last is the one used.
OnFrame ==
  /\ pc["video"] = "idle" /\ capturing /\ mp4Encoder # 0
  /\ Goto("video", "look")
  /\ UNCHANGED <<uiVars, mediaVars, using, receiver, history>>

BeginAudio ==
  /\ pc["audio"] = "new" /\ Goto("audio", "loop")
  /\ isAudioRecord' = TRUE
  /\ UNCHANGED <<ui, captureVars, isRecording, mp4Encoder, audioRecord,
                 mediaVars, using, receiver, history>>

\* The loop: end, or read and find an encoder.  (Without one it reads on.)
AudioLoop ==
  /\ pc["audio"] = "loop"
  /\ \/ /\ ~isAudioRecord
        /\ Goto("audio", "idle") /\ audioRecord' = FALSE
     \/ /\ isAudioRecord /\ mp4Encoder # 0
        /\ Goto("audio", "look") /\ UNCHANGED audioRecord
  /\ UNCHANGED <<ui, captureVars, isRecording, mp4Encoder, isAudioRecord,
                 mediaVars, using, receiver, history>>

\* mp4Encoder is read again and may be null by now.
LookUp(k) ==
  /\ pc[k] = "look"
  /\ \/ mp4Encoder = 0 /\ Goto(k, Thrown(k)) /\ UNCHANGED using
     \/ /\ mp4Encoder # 0 /\ ~enc[mp4Encoder].open
        /\ Goto(k, Rest(k)) /\ UNCHANGED using
     \/ /\ mp4Encoder # 0 /\ enc[mp4Encoder].open
        /\ Goto(k, "enter") /\ using' = [using EXCEPT ![k] = mp4Encoder]
  /\ UNCHANGED <<uiVars, mediaVars, receiver, history>>

-----------------------------------------------------------------------------
(* encodeVideo and encodeAudio.                                            *)

\* Mutant: the test of open is missing.
MayEnter_Always(e) == TRUE
MayEnter(e) == enc[e].open

\* synchronized, and the test of open.
Enter(k) ==
  LET e == using[k] IN
  /\ pc[k] = "enter" /\ enc[e].monitor = "free"
  /\ \/ /\ ~MayEnter(e)
        /\ Goto(k, Rest(k)) /\ using' = [using EXCEPT ![k] = 0]
        /\ UNCHANGED enc
     \/ /\ MayEnter(e)
        /\ Goto(k, "codec") /\ UNCHANGED using
        /\ enc' = [enc EXCEPT ![e].monitor = k,
                              ![e].disturbed = @ \/ Resets(e) # {}]
  /\ UNCHANGED <<uiVars, file, timer, receiver, history>>

\* On inside the monitor, or out of it by a return or an exception.
Continue(k, label) == Goto(k, label) /\ UNCHANGED <<enc, using>>
Leave(k, label) ==
  /\ Goto(k, label) /\ using' = [using EXCEPT ![k] = 0]
  /\ enc' = [enc EXCEPT ![using[k]].monitor = "free"]

\* Both codec calls: nothing yet, the output format (once), or a sample.
UseCodec(k) ==
  LET e == using[k] IN
  /\ pc[k] = "codec"
  /\ \/ enc[e].codecs = "released" /\ Leave(k, Thrown(k))
     \/ enc[e].codecs = "running" /\ Leave(k, Rest(k))
     \/ /\ enc[e].codecs = "running" /\ k \notin enc[e].known
        /\ Goto(k, "addTrack") /\ UNCHANGED using
        /\ enc' = [enc EXCEPT ![e].known = @ \cup {k}]
     \/ /\ enc[e].codecs = "running" /\ k \in enc[e].known
        /\ Continue(k, "test")
  /\ UNCHANGED <<uiVars, file, timer, receiver, history>>

AddTrack(k) ==
  LET f == enc[using[k]].muxer IN
  /\ pc[k] = "addTrack"
  /\ \/ /\ Takes(f)
        /\ file' = [file EXCEPT ![f].tracks = Append(@, k)]
        /\ enc' = [enc EXCEPT ![using[k]].track[k] = Len(file[f].tracks)]
        /\ Goto(k, "start") /\ UNCHANGED using
     \/ ~Takes(f) /\ Leave(k, Thrown(k)) /\ UNCHANGED file
  /\ UNCHANGED <<uiVars, timer, receiver, history>>

\* mediaMuxer.start() once both tracks are known.
StartMuxer(k) ==
  LET f == enc[using[k]].muxer IN
  /\ pc[k] = "start"
  /\ \/ /\ Ready(using[k]) /\ Takes(f)
        /\ file' = [file EXCEPT ![f].state = "started"]
        /\ receiver' = [receiver EXCEPT ![k] = f]
        /\ Continue(k, "schedule")
     \/ /\ Leave(k, IF Ready(using[k]) THEN Thrown(k) ELSE Rest(k))
        /\ ~(Ready(using[k]) /\ Takes(f))
        /\ UNCHANGED <<file, receiver>>
  /\ UNCHANGED <<uiVars, timer, history>>

\* mediaMuxerStarted, and the timer: encodeAudio's is periodic.
ScheduleReset(k) ==
  LET f == receiver[k] IN
  /\ pc[k] = "schedule"
  /\ Goto(k, Rest(k)) /\ using' = [using EXCEPT ![k] = 0]
  /\ enc' = [enc EXCEPT ![using[k]].started = TRUE, ![using[k]].timer = f,
                        ![using[k]].monitor = "free"]
  /\ timer' = [timer EXCEPT ![f].pc = "set", ![f].periodic = (k = "audio")]
  /\ receiver' = [receiver EXCEPT ![k] = 0]
  /\ UNCHANGED <<uiVars, file, history>>

TestStarted(k) ==
  /\ pc[k] = "test"
  /\ IF enc[using[k]].started
     THEN Continue(k, "receive")
     ELSE Leave(k, AfterSample(k))
  /\ UNCHANGED <<uiVars, file, timer, receiver, history>>

\* mediaMuxer.writeSampleData(track, ...): the muxer is read before the index.
ReadMuxer(k) ==
  /\ pc[k] = "receive" /\ Continue(k, "write")
  /\ receiver' = [receiver EXCEPT ![k] = enc[using[k]].muxer]
  /\ UNCHANGED <<uiVars, file, timer, history>>

WriteSample(k) ==
  LET i == enc[using[k]].track[k]
      f == receiver[k]
  IN
  /\ pc[k] = "write"
  /\ \/ /\ Accepts(f, i) /\ Leave(k, AfterSample(k))
        /\ mixed' = IF file[f].tracks[i + 1] = k THEN mixed ELSE mixed \cup {f}
     \/ ~Accepts(f, i) /\ Leave(k, Thrown(k)) /\ UNCHANGED mixed
  /\ receiver' = [receiver EXCEPT ![k] = 0]
  /\ UNCHANGED <<uiVars, file, timer, saved>>

Encode(k) ==
  \/ LookUp(k) \/ Enter(k) \/ UseCodec(k) \/ AddTrack(k) \/ StartMuxer(k)
  \/ ScheduleReset(k) \/ TestStarted(k) \/ ReadMuxer(k) \/ WriteSample(k)

-----------------------------------------------------------------------------
(* The timer thread of file f: reset() of its encoder.                     *)

TimerGoto(f, label) == timer' = [timer EXCEPT ![f].pc = label]
\* A periodic task runs again unless its timer was cancelled.
EndReset(f) ==
  LET again == timer[f].periodic /\ ~timer[f].cancelled IN
  timer' = [timer EXCEPT ![f] = [NoTimer EXCEPT
              !.pc = IF again THEN "set" ELSE "over", !.periodic = again]]

\* AUTO_SAVE_TIME has passed; reset tests mediaMuxerStarted.
Fire(f) ==
  LET e == file[f].enc IN
  /\ timer[f].pc = "set" /\ FreeFiles # {}
  /\ IF enc[e].started
     THEN TimerGoto(f, "mark")
     ELSE EndReset(f)
  /\ UNCHANGED <<uiVars, enc, file, threadVars, history>>

\* The fields are reset and the timer in the field, its own, is cancelled.
MarkReset(f) ==
  LET e == file[f].enc IN
  /\ timer[f].pc = "mark"
  /\ timer' = [CancelTimer(e) EXCEPT ![f].pc = "swap"]
  /\ enc' = [enc EXCEPT ![e].started = FALSE, ![e].track = NoTracks,
                        ![e].timer = 0,
                        ![e].disturbed = @ \/ enc[e].monitor # "free"
                                           \/ Resets(e) # {f} \/ ~enc[e].open]
  /\ UNCHANGED <<uiVars, file, threadVars, history>>

\* oldMediaMuxerMuxer, oldFileName and the new muxer.
SwapMuxer(f, g) ==
  LET e == file[f].enc IN
  /\ timer[f].pc = "swap" /\ IsNext(g)
  /\ timer' = [timer EXCEPT ![f].pc = "addTracks", ![f].old = enc[e].muxer]
  /\ file' = [file EXCEPT ![g].state = "new", ![g].enc = e]
  /\ enc' = [enc EXCEPT ![e].muxer = g]
  /\ UNCHANGED <<uiVars, threadVars, history>>

\* addTrack of both known formats.  If close has taken the muxer the
\* exception ends reset, and the old muxer is not stopped.
RollMuxer(f) ==
  LET e == file[f].enc
      g == enc[e].muxer
  IN
  /\ timer[f].pc = "addTracks"
  /\ \/ /\ Takes(g) /\ TimerGoto(f, "start")
        /\ file' = [file EXCEPT ![g].tracks = <<"video", "audio">>]
        /\ enc' = [enc EXCEPT ![e].track = RollTracks]
     \/ ~Takes(g) /\ EndReset(f) /\ UNCHANGED <<enc, file>>
  /\ UNCHANGED <<uiVars, threadVars, history>>

RestartMuxer(f) ==
  LET e == file[f].enc
      g == enc[e].muxer
  IN
  /\ timer[f].pc = "start"
  /\ \/ ~Ready(e) /\ TimerGoto(f, "finish") /\ UNCHANGED file
     \/ /\ Ready(e) /\ Takes(g)
        /\ file' = [file EXCEPT ![g].state = "started"]
        /\ timer' = [timer EXCEPT ![f].pc = "schedule", ![f].next = g]
     \/ Ready(e) /\ ~Takes(g) /\ EndReset(f) /\ UNCHANGED file
  /\ UNCHANGED <<uiVars, enc, threadVars, history>>

\* mediaMuxerStarted, and a timer that fires once.
ScheduleNext(f) ==
  LET g == timer[f].next IN
  /\ timer[f].pc = "schedule"
  /\ timer' = [timer EXCEPT ![f].pc = "finish", ![f].next = 0, ![g].pc = "set"]
  /\ enc' = [enc EXCEPT ![file[f].enc].started = TRUE,
                        ![file[f].enc].timer = g]
  /\ UNCHANGED <<uiVars, file, threadVars, history>>

\* Mutant: onAutoSave is given fileName instead of oldFileName.
SavedName_Current(f) == enc[file[f].enc].muxer
\* The name given to onAutoSave.
SavedName(f) == timer[f].old

\* The old muxer is stopped, and the listener told the name of its file.
FinishReset(f) ==
  LET g == timer[f].old IN
  /\ timer[f].pc = "finish"
  /\ EndReset(f)
  /\ IF g # 0 /\ file[g].state = "started"
     THEN /\ Stop(g)
          /\ saved' = IF enc[file[f].enc].listener
                      THEN Append(saved, SavedName(f)) ELSE saved
     ELSE UNCHANGED <<file, saved>>
  /\ UNCHANGED <<uiVars, enc, threadVars, mixed>>

Reset(f) ==
  \/ MarkReset(f) \/ (\E g \in Files : SwapMuxer(f, g)) \/ RollMuxer(f)
  \/ RestartMuxer(f) \/ ScheduleNext(f) \/ FinishReset(f)

-----------------------------------------------------------------------------
NewEncoder == [open |-> FALSE, started |-> FALSE, track |-> NoTracks,
               known |-> {}, muxer |-> 0, timer |-> 0, codecs |-> "none",
               monitor |-> "free", listener |-> FALSE, disturbed |-> FALSE]

Init ==
  /\ ui = "idle" /\ isCapture = FALSE /\ capturing = FALSE
  /\ isRecording = FALSE /\ mp4Encoder = 0
  /\ isAudioRecord = FALSE /\ audioRecord = FALSE
  /\ enc = [e \in Encoders |-> NewEncoder]
  /\ file = [f \in Files |-> [state |-> "none", enc |-> 0, tracks |-> <<>>]]
  /\ timer = [f \in Files |-> NoTimer]
  /\ pc = [k \in Kinds |-> "idle"] /\ using = [k \in Kinds |-> 0]
  /\ receiver = [k \in Kinds |-> 0]
  /\ saved = <<>> /\ mixed = {}

\* An uncaught exception ends the process.
Alive == pc["audio"] # "died"

Threads == OnFrame \/ BeginAudio \/ AudioLoop \/ \E k \in Kinds : Encode(k)
Timers == \E f \in Files : Fire(f) \/ Reset(f)

Next == Alive /\ (Ui \/ Threads \/ Timers)

Spec == Init /\ [][Next]_vars

\* Every thread that can run does, a call of the UI thread goes on, and a
\* monitor that is free again and again is entered.  Timers need not fire,
\* and the user need not press anything.
UiGoesOn ==
  \/ CloseEncoder \/ StopCodecs \/ StopMuxer \/ ForgetEncoder \/ StopAudio
  \/ JoinAudio

FairSpec ==
  /\ Spec
  /\ WF_vars(Alive /\ (BeginAudio \/ AudioLoop \/ Encode("audio")))
  /\ WF_vars(Alive /\ Encode("video"))
  /\ WF_vars(Alive /\ UiGoesOn) /\ SF_vars(Alive /\ GetThumbnail)

-----------------------------------------------------------------------------
(* Properties                                                              *)

AtRest == ui \in {"idle", "destroyed"}

\* Once the button shows that nothing is recorded, nothing is: the codecs are
\* released and the audio thread has ended; and unless two of close, reset and
\* an encode call overlapped, every file that was begun is finished and no
\* timer is left that could begin another.
StopFinishes ==
  AtRest /\ ~isRecording =>
    /\ pc["audio"] = "idle"
    /\ \A e \in Encoders :
         /\ enc[e].codecs # "running"
         /\ ~enc[e].disturbed =>
              \A f \in Files : file[f].enc = e =>
                 file[f].state # "started" /\ timer[f].pc \in {"none", "over"}

\* onAutoSave is told of a file when it can be played, once: the file is
\* stopped, whatever reset and close did at the same time.
AutoSavedIsFinished ==
  \A i \in DOMAIN saved :
     /\ file[saved[i]].state = "stopped"
     /\ \A j \in DOMAIN saved : saved[i] = saved[j] => i = j

\* A sample is written to its own kind's track, except into a file that reset
\* has replaced: the muxer is read before reset and the index after it.
MixedOnlyWhenReplaced ==
  \A f \in mixed : \E g \in Files : g > f /\ file[g].enc = file[f].enc

\* The audio thread does not end the process with an exception unless the
\* encoder was forgotten under its hands or a call of close or reset overlaps
\* one of encodeVideo or encodeAudio.
AudioDiesOnlyIfDisturbed ==
  pc["audio"] = "died" =>
    mp4Encoder = 0 \/ \E e \in Encoders : enc[e].disturbed

\* Stopping returns if the audio thread had begun: a thread that begins after
\* isAudioRecord was cleared sets it again and is joined for ever.
StopRecoderReturns ==
  (ui = "thumbnail" /\ pc["audio"] # "new") ~> (AtRest \/ ~Alive)
=============================================================================
