------------------------------- MODULE Player -------------------------------
(***************************************************************************)
(* The player: nativeInitSDLThread, which opens, reads, decodes and seeks  *)
(* in a thread of GLRenderer.startRender; the render thread it creates;    *)
(* and the activity OpenGLActivity, whose buttons write the same global    *)
(* variables without a lock (jni/ffmpeg/simplest_ffmpeg_sdl_player.c,      *)
(* playback/GLRenderer.java, playback/OpenGLActivity.java).                *)
(*                                                                         *)
(* A video is a file of Frames packets, numbered by their dts, or a        *)
(* stream without end that may break. The library's seek, the decoder and  *)
(* the network are external. Images are only told apart by whether they    *)
(* were decoded in this session and shown before.                          *)
(***************************************************************************)
EXTENDS Integers, FiniteSetsExt

CONSTANTS
    MaxSessions,   \* videos opened, one after the other
    MaxPresses,    \* presses of buttons in a session, Back not counted
    PressSessions, \* the sessions with presses
    MaxErrors,     \* packets of a video the decoder refuses
    Frames,        \* packets of a file
    KeyFrames,     \* those a backward seek can land on
    SkipFrames,    \* what the forward button skips
    OffsetStep     \* forward_offset_step

ASSUME PlayerAssumption ==
    /\ {MaxSessions, MaxPresses, MaxErrors} \subseteq Nat
    /\ {Frames, SkipFrames, OffsetStep} \subseteq Nat \ {0}
    /\ KeyFrames \subseteq 0 .. Frames - 1

Sessions == 1 .. MaxSessions

VARIABLES
  flag,         \* the global variables of the C file
  dec, render,  \* nativeInitSDLThread; the render threads, one per session
  buffer,       \* the image in renderContext.buffer of the session
  ui,           \* the UI thread and the activity
  lost,         \* sessions that ended because the stream did not reopen
  raced,        \* a button was pressed in a Window of the decoding thread
  crashed       \* the stack of a finished thread was used

vars == <<flag, dec, render, buffer, ui, lost, raced, crashed>>

DecPlaces == {"none", "init", "open", "loop", "read", "reopen", "hand", "pause", "setpaused",
              "setlast", "locate", "retry", "endforward", "endlocate", "end", "join",
              "done"}
Images == {"none", "fresh", "old"}   \* never decoded, decoded and not yet shown, shown

\* Where the decoding thread is about to write what it decided from a test
\* of a variable that the buttons write too, or to clear them all.
Window == {"init", "setpaused", "setlast", "retry", "endforward", "endlocate"}

(***************************************************************************)
(* Type invariant. The flags, places and counters stay in their ranges;    *)
(* in particular the reading position stays within the file after every    *)
(* chain of seeks, retries and ends of file.                               *)
(***************************************************************************)
TypeOK ==
    /\ flag.exit \in BOOLEAN /\ flag.back \in BOOLEAN /\ flag.render \in BOOLEAN
    /\ flag.pause \in -2 .. 1 /\ flag.forward \in -2 .. 1
    /\ flag.backward \in BOOLEAN /\ flag.seek \in BOOLEAN /\ flag.locating \in BOOLEAN
    /\ flag.skip \in Int /\ flag.target \in 0 .. Frames - 1
    /\ dec.pc \in DecPlaces /\ dec.session \in 0 .. MaxSessions
    /\ dec.kind \in {"file", "stream"} /\ dec.code \in -7 .. 0
    /\ dec.pos \in 0 .. Frames /\ dec.dts \in 0 .. Frames - 1 /\ dec.fdts \in 0 .. Frames - 1
    /\ dec.offset \in Nat /\ dec.errors \in 0 .. MaxErrors
    /\ render \in [Sessions -> [pc: {"none", "test", "lock", "wait", "work", "done"},
                                img: Images]]
    /\ buffer \in Images
    /\ ui.pc \in {"list", "idle", "tracking", "seeking", "skipping", "join"}
    /\ ui.paused \in BOOLEAN /\ ui.presses \in 0 .. MaxPresses
    /\ lost \subseteq Sessions /\ raced \in BOOLEAN /\ crashed \in BOOLEAN

Locals(session, kind, place) ==
    [pc |-> place, session |-> session, kind |-> kind, code |-> 0, pos |-> 0, dts |-> 0,
     fdts |-> 0, offset |-> 0, errors |-> 0]

Init ==
    /\ flag = [exit |-> FALSE, back |-> FALSE, render |-> FALSE, pause |-> 0, forward |-> 0,
               backward |-> FALSE, seek |-> FALSE, locating |-> FALSE, skip |-> 0,
               target |-> 0]
    /\ dec = Locals(0, "file", "none")
    /\ render = [s \in Sessions |-> [pc |-> "none", img |-> "none"]]
    /\ buffer = "none"
    /\ ui = [pc |-> "list", paused |-> FALSE, presses |-> 0, value |-> 0]
    /\ lost = {} /\ raced = FALSE /\ crashed = FALSE

-----------------------------------------------------------------------------
(* Helpers of the decoding thread. *)

At(place) == dec.pc = place /\ ~crashed
Go(place) == dec' = [dec EXCEPT !.pc = place]
Stopping == flag.exit \/ flag.back

\* pthread_cond_signal wakes one of the threads that wait, whichever it is
Signal ==
    LET waiting == {s \in Sessions : render[s].pc = "wait"} IN
    IF waiting = {} THEN UNCHANGED render
    ELSE \E s \in waiting : render' = [render EXCEPT ![s].pc = "lock"]

\* av_seek_frame with AVSEEK_FLAG_BACKWARD: the last key frame not after t
SeekTo(pos, t) ==
    LET before == {k \in KeyFrames : k <= t} IN
    IF before = {} THEN pos ELSE Max(before)

-----------------------------------------------------------------------------
(* The decoding thread. *)

\* initGlobalState: everything but thread_render
InitGlobalState ==
    /\ At("init") /\ Go("open")
    /\ flag' = [flag EXCEPT !.exit = FALSE, !.back = FALSE, !.pause = 0, !.forward = 0,
                            !.backward = FALSE, !.seek = FALSE, !.locating = FALSE]
    /\ UNCHANGED <<render, buffer, ui, lost, raced, crashed>>

\* Opening fails with one of six codes (the ends of their range stand for
\* them), or the render thread is created
OpenFails ==
    /\ At("open")
    /\ \E code \in {-6, -1} : dec' = [dec EXCEPT !.pc = "end", !.code = code]
    /\ UNCHANGED <<flag, render, buffer, ui, lost, raced, crashed>>

OpenSucceeds ==
    /\ At("open") /\ Go("loop")
    /\ render' = [render EXCEPT ![dec.session].pc = "test"]
    /\ buffer' = "none"
    /\ UNCHANGED <<flag, ui, lost, raced, crashed>>

\* The requests of the buttons: forward in its three stages, backward, seek.
\* After a forward beyond the end the library may or may not move on.
SkipDts == dec.dts + flag.skip

AfterForward ==
    IF flag.forward \notin {-1, 1} THEN {dec.pos}
    ELSE {SeekTo(dec.pos, SkipDts)}
         \union IF flag.forward = 1 /\ SkipDts >= Frames THEN {Frames - 1} ELSE {}

AfterBackward(pos) == IF flag.backward THEN SeekTo(pos, SkipDts) ELSE pos
AfterSeek(pos) == IF flag.seek THEN SeekTo(pos, flag.target) ELSE pos

Loop ==
    /\ At("loop") /\ ~Stopping
    /\ \E pos \in AfterForward :
         dec' = [dec EXCEPT !.pos = AfterSeek(AfterBackward(pos)),
                            !.fdts = IF flag.forward = 1 THEN dec.dts ELSE @,
                            !.pc = IF flag.pause = 1 THEN "locate" ELSE "read"]
    /\ flag' = [flag EXCEPT !.forward = IF @ # 1 THEN @ ELSE IF SkipDts >= Frames THEN -2 ELSE -1,
                            !.backward = FALSE, !.seek = FALSE]
    /\ UNCHANGED <<render, buffer, ui, lost, raced, crashed>>

LoopEnds ==
    /\ At("loop") /\ Stopping /\ Go("end")
    /\ UNCHANGED <<flag, render, buffer, ui, lost, raced, crashed>>

\* Decoding the packet refuses it (the code -7 stays, and the rest of the
\* iteration is left out), needs more of them, or yields an image
Decoded(d) ==
    \/ \E place \in {"hand", "pause"} : dec' = [d EXCEPT !.pc = place]
    \/ /\ dec.errors < MaxErrors
       /\ dec' = [d EXCEPT !.pc = "loop", !.code = -7, !.errors = @ + 1]

\* av_read_frame: a packet of the video, the end of the file (an empty packet
\* is still decoded), or the break of the stream
ReadFile ==
    /\ At("read") /\ dec.kind = "file" /\ dec.pos < Frames
    /\ Decoded([dec EXCEPT !.dts = dec.pos, !.pos = @ + 1])
    /\ UNCHANGED <<flag, render, buffer, ui, lost, raced, crashed>>

EndOfFile ==
    /\ At("read") /\ dec.kind = "file" /\ dec.pos = Frames
    /\ flag' = [flag EXCEPT !.exit = TRUE] /\ Decoded(dec)
    /\ UNCHANGED <<render, buffer, ui, lost, raced, crashed>>

ReadStream ==
    /\ At("read") /\ dec.kind = "stream" /\ Decoded(dec)
    /\ UNCHANGED <<flag, render, buffer, ui, lost, raced, crashed>>

StreamBreaks ==
    /\ At("read") /\ dec.kind = "stream" /\ Go(IF flag.back THEN "end" ELSE "reopen")
    /\ UNCHANGED <<flag, render, buffer, ui, lost, raced, crashed>>

\* The stream is opened again and again until it opens, Back is pressed, or
\* what was opened cannot be played (one of four codes)
Reopens ==
    /\ At("reopen") /\ Go("read")
    /\ UNCHANGED <<flag, render, buffer, ui, lost, raced, crashed>>

ReopenLost(code) ==
    /\ At("reopen")
    /\ dec' = [dec EXCEPT !.pc = "end", !.code = code]
    /\ lost' = lost \union {dec.session}
    /\ UNCHANGED <<flag, render, buffer, ui, raced, crashed>>

ReopenGivesUp == flag.back /\ ReopenLost(-1)
ReopenFails == \E code \in {-5, -2} : ReopenLost(code)

\* Under mut_render: the image goes to the render thread if it is free
HandOver ==
    /\ At("hand") /\ Go("pause")
    /\ IF flag.render THEN UNCHANGED <<flag, render, buffer>>
       ELSE flag' = [flag EXCEPT !.render = TRUE] /\ buffer' = "fresh" /\ Signal
    /\ UNCHANGED <<ui, lost, raced, crashed>>

\* A seek while paused shows images in the stages -1 and -2 and pauses again
TestPaused_OneStage ==
    /\ At("pause")
    /\ Go(IF flag.pause = -1 /\ ~flag.locating THEN "setlast" ELSE "locate")
    /\ UNCHANGED <<flag, render, buffer, ui, lost, raced, crashed>>

TestPaused ==
    /\ At("pause")
    /\ Go(IF flag.pause = -2 THEN "setpaused"
          ELSE IF flag.pause = -1 /\ ~flag.locating THEN "setlast" ELSE "locate")
    /\ UNCHANGED <<flag, render, buffer, ui, lost, raced, crashed>>

SetPaused ==
    /\ At("setpaused") /\ Go("locate") /\ flag' = [flag EXCEPT !.pause = 1]
    /\ UNCHANGED <<render, buffer, ui, lost, raced, crashed>>

SetLast ==
    /\ At("setlast") /\ Go("locate") /\ flag' = [flag EXCEPT !.pause = -2]
    /\ UNCHANGED <<render, buffer, ui, lost, raced, crashed>>

\* What a seek found is shown; a forward that did not move on is tried again
\* through the activity's showIFrameDTS, further ahead
ForwardAgain ==
    LET offset == IF dec.dts < dec.fdts THEN 1 ELSE dec.offset + 1 IN
    /\ flag.locating /\ flag.forward = -1 /\ dec.dts <= dec.fdts
    /\ dec' = [dec EXCEPT !.offset = offset,
                          !.pc = IF flag.pause # 0 THEN "retry" ELSE "loop"]
    /\ flag' = [flag EXCEPT !.forward = 1, !.locating = TRUE,
                            !.skip = SkipFrames + OffsetStep * offset]

Located ==
    /\ ~(flag.locating /\ flag.forward = -1 /\ dec.dts <= dec.fdts)
    /\ Go(IF ~flag.locating THEN "loop"
          ELSE IF flag.forward < 0 THEN "endforward" ELSE "endlocate")
    /\ UNCHANGED flag

Locate ==
    /\ At("locate")
    /\ IF flag.exit THEN /\ flag' = [flag EXCEPT !.forward = 0, !.locating = FALSE]
                         /\ Go("loop")
       ELSE ForwardAgain \/ Located
    /\ UNCHANGED <<render, buffer, ui, lost, raced, crashed>>

Retry ==
    /\ At("retry") /\ Go("loop") /\ flag' = [flag EXCEPT !.pause = -1]
    /\ UNCHANGED <<render, buffer, ui, lost, raced, crashed>>

EndForward ==
    /\ At("endforward") /\ Go("loop")
    /\ flag' = [flag EXCEPT !.forward = 0, !.locating = FALSE]
    /\ UNCHANGED <<render, buffer, ui, lost, raced, crashed>>

EndLocate ==
    /\ At("endlocate") /\ Go("loop") /\ flag' = [flag EXCEPT !.locating = FALSE]
    /\ UNCHANGED <<render, buffer, ui, lost, raced, crashed>>

\* on_error: the codes -6 .. -1 are taken to mean that nothing was created
Joins_OnSuccess == dec.code = 0
Joins == dec.code = 0 \/ dec.code < -6

EndRender_Silent ==
    /\ flag' = [flag EXCEPT !.render = TRUE]
    /\ UNCHANGED render

EndRender ==
    IF flag.render THEN UNCHANGED <<flag, render>>
    ELSE flag' = [flag EXCEPT !.render = TRUE] /\ Signal

\* The local variables are gone
Return == dec' = Locals(dec.session, dec.kind, "done")

OnError ==
    /\ At("end")
    /\ IF Joins THEN EndRender /\ Go("join") ELSE Return /\ UNCHANGED <<flag, render>>
    /\ UNCHANGED <<buffer, ui, lost, raced, crashed>>

JoinRender ==
    /\ At("join") /\ render[dec.session].pc = "done" /\ Return
    /\ UNCHANGED <<flag, render, buffer, ui, lost, raced, crashed>>

-----------------------------------------------------------------------------
(* The render thread of session s, thread_render_opengles. *)

RenderAt(s, place) == render[s].pc = place /\ ~crashed

\* renderContext is a local variable of nativeInitSDLThread
ContextGone(s) == s < dec.session \/ dec.pc = "done"

RenderTest(s) ==
    /\ RenderAt(s, "test")
    /\ render' = [render EXCEPT ![s].pc = IF Stopping THEN "done" ELSE "lock"]
    /\ UNCHANGED <<flag, dec, buffer, ui, lost, raced, crashed>>

RenderWait(s) ==
    /\ RenderAt(s, "lock") /\ ~flag.render
    /\ render' = [render EXCEPT ![s].pc = "wait"]
    /\ UNCHANGED <<flag, dec, buffer, ui, lost, raced, crashed>>

RenderTake_Kept(s) ==
    /\ RenderAt(s, "lock") /\ flag.render /\ ~Stopping /\ ~ContextGone(s)
    /\ render' = [render EXCEPT ![s] = [pc |-> "work", img |-> buffer]]
    /\ buffer' = "old"
    /\ UNCHANGED <<flag, dec, ui, lost, raced, crashed>>

RenderTake(s) ==
    /\ RenderAt(s, "lock") /\ flag.render /\ ~Stopping /\ ~ContextGone(s)
    /\ render' = [render EXCEPT ![s] = [pc |-> "work", img |-> buffer]]
    /\ buffer' = "old"
    /\ flag' = [flag EXCEPT !.render = FALSE]
    /\ UNCHANGED <<dec, ui, lost, raced, crashed>>

RenderSkip(s) ==
    /\ RenderAt(s, "lock") /\ flag.render /\ Stopping
    /\ render' = [render EXCEPT ![s].pc = "test"]
    /\ flag' = [flag EXCEPT !.render = FALSE]
    /\ UNCHANGED <<dec, buffer, ui, lost, raced, crashed>>

\* ConvertToI420 and updateData, or nothing for an image of zeros; the copy
\* is not used again
RenderWork(s) ==
    /\ RenderAt(s, "work") /\ ~ContextGone(s)
    /\ render' = [render EXCEPT ![s] = [pc |-> "test", img |-> "none"]]
    /\ UNCHANGED <<flag, dec, buffer, ui, lost, raced, crashed>>

\* The context of a function that returned: the program is at its end
RenderCrash(s) ==
    /\ ~crashed /\ ContextGone(s)
    /\ \/ render[s].pc = "work"
       \/ render[s].pc = "lock" /\ flag.render /\ ~Stopping
    /\ crashed' = TRUE
    /\ UNCHANGED <<flag, dec, render, buffer, ui, lost, raced>>

-----------------------------------------------------------------------------
(* The UI thread. *)

UiAt(place) == ui.pc = place /\ ~crashed
Presses == ui.presses < MaxPresses /\ dec.session <= PressSessions
Race == raced' = (raced \/ dec.pc \in Window)

\* onCreate: startRender; onResume: nativePlaySDLThread
Start ==
    /\ UiAt("list") /\ dec.session < MaxSessions
    /\ \E kind \in {"file", "stream"} :
         dec' = Locals(dec.session + 1, kind, "init")
    /\ ui' = [ui EXCEPT !.pc = "idle", !.paused = FALSE, !.presses = 0]
    /\ flag' = [flag EXCEPT !.pause = 0]
    /\ UNCHANGED <<render, buffer, lost, raced, crashed>>

\* btnPause; losing the foreground and getting it back (onPause, onResume)
\* write the same unless the video is already paused
PressPause ==
    /\ UiAt("idle") /\ Presses
    /\ ui' = [ui EXCEPT !.paused = ~@, !.presses = @ + 1]
    /\ flag' = [flag EXCEPT !.pause = IF ui.paused THEN 0 ELSE 1]
    /\ Race /\ UNCHANGED <<dec, render, buffer, lost, crashed>>

\* nativeForwardSDLThread, nativeBackwardSDLThread and nativeSeekSDLThread
\* write the request first, then is_Locating_I, the amount and thread_pause.
\* A stream has no forward button and no seek bar; changing the decoder goes back.
PressForward ==
    /\ UiAt("idle") /\ Presses /\ dec.kind = "file"
    /\ ui' = [ui EXCEPT !.pc = "skipping", !.presses = @ + 1, !.value = SkipFrames]
    /\ flag' = [flag EXCEPT !.forward = 1]
    /\ Race /\ UNCHANGED <<dec, render, buffer, lost, crashed>>

PressBackward ==
    /\ UiAt("idle") /\ Presses
    /\ ui' = [ui EXCEPT !.pc = "skipping", !.presses = @ + 1, !.value = -SkipFrames]
    /\ flag' = [flag EXCEPT !.backward = TRUE]
    /\ Race /\ UNCHANGED <<dec, render, buffer, lost, crashed>>

\* onStartTrackingTouch and onStopTrackingTouch
StartTracking ==
    /\ UiAt("idle") /\ Presses /\ dec.kind = "file"
    /\ ui' = [ui EXCEPT !.pc = "tracking", !.presses = @ + 1]
    /\ flag' = [flag EXCEPT !.pause = IF ui.paused THEN @ ELSE 1]
    /\ Race /\ UNCHANGED <<dec, render, buffer, lost, crashed>>

StopTracking ==
    /\ UiAt("tracking")
    /\ \E t \in KeyFrames : ui' = [ui EXCEPT !.pc = "seeking", !.value = t]
    /\ flag' = [flag EXCEPT !.pause = IF ui.paused THEN @ ELSE 0, !.seek = TRUE]
    /\ Race /\ UNCHANGED <<dec, render, buffer, lost, crashed>>

PauseOnce_Always == -1
PauseOnce == IF flag.pause # 0 THEN -1 ELSE 0

SetSkip ==
    /\ UiAt("skipping")
    /\ flag' = [flag EXCEPT !.locating = TRUE, !.skip = ui.value, !.pause = PauseOnce]
    /\ ui' = [ui EXCEPT !.pc = "idle", !.value = 0]
    /\ Race /\ UNCHANGED <<dec, render, buffer, lost, crashed>>

SetTarget ==
    /\ UiAt("seeking")
    /\ flag' = [flag EXCEPT !.locating = TRUE, !.target = ui.value, !.pause = PauseOnce]
    /\ ui' = [ui EXCEPT !.pc = "idle", !.value = 0]
    /\ Race /\ UNCHANGED <<dec, render, buffer, lost, crashed>>

\* stopRender: btnBack, onBackPressed, or onDestroy when the system ends the
\* activity; the UI thread joins the decoding thread
StopRender ==
    /\ UiAt("idle")
    /\ ui' = [ui EXCEPT !.pc = "join"]
    /\ flag' = [flag EXCEPT !.back = TRUE]
    /\ Race /\ UNCHANGED <<dec, render, buffer, lost, crashed>>

JoinDecoder ==
    /\ UiAt("join") /\ dec.pc = "done"
    /\ ui' = [ui EXCEPT !.pc = "idle"]
    /\ UNCHANGED <<flag, dec, render, buffer, lost, raced, crashed>>

\* renderThreadFinish finishes the activity, which leaves with onPause
Leave ==
    /\ ui.pc \in {"idle", "tracking"} /\ dec.pc = "done" /\ ~crashed
    /\ ui' = [ui EXCEPT !.pc = "list"]
    /\ flag' = [flag EXCEPT !.pause = IF ui.paused THEN @ ELSE 1]
    /\ UNCHANGED <<dec, render, buffer, lost, raced, crashed>>

-----------------------------------------------------------------------------
DecodingThread ==
    \/ InitGlobalState \/ OpenFails \/ OpenSucceeds \/ Loop \/ LoopEnds
    \/ ReadFile \/ EndOfFile \/ ReadStream \/ StreamBreaks \/ ReopenGivesUp
    \/ HandOver \/ TestPaused \/ SetPaused \/ SetLast
    \/ Locate \/ Retry \/ EndForward \/ EndLocate \/ OnError \/ JoinRender

RenderThread(s) ==
    RenderTest(s) \/ RenderWait(s) \/ RenderTake(s) \/ RenderSkip(s) \/ RenderWork(s)
    \/ RenderCrash(s)

UiWorks == StopTracking \/ SetSkip \/ SetTarget \/ JoinDecoder \/ Leave

User == Start \/ PressPause \/ PressForward \/ PressBackward \/ StartTracking \/ StopRender

Next == DecodingThread \/ Reopens \/ ReopenFails \/ UiWorks \/ User
        \/ \E s \in Sessions : RenderThread(s)

\* Threads run; the network need not come back, and nobody need press anything
Spec == /\ Init /\ [][Next]_vars
        /\ WF_vars(DecodingThread) /\ WF_vars(UiWorks)
        /\ \A s \in Sessions : WF_vars(RenderThread(s))

-----------------------------------------------------------------------------
(***************************************************************************)
(* pthread_join at on_error: a render thread outlives the function whose   *)
(* local variable it reads only if a broken stream could not be opened     *)
(* again (the reopening reuses the error codes of the first opening), and  *)
(* only then is a gone context read.                                       *)
(***************************************************************************)
RenderEndsWithSession ==
    /\ \A s \in Sessions :
         ContextGone(s) /\ render[s].pc \notin {"none", "done"} => s \in lost
    /\ crashed => lost # {}

(***************************************************************************)
(* thread_render under mut_render: what a render thread converts and shows *)
(* was decoded in its session and never shown before. The one exception is *)
(* that thread_render survives initGlobalState: a session after the first  *)
(* may begin with a buffer nothing was decoded into.                       *)
(***************************************************************************)
FreshImages ==
    \A s \in Sessions : render[s].pc = "work" =>
        render[s].img = "fresh" \/ (render[s].img = "none" /\ s > 1)

(***************************************************************************)
(* thread_pause agrees with what the activity shows, whatever seeks have   *)
(* moved it through -1 and -2, unless a button was pressed in a Window of  *)
(* the decoding thread, which then overwrites it.                          *)
(***************************************************************************)
PauseAgrees ==
    ui.pc = "idle" /\ dec.pc \notin {"init", "done"} /\ ~raced =>
        (ui.paused <=> flag.pause # 0)

(***************************************************************************)
(* stopRender returns: the decoding thread sees thread_back and the render *)
(* thread is woken, unless initGlobalState erased thread_back or a thread  *)
(* left over from a lost stream took the signal.                           *)
(***************************************************************************)
StopReturns ==
    (ui.pc = "join" /\ ~raced /\ lost = {}) ~> (ui.pc # "join" \/ lost # {})

(***************************************************************************)
(* The comment of the loop, "dts after the forward greater than before:    *)
(* end the forward, play normally": a forward ends, at the latest at the   *)
(* end of the file, even when no press fell into a Window. It need not:    *)
(* pressed while a packet is decoded, it is pending when the locating part *)
(* of the loop clears is_Locating_I, and nothing clears thread_forward.    *)
(***************************************************************************)
ForwardEnds ==
    (flag.forward # 0) ~>
        (flag.forward = 0 \/ raced \/ crashed \/ dec.pc \in {"end", "join", "done"})

(***************************************************************************)
(* A seek or skip while paused shows its images in the stages -1 and -2 of *)
(* thread_pause and pauses again, also when the decoder refuses a packet   *)
(* in between; only the end of the video or a broken stream comes before.  *)
(***************************************************************************)
PausesAgain ==
    (flag.pause < 0) ~>
        (flag.pause >= 0 \/ crashed \/ dec.pc \in {"reopen", "end", "join", "done"})
=============================================================================
