----------------------------- MODULE UVCPreview -----------------------------
(***************************************************************************)
(* The native preview pipeline, jni/UVCCamera/UVCPreview.cpp.              *)
(*                                                                         *)
(* A USB image travels through three threads:                              *)
(*                                                                         *)
(*   stream  --previewFrames-->  preview  --captureQueu-->  capture --> Java *)
(*                                                                         *)
(*   "stream"   libuvc's _uvc_user_caller running                          *)
(*              uvc_preview_frame_callback;                                *)
(*   "preview"  preview_thread_func: decodes, draws, hands to capture;     *)
(*   capture    capture_thread_func: converts and calls IFrameCallback;    *)
(*   "app"      the Java thread that calls the native methods.             *)
(*                                                                         *)
(* A critical section that does not wait in its middle is one action; the  *)
(* unlocked accesses (mIsRunning, mIsCapturing, mFrameCallbackObj, the     *)
(* pthread_cond_signal calls made without the mutex) are actions of their  *)
(* own.  preview_mutex is never held across an action, so it has no        *)
(* variable; capture_mutex is, by setFrameCallback.                        *)
(*                                                                         *)
(* Abstracted: pixels (a frame is its buffer and the number of the USB     *)
(* image in it) and window geometry.  Frames are interchangeable, so the   *)
(* pool, a stack in the code, is a set.                                    *)
(***************************************************************************)
EXTENDS Integers, Sequences, FiniteSets

CONSTANTS
  Buffers,         \* frame buffers the heap can provide
  CaptureThreads,  \* thread ids pthread_create can give to capture threads
  Callbacks,       \* Java IFrameCallback objects
  Surfaces,        \* ANativeWindows given to setCaptureDisplay
  NULL,
  Mjpeg,           \* frameMode: MJPEG frames are decoded before drawing
  Convert,         \* mFrameCallbackFunc # NULL: the callback format converts
  Spurious,        \* whether pthread_cond_wait may wake without a signal
  MAX_FRAME,       \* capacity of previewFrames
  MaxImages,       \* bound: USB images of a behaviour
  MaxSessions,     \* bound: startPreview calls of a behaviour
  MaxRefs          \* bound: references to one capture window

ASSUME ConstantsAssumption ==
  /\ MAX_FRAME \in Nat \ {0}
  /\ MaxImages \in Nat
  /\ MaxSessions \in Nat
  /\ MaxRefs \in Nat
  /\ Mjpeg \in BOOLEAN
  /\ Convert \in BOOLEAN
  /\ Spurious \in BOOLEAN
  /\ {"app", "stream", "preview"} \cap CaptureThreads = {}
  /\ NULL \notin Callbacks \cup CaptureThreads \cup Surfaces
  /\ NULL \notin [buf : Buffers, img : Nat]
  /\ IsFiniteSet(Buffers)

FRAME_POOL_SZ == MAX_FRAME * 2

Threads == {"app", "stream", "preview"} \cup CaptureThreads

\* The local variables that hold a frame.
Slots ==
  {<<"stream", "copy">>, <<"preview", "mjpeg">>, <<"preview", "frame">>,
   <<"preview", "converted">>, <<"preview", "rotated">>}
  \cup (CaptureThreads \X {"captured", "callback", "surface"})

Frame == [buf : Buffers, img : Nat]

VARIABLES
  mIsRunning, mIsCapturing,
  previewFrames,      \* sequence of frames: stream -> preview
  captureQueu,        \* the latest drawn frame: preview -> capture
  mFramePool,         \* buffers kept for reuse
  heap,               \* buffers allocated and not freed
  held,               \* frame in each local variable
  mPreviewWindow,     \* whether a preview window is set
  mFrameCallbackObj,
  newCallback,        \* argument of the setFrameCallback in progress
  mCaptureWindow,
  newWindow,          \* argument of the setCaptureDisplay in progress
  surfaceRefs,        \* references the pipeline has acquired less those released
  surfaceLoop,        \* whether a capture thread runs do_capture_surface
  capture_mutex,      \* its holder, between actions
  capture_thread,     \* the handle member: NULL until created or once joined
  streaming,          \* libuvc runs the stream
  waitSet,            \* threads blocked in pthread_cond_wait
  pc,
  sessions,           \* startPreview calls so far
  images,             \* USB images so far
  delivered,          \* history: numbers of the images given to onFrame
  lateWaiters         \* history: threads that began to wait after mIsRunning
                      \* was cleared

flagVars     == <<mIsRunning, mIsCapturing>>
queueVars    == <<previewFrames, captureQueu>>
poolVars     == <<mFramePool, heap, held>>
frameVars    == <<queueVars, poolVars>>
windowVars   == <<mCaptureWindow, newWindow, surfaceRefs, surfaceLoop>>
callbackVars == <<mFrameCallbackObj, newCallback>>
appVars      == <<mPreviewWindow, callbackVars, windowVars>>
handleVars   == <<capture_mutex, capture_thread, streaming>>
waitVars     == <<waitSet, lateWaiters>>
threadVars   == <<handleVars, waitVars>>
counterVars  == <<sessions, images, delivered>>
controlVars  == <<flagVars, appVars, threadVars, counterVars>>
vars == <<controlVars, frameVars, pc>>

-----------------------------------------------------------------------------
(* The frame pool and the condition variables.                             *)

Goto(t, label) == pc' = [pc EXCEPT ![t] = label]

\* get_frame: the pool first, then the heap.
GetFrame(slot, img) ==
  \E b \in (IF mFramePool # {} THEN mFramePool ELSE Buffers \ heap) :
    /\ mFramePool' = mFramePool \ {b}
    /\ heap' = heap \cup {b}
    /\ held' = [held EXCEPT ![slot] = [buf |-> b, img |-> img]]

\* get_frame returns NULL: uvc_allocate_frame found no memory.
OutOfMemory == mFramePool = {} /\ Buffers \subseteq heap

\* recycle_frame of each buffer of S: as many as fit go to the pool, the rest
\* is freed.
Recycle(S) ==
  \E kept \in SUBSET S :
    LET room == FRAME_POOL_SZ - Cardinality(mFramePool) IN
    /\ Cardinality(kept) = IF Cardinality(S) < room THEN Cardinality(S) ELSE room
    /\ mFramePool' = mFramePool \cup kept
    /\ heap' = heap \ (S \ kept)

FramesOf(S) == {held[s].buf : s \in {t \in S : held[t] # NULL}}
Drop(S) == [s \in Slots |-> IF s \in S THEN NULL ELSE held[s]]
QueuedBuffers == {previewFrames[i].buf : i \in DOMAIN previewFrames}
CaptureBuffers == IF captureQueu = NULL THEN {} ELSE {captureQueu.buf}

\* Mutant: the preview thread waits for another condition than is signalled.
PreviewWaiters_Other == waitSet \cap {"app"}

PreviewWaiters == waitSet \cap {"preview"}
CaptureWaiters == waitSet \cap ({"app"} \cup CaptureThreads)

\* pthread_cond_signal wakes one of the waiters ws, if there is any.
AfterSignal(ws) == IF ws = {} THEN {{}} ELSE {{t} : t \in ws}

BeginWait(t) ==
  /\ waitSet' = waitSet \cup {t}
  /\ lateWaiters' = IF mIsRunning THEN lateWaiters ELSE lateWaiters \cup {t}

-----------------------------------------------------------------------------
(* The app thread: the native methods of UVCCamera, one call at a time.    *)

StartPreview ==
  /\ pc["app"] = "idle" /\ ~mIsRunning /\ sessions < MaxSessions
  /\ mIsRunning' = TRUE
  /\ sessions' = sessions + 1
  /\ lateWaiters' = {}
  /\ Goto("app", "create")
  /\ UNCHANGED <<frameVars, appVars, handleVars, mIsCapturing, waitSet, images,
                 delivered>>

\* pthread_create of the preview thread, which may fail.
CreatePreviewThread ==
  /\ pc["app"] = "create"
  /\ \/ /\ pc' = [pc EXCEPT !["app"] = "idle", !["preview"] = "prepare"]
        /\ UNCHANGED mIsRunning
     \/ /\ mIsRunning' = FALSE
        /\ Goto("app", "idle")
  /\ UNCHANGED <<frameVars, appVars, threadVars, counterVars, mIsCapturing>>

StopPreview ==
  /\ pc["app"] = "idle"
  /\ mIsRunning' = FALSE
  /\ Goto("app", IF mIsRunning THEN "signal" ELSE "clearPreview")
  /\ UNCHANGED <<frameVars, appVars, threadVars, counterVars, mIsCapturing>>

\* Both signals are sent without their mutexes.
SignalThreads ==
  /\ pc["app"] = "signal"
  /\ \E p \in AfterSignal(PreviewWaiters), c \in AfterSignal(CaptureWaiters) :
       waitSet' = waitSet \ (p \cup c)
  /\ Goto("app", "joinCapture")
  /\ UNCHANGED <<frameVars, appVars, flagVars, handleVars, counterVars,
                 lateWaiters>>

\* pthread_join of a handle that names no thread fails and returns at once.
JoinCapture ==
  /\ pc["app"] = "joinCapture"
  /\ capture_thread # NULL => pc[capture_thread] = "done"
  /\ capture_thread' = NULL
  /\ Goto("app", "joinPreview")
  /\ UNCHANGED <<frameVars, appVars, flagVars, waitVars, counterVars,
                 capture_mutex, streaming>>

\* Mutant: the preview thread is not joined.
JoinPreview_NotJoined ==
  /\ pc["app"] = "joinPreview"
  /\ pc' = [pc EXCEPT !["app"] = "clearPreview", !["preview"] = "none"]
  /\ UNCHANGED <<controlVars, frameVars>>

JoinPreview ==
  /\ pc["app"] = "joinPreview" /\ pc["preview"] = "done"
  /\ pc' = [pc EXCEPT !["app"] = "clearPreview", !["preview"] = "none"]
  /\ UNCHANGED <<controlVars, frameVars>>

ClearPreviewFrame ==
  /\ pc["app"] = "clearPreview"
  /\ Recycle(QueuedBuffers)
  /\ previewFrames' = <<>>
  /\ Goto("app", "clearCapture")
  /\ UNCHANGED <<controlVars, captureQueu, held>>

ClearCaptureFrame ==
  /\ pc["app"] = "clearCapture" /\ capture_mutex = NULL
  /\ Recycle(CaptureBuffers)
  /\ captureQueu' = NULL
  /\ Goto("app", "release")
  /\ UNCHANGED <<controlVars, previewFrames, held>>

Acquired(refs, w) == IF w = NULL THEN refs ELSE [refs EXCEPT ![w] = @ + 1]
Released(refs, w) == IF w = NULL THEN refs ELSE [refs EXCEPT ![w] = @ - 1]

ReleaseWindows ==
  /\ pc["app"] = "release"
  /\ mPreviewWindow' = FALSE
  /\ surfaceRefs' = Released(surfaceRefs, mCaptureWindow)
  /\ mCaptureWindow' = NULL
  /\ Goto("app", "idle")
  /\ UNCHANGED <<frameVars, threadVars, flagVars, callbackVars, counterVars,
                 newWindow, surfaceLoop>>

SetPreviewDisplay ==
  /\ pc["app"] = "idle"
  /\ mPreviewWindow' \in BOOLEAN
  /\ UNCHANGED <<frameVars, threadVars, flagVars, windowVars, callbackVars,
                 counterVars, pc>>

\* setFrameCallback up to its wait: nothing to wait for, and the callback is
\* replaced in the same critical section, or the mutex stays held.
SetFrameCallback(obj) ==
  /\ pc["app"] = "idle" /\ capture_mutex = NULL
  /\ mIsCapturing' = (mIsCapturing /\ ~mIsRunning)
  /\ IF mIsRunning /\ mIsCapturing /\ mFrameCallbackObj # NULL
     THEN /\ newCallback' = obj
          /\ capture_mutex' = "app"
          /\ Goto("app", "cbSignal")
          /\ UNCHANGED mFrameCallbackObj
     ELSE /\ mFrameCallbackObj' = obj
          /\ UNCHANGED <<newCallback, capture_mutex, pc>>
  /\ UNCHANGED <<frameVars, windowVars, waitVars, counterVars, mIsRunning,
                 mPreviewWindow, capture_thread, streaming>>

\* "wait finishing capturing", of setFrameCallback and setCaptureDisplay:
\* signal, then one wait that is not repeated.
SignalCaptureAndWait ==
  /\ pc["app"] \in {"cbSignal", "dispSignal"}
  /\ \E c \in AfterSignal(CaptureWaiters) : waitSet' = (waitSet \ c) \cup {"app"}
  /\ capture_mutex' = NULL
  /\ Goto("app", IF pc["app"] = "cbSignal" THEN "cbWaiting" ELSE "dispWaiting")
  /\ UNCHANGED <<frameVars, appVars, flagVars, counterVars, capture_thread,
                 streaming, lateWaiters>>

ReplaceCallback ==
  /\ pc["app"] = "cbWaiting" /\ "app" \notin waitSet /\ capture_mutex = NULL
  /\ mFrameCallbackObj' = newCallback
  /\ newCallback' = NULL
  /\ Goto("app", "idle")
  /\ UNCHANGED <<frameVars, threadVars, flagVars, windowVars, counterVars,
                 mPreviewWindow>>

\* setCaptureDisplay once nothing is to be waited for.  refs counts the
\* reference of w that ANativeWindow_fromSurface took; a window whose format
\* does not fit is released and not kept.
AssignCaptureWindow(refs, w) ==
  IF w = mCaptureWindow
  THEN surfaceRefs' = refs /\ UNCHANGED mCaptureWindow
  ELSE \/ /\ mCaptureWindow' = w
          /\ surfaceRefs' = Released(refs, mCaptureWindow)
       \/ /\ w # NULL
          /\ mCaptureWindow' = NULL
          /\ surfaceRefs' = Released(Released(refs, mCaptureWindow), w)

\* nativeSetCaptureDisplay up to the wait of setCaptureDisplay.
SetCaptureDisplay(w) ==
  /\ pc["app"] = "idle" /\ capture_mutex = NULL
  /\ \A x \in Surfaces : surfaceRefs[x] \in 0..(MaxRefs - 1)
  /\ mIsCapturing' = (mIsCapturing /\ ~mIsRunning)
  /\ IF mIsRunning /\ mIsCapturing /\ mCaptureWindow # NULL
     THEN /\ newWindow' = w
          /\ surfaceRefs' = Acquired(surfaceRefs, w)
          /\ capture_mutex' = "app"
          /\ Goto("app", "dispSignal")
          /\ UNCHANGED mCaptureWindow
     ELSE /\ AssignCaptureWindow(Acquired(surfaceRefs, w), w)
          /\ UNCHANGED <<newWindow, capture_mutex, pc>>
  /\ UNCHANGED <<frameVars, callbackVars, waitVars, counterVars, mIsRunning,
                 mPreviewWindow, surfaceLoop, capture_thread, streaming>>

ReplaceCaptureWindow ==
  /\ pc["app"] = "dispWaiting" /\ "app" \notin waitSet /\ capture_mutex = NULL
  /\ AssignCaptureWindow(surfaceRefs, newWindow)
  /\ newWindow' = NULL
  /\ Goto("app", "idle")
  /\ UNCHANGED <<frameVars, threadVars, flagVars, callbackVars, counterVars,
                 mPreviewWindow, surfaceLoop>>

-----------------------------------------------------------------------------
(* The stream thread: uvc_preview_frame_callback on each USB image.        *)

copy == <<"stream", "copy">>

\* The image is copied to a frame, or dropped: not running, a broken frame, no
\* memory.
ReceiveImage ==
  /\ pc["stream"] = "idle" /\ streaming /\ images < MaxImages
  /\ images' = images + 1
  /\ \/ UNCHANGED <<poolVars, pc>>
     \/ /\ mIsRunning
        /\ GetFrame(copy, images + 1)
        /\ Goto("stream", "add")
  /\ UNCHANGED <<appVars, threadVars, flagVars, queueVars, sessions, delivered>>

\* Mutant: the capacity test is off by one.
HasRoom_OneMore == Len(previewFrames) <= MAX_FRAME

HasRoom == Len(previewFrames) < MAX_FRAME

\* addPreviewFrame, or recycle_frame when uvc_duplicate_frame failed.
AddPreviewFrame ==
  /\ pc["stream"] = "add"
  /\ \/ /\ mIsRunning /\ HasRoom
        /\ previewFrames' = Append(previewFrames, held[copy])
        /\ waitSet' = waitSet \ PreviewWaiters
        /\ UNCHANGED <<mFramePool, heap>>
     \/ /\ Recycle(FramesOf({copy}))
        /\ UNCHANGED <<previewFrames, waitSet>>
  /\ held' = Drop({copy})
  /\ Goto("stream", "idle")
  /\ UNCHANGED <<appVars, flagVars, handleVars, counterVars, captureQueu,
                 lateWaiters>>

-----------------------------------------------------------------------------
(* The preview thread: preview_thread_func.                                *)

mjpeg     == <<"preview", "mjpeg">>
frame     == <<"preview", "frame">>
converted == <<"preview", "converted">>
rotated   == <<"preview", "rotated">>

\* prepare_preview and uvc_start_streaming_bandwidth: either may fail, and the
\* thread then ends with mIsRunning still set.
StartStreaming ==
  /\ pc["preview"] = "prepare"
  /\ \/ streaming' = TRUE /\ Goto("preview", "create")
     \/ UNCHANGED streaming /\ Goto("preview", "done")
  /\ UNCHANGED <<frameVars, appVars, flagVars, waitVars, counterVars,
                 capture_mutex, capture_thread>>

\* clearPreviewFrame, then pthread_create of the capture thread, whose failure
\* the code does not notice: capture_thread is then no thread's handle.
CreateCaptureThread(c) ==
  /\ pc["preview"] = "create" /\ pc[c] = "none"
  /\ Recycle(QueuedBuffers)
  /\ previewFrames' = <<>>
  /\ \/ /\ capture_thread' = c
        /\ pc' = [pc EXCEPT !["preview"] = "loop", ![c] = "start"]
     \/ /\ capture_thread' = NULL
        /\ Goto("preview", "loop")
  /\ UNCHANGED <<appVars, flagVars, waitVars, counterVars, captureQueu, held,
                 capture_mutex, streaming>>

\* The loop test; the wait that follows does not look at mIsRunning again.
PreviewLoop ==
  /\ pc["preview"] = "loop"
  /\ Goto("preview", IF mIsRunning THEN "wait" ELSE "exit")
  /\ UNCHANGED <<controlVars, frameVars>>

\* The end of waitPreviewFrame, with preview_mutex held.
RemovePreviewFrame ==
  \/ /\ mIsRunning /\ previewFrames # <<>>
     /\ held' = [held EXCEPT ![IF Mjpeg THEN mjpeg ELSE frame] = Head(previewFrames)]
     /\ previewFrames' = Tail(previewFrames)
     /\ Goto("preview", "got")
  \/ /\ ~mIsRunning \/ previewFrames = <<>>
     /\ Goto("preview", "loop")
     /\ UNCHANGED <<previewFrames, held>>

WaitPreviewFrame ==
  /\ \/ /\ pc["preview"] = "wait" /\ previewFrames = <<>>
        /\ BeginWait("preview")
        /\ Goto("preview", "waiting")
        /\ UNCHANGED <<previewFrames, held>>
     \/ /\ \/ pc["preview"] = "wait" /\ previewFrames # <<>>
           \/ pc["preview"] = "waiting" /\ "preview" \notin waitSet
        /\ RemovePreviewFrame
        /\ UNCHANGED waitVars
  /\ UNCHANGED <<appVars, flagVars, handleVars, counterVars, captureQueu,
                 mFramePool, heap>>

\* The second test of mIsRunning: a frame taken just before stopPreview is
\* dropped without being recycled.
TestRunning ==
  /\ pc["preview"] = "got"
  /\ IF mIsRunning
     THEN /\ Goto("preview", IF Mjpeg THEN "decode" ELSE "draw")
          /\ UNCHANGED held
     ELSE /\ Goto("preview", "loop")
          /\ held' = Drop({mjpeg, frame})
  /\ UNCHANGED <<controlVars, queueVars, mFramePool, heap>>

\* get_frame for the decoder; the code does not expect it to fail.
GetDecoded ==
  /\ pc["preview"] = "decode"
  /\ GetFrame(frame, held[mjpeg].img)
  /\ Goto("preview", "decoded")
  /\ UNCHANGED <<controlVars, queueVars>>

\* Mutant: after a failure the output frame is not recycled.
Decode_KeepsOutput ==
  /\ pc["preview"] = "decoded"
  /\ Recycle(FramesOf({mjpeg}))
  /\ \/ held' = Drop({mjpeg}) /\ Goto("preview", "draw")
     \/ held' = Drop({mjpeg, frame}) /\ Goto("preview", "loop")
  /\ UNCHANGED <<controlVars, queueVars>>

\* uvc_mjpeg2yuyv, which may fail.
Decode ==
  /\ pc["preview"] = "decoded"
  /\ \/ /\ Recycle(FramesOf({mjpeg}))
        /\ held' = Drop({mjpeg})
        /\ Goto("preview", "draw")
     \/ /\ Recycle(FramesOf({mjpeg, frame}))
        /\ held' = Drop({mjpeg, frame})
        /\ Goto("preview", "loop")
  /\ UNCHANGED <<controlVars, queueVars>>

\* draw_preview_one: a frame for the converted image, when there is a window.
DrawConvert ==
  /\ pc["preview"] = "draw"
  /\ \/ /\ mPreviewWindow
        /\ GetFrame(converted, held[frame].img)
        /\ Goto("preview", "rotate")
     \/ /\ ~mPreviewWindow \/ OutOfMemory
        /\ Goto("preview", "add")
        /\ UNCHANGED poolVars
  /\ UNCHANGED <<controlVars, queueVars>>

\* A frame for the rotated image, unless the conversion failed.
DrawRotate ==
  /\ pc["preview"] = "rotate"
  /\ Goto("preview", "drawn")
  /\ \/ GetFrame(rotated, held[frame].img)
     \/ UNCHANGED poolVars
  /\ UNCHANGED <<controlVars, queueVars>>

DrawDone ==
  /\ pc["preview"] = "drawn"
  /\ Recycle(FramesOf({converted, rotated}))
  /\ held' = Drop({converted, rotated})
  /\ Goto("preview", "add")
  /\ UNCHANGED <<controlVars, queueVars>>

\* Mutant: the frame that is replaced is not recycled.
KeepLatest_Overwrites ==
  captureQueu' = held[frame] /\ UNCHANGED <<mFramePool, heap>>

KeepLatest == Recycle(CaptureBuffers) /\ captureQueu' = held[frame]

\* addCaptureFrame keeps only the latest frame; once stopped, the frame is
\* neither queued nor recycled.
AddCaptureFrame ==
  /\ pc["preview"] = "add" /\ capture_mutex = NULL
  /\ \/ /\ mIsRunning
        /\ KeepLatest
        /\ waitSet' = waitSet \ CaptureWaiters
     \/ /\ ~mIsRunning
        /\ UNCHANGED <<captureQueu, mFramePool, heap, waitSet>>
  /\ held' = Drop({frame})
  /\ Goto("preview", "loop")
  /\ UNCHANGED <<appVars, flagVars, handleVars, counterVars, previewFrames,
                 lateWaiters>>

\* The signal after the loop, without the mutex.
PreviewExit ==
  /\ pc["preview"] = "exit"
  /\ \E c \in AfterSignal(CaptureWaiters) : waitSet' = waitSet \ c
  /\ Goto("preview", "stopStream")
  /\ UNCHANGED <<frameVars, appVars, flagVars, handleVars, counterVars,
                 lateWaiters>>

\* uvc_stop_streaming joins the thread that runs the callback.
StopStreaming ==
  /\ pc["preview"] = "stopStream" /\ pc["stream"] = "idle"
  /\ streaming' = FALSE
  /\ Goto("preview", "done")
  /\ UNCHANGED <<frameVars, appVars, flagVars, waitVars, counterVars,
                 capture_mutex, capture_thread>>

-----------------------------------------------------------------------------
(* A capture thread: capture_thread_func.                                  *)

capFrame(c) == <<c, "captured">>
cbFrame(c)  == <<c, "callback">>
surfaceFrame(c) == <<c, "surface">>

\* do_capture begins with clearCaptureFrame.
CaptureStart(c) ==
  /\ pc[c] = "start" /\ capture_mutex = NULL
  /\ Recycle(CaptureBuffers)
  /\ captureQueu' = NULL
  /\ Goto(c, "loop")
  /\ UNCHANGED <<controlVars, previewFrames, held>>

\* mCaptureWindow is read without the mutex.
CaptureLoop(c) ==
  /\ pc[c] = "loop"
  /\ \/ /\ mIsRunning
        /\ mIsCapturing' = TRUE
        /\ surfaceLoop' = [surfaceLoop EXCEPT ![c] = mCaptureWindow # NULL]
        /\ Goto(c, "test")
     \/ /\ ~mIsRunning
        /\ Goto(c, "done")
        /\ UNCHANGED <<mIsCapturing, surfaceLoop>>
  /\ UNCHANGED <<frameVars, threadVars, callbackVars, counterVars, mIsRunning,
                 mPreviewWindow, mCaptureWindow, newWindow, surfaceRefs>>

\* The loop test of do_capture_idle_loop and do_capture_surface, without the
\* mutex.
TestCapturing(c) ==
  /\ pc[c] = "test"
  /\ Goto(c, IF mIsRunning /\ mIsCapturing THEN "wait"
             ELSE IF surfaceLoop[c] THEN "endSurface" ELSE "leave")
  /\ UNCHANGED <<controlVars, frameVars>>

\* Mutant: the frame that is taken stays in captureQueu.
TakeCaptureFrame_Kept(c) ==
  \/ /\ mIsRunning /\ captureQueu # NULL
     /\ held' = [held EXCEPT ![capFrame(c)] = captureQueu]
     /\ UNCHANGED captureQueu
     /\ Goto(c, IF surfaceLoop[c] THEN "surface" ELSE "callback")
  \/ /\ ~mIsRunning \/ captureQueu = NULL
     /\ Goto(c, "test")
     /\ UNCHANGED <<captureQueu, held>>

\* The end of waitCaptureFrame, with capture_mutex held.
TakeCaptureFrame(c) ==
  \/ /\ mIsRunning /\ captureQueu # NULL
     /\ held' = [held EXCEPT ![capFrame(c)] = captureQueu]
     /\ captureQueu' = NULL
     /\ Goto(c, IF surfaceLoop[c] THEN "surface" ELSE "callback")
  \/ /\ ~mIsRunning \/ captureQueu = NULL
     /\ Goto(c, "test")
     /\ UNCHANGED <<captureQueu, held>>

WaitCaptureFrame(c) ==
  /\ capture_mutex = NULL
  /\ \/ /\ pc[c] = "wait" /\ captureQueu = NULL
        /\ BeginWait(c)
        /\ Goto(c, "waiting")
        /\ UNCHANGED <<captureQueu, held>>
     \/ /\ \/ pc[c] = "wait" /\ captureQueu # NULL
           \/ pc[c] = "waiting" /\ c \notin waitSet
        /\ TakeCaptureFrame(c)
        /\ UNCHANGED waitVars
  /\ UNCHANGED <<appVars, flagVars, handleVars, counterVars, previewFrames,
                 mFramePool, heap>>

\* do_capture_surface: its own frame for the converted image is taken once.
\* What it draws to mCaptureWindow changes no frame.
CaptureToSurface(c) ==
  /\ pc[c] = "surface"
  /\ \/ /\ ~mIsRunning
        /\ held' = Drop({capFrame(c)})
        /\ Goto(c, "test")
        /\ UNCHANGED <<mFramePool, heap>>
     \/ /\ mIsRunning /\ mIsCapturing /\ held[surfaceFrame(c)] = NULL
        /\ GetFrame(surfaceFrame(c), held[capFrame(c)].img)
        /\ Goto(c, "callback")
     \/ /\ mIsRunning
        /\ mIsCapturing => held[surfaceFrame(c)] # NULL \/ OutOfMemory
        /\ Goto(c, "callback")
        /\ UNCHANGED poolVars
  /\ UNCHANGED <<controlVars, queueVars>>

\* The end of do_capture_surface recycles its frame,
EndSurface(c) ==
  /\ pc[c] = "endSurface"
  /\ Recycle(FramesOf({surfaceFrame(c)}))
  /\ held' = Drop({surfaceFrame(c)})
  /\ Goto(c, "releaseWindow")
  /\ UNCHANGED <<controlVars, queueVars>>

\* releases the window, without the mutex,
ReleaseCaptureWindow(c) ==
  /\ pc[c] = "releaseWindow"
  /\ surfaceRefs' = Released(surfaceRefs, mCaptureWindow)
  /\ Goto(c, IF mCaptureWindow # NULL THEN "clearWindow" ELSE "leave")
  /\ UNCHANGED <<frameVars, threadVars, flagVars, callbackVars, counterVars,
                 mPreviewWindow, mCaptureWindow, newWindow, surfaceLoop>>

\* and then forgets it.
ClearCaptureWindow(c) ==
  /\ pc[c] = "clearWindow"
  /\ mCaptureWindow' = NULL
  /\ Goto(c, "leave")
  /\ UNCHANGED <<frameVars, threadVars, flagVars, callbackVars, counterVars,
                 mPreviewWindow, newWindow, surfaceRefs, surfaceLoop>>

\* do_capture_callback reads mFrameCallbackObj without the mutex.  A frame
\* taken just before stopPreview is dropped without being recycled.
BeginCallback(c) ==
  /\ pc[c] = "callback"
  /\ \/ /\ ~mIsRunning
        /\ held' = Drop({capFrame(c)})
        /\ Goto(c, "test")
        /\ UNCHANGED <<mFramePool, heap>>
     \/ /\ mIsRunning /\ mFrameCallbackObj # NULL /\ Convert
        /\ GetFrame(cbFrame(c), held[capFrame(c)].img)
        /\ Goto(c, "convert")
     \/ /\ mIsRunning /\ mFrameCallbackObj # NULL /\ ~Convert
        /\ Goto(c, "call")
        /\ UNCHANGED poolVars
     \/ /\ mIsRunning /\ (mFrameCallbackObj = NULL \/ (Convert /\ OutOfMemory))
        /\ Goto(c, "recycle")
        /\ UNCHANGED poolVars
  /\ UNCHANGED <<controlVars, queueVars>>

\* mFrameCallbackFunc, which may fail, and the recycling of its input.
ConvertFrame(c) ==
  /\ pc[c] = "convert"
  /\ Recycle(FramesOf({capFrame(c)}))
  /\ held' = Drop({capFrame(c)})
  /\ pc' \in {[pc EXCEPT ![c] = l] : l \in {"call", "recycle"}}
  /\ UNCHANGED <<controlVars, queueVars>>

\* The test of iframecallback_fields.onFrame, set and cleared with the object.
TestMethod(c) ==
  /\ pc[c] = "call"
  /\ Goto(c, IF mFrameCallbackObj # NULL THEN "invoke" ELSE "recycle")
  /\ UNCHANGED <<controlVars, frameVars>>

\* CallVoidMethod(mFrameCallbackObj, onFrame, buf) reads the object again.
CallOnFrame(c) ==
  /\ pc[c] = "invoke"
  /\ \E s \in {capFrame(c), cbFrame(c)} :
       held[s] # NULL /\ delivered' = Append(delivered, held[s].img)
  /\ Goto(c, "recycle")
  /\ UNCHANGED <<frameVars, appVars, threadVars, flagVars, sessions, images>>

EndCallback(c) ==
  /\ pc[c] = "recycle"
  /\ Recycle(FramesOf({capFrame(c), cbFrame(c)}))
  /\ held' = Drop({capFrame(c), cbFrame(c)})
  /\ Goto(c, "test")
  /\ UNCHANGED <<controlVars, queueVars>>

\* The broadcast of do_capture, without the mutex.
CaptureLeave(c) ==
  /\ pc[c] = "leave"
  /\ waitSet' = waitSet \ CaptureWaiters
  /\ Goto(c, "loop")
  /\ UNCHANGED <<frameVars, appVars, flagVars, handleVars, counterVars,
                 lateWaiters>>

-----------------------------------------------------------------------------
\* pthread_cond_wait may return without a signal.
SpuriousWakeup ==
  /\ Spurious
  /\ \E t \in waitSet : waitSet' = waitSet \ {t}
  /\ UNCHANGED <<frameVars, appVars, flagVars, handleVars, counterVars,
                 lateWaiters, pc>>

Init ==
  /\ mIsRunning = FALSE /\ mIsCapturing = FALSE
  /\ previewFrames = <<>> /\ captureQueu = NULL
  /\ mFramePool = {} /\ heap = {}
  /\ held = [s \in Slots |-> NULL]
  /\ mPreviewWindow = FALSE
  /\ mFrameCallbackObj = NULL /\ newCallback = NULL
  /\ mCaptureWindow = NULL /\ newWindow = NULL
  /\ surfaceRefs = [w \in Surfaces |-> 0]
  /\ surfaceLoop = [c \in CaptureThreads |-> FALSE]
  /\ capture_mutex = NULL /\ capture_thread = NULL
  /\ streaming = FALSE
  /\ waitSet = {} /\ lateWaiters = {}
  /\ pc = [t \in Threads |-> IF t \in {"app", "stream"} THEN "idle" ELSE "none"]
  /\ sessions = 0 /\ images = 0 /\ delivered = <<>>

\* The capture display, of runs with capture windows.
SurfaceCall ==
  /\ Surfaces # {}
  /\ \E w \in Surfaces \cup {NULL} : SetCaptureDisplay(w)

AppCall ==
  \/ StartPreview
  \/ StopPreview
  \/ SetPreviewDisplay
  \/ \E obj \in Callbacks \cup {NULL} : SetFrameCallback(obj)
  \/ SurfaceCall

AppStep ==
  \/ CreatePreviewThread
  \/ SignalThreads
  \/ JoinCapture
  \/ JoinPreview
  \/ ClearPreviewFrame
  \/ ClearCaptureFrame
  \/ ReleaseWindows
  \/ SignalCaptureAndWait
  \/ ReplaceCallback
  \/ ReplaceCaptureWindow

PreviewStep ==
  \/ StartStreaming
  \/ \E c \in CaptureThreads : CreateCaptureThread(c)
  \/ PreviewLoop
  \/ WaitPreviewFrame
  \/ TestRunning
  \/ GetDecoded
  \/ Decode
  \/ DrawConvert
  \/ DrawRotate
  \/ DrawDone
  \/ AddCaptureFrame
  \/ PreviewExit
  \/ StopStreaming

CaptureStep(c) ==
  \/ CaptureStart(c)
  \/ CaptureLoop(c)
  \/ TestCapturing(c)
  \/ WaitCaptureFrame(c)
  \/ CaptureToSurface(c)
  \/ BeginCallback(c)
  \/ ConvertFrame(c)
  \/ TestMethod(c)
  \/ CallOnFrame(c)
  \/ EndCallback(c)
  \/ EndSurface(c)
  \/ ReleaseCaptureWindow(c)
  \/ ClearCaptureWindow(c)
  \/ CaptureLeave(c)

Next ==
  \/ AppCall
  \/ AppStep
  \/ ReceiveImage
  \/ AddPreviewFrame
  \/ PreviewStep
  \/ \E c \in CaptureThreads : CaptureStep(c)
  \/ SpuriousWakeup

Spec == Init /\ [][Next]_vars

\* Every thread that can run does, and one that waits for capture_mutex gets it
\* when it is free again and again; the app's calls, the images of the camera
\* and spurious wakeups are not promised.
Fairness ==
  /\ WF_vars(AppStep)
  /\ WF_vars(AddPreviewFrame)
  /\ SF_vars(PreviewStep)
  /\ \A c \in CaptureThreads : SF_vars(CaptureStep(c))

FairSpec == Spec /\ Fairness

-----------------------------------------------------------------------------
(* Properties.                                                             *)

AppLabels == {"idle", "create", "signal", "joinCapture", "joinPreview",
              "clearPreview", "clearCapture", "release", "cbSignal", "cbWaiting",
              "dispSignal", "dispWaiting"}
PreviewLabels == {"none", "prepare", "create", "loop", "wait", "waiting", "got",
                  "decode", "decoded", "draw", "rotate", "drawn", "add", "exit",
                  "stopStream", "done"}
CaptureLabels == {"none", "start", "loop", "test", "wait", "waiting", "callback",
                  "convert", "call", "invoke", "recycle", "surface",
                  "endSurface", "releaseWindow", "clearWindow", "leave", "done"}

Labels == AppLabels \cup PreviewLabels \cup CaptureLabels

\* The type of every variable.
TypeOK ==
  /\ mIsRunning \in BOOLEAN /\ mIsCapturing \in BOOLEAN
  /\ previewFrames \in Seq(Frame)
  /\ captureQueu \in Frame \cup {NULL}
  /\ mFramePool \in SUBSET Buffers /\ heap \in SUBSET Buffers
  /\ held \in [Slots -> Frame \cup {NULL}]
  /\ mPreviewWindow \in BOOLEAN
  /\ mFrameCallbackObj \in Callbacks \cup {NULL}
  /\ newCallback \in Callbacks \cup {NULL}
  /\ mCaptureWindow \in Surfaces \cup {NULL} /\ newWindow \in Surfaces \cup {NULL}
  /\ surfaceRefs \in [Surfaces -> Int]
  /\ surfaceLoop \in [CaptureThreads -> BOOLEAN]
  /\ capture_mutex \in {NULL, "app"}
  /\ capture_thread \in CaptureThreads \cup {NULL}
  /\ streaming \in BOOLEAN
  /\ waitSet \in SUBSET Threads /\ lateWaiters \in SUBSET Threads
  /\ pc \in [Threads -> Labels]
  /\ sessions \in Nat /\ images \in Nat /\ delivered \in Seq(Nat)

\* A thread that is about to use a frame has one.
HandsFollowPc ==
  /\ pc["stream"] = "add" => held[copy] # NULL
  /\ pc["preview"] = "got" => held[IF Mjpeg THEN mjpeg ELSE frame] # NULL
  /\ pc["preview"] \in {"decode", "decoded"} => held[mjpeg] # NULL
  /\ pc["preview"] \in {"decoded", "draw", "rotate", "drawn", "add"} =>
       held[frame] # NULL
  /\ \A c \in CaptureThreads :
       pc[c] \in {"callback", "surface"} => held[capFrame(c)] # NULL

Reachable == mFramePool \cup QueuedBuffers \cup CaptureBuffers \cup FramesOf(Slots)
Leaked == heap \ Reachable

\* A buffer is in one place at a time: the pool, one position of a queue, or
\* one local variable of one thread; and it is never used after it was freed.
\* This is what lets frames change threads without a lock on the frame.
FramesHaveOneOwner ==
  /\ Reachable \subseteq heap
  /\ mFramePool \cap (QueuedBuffers \cup CaptureBuffers \cup FramesOf(Slots)) = {}
  /\ QueuedBuffers \cap (CaptureBuffers \cup FramesOf(Slots)) = {}
  /\ CaptureBuffers \cap FramesOf(Slots) = {}
  /\ \A i, j \in DOMAIN previewFrames :
       previewFrames[i].buf = previewFrames[j].buf => i = j
  /\ \A s, t \in Slots :
       held[s] # NULL /\ held[t] # NULL /\ held[s].buf = held[t].buf => s = t

\* The pool keeps at most FRAME_POOL_SZ buffers and the preview queue holds at
\* most MAX_FRAME frames, whichever threads put into them.
WithinCapacity ==
  Cardinality(mFramePool) <= FRAME_POOL_SZ /\ Len(previewFrames) <= MAX_FRAME

\* While the preview runs no frame is lost to the heap: every frame taken from
\* the pool is queued, recycled or freed on every path.
LeakOnlyWhenStopped == [][Leaked' \subseteq Leaked \/ ~mIsRunning]_vars

\* A session leaks at most one frame of its preview thread and one of each
\* capture thread made so far, those in their hands when mIsRunning was
\* cleared: two in the first session, one more in each later one, because a
\* capture thread made after stopPreview's join lives on.
LeaksPerSession == 2 * Cardinality(Leaked) <= sessions * (sessions + 3)

\* From the USB frame callback to onFrame the pipeline is a channel of images:
\* onFrame gets those that are not lost in the camera's order, each once.
Channel ==
  INSTANCE ImageChannel
  WITH offered <- images, handed <- delivered, noisy <- FALSE

ImplementsChannel == Channel!Spec

\* When stopPreview has returned, nothing of the session is left: the preview
\* thread has ended, libuvc has stopped and no onFrame call is under way, but
\* for those of the threads that earlier sessions, one each, left unjoined.
Calling == {c \in CaptureThreads : pc[c] \in {"call", "invoke"}}

StopQuiesces ==
  pc["app"] = "idle" /\ ~mIsRunning =>
    /\ pc["preview"] = "none" /\ ~streaming /\ pc["stream"] = "idle"
    /\ Calling = {} \/ Cardinality(Calling) < sessions

Stopping == pc["app"] \in {"signal", "joinCapture", "joinPreview", "clearPreview",
                           "clearCapture", "release"}

\* stopPreview returns, unless a thread began to wait after mIsRunning was
\* cleared (the wakeup it needed had been sent).
StopReturnsUnlessLate == Stopping ~> (pc["app"] = "idle" \/ lateWaiters # {})

\* A queued image does not stay at the head of the queue while running.
HeadIsTaken ==
  \A n \in 1..MaxImages :
    (previewFrames # <<>> /\ previewFrames[1].img = n)
      ~> (~mIsRunning \/ previewFrames = <<>> \/ previewFrames[1].img # n)

=============================================================================
