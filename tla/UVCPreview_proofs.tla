------------------------- MODULE UVCPreview_proofs -------------------------
(***************************************************************************)
(* Proofs about the preview pipeline, for any number of buffers, images,   *)
(* sessions and capture threads.                                           *)
(***************************************************************************)
EXTENDS UVCPreview, TLAPS

TypeInv == TypeOK /\ HandsFollowPc

\* What an action that touches no frame leaves alone.
LEMMA GetFrameType ==
  ASSUME TypeOK, NEW slot \in Slots, NEW img \in Nat, GetFrame(slot, img)
  PROVE  /\ mFramePool' \in SUBSET Buffers /\ heap' \in SUBSET Buffers
         /\ held' \in [Slots -> Frame \cup {NULL}]
         /\ held'[slot] \in Frame
         /\ \A s \in Slots : s # slot => held'[s] = held[s]
BY DEF TypeOK, GetFrame, Frame

LEMMA RecycleType ==
  ASSUME TypeOK, NEW S \in SUBSET Buffers, Recycle(S)
  PROVE  mFramePool' \in SUBSET Buffers /\ heap' \in SUBSET Buffers
BY DEF TypeOK, Recycle

LEMMA FrameNotNull == NULL \notin Frame
BY ConstantsAssumption DEF Frame

LEMMA FramesOfType ==
  ASSUME TypeOK, NEW S \in SUBSET Slots
  PROVE  FramesOf(S) \in SUBSET Buffers
BY DEF TypeOK, FramesOf, Frame

LEMMA QueueType ==
  ASSUME TypeOK
  PROVE  QueuedBuffers \in SUBSET Buffers /\ CaptureBuffers \in SUBSET Buffers
<1>1. \A i \in DOMAIN previewFrames : previewFrames[i] \in Frame
  BY DEF TypeOK
<1>2. QueuedBuffers \in SUBSET Buffers
  BY <1>1 DEF QueuedBuffers, Frame
<1>3. CaptureBuffers \in SUBSET Buffers
  BY DEF TypeOK, CaptureBuffers, Frame
<1> QED BY <1>2, <1>3

LEMMA SlotsAre ==
  /\ copy \in Slots /\ mjpeg \in Slots /\ frame \in Slots /\ converted \in Slots
  /\ rotated \in Slots
  /\ \A c \in CaptureThreads : /\ capFrame(c) \in Slots /\ cbFrame(c) \in Slots
                             /\ surfaceFrame(c) \in Slots
BY DEF Slots, copy, mjpeg, frame, converted, rotated, capFrame, cbFrame, surfaceFrame

LEMMA SlotsDiffer ==
  /\ copy # mjpeg /\ copy # frame /\ copy # converted /\ copy # rotated
  /\ mjpeg # frame /\ mjpeg # converted /\ mjpeg # rotated
  /\ frame # converted /\ frame # rotated /\ converted # rotated
  /\ \A c \in CaptureThreads :
       /\ capFrame(c) \notin {copy, mjpeg, frame, converted, rotated}
       /\ cbFrame(c) \notin {copy, mjpeg, frame, converted, rotated}
       /\ surfaceFrame(c) \notin {copy, mjpeg, frame, converted, rotated}
       /\ \A d \in CaptureThreads :
            /\ capFrame(c) # cbFrame(d) /\ capFrame(c) # surfaceFrame(d)
            /\ capFrame(c) = capFrame(d) => c = d
BY DEF copy, mjpeg, frame, converted, rotated, capFrame, cbFrame, surfaceFrame

-----------------------------------------------------------------------------
(* Type correctness.                                                       *)

LEMMA ThreadsAre ==
  /\ "app" \in Threads /\ "stream" \in Threads /\ "preview" \in Threads
  /\ \A c \in CaptureThreads :
       c \in Threads /\ c # "app" /\ c # "stream" /\ c # "preview"
BY ConstantsAssumption DEF Threads

LEMMA GotoType ==
  ASSUME TypeOK, NEW t \in Threads, NEW l \in Labels, Goto(t, l)
  PROVE  /\ pc' \in [Threads -> Labels]
         /\ pc'[t] = l
         /\ \A u \in Threads : u # t => pc'[u] = pc[u]
BY DEF TypeOK, Goto

\* The parts of TypeOK.
ControlTypes ==
  /\ mIsRunning \in BOOLEAN /\ mIsCapturing \in BOOLEAN
  /\ mPreviewWindow \in BOOLEAN
  /\ mFrameCallbackObj \in Callbacks \cup {NULL}
  /\ newCallback \in Callbacks \cup {NULL}
  /\ mCaptureWindow \in Surfaces \cup {NULL} /\ newWindow \in Surfaces \cup {NULL}
  /\ surfaceRefs \in [Surfaces -> Int]
  /\ surfaceLoop \in [CaptureThreads -> BOOLEAN]
  /\ capture_mutex \in {NULL, "app"}
  /\ capture_thread \in CaptureThreads \cup {NULL}
  /\ streaming \in BOOLEAN
  /\ waitSet \in SUBSET Threads /\ lateWaiters \in SUBSET Threads
  /\ sessions \in Nat /\ images \in Nat /\ delivered \in Seq(Nat)

LEMMA ControlOK == ASSUME TypeOK PROVE ControlTypes
BY DEF TypeOK, ControlTypes

LEMMA AllTyped ==
  ASSUME ControlTypes', previewFrames' \in Seq(Frame),
         captureQueu' \in Frame \cup {NULL},
         mFramePool' \in SUBSET Buffers, heap' \in SUBSET Buffers,
         held' \in [Slots -> Frame \cup {NULL}],
         pc' \in [Threads -> Labels], HandsFollowPc'
  PROVE  TypeInv'
BY DEF TypeOK, ControlTypes, TypeInv

\* A step that changes the control variables only,
LEMMA ControlTyped ==
  ASSUME TypeOK, UNCHANGED frameVars, ControlTypes',
         pc' \in [Threads -> Labels], HandsFollowPc'
  PROVE  TypeInv'
BY DEF TypeOK, ControlTypes, TypeInv, frameVars, queueVars, poolVars

\* the label only,
LEMMA PcTyped ==
  ASSUME TypeOK, UNCHANGED <<controlVars, frameVars>>,
         pc' \in [Threads -> Labels], HandsFollowPc'
  PROVE  TypeInv'
<1>1. ControlTypes'
  BY ControlOK DEF ControlTypes, controlVars, flagVars, appVars, callbackVars,
     windowVars, threadVars, handleVars, waitVars, counterVars
<1> QED
  BY <1>1, ControlTyped

\* the pool, the heap and the local variables only.
LEMMA PoolTyped ==
  ASSUME TypeOK, UNCHANGED <<controlVars, queueVars>>,
         mFramePool' \in SUBSET Buffers, heap' \in SUBSET Buffers,
         held' \in [Slots -> Frame \cup {NULL}],
         pc' \in [Threads -> Labels], HandsFollowPc'
  PROVE  TypeInv'
<1>1. ControlTypes'
  BY ControlOK DEF ControlTypes, controlVars, flagVars, appVars, callbackVars,
     windowVars, threadVars, handleVars, waitVars, counterVars
<1>2. previewFrames' \in Seq(Frame) /\ captureQueu' \in Frame \cup {NULL}
  BY DEF TypeOK, queueVars
<1> QED
  BY <1>1, <1>2, AllTyped

LEMMA InitType == Init => TypeInv
<1> SUFFICES ASSUME Init PROVE TypeInv
  OBVIOUS
<1>1. pc \in [Threads -> Labels]
  BY DEF Init, Labels, AppLabels, PreviewLabels
<1>2. previewFrames \in Seq(Frame)
  BY DEF Init
<1>3. surfaceRefs \in [Surfaces -> Int] /\ surfaceLoop \in [CaptureThreads -> BOOLEAN]
  BY DEF Init
<1>4. held \in [Slots -> Frame \cup {NULL}]
  BY DEF Init
<1>7. delivered \in Seq(Nat)
  BY DEF Init
<1>5. TypeOK
  BY <1>1, <1>2, <1>3, <1>4, <1>7 DEF Init, TypeOK
<1>6. HandsFollowPc
  BY ThreadsAre DEF Init, HandsFollowPc
<1> QED BY <1>5, <1>6 DEF TypeInv

LEMMA LabelsAre ==
  /\ "idle" \in Labels /\ "create" \in Labels /\ "signal" \in Labels
  /\ "joinCapture" \in Labels /\ "joinPreview" \in Labels
  /\ "clearPreview" \in Labels /\ "clearCapture" \in Labels /\ "release" \in Labels
  /\ "dispSignal" \in Labels /\ "dispWaiting" \in Labels /\ "surface" \in Labels
  /\ "endSurface" \in Labels /\ "releaseWindow" \in Labels /\ "clearWindow" \in Labels
  /\ "cbSignal" \in Labels /\ "cbWaiting" \in Labels
  /\ "none" \in Labels /\ "prepare" \in Labels /\ "loop" \in Labels
  /\ "wait" \in Labels /\ "waiting" \in Labels /\ "got" \in Labels
  /\ "decode" \in Labels /\ "decoded" \in Labels /\ "draw" \in Labels
  /\ "rotate" \in Labels /\ "drawn" \in Labels /\ "add" \in Labels
  /\ "exit" \in Labels /\ "stopStream" \in Labels /\ "done" \in Labels
  /\ "start" \in Labels /\ "test" \in Labels /\ "callback" \in Labels
  /\ "convert" \in Labels /\ "call" \in Labels /\ "invoke" \in Labels
  /\ "recycle" \in Labels /\ "leave" \in Labels
BY DEF Labels, AppLabels, PreviewLabels, CaptureLabels

\* A step of the app thread: its label changes, no local variable does.
LEMMA AppGoto ==
  ASSUME TypeOK, HandsFollowPc, NEW l \in Labels, Goto("app", l), UNCHANGED held
  PROVE  pc' \in [Threads -> Labels] /\ HandsFollowPc'
BY ThreadsAre, GotoType DEF HandsFollowPc

LEMMA WindowType ==
  ASSUME NEW refs \in [Surfaces -> Int], NEW w \in Surfaces \cup {NULL}
  PROVE  /\ Acquired(refs, w) \in [Surfaces -> Int]
         /\ Released(refs, w) \in [Surfaces -> Int]
BY DEF Acquired, Released

LEMMA AssignType ==
  ASSUME TypeOK, NEW refs \in [Surfaces -> Int], NEW w \in Surfaces \cup {NULL},
         AssignCaptureWindow(refs, w)
  PROVE  mCaptureWindow' \in Surfaces \cup {NULL} /\ surfaceRefs' \in [Surfaces -> Int]
<1>1. mCaptureWindow \in Surfaces \cup {NULL}
  BY DEF TypeOK
<1>2. Released(refs, mCaptureWindow) \in [Surfaces -> Int]
  BY <1>1, WindowType
<1>3. Released(Released(refs, mCaptureWindow), w) \in [Surfaces -> Int]
  BY <1>2, WindowType
<1> QED BY <1>1, <1>2, <1>3 DEF AssignCaptureWindow

LEMMA AppStepType ==
  ASSUME TypeInv, AppCall \/ AppStep
  PROVE  TypeInv'
<1> USE ThreadsAre, LabelsAre
    DEF flagVars, queueVars, poolVars, frameVars, windowVars, callbackVars, appVars,
        handleVars, waitVars, threadVars, counterVars, controlVars
<1> TypeOK /\ HandsFollowPc
  BY DEF TypeInv
<1>1. CASE StartPreview
  <2>1. pc' \in [Threads -> Labels] /\ HandsFollowPc'
    BY <1>1, AppGoto DEF StartPreview
  <2>9. ControlTypes' BY <1>1, ControlOK DEF StartPreview, ControlTypes, AfterSignal
  <2> QED BY <1>1, <2>1, <2>9, ControlTyped DEF StartPreview
<1>2. CASE StopPreview
  <2>1. pc' \in [Threads -> Labels] /\ HandsFollowPc'
    BY <1>2, AppGoto DEF StopPreview
  <2>9. ControlTypes' BY <1>2, ControlOK DEF StopPreview, ControlTypes, AfterSignal
  <2> QED BY <1>2, <2>1, <2>9, ControlTyped DEF StopPreview
<1>3. CASE SetPreviewDisplay
  BY <1>3 DEF SetPreviewDisplay, TypeOK, TypeInv, HandsFollowPc
<1>4. ASSUME NEW obj \in Callbacks \cup {NULL}, SetFrameCallback(obj)
      PROVE  TypeInv'
  <2>1. CASE mIsRunning /\ mIsCapturing /\ mFrameCallbackObj # NULL
    <3>1. pc' \in [Threads -> Labels] /\ HandsFollowPc'
      BY <1>4, <2>1, AppGoto DEF SetFrameCallback
    <3> QED BY <1>4, <2>1, <3>1 DEF SetFrameCallback, TypeOK, TypeInv
  <2>2. CASE ~(mIsRunning /\ mIsCapturing /\ mFrameCallbackObj # NULL)
    <3>1. UNCHANGED <<pc, held>>
      BY <1>4, <2>2 DEF SetFrameCallback
    <3>2. HandsFollowPc'
      BY <3>1 DEF HandsFollowPc
    <3> QED BY <1>4, <2>2, <3>1, <3>2 DEF SetFrameCallback, TypeOK, TypeInv
  <2> QED BY <2>1, <2>2
<1>5. CASE CreatePreviewThread
  <2>1. CASE Goto("app", "idle") /\ mIsRunning' = FALSE
    <3>1. pc' \in [Threads -> Labels] /\ HandsFollowPc'
      BY <1>5, <2>1, AppGoto DEF CreatePreviewThread
    <3>9. ControlTypes' BY <1>5, <2>1, ControlOK DEF CreatePreviewThread, ControlTypes, AfterSignal
    <3> QED BY <1>5, <2>1, <3>1, <3>9, ControlTyped DEF CreatePreviewThread
  <2>2. CASE /\ pc' = [pc EXCEPT !["app"] = "idle", !["preview"] = "prepare"]
             /\ UNCHANGED mIsRunning
    <3>1. pc' \in [Threads -> Labels]
      BY <2>2 DEF TypeOK
    <3>2. HandsFollowPc'
      BY <1>5, <2>2 DEF CreatePreviewThread, TypeOK, HandsFollowPc
    <3>3. UNCHANGED <<controlVars, frameVars>>
      BY <1>5, <2>2 DEF CreatePreviewThread
    <3> QED BY <3>1, <3>2, <3>3 DEF TypeOK, TypeInv
  <2> QED BY <1>5, <2>1, <2>2 DEF CreatePreviewThread
<1>6. CASE SignalThreads
  <2>1. pc' \in [Threads -> Labels] /\ HandsFollowPc'
    BY <1>6, AppGoto DEF SignalThreads
  <2>9. ControlTypes' BY <1>6, ControlOK DEF SignalThreads, ControlTypes, AfterSignal
  <2> QED BY <1>6, <2>1, <2>9, ControlTyped DEF SignalThreads
<1>7. CASE JoinCapture
  <2>1. pc' \in [Threads -> Labels] /\ HandsFollowPc'
    BY <1>7, AppGoto DEF JoinCapture
  <2>2. ControlTypes'
    BY <1>7, ControlOK DEF JoinCapture, ControlTypes
  <2> QED BY <1>7, <2>1, <2>2, ControlTyped DEF JoinCapture
<1>8. CASE JoinPreview
  <2>1. pc' \in [Threads -> Labels]
    BY <1>8 DEF JoinPreview, TypeOK
  <2>2. HandsFollowPc'
    BY <1>8 DEF JoinPreview, TypeOK, HandsFollowPc
  <2> QED BY <1>8, <2>1, <2>2, PcTyped DEF JoinPreview
<1>9. CASE ClearPreviewFrame
  <2>1. pc' \in [Threads -> Labels] /\ HandsFollowPc'
    BY <1>9, AppGoto DEF ClearPreviewFrame
  <2>2. mFramePool' \in SUBSET Buffers /\ heap' \in SUBSET Buffers
    BY <1>9, QueueType, RecycleType DEF ClearPreviewFrame
  <2>3. previewFrames' \in Seq(Frame)
    BY <1>9 DEF ClearPreviewFrame
  <2> QED BY <1>9, <2>1, <2>2, <2>3 DEF ClearPreviewFrame, TypeOK, TypeInv
<1>12. CASE ClearCaptureFrame
  <2>1. pc' \in [Threads -> Labels] /\ HandsFollowPc'
    BY <1>12, AppGoto DEF ClearCaptureFrame
  <2>2. mFramePool' \in SUBSET Buffers /\ heap' \in SUBSET Buffers
    BY <1>12, QueueType, RecycleType DEF ClearCaptureFrame
  <2> QED BY <1>12, <2>1, <2>2 DEF ClearCaptureFrame, TypeOK, TypeInv
<1>13. CASE ReleaseWindows
  <2>1. pc' \in [Threads -> Labels] /\ HandsFollowPc'
    BY <1>13, AppGoto DEF ReleaseWindows
  <2>2. surfaceRefs' \in [Surfaces -> Int]
    BY <1>13, WindowType DEF ReleaseWindows, TypeOK
  <2> QED BY <1>13, <2>1, <2>2 DEF ReleaseWindows, TypeOK, TypeInv
<1>14. ASSUME NEW w \in Surfaces \cup {NULL}, SetCaptureDisplay(w)
       PROVE  TypeInv'
  <2>1. Acquired(surfaceRefs, w) \in [Surfaces -> Int]
    BY WindowType DEF TypeOK
  <2>2. CASE mIsRunning /\ mIsCapturing /\ mCaptureWindow # NULL
    <3>1. pc' \in [Threads -> Labels] /\ HandsFollowPc'
      BY <1>14, <2>2, AppGoto DEF SetCaptureDisplay
    <3> QED BY <1>14, <2>1, <2>2, <3>1 DEF SetCaptureDisplay, TypeOK, TypeInv
  <2>3. CASE ~(mIsRunning /\ mIsCapturing /\ mCaptureWindow # NULL)
    <3>1. UNCHANGED <<pc, held>>
      BY <1>14, <2>3 DEF SetCaptureDisplay
    <3>2. HandsFollowPc'
      BY <3>1 DEF HandsFollowPc
    <3>3. mCaptureWindow' \in Surfaces \cup {NULL} /\ surfaceRefs' \in [Surfaces -> Int]
      BY <1>14, <2>1, <2>3, AssignType DEF SetCaptureDisplay
    <3> QED BY <1>14, <2>3, <3>1, <3>2, <3>3 DEF SetCaptureDisplay, TypeOK, TypeInv
  <2> QED BY <2>2, <2>3
<1>15. CASE ReplaceCaptureWindow
  <2>1. pc' \in [Threads -> Labels] /\ HandsFollowPc'
    BY <1>15, AppGoto DEF ReplaceCaptureWindow
  <2>2. mCaptureWindow' \in Surfaces \cup {NULL} /\ surfaceRefs' \in [Surfaces -> Int]
    BY <1>15, AssignType DEF ReplaceCaptureWindow, TypeOK
  <2> QED BY <1>15, <2>1, <2>2 DEF ReplaceCaptureWindow, TypeOK, TypeInv
<1>10. CASE SignalCaptureAndWait
  <2>1. pc' \in [Threads -> Labels] /\ HandsFollowPc'
    BY <1>10, AppGoto DEF SignalCaptureAndWait
  <2> QED BY <1>10, <2>1 DEF SignalCaptureAndWait, TypeOK, TypeInv
<1>11. CASE ReplaceCallback
  <2>1. pc' \in [Threads -> Labels] /\ HandsFollowPc'
    BY <1>11, AppGoto DEF ReplaceCallback
  <2> QED BY <1>11, <2>1 DEF ReplaceCallback, TypeOK, TypeInv
<1> QED
  BY <1>1, <1>2, <1>3, <1>4, <1>5, <1>6, <1>7, <1>8, <1>9, <1>10, <1>11, <1>12,
     <1>13, <1>14, <1>15 DEF AppCall, SurfaceCall, AppStep

LEMMA DropType ==
  ASSUME TypeOK, NEW S \in SUBSET Slots, held' = Drop(S)
  PROVE  /\ held' \in [Slots -> Frame \cup {NULL}]
         /\ \A s \in Slots \ S : held'[s] = held[s]
         /\ \A s \in S : held'[s] = NULL
BY DEF TypeOK, Drop

LEMMA StreamStepType ==
  ASSUME TypeInv, ReceiveImage \/ AddPreviewFrame
  PROVE  TypeInv'
<1> USE ThreadsAre, LabelsAre, SlotsAre, SlotsDiffer
    DEF flagVars, queueVars, poolVars, frameVars, windowVars, callbackVars, appVars,
        handleVars, waitVars, threadVars, counterVars, controlVars
<1> TypeOK /\ HandsFollowPc
  BY DEF TypeInv
<1>1. CASE ReceiveImage
  <2>1. images + 1 \in Nat
    BY DEF TypeOK
  <2>2. CASE UNCHANGED <<mFramePool, heap, held, pc>>
    <3>1. HandsFollowPc'
      BY <2>2 DEF HandsFollowPc
    <3> QED BY <1>1, <2>1, <2>2, <3>1 DEF ReceiveImage, TypeOK, TypeInv
  <2>3. CASE GetFrame(copy, images + 1) /\ Goto("stream", "add")
    <3>1. /\ mFramePool' \in SUBSET Buffers /\ heap' \in SUBSET Buffers
          /\ held' \in [Slots -> Frame \cup {NULL}]
          /\ held'[copy] \in Frame
          /\ \A s \in Slots : s # copy => held'[s] = held[s]
      BY <2>1, <2>3, GetFrameType
    <3>2. /\ pc' \in [Threads -> Labels]
          /\ \A u \in Threads : u # "stream" => pc'[u] = pc[u]
      BY <2>3, GotoType
    <3>3. HandsFollowPc'
      BY <3>1, <3>2, FrameNotNull DEF HandsFollowPc
    <3> QED BY <1>1, <2>1, <3>1, <3>2, <3>3 DEF ReceiveImage, TypeOK, TypeInv
  <2> QED BY <1>1, <2>2, <2>3 DEF ReceiveImage
<1>2. CASE AddPreviewFrame
  <2>1. /\ held' \in [Slots -> Frame \cup {NULL}]
        /\ \A s \in Slots : s # copy => held'[s] = held[s]
    <3>1. {copy} \in SUBSET Slots
      OBVIOUS
    <3> QED BY <1>2, <3>1, DropType DEF AddPreviewFrame
  <2>2. /\ pc' \in [Threads -> Labels] /\ pc'["stream"] = "idle"
        /\ \A u \in Threads : u # "stream" => pc'[u] = pc[u]
    BY <1>2, GotoType DEF AddPreviewFrame
  <2>3. HandsFollowPc'
    BY <2>1, <2>2 DEF HandsFollowPc
  <2>4. previewFrames' \in Seq(Frame)
    <3>1. held[copy] \in Frame
      BY <1>2 DEF AddPreviewFrame, HandsFollowPc, TypeOK
    <3>2. Append(previewFrames, held[copy]) \in Seq(Frame)
      BY <3>1 DEF TypeOK
    <3> QED BY <1>2, <3>2 DEF AddPreviewFrame, TypeOK
  <2>5. mFramePool' \in SUBSET Buffers /\ heap' \in SUBSET Buffers
    <3>1. FramesOf({copy}) \in SUBSET Buffers
      BY FramesOfType
    <3> QED BY <1>2, <3>1, RecycleType DEF AddPreviewFrame, TypeOK
  <2>6. waitSet' \in SUBSET Threads
    BY <1>2 DEF AddPreviewFrame, TypeOK
  <2>7. ControlTypes'
    BY <1>2, <2>6, ControlOK DEF AddPreviewFrame, ControlTypes
  <2>8. captureQueu' \in Frame \cup {NULL}
    BY <1>2 DEF AddPreviewFrame, TypeOK
  <2> QED BY <2>1, <2>2, <2>3, <2>4, <2>5, <2>7, <2>8, AllTyped
<1> QED BY <1>1, <1>2

\* A step of the preview thread that changes no local variable.
LEMMA PreviewGoto ==
  ASSUME TypeOK, HandsFollowPc, NEW l \in Labels, Goto("preview", l), UNCHANGED held,
         l \notin {"got", "decode", "decoded", "draw", "rotate", "drawn", "add"}
  PROVE  pc' \in [Threads -> Labels] /\ HandsFollowPc'
BY ThreadsAre, GotoType DEF HandsFollowPc

\* A step of the preview thread that takes a frame for one local variable.
LEMMA PreviewGet ==
  ASSUME TypeOK, NEW l \in Labels, Goto("preview", l), 
         NEW s \in {mjpeg, frame, converted, rotated}, NEW i \in Nat,
         GetFrame(s, i), UNCHANGED <<previewFrames, captureQueu>>,
         HandsFollowPc
  PROVE  /\ pc' \in [Threads -> Labels] /\ pc'["preview"] = l
         /\ mFramePool' \in SUBSET Buffers /\ heap' \in SUBSET Buffers
         /\ held' \in [Slots -> Frame \cup {NULL}]
         /\ held'[s] # NULL
         /\ \A t \in Slots : t # s => held'[t] = held[t]
         /\ pc'["stream"] = pc["stream"]
         /\ \A c \in CaptureThreads : pc'[c] = pc[c] 
<1>1. s \in Slots
  BY SlotsAre
<1> QED BY <1>1, ThreadsAre, GotoType, GetFrameType, FrameNotNull

LEMMA PreviewStepType ==
  ASSUME TypeInv, PreviewStep
  PROVE  TypeInv'
<1> USE ThreadsAre, LabelsAre, SlotsAre, SlotsDiffer
    DEF flagVars, queueVars, poolVars, frameVars, windowVars, callbackVars, appVars,
        handleVars, waitVars, threadVars, counterVars, controlVars
<1> TypeOK /\ HandsFollowPc
  BY DEF TypeInv
<1>1. CASE StartStreaming
  <2>1. pc' \in [Threads -> Labels] /\ HandsFollowPc'
    BY <1>1, PreviewGoto DEF StartStreaming
  <2>2. streaming' \in BOOLEAN
    BY <1>1 DEF StartStreaming, TypeOK
  <2>3. UNCHANGED <<flagVars, frameVars, appVars, waitVars, counterVars, capture_mutex,
                    capture_thread>>
    BY <1>1 DEF StartStreaming
  <2> QED BY <2>1, <2>2, <2>3 DEF TypeOK, TypeInv
<1>2. ASSUME NEW c \in CaptureThreads, CreateCaptureThread(c)
      PROVE  TypeInv'
  <2>1. pc' \in [Threads -> Labels]
    <3>1. CASE pc' = [pc EXCEPT !["preview"] = "loop", ![c] = "start"]
      BY <3>1, LabelsAre DEF TypeOK
    <3>2. CASE Goto("preview", "loop")
      BY <3>2, GotoType
    <3> QED BY <1>2, <3>1, <3>2 DEF CreateCaptureThread
  <2>2. HandsFollowPc'
    BY <1>2, ThreadsAre DEF CreateCaptureThread, Goto, TypeOK, HandsFollowPc
  <2>3. mFramePool' \in SUBSET Buffers /\ heap' \in SUBSET Buffers
    BY <1>2, QueueType, RecycleType DEF CreateCaptureThread
  <2>4. previewFrames' \in Seq(Frame)
    BY <1>2 DEF CreateCaptureThread
  <2> QED BY <1>2, <2>1, <2>2, <2>3, <2>4 DEF CreateCaptureThread, TypeOK, TypeInv
<1>3. CASE PreviewLoop
  <2>1. pc' \in [Threads -> Labels] /\ HandsFollowPc'
    BY <1>3, PreviewGoto DEF PreviewLoop
  <2> QED BY <1>3, <2>1, PcTyped DEF PreviewLoop
<1>4. CASE WaitPreviewFrame
  <2>1. CASE BeginWait("preview") /\ Goto("preview", "waiting")
             /\ UNCHANGED <<held, previewFrames>>
    <3>1. pc' \in [Threads -> Labels] /\ HandsFollowPc'
      BY <2>1, PreviewGoto
    <3> QED BY <1>4, <2>1, <3>1 DEF WaitPreviewFrame, BeginWait, TypeOK, TypeInv
  <2>2. CASE RemovePreviewFrame /\ UNCHANGED <<waitSet, lateWaiters>>
    <3>1. CASE Goto("preview", "loop") /\ UNCHANGED <<held, previewFrames>>
      <4>1. pc' \in [Threads -> Labels] /\ HandsFollowPc'
        BY <3>1, PreviewGoto
      <4> QED BY <1>4, <2>2, <3>1, <4>1 DEF WaitPreviewFrame, TypeOK, TypeInv
    <3>2. CASE /\ previewFrames # <<>>
               /\ held' = [held EXCEPT ![IF Mjpeg THEN mjpeg ELSE frame] = Head(previewFrames)]
               /\ previewFrames' = Tail(previewFrames)
               /\ Goto("preview", "got")
      <4>1. previewFrames' \in Seq(Frame) /\ Head(previewFrames) \in Frame
        BY <3>2 DEF TypeOK
      <4>2. /\ pc' \in [Threads -> Labels] /\ pc'["preview"] = "got"
            /\ \A u \in Threads : u # "preview" => pc'[u] = pc[u]
        BY <3>2, GotoType
      <4>3. held' \in [Slots -> Frame \cup {NULL}]
        BY <3>2, <4>1 DEF TypeOK
      <4>4. HandsFollowPc'
        BY <3>2, <4>1, <4>2, FrameNotNull DEF HandsFollowPc, TypeOK
      <4> QED BY <1>4, <2>2, <4>1, <4>2, <4>3, <4>4
              DEF WaitPreviewFrame, TypeOK, TypeInv
    <3> QED BY <2>2, <3>1, <3>2 DEF RemovePreviewFrame
  <2> QED BY <1>4, <2>1, <2>2 DEF WaitPreviewFrame
<1>5. CASE TestRunning
  <2>1. pc' \in [Threads -> Labels]
    BY <1>5, GotoType DEF TestRunning
  <2>2. \A u \in Threads : u # "preview" => pc'[u] = pc[u]
    BY <1>5, GotoType DEF TestRunning
  <2>5. /\ UNCHANGED <<controlVars, queueVars>>
        /\ mFramePool' \in SUBSET Buffers /\ heap' \in SUBSET Buffers
    BY <1>5 DEF TestRunning, TypeOK
  <2>3. CASE mIsRunning
    <3>1. held' = held /\ pc'["preview"] = IF Mjpeg THEN "decode" ELSE "draw"
      BY <1>5, <2>3, GotoType DEF TestRunning
    <3>2. HandsFollowPc'
      BY <1>5, <2>2, <3>1 DEF HandsFollowPc, TestRunning
    <3>3. held' \in [Slots -> Frame \cup {NULL}]
      BY <3>1 DEF TypeOK
    <3> QED BY <2>1, <2>5, <3>2, <3>3, PoolTyped
  <2>4. CASE ~mIsRunning
    <3>1. held' = Drop({mjpeg, frame}) /\ pc'["preview"] = "loop"
      BY <1>5, <2>4, GotoType DEF TestRunning
    <3>2. {mjpeg, frame} \in SUBSET Slots
      OBVIOUS
    <3>3. /\ held' \in [Slots -> Frame \cup {NULL}]
          /\ \A s \in Slots \ {mjpeg, frame} : held'[s] = held[s]
      BY <3>1, <3>2, DropType
    <3>4. HandsFollowPc'
      BY <2>2, <3>1, <3>3 DEF HandsFollowPc
    <3> QED BY <2>1, <2>5, <3>3, <3>4, PoolTyped
  <2> QED BY <2>3, <2>4
<1>6. CASE GetDecoded
  <2>1. held[mjpeg].img \in Nat
    BY <1>6 DEF GetDecoded, HandsFollowPc, TypeOK, Frame
  <2>2. /\ pc' \in [Threads -> Labels] /\ pc'["preview"] = "decoded"
        /\ mFramePool' \in SUBSET Buffers /\ heap' \in SUBSET Buffers
        /\ held' \in [Slots -> Frame \cup {NULL}]
        /\ held'[frame] # NULL
        /\ \A t \in Slots : t # frame => held'[t] = held[t]
        /\ pc'["stream"] = pc["stream"]
        /\ \A c \in CaptureThreads : pc'[c] = pc[c]
    BY <1>6, <2>1, PreviewGet DEF GetDecoded
  <2>3. HandsFollowPc'
    BY <1>6, <2>2 DEF HandsFollowPc, GetDecoded
  <2> QED BY <1>6, <2>2, <2>3, PoolTyped DEF GetDecoded
<1>7. CASE Decode
  <2>1. {mjpeg} \in SUBSET Slots /\ {mjpeg, frame} \in SUBSET Slots
    OBVIOUS
  <2>2. mFramePool' \in SUBSET Buffers /\ heap' \in SUBSET Buffers
    BY <1>7, <2>1, FramesOfType, RecycleType DEF Decode
  <2>3. /\ pc' \in [Threads -> Labels]
        /\ \A u \in Threads : u # "preview" => pc'[u] = pc[u]
    BY <1>7, GotoType DEF Decode
  <2>4. held' \in [Slots -> Frame \cup {NULL}]
    BY <1>7, <2>1, DropType DEF Decode
  <2>5. HandsFollowPc'
    <3>1. CASE held' = Drop({mjpeg}) /\ Goto("preview", "draw")
      <4>1. pc'["preview"] = "draw"
        BY <3>1, GotoType
      <4>2. \A s \in Slots \ {mjpeg} : held'[s] = held[s]
        BY <2>1, <3>1, DropType
      <4> QED BY <1>7, <2>3, <4>1, <4>2 DEF HandsFollowPc, Decode
    <3>2. CASE held' = Drop({mjpeg, frame}) /\ Goto("preview", "loop")
      <4>1. pc'["preview"] = "loop"
        BY <3>2, GotoType
      <4>2. \A s \in Slots \ {mjpeg, frame} : held'[s] = held[s]
        BY <2>1, <3>2, DropType
      <4> QED BY <2>3, <4>1, <4>2 DEF HandsFollowPc
    <3> QED BY <1>7, <3>1, <3>2 DEF Decode
  <2> QED BY <1>7, <2>2, <2>3, <2>4, <2>5, PoolTyped DEF Decode
<1>8. CASE DrawConvert
  <2>1. CASE GetFrame(converted, held[frame].img) /\ Goto("preview", "rotate")
    <3>1. held[frame].img \in Nat
      BY <1>8 DEF DrawConvert, HandsFollowPc, TypeOK, Frame
    <3>2. /\ pc' \in [Threads -> Labels] /\ pc'["preview"] = "rotate"
          /\ mFramePool' \in SUBSET Buffers /\ heap' \in SUBSET Buffers
          /\ held' \in [Slots -> Frame \cup {NULL}]
          /\ \A t \in Slots : t # converted => held'[t] = held[t]
          /\ pc'["stream"] = pc["stream"]
          /\ \A c \in CaptureThreads : pc'[c] = pc[c]
      BY <1>8, <2>1, <3>1, PreviewGet DEF DrawConvert
    <3>3. HandsFollowPc'
      BY <1>8, <3>2 DEF HandsFollowPc, DrawConvert
    <3> QED BY <1>8, <3>2, <3>3, PoolTyped DEF DrawConvert
  <2>2. CASE Goto("preview", "add") /\ UNCHANGED <<mFramePool, heap, held>>
    <3>1. /\ pc' \in [Threads -> Labels] /\ pc'["preview"] = "add"
          /\ \A u \in Threads : u # "preview" => pc'[u] = pc[u]
      BY <2>2, GotoType
    <3>2. HandsFollowPc'
      BY <1>8, <2>2, <3>1 DEF HandsFollowPc, DrawConvert
    <3> QED BY <1>8, <2>2, <3>1, <3>2, PcTyped DEF DrawConvert
  <2> QED BY <1>8, <2>1, <2>2 DEF DrawConvert
<1>9. CASE DrawRotate
  <2>1. CASE GetFrame(rotated, held[frame].img)
    <3>1. held[frame].img \in Nat
      BY <1>9 DEF DrawRotate, HandsFollowPc, TypeOK, Frame
    <3>2. /\ pc' \in [Threads -> Labels] /\ pc'["preview"] = "drawn"
          /\ mFramePool' \in SUBSET Buffers /\ heap' \in SUBSET Buffers
          /\ held' \in [Slots -> Frame \cup {NULL}]
          /\ \A t \in Slots : t # rotated => held'[t] = held[t]
          /\ pc'["stream"] = pc["stream"]
          /\ \A c \in CaptureThreads : pc'[c] = pc[c]
      BY <1>9, <2>1, <3>1, PreviewGet DEF DrawRotate
    <3>3. HandsFollowPc'
      BY <1>9, <3>2 DEF HandsFollowPc, DrawRotate
    <3> QED BY <1>9, <3>2, <3>3, PoolTyped DEF DrawRotate
  <2>2. CASE UNCHANGED <<mFramePool, heap, held>>
    <3>1. /\ pc' \in [Threads -> Labels] /\ pc'["preview"] = "drawn"
          /\ \A u \in Threads : u # "preview" => pc'[u] = pc[u]
      BY <1>9, GotoType DEF DrawRotate
    <3>2. HandsFollowPc'
      BY <1>9, <2>2, <3>1 DEF HandsFollowPc, DrawRotate
    <3> QED BY <1>9, <2>2, <3>1, <3>2, PcTyped DEF DrawRotate
  <2> QED BY <1>9, <2>1, <2>2 DEF DrawRotate
<1>10. CASE DrawDone
  <2>1. {converted, rotated} \in SUBSET Slots
    OBVIOUS
  <2>2. mFramePool' \in SUBSET Buffers /\ heap' \in SUBSET Buffers
    BY <1>10, <2>1, FramesOfType, RecycleType DEF DrawDone
  <2>3. /\ pc' \in [Threads -> Labels] /\ pc'["preview"] = "add"
        /\ \A u \in Threads : u # "preview" => pc'[u] = pc[u]
    BY <1>10, GotoType DEF DrawDone
  <2>4. /\ held' \in [Slots -> Frame \cup {NULL}]
        /\ \A s \in Slots \ {converted, rotated} : held'[s] = held[s]
    BY <1>10, <2>1, DropType DEF DrawDone
  <2>5. HandsFollowPc'
    BY <1>10, <2>3, <2>4 DEF HandsFollowPc, DrawDone
  <2> QED BY <1>10, <2>2, <2>3, <2>4, <2>5, PoolTyped DEF DrawDone
<1>11. CASE AddCaptureFrame
  <2>1. {frame} \in SUBSET Slots
    OBVIOUS
  <2>2. mFramePool' \in SUBSET Buffers /\ heap' \in SUBSET Buffers
    BY <1>11, QueueType, RecycleType DEF AddCaptureFrame, KeepLatest, TypeOK
  <2>3. /\ pc' \in [Threads -> Labels] /\ pc'["preview"] = "loop"
        /\ \A u \in Threads : u # "preview" => pc'[u] = pc[u]
    BY <1>11, GotoType DEF AddCaptureFrame
  <2>4. /\ held' \in [Slots -> Frame \cup {NULL}]
        /\ \A s \in Slots \ {frame} : held'[s] = held[s]
    BY <1>11, <2>1, DropType DEF AddCaptureFrame
  <2>5. HandsFollowPc'
    BY <2>3, <2>4 DEF HandsFollowPc
  <2>6. captureQueu' \in Frame \cup {NULL} /\ waitSet' \in SUBSET Threads
    BY <1>11 DEF AddCaptureFrame, KeepLatest, TypeOK
  <2>7. ControlTypes'
    BY <1>11, <2>6, ControlOK DEF AddCaptureFrame, ControlTypes
  <2>8. previewFrames' \in Seq(Frame)
    BY <1>11 DEF AddCaptureFrame, TypeOK
  <2> QED BY <2>2, <2>3, <2>4, <2>5, <2>6, <2>7, <2>8, AllTyped
<1>12. CASE PreviewExit
  <2>1. pc' \in [Threads -> Labels] /\ HandsFollowPc'
    BY <1>12, PreviewGoto DEF PreviewExit
  <2>9. ControlTypes' BY <1>12, ControlOK DEF PreviewExit, ControlTypes, AfterSignal
  <2> QED BY <1>12, <2>1, <2>9, ControlTyped DEF PreviewExit
<1>13. CASE StopStreaming
  <2>1. pc' \in [Threads -> Labels] /\ HandsFollowPc'
    BY <1>13, PreviewGoto DEF StopStreaming
  <2>9. ControlTypes' BY <1>13, ControlOK DEF StopStreaming, ControlTypes, AfterSignal
  <2> QED BY <1>13, <2>1, <2>9, ControlTyped DEF StopStreaming
<1> QED
  BY <1>1, <1>2, <1>3, <1>4, <1>5, <1>6, <1>7, <1>8, <1>9, <1>10, <1>11, <1>12,
     <1>13 DEF PreviewStep

\* A step of a capture thread that changes no local variable.
LEMMA CaptureGoto ==
  ASSUME TypeOK, HandsFollowPc, NEW c \in CaptureThreads, NEW l \in Labels,
         Goto(c, l), UNCHANGED held, l \notin {"callback", "surface"}
  PROVE  pc' \in [Threads -> Labels] /\ HandsFollowPc'
BY ThreadsAre, GotoType DEF HandsFollowPc

\* A step of a capture thread that changes only its own local variables.
LEMMA CaptureOwn ==
  ASSUME TypeOK, HandsFollowPc, NEW c \in CaptureThreads, NEW l \in Labels,
         Goto(c, l), held' \in [Slots -> Frame \cup {NULL}],
         \A s \in Slots \ {capFrame(c), cbFrame(c), surfaceFrame(c)} :
           held'[s] = held[s],
         l \in {"callback", "surface"} => held'[capFrame(c)] # NULL
  PROVE  pc' \in [Threads -> Labels] /\ HandsFollowPc'
<1>1. /\ pc' \in [Threads -> Labels] /\ pc'[c] = l
      /\ \A u \in Threads : u # c => pc'[u] = pc[u]
  BY GotoType, ThreadsAre
<1>2. /\ held'[copy] = held[copy] /\ held'[mjpeg] = held[mjpeg]
      /\ held'[frame] = held[frame]
  BY SlotsAre, SlotsDiffer
<1>3. \A d \in CaptureThreads : d # c => held'[capFrame(d)] = held[capFrame(d)]
  BY SlotsAre, SlotsDiffer
<1> QED BY <1>1, <1>2, <1>3, ThreadsAre DEF HandsFollowPc

LEMMA CaptureStepType ==
  ASSUME TypeInv, NEW c \in CaptureThreads, CaptureStep(c)
  PROVE  TypeInv'
<1> USE ThreadsAre, LabelsAre, SlotsAre, SlotsDiffer
    DEF flagVars, queueVars, poolVars, frameVars, windowVars, callbackVars, appVars,
        handleVars, waitVars, threadVars, counterVars, controlVars
<1> TypeOK /\ HandsFollowPc
  BY DEF TypeInv
<1>1. CASE CaptureStart(c)
  <2>1. pc' \in [Threads -> Labels] /\ HandsFollowPc'
    BY <1>1, CaptureGoto DEF CaptureStart
  <2>2. mFramePool' \in SUBSET Buffers /\ heap' \in SUBSET Buffers
    BY <1>1, QueueType, RecycleType DEF CaptureStart
  <2> QED BY <1>1, <2>1, <2>2 DEF CaptureStart, TypeOK, TypeInv
<1>2. CASE CaptureLoop(c)
  <2>1. pc' \in [Threads -> Labels] /\ HandsFollowPc'
    BY <1>2, CaptureGoto DEF CaptureLoop
  <2>2. mIsCapturing' \in BOOLEAN /\ surfaceLoop' \in [CaptureThreads -> BOOLEAN]
    BY <1>2 DEF CaptureLoop, TypeOK
  <2> QED BY <1>2, <2>1, <2>2 DEF CaptureLoop, TypeOK, TypeInv
<1>3. CASE TestCapturing(c)
  <2>1. pc' \in [Threads -> Labels] /\ HandsFollowPc'
    BY <1>3, CaptureGoto DEF TestCapturing
  <2> QED BY <1>3, <2>1, PcTyped DEF TestCapturing
<1>4. CASE WaitCaptureFrame(c)
  <2>1. CASE BeginWait(c) /\ Goto(c, "waiting") /\ UNCHANGED <<held, captureQueu>>
    <3>1. pc' \in [Threads -> Labels] /\ HandsFollowPc'
      BY <2>1, CaptureGoto
    <3> QED BY <1>4, <2>1, <3>1 DEF WaitCaptureFrame, BeginWait, TypeOK, TypeInv
  <2>2. CASE TakeCaptureFrame(c) /\ UNCHANGED <<waitSet, lateWaiters>>
    <3>1. CASE Goto(c, "test") /\ UNCHANGED <<held, captureQueu>>
      <4>1. pc' \in [Threads -> Labels] /\ HandsFollowPc'
        BY <3>1, CaptureGoto
      <4> QED BY <1>4, <2>2, <3>1, <4>1 DEF WaitCaptureFrame, TypeOK, TypeInv
    <3>2. CASE /\ captureQueu # NULL
               /\ held' = [held EXCEPT ![capFrame(c)] = captureQueu]
               /\ captureQueu' = NULL
               /\ Goto(c, IF surfaceLoop[c] THEN "surface" ELSE "callback")
      <4>1. /\ held' \in [Slots -> Frame \cup {NULL}]
            /\ held'[capFrame(c)] # NULL
            /\ \A s \in Slots : s # capFrame(c) => held'[s] = held[s]
        BY <3>2 DEF TypeOK
      <4>2. pc' \in [Threads -> Labels] /\ HandsFollowPc'
        BY <3>2, <4>1, CaptureOwn
      <4> QED BY <1>4, <2>2, <3>2, <4>1, <4>2 DEF WaitCaptureFrame, TypeOK, TypeInv
    <3> QED BY <2>2, <3>1, <3>2 DEF TakeCaptureFrame
  <2> QED BY <1>4, <2>1, <2>2 DEF WaitCaptureFrame
<1>5. CASE BeginCallback(c)
  <2>1. CASE held' = Drop({capFrame(c)}) /\ Goto(c, "test")
             /\ UNCHANGED <<mFramePool, heap>>
    <3>1. {capFrame(c)} \in SUBSET Slots
      OBVIOUS
    <3>2. pc' \in [Threads -> Labels] /\ HandsFollowPc'
          /\ held' \in [Slots -> Frame \cup {NULL}]
      BY <2>1, <3>1, DropType, CaptureOwn
    <3>3. mFramePool' \in SUBSET Buffers /\ heap' \in SUBSET Buffers
      BY <2>1 DEF TypeOK
    <3>4. UNCHANGED <<controlVars, queueVars>>
      BY <1>5 DEF BeginCallback
    <3> QED BY <3>2, <3>3, <3>4, PoolTyped
  <2>2. CASE GetFrame(cbFrame(c), held[capFrame(c)].img) /\ Goto(c, "convert")
    <3>1. held[capFrame(c)].img \in Nat
      BY <1>5 DEF BeginCallback, HandsFollowPc, TypeOK, Frame
    <3>2. /\ mFramePool' \in SUBSET Buffers /\ heap' \in SUBSET Buffers
          /\ held' \in [Slots -> Frame \cup {NULL}]
          /\ \A s \in Slots : s # cbFrame(c) => held'[s] = held[s]
      BY <2>2, <3>1, GetFrameType
    <3>3. pc' \in [Threads -> Labels] /\ HandsFollowPc'
      BY <2>2, <3>2, CaptureOwn
    <3> QED BY <1>5, <3>2, <3>3, PoolTyped DEF BeginCallback
  <2>3. CASE UNCHANGED <<mFramePool, heap, held>> /\ (Goto(c, "call") \/ Goto(c, "recycle"))
    <3>1. pc' \in [Threads -> Labels] /\ HandsFollowPc'
      BY <2>3, CaptureGoto
    <3> QED BY <1>5, <2>3, <3>1, PcTyped DEF BeginCallback
  <2> QED BY <1>5, <2>1, <2>2, <2>3 DEF BeginCallback
<1>6. CASE ConvertFrame(c)
  <2>1. {capFrame(c)} \in SUBSET Slots
    OBVIOUS
  <2>2. mFramePool' \in SUBSET Buffers /\ heap' \in SUBSET Buffers
    BY <1>6, <2>1, FramesOfType, RecycleType DEF ConvertFrame
  <2>3. /\ held' \in [Slots -> Frame \cup {NULL}]
        /\ \A s \in Slots \ {capFrame(c)} : held'[s] = held[s]
    BY <1>6, <2>1, DropType DEF ConvertFrame
  <2>4. Goto(c, "call") \/ Goto(c, "recycle")
    BY <1>6 DEF ConvertFrame, Goto
  <2>5. pc' \in [Threads -> Labels] /\ HandsFollowPc'
    BY <2>3, <2>4, CaptureOwn
  <2> QED BY <1>6, <2>2, <2>3, <2>5, PoolTyped DEF ConvertFrame
<1>7. CASE TestMethod(c)
  <2>1. pc' \in [Threads -> Labels] /\ HandsFollowPc'
    BY <1>7, CaptureGoto DEF TestMethod
  <2> QED BY <1>7, <2>1, PcTyped DEF TestMethod
<1>8. CASE CallOnFrame(c)
  <2>1. pc' \in [Threads -> Labels] /\ HandsFollowPc'
    BY <1>8, CaptureGoto DEF CallOnFrame
  <2>2. delivered' \in Seq(Nat)
    <3>1. PICK s \in {capFrame(c), cbFrame(c)} :
            held[s] # NULL /\ delivered' = Append(delivered, held[s].img)
      BY <1>8 DEF CallOnFrame
    <3>2. held[s] \in Frame /\ delivered \in Seq(Nat)
      BY <3>1 DEF TypeOK
    <3>3. held[s].img \in Nat
      BY <3>2 DEF Frame
    <3> QED
      BY <3>1, <3>2, <3>3
  <2> QED BY <1>8, <2>1, <2>2 DEF CallOnFrame, TypeOK, TypeInv
<1>9. CASE EndCallback(c)
  <2>1. {capFrame(c), cbFrame(c)} \in SUBSET Slots
    OBVIOUS
  <2>2. mFramePool' \in SUBSET Buffers /\ heap' \in SUBSET Buffers
    BY <1>9, <2>1, FramesOfType, RecycleType DEF EndCallback
  <2>3. /\ held' \in [Slots -> Frame \cup {NULL}]
        /\ \A s \in Slots \ {capFrame(c), cbFrame(c)} : held'[s] = held[s]
    BY <1>9, <2>1, DropType DEF EndCallback
  <2>4. pc' \in [Threads -> Labels] /\ HandsFollowPc'
    BY <1>9, <2>3, CaptureOwn DEF EndCallback
  <2> QED BY <1>9, <2>2, <2>3, <2>4, PoolTyped DEF EndCallback
<1>11. CASE CaptureToSurface(c)
  <2>1. CASE held' = Drop({capFrame(c)}) /\ Goto(c, "test")
             /\ UNCHANGED <<mFramePool, heap>>
    <3>1. {capFrame(c)} \in SUBSET Slots
      OBVIOUS
    <3>2. pc' \in [Threads -> Labels] /\ HandsFollowPc'
          /\ held' \in [Slots -> Frame \cup {NULL}]
      BY <2>1, <3>1, DropType, CaptureOwn
    <3>3. mFramePool' \in SUBSET Buffers /\ heap' \in SUBSET Buffers
      BY <2>1 DEF TypeOK
    <3>4. UNCHANGED <<controlVars, queueVars>>
      BY <1>11 DEF CaptureToSurface
    <3> QED BY <3>2, <3>3, <3>4, PoolTyped
  <2>2. CASE GetFrame(surfaceFrame(c), held[capFrame(c)].img) /\ Goto(c, "callback")
    <3>1. held[capFrame(c)].img \in Nat /\ held[capFrame(c)] # NULL
      BY <1>11 DEF CaptureToSurface, HandsFollowPc, TypeOK, Frame
    <3>2. /\ mFramePool' \in SUBSET Buffers /\ heap' \in SUBSET Buffers
          /\ held' \in [Slots -> Frame \cup {NULL}]
          /\ \A s \in Slots : s # surfaceFrame(c) => held'[s] = held[s]
      BY <2>2, <3>1, GetFrameType
    <3>3. pc' \in [Threads -> Labels] /\ HandsFollowPc'
      BY <2>2, <3>1, <3>2, CaptureOwn
    <3> QED BY <1>11, <3>2, <3>3, PoolTyped DEF CaptureToSurface
  <2>3. CASE UNCHANGED poolVars /\ Goto(c, "callback")
    <3>1. held'[capFrame(c)] # NULL
      BY <1>11, <2>3 DEF CaptureToSurface, HandsFollowPc
    <3>2. pc' \in [Threads -> Labels] /\ HandsFollowPc'
      BY <2>3, <3>1, CaptureOwn DEF TypeOK
    <3> QED BY <1>11, <2>3, <3>2, PcTyped DEF CaptureToSurface
  <2> QED BY <1>11, <2>1, <2>2, <2>3 DEF CaptureToSurface
<1>12. CASE EndSurface(c)
  <2>1. {surfaceFrame(c)} \in SUBSET Slots
    OBVIOUS
  <2>2. mFramePool' \in SUBSET Buffers /\ heap' \in SUBSET Buffers
    BY <1>12, <2>1, FramesOfType, RecycleType DEF EndSurface
  <2>3. /\ held' \in [Slots -> Frame \cup {NULL}]
        /\ \A s \in Slots \ {surfaceFrame(c)} : held'[s] = held[s]
    BY <1>12, <2>1, DropType DEF EndSurface
  <2>4. pc' \in [Threads -> Labels] /\ HandsFollowPc'
    BY <1>12, <2>3, CaptureOwn DEF EndSurface
  <2> QED BY <1>12, <2>2, <2>3, <2>4, PoolTyped DEF EndSurface
<1>13. CASE ReleaseCaptureWindow(c)
  <2>1. pc' \in [Threads -> Labels] /\ HandsFollowPc'
    BY <1>13, CaptureGoto DEF ReleaseCaptureWindow
  <2>2. surfaceRefs' \in [Surfaces -> Int]
    BY <1>13, WindowType DEF ReleaseCaptureWindow, TypeOK
  <2> QED BY <1>13, <2>1, <2>2 DEF ReleaseCaptureWindow, TypeOK, TypeInv
<1>14. CASE ClearCaptureWindow(c)
  <2>1. pc' \in [Threads -> Labels] /\ HandsFollowPc'
    BY <1>14, CaptureGoto DEF ClearCaptureWindow
  <2> QED BY <1>14, <2>1 DEF ClearCaptureWindow, TypeOK, TypeInv
<1>10. CASE CaptureLeave(c)
  <2>1. pc' \in [Threads -> Labels] /\ HandsFollowPc'
    BY <1>10, CaptureGoto DEF CaptureLeave
  <2> QED BY <1>10, <2>1 DEF CaptureLeave, TypeOK, TypeInv
<1> QED
  BY <1>1, <1>2, <1>3, <1>4, <1>5, <1>6, <1>7, <1>8, <1>9, <1>10, <1>11, <1>12,
     <1>13, <1>14 DEF CaptureStep

\* TypeInv is inductive.
THEOREM TypeInvariant == Spec => []TypeInv
<1>1. TypeInv /\ [Next]_vars => TypeInv'
  <2> SUFFICES ASSUME TypeInv, [Next]_vars
               PROVE  TypeInv'
    OBVIOUS
  <2>1. CASE SpuriousWakeup
    BY <2>1 DEF SpuriousWakeup, TypeInv, TypeOK, HandsFollowPc, flagVars, queueVars, poolVars, frameVars,
                windowVars, callbackVars, appVars, handleVars, waitVars, threadVars,
                counterVars, controlVars
  <2>2. CASE UNCHANGED vars
    BY <2>2 DEF vars, TypeInv, TypeOK, HandsFollowPc, flagVars, queueVars, poolVars, frameVars,
                windowVars, callbackVars, appVars, handleVars, waitVars, threadVars,
                counterVars, controlVars
  <2> QED
    BY <2>1, <2>2, AppStepType, StreamStepType, PreviewStepType, CaptureStepType
       DEF Next
<1> QED BY <1>1, InitType, PTL DEF Spec

\* Every reachable state of the pipeline is type correct: no queue, local
\* variable or flag takes a value its thread does not expect.
THEOREM TypeCorrect == Spec => []TypeOK
<1>1. TypeInv => TypeOK
  BY DEF TypeInv
<1> QED BY <1>1, TypeInvariant, PTL

=============================================================================
