------------------------ MODULE PreviewFrames_proofs ------------------------
(***************************************************************************)
(* Proofs about the frames of the preview pipeline: one owner at a time,   *)
(* the pool and the preview queue within their capacities, which frames    *)
(* are lost and how many, what is left when stopPreview has returned, and  *)
(* the order in which images reach onFrame.                                *)
(***************************************************************************)
EXTENDS UVCPreview_proofs, FiniteSetTheorems

OwnInv == TypeInv /\ FramesHaveOneOwner

\* What one owner means for the buffers of local variables.
LEMMA SlotBuffers ==
  ASSUME TypeOK, FramesHaveOneOwner, NEW S \in SUBSET Slots, NEW T \in SUBSET Slots,
         S \cap T = {}
  PROVE  FramesOf(S) \cap FramesOf(T) = {}
BY DEF FramesHaveOneOwner, FramesOf

LEMMA FramesOfSome ==
  ASSUME NEW S \in SUBSET Slots
  PROVE  FramesOf(S) \subseteq FramesOf(Slots)
BY DEF FramesOf

LEMMA UnchangedFrames ==
  ASSUME FramesHaveOneOwner, UNCHANGED frameVars
  PROVE  FramesHaveOneOwner'
BY DEF FramesHaveOneOwner, frameVars, queueVars, poolVars, Reachable, QueuedBuffers,
       CaptureBuffers, FramesOf

\* After local variables T lost their frames.
LEMMA DropSlots ==
  ASSUME TypeOK, NEW T \in SUBSET Slots, held' = Drop(T)
  PROVE  FramesOf(Slots)' = FramesOf(Slots \ T)
BY DEF FramesOf, Drop

LEMMA DropOwn ==
  ASSUME TypeOK, FramesHaveOneOwner, NEW T \in SUBSET Slots, held' = Drop(T),
         UNCHANGED <<previewFrames, captureQueu, mFramePool, heap>>
  PROVE  FramesHaveOneOwner'
<1>1. FramesOf(Slots)' \subseteq FramesOf(Slots)
  <2>1. Slots \ T \in SUBSET Slots
    OBVIOUS
  <2> QED BY <2>1, DropSlots, FramesOfSome
<1>2. UNCHANGED <<QueuedBuffers, CaptureBuffers>>
  BY DEF QueuedBuffers, CaptureBuffers
<1>3. \A s, t \in Slots :
        held'[s] # NULL /\ held'[t] # NULL /\ held'[s].buf = held'[t].buf => s = t
  BY DEF Drop, FramesHaveOneOwner
<1> QED BY <1>1, <1>2, <1>3 DEF FramesHaveOneOwner, Reachable

LEMMA RecycleOwn ==
  ASSUME TypeOK, FramesHaveOneOwner, NEW T \in SUBSET Slots, held' = Drop(T),
         Recycle(FramesOf(T)), UNCHANGED <<previewFrames, captureQueu>>
  PROVE  FramesHaveOneOwner'
<1>1. /\ FramesOf(Slots)' \subseteq FramesOf(Slots)
      /\ FramesOf(Slots)' \cap FramesOf(T) = {}
      /\ FramesOf(T) \subseteq FramesOf(Slots)
  <2>1. Slots \ T \in SUBSET Slots /\ (Slots \ T) \cap T = {}
    OBVIOUS
  <2>2. FramesOf(Slots)' = FramesOf(Slots \ T)
    BY DropSlots
  <2>3. FramesOf(Slots \ T) \subseteq FramesOf(Slots) /\ FramesOf(T) \subseteq FramesOf(Slots)
    BY <2>1, FramesOfSome
  <2>4. FramesOf(Slots \ T) \cap FramesOf(T) = {}
    BY <2>1, SlotBuffers
  <2> QED BY <2>2, <2>3, <2>4
<1>2. UNCHANGED <<QueuedBuffers, CaptureBuffers>>
  BY DEF QueuedBuffers, CaptureBuffers
<1>3. \A s, t \in Slots :
        held'[s] # NULL /\ held'[t] # NULL /\ held'[s].buf = held'[t].buf => s = t
  BY DEF Drop, FramesHaveOneOwner
<1>4. PICK kept \in SUBSET FramesOf(T) :
        mFramePool' = mFramePool \cup kept /\ heap' = heap \ (FramesOf(T) \ kept)
  BY DEF Recycle
<1> QED BY <1>1, <1>2, <1>3, <1>4 DEF FramesHaveOneOwner, Reachable

LEMMA GetOwn ==
  ASSUME TypeOK, FramesHaveOneOwner, NEW slot \in Slots, NEW img \in Nat,
         GetFrame(slot, img), UNCHANGED <<previewFrames, captureQueu>>
  PROVE  FramesHaveOneOwner'
<1>1. PICK b \in (IF mFramePool # {} THEN mFramePool ELSE Buffers \ heap) :
        /\ mFramePool' = mFramePool \ {b} /\ heap' = heap \cup {b}
        /\ held' = [held EXCEPT ![slot] = [buf |-> b, img |-> img]]
  BY DEF GetFrame
<1>2. UNCHANGED <<QueuedBuffers, CaptureBuffers>>
  BY DEF QueuedBuffers, CaptureBuffers
<1>3. b \notin QueuedBuffers \cup CaptureBuffers \cup FramesOf(Slots)
  BY <1>1 DEF FramesHaveOneOwner, Reachable
<1>4. FramesOf(Slots)' \subseteq FramesOf(Slots) \cup {b}
  BY <1>1 DEF FramesOf, TypeOK
<1>5. \A s, t \in Slots :
        held'[s] # NULL /\ held'[t] # NULL /\ held'[s].buf = held'[t].buf => s = t
  <2>1. \A s \in Slots : held[s] # NULL => held[s].buf # b
    BY <1>3 DEF FramesOf
  <2>2. /\ \A s \in Slots : s # slot => held'[s] = held[s]
        /\ held'[slot].buf = b
    BY <1>1 DEF TypeOK
  <2> QED BY <2>1, <2>2 DEF FramesHaveOneOwner
<1> QED BY <1>1, <1>2, <1>3, <1>4, <1>5 DEF FramesHaveOneOwner, Reachable

-----------------------------------------------------------------------------
(* The steps that move frames through the queues.                          *)

\* Recycling everything queued, or what waits for the capture thread.
LEMMA ClearOwn ==
  ASSUME TypeOK, FramesHaveOneOwner, UNCHANGED held,
         NEW S \in SUBSET Buffers, Recycle(S),
         \/ S = QueuedBuffers /\ previewFrames' = <<>> /\ UNCHANGED captureQueu
         \/ S = CaptureBuffers /\ captureQueu' = NULL /\ UNCHANGED previewFrames
  PROVE  FramesHaveOneOwner'
<1>1. PICK kept \in SUBSET S :
        mFramePool' = mFramePool \cup kept /\ heap' = heap \ (S \ kept)
  BY DEF Recycle
<1>2. /\ FramesOf(Slots)' = FramesOf(Slots)
      /\ S \cap FramesOf(Slots) = {} /\ S \cap mFramePool = {}
  BY DEF FramesOf, FramesHaveOneOwner
<1>3. /\ QueuedBuffers' \subseteq QueuedBuffers \ S
      /\ CaptureBuffers' \subseteq CaptureBuffers \ S
  <2>1. previewFrames' = <<>> => QueuedBuffers' = {}
    BY DEF QueuedBuffers
  <2>2. captureQueu' = NULL => CaptureBuffers' = {}
    BY DEF CaptureBuffers
  <2>3. previewFrames' = previewFrames => QueuedBuffers' = QueuedBuffers
    BY DEF QueuedBuffers
  <2>4. captureQueu' = captureQueu => CaptureBuffers' = CaptureBuffers
    BY DEF CaptureBuffers
  <2> QED BY <2>1, <2>2, <2>3, <2>4 DEF FramesHaveOneOwner
<1>4. \A i, j \in DOMAIN previewFrames' :
        previewFrames'[i].buf = previewFrames'[j].buf => i = j
  BY DEF FramesHaveOneOwner
<1> QED BY <1>1, <1>2, <1>3, <1>4 DEF FramesHaveOneOwner, Reachable

LEMMA PutOwn ==
  ASSUME TypeOK, FramesHaveOneOwner, held[copy] # NULL, held' = Drop({copy}),
         previewFrames' = Append(previewFrames, held[copy]),
         UNCHANGED <<captureQueu, mFramePool, heap>>
  PROVE  FramesHaveOneOwner'
<1> DEFINE b == held[copy].buf
           n == Len(previewFrames)
<1>1. b \in FramesOf(Slots) /\ copy \in Slots
  BY SlotsAre DEF FramesOf
<1>2. FramesOf(Slots)' \subseteq FramesOf(Slots) \ {b}
  <2>1. {copy} \in SUBSET Slots
    BY SlotsAre
  <2>2. FramesOf(Slots)' = FramesOf(Slots \ {copy})
    BY <2>1, DropSlots
  <2>3. b \notin FramesOf(Slots \ {copy})
    BY <1>1 DEF FramesOf, FramesHaveOneOwner
  <2> QED BY <2>2, <2>3, FramesOfSome
<1>3. /\ n \in Nat /\ DOMAIN previewFrames = 1..n
      /\ DOMAIN previewFrames' = 1..(n + 1)
      /\ previewFrames'[n + 1] = held[copy]
      /\ \A i \in 1..n : previewFrames'[i] = previewFrames[i]
  BY DEF TypeOK
<1>4. QueuedBuffers' \subseteq QueuedBuffers \cup {b}
  BY <1>3 DEF QueuedBuffers
<1>5. b \notin QueuedBuffers \cup CaptureBuffers \cup mFramePool /\ b \in heap
  BY <1>1 DEF FramesHaveOneOwner, Reachable
<1>6. \A i, j \in DOMAIN previewFrames' :
        previewFrames'[i].buf = previewFrames'[j].buf => i = j
  <2>1. \A i \in 1..n : previewFrames[i].buf # b
    BY <1>3, <1>5 DEF QueuedBuffers
  <2>2. \A i, j \in 1..n : previewFrames[i].buf = previewFrames[j].buf => i = j
    BY <1>3 DEF FramesHaveOneOwner
  <2>3. SUFFICES ASSUME NEW i \in 1..(n + 1), NEW j \in 1..(n + 1),
                        previewFrames'[i].buf = previewFrames'[j].buf
                 PROVE  i = j
    BY <1>3
  <2>4. CASE i \in 1..n /\ j \in 1..n
    BY <1>3, <2>2, <2>3, <2>4
  <2>5. CASE i = n + 1 \/ j = n + 1
    BY <1>3, <2>1, <2>3, <2>5
  <2> QED BY <1>3, <2>4, <2>5
<1>7. \A s, t \in Slots :
        held'[s] # NULL /\ held'[t] # NULL /\ held'[s].buf = held'[t].buf => s = t
  BY DEF Drop, FramesHaveOneOwner
<1>8. CaptureBuffers' = CaptureBuffers
  BY DEF CaptureBuffers
<1> HIDE DEF b, n
<1>9. Reachable' \subseteq heap'
  BY <1>2, <1>4, <1>5, <1>8 DEF FramesHaveOneOwner, Reachable
<1>10. mFramePool' \cap (QueuedBuffers' \cup CaptureBuffers' \cup FramesOf(Slots)') = {}
  BY <1>2, <1>4, <1>5, <1>8 DEF FramesHaveOneOwner
<1>11. QueuedBuffers' \cap (CaptureBuffers' \cup FramesOf(Slots)') = {}
  BY <1>2, <1>4, <1>5, <1>8 DEF FramesHaveOneOwner
<1>12. CaptureBuffers' \cap FramesOf(Slots)' = {}
  BY <1>2, <1>8 DEF FramesHaveOneOwner
<1> QED BY <1>6, <1>7, <1>9, <1>10, <1>11, <1>12 DEF FramesHaveOneOwner

\* A frame leaves one of the queues for a local variable.
LEMMA TakeOwn ==
  ASSUME TypeOK, FramesHaveOneOwner, NEW slot \in Slots, NEW f \in Frame,
         held' = [held EXCEPT ![slot] = f], UNCHANGED <<mFramePool, heap>>,
         f.buf \in QueuedBuffers \cup CaptureBuffers,
         QueuedBuffers' \subseteq QueuedBuffers \ {f.buf},
         CaptureBuffers' \subseteq CaptureBuffers \ {f.buf},
         \A i, j \in DOMAIN previewFrames' :
           previewFrames'[i].buf = previewFrames'[j].buf => i = j
  PROVE  FramesHaveOneOwner'
<1>1. FramesOf(Slots)' \subseteq FramesOf(Slots) \cup {f.buf}
  BY DEF FramesOf, TypeOK
<1>2. f.buf \notin FramesOf(Slots) \cup mFramePool /\ f.buf \in heap
  BY DEF FramesHaveOneOwner, Reachable
<1>3. \A s, t \in Slots :
        held'[s] # NULL /\ held'[t] # NULL /\ held'[s].buf = held'[t].buf => s = t
  <2>1. \A s \in Slots : held[s] # NULL => held[s].buf # f.buf
    BY <1>2 DEF FramesOf
  <2>2. held'[slot] = f /\ \A s \in Slots : s # slot => held'[s] = held[s]
    BY DEF TypeOK
  <2> QED BY <2>1, <2>2 DEF FramesHaveOneOwner
<1> QED BY <1>1, <1>2, <1>3 DEF FramesHaveOneOwner, Reachable

LEMMA RemoveHead ==
  ASSUME TypeOK, FramesHaveOneOwner, previewFrames # <<>>,
         previewFrames' = Tail(previewFrames), UNCHANGED captureQueu
  PROVE  /\ Head(previewFrames) \in Frame
         /\ Head(previewFrames).buf \in QueuedBuffers
         /\ QueuedBuffers' \subseteq QueuedBuffers \ {Head(previewFrames).buf}
         /\ CaptureBuffers' \subseteq CaptureBuffers \ {Head(previewFrames).buf}
         /\ \A i, j \in DOMAIN previewFrames' :
              previewFrames'[i].buf = previewFrames'[j].buf => i = j
<1> DEFINE n == Len(previewFrames)
<1>1. /\ n \in Nat \ {0} /\ DOMAIN previewFrames = 1..n
      /\ Head(previewFrames) = previewFrames[1] /\ Head(previewFrames) \in Frame
      /\ DOMAIN previewFrames' = 1..(n - 1)
      /\ \A i \in 1..(n - 1) : previewFrames'[i] = previewFrames[i + 1]
  BY DEF TypeOK
<1>2. Head(previewFrames).buf \in QueuedBuffers
  BY <1>1 DEF QueuedBuffers
<1>3. \A i, j \in 1..n : previewFrames[i].buf = previewFrames[j].buf => i = j
  BY <1>1 DEF FramesHaveOneOwner
<1>4. QueuedBuffers' \subseteq QueuedBuffers \ {Head(previewFrames).buf}
  <2>1. SUFFICES ASSUME NEW i \in 1..(n - 1)
                 PROVE  previewFrames'[i].buf \in QueuedBuffers \ {Head(previewFrames).buf}
    BY <1>1 DEF QueuedBuffers
  <2>2. i + 1 \in 1..n /\ 1 \in 1..n /\ i + 1 # 1
    BY <1>1
  <2> QED BY <1>1, <1>3, <2>2 DEF QueuedBuffers
<1>5. CaptureBuffers' \subseteq CaptureBuffers \ {Head(previewFrames).buf}
  BY <1>2 DEF CaptureBuffers, FramesHaveOneOwner
<1>6. \A i, j \in DOMAIN previewFrames' :
        previewFrames'[i].buf = previewFrames'[j].buf => i = j
  <2>1. SUFFICES ASSUME NEW i \in 1..(n - 1), NEW j \in 1..(n - 1),
                        previewFrames'[i].buf = previewFrames'[j].buf
                 PROVE  i = j
    BY <1>1
  <2>2. i + 1 \in 1..n /\ j + 1 \in 1..n
    BY <1>1
  <2>3. i + 1 = j + 1
    BY <1>1, <1>3, <2>1, <2>2
  <2> QED BY <2>3
<1> QED BY <1>1, <1>2, <1>4, <1>5, <1>6

\* addCaptureFrame while running: the old frame is recycled, the new one moves.
LEMMA KeepLatestOwn ==
  ASSUME TypeOK, FramesHaveOneOwner, held[frame] # NULL, held' = Drop({frame}),
         Recycle(CaptureBuffers), captureQueu' = held[frame], UNCHANGED previewFrames
  PROVE  FramesHaveOneOwner'
<1> DEFINE b == held[frame].buf
<1>1. b \in FramesOf(Slots) /\ frame \in Slots
  BY SlotsAre DEF FramesOf
<1>2. FramesOf(Slots)' \subseteq FramesOf(Slots) \ {b}
  <2>1. {frame} \in SUBSET Slots
    BY SlotsAre
  <2>2. FramesOf(Slots)' = FramesOf(Slots \ {frame})
    BY <2>1, DropSlots
  <2>3. b \notin FramesOf(Slots \ {frame})
    BY <1>1 DEF FramesOf, FramesHaveOneOwner
  <2> QED BY <2>2, <2>3, FramesOfSome
<1>3. PICK kept \in SUBSET CaptureBuffers :
        mFramePool' = mFramePool \cup kept /\ heap' = heap \ (CaptureBuffers \ kept)
  BY DEF Recycle
<1>4. CaptureBuffers' = {b} /\ QueuedBuffers' = QueuedBuffers
  BY DEF CaptureBuffers, QueuedBuffers
<1>5. b \notin QueuedBuffers \cup CaptureBuffers \cup mFramePool /\ b \in heap
  BY <1>1 DEF FramesHaveOneOwner, Reachable
<1>6. \A s, t \in Slots :
        held'[s] # NULL /\ held'[t] # NULL /\ held'[s].buf = held'[t].buf => s = t
  BY DEF Drop, FramesHaveOneOwner
<1>7. \A i, j \in DOMAIN previewFrames' :
        previewFrames'[i].buf = previewFrames'[j].buf => i = j
  BY DEF FramesHaveOneOwner
<1> HIDE DEF b
<1>8. CaptureBuffers \cap (QueuedBuffers \cup FramesOf(Slots) \cup mFramePool) = {}
  BY DEF FramesHaveOneOwner
<1>9. Reachable' \subseteq heap'
  <2>1. b \in heap'
    BY <1>3, <1>5
  <2>2. mFramePool \cup QueuedBuffers \cup FramesOf(Slots) \subseteq heap'
    BY <1>3, <1>8 DEF FramesHaveOneOwner, Reachable
  <2>3. mFramePool' \subseteq heap'
    BY <1>3, <2>2 DEF FramesHaveOneOwner, Reachable
  <2> QED BY <1>2, <1>4, <2>1, <2>2, <2>3 DEF Reachable
<1>10. mFramePool' \cap (QueuedBuffers' \cup CaptureBuffers' \cup FramesOf(Slots)') = {}
  BY <1>2, <1>3, <1>4, <1>5, <1>8 DEF FramesHaveOneOwner
<1>11. QueuedBuffers' \cap (CaptureBuffers' \cup FramesOf(Slots)') = {}
  BY <1>2, <1>4, <1>5 DEF FramesHaveOneOwner
<1>12. CaptureBuffers' \cap FramesOf(Slots)' = {}
  BY <1>2, <1>4
<1> QED BY <1>6, <1>7, <1>9, <1>10, <1>11, <1>12 DEF FramesHaveOneOwner

-----------------------------------------------------------------------------
(* One step per action.                                                    *)

LEMMA AppStepOwn ==
  ASSUME OwnInv, AppCall \/ AppStep
  PROVE  FramesHaveOneOwner'
<1> USE DEF OwnInv, TypeInv, queueVars, poolVars, frameVars
<1>1. CASE StartPreview
  BY <1>1, UnchangedFrames DEF StartPreview
<1>2. CASE StopPreview
  BY <1>2, UnchangedFrames DEF StopPreview
<1>3. CASE SetPreviewDisplay
  BY <1>3, UnchangedFrames DEF SetPreviewDisplay
<1>4. CASE \E obj \in Callbacks \cup {NULL} : SetFrameCallback(obj)
  BY <1>4, UnchangedFrames DEF SetFrameCallback
<1>5. CASE CreatePreviewThread
  BY <1>5, UnchangedFrames DEF CreatePreviewThread
<1>6. CASE SignalThreads
  BY <1>6, UnchangedFrames DEF SignalThreads
<1>7. CASE JoinCapture
  BY <1>7, UnchangedFrames DEF JoinCapture
<1>8. CASE JoinPreview
  BY <1>8, UnchangedFrames DEF JoinPreview
<1>9. CASE ClearPreviewFrame
  BY <1>9, QueueType, ClearOwn DEF ClearPreviewFrame
<1>12. CASE ClearCaptureFrame
  BY <1>12, QueueType, ClearOwn DEF ClearCaptureFrame
<1>13. CASE ReleaseWindows
  BY <1>13, UnchangedFrames DEF ReleaseWindows
<1>14. CASE \E w \in Surfaces \cup {NULL} : SetCaptureDisplay(w)
  BY <1>14, UnchangedFrames DEF SetCaptureDisplay
<1>15. CASE ReplaceCaptureWindow
  BY <1>15, UnchangedFrames DEF ReplaceCaptureWindow
<1>10. CASE SignalCaptureAndWait
  BY <1>10, UnchangedFrames DEF SignalCaptureAndWait
<1>11. CASE ReplaceCallback
  BY <1>11, UnchangedFrames DEF ReplaceCallback
<1> QED
  BY <1>1, <1>2, <1>3, <1>4, <1>5, <1>6, <1>7, <1>8, <1>9, <1>10, <1>11, <1>12,
     <1>13, <1>14, <1>15 DEF AppCall, SurfaceCall, AppStep

LEMMA StreamStepOwn ==
  ASSUME OwnInv, ReceiveImage \/ AddPreviewFrame
  PROVE  FramesHaveOneOwner'
<1> USE DEF OwnInv, TypeInv, queueVars, poolVars, frameVars
<1>1. CASE ReceiveImage
  <2>1. copy \in Slots /\ images + 1 \in Nat
    BY SlotsAre DEF TypeOK
  <2>2. CASE GetFrame(copy, images + 1)
    BY <1>1, <2>1, <2>2, GetOwn DEF ReceiveImage
  <2>3. CASE UNCHANGED <<mFramePool, heap, held, pc>>
    BY <1>1, <2>3, UnchangedFrames DEF ReceiveImage, frameVars
  <2> QED BY <1>1, <2>2, <2>3 DEF ReceiveImage
<1>2. CASE AddPreviewFrame
  <2>1. {copy} \in SUBSET Slots
    BY SlotsAre
  <2>2. CASE Recycle(FramesOf({copy})) /\ UNCHANGED <<previewFrames, waitSet>>
    BY <1>2, <2>1, <2>2, RecycleOwn DEF AddPreviewFrame
  <2>3. CASE /\ previewFrames' = Append(previewFrames, held[copy])
             /\ UNCHANGED <<mFramePool, heap>>
    BY <1>2, <2>3, PutOwn DEF AddPreviewFrame, HandsFollowPc
  <2> QED BY <1>2, <2>2, <2>3 DEF AddPreviewFrame
<1> QED BY <1>1, <1>2

LEMMA PreviewStepOwn ==
  ASSUME OwnInv, PreviewStep
  PROVE  FramesHaveOneOwner'
<1> USE DEF OwnInv, TypeInv, queueVars, poolVars, frameVars
<1>1. CASE StartStreaming
  BY <1>1, UnchangedFrames DEF StartStreaming
<1>2. CASE \E c \in CaptureThreads : CreateCaptureThread(c)
  BY <1>2, QueueType, ClearOwn DEF CreateCaptureThread
<1>3. CASE PreviewLoop
  BY <1>3, UnchangedFrames DEF PreviewLoop
<1>4. CASE WaitPreviewFrame
  <2> DEFINE slot == IF Mjpeg THEN mjpeg ELSE frame
  <2>1. slot \in Slots
    BY SlotsAre
  <2>2. CASE UNCHANGED <<held, previewFrames>>
    BY <1>4, <2>2, UnchangedFrames DEF WaitPreviewFrame, frameVars
  <2>3. CASE /\ previewFrames # <<>> /\ previewFrames' = Tail(previewFrames)
             /\ held' = [held EXCEPT ![slot] = Head(previewFrames)]
    <3> HIDE DEF slot
    <3>1. UNCHANGED <<captureQueu, mFramePool, heap>>
      BY <1>4 DEF WaitPreviewFrame
    <3> QED BY <2>1, <2>3, <3>1, RemoveHead, TakeOwn
  <2> QED BY <1>4, <2>2, <2>3 DEF WaitPreviewFrame, RemovePreviewFrame
<1>5. CASE TestRunning
  <2>1. {mjpeg, frame} \in SUBSET Slots
    BY SlotsAre
  <2>2. CASE mIsRunning
    BY <1>5, <2>2, UnchangedFrames DEF TestRunning, frameVars
  <2>3. CASE ~mIsRunning
    BY <1>5, <2>1, <2>3, DropOwn DEF TestRunning
  <2> QED BY <2>2, <2>3
<1>6. CASE GetDecoded
  <2>1. frame \in Slots /\ held[mjpeg].img \in Nat
    BY <1>6, SlotsAre DEF GetDecoded, HandsFollowPc, TypeOK, Frame
  <2> QED BY <1>6, <2>1, GetOwn DEF GetDecoded
<1>7. CASE Decode
  <2>1. {mjpeg} \in SUBSET Slots /\ {mjpeg, frame} \in SUBSET Slots
    BY SlotsAre
  <2> QED BY <1>7, <2>1, RecycleOwn DEF Decode
<1>8. CASE DrawConvert
  <2>1. CASE GetFrame(converted, held[frame].img)
    <3>1. converted \in Slots /\ held[frame].img \in Nat
      BY <1>8, SlotsAre DEF DrawConvert, HandsFollowPc, TypeOK, Frame
    <3> QED BY <1>8, <2>1, <3>1, GetOwn DEF DrawConvert
  <2>2. CASE UNCHANGED <<mFramePool, heap, held>>
    BY <1>8, <2>2, UnchangedFrames DEF DrawConvert, frameVars
  <2> QED BY <1>8, <2>1, <2>2 DEF DrawConvert
<1>9. CASE DrawRotate
  <2>1. CASE GetFrame(rotated, held[frame].img)
    <3>1. rotated \in Slots /\ held[frame].img \in Nat
      BY <1>9, SlotsAre DEF DrawRotate, HandsFollowPc, TypeOK, Frame
    <3> QED BY <1>9, <2>1, <3>1, GetOwn DEF DrawRotate
  <2>2. CASE UNCHANGED <<mFramePool, heap, held>>
    BY <1>9, <2>2, UnchangedFrames DEF DrawRotate, frameVars
  <2> QED BY <1>9, <2>1, <2>2 DEF DrawRotate
<1>10. CASE DrawDone
  <2>1. {converted, rotated} \in SUBSET Slots
    BY SlotsAre
  <2> QED BY <1>10, <2>1, RecycleOwn DEF DrawDone
<1>11. CASE AddCaptureFrame
  <2>1. {frame} \in SUBSET Slots /\ held[frame] # NULL
    BY <1>11, SlotsAre DEF AddCaptureFrame, HandsFollowPc
  <2>2. CASE mIsRunning
    BY <1>11, <2>1, <2>2, KeepLatestOwn DEF AddCaptureFrame, KeepLatest
  <2>3. CASE ~mIsRunning
    BY <1>11, <2>1, <2>3, DropOwn DEF AddCaptureFrame
  <2> QED BY <2>2, <2>3
<1>12. CASE PreviewExit
  BY <1>12, UnchangedFrames DEF PreviewExit
<1>13. CASE StopStreaming
  BY <1>13, UnchangedFrames DEF StopStreaming
<1> QED
  BY <1>1, <1>2, <1>3, <1>4, <1>5, <1>6, <1>7, <1>8, <1>9, <1>10, <1>11, <1>12,
     <1>13 DEF PreviewStep

LEMMA CaptureStepOwn ==
  ASSUME OwnInv, NEW c \in CaptureThreads, CaptureStep(c)
  PROVE  FramesHaveOneOwner'
<1> USE DEF OwnInv, TypeInv, queueVars, poolVars, frameVars
<1>0. /\ {capFrame(c)} \in SUBSET Slots /\ {capFrame(c), cbFrame(c)} \in SUBSET Slots
      /\ {surfaceFrame(c)} \in SUBSET Slots /\ surfaceFrame(c) \in Slots
  BY SlotsAre
<1>1. CASE CaptureStart(c)
  BY <1>1, QueueType, ClearOwn DEF CaptureStart
<1>2. CASE CaptureLoop(c)
  BY <1>2, UnchangedFrames DEF CaptureLoop
<1>3. CASE TestCapturing(c)
  BY <1>3, UnchangedFrames DEF TestCapturing
<1>4. CASE WaitCaptureFrame(c)
  <2>1. CASE UNCHANGED <<held, captureQueu>>
    BY <1>4, <2>1, UnchangedFrames DEF WaitCaptureFrame, frameVars
  <2>2. CASE /\ captureQueu # NULL /\ captureQueu' = NULL
             /\ held' = [held EXCEPT ![capFrame(c)] = captureQueu]
    <3>1. UNCHANGED <<previewFrames, mFramePool, heap>>
      BY <1>4 DEF WaitCaptureFrame
    <3>2. captureQueu \in Frame /\ CaptureBuffers = {captureQueu.buf}
      BY <2>2 DEF CaptureBuffers, TypeOK
    <3>3. CaptureBuffers' = {}
      BY <2>2 DEF CaptureBuffers
    <3>4. QueuedBuffers' \subseteq QueuedBuffers \ {captureQueu.buf}
      BY <3>1, <3>2 DEF QueuedBuffers, FramesHaveOneOwner
    <3>5. \A i, j \in DOMAIN previewFrames' :
            previewFrames'[i].buf = previewFrames'[j].buf => i = j
      BY <3>1 DEF FramesHaveOneOwner
    <3> QED BY <1>0, <2>2, <3>1, <3>2, <3>3, <3>4, <3>5, TakeOwn
  <2> QED BY <1>4, <2>1, <2>2 DEF WaitCaptureFrame, TakeCaptureFrame
<1>5. CASE BeginCallback(c)
  <2>1. CASE held' = Drop({capFrame(c)}) /\ UNCHANGED <<mFramePool, heap>>
    BY <1>0, <1>5, <2>1, DropOwn DEF BeginCallback
  <2>2. CASE GetFrame(cbFrame(c), held[capFrame(c)].img)
    <3>1. cbFrame(c) \in Slots /\ held[capFrame(c)].img \in Nat
      BY <1>5, SlotsAre DEF BeginCallback, HandsFollowPc, TypeOK, Frame
    <3> QED BY <1>5, <2>2, <3>1, GetOwn DEF BeginCallback
  <2>3. CASE UNCHANGED <<mFramePool, heap, held>>
    BY <1>5, <2>3, UnchangedFrames DEF BeginCallback, frameVars
  <2> QED BY <1>5, <2>1, <2>2, <2>3 DEF BeginCallback
<1>6. CASE ConvertFrame(c)
  BY <1>0, <1>6, RecycleOwn DEF ConvertFrame
<1>7. CASE TestMethod(c)
  BY <1>7, UnchangedFrames DEF TestMethod
<1>8. CASE CallOnFrame(c)
  BY <1>8, UnchangedFrames DEF CallOnFrame
<1>9. CASE EndCallback(c)
  BY <1>0, <1>9, RecycleOwn DEF EndCallback
<1>11. CASE CaptureToSurface(c)
  <2>1. CASE held' = Drop({capFrame(c)}) /\ UNCHANGED <<mFramePool, heap>>
    BY <1>0, <1>11, <2>1, DropOwn DEF CaptureToSurface
  <2>2. CASE GetFrame(surfaceFrame(c), held[capFrame(c)].img)
    <3>1. held[capFrame(c)].img \in Nat
      BY <1>0, <1>11 DEF CaptureToSurface, HandsFollowPc, TypeOK, Frame
    <3> QED BY <1>0, <1>11, <2>2, <3>1, GetOwn DEF CaptureToSurface
  <2>3. CASE UNCHANGED poolVars
    BY <1>11, <2>3, UnchangedFrames DEF CaptureToSurface
  <2> QED BY <1>11, <2>1, <2>2, <2>3 DEF CaptureToSurface
<1>12. CASE EndSurface(c)
  BY <1>0, <1>12, RecycleOwn DEF EndSurface
<1>13. CASE ReleaseCaptureWindow(c)
  BY <1>13, UnchangedFrames DEF ReleaseCaptureWindow
<1>14. CASE ClearCaptureWindow(c)
  BY <1>14, UnchangedFrames DEF ClearCaptureWindow
<1>10. CASE CaptureLeave(c)
  BY <1>10, UnchangedFrames DEF CaptureLeave
<1> QED
  BY <1>1, <1>2, <1>3, <1>4, <1>5, <1>6, <1>7, <1>8, <1>9, <1>10, <1>11, <1>12,
     <1>13, <1>14 DEF CaptureStep

\* No two of the pool, the queues and the threads ever hold the same buffer,
\* and none holds a freed one, for any number of buffers, images and sessions
\* and even with several capture threads alive.
THEOREM OneOwner == Spec => []FramesHaveOneOwner
<1>1. Init => FramesHaveOneOwner
  BY DEF Init, FramesHaveOneOwner, Reachable, QueuedBuffers, CaptureBuffers, FramesOf
<1>2. TypeInv /\ FramesHaveOneOwner /\ [Next]_vars => FramesHaveOneOwner'
  <2> SUFFICES ASSUME OwnInv, [Next]_vars
               PROVE  FramesHaveOneOwner'
    BY DEF OwnInv
  <2>1. CASE SpuriousWakeup
    BY <2>1, UnchangedFrames DEF SpuriousWakeup, OwnInv
  <2>2. CASE UNCHANGED vars
    BY <2>2, UnchangedFrames DEF vars, OwnInv
  <2> QED
    BY <2>1, <2>2, AppStepOwn, StreamStepOwn, PreviewStepOwn, CaptureStepOwn DEF Next
<1> QED BY <1>1, <1>2, TypeInvariant, PTL DEF Spec

-----------------------------------------------------------------------------
(* The capacities.                                                         *)

\* What a step does to the pool and to the preview queue.
PoolMoves ==
  \/ mFramePool' \subseteq mFramePool
  \/ \E S \in SUBSET Buffers : Recycle(S)
QueueMoves ==
  \/ previewFrames' \in {previewFrames, <<>>}
  \/ previewFrames # <<>> /\ previewFrames' = Tail(previewFrames)
  \/ \E f \in Frame : HasRoom /\ previewFrames' = Append(previewFrames, f)

LEMMA GetShrinks ==
  ASSUME NEW slot, NEW img, GetFrame(slot, img) PROVE PoolMoves
BY DEF GetFrame, PoolMoves

LEMMA QueueMovesKeep ==
  ASSUME TypeOK, Len(previewFrames) <= MAX_FRAME, QueueMoves
  PROVE  Len(previewFrames') <= MAX_FRAME
<1>1. PICK s \in Seq(Frame) : s = previewFrames
  BY DEF TypeOK
<1>2. MAX_FRAME \in Nat \ {0}
  BY ConstantsAssumption
<1>3. CASE previewFrames' \in {s, <<>>}
  BY <1>1, <1>2, <1>3
<1>4. CASE s # <<>> /\ previewFrames' = Tail(s)
  BY <1>1, <1>2, <1>4
<1>5. ASSUME NEW f \in Frame, HasRoom, previewFrames' = Append(s, f)
      PROVE  Len(previewFrames') <= MAX_FRAME
  <2>1. Len(s) < MAX_FRAME
    BY <1>1, <1>5 DEF HasRoom
  <2> QED
    BY <1>2, <1>5, <2>1
<1> QED
  BY <1>1, <1>3, <1>4, <1>5 DEF QueueMoves

LEMMA PoolMovesKeep ==
  ASSUME TypeOK, Cardinality(mFramePool) <= FRAME_POOL_SZ, PoolMoves
  PROVE  Cardinality(mFramePool') <= FRAME_POOL_SZ
<1>1. IsFiniteSet(mFramePool) /\ Cardinality(mFramePool) \in Nat
  BY ConstantsAssumption, FS_Subset, FS_CardinalityType DEF TypeOK
<1>2. FRAME_POOL_SZ \in Nat
  BY ConstantsAssumption DEF FRAME_POOL_SZ
<1>3. CASE mFramePool' \subseteq mFramePool
  <2>1. Cardinality(mFramePool') <= Cardinality(mFramePool)
        /\ Cardinality(mFramePool') \in Nat
    BY <1>1, <1>3, FS_Subset, FS_CardinalityType
  <2> QED
    BY <1>1, <1>2, <2>1
<1>4. ASSUME NEW S \in SUBSET Buffers, Recycle(S)
      PROVE  Cardinality(mFramePool') <= FRAME_POOL_SZ
  <2> DEFINE room == FRAME_POOL_SZ - Cardinality(mFramePool)
  <2>1. PICK kept \in SUBSET S :
          /\ Cardinality(kept) = IF Cardinality(S) < room THEN Cardinality(S) ELSE room
          /\ mFramePool' = mFramePool \cup kept
    BY <1>4 DEF Recycle
  <2>2. IsFiniteSet(S) /\ IsFiniteSet(kept) /\ Cardinality(S) \in Nat
    BY ConstantsAssumption, FS_Subset, FS_CardinalityType
  <2>3. Cardinality(kept) <= room
    BY <1>1, <1>2, <2>1, <2>2
  <2>4. IsFiniteSet(mFramePool \cap kept)
    BY <2>2, FS_Subset
  <2>5. /\ Cardinality(kept) \in Nat /\ Cardinality(mFramePool \cap kept) \in Nat
        /\ Cardinality(mFramePool \cup kept)
             = Cardinality(mFramePool) + Cardinality(kept)
               - Cardinality(mFramePool \cap kept)
    BY <1>1, <2>2, <2>4, FS_Union, FS_CardinalityType
  <2> QED
    BY <1>1, <1>2, <2>1, <2>3, <2>5
<1> QED
  BY <1>3, <1>4 DEF PoolMoves

\* Every step moves the two in one of these ways.
LEMMA RecycledFrames ==
  ASSUME TypeOK
  PROVE  /\ {QueuedBuffers, CaptureBuffers} \subseteq SUBSET Buffers
         /\ \A S \in SUBSET Slots : FramesOf(S) \in SUBSET Buffers
BY QueueType, FramesOfType

LEMMA AppMoves ==
  ASSUME TypeInv, AppCall \/ AppStep PROVE PoolMoves /\ QueueMoves
<1> USE DEF TypeInv, PoolMoves, QueueMoves, queueVars, poolVars, frameVars
<1>1. CASE ClearPreviewFrame
  BY <1>1, RecycledFrames DEF ClearPreviewFrame
<1>2. CASE ClearCaptureFrame
  BY <1>2, RecycledFrames DEF ClearCaptureFrame
<1>3. CASE AppCall
  BY <1>3 DEF AppCall, SurfaceCall, StartPreview, StopPreview, SetPreviewDisplay,
              SetFrameCallback, SetCaptureDisplay
<1>4. CASE AppStep /\ ~ClearPreviewFrame /\ ~ClearCaptureFrame
  BY <1>4 DEF AppStep, CreatePreviewThread, SignalThreads, JoinCapture,
              JoinPreview, ReleaseWindows, ReplaceCaptureWindow,
              SignalCaptureAndWait, ReplaceCallback
<1> QED
  BY <1>1, <1>2, <1>3, <1>4

LEMMA StreamMoves ==
  ASSUME TypeInv, ReceiveImage \/ AddPreviewFrame PROVE PoolMoves /\ QueueMoves
<1> USE DEF TypeInv, queueVars, poolVars, frameVars
<1>1. CASE ReceiveImage
  BY <1>1, GetShrinks DEF ReceiveImage, PoolMoves, QueueMoves
<1>2. CASE AddPreviewFrame
  <2>1. FramesOf({copy}) \in SUBSET Buffers /\ held[copy] \in Frame
    <3>1. {copy} \in SUBSET Slots /\ held[copy] # NULL
      BY <1>2, SlotsAre DEF AddPreviewFrame, HandsFollowPc
    <3> QED
      BY <3>1, RecycledFrames DEF TypeOK
  <2> QED
    BY <1>2, <2>1 DEF AddPreviewFrame, PoolMoves, QueueMoves
<1> QED
  BY <1>1, <1>2

LEMMA PreviewMoves ==
  ASSUME TypeInv, PreviewStep PROVE PoolMoves /\ QueueMoves
<1> USE DEF TypeInv, queueVars, poolVars, frameVars
<1>0. /\ FramesOf({mjpeg}) \in SUBSET Buffers
      /\ FramesOf({mjpeg, frame}) \in SUBSET Buffers
      /\ FramesOf({converted, rotated}) \in SUBSET Buffers
      /\ {QueuedBuffers, CaptureBuffers} \subseteq SUBSET Buffers
  BY SlotsAre, RecycledFrames
<1>1. CASE \E c \in CaptureThreads : CreateCaptureThread(c)
  BY <1>0, <1>1 DEF CreateCaptureThread, PoolMoves, QueueMoves
<1>2. CASE WaitPreviewFrame
  BY <1>2 DEF WaitPreviewFrame, RemovePreviewFrame, PoolMoves, QueueMoves
<1>3. CASE GetDecoded
  BY <1>3, GetShrinks DEF GetDecoded, PoolMoves, QueueMoves
<1>4. CASE Decode
  BY <1>0, <1>4 DEF Decode, PoolMoves, QueueMoves
<1>5. CASE DrawConvert
  BY <1>5, GetShrinks DEF DrawConvert, PoolMoves, QueueMoves
<1>6. CASE DrawRotate
  BY <1>6, GetShrinks DEF DrawRotate, PoolMoves, QueueMoves
<1>7. CASE DrawDone
  BY <1>0, <1>7 DEF DrawDone, PoolMoves, QueueMoves
<1>8. CASE AddCaptureFrame
  BY <1>0, <1>8 DEF AddCaptureFrame, KeepLatest, PoolMoves, QueueMoves
<1>9. CASE StartStreaming \/ PreviewLoop \/ TestRunning \/ PreviewExit \/ StopStreaming
  BY <1>9 DEF StartStreaming, PreviewLoop, TestRunning, PreviewExit,
              StopStreaming, PoolMoves, QueueMoves
<1> QED
  BY <1>1, <1>2, <1>3, <1>4, <1>5, <1>6, <1>7, <1>8, <1>9 DEF PreviewStep

LEMMA CaptureMoves ==
  ASSUME TypeInv, NEW c \in CaptureThreads, CaptureStep(c)
  PROVE  PoolMoves /\ QueueMoves
<1> USE DEF TypeInv, queueVars, poolVars, frameVars
<1>0. /\ FramesOf({capFrame(c)}) \in SUBSET Buffers
      /\ FramesOf({capFrame(c), cbFrame(c)}) \in SUBSET Buffers
      /\ FramesOf({surfaceFrame(c)}) \in SUBSET Buffers
      /\ CaptureBuffers \in SUBSET Buffers
  BY SlotsAre, RecycledFrames
<1>1. UNCHANGED previewFrames
  BY DEF CaptureStep, CaptureStart, CaptureLoop, TestCapturing, WaitCaptureFrame,
         BeginCallback, ConvertFrame, TestMethod, CallOnFrame, EndCallback,
         CaptureToSurface, EndSurface, ReleaseCaptureWindow, ClearCaptureWindow,
         CaptureLeave
<1> SUFFICES PoolMoves
  BY <1>1 DEF QueueMoves
<1>2. CASE BeginCallback(c)
  BY <1>2, GetShrinks DEF BeginCallback, PoolMoves
<1>3. CASE CaptureToSurface(c)
  BY <1>3, GetShrinks DEF CaptureToSurface, PoolMoves
<1>4. CASE CaptureStart(c) \/ ConvertFrame(c) \/ EndCallback(c) \/ EndSurface(c)
  BY <1>0, <1>4 DEF CaptureStart, ConvertFrame, EndCallback, EndSurface, PoolMoves
<1>5. CASE \/ CaptureLoop(c) \/ TestCapturing(c) \/ WaitCaptureFrame(c)
           \/ TestMethod(c) \/ CallOnFrame(c) \/ ReleaseCaptureWindow(c)
           \/ ClearCaptureWindow(c) \/ CaptureLeave(c)
  BY <1>5 DEF CaptureLoop, TestCapturing, WaitCaptureFrame, TestMethod,
              CallOnFrame, ReleaseCaptureWindow, ClearCaptureWindow, CaptureLeave,
              PoolMoves
<1> QED
  BY <1>2, <1>3, <1>4, <1>5 DEF CaptureStep

\* The pool and the preview queue stay within their capacities, for any values
\* of them and any number of capture threads.
THEOREM Capacities == Spec => []WithinCapacity
<1>1. Init => WithinCapacity
  <2> SUFFICES ASSUME Init PROVE WithinCapacity
    OBVIOUS
  <2>1. Cardinality(mFramePool) = 0 /\ Len(previewFrames) = 0
    BY FS_EmptySet DEF Init
  <2> QED
    BY <2>1, ConstantsAssumption DEF WithinCapacity, FRAME_POOL_SZ
<1>2. TypeInv /\ WithinCapacity /\ [Next]_vars => WithinCapacity'
  <2> SUFFICES ASSUME TypeInv, WithinCapacity, [Next]_vars PROVE WithinCapacity'
    OBVIOUS
  <2>1. CASE SpuriousWakeup \/ UNCHANGED vars
    BY <2>1 DEF SpuriousWakeup, vars, frameVars, queueVars, poolVars,
                PoolMoves, QueueMoves, WithinCapacity
  <2>2. CASE Next
    <3>1. PoolMoves /\ QueueMoves
      BY <2>1, <2>2, AppMoves, StreamMoves, PreviewMoves, CaptureMoves
      DEF Next, SpuriousWakeup, frameVars, queueVars, poolVars, PoolMoves, QueueMoves
    <3> QED
      BY <3>1, PoolMovesKeep, QueueMovesKeep DEF TypeInv, WithinCapacity
  <2> QED
    BY <2>1, <2>2
<1> QED
  BY <1>1, <1>2, TypeInvariant, PTL DEF Spec

-----------------------------------------------------------------------------
(* The stages of a session.                                                *)

\* Where the preview thread, libuvc and mIsRunning can be at each step of the
\* native method that runs.
StageInv ==
  /\ pc["preview"] \in {"none", "prepare", "done"} => ~streaming
  /\ ~streaming => pc["stream"] = "idle"
  /\ pc["app"] = "create" => pc["preview"] = "none" /\ mIsRunning
  /\ pc["app"] \in {"clearPreview", "clearCapture", "release"} =>
       ~mIsRunning /\ pc["preview"] = "none"
  /\ pc["app"] \in {"signal", "joinCapture", "joinPreview"} =>
       ~mIsRunning /\ pc["preview"] # "none"
  /\ pc["app"] = "idle" /\ ~mIsRunning => pc["preview"] = "none"
  /\ pc["app"] \in {"cbSignal", "cbWaiting", "dispSignal", "dispWaiting"} =>
       mIsRunning
  /\ mIsRunning /\ pc["app"] # "create" => pc["preview"] # "none"

\* A step that leaves all of that alone.
SameStage ==
  /\ UNCHANGED <<mIsRunning, streaming>>
  /\ \A t \in {"app", "stream", "preview"} : pc'[t] = pc[t]

LEMMA StageKept ==
  ASSUME StageInv, SameStage
  PROVE  StageInv'
BY DEF StageInv, SameStage

LEMMA CaptureSameStage ==
  ASSUME TypeOK, NEW c \in CaptureThreads, CaptureStep(c)
  PROVE  SameStage /\ \A d \in CaptureThreads : d # c => pc'[d] = pc[d]
<1> USE ThreadsAre DEF Goto, SameStage, TypeOK, flagVars, appVars, windowVars,
        callbackVars, handleVars, waitVars, threadVars, counterVars, controlVars
<1>1. CASE CaptureStart(c)
  BY <1>1 DEF CaptureStart
<1>2. CASE CaptureLoop(c)
  BY <1>2 DEF CaptureLoop
<1>3. CASE TestCapturing(c)
  BY <1>3 DEF TestCapturing
<1>4. CASE WaitCaptureFrame(c)
  BY <1>4 DEF WaitCaptureFrame, TakeCaptureFrame
<1>5. CASE CaptureToSurface(c)
  BY <1>5 DEF CaptureToSurface
<1>6. CASE BeginCallback(c)
  BY <1>6 DEF BeginCallback
<1>7. CASE ConvertFrame(c)
  BY <1>7 DEF ConvertFrame
<1>8. CASE TestMethod(c)
  BY <1>8 DEF TestMethod
<1>9. CASE CallOnFrame(c)
  BY <1>9 DEF CallOnFrame
<1>10. CASE EndCallback(c)
  BY <1>10 DEF EndCallback
<1>11. CASE EndSurface(c)
  BY <1>11 DEF EndSurface
<1>12. CASE ReleaseCaptureWindow(c)
  BY <1>12 DEF ReleaseCaptureWindow
<1>13. CASE ClearCaptureWindow(c)
  BY <1>13 DEF ClearCaptureWindow
<1>14. CASE CaptureLeave(c)
  BY <1>14 DEF CaptureLeave
<1> QED
  BY <1>1, <1>2, <1>3, <1>4, <1>5, <1>6, <1>7, <1>8, <1>9, <1>10, <1>11, <1>12,
     <1>13, <1>14 DEF CaptureStep

\* A step of the preview thread moves it from label to label, and only
\* StartStreaming and StopStreaming touch the stream.
PreviewWay(c) ==
  /\ UNCHANGED mIsRunning
  /\ pc["preview"] # "none" /\ pc'["preview"] \notin {"none", "prepare"}
  /\ \A t \in Threads \ {"preview", c} : pc'[t] = pc[t]
  /\ \/ /\ UNCHANGED streaming
        /\ pc["preview"] \notin {"prepare", "done"} /\ pc'["preview"] # "done"
     \/ pc["preview"] = "prepare" /\ streaming' = TRUE /\ pc'["preview"] = "create"
     \/ pc["preview"] = "prepare" /\ UNCHANGED streaming /\ pc'["preview"] = "done"
     \/ pc["stream"] = "idle" /\ streaming' = FALSE /\ pc'["preview"] = "done"
  /\ pc'["preview"] = "create" => pc["preview"] = "prepare"

LEMMA PreviewWays ==
  ASSUME TypeOK, PreviewStep
  PROVE  \/ PreviewWay("preview")
         \/ \E c \in CaptureThreads : CreateCaptureThread(c) /\ PreviewWay(c)
<1> USE ThreadsAre DEF Goto, flagVars, appVars, windowVars,
        callbackVars, handleVars, waitVars, threadVars, counterVars, controlVars
<1> pc \in [Threads -> Labels]
  BY DEF TypeOK
<1>1. CASE StartStreaming
  BY <1>1 DEF StartStreaming, PreviewWay
<1>2. ASSUME NEW c \in CaptureThreads, CreateCaptureThread(c)
      PROVE  CreateCaptureThread(c) /\ PreviewWay(c)
  BY <1>2 DEF CreateCaptureThread, PreviewWay
<1>3. CASE PreviewLoop
  BY <1>3 DEF PreviewLoop, PreviewWay
<1>4. CASE WaitPreviewFrame
  BY <1>4 DEF WaitPreviewFrame, RemovePreviewFrame, PreviewWay
<1>5. CASE TestRunning
  BY <1>5 DEF TestRunning, PreviewWay
<1>6. CASE GetDecoded
  BY <1>6 DEF GetDecoded, PreviewWay
<1>7. CASE Decode
  BY <1>7 DEF Decode, PreviewWay
<1>8. CASE DrawConvert
  BY <1>8 DEF DrawConvert, PreviewWay
<1>9. CASE DrawRotate
  BY <1>9 DEF DrawRotate, PreviewWay
<1>10. CASE DrawDone
  BY <1>10 DEF DrawDone, PreviewWay
<1>11. CASE AddCaptureFrame
  BY <1>11 DEF AddCaptureFrame, PreviewWay
<1>12. CASE PreviewExit
  BY <1>12 DEF PreviewExit, PreviewWay
<1>13. CASE StopStreaming
  BY <1>13 DEF StopStreaming, PreviewWay
<1> QED
  BY <1>1, <1>2, <1>3, <1>4, <1>5, <1>6, <1>7, <1>8, <1>9, <1>10, <1>11, <1>12,
     <1>13 DEF PreviewStep

LEMMA PreviewStage ==
  ASSUME TypeOK, StageInv, PreviewStep
  PROVE  StageInv'
<1>1. PICK c \in CaptureThreads \cup {"preview"} : PreviewWay(c)
  BY PreviewWays
<1>2. /\ pc'["app"] = pc["app"] /\ pc'["stream"] = pc["stream"]
      /\ streaming \in BOOLEAN
  BY <1>1, ThreadsAre DEF PreviewWay, TypeOK
<1> QED
  BY <1>1, <1>2 DEF PreviewWay, StageInv

LEMMA AppStage ==
  ASSUME TypeOK, StageInv, AppCall \/ AppStep
  PROVE  StageInv' /\ \A t \in Threads \ {"app", "preview"} : pc'[t] = pc[t]
<1> USE ThreadsAre DEF Goto, TypeOK, StageInv, flagVars, appVars, windowVars,
        callbackVars, handleVars, waitVars, threadVars, counterVars, controlVars
<1>1. CASE StartPreview
  BY <1>1 DEF StartPreview
<1>2. CASE StopPreview
  BY <1>2 DEF StopPreview
<1>3. CASE SetPreviewDisplay
  BY <1>3 DEF SetPreviewDisplay
<1>4. CASE \E obj \in Callbacks \cup {NULL} : SetFrameCallback(obj)
  BY <1>4 DEF SetFrameCallback
<1>5. CASE \E w \in Surfaces \cup {NULL} : SetCaptureDisplay(w)
  BY <1>5 DEF SetCaptureDisplay
<1>6. CASE CreatePreviewThread
  BY <1>6 DEF CreatePreviewThread
<1>7. CASE SignalThreads
  BY <1>7 DEF SignalThreads
<1>8. CASE JoinCapture
  BY <1>8 DEF JoinCapture
<1>9. CASE JoinPreview
  BY <1>9 DEF JoinPreview
<1>10. CASE ClearPreviewFrame
  BY <1>10 DEF ClearPreviewFrame
<1>11. CASE ClearCaptureFrame
  BY <1>11 DEF ClearCaptureFrame
<1>12. CASE ReleaseWindows
  BY <1>12 DEF ReleaseWindows
<1>13. CASE SignalCaptureAndWait
  BY <1>13 DEF SignalCaptureAndWait
<1>14. CASE ReplaceCallback
  BY <1>14 DEF ReplaceCallback
<1>15. CASE ReplaceCaptureWindow
  BY <1>15 DEF ReplaceCaptureWindow
<1> QED
  BY <1>1, <1>2, <1>3, <1>4, <1>5, <1>6, <1>7, <1>8, <1>9, <1>10, <1>11, <1>12,
     <1>13, <1>14, <1>15 DEF AppCall, SurfaceCall, AppStep

LEMMA StreamWays ==
  ASSUME TypeOK, ReceiveImage \/ AddPreviewFrame
  PROVE  /\ UNCHANGED <<mIsRunning, streaming, sessions, capture_thread>>
         /\ \A t \in Threads \ {"stream"} : pc'[t] = pc[t]
         /\ pc'["stream"] # pc["stream"] => streaming \/ pc'["stream"] = "idle"
<1> USE ThreadsAre DEF Goto, TypeOK, flagVars, poolVars, appVars, windowVars,
        callbackVars, handleVars, waitVars, threadVars, counterVars, controlVars
<1>1. CASE ReceiveImage
  BY <1>1 DEF ReceiveImage
<1>2. CASE AddPreviewFrame
  BY <1>2 DEF AddPreviewFrame
<1> QED
  BY <1>1, <1>2

LEMMA StageStep ==
  ASSUME TypeOK, StageInv, [Next]_vars
  PROVE  StageInv'
<1>1. CASE ReceiveImage \/ AddPreviewFrame
  <2>1. /\ UNCHANGED <<mIsRunning, streaming>>
        /\ pc'["app"] = pc["app"] /\ pc'["preview"] = pc["preview"]
        /\ pc'["stream"] # pc["stream"] => streaming \/ pc'["stream"] = "idle"
    BY <1>1, StreamWays, ThreadsAre
  <2> QED
    BY <2>1 DEF StageInv
<1>2. CASE SpuriousWakeup \/ UNCHANGED vars
  <2>1. SameStage
    BY <1>2 DEF SpuriousWakeup, vars, controlVars, flagVars, threadVars,
                handleVars, SameStage
  <2> QED
    BY <2>1, StageKept
<1>3. CASE \E c \in CaptureThreads : CaptureStep(c)
  BY <1>3, CaptureSameStage, StageKept
<1> QED
  BY <1>1, <1>2, <1>3, AppStage, PreviewStage DEF Next

\* A session goes through its stages in order: pthread_create before the stream,
\* the end of the stream before the join, the join before the queues are cleared.
THEOREM Stages == Spec => []StageInv
<1>1. Init => StageInv
  BY ThreadsAre DEF Init, StageInv
<1>2. TypeInv /\ StageInv /\ [Next]_vars => StageInv'
  BY StageStep DEF TypeInv
<1> QED
  BY <1>1, <1>2, TypeInvariant, PTL DEF Spec

-----------------------------------------------------------------------------
(* Empty hands.                                                            *)

\* A thread that is not using a local variable has no frame in it: a frame
\* that is put there later replaces none.
PreviewHands ==
  /\ pc["preview"] \notin (IF Mjpeg THEN {"got", "decode", "decoded"} ELSE {}) =>
       held[mjpeg] = NULL
  /\ pc["preview"] \notin {"decoded", "draw", "rotate", "drawn", "add"}
                          \cup (IF Mjpeg THEN {} ELSE {"got"}) =>
       held[frame] = NULL
  /\ pc["preview"] \notin {"rotate", "drawn"} => held[converted] = NULL
  /\ pc["preview"] # "drawn" => held[rotated] = NULL

CaptureHands(c) ==
  /\ pc[c] \notin {"surface", "callback", "convert", "call", "invoke", "recycle"} =>
       held[capFrame(c)] = NULL
  /\ pc[c] \notin {"convert", "call", "invoke", "recycle"} => held[cbFrame(c)] = NULL

EmptyHands ==
  /\ pc["stream"] # "add" => held[copy] = NULL
  /\ PreviewHands
  /\ \A c \in CaptureThreads : CaptureHands(c)

HandsInv == TypeInv /\ StageInv /\ EmptyHands

\* What a step leaves in the local variables of threads that did not move.
HeldOutside(T) == \A s \in Slots \ T : held'[s] = held[s]

PreviewSlots == {mjpeg, frame, converted, rotated}
CaptureSlots(c) == {capFrame(c), cbFrame(c), surfaceFrame(c)}

LEMMA PreviewHandsKept ==
  ASSUME PreviewHands, \A s \in PreviewSlots : held'[s] = held[s],
         \/ pc'["preview"] = pc["preview"]
         \/ {pc["preview"], pc'["preview"]} \subseteq {"none", "prepare", "done"}
  PROVE  PreviewHands'
BY DEF PreviewHands, PreviewSlots

LEMMA CaptureHandsKept ==
  ASSUME NEW c \in CaptureThreads, CaptureHands(c), UNCHANGED held,
         pc'[c] = pc[c] \/ (pc[c] = "none" /\ pc'[c] = "start")
  PROVE  CaptureHands(c)'
BY DEF CaptureHands

LEMMA CaptureHandsOutside ==
  ASSUME NEW c \in CaptureThreads, CaptureHands(c),
         held'[capFrame(c)] = held[capFrame(c)], held'[cbFrame(c)] = held[cbFrame(c)],
         pc'[c] = pc[c] \/ (pc[c] = "none" /\ pc'[c] = "start")
  PROVE  CaptureHands(c)'
BY DEF CaptureHands

LEMMA GetHeld ==
  ASSUME TypeOK, NEW slot \in Slots, NEW img, GetFrame(slot, img)
  PROVE  HeldOutside({slot})
BY DEF TypeOK, GetFrame, HeldOutside

LEMMA DropHeld ==
  ASSUME NEW T \in SUBSET Slots, held' = Drop(T)
  PROVE  HeldOutside(T) /\ \A s \in T : held'[s] = NULL
BY DEF Drop, HeldOutside

LEMMA SetHeld ==
  ASSUME TypeOK, NEW slot \in Slots, NEW f, held' = [held EXCEPT ![slot] = f]
  PROVE  HeldOutside({slot}) /\ held'[slot] = f
BY DEF TypeOK, HeldOutside

\* The app thread holds no frame.
LEMMA AppHands ==
  ASSUME TypeOK, StageInv, AppCall \/ AppStep
  PROVE  /\ UNCHANGED held
         /\ \/ pc'["preview"] = pc["preview"]
            \/ {pc["preview"], pc'["preview"]} \subseteq {"none", "prepare", "done"}
<1> USE ThreadsAre DEF Goto, frameVars, queueVars, poolVars
<1> pc \in [Threads -> Labels]
  BY DEF TypeOK
<1>1. CASE StartPreview
  BY <1>1 DEF StartPreview
<1>2. CASE StopPreview
  BY <1>2 DEF StopPreview
<1>3. CASE SetPreviewDisplay
  BY <1>3 DEF SetPreviewDisplay
<1>4. CASE \E obj \in Callbacks \cup {NULL} : SetFrameCallback(obj)
  BY <1>4 DEF SetFrameCallback
<1>5. CASE \E w \in Surfaces \cup {NULL} : SetCaptureDisplay(w)
  BY <1>5 DEF SetCaptureDisplay
<1>6. CASE CreatePreviewThread
  BY <1>6 DEF CreatePreviewThread, StageInv
<1>7. CASE SignalThreads
  BY <1>7 DEF SignalThreads
<1>8. CASE JoinCapture
  BY <1>8 DEF JoinCapture
<1>9. CASE JoinPreview
  BY <1>9 DEF JoinPreview
<1>10. CASE ClearPreviewFrame
  BY <1>10 DEF ClearPreviewFrame
<1>11. CASE ClearCaptureFrame
  BY <1>11 DEF ClearCaptureFrame
<1>12. CASE ReleaseWindows
  BY <1>12 DEF ReleaseWindows
<1>13. CASE SignalCaptureAndWait
  BY <1>13 DEF SignalCaptureAndWait
<1>14. CASE ReplaceCallback
  BY <1>14 DEF ReplaceCallback
<1>15. CASE ReplaceCaptureWindow
  BY <1>15 DEF ReplaceCaptureWindow
<1> QED
  BY <1>1, <1>2, <1>3, <1>4, <1>5, <1>6, <1>7, <1>8, <1>9, <1>10, <1>11, <1>12,
     <1>13, <1>14, <1>15 DEF AppCall, SurfaceCall, AppStep

LEMMA StreamHands ==
  ASSUME TypeOK, ReceiveImage \/ AddPreviewFrame,
         pc["stream"] # "add" => held[copy] = NULL
  PROVE  /\ pc'["stream"] # "add" => held'[copy] = NULL
         /\ HeldOutside({copy})
<1> USE ThreadsAre, SlotsAre DEF Goto, poolVars
<1> pc \in [Threads -> Labels] /\ {copy} \in SUBSET Slots
  BY DEF TypeOK
<1>1. CASE ReceiveImage
  BY <1>1, GetHeld DEF ReceiveImage, HeldOutside
<1>2. CASE AddPreviewFrame
  <2>1. held' = Drop({copy})
    BY <1>2 DEF AddPreviewFrame
  <2> QED
    BY <2>1, DropHeld
<1> QED
  BY <1>1, <1>2

LEMMA PreviewStepHands ==
  ASSUME TypeOK, PreviewHands, PreviewStep
  PROVE  PreviewHands' /\ HeldOutside(PreviewSlots)
<1> USE ThreadsAre, SlotsAre, SlotsDiffer
    DEF Goto, poolVars, frameVars, queueVars, PreviewHands, PreviewSlots, HeldOutside
<1> /\ pc \in [Threads -> Labels]
    /\ {mjpeg} \in SUBSET Slots /\ {frame} \in SUBSET Slots
    /\ {mjpeg, frame} \in SUBSET Slots /\ {converted, rotated} \in SUBSET Slots
  BY DEF TypeOK
<1>1. CASE StartStreaming
  BY <1>1 DEF StartStreaming
<1>2. ASSUME NEW c \in CaptureThreads, CreateCaptureThread(c)
      PROVE  PreviewHands' /\ HeldOutside(PreviewSlots)
  BY <1>2 DEF CreateCaptureThread
<1>3. CASE PreviewLoop
  BY <1>3 DEF PreviewLoop
<1>4. CASE WaitPreviewFrame
  <2>1. CASE UNCHANGED held /\ pc'["preview"] \in {"waiting", "loop"}
    BY <1>4, <2>1 DEF WaitPreviewFrame
  <2>2. CASE /\ held' = [held EXCEPT ![IF Mjpeg THEN mjpeg ELSE frame] =
                                       Head(previewFrames)]
             /\ pc'["preview"] = "got"
    <3> DEFINE slot == IF Mjpeg THEN mjpeg ELSE frame
    <3>1. slot \in Slots /\ HeldOutside({slot})
      BY <2>2, SetHeld DEF TypeOK
    <3>2. pc["preview"] \in {"wait", "waiting"}
      BY <1>4 DEF WaitPreviewFrame
    <3> QED
      BY <2>2, <3>1, <3>2
  <2> QED
    BY <1>4, <2>1, <2>2 DEF WaitPreviewFrame, RemovePreviewFrame
<1>5. CASE TestRunning
  <2>1. CASE UNCHANGED held
    BY <1>5, <2>1, DropHeld DEF TestRunning
  <2>2. CASE held' = Drop({mjpeg, frame}) /\ pc'["preview"] = "loop"
    BY <1>5, <2>2, DropHeld DEF TestRunning
  <2> QED
    BY <1>5, <2>1, <2>2 DEF TestRunning
<1>6. CASE GetDecoded
  BY <1>6, GetHeld DEF GetDecoded
<1>7. CASE Decode
  <2>1. CASE held' = Drop({mjpeg}) /\ pc'["preview"] = "draw"
    BY <1>7, <2>1, DropHeld DEF Decode
  <2>2. CASE held' = Drop({mjpeg, frame}) /\ pc'["preview"] = "loop"
    BY <1>7, <2>2, DropHeld DEF Decode
  <2> QED
    BY <1>7, <2>1, <2>2 DEF Decode
<1>8. CASE DrawConvert
  BY <1>8, GetHeld DEF DrawConvert
<1>9. CASE DrawRotate
  BY <1>9, GetHeld DEF DrawRotate
<1>10. CASE DrawDone
  BY <1>10, DropHeld DEF DrawDone
<1>11. CASE AddCaptureFrame
  BY <1>11, DropHeld DEF AddCaptureFrame
<1>12. CASE PreviewExit
  BY <1>12 DEF PreviewExit
<1>13. CASE StopStreaming
  BY <1>13 DEF StopStreaming
<1> QED
  BY <1>1, <1>2, <1>3, <1>4, <1>5, <1>6, <1>7, <1>8, <1>9, <1>10, <1>11, <1>12,
     <1>13 DEF PreviewStep

LEMMA CaptureStepHands ==
  ASSUME TypeOK, NEW c \in CaptureThreads, CaptureHands(c), CaptureStep(c)
  PROVE  CaptureHands(c)' /\ HeldOutside(CaptureSlots(c))
<1> USE ThreadsAre, SlotsAre, SlotsDiffer
    DEF Goto, poolVars, frameVars, queueVars, CaptureHands, CaptureSlots, HeldOutside
<1> /\ pc \in [Threads -> Labels] /\ cbFrame(c) # surfaceFrame(c)
    /\ {capFrame(c)} \in SUBSET Slots /\ {surfaceFrame(c)} \in SUBSET Slots
    /\ {capFrame(c), cbFrame(c)} \in SUBSET Slots
  BY DEF TypeOK, cbFrame, surfaceFrame
<1>1. CASE CaptureStart(c)
  BY <1>1 DEF CaptureStart
<1>2. CASE CaptureLoop(c)
  BY <1>2 DEF CaptureLoop
<1>3. CASE TestCapturing(c)
  BY <1>3 DEF TestCapturing
<1>4. CASE WaitCaptureFrame(c)
  <2>1. CASE UNCHANGED held /\ pc'[c] \in {"waiting", "test"}
    BY <1>4, <2>1 DEF WaitCaptureFrame
  <2>2. CASE /\ held' = [held EXCEPT ![capFrame(c)] = captureQueu]
             /\ pc'[c] \in {"surface", "callback"}
    <3>1. HeldOutside({capFrame(c)})
      BY <2>2, SetHeld
    <3>2. pc[c] \in {"wait", "waiting"}
      BY <1>4 DEF WaitCaptureFrame
    <3> QED
      BY <2>2, <3>1, <3>2
  <2> QED
    BY <1>4, <2>1, <2>2 DEF WaitCaptureFrame, TakeCaptureFrame
<1>5. CASE CaptureToSurface(c)
  <2>1. CASE held' = Drop({capFrame(c)}) /\ pc'[c] = "test"
    BY <1>5, <2>1, DropHeld DEF CaptureToSurface
  <2>2. CASE HeldOutside({surfaceFrame(c)}) /\ pc'[c] = "callback"
    BY <1>5, <2>2 DEF CaptureToSurface
  <2> QED
    BY <1>5, <2>1, <2>2, GetHeld DEF CaptureToSurface
<1>6. CASE BeginCallback(c)
  <2>1. CASE held' = Drop({capFrame(c)}) /\ pc'[c] = "test"
    BY <1>6, <2>1, DropHeld DEF BeginCallback
  <2>2. CASE HeldOutside({cbFrame(c)}) /\ pc'[c] \in {"convert", "call", "recycle"}
    BY <1>6, <2>2 DEF BeginCallback
  <2> QED
    BY <1>6, <2>1, <2>2, GetHeld DEF BeginCallback
<1>7. CASE ConvertFrame(c)
  BY <1>7, DropHeld DEF ConvertFrame
<1>8. CASE TestMethod(c)
  BY <1>8 DEF TestMethod
<1>9. CASE CallOnFrame(c)
  BY <1>9 DEF CallOnFrame
<1>10. CASE EndCallback(c)
  BY <1>10, DropHeld DEF EndCallback
<1>11. CASE EndSurface(c)
  BY <1>11, DropHeld DEF EndSurface
<1>12. CASE ReleaseCaptureWindow(c)
  BY <1>12 DEF ReleaseCaptureWindow
<1>13. CASE ClearCaptureWindow(c)
  BY <1>13 DEF ClearCaptureWindow
<1>14. CASE CaptureLeave(c)
  BY <1>14 DEF CaptureLeave
<1> QED
  BY <1>1, <1>2, <1>3, <1>4, <1>5, <1>6, <1>7, <1>8, <1>9, <1>10, <1>11, <1>12,
     <1>13, <1>14 DEF CaptureStep

LEMMA EmptyHandsStep ==
  ASSUME HandsInv, [Next]_vars
  PROVE  EmptyHands'
<1> TypeOK /\ StageInv /\ EmptyHands
  BY DEF HandsInv, TypeInv
<1>1. CASE AppCall \/ AppStep
  <2>1. /\ UNCHANGED held
        /\ pc'["stream"] = pc["stream"] /\ \A c \in CaptureThreads : pc'[c] = pc[c]
        /\ \/ pc'["preview"] = pc["preview"]
           \/ {pc["preview"], pc'["preview"]} \subseteq {"none", "prepare", "done"}
    BY <1>1, AppHands, AppStage, ThreadsAre
  <2>2. PreviewHands'
    BY <2>1, PreviewHandsKept DEF EmptyHands
  <2> QED
    BY <2>1, <2>2, CaptureHandsKept DEF EmptyHands
<1>2. CASE ReceiveImage \/ AddPreviewFrame
  <2>1. /\ HeldOutside({copy})
        /\ pc'["stream"] # "add" => held'[copy] = NULL
        /\ pc'["preview"] = pc["preview"] /\ \A c \in CaptureThreads : pc'[c] = pc[c]
    BY <1>2, StreamHands, StreamWays, ThreadsAre DEF EmptyHands
  <2>2. \A s \in PreviewSlots : held'[s] = held[s]
    BY <2>1, SlotsAre, SlotsDiffer DEF HeldOutside, PreviewSlots
  <2>3. \A c \in CaptureThreads : /\ held'[capFrame(c)] = held[capFrame(c)]
                                  /\ held'[cbFrame(c)] = held[cbFrame(c)]
    BY <2>1, SlotsAre, SlotsDiffer DEF HeldOutside
  <2>4. PreviewHands'
    BY <2>1, <2>2, PreviewHandsKept DEF EmptyHands
  <2> QED
    BY <2>1, <2>3, <2>4, CaptureHandsOutside DEF EmptyHands
<1>3. CASE PreviewStep
  <2>1. PreviewHands' /\ HeldOutside(PreviewSlots)
    BY <1>3, PreviewStepHands DEF EmptyHands
  <2>2. /\ held'[copy] = held[copy]
        /\ \A c \in CaptureThreads : /\ held'[capFrame(c)] = held[capFrame(c)]
                                     /\ held'[cbFrame(c)] = held[cbFrame(c)]
    BY <2>1, SlotsAre, SlotsDiffer DEF HeldOutside, PreviewSlots
  <2>3. /\ pc'["stream"] = pc["stream"]
        /\ \A c \in CaptureThreads :
             pc'[c] = pc[c] \/ (pc[c] = "none" /\ pc'[c] = "start")
    <3>1. CASE PreviewWay("preview")
      BY <3>1, ThreadsAre DEF PreviewWay
    <3>2. ASSUME NEW c \in CaptureThreads, CreateCaptureThread(c), PreviewWay(c)
          PROVE  <2>3
      BY <3>2, ThreadsAre DEF PreviewWay, CreateCaptureThread, Goto, TypeOK
    <3> QED
      BY <1>3, <3>1, <3>2, PreviewWays
  <2> QED
    BY <2>1, <2>2, <2>3, CaptureHandsOutside DEF EmptyHands
<1>4. ASSUME NEW c \in CaptureThreads, CaptureStep(c)
      PROVE  EmptyHands'
  <2>1. CaptureHands(c)' /\ HeldOutside(CaptureSlots(c))
    BY <1>4, CaptureStepHands DEF EmptyHands
  <2>2. /\ pc'["stream"] = pc["stream"] /\ pc'["preview"] = pc["preview"]
        /\ \A d \in CaptureThreads : d # c => pc'[d] = pc[d]
    BY <1>4, CaptureSameStage DEF SameStage
  <2>3. held'[copy] = held[copy] /\ \A s \in PreviewSlots : held'[s] = held[s]
    BY <2>1, SlotsAre, SlotsDiffer DEF HeldOutside, PreviewSlots, CaptureSlots
  <2>4. PreviewHands'
    BY <2>2, <2>3, PreviewHandsKept DEF EmptyHands
  <2>5. ASSUME NEW d \in CaptureThreads, d # c PROVE CaptureHands(d)'
    <3>1. capFrame(d) \notin CaptureSlots(c) /\ cbFrame(d) \notin CaptureSlots(c)
      BY <2>5 DEF CaptureSlots, capFrame, cbFrame, surfaceFrame
    <3>2. /\ held'[capFrame(d)] = held[capFrame(d)]
          /\ held'[cbFrame(d)] = held[cbFrame(d)]
      BY <2>1, <3>1, SlotsAre DEF HeldOutside
    <3> QED
      BY <2>2, <2>5, <3>2, CaptureHandsOutside DEF EmptyHands
  <2> QED
    BY <2>1, <2>2, <2>3, <2>4, <2>5 DEF EmptyHands
<1>5. CASE SpuriousWakeup \/ UNCHANGED vars
  BY <1>5 DEF SpuriousWakeup, vars, frameVars, poolVars, EmptyHands, PreviewHands,
              CaptureHands
<1> QED
  BY <1>1, <1>2, <1>3, <1>4, <1>5 DEF Next

\* No thread ever overwrites a frame it holds.
THEOREM HandsEmpty == Spec => []EmptyHands
<1>1. Init => EmptyHands
  BY SlotsAre DEF Init, EmptyHands, PreviewHands, CaptureHands
<1>2. TypeInv /\ StageInv /\ EmptyHands /\ [Next]_vars => EmptyHands'
  BY EmptyHandsStep DEF HandsInv
<1> QED
  BY <1>1, <1>2, TypeInvariant, Stages, PTL DEF Spec

-----------------------------------------------------------------------------
(* Leaks.                                                                  *)

\* The buffers F are freed, A allocated and D forgotten.
LEMMA LeakGrows ==
  ASSUME NEW F, NEW A, NEW D, heap' = (heap \cup A) \ F, A \subseteq Reachable',
         Reachable \ (F \cup D) \subseteq Reachable'
  PROVE  Leaked' \subseteq Leaked \cup D
BY DEF Leaked

LEMMA UnchangedLeak ==
  ASSUME UNCHANGED frameVars
  PROVE  Leaked' \subseteq Leaked
BY DEF Leaked, frameVars, queueVars, poolVars, Reachable, QueuedBuffers,
       CaptureBuffers, FramesOf

LEMMA GetLeak ==
  ASSUME TypeOK, NEW slot \in Slots, NEW img \in Nat, held[slot] = NULL,
         GetFrame(slot, img), UNCHANGED <<previewFrames, captureQueu>>
  PROVE  Leaked' \subseteq Leaked
<1>1. PICK b \in (IF mFramePool # {} THEN mFramePool ELSE Buffers \ heap) :
        /\ mFramePool' = mFramePool \ {b} /\ heap' = heap \cup {b}
        /\ held' = [held EXCEPT ![slot] = [buf |-> b, img |-> img]]
  BY DEF GetFrame
<1>2. UNCHANGED <<QueuedBuffers, CaptureBuffers>>
  BY DEF QueuedBuffers, CaptureBuffers
<1>3. [buf |-> b, img |-> img] # NULL
  BY <1>1, ConstantsAssumption DEF TypeOK
<1>4. held'[slot] = [buf |-> b, img |-> img]
      /\ \A s \in Slots : s # slot => held'[s] = held[s]
  BY <1>1 DEF TypeOK
<1>5. b \in FramesOf(Slots)'
  BY <1>3, <1>4 DEF FramesOf
<1>6. FramesOf(Slots) \subseteq FramesOf(Slots)'
  BY <1>4 DEF FramesOf
<1>7. {b} \subseteq Reachable' /\ Reachable \subseteq Reachable'
  BY <1>1, <1>2, <1>5, <1>6 DEF Reachable
<1> QED
  BY <1>1, <1>7 DEF Leaked

LEMMA RecycleLeak ==
  ASSUME TypeOK, NEW T \in SUBSET Slots, held' = Drop(T), Recycle(FramesOf(T)),
         UNCHANGED <<previewFrames, captureQueu>>
  PROVE  Leaked' \subseteq Leaked
<1>1. PICK kept \in SUBSET FramesOf(T) :
        mFramePool' = mFramePool \cup kept /\ heap' = heap \ (FramesOf(T) \ kept)
  BY DEF Recycle
<1>2. UNCHANGED <<QueuedBuffers, CaptureBuffers>>
  BY DEF QueuedBuffers, CaptureBuffers
<1>3. FramesOf(Slots) \ FramesOf(T) \subseteq FramesOf(Slots)'
  <2>1. FramesOf(Slots) \ FramesOf(T) \subseteq FramesOf(Slots \ T)
    BY DEF FramesOf
  <2> QED
    BY <2>1, DropSlots
<1>4. Reachable \ (FramesOf(T) \ kept) \subseteq Reachable'
  BY <1>1, <1>2, <1>3 DEF Reachable
<1> QED
  BY <1>1, <1>4 DEF Leaked

LEMMA DropLeak ==
  ASSUME TypeOK, NEW T \in SUBSET Slots, held' = Drop(T),
         UNCHANGED <<previewFrames, captureQueu, mFramePool, heap>>
  PROVE  Leaked' \subseteq Leaked \cup FramesOf(T)
<1>1. UNCHANGED <<QueuedBuffers, CaptureBuffers>>
  BY DEF QueuedBuffers, CaptureBuffers
<1>2. FramesOf(Slots) \ FramesOf(T) \subseteq FramesOf(Slots)'
  <2>1. FramesOf(Slots) \ FramesOf(T) \subseteq FramesOf(Slots \ T)
    BY DEF FramesOf
  <2> QED
    BY <2>1, DropSlots
<1> QED
  BY <1>1, <1>2 DEF Leaked, Reachable

LEMMA ClearLeak ==
  ASSUME UNCHANGED held, NEW S, Recycle(S),
         \/ S = QueuedBuffers /\ previewFrames' = <<>> /\ UNCHANGED captureQueu
         \/ S = CaptureBuffers /\ captureQueu' = NULL /\ UNCHANGED previewFrames
  PROVE  Leaked' \subseteq Leaked
<1>1. PICK kept \in SUBSET S :
        mFramePool' = mFramePool \cup kept /\ heap' = heap \ (S \ kept)
  BY DEF Recycle
<1>2. FramesOf(Slots)' = FramesOf(Slots)
  BY DEF FramesOf
<1>3. QueuedBuffers \ S \subseteq QueuedBuffers'
      /\ CaptureBuffers \ S \subseteq CaptureBuffers'
  <2>1. UNCHANGED captureQueu => CaptureBuffers' = CaptureBuffers
    BY DEF CaptureBuffers
  <2>2. UNCHANGED previewFrames => QueuedBuffers' = QueuedBuffers
    BY DEF QueuedBuffers
  <2> QED BY <2>1, <2>2
<1>4. Reachable \ (S \ kept) \subseteq Reachable'
  BY <1>1, <1>2, <1>3 DEF Reachable
<1> QED
  BY <1>1, <1>4 DEF Leaked

LEMMA PutLeak ==
  ASSUME TypeOK, held[copy] # NULL, held' = Drop({copy}),
         previewFrames' = Append(previewFrames, held[copy]),
         UNCHANGED <<captureQueu, mFramePool, heap>>
  PROVE  Leaked' \subseteq Leaked
<1> DEFINE n == Len(previewFrames)
<1>1. /\ n \in Nat /\ DOMAIN previewFrames = 1..n
      /\ DOMAIN previewFrames' = 1..(n + 1)
      /\ previewFrames'[n + 1] = held[copy]
      /\ \A i \in 1..n : previewFrames'[i] = previewFrames[i]
  BY DEF TypeOK
<1>2. n + 1 \in 1..(n + 1) /\ 1..n \subseteq 1..(n + 1)
  BY <1>1
<1> HIDE DEF n
<1>3. QueuedBuffers \cup {held[copy].buf} \subseteq QueuedBuffers'
  BY <1>1, <1>2 DEF QueuedBuffers
<1>4. CaptureBuffers' = CaptureBuffers
  BY DEF CaptureBuffers
<1>5. FramesOf(Slots) \ {held[copy].buf} \subseteq FramesOf(Slots)'
  BY DEF FramesOf, Drop
<1> QED
  BY <1>3, <1>4, <1>5 DEF Leaked, Reachable

LEMMA TakeLeak ==
  ASSUME TypeOK, NEW slot \in Slots, NEW f \in Frame, held[slot] = NULL,
         held' = [held EXCEPT ![slot] = f], UNCHANGED <<mFramePool, heap>>,
         QueuedBuffers \ {f.buf} \subseteq QueuedBuffers',
         CaptureBuffers \ {f.buf} \subseteq CaptureBuffers'
  PROVE  Leaked' \subseteq Leaked
<1>1. held'[slot] = f /\ f # NULL /\ \A s \in Slots : s # slot => held'[s] = held[s]
  BY FrameNotNull DEF TypeOK
<1>2. FramesOf(Slots) \cup {f.buf} \subseteq FramesOf(Slots)'
  BY <1>1 DEF FramesOf
<1> QED
  BY <1>2 DEF Leaked, Reachable

LEMMA TailKeeps ==
  ASSUME TypeOK, previewFrames # <<>>, previewFrames' = Tail(previewFrames)
  PROVE  QueuedBuffers \ {Head(previewFrames).buf} \subseteq QueuedBuffers'
<1> DEFINE n == Len(previewFrames)
<1>1. /\ n \in Nat \ {0} /\ DOMAIN previewFrames = 1..n
      /\ Head(previewFrames) = previewFrames[1]
      /\ DOMAIN previewFrames' = 1..(n - 1)
      /\ \A i \in 1..(n - 1) : previewFrames'[i] = previewFrames[i + 1]
  BY DEF TypeOK
<1> HIDE DEF n
<1>2. ASSUME NEW i \in 1..n, i # 1
      PROVE  previewFrames[i].buf \in QueuedBuffers'
  <2>1. i - 1 \in 1..(n - 1) /\ previewFrames'[i - 1] = previewFrames[i]
    BY <1>1, <1>2
  <2> QED
    BY <1>1, <2>1 DEF QueuedBuffers
<1> QED
  BY <1>1, <1>2 DEF QueuedBuffers

LEMMA KeepLatestLeak ==
  ASSUME TypeOK, held[frame] # NULL, held' = Drop({frame}),
         Recycle(CaptureBuffers), captureQueu' = held[frame], UNCHANGED previewFrames
  PROVE  Leaked' \subseteq Leaked
<1>1. PICK kept \in SUBSET CaptureBuffers :
        mFramePool' = mFramePool \cup kept /\ heap' = heap \ (CaptureBuffers \ kept)
  BY DEF Recycle
<1>2. CaptureBuffers' = {held[frame].buf} /\ QueuedBuffers' = QueuedBuffers
  BY DEF CaptureBuffers, QueuedBuffers
<1>3. FramesOf(Slots) \ {held[frame].buf} \subseteq FramesOf(Slots)'
  BY DEF FramesOf, Drop
<1>4. Reachable \ (CaptureBuffers \ kept) \subseteq Reachable'
  BY <1>1, <1>2, <1>3 DEF Reachable
<1> QED
  BY <1>1, <1>4 DEF Leaked

-----------------------------------------------------------------------------
(* Who can lose a frame.                                                   *)

\* The threads with a frame that they drop when they see mIsRunning cleared.
LosingLabels(t) ==
  IF t = "preview"
  THEN {"got", "decode", "decoded", "draw", "rotate", "drawn", "add"}
  ELSE {"surface", "callback"}

MayLose == {t \in {"preview"} \cup CaptureThreads : pc[t] \in LosingLabels(t)}

\* Thread t loses its frame.
Loses(t) ==
  /\ ~mIsRunning /\ t \in MayLose /\ pc'[t] \notin LosingLabels(t)
  /\ \E b \in Buffers : Leaked' \subseteq Leaked \cup {b}

\* No other thread comes to hold one while the preview is stopped.
Held(t) ==
  ~mIsRunning /\ pc'[t] \in LosingLabels(t) => pc[t] \in LosingLabels(t)

LEMMA OneFrame ==
  ASSUME TypeOK, NEW s \in Slots, NEW t \in Slots, held[t] = NULL,
         held[s] # NULL
  PROVE  FramesOf({s, t}) = {held[s].buf} /\ held[s].buf \in Buffers
<1>1. held[s] \in Frame
  BY DEF TypeOK
<1> QED
  BY <1>1 DEF FramesOf, Frame

LEMMA AppLeak ==
  ASSUME TypeOK, AppCall \/ AppStep
  PROVE  Leaked' \subseteq Leaked
<1> USE DEF frameVars, queueVars, poolVars
<1>1. CASE ClearPreviewFrame
  BY <1>1, ClearLeak DEF ClearPreviewFrame
<1>2. CASE ClearCaptureFrame
  BY <1>2, ClearLeak DEF ClearCaptureFrame
<1>3. CASE AppCall
  BY <1>3, UnchangedLeak DEF AppCall, SurfaceCall, StartPreview, StopPreview,
     SetPreviewDisplay, SetFrameCallback, SetCaptureDisplay
<1>4. CASE AppStep /\ ~ClearPreviewFrame /\ ~ClearCaptureFrame
  BY <1>4, UnchangedLeak DEF AppStep, CreatePreviewThread, SignalThreads, JoinCapture,
     JoinPreview, ReleaseWindows, ReplaceCaptureWindow, SignalCaptureAndWait,
     ReplaceCallback
<1> QED
  BY <1>1, <1>2, <1>3, <1>4

LEMMA StreamLeak ==
  ASSUME HandsInv, ReceiveImage \/ AddPreviewFrame
  PROVE  Leaked' \subseteq Leaked
<1> USE DEF queueVars, poolVars, frameVars
<1> TypeOK /\ HandsFollowPc /\ EmptyHands /\ copy \in Slots /\ {copy} \in SUBSET Slots
  BY SlotsAre DEF HandsInv, TypeInv
<1>1. CASE ReceiveImage
  <2>1. images + 1 \in Nat /\ held[copy] = NULL
    BY <1>1 DEF ReceiveImage, EmptyHands, TypeOK
  <2> QED
    BY <1>1, <2>1, GetLeak, UnchangedLeak DEF ReceiveImage
<1>2. CASE AddPreviewFrame
  <2>1. held[copy] # NULL
    BY <1>2 DEF AddPreviewFrame, HandsFollowPc
  <2> QED
    BY <1>2, <2>1, RecycleLeak, PutLeak DEF AddPreviewFrame
<1> QED
  BY <1>1, <1>2

LEMMA PreviewLeak ==
  ASSUME HandsInv, PreviewStep
  PROVE  Held("preview") /\ (Leaked' \subseteq Leaked \/ Loses("preview"))
<1> USE ThreadsAre, SlotsAre DEF Goto, queueVars, poolVars, frameVars, Held, LosingLabels
<1> /\ TypeOK /\ HandsFollowPc /\ PreviewHands /\ pc \in [Threads -> Labels]
    /\ {mjpeg} \in SUBSET Slots /\ {frame} \in SUBSET Slots
    /\ {mjpeg, frame} \in SUBSET Slots /\ {converted, rotated} \in SUBSET Slots
  BY DEF HandsInv, TypeInv, EmptyHands, TypeOK
<1>1. CASE StartStreaming
  BY <1>1, UnchangedLeak DEF StartStreaming
<1>2. ASSUME NEW c \in CaptureThreads, CreateCaptureThread(c)
      PROVE  Held("preview") /\ Leaked' \subseteq Leaked
  <2>1. Held("preview")
    BY <1>2 DEF CreateCaptureThread
  <2> QED
    BY <1>2, <2>1, ClearLeak DEF CreateCaptureThread
<1>3. CASE PreviewLoop
  BY <1>3, UnchangedLeak DEF PreviewLoop
<1>4. CASE WaitPreviewFrame
  <2>1. CASE UNCHANGED <<held, previewFrames>> /\ pc'["preview"] \in {"waiting", "loop"}
    BY <1>4, <2>1, UnchangedLeak DEF WaitPreviewFrame
  <2>2. CASE /\ mIsRunning /\ previewFrames # <<>>
             /\ held' = [held EXCEPT ![IF Mjpeg THEN mjpeg ELSE frame] =
                                       Head(previewFrames)]
             /\ previewFrames' = Tail(previewFrames)
    <3> DEFINE slot == IF Mjpeg THEN mjpeg ELSE frame
    <3>1. slot \in Slots /\ held[slot] = NULL
      BY <1>4 DEF WaitPreviewFrame, PreviewHands
    <3>2. UNCHANGED <<captureQueu, mFramePool, heap>>
      BY <1>4 DEF WaitPreviewFrame
    <3>3. Head(previewFrames) \in Frame
      BY <2>2 DEF TypeOK
    <3>4. /\ QueuedBuffers \ {Head(previewFrames).buf} \subseteq QueuedBuffers'
          /\ CaptureBuffers' = CaptureBuffers
      BY <2>2, <3>2, TailKeeps DEF CaptureBuffers
    <3> HIDE DEF slot
    <3>5. held' = [held EXCEPT ![slot] = Head(previewFrames)]
      BY <2>2 DEF slot
    <3>6. Leaked' \subseteq Leaked
      BY <3>1, <3>2, <3>3, <3>4, <3>5, TakeLeak
    <3> QED
      BY <2>2, <3>6
  <2> QED
    BY <1>4, <2>1, <2>2 DEF WaitPreviewFrame, RemovePreviewFrame
<1>5. CASE TestRunning
  <2>1. CASE mIsRunning
    BY <1>5, <2>1, UnchangedLeak DEF TestRunning
  <2>2. CASE ~mIsRunning
    <3>1. Leaked' \subseteq Leaked \cup FramesOf({mjpeg, frame})
      BY <1>5, <2>2, DropLeak DEF TestRunning
    <3>2. PICK b \in Buffers : FramesOf({mjpeg, frame}) = {b}
      <4>1. CASE Mjpeg
        <5>1. held[mjpeg] # NULL /\ held[frame] = NULL
          BY <1>5, <4>1 DEF TestRunning, HandsFollowPc, PreviewHands
        <5> QED
          BY <5>1, OneFrame
      <4>2. CASE ~Mjpeg
        <5>1. held[frame] # NULL /\ held[mjpeg] = NULL
          BY <1>5, <4>2 DEF TestRunning, HandsFollowPc, PreviewHands
        <5>2. {mjpeg, frame} = {frame, mjpeg}
          OBVIOUS
        <5> QED
          BY <5>1, <5>2, OneFrame
      <4> QED
        BY <4>1, <4>2
    <3>3. pc["preview"] = "got" /\ pc'["preview"] = "loop"
      BY <1>5, <2>2 DEF TestRunning
    <3> QED
      BY <2>2, <3>1, <3>2, <3>3 DEF Loses, MayLose
  <2> QED
    BY <2>1, <2>2
<1>6. CASE GetDecoded
  <2>1. held[frame] = NULL /\ held[mjpeg].img \in Nat
    BY <1>6 DEF GetDecoded, HandsFollowPc, PreviewHands, TypeOK, Frame
  <2> QED
    BY <1>6, <2>1, GetLeak DEF GetDecoded
<1>7. CASE Decode
  BY <1>7, RecycleLeak DEF Decode
<1>8. CASE DrawConvert
  <2>1. held[converted] = NULL /\ held[frame].img \in Nat
    BY <1>8 DEF DrawConvert, HandsFollowPc, PreviewHands, TypeOK, Frame
  <2> QED
    BY <1>8, <2>1, GetLeak, UnchangedLeak DEF DrawConvert
<1>9. CASE DrawRotate
  <2>1. held[rotated] = NULL /\ held[frame].img \in Nat
    BY <1>9 DEF DrawRotate, HandsFollowPc, PreviewHands, TypeOK, Frame
  <2> QED
    BY <1>9, <2>1, GetLeak, UnchangedLeak DEF DrawRotate
<1>10. CASE DrawDone
  BY <1>10, RecycleLeak DEF DrawDone
<1>11. CASE AddCaptureFrame
  <2>1. held[frame] # NULL /\ held[frame] \in Frame
    BY <1>11 DEF AddCaptureFrame, HandsFollowPc, TypeOK
  <2>2. CASE mIsRunning
    BY <1>11, <2>1, <2>2, KeepLatestLeak DEF AddCaptureFrame, KeepLatest
  <2>3. CASE ~mIsRunning
    <3>1. Leaked' \subseteq Leaked \cup FramesOf({frame})
      BY <1>11, <2>3, DropLeak DEF AddCaptureFrame
    <3>2. FramesOf({frame}) = {held[frame].buf} /\ held[frame].buf \in Buffers
      BY <2>1 DEF FramesOf, Frame
    <3>3. pc["preview"] = "add" /\ pc'["preview"] = "loop"
      BY <1>11 DEF AddCaptureFrame
    <3> QED
      BY <2>3, <3>1, <3>2, <3>3 DEF Loses, MayLose
  <2> QED
    BY <2>2, <2>3
<1>12. CASE PreviewExit
  BY <1>12, UnchangedLeak DEF PreviewExit
<1>13. CASE StopStreaming
  BY <1>13, UnchangedLeak DEF StopStreaming
<1> QED
  BY <1>1, <1>2, <1>3, <1>4, <1>5, <1>6, <1>7, <1>8, <1>9, <1>10, <1>11, <1>12,
     <1>13 DEF PreviewStep

LEMMA CaptureLeak ==
  ASSUME HandsInv, NEW c \in CaptureThreads, CaptureStep(c)
  PROVE  Held(c) /\ (Leaked' \subseteq Leaked \/ Loses(c))
<1> USE ThreadsAre, SlotsAre DEF Goto, queueVars, poolVars, frameVars
<1> /\ TypeOK /\ HandsFollowPc /\ CaptureHands(c) /\ pc \in [Threads -> Labels]
    /\ {capFrame(c)} \in SUBSET Slots /\ {surfaceFrame(c)} \in SUBSET Slots
    /\ {capFrame(c), cbFrame(c)} \in SUBSET Slots
  BY DEF HandsInv, TypeInv, EmptyHands, TypeOK
<1>0. LosingLabels(c) = {"surface", "callback"}
  BY DEF LosingLabels
<1> SUFFICES Leaked' \subseteq Leaked \/ Loses(c)
  <2>1. ~mIsRunning /\ pc'[c] \in {"surface", "callback"}
          => pc[c] \in {"surface", "callback"}
    BY DEF CaptureStep, CaptureStart, CaptureLoop, TestCapturing, WaitCaptureFrame,
       TakeCaptureFrame, BeginCallback, ConvertFrame, TestMethod, CallOnFrame,
       EndCallback, CaptureToSurface, EndSurface, ReleaseCaptureWindow,
       ClearCaptureWindow, CaptureLeave
  <2> QED
    BY <1>0, <2>1 DEF Held
<1>00. ASSUME ~mIsRunning, held' = Drop({capFrame(c)}), pc'[c] = "test",
             pc[c] \in {"surface", "callback"},
             UNCHANGED <<previewFrames, captureQueu, mFramePool, heap>>
      PROVE  Loses(c)
  <2>1. Leaked' \subseteq Leaked \cup FramesOf({capFrame(c)})
    BY <1>00, DropLeak
  <2>2. held[capFrame(c)] # NULL /\ held[capFrame(c)] \in Frame
    BY <1>00 DEF HandsFollowPc, TypeOK
  <2>3. FramesOf({capFrame(c)}) = {held[capFrame(c)].buf}
        /\ held[capFrame(c)].buf \in Buffers
    BY <2>2 DEF FramesOf, Frame
  <2> QED
    BY <1>0, <1>00, <2>1, <2>3 DEF Loses, MayLose
<1>1. CASE CaptureStart(c)
  BY <1>1, ClearLeak DEF CaptureStart
<1>2. CASE CaptureLoop(c)
  BY <1>2, UnchangedLeak DEF CaptureLoop
<1>3. CASE TestCapturing(c)
  BY <1>3, UnchangedLeak DEF TestCapturing
<1>4. CASE WaitCaptureFrame(c)
  <2>1. CASE UNCHANGED <<held, captureQueu>>
    BY <1>4, <2>1, UnchangedLeak DEF WaitCaptureFrame
  <2>2. CASE /\ captureQueu # NULL /\ captureQueu' = NULL
             /\ held' = [held EXCEPT ![capFrame(c)] = captureQueu]
    <3>1. UNCHANGED <<previewFrames, mFramePool, heap>> /\ held[capFrame(c)] = NULL
      BY <1>4 DEF WaitCaptureFrame, CaptureHands
    <3>2. captureQueu \in Frame /\ CaptureBuffers = {captureQueu.buf}
      BY <2>2 DEF CaptureBuffers, TypeOK
    <3>3. QueuedBuffers' = QueuedBuffers
      BY <3>1 DEF QueuedBuffers
    <3> QED
      BY <2>2, <3>1, <3>2, <3>3, TakeLeak
  <2> QED
    BY <1>4, <2>1, <2>2 DEF WaitCaptureFrame, TakeCaptureFrame
<1>5. CASE CaptureToSurface(c)
  <2>1. held[capFrame(c)].img \in Nat
    BY <1>5 DEF CaptureToSurface, HandsFollowPc, TypeOK, Frame
  <2> QED
    BY <1>5, <1>00, <2>1, GetLeak, UnchangedLeak DEF CaptureToSurface
<1>6. CASE BeginCallback(c)
  <2>1. held[capFrame(c)].img \in Nat /\ held[cbFrame(c)] = NULL
    BY <1>6 DEF BeginCallback, HandsFollowPc, CaptureHands, TypeOK, Frame
  <2> QED
    BY <1>6, <1>00, <2>1, GetLeak, UnchangedLeak DEF BeginCallback
<1>7. CASE ConvertFrame(c)
  BY <1>7, RecycleLeak DEF ConvertFrame
<1>8. CASE TestMethod(c)
  BY <1>8, UnchangedLeak DEF TestMethod
<1>9. CASE CallOnFrame(c)
  BY <1>9, UnchangedLeak DEF CallOnFrame
<1>10. CASE EndCallback(c)
  BY <1>10, RecycleLeak DEF EndCallback
<1>11. CASE EndSurface(c)
  BY <1>11, RecycleLeak DEF EndSurface
<1>12. CASE ReleaseCaptureWindow(c)
  BY <1>12, UnchangedLeak DEF ReleaseCaptureWindow
<1>13. CASE ClearCaptureWindow(c)
  BY <1>13, UnchangedLeak DEF ClearCaptureWindow
<1>14. CASE CaptureLeave(c)
  BY <1>14, UnchangedLeak DEF CaptureLeave
<1> QED
  BY <1>1, <1>2, <1>3, <1>4, <1>5, <1>6, <1>7, <1>8, <1>9, <1>10, <1>11, <1>12,
     <1>13, <1>14 DEF CaptureStep

\* Every step: it loses nothing, or one thread loses the frame in its hands.
LEMMA LeakStep ==
  ASSUME HandsInv, [Next]_vars
  PROVE  Leaked' \subseteq Leaked \/ \E t \in {"preview"} \cup CaptureThreads : Loses(t)
<1> TypeOK
  BY DEF HandsInv, TypeInv
<1>1. CASE SpuriousWakeup \/ UNCHANGED vars
  BY <1>1, UnchangedLeak DEF SpuriousWakeup, vars
<1> QED
  BY <1>1, AppLeak, StreamLeak, PreviewLeak, CaptureLeak DEF Next

\* While the preview runs no step of any thread loses a frame, for any number of
\* buffers, sessions and capture threads.
THEOREM NoLeakWhileRunning == Spec => LeakOnlyWhenStopped
<1>1. HandsInv /\ [Next]_vars => [Leaked' \subseteq Leaked \/ ~mIsRunning]_vars
  BY LeakStep DEF Loses
<1>2. TypeInv /\ StageInv /\ EmptyHands => HandsInv
  BY DEF HandsInv
<1> QED
  BY <1>1, <1>2, TypeInvariant, Stages, HandsEmpty, PTL DEF Spec, LeakOnlyWhenStopped

-----------------------------------------------------------------------------
(* Sessions and capture threads.                                           *)

\* Each session creates at most one capture thread, after its pthread_create of
\* the preview thread.
Created == {c \in CaptureThreads : pc[c] # "none"}
Alive == {c \in CaptureThreads : pc[c] \notin {"none", "done"}}
Uncreated == pc["app"] = "create" \/ pc["preview"] \in {"prepare", "create"}

SessionInv ==
  /\ IsFiniteSet(Created) /\ Cardinality(Created) <= sessions
  /\ Uncreated => Cardinality(Created) < sessions
  /\ mIsRunning => sessions > 0

LEMMA AppSession ==
  ASSUME TypeOK, StageInv, AppCall \/ AppStep
  PROVE  \/ /\ UNCHANGED sessions /\ (Uncreated' => Uncreated)
            /\ mIsRunning' => mIsRunning
            /\ mIsRunning' \/ ~mIsRunning \/ Uncreated \/ pc'["app"] = "signal"
         \/ sessions' = sessions + 1 /\ ~mIsRunning /\ mIsRunning'
<1> USE ThreadsAre DEF Goto, Uncreated, counterVars, flagVars, threadVars, controlVars
<1> /\ pc \in [Threads -> Labels] /\ sessions \in Nat /\ mIsRunning \in BOOLEAN
  BY DEF TypeOK
<1>1. CASE StartPreview
  BY <1>1 DEF StartPreview
<1>2. CASE StopPreview
  BY <1>2 DEF StopPreview
<1>3. CASE SetPreviewDisplay
  BY <1>3 DEF SetPreviewDisplay
<1>4. CASE \E obj \in Callbacks \cup {NULL} : SetFrameCallback(obj)
  BY <1>4 DEF SetFrameCallback
<1>5. CASE \E w \in Surfaces \cup {NULL} : SetCaptureDisplay(w)
  BY <1>5 DEF SetCaptureDisplay
<1>6. CASE CreatePreviewThread
  BY <1>6 DEF CreatePreviewThread
<1>7. CASE SignalThreads
  BY <1>7 DEF SignalThreads
<1>8. CASE JoinCapture
  BY <1>8 DEF JoinCapture
<1>9. CASE JoinPreview
  BY <1>9 DEF JoinPreview
<1>10. CASE ClearPreviewFrame
  BY <1>10 DEF ClearPreviewFrame
<1>11. CASE ClearCaptureFrame
  BY <1>11 DEF ClearCaptureFrame
<1>12. CASE ReleaseWindows
  BY <1>12 DEF ReleaseWindows
<1>13. CASE SignalCaptureAndWait
  BY <1>13 DEF SignalCaptureAndWait
<1>14. CASE ReplaceCallback
  BY <1>14 DEF ReplaceCallback
<1>15. CASE ReplaceCaptureWindow
  BY <1>15 DEF ReplaceCaptureWindow
<1> QED
  BY <1>1, <1>2, <1>3, <1>4, <1>5, <1>6, <1>7, <1>8, <1>9, <1>10, <1>11, <1>12,
     <1>13, <1>14, <1>15 DEF AppCall, SurfaceCall, AppStep

\* What the other threads do to the session and to capture_thread.
LEMMA OtherSession ==
  ASSUME TypeOK, [Next]_vars, ~AppCall, ~AppStep
  PROVE  /\ UNCHANGED <<sessions, mIsRunning>>
         /\ \/ UNCHANGED capture_thread
            \/ \E c \in CaptureThreads : CreateCaptureThread(c)
<1> USE DEF counterVars, flagVars, appVars, handleVars, threadVars, controlVars
<1>1. CASE ReceiveImage \/ AddPreviewFrame \/ SpuriousWakeup
  BY <1>1 DEF ReceiveImage, AddPreviewFrame, SpuriousWakeup
<1>2. CASE PreviewStep
  BY <1>2 DEF PreviewStep, StartStreaming, CreateCaptureThread, PreviewLoop,
     WaitPreviewFrame, TestRunning, GetDecoded, Decode, DrawConvert, DrawRotate,
     DrawDone, AddCaptureFrame, PreviewExit, StopStreaming
<1>3. ASSUME NEW c \in CaptureThreads, CaptureStep(c)
      PROVE  UNCHANGED <<sessions, mIsRunning, capture_thread>>
  BY <1>3 DEF CaptureStep, CaptureStart, CaptureLoop, TestCapturing, WaitCaptureFrame,
     BeginCallback, ConvertFrame, TestMethod, CallOnFrame, EndCallback,
     CaptureToSurface, EndSurface, ReleaseCaptureWindow, ClearCaptureWindow,
     CaptureLeave
<1>4. CASE UNCHANGED vars
  BY <1>4 DEF vars
<1> QED
  BY <1>1, <1>2, <1>3, <1>4 DEF Next

\* The threads in onFrame, or on the way to it.
Callers == {c \in CaptureThreads : pc[c] \in {"convert", "call", "invoke"}}

LEMMA CaptureWays ==
  ASSUME TypeOK, NEW c \in CaptureThreads, CaptureStep(c)
  PROVE  /\ pc[c] \notin {"none", "done"} /\ pc'[c] # "none"
         /\ ~mIsRunning /\ c \in Callers' => c \in Callers
<1> USE ThreadsAre DEF Goto, Callers
<1> pc \in [Threads -> Labels]
  BY DEF TypeOK
<1>1. CASE CaptureStart(c)
  BY <1>1 DEF CaptureStart
<1>2. CASE CaptureLoop(c)
  BY <1>2 DEF CaptureLoop
<1>3. CASE TestCapturing(c)
  BY <1>3 DEF TestCapturing
<1>4. CASE WaitCaptureFrame(c)
  BY <1>4 DEF WaitCaptureFrame, TakeCaptureFrame
<1>5. CASE CaptureToSurface(c)
  BY <1>5 DEF CaptureToSurface
<1>6. CASE BeginCallback(c)
  BY <1>6 DEF BeginCallback
<1>7. CASE ConvertFrame(c)
  BY <1>7 DEF ConvertFrame
<1>8. CASE TestMethod(c)
  BY <1>8 DEF TestMethod
<1>9. CASE CallOnFrame(c)
  BY <1>9 DEF CallOnFrame
<1>10. CASE EndCallback(c)
  BY <1>10 DEF EndCallback
<1>11. CASE EndSurface(c)
  BY <1>11 DEF EndSurface
<1>12. CASE ReleaseCaptureWindow(c)
  BY <1>12 DEF ReleaseCaptureWindow
<1>13. CASE ClearCaptureWindow(c)
  BY <1>13 DEF ClearCaptureWindow
<1>14. CASE CaptureLeave(c)
  BY <1>14 DEF CaptureLeave
<1> QED
  BY <1>1, <1>2, <1>3, <1>4, <1>5, <1>6, <1>7, <1>8, <1>9, <1>10, <1>11, <1>12,
     <1>13, <1>14 DEF CaptureStep

\* A step that creates no capture thread.
NoneCreated ==
  /\ Created' = Created /\ Alive' \subseteq Alive
  /\ mIsRunning \/ Callers' \subseteq Callers

\* One that does.
OneCreated(c) ==
  /\ UNCHANGED <<sessions, mIsRunning>>
  /\ pc["preview"] = "create" /\ pc'["preview"] = "loop" /\ pc'["app"] = pc["app"]
  /\ Created' = Created \cup {c} /\ Alive' = Alive \cup {c} /\ Callers' = Callers
  /\ capture_thread' = c

LEMMA ThreadsKept ==
  ASSUME \A c \in CaptureThreads : pc'[c] = pc[c]
  PROVE  NoneCreated
BY DEF NoneCreated, Created, Alive, Callers

LEMMA CreatedMoves ==
  ASSUME TypeOK, StageInv, [Next]_vars
  PROVE  NoneCreated \/ \E c \in CaptureThreads : OneCreated(c)
<1>1. CASE AppCall \/ AppStep
  BY <1>1, AppStage, ThreadsAre, ThreadsKept
<1>2. CASE ReceiveImage \/ AddPreviewFrame
  BY <1>2, StreamWays, ThreadsAre, ThreadsKept
<1>3. CASE PreviewStep
  <2>1. CASE PreviewWay("preview")
    BY <2>1, ThreadsAre, ThreadsKept DEF PreviewWay
  <2>2. ASSUME NEW c \in CaptureThreads, CreateCaptureThread(c)
        PROVE  NoneCreated \/ OneCreated(c)
    <3>0. pc \in [Threads -> Labels]
      BY DEF TypeOK
    <3>1. CASE pc' = [pc EXCEPT !["preview"] = "loop", ![c] = "start"]
               /\ capture_thread' = c
      <4>1. /\ pc["preview"] = "create" /\ pc'["preview"] = "loop"
            /\ pc'["app"] = pc["app"] /\ pc[c] = "none" /\ pc'[c] = "start"
            /\ \A d \in CaptureThreads : d # c => pc'[d] = pc[d]
        BY <2>2, <3>0, <3>1, ThreadsAre DEF CreateCaptureThread
      <4>2. UNCHANGED <<sessions, mIsRunning>>
        BY <2>2 DEF CreateCaptureThread, flagVars, counterVars
      <4>3. Created' = Created \cup {c} /\ Alive' = Alive \cup {c} /\ Callers' = Callers
        BY <4>1 DEF Created, Alive, Callers
      <4> QED
        BY <3>1, <4>1, <4>2, <4>3 DEF OneCreated
    <3>2. CASE Goto("preview", "loop")
      BY <3>0, <3>2, ThreadsAre, ThreadsKept DEF Goto
    <3> QED
      BY <2>2, <3>1, <3>2 DEF CreateCaptureThread
  <2> QED
    BY <1>3, <2>1, <2>2, PreviewWays
<1>4. ASSUME NEW c \in CaptureThreads, CaptureStep(c)
      PROVE  NoneCreated
  <2>1. \A d \in CaptureThreads : d # c => pc'[d] = pc[d]
    BY <1>4, CaptureSameStage
  <2>2. /\ pc[c] \notin {"none", "done"} /\ pc'[c] # "none"
        /\ ~mIsRunning /\ c \in Callers' => c \in Callers
    BY <1>4, CaptureWays
  <2>3. Created' = Created /\ Alive' \subseteq Alive
    BY <2>1, <2>2 DEF Created, Alive
  <2>4. mIsRunning \/ Callers' \subseteq Callers
    BY <2>1, <2>2 DEF Callers
  <2> QED
    BY <2>3, <2>4 DEF NoneCreated
<1>5. CASE SpuriousWakeup \/ UNCHANGED vars
  BY <1>5, ThreadsKept DEF SpuriousWakeup, vars
<1> QED
  BY <1>1, <1>2, <1>3, <1>4, <1>5 DEF Next

\* The steps of the other threads, as far as a session sees them.
LEMMA OtherStages ==
  ASSUME TypeOK, StageInv, [Next]_vars, ~AppCall, ~AppStep
  PROVE  pc'["app"] = pc["app"] /\ (Uncreated' => Uncreated)
<1>1. CASE ReceiveImage \/ AddPreviewFrame
  BY <1>1, StreamWays, ThreadsAre DEF Uncreated
<1>2. CASE PreviewStep
  BY <1>2, PreviewWays, ThreadsAre DEF PreviewWay, Uncreated
<1>3. CASE \E c \in CaptureThreads : CaptureStep(c)
  BY <1>3, CaptureSameStage DEF SameStage, Uncreated
<1>4. CASE SpuriousWakeup \/ UNCHANGED vars
  BY <1>4 DEF SpuriousWakeup, vars, Uncreated
<1> QED
  BY <1>1, <1>2, <1>3, <1>4 DEF Next

LEMMA SessionStep ==
  ASSUME TypeOK, StageInv, SessionInv, [Next]_vars
  PROVE  SessionInv'
<1>0. sessions \in Nat /\ Cardinality(Created) \in Nat
  BY FS_CardinalityType DEF TypeOK, SessionInv
<1>1. CASE AppCall \/ AppStep
  <2>1. Created' = Created
    BY <1>1, AppStage, ThreadsAre DEF Created
  <2> QED
    BY <1>0, <1>1, <2>1, AppSession DEF SessionInv
<1>2. CASE ~AppCall /\ ~AppStep
  <2>1. /\ UNCHANGED <<sessions, mIsRunning>>
        /\ Uncreated' => Uncreated
    BY <1>2, OtherSession, OtherStages
  <2>2. CASE NoneCreated
    BY <2>1, <2>2 DEF SessionInv, NoneCreated
  <2>3. ASSUME NEW c \in CaptureThreads, OneCreated(c)
        PROVE  SessionInv'
    <3>1. Uncreated /\ ~Uncreated'
      BY <2>3 DEF OneCreated, Uncreated, StageInv
    <3>2. IsFiniteSet(Created') /\ Cardinality(Created') <= Cardinality(Created) + 1
      <4>1. Created' = Created \cup {c} /\ IsFiniteSet(Created)
        BY <2>3 DEF OneCreated, SessionInv
      <4> QED
        BY <1>0, <4>1, FS_AddElement
    <3>3. Cardinality(Created') \in Nat
      BY <3>2, FS_CardinalityType
    <3> QED
      BY <1>0, <2>1, <3>1, <3>2, <3>3 DEF SessionInv
  <2> QED
    BY <2>2, <2>3, CreatedMoves
<1> QED
  BY <1>1, <1>2

\* No more capture threads were ever made than sessions begun.
THEOREM OnePerSession == Spec => []SessionInv
<1>1. Init => SessionInv
  <2> SUFFICES ASSUME Init PROVE SessionInv
    OBVIOUS
  <2>1. Created = {} /\ ~Uncreated
    BY ThreadsAre DEF Init, Created, Uncreated, Threads
  <2>2. sessions = 0 /\ ~mIsRunning
    BY DEF Init
  <2> QED
    BY <2>1, <2>2, FS_EmptySet DEF SessionInv
<1>2. TypeInv /\ StageInv /\ SessionInv /\ [Next]_vars => SessionInv'
  BY SessionStep DEF TypeInv
<1> QED
  BY <1>1, <1>2, TypeInvariant, Stages, PTL DEF Spec

-----------------------------------------------------------------------------
(* Orphans: capture threads made after stopPreview joined capture_thread.  *)

Few(S) == S = {} \/ Cardinality(S) < sessions

\* From the join of the capture thread on, until the next session begins.
Joined == \/ pc["app"] \in {"joinPreview", "clearPreview", "clearCapture", "release"}
          \/ pc["app"] = "idle" /\ ~mIsRunning

OrphanInv ==
  /\ Few(Alive \ {capture_thread})
  /\ Joined => Few(Callers)

LEMMA FewSub ==
  ASSUME NEW S, NEW T, S \subseteq T, IsFiniteSet(T), Few(T),
         sessions \in Nat, sessions' \in Nat, sessions <= sessions'
  PROVE  S = {} \/ Cardinality(S) < sessions'
<1>1. /\ Cardinality(S) <= Cardinality(T)
      /\ Cardinality(S) \in Nat /\ Cardinality(T) \in Nat
  BY FS_Subset, FS_CardinalityType
<1>2. T = {} => S = {}
  OBVIOUS
<1> QED
  BY <1>1, <1>2 DEF Few

\* What the app thread does to capture_thread, and how it gets past the join.
LEMMA AppJoins ==
  ASSUME TypeOK, StageInv, AppCall \/ AppStep
  PROVE  \/ UNCHANGED capture_thread /\ (Joined' => Joined \/ Uncreated)
         \/ /\ UNCHANGED sessions
            /\ capture_thread # NULL => pc[capture_thread] = "done"
<1> USE ThreadsAre DEF Goto, Uncreated, Joined, counterVars, flagVars, handleVars,
        threadVars, controlVars
<1> pc \in [Threads -> Labels] /\ mIsRunning \in BOOLEAN
  BY DEF TypeOK
<1>1. CASE StartPreview
  BY <1>1 DEF StartPreview
<1>2. CASE StopPreview
  BY <1>2 DEF StopPreview
<1>3. CASE SetPreviewDisplay
  BY <1>3 DEF SetPreviewDisplay
<1>4. CASE \E obj \in Callbacks \cup {NULL} : SetFrameCallback(obj)
  BY <1>4 DEF SetFrameCallback
<1>5. CASE \E w \in Surfaces \cup {NULL} : SetCaptureDisplay(w)
  BY <1>5 DEF SetCaptureDisplay
<1>6. CASE CreatePreviewThread
  BY <1>6 DEF CreatePreviewThread
<1>7. CASE SignalThreads
  BY <1>7 DEF SignalThreads
<1>8. CASE JoinCapture
  BY <1>8 DEF JoinCapture
<1>9. CASE JoinPreview
  BY <1>9 DEF JoinPreview
<1>10. CASE ClearPreviewFrame
  BY <1>10 DEF ClearPreviewFrame
<1>11. CASE ClearCaptureFrame
  BY <1>11 DEF ClearCaptureFrame
<1>12. CASE ReleaseWindows
  BY <1>12 DEF ReleaseWindows
<1>13. CASE SignalCaptureAndWait
  BY <1>13 DEF SignalCaptureAndWait
<1>14. CASE ReplaceCallback
  BY <1>14 DEF ReplaceCallback, StageInv
<1>15. CASE ReplaceCaptureWindow
  BY <1>15 DEF ReplaceCaptureWindow, StageInv
<1> QED
  BY <1>1, <1>2, <1>3, <1>4, <1>5, <1>6, <1>7, <1>8, <1>9, <1>10, <1>11, <1>12,
     <1>13, <1>14, <1>15 DEF AppCall, SurfaceCall, AppStep

LEMMA AliveFew ==
  ASSUME TypeOK, SessionInv
  PROVE  /\ IsFiniteSet(Alive) /\ IsFiniteSet(Callers)
         /\ Callers \subseteq Alive
         /\ Uncreated => Cardinality(Alive) < sessions
<1>1. Alive \subseteq Created /\ Callers \subseteq Alive
  BY DEF Alive, Created, Callers
<1>2. /\ IsFiniteSet(Alive) /\ Cardinality(Alive) <= Cardinality(Created)
      /\ Cardinality(Alive) \in Nat /\ Cardinality(Created) \in Nat
  BY <1>1, FS_Subset, FS_CardinalityType DEF SessionInv
<1>3. IsFiniteSet(Callers) /\ sessions \in Nat
  BY <1>1, <1>2, FS_Subset DEF TypeOK
<1> QED
  BY <1>1, <1>2, <1>3 DEF SessionInv

LEMMA OrphanStep ==
  ASSUME TypeOK, TypeOK', StageInv, SessionInv, OrphanInv, [Next]_vars
  PROVE  OrphanInv'
<1>0. sessions \in Nat /\ sessions' \in Nat
  BY DEF TypeOK
<1>00. sessions <= sessions'
  <2>1. CASE AppCall \/ AppStep
    BY <1>0, <2>1, AppSession
  <2>2. CASE ~AppCall /\ ~AppStep
    BY <1>0, <2>2, OtherSession
  <2> QED
    BY <2>1, <2>2
<1>01. /\ IsFiniteSet(Alive) /\ IsFiniteSet(Callers) /\ Callers \subseteq Alive
       /\ Uncreated => Cardinality(Alive) < sessions
       /\ IsFiniteSet(Alive \ {capture_thread})
  BY AliveFew, FS_Subset
<1> DEFINE Goal(S) == S = {} \/ Cardinality(S) < sessions'
<1> SUFFICES Goal(Alive' \ {capture_thread'}) /\ (Joined' => Goal(Callers'))
  BY DEF OrphanInv, Few
<1> HIDE DEF Goal
<1>1. \A S, T : S \subseteq T /\ IsFiniteSet(T) /\ Few(T) => Goal(S)
  BY <1>0, <1>00, FewSub DEF Goal
<1>2. CASE AppCall \/ AppStep
  <2>1. Alive' = Alive /\ Callers' = Callers
    BY <1>2, AppStage, ThreadsAre DEF Alive, Callers
  <2>2. CASE UNCHANGED capture_thread /\ (Joined' => Joined \/ Uncreated)
    <3>1. Uncreated => Few(Alive)
      BY <1>01 DEF Few
    <3> QED
      BY <1>01, <1>1, <2>1, <2>2, <3>1 DEF OrphanInv
  <2>3. CASE capture_thread # NULL => pc[capture_thread] = "done"
    <3>1. Alive \ {capture_thread} = Alive
      BY <2>3, ConstantsAssumption DEF Alive
    <3> QED
      BY <1>01, <1>1, <2>1, <3>1 DEF OrphanInv
  <2> QED
    BY <1>2, <2>2, <2>3, AppJoins
<1>3. CASE ~AppCall /\ ~AppStep
  <2>1. /\ UNCHANGED <<sessions, mIsRunning>> /\ pc'["app"] = pc["app"]
        /\ \/ UNCHANGED capture_thread
           \/ \E c \in CaptureThreads : CreateCaptureThread(c)
    BY <1>3, OtherSession, OtherStages
  <2>2. Joined' => Joined /\ ~mIsRunning
    BY <2>1 DEF Joined, StageInv
  <2>3. CASE NoneCreated /\ UNCHANGED capture_thread
    <3>1. Alive' \ {capture_thread'} \subseteq Alive \ {capture_thread}
      BY <2>3 DEF NoneCreated
    <3>2. Joined' => Callers' \subseteq Callers
      BY <2>2, <2>3 DEF NoneCreated
    <3> QED
      BY <1>01, <1>1, <2>2, <3>1, <3>2 DEF OrphanInv
  <2>4. ASSUME NEW c \in CaptureThreads, OneCreated(c)
        PROVE  Goal(Alive' \ {capture_thread'}) /\ (Joined' => Goal(Callers'))
    <3>1. Uncreated /\ Few(Alive)
      BY <1>01, <2>4 DEF OneCreated, Uncreated, Few
    <3>2. Alive' \ {capture_thread'} \subseteq Alive /\ Callers' \subseteq Alive
      BY <1>01, <2>4 DEF OneCreated
    <3> QED
      BY <1>01, <1>1, <3>1, <3>2
  <2>5. CASE NoneCreated /\ \E c \in CaptureThreads : CreateCaptureThread(c)
    <3>1. Uncreated /\ Few(Alive)
      BY <1>01, <2>5 DEF CreateCaptureThread, Uncreated, Few
    <3>2. Alive' \ {capture_thread'} \subseteq Alive
      BY <2>5 DEF NoneCreated
    <3>3. Joined' => Callers' \subseteq Callers
      BY <2>2, <2>5 DEF NoneCreated
    <3> QED
      BY <1>01, <1>1, <2>2, <3>1, <3>2, <3>3 DEF OrphanInv
  <2> QED
    BY <2>1, <2>3, <2>4, <2>5, CreatedMoves
<1> QED
  BY <1>2, <1>3

\* After stopPreview the preview thread has ended, libuvc has stopped, and only a
\* thread an earlier session left unjoined can be in onFrame: none in the first
\* session, fewer than there were sessions in any.
THEOREM Quiesces == Spec => []StopQuiesces
<1>1. Init => OrphanInv
  <2> SUFFICES ASSUME Init PROVE OrphanInv
    OBVIOUS
  <2>1. Alive = {} /\ Callers = {}
    BY ThreadsAre DEF Init, Alive, Callers, Threads
  <2> QED
    BY <2>1 DEF OrphanInv, Few
<1>2. /\ TypeInv /\ TypeInv' /\ StageInv /\ SessionInv /\ OrphanInv /\ [Next]_vars
      => OrphanInv'
  BY OrphanStep DEF TypeInv
<1>3. TypeInv /\ StageInv /\ SessionInv /\ OrphanInv => StopQuiesces
  <2> SUFFICES ASSUME TypeInv, StageInv, SessionInv, OrphanInv,
                      pc["app"] = "idle", ~mIsRunning
               PROVE  /\ pc["preview"] = "none" /\ ~streaming /\ pc["stream"] = "idle"
                      /\ Calling = {} \/ Cardinality(Calling) < sessions
    BY DEF StopQuiesces
  <2>1. pc["preview"] = "none" /\ ~streaming /\ pc["stream"] = "idle"
    BY DEF StageInv
  <2>2. Few(Callers)
    BY DEF OrphanInv, Joined
  <2>3. TypeOK /\ Calling \subseteq Callers
    BY DEF TypeInv, Calling, Callers
  <2>4. IsFiniteSet(Callers) /\ sessions \in Nat
    BY <2>3, AliveFew DEF TypeOK
  <2>5. /\ Cardinality(Calling) <= Cardinality(Callers)
        /\ Cardinality(Calling) \in Nat /\ Cardinality(Callers) \in Nat
    BY <2>3, <2>4, FS_Subset, FS_CardinalityType
  <2>6. Callers = {} => Calling = {}
    BY <2>3
  <2> QED
    BY <2>1, <2>2, <2>4, <2>5, <2>6 DEF Few
<1> QED
  BY <1>1, <1>2, <1>3, TypeInvariant, Stages, OnePerSession, PTL DEF Spec

-----------------------------------------------------------------------------
(* How much a session loses.                                               *)

\* While stopped, what is lost and what still may be lost; while running,
\* what the earlier sessions lost.
LossInv ==
  IF mIsRunning
  THEN 2 * Cardinality(Leaked) <= (sessions - 1) * (sessions + 2)
  ELSE 2 * (Cardinality(Leaked) + Cardinality(MayLose)) <= sessions * (sessions + 3)

\* What a step can do to the frames that may be lost.
Kept == Leaked' \subseteq Leaked /\ MayLose' \subseteq MayLose
Lost == \E t \in MayLose, b \in Buffers :
          Leaked' \subseteq Leaked \cup {b} /\ MayLose' \subseteq MayLose \ {t}

LEMMA MayLoseApp ==
  ASSUME TypeOK, StageInv, AppCall \/ AppStep
  PROVE  MayLose' \subseteq MayLose
<1>1. /\ \A c \in CaptureThreads : pc'[c] = pc[c]
      /\ \/ pc'["preview"] = pc["preview"]
         \/ {pc["preview"], pc'["preview"]} \subseteq {"none", "prepare", "done"}
  BY AppHands, AppStage, ThreadsAre
<1> QED
  BY <1>1 DEF MayLose, LosingLabels

LEMMA MayLoseStep ==
  ASSUME HandsInv, [Next]_vars, ~mIsRunning
  PROVE  Kept \/ Lost
<1> TypeOK /\ StageInv
  BY DEF HandsInv, TypeInv
<1>1. CASE AppCall \/ AppStep
  BY <1>1, AppLeak, MayLoseApp DEF Kept
<1>2. CASE ReceiveImage \/ AddPreviewFrame
  <2>1. \A t \in {"preview"} \cup CaptureThreads : pc'[t] = pc[t]
    BY <1>2, StreamWays, ThreadsAre
  <2> QED
    BY <1>2, <2>1, StreamLeak DEF Kept, MayLose
<1>3. CASE PreviewStep
  <2>1. \A c \in CaptureThreads : pc'[c] \in LosingLabels(c) => pc[c] \in LosingLabels(c)
    <3>1. CASE PreviewWay("preview")
      BY <3>1, ThreadsAre DEF PreviewWay
    <3>2. ASSUME NEW c \in CaptureThreads, CreateCaptureThread(c), PreviewWay(c)
          PROVE  <2>1
      BY <3>2, ThreadsAre
      DEF PreviewWay, CreateCaptureThread, Goto, TypeOK, LosingLabels
    <3> QED
      BY <1>3, <3>1, <3>2, PreviewWays
  <2>2. Held("preview") /\ (Leaked' \subseteq Leaked \/ Loses("preview"))
    BY <1>3, PreviewLeak
  <2>3. MayLose' \subseteq MayLose
    BY <2>1, <2>2 DEF MayLose, Held
  <2>4. Loses("preview") => Lost
    BY <2>3 DEF Loses, Lost, MayLose
  <2> QED
    BY <2>2, <2>3, <2>4 DEF Kept
<1>4. ASSUME NEW c \in CaptureThreads, CaptureStep(c)
      PROVE  Kept \/ Lost
  <2>1. /\ pc'["preview"] = pc["preview"]
        /\ \A d \in CaptureThreads : d # c => pc'[d] = pc[d]
    BY <1>4, CaptureSameStage DEF SameStage
  <2>2. Held(c) /\ (Leaked' \subseteq Leaked \/ Loses(c))
    BY <1>4, CaptureLeak
  <2>3. MayLose' \subseteq MayLose
    BY <2>1, <2>2 DEF MayLose, Held
  <2>4. Loses(c) => Lost
    BY <2>3 DEF Loses, Lost, MayLose
  <2> QED
    BY <2>2, <2>3, <2>4 DEF Kept
<1>5. CASE SpuriousWakeup \/ UNCHANGED vars
  <2>1. Leaked' \subseteq Leaked
    BY <1>5, UnchangedLeak DEF SpuriousWakeup, vars
  <2> QED
    BY <1>5, <2>1 DEF SpuriousWakeup, vars, Kept, MayLose
<1> QED
  BY <1>1, <1>2, <1>3, <1>4, <1>5 DEF Next

LossSizes ==
  /\ IsFiniteSet(Leaked) /\ Cardinality(Leaked) \in Nat
  /\ IsFiniteSet(MayLose) /\ Cardinality(MayLose) \in Nat
  /\ sessions \in Nat /\ Cardinality(MayLose) <= sessions + 1

LEMMA LossFinite ==
  ASSUME TypeOK, SessionInv
  PROVE  LossSizes
<1>1. IsFiniteSet(Leaked)
  BY ConstantsAssumption, FS_Subset DEF TypeOK, Leaked
<1>2. MayLose \subseteq Created \cup {"preview"}
  BY ThreadsAre DEF MayLose, LosingLabels, Created
<1>3. /\ IsFiniteSet(Created) /\ Cardinality(Created) \in Nat
      /\ Cardinality(Created) <= sessions /\ sessions \in Nat
  BY FS_CardinalityType DEF SessionInv, TypeOK
<1>4. /\ IsFiniteSet(Created \cup {"preview"})
      /\ Cardinality(Created \cup {"preview"}) <= Cardinality(Created) + 1
  BY <1>3, FS_AddElement
<1>5. /\ IsFiniteSet(MayLose)
      /\ Cardinality(MayLose) <= Cardinality(Created \cup {"preview"})
  BY <1>2, <1>4, FS_Subset
<1>6. /\ Cardinality(MayLose) \in Nat /\ Cardinality(Leaked) \in Nat
      /\ Cardinality(Created \cup {"preview"}) \in Nat
  BY <1>1, <1>4, <1>5, FS_CardinalityType
<1> QED
  BY <1>1, <1>3, <1>4, <1>5, <1>6 DEF LossSizes

LEMMA NextSession ==
  ASSUME NEW s \in Nat
  PROVE  /\ ((s + 1) - 1) * ((s + 1) + 2) = s * (s + 3)
         /\ (s - 1) * (s + 2) + 2 * (s + 1) = s * (s + 3)
OBVIOUS

\* The sums that the steps below need.
LEMMA Doubled ==
  ASSUME NEW k \in Nat, NEW l \in Nat, NEW q \in Int, 2 * l <= q, k <= l
  PROVE  2 * k <= q
OBVIOUS

LEMMA DoubledSum ==
  ASSUME NEW k \in Nat, NEW n \in Nat, NEW l \in Nat, NEW s \in Nat,
         NEW p \in Int, NEW q \in Int, 2 * l <= p, p + 2 * (s + 1) = q,
         k <= l, n <= s + 1
  PROVE  2 * (k + n) <= q
OBVIOUS

LEMMA LossStep ==
  ASSUME HandsInv, LossSizes, LossSizes', LossInv, [Next]_vars
  PROVE  LossInv'
<1> DEFINE L == Cardinality(Leaked)
           M == Cardinality(MayLose)
           s == sessions
<1> TypeOK /\ StageInv
  BY DEF HandsInv, TypeInv
<1>0. /\ IsFiniteSet(Leaked) /\ L \in Nat /\ L' \in Nat
      /\ IsFiniteSet(MayLose) /\ M \in Nat /\ M' \in Nat
      /\ M' <= s' + 1 /\ s \in Nat /\ s' \in Nat /\ L + M \in Nat /\ L' + M' \in Nat
  BY DEF LossSizes
<1>1. Leaked' \subseteq Leaked => L' <= L
  BY <1>0, FS_Subset
<1>2. MayLose' \subseteq MayLose => M' <= M
  BY <1>0, FS_Subset
<1>3. mIsRunning => Leaked' \subseteq Leaked
  BY LeakStep DEF Loses
<1>4. CASE mIsRunning /\ ~mIsRunning'
  <2>1. s' = s
    <3>1. CASE AppCall \/ AppStep
      BY <1>4, <3>1, AppSession
    <3>2. CASE ~AppCall /\ ~AppStep
      BY <3>2, OtherSession
    <3> QED
      BY <3>1, <3>2
  <2>2. 2 * L <= (s - 1) * (s + 2) /\ L' <= L
    BY <1>1, <1>3, <1>4 DEF LossInv
  <2>3. (s - 1) * (s + 2) + 2 * (s + 1) = s * (s + 3)
    BY <1>0, NextSession
  <2>4. (s - 1) * (s + 2) \in Int /\ s * (s + 3) \in Int
    BY <1>0
  <2> DEFINE p == (s - 1) * (s + 2)
             q == s * (s + 3)
  <2>5. 2 * L <= p /\ p + 2 * (s + 1) = q /\ p \in Int /\ q \in Int
    BY <2>2, <2>3, <2>4
  <2> HIDE DEF p, q
  <2>6. 2 * (L' + M') <= q
    BY <1>0, <2>1, <2>2, <2>5, DoubledSum
  <2> QED
    BY <1>4, <2>1, <2>6 DEF LossInv, q
<1>5. CASE ~mIsRunning /\ mIsRunning'
  <2>1. AppCall \/ AppStep
    BY <1>5, OtherSession
  <2>2. s' = s + 1 /\ L' <= L
    BY <1>1, <1>5, <2>1, AppSession, AppLeak
  <2>3. 2 * (L + M) <= s * (s + 3)
    BY <1>5 DEF LossInv
  <2>4. (s' - 1) * (s' + 2) = s * (s + 3)
    BY <1>0, <2>2, NextSession
  <2>5. s * (s + 3) \in Int
    BY <1>0
  <2> DEFINE q == s * (s + 3)
  <2>6. q \in Int /\ 2 * (L + M) <= q
    BY <2>3, <2>5
  <2> HIDE DEF L, M, q
  <2>7. L' <= L + M
    BY <1>0, <2>2
  <2>8. 2 * L' <= q
    BY <1>0, <2>6, <2>7, Doubled
  <2> QED
    BY <1>5, <2>4, <2>8 DEF LossInv, q, L
<1>6. CASE mIsRunning /\ mIsRunning'
  <2>1. s' = s
    <3>1. CASE AppCall \/ AppStep
      BY <1>6, <3>1, AppSession
    <3>2. CASE ~AppCall /\ ~AppStep
      BY <3>2, OtherSession
    <3> QED
      BY <3>1, <3>2
  <2>2. 2 * L <= (s - 1) * (s + 2) /\ L' <= L
    BY <1>1, <1>3, <1>6 DEF LossInv
  <2>3. (s - 1) * (s + 2) \in Int
    BY <1>0
  <2> DEFINE p == (s - 1) * (s + 2)
  <2>4. 2 * L <= p /\ p \in Int
    BY <2>2, <2>3
  <2> HIDE DEF L, p
  <2>5. 2 * L' <= p
    BY <1>0, <2>2, <2>4, Doubled
  <2> QED
    BY <1>6, <2>1, <2>5 DEF LossInv, L, p
<1>7. CASE ~mIsRunning /\ ~mIsRunning'
  <2>1. s' = s
    <3>1. CASE AppCall \/ AppStep
      BY <1>7, <3>1, AppSession
    <3>2. CASE ~AppCall /\ ~AppStep
      BY <3>2, OtherSession
    <3> QED
      BY <3>1, <3>2
  <2>2. L' + M' <= L + M
    <3>1. CASE Kept
      BY <1>0, <1>1, <1>2, <3>1 DEF Kept
    <3>2. CASE Lost
      <4>1. PICK t \in MayLose, b \in Buffers :
              Leaked' \subseteq Leaked \cup {b} /\ MayLose' \subseteq MayLose \ {t}
        BY <3>2 DEF Lost
      <4>2. L' <= L + 1
        <5>1. /\ IsFiniteSet(Leaked \cup {b})
              /\ Cardinality(Leaked \cup {b}) \in {L, L + 1}
          BY <1>0, FS_AddElement
        <5>2. L' <= Cardinality(Leaked \cup {b})
              /\ Cardinality(Leaked \cup {b}) \in Nat
          BY <4>1, <5>1, FS_Subset, FS_CardinalityType
        <5> QED
          BY <1>0, <5>1, <5>2
      <4>3. M' <= M - 1
        <5>1. /\ IsFiniteSet(MayLose \ {t})
              /\ Cardinality(MayLose \ {t}) = M - 1
          BY <1>0, <4>1, FS_RemoveElement
        <5>2. M' <= Cardinality(MayLose \ {t})
          BY <4>1, <5>1, FS_Subset
        <5> QED
          BY <5>1, <5>2
      <4> QED
        BY <1>0, <4>2, <4>3
    <3> QED
      BY <1>7, <3>1, <3>2, MayLoseStep
  <2>3. 2 * (L + M) <= s * (s + 3) /\ s * (s + 3) \in Int
    BY <1>0, <1>7 DEF LossInv
  <2> DEFINE q == s * (s + 3)
  <2>4. 2 * (L + M) <= q /\ q \in Int
    BY <2>3
  <2> HIDE DEF L, M, q
  <2>5. 2 * (L' + M') <= q
    BY <1>0, <2>2, <2>4, Doubled
  <2> QED
    BY <1>7, <2>1, <2>5 DEF LossInv, L, M, q
<1> QED
  BY <1>4, <1>5, <1>6, <1>7

\* A session loses at most the frame in the hands of its preview thread and one
\* of each capture thread made so far.
THEOREM LossBounded == Spec => []LeaksPerSession
<1>1. Init => LossInv
  <2> SUFFICES ASSUME Init PROVE LossInv
    OBVIOUS
  <2>1. Leaked = {} /\ MayLose = {}
    BY ThreadsAre DEF Init, Leaked, MayLose, LosingLabels, Threads
  <2> QED
    BY <2>1, FS_EmptySet DEF LossInv, Init
<1>2. /\ TypeInv /\ StageInv /\ EmptyHands /\ LossSizes /\ LossSizes' /\ LossInv
      /\ [Next]_vars
      => LossInv'
  BY LossStep DEF HandsInv
<1>4. TypeInv /\ SessionInv => LossSizes
  BY LossFinite DEF TypeInv
<1>3. TypeInv /\ SessionInv /\ LossInv => LeaksPerSession
  <2> SUFFICES ASSUME TypeOK, SessionInv, LossInv PROVE LeaksPerSession
    BY DEF TypeInv
  <2> DEFINE L == Cardinality(Leaked)
             M == Cardinality(MayLose)
             p == (sessions - 1) * (sessions + 2)
             q == sessions * (sessions + 3)
  <2>1. L \in Nat /\ M \in Nat /\ sessions \in Nat
    BY LossFinite DEF LossSizes
  <2>2. p + 2 * (sessions + 1) = q /\ p \in Int /\ q \in Int
    BY <2>1, NextSession
  <2>3. 2 * L <= p \/ 2 * (L + M) <= q
    BY DEF LossInv
  <2> HIDE DEF L, M, p, q
  <2>4. 2 * L <= q
    BY <2>1, <2>2, <2>3
  <2> QED
    BY <2>4 DEF LeaksPerSession, L, q
<1> QED
  BY <1>1, <1>2, <1>3, <1>4, TypeInvariant, Stages, HandsEmpty, OnePerSession, PTL
  DEF Spec

-----------------------------------------------------------------------------
(* The order of the images.                                                *)

\* A capture thread between taking a frame and the end of onFrame.
InHand(c) == pc[c] \in {"surface", "callback", "convert", "call", "invoke"}

\* Only one of the capture threads has an image at a time: an orphan and the
\* thread of a later session have not both taken one.
Alone == \A c, d \in CaptureThreads : InHand(c) /\ InHand(d) => c = d

\* The numbers of the images at each place of their way.
ImagesOf(S) == {held[s].img : s \in {t \in S : held[t] # NULL}}
Given == {delivered[i] : i \in DOMAIN delivered}
CaughtBy(c) == IF InHand(c) THEN ImagesOf({capFrame(c), cbFrame(c)}) ELSE {}
Caught == UNION {CaughtBy(c) : c \in CaptureThreads}
Latest == IF captureQueu = NULL THEN {} ELSE {captureQueu.img}
Drawn == ImagesOf({mjpeg, frame})
Queued == {previewFrames[i].img : i \in DOMAIN previewFrames}
Copied == ImagesOf({copy})

Way == [k \in 0..5 |-> CASE k = 0 -> Given
                         [] k = 1 -> Caught
                         [] k = 2 -> Latest
                         [] k = 3 -> Drawn
                         [] k = 4 -> Queued
                         [] k = 5 -> Copied]

Below(S, T) == \A m \in S, n \in T : m < n

QueueGrows ==
  \A i, j \in DOMAIN previewFrames : i < j => previewFrames[i].img < previewFrames[j].img

\* The nearer to onFrame, the older the image.
OrderInv ==
  /\ \A k \in 0..5 : Way[k] \subseteq 1..images
  /\ \A j, k \in 0..5 : j < k => Below(Way[j], Way[k])
  /\ QueueGrows

LEMMA Shrinks ==
  ASSUME OrderInv, images \in Nat, images' \in Nat, images <= images',
         Given' \subseteq Given, Caught' \subseteq Caught, Latest' \subseteq Latest,
         Drawn' \subseteq Drawn, Queued' \subseteq Queued, Copied' \subseteq Copied,
         QueueGrows'
  PROVE  OrderInv'
<1>1. \A k \in 0..5 : Way'[k] \subseteq Way[k]
  BY DEF Way
<1>2. \A k \in 0..5 : Way'[k] \subseteq 1..images'
  BY <1>1 DEF OrderInv
<1>3. \A j, k \in 0..5 : j < k => Below(Way'[j], Way'[k])
  BY <1>1 DEF OrderInv, Below
<1> QED
  BY <1>2, <1>3 DEF OrderInv, Below

\* Images S go from a place to the next.
MovesOn(k, S) ==
  /\ S \subseteq Way[k + 1] /\ Way'[k] \subseteq Way[k] \cup S /\ Below(S, Way'[k + 1])
  /\ \A j \in (0..5) \ {k} : Way'[j] \subseteq Way[j]
  /\ UNCHANGED images /\ QueueGrows'

LEMMA Advance ==
  ASSUME OrderInv, NEW k \in 0..4, NEW S, MovesOn(k, S)
  PROVE  OrderInv'
<1> DEFINE l == k + 1
<1>0. /\ l \in 1..5 /\ l = k + 1
      /\ S \subseteq Way[l] /\ Way'[k] \subseteq Way[k] \cup S /\ Below(S, Way'[l])
      /\ \A j \in (0..5) \ {k} : Way'[j] \subseteq Way[j]
      /\ UNCHANGED images /\ QueueGrows'
  BY DEF MovesOn
<1> USE <1>0
<1> HIDE DEF l
<1>1. \A j \in 0..5 : Way'[j] \subseteq 1..images'
  BY DEF OrderInv
<1>2. ASSUME NEW i \in 0..5, NEW j \in 0..5, i < j
      PROVE  Below(Way'[i], Way'[j])
  <2>1. CASE i = k
    <3>1. CASE j = l
      BY <1>2, <2>1, <3>1 DEF OrderInv, Below
    <3>2. CASE j # l
      <4>1. l < j /\ l \in 0..5
        BY <1>2, <2>1, <3>2
      <4> QED
        BY <1>2, <2>1, <4>1 DEF OrderInv, Below
    <3> QED
      BY <3>1, <3>2
  <2>2. CASE j = k
    <3>1. i < l /\ l \in 0..5
      BY <1>2, <2>2
    <3> QED
      BY <1>2, <2>2, <3>1 DEF OrderInv, Below
  <2>3. CASE i # k /\ j # k
    BY <1>2, <2>3 DEF OrderInv, Below
  <2> QED
    BY <2>1, <2>2, <2>3
<1> QED
  BY <1>1, <1>2 DEF OrderInv, Below

LEMMA ImagesShrink ==
  ASSUME NEW S, \A s \in S : held'[s] = held[s] \/ held'[s] = NULL
  PROVE  ImagesOf(S)' \subseteq ImagesOf(S)
BY DEF ImagesOf

LEMMA QueueEmptied ==
  ASSUME previewFrames' = <<>> \/ UNCHANGED previewFrames, QueueGrows
  PROVE  Queued' \subseteq Queued /\ QueueGrows'
BY DEF Queued, QueueGrows

LEMMA LatestEmptied ==
  ASSUME captureQueu' = NULL \/ UNCHANGED captureQueu
  PROVE  Latest' \subseteq Latest
BY DEF Latest

LEMMA CaughtKept ==
  ASSUME \A c \in CaptureThreads : CaughtBy(c)' \subseteq CaughtBy(c)
  PROVE  Caught' \subseteq Caught
BY DEF Caught

LEMMA CaughtOutside ==
  ASSUME NEW c \in CaptureThreads,
         held'[capFrame(c)] = held[capFrame(c)], held'[cbFrame(c)] = held[cbFrame(c)],
         pc'[c] = pc[c] \/ (pc[c] = "none" /\ pc'[c] = "start")
  PROVE  CaughtBy(c)' \subseteq CaughtBy(c)
BY DEF CaughtBy, InHand, ImagesOf

-----------------------------------------------------------------------------
(* The order is kept.                                                      *)

LEMMA AppKeeps ==
  ASSUME TypeOK, AppCall \/ AppStep
  PROVE  /\ UNCHANGED <<images, delivered>>
         /\ previewFrames' = <<>> \/ UNCHANGED previewFrames
         /\ captureQueu' = NULL \/ UNCHANGED captureQueu
<1> USE DEF frameVars, queueVars, counterVars, controlVars
<1>1. CASE AppCall
  BY <1>1 DEF AppCall, SurfaceCall, StartPreview, StopPreview, SetPreviewDisplay,
     SetFrameCallback, SetCaptureDisplay
<1>2. CASE AppStep
  BY <1>2 DEF AppStep, CreatePreviewThread, SignalThreads, JoinCapture, JoinPreview,
     ClearPreviewFrame, ClearCaptureFrame, ReleaseWindows, ReplaceCaptureWindow,
     SignalCaptureAndWait, ReplaceCallback
<1> QED
  BY <1>1, <1>2

LEMMA AppOrder ==
  ASSUME TypeOK, StageInv, OrderInv, AppCall \/ AppStep
  PROVE  OrderInv'
<1>1. /\ UNCHANGED <<images, delivered, held>>
      /\ previewFrames' = <<>> \/ UNCHANGED previewFrames
      /\ captureQueu' = NULL \/ UNCHANGED captureQueu
      /\ \A c \in CaptureThreads : pc'[c] = pc[c]
  BY AppKeeps, AppHands, AppStage, ThreadsAre
<1>2. Given' = Given /\ Drawn' = Drawn /\ Copied' = Copied
  BY <1>1 DEF Given, Drawn, Copied, ImagesOf
<1>3. Caught' \subseteq Caught
  BY <1>1, CaughtKept, CaughtOutside
<1>4. Queued' \subseteq Queued /\ QueueGrows' /\ Latest' \subseteq Latest
  BY <1>1, QueueEmptied, LatestEmptied DEF OrderInv
<1>5. images \in Nat /\ images' = images
  BY <1>1 DEF TypeOK
<1> QED
  BY <1>2, <1>3, <1>4, <1>5, Shrinks

LEMMA Appended ==
  ASSUME TypeOK, QueueGrows, NEW f \in Frame, Below(Queued, {f.img}),
         previewFrames' = Append(previewFrames, f)
  PROVE  Queued' \subseteq Queued \cup {f.img} /\ QueueGrows'
<1> DEFINE n == Len(previewFrames)
<1>1. /\ n \in Nat /\ DOMAIN previewFrames = 1..n
      /\ DOMAIN previewFrames' = 1..(n + 1)
      /\ previewFrames'[n + 1] = f
      /\ \A i \in 1..n : previewFrames'[i] = previewFrames[i]
  BY DEF TypeOK
<1> HIDE DEF n
<1>2. Queued' \subseteq Queued \cup {f.img}
  BY <1>1 DEF Queued
<1>3. ASSUME NEW i \in 1..(n + 1), NEW j \in 1..(n + 1), i < j
      PROVE  previewFrames'[i].img < previewFrames'[j].img
  <2>1. i \in 1..n /\ previewFrames[i].img \in Queued
    BY <1>1, <1>3 DEF Queued
  <2>2. CASE j = n + 1
    BY <1>1, <2>1, <2>2 DEF Below
  <2>3. CASE j # n + 1
    <3>1. j \in 1..n
      BY <1>1, <2>3
    <3> QED
      BY <1>1, <1>3, <2>1, <3>1 DEF QueueGrows
  <2> QED
    BY <2>2, <2>3
<1> QED
  BY <1>1, <1>2, <1>3 DEF QueueGrows

LEMMA HeadRemoved ==
  ASSUME TypeOK, QueueGrows, previewFrames # <<>>, previewFrames' = Tail(previewFrames)
  PROVE  /\ Head(previewFrames) \in Frame /\ Head(previewFrames).img \in Queued
         /\ Queued' \subseteq Queued /\ Below({Head(previewFrames).img}, Queued')
         /\ QueueGrows'
<1> DEFINE n == Len(previewFrames)
<1>1. /\ n \in Nat \ {0} /\ DOMAIN previewFrames = 1..n
      /\ Head(previewFrames) = previewFrames[1] /\ Head(previewFrames) \in Frame
      /\ DOMAIN previewFrames' = 1..(n - 1)
      /\ \A i \in 1..(n - 1) : previewFrames'[i] = previewFrames[i + 1]
  BY DEF TypeOK
<1> HIDE DEF n
<1>2. ASSUME NEW i \in 1..(n - 1)
      PROVE  /\ i + 1 \in 1..n /\ previewFrames'[i].img \in Queued
             /\ Head(previewFrames).img < previewFrames'[i].img
  <2>1. i + 1 \in 1..n /\ 1 \in 1..n /\ 1 < i + 1
    BY <1>1
  <2> QED
    BY <1>1, <2>1 DEF Queued, QueueGrows
<1>3. ASSUME NEW i \in 1..(n - 1), NEW j \in 1..(n - 1), i < j
      PROVE  previewFrames'[i].img < previewFrames'[j].img
  <2>1. i + 1 \in 1..n /\ j + 1 \in 1..n /\ i + 1 < j + 1
    BY <1>1, <1>3
  <2> QED
    BY <1>1, <2>1 DEF QueueGrows
<1>4. Head(previewFrames).img \in Queued
  BY <1>1 DEF Queued
<1>5. Queued' \subseteq Queued /\ Below({Head(previewFrames).img}, Queued')
  BY <1>1, <1>2 DEF Queued, Below
<1> QED
  BY <1>1, <1>3, <1>4, <1>5 DEF QueueGrows

LEMMA StreamOrder ==
  ASSUME HandsInv, OrderInv, ReceiveImage \/ AddPreviewFrame
  PROVE  OrderInv'
<1> TypeOK /\ HandsFollowPc /\ EmptyHands /\ images \in Nat
  BY DEF HandsInv, TypeInv, TypeOK
<1> USE DEF poolVars, queueVars
<1>1. UNCHANGED <<delivered, captureQueu>>
  BY DEF ReceiveImage, AddPreviewFrame, counterVars
<1>2. HeldOutside({copy}) /\ \A c \in CaptureThreads : pc'[c] = pc[c]
  BY StreamHands, StreamWays, ThreadsAre DEF EmptyHands
<1>3. /\ held'[mjpeg] = held[mjpeg] /\ held'[frame] = held[frame]
      /\ \A c \in CaptureThreads : /\ held'[capFrame(c)] = held[capFrame(c)]
                                   /\ held'[cbFrame(c)] = held[cbFrame(c)]
  BY <1>2, SlotsAre, SlotsDiffer DEF HeldOutside
<1>4. /\ Given' = Given /\ Latest' = Latest /\ Drawn' \subseteq Drawn
      /\ Caught' \subseteq Caught
  BY <1>1, <1>2, <1>3, ImagesShrink, CaughtKept, CaughtOutside DEF Given, Latest, Drawn
<1>5. CASE ReceiveImage
  <2>1. UNCHANGED previewFrames /\ images' = images + 1
    BY <1>5 DEF ReceiveImage
  <2>2. Queued' = Queued /\ QueueGrows'
    BY <2>1 DEF Queued, QueueGrows, OrderInv
  <2>3. CASE UNCHANGED held
    <3>1. Copied' = Copied
      BY <2>3 DEF Copied, ImagesOf
    <3> QED
      BY <1>4, <2>1, <2>2, <3>1, Shrinks
  <2>4. CASE GetFrame(copy, images + 1)
    <3>1. Copied' \subseteq {images + 1}
      <4>1. held'[copy].img = images + 1
        BY <2>4, SlotsAre DEF GetFrame, TypeOK
      <4> QED
        BY <4>1 DEF Copied, ImagesOf
    <3>2. \A k \in 0..4 : Way'[k] \subseteq Way[k]
      BY <1>4, <2>2 DEF Way
    <3>3. Way'[5] \subseteq {images + 1}
      BY <3>1 DEF Way
    <3>4. \A k \in 0..5 : Way'[k] \subseteq 1..images'
      <4>1. ASSUME NEW k \in 0..4 PROVE Way'[k] \subseteq 1..images'
        BY <2>1, <3>2 DEF OrderInv
      <4> QED
        BY <2>1, <3>3, <4>1
    <3>5. ASSUME NEW j \in 0..5, NEW k \in 0..5, j < k
          PROVE  Below(Way'[j], Way'[k])
      <4>1. Way'[j] \subseteq 1..images /\ j \in 0..4
        BY <3>2, <3>5 DEF OrderInv
      <4>2. CASE k = 5
        BY <3>3, <4>1, <4>2 DEF Below
      <4>3. CASE k \in 0..4
        BY <3>2, <3>5, <4>1, <4>3 DEF OrderInv, Below
      <4> QED
        BY <4>2, <4>3
    <3> QED
      BY <2>2, <3>4, <3>5 DEF OrderInv, Below
  <2> QED
    BY <1>5, <2>3, <2>4 DEF ReceiveImage
<1>6. CASE AddPreviewFrame
  <2>1. UNCHANGED images /\ held' = Drop({copy}) /\ pc["stream"] = "add"
    BY <1>6 DEF AddPreviewFrame, counterVars
  <2>2. Copied' = {}
    BY <2>1, SlotsAre DEF Copied, ImagesOf, Drop
  <2>3. CASE UNCHANGED previewFrames
    <3>1. Queued' \subseteq Queued /\ QueueGrows'
      BY <2>3, QueueEmptied DEF OrderInv
    <3> QED
      BY <1>4, <2>1, <2>2, <3>1, Shrinks
  <2>4. CASE previewFrames' = Append(previewFrames, held[copy])
    <3>1. held[copy] \in Frame /\ held[copy] # NULL
      BY <2>1, SlotsAre DEF HandsFollowPc, TypeOK
    <3>2. Copied = {held[copy].img}
      BY <3>1 DEF Copied, ImagesOf
    <3>3. Below(Queued, Copied)
      <4>1. Below(Way[4], Way[5]) /\ Way[4] = Queued /\ Way[5] = Copied
        BY DEF OrderInv, Way
      <4> QED
        BY <4>1
    <3>4. Queued' \subseteq Queued \cup Copied /\ QueueGrows'
      BY <2>4, <3>1, <3>2, <3>3, Appended DEF OrderInv
    <3>5. /\ Copied \subseteq Way[5] /\ Way'[4] \subseteq Way[4] \cup Copied
          /\ Way'[5] = {} /\ \A j \in (0..5) \ {4} : Way'[j] \subseteq Way[j]
      BY <1>4, <2>2, <3>4 DEF Way
    <3>6. Below(Copied, Way'[5])
      BY <3>5 DEF Below
    <3>7. MovesOn(4, Copied)
      BY ONLY <2>1, <3>4, <3>5, <3>6 DEF MovesOn
    <3> QED
      BY <3>7, Advance
  <2> QED
    BY <1>6, <2>3, <2>4 DEF AddPreviewFrame
<1> QED
  BY <1>5, <1>6

LEMMA PreviewKeeps ==
  ASSUME HandsInv, PreviewStep
  PROVE  /\ UNCHANGED <<images, delivered>>
         /\ Given' = Given /\ Caught' \subseteq Caught /\ Copied' \subseteq Copied
<1> TypeOK /\ EmptyHands
  BY DEF HandsInv, TypeInv
<1>1. UNCHANGED <<images, delivered>>
  BY DEF PreviewStep, StartStreaming, CreateCaptureThread, PreviewLoop,
     WaitPreviewFrame, TestRunning, GetDecoded, Decode, DrawConvert, DrawRotate,
     DrawDone, AddCaptureFrame, PreviewExit, StopStreaming, counterVars, controlVars
<1>2. HeldOutside(PreviewSlots)
  BY PreviewStepHands DEF EmptyHands
<1>3. /\ held'[copy] = held[copy]
      /\ \A c \in CaptureThreads : /\ held'[capFrame(c)] = held[capFrame(c)]
                                   /\ held'[cbFrame(c)] = held[cbFrame(c)]
  BY <1>2, SlotsAre, SlotsDiffer DEF HeldOutside, PreviewSlots
<1>4. \A c \in CaptureThreads : pc'[c] = pc[c] \/ (pc[c] = "none" /\ pc'[c] = "start")
  <2>1. CASE PreviewWay("preview")
    BY <2>1, ThreadsAre DEF PreviewWay
  <2>2. ASSUME NEW c \in CaptureThreads, CreateCaptureThread(c), PreviewWay(c)
        PROVE  <1>4
    BY <2>2, ThreadsAre DEF PreviewWay, CreateCaptureThread, Goto, TypeOK
  <2> QED
    BY <2>1, <2>2, PreviewWays
<1>5. Caught' \subseteq Caught
  BY <1>3, <1>4, CaughtOutside, CaughtKept
<1> QED
  BY <1>1, <1>3, <1>5, ImagesShrink DEF Given, Copied

\* Steps of the preview thread that move no frame on.
LEMMA PreviewRest ==
  ASSUME HandsInv, OrderInv, PreviewStep, Drawn' \subseteq Drawn,
         UNCHANGED captureQueu, previewFrames' = <<>> \/ UNCHANGED previewFrames
  PROVE  OrderInv'
<1>1. images' = images /\ images \in Nat
  BY PreviewKeeps DEF HandsInv, TypeInv, TypeOK
<1>2. Queued' \subseteq Queued /\ QueueGrows' /\ Latest' \subseteq Latest
  BY QueueEmptied, LatestEmptied DEF OrderInv
<1> QED
  BY <1>1, <1>2, PreviewKeeps, Shrinks

LEMMA PreviewOrder ==
  ASSUME HandsInv, OrderInv, PreviewStep
  PROVE  OrderInv'
<1> USE SlotsAre, SlotsDiffer DEF poolVars, queueVars, frameVars
<1> /\ TypeOK /\ HandsFollowPc /\ PreviewHands
    /\ pc \in [Threads -> Labels] /\ images \in Nat
    /\ {mjpeg, frame} \subseteq Slots
  BY DEF HandsInv, TypeInv, EmptyHands, TypeOK
<1>1. CASE \/ StartStreaming \/ PreviewLoop \/ PreviewExit \/ StopStreaming
           \/ \E c \in CaptureThreads : CreateCaptureThread(c)
  <2>1. UNCHANGED <<held, captureQueu>> /\ (previewFrames' = <<>> \/ UNCHANGED previewFrames)
    BY <1>1 DEF StartStreaming, PreviewLoop, PreviewExit, StopStreaming,
       CreateCaptureThread
  <2>2. Drawn' \subseteq Drawn
    BY <2>1 DEF Drawn, ImagesOf
  <2> QED
    BY <2>1, <2>2, PreviewRest
<1>2. CASE WaitPreviewFrame
  <2>0. UNCHANGED captureQueu /\ pc["preview"] \in {"wait", "waiting"}
    BY <1>2 DEF WaitPreviewFrame
  <2>1. CASE UNCHANGED <<held, previewFrames>>
    <3>1. Drawn' \subseteq Drawn
      BY <2>1 DEF Drawn, ImagesOf
    <3> QED
      BY <2>0, <2>1, <3>1, PreviewRest
  <2>2. CASE /\ previewFrames # <<>> /\ previewFrames' = Tail(previewFrames)
             /\ held' = [held EXCEPT ![IF Mjpeg THEN mjpeg ELSE frame] =
                                       Head(previewFrames)]
    <3> DEFINE f == Head(previewFrames)
               slot == IF Mjpeg THEN mjpeg ELSE frame
    <3>1. /\ f \in Frame /\ f.img \in Queued /\ Queued' \subseteq Queued
          /\ Below({f.img}, Queued') /\ QueueGrows'
      BY <2>2, HeadRemoved DEF OrderInv
    <3>2. held[mjpeg] = NULL /\ held[frame] = NULL
      BY <2>0 DEF PreviewHands
    <3>3. slot \in {mjpeg, frame} /\ held' = [held EXCEPT ![slot] = f]
      BY <2>2
    <3> HIDE DEF f, slot
    <3>4. Drawn' \subseteq {f.img}
      BY <3>2, <3>3 DEF Drawn, ImagesOf, TypeOK
    <3>5. Latest' = Latest
      BY <2>0 DEF Latest
    <3>6. /\ {f.img} \subseteq Way[4] /\ Way'[3] \subseteq Way[3] \cup {f.img}
          /\ Below({f.img}, Way'[4])
          /\ \A j \in (0..5) \ {3} : Way'[j] \subseteq Way[j]
      BY <3>1, <3>4, <3>5, PreviewKeeps DEF Way
    <3>7. UNCHANGED images
      BY PreviewKeeps
    <3>8. MovesOn(3, {f.img})
      BY ONLY <3>1, <3>6, <3>7 DEF MovesOn
    <3> QED
      BY <3>8, Advance
  <2> QED
    BY <1>2, <2>1, <2>2 DEF WaitPreviewFrame, RemovePreviewFrame
<1>3. CASE TestRunning \/ Decode \/ DrawDone
  <2>1. UNCHANGED <<captureQueu, previewFrames>>
    BY <1>3 DEF TestRunning, Decode, DrawDone
  <2>2. UNCHANGED held \/ \E T \in SUBSET Slots : held' = Drop(T)
    BY <1>3 DEF TestRunning, Decode, DrawDone
  <2>3. \A s \in {mjpeg, frame} : held'[s] = held[s] \/ held'[s] = NULL
    BY <2>2 DEF Drop
  <2>4. Drawn' \subseteq Drawn
    BY <2>3, ImagesShrink DEF Drawn
  <2> QED
    BY <2>1, <2>4, PreviewRest
<1>4. CASE GetDecoded
  <2>1. GetFrame(frame, held[mjpeg].img) /\ UNCHANGED <<captureQueu, previewFrames>>
    BY <1>4 DEF GetDecoded
  <2>2. /\ held'[mjpeg] = held[mjpeg] /\ held[mjpeg] # NULL
        /\ held'[frame].img = held[mjpeg].img
    BY <1>4, <2>1 DEF GetFrame, TypeOK, HandsFollowPc, GetDecoded
  <2>3. Drawn' \subseteq Drawn
    BY <2>2 DEF Drawn, ImagesOf
  <2> QED
    BY <2>1, <2>3, PreviewRest
<1>5. CASE DrawConvert \/ DrawRotate
  <2>1. UNCHANGED <<captureQueu, previewFrames>>
    BY <1>5 DEF DrawConvert, DrawRotate
  <2>2. held'[mjpeg] = held[mjpeg] /\ held'[frame] = held[frame]
    BY <1>5 DEF DrawConvert, DrawRotate, GetFrame, TypeOK
  <2>3. Drawn' \subseteq Drawn
    BY <2>2 DEF Drawn, ImagesOf
  <2> QED
    BY <2>1, <2>3, PreviewRest
<1>6. CASE AddCaptureFrame
  <2>1. /\ UNCHANGED previewFrames /\ held' = Drop({frame}) /\ pc["preview"] = "add"
        /\ captureQueu' = held[frame] \/ UNCHANGED captureQueu
    BY <1>6 DEF AddCaptureFrame, KeepLatest
  <2>2. held[mjpeg] = NULL /\ held[frame] # NULL
    BY <2>1 DEF PreviewHands, HandsFollowPc
  <2>3. held'[mjpeg] = NULL /\ held'[frame] = NULL
    BY <2>1, <2>2 DEF Drop
  <2>4. Drawn' = {}
    BY <2>3 DEF Drawn, ImagesOf
  <2>5. CASE UNCHANGED captureQueu
    BY <2>1, <2>4, <2>5, PreviewRest
  <2>6. CASE captureQueu' = held[frame]
    <3>1. Drawn = {held[frame].img} /\ Latest' = {held[frame].img}
      BY <2>2, <2>6 DEF Drawn, ImagesOf, Latest
    <3>2. Queued' = Queued /\ QueueGrows'
      BY <2>1 DEF Queued, QueueGrows, OrderInv
    <3>3. /\ Drawn \subseteq Way[3] /\ Way'[2] \subseteq Way[2] \cup Drawn
          /\ Way'[3] = {}
          /\ \A j \in (0..5) \ {2} : Way'[j] \subseteq Way[j]
      BY <2>4, <3>1, <3>2, PreviewKeeps DEF Way
    <3>4. Below(Drawn, Way'[3]) /\ UNCHANGED images
      BY <3>3, PreviewKeeps DEF Below
    <3>5. MovesOn(2, Drawn)
      BY ONLY <3>2, <3>3, <3>4 DEF MovesOn
    <3> QED
      BY <3>5, Advance
  <2> QED
    BY <2>1, <2>5, <2>6
<1> QED
  BY <1>1, <1>2, <1>3, <1>4, <1>5, <1>6 DEF PreviewStep

LEMMA CaptureKeeps ==
  ASSUME HandsInv, NEW c \in CaptureThreads, CaptureStep(c)
  PROVE  /\ UNCHANGED <<images, previewFrames>>
         /\ Queued' = Queued /\ (QueueGrows => QueueGrows')
         /\ Drawn' \subseteq Drawn /\ Copied' \subseteq Copied
         /\ \A d \in CaptureThreads : d # c => CaughtBy(d)' \subseteq CaughtBy(d)
<1> TypeOK /\ EmptyHands
  BY DEF HandsInv, TypeInv
<1>1. UNCHANGED <<images, previewFrames>>
  BY DEF CaptureStep, CaptureStart, CaptureLoop, TestCapturing, WaitCaptureFrame,
     BeginCallback, ConvertFrame, TestMethod, CallOnFrame, EndCallback,
     CaptureToSurface, EndSurface, ReleaseCaptureWindow, ClearCaptureWindow,
     CaptureLeave, counterVars, controlVars, queueVars, frameVars
<1>2. HeldOutside(CaptureSlots(c))
  BY CaptureStepHands DEF EmptyHands
<1>3. /\ held'[copy] = held[copy] /\ held'[mjpeg] = held[mjpeg]
      /\ held'[frame] = held[frame]
  BY <1>2, SlotsAre, SlotsDiffer DEF HeldOutside, CaptureSlots
<1>4. ASSUME NEW d \in CaptureThreads, d # c
      PROVE  CaughtBy(d)' \subseteq CaughtBy(d)
  <2>1. capFrame(d) \notin CaptureSlots(c) /\ cbFrame(d) \notin CaptureSlots(c)
    BY <1>4 DEF CaptureSlots, capFrame, cbFrame, surfaceFrame
  <2>2. held'[capFrame(d)] = held[capFrame(d)] /\ held'[cbFrame(d)] = held[cbFrame(d)]
    BY <1>2, <2>1, SlotsAre DEF HeldOutside
  <2>3. pc'[d] = pc[d]
    BY <1>4, CaptureSameStage
  <2> QED
    BY <2>2, <2>3, CaughtOutside
<1>5. Queued' = Queued /\ (QueueGrows => QueueGrows')
  BY <1>1 DEF Queued, QueueGrows
<1> QED
  BY <1>1, <1>3, <1>4, <1>5, ImagesShrink DEF Drawn, Copied

\* Steps of a capture thread that take no frame and end no call.
LEMMA CaptureRest ==
  ASSUME HandsInv, OrderInv, NEW c \in CaptureThreads, CaptureStep(c),
         CaughtBy(c)' \subseteq CaughtBy(c), UNCHANGED delivered,
         captureQueu' = NULL \/ UNCHANGED captureQueu
  PROVE  OrderInv'
<1>1. images' = images /\ images \in Nat
  BY CaptureKeeps DEF HandsInv, TypeInv, TypeOK
<1>2. Latest' \subseteq Latest /\ Given' = Given
  BY LatestEmptied DEF Given
<1>3. Caught' \subseteq Caught
  BY CaptureKeeps, CaughtKept
<1>4. Queued' = Queued /\ QueueGrows' /\ Drawn' \subseteq Drawn /\ Copied' \subseteq Copied
  BY CaptureKeeps DEF OrderInv
<1> QED
  BY <1>1, <1>2, <1>3, <1>4, Shrinks

LEMMA CaptureOrder ==
  ASSUME HandsInv, OrderInv, Alone, NEW c \in CaptureThreads, CaptureStep(c)
  PROVE  OrderInv'
<1> USE ThreadsAre, SlotsAre, SlotsDiffer
    DEF Goto, poolVars, queueVars, frameVars, counterVars, controlVars
<1> /\ TypeOK /\ HandsFollowPc /\ CaptureHands(c) /\ pc \in [Threads -> Labels]
    /\ {capFrame(c), cbFrame(c)} \subseteq Slots
  BY DEF HandsInv, TypeInv, EmptyHands, TypeOK
<1>1. CASE ~InHand(c)'
  <2>1. CaughtBy(c)' = {}
    BY <1>1 DEF CaughtBy
  <2>2. CASE CallOnFrame(c)
    <3>1. PICK s \in {capFrame(c), cbFrame(c)} :
            held[s] # NULL /\ delivered' = Append(delivered, held[s].img)
      BY <2>2 DEF CallOnFrame
    <3> DEFINE n == held[s].img
    <3>2. InHand(c) /\ UNCHANGED captureQueu
      BY <2>2 DEF CallOnFrame, InHand
    <3>3. n \in CaughtBy(c) /\ n \in Caught
      BY <3>1, <3>2 DEF CaughtBy, ImagesOf, Caught
    <3>4. \A d \in CaptureThreads : d # c => CaughtBy(d) = {}
      BY <3>2 DEF Alone, CaughtBy
    <3>5. Caught' = {}
      BY <2>1, <3>4, CaptureKeeps DEF Caught
    <3>6. Given' \subseteq Given \cup {n}
      <4>1. PICK q \in Seq(Nat) : q = delivered
        BY DEF TypeOK
      <4>2. n \in Nat
        BY <3>1 DEF TypeOK, Frame
      <4>3. delivered' = Append(q, n)
        BY <3>1, <4>1
      <4> HIDE DEF n
      <4>4. /\ DOMAIN delivered' = 1..(Len(q) + 1) /\ DOMAIN q = 1..Len(q)
            /\ delivered'[Len(q) + 1] = n /\ Len(q) \in Nat
            /\ \A i \in 1..Len(q) : delivered'[i] = q[i]
        BY <4>1, <4>2, <4>3
      <4> QED
        BY <4>1, <4>4 DEF Given
    <3> HIDE DEF n
    <3>7. Latest' = Latest
      BY <3>2 DEF Latest
    <3>8. /\ {n} \subseteq Way[1] /\ Way'[0] \subseteq Way[0] \cup {n} /\ Way'[1] = {}
          /\ \A j \in (0..5) \ {0} : Way'[j] \subseteq Way[j]
      BY <3>3, <3>5, <3>6, <3>7, CaptureKeeps DEF Way
    <3>9. Below({n}, Way'[1]) /\ UNCHANGED images /\ QueueGrows'
      BY <3>8, CaptureKeeps DEF Below, OrderInv
    <3>10. MovesOn(0, {n})
      BY ONLY <3>8, <3>9 DEF MovesOn
    <3> QED
      BY <3>10, Advance
  <2>3. CASE ~CallOnFrame(c)
    <3>1. UNCHANGED delivered /\ (captureQueu' = NULL \/ UNCHANGED captureQueu)
      BY <2>3 DEF CaptureStep, CaptureStart, CaptureLoop, TestCapturing,
         WaitCaptureFrame, TakeCaptureFrame, BeginCallback, ConvertFrame, TestMethod,
         EndCallback, CaptureToSurface, EndSurface, ReleaseCaptureWindow,
         ClearCaptureWindow, CaptureLeave
    <3> QED
      BY <2>1, <3>1, CaptureRest
  <2> QED
    BY <2>2, <2>3
<1>2. CASE InHand(c)'
  <2>1. \/ WaitCaptureFrame(c) \/ CaptureToSurface(c) \/ BeginCallback(c)
        \/ ConvertFrame(c) \/ TestMethod(c)
    BY <1>2 DEF InHand, CaptureStep, CaptureStart, CaptureLoop, TestCapturing,
       CallOnFrame, EndCallback, EndSurface, ReleaseCaptureWindow,
       ClearCaptureWindow, CaptureLeave
  <2>2. CASE WaitCaptureFrame(c)
    <3>1. /\ captureQueu # NULL /\ captureQueu' = NULL /\ UNCHANGED delivered
          /\ held' = [held EXCEPT ![capFrame(c)] = captureQueu]
          /\ pc[c] \in {"wait", "waiting"}
      BY <1>2, <2>2 DEF WaitCaptureFrame, TakeCaptureFrame, InHand
    <3>2. held'[cbFrame(c)] = NULL /\ held'[capFrame(c)] = captureQueu
      BY <3>1 DEF CaptureHands, TypeOK
    <3>3. CaughtBy(c)' \subseteq Latest
      BY <1>2, <3>1, <3>2 DEF CaughtBy, ImagesOf, Latest
    <3>4. Caught' \subseteq Caught \cup Latest /\ Latest' = {} /\ Given' = Given
      BY <3>1, <3>3, CaptureKeeps DEF Caught, Latest, Given
    <3>5. /\ Latest \subseteq Way[2] /\ Way'[1] \subseteq Way[1] \cup Latest
          /\ Way'[2] = {}
          /\ \A j \in (0..5) \ {1} : Way'[j] \subseteq Way[j]
      BY <3>4, CaptureKeeps DEF Way
    <3>6. Below(Latest, Way'[2]) /\ UNCHANGED images /\ QueueGrows'
      BY <3>5, CaptureKeeps DEF Below, OrderInv
    <3>7. MovesOn(1, Latest)
      BY ONLY <3>5, <3>6 DEF MovesOn
    <3> QED
      BY <3>7, Advance
  <2>3. CASE CaptureToSurface(c) \/ BeginCallback(c)
    <3>1. UNCHANGED <<delivered, captureQueu>> /\ pc[c] \in {"surface", "callback"}
      BY <2>3 DEF CaptureToSurface, BeginCallback
    <3>2. /\ held[capFrame(c)] # NULL /\ held[cbFrame(c)] = NULL
          /\ cbFrame(c) # surfaceFrame(c)
      BY <3>1 DEF HandsFollowPc, CaptureHands, cbFrame, surfaceFrame
    <3>3. /\ held'[capFrame(c)] = held[capFrame(c)]
          /\ \/ held'[cbFrame(c)] = NULL
             \/ held'[cbFrame(c)].img = held[capFrame(c)].img
      BY <1>2, <2>3, <3>2 DEF CaptureToSurface, BeginCallback, InHand, GetFrame, TypeOK
    <3>4. CaughtBy(c)' \subseteq CaughtBy(c)
      BY <3>1, <3>2, <3>3 DEF CaughtBy, InHand, ImagesOf
    <3> QED
      BY <3>1, <3>4, CaptureRest
  <2>4. CASE ConvertFrame(c) \/ TestMethod(c)
    <3>1. UNCHANGED <<delivered, captureQueu>> /\ InHand(c)
      BY <2>4 DEF ConvertFrame, TestMethod, InHand
    <3>2. \A s \in {capFrame(c), cbFrame(c)} : held'[s] = held[s] \/ held'[s] = NULL
      BY <2>4 DEF ConvertFrame, TestMethod, Drop
    <3>3. CaughtBy(c)' \subseteq CaughtBy(c)
      BY <3>1, <3>2, ImagesShrink DEF CaughtBy
    <3> QED
      BY <3>1, <3>3, CaptureRest
  <2> QED
    BY <2>1, <2>2, <2>3, <2>4
<1> QED
  BY <1>1, <1>2

LEMMA OrderStep ==
  ASSUME HandsInv, OrderInv, Alone, [Next]_vars
  PROVE  OrderInv'
<1>1. CASE SpuriousWakeup \/ UNCHANGED vars
  <2>1. UNCHANGED <<frameVars, counterVars, pc>>
    BY <1>1 DEF SpuriousWakeup, vars, controlVars
  <2>2. UNCHANGED <<images, delivered, held, captureQueu, previewFrames, pc>>
    BY <2>1 DEF frameVars, queueVars, poolVars, counterVars
  <2>3. Given' = Given /\ Latest' = Latest /\ Drawn' = Drawn /\ Copied' = Copied
    BY <2>2 DEF Given, Latest, Drawn, Copied, ImagesOf
  <2>4. Caught' \subseteq Caught
    BY <2>2, CaughtOutside, CaughtKept
  <2>5. Queued' = Queued /\ QueueGrows'
    BY <2>2 DEF Queued, QueueGrows, OrderInv
  <2>6. images \in Nat /\ images' = images
    BY <2>2 DEF HandsInv, TypeInv, TypeOK
  <2> QED
    BY <2>3, <2>4, <2>5, <2>6, Shrinks
<1>2. TypeOK /\ StageInv
  BY DEF HandsInv, TypeInv
<1> QED
  BY <1>1, <1>2, AppOrder, StreamOrder, PreviewOrder, CaptureOrder DEF Next

\* What a step hands over is newer than all that was handed over before.
LEMMA PreviewChannelStep ==
  ASSUME HandsInv, OrderInv, [Next]_vars
  PROVE  [Channel!Next]_<<images, delivered, FALSE>>
<1> TypeOK /\ images \in Nat
  BY DEF HandsInv, TypeInv, TypeOK
<1>1. CASE AppCall \/ AppStep
  BY <1>1, AppKeeps
<1>2. CASE ReceiveImage \/ AddPreviewFrame
  <2>1. UNCHANGED delivered /\ images' \in {images, images + 1}
    BY <1>2 DEF ReceiveImage, AddPreviewFrame, counterVars
  <2> QED
    BY <2>1 DEF Channel!Next, Channel!Offer
<1>3. CASE PreviewStep
  BY <1>3, PreviewKeeps
<1>4. ASSUME NEW c \in CaptureThreads, CaptureStep(c)
      PROVE  [Channel!Next]_<<images, delivered, FALSE>>
  <2>1. UNCHANGED images
    BY <1>4, CaptureKeeps
  <2>2. CASE CallOnFrame(c)
    <3>1. PICK s \in {capFrame(c), cbFrame(c)} :
            held[s] # NULL /\ delivered' = Append(delivered, held[s].img)
      BY <2>2 DEF CallOnFrame
    <3> DEFINE n == held[s].img
    <3>2. n \in Caught
      BY <2>2, <3>1 DEF CallOnFrame, CaughtBy, InHand, ImagesOf, Caught
    <3>3. Way[0] = Given /\ Way[1] = Caught
      BY DEF Way
    <3>4. n \in 1..images /\ Below(Given, Caught)
      BY <3>2, <3>3 DEF OrderInv
    <3>5. n > 0 /\ \A i \in DOMAIN delivered : delivered[i] < n
      BY <3>2, <3>4 DEF Below, Given
    <3> QED
      BY <2>1, <3>1, <3>4, <3>5 DEF Channel!Next, Channel!HandOver, Channel!InOrder
  <2>3. CASE ~CallOnFrame(c)
    <3>1. UNCHANGED delivered
      BY <1>4, <2>3 DEF CaptureStep, CaptureStart, CaptureLoop, TestCapturing,
         WaitCaptureFrame, TakeCaptureFrame, BeginCallback, ConvertFrame, TestMethod,
         EndCallback, CaptureToSurface, EndSurface, ReleaseCaptureWindow,
         ClearCaptureWindow, CaptureLeave, counterVars, controlVars
    <3> QED
      BY <2>1, <3>1
  <2> QED
    BY <2>2, <2>3
<1>5. CASE SpuriousWakeup \/ UNCHANGED vars
  BY <1>5 DEF SpuriousWakeup, vars, controlVars, counterVars
<1> QED
  BY <1>1, <1>2, <1>3, <1>4, <1>5 DEF Next

\* From the USB frame callback to onFrame images keep the camera's order and come
\* once each, for any number of buffers, images and sessions, as long as no two
\* capture threads have an image at a time: an orphan next to the thread of a later
\* session is all that can break it.
THEOREM PreviewIsChannel == Spec /\ []Alone => ImplementsChannel
<1>1. Init => OrderInv
  <2> SUFFICES ASSUME Init PROVE OrderInv
    OBVIOUS
  <2>1. /\ Given = {} /\ Latest = {} /\ Queued = {}
        /\ Drawn = {} /\ Copied = {} /\ \A c \in CaptureThreads : CaughtBy(c) = {}
    BY SlotsAre DEF Init, Given, Latest, Queued, Drawn, Copied, CaughtBy, ImagesOf
  <2>2. Caught = {}
    BY <2>1 DEF Caught
  <2>3. \A k \in 0..5 : Way[k] = {}
    BY <2>1, <2>2 DEF Way
  <2> QED
    BY <2>3 DEF OrderInv, Below, QueueGrows, Init
<1>2. /\ TypeInv /\ StageInv /\ EmptyHands /\ Alone /\ OrderInv /\ [Next]_vars
      => OrderInv'
  BY OrderStep DEF HandsInv
<1>3. Init => Channel!Init
  BY DEF Init, Channel!Init
<1>4. /\ TypeInv /\ StageInv /\ EmptyHands /\ OrderInv /\ [Next]_vars
      => [Channel!Next]_<<images, delivered, FALSE>>
  BY PreviewChannelStep DEF HandsInv
<1>5. Spec /\ []Alone => Channel!Spec
  BY <1>1, <1>2, <1>3, <1>4, TypeInvariant, Stages, HandsEmpty, PTL
     DEF Spec, Channel!Spec
<1> QED
  BY <1>5 DEF ImplementsChannel

\* A behaviour has at most MaxSessions sessions.
SessionsBounded == sessions <= MaxSessions

LEMMA SessionsBoundedStep ==
  ASSUME TypeOK, SessionsBounded, [Next]_vars
  PROVE  SessionsBounded'
<1>1. MaxSessions \in Nat /\ sessions \in Nat
  BY ConstantsAssumption DEF TypeOK
<1>2. CASE StartPreview
  BY <1>1, <1>2 DEF StartPreview, SessionsBounded
<1>3. CASE (AppCall \/ AppStep) /\ ~StartPreview
  <2> USE DEF counterVars, controlVars
  <2>1. CASE AppStep
    BY <2>1 DEF AppStep, CreatePreviewThread, SignalThreads, JoinCapture, JoinPreview,
       ClearPreviewFrame, ClearCaptureFrame, ReleaseWindows, SignalCaptureAndWait,
       ReplaceCallback, ReplaceCaptureWindow, SessionsBounded
  <2>2. CASE AppCall /\ ~StartPreview
    BY <2>2 DEF AppCall, SurfaceCall, StopPreview, SetPreviewDisplay, SetFrameCallback,
       SetCaptureDisplay, SessionsBounded
  <2> QED
    BY <1>3, <2>1, <2>2
<1>4. CASE ~AppCall /\ ~AppStep
  BY <1>4, OtherSession DEF SessionsBounded
<1> QED
  BY <1>2, <1>3, <1>4

\* In the first session there is one capture thread, so onFrame's order needs no
\* assumption on the threads: the one of a stopped preview that lives on next to the
\* thread of the session after it is what Alone excludes.
THEOREM FirstSessionIsChannel ==
  ASSUME MaxSessions = 1
  PROVE  Spec => ImplementsChannel
<1>1. Init => SessionsBounded
  BY DEF Init, SessionsBounded
<1>2. TypeInv /\ SessionsBounded /\ [Next]_vars => SessionsBounded'
  BY SessionsBoundedStep DEF TypeInv
<1>3. TypeInv /\ SessionInv /\ SessionsBounded => Alone
  <2> SUFFICES ASSUME TypeInv, SessionInv, SessionsBounded,
                      NEW c \in CaptureThreads, NEW d \in CaptureThreads,
                      InHand(c), InHand(d), c # d
               PROVE  FALSE
    BY DEF Alone
  <2>1. {c, d} \subseteq Created
    BY DEF Created, InHand
  <2>2. IsFiniteSet({c}) /\ Cardinality({c}) = 1
    BY FS_Singleton
  <2>3. Cardinality({c} \cup {d}) = 2
    BY <2>2, FS_AddElement
  <2>4. Cardinality({c} \cup {d}) <= Cardinality(Created)
    BY <2>1, FS_Subset DEF SessionInv
  <2>5. Cardinality(Created) \in Nat /\ sessions \in Nat
    BY FS_CardinalityType DEF SessionInv, TypeInv, TypeOK
  <2> QED
    BY <2>3, <2>4, <2>5 DEF SessionInv, SessionsBounded
<1>4. Spec => []Alone
  BY <1>1, <1>2, <1>3, TypeInvariant, OnePerSession, PTL DEF Spec
<1> QED
  BY <1>4, PreviewIsChannel, PTL
=============================================================================
