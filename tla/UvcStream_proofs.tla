-------------------------- MODULE UvcStream_proofs --------------------------
(***************************************************************************)
(* Type correctness of UvcStream; the handle is freed only when nothing    *)
(* uses it any more, as long as the camera was not unplugged and the first *)
(* submissions succeeded; and the buffers are never filled to their end.   *)
(***************************************************************************)
EXTENDS UvcStream, TLAPS

-----------------------------------------------------------------------------
\* TypeOK is inductive once a packet whose data is due is one that was sent.
\* The flags and the data are treated apart.
FlagTypes ==
  claimed \in BOOLEAN /\ running \in BOOLEAN /\ bfh_err \in BOOLEAN
  /\ hold_bfh_err \in BOOLEAN /\ marked \in BOOLEAN /\ cut \in BOOLEAN

DataTypes ==
  /\ appPc \in AppLabels /\ handle \in {"none", "open"}
  /\ transfers \in [Transfers -> TransferStates]
  /\ working \in Seq(1..MaxPackets) /\ fid \in 0..1 /\ seq \in Nat
  /\ held \in Seq(1..MaxPackets) /\ hold_seq \in Nat
  /\ handlerPc \in Handlers /\ current \in Transfers
  /\ left \in 0..PerTransfer /\ packet \in Packets
  /\ userPc \in {"none", "loop", "waiting", "reread", "ended"}
  /\ last_seq \in Nat /\ frame \in Frames /\ delivered \in Seq(Frames)
  /\ sent \in 0..MaxPackets /\ faults \in [FaultKinds -> 0..MaxFaults]
  /\ sessions \in 0..MaxSessions
  /\ handlerPc = "data" => packet.num \in 1..MaxPackets

TypeInv == FlagTypes /\ DataTypes

\* The FID bit of a packet is a bit.
LEMMA FidType == ASSUME NEW n \in 1..MaxPackets PROVE Fid(n) \in 0..1
<1>1. Parts \in Nat \ {0} /\ n \in Int
  BY ConstantsAssumption
<1>2. Image(n) \in Int
  BY <1>1 DEF Image
<1> QED
  BY <1>2 DEF Fid

LEMMA EmptyType == <<>> \in Seq(1..MaxPackets) /\ <<>> \in Seq(Frames)
OBVIOUS

\* Counting a fault keeps the types.
LEMMA FaultType ==
  ASSUME DataTypes, NEW kind \in FaultKinds, Fault(kind)
  PROVE  faults' \in [FaultKinds -> 0..MaxFaults]
<1>1. \A k \in FaultKinds : faults[k] \in 0..MaxFaults
  BY DEF DataTypes
<1>2. {"flagged", "lost", "usb"} = FaultKinds /\ MaxFaults \in Nat
  BY ConstantsAssumption DEF FaultKinds
<1>3. faults[kind] + 1 \in 0..MaxFaults
  BY <1>1, <1>2 DEF Fault, FaultKinds
<1> QED
  BY <1>3 DEF Fault, DataTypes

\* A swap keeps the types.
LEMMA SwapType ==
  ASSUME DataTypes, NEW data \in Seq(1..MaxPackets), NEW err,
         SwapBuffers(data, err)
  PROVE  /\ held' \in Seq(1..MaxPackets) /\ working' \in Seq(1..MaxPackets)
         /\ hold_seq' \in Nat /\ seq' \in Nat
         /\ appPc' \in AppLabels
         /\ userPc' \in {"none", "loop", "waiting", "reread", "ended"}
<1> USE DEF DataTypes
<1>1. held' \in Seq(1..MaxPackets)
  BY DEF SwapBuffers
<1>2. hold_seq' \in Nat /\ seq' \in Nat
  BY DEF SwapBuffers
<1>3. working' \in Seq(1..MaxPackets)
  BY EmptyType DEF SwapBuffers
<1>4. appPc' \in AppLabels
  BY DEF SwapBuffers, Broadcast, WakeApp, AppLabels
<1>5. userPc' \in {"none", "loop", "waiting", "reread", "ended"}
  BY DEF SwapBuffers, Broadcast, WakeUser
<1> QED
  BY <1>1, <1>2, <1>3, <1>4, <1>5

LEMMA NoSwapType ==
  ASSUME DataTypes, NoSwap
  PROVE  /\ held' \in Seq(1..MaxPackets)
         /\ hold_seq' \in Nat /\ seq' \in Nat
         /\ appPc' \in AppLabels
         /\ userPc' \in {"none", "loop", "waiting", "reread", "ended"}
BY DEF DataTypes, NoSwap, heldVars, AppLabels

LEMMA TypeInit == Init => TypeInv
<1> SUFFICES ASSUME Init PROVE TypeInv
  OBVIOUS
<1>1. FlagTypes
  BY DEF Init, FlagTypes
<1>2. sent \in 0..MaxPackets
  BY ConstantsAssumption DEF Init
<1>3. frame \in Frames /\ packet \in Packets
  BY EmptyType, ConstantsAssumption DEF Init, Frames, NoFrame, Packets
<1>4. DataTypes
  BY <1>2, <1>3, EmptyType, ConstantsAssumption
     DEF Init, DataTypes, AppLabels, TransferStates, Handlers
<1> QED
  BY <1>1, <1>4 DEF TypeInv

\* Every step keeps the flags Boolean.
LEMMA FlagStep == FlagTypes /\ [Next]_vars => FlagTypes'
<1> SUFFICES ASSUME FlagTypes, [Next]_vars PROVE FlagTypes'
  OBVIOUS
<1> USE DEF FlagTypes, appVars, workingVars, heldVars, handlerVars, userVars,
      cameraVars
<1>1. CASE App
  <2>1. CASE OpenCtrl \/ StartBandwidth
    BY <2>1 DEF OpenCtrl, Fresh, StartBandwidth
  <2>2. CASE (\E t \in Transfers : SubmitTransfer(t)) \/ Submitted \/ StopStreaming
    BY <2>2 DEF SubmitTransfer, Submitted, StopStreaming
  <2>3. CASE CancelTransfers \/ DrainTransfers \/ JoinUser \/ CloseStream
    BY <2>3 DEF CancelTransfers, DrainTransfers, JoinUser, CloseStream
  <2> QED
    BY <1>1, <2>1, <2>2, <2>3 DEF App
<1>2. CASE Handler
  <2>1. ASSUME NEW t \in Transfers, StreamCallback(t) PROVE FlagTypes'
    BY <2>1 DEF StreamCallback, Completed, Retried, NotRetried, Unplugged
  <2>2. ASSUME NEW fault \in PacketFaults \cup {"none"}, ProcessHeader(fault)
        PROVE FlagTypes'
    BY <2>2 DEF ProcessHeader, SwapBuffers, NoSwap, Flags
  <2>3. CASE ProcessData
    BY <2>3 DEF ProcessData, SwapBuffers, NoSwap, Fits
  <2>4. CASE PayloadDone \/ Decide \/ Resubmit \/ DeleteTransfer
    BY <2>4 DEF PayloadDone, Decide, Resubmit, DeleteTransfer
  <2> QED
    BY <1>2, <2>1, <2>2, <2>3, <2>4 DEF Handler
<1>3. CASE User
  BY <1>3 DEF User, TakeFrame, CallUser
<1>4. CASE UNCHANGED vars
  BY <1>4 DEF vars
<1> QED
  BY <1>1, <1>2, <1>3, <1>4 DEF Next

\* The application's steps keep the types.
LEMMA AppType == DataTypes /\ App => DataTypes'
<1> SUFFICES ASSUME DataTypes, App PROVE DataTypes'
  OBVIOUS
<1> USE ConstantsAssumption DEF DataTypes, AppLabels, TransferStates,
      Handlers, appVars, workingVars, heldVars, handlerVars, userVars, cameraVars
<1>1. CASE OpenCtrl
  <2>1. CASE Fresh
    <3>1. /\ working' \in Seq(1..MaxPackets) /\ held' \in Seq(1..MaxPackets)
          /\ delivered' \in Seq(Frames)
      BY <2>1, EmptyType DEF Fresh
    <3>2. frame' \in Frames
      BY <2>1, EmptyType DEF Fresh, Frames, NoFrame
    <3>3. /\ fid' \in 0..1 /\ seq' \in Nat
          /\ hold_seq' \in Nat /\ last_seq' \in Nat
      BY <2>1 DEF Fresh
    <3>4. sessions' \in 0..MaxSessions
      BY <1>1 DEF OpenCtrl
    <3>6. UNCHANGED <<transfers, handlerVars, cameraVars>>
      BY <1>1 DEF OpenCtrl
    <3>5. /\ appPc' \in AppLabels /\ handle' \in {"none", "open"}
          /\ userPc' \in {"none", "loop", "waiting", "reread", "ended"}
      BY <1>1 DEF OpenCtrl
    <3> QED
      BY <3>1, <3>2, <3>3, <3>4, <3>5, <3>6
  <2>2. CASE UNCHANGED <<handle, appPc, workingVars, heldVars, userVars>>
    BY <1>1, <2>2 DEF OpenCtrl
  <2> QED
    BY <1>1, <2>1, <2>2 DEF OpenCtrl
<1>2. CASE StartBandwidth
  <2>1. transfers' \in [Transfers -> TransferStates]
    BY <1>2 DEF StartBandwidth
  <2>2. /\ fid' \in 0..1 /\ seq' \in Nat /\ last_seq' \in Nat
        /\ appPc' \in AppLabels
        /\ userPc' \in {"none", "loop", "waiting", "reread", "ended"}
    BY <1>2 DEF StartBandwidth
  <2>3. UNCHANGED <<handle, sessions, working, heldVars, handlerVars, frame,
                    delivered, cameraVars>>
    BY <1>2 DEF StartBandwidth
  <2> QED
    BY <2>1, <2>2, <2>3
<1>3. ASSUME NEW t \in Transfers, SubmitTransfer(t) PROVE DataTypes'
  <2>1. transfers' \in [Transfers -> TransferStates]
    BY <1>3 DEF SubmitTransfer
  <2> QED
    BY <1>3, <2>1 DEF SubmitTransfer
<1>4. CASE Submitted
  BY <1>4 DEF Submitted
<1>5. CASE StopStreaming
  BY <1>5 DEF StopStreaming
<1>6. CASE CancelTransfers
  BY <1>6 DEF CancelTransfers, Drain, WakeUser
<1>7. CASE DrainTransfers
  BY <1>7 DEF DrainTransfers, Drain, WakeUser
<1>8. CASE JoinUser
  BY <1>8 DEF JoinUser
<1>9. CASE CloseStream
  BY <1>9 DEF CloseStream
<1> QED
  BY <1>1, <1>2, <1>3, <1>4, <1>5, <1>6, <1>7, <1>8, <1>9 DEF App

\* The event thread's steps keep the types.
LEMMA HandlerType == DataTypes /\ Handler => DataTypes'
<1> SUFFICES ASSUME DataTypes, Handler PROVE DataTypes'
  OBVIOUS
<1> USE ConstantsAssumption DEF DataTypes, TransferStates, Handlers,
      appVars, workingVars, heldVars, handlerVars, userVars, cameraVars
<1>1. ASSUME NEW t \in Transfers, StreamCallback(t) PROVE DataTypes'
  <2>1. transfers' \in [Transfers -> TransferStates] /\ current' \in Transfers
    BY <1>1 DEF StreamCallback
  <2>2. CASE Completed(t)
    BY <1>1, <2>1, <2>2 DEF StreamCallback, Completed
  <2>3. CASE Retried(t)
    <3>1. faults' \in [FaultKinds -> 0..MaxFaults]
      BY <2>3, FaultType DEF Retried, FaultKinds
    <3> QED
      BY <1>1, <2>1, <2>3, <3>1 DEF StreamCallback, Retried
  <2>4. CASE NotRetried(t)
    <3>1. faults' \in [FaultKinds -> 0..MaxFaults]
      BY <2>4, FaultType DEF NotRetried, FaultKinds
    <3> QED
      BY <1>1, <2>1, <2>4, <3>1 DEF StreamCallback, NotRetried
  <2>5. CASE Unplugged(t)
    BY <1>1, <2>1, <2>5 DEF StreamCallback, Unplugged
  <2> QED
    BY <1>1, <2>2, <2>3, <2>4, <2>5 DEF StreamCallback
<1>2. ASSUME NEW fault \in PacketFaults \cup {"none"}, ProcessHeader(fault)
      PROVE DataTypes'
  <2> DEFINE n == sent + 1
  <2>1. n \in 1..MaxPackets /\ sent' = n
    BY <1>2 DEF ProcessHeader
  <2>5. left' \in 0..PerTransfer
    <3>1. left' = left - 1 /\ left > 0
      BY <1>2 DEF ProcessHeader, MorePackets
    <3>2. PerTransfer \in Nat /\ left \in 0..PerTransfer
      OBVIOUS
    <3> QED
      BY <3>1, <3>2
  <2>6. faults' \in [FaultKinds -> 0..MaxFaults]
    BY <1>2, FaultType DEF ProcessHeader, FaultKinds
  <2>7. UNCHANGED <<handle, sessions, transfers, current, last_seq, frame, delivered>>
    BY <1>2 DEF ProcessHeader
  <2>8. sent' \in 0..MaxPackets
    BY <2>1
  <2>3. CASE Skipped(fault)
    <3>1. NoSwap /\ UNCHANGED <<working, fid, handlerPc, packet>>
      BY <1>2, <2>3 DEF ProcessHeader
    <3> QED
      BY <2>5, <2>6, <2>7, <2>8, <3>1, NoSwapType
  <2>4. CASE ~Skipped(fault)
    <3>1. /\ IF Toggled(n) THEN SwapBuffers(working, bfh_err)
                           ELSE NoSwap /\ UNCHANGED <<working, bfh_err>>
          /\ fid' = Fid(n) /\ handlerPc' = "data"
          /\ packet' = [num |-> n, fault |-> fault]
      BY <1>2, <2>4 DEF ProcessHeader
    <3>2. fid' \in 0..1
      BY <2>1, <3>1, FidType
    <3>3. packet' \in Packets /\ packet'.num \in 1..MaxPackets
      BY <2>1, <3>1, <1>2 DEF Packets
    <3>4. /\ held' \in Seq(1..MaxPackets)
          /\ hold_seq' \in Nat /\ seq' \in Nat
          /\ working' \in Seq(1..MaxPackets)
          /\ appPc' \in AppLabels
          /\ userPc' \in {"none", "loop", "waiting", "reread", "ended"}
      <4>1. CASE Toggled(n)
        BY <3>1, <4>1, SwapType
      <4>2. CASE ~Toggled(n)
        BY <3>1, <4>2, NoSwapType
      <4> QED
        BY <4>1, <4>2
    <3>5. handlerPc' \in Handlers
      BY <3>1
    <3> QED
      BY <2>5, <2>6, <2>7, <2>8, <3>2, <3>3, <3>4, <3>5
  <2> QED
    BY <2>3, <2>4
<1>3. CASE ProcessData
  <2> DEFINE data == IF Fits THEN Append(working, packet.num) ELSE working
             err == bfh_err \/ ~Fits
  <2>1. data \in Seq(1..MaxPackets)
    <3>1. packet.num \in 1..MaxPackets
      BY <1>3 DEF ProcessData
    <3>2. Append(working, packet.num) \in Seq(1..MaxPackets)
      BY <3>1
    <3> QED
      BY <3>2
  <2>2. /\ held' \in Seq(1..MaxPackets)
        /\ hold_seq' \in Nat /\ seq' \in Nat
        /\ working' \in Seq(1..MaxPackets)
        /\ appPc' \in AppLabels
        /\ userPc' \in {"none", "loop", "waiting", "reread", "ended"}
    <3>1. CASE packet.fault = "short"
      BY <1>3, <3>1, NoSwapType DEF ProcessData
    <3>2. CASE packet.fault # "short" /\ Eof(packet.num)
      <4>1. SwapBuffers(data, err)
        BY <1>3, <3>2 DEF ProcessData
      <4> QED
        BY <2>1, <4>1, SwapType
    <3>3. CASE packet.fault # "short" /\ ~Eof(packet.num)
      <4>1. NoSwap /\ working' = data /\ bfh_err' = err
        BY <1>3, <3>3 DEF ProcessData
      <4> QED
        BY <2>1, <4>1, NoSwapType
    <3> QED
      BY <3>1, <3>2, <3>3
  <2> QED
    BY <1>3, <2>2 DEF ProcessData
<1>4. CASE PayloadDone
  BY <1>4 DEF PayloadDone
<1>5. CASE Decide
  BY <1>5 DEF Decide
<1>6. CASE Resubmit
  BY <1>6 DEF Resubmit
<1>7. CASE DeleteTransfer
  BY <1>7 DEF DeleteTransfer, Broadcast, WakeUser, WakeApp, AppLabels
<1> QED
  BY <1>1, <1>2, <1>3, <1>4, <1>5, <1>6, <1>7 DEF Handler

\* The user thread's steps keep the types.
LEMMA UserType == DataTypes /\ User => DataTypes'
<1> SUFFICES ASSUME DataTypes, User PROVE DataTypes'
  OBVIOUS
<1> USE DEF DataTypes,
      appVars, workingVars, heldVars, handlerVars, userVars, cameraVars
<1>1. CASE TakeFrame
  <2>1. Populated \in Frames
    BY DEF Populated, Frames
  <2> QED
    BY <1>1, <2>1 DEF TakeFrame
<1>2. CASE CallUser
  BY <1>2 DEF CallUser
<1> QED
  BY <1>1, <1>2 DEF User

LEMMA TypeStep == TypeInv /\ [Next]_vars => TypeInv'
<1> SUFFICES ASSUME TypeInv, [Next]_vars PROVE TypeInv'
  OBVIOUS
<1>1. ASSUME UNCHANGED vars PROVE DataTypes'
  BY <1>1 DEF TypeInv, DataTypes, vars, appVars, workingVars, heldVars,
              handlerVars, userVars, cameraVars
<1>2. DataTypes'
  BY <1>1, AppType, HandlerType, UserType DEF Next, TypeInv
<1> QED
  BY <1>2, FlagStep DEF TypeInv

THEOREM StreamTypeInvariant == Spec => []TypeInv
BY TypeInit, TypeStep, PTL DEF Spec

\* Every variable of the stream has its type in every reachable state.
THEOREM StreamTypeCorrect == Spec => []TypeOK
<1>1. TypeInv => TypeOK
  BY DEF TypeInv, TypeOK, FlagTypes, DataTypes
<1> QED
  BY <1>1, StreamTypeInvariant, PTL

-----------------------------------------------------------------------------
\* As long as nothing was cut off, uvc_stream_close is reached either before
\* anything was started or through uvc_stream_stop: a transfer in its callback
\* is still in its slot, stop leaves its loop only when every slot is NULL, and
\* joins the user thread.
QuietLabels == {"idle", "start", "close"}

QuietInv ==
  /\ handlerPc # "idle" => transfers[current] = "callback"
  /\ handle = "none" <=> appPc = "idle"
  /\ appPc \in QuietLabels => Quiet
  /\ appPc = "join" => AllGone
  /\ running <=> appPc \in {"submit", "streaming"}

LEMMA QuietInit == Init => QuietInv
BY DEF Init, QuietInv, QuietLabels, Quiet, AllGone

\* A step of the handler is a step of a transfer in its slot: the application
\* is not at a label where all slots are NULL.
LEMMA HandlerBusy ==
  ASSUME TypeInv, QuietInv, handlerPc # "idle"
  PROVE  ~AllGone /\ appPc \notin QuietLabels \cup {"join"}
BY DEF TypeInv, DataTypes, QuietInv, Quiet, AllGone

LEMMA QuietApp == ASSUME TypeInv, QuietInv, ~cut', App PROVE QuietInv'
<1> USE DEF QuietInv, QuietLabels, Quiet, AllGone, TypeInv, DataTypes,
      appVars, workingVars, heldVars, handlerVars, userVars, cameraVars
<1>1. CASE OpenCtrl
  BY <1>1 DEF OpenCtrl
<1>2. CASE StartBandwidth
  BY <1>2 DEF StartBandwidth
<1>3. ASSUME NEW t \in Transfers, SubmitTransfer(t) PROVE QuietInv'
  BY <1>3 DEF SubmitTransfer
<1>4. CASE Submitted
  BY <1>4 DEF Submitted
<1>5. CASE StopStreaming
  BY <1>5 DEF StopStreaming
<1>6. CASE CancelTransfers
  BY <1>6 DEF CancelTransfers, Drain
<1>7. CASE DrainTransfers
  BY <1>7 DEF DrainTransfers, Drain
<1>8. CASE JoinUser
  BY <1>8 DEF JoinUser
<1>9. CASE CloseStream
  BY <1>9 DEF CloseStream
<1> QED
  BY <1>1, <1>2, <1>3, <1>4, <1>5, <1>6, <1>7, <1>8, <1>9 DEF App

\* What wakes the application or the user thread disturbs nothing.
LEMMA QuietWake ==
  ASSUME TypeInv, QuietInv, handlerPc # "idle", Broadcast \/ NoSwap,
         UNCHANGED <<handle, running>>,
         handlerPc' # "idle" => transfers'[current'] = "callback"
  PROVE  QuietInv'
<1>1. appPc \notin QuietLabels \cup {"join"}
  BY HandlerBusy
<1>2. /\ appPc' \notin QuietLabels \cup {"join"}
      /\ appPc' \in {"submit", "streaming"} <=> appPc \in {"submit", "streaming"}
  BY <1>1 DEF Broadcast, WakeApp, NoSwap, QuietLabels
<1> QED
  BY <1>1, <1>2 DEF QuietInv, QuietLabels

LEMMA QuietHandler ==
  ASSUME TypeInv, QuietInv, ~cut', Handler PROVE QuietInv'
<1>1. ASSUME NEW t \in Transfers, StreamCallback(t) PROVE QuietInv'
  <2>1. transfers[t] \in {"flying", "cancelling"} /\ UNCHANGED running
    BY <1>1 DEF StreamCallback, Completed, Retried, NotRetried, Unplugged
  <2>2. ~AllGone /\ appPc \notin QuietLabels \cup {"join"}
    BY <2>1 DEF QuietInv, AllGone, Quiet
  <2>3. transfers'[current'] = "callback" /\ UNCHANGED <<appPc, handle>>
    BY <1>1 DEF StreamCallback, appVars, TypeInv, DataTypes
  <2> QED
    BY <2>1, <2>2, <2>3 DEF QuietInv, QuietLabels
<1>2. ASSUME NEW fault \in PacketFaults \cup {"none"}, ProcessHeader(fault)
      PROVE QuietInv'
  BY <1>2, QuietWake DEF ProcessHeader, SwapBuffers, QuietInv
<1>3. CASE ProcessData
  BY <1>3, QuietWake DEF ProcessData, SwapBuffers, QuietInv
<1>4. CASE PayloadDone \/ Decide
  <2>1. handlerPc # "idle" /\ UNCHANGED <<appPc, handle, running, transfers, current>>
    BY <1>4 DEF PayloadDone, Decide, appVars
  <2> QED
    BY <2>1, HandlerBusy DEF QuietInv, QuietLabels
<1>5. CASE Resubmit
  <2>1. /\ handlerPc # "idle" /\ handlerPc' = "idle"
        /\ UNCHANGED <<appPc, handle, running>>
    BY <1>5 DEF Resubmit, appVars
  <2> QED
    BY <2>1, HandlerBusy DEF QuietInv, QuietLabels
<1>6. CASE DeleteTransfer
  BY <1>6, QuietWake DEF DeleteTransfer
<1> QED
  BY <1>1, <1>2, <1>3, <1>4, <1>5, <1>6 DEF Handler

LEMMA QuietUser == ASSUME TypeInv, QuietInv, User PROVE QuietInv'
BY DEF User, TakeFrame, CallUser, QuietInv, QuietLabels, Quiet, AllGone, appVars,
       handlerVars

\* What was cut off stays cut off.
LEMMA CutStays == ASSUME cut, [Next]_vars PROVE cut'
<1> USE DEF cameraVars
<1>1. CASE App
  BY <1>1 DEF App, OpenCtrl, StartBandwidth, SubmitTransfer, Submitted,
              StopStreaming, CancelTransfers, DrainTransfers, JoinUser,
              CloseStream
<1>2. CASE Handler
  BY <1>2 DEF Handler, StreamCallback, Completed, Retried, NotRetried, Unplugged,
              ProcessHeader, ProcessData, PayloadDone, Decide, Resubmit,
              DeleteTransfer
<1>3. CASE User
  BY <1>3 DEF User, TakeFrame, CallUser
<1>4. CASE UNCHANGED vars
  BY <1>4 DEF vars
<1> QED
  BY <1>1, <1>2, <1>3, <1>4 DEF Next

CutOrQuiet == ~cut => QuietInv

LEMMA QuietStep == TypeInv /\ CutOrQuiet /\ [Next]_vars => CutOrQuiet'
<1> SUFFICES ASSUME TypeInv, CutOrQuiet, [Next]_vars, ~cut' PROVE QuietInv'
  BY DEF CutOrQuiet
<1>1. QuietInv
  BY CutStays DEF CutOrQuiet
<1>2. CASE UNCHANGED vars
  BY <1>1, <1>2 DEF QuietInv, QuietLabels, Quiet, AllGone, vars, appVars,
                    handlerVars, userVars
<1> QED
  BY <1>1, <1>2, QuietApp, QuietHandler, QuietUser DEF Next

\* uvc_stream_close frees the handle only when no transfer can call back any
\* more and the user thread has ended, as long as the camera was not unplugged
\* and no first submission failed, whatever else fails.
THEOREM QuietClose == Spec => []CloseIsQuiet
<1>1. CutOrQuiet => CloseIsQuiet
  BY DEF CutOrQuiet, QuietInv, QuietLabels, CloseIsQuiet, StreamsEnd
<1>2. Init => CutOrQuiet
  BY QuietInit DEF CutOrQuiet
<1> QED
  BY <1>1, <1>2, QuietStep, StreamTypeInvariant, PTL DEF Spec

-----------------------------------------------------------------------------
(* The buffers.                                                            *)

\* What a step does to them: nothing, a new handle, a packet appended within
\* the buffer, or a swap of the bytes gathered so far.
BufferMoves ==
  \/ UNCHANGED <<working, held>>
  \/ /\ working' = <<>> /\ held' \in {<<>>, working}
  \/ \E n \in 1..MaxPackets :
       /\ Fits
       /\ \/ working' = Append(working, n) /\ held' = held
          \/ working' = <<>> /\ held' = Append(working, n)

LEMMA BufferMovesKeep ==
  ASSUME TypeInv, WithinBuffers, BufferMoves PROVE WithinBuffers'
<1>1. PICK s \in Seq(1..MaxPackets) : s = working
  BY DEF TypeInv, DataTypes
<1>2. SizeBuf \in Nat \ {0} /\ Len(<<>>) = 0
  BY ConstantsAssumption
<1>3. ASSUME NEW n \in 1..MaxPackets, Fits PROVE Len(Append(s, n)) < SizeBuf
  BY <1>1, <1>3 DEF Fits
<1> QED
  BY <1>1, <1>2, <1>3 DEF BufferMoves, WithinBuffers

LEMMA HandlerMoves == ASSUME TypeInv, Handler PROVE BufferMoves
<1>1. ASSUME NEW fault, ProcessHeader(fault) PROVE BufferMoves
  BY <1>1 DEF ProcessHeader, SwapBuffers, NoSwap, heldVars, BufferMoves
<1>2. CASE ProcessData
  <2>1. packet.num \in 1..MaxPackets
    BY <1>2 DEF ProcessData, TypeInv, DataTypes
  <2>2. CASE ~Eof(packet.num) \/ packet.fault = "short"
    BY <1>2, <2>1, <2>2 DEF ProcessData, NoSwap, heldVars, SwapBuffers, BufferMoves
  <2>3. CASE Eof(packet.num) /\ packet.fault # "short"
    BY <1>2, <2>1, <2>3 DEF ProcessData, SwapBuffers, BufferMoves
  <2> QED
    BY <2>2, <2>3
<1>3. CASE (\E t \in Transfers : StreamCallback(t)) \/ PayloadDone \/ Decide
           \/ Resubmit \/ DeleteTransfer
  BY <1>3 DEF StreamCallback, PayloadDone, Decide, Resubmit, DeleteTransfer,
              workingVars, heldVars, BufferMoves
<1> QED
  BY <1>1, <1>2, <1>3 DEF Handler

\* With the test of the bulk payload, and the assertion of the isochronous one,
\* the buffers are never filled to their end, for any size of them and whatever
\* packets are lost or flagged.
THEOREM BuffersHold == Spec => []WithinBuffers
<1>1. Init => WithinBuffers
  BY ConstantsAssumption DEF Init, WithinBuffers
<1>2. TypeInv /\ WithinBuffers /\ [Next]_vars => WithinBuffers'
  <2> SUFFICES ASSUME TypeInv, WithinBuffers, [Next]_vars PROVE WithinBuffers'
    OBVIOUS
  <2>1. BufferMoves
    <3>1. CASE App
      BY <3>1 DEF App, OpenCtrl, Fresh, StartBandwidth, SubmitTransfer, Submitted,
             StopStreaming, CancelTransfers, DrainTransfers, JoinUser,
             CloseStream, workingVars, heldVars, BufferMoves
    <3>2. CASE User
      BY <3>2 DEF User, TakeFrame, CallUser, workingVars, heldVars, BufferMoves
    <3>3. CASE UNCHANGED vars
      BY <3>3 DEF vars, workingVars, heldVars, BufferMoves
    <3> QED
      BY <3>1, <3>2, <3>3, HandlerMoves DEF Next
  <2> QED
    BY <2>1, BufferMovesKeep
<1> QED
  BY <1>1, <1>2, StreamTypeInvariant, PTL DEF Spec
=============================================================================
