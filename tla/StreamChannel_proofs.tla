------------------------ MODULE StreamChannel_proofs ------------------------
(***************************************************************************)
(* The stream of libuvc is an image channel: whatever packets are lost or  *)
(* broken and however the camera, the event thread and the user thread     *)
(* interleave, user_cb is called in the camera's order, and with no frame  *)
(* twice unless one was published as faulty.  And what user_cb is called   *)
(* with: packets of one image, or a whole image, as far as the faults that *)
(* leave no trace in a frame allow it.                                     *)
(***************************************************************************)
EXTENDS UvcStream_proofs

-----------------------------------------------------------------------------
\* A frame's number grows along its way: what user_cb got is not newer than
\* strmh->frame, that one not newer than last_seq, and so on.
NumbersGrow ==
  /\ -1 <= frame.num /\ frame.num <= last_seq /\ last_seq <= hold_seq
  /\ hold_seq < seq \/ (hold_seq = 0 /\ seq = 0)
  /\ frame.num < seq
  /\ \A i \in DOMAIN delivered : delivered[i].num <= frame.num

\* As long as no frame was published as faulty, the one about to be handed
\* over is new.
NextIsNew ==
  ~marked =>
    /\ ~hold_bfh_err
    /\ userPc = "reread" =>
         /\ 0 <= frame.num
         /\ \A i \in DOMAIN delivered : delivered[i].num < frame.num

\* A stream that was opened and not yet started is as calloc left it.
StartIsFresh ==
  appPc = "start" =>
    /\ Quiet /\ delivered = <<>> /\ frame = NoFrame
    /\ seq = 0 /\ hold_seq = 0 /\ last_seq = 0 /\ marked = FALSE
    /\ hold_bfh_err = FALSE

ChannelInv == NumbersGrow /\ NextIsNew /\ StartIsFresh

LEMMA NumberTypes ==
  ASSUME TypeInv
  PROVE  /\ seq \in Nat /\ hold_seq \in Nat /\ last_seq \in Nat
         /\ frame.num \in Int
         /\ \A i \in DOMAIN delivered : delivered[i].num \in Int
<1>1. seq \in Nat /\ hold_seq \in Nat /\ last_seq \in Nat
  BY DEF TypeInv, DataTypes
<1>2. frame \in Frames /\ delivered \in Seq(Frames)
  BY DEF TypeInv, DataTypes
<1>3. \A i \in DOMAIN delivered : delivered[i] \in Frames
  BY <1>2
<1> QED
  BY <1>1, <1>2, <1>3 DEF Frames

\* What a step on frames does not touch.
LEMMA KeepsChannel ==
  ASSUME ChannelInv, appPc # "start", appPc' # "start",
         UNCHANGED <<heldVars, seq, last_seq, frame, delivered>>,
         userPc' = "reread" => userPc = "reread"
  PROVE  ChannelInv'
BY DEF ChannelInv, NumbersGrow, NextIsNew, StartIsFresh, heldVars

LEMMA ChannelInvInit == Init => ChannelInv
<1> SUFFICES ASSUME Init PROVE ChannelInv
  OBVIOUS
<1>1. frame.num = -1 /\ DOMAIN delivered = {}
  BY DEF Init, NoFrame
<1> QED
  BY <1>1 DEF Init, ChannelInv, NumbersGrow, NextIsNew, StartIsFresh

-----------------------------------------------------------------------------
LEMMA ChannelInvApp == ASSUME TypeInv, ChannelInv, App PROVE ChannelInv'
<1> USE DEF appVars, workingVars, heldVars, handlerVars, userVars, cameraVars
<1>1. CASE OpenCtrl
  <2>1. CASE Fresh /\ userPc' = "none" /\ appPc' = "start"
    <3>1. Quiet'
      BY <1>1, <2>1 DEF OpenCtrl, Quiet, AllGone
    <3>2. frame'.num = -1 /\ DOMAIN delivered' = {}
      BY <2>1 DEF Fresh, NoFrame
    <3> QED
      BY <2>1, <3>1, <3>2
         DEF Fresh, ChannelInv, NumbersGrow, NextIsNew, StartIsFresh
  <2>2. CASE UNCHANGED <<handle, appPc, workingVars, heldVars, userVars>>
    BY <1>1, <2>2, KeepsChannel DEF OpenCtrl
  <2> QED
    BY <1>1, <2>1, <2>2 DEF OpenCtrl
<1>2. CASE StartBandwidth
  <2>1. /\ appPc = "start" /\ appPc' # "start" /\ userPc' # "reread"
        /\ UNCHANGED <<heldVars, frame, delivered>> /\ seq' = 0
        /\ last_seq' \in {last_seq, 0}
    <3>1. userPc' # "reread"
      BY <1>2 DEF StartBandwidth, ChannelInv, StartIsFresh, Quiet
    <3> QED
      BY <1>2, <3>1 DEF StartBandwidth
  <2>2. delivered = <<>> /\ frame.num = -1 /\ seq = 0 /\ hold_seq = 0
        /\ last_seq = 0 /\ ~hold_bfh_err
    BY <2>1 DEF ChannelInv, StartIsFresh, NoFrame
  <2>3. DOMAIN delivered' = {}
    BY <2>1, <2>2
  <2> QED
    BY <2>1, <2>2, <2>3 DEF ChannelInv, NumbersGrow, NextIsNew, StartIsFresh
<1>3. ASSUME NEW t \in Transfers, SubmitTransfer(t) PROVE ChannelInv'
  BY <1>3, KeepsChannel DEF SubmitTransfer
<1>4. CASE Submitted
  BY <1>4, KeepsChannel DEF Submitted
<1>5. CASE StopStreaming
  BY <1>5, KeepsChannel DEF StopStreaming
<1>6. CASE CancelTransfers
  BY <1>6, KeepsChannel DEF CancelTransfers, Drain, WakeUser
<1>7. CASE DrainTransfers
  BY <1>7, KeepsChannel DEF DrainTransfers, Drain, WakeUser
<1>8. CASE JoinUser
  BY <1>8, KeepsChannel DEF JoinUser
<1>9. CASE CloseStream
  BY <1>9, KeepsChannel DEF CloseStream
<1> QED
  BY <1>1, <1>2, <1>3, <1>4, <1>5, <1>6, <1>7, <1>8, <1>9 DEF App

\* The event thread does nothing before the stream is started.
LEMMA HandlerStarted ==
  ASSUME TypeInv, ChannelInv, Handler PROVE appPc # "start"
<1> SUFFICES ASSUME appPc = "start" PROVE FALSE
  OBVIOUS
<1>1. handlerPc = "idle" /\ \A t \in Transfers : transfers[t] = "null"
  BY DEF ChannelInv, StartIsFresh, Quiet, AllGone
<1> QED
  BY <1>1 DEF Handler, StreamCallback, Completed, Retried, NotRetried, Unplugged,
              ProcessHeader, ProcessData, PayloadDone, Decide, Resubmit,
              DeleteTransfer

LEMMA WakeKeeps ==
  ASSUME Broadcast, appPc # "start"
  PROVE  appPc' # "start" /\ (userPc' = "reread" => userPc = "reread")
BY DEF Broadcast, WakeApp, WakeUser

\* Publishing a frame.
LEMMA SwapKeeps ==
  ASSUME TypeInv, ChannelInv, appPc # "start", NEW data, NEW err \in BOOLEAN,
         SwapBuffers(data, err), UNCHANGED <<last_seq, frame, delivered>>
  PROVE  ChannelInv'
<1>1. appPc' # "start" /\ (userPc' = "reread" => userPc = "reread")
  BY WakeKeeps DEF SwapBuffers
<1>2. /\ hold_seq' = seq /\ seq' = seq + 1 /\ hold_bfh_err' = err
      /\ marked' = (marked \/ err)
  BY DEF SwapBuffers
<1>3. seq \in Nat /\ hold_seq \in Nat /\ last_seq \in Nat /\ frame.num \in Int
  BY NumberTypes
<1>4. NumbersGrow'
  BY <1>2, <1>3 DEF ChannelInv, NumbersGrow
<1>5. NextIsNew'
  BY <1>1, <1>2 DEF ChannelInv, NextIsNew
<1> QED
  BY <1>1, <1>4, <1>5 DEF ChannelInv, StartIsFresh

LEMMA NoSwapKeeps ==
  ASSUME ChannelInv, appPc # "start", NoSwap,
         UNCHANGED <<last_seq, frame, delivered>>
  PROVE  ChannelInv'
BY KeepsChannel DEF NoSwap

\* A step of the event thread publishes a frame or touches none.
LEMMA HandlerSwaps ==
  ASSUME TypeInv, Handler
  PROVE  /\ UNCHANGED <<last_seq, frame, delivered>>
         /\ \/ \E data \in {working, Append(working, packet.num)}, err \in BOOLEAN :
                 SwapBuffers(data, err)
            \/ NoSwap
            \/ Broadcast /\ UNCHANGED <<heldVars, seq>>
<1> USE DEF appVars, workingVars, heldVars, userVars
<1>1. ASSUME NEW t \in Transfers, StreamCallback(t)
      PROVE  NoSwap /\ UNCHANGED <<last_seq, frame, delivered>>
  BY <1>1 DEF StreamCallback, NoSwap
<1>2. ASSUME NEW fault \in PacketFaults \cup {"none"}, ProcessHeader(fault)
      PROVE  /\ SwapBuffers(working, bfh_err) \/ NoSwap
             /\ UNCHANGED <<last_seq, frame, delivered>>
  BY <1>2 DEF ProcessHeader
<1>3. ASSUME ProcessData
      PROVE  /\ \/ SwapBuffers(IF Fits THEN Append(working, packet.num) ELSE working,
                               bfh_err \/ ~Fits)
                \/ NoSwap
             /\ UNCHANGED <<last_seq, frame, delivered>>
  BY <1>3 DEF ProcessData
<1>4. ASSUME PayloadDone \/ Decide \/ Resubmit
      PROVE  NoSwap /\ UNCHANGED <<last_seq, frame, delivered>>
  BY <1>4 DEF PayloadDone, Decide, Resubmit, NoSwap
<1>5. ASSUME DeleteTransfer
      PROVE  /\ Broadcast /\ UNCHANGED <<heldVars, seq>>
             /\ UNCHANGED <<last_seq, frame, delivered>>
  BY <1>5 DEF DeleteTransfer
<1>6. bfh_err \in BOOLEAN /\ (bfh_err \/ ~Fits) \in BOOLEAN
  BY DEF TypeInv, FlagTypes
<1> QED
  BY <1>1, <1>2, <1>3, <1>4, <1>5, <1>6 DEF Handler

LEMMA ChannelInvHandler == ASSUME TypeInv, ChannelInv, Handler PROVE ChannelInv'
<1>1. appPc # "start"
  BY HandlerStarted
<1>2. CASE Broadcast /\ UNCHANGED <<heldVars, seq>>
  BY <1>1, <1>2, HandlerSwaps, WakeKeeps, KeepsChannel
<1> QED
  BY <1>1, <1>2, HandlerSwaps, SwapKeeps, NoSwapKeeps

LEMMA ChannelInvUser == ASSUME TypeInv, ChannelInv, User PROVE ChannelInv'
<1>1. /\ seq \in Nat /\ hold_seq \in Nat /\ last_seq \in Nat /\ frame.num \in Int
      /\ \A i \in DOMAIN delivered : delivered[i].num \in Int
  BY NumberTypes
<1>2. appPc # "start" /\ UNCHANGED <<appPc, heldVars, seq>>
  BY DEF User, TakeFrame, CallUser, ChannelInv, StartIsFresh, Quiet, appVars,
         workingVars
<1>3. CASE TakeFrame
  <2>1. CASE UNCHANGED <<last_seq, frame>> /\ userPc' # "reread"
    BY <1>2, <1>3, <2>1, KeepsChannel DEF TakeFrame
  <2>2. CASE /\ last_seq # hold_seq /\ last_seq' = hold_seq
             /\ frame' = Populated /\ userPc' = "reread"
    <3>1. frame'.num = IF hold_bfh_err THEN frame.num ELSE hold_seq
      BY <2>2 DEF Populated
    <3>2. UNCHANGED <<delivered, hold_seq, seq, marked, hold_bfh_err>>
      BY <1>2, <1>3 DEF TakeFrame, heldVars
    <3>3. last_seq < hold_seq
      BY <1>1, <2>2 DEF ChannelInv, NumbersGrow
    <3>8. frame.num <= frame'.num /\ frame'.num <= hold_seq /\ hold_seq < seq
      BY <1>1, <3>1, <3>3 DEF ChannelInv, NumbersGrow
    <3>9. frame'.num \in Int
      BY <1>1, <3>1
    <3>10. \A i \in DOMAIN delivered : delivered[i].num <= frame'.num
      BY <1>1, <3>8, <3>9 DEF ChannelInv, NumbersGrow
    <3>11. -1 <= frame'.num /\ frame'.num < seq
      BY <1>1, <3>8, <3>9 DEF ChannelInv, NumbersGrow
    <3>4. NumbersGrow'
      BY <1>1, <2>2, <3>2, <3>8, <3>10, <3>11 DEF NumbersGrow
    <3>5. ASSUME ~marked PROVE ~hold_bfh_err /\ frame'.num = hold_seq
      BY <3>1, <3>5 DEF ChannelInv, NextIsNew
    <3>6. ASSUME ~marked
          PROVE  /\ 0 <= frame'.num
                 /\ \A i \in DOMAIN delivered : delivered[i].num < frame'.num
      <4>1. frame.num < hold_seq /\ 0 <= hold_seq /\ frame'.num = hold_seq
        BY <1>1, <3>3, <3>5, <3>6 DEF ChannelInv, NumbersGrow
      <4>2. ASSUME NEW i \in DOMAIN delivered PROVE delivered[i].num < frame'.num
        <5>1. delivered[i].num <= frame.num /\ delivered[i].num \in Int
          BY <1>1 DEF ChannelInv, NumbersGrow
        <5> QED
          BY <1>1, <4>1, <5>1
      <4> QED
        BY <4>1, <4>2
    <3>7. NextIsNew'
      BY <3>2, <3>5, <3>6 DEF NextIsNew
    <3> QED
      BY <1>2, <3>4, <3>7 DEF ChannelInv, StartIsFresh
  <2> QED
    BY <1>3, <2>1, <2>2 DEF TakeFrame
<1>4. CASE CallUser
  <2>1. /\ userPc' # "reread" /\ UNCHANGED <<last_seq, frame>>
        /\ delivered' \in {delivered, Append(delivered, frame)}
    BY <1>4 DEF CallUser
  <2>2. \A i \in DOMAIN delivered' : delivered'[i].num <= frame.num
    <3>1. CASE delivered' = delivered
      BY <3>1 DEF ChannelInv, NumbersGrow
    <3>2. CASE delivered' = Append(delivered, frame)
      <4>1. delivered \in Seq(Frames) /\ frame \in Frames
        BY DEF TypeInv, DataTypes
      <4>2. ASSUME NEW i \in DOMAIN delivered'
            PROVE  delivered'[i] = frame \/ (i \in DOMAIN delivered
                                             /\ delivered'[i] = delivered[i])
        BY <3>2, <4>1
      <4> QED
        BY <1>1, <4>2 DEF ChannelInv, NumbersGrow
    <3> QED
      BY <2>1, <3>1, <3>2
  <2> QED
    BY <1>2, <2>1, <2>2 DEF ChannelInv, NumbersGrow, NextIsNew, StartIsFresh, heldVars
<1> QED
  BY <1>3, <1>4 DEF User

LEMMA ChannelInvStep == TypeInv /\ ChannelInv /\ [Next]_vars => ChannelInv'
<1> SUFFICES ASSUME TypeInv, ChannelInv, [Next]_vars PROVE ChannelInv'
  OBVIOUS
<1>1. CASE UNCHANGED vars
  BY <1>1 DEF vars, appVars, workingVars, heldVars, handlerVars, userVars,
              ChannelInv, NumbersGrow, NextIsNew, StartIsFresh, Quiet, AllGone
<1> QED
  BY <1>1, ChannelInvApp, ChannelInvHandler, ChannelInvUser DEF Next

THEOREM NumbersAndFlags == Spec => []ChannelInv
BY ChannelInvInit, ChannelInvStep, StreamTypeInvariant, PTL DEF Spec

-----------------------------------------------------------------------------
(* The refinement.                                                         *)

\* Handing over a frame appends its number.
LEMMA HandedAppend ==
  ASSUME TypeInv, delivered' = Append(delivered, frame)
  PROVE  Handed' = Append(Handed, frame.num + 1)
<1>1. delivered \in Seq(Frames) /\ frame \in Frames
  BY DEF TypeInv, DataTypes
<1>2. Handed \in Seq(Int) /\ frame.num + 1 \in Int
  <2>1. \A i \in DOMAIN delivered : delivered[i].num + 1 \in Int
    BY NumberTypes
  <2>2. DOMAIN delivered = 1..Len(delivered) /\ Len(delivered) \in Nat
    BY <1>1
  <2>3. Handed \in Seq(Int)
    BY <2>1, <2>2 DEF Handed
  <2> QED
    BY <2>3, NumberTypes
<1>3. DOMAIN Handed' = DOMAIN Append(Handed, frame.num + 1)
  BY <1>1, <1>2 DEF Handed
<1>4. \A i \in DOMAIN Handed' : Handed'[i] = Append(Handed, frame.num + 1)[i]
  BY <1>1, <1>2 DEF Handed
<1> QED
  BY <1>1, <1>2, <1>3, <1>4 DEF Handed

LEMMA ChannelInit == Init => Channel!Init
BY DEF Init, Channel!Init, Handed

LEMMA ChannelStep ==
  TypeInv /\ ChannelInv /\ [Next]_vars => [Channel!Next]_<<seq, Handed, marked>>
<1> SUFFICES ASSUME TypeInv, ChannelInv, [Next]_vars,
                    ~UNCHANGED <<seq, Handed, marked>>
             PROVE  Channel!Next
  OBVIOUS
<1>1. ~UNCHANGED <<seq, delivered, marked>>
  BY DEF Handed
<1>2. CASE App
  <2>1. ~StartBandwidth
    BY <1>1 DEF StartBandwidth, heldVars, ChannelInv, StartIsFresh
  <2>2. OpenCtrl /\ Fresh
    BY <1>1, <1>2, <2>1
       DEF App, OpenCtrl, SubmitTransfer, Submitted, StopStreaming,
           CancelTransfers, DrainTransfers, JoinUser, CloseStream, workingVars,
           heldVars, userVars
  <2>3. Channel!Reopen
    BY <2>2 DEF Fresh, Channel!Reopen, Handed
  <2> QED
    BY <2>3 DEF Channel!Next
<1>3. CASE Handler
  <2>1. PICK data \in {working, Append(working, packet.num)}, err \in BOOLEAN :
           SwapBuffers(data, err)
    BY <1>1, <1>3, HandlerSwaps DEF NoSwap, heldVars
  <2>2. seq' = seq + 1 /\ marked' \in {marked, TRUE}
    BY <2>1 DEF SwapBuffers, TypeInv, FlagTypes
  <2>3. Handed' = Handed
    BY <1>3, HandlerSwaps DEF Handed
  <2> QED
    BY <2>2, <2>3 DEF Channel!Next, Channel!Offer
<1>4. CASE User
  <2>1. /\ userPc = "reread" /\ UNCHANGED <<seq, marked>>
        /\ delivered' = Append(delivered, frame)
    BY <1>1, <1>4 DEF User, TakeFrame, CallUser, workingVars, heldVars
  <2> DEFINE n == frame.num + 1
  <2>2. n \in 0..seq
    BY NumberTypes DEF ChannelInv, NumbersGrow
  <2>3. Handed' = Append(Handed, n)
    BY <2>1, HandedAppend
  <2>4. \A i \in DOMAIN Handed : Handed[i] = delivered[i].num + 1
                               /\ i \in DOMAIN delivered /\ delivered[i].num \in Int
    BY NumberTypes DEF Handed
  <2>5. frame.num \in Int
    BY NumberTypes
  <2>6. CASE marked
    <3>1. \A i \in DOMAIN Handed : Handed[i] <= n
      BY <2>4, <2>5 DEF ChannelInv, NumbersGrow
    <3> QED
      BY <2>1, <2>2, <2>3, <2>6, <3>1
         DEF Channel!Next, Channel!HandOver, Channel!Again
  <2>7. CASE ~marked
    <3>1. 0 <= frame.num /\ \A i \in DOMAIN delivered : delivered[i].num < frame.num
      BY <2>1, <2>7 DEF ChannelInv, NextIsNew
    <3>2. n > 0 /\ \A i \in DOMAIN Handed : Handed[i] < n
      BY <2>4, <2>5, <3>1
    <3> QED
      BY <2>1, <2>2, <2>3, <3>2
         DEF Channel!Next, Channel!HandOver, Channel!InOrder
  <2> QED
    BY <2>6, <2>7
<1>5. CASE UNCHANGED vars
  BY <1>1, <1>5 DEF vars, workingVars, heldVars, userVars
<1> QED
  BY <1>2, <1>3, <1>4, <1>5 DEF Next

\* The stream of libuvc is an image channel from _uvc_swap_buffers to user_cb:
\* frames are handed over in their order, and each once until one is published
\* as faulty, for any packets, faults, transfers and sessions.
THEOREM StreamIsChannel == Spec => ImplementsChannel
<1>1. Spec => Channel!Spec
  BY ChannelInit, ChannelStep, NumbersAndFlags, StreamTypeInvariant, PTL
     DEF Spec, Channel!Spec
<1> QED
  BY <1>1 DEF ImplementsChannel

-----------------------------------------------------------------------------
(* Packets and images.                                                     *)

\* The place of a packet in its image, from 0.
Place(n) == (n - 1) % Parts

LEMMA PartsType == Parts \in Nat \ {0}
BY ConstantsAssumption

\* Division with rest, and its products.
LEMMA DivMod ==
  ASSUME NEW P \in Nat \ {0}, NEW n \in Int
  PROVE  /\ n \div P \in Int /\ n % P \in 0..(P - 1)
         /\ n = (P * (n \div P)) + (n % P)
OBVIOUS

LEMMA DivModUnique ==
  ASSUME NEW P \in Nat \ {0}, NEW q \in Int, NEW r \in 0..(P - 1), NEW n \in Int,
         n = (P * q) + r
  PROVE  n \div P = q /\ n % P = r
OBVIOUS

LEMMA Product ==
  ASSUME NEW P \in Nat, NEW a \in Int
  PROVE  P * a \in Int /\ P * (a + 1) = (P * a) + P /\ P * (a + 2) = (P * a) + P + P
OBVIOUS

LEMMA ProductGrows ==
  ASSUME NEW P \in Nat, NEW a \in Int, NEW b \in Int, a <= b
  PROVE  P * a <= P * b
OBVIOUS

\* A packet is at a place of its image.
LEMMA PlaceOf ==
  ASSUME NEW n \in Int
  PROVE  /\ Image(n) \in Int /\ Place(n) \in 0..(Parts - 1)
         /\ n = (Parts * Image(n)) + Place(n) + 1
<1> DEFINE m == n - 1
<1>1. m \in Int /\ n = m + 1
  OBVIOUS
<1>2. Image(n) = m \div Parts /\ Place(n) = m % Parts
  BY DEF Image, Place
<1> HIDE DEF m
<1>3. /\ m \div Parts \in Int /\ m % Parts \in 0..(Parts - 1)
      /\ m = (Parts * (m \div Parts)) + (m % Parts)
  BY <1>1, PartsType, DivMod
<1>4. m = (Parts * Image(n)) + Place(n) /\ Parts * Image(n) \in Int
  BY <1>2, <1>3, PartsType, Product
<1> QED
  BY <1>1, <1>2, <1>3, <1>4, PartsType

LEMMA PlaceUnique ==
  ASSUME NEW q \in Int, NEW r \in 0..(Parts - 1), NEW n \in Int,
         n = (Parts * q) + r + 1
  PROVE  Image(n) = q /\ Place(n) = r
<1> DEFINE m == n - 1
<1>1. Parts * q \in Int
  BY PartsType, Product
<1>2. m \in Int /\ m = (Parts * q) + r
  BY <1>1, PartsType
<1>3. Image(n) = m \div Parts /\ Place(n) = m % Parts
  BY DEF Image, Place
<1> HIDE DEF m
<1> QED
  BY <1>2, <1>3, PartsType, DivModUnique

\* The last place is that of the EOF bit.
LEMMA EofPlace ==
  ASSUME NEW n \in Int
  PROVE  Eof(n) <=> Place(n) = Parts - 1
<1> DEFINE q == Image(n)
           r == Place(n)
           s == Parts * q
<1>1. q \in Int /\ r \in 0..(Parts - 1) /\ n = s + r + 1 /\ s \in Int
  BY PlaceOf, Product, PartsType
<1>2. s + Parts = Parts * (q + 1) /\ s = Parts * q
  BY <1>1, Product, PartsType
<1> HIDE DEF q, r, s
<1>3. CASE r = Parts - 1
  <2> DEFINE v == q + 1
  <2>1. v \in Int /\ 0 \in 0..(Parts - 1) /\ n = (Parts * v) + 0
    BY <1>1, <1>2, <1>3, PartsType
  <2> HIDE DEF v
  <2>2. n % Parts = 0
    BY <2>1, DivModUnique, PartsType
  <2> QED
    BY <2>2, <1>3 DEF Eof, r
<1>4. CASE r # Parts - 1
  <2> DEFINE v == r + 1
  <2>1. v \in 0..(Parts - 1) /\ q \in Int /\ n = (Parts * q) + v /\ v # 0
    BY <1>1, <1>2, <1>4, PartsType
  <2> HIDE DEF v
  <2>2. n % Parts = v
    BY <2>1, DivModUnique, PartsType
  <2> QED
    BY <2>1, <2>2, <1>4 DEF Eof, r
<1> QED
  BY <1>3, <1>4

\* The packet after n.
LEMMA NextPlace ==
  ASSUME NEW n \in Int
  PROVE  IF Eof(n) THEN Image(n + 1) = Image(n) + 1 /\ Place(n + 1) = 0
                   ELSE Image(n + 1) = Image(n) /\ Place(n + 1) = Place(n) + 1
<1> DEFINE q == Image(n)
           r == Place(n)
           s == Parts * q
<1>1. q \in Int /\ r \in 0..(Parts - 1) /\ n = s + r + 1 /\ s \in Int
  BY PlaceOf, Product, PartsType
<1>2. s + Parts = Parts * (q + 1) /\ s = Parts * q
  BY <1>1, Product, PartsType
<1>3. Eof(n) <=> r = Parts - 1
  BY EofPlace
<1> HIDE DEF q, r, s
<1>4. CASE r = Parts - 1
  <2>1. q + 1 \in Int /\ 0 \in 0..(Parts - 1) /\ n + 1 \in Int
    BY <1>1, PartsType
  <2>2. n + 1 = (Parts * (q + 1)) + 0 + 1
    BY <1>1, <1>2, <1>4, PartsType
  <2>3. Image(n + 1) = q + 1 /\ Place(n + 1) = 0
    BY <2>1, <2>2, PlaceUnique
  <2> QED
    BY <1>3, <1>4, <2>3 DEF q
<1>5. CASE r # Parts - 1
  <2>1. r + 1 \in 0..(Parts - 1) /\ n + 1 \in Int
    BY <1>1, <1>5, PartsType
  <2>2. n + 1 = (Parts * q) + (r + 1) + 1
    BY <1>1, <1>2, <1>5, PartsType
  <2>3. Image(n + 1) = q /\ Place(n + 1) = r + 1
    BY <1>1, <2>1, <2>2, PlaceUnique
  <2> QED
    BY <1>3, <1>5, <2>3 DEF q, r
<1> QED
  BY <1>4, <1>5

\* Images follow each other.
LEMMA ImagesGrow ==
  ASSUME NEW m \in Int, NEW n \in Int, m <= n
  PROVE  Image(m) <= Image(n)
<1> DEFINE q == Image(n)
           r == Place(n)
           t == Image(m)
           u == Place(m)
<1>1. /\ q \in Int /\ r \in 0..(Parts - 1) /\ n = (Parts * q) + r + 1
      /\ t \in Int /\ u \in 0..(Parts - 1) /\ m = (Parts * t) + u + 1
  BY PlaceOf
<1>2. /\ Parts * q \in Int /\ Parts * t \in Int /\ Parts * (q + 1) = (Parts * q) + Parts
  BY <1>1, Product, PartsType
<1>3. t <= q \/ Parts * (q + 1) <= Parts * t
  BY <1>1, ProductGrows, PartsType
<1> HIDE DEF q, r, t, u
<1>4. t <= q
  BY <1>1, <1>2, <1>3, PartsType
<1> QED
  BY <1>4 DEF q, t

\* Between a packet that is not the last of its image and one two images on lie all
\* packets of an image and one more.
LEMMA SkippedImage ==
  ASSUME NEW m \in Int, NEW n \in Int, ~Eof(m), Image(m) + 2 <= Image(n)
  PROVE  n - m >= Parts + 2
<1> DEFINE q == Image(n)
           r == Place(n)
           t == Image(m)
           u == Place(m)
<1>1. /\ q \in Int /\ r \in 0..(Parts - 1) /\ n = (Parts * q) + r + 1
      /\ t \in Int /\ u \in 0..(Parts - 1) /\ m = (Parts * t) + u + 1
  BY PlaceOf
<1>2. u # Parts - 1 /\ t + 2 <= q
  BY EofPlace
<1>3. /\ Parts * q \in Int /\ Parts * t \in Int
      /\ Parts * (t + 2) = (Parts * t) + Parts + Parts
  BY <1>1, Product, PartsType
<1>4. Parts * (t + 2) <= Parts * q
  BY <1>1, <1>2, ProductGrows, PartsType
<1> HIDE DEF q, r, t, u
<1> QED
  BY <1>1, <1>2, <1>3, <1>4, PartsType

-----------------------------------------------------------------------------
(* What the buffers hold.                                                  *)

\* The packets are of one image, in their order.
OneImage(data) ==
  \A j, k \in DOMAIN data :
    Image(data[j]) = Image(data[k]) /\ (j < k => data[j] < data[k])

\* The packets are those an image begins with.
Begun(data) ==
  \A j \in DOMAIN data : data[j] = (Image(data[1]) * Parts) + j /\ j <= Parts

Whole(data) == data # <<>> => Begun(data) /\ Len(data) = Parts

\* The last packet of a frame.
LastOf(data) == data[Len(data)]

LEMMA Appending ==
  ASSUME NEW T, NEW data \in Seq(T), NEW n \in T
  PROVE  /\ Len(data) \in Nat /\ Append(data, n) \in Seq(T)
         /\ DOMAIN data = 1..Len(data) /\ DOMAIN Append(data, n) = 1..(Len(data) + 1)
         /\ Len(Append(data, n)) = Len(data) + 1
         /\ Append(data, n)[Len(data) + 1] = n
         /\ \A i \in 1..Len(data) : Append(data, n)[i] = data[i] /\ data[i] \in T
         /\ data = <<>> <=> Len(data) = 0
<1>1. data = <<>> <=> Len(data) = 0
  OBVIOUS
<1>2. \A i \in 1..Len(data) : Append(data, n)[i] = data[i] /\ data[i] \in T
  OBVIOUS
<1> QED
  BY <1>1, <1>2

\* The same for the packets of a buffer.
LEMMA Appended ==
  ASSUME NEW data \in Seq(1..MaxPackets), NEW n \in 1..MaxPackets
  PROVE  /\ Len(data) \in Nat /\ DOMAIN data = 1..Len(data)
         /\ DOMAIN Append(data, n) = 1..(Len(data) + 1)
         /\ Append(data, n)[Len(data) + 1] = n
         /\ \A i \in 1..Len(data) : Append(data, n)[i] = data[i] /\ data[i] \in 1..MaxPackets
         /\ data = <<>> <=> Len(data) = 0
<1>1. Len(data) \in Nat /\ DOMAIN data = 1..Len(data)
  OBVIOUS
<1>2. DOMAIN Append(data, n) = 1..(Len(data) + 1)
  BY ONLY Appending, data \in Seq(1..MaxPackets), n \in 1..MaxPackets
<1>3. Append(data, n)[Len(data) + 1] = n
  BY ONLY Appending, data \in Seq(1..MaxPackets), n \in 1..MaxPackets
<1>4. \A i \in 1..Len(data) : Append(data, n)[i] = data[i] /\ data[i] \in 1..MaxPackets
  BY ONLY Appending, data \in Seq(1..MaxPackets), n \in 1..MaxPackets
<1>5. data = <<>> <=> Len(data) = 0
  BY ONLY Appending, data \in Seq(1..MaxPackets), n \in 1..MaxPackets
<1> QED
  BY <1>1, <1>2, <1>3, <1>4, <1>5

LEMMA LastType ==
  ASSUME NEW T, NEW data \in Seq(T), data # <<>>
  PROVE  /\ LastOf(data) \in T /\ data[1] \in T
         /\ Len(data) \in DOMAIN data /\ Len(data) \in Nat \ {0}
BY DEF LastOf

LEMMA AppendsOneImage ==
  ASSUME NEW data \in Seq(1..MaxPackets), NEW n \in 1..MaxPackets, OneImage(data),
         data # <<>> => Image(LastOf(data)) = Image(n) /\ LastOf(data) < n
  PROVE  OneImage(Append(data, n))
<1> DEFINE l == Len(data)
           e == Append(data, n)
<1>1. /\ l \in Nat /\ DOMAIN data = 1..l /\ DOMAIN e = 1..(l + 1) /\ e[l + 1] = n
      /\ \A i \in 1..l : e[i] = data[i] /\ data[i] \in 1..MaxPackets
      /\ data = <<>> <=> l = 0
  BY ONLY Appended, data \in Seq(1..MaxPackets), n \in 1..MaxPackets
<1>2. data # <<>> => Image(data[l]) = Image(n) /\ data[l] < n
  BY DEF LastOf
<1> HIDE DEF l, e
<1>3. ASSUME NEW i \in 1..l
      PROVE  Image(data[i]) = Image(n) /\ data[i] < n
  <2>1. l \in 1..l /\ data # <<>>
    BY <1>1
  <2>2. Image(data[i]) = Image(data[l]) /\ (i < l => data[i] < data[l])
    BY <1>1, <2>1 DEF OneImage
  <2>3. data[i] \in Int /\ data[l] \in Int /\ n \in Int
    BY <1>1, <2>1
  <2> QED
    BY <1>1, <1>2, <2>1, <2>2, <2>3
<1>4. ASSUME NEW j \in 1..(l + 1), NEW k \in 1..(l + 1)
      PROVE  Image(e[j]) = Image(e[k]) /\ (j < k => e[j] < e[k])
  <2>1. CASE j = l + 1 /\ k = l + 1
    BY <2>1, <1>1
  <2>2. CASE j = l + 1 /\ k # l + 1
    <3>1. k \in 1..l /\ ~(j < k)
      BY <1>1, <2>2
    <3> QED
      BY <1>1, <1>3, <2>2, <3>1
  <2>3. CASE j # l + 1 /\ k = l + 1
    <3>1. j \in 1..l
      BY <1>1, <2>3
    <3> QED
      BY <1>1, <1>3, <2>3, <3>1
  <2>4. CASE j # l + 1 /\ k # l + 1
    <3>1. j \in 1..l /\ k \in 1..l
      BY <1>1, <2>4
    <3> QED
      BY <1>1, <3>1 DEF OneImage
  <2> QED
    BY <2>1, <2>2, <2>3, <2>4
<1> QED
  BY <1>1, <1>4 DEF OneImage, e

\* The place of the last packet of a beginning is given by its length.
LEMMA BegunLast ==
  ASSUME NEW data \in Seq(1..MaxPackets), data # <<>>, Begun(data)
  PROVE  /\ Len(data) \in 1..Parts
         /\ LastOf(data) = (Image(data[1]) * Parts) + Len(data)
         /\ Eof(LastOf(data)) <=> Len(data) = Parts
<1> DEFINE l == Len(data)
           q == Image(data[1])
           m == LastOf(data)
<1>1. m \in Int /\ l \in DOMAIN data /\ l \in Nat \ {0} /\ data[1] \in Int
  <2>1. m \in 1..MaxPackets /\ data[1] \in 1..MaxPackets
    BY LastType
  <2> QED
    BY <2>1, LastType
<1>2. m = (q * Parts) + l /\ l <= Parts
  BY <1>1 DEF Begun, LastOf
<1>3. q \in Int
  BY <1>1, PlaceOf
<1>4. Parts * q = q * Parts /\ Parts * q \in Int
  BY <1>3, Product, PartsType
<1>5. Eof(m) <=> Place(m) = Parts - 1
  BY <1>1, EofPlace
<1> HIDE DEF l, q, m
<1> DEFINE r == l - 1
<1>6. r \in 0..(Parts - 1) /\ m = (Parts * q) + r + 1 /\ l = r + 1
  BY <1>1, <1>2, <1>4, PartsType
<1> HIDE DEF r
<1>7. Place(m) = r
  BY <1>1, <1>3, <1>6, PlaceUnique
<1>8. l \in 1..Parts /\ m = (q * Parts) + l /\ (Eof(m) <=> l = Parts)
  BY <1>1, <1>2, <1>5, <1>6, <1>7, PartsType
<1> QED
  BY <1>8 DEF l, q, m

LEMMA AppendsBegun ==
  ASSUME NEW data \in Seq(1..MaxPackets), NEW n \in 1..MaxPackets,
         IF data = <<>> THEN Place(n) = 0
                        ELSE Begun(data) /\ ~Eof(LastOf(data)) /\ n = LastOf(data) + 1
  PROVE  Begun(Append(data, n))
<1> DEFINE l == Len(data)
           e == Append(data, n)
<1>1. /\ l \in Nat /\ DOMAIN data = 1..l /\ DOMAIN e = 1..(l + 1) /\ e[l + 1] = n
      /\ \A i \in 1..l : e[i] = data[i] /\ data[i] \in 1..MaxPackets
      /\ data = <<>> <=> l = 0
  BY ONLY Appended, data \in Seq(1..MaxPackets), n \in 1..MaxPackets
<1>2. CASE data = <<>>
  <2>1. DOMAIN e = {1} /\ e[1] = n
    BY <1>1, <1>2
  <2>2. n = (Parts * Image(n)) + 0 + 1 /\ Image(n) \in Int
    BY <1>2, PlaceOf
  <2>3. Parts * Image(n) = Image(n) * Parts /\ Parts * Image(n) \in Int
    BY <2>2, Product, PartsType
  <2>4. n = (Image(n) * Parts) + 1 /\ 1 <= Parts
    BY <2>2, <2>3, PartsType
  <2> QED
    BY <2>1, <2>4 DEF Begun
<1>3. CASE data # <<>>
  <2> DEFINE c == Image(data[1]) * Parts
  <2>1. l \in 1..(Parts - 1) /\ LastOf(data) = c + l /\ n = LastOf(data) + 1
    BY <1>3, BegunLast, PartsType
  <2>2. e[1] = data[1] /\ LastOf(data) \in Int
    BY <1>1, <1>3, LastType
  <2>5. \A i \in 1..l : e[i] = c + i /\ i <= Parts
    BY <1>1, <1>3 DEF Begun
  <2>6. Image(e[1]) * Parts = c
    BY <2>2
  <2>7. c \in Int
    <3>1. Image(data[1]) \in Int
      BY <1>1, <2>1, PlaceOf
    <3> QED
      BY <3>1, PartsType, Product
  <2> HIDE DEF c, l, e
  <2>3. e[l + 1] = c + (l + 1) /\ l + 1 <= Parts
    BY <1>1, <2>1, <2>2, <2>7, PartsType
  <2>4. \A i \in 1..(l + 1) : e[i] = c + i /\ i <= Parts
    BY <1>1, <2>3, <2>5
  <2> QED
    BY <1>1, <2>4, <2>6 DEF Begun, e
<1> QED
  BY <1>2, <1>3

LEMMA EmptyFrames == OneImage(<<>>) /\ Whole(<<>>)
BY DEF OneImage, Whole

-----------------------------------------------------------------------------
(* The frame being assembled.                                              *)

\* The last packet that was gone through to its end.
Cur == IF handlerPc = "data" THEN sent - 1 ELSE sent

\* The frame is of the image whose FID bit the stream remembers, and has not
\* got its EOF bit; the packets gone through since its last one were lost, if
\* it was not flagged.
PartInv ==
  /\ appPc = "start" => working = <<>>
  /\ handlerPc = "data" =>
       /\ packet.num = sent /\ sent > 0 /\ fid = Fid(sent)
       /\ packet.fault = "short" => faults["flagged"] > 0
  /\ working # <<>> =>
       /\ LastOf(working) <= Cur /\ ~Eof(LastOf(working))
       /\ fid = Fid(LastOf(working))
       /\ bfh_err \/ Cur - LastOf(working) <= faults["lost"]

\* A frame put together from two images is flagged, wherever it is.
OneImageInv ==
  faults["lost"] <= Parts =>
    /\ bfh_err \/ OneImage(working)
    /\ hold_bfh_err \/ OneImage(held)
    /\ OneImage(frame.data)
    /\ \A i \in DOMAIN delivered : OneImage(delivered[i].data)

AtMostOneFlagged == faults["flagged"] <= 1 /\ faults["lost"] = 0

\* From the second frame on, one that is not flagged is begun at the beginning
\* of an image; the packet with the EOF bit can only be missed when it was the
\* one that was flagged.
WholeInv ==
  AtMostOneFlagged =>
    /\ working # <<>> =>
         Image(Cur) = Image(LastOf(working)) /\ (Eof(Cur) => faults["flagged"] = 1)
    /\ ~bfh_err /\ seq > 0 => IF working = <<>> THEN Eof(Cur) ELSE Begun(working)
    /\ ~hold_bfh_err /\ hold_seq > 0 => Whole(held)
    /\ Whole(frame.data)
    /\ \A i \in DOMAIN delivered : Whole(delivered[i].data)

DataInv == PartInv /\ OneImageInv /\ WholeInv

\* Faults are only added.
FaultsGrow ==
  /\ faults["lost"] <= faults'["lost"] /\ faults["flagged"] <= faults'["flagged"]
  /\ {faults["lost"], faults["flagged"], faults'["lost"], faults'["flagged"]} \subseteq Nat

LEMMA FaultNumbers ==
  ASSUME TypeInv
  PROVE  faults["lost"] \in Nat /\ faults["flagged"] \in Nat
<1>1. \A k \in FaultKinds : faults[k] \in 0..MaxFaults
  BY DEF TypeInv, DataTypes
<1> QED
  BY <1>1 DEF FaultKinds

LEMMA OneFault ==
  ASSUME TypeInv, NEW kind \in FaultKinds, Fault(kind)
  PROVE  /\ FaultsGrow
         /\ \A k \in FaultKinds : faults'[k] = IF k = kind THEN faults[k] + 1 ELSE faults[k]
<1>1. \A k \in FaultKinds : faults'[k] = IF k = kind THEN faults[k] + 1 ELSE faults[k]
  BY DEF TypeInv, DataTypes, Fault
<1>2. {"lost", "flagged"} \subseteq FaultKinds
  BY DEF FaultKinds
<1> QED
  BY <1>1, <1>2, FaultNumbers DEF FaultsGrow

LEMMA NoFault ==
  ASSUME TypeInv, UNCHANGED faults
  PROVE  FaultsGrow
BY FaultNumbers DEF FaultsGrow

LEMMA CurType ==
  ASSUME TypeInv
  PROVE  sent \in Nat /\ Cur \in Int
BY ConstantsAssumption DEF TypeInv, DataTypes, Cur

LEMMA LastOfWorking ==
  ASSUME TypeInv, working # <<>>
  PROVE  LastOf(working) \in 1..MaxPackets /\ LastOf(working) \in Int
<1>1. LastOf(working) \in 1..MaxPackets
  BY LastType, Zenon DEF TypeInv, DataTypes
<1> QED
  BY <1>1

LEMMA Later ==
  ASSUME NEW c \in Int, NEW l \in Int, NEW a \in Nat, NEW b \in Nat, c - l <= a, a <= b
  PROVE  c - l <= b
OBVIOUS

\* Steps that go through no packet, publish and take nothing.
LEMMA KeepsData ==
  ASSUME TypeInv, DataInv, FaultsGrow, appPc' # "start" \/ UNCHANGED appPc,
         UNCHANGED <<workingVars, heldVars, sent, frame, delivered>>,
         (handlerPc # "data" /\ handlerPc' # "data") \/ UNCHANGED <<handlerPc, packet>>
  PROVE  DataInv'
<1>1. /\ Cur' = Cur /\ LastOf(working)' = LastOf(working)
      /\ UNCHANGED <<working, fid, bfh_err, seq, held, hold_bfh_err, hold_seq>>
  BY DEF Cur, LastOf, workingVars, heldVars
<1>2. PartInv'
  <2>1. CASE working = <<>>
    BY <1>1, <2>1 DEF DataInv, PartInv, FaultsGrow
  <2>2. CASE working # <<>>
    <3>1. bfh_err \/ Cur - LastOf(working) <= faults["lost"]
      BY <2>2 DEF DataInv, PartInv
    <3>2. Cur \in Int /\ LastOf(working) \in Int
      BY <2>2, CurType, LastOfWorking
    <3>3. bfh_err \/ Cur' - LastOf(working)' <= faults'["lost"]
      BY <1>1, <3>1, <3>2, Later DEF FaultsGrow
    <3> QED
      BY <1>1, <2>2, <3>3 DEF DataInv, PartInv, FaultsGrow
  <2> QED
    BY <2>1, <2>2
<1>3. OneImageInv'
  BY <1>1, PartsType DEF DataInv, OneImageInv, FaultsGrow
<1>4. AtMostOneFlagged' => AtMostOneFlagged /\ (faults["flagged"] = 1 => faults'["flagged"] = 1)
  BY DEF AtMostOneFlagged, FaultsGrow
<1>5. WholeInv'
  BY <1>1, <1>4 DEF DataInv, WholeInv
<1> QED
  BY <1>2, <1>3, <1>5 DEF DataInv

\* What the user thread does is the same whatever the event thread is at.
LEMMA UserKeepsData ==
  ASSUME TypeInv, ChannelInv, DataInv, User
  PROVE  DataInv'
<1>1. /\ UNCHANGED <<appPc, working, fid, bfh_err, seq, held, hold_bfh_err, hold_seq>>
      /\ UNCHANGED <<sent, faults, handlerPc, packet>>
  BY DEF User, TakeFrame, CallUser, appVars, workingVars, heldVars, handlerVars,
     cameraVars
<1>2. /\ Cur' = Cur /\ LastOf(working)' = LastOf(working)
      /\ AtMostOneFlagged' = AtMostOneFlagged
  BY <1>1 DEF Cur, LastOf, AtMostOneFlagged
<1>3. PartInv'
  BY <1>1, <1>2 DEF DataInv, PartInv
<1>4. frame' = frame \/ (~hold_bfh_err /\ hold_seq > 0 /\ frame'.data = held)
  <2>1. last_seq # hold_seq => hold_seq > 0
    BY NumberTypes DEF ChannelInv, NumbersGrow
  <2> QED
    BY <2>1 DEF User, TakeFrame, CallUser, Populated
<1>5. ASSUME NEW i \in DOMAIN delivered'
      PROVE  delivered'[i] = frame \/ (i \in DOMAIN delivered /\ delivered'[i] = delivered[i])
  <2>1. delivered' = delivered \/ delivered' = Append(delivered, frame)
    BY DEF User, TakeFrame, CallUser
  <2>2. delivered \in Seq(Frames) /\ frame \in Frames
    BY DEF TypeInv, DataTypes
  <2> QED
    BY <2>1, <2>2
<1>6. OneImageInv'
  <2> SUFFICES ASSUME faults["lost"] <= Parts PROVE
        /\ OneImage(frame'.data)
        /\ \A i \in DOMAIN delivered' : OneImage(delivered'[i].data)
    BY <1>1 DEF OneImageInv, DataInv
  <2> QED
    BY <1>4, <1>5 DEF OneImageInv, DataInv
<1>7. WholeInv'
  <2> SUFFICES ASSUME AtMostOneFlagged PROVE
        /\ Whole(frame'.data)
        /\ \A i \in DOMAIN delivered' : Whole(delivered'[i].data)
    BY <1>1, <1>2 DEF WholeInv, DataInv
  <2> QED
    BY <1>4, <1>5 DEF WholeInv, DataInv
<1> QED
  BY <1>3, <1>6, <1>7 DEF DataInv

LEMMA AppKeepsData ==
  ASSUME TypeInv, ChannelInv, DataInv, App
  PROVE  DataInv'
<1> USE DEF appVars, workingVars, heldVars, handlerVars, userVars, cameraVars
<1>1. CASE OpenCtrl
  <2>1. handlerPc # "data" /\ handlerPc' # "data" /\ UNCHANGED <<faults, sent>>
    BY <1>1 DEF OpenCtrl, Quiet
  <2>2. CASE Fresh
    <3>1. /\ working' = <<>> /\ held' = <<>> /\ frame'.data = <<>> /\ hold_seq' = 0
          /\ seq' = 0 /\ DOMAIN delivered' = {}
      BY <2>2 DEF Fresh, NoFrame
    <3>2. PartInv' /\ OneImageInv' /\ WholeInv'
      BY <2>1, <3>1, EmptyFrames DEF PartInv, OneImageInv, WholeInv
    <3> QED
      BY <3>2 DEF DataInv
  <2>3. CASE UNCHANGED <<appPc, workingVars, heldVars, userVars>>
    BY <2>1, <2>3, NoFault, KeepsData
  <2> QED
    BY <1>1, <2>2, <2>3 DEF OpenCtrl
<1>2. CASE StartBandwidth
  <2>1. /\ handlerPc # "data" /\ handlerPc' # "data"
        /\ UNCHANGED <<faults, sent, frame, delivered, held, hold_bfh_err, hold_seq>>
        /\ working = <<>> /\ working' = <<>> /\ seq' = 0
    BY <1>2 DEF StartBandwidth, ChannelInv, StartIsFresh, Quiet, DataInv, PartInv
  <2>2. AtMostOneFlagged' = AtMostOneFlagged
    BY <2>1 DEF AtMostOneFlagged
  <2>3. PartInv' /\ OneImageInv' /\ WholeInv'
    BY <2>1, <2>2, EmptyFrames DEF DataInv, PartInv, OneImageInv, WholeInv
  <2> QED
    BY <2>3 DEF DataInv
<1>3. CASE ~OpenCtrl /\ ~StartBandwidth
  <2>1. /\ appPc' # "start"
        /\ UNCHANGED <<working, fid, bfh_err, seq, heldVars, handlerPc, packet, sent, faults>>
        /\ UNCHANGED <<frame, delivered>>
    BY <1>3 DEF App, SubmitTransfer, Submitted, StopStreaming, CancelTransfers,
       DrainTransfers, Drain, JoinUser, CloseStream
  <2> QED
    BY <2>1, NoFault, KeepsData
<1> QED
  BY <1>1, <1>2, <1>3

-----------------------------------------------------------------------------
(* The event thread.                                                       *)

\* FID bits differ in neighbouring images.
LEMMA FidParity ==
  ASSUME NEW m \in Int, NEW n \in Int
  PROVE  /\ Image(m) = Image(n) => Fid(m) = Fid(n)
         /\ Image(n) = Image(m) + 1 => Fid(m) # Fid(n)
         /\ Fid(m) = Fid(n) /\ Image(m) < Image(n) => Image(m) + 2 <= Image(n)
<1> DEFINE p == Image(m)
           q == Image(n)
<1>1. p \in Int /\ q \in Int
  BY PlaceOf
<1> HIDE DEF p, q
<1>2. /\ p = q => p % 2 = q % 2
      /\ q = p + 1 => p % 2 # q % 2
      /\ p % 2 = q % 2 /\ p < q => p + 2 <= q
  BY <1>1
<1> QED
  BY <1>2 DEF p, q, Fid

\* The packet that is due after a frame of which few packets were lost is of its
\* image, if its FID bit is.
LEMMA SameImage ==
  ASSUME TypeInv, PartInv, working # <<>>, handlerPc = "data", ~bfh_err,
         faults["lost"] <= Parts
  PROVE  Image(LastOf(working)) = Image(packet.num) /\ LastOf(working) < packet.num
<1> DEFINE m == LastOf(working)
           n == packet.num
           f == faults["lost"]
<1>1. /\ m <= n - 1 /\ ~Eof(m) /\ Fid(m) = Fid(n) /\ n - 1 - m <= f
      /\ n = sent
  BY DEF PartInv, Cur
<1>2. m \in Int /\ n \in Int /\ f \in Nat /\ Parts \in Nat /\ f <= Parts
  BY <1>1, LastOfWorking, CurType, FaultNumbers, PartsType
<1> HIDE DEF m, n, f
<1>3. m <= n /\ m < n
  BY <1>1, <1>2
<1>4. Image(m) <= Image(n) /\ Image(m) \in Int /\ Image(n) \in Int
  BY <1>2, <1>3, ImagesGrow, PlaceOf
<1>5. ~(Image(m) + 2 <= Image(n))
  <2>1. ~(n - m >= Parts + 2)
    BY <1>1, <1>2
  <2> QED
    BY <1>1, <1>2, <2>1, SkippedImage
<1>6. ~(Image(m) < Image(n))
  BY <1>1, <1>2, <1>5, FidParity
<1>7. Image(m) = Image(n)
  BY <1>4, <1>6
<1> QED
  BY <1>3, <1>7 DEF m, n

\* With nothing lost, its FID bit tells what image a packet is of.
LEMMA NextImage ==
  ASSUME TypeInv, PartInv, WholeInv, AtMostOneFlagged, working # <<>>
  PROVE  IF Fid(Cur + 1) = fid
         THEN Image(Cur + 1) = Image(LastOf(working))
         ELSE Eof(Cur)
<1>1. Cur \in Int /\ LastOf(working) \in Int
  BY LastOfWorking, CurType
<1>2. Image(Cur) = Image(LastOf(working)) /\ fid = Fid(LastOf(working))
  BY DEF WholeInv, PartInv
<1>3. Image(Cur) \in Int /\ Cur + 1 \in Int
  BY <1>1, PlaceOf
<1>4. CASE Eof(Cur)
  <2>1. Image(Cur + 1) = Image(Cur) + 1
    BY <1>1, <1>4, NextPlace
  <2>2. Fid(LastOf(working)) # Fid(Cur + 1)
    BY <1>1, <1>2, <1>3, <2>1, FidParity
  <2> QED
    BY <1>2, <1>4, <2>2
<1>5. CASE ~Eof(Cur)
  <2>1. Image(Cur + 1) = Image(LastOf(working))
    BY <1>1, <1>2, <1>5, NextPlace
  <2>2. Fid(LastOf(working)) = Fid(Cur + 1)
    BY <1>1, <1>3, <2>1, FidParity
  <2> QED
    BY <1>2, <2>1, <2>2
<1> QED
  BY <1>4, <1>5

\* Nothing is lost and the frame is not flagged: it has the last packet.
LEMMA NoneMissed ==
  ASSUME TypeInv, PartInv, AtMostOneFlagged, working # <<>>, ~bfh_err
  PROVE  Cur = LastOf(working)
<1>1. Cur \in Int /\ LastOf(working) \in Int
  BY LastOfWorking, CurType
<1>2. LastOf(working) <= Cur /\ Cur - LastOf(working) <= 0
  BY DEF PartInv, AtMostOneFlagged
<1> QED
  BY <1>1, <1>2

\* The data of a packet that fits goes to the frame of its image.
LEMMA DataAppended ==
  ASSUME TypeInv, DataInv, handlerPc = "data", ~bfh_err,
         NEW data, data = Append(working, packet.num)
  PROVE  /\ faults["lost"] <= Parts => OneImage(data)
         /\ AtMostOneFlagged /\ seq > 0 =>
              /\ Begun(data)
              /\ Eof(packet.num) => Len(data) = Parts
<1>1. working \in Seq(1..MaxPackets) /\ packet.num \in 1..MaxPackets
  BY DEF TypeInv, DataTypes
<1>2. packet.num \in Int /\ Cur \in Int /\ Cur + 1 = packet.num
  BY <1>1, CurType DEF Cur, DataInv, PartInv
<1>3. ASSUME faults["lost"] <= Parts
      PROVE  OneImage(data)
  <2>1. OneImage(working)
    BY <1>3 DEF DataInv, OneImageInv
  <2>2. working # <<>> =>
          Image(LastOf(working)) = Image(packet.num) /\ LastOf(working) < packet.num
    BY <1>3, SameImage DEF DataInv
  <2> QED
    BY <1>1, <2>1, <2>2, AppendsOneImage
<1>4. ASSUME AtMostOneFlagged, seq > 0
      PROVE  Begun(data) /\ (Eof(packet.num) => Len(data) = Parts)
  <2>1. IF working = <<>>
        THEN Place(packet.num) = 0
        ELSE Begun(working) /\ ~Eof(LastOf(working)) /\ packet.num = LastOf(working) + 1
    <3>1. CASE working = <<>>
      <4>1. Eof(Cur)
        BY <1>4, <3>1 DEF DataInv, WholeInv
      <4>2. Place(Cur + 1) = 0
        BY <1>2, <4>1, NextPlace
      <4> QED
        BY <1>2, <3>1, <4>2
    <3>2. CASE working # <<>>
      <4>1. Begun(working) /\ ~Eof(LastOf(working)) /\ Cur = LastOf(working)
        BY <1>4, <3>2, NoneMissed DEF DataInv, WholeInv, PartInv
      <4> QED
        BY <1>2, <3>2, <4>1
    <3> QED
      BY <3>1, <3>2
  <2>2. Begun(data)
    BY <1>1, <2>1, AppendsBegun
  <2>3. data \in Seq(1..MaxPackets) /\ data # <<>> /\ LastOf(data) = packet.num
    BY <1>1 DEF LastOf
  <2> QED
    BY <2>2, <2>3, BegunLast
<1> QED
  BY <1>3, <1>4

\* Publishing what was assembled.
LEMMA SwapFacts ==
  ASSUME NEW data, NEW err, SwapBuffers(data, err)
  PROVE  /\ held' = data /\ hold_bfh_err' = err /\ hold_seq' = seq /\ seq' = seq + 1
         /\ working' = <<>> /\ bfh_err' = FALSE
         /\ appPc' # "start" \/ UNCHANGED appPc
BY DEF SwapBuffers, Broadcast, WakeApp

LEMMA NoSwapFacts ==
  ASSUME NoSwap
  PROVE  UNCHANGED <<held, hold_bfh_err, hold_seq, seq, appPc>>
BY DEF NoSwap, heldVars

\* A packet dropped before its header is looked at was lost, or flags the frame.
LEMMA SkipKeepsData ==
  ASSUME TypeInv, DataInv, NEW fault \in PacketFaults \cup {"none"},
         ProcessHeader(fault), Skipped(fault)
  PROVE  DataInv'
<1>1. /\ handlerPc = "payload" /\ handlerPc' = "payload" /\ sent' = sent + 1
      /\ bfh_err' = (bfh_err \/ fault \in Noticed)
      /\ UNCHANGED <<working, fid, frame, delivered>> /\ NoSwap
      /\ fault # "none"
      /\ Fault(IF fault \in Noticed THEN "flagged" ELSE "lost")
  BY DEF ProcessHeader, Skipped, Flags
<1>2. UNCHANGED <<held, hold_bfh_err, hold_seq, seq, appPc>>
  BY <1>1, NoSwapFacts
<1>3. /\ FaultsGrow
      /\ IF fault \in Noticed THEN faults'["flagged"] = faults["flagged"] + 1
                              ELSE faults'["lost"] = faults["lost"] + 1
  BY <1>1, OneFault DEF FaultKinds
<1>4. Cur = sent /\ Cur' = Cur + 1 /\ Cur \in Int
  BY <1>1, CurType DEF Cur
<1>5. LastOf(working)' = LastOf(working)
  BY <1>1 DEF LastOf
<1>6. faults["lost"] \in Nat /\ faults["flagged"] \in Nat
  BY FaultNumbers
<1>7. PartInv'
  <2>1. CASE working = <<>>
    BY <1>1, <1>2, <2>1 DEF DataInv, PartInv
  <2>2. CASE working # <<>>
    <3>1. /\ LastOf(working) <= Cur /\ LastOf(working) \in Int
          /\ bfh_err \/ Cur - LastOf(working) <= faults["lost"]
      BY <2>2, LastOfWorking DEF DataInv, PartInv
    <3>3. LastOf(working) <= Cur'
      BY <1>4, <3>1
    <3>4. CASE fault \in Noticed \/ bfh_err
      BY <1>1, <1>2, <1>5, <2>2, <3>3, <3>4 DEF DataInv, PartInv
    <3>5. CASE fault \notin Noticed /\ ~bfh_err
      <4>1. faults'["lost"] = faults["lost"] + 1 /\ Cur - LastOf(working) <= faults["lost"]
        BY <1>3, <3>1, <3>5
      <4>2. Cur' - LastOf(working) <= faults'["lost"]
        BY <1>4, <1>6, <3>1, <4>1
      <4> QED
        BY <1>1, <1>2, <1>5, <2>2, <3>3, <4>2 DEF DataInv, PartInv
    <3> QED
      BY <3>4, <3>5
  <2> QED
    BY <2>1, <2>2
<1>8. OneImageInv'
  <2>1. bfh_err => bfh_err'
    BY <1>1
  <2> QED
    BY <1>1, <1>2, <1>3, <2>1, PartsType DEF DataInv, OneImageInv, FaultsGrow
<1>9. WholeInv'
  <2> SUFFICES ASSUME AtMostOneFlagged' PROVE WholeInv'
    BY DEF WholeInv
  <2>1. /\ AtMostOneFlagged /\ fault \in Noticed
        /\ faults["flagged"] = 0 /\ faults'["flagged"] = 1
    BY <1>3, <1>6 DEF AtMostOneFlagged, FaultsGrow
  <2>2. ASSUME working # <<>>
        PROVE  Image(Cur)' = Image(LastOf(working))'
    <3>1. ~Eof(Cur) /\ Image(Cur) = Image(LastOf(working))
      BY <2>1, <2>2 DEF DataInv, WholeInv
    <3>2. Image(Cur + 1) = Image(Cur)
      BY <1>4, <3>1, NextPlace
    <3> QED
      BY <1>4, <1>5, <3>1, <3>2 DEF Image
  <2> QED
    BY <1>1, <1>2, <2>1, <2>2 DEF DataInv, WholeInv
<1> QED
  BY <1>7, <1>8, <1>9 DEF DataInv

\* The header of a packet that is not dropped.
LEMMA HeaderFacts ==
  ASSUME TypeInv, DataInv, NEW fault \in PacketFaults \cup {"none"},
         ProcessHeader(fault), ~Skipped(fault)
  PROVE  /\ handlerPc = "payload" /\ handlerPc' = "data" /\ sent' = sent + 1
         /\ Cur = sent /\ Cur' = Cur /\ Cur \in Int /\ Cur + 1 = sent' /\ sent' > 0
         /\ fid' = Fid(sent') /\ packet' = [num |-> sent', fault |-> fault]
         /\ UNCHANGED <<frame, delivered>> /\ FaultsGrow
         /\ fault = "short" => faults'["flagged"] > 0
         /\ IF Toggled(sent') THEN SwapBuffers(working, bfh_err)
                              ELSE NoSwap /\ UNCHANGED <<working, bfh_err>>
         /\ AtMostOneFlagged' =>
              AtMostOneFlagged /\ (faults["flagged"] = 1 => faults'["flagged"] = 1)
<1>1. /\ handlerPc = "payload" /\ handlerPc' = "data" /\ sent' = sent + 1
      /\ fid' = Fid(sent') /\ packet' = [num |-> sent', fault |-> fault]
      /\ UNCHANGED <<frame, delivered>>
      /\ \/ fault = "none" /\ UNCHANGED faults
         \/ fault # "none" /\ Fault(IF fault \in Noticed THEN "flagged" ELSE "lost")
      /\ IF Toggled(sent') THEN SwapBuffers(working, bfh_err)
                           ELSE NoSwap /\ UNCHANGED <<working, bfh_err>>
  BY DEF ProcessHeader
<1>2. sent \in Nat /\ Cur = sent /\ Cur' = sent'- 1
  BY <1>1, CurType DEF Cur
<1>3. FaultsGrow /\ (fault = "short" => faults'["flagged"] > 0)
  <2>1. CASE fault = "none"
    BY <1>1, <2>1, NoFault
  <2>2. CASE fault # "none"
    <3>1. Fault(IF fault \in Noticed THEN "flagged" ELSE "lost")
      BY <1>1, <2>2
    <3>2. FaultsGrow
      BY <3>1, OneFault DEF FaultKinds
    <3>3. ASSUME fault = "short" PROVE faults'["flagged"] > 0
      <4>1. faults'["flagged"] = faults["flagged"] + 1
        BY <3>1, <3>3, OneFault DEF FaultKinds, Noticed
      <4> QED
        BY <4>1, FaultNumbers
    <3> QED
      BY <3>2, <3>3
  <2> QED
    BY <2>1, <2>2
<1>4. AtMostOneFlagged' =>
        AtMostOneFlagged /\ (faults["flagged"] = 1 => faults'["flagged"] = 1)
  BY <1>3 DEF AtMostOneFlagged, FaultsGrow
<1>5. Cur' = Cur /\ Cur \in Int /\ Cur + 1 = sent' /\ sent' > 0
  BY <1>1, <1>2
<1> QED
  BY <1>1, <1>2, <1>3, <1>4, <1>5

\* A frame whose image has ended without its EOF bit is published.
LEMMA ToggleKeepsData ==
  ASSUME TypeInv, DataInv, NEW fault \in PacketFaults \cup {"none"},
         ProcessHeader(fault), ~Skipped(fault), Toggled(sent')
  PROVE  DataInv'
<1>1. /\ handlerPc' = "data" /\ Cur' = Cur /\ Cur + 1 = sent' /\ sent' > 0
      /\ fid' = Fid(sent') /\ packet'.num = sent' /\ packet'.fault = fault
      /\ UNCHANGED <<frame, delivered>> /\ FaultsGrow
      /\ fault = "short" => faults'["flagged"] > 0
      /\ SwapBuffers(working, bfh_err)
      /\ AtMostOneFlagged' =>
           AtMostOneFlagged /\ (faults["flagged"] = 1 => faults'["flagged"] = 1)
  BY HeaderFacts
<1>2. /\ held' = working /\ hold_bfh_err' = bfh_err /\ hold_seq' = seq /\ seq' = seq + 1
      /\ working' = <<>> /\ bfh_err' = FALSE
  BY <1>1, SwapFacts
<1>3. working # <<>> /\ fid # Fid(Cur + 1)
  BY <1>1 DEF Toggled
<1>4. PartInv'
  BY <1>1, <1>2 DEF PartInv
<1>5. OneImageInv'
  BY <1>1, <1>2, PartsType, EmptyFrames DEF DataInv, OneImageInv, FaultsGrow
<1>6. WholeInv'
  <2> SUFFICES ASSUME AtMostOneFlagged' PROVE WholeInv'
    BY DEF WholeInv
  <2>1. AtMostOneFlagged /\ Eof(Cur)
    BY <1>1, <1>3, NextImage DEF DataInv
  <2>2. bfh_err
    <3>1. ASSUME ~bfh_err PROVE FALSE
      <4>1. Cur = LastOf(working) /\ ~Eof(LastOf(working))
        BY <1>3, <2>1, <3>1, NoneMissed DEF DataInv, PartInv
      <4> QED
        BY <2>1, <4>1
    <3> QED
      BY <3>1
  <2>3. Eof(Cur)'
    BY <1>1, <2>1 DEF Eof
  <2> QED
    BY <1>1, <1>2, <2>1, <2>2, <2>3 DEF DataInv, WholeInv
<1> QED
  BY <1>4, <1>5, <1>6 DEF DataInv

LEMMA HeaderKeepsData ==
  ASSUME TypeInv, DataInv, NEW fault \in PacketFaults \cup {"none"},
         ProcessHeader(fault), ~Skipped(fault), ~Toggled(sent')
  PROVE  DataInv'
<1>1. /\ handlerPc' = "data" /\ Cur' = Cur /\ Cur + 1 = sent' /\ sent' > 0
      /\ fid' = Fid(sent') /\ packet'.num = sent' /\ packet'.fault = fault
      /\ UNCHANGED <<frame, delivered, working, bfh_err>> /\ FaultsGrow /\ NoSwap
      /\ fault = "short" => faults'["flagged"] > 0
      /\ AtMostOneFlagged' =>
           AtMostOneFlagged /\ (faults["flagged"] = 1 => faults'["flagged"] = 1)
  BY HeaderFacts
<1>2. UNCHANGED <<held, hold_bfh_err, hold_seq, seq, appPc>>
  BY <1>1, NoSwapFacts
<1>3. LastOf(working)' = LastOf(working) /\ (working # <<>> => fid' = fid)
  BY <1>1 DEF LastOf, Toggled
<1>4. PartInv'
  <2>1. CASE working = <<>>
    BY <1>1, <1>2, <2>1 DEF DataInv, PartInv
  <2>2. CASE working # <<>>
    <3>1. bfh_err \/ Cur - LastOf(working) <= faults["lost"]
      BY <2>2 DEF DataInv, PartInv
    <3>2. Cur \in Int /\ LastOf(working) \in Int
      BY <2>2, CurType, LastOfWorking
    <3>3. bfh_err \/ Cur' - LastOf(working)' <= faults'["lost"]
      BY <1>1, <1>3, <3>1, <3>2, Later DEF FaultsGrow
    <3> QED
      BY <1>1, <1>2, <1>3, <2>2, <3>3 DEF DataInv, PartInv
  <2> QED
    BY <2>1, <2>2
<1>5. OneImageInv'
  BY <1>1, <1>2, PartsType DEF DataInv, OneImageInv, FaultsGrow
<1>6. WholeInv'
  BY <1>1, <1>2, <1>3 DEF DataInv, WholeInv
<1> QED
  BY <1>4, <1>5, <1>6 DEF DataInv

\* The data of a packet.
LEMMA PayloadFacts ==
  ASSUME TypeInv, DataInv, ProcessData
  PROVE  /\ handlerPc = "data" /\ handlerPc' = "payload" /\ packet.num = Cur + 1
         /\ Cur' = Cur + 1 /\ Cur \in Int /\ packet.num \in 1..MaxPackets
         /\ UNCHANGED <<fid, frame, delivered, sent, faults>>
         /\ fid = Fid(Cur + 1) /\ (packet.fault = "short" => faults["flagged"] > 0)
         /\ AtMostOneFlagged' = AtMostOneFlagged
<1>1. /\ handlerPc = "data" /\ handlerPc' = "payload"
      /\ UNCHANGED <<fid, frame, delivered, sent, faults>>
  BY DEF ProcessData, cameraVars
<1>2. /\ packet.num = sent /\ fid = Fid(sent)
      /\ packet.fault = "short" => faults["flagged"] > 0
  BY <1>1 DEF DataInv, PartInv
<1>3. Cur = sent - 1 /\ Cur' = sent /\ sent \in Nat
  BY <1>1, CurType DEF Cur
<1>4. Cur' = Cur + 1 /\ Cur + 1 = sent /\ Cur \in Int
  BY <1>3
<1>5. packet.num \in 1..MaxPackets
  BY <1>1 DEF TypeInv, DataTypes
<1> QED
  BY <1>1, <1>2, <1>4, <1>5 DEF AtMostOneFlagged

\* A packet whose data does not go to the frame flags it.
LEMMA DropKeepsData ==
  ASSUME TypeInv, DataInv, ProcessData, UNCHANGED working, NoSwap, bfh_err' = TRUE,
         packet.fault = "short" \/ ~Eof(packet.num)
  PROVE  DataInv'
<1>1. /\ handlerPc' = "payload" /\ packet.num = Cur + 1
      /\ Cur' = Cur + 1 /\ Cur \in Int
      /\ UNCHANGED <<fid, frame, delivered, sent, faults>>
      /\ fid = Fid(Cur + 1) /\ (packet.fault = "short" => faults["flagged"] > 0)
      /\ AtMostOneFlagged' = AtMostOneFlagged
  BY PayloadFacts
<1>2. UNCHANGED <<held, hold_bfh_err, hold_seq, seq, appPc>>
  BY NoSwapFacts
<1>3. LastOf(working)' = LastOf(working)
  BY DEF LastOf
<1>4. working # <<>> => LastOf(working) <= Cur'
  <2> SUFFICES ASSUME working # <<>> PROVE LastOf(working) <= Cur'
    OBVIOUS
  <2>1. LastOf(working) <= Cur /\ LastOf(working) \in Int
    BY LastOfWorking DEF DataInv, PartInv
  <2> QED
    BY <1>1, <2>1
<1>5. PartInv'
  BY <1>1, <1>2, <1>3, <1>4 DEF DataInv, PartInv
<1>6. OneImageInv'
  BY <1>1, <1>2 DEF DataInv, OneImageInv
<1>7. WholeInv'
  <2> SUFFICES ASSUME AtMostOneFlagged PROVE WholeInv'
    BY <1>1 DEF WholeInv
  <2>1. ASSUME working # <<>>
        PROVE  Image(Cur)' = Image(LastOf(working))'
    BY <1>1, <1>3, <2>1, NextImage DEF DataInv, Image
  <2>2. ASSUME Eof(Cur)' PROVE faults["flagged"] = 1
    <3>1. Eof(packet.num)
      BY <1>1, <2>2 DEF Eof
    <3>2. faults["flagged"] > 0 /\ faults["flagged"] <= 1 /\ faults["flagged"] \in Nat
      BY <1>1, <3>1, FaultNumbers DEF AtMostOneFlagged
    <3> QED
      BY <3>2
  <2> QED
    BY <1>1, <1>2, <1>3, <2>1, <2>2 DEF DataInv, WholeInv
<1> QED
  BY <1>5, <1>6, <1>7 DEF DataInv

LEMMA AppendKeepsData ==
  ASSUME TypeInv, ChannelInv, DataInv, ProcessData, working' = Append(working, packet.num),
         NoSwap, bfh_err' = bfh_err, ~Eof(packet.num)
  PROVE  DataInv'
<1>1. /\ handlerPc = "data" /\ handlerPc' = "payload" /\ packet.num = Cur + 1
      /\ Cur' = Cur + 1 /\ Cur \in Int /\ packet.num \in 1..MaxPackets
      /\ UNCHANGED <<fid, frame, delivered, sent, faults>>
      /\ fid = Fid(Cur + 1)
      /\ AtMostOneFlagged' = AtMostOneFlagged
  BY PayloadFacts
<1>2. UNCHANGED <<held, hold_bfh_err, hold_seq, seq, appPc>>
  BY NoSwapFacts
<1>3. /\ ~bfh_err /\ faults["lost"] <= Parts => OneImage(working')
      /\ ~bfh_err /\ AtMostOneFlagged /\ seq > 0 => Begun(working')
  BY <1>1, DataAppended
<1>4. working' # <<>> /\ LastOf(working)' = Cur'
  <2>1. working \in Seq(1..MaxPackets)
    BY DEF TypeInv, DataTypes
  <2>2. working' # <<>> /\ working'[Len(working')] = packet.num
    BY <1>1, <2>1
  <2> QED
    BY <1>1, <2>2 DEF LastOf
<1>5. PartInv'
  <2>1. appPc # "start"
    BY <1>1 DEF ChannelInv, StartIsFresh, Quiet
  <2>2. LastOf(working)' <= Cur' /\ Cur' - LastOf(working)' <= faults'["lost"]
    BY <1>1, <1>4, FaultNumbers
  <2>3. ~Eof(LastOf(working))' /\ fid' = Fid(LastOf(working))'
    BY <1>1, <1>4 DEF Eof, Fid, Image
  <2> QED
    BY <1>1, <1>2, <2>1, <2>2, <2>3 DEF PartInv
<1>6. OneImageInv'
  BY <1>1, <1>2, <1>3 DEF DataInv, OneImageInv
<1>7. WholeInv'
  <2>1. Image(Cur)' = Image(LastOf(working))' /\ ~Eof(Cur)'
    BY <1>1, <1>4 DEF Image, Eof
  <2> QED
    BY <1>1, <1>2, <1>3, <1>4, <2>1 DEF DataInv, WholeInv
<1> QED
  BY <1>5, <1>6, <1>7 DEF DataInv

\* The packet with the EOF bit ends the frame.
LEMMA EofKeepsData ==
  ASSUME TypeInv, DataInv, ProcessData, NEW data, NEW err,
         SwapBuffers(data, err), Eof(packet.num),
         ~err => ~bfh_err /\ data = Append(working, packet.num)
  PROVE  DataInv'
<1>1. /\ handlerPc = "data" /\ handlerPc' = "payload" /\ packet.num = Cur + 1
      /\ Cur' = Cur + 1 /\ Cur \in Int
      /\ UNCHANGED <<fid, frame, delivered, sent, faults>>
      /\ AtMostOneFlagged' = AtMostOneFlagged
  BY PayloadFacts
<1>2. /\ held' = data /\ hold_bfh_err' = err /\ hold_seq' = seq /\ seq' = seq + 1
      /\ working' = <<>> /\ bfh_err' = FALSE
  BY SwapFacts
<1>3. /\ ~err /\ faults["lost"] <= Parts => OneImage(data)
      /\ ~err /\ AtMostOneFlagged /\ seq > 0 => Begun(data) /\ Len(data) = Parts
  BY <1>1, DataAppended
<1>4. PartInv'
  BY <1>1, <1>2 DEF PartInv
<1>5. OneImageInv'
  BY <1>1, <1>2, <1>3, EmptyFrames DEF DataInv, OneImageInv
<1>6. WholeInv'
  <2>1. Eof(Cur)'
    BY <1>1 DEF Eof
  <2> QED
    BY <1>1, <1>2, <1>3, <2>1 DEF DataInv, WholeInv, Whole
<1> QED
  BY <1>4, <1>5, <1>6 DEF DataInv

LEMMA PayloadKeepsData ==
  ASSUME TypeInv, ChannelInv, DataInv, ProcessData
  PROVE  DataInv'
<1> DEFINE room == Fits
           data == IF room THEN Append(working, packet.num) ELSE working
           err == bfh_err \/ ~room
<1>1. CASE packet.fault = "short"
  <2>1. UNCHANGED working /\ NoSwap /\ bfh_err' = TRUE
    BY <1>1 DEF ProcessData
  <2> QED
    BY <1>1, <2>1, DropKeepsData
<1>2. CASE packet.fault # "short" /\ Eof(packet.num)
  <2>1. SwapBuffers(data, err)
    BY <1>2 DEF ProcessData
  <2>2. ~err => ~bfh_err /\ data = Append(working, packet.num)
    OBVIOUS
  <2> HIDE DEF data, err
  <2> QED
    BY <1>2, <2>1, <2>2, EofKeepsData
<1>3. CASE packet.fault # "short" /\ ~Eof(packet.num)
  <2>1. NoSwap /\ working' = data /\ bfh_err' = err
    BY <1>3 DEF ProcessData
  <2>2. CASE room
    <3>1. working' = Append(working, packet.num) /\ bfh_err' = bfh_err
      BY <2>1, <2>2 DEF TypeInv, FlagTypes
    <3> QED
      BY <1>3, <2>1, <3>1, AppendKeepsData
  <2>3. CASE ~room
    <3>1. working' = working /\ bfh_err' = TRUE
      BY <2>1, <2>3
    <3> QED
      BY <1>3, <2>1, <3>1, DropKeepsData
  <2> QED
    BY <2>2, <2>3
<1> QED
  BY <1>1, <1>2, <1>3

LEMMA HandlerKeepsData ==
  ASSUME TypeInv, ChannelInv, DataInv, Handler
  PROVE  DataInv'
<1> USE DEF appVars, workingVars, heldVars, handlerVars, userVars, cameraVars
<1>1. ASSUME NEW t \in Transfers, StreamCallback(t) PROVE DataInv'
  <2>1. /\ handlerPc # "data" /\ handlerPc' # "data" /\ UNCHANGED appPc
        /\ UNCHANGED <<workingVars, heldVars, sent, frame, delivered>>
    BY <1>1 DEF StreamCallback, Completed, Retried, NotRetried, Unplugged
  <2>2. UNCHANGED faults \/ Fault("usb")
    BY <1>1 DEF StreamCallback, Completed, Retried, NotRetried, Unplugged
  <2>3. FaultsGrow
    BY <2>2, NoFault, OneFault DEF FaultKinds
  <2> QED
    BY <2>1, <2>3, KeepsData
<1>2. ASSUME NEW fault \in PacketFaults \cup {"none"}, ProcessHeader(fault) PROVE DataInv'
  BY <1>2, SkipKeepsData, ToggleKeepsData, HeaderKeepsData
<1>3. CASE ProcessData
  BY <1>3, PayloadKeepsData
<1>4. CASE PayloadDone \/ Decide \/ Resubmit \/ DeleteTransfer
  <2>1. /\ handlerPc # "data" /\ handlerPc' # "data"
        /\ appPc' # "start" \/ UNCHANGED appPc
        /\ UNCHANGED <<workingVars, heldVars, sent, frame, delivered, faults>>
    BY <1>4 DEF PayloadDone, Decide, Resubmit, DeleteTransfer, Broadcast, WakeApp
  <2> QED
    BY <2>1, NoFault, KeepsData
<1> QED
  BY <1>1, <1>2, <1>3, <1>4 DEF Handler

LEMMA DataInvInit == Init => DataInv
<1> SUFFICES ASSUME Init PROVE DataInv
  OBVIOUS
<1>1. /\ working = <<>> /\ held = <<>> /\ frame.data = <<>> /\ DOMAIN delivered = {}
      /\ seq = 0 /\ hold_seq = 0 /\ handlerPc = "idle"
  BY DEF Init, NoFrame
<1> QED
  BY <1>1, EmptyFrames DEF DataInv, PartInv, OneImageInv, WholeInv

LEMMA DataInvStep == TypeInv /\ ChannelInv /\ DataInv /\ [Next]_vars => DataInv'
<1> SUFFICES ASSUME TypeInv, ChannelInv, DataInv, [Next]_vars PROVE DataInv'
  OBVIOUS
<1>1. CASE UNCHANGED vars
  BY <1>1, NoFault, KeepsData
     DEF vars, appVars, userVars, handlerVars, cameraVars
<1> QED
  BY <1>1, AppKeepsData, HandlerKeepsData, UserKeepsData DEF Next

\* What the buffers, strmh->frame and user_cb have, for any number of packets,
\* transfers, faults and sessions.
THEOREM BuffersAndImages == Spec => []DataInv
BY DataInvInit, DataInvStep, StreamTypeInvariant, NumbersAndFlags, PTL DEF Spec

\* user_cb never gets a frame put together from two images unless more packets than
\* an image has were lost, however many others were flagged.
THEOREM FramesOfOneImage == Spec => []DeliveredOneImage
<1>1. DataInv => DeliveredOneImage
  BY DEF DataInv, OneImageInv, OneImage, DeliveredOneImage
<1> QED
  BY <1>1, BuffersAndImages, PTL

\* With at most one faulty packet, and that one noticed, user_cb only gets complete
\* images, wherever in an image the stream was started.
THEOREM FramesAreWhole == Spec => []DeliveredWhole
<1>1. TypeInv /\ DataInv => DeliveredWhole
  <2> SUFFICES ASSUME TypeInv, DataInv, AtMostOneFlagged, NEW i \in DOMAIN delivered,
                      delivered[i].data # <<>>
               PROVE  delivered[i].data =
                        [j \in 1..Parts |-> Image(delivered[i].data[1]) * Parts + j]
    BY DEF DeliveredWhole, AtMostOneFlagged
  <2> DEFINE data == delivered[i].data
  <2>1. Begun(data) /\ Len(data) = Parts
    BY DEF DataInv, WholeInv, Whole
  <2>2. data \in Seq(1..MaxPackets)
    <3>1. delivered \in Seq(Frames)
      BY DEF TypeInv, DataTypes
    <3>2. delivered[i] \in Frames
      BY <3>1
    <3> QED
      BY <3>2 DEF Frames
  <2> HIDE DEF data
  <2>3. DOMAIN data = 1..Parts /\ data = [j \in DOMAIN data |-> data[j]]
    BY <2>1, <2>2
  <2>4. \A j \in 1..Parts : data[j] = (Image(data[1]) * Parts) + j
    BY <2>1, <2>3 DEF Begun
  <2>5. data = [j \in 1..Parts |-> (Image(data[1]) * Parts) + j]
    BY <2>3, <2>4
  <2> QED
    BY <2>5 DEF data
<1> QED
  BY <1>1, BuffersAndImages, StreamTypeInvariant, PTL
=============================================================================
