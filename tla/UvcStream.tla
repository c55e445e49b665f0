----------------------------- MODULE UvcStream -----------------------------
(***************************************************************************)
(* One streaming interface of libuvc, jni/libuvc/src/stream.c, as the      *)
(* preview uses it: uvc_start_streaming_bandwidth, then                    *)
(* uvc_stop_streaming.                                                     *)
(*                                                                         *)
(*   app      opens, starts, stops and closes the stream;                  *)
(*   handler  libusb's event thread in _uvc_stream_callback, one transfer  *)
(*            at a time: assembles packets into a frame and publishes it;  *)
(*   user     _uvc_user_caller: hands the published frame to user_cb.      *)
(*                                                                         *)
(* Each critical section under cb_mutex is one action; running and the     *)
(* second read of hold_bfh_err are accessed outside it, in actions of      *)
(* their own.  A packet is its number in what the camera sent; PTS, SCR    *)
(* and the image bytes are left out.  The endpoint delivers packets in the *)
(* order the camera sent them, whichever transfer carries them.            *)
(***************************************************************************)
EXTENDS Integers, Sequences, FiniteSets

CONSTANTS
  Transfers,       \* LIBUVC_NUM_TRANSFER_BUFS slots of strmh->transfers
  Bulk,            \* bulk endpoint: one payload per transfer
  PacketFaults,    \* what may be wrong with a packet, a subset of Faults
  DeviceFaults,    \* subset of {"unplug", "open", "start", "submit", "resubmit"}
  Parts,           \* packets of an image, the last with the EOF bit
  PerTransfer,     \* packets of an isochronous transfer
  SizeBuf,         \* size_buf, in packets
  MaxPackets,      \* bound: packets the camera sends
  MaxFaults,       \* bound: faulty packets, transfers that time out or fail
  MaxSessions      \* bound: calls of uvc_start_streaming

\* "bad": the packet's status; "empty": no bytes, or lost; "error": the
\* header's ERR bit; "short": shorter than its header says.
Faults == {"bad", "empty", "error", "short"}
Noticed == {"bad", "short"}

ASSUME ConstantsAssumption ==
  /\ IsFiniteSet(Transfers) /\ Transfers # {}
  /\ Bulk \in BOOLEAN
  /\ PacketFaults \subseteq Faults
  /\ DeviceFaults \subseteq {"unplug", "open", "start", "submit", "resubmit"}
  /\ {Parts, PerTransfer, SizeBuf} \subseteq Nat \ {0}
  /\ {MaxPackets, MaxFaults, MaxSessions} \subseteq Nat
  /\ Bulk => PerTransfer = 1
  /\ Parts <= MaxPackets

VARIABLES
  appPc,           \* where the app thread is
  handle,          \* "none", "open": the uvc_stream_handle_t of devh->streams
  claimed,         \* the interface is claimed
  running,         \* strmh->running
  transfers,       \* slot -> what its libusb_transfer is doing
  \* the frame being assembled: outbuf with got_bytes, and its state
  working, fid, bfh_err, seq,
  \* the published frame: holdbuf with hold_bytes, and its state
  held, hold_bfh_err, hold_seq,
  marked,          \* history: a frame was published with hold_bfh_err
  \* the handler thread
  handlerPc, current, left, packet,
  \* the user thread
  userPc, last_seq, frame,
  \* history and environment
  delivered,       \* the frames user_cb was called with
  sent,            \* packets the camera has sent
  faults,          \* how many packets were faulty and flagged, faulty and not,
                   \* and how many transfers failed or timed out
  cut,             \* the camera was unplugged or a first submission failed
  sessions

appVars     == <<appPc, handle, claimed, sessions>>
workingVars == <<working, fid, bfh_err, seq>>
heldVars    == <<held, hold_bfh_err, hold_seq, marked>>
handlerVars == <<handlerPc, current, left, packet>>
userVars    == <<userPc, last_seq, frame, delivered>>
cameraVars  == <<sent, faults, cut>>
vars == <<appVars, running, transfers, workingVars, heldVars, handlerVars,
          userVars, cameraVars>>

AppLabels == {"idle", "start", "submit", "streaming", "cancel", "drain",
              "drainWait", "join", "close"}
TransferStates == {"null", "allocated", "flying", "cancelling", "callback",
                   "lost"}
FaultKinds == {"flagged", "lost", "usb"}
Handlers == {"idle", "payload", "data", "decide", "resubmit", "delete"}

\* A frame: its packets and the number it was published with.  NoFrame is
\* strmh->frame before any _uvc_populate_frame.
NoFrame == [data |-> <<>>, num |-> -1]
Frames == [data : Seq(1..MaxPackets), num : Int]
Packets == [num : 0..MaxPackets, fault : Faults \cup {"none"}]

TypeOK ==
  /\ appPc \in AppLabels /\ handle \in {"none", "open"} /\ claimed \in BOOLEAN
  /\ running \in BOOLEAN /\ transfers \in [Transfers -> TransferStates]
  /\ working \in Seq(1..MaxPackets) /\ fid \in 0..1 /\ bfh_err \in BOOLEAN
  /\ seq \in Nat
  /\ held \in Seq(1..MaxPackets) /\ hold_bfh_err \in BOOLEAN /\ hold_seq \in Nat
  /\ marked \in BOOLEAN
  /\ handlerPc \in Handlers /\ current \in Transfers
  /\ left \in 0..PerTransfer /\ packet \in Packets
  /\ userPc \in {"none", "loop", "waiting", "reread", "ended"}
  /\ last_seq \in Nat /\ frame \in Frames /\ delivered \in Seq(Frames)
  /\ sent \in 0..MaxPackets /\ cut \in BOOLEAN
  /\ faults \in [FaultKinds -> 0..MaxFaults]
  /\ sessions \in 0..MaxSessions

-----------------------------------------------------------------------------
\* The image a packet belongs to, its FID bit and its EOF bit.
Image(n) == (n - 1) \div Parts
Fid(n) == Image(n) % 2
Eof(n) == n % Parts = 0

AllGone == \A t \in Transfers : transfers[t] = "null"

\* Nothing of the stream is left: no transfer, no user thread, no callback.
Quiet == AllGone /\ userPc \in {"none", "ended"} /\ handlerPc = "idle"

\* Mutant: cb_cond is not broadcast to the one or the other.
WakeApp_Not == UNCHANGED appPc
WakeUser_Not == UNCHANGED userPc
\* pthread_cond_broadcast(&strmh->cb_cond).
WakeUser == userPc' = IF userPc = "waiting" THEN "loop" ELSE userPc
WakeApp == appPc' = IF appPc = "drainWait" THEN "drain" ELSE appPc
Broadcast == WakeUser /\ WakeApp

-----------------------------------------------------------------------------
\* Something goes wrong once more.
Fault(kind) ==
  /\ faults["flagged"] + faults["lost"] + faults["usb"] < MaxFaults
  /\ faults' = [faults EXCEPT ![kind] = @ + 1]

-----------------------------------------------------------------------------
(* app: uvc_start_streaming_bandwidth                                      *)

\* calloc of the handle and its buffers.
Fresh ==
  /\ working' = <<>> /\ fid' = 0 /\ bfh_err' = FALSE /\ seq' = 0
  /\ held' = <<>> /\ hold_bfh_err' = FALSE /\ hold_seq' = 0 /\ marked' = FALSE
  /\ last_seq' = 0 /\ frame' = NoFrame /\ delivered' = <<>>

\* uvc_stream_open_ctrl.  A failure after uvc_claim_if frees the handle and
\* leaves the interface claimed; it is claimed again by a later call.
OpenCtrl ==
  /\ appPc = "idle" /\ handle = "none" /\ Quiet
  /\ sessions < MaxSessions
  /\ sessions' = sessions + 1
  /\ \/ /\ handle' = "open" /\ claimed' = TRUE /\ appPc' = "start"
        /\ Fresh /\ userPc' = "none"
     \/ /\ "open" \in DeviceFaults
        /\ claimed' \in {claimed, TRUE}
        /\ UNCHANGED <<handle, appPc, workingVars, heldVars, userVars>>
  /\ UNCHANGED <<running, transfers, handlerVars, cameraVars>>

\* uvc_stream_start_bandwidth up to its submit loop.
StartBandwidth ==
  /\ appPc = "start" /\ ~running
  /\ fid' = 0 /\ bfh_err' = FALSE /\ seq' = 0
  /\ \/ /\ running' = TRUE /\ appPc' = "submit"
        /\ transfers' = [t \in Transfers |-> "allocated"]
        /\ userPc' = "loop" /\ last_seq' = 0
     \/ /\ "start" \in DeviceFaults
        /\ appPc' = "close"
        /\ UNCHANGED <<running, transfers, userPc, last_seq>>
  /\ UNCHANGED <<handle, claimed, sessions, working, heldVars, handlerVars,
                 frame, delivered, cameraVars>>

\* The submit loop.  On a failure the transfers and the user thread stay.
SubmitTransfer(t) ==
  /\ appPc = "submit" /\ transfers[t] = "allocated"
  /\ \/ /\ transfers' = [transfers EXCEPT ![t] = "flying"]
        /\ UNCHANGED <<running, appPc, cut>>
     \/ /\ "submit" \in DeviceFaults
        /\ running' = FALSE /\ appPc' = "close" /\ cut' = TRUE
        /\ UNCHANGED transfers
  /\ UNCHANGED <<handle, claimed, sessions, workingVars, heldVars, handlerVars,
                 userVars, sent, faults>>

Submitted ==
  /\ appPc = "submit" /\ \A t \in Transfers : transfers[t] # "allocated"
  /\ appPc' = "streaming"
  /\ UNCHANGED <<handle, claimed, sessions, running, transfers, workingVars,
                 heldVars, handlerVars, userVars, cameraVars>>

-----------------------------------------------------------------------------
(* app: uvc_stop_streaming, uvc_stream_close, uvc_stream_stop              *)

\* uvc_stream_close stops the stream only if it is running.
StopStreaming ==
  /\ appPc = "streaming"
  /\ running' = FALSE
  /\ appPc' = IF running THEN "cancel" ELSE "close"
  /\ UNCHANGED <<handle, claimed, sessions, transfers, workingVars, heldVars,
                 handlerVars, userVars, cameraVars>>

\* Mutant: a transfer that was called back counts as gone.
Drain_Flying ==
  IF \A t \in Transfers : transfers'[t] \notin {"flying", "cancelling"}
  THEN appPc' = "join" /\ WakeUser
  ELSE appPc' = "drainWait" /\ UNCHANGED userPc

\* Wait until every slot is NULL, then kick the user thread awake.
Drain ==
  IF \A t \in Transfers : transfers'[t] = "null"
  THEN appPc' = "join" /\ WakeUser
  ELSE appPc' = "drainWait" /\ UNCHANGED userPc

\* libusb_cancel_transfer of every slot (NOT_FOUND when it is not flying),
\* and the first test of the wait, under one lock of cb_mutex.
CancelTransfers ==
  /\ appPc = "cancel"
  /\ transfers' = [t \in Transfers |->
                     IF transfers[t] = "flying" THEN "cancelling"
                                                ELSE transfers[t]]
  /\ Drain
  /\ UNCHANGED <<handle, claimed, sessions, running, workingVars, heldVars,
                 handlerVars, last_seq, frame, delivered, cameraVars>>

DrainTransfers ==
  /\ appPc = "drain"
  /\ UNCHANGED transfers
  /\ Drain
  /\ UNCHANGED <<handle, claimed, sessions, running, workingVars, heldVars,
                 handlerVars, last_seq, frame, delivered, cameraVars>>

JoinUser ==
  /\ appPc = "join" /\ userPc = "ended"
  /\ appPc' = "close"
  /\ UNCHANGED <<handle, claimed, sessions, running, transfers, workingVars,
                 heldVars, handlerVars, userVars, cameraVars>>

\* uvc_release_if, free of the buffers, the mutex and the handle.
CloseStream ==
  /\ appPc = "close"
  /\ appPc' = "idle" /\ handle' = "none" /\ claimed' = FALSE
  /\ UNCHANGED <<sessions, running, transfers, workingVars, heldVars,
                 handlerVars, userVars, cameraVars>>

App ==
  \/ OpenCtrl \/ StartBandwidth \/ (\E t \in Transfers : SubmitTransfer(t))
  \/ Submitted \/ StopStreaming \/ CancelTransfers \/ DrainTransfers
  \/ JoinUser \/ CloseStream

-----------------------------------------------------------------------------
(* handler: _uvc_stream_callback.  After the handle is freed there is no   *)
(* defined behaviour: the actions that use it need it open.                *)

\* libusb completes a transfer and calls back, with the transfer's status.
Completed(t) ==
  /\ transfers[t] \in {"flying", "cancelling"}
  /\ left' = PerTransfer /\ handlerPc' = "payload"
  /\ UNCHANGED <<running, faults, cut>>

\* TIMED_OUT, STALL, OVERFLOW.
Retried(t) ==
  /\ transfers[t] = "flying" /\ Fault("usb")
  /\ handlerPc' = "decide"
  /\ UNCHANGED <<running, left, cut>>

\* CANCELLED, or ERROR of a transfer that was not cancelled.
NotRetried(t) ==
  /\ \/ transfers[t] = "cancelling" /\ UNCHANGED faults
     \/ transfers[t] = "flying" /\ Fault("usb")
  /\ handlerPc' = "delete"
  /\ UNCHANGED <<running, left, cut>>

\* NO_DEVICE.
Unplugged(t) ==
  /\ transfers[t] \in {"flying", "cancelling"} /\ "unplug" \in DeviceFaults
  /\ running' = FALSE /\ cut' = TRUE
  /\ handlerPc' = "delete"
  /\ UNCHANGED <<left, faults>>

StreamCallback(t) ==
  /\ handlerPc = "idle" /\ handle = "open"
  /\ Completed(t) \/ Retried(t) \/ NotRetried(t) \/ Unplugged(t)
  /\ current' = t
  /\ transfers' = [transfers EXCEPT ![t] = "callback"]
  /\ UNCHANGED <<appVars, workingVars, heldVars, packet, userVars, sent>>

\* _uvc_swap_buffers of an assembled frame.
SwapBuffers(data, err) ==
  /\ held' = data /\ hold_bfh_err' = err /\ hold_seq' = seq
  /\ marked' = (marked \/ err)
  /\ Broadcast
  /\ seq' = seq + 1 /\ working' = <<>> /\ bfh_err' = FALSE

NoSwap ==
  UNCHANGED <<heldVars, userPc, appPc, seq>>

\* The packet is dropped before its header is looked at; some of these
\* packets flag the frame being assembled.
Skipped(fault) ==
  fault \in IF Bulk THEN {"short", "empty"} ELSE {"bad", "empty", "error"}
\* Mutant: bfh_err is not set, as in the rounds commented out.
Flags_Never(fault) == FALSE

Flags(fault) == fault \in Noticed

\* Mutant: only the EOF bit ends a frame.
Toggled_Never(n) == FALSE

\* A frame is being assembled and the FID bit says that n is of the next.
Toggled(n) == fid # Fid(n) /\ working # <<>>

MorePackets == left > 0

\* The next packet of the transfer, up to its header: _uvc_process_payload
\* or one round of _uvc_process_payload_iso.
ProcessHeader(fault) ==
  LET n == sent + 1 IN
  /\ handlerPc = "payload" /\ MorePackets /\ sent < MaxPackets
  /\ sent' = n /\ left' = left - 1
  /\ \/ fault = "none" /\ UNCHANGED faults
     \/ fault # "none" /\ Fault(IF fault \in Noticed THEN "flagged" ELSE "lost")
  /\ \/ /\ Skipped(fault)
        /\ bfh_err' = (bfh_err \/ Flags(fault))
        /\ NoSwap /\ UNCHANGED <<working, fid, handlerPc, packet>>
     \/ /\ ~Skipped(fault)
        /\ IF Toggled(n)
           THEN SwapBuffers(working, bfh_err)
           ELSE NoSwap /\ UNCHANGED <<working, bfh_err>>
        /\ fid' = Fid(n)
        /\ handlerPc' = "data" /\ packet' = [num |-> n, fault |-> fault]
  /\ UNCHANGED <<handle, claimed, sessions, running, transfers, current,
                 last_seq, frame, delivered, cut>>

\* Mutant: no boundary check.
Fits_Unchecked == TRUE
\* got_bytes + data_len < size_buf: tested for a bulk payload, asserted for
\* an isochronous one.
Fits == Len(working) + 1 < SizeBuf

\* The data of the packet, and the EOF bit.
ProcessData ==
  LET room == Fits
      data == IF room THEN Append(working, packet.num) ELSE working
      err == bfh_err \/ ~room
  IN
  /\ handlerPc = "data" /\ handlerPc' = "payload"
  /\ Bulk \/ room
  /\ \/ /\ packet.fault = "short"
        /\ bfh_err' = TRUE
        /\ NoSwap /\ UNCHANGED working
     \/ /\ packet.fault # "short"
        /\ IF Eof(packet.num)
           THEN SwapBuffers(data, err)
           ELSE NoSwap /\ working' = data /\ bfh_err' = err
  /\ UNCHANGED <<handle, claimed, sessions, running, transfers, fid, current,
                 left, packet, last_seq, frame, delivered, cameraVars>>

\* The transfer carried no further packet.
PayloadDone ==
  /\ handlerPc = "payload"
  /\ handlerPc' = "decide" /\ left' = 0
  /\ UNCHANGED <<appVars, running, transfers, workingVars, heldVars, current,
                 packet, userVars, cameraVars>>

\* if (running && resubmit): running is read without the mutex.
Decide ==
  /\ handlerPc = "decide"
  /\ handlerPc' = IF running THEN "resubmit" ELSE "delete"
  /\ UNCHANGED <<appVars, running, transfers, workingVars, heldVars, current,
                 left, packet, userVars, cameraVars>>

\* libusb_submit_transfer, whose result is ignored.
Resubmit ==
  /\ handlerPc = "resubmit" /\ handlerPc' = "idle"
  /\ \/ transfers' = [transfers EXCEPT ![current] = "flying"]
     \/ /\ "resubmit" \in DeviceFaults
        /\ transfers' = [transfers EXCEPT ![current] = "lost"]
  /\ UNCHANGED <<appVars, running, workingVars, heldVars, current, left, packet,
                 userVars, cameraVars>>

\* _uvc_delete_transfer.
DeleteTransfer ==
  /\ handlerPc = "delete" /\ handlerPc' = "idle"
  /\ transfers' = [transfers EXCEPT ![current] = "null"]
  /\ Broadcast
  /\ UNCHANGED <<handle, claimed, sessions, running, workingVars, heldVars,
                 current, left, packet, last_seq, frame, delivered, cameraVars>>

Handler ==
  \/ \E t \in Transfers : StreamCallback(t)
  \/ /\ handle = "open"
     /\ \/ \E fault \in PacketFaults \cup {"none"} : ProcessHeader(fault)
        \/ ProcessData \/ PayloadDone \/ Decide \/ Resubmit \/ DeleteTransfer

-----------------------------------------------------------------------------
(* user: _uvc_user_caller                                                  *)

\* _uvc_populate_frame.
Populated == IF hold_bfh_err THEN frame ELSE [data |-> held, num |-> hold_seq]

\* Mutant: last_seq is not set.
TakeFrame_KeepsSeq ==
  /\ userPc = "loop" /\ handle = "open"
  /\ \/ running /\ last_seq = hold_seq /\ userPc' = "waiting" /\ UNCHANGED frame
     \/ ~running /\ userPc' = "ended" /\ UNCHANGED frame
     \/ running /\ last_seq # hold_seq /\ userPc' = "reread" /\ frame' = Populated
  /\ UNCHANGED <<appVars, running, transfers, workingVars, heldVars, handlerVars,
                 last_seq, delivered, cameraVars>>

\* The critical section: wait for another frame, or end, or take it.
TakeFrame ==
  /\ userPc = "loop" /\ handle = "open"
  /\ \/ /\ running /\ last_seq = hold_seq
        /\ userPc' = "waiting" /\ UNCHANGED <<last_seq, frame>>
     \/ /\ ~running
        /\ userPc' = "ended" /\ UNCHANGED <<last_seq, frame>>
     \/ /\ running /\ last_seq # hold_seq
        /\ last_seq' = hold_seq /\ frame' = Populated
        /\ userPc' = "reread"
  /\ UNCHANGED <<appVars, running, transfers, workingVars, heldVars, handlerVars,
                 delivered, cameraVars>>

\* hold_bfh_err is read again, without the mutex, and user_cb called.
CallUser ==
  /\ userPc = "reread" /\ handle = "open"
  /\ delivered' = IF hold_bfh_err THEN delivered ELSE Append(delivered, frame)
  /\ userPc' = "loop"
  /\ UNCHANGED <<appVars, running, transfers, workingVars, heldVars, handlerVars,
                 last_seq, frame, cameraVars>>

User == TakeFrame \/ CallUser

-----------------------------------------------------------------------------
\* A stream may be started in the middle of an image.
Init ==
  /\ appPc = "idle" /\ handle = "none" /\ claimed = FALSE /\ running = FALSE
  /\ transfers = [t \in Transfers |-> "null"]
  /\ working = <<>> /\ fid = 0 /\ bfh_err = FALSE /\ seq = 0
  /\ held = <<>> /\ hold_bfh_err = FALSE /\ hold_seq = 0 /\ marked = FALSE
  /\ handlerPc = "idle" /\ current \in Transfers /\ left = 0
  /\ packet = [num |-> 0, fault |-> "none"]
  /\ userPc = "none" /\ last_seq = 0 /\ frame = NoFrame /\ delivered = <<>>
  /\ sent \in 0..(Parts - 1) /\ faults = [k \in FaultKinds |-> 0]
  /\ cut = FALSE /\ sessions = 0

Next == App \/ Handler \/ User

Spec == Init /\ [][Next]_vars

\* A call that was begun goes on; libusb completes a transfer that is in
\* flight; the handler and the user thread run.
FairSpec ==
  /\ Spec
  /\ WF_vars(StartBandwidth) /\ WF_vars(\E t \in Transfers : SubmitTransfer(t))
  /\ WF_vars(Submitted) /\ WF_vars(CancelTransfers) /\ WF_vars(DrainTransfers)
  /\ WF_vars(JoinUser) /\ WF_vars(CloseStream)
  /\ WF_vars(Handler) /\ WF_vars(User)

-----------------------------------------------------------------------------
(* Properties                                                              *)

\* uvc_stop_streaming "closes all streams, ends threads": when the handle is
\* freed no transfer can call back any more and the user thread has ended.
StreamsEnd == handle = "none" => Quiet

\* The same, as long as the camera was not unplugged and no first submission
\* failed.
CloseIsQuiet == ~cut => StreamsEnd

\* From _uvc_swap_buffers to user_cb the stream is a channel of images: until
\* a frame is published as faulty, user_cb is called once and in order with
\* those that are not lost; after that never with an older one.
Handed == [i \in DOMAIN delivered |-> delivered[i].num + 1]
Channel ==
  INSTANCE ImageChannel WITH offered <- seq, handed <- Handed, noisy <- marked

ImplementsChannel == Channel!Spec

\* With at most one fault, and that one noticed, a frame user_cb gets is one
\* complete image, although the stream may begin in the middle of one: the
\* first published frame, which may be a rest, is never handed over.
DeliveredWhole ==
  faults["flagged"] <= 1 /\ faults["lost"] = 0 =>
    \A i \in DOMAIN delivered :
       LET data == delivered[i].data IN
       data # <<>> => data = [j \in 1..Parts |-> Image(data[1]) * Parts + j]

\* A frame user_cb gets is never put together from two images, however many
\* packets were flagged: a lost end is noticed by the FID bit, unless a whole
\* image is lost with it.
DeliveredOneImage ==
  faults["lost"] <= Parts =>
    \A i \in DOMAIN delivered :
       LET data == delivered[i].data IN
       \A j, k \in DOMAIN data :
          Image(data[j]) = Image(data[k]) /\ (j < k => data[j] < data[k])

\* A bulk payload never reaches the end of the buffers, whatever images were
\* run together before.
WithinBuffers == Len(working) < SizeBuf /\ Len(held) < SizeBuf

\* uvc_stop_streaming of a running stream comes to its end.
StopReturns == appPc = "cancel" ~> appPc = "idle"

\* A published frame is taken by the user thread unless it is replaced or the
\* stream ends: the broadcast of _uvc_swap_buffers is not missed.
PublishedIsTaken ==
  \A k \in 1..MaxPackets :
     (running /\ hold_seq = k) ~> (~running \/ hold_seq # k \/ last_seq = k)
=============================================================================
