-------------------------- MODULE UsbMonitor_proofs --------------------------
(***************************************************************************)
(* The safety properties of UsbMonitor.  They hold together: what the      *)
(* flags say of the camera is needed to know that stopCapture, which tests *)
(* them, stops anything.  One lemma per call of the monitor says that the  *)
(* call keeps Sound; the actions are compositions of these calls.          *)
(***************************************************************************)
EXTENDS UsbMonitor, TLAPS

-----------------------------------------------------------------------------
\* What holds of the monitor between two handlers.
Flags(m) ==
  /\ m.previewing => m.isCapture
  /\ m.isCapture /\ ~m.previewing =>
       m.past \cap {"notStarted", "reconnected"} # {}
  /\ m.isCapture => m.usbCameraConnect
  /\ m.camera = "open" => m.usbCameraConnect
  /\ m.usbCameraConnect /\ m.camera # "open" => "reconnectFailed" \in m.past
  /\ m.camera = "null" => ~m.usbCameraConnect
  /\ m.connections = m.blocks + (IF m.clone THEN 1 ELSE 0)

Sound(m) == m \in Monitor /\ Flags(m)

\* A recording implies a capture, unless onPause stopped that.
Recorded(m) == m.recording => m.isCapture \/ "pausedRecording" \in m.past

\* A preview is seen, unless a delayed runnable started it.
Seen(m, shown) == m.previewing => shown \/ "lateStart" \in m.past

\* A device that may be connected to is a plug of the camera; only the detach
\* of another device names none.
Sent == {b \in Broadcast : b.action # "detached" => b.device \in Plugs}

OtherTypes ==
  /\ plug \in 0..MaxPlugs /\ plugged \in BOOLEAN /\ others \in 0..MaxOthers
  /\ plugged => plug \in Plugs
  /\ granted \subseteq Plugs /\ asked \subseteq Plugs
  /\ broadcasts \in Seq(Sent)
  /\ activity \in {"starting", "registered", "created", "resumed", "paused",
                   "destroyed"}
  /\ btnCapture \in BOOLEAN
  /\ posted \in 0..MaxPosted /\ resumes \in 0..MaxResumes

MonitorInv ==
  /\ Sound(monitor) /\ Recorded(monitor)
  /\ Seen(monitor, activity = "resumed" /\ btnCapture)

\* The inductive invariant.
IInv == OtherTypes /\ MonitorInv

-----------------------------------------------------------------------------
(* The calls.  A call that keeps a preview keeps what was noted of it.     *)

\* From one monitor to the next: nothing starts, nothing is un-noted.
Quieter(m, n) ==
  /\ n.previewing => m.previewing
  /\ m.past \subseteq n.past

LEMMA NoteSound ==
  ASSUME NEW m, Sound(m), NEW event \in Events
  PROVE  Sound(Note(m, event)) /\ Quieter(m, Note(m, event))
BY DEF Sound, Flags, Monitor, Note, Events, Quieter

LEMMA CloseSound ==
  ASSUME NEW m \in Monitor,
         m.connections = m.blocks + (IF m.clone THEN 1 ELSE 0)
  PROVE  /\ Close(m) \in Monitor /\ Close(m).connections = Close(m).blocks
         /\ ~Close(m).clone /\ ~Close(m).previewing
         /\ Close(m).past = m.past /\ Close(m).blocks = m.blocks
         /\ Close(m).isCapture = m.isCapture
         /\ Close(m).usbCameraConnect = m.usbCameraConnect
         /\ Close(m).recording = m.recording
         /\ Close(m).camera = "null"
<1>1. MaxBlocks \in Nat /\ MaxPlugs \in Nat
  BY ConstantsAssumption
<1>2. m.blocks \in 0..MaxBlocks /\ m.connections \in 0..(MaxBlocks + 1)
  BY DEF Monitor
<1>3. (IF m.clone THEN m.connections - 1 ELSE m.connections) = m.blocks
  BY <1>2
<1>4. Close(m) = [m EXCEPT !.camera = "null", !.device = 0,
                    !.previewing = FALSE, !.clone = FALSE,
                    !.connections = m.blocks]
  BY <1>3 DEF Close
<1>5. m.blocks \in 0..(MaxBlocks + 1) /\ 0 \in 0..MaxPlugs
  BY <1>1, <1>2
<1>6. Close(m) \in Monitor
  BY <1>4, <1>5 DEF Monitor
<1>7. Close(m).connections = m.blocks /\ ~Close(m).clone
      /\ ~Close(m).previewing /\ Close(m).camera = "null"
  BY <1>4 DEF Monitor
<1>8. /\ Close(m).past = m.past /\ Close(m).blocks = m.blocks
      /\ Close(m).isCapture = m.isCapture
      /\ Close(m).usbCameraConnect = m.usbCameraConnect
      /\ Close(m).recording = m.recording
  BY <1>4 DEF Monitor
<1> QED
  BY <1>6, <1>7, <1>8

LEMMA StopCaptureSound ==
  ASSUME NEW m, Sound(m)
  PROVE  /\ Sound(StopCapture(m)) /\ Quieter(m, StopCapture(m))
         /\ ~StopCapture(m).isCapture /\ ~StopCapture(m).previewing
         /\ StopCapture(m).recording = m.recording
         /\ StopCapture(m).past = m.past
BY DEF Sound, Flags, Monitor, StopCapture, Quieter

LEMMA StopRecoderSound ==
  ASSUME NEW m, Sound(m), Recorded(m)
  PROVE  /\ Sound(StopRecoder(m)) /\ Quieter(m, StopRecoder(m))
         /\ StopRecoder(m).recording =>
              "pausedRecording" \in StopRecoder(m).past
BY DEF Sound, Flags, Monitor, StopRecoder, Quieter, Recorded

\* After stopCapture the camera can be released.
LEMMA ReleaseSound ==
  ASSUME NEW m, Sound(m), ~m.isCapture
  PROVE  /\ Sound(ReleaseCamera(m)) /\ Quieter(m, ReleaseCamera(m))
         /\ ReleaseCamera(m).recording = m.recording
<1>1. CASE m.camera = "null"
  BY <1>1 DEF ReleaseCamera, Quieter
<1>2. CASE m.camera # "null"
  <2> DEFINE c == Close(m)
  <2>1. ReleaseCamera(m) = [c EXCEPT !.usbCameraConnect = FALSE]
    BY <1>2 DEF ReleaseCamera
  <2>2. /\ c \in Monitor /\ c.connections = c.blocks /\ ~c.clone
        /\ ~c.previewing /\ c.past = m.past /\ ~c.isCapture
        /\ c.camera = "null" /\ c.recording = m.recording
    BY CloseSound DEF Sound, Flags
  <2> HIDE DEF c
  <2>3. ReleaseCamera(m) \in Monitor
    BY <2>1, <2>2 DEF Monitor
  <2>4. /\ ReleaseCamera(m).recording = m.recording
        /\ ReleaseCamera(m).past = m.past
        /\ ReleaseCamera(m).camera = "null"
        /\ ReleaseCamera(m).connections = ReleaseCamera(m).blocks
    BY <2>1, <2>2 DEF Monitor
  <2>5. /\ ~ReleaseCamera(m).previewing /\ ~ReleaseCamera(m).isCapture
        /\ ~ReleaseCamera(m).usbCameraConnect /\ ~ReleaseCamera(m).clone
    BY <2>1, <2>2 DEF Monitor
  <2> QED
    BY <2>3, <2>4, <2>5 DEF Sound, Flags, Quieter, Monitor
<1> QED
  BY <1>1, <1>2

LEMMA StartCaptureSound ==
  ASSUME NEW m, Sound(m), NEW n \in StartCapture(m)
  PROVE  /\ Sound(n) /\ m.past \subseteq n.past
         /\ n.recording = m.recording /\ (m.isCapture => n.isCapture)
<1>1. CASE n = m
  BY <1>1
<1>2. CASE n = [m EXCEPT !.crashed = TRUE]
  BY <1>2 DEF Sound, Flags, Monitor
<1>3. CASE n = [m EXCEPT !.isCapture = TRUE, !.previewing = TRUE]
           /\ m.usbCameraConnect /\ m.camera # "null"
  BY <1>3 DEF Sound, Flags, Monitor
<1>4. CASE n = Note([m EXCEPT !.isCapture = TRUE], "notStarted")
           /\ m.usbCameraConnect /\ m.camera # "null"
  BY <1>4 DEF Sound, Flags, Monitor, Note, Events
<1> QED
  BY <1>1, <1>2, <1>3, <1>4 DEF StartCapture

\* A new control block: one connection more, for one block more.
LEMMA NewBlockSound ==
  ASSUME NEW m, Sound(m), m.blocks < MaxBlocks
  PROVE  /\ Sound(NewBlock(m)) /\ Quieter(m, NewBlock(m))
         /\ NewBlock(m).recording = m.recording
         /\ NewBlock(m).isCapture = m.isCapture
<1>1. /\ m.blocks + 1 \in 0..MaxBlocks
      /\ m.connections + 1 \in 0..(MaxBlocks + 1)
  BY ConstantsAssumption DEF Sound, Flags, Monitor
<1> DEFINE b == NewBlock(m)
<1>2. b \in Monitor
  BY <1>1 DEF Sound, Monitor, NewBlock
<1>3. /\ b.camera = m.camera /\ b.clone = m.clone
      /\ b.previewing = m.previewing /\ b.past = m.past
      /\ b.isCapture = m.isCapture /\ b.recording = m.recording
      /\ b.usbCameraConnect = m.usbCameraConnect
  BY DEF Sound, Monitor, NewBlock
<1>4. b.connections = m.connections + 1 /\ b.blocks = m.blocks + 1
  BY DEF Sound, Monitor, NewBlock
<1>5. m.connections = m.blocks + (IF m.clone THEN 1 ELSE 0)
  BY DEF Sound, Flags
<1>6. b.connections = b.blocks + (IF b.clone THEN 1 ELSE 0)
  BY <1>3, <1>4, <1>5 DEF Sound, Monitor
<1> HIDE DEF b
<1>7. Flags(b)
  BY <1>3, <1>6 DEF Sound, Flags
<1> QED
  BY <1>2, <1>3, <1>7 DEF Sound, Quieter, b

\* The camera is replaced; usbCameraConnect may then be that of the one
\* before, so what failed has to be noted before the monitor is Sound.
Between(m, n) ==
  /\ n \in Monitor /\ n.connections = n.blocks /\ ~n.clone
  /\ n.camera = "new" /\ ~n.previewing /\ m.past \subseteq n.past
  /\ n.isCapture => n.usbCameraConnect /\ "reconnected" \in n.past
  /\ n.recording = m.recording /\ n.isCapture = m.isCapture

LEMMA NewCameraBetween ==
  ASSUME NEW m, Sound(m)
  PROVE  Between(m, NewCamera(m))
<1> DEFINE c == Close(m)
           d == [c EXCEPT !.camera = "new"]
<1>1. /\ c \in Monitor /\ c.connections = c.blocks /\ ~c.clone
      /\ ~c.previewing /\ c.past = m.past /\ c.isCapture = m.isCapture
      /\ c.recording = m.recording
      /\ c.usbCameraConnect = m.usbCameraConnect
  BY CloseSound DEF Sound, Flags
<1> HIDE DEF c
<1>2. /\ d \in Monitor /\ d.connections = d.blocks /\ ~d.clone
      /\ ~d.previewing /\ d.past = m.past /\ d.isCapture = m.isCapture
      /\ d.recording = m.recording /\ d.camera = "new"
      /\ d.usbCameraConnect = m.usbCameraConnect
  BY <1>1 DEF Monitor
<1>3. NewCamera(m) = IF m.isCapture THEN Note(d, "reconnected") ELSE d
  BY DEF NewCamera, c
<1> HIDE DEF d
<1>4. CASE m.isCapture
  <2>1. NewCamera(m) = [d EXCEPT !.past = d.past \cup {"reconnected"}]
    BY <1>3, <1>4 DEF Note
  <2>2. m.usbCameraConnect
    BY <1>4 DEF Sound, Flags
  <2> QED
    BY <1>2, <2>1, <2>2 DEF Between, Monitor, Events
<1>5. CASE ~m.isCapture
  BY <1>2, <1>3, <1>5 DEF Between
<1> QED
  BY <1>4, <1>5

Kept(m, n) ==
  /\ Sound(n) /\ Quieter(m, n)
  /\ n.recording = m.recording /\ n.isCapture = m.isCapture

LEMMA OpenSound ==
  ASSUME NEW m, NEW n, Between(m, n), NEW p \in Plugs
  PROVE  /\ Kept(m, Failed(n)) /\ Kept(m, Failed(Cloned(n)))
         /\ Kept(m, Opened(n, p))
<1>1. /\ n.connections + 1 \in 0..(MaxBlocks + 1) /\ p \in 0..MaxPlugs
  BY ConstantsAssumption DEF Between, Monitor, Plugs
<1>2. Kept(m, Failed(n))
  BY DEF Between, Kept, Failed, Note, Monitor, Events, Sound, Flags, Quieter
<1> DEFINE c == Cloned(n)
<1>3. /\ c \in Monitor /\ c.connections = c.blocks + 1 /\ c.clone
      /\ c.camera = "new" /\ ~c.previewing /\ m.past \subseteq c.past
      /\ c.isCapture => c.usbCameraConnect /\ "reconnected" \in c.past
      /\ c.recording = m.recording /\ c.isCapture = m.isCapture
  BY <1>1 DEF Between, Cloned, Monitor
<1>4. Opened(n, p) = [c EXCEPT !.camera = "open", !.device = p,
                               !.usbCameraConnect = TRUE]
  BY DEF Opened
<1> HIDE DEF c
<1>5. Kept(m, Failed(c))
  BY <1>3 DEF Kept, Failed, Note, Monitor, Events, Sound, Flags, Quieter
<1>6. Kept(m, Opened(n, p))
  BY <1>1, <1>3, <1>4 DEF Kept, Monitor, Sound, Flags, Quieter
<1> QED
  BY <1>2, <1>5, <1>6 DEF c

LEMMA ConnectSound ==
  ASSUME NEW m, Sound(m), NEW p \in Plugs, NEW n \in ConnectCamera(m, p)
  PROVE  Kept(m, n)
<1>1. CASE n = m
  BY <1>1 DEF Kept, Quieter
<1>2. CASE n = Failed(NewCamera(m))
  BY <1>2, NewCameraBetween, OpenSound
<1>3. CASE m.blocks < MaxBlocks
           /\ n \in {NewBlock(m), Failed(NewCamera(NewBlock(m))),
                     Failed(Cloned(NewCamera(NewBlock(m)))),
                     Opened(NewCamera(NewBlock(m)), p)}
  <2> DEFINE b == NewBlock(m)
  <2>1. Kept(m, b)
    BY <1>3, NewBlockSound DEF Kept
  <2>2. Between(b, NewCamera(b))
    BY <2>1, NewCameraBetween DEF Kept
  <2>3. n = b \/ Kept(b, n)
    BY <1>3, <2>2, OpenSound
  <2> QED
    BY <2>1, <2>3 DEF Kept, Quieter
<1> QED
  BY <1>1, <1>2, <1>3 DEF ConnectCamera

-----------------------------------------------------------------------------
(* The actions.                                                            *)

LEMMA InitInv == Init => IInv
<1> SUFFICES ASSUME Init PROVE IInv
  OBVIOUS
<1>1. MaxPlugs \in Nat /\ MaxOthers \in Nat /\ MaxPosted \in Nat
      /\ MaxResumes \in Nat /\ MaxBlocks \in Nat
  BY ConstantsAssumption
<1>2. OtherTypes
  <2>1. plug \in 0..MaxPlugs /\ (plugged => plug \in Plugs)
    <3>1. plug \in 0..1 /\ plug <= MaxPlugs
      BY DEF Init
    <3>2. plugged => plug = 1
      BY Zenon DEF Init
    <3> QED
      BY <1>1, <3>1, <3>2 DEF Plugs
  <2>2. granted \subseteq Plugs /\ asked \subseteq Plugs
    BY <1>1 DEF Init, Plugs
  <2>3. broadcasts \in Seq(Sent)
    BY DEF Init
  <2>4. plugged \in BOOLEAN /\ btnCapture \in BOOLEAN
    BY Zenon DEF Init
  <2>5. others \in 0..MaxOthers /\ posted \in 0..MaxPosted
        /\ resumes \in 0..MaxResumes /\ activity = "starting"
    BY <1>1 DEF Init
  <2> QED
    BY <2>1, <2>2, <2>3, <2>4, <2>5 DEF OtherTypes
<1>3. monitor \in Monitor
  BY <1>1 DEF Init, Monitor
<1>4. Flags(monitor) /\ Recorded(monitor) /\ ~monitor.previewing
  BY DEF Init, Flags, Recorded
<1> QED
  BY <1>2, <1>3, <1>4 DEF IInv, MonitorInv, Sound, Seen

\* A message is one of Sent, and so is what is left of them.
LEMMA SendTypes ==
  ASSUME OtherTypes, NEW b \in Sent, Send(b)
  PROVE  broadcasts' \in Seq(Sent)
BY DEF OtherTypes, Send

LEMMA NextTypes ==
  ASSUME OtherTypes, broadcasts # <<>>
  PROVE  Head(broadcasts) \in Sent /\ Tail(broadcasts) \in Seq(Sent)
BY DEF OtherTypes

LEMMA CableInv == ASSUME IInv, Cable PROVE IInv'
<1>1. monitor' = monitor /\ activity' = activity /\ btnCapture' = btnCapture
      /\ posted' = posted /\ resumes' = resumes /\ granted' = granted
      /\ asked' = asked
  BY DEF Cable, Plug, Unplug, UnplugOther, dialogVars, lifeVars
<1>2. MonitorInv'
  BY <1>1 DEF IInv, MonitorInv, Sound, Flags, Monitor, Recorded, Seen
<1>3. CASE Plug
  <2>1. Message("attached", plug + 1) \in Sent /\ plug + 1 \in Plugs
    BY <1>3, ConstantsAssumption
    DEF Plug, Message, Sent, Broadcast, Plugs, IInv, OtherTypes
  <2> QED
    BY <1>1, <1>2, <1>3, <2>1, SendTypes DEF Plug, IInv, OtherTypes, Plugs
<1>4. CASE Unplug
  <2>1. Message("detached", plug) \in Sent
    BY DEF Message, Sent, Broadcast, IInv, OtherTypes
  <2> QED
    BY <1>1, <1>2, <1>4, <2>1, SendTypes DEF Unplug, IInv, OtherTypes
<1>5. CASE UnplugOther
  <2>1. Message("detached", 0) \in Sent /\ others + 1 \in 0..MaxOthers
    BY <1>5, ConstantsAssumption
    DEF UnplugOther, Message, Sent, Broadcast, IInv, OtherTypes
  <2> QED
    BY <1>1, <1>2, <1>5, <2>1, SendTypes DEF UnplugOther, IInv, OtherTypes
<1> QED
  BY <1>3, <1>4, <1>5 DEF Cable

LEMMA DialogInv == ASSUME IInv, Dialog PROVE IInv'
<1> PICK p \in Plugs, answer \in BOOLEAN : Answer(p, answer)
  BY DEF Dialog
<1>1. [action |-> "permission", device |-> p, granted |-> answer] \in Sent
  BY ConstantsAssumption DEF Sent, Broadcast, Plugs
<1>2. broadcasts' \in Seq(Sent)
  BY <1>1, SendTypes DEF Answer, IInv
<1>3. monitor' = monitor /\ activity' = activity /\ btnCapture' = btnCapture
  BY DEF Answer, lifeVars
<1>4. MonitorInv'
  BY <1>3 DEF IInv, MonitorInv, Sound, Flags, Monitor, Recorded, Seen
<1> QED
  BY <1>2, <1>4 DEF IInv, OtherTypes, Answer, usbVars, lifeVars

\* A monitor that is Kept is what MonitorInv asks for, if the preview is seen
\* as before.
LEMMA KeptInv ==
  ASSUME MonitorInv, Kept(monitor, monitor'),
         UNCHANGED <<activity, btnCapture>>
         \/ ~(activity = "resumed" /\ btnCapture)
  PROVE  MonitorInv'
BY DEF MonitorInv, Kept, Quieter, Sound, Flags, Monitor, Recorded, Seen

LEMMA KeptSelf == ASSUME MonitorInv PROVE Kept(monitor, monitor)
BY DEF MonitorInv, Kept, Quieter

LEMMA AskOrConnectKept ==
  ASSUME IInv, NEW p \in Plugs, AskOrConnect(p)
  PROVE  Kept(monitor, monitor') /\ asked' \subseteq Plugs
<1>1. CASE HasPermission(p)
  BY <1>1, ConnectSound
  DEF AskOrConnect, IInv, MonitorInv, OtherTypes
<1>2. CASE ~HasPermission(p)
  BY <1>2, KeptSelf DEF AskOrConnect, IInv, OtherTypes
<1> QED
  BY <1>1, <1>2

\* onDetached and onDestroy: stopCapture first, then the camera is released.
LEMMA ReleasedSound ==
  ASSUME NEW m, Sound(m), Recorded(m)
  PROVE  LET n == ReleaseCamera(StopCapture(StopRecoder(m))) IN
         /\ Sound(n) /\ Recorded(n) /\ ~n.previewing
<1> DEFINE r == StopRecoder(m)
           c == StopCapture(r)
           n == ReleaseCamera(c)
<1>1. Sound(r) /\ (r.recording => "pausedRecording" \in r.past)
  BY StopRecoderSound
<1> HIDE DEF r
<1>2. /\ Sound(c) /\ ~c.isCapture /\ ~c.previewing
      /\ c.recording => "pausedRecording" \in c.past
  BY <1>1, StopCaptureSound
<1> HIDE DEF c
<1>3. /\ Sound(n) /\ ~n.previewing /\ Recorded(n)
  BY <1>2, ReleaseSound DEF Quieter, Recorded
<1> QED
  BY <1>3 DEF c, r

LEMMA DeliverInv == ASSUME IInv, Deliver PROVE IInv'
<1> DEFINE b == Head(broadcasts)
<1>1. broadcasts # <<>> /\ broadcasts' = Tail(broadcasts)
      /\ UNCHANGED <<usbVars, granted, lifeVars>>
  BY DEF Deliver, Attached, Permission, Detached, NextIs, dialogVars
<1>2. b \in Sent /\ broadcasts' \in Seq(Sent)
  BY <1>1, NextTypes DEF IInv
<1>3. ASSUME MonitorInv', asked' \subseteq Plugs PROVE IInv'
  BY <1>1, <1>2, <1>3 DEF IInv, OtherTypes, usbVars, lifeVars
<1>4. CASE Attached
  <2>1. b.device \in Plugs
    BY <1>2, <1>4 DEF Attached, NextIs, Sent
  <2> QED
    BY <1>1, <1>3, <1>4, <2>1, AskOrConnectKept, KeptInv
    DEF Attached, Device, IInv, lifeVars
<1>5. CASE Permission
  <2>1. b.device \in Plugs
    BY <1>2, <1>5 DEF Permission, NextIs, Sent
  <2>2. Kept(monitor, monitor')
    BY <1>5, <2>1, ConnectSound, KeptSelf
    DEF Permission, Device, IInv, MonitorInv
  <2> QED
    BY <1>1, <1>3, <1>5, <2>2, KeptInv
    DEF Permission, IInv, OtherTypes, lifeVars, dialogVars
<1>6. CASE Detached
  <2>1. Sound(monitor') /\ Recorded(monitor') /\ ~monitor'.previewing
    BY <1>6, ReleasedSound DEF Detached, OnDetached, IInv, MonitorInv
  <2>2. MonitorInv'
    BY <2>1 DEF MonitorInv, Sound, Flags, Monitor, Recorded, Seen
  <2> QED
    BY <1>3, <1>6, <2>2 DEF Detached, dialogVars, IInv, OtherTypes
<1> QED
  BY <1>4, <1>5, <1>6 DEF Deliver

\* A step of the activity, or a press, keeps the other types if it keeps asked
\* and the broadcasts typed.
LEMMA StopCaptureInv ==
  ASSUME MonitorInv, monitor' = StopCapture(monitor),
         monitor.recording => "pausedRecording" \in monitor.past
  PROVE  MonitorInv'
BY StopCaptureSound
DEF MonitorInv, Sound, Flags, Monitor, Recorded, Seen

LEMMA StartCaptureInv ==
  ASSUME MonitorInv, NEW m, Sound(m), Recorded(m),
         monitor' \in StartCapture(m),
         (activity' = "resumed" /\ btnCapture') \/ "lateStart" \in m.past
  PROVE  MonitorInv'
<1>1. Sound(monitor') /\ m.past \subseteq monitor'.past
      /\ monitor'.recording = m.recording
      /\ (m.isCapture => monitor'.isCapture)
  BY StartCaptureSound
<1>2. Sound(monitor)'
  BY <1>1 DEF Sound, Flags, Monitor
<1>3. Recorded(monitor)'
  BY <1>1 DEF Recorded
<1>4. Seen(monitor, activity = "resumed" /\ btnCapture)'
  BY <1>1 DEF Seen
<1> QED
  BY <1>2, <1>3, <1>4 DEF MonitorInv

LEMMA PauseInv == ASSUME IInv, Pause PROVE IInv'
<1> DEFINE m == IF monitor.recording THEN Note(monitor, "pausedRecording")
                ELSE monitor
<1>1. Sound(monitor) /\ Recorded(monitor)
      /\ Seen(monitor, activity = "resumed" /\ btnCapture)
  BY DEF IInv, MonitorInv
<1>2. Sound(OnPause(monitor))
      /\ OnPause(monitor).recording = monitor.recording
      /\ Seen(OnPause(monitor), FALSE)
  <2>1. CASE btnCapture
    BY <1>1, <2>1, StopCaptureSound DEF OnPause, Seen
  <2>2. CASE ~btnCapture
    BY <1>1, <2>2 DEF OnPause, Seen
  <2> QED
    BY <2>1, <2>2
<1>3. CASE monitor.recording
  <2>1. monitor' = Note(OnPause(monitor), "pausedRecording")
    BY <1>3 DEF Pause
  <2>2. Sound(monitor') /\ "pausedRecording" \in monitor'.past
        /\ OnPause(monitor).past \subseteq monitor'.past
        /\ monitor'.previewing = OnPause(monitor).previewing
    BY <1>2, <2>1 DEF Note, Sound, Flags, Monitor, Events
  <2> QED
    BY <1>2, <2>2 DEF MonitorInv, Sound, Flags, Monitor, Recorded, Seen,
                      IInv, OtherTypes, Pause, Live, usbVars
<1>4. CASE ~monitor.recording
  <2>1. monitor' = OnPause(monitor)
    BY <1>4 DEF Pause
  <2> QED
    BY <1>2, <1>4, <2>1 DEF MonitorInv, Sound, Flags, Monitor, Recorded, Seen,
                            IInv, OtherTypes, Pause, Live, usbVars
<1> QED
  BY <1>3, <1>4

LEMMA LifeCycleInv == ASSUME IInv, LifeCycle PROVE IInv'
<1>0. MonitorInv /\ Sound(monitor) /\ Recorded(monitor)
  BY DEF IInv, MonitorInv
<1>1. CASE Register
  BY <1>1, <1>0, KeptSelf, KeptInv
  DEF Register, Live, usbVars, IInv, OtherTypes
<1>2. CASE InitCheck
  <2>1. Kept(monitor, monitor') /\ asked' \subseteq Plugs
    BY <1>0, <1>2, KeptSelf, AskOrConnectKept DEF InitCheck, IInv, OtherTypes
  <2>2. MonitorInv'
    BY <1>0, <1>2, <2>1, KeptInv DEF InitCheck
  <2> QED
    BY <1>2, <2>1, <2>2 DEF InitCheck, Live, usbVars, IInv, OtherTypes
<1>3. CASE Resume
  <2>1. monitor' = monitor /\ activity' = "resumed" /\ btnCapture' = btnCapture
    BY <1>3 DEF Resume, Live
  <2>2. MonitorInv'
    BY <1>0, <1>3, <2>1
    DEF Resume, MonitorInv, Sound, Flags, Monitor, Recorded, Seen
  <2>3. posted' \in 0..MaxPosted /\ resumes' \in 0..MaxResumes
    BY <1>3, ConstantsAssumption DEF Resume, IInv, OtherTypes
  <2> QED
    BY <1>3, <2>1, <2>2, <2>3 DEF Resume, Live, usbVars, IInv, OtherTypes
<1>4. CASE Pause
  BY <1>4, PauseInv
<1>5. CASE Destroy
  <2>1. Sound(monitor') /\ Recorded(monitor') /\ ~monitor'.previewing
    BY <1>0, <1>5, ReleasedSound DEF Destroy
  <2>2. MonitorInv'
    BY <2>1 DEF MonitorInv, Sound, Flags, Monitor, Recorded, Seen
  <2>3. broadcasts' \in Seq(Sent) /\ posted' \in 0..MaxPosted
    BY <1>5, ConstantsAssumption DEF Destroy
  <2> QED
    BY <1>5, <2>2, <2>3 DEF Destroy, Live, usbVars, IInv, OtherTypes
<1>6. CASE RunPosted
  <2> DEFINE m == IF activity = "resumed" /\ btnCapture THEN monitor
                  ELSE Note(monitor, "lateStart")
  <2>1. Sound(m) /\ Recorded(m)
    <3>1. Sound(Note(monitor, "lateStart"))
          /\ Recorded(Note(monitor, "lateStart"))
      BY <1>0, NoteSound DEF Events, Recorded, Note, Sound, Monitor
    <3> QED
      BY <1>0, <3>1
  <2>2. monitor' \in StartCapture(m) /\ activity' = activity
        /\ btnCapture' = btnCapture
    BY <1>6 DEF RunPosted
  <2>3. (activity' = "resumed" /\ btnCapture') \/ "lateStart" \in m.past
    BY <1>0, <2>2 DEF Note, Sound, Monitor
  <2> HIDE DEF m
  <2>4. MonitorInv'
    BY <1>0, <2>1, <2>2, <2>3, StartCaptureInv
  <2> QED
    BY <1>6, <2>4, ConstantsAssumption
    DEF RunPosted, usbVars, dialogVars, IInv, OtherTypes
<1> QED
  BY <1>1, <1>2, <1>3, <1>4, <1>5, <1>6 DEF LifeCycle

LEMMA UserInv == ASSUME IInv, User PROVE IInv'
<1>0. MonitorInv /\ Sound(monitor) /\ Recorded(monitor)
  BY DEF IInv, MonitorInv
<1>1. activity = "resumed"
      /\ UNCHANGED <<usbVars, granted, broadcasts, activity, posted, resumes>>
  BY DEF User, SwitchOn, SwitchOff, RestartCapture, ClickStatus, Shoot,
         Pressed
<1>2. ASSUME MonitorInv', asked' \subseteq Plugs, btnCapture' \in BOOLEAN
      PROVE  IInv'
  BY <1>1, <1>2 DEF IInv, OtherTypes, usbVars
<1>3. CASE SwitchOn
  <2>1. MonitorInv'
    BY <1>0, <1>1, <1>3, StartCaptureInv DEF SwitchOn
  <2> QED
    BY <1>2, <1>3, <2>1 DEF SwitchOn, IInv, OtherTypes
<1>4. CASE SwitchOff
  <2>1. MonitorInv'
    BY <1>0, <1>4, StopCaptureInv DEF SwitchOff
  <2> QED
    BY <1>2, <1>4, <2>1 DEF SwitchOff, IInv, OtherTypes
<1>5. CASE RestartCapture
  <2>1. Sound(StopCapture(monitor)) /\ Recorded(StopCapture(monitor))
    BY <1>0, <1>5, StopCaptureSound DEF RestartCapture, Recorded
  <2>2. MonitorInv'
    BY <1>0, <1>1, <1>5, <2>1, StartCaptureInv DEF RestartCapture
  <2> QED
    BY <1>2, <1>5, <2>2 DEF RestartCapture, IInv, OtherTypes
<1>6. CASE ClickStatus
  <2>1. plug \in Plugs
    BY <1>6 DEF ClickStatus, IInv, OtherTypes
  <2>2. Kept(monitor, monitor') /\ asked' \subseteq Plugs
    BY <1>6, <2>1, AskOrConnectKept DEF ClickStatus
  <2>3. btnCapture' = btnCapture
    BY <1>6 DEF ClickStatus
  <2>4. MonitorInv'
    BY <1>0, <1>1, <2>2, <2>3, KeptInv
  <2> QED
    BY <1>2, <2>2, <2>3, <2>4 DEF IInv, OtherTypes
<1>7. CASE Shoot
  <2>1. monitor' = [monitor EXCEPT !.recording = ~monitor.recording]
        /\ monitor.isCapture /\ btnCapture' = btnCapture /\ asked' = asked
    BY <1>0, <1>7 DEF Shoot, StopRecoder, StartRecoder, Sound, Monitor
  <2>2. MonitorInv'
    BY <1>0, <1>1, <2>1
    DEF MonitorInv, Sound, Flags, Monitor, Recorded, Seen
  <2> QED
    BY <1>2, <2>1, <2>2 DEF IInv, OtherTypes
<1> QED
  BY <1>3, <1>4, <1>5, <1>6, <1>7 DEF User

LEMMA IInvStep == IInv /\ [Next]_vars => IInv'
<1> SUFFICES ASSUME IInv, [Next]_vars PROVE IInv'
  OBVIOUS
<1>1. CASE Next
  BY <1>1, CableInv, DialogInv, DeliverInv, LifeCycleInv, UserInv DEF Next
<1>2. CASE UNCHANGED vars
  BY <1>2
  DEF vars, usbVars, dialogVars, lifeVars, IInv, OtherTypes, MonitorInv,
      Sound, Flags, Monitor, Recorded, Seen
<1> QED
  BY <1>1, <1>2

\* The inductive invariant holds in every reachable state.
THEOREM MonitorSound == Spec => []IInv
<1>1. Init => IInv
  BY InitInv
<1>2. IInv /\ [Next]_vars => IInv'
  BY IInvStep
<1> QED
  BY <1>1, <1>2, PTL DEF Spec

\* Every reachable state of the monitor, the activity and the broadcasts is
\* type correct.
THEOREM TypeCorrect == Spec => []TypeOK
<1>1. \A q \in Seq(Sent) : q \in Seq(Broadcast)
  BY DEF Sent
<1>2. IInv => TypeOK
  BY <1>1 DEF IInv, OtherTypes, MonitorInv, Sound, TypeOK
<1> QED
  BY <1>2, MonitorSound, PTL

\* isCapture tells whether the native preview runs, in every order of plugs,
\* broadcasts, life-cycle calls and presses.
THEOREM CaptureFlag == Spec => []CaptureIsPreview
<1>1. IInv => CaptureIsPreview
  BY DEF IInv, MonitorInv, Sound, Flags, CaptureIsPreview
<1> QED
  BY <1>1, MonitorSound, PTL

\* usbCameraConnect tells whether the camera is open, but for a reconnection
\* that failed.
THEOREM ConnectFlag == Spec => []ConnectedIsOpen
<1>1. IInv => ConnectedIsOpen
  BY DEF IInv, MonitorInv, Sound, Flags, ConnectedIsOpen
<1> QED
  BY <1>1, MonitorSound, PTL

\* Nothing is previewed in the background but by onResume's late runnable.
THEOREM Background == Spec => []PausedIsIdle
<1>1. IInv => PausedIsIdle
  BY DEF IInv, MonitorInv, Seen, PausedIsIdle
<1> QED
  BY <1>1, MonitorSound, PTL

\* A recording ends with its camera unless onPause cleared isCapture first.
THEOREM RecordingEnds == Spec => []RecordingEndsWithCamera
<1>1. IInv => RecordingEndsWithCamera
  BY DEF IInv, MonitorInv, Sound, Flags, Recorded, RecordingEndsWithCamera
<1> QED
  BY <1>1, MonitorSound, PTL

\* One connection is left open by each control block, and no other.
THEOREM Connections == Spec => []OneLeakPerBlock
<1>1. IInv => OneLeakPerBlock
  BY DEF IInv, MonitorInv, Sound, Flags, OneLeakPerBlock
<1> QED
  BY <1>1, MonitorSound, PTL
=============================================================================
