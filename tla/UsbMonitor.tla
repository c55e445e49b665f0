----------------------------- MODULE UsbMonitor -----------------------------
(***************************************************************************)
(* The camera's life on the UI thread: USBMonitor.java with its broadcast  *)
(* receiver, UsbControlBlock.java, UVCCamera.java and the life cycle and   *)
(* the buttons of LocalUVCPreviewActivity.java.                            *)
(*                                                                         *)
(* All of it runs on the UI thread, so a handler is one step; only onCreate*)
(* is two, because a camera plugged in between register() and getDevice-   *)
(* List() is seen twice.  What races is outside: the user plugs and pulls  *)
(* cables, Android queues broadcasts, the permission dialog and the        *)
(* delayed runnable of onResume come when they like.  A handler's calls    *)
(* are operators on the record `monitor`, composed in the order of the     *)
(* code; a call that may fail is the set of its results.                   *)
(***************************************************************************)
EXTENDS Naturals, Sequences

CONSTANTS
  MaxPlugs,    \* bound: how often the camera is plugged in
  MaxOthers,   \* bound: other USB devices pulled out
  MaxQueued,   \* bound: broadcasts not yet delivered
  MaxBlocks,   \* bound: UsbControlBlocks made
  MaxPosted,   \* bound: runnables of onResume waiting
  MaxResumes   \* bound: calls of onResume

ASSUME ConstantsAssumption ==
  /\ {MaxPlugs, MaxOthers, MaxQueued, MaxPosted, MaxResumes} \subseteq Nat
  /\ MaxBlocks \in Nat \ {0}

Plugs == 1..MaxPlugs

VARIABLES
  plug, plugged,  \* how often the camera was plugged in; whether it is
  granted,        \* the plugs the user gave permission for
  asked,          \* the plugs a permission dialog is open for
  broadcasts,     \* sent to mUsbReceiver, not yet delivered
  others,         \* other devices that were pulled out
  activity, btnCapture,   \* its life cycle, and its switch
  posted,         \* onResume's runnables that have not run
  resumes,        \* calls of onResume
  monitor         \* USBMonitor and its UVCCamera

usbVars == <<plug, plugged, others>>
dialogVars == <<granted, asked>>
lifeVars == <<activity, btnCapture, posted, resumes>>
vars == <<usbVars, dialogVars, broadcasts, lifeVars, monitor>>

Broadcast ==
  [action : {"attached", "detached", "permission"}, device : 0..MaxPlugs,
   granted : BOOLEAN]

\* What happened and a later state may depend on (history).
Events == {"reconnected", "reconnectFailed", "notStarted", "lateStart",
           "pausedRecording"}

Monitor ==
  [camera : {"null", "new", "open"},   \* mUVCCamera, without and with a device
   device : 0..MaxPlugs,     \* the plug it was opened on
   clone : BOOLEAN,          \* its mCtrlBlock is not null
   previewing : BOOLEAN,     \* the native preview runs
   usbCameraConnect : BOOLEAN, isCapture : BOOLEAN,
   recording : BOOLEAN,      \* mp4Encoder is not null, isRecording
   blocks : 0..MaxBlocks,    \* UsbControlBlocks whose constructor opened
   connections : 0..(MaxBlocks + 1),   \* open UsbDeviceConnections
   crashed : BOOLEAN, past : SUBSET Events]

TypeOK ==
  /\ plug \in 0..MaxPlugs /\ plugged \in BOOLEAN /\ others \in 0..MaxOthers
  /\ granted \subseteq Plugs /\ asked \subseteq Plugs
  /\ broadcasts \in Seq(Broadcast)
  /\ activity \in {"starting", "registered", "created", "resumed", "paused",
                   "destroyed"}
  /\ btnCapture \in BOOLEAN
  /\ posted \in 0..MaxPosted /\ resumes \in 0..MaxResumes
  /\ monitor \in Monitor

-----------------------------------------------------------------------------
(* UVCCamera and USBMonitor, as operators on the monitor.                  *)

Note(m, event) == [m EXCEPT !.past = @ \cup {event}]

\* Mutant: close forgets mCtrlBlock without closing it.
Close_KeepsConnection(m) ==
  [m EXCEPT !.camera = "null", !.device = 0, !.previewing = FALSE,
            !.clone = FALSE]

\* UVCCamera.close and destroy: the preview ends, the clone's connection is
\* closed.  The connection of the control block it was cloned from is not.
Close(m) ==
  [m EXCEPT !.camera = "null", !.device = 0, !.previewing = FALSE,
            !.clone = FALSE,
            !.connections = IF m.clone THEN @ - 1 ELSE @]
\* Mutant: usbCameraConnect is not reset.
ReleaseCamera_StaysConnected(m) == IF m.camera = "null" THEN m ELSE Close(m)

ReleaseCamera(m) ==
  IF m.camera = "null" THEN m
  ELSE [Close(m) EXCEPT !.usbCameraConnect = FALSE]

\* Mutant: the flag is cleared and the preview goes on.
StopCapture_FlagOnly(m) ==
  IF m.camera # "null" /\ m.usbCameraConnect /\ m.isCapture
  THEN [m EXCEPT !.isCapture = FALSE] ELSE m

StopCapture(m) ==
  IF m.camera # "null" /\ m.usbCameraConnect /\ m.isCapture
  THEN [m EXCEPT !.isCapture = FALSE, !.previewing = FALSE] ELSE m

\* setPreviewSize throws when there is no native preview or the camera
\* refuses the size, and nobody catches it.  The result of startPreview is
\* ignored.
StartCapture(m) ==
  IF m.camera = "null" \/ ~m.usbCameraConnect \/ m.isCapture THEN {m}
  ELSE {[m EXCEPT !.crashed = TRUE]} \cup
       IF m.camera = "new" THEN {}
       ELSE {[m EXCEPT !.isCapture = TRUE, !.previewing = TRUE],
             Note([m EXCEPT !.isCapture = TRUE], "notStarted")}

StopRecoder(m) == IF m.isCapture THEN [m EXCEPT !.recording = FALSE] ELSE m
StartRecoder(m) == IF m.isCapture THEN [m EXCEPT !.recording = TRUE] ELSE m

\* new UsbControlBlock: its connection is opened first; it may fail then.
NewBlock(m) ==
  [m EXCEPT !.blocks = @ + 1, !.connections = @ + 1]

\* connectCamera closes the camera there is, isCapture stays as it is.
NewCamera(m) ==
  LET n == [Close(m) EXCEPT !.camera = "new"] IN
  IF m.isCapture THEN Note(n, "reconnected") ELSE n

\* open: the clone, or the native connection, may fail; usbCameraConnect is
\* then what it was for the camera before.
Failed(m) == IF m.usbCameraConnect THEN Note(m, "reconnectFailed") ELSE m
Cloned(m) == [m EXCEPT !.clone = TRUE, !.connections = @ + 1]
Opened(m, p) ==
  [Cloned(m) EXCEPT !.camera = "open", !.device = p,
                    !.usbCameraConnect = TRUE]

\* new UsbControlBlock and connectCamera for plug p.  An exception is caught.
\* Without the device the constructor throws, or makes a block without a
\* connection that cannot be cloned; with it, any call may fail.
ConnectCamera(m, p) ==
  LET n == NewCamera(NewBlock(m)) IN
  {m, Failed(NewCamera(m))} \cup
    IF plugged /\ p = plug /\ p \in granted /\ m.blocks < MaxBlocks
    THEN {NewBlock(m), Failed(n), Failed(Cloned(n)), Opened(n, p)}
    ELSE {}

-----------------------------------------------------------------------------
(* The cable.                                                              *)

Registered == activity \notin {"starting", "destroyed"}
Send(b) ==
  /\ Len(broadcasts) < MaxQueued
  /\ broadcasts' = IF Registered THEN Append(broadcasts, b) ELSE broadcasts
Message(action, p) == [action |-> action, device |-> p, granted |-> FALSE]

Plug ==
  /\ ~plugged /\ plug < MaxPlugs
  /\ plugged' = TRUE /\ plug' = plug + 1
  /\ Send(Message("attached", plug + 1))
  /\ UNCHANGED <<others, dialogVars, lifeVars, monitor>>

Unplug ==
  /\ plugged /\ plugged' = FALSE
  /\ Send(Message("detached", plug))
  /\ UNCHANGED <<plug, others, dialogVars, lifeVars, monitor>>

UnplugOther ==
  /\ others < MaxOthers /\ others' = others + 1
  /\ Send(Message("detached", 0))
  /\ UNCHANGED <<plug, plugged, dialogVars, lifeVars, monitor>>

\* The user answers the dialog requestPermission opened.
Answer(p, answer) ==
  /\ p \in asked /\ asked' = asked \ {p}
  /\ granted' = IF answer THEN granted \cup {p} ELSE granted
  /\ Send([action |-> "permission", device |-> p, granted |-> answer])
  /\ UNCHANGED <<usbVars, lifeVars, monitor>>

-----------------------------------------------------------------------------
(* onReceive, one step per broadcast.                                      *)

NextIs(action) ==
  Registered /\ broadcasts # <<>> /\ Head(broadcasts).action = action
Device == Head(broadcasts).device

\* hasPermission ends with the plug.
HasPermission(p) == plugged /\ p = plug /\ p \in granted

\* Ask for permission, or connect.
AskOrConnect(p) ==
  IF HasPermission(p)
  THEN monitor' \in ConnectCamera(monitor, p) /\ UNCHANGED asked
  ELSE asked' = asked \cup {p} /\ UNCHANGED monitor

Attached ==
  /\ NextIs("attached") /\ broadcasts' = Tail(broadcasts)
  /\ AskOrConnect(Device)
  /\ UNCHANGED <<usbVars, granted, lifeVars>>

Permission ==
  /\ NextIs("permission") /\ broadcasts' = Tail(broadcasts)
  /\ IF Head(broadcasts).granted
     THEN monitor' \in ConnectCamera(monitor, Device)
     ELSE UNCHANGED monitor
  /\ UNCHANGED <<usbVars, dialogVars, lifeVars>>

\* Mutant: the capture is stopped before the recording.
OnDetached_CaptureFirst(m) == ReleaseCamera(StopRecoder(StopCapture(m)))
\* Whatever device it was.
OnDetached(m) == ReleaseCamera(StopCapture(StopRecoder(m)))

\* Mutant: a detach is ignored while nothing is captured.
Detached_OnlyCapturing ==
  /\ NextIs("detached") /\ broadcasts' = Tail(broadcasts)
  /\ monitor' = IF monitor.isCapture THEN OnDetached(monitor) ELSE monitor
  /\ UNCHANGED <<usbVars, dialogVars, lifeVars>>

Detached ==
  /\ NextIs("detached") /\ broadcasts' = Tail(broadcasts)
  /\ monitor' = OnDetached(monitor)
  /\ UNCHANGED <<usbVars, dialogVars, lifeVars>>

-----------------------------------------------------------------------------
(* The activity.                                                           *)

Live(state) ==
  /\ activity' = state
  /\ UNCHANGED <<usbVars, granted>>

Register ==
  /\ activity = "starting" /\ Live("registered")
  /\ UNCHANGED <<asked, broadcasts, btnCapture, posted, resumes, monitor>>

InitCheck ==
  /\ activity = "registered" /\ Live("created")
  /\ IF plugged THEN AskOrConnect(plug) ELSE UNCHANGED <<asked, monitor>>
  /\ UNCHANGED <<broadcasts, btnCapture, posted, resumes>>

Resume ==
  /\ activity \in {"created", "paused"} /\ Live("resumed")
  /\ resumes < MaxResumes /\ resumes' = resumes + 1
  /\ IF btnCapture THEN posted < MaxPosted /\ posted' = posted + 1
                   ELSE UNCHANGED posted
  /\ UNCHANGED <<asked, broadcasts, btnCapture, monitor>>

\* Mutant: the capture goes on in the background.
OnPause_Keeps(m) == m
OnPause(m) == IF btnCapture THEN StopCapture(m) ELSE m

Pause ==
  /\ activity = "resumed" /\ Live("paused")
  /\ monitor' = IF monitor.recording
                THEN Note(OnPause(monitor), "pausedRecording")
                ELSE OnPause(monitor)
  /\ UNCHANGED <<asked, broadcasts, btnCapture, posted, resumes>>

\* onDestroy; unregister drops what was not delivered.
Destroy ==
  /\ activity = "paused" /\ Live("destroyed")
  /\ monitor' = ReleaseCamera(StopCapture(StopRecoder(monitor)))
  /\ broadcasts' = <<>> /\ posted' = 0
  /\ UNCHANGED <<asked, btnCapture, resumes>>

\* The runnable of onResume, 200 ms later; nobody cancels it.
RunPosted ==
  /\ posted > 0 /\ posted' = posted - 1
  /\ monitor' \in StartCapture(IF activity = "resumed" /\ btnCapture
                               THEN monitor ELSE Note(monitor, "lateStart"))
  /\ UNCHANGED <<usbVars, dialogVars, broadcasts, activity, btnCapture,
                 resumes>>

-----------------------------------------------------------------------------
(* The user.  While recording the bar with all buttons but btnShoot is     *)
(* invisible.                                                              *)

Pressed == activity = "resumed"
           /\ UNCHANGED <<usbVars, granted, broadcasts, activity, posted,
                          resumes>>

SwitchOn ==
  /\ Pressed /\ ~btnCapture /\ ~monitor.recording
  /\ btnCapture' = TRUE
  /\ monitor' \in StartCapture(monitor)
  /\ UNCHANGED asked

SwitchOff ==
  /\ Pressed /\ btnCapture /\ ~monitor.recording
  /\ btnCapture' = FALSE
  /\ monitor' = StopCapture(monitor)
  /\ UNCHANGED asked

\* btnRotate and the resolution dialog.
RestartCapture ==
  /\ Pressed /\ btnCapture /\ ~monitor.recording
  /\ monitor' \in StartCapture(StopCapture(monitor))
  /\ UNCHANGED <<asked, btnCapture>>

\* textStatus checks for a camera unless one is connected.
ClickStatus ==
  /\ Pressed /\ ~monitor.recording /\ ~monitor.usbCameraConnect /\ plugged
  /\ AskOrConnect(plug)
  /\ UNCHANGED btnCapture

\* btnShoot is enabled by onStartCapture and disabled by onStopCapture.
Shoot ==
  /\ Pressed /\ monitor.isCapture
  /\ monitor' = IF monitor.recording THEN StopRecoder(monitor)
                                     ELSE StartRecoder(monitor)
  /\ UNCHANGED <<asked, btnCapture>>

-----------------------------------------------------------------------------
Init ==
  /\ plug \in 0..1 /\ plug <= MaxPlugs /\ plugged = (plug = 1)
  /\ granted \in SUBSET (1..plug) /\ asked = {}
  /\ broadcasts = <<>> /\ others = 0
  /\ activity = "starting" /\ btnCapture = FALSE
  /\ posted = 0 /\ resumes = 0
  /\ monitor = [camera |-> "null", device |-> 0, clone |-> FALSE,
                previewing |-> FALSE, usbCameraConnect |-> FALSE,
                isCapture |-> FALSE, recording |-> FALSE, blocks |-> 0,
                connections |-> 0, crashed |-> FALSE, past |-> {}]

Cable == Plug \/ Unplug \/ UnplugOther
Dialog == \E p \in Plugs, answer \in BOOLEAN : Answer(p, answer)
Deliver == Attached \/ Permission \/ Detached
LifeCycle ==
  Register \/ InitCheck \/ Resume \/ Pause \/ Destroy \/ RunPosted
User == SwitchOn \/ SwitchOff \/ RestartCapture \/ ClickStatus \/ Shoot

\* An uncaught exception ends the process; after onDestroy nothing is left.
Alive == ~monitor.crashed /\ activity # "destroyed"

Next == Alive /\ (Cable \/ Dialog \/ Deliver \/ LifeCycle \/ User)

Spec == Init /\ [][Next]_vars

\* Android delivers what it has queued; nothing else is promised.
FairSpec == Spec /\ WF_vars(Alive /\ Deliver)

-----------------------------------------------------------------------------
(* Properties                                                              *)

\* isCapture says whether the native preview runs: a running one is always
\* known (and can be stopped), and one that does not run although isCapture
\* is set failed to start or was closed by a second connection.  Nor is it
\* left set without a connected camera: stopCapture would then do nothing,
\* and no capture could be started any more.
CaptureIsPreview ==
  /\ monitor.previewing => monitor.isCapture
  /\ monitor.isCapture /\ ~monitor.previewing =>
       monitor.past \cap {"notStarted", "reconnected"} # {}
  /\ monitor.isCapture => monitor.usbCameraConnect

\* usbCameraConnect says that the camera is open, except after a second
\* connection that failed: the flag is then the first one's.
ConnectedIsOpen ==
  /\ monitor.camera = "open" => monitor.usbCameraConnect
  /\ monitor.usbCameraConnect /\ monitor.camera # "open" =>
       "reconnectFailed" \in monitor.past

\* Nothing is previewed in the background, unless a delayed runnable of
\* onResume ran after onPause or after the switch was turned off.
PausedIsIdle ==
  activity \in {"paused", "destroyed"} /\ monitor.previewing =>
    "lateStart" \in monitor.past

\* A recording ends with its camera, unless the activity was paused during it:
\* onPause clears isCapture, and stopRecoder does nothing from then on.
RecordingEndsWithCamera ==
  monitor.recording /\ monitor.camera = "null" =>
    "pausedRecording" \in monitor.past

\* Of the connections that were opened exactly the control blocks' own stay
\* open: the camera closes its clone's, whatever fails in between.
OneLeakPerBlock ==
  monitor.connections = monitor.blocks + (IF monitor.clone THEN 1 ELSE 0)

\* A camera that was pulled out is released, in whatever order the broadcasts
\* of plugs, pulls and permissions come.
UnpluggedIsReleased ==
  \A p \in Plugs :
    monitor.device = p /\ (p < plug \/ ~plugged) ~>
      (monitor.device # p \/ ~Alive)
=============================================================================
