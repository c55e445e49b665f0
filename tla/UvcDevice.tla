----------------------------- MODULE UvcDevice -----------------------------
(***************************************************************************)
(* A camera from nativeConnect to nativeDestroy: UVCCamera.cpp, the device *)
(* and context of libuvc (device.c, init.c) and the event handling of      *)
(* libusb below them (core.c, io.c, sync.c).                               *)
(*                                                                         *)
(* Two threads share a libusb context.  "event" runs _uvc_handle_events    *)
(* for as long as a device is open.  "app" connects, makes control         *)
(* transfers and releases: the UI thread, or the preview thread, which     *)
(* release joins before it does anything else.  Either handles events      *)
(* while it holds the events lock and otherwise waits for the one that     *)
(* does, so the app's control transfer may be completed by the event       *)
(* thread and a status report be delivered on the app's thread.            *)
(***************************************************************************)
EXTENDS Integers, FiniteSets, FiniteSetsExt

CONSTANTS
  MaxCameras,   \* bound: UVCCamera objects made, one after the other
  MaxReports,   \* bound: status reports of the device
  MaxControls,  \* bound: control transfers
  MaxOpens,     \* bound: descriptors the rest of the process opens
  MaxFd         \* bound: the largest file descriptor

ASSUME ConstantsAssumption ==
  /\ {MaxCameras, MaxReports, MaxControls, MaxOpens} \subseteq Nat
  /\ MaxFd \in Nat \ {0}

Threads == {"app", "event"}
None == "none"
Other(t) == CHOOSE u \in Threads : u # t
Fds == 0..MaxFd

VARIABLES
  pc,           \* what each thread does next
  camera,       \* the UVCCamera and its UVCStatusCallback
  devh,         \* libuvc's device handle and device
  kill_handler_thread,
  usb,          \* locks and waiters of the libusb context
  urbs,         \* the status and the control transfer
  watched,      \* the device's descriptor is polled
  completed,    \* sync.c's flag of the control transfer
  plugged,      \* the camera is on the bus
  descriptors,  \* who opened a file descriptor
  badCloses,    \* descriptors release closed that were not the camera's
  used          \* history and bounds

deviceVars == <<camera, devh, kill_handler_thread>>
fileVars == <<descriptors, badCloses>>
otherVars == <<deviceVars, urbs, watched, completed, plugged, fileVars, used>>
vars == <<pc, usb, otherVars>>

ChangesUsb == UNCHANGED otherVars      \* and pc
ChangesOnlyPc == UNCHANGED <<usb, otherVars>>

Handling ==   \* libusb_handle_events, in either thread
  {"try", "trylock", "locked", "poll", "reap", "notify", "resubmit",
   "disconnect", "complete", "unlock", "broadcast", "lockWaiters", "check",
   "sleep", "wait", "woken"}
Closing ==    \* libusb_close, up to its backend's close, then after it
  {"closeModify", "closeSignal", "closeLock", "closeRead", "removeFlying",
   "wakeFlying", "backendClose"}
Closed == {"closeDone", "closeUnlock", "closeWake", "join"}
AppOnly ==
  {None, "new", "failed", "register", "ready", "control", "deleteStatus",
   "killThread", "free", "unref", "released"} \cup Closing \cup Closed

TypeOK ==
  /\ pc \in [app : AppOnly \cup Handling,
             event : {None, "test", "exited"} \cup Handling]
  /\ camera \in [usbFs : BOOLEAN, context : BOOLEAN, fd : Fds,
                 status : {"null", "alive", "deleted"}]
  /\ devh \in [state : {"null", "open", "closed", "freed"},
               status_cb : BOOLEAN, ref : Int, usbRef : Int]
  /\ kill_handler_thread \in BOOLEAN
  /\ usb \in [events_lock : Threads \cup {None}, active : BOOLEAN,
              pollfd_modify : Int, pipe : Int,
              waiters_lock : Threads \cup {None}]
  /\ urbs \in [{"status", "control"} -> {"idle", "submitted", "done"}]
  /\ watched \in BOOLEAN /\ completed \in BOOLEAN /\ plugged \in BOOLEAN
  /\ descriptors \in [Fds -> {"free", "process", "connection", "camera"}]
  /\ badCloses \in Nat
  /\ used \in [cameras : 0..MaxCameras, reports : 0..MaxReports,
               controls : 0..MaxControls, opens : 0..MaxOpens,
               failed : Nat, leaked : Int, inFlight : Nat]

Goto(t, label) == pc' = [pc EXCEPT ![t] = label]
At(t, label) == pc[t] = label

\* open(2) and dup(2) return the lowest free descriptor.
Free == {f \in Fds : descriptors[f] = "free"}
LowestFree == Min(Free)

-----------------------------------------------------------------------------
(* libusb_handle_events_timeout_completed, by thread t.                    *)

\* Back in the loop of the caller.
Return(t) == IF t = "event" THEN "test" ELSE "control"

\* The other thread, if it waits on the condition, is woken.
Woken(u, next) ==
  [pc EXCEPT ![u] = next,
             ![Other(u)] = IF pc[Other(u)] = "wait" THEN "woken" ELSE @]

Try(t) ==
  /\ At(t, "try")
  /\ Goto(t, IF usb.pollfd_modify > 0 THEN "lockWaiters" ELSE "trylock")
  /\ ChangesOnlyPc

TryLock(t) ==
  /\ At(t, "trylock")
  /\ IF usb.events_lock = None
     THEN /\ usb' = [usb EXCEPT !.events_lock = t, !.active = TRUE]
          /\ Goto(t, "locked")
     ELSE Goto(t, "lockWaiters") /\ UNCHANGED usb
  /\ ChangesUsb

\* Mutant: the completion is not looked at again under the lock.
TestCompleted_Not(t) ==
  /\ At(t, "locked") /\ Goto(t, "poll")
  /\ ChangesOnlyPc

TestCompleted(t) ==
  /\ At(t, "locked")
  /\ Goto(t, IF t = "app" /\ completed THEN "unlock" ELSE "poll")
  /\ ChangesOnlyPc

\* What poll finds: a byte in the control pipe, a finished urb, a device that
\* is gone.  A byte alone is not an event of the device.
Ready == watched /\ (~plugged \/ \E x \in DOMAIN urbs : urbs[x] = "done")

Poll(t) ==
  /\ At(t, "poll") /\ (usb.pipe > 0 \/ Ready)
  /\ Goto(t, IF ~Ready THEN "unlock"
             ELSE IF plugged THEN "reap" ELSE "disconnect")
  /\ ChangesOnlyPc

\* 60 seconds passed with nothing to find.
PollTimesOut(t) ==
  /\ At(t, "poll") /\ usb.pipe = 0 /\ ~Ready /\ Goto(t, "unlock")
  /\ ChangesOnlyPc

\* reap_for_handle: the completed transfer leaves the list of those in
\* flight; sync_transfer_cb, or _uvc_status_callback, which reads status_cb.
Reap(t) ==
  /\ At(t, "reap")
  /\ \E x \in DOMAIN urbs :
       /\ urbs[x] = "done"
       /\ urbs' = [urbs EXCEPT ![x] = "idle"]
       /\ completed' = (completed \/ x = "control")
       /\ Goto(t, IF x = "control" THEN "complete"
                  ELSE IF devh.status_cb THEN "notify" ELSE "resubmit")
  /\ UNCHANGED <<deviceVars, usb, watched, plugged, fileVars, used>>

\* EAGAIN, or ENODEV.
ReapNothing(t) ==
  /\ At(t, "reap")
  /\ (\A x \in DOMAIN urbs : urbs[x] # "done") \/ ~plugged
  /\ Goto(t, "unlock")
  /\ ChangesOnlyPc

\* The end of the call of uvc_status_callback, which began with Reap.
Notify(t) ==
  /\ At(t, "notify") /\ Goto(t, "resubmit")
  /\ ChangesOnlyPc

\* A submitted transfer holds a reference of the device; submission fails
\* once the device is gone.
Submitted(x) ==
  IF plugged THEN /\ urbs' = [urbs EXCEPT ![x] = "submitted"]
                  /\ devh' = [devh EXCEPT !.usbRef = @ + 1]
             ELSE UNCHANGED <<urbs, devh>>

Resubmit(t) ==
  /\ At(t, "resubmit") /\ Submitted("status") /\ Goto(t, "complete")
  /\ UNCHANGED <<camera, kill_handler_thread, usb, watched, completed,
                 plugged, fileVars, used>>

\* The end of usbi_handle_transfer_completion: waiters are woken, the
\* transfer's reference is given back.
Complete(t) ==
  /\ At(t, "complete") /\ usb.waiters_lock = None
  /\ pc' = Woken(t, IF watched THEN "reap" ELSE "disconnect")
  /\ devh' = [devh EXCEPT !.usbRef = @ - 1]
  /\ UNCHANGED <<camera, kill_handler_thread, usb, urbs, watched, completed,
                 plugged, fileVars, used>>

\* POLLERR: the descriptor is not polled any more and usbi_handle_disconnect
\* completes what is in flight, one after the other, with NO_DEVICE.  The
\* status callback does nothing then.
Disconnect(t) ==
  /\ At(t, "disconnect") /\ watched' = FALSE
  /\ LET flying == {x \in DOMAIN urbs : urbs[x] # "idle"} IN
     IF flying = {} THEN Goto(t, "unlock") /\ UNCHANGED <<urbs, completed>>
     ELSE \E x \in flying :
            /\ urbs' = [urbs EXCEPT ![x] = "idle"]
            /\ completed' = (completed \/ x = "control")
            /\ Goto(t, "complete")
  /\ UNCHANGED <<deviceVars, usb, plugged, fileVars, used>>

\* libusb_unlock_events.
Unlock(t) ==
  /\ At(t, "unlock") /\ Goto(t, "broadcast")
  /\ usb' = [usb EXCEPT !.events_lock = None, !.active = FALSE]
  /\ ChangesUsb

\* Mutant: the waiters are not told that nobody handles events.
UnlockBroadcast_Silent(t) ==
  /\ At(t, "broadcast") /\ usb.waiters_lock = None
  /\ Goto(t, Return(t))
  /\ ChangesOnlyPc

UnlockBroadcast(t) ==
  /\ At(t, "broadcast") /\ usb.waiters_lock = None
  /\ pc' = Woken(t, Return(t))
  /\ ChangesOnlyPc

LockWaiters(t) ==
  /\ At(t, "lockWaiters") /\ usb.waiters_lock = None
  /\ usb' = [usb EXCEPT !.waiters_lock = t] /\ Goto(t, "check")
  /\ ChangesUsb

\* Done already; or nobody handles events, try again; or wait.
Check(t) ==
  LET done == t = "app" /\ completed
      active == usb.pollfd_modify > 0 \/ usb.active
  IN /\ At(t, "check")
     /\ Goto(t, IF done THEN Return(t) ELSE IF active THEN "sleep" ELSE "try")
     /\ usb' = [usb EXCEPT !.waiters_lock =
                  IF ~done /\ active THEN t ELSE None]
     /\ ChangesUsb

Sleep(t) ==
  /\ At(t, "sleep") /\ Goto(t, "wait")
  /\ usb' = [usb EXCEPT !.waiters_lock = None]
  /\ ChangesUsb

WaitTimesOut(t) ==
  /\ At(t, "wait") /\ Goto(t, "woken")
  /\ ChangesOnlyPc

EndWait(t) ==
  /\ At(t, "woken") /\ usb.waiters_lock = None /\ Goto(t, Return(t))
  /\ ChangesOnlyPc

\* _uvc_handle_events.
TestKill ==
  /\ At("event", "test")
  /\ Goto("event", IF kill_handler_thread THEN "exited" ELSE "try")
  /\ ChangesOnlyPc

-----------------------------------------------------------------------------
(* Connect.                                                                *)

Context == [events_lock |-> None, active |-> FALSE, pollfd_modify |-> 0,
            pipe |-> 0, waiters_lock |-> None]

\* new UVCCamera, and the connection of the control block to connect with.
Create ==
  /\ At("app", None) /\ used.cameras < MaxCameras /\ Free # {}
  /\ descriptors' = [descriptors EXCEPT ![LowestFree] = "connection"]
  /\ camera' = [usbFs |-> FALSE, context |-> FALSE, fd |-> 0,
                status |-> "null"]
  /\ used' = [used EXCEPT !.cameras = @ + 1]
  /\ plugged' = TRUE
  /\ Goto("app", "new")
  /\ UNCHANGED <<devh, kill_handler_thread, usb, urbs, watched, completed,
                 badCloses>>

\* nativeConnect refuses descriptor 0; connect fails in uvc_init2, or in
\* uvc_get_device_with_fd or uvc_open, which undo what they did.  The
\* duplicate is closed again, mUsbFs stays.
ConnectFails ==
  /\ At("app", "new") /\ Goto("app", "failed")
  /\ \/ /\ descriptors[0] = "connection" /\ UNCHANGED <<camera, devh, used>>
     \/ /\ descriptors[0] # "connection"
        /\ used' = [used EXCEPT !.failed = @ + 1]
        /\ \E context \in BOOLEAN :
             camera' = [camera EXCEPT !.usbFs = TRUE, !.context = context]
        /\ UNCHANGED devh
  /\ UNCHANGED <<kill_handler_thread, usb, urbs, watched, completed, plugged,
                 fileVars>>

\* uvc_get_device_with_fd and uvc_open: the device list, the device, the
\* handle and the status transfer hold references of the libusb device; a
\* camera need not have a status endpoint.  The event thread starts.
ConnectOpens ==
  /\ At("app", "new") /\ descriptors[0] # "connection" /\ Free # {}
  /\ plugged
  /\ pc' = [app |-> "register", event |-> "test"]
  /\ kill_handler_thread' = FALSE
  /\ camera' = [camera EXCEPT !.usbFs = TRUE, !.context = TRUE,
                              !.fd = LowestFree]
  /\ descriptors' = [descriptors EXCEPT ![LowestFree] = "camera"]
  /\ \E status \in BOOLEAN :
       /\ urbs' = [status |-> IF status THEN "submitted" ELSE "idle",
                   control |-> "idle"]
       /\ devh' = [state |-> "open", status_cb |-> FALSE, ref |-> 2,
                   usbRef |-> IF status THEN 5 ELSE 4]
  /\ usb' = Context /\ watched' = TRUE /\ completed' = FALSE
  /\ UNCHANGED <<plugged, badCloses, used>>

\* The constructor of UVCStatusCallback, with the event thread running.
Register ==
  /\ At("app", "register") /\ Goto("app", "ready")
  /\ camera' = [camera EXCEPT !.status = "alive"]
  /\ devh' = [devh EXCEPT !.status_cb = TRUE]
  /\ UNCHANGED <<kill_handler_thread, usb, urbs, watched, completed, plugged,
                 fileVars, used>>

-----------------------------------------------------------------------------
(* libusb_control_transfer.                                                *)

SubmitControl ==
  /\ At("app", "ready") /\ used.controls < MaxControls
  /\ used' = [used EXCEPT !.controls = @ + 1]
  /\ completed' = FALSE /\ Submitted("control")
  /\ Goto("app", IF plugged THEN "control" ELSE "ready")
  /\ UNCHANGED <<camera, kill_handler_thread, usb, watched, plugged,
                 fileVars>>

\* sync_transfer_wait_for_completion.
TestControl ==
  /\ At("app", "control")
  /\ Goto("app", IF completed THEN "ready" ELSE "try")
  /\ ChangesOnlyPc

-----------------------------------------------------------------------------
(* Release.                                                                *)

CloseStep(from, to) == At("app", from) /\ Goto("app", to)

\* SAFE_DELETE(mStatusCallback): libuvc is not told.
DeleteStatus ==
  /\ CloseStep("ready", "killThread")
  /\ camera' = [camera EXCEPT !.status = "deleted"]
  /\ UNCHANGED <<devh, kill_handler_thread, usb, urbs, watched, completed,
                 plugged, fileVars, used>>

\* Mutant: the handler thread is not told to end.
KillThread_Not ==
  /\ CloseStep("killThread", "closeModify")
  /\ ChangesOnlyPc

\* uvc_close, of the only open device of the context.
KillThread ==
  /\ CloseStep("killThread", "closeModify") /\ kill_handler_thread' = TRUE
  /\ UNCHANGED <<camera, devh, usb, urbs, watched, completed, plugged,
                 fileVars, used>>

\* libusb_close: stop others from polling, interrupt the one that does.
CloseModify ==
  /\ CloseStep("closeModify", "closeSignal")
  /\ usb' = [usb EXCEPT !.pollfd_modify = @ + 1]
  /\ ChangesUsb

CloseSignal ==
  /\ CloseStep("closeSignal", "closeLock")
  /\ usb' = [usb EXCEPT !.pipe = @ + 1]
  /\ ChangesUsb

\* Mutant: closes without the events lock.
CloseLock_Not ==
  /\ CloseStep("closeLock", "closeRead")
  /\ ChangesOnlyPc

CloseLock ==
  /\ CloseStep("closeLock", "closeRead") /\ usb.events_lock = None
  /\ usb' = [usb EXCEPT !.events_lock = "app", !.active = TRUE]
  /\ ChangesUsb

\* read blocks on an empty pipe.
CloseRead ==
  /\ CloseStep("closeRead", "removeFlying")
  /\ usb.pipe > 0 /\ usb' = [usb EXCEPT !.pipe = @ - 1]
  /\ ChangesUsb

\* do_close: what is in flight is taken off the list, its reference of the
\* device is kept.  The inner libusb_unlock_events does not give up the lock,
\* which is recursive, but it clears event_handler_active and broadcasts.
RemoveFlying ==
  /\ CloseStep("removeFlying", "wakeFlying")
  /\ urbs' = [x \in DOMAIN urbs |-> "idle"]
  /\ used' = [used EXCEPT !.inFlight =
                @ + Cardinality({x \in DOMAIN urbs : urbs[x] # "idle"})]
  /\ usb' = [usb EXCEPT !.active = FALSE]
  /\ UNCHANGED <<deviceVars, watched, completed, plugged, fileVars>>

WakeFlying ==
  /\ At("app", "wakeFlying") /\ usb.waiters_lock = None
  /\ pc' = Woken("app", "backendClose")
  /\ ChangesOnlyPc

\* The descriptor is not polled any more, the usb handle is freed.
BackendClose ==
  /\ CloseStep("backendClose", "closeDone")
  /\ watched' = FALSE
  /\ devh' = [devh EXCEPT !.state = "closed", !.usbRef = @ - 1]
  /\ UNCHANGED <<camera, kill_handler_thread, usb, urbs, completed, plugged,
                 fileVars, used>>

CloseDone ==
  /\ CloseStep("closeDone", "closeUnlock")
  /\ usb' = [usb EXCEPT !.pollfd_modify = @ - 1]
  /\ ChangesUsb

CloseUnlock ==
  /\ CloseStep("closeUnlock", "closeWake")
  /\ usb' = [usb EXCEPT !.events_lock = None, !.active = FALSE]
  /\ ChangesUsb

CloseWake ==
  /\ At("app", "closeWake") /\ usb.waiters_lock = None
  /\ pc' = Woken("app", "join")
  /\ ChangesOnlyPc

\* Mutant: the handler thread is not joined.
Join_Not ==
  /\ CloseStep("join", "free")
  /\ ChangesOnlyPc

Join ==
  /\ CloseStep("join", "free") /\ At("event", "exited")
  /\ ChangesOnlyPc

UnrefDevice(d) ==
  [d EXCEPT !.ref = @ - 1, !.usbRef = @ - 1]

\* uvc_unref_device and uvc_free_devh, at the end of uvc_close.
FreeHandle ==
  /\ CloseStep("free", "unref")
  /\ devh' = [UnrefDevice(devh) EXCEPT !.state = "freed", !.status_cb = FALSE]
  /\ UNCHANGED <<camera, kill_handler_thread, usb, urbs, watched, completed,
                 plugged, fileVars, used>>

\* Mutant: mFd is closed whether or not mUsbFs is set.
CloseFd_Always ==
  /\ descriptors' = [descriptors EXCEPT ![camera.fd] = "free"]
  /\ badCloses' = badCloses +
       (IF descriptors[camera.fd] \in {"free", "camera"} THEN 0 ELSE 1)

\* close(mFd).
CloseFd ==
  IF camera.usbFs
  THEN /\ descriptors' = [descriptors EXCEPT ![camera.fd] = "free"]
       /\ badCloses' = badCloses +
            (IF descriptors[camera.fd] \in {"free", "camera"} THEN 0 ELSE 1)
  ELSE UNCHANGED fileVars

\* Mutant: the connection of mDevice is left to the device's own closing.
UnrefAndClose_KeepsDevice ==
  /\ CloseStep("unref", "released") /\ CloseFd
  /\ camera' = [camera EXCEPT !.usbFs = FALSE, !.fd = 0]
  /\ UNCHANGED <<devh, kill_handler_thread, usb, urbs, watched, completed,
                 plugged, used>>

\* The rest of release.
UnrefAndClose ==
  /\ CloseStep("unref", "released") /\ CloseFd
  /\ devh' = UnrefDevice(devh)
  /\ camera' = [camera EXCEPT !.usbFs = FALSE, !.fd = 0]
  /\ UNCHANGED <<kill_handler_thread, usb, urbs, watched, completed, plugged,
                 used>>

\* release after a connect that failed: mFd is 0, mUsbFs may be set.
ReleaseFailed ==
  /\ CloseStep("failed", "released") /\ CloseFd
  /\ camera' = [camera EXCEPT !.usbFs = FALSE]
  /\ UNCHANGED <<devh, kill_handler_thread, usb, urbs, watched, completed,
                 plugged, used>>

\* UVCCamera.java closes the connection and destroys the native camera, which
\* ends the context and with it the device list.
Destroy ==
  /\ At("app", "released")
  /\ descriptors' = [f \in Fds |-> IF descriptors[f] = "connection"
                                   THEN "free" ELSE descriptors[f]]
  /\ pc' = [app |-> None, event |-> None]
  /\ used' = [used EXCEPT !.leaked =
                @ + IF devh.state = "freed" THEN devh.usbRef - 1 ELSE 0]
  /\ devh' = [state |-> "null", status_cb |-> FALSE, ref |-> 0, usbRef |-> 0]
  /\ camera' = [camera EXCEPT !.context = FALSE, !.status = "null"]
  /\ UNCHANGED <<kill_handler_thread, usb, urbs, watched, completed, plugged,
                 badCloses>>

-----------------------------------------------------------------------------
(* The device, the kernel and the rest of the process.                     *)

Report ==
  /\ plugged /\ urbs["status"] = "submitted" /\ used.reports < MaxReports
  /\ urbs' = [urbs EXCEPT !["status"] = "done"]
  /\ used' = [used EXCEPT !.reports = @ + 1]
  /\ UNCHANGED <<pc, deviceVars, usb, watched, completed, plugged, fileVars>>

FinishControl ==
  /\ plugged /\ urbs["control"] = "submitted"
  /\ urbs' = [urbs EXCEPT !["control"] = "done"]
  /\ UNCHANGED <<pc, deviceVars, usb, watched, completed, plugged, fileVars,
                 used>>

Unplug ==
  /\ plugged /\ ~At("app", None) /\ plugged' = FALSE
  /\ UNCHANGED <<pc, deviceVars, usb, urbs, watched, completed, fileVars,
                 used>>

ProcessOpens ==
  /\ Cardinality(Free) > 2 /\ used.opens < MaxOpens
  /\ descriptors' = [descriptors EXCEPT ![LowestFree] = "process"]
  /\ used' = [used EXCEPT !.opens = @ + 1]
  /\ UNCHANGED <<pc, deviceVars, usb, urbs, watched, completed, plugged,
                 badCloses>>

\* Descriptor 0 is the process's from its start.
Init ==
  /\ pc = [app |-> None, event |-> None]
  /\ camera = [usbFs |-> FALSE, context |-> FALSE, fd |-> 0,
               status |-> "null"]
  /\ devh = [state |-> "null", status_cb |-> FALSE, ref |-> 0, usbRef |-> 0]
  /\ kill_handler_thread = FALSE /\ usb = Context
  /\ urbs = [status |-> "idle", control |-> "idle"]
  /\ watched = FALSE /\ completed = FALSE /\ plugged = FALSE
  /\ descriptors = [f \in Fds |-> IF f = 0 THEN "process" ELSE "free"]
  /\ badCloses = 0
  /\ used = [cameras |-> 0, reports |-> 0, controls |-> 0, opens |-> 0,
             failed |-> 0, leaked |-> 0, inFlight |-> 0]

Handle(t) ==
  \/ Try(t) \/ TryLock(t) \/ TestCompleted(t) \/ Poll(t)
  \/ Reap(t) \/ ReapNothing(t) \/ Notify(t) \/ Resubmit(t) \/ Disconnect(t)
  \/ Complete(t) \/ Unlock(t) \/ UnlockBroadcast(t)
  \/ LockWaiters(t) \/ Check(t) \/ Sleep(t) \/ EndWait(t)
TimesOut(t) == PollTimesOut(t) \/ WaitTimesOut(t)
Connect == Create \/ ConnectFails \/ ConnectOpens \/ Register
Control == SubmitControl \/ TestControl
UsbClose ==
  \/ CloseModify \/ CloseSignal \/ CloseLock \/ CloseRead \/ RemoveFlying
  \/ WakeFlying \/ BackendClose \/ CloseDone \/ CloseUnlock \/ CloseWake
Release ==
  \/ KillThread \/ UsbClose \/ Join \/ FreeHandle \/ UnrefAndClose
  \/ ReleaseFailed \/ Destroy
Environment == Report \/ FinishControl \/ Unplug \/ ProcessOpens

Next ==
  \/ Connect \/ Control \/ DeleteStatus \/ Release \/ TestKill \/ Environment
  \/ \E t \in Threads : Handle(t) \/ TimesOut(t)

\* A thread that can go on does, and gets a lock that is free again and again
\* (a wait that times out takes the waiters' lock every minute); the device
\* answers a control transfer unless it is pulled out.  No timeout is counted
\* on.
Spec ==
  /\ Init /\ [][Next]_vars
  /\ SF_vars(TestKill \/ Handle("event"))
  /\ SF_vars(Handle("app") \/ TestControl \/ Register \/ Release)
  /\ WF_vars(FinishControl)

-----------------------------------------------------------------------------
(* Properties                                                              *)

\* While a thread completes transfers of the device its handle is open, and
\* the handle is freed when the event thread has ended: libusb_close keeps
\* both threads out of the events, uvc_close joins one of them.
HandleOutlivesEvents ==
  /\ \A t \in Threads :
       pc[t] \in {"reap", "notify", "resubmit", "disconnect", "complete"} =>
         devh.state = "open"
  /\ devh.state = "freed" => pc["event"] = "exited"

\* release deletes the UVCStatusCallback while libuvc may still call it.  The
\* calls end at the latest when libusb_close has the events lock.
DeletedStatusUnused ==
  pc["event"] = "notify" /\ camera.status = "deleted" =>
    pc["app"] \in {"killThread", "closeModify", "closeSignal", "closeLock"}

\* A release closes a descriptor that is not the camera's only after a
\* connect that failed, when mUsbFs is set and mFd is 0.
OwnDescriptorOnly == badCloses <= used.failed

\* The uvc device is freed by the release, and the libusb device by the end
\* of its context, but for a reference of each transfer that was in flight
\* when the handle was closed.
DeviceReferences ==
  /\ At("app", "released") => devh.ref = 0
  /\ At("app", None) => used.leaked = used.inFlight

\* A control transfer returns, whichever thread completes it and although
\* nobody's wait times out: no wakeup is lost.
ControlReturns == At("app", "control") ~> At("app", "ready")

\* A status report is taken by one of the threads or goes with the handle: the
\* event thread goes on when the app's thread has handled events in its place.
ReportsReaped == urbs["status"] = "done" ~> urbs["status"] # "done"

\* A release returns, with the 60 seconds of poll to help.
ReleaseReturns ==
  WF_vars(\E t \in Threads : TimesOut(t)) =>
    (At("app", "killThread") ~> At("app", None))

\* device.c: "When we call libusb_close, it'll cause a return from the
\* thread's libusb_handle_events call, after which the handler thread will
\* check the flag we set and then exit."
ClosedHandlerReturns == At("app", "join") => ~At("event", "poll")
=============================================================================
