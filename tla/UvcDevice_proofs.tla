-------------------------- MODULE UvcDevice_proofs --------------------------
(***************************************************************************)
(* That the event thread and the caller of uvc_close never use a device    *)
(* handle that is closed, for any number of cameras, reports and control   *)
(* transfers, the two properties of release about what it deletes and      *)
(* closes, and that every reference of the device is given back.           *)
(***************************************************************************)
EXTENDS UvcDevice, WellFoundedInduction, FiniteSetTheorems, TLAPS

-----------------------------------------------------------------------------
(* The lowest free descriptor is free.                                     *)

LEMMA LeastNatural ==
  ASSUME NEW T \in SUBSET Nat, T # {}
  PROVE  Min(T) \in T /\ \A y \in T : Min(T) <= y
<1>1. \E x \in T : \A y \in T : <<y, x>> \notin OpToRel(<, Nat)
  BY NatLessThanWellFounded, WFMin
<1>2. OpToRel(<, Nat) = {ss \in Nat \X Nat : ss[1] < ss[2]}
  BY DEF OpToRel
<1>3. ASSUME NEW x \in Nat, NEW y \in Nat, y < x
      PROVE  <<y, x>> \in OpToRel(<, Nat)
  BY <1>2, <1>3
<1>4. \E x \in T : \A y \in T : x <= y
  <2>1. PICK x \in T : \A y \in T : <<y, x>> \notin OpToRel(<, Nat)
    BY <1>1
  <2>2. ASSUME NEW y \in T PROVE x <= y
    <3>1. x \in Nat /\ y \in Nat /\ ~(y < x)
      BY <1>3, <2>1
    <3> QED
      BY <3>1
  <2> QED
    BY <2>2
<1> QED
  BY <1>4 DEF Min

-----------------------------------------------------------------------------
(* Types.                                                                  *)

AppPlaces == AppOnly \cup Handling
EventPlaces == {None, "test", "exited"} \cup Handling
PcType == pc \in [app : AppPlaces, event : EventPlaces]

UrbsType == urbs \in [{"status", "control"} -> {"idle", "submitted", "done"}]
UsbType ==
  usb \in [events_lock : Threads \cup {None}, active : BOOLEAN,
          pollfd_modify : Int, pipe : Int, waiters_lock : Threads \cup {None}]
DevhType ==
  devh \in [state : {"null", "open", "closed", "freed"}, status_cb : BOOLEAN,
           ref : Int, usbRef : Int]
CameraType ==
  camera \in [usbFs : BOOLEAN, context : BOOLEAN, fd : Fds,
             status : {"null", "alive", "deleted"}]
UsedType ==
  used \in [cameras : 0..MaxCameras, reports : 0..MaxReports,
           controls : 0..MaxControls, opens : 0..MaxOpens, failed : Nat,
           leaked : Int, inFlight : Nat]
FilesType ==
  descriptors \in [Fds -> {"free", "process", "connection", "camera"}]
  /\ badCloses \in Nat
FlagsType ==
  kill_handler_thread \in BOOLEAN /\ watched \in BOOLEAN
  /\ completed \in BOOLEAN /\ plugged \in BOOLEAN

LEMMA TypeParts ==
  TypeOK <=> /\ PcType /\ UrbsType /\ UsbType /\ DevhType /\ CameraType
             /\ UsedType /\ FilesType /\ FlagsType
BY DEF TypeOK, PcType, AppPlaces, EventPlaces, UrbsType, UsbType, DevhType,
       CameraType, UsedType, FilesType, FlagsType

LEMMA InitType == Init => TypeOK
<1> SUFFICES ASSUME Init PROVE TypeOK
  OBVIOUS
<1>1. PcType
  BY DEF Init, PcType, AppPlaces, EventPlaces, AppOnly, None
<1>2. UrbsType
  BY DEF Init, UrbsType
<1>3. UsbType
  BY DEF Init, UsbType, Context, None
<1>4. DevhType
  BY DEF Init, DevhType
<1>5. CameraType
  BY ConstantsAssumption DEF Init, CameraType, Fds
<1>6. UsedType
  BY ConstantsAssumption DEF Init, UsedType
<1>7. FilesType /\ FlagsType
  BY DEF Init, FilesType, FlagsType
<1> QED
  BY <1>1, <1>2, <1>3, <1>4, <1>5, <1>6, <1>7, TypeParts

\* The places.
LEMMA PcStep ==
  ASSUME PcType, [Next]_vars PROVE PcType'
<1>1. ASSUME NEW a \in AppPlaces, pc' = [pc EXCEPT !["app"] = a] PROVE PcType'
  BY <1>1 DEF PcType
<1>2. ASSUME NEW e \in EventPlaces, pc' = [pc EXCEPT !["event"] = e]
      PROVE  PcType'
  BY <1>2 DEF PcType
<1>3. ASSUME NEW label \in Handling \cup {"control"}, Goto("app", label)
      PROVE  PcType'
  BY <1>1, <1>3 DEF Goto, AppPlaces, AppOnly
<1>4. ASSUME NEW label \in Handling \cup {"test"}, Goto("event", label)
      PROVE  PcType'
  BY <1>2, <1>4 DEF Goto, EventPlaces
<1>5. ASSUME NEW t \in Threads, NEW label \in Handling \cup {Return(t)},
             Goto(t, label)
      PROVE  PcType'
  BY <1>3, <1>4, <1>5 DEF Threads, Return
<1>6. ASSUME NEW t \in Threads, NEW label \in Handling \cup {Return(t)},
             pc' = Woken(t, label)
      PROVE  PcType'
  <2>1. CASE t = "app"
    BY <1>6, <2>1
    DEF Woken, Other, Threads, Return, PcType, AppPlaces, AppOnly, EventPlaces,
        Handling
  <2>2. CASE t = "event"
    BY <1>6, <2>2
    DEF Woken, Other, Threads, Return, PcType, AppPlaces, AppOnly, EventPlaces,
        Handling
  <2> QED
    BY <2>1, <2>2 DEF Threads
<1>7. ASSUME NEW t \in Threads, Handle(t) \/ TimesOut(t) PROVE PcType'
  <2>1. {"try", "trylock", "locked", "poll", "reap", "notify", "resubmit",
         "disconnect", "complete", "unlock", "broadcast", "lockWaiters",
         "check", "sleep", "wait", "woken"} = Handling
    BY DEF Handling
  <2>2. CASE Try(t)
    BY <1>5, <2>1, <2>2 DEF Try
  <2>3. CASE TryLock(t)
    BY <1>5, <2>1, <2>3 DEF TryLock
  <2>4. CASE TestCompleted(t)
    BY <1>5, <2>1, <2>4 DEF TestCompleted
  <2>5. CASE Poll(t)
    BY <1>5, <2>1, <2>5 DEF Poll
  <2>6. CASE Reap(t)
    BY <1>5, <2>1, <2>6 DEF Reap
  <2>7. CASE ReapNothing(t)
    BY <1>5, <2>1, <2>7 DEF ReapNothing
  <2>8. CASE Notify(t)
    BY <1>5, <2>1, <2>8 DEF Notify
  <2>9. CASE Resubmit(t)
    BY <1>5, <2>1, <2>9 DEF Resubmit
  <2>10. CASE Disconnect(t)
    BY <1>5, <2>1, <2>10 DEF Disconnect
  <2>11. CASE Complete(t)
    BY <1>6, <2>1, <2>11 DEF Complete
  <2>12. CASE Unlock(t)
    BY <1>5, <2>1, <2>12 DEF Unlock
  <2>13. CASE UnlockBroadcast(t)
    BY <1>6, <2>1, <2>13 DEF UnlockBroadcast
  <2>14. CASE LockWaiters(t)
    BY <1>5, <2>1, <2>14 DEF LockWaiters
  <2>15. CASE Check(t)
    BY <1>5, <2>1, <2>15 DEF Check
  <2>16. CASE Sleep(t)
    BY <1>5, <2>1, <2>16 DEF Sleep
  <2>17. CASE EndWait(t)
    BY <1>5, <2>1, <2>17 DEF EndWait
  <2>18. CASE PollTimesOut(t)
    BY <1>5, <2>1, <2>18 DEF PollTimesOut
  <2>19. CASE WaitTimesOut(t)
    BY <1>5, <2>1, <2>19 DEF WaitTimesOut
  <2> QED
    BY <1>7, <2>2, <2>3, <2>4, <2>5, <2>6, <2>7, <2>8, <2>9, <2>10, <2>11,
       <2>12, <2>13, <2>14, <2>15, <2>16, <2>17, <2>18, <2>19
    DEF Handle, TimesOut
<1>8. ASSUME NEW a \in AppPlaces, Goto("app", a) PROVE PcType'
  BY <1>1, <1>8 DEF Goto
<1>9. AppOnly \subseteq AppPlaces /\ "control" \in AppPlaces
      /\ "try" \in AppPlaces
  BY DEF AppPlaces, AppOnly, Handling
<1>10. CASE Connect
  <2>1. CASE Create \/ ConnectFails \/ Register
    BY <1>8, <1>9, <2>1 DEF Create, ConnectFails, Register, AppOnly
  <2>2. CASE ConnectOpens
    <3>1. pc' = [app |-> "register", event |-> "test"]
      BY <2>2 DEF ConnectOpens
    <3>2. "register" \in AppPlaces /\ "test" \in EventPlaces
      BY <1>9 DEF AppOnly, EventPlaces
    <3> QED
      BY <3>1, <3>2 DEF PcType
  <2> QED
    BY <1>10, <2>1, <2>2 DEF Connect
<1>11. CASE Control \/ DeleteStatus
  BY <1>8, <1>9, <1>11
  DEF Control, SubmitControl, TestControl, DeleteStatus, CloseStep, AppOnly
<1>12. CASE UsbClose
  <2>1. CASE WakeFlying \/ CloseWake
    BY <2>1 DEF WakeFlying, CloseWake, Woken, Other, Threads, PcType,
                AppPlaces, AppOnly, EventPlaces, Handling, Closing, Closed
  <2>2. CASE ~(WakeFlying \/ CloseWake)
    BY <1>8, <1>9, <1>12, <2>2
    DEF UsbClose, CloseModify, CloseSignal, CloseLock, CloseRead,
        RemoveFlying, BackendClose, CloseDone, CloseUnlock, CloseStep,
        AppOnly, Closing, Closed
  <2> QED
    BY <2>1, <2>2
<1>13. CASE KillThread \/ Join \/ FreeHandle \/ UnrefAndClose \/ ReleaseFailed
            \/ Destroy
  BY <1>8, <1>9, <1>13
  DEF KillThread, Join, FreeHandle, UnrefAndClose, ReleaseFailed, Destroy,
      CloseStep, AppOnly, Closing, PcType, AppPlaces, EventPlaces, None
<1>14. CASE TestKill
  BY <1>2, <1>14 DEF TestKill, Goto, EventPlaces, Handling
<1>15. CASE Environment \/ UNCHANGED vars
  BY <1>15 DEF Environment, Report, FinishControl, Unplug, ProcessOpens, vars,
               PcType
<1> QED
  BY <1>7, <1>10, <1>11, <1>12, <1>13, <1>14, <1>15 DEF Next, Release

-----------------------------------------------------------------------------
\* The data.
DataType ==
  UrbsType /\ UsbType /\ DevhType /\ CameraType /\ UsedType /\ FilesType
  /\ FlagsType

LEMMA UrbsStep == ASSUME UrbsType, TypeOK, [Next]_vars PROVE UrbsType'
<1>1. ASSUME NEW t \in Threads, Handle(t) \/ TimesOut(t) PROVE UrbsType'
  BY <1>1
  DEF Handle, TimesOut, Try, TryLock, TestCompleted, Poll, Reap, ReapNothing,
      Notify, Resubmit, Submitted, Disconnect, Complete, Unlock,
      UnlockBroadcast, LockWaiters, Check, Sleep, EndWait, PollTimesOut,
      WaitTimesOut, ChangesUsb, ChangesOnlyPc, otherVars, deviceVars, fileVars,
      UrbsType
<1>2. CASE Connect \/ Control \/ DeleteStatus
  <2>1. UNCHANGED urbs \/ ConnectOpens \/ SubmitControl
    BY <1>2
    DEF Connect, Create, ConnectFails, ConnectOpens, Register, Control,
      SubmitControl, Submitted, TestControl, DeleteStatus, CloseStep,
      ChangesUsb, ChangesOnlyPc, otherVars, deviceVars, fileVars
  <2>2. CASE UNCHANGED urbs
    BY <2>2 DEF UrbsType
  <2>3. CASE ConnectOpens
    BY <2>3 DEF ConnectOpens, UrbsType
  <2>4. CASE SubmitControl
    BY <2>4 DEF SubmitControl, Submitted, UrbsType
  <2> QED
    BY <2>1, <2>2, <2>3, <2>4
<1>3. CASE Release
  BY <1>3
  DEF Release, KillThread, UsbClose, CloseModify, CloseSignal, CloseLock,
      CloseRead, RemoveFlying, WakeFlying, BackendClose, CloseDone,
      CloseUnlock, CloseWake, Join, FreeHandle, UnrefAndClose, CloseFd,
      UnrefDevice, ReleaseFailed, Destroy, CloseStep,
      ChangesUsb, ChangesOnlyPc, otherVars, deviceVars, fileVars,
      UrbsType
<1>4. CASE Environment \/ TestKill \/ UNCHANGED vars
  BY <1>4
  DEF Environment, Report, FinishControl, Unplug, ProcessOpens, TestKill, vars,
      ChangesOnlyPc, otherVars, deviceVars, fileVars,
      UrbsType
<1> QED
  BY <1>1, <1>2, <1>3, <1>4 DEF Next

LEMMA UsbStep == ASSUME UsbType, TypeOK, [Next]_vars PROVE UsbType'
<1>1. ASSUME NEW t \in Threads, Handle(t) \/ TimesOut(t) PROVE UsbType'
  BY <1>1
  DEF Handle, TimesOut, Try, TryLock, TestCompleted, Poll, Reap, ReapNothing,
      Notify, Resubmit, Submitted, Disconnect, Complete, Unlock,
      UnlockBroadcast, LockWaiters, Check, Sleep, EndWait, PollTimesOut,
      WaitTimesOut, ChangesUsb, ChangesOnlyPc, otherVars, deviceVars, fileVars,
      UsbType, Threads, None, Context
<1>2. CASE Connect \/ Control \/ DeleteStatus
  <2>1. UNCHANGED usb \/ ConnectOpens
    BY <1>2
    DEF Connect, Create, ConnectFails, ConnectOpens, Register, Control,
      SubmitControl, Submitted, TestControl, DeleteStatus, CloseStep,
      ChangesUsb, ChangesOnlyPc, otherVars, deviceVars, fileVars
  <2>2. CASE UNCHANGED usb
    BY <2>2 DEF UsbType, Threads, None, Context
  <2>3. CASE ConnectOpens
    BY <2>3 DEF ConnectOpens, UsbType, Threads, None, Context
  <2> QED
    BY <2>1, <2>2, <2>3
<1>3. CASE Release
  <2>1. UNCHANGED usb \/ CloseModify \/ CloseSignal \/ CloseLock \/ CloseRead
        \/ RemoveFlying \/ CloseDone \/ CloseUnlock
    BY <1>3
    DEF Release, KillThread, UsbClose, CloseModify, CloseSignal, CloseLock,
      CloseRead, RemoveFlying, WakeFlying, BackendClose, CloseDone,
      CloseUnlock, CloseWake, Join, FreeHandle, UnrefAndClose, CloseFd,
      UnrefDevice, ReleaseFailed, Destroy, CloseStep,
      ChangesUsb, ChangesOnlyPc, otherVars, deviceVars, fileVars
  <2>2. CASE UNCHANGED usb
    BY <2>2 DEF UsbType, Threads, None, Context
  <2>3. CASE CloseModify
    BY <2>3 DEF CloseModify, UsbType, Threads, None, Context
  <2>4. CASE CloseSignal
    BY <2>4 DEF CloseSignal, UsbType, Threads, None, Context
  <2>5. CASE CloseLock
    BY <2>5 DEF CloseLock, UsbType, Threads, None, Context
  <2>6. CASE CloseRead
    BY <2>6 DEF CloseRead, UsbType, Threads, None, Context
  <2>7. CASE RemoveFlying
    BY <2>7 DEF RemoveFlying, UsbType, Threads, None, Context
  <2>8. CASE CloseDone
    BY <2>8 DEF CloseDone, UsbType, Threads, None, Context
  <2>9. CASE CloseUnlock
    BY <2>9 DEF CloseUnlock, UsbType, Threads, None, Context
  <2> QED
    BY <2>1, <2>2, <2>3, <2>4, <2>5, <2>6, <2>7, <2>8, <2>9
<1>4. CASE Environment \/ TestKill \/ UNCHANGED vars
  BY <1>4
  DEF Environment, Report, FinishControl, Unplug, ProcessOpens, TestKill, vars,
      ChangesOnlyPc, otherVars, deviceVars, fileVars,
      UsbType, Threads, None, Context
<1> QED
  BY <1>1, <1>2, <1>3, <1>4 DEF Next

LEMMA DevhStep == ASSUME DevhType, TypeOK, [Next]_vars PROVE DevhType'
<1>0. /\ devh.ref - 1 \in Int /\ devh.usbRef - 1 \in Int
      /\ devh.usbRef + 1 \in Int
  BY DEF DevhType
<1>1. ASSUME NEW t \in Threads, Handle(t) \/ TimesOut(t) PROVE DevhType'
  BY <1>0, <1>1
  DEF Handle, TimesOut, Try, TryLock, TestCompleted, Poll, Reap, ReapNothing,
      Notify, Resubmit, Submitted, Disconnect, Complete, Unlock,
      UnlockBroadcast, LockWaiters, Check, Sleep, EndWait, PollTimesOut,
      WaitTimesOut, ChangesUsb, ChangesOnlyPc, otherVars, deviceVars, fileVars,
      DevhType
<1>2. CASE Connect \/ Control \/ DeleteStatus
  <2>1. UNCHANGED devh \/ ConnectOpens \/ Register \/ SubmitControl
    BY <1>2
    DEF Connect, Create, ConnectFails, ConnectOpens, Register, Control,
      SubmitControl, Submitted, TestControl, DeleteStatus, CloseStep,
      ChangesUsb, ChangesOnlyPc, otherVars, deviceVars, fileVars
  <2>2. CASE UNCHANGED devh
    BY <1>0, <2>2 DEF DevhType
  <2>3. CASE ConnectOpens
    BY <1>0, <2>3 DEF ConnectOpens, DevhType
  <2>4. CASE Register
    BY <1>0, <2>4 DEF Register, DevhType
  <2>5. CASE SubmitControl
    BY <1>0, <2>5 DEF SubmitControl, Submitted, DevhType
  <2> QED
    BY <2>1, <2>2, <2>3, <2>4, <2>5
<1>3. CASE Release
  <2>1. UNCHANGED devh \/ BackendClose \/ FreeHandle \/ UnrefAndClose
        \/ Destroy
    BY <1>3
    DEF Release, KillThread, UsbClose, CloseModify, CloseSignal, CloseLock,
      CloseRead, RemoveFlying, WakeFlying, BackendClose, CloseDone,
      CloseUnlock, CloseWake, Join, FreeHandle, UnrefAndClose, CloseFd,
      UnrefDevice, ReleaseFailed, Destroy, CloseStep,
      ChangesUsb, ChangesOnlyPc, otherVars, deviceVars, fileVars
  <2>2. CASE UNCHANGED devh
    BY <1>0, <2>2 DEF DevhType
  <2>3. CASE BackendClose
    BY <1>0, <2>3 DEF BackendClose, DevhType
  <2>4. CASE FreeHandle
    BY <1>0, <2>4 DEF FreeHandle, UnrefDevice, DevhType
  <2>5. CASE UnrefAndClose
    BY <1>0, <2>5 DEF UnrefAndClose, UnrefDevice, DevhType
  <2>6. CASE Destroy
    BY <1>0, <2>6 DEF Destroy, DevhType
  <2> QED
    BY <2>1, <2>2, <2>3, <2>4, <2>5, <2>6
<1>4. CASE Environment \/ TestKill \/ UNCHANGED vars
  BY <1>0, <1>4
  DEF Environment, Report, FinishControl, Unplug, ProcessOpens, TestKill, vars,
      ChangesOnlyPc, otherVars, deviceVars, fileVars,
      DevhType
<1> QED
  BY <1>1, <1>2, <1>3, <1>4 DEF Next

LEMMA CameraStep == ASSUME CameraType, TypeOK, [Next]_vars PROVE CameraType'
<1>0. 0 \in Fds /\ (Free # {} => LowestFree \in Fds)
  <2>1. Fds \subseteq Nat /\ 0 \in Fds
    BY ConstantsAssumption DEF Fds
  <2> QED
    BY <2>1, LeastNatural DEF Free, LowestFree
<1>1. ASSUME NEW t \in Threads, Handle(t) \/ TimesOut(t) PROVE CameraType'
  BY <1>0, <1>1
  DEF Handle, TimesOut, Try, TryLock, TestCompleted, Poll, Reap, ReapNothing,
      Notify, Resubmit, Submitted, Disconnect, Complete, Unlock,
      UnlockBroadcast, LockWaiters, Check, Sleep, EndWait, PollTimesOut,
      WaitTimesOut, ChangesUsb, ChangesOnlyPc, otherVars, deviceVars, fileVars,
      CameraType, Fds
<1>2. CASE Connect \/ Control \/ DeleteStatus
  <2>1. UNCHANGED camera \/ Create \/ ConnectFails \/ ConnectOpens \/ Register
        \/ DeleteStatus
    BY <1>2
    DEF Connect, Create, ConnectFails, ConnectOpens, Register, Control,
      SubmitControl, Submitted, TestControl, DeleteStatus, CloseStep,
      ChangesUsb, ChangesOnlyPc, otherVars, deviceVars, fileVars
  <2>2. CASE UNCHANGED camera
    BY <1>0, <2>2 DEF CameraType, Fds
  <2>3. CASE Create
    BY <1>0, <2>3 DEF Create, CameraType, Fds
  <2>4. CASE ConnectFails
    BY <1>0, <2>4 DEF ConnectFails, CameraType, Fds
  <2>5. CASE ConnectOpens
    BY <1>0, <2>5 DEF ConnectOpens, CameraType, Fds
  <2>6. CASE Register
    BY <1>0, <2>6 DEF Register, CameraType, Fds
  <2>7. CASE DeleteStatus
    BY <1>0, <2>7 DEF DeleteStatus, CameraType, Fds
  <2> QED
    BY <2>1, <2>2, <2>3, <2>4, <2>5, <2>6, <2>7
<1>3. CASE Release
  <2>1. UNCHANGED camera \/ UnrefAndClose \/ ReleaseFailed \/ Destroy
    BY <1>3
    DEF Release, KillThread, UsbClose, CloseModify, CloseSignal, CloseLock,
      CloseRead, RemoveFlying, WakeFlying, BackendClose, CloseDone,
      CloseUnlock, CloseWake, Join, FreeHandle, UnrefAndClose, CloseFd,
      UnrefDevice, ReleaseFailed, Destroy, CloseStep,
      ChangesUsb, ChangesOnlyPc, otherVars, deviceVars, fileVars
  <2>2. CASE UNCHANGED camera
    BY <1>0, <2>2 DEF CameraType, Fds
  <2>3. CASE UnrefAndClose
    BY <1>0, <2>3 DEF UnrefAndClose, UnrefDevice, CameraType, Fds
  <2>4. CASE ReleaseFailed
    BY <1>0, <2>4 DEF ReleaseFailed, CameraType, Fds
  <2>5. CASE Destroy
    BY <1>0, <2>5 DEF Destroy, CameraType, Fds
  <2> QED
    BY <2>1, <2>2, <2>3, <2>4, <2>5
<1>4. CASE Environment \/ TestKill \/ UNCHANGED vars
  BY <1>0, <1>4
  DEF Environment, Report, FinishControl, Unplug, ProcessOpens, TestKill, vars,
      ChangesOnlyPc, otherVars, deviceVars, fileVars,
      CameraType, Fds
<1> QED
  BY <1>1, <1>2, <1>3, <1>4 DEF Next

LEMMA UsedStep == ASSUME UsedType, TypeOK, [Next]_vars PROVE UsedType'
<1>0. /\ used.failed + 1 \in Nat
      /\ devh.usbRef - 1 \in Int /\ used.leaked + 0 \in Int
      /\ used.leaked + (devh.usbRef - 1) \in Int
      /\ used.inFlight + Cardinality({x \in DOMAIN urbs : urbs[x] # "idle"})
           \in Nat
  <2>1. IsFiniteSet({"status", "control"})
    <3>1. IsFiniteSet({"status"})
      BY FS_Singleton
    <3>2. IsFiniteSet({"status"} \cup {"control"})
      BY <3>1, FS_AddElement
    <3>3. {"status", "control"} = {"status"} \cup {"control"}
      OBVIOUS
    <3> QED
      BY <3>2, <3>3
  <2>2. {x \in DOMAIN urbs : urbs[x] # "idle"} \subseteq {"status", "control"}
    BY TypeParts DEF UrbsType
  <2>3. Cardinality({x \in DOMAIN urbs : urbs[x] # "idle"}) \in Nat
    BY <2>1, <2>2, FS_Subset, FS_CardinalityType
  <2>4. used.failed \in Nat /\ used.leaked \in Int /\ used.inFlight \in Nat
        /\ devh.usbRef \in Int
    BY TypeParts DEF UsedType, DevhType
  <2> QED
    BY <2>3, <2>4
<1>1. ASSUME NEW t \in Threads, Handle(t) \/ TimesOut(t) PROVE UsedType'
  BY ConstantsAssumption, <1>0, <1>1
  DEF Handle, TimesOut, Try, TryLock, TestCompleted, Poll, Reap, ReapNothing,
      Notify, Resubmit, Submitted, Disconnect, Complete, Unlock,
      UnlockBroadcast, LockWaiters, Check, Sleep, EndWait, PollTimesOut,
      WaitTimesOut, ChangesUsb, ChangesOnlyPc, otherVars, deviceVars, fileVars,
      UsedType, DevhType
<1>2. CASE Connect \/ Control \/ DeleteStatus
  <2>1. UNCHANGED used \/ Create \/ ConnectFails \/ SubmitControl
    BY <1>2
    DEF Connect, Create, ConnectFails, ConnectOpens, Register, Control,
      SubmitControl, Submitted, TestControl, DeleteStatus, CloseStep,
      ChangesUsb, ChangesOnlyPc, otherVars, deviceVars, fileVars
  <2>2. CASE UNCHANGED used
    BY ConstantsAssumption, <1>0, <2>2 DEF UsedType, DevhType
  <2>3. CASE Create
    BY ConstantsAssumption, <1>0, <2>3 DEF Create, UsedType, DevhType
  <2>4. CASE ConnectFails
    BY ConstantsAssumption, <1>0, <2>4 DEF ConnectFails, UsedType, DevhType
  <2>5. CASE SubmitControl
    BY ConstantsAssumption, <1>0, <2>5
    DEF SubmitControl, Submitted, UsedType, DevhType
  <2> QED
    BY <2>1, <2>2, <2>3, <2>4, <2>5
<1>3. CASE Release
  <2>1. UNCHANGED used \/ RemoveFlying \/ Destroy
    BY <1>3
    DEF Release, KillThread, UsbClose, CloseModify, CloseSignal, CloseLock,
      CloseRead, RemoveFlying, WakeFlying, BackendClose, CloseDone,
      CloseUnlock, CloseWake, Join, FreeHandle, UnrefAndClose, CloseFd,
      UnrefDevice, ReleaseFailed, Destroy, CloseStep,
      ChangesUsb, ChangesOnlyPc, otherVars, deviceVars, fileVars
  <2>2. CASE UNCHANGED used
    BY ConstantsAssumption, <1>0, <2>2 DEF UsedType, DevhType
  <2>3. CASE RemoveFlying
    BY ConstantsAssumption, <1>0, <2>3 DEF RemoveFlying, UsedType, DevhType
  <2>4. CASE Destroy
    BY ConstantsAssumption, <1>0, <2>4 DEF Destroy, UsedType, DevhType
  <2> QED
    BY <2>1, <2>2, <2>3, <2>4
<1>4. CASE Environment \/ TestKill \/ UNCHANGED vars
  BY ConstantsAssumption, <1>0, <1>4
  DEF Environment, Report, FinishControl, Unplug, ProcessOpens, TestKill, vars,
      ChangesOnlyPc, otherVars, deviceVars, fileVars,
      UsedType, DevhType
<1> QED
  BY <1>1, <1>2, <1>3, <1>4 DEF Next

LEMMA FilesStep == ASSUME FilesType, TypeOK, [Next]_vars PROVE FilesType'
<1>1. ASSUME NEW t \in Threads, Handle(t) \/ TimesOut(t) PROVE FilesType'
  BY <1>1
  DEF Handle, TimesOut, Try, TryLock, TestCompleted, Poll, Reap, ReapNothing,
      Notify, Resubmit, Submitted, Disconnect, Complete, Unlock,
      UnlockBroadcast, LockWaiters, Check, Sleep, EndWait, PollTimesOut,
      WaitTimesOut, ChangesUsb, ChangesOnlyPc, otherVars, deviceVars, fileVars,
      FilesType
<1>2. CASE Connect \/ Control \/ DeleteStatus
  BY <1>2
  DEF Connect, Create, ConnectFails, ConnectOpens, Register, Control,
      SubmitControl, Submitted, TestControl, DeleteStatus, CloseStep,
      ChangesUsb, ChangesOnlyPc, otherVars, deviceVars, fileVars,
      FilesType
<1>3. CASE Release
  BY <1>3
  DEF Release, KillThread, UsbClose, CloseModify, CloseSignal, CloseLock,
      CloseRead, RemoveFlying, WakeFlying, BackendClose, CloseDone,
      CloseUnlock, CloseWake, Join, FreeHandle, UnrefAndClose, CloseFd,
      UnrefDevice, ReleaseFailed, Destroy, CloseStep,
      ChangesUsb, ChangesOnlyPc, otherVars, deviceVars, fileVars,
      FilesType
<1>4. CASE Environment \/ TestKill \/ UNCHANGED vars
  BY <1>4
  DEF Environment, Report, FinishControl, Unplug, ProcessOpens, TestKill, vars,
      ChangesOnlyPc, otherVars, deviceVars, fileVars,
      FilesType
<1> QED
  BY <1>1, <1>2, <1>3, <1>4 DEF Next

LEMMA FlagsStep == ASSUME FlagsType, TypeOK, [Next]_vars PROVE FlagsType'
<1>1. ASSUME NEW t \in Threads, Handle(t) \/ TimesOut(t) PROVE FlagsType'
  BY <1>1
  DEF Handle, TimesOut, Try, TryLock, TestCompleted, Poll, Reap, ReapNothing,
      Notify, Resubmit, Submitted, Disconnect, Complete, Unlock,
      UnlockBroadcast, LockWaiters, Check, Sleep, EndWait, PollTimesOut,
      WaitTimesOut, ChangesUsb, ChangesOnlyPc, otherVars, deviceVars, fileVars,
      FlagsType
<1>2. CASE Connect \/ Control \/ DeleteStatus
  BY <1>2
  DEF Connect, Create, ConnectFails, ConnectOpens, Register, Control,
      SubmitControl, Submitted, TestControl, DeleteStatus, CloseStep,
      ChangesUsb, ChangesOnlyPc, otherVars, deviceVars, fileVars,
      FlagsType
<1>3. CASE Release
  BY <1>3
  DEF Release, KillThread, UsbClose, CloseModify, CloseSignal, CloseLock,
      CloseRead, RemoveFlying, WakeFlying, BackendClose, CloseDone,
      CloseUnlock, CloseWake, Join, FreeHandle, UnrefAndClose, CloseFd,
      UnrefDevice, ReleaseFailed, Destroy, CloseStep,
      ChangesUsb, ChangesOnlyPc, otherVars, deviceVars, fileVars,
      FlagsType
<1>4. CASE Environment \/ TestKill \/ UNCHANGED vars
  BY <1>4
  DEF Environment, Report, FinishControl, Unplug, ProcessOpens, TestKill, vars,
      ChangesOnlyPc, otherVars, deviceVars, fileVars,
      FlagsType
<1> QED
  BY <1>1, <1>2, <1>3, <1>4 DEF Next

LEMMA TypeStep == TypeOK /\ [Next]_vars => TypeOK'
<1> SUFFICES ASSUME TypeOK, [Next]_vars PROVE TypeOK'
  OBVIOUS
<1>1. PcType /\ UrbsType /\ UsbType /\ DevhType /\ CameraType /\ UsedType
      /\ FilesType /\ FlagsType
  BY TypeParts
<1>2. PcType' /\ UrbsType' /\ UsbType' /\ DevhType' /\ CameraType' /\ UsedType'
      /\ FilesType' /\ FlagsType'
  BY <1>1, PcStep, UrbsStep, UsbStep, DevhStep, CameraStep, UsedStep,
     FilesStep, FlagsStep
<1> QED
  BY <1>2
  DEF TypeOK, PcType, AppPlaces, EventPlaces, UrbsType, UsbType, DevhType,
      CameraType, UsedType, FilesType, FlagsType

\* The variables of UvcDevice have their types.
THEOREM DeviceTypeCorrect == Spec => []TypeOK
BY InitType, TypeStep, PTL DEF Spec

-----------------------------------------------------------------------------
(* Who holds the events lock, and when the handle is closed.               *)

\* A transfer of the device is being completed.
Uses == {"reap", "notify", "resubmit", "disconnect", "complete"}

\* With the events lock.
Holds ==
  Uses \cup {"locked", "poll", "unlock", "closeRead", "removeFlying",
            "wakeFlying", "backendClose", "closeDone", "closeUnlock"}

\* No handle is open: before connect, or after the backend's close.
Shut == {None, "new", "failed", "released", "free", "unref"} \cup Closed

LockInv == \A t \in Threads : pc[t] \in Holds => usb.events_lock = t
OpenInv == pc["app"] \notin Shut => devh.state = "open"
ShutInv == pc["app"] \in Shut => ~watched /\ pc["event"] \notin Uses
FreedInv == devh.state = "freed" \/ pc["app"] = "free" =>
              pc["event"] = "exited"
HandleInv == LockInv /\ OpenInv /\ ShutInv /\ FreedInv

\* What a step of event handling by t may do to the lock and the handle.
Moves(t) ==
  /\ pc[t] \in Handling /\ pc'[t] \in Handling \cup {Return(t)}
  /\ \/ pc'[Other(t)] = pc[Other(t)]
     \/ pc[Other(t)] = "wait" /\ pc'[Other(t)] = "woken"
  /\ \/ usb'.events_lock = usb.events_lock
     \/ usb.events_lock = None /\ usb'.events_lock = t
     \/ pc[t] = "unlock" /\ usb'.events_lock = None
  /\ pc'[t] \in Holds =>
       \/ usb'.events_lock = t
       \/ pc[t] \in Holds /\ usb'.events_lock = usb.events_lock
  /\ pc'[t] \in Uses => pc[t] \in Uses \/ watched
  /\ devh'.state = devh.state
  /\ watched' => watched

LEMMA GotoPc ==
  ASSUME PcType, NEW t \in Threads, NEW label, Goto(t, label)
  PROVE  pc'[t] = label /\ pc'[Other(t)] = pc[Other(t)]
<1>1. CASE t = "app"
  BY <1>1 DEF Goto, PcType, Other, Threads
<1>2. CASE t = "event"
  BY <1>2 DEF Goto, PcType, Other, Threads
<1> QED
  BY <1>1, <1>2 DEF Threads

LEMMA WokenPc ==
  ASSUME PcType, NEW t \in Threads, NEW label, pc' = Woken(t, label)
  PROVE  /\ pc'[t] = label
         /\ \/ pc'[Other(t)] = pc[Other(t)]
            \/ pc[Other(t)] = "wait" /\ pc'[Other(t)] = "woken"
<1>1. CASE t = "app"
  BY <1>1 DEF Woken, PcType, Other, Threads
<1>2. CASE t = "event"
  BY <1>2 DEF Woken, PcType, Other, Threads
<1> QED
  BY <1>1, <1>2 DEF Threads

LEMMA HandleMoves ==
  ASSUME TypeOK, NEW t \in Threads, Handle(t) \/ TimesOut(t)
  PROVE  Moves(t)
<1>0. PcType /\ UsbType /\ DevhType
  BY TypeParts
<1>1. CASE Try(t)
  BY <1>0, <1>1, GotoPc
  DEF Try, ChangesOnlyPc, otherVars, deviceVars, At, Moves, Handling, Uses,
      Holds, Return, UsbType, DevhType
<1>2. CASE TryLock(t)
  <2>1. CASE usb.events_lock = None
    <3>1. usb'.events_lock = t /\ pc'[t] = "locked"
          /\ pc'[Other(t)] = pc[Other(t)]
      BY <1>0, <1>2, <2>1, GotoPc DEF TryLock, UsbType
    <3> QED
      BY <1>2, <2>1, <3>1
      DEF TryLock, ChangesUsb, otherVars, deviceVars, At, Moves, Handling,
          Uses, Holds, Return
  <2>2. CASE usb.events_lock # None
    <3>1. usb' = usb /\ pc'[t] = "lockWaiters"
          /\ pc'[Other(t)] = pc[Other(t)]
      BY <1>0, <1>2, <2>2, GotoPc DEF TryLock
    <3> QED
      BY <1>2, <3>1
      DEF TryLock, ChangesUsb, otherVars, deviceVars, At, Moves, Handling,
          Uses, Holds, Return
  <2> QED
    BY <2>1, <2>2
<1>3. CASE TestCompleted(t)
  BY <1>0, <1>3, GotoPc
  DEF TestCompleted, ChangesOnlyPc, otherVars, deviceVars, At, Moves,
      Handling, Uses, Holds, Return, UsbType, DevhType
<1>4. CASE Poll(t)
  BY <1>0, <1>4, GotoPc
  DEF Poll, Ready, ChangesOnlyPc, otherVars, deviceVars, At, Moves, Handling,
      Uses, Holds, Return, UsbType, DevhType
<1>5. CASE Reap(t)
  BY <1>0, <1>5, GotoPc
  DEF Reap, deviceVars, At, Moves, Handling, Uses, Holds, Return, UsbType,
      DevhType
<1>6. CASE ReapNothing(t)
  BY <1>0, <1>6, GotoPc
  DEF ReapNothing, ChangesOnlyPc, otherVars, deviceVars, At, Moves, Handling,
      Uses, Holds, Return, UsbType, DevhType
<1>7. CASE Notify(t)
  BY <1>0, <1>7, GotoPc
  DEF Notify, ChangesOnlyPc, otherVars, deviceVars, At, Moves, Handling,
      Uses, Holds, Return, UsbType, DevhType
<1>8. CASE Resubmit(t)
  BY <1>0, <1>8, GotoPc
  DEF Resubmit, Submitted, At, Moves, Handling, Uses, Holds, Return, UsbType,
      DevhType
<1>9. CASE Disconnect(t)
  BY <1>0, <1>9, GotoPc
  DEF Disconnect, deviceVars, At, Moves, Handling, Uses, Holds, Return,
      UsbType, DevhType
<1>10. CASE Complete(t)
  BY <1>0, <1>10, WokenPc
  DEF Complete, At, Moves, Handling, Uses, Holds, Return, UsbType, DevhType
<1>11. CASE Unlock(t)
  BY <1>0, <1>11, GotoPc
  DEF Unlock, ChangesUsb, otherVars, deviceVars, At, Moves, Handling, Uses,
      Holds, Return, UsbType, DevhType
<1>12. CASE UnlockBroadcast(t)
  BY <1>0, <1>12, WokenPc
  DEF UnlockBroadcast, ChangesOnlyPc, otherVars, deviceVars, At, Moves,
      Handling, Uses, Holds, Return, UsbType, DevhType
<1>13. CASE LockWaiters(t)
  BY <1>0, <1>13, GotoPc
  DEF LockWaiters, ChangesUsb, otherVars, deviceVars, At, Moves, Handling,
      Uses, Holds, Return, UsbType, DevhType
<1>14. CASE Check(t)
  BY <1>0, <1>14, GotoPc
  DEF Check, ChangesUsb, otherVars, deviceVars, At, Moves, Handling, Uses,
      Holds, Return, UsbType, DevhType
<1>15. CASE Sleep(t)
  BY <1>0, <1>15, GotoPc
  DEF Sleep, ChangesUsb, otherVars, deviceVars, At, Moves, Handling, Uses,
      Holds, Return, UsbType, DevhType
<1>16. CASE EndWait(t)
  BY <1>0, <1>16, GotoPc
  DEF EndWait, ChangesOnlyPc, otherVars, deviceVars, At, Moves, Handling,
      Uses, Holds, Return, UsbType, DevhType
<1>17. CASE PollTimesOut(t)
  BY <1>0, <1>17, GotoPc
  DEF PollTimesOut, ChangesOnlyPc, otherVars, deviceVars, At, Moves,
      Handling, Uses, Holds, Return, UsbType, DevhType
<1>18. CASE WaitTimesOut(t)
  BY <1>0, <1>18, GotoPc
  DEF WaitTimesOut, ChangesOnlyPc, otherVars, deviceVars, At, Moves,
      Handling, Uses, Holds, Return, UsbType, DevhType
<1> QED
  BY <1>1, <1>2, <1>3, <1>4, <1>5, <1>6, <1>7, <1>8, <1>9, <1>10, <1>11,
     <1>12, <1>13, <1>14, <1>15, <1>16, <1>17, <1>18
  DEF Handle, TimesOut

LEMMA Apart ==
  /\ Threads = {"app", "event"}
  /\ Other("app") = "event" /\ Other("event") = "app"
  /\ Return("app") = "control" /\ Return("event") = "test"
BY DEF Threads, Other, Return

LEMMA PlacesApart ==
  /\ Handling \cap Shut = {} /\ "control" \notin Shut
  /\ Uses \subseteq Handling /\ Uses \subseteq Holds
  /\ {"wait", "woken", "control", "test", "exited", "free", None}
       \cap (Uses \cup Holds) = {}
  /\ "exited" \notin Handling /\ "free" \notin Handling
BY DEF Handling, Shut, Closed, Uses, Holds, None

LEMMA HandleKeeps ==
  ASSUME TypeOK, HandleInv, NEW t \in Threads, Moves(t)
  PROVE  HandleInv'
<1>1. LockInv'
  <2>1. CASE t = "app"
    <3>1. pc'["app"] \in Holds => usb'.events_lock = "app"
      BY <2>1, Apart DEF HandleInv, LockInv, Moves
    <3>2. ASSUME pc'["event"] \in Holds PROVE usb'.events_lock = "event"
      <4>1. pc["event"] \in Holds
        BY <2>1, <3>2, Apart, PlacesApart DEF Moves
      <4>2. usb.events_lock = "event" /\ pc["app"] # "unlock"
        BY <4>1, Apart DEF HandleInv, LockInv, Holds
      <4> QED
        BY <2>1, <4>2, Apart DEF Moves, None
    <3> QED
      BY <3>1, <3>2, Apart DEF LockInv
  <2>2. CASE t = "event"
    <3>1. pc'["event"] \in Holds => usb'.events_lock = "event"
      BY <2>2, Apart DEF HandleInv, LockInv, Moves
    <3>2. ASSUME pc'["app"] \in Holds PROVE usb'.events_lock = "app"
      <4>1. pc["app"] \in Holds
        BY <2>2, <3>2, Apart, PlacesApart DEF Moves
      <4>2. usb.events_lock = "app" /\ pc["event"] # "unlock"
        BY <4>1, Apart DEF HandleInv, LockInv, Holds
      <4> QED
        BY <2>2, <4>2, Apart DEF Moves, None
    <3> QED
      BY <3>1, <3>2, Apart DEF LockInv
  <2> QED
    BY <2>1, <2>2, Apart
<1>2. CASE t = "app"
  <2>1. pc["app"] \notin Shut /\ pc'["app"] \notin Shut
        /\ pc'["app"] # "free"
    BY <1>2, Apart, PlacesApart DEF Moves
  <2>2. pc["event"] = "exited" => pc'["event"] = "exited"
    BY <1>2, Apart DEF Moves
  <2> QED
    BY <1>1, <1>2, <2>1, <2>2
    DEF HandleInv, OpenInv, ShutInv, FreedInv, Moves
<1>3. CASE t = "event"
  <2>1. pc'["app"] \in Shut => pc["app"] \in Shut
    BY <1>3, Apart, PlacesApart DEF Moves, Handling, Shut, Closed, None
  <2>2. pc["app"] \in Shut => pc'["app"] \in Shut
    BY <1>3, Apart, PlacesApart DEF Moves, Handling, Shut, Closed, None
  <2>3. pc["event"] # "exited"
    BY <1>3, PlacesApart DEF Moves
  <2>4. pc'["app"] # "free"
    BY <1>3, <2>3, Apart DEF HandleInv, FreedInv, Moves
  <2>5. devh'.state # "freed"
    BY <2>3 DEF HandleInv, FreedInv, Moves
  <2>6. pc["app"] \in Shut => ~watched' /\ pc'["event"] \notin Uses
    BY <1>3 DEF HandleInv, ShutInv, Moves
  <2> QED
    BY <1>1, <2>1, <2>2, <2>4, <2>5, <2>6
    DEF HandleInv, OpenInv, ShutInv, FreedInv, Moves
<1> QED
  BY <1>2, <1>3, Apart

\* The steps of the app's thread that take no transfer, each by itself.
LEMMA HandleStep == TypeOK /\ HandleInv /\ [Next]_vars => HandleInv'
<1> SUFFICES ASSUME TypeOK, HandleInv, [Next]_vars PROVE HandleInv'
  OBVIOUS
<1>0. PcType /\ UsbType /\ DevhType
  BY TypeParts
<1>1. ASSUME NEW t \in Threads, Handle(t) \/ TimesOut(t) PROVE HandleInv'
  BY <1>1, HandleMoves, HandleKeeps
<1>2. ASSUME NEW label, Goto("app", label)
      PROVE  pc'["app"] = label /\ pc'["event"] = pc["event"]
  BY <1>0, <1>2, GotoPc, Apart
<1>3. ASSUME UNCHANGED pc, usb'.events_lock = usb.events_lock,
             devh'.state = devh.state, watched' = watched
      PROVE  HandleInv'
  BY <1>3 DEF HandleInv, LockInv, OpenInv, ShutInv, FreedInv
\* A step of the app's thread in the open, or outside of it.
<1>4. ASSUME NEW label, Goto("app", label), usb'.events_lock = usb.events_lock,
             devh'.state = devh.state, watched' = watched,
             pc["app"] \in Shut <=> label \in Shut,
             label \notin Holds \/ pc["app"] \in Holds, label # "free"
      PROVE  HandleInv'
  <2>1. pc'["app"] = label /\ pc'["event"] = pc["event"]
    BY <1>2, <1>4
  <2> QED
    BY <1>4, <2>1, Apart DEF HandleInv, LockInv, OpenInv, ShutInv, FreedInv
<1>5. CASE Connect
  <2>1. CASE Create
    BY <1>4, <2>1 DEF Create, At, Shut, Holds, Uses, None
  <2>2. CASE ConnectFails
    BY <1>4, <2>2 DEF ConnectFails, At, Shut, Holds, Uses
  <2>3. CASE ConnectOpens
    <3>1. pc'["app"] = "register" /\ pc'["event"] = "test"
          /\ devh'.state = "open"
      BY <2>3 DEF ConnectOpens
    <3>2. "register" \notin Shut \cup Holds /\ "test" \notin Holds
      BY DEF Shut, Closed, Holds, Uses, None
    <3> QED
      BY <3>1, <3>2, Apart
      DEF HandleInv, LockInv, OpenInv, ShutInv, FreedInv
  <2>4. CASE Register
    <3>1. devh'.state = devh.state
      BY <1>0, <2>4 DEF Register, DevhType
    <3> QED
      BY <1>4, <2>4, <3>1 DEF Register, At, Shut, Closed, Holds, Uses, None
  <2> QED
    BY <1>5, <2>1, <2>2, <2>3, <2>4 DEF Connect
<1>6. CASE Control
  <2>1. CASE SubmitControl
    <3>1. devh'.state = devh.state
      BY <1>0, <2>1 DEF SubmitControl, Submitted, DevhType
    <3> QED
      BY <1>4, <2>1, <3>1
      DEF SubmitControl, At, Shut, Closed, Holds, Uses, None
  <2>2. CASE TestControl
    BY <1>4, <2>2
    DEF TestControl, ChangesOnlyPc, otherVars, deviceVars, At, Shut, Closed,
        Holds, Uses, None
  <2> QED
    BY <1>6, <2>1, <2>2 DEF Control
<1>7. CASE DeleteStatus \/ KillThread
  BY <1>4, <1>7
  DEF DeleteStatus, KillThread, CloseStep, At, Shut, Closed, Holds, Uses, None
<1>8. CASE UsbClose
  <2>1. CASE CloseModify \/ CloseSignal
    <3>1. usb'.events_lock = usb.events_lock
      BY <1>0, <2>1 DEF CloseModify, CloseSignal, UsbType
    <3> QED
      BY <1>4, <2>1, <3>1
      DEF CloseModify, CloseSignal, ChangesUsb, otherVars, deviceVars,
          CloseStep, At, Shut, Closed, Holds, Uses, None
  <2>2. CASE CloseLock
    <3>1. /\ usb.events_lock = None /\ usb'.events_lock = "app"
          /\ pc["app"] = "closeLock" /\ pc'["app"] = "closeRead"
          /\ pc'["event"] = pc["event"]
          /\ UNCHANGED <<devh, watched>>
      BY <1>0, <1>2, <2>2
      DEF CloseLock, CloseStep, At, ChangesUsb, otherVars, deviceVars, UsbType
    <3>2. pc["event"] \notin Holds
      BY <3>1, Apart DEF HandleInv, LockInv, None, Threads
    <3>3. {"closeLock", "closeRead"} \cap Shut = {}
      BY DEF Shut, Closed, None
    <3> QED
      BY <3>1, <3>2, <3>3, Apart
      DEF HandleInv, LockInv, OpenInv, ShutInv, FreedInv
  <2>3. CASE CloseRead \/ RemoveFlying
    <3>1. usb'.events_lock = usb.events_lock
      BY <1>0, <2>3 DEF CloseRead, RemoveFlying, UsbType
    <3> QED
      BY <1>4, <2>3, <3>1
      DEF CloseRead, RemoveFlying, ChangesUsb, otherVars, deviceVars,
          CloseStep, At, Shut, Closed, Holds, Uses, None
  <2>4. CASE WakeFlying
    <3>1. /\ pc["app"] = "wakeFlying" /\ pc'["app"] = "backendClose"
          /\ \/ pc'["event"] = pc["event"]
             \/ pc["event"] = "wait" /\ pc'["event"] = "woken"
          /\ UNCHANGED <<usb, devh, watched>>
      BY <1>0, <2>4, WokenPc, Apart
      DEF WakeFlying, At, ChangesOnlyPc, otherVars, deviceVars
    <3>2. {"wakeFlying", "backendClose"} \cap Shut = {}
          /\ "wakeFlying" \in Holds
      BY DEF Shut, Closed, None, Holds
    <3> QED
      BY <3>1, <3>2, Apart, PlacesApart
      DEF HandleInv, LockInv, OpenInv, ShutInv, FreedInv
  <2>5. CASE BackendClose
    <3>1. /\ pc["app"] = "backendClose" /\ pc'["app"] = "closeDone"
          /\ pc'["event"] = pc["event"] /\ usb' = usb /\ ~watched'
          /\ devh'.state = "closed"
      BY <1>0, <1>2, <2>5 DEF BackendClose, CloseStep, At, DevhType
    <3>2. usb.events_lock = "app" /\ pc["event"] \notin Holds
      BY <3>1, Apart DEF HandleInv, LockInv, Holds, Uses
    <3>3. "closeDone" \in Shut
      BY DEF Shut, Closed
    <3> QED
      BY <3>1, <3>2, <3>3, Apart, PlacesApart
      DEF HandleInv, LockInv, OpenInv, ShutInv, FreedInv
  <2>6. CASE CloseDone
    <3>1. usb'.events_lock = usb.events_lock
      BY <1>0, <2>6 DEF CloseDone, UsbType
    <3> QED
      BY <1>4, <2>6, <3>1
      DEF CloseDone, ChangesUsb, otherVars, deviceVars,
          CloseStep, At, Shut, Closed, Holds, Uses, None
  <2>7. CASE CloseUnlock
    <3>1. /\ pc["app"] = "closeUnlock" /\ pc'["app"] = "closeWake"
          /\ pc'["event"] = pc["event"] /\ usb'.events_lock = None
          /\ UNCHANGED <<devh, watched>>
      BY <1>0, <1>2, <2>7
      DEF CloseUnlock, CloseStep, At, ChangesUsb, otherVars, deviceVars,
          UsbType
    <3>2. pc["event"] \notin Holds
      BY <3>1, Apart DEF HandleInv, LockInv, Holds, Uses
    <3>3. {"closeUnlock", "closeWake"} \subseteq Shut
          /\ "closeWake" \notin Holds
      BY DEF Shut, Closed, Holds, Uses
    <3> QED
      BY <3>1, <3>2, <3>3, Apart
      DEF HandleInv, LockInv, OpenInv, ShutInv, FreedInv
  <2>8. CASE CloseWake
    <3>1. /\ pc["app"] = "closeWake" /\ pc'["app"] = "join"
          /\ \/ pc'["event"] = pc["event"]
             \/ pc["event"] = "wait" /\ pc'["event"] = "woken"
          /\ UNCHANGED <<usb, devh, watched>>
      BY <1>0, <2>8, WokenPc, Apart
      DEF CloseWake, At, ChangesOnlyPc, otherVars, deviceVars
    <3>2. {"closeWake", "join"} \subseteq Shut /\ "join" \notin Holds
      BY DEF Shut, Closed, Holds, Uses
    <3> QED
      BY <3>1, <3>2, Apart, PlacesApart
      DEF HandleInv, LockInv, OpenInv, ShutInv, FreedInv
  <2> QED
    BY <1>8, <2>1, <2>2, <2>3, <2>4, <2>5, <2>6, <2>7, <2>8 DEF UsbClose
<1>9. CASE Join
  <2>1. /\ pc["app"] = "join" /\ pc'["app"] = "free"
        /\ pc["event"] = "exited" /\ pc'["event"] = pc["event"]
        /\ UNCHANGED <<usb, devh, watched>>
    BY <1>2, <1>9
    DEF Join, CloseStep, At, ChangesOnlyPc, otherVars, deviceVars
  <2>2. {"join", "free"} \subseteq Shut
    BY DEF Shut, Closed
  <2> QED
    BY <2>1, <2>2, Apart, PlacesApart
    DEF HandleInv, LockInv, OpenInv, ShutInv, FreedInv
<1>10. CASE FreeHandle
  <2>1. /\ pc["app"] = "free" /\ pc'["app"] = "unref"
        /\ pc'["event"] = pc["event"] /\ UNCHANGED <<usb, watched>>
    BY <1>2, <1>10 DEF FreeHandle, CloseStep, At
  <2>2. {"free", "unref"} \subseteq Shut /\ "unref" \notin Holds
    BY DEF Shut, Closed, Holds, Uses
  <2> QED
    BY <2>1, <2>2, Apart, PlacesApart
    DEF HandleInv, LockInv, OpenInv, ShutInv, FreedInv
<1>11. CASE UnrefAndClose
  <2>1. devh'.state = devh.state
    BY <1>0, <1>11 DEF UnrefAndClose, UnrefDevice, DevhType
  <2> QED
    BY <1>4, <1>11, <2>1
    DEF UnrefAndClose, CloseStep, At, Shut, Closed, Holds, Uses
<1>12. CASE ReleaseFailed
  BY <1>4, <1>12 DEF ReleaseFailed, CloseStep, At, Shut, Closed, Holds, Uses
<1>13. CASE Destroy
  <2>1. /\ pc["app"] = "released" /\ pc'["app"] = None /\ pc'["event"] = None
        /\ devh'.state = "null" /\ UNCHANGED <<usb, watched>>
    BY <1>13 DEF Destroy, At
  <2>2. {"released", None} \subseteq Shut /\ None # "free"
    BY DEF Shut, None
  <2> QED
    BY <2>1, <2>2, Apart, PlacesApart
    DEF HandleInv, LockInv, OpenInv, ShutInv, FreedInv
<1>14. CASE TestKill
  <2>1. /\ pc["event"] = "test" /\ pc'["event"] \in {"exited", "try"}
        /\ pc'["app"] = pc["app"] /\ UNCHANGED <<usb, devh, watched>>
    BY <1>0, <1>14, GotoPc, Apart
    DEF TestKill, At, ChangesOnlyPc, otherVars, deviceVars
  <2>2. "try" \notin Holds
    BY DEF Holds, Uses
  <2> QED
    BY <2>1, <2>2, Apart, PlacesApart
    DEF HandleInv, LockInv, OpenInv, ShutInv, FreedInv
<1>15. CASE Environment \/ UNCHANGED vars
  BY <1>3, <1>15
  DEF Environment, Report, FinishControl, Unplug, ProcessOpens, vars,
      otherVars, deviceVars
<1> QED
  BY <1>1, <1>5, <1>6, <1>7, <1>8, <1>9, <1>10, <1>11, <1>12, <1>13, <1>14,
     <1>15
  DEF Next, Release

-----------------------------------------------------------------------------
(* The deleted callback and the closed descriptors.                        *)

Deleting ==
  {"killThread", "free", "unref", "released"} \cup Closing \cup Closed
Unopened == {None, "new", "failed", "released"}

StatusInv == camera.status = "deleted" => pc["app"] \in Deleting

\* release owes a close of a wrong descriptor after a connect that failed.
Owed == IF pc["app"] = "failed" /\ camera.usbFs THEN 1 ELSE 0

FileInv ==
  /\ pc["app"] \notin Unopened =>
       camera.usbFs /\ descriptors[camera.fd] = "camera"
  /\ pc["app"] = "new" => ~camera.usbFs
  /\ badCloses + Owed <= used.failed
ReleaseInv == StatusInv /\ FileInv

LEMMA LowestIsFree == Free # {} => LowestFree \in Free
<1>1. Free \subseteq Nat
  BY ConstantsAssumption DEF Free, Fds
<1> QED
  BY <1>1, LeastNatural DEF LowestFree

LEMMA InitReleaseInv == Init => ReleaseInv
BY DEF Init, ReleaseInv, StatusInv, FileInv, Unopened, Owed, None

LEMMA ReleaseStep == TypeOK /\ ReleaseInv /\ [Next]_vars => ReleaseInv'
<1> SUFFICES ASSUME TypeOK, ReleaseInv, [Next]_vars PROVE ReleaseInv'
  OBVIOUS
<1>0. PcType /\ DevhType /\ CameraType /\ UsedType /\ FilesType
  BY TypeParts
<1>a. badCloses \in Nat /\ used.failed \in Nat /\ camera.fd \in Fds
  BY <1>0 DEF CameraType, UsedType, FilesType
<1>b. ASSUME NEW label, Goto("app", label) PROVE pc'["app"] = label
  BY <1>0, <1>b, GotoPc, Apart
<1>c. Handling \cap (Deleting \cup Unopened) = {}
      /\ "control" \notin Deleting \cup Unopened
  BY DEF Handling, Deleting, Unopened, Closing, Closed, None
\* A step that touches neither the callback nor a descriptor.
<1>1. ASSUME UNCHANGED <<camera, fileVars>>, used'.failed = used.failed,
             pc["app"] \in Deleting => pc'["app"] \in Deleting,
             pc["app"] \in Unopened => pc'["app"] = pc["app"],
             pc'["app"] \in Unopened => pc["app"] = pc'["app"]
      PROVE  ReleaseInv'
  BY <1>a, <1>1
  DEF ReleaseInv, StatusInv, FileInv, Owed, fileVars, Unopened
<1>2. ASSUME NEW t \in Threads, Handle(t) \/ TimesOut(t) PROVE ReleaseInv'
  <2>1. UNCHANGED <<camera, fileVars, used>>
    BY <1>2
    DEF Handle, TimesOut, Try, TryLock, TestCompleted, Poll, Reap,
        ReapNothing, Notify, Resubmit, Disconnect, Complete, Unlock,
        UnlockBroadcast, LockWaiters, Check, Sleep, EndWait, PollTimesOut,
        WaitTimesOut, ChangesUsb, ChangesOnlyPc, otherVars, deviceVars
  <2>2. Moves(t)
    BY <1>2, HandleMoves
  <2>3. CASE t = "app"
    BY <1>1, <1>c, <2>1, <2>2, <2>3, Apart DEF Moves
  <2>4. CASE t = "event"
    <3>1. \/ pc'["app"] = pc["app"]
          \/ pc["app"] \in Handling /\ pc'["app"] \in Handling
      BY <2>2, <2>4, Apart DEF Moves, Handling
    <3> QED
      BY <1>1, <1>c, <2>1, <3>1
  <2> QED
    BY <2>3, <2>4, Apart
<1>3. CASE Create
  <2>1. /\ camera'.status = "null" /\ ~camera'.usbFs /\ pc'["app"] = "new"
        /\ badCloses' = badCloses
    BY <1>3, <1>b DEF Create
  <2>2. used'.failed = used.failed
    BY <1>0, <1>3 DEF Create, UsedType
  <2>3. badCloses <= used.failed
    BY <1>3, <1>a DEF Create, At, ReleaseInv, FileInv, Owed, None
  <2> QED
    BY <1>a, <2>1, <2>2, <2>3
    DEF ReleaseInv, StatusInv, FileInv, Owed, Unopened
<1>4. CASE ConnectFails
  <2>1. /\ pc["app"] = "new" /\ pc'["app"] = "failed"
        /\ camera'.status = camera.status /\ badCloses' = badCloses
    BY <1>0, <1>4, <1>b DEF ConnectFails, At, CameraType, fileVars
  <2>2. \/ used'.failed = used.failed /\ camera' = camera
        \/ used'.failed = used.failed + 1
    BY <1>0, <1>4 DEF ConnectFails, UsedType
  <2>3. camera.status # "deleted" /\ ~camera.usbFs
        /\ badCloses <= used.failed
    BY <1>a, <2>1
    DEF ReleaseInv, StatusInv, FileInv, Owed, Deleting, Closing, Closed
  <2> QED
    BY <1>a, <2>1, <2>2, <2>3
    DEF ReleaseInv, StatusInv, FileInv, Owed, Unopened
<1>5. CASE ConnectOpens
  <2>1. LowestFree \in Fds
    BY <1>5, LowestIsFree DEF ConnectOpens, Free
  <2>2. /\ camera'.usbFs /\ camera'.fd = LowestFree
        /\ camera'.status = camera.status
    BY <1>0, <1>5 DEF ConnectOpens, CameraType
  <2>3. descriptors'[LowestFree] = "camera"
    BY <1>0, <1>5, <2>1 DEF ConnectOpens, FilesType
  <2>4. /\ pc["app"] = "new" /\ pc'["app"] = "register"
        /\ badCloses' = badCloses /\ used' = used
    BY <1>5 DEF ConnectOpens, At
  <2>5. camera.status # "deleted" /\ badCloses <= used.failed
    BY <1>a, <2>4
    DEF ReleaseInv, StatusInv, FileInv, Owed, Deleting, Closing, Closed
  <2> QED
    BY <1>a, <2>2, <2>3, <2>4, <2>5
    DEF ReleaseInv, StatusInv, FileInv, Owed, Unopened
<1>6. CASE Register \/ DeleteStatus
  <2>1. /\ pc["app"] \notin Unopened /\ pc'["app"] \notin Unopened
        /\ pc["app"] # "new" /\ pc'["app"] # "new"
        /\ pc["app"] # "failed" /\ pc'["app"] # "failed"
        /\ UNCHANGED <<fileVars, used>>
        /\ camera'.usbFs = camera.usbFs /\ camera'.fd = camera.fd
    BY <1>0, <1>6, <1>b
    DEF Register, DeleteStatus, CloseStep, At, CameraType, Unopened, None
  <2>2. camera'.status = "deleted" => pc'["app"] \in Deleting
    BY <1>0, <1>6, <1>b
    DEF Register, DeleteStatus, CloseStep, CameraType, Deleting
  <2> QED
    BY <1>a, <2>1, <2>2 DEF ReleaseInv, StatusInv, FileInv, Owed, fileVars
<1>7. CASE Control
  <2>1. /\ UNCHANGED <<camera, fileVars>> /\ used'.failed = used.failed
    BY <1>0, <1>7
    DEF Control, SubmitControl, TestControl, ChangesOnlyPc, otherVars,
        deviceVars, UsedType
  <2>2. /\ pc["app"] \notin Deleting \cup Unopened
        /\ pc'["app"] \notin Deleting \cup Unopened
    BY <1>7, <1>b
    DEF Control, SubmitControl, TestControl, At, Deleting, Unopened, Closing,
        Closed, None
  <2> QED
    BY <1>1, <2>1, <2>2
<1>8. CASE KillThread \/ UsbClose \/ Join \/ FreeHandle
  <2>1. UNCHANGED <<camera, fileVars>>
    BY <1>8
    DEF KillThread, UsbClose, CloseModify, CloseSignal, CloseLock, CloseRead,
        RemoveFlying, WakeFlying, BackendClose, CloseDone, CloseUnlock,
        CloseWake, Join, FreeHandle, ChangesUsb, ChangesOnlyPc, otherVars,
        deviceVars
  <2>2. used'.failed = used.failed
    BY <1>0, <1>8
    DEF KillThread, UsbClose, CloseModify, CloseSignal, CloseLock, CloseRead,
        RemoveFlying, WakeFlying, BackendClose, CloseDone, CloseUnlock,
        CloseWake, Join, FreeHandle, ChangesUsb, ChangesOnlyPc, otherVars,
        UsedType
  <2>3. pc["app"] \notin Unopened /\ pc'["app"] \in Deleting \ Unopened
    <3>1. CASE WakeFlying \/ CloseWake
      BY <1>0, <3>1, WokenPc, Apart
      DEF WakeFlying, CloseWake, At, Deleting, Unopened, Closing, Closed, None
    <3>2. CASE ~(WakeFlying \/ CloseWake)
      BY <1>8, <1>b, <3>2
      DEF KillThread, UsbClose, CloseModify, CloseSignal, CloseLock,
          CloseRead, RemoveFlying, BackendClose, CloseDone, CloseUnlock, Join,
          FreeHandle, CloseStep, At, Deleting, Unopened, Closing, Closed, None
    <3> QED
      BY <3>1, <3>2
  <2> QED
    BY <1>1, <2>1, <2>2, <2>3
<1>9. CASE UnrefAndClose
  <2>1. pc["app"] = "unref" /\ pc'["app"] = "released" /\ used' = used
    BY <1>9, <1>b DEF UnrefAndClose, CloseStep, At
  <2>2. "unref" \notin Unopened
    BY DEF Unopened, None
  <2>3. badCloses' = badCloses
    BY <1>9, <1>a, <2>1, <2>2
    DEF UnrefAndClose, CloseFd, ReleaseInv, FileInv, fileVars
  <2>4. badCloses <= used.failed
    BY <1>a, <2>1 DEF ReleaseInv, FileInv, Owed
  <2> QED
    BY <1>a, <2>1, <2>3, <2>4
    DEF ReleaseInv, StatusInv, FileInv, Owed, Unopened, Deleting
<1>10. CASE ReleaseFailed
  <2>1. pc["app"] = "failed" /\ pc'["app"] = "released" /\ used' = used
    BY <1>10, <1>b DEF ReleaseFailed, CloseStep, At
  <2>2. badCloses' \in Nat /\ badCloses' <= badCloses + Owed
    BY <1>10, <1>a, <2>1 DEF ReleaseFailed, CloseFd, Owed, fileVars
  <2>3. badCloses' <= used'.failed
    BY <1>a, <2>1, <2>2 DEF ReleaseInv, FileInv, Owed
  <2> QED
    BY <1>a, <2>1, <2>2, <2>3
    DEF ReleaseInv, StatusInv, FileInv, Owed, Unopened, Deleting
<1>11. CASE Destroy
  <2>1. /\ pc["app"] = "released" /\ pc'["app"] = None
        /\ badCloses' = badCloses
    BY <1>11 DEF Destroy, At
  <2>2. camera'.status = "null" /\ used'.failed = used.failed
    BY <1>0, <1>11 DEF Destroy, CameraType, UsedType
  <2>3. badCloses <= used.failed
    BY <1>a, <2>1 DEF ReleaseInv, FileInv, Owed
  <2> QED
    BY <1>a, <2>1, <2>2, <2>3
    DEF ReleaseInv, StatusInv, FileInv, Owed, Unopened, None
<1>12. CASE TestKill
  <2>1. pc'["app"] = pc["app"] /\ UNCHANGED <<camera, fileVars, used>>
    BY <1>0, <1>12, GotoPc, Apart
    DEF TestKill, ChangesOnlyPc, otherVars, deviceVars
  <2> QED
    BY <1>1, <2>1
<1>13. CASE Report \/ FinishControl \/ Unplug \/ UNCHANGED vars
  <2>1. UNCHANGED <<pc, camera, fileVars>> /\ used'.failed = used.failed
    BY <1>0, <1>13
    DEF Report, FinishControl, Unplug, vars, otherVars, deviceVars, UsedType
  <2> QED
    BY <1>1, <2>1
<1>14. CASE ProcessOpens
  <2>1. Free # {}
    <3>1. Cardinality(Free) # 0
      BY <1>14, FS_EmptySet DEF ProcessOpens
    <3> QED
      BY <3>1, FS_EmptySet
  <2>2. LowestFree \in Fds /\ descriptors[LowestFree] = "free"
    BY <2>1, LowestIsFree DEF Free
  <2>3. descriptors[camera.fd] = "camera" => descriptors'[camera.fd] = "camera"
    BY <1>0, <1>14, <1>a, <2>2 DEF ProcessOpens, FilesType
  <2>4. used'.failed = used.failed
    BY <1>0, <1>14 DEF ProcessOpens, UsedType
  <2>5. UNCHANGED <<pc, camera, badCloses>>
    BY <1>14 DEF ProcessOpens, deviceVars
  <2> QED
    BY <1>a, <2>3, <2>4, <2>5 DEF ReleaseInv, StatusInv, FileInv, Owed
<1> QED
  BY <1>2, <1>3, <1>4, <1>5, <1>6, <1>7, <1>8, <1>9, <1>10, <1>11, <1>12,
     <1>13, <1>14
  DEF Next, Connect, Release, Environment

-----------------------------------------------------------------------------
(* The references of the device.                                           *)

\* A thread that completes a transfer gives its reference back at the end.
Carries == {"notify", "resubmit", "complete"}
One(b) == IF b THEN 1 ELSE 0
Flying == One(urbs["status"] # "idle") + One(urbs["control"] # "idle")
Carried == One(pc["app"] \in Carries) + One(pc["event"] \in Carries)

\* The references of the libusb device that the device list, the uvc device,
\* the usb handle and the uvc handle have.
Owned == IF devh.state = "null" THEN 0
         ELSE IF devh.state = "open" THEN 4
         ELSE IF devh.state = "closed" THEN 3 ELSE 1 + devh.ref

Unconnected == {None, "new", "failed"}
Emptied == Shut \cup {"wakeFlying", "backendClose"}

PlaceInv ==
  /\ pc["app"] \in Unconnected => devh.state = "null"
  /\ pc["app"] \in Closed \cup {"free"} => devh.state = "closed"
  /\ pc["app"] = "unref" => devh.state = "freed" /\ devh.ref = 1
  /\ pc["app"] = "released" => devh.state \in {"null", "freed"} /\ devh.ref = 0
  /\ devh.state \in {"open", "closed"} => devh.ref = 2
  /\ devh.state = "null" => devh.ref = 0 /\ devh.usbRef = 0

\* A transfer that is submitted is idle before, so that it counts once.
IdleInv ==
  /\ pc["app"] \in Emptied =>
       urbs["status"] = "idle" /\ urbs["control"] = "idle"
  /\ completed \/ pc["app"] \in {"register", "ready"} =>
       urbs["control"] = "idle"
  /\ \A t \in Threads :
       pc[t] \in {"notify", "resubmit"} => urbs["status"] = "idle"

\* The other references are those of the transfers in flight, of the
\* transfers being completed and of those that libusb_close took off the list.
CountInv ==
  devh.usbRef =
    Owned + Flying + Carried + (used.inFlight - used.leaked)

RefsInv == PlaceInv /\ IdleInv /\ CountInv

LEMMA InitRefsInv == Init => RefsInv
BY DEF Init, RefsInv, PlaceInv, IdleInv, CountInv, Owned, Flying, Carried,
       One, Carries, Threads, Unconnected, Emptied, Shut, Closed, None

\* While a thread carries a transfer the handle is open.
LEMMA CarriedOpen ==
  ASSUME TypeOK, HandleInv, NEW t \in Threads, pc[t] \in Uses
  PROVE  devh.state = "open" /\ pc["app"] \notin Emptied
<1>1. CASE t = "app"
  <2>1. pc["app"] \notin Shut \cup {"wakeFlying", "backendClose"}
    BY <1>1, PlacesApart DEF Uses
  <2> QED
    BY <2>1 DEF Emptied, HandleInv, OpenInv
<1>2. CASE t = "event"
  <2>1. pc["app"] \notin Shut
    BY <1>2 DEF HandleInv, ShutInv
  <2>2. usb.events_lock = "event"
    BY <1>2, Apart, PlacesApart DEF HandleInv, LockInv
  <2>3. pc["app"] \notin Holds
    BY <2>2, Apart DEF HandleInv, LockInv
  <2> QED
    BY <2>1, <2>3 DEF Emptied, HandleInv, OpenInv, Holds
<1> QED
  BY <1>1, <1>2, Apart

\* What a step of event handling by t may do to the references.
Carry(t) ==
  /\ devh'.state = devh.state /\ devh'.ref = devh.ref
  /\ used'.inFlight = used.inFlight /\ used'.leaked = used.leaked
  /\ \/ /\ devh'.usbRef = devh.usbRef
        /\ urbs' = urbs /\ completed' = completed
        /\ pc'[t] \in Carries <=> pc[t] \in Carries
        /\ pc'[t] \in {"notify", "resubmit"} =>
             pc[t] \in {"notify", "resubmit"}
     \/ /\ pc[t] \in Uses
        /\ devh'.usbRef = devh.usbRef + (Flying' - Flying)
             + (One(pc'[t] \in Carries) - One(pc[t] \in Carries))
        /\ completed' => completed \/ urbs'["control"] = "idle"
        /\ urbs["control"] = "idle" => urbs'["control"] = "idle"
        /\ pc'[t] \in {"notify", "resubmit"} => urbs'["status"] = "idle"

LEMMA OneFact == One(TRUE) = 1 /\ One(FALSE) = 0
BY DEF One

LEMMA CarryStep ==
  ASSUME TypeOK, RefsInv, NEW t \in Threads, Handle(t) \/ TimesOut(t)
  PROVE  Carry(t)
<1>0. PcType /\ UrbsType /\ DevhType /\ UsedType
  BY TypeParts
<1>a. /\ devh.ref \in Int /\ devh.usbRef \in Int
      /\ DOMAIN urbs = {"status", "control"}
  BY <1>0 DEF DevhType, UrbsType
<1>b. ASSUME NEW label, Goto(t, label) PROVE pc'[t] = label
  BY <1>0, <1>b, GotoPc
<1>c. ASSUME NEW label, pc' = Woken(t, label) PROVE pc'[t] = label
  BY <1>0, <1>c, WokenPc
<1>1. CASE Resubmit(t)
  <2>1. pc[t] = "resubmit" /\ pc'[t] = "complete"
        /\ urbs["status"] = "idle"
    BY <1>1, <1>b DEF Resubmit, At, RefsInv, IdleInv
  <2>2. One(pc[t] \in Carries) = 1 /\ One(pc'[t] \in Carries) = 1
    BY <2>1 DEF One, Carries
  <2>3. CASE plugged
    <3>1. /\ urbs'["status"] = "submitted"
          /\ urbs'["control"] = urbs["control"]
          /\ devh'.state = devh.state /\ devh'.ref = devh.ref
          /\ devh'.usbRef = devh.usbRef + 1
      BY <1>0, <1>1, <2>3 DEF Resubmit, Submitted, UrbsType, DevhType
    <3>2. Flying' = Flying + 1
      BY <2>1, <3>1 DEF Flying, One
    <3>3. Flying \in Int
      BY DEF Flying, One
    <3>4. devh'.usbRef = devh.usbRef + (Flying' - Flying)
             + (One(pc'[t] \in Carries) - One(pc[t] \in Carries))
      BY <1>a, <2>2, <3>1, <3>2, <3>3
    <3> QED
      BY <1>1, <2>1, <3>1, <3>4 DEF Resubmit, Carry, Uses
  <2>4. CASE ~plugged
    BY <1>1, <2>1, <2>4 DEF Resubmit, Submitted, Carry, Carries
  <2> QED
    BY <2>3, <2>4
<1>2. CASE Reap(t)
  <2>0. UNCHANGED <<devh, used>> /\ pc[t] = "reap"
    BY <1>2 DEF Reap, At, deviceVars
  <2>1. PICK x \in {"status", "control"} :
          /\ urbs[x] = "done"
          /\ urbs' = [urbs EXCEPT ![x] = "idle"]
          /\ completed' = (completed \/ x = "control")
          /\ pc'[t] \in Carries
          /\ pc'[t] \in {"notify", "resubmit"} => x = "status"
    BY <1>2, <1>a, <1>b DEF Reap, Carries
  <2>2. Flying' = Flying - 1
    BY <1>0, <2>1 DEF Flying, One, UrbsType
  <2>3. One(pc[t] \in Carries) = 0 /\ One(pc'[t] \in Carries) = 1
    BY <2>0, <2>1 DEF One, Carries
  <2>4. Flying \in Int
    BY DEF Flying, One
  <2>5. devh'.usbRef = devh.usbRef + (Flying' - Flying)
           + (One(pc'[t] \in Carries) - One(pc[t] \in Carries))
    BY <1>a, <2>0, <2>2, <2>3, <2>4
  <2>6. /\ completed' => completed \/ urbs'["control"] = "idle"
        /\ urbs["control"] = "idle" => urbs'["control"] = "idle"
        /\ pc'[t] \in {"notify", "resubmit"} => urbs'["status"] = "idle"
    BY <1>0, <2>1 DEF UrbsType
  <2> QED
    BY <2>0, <2>5, <2>6 DEF Carry, Uses
<1>3. CASE Complete(t)
  <2>1. /\ pc[t] = "complete" /\ pc'[t] \in {"reap", "disconnect"}
        /\ UNCHANGED <<urbs, used, completed>>
    BY <1>3, <1>c DEF Complete, At
  <2>2. /\ devh'.state = devh.state /\ devh'.ref = devh.ref
        /\ devh'.usbRef = devh.usbRef - 1
    BY <1>0, <1>3 DEF Complete, DevhType
  <2>3. One(pc[t] \in Carries) = 1 /\ One(pc'[t] \in Carries) = 0
    BY <2>1 DEF One, Carries
  <2>4. Flying' = Flying /\ Flying \in Int
    BY <2>1 DEF Flying, One
  <2>5. devh'.usbRef = devh.usbRef + (Flying' - Flying)
           + (One(pc'[t] \in Carries) - One(pc[t] \in Carries))
    BY <1>a, <2>2, <2>3, <2>4
  <2> QED
    BY <2>1, <2>2, <2>5 DEF Carry, Uses
<1>4. CASE Disconnect(t)
  <2>0. UNCHANGED <<devh, used>> /\ pc[t] = "disconnect"
    BY <1>4 DEF Disconnect, At, deviceVars
  <2>1. CASE \A x \in DOMAIN urbs : urbs[x] = "idle"
    <3>1. UNCHANGED <<urbs, completed>> /\ pc'[t] = "unlock"
      BY <1>4, <1>b, <2>1 DEF Disconnect
    <3> QED
      BY <2>0, <3>1 DEF Carry, Carries
  <2>2. CASE ~\A x \in DOMAIN urbs : urbs[x] = "idle"
    <3>1. PICK x \in {"status", "control"} :
            /\ urbs[x] # "idle"
            /\ urbs' = [urbs EXCEPT ![x] = "idle"]
            /\ completed' = (completed \/ x = "control")
            /\ pc'[t] = "complete"
      BY <1>4, <1>a, <1>b, <2>2 DEF Disconnect
    <3>2. Flying' = Flying - 1
      BY <1>0, <3>1 DEF Flying, One, UrbsType
    <3>3. One(pc[t] \in Carries) = 0 /\ One(pc'[t] \in Carries) = 1
      BY <2>0, <3>1 DEF One, Carries
    <3>4. Flying \in Int
      BY DEF Flying, One
    <3>5. devh'.usbRef = devh.usbRef + (Flying' - Flying)
             + (One(pc'[t] \in Carries) - One(pc[t] \in Carries))
      BY <1>a, <2>0, <3>2, <3>3, <3>4
    <3>6. /\ completed' => completed \/ urbs'["control"] = "idle"
          /\ urbs["control"] = "idle" => urbs'["control"] = "idle"
      BY <1>0, <3>1 DEF UrbsType
    <3> QED
      BY <2>0, <3>1, <3>5, <3>6 DEF Carry, Uses
  <2> QED
    BY <2>1, <2>2
\* The others complete nothing.
<1>5. ASSUME UNCHANGED <<devh, used, urbs, completed>>,
             \/ pc[t] = "notify" /\ pc'[t] = "resubmit"
             \/ pc[t] \notin Carries /\ pc'[t] \notin Carries
      PROVE  Carry(t)
  BY <1>5 DEF Carry, Carries
<1>6. CASE Notify(t)
  BY <1>5, <1>6, <1>b
  DEF Notify, At, ChangesOnlyPc, otherVars, deviceVars
<1>7. CASE Try(t) \/ TryLock(t) \/ TestCompleted(t) \/ Poll(t)
           \/ ReapNothing(t) \/ Unlock(t) \/ LockWaiters(t) \/ Check(t)
           \/ Sleep(t) \/ EndWait(t) \/ PollTimesOut(t) \/ WaitTimesOut(t)
  <2>1. UNCHANGED <<devh, used, urbs, completed>>
    BY <1>7
    DEF Try, TryLock, TestCompleted, Poll, ReapNothing, Unlock, LockWaiters,
        Check, Sleep, EndWait, PollTimesOut, WaitTimesOut, ChangesUsb,
        ChangesOnlyPc, otherVars, deviceVars
  <2>2. pc[t] \notin Carries
    BY <1>7
    DEF Try, TryLock, TestCompleted, Poll, ReapNothing, Unlock, LockWaiters,
        Check, Sleep, EndWait, PollTimesOut, WaitTimesOut, At, Carries
  <2>3. pc'[t] \notin Carries
    BY <1>7, <1>b
    DEF Try, TryLock, TestCompleted, Poll, ReapNothing, Unlock, LockWaiters,
        Check, Sleep, EndWait, PollTimesOut, WaitTimesOut, Return, Carries
  <2> QED
    BY <1>5, <2>1, <2>2, <2>3
<1>8. CASE UnlockBroadcast(t)
  <2>1. pc[t] = "broadcast" /\ pc'[t] \in {"test", "control"}
    BY <1>8, <1>c DEF UnlockBroadcast, At, Return
  <2> QED
    BY <1>5, <1>8, <2>1
    DEF UnlockBroadcast, ChangesOnlyPc, otherVars, deviceVars, Carries
<1> QED
  BY <1>1, <1>2, <1>3, <1>4, <1>6, <1>7, <1>8 DEF Handle, TimesOut

\* The other thread carries what it did.
LEMMA RefsKeptByHandling ==
  ASSUME TypeOK, HandleInv, RefsInv, NEW t \in Threads, Moves(t), Carry(t)
  PROVE  RefsInv'
<1>0. PcType /\ UrbsType /\ DevhType /\ UsedType
  BY TypeParts
<1>a. /\ devh.ref \in Int /\ devh.usbRef \in Int
      /\ used.inFlight \in Int /\ used.leaked \in Int
  BY <1>0 DEF DevhType, UsedType
\* What the app's place is afterwards, if it is of interest.
<1>1. /\ pc'["app"] \in Emptied \cup {"register", "ready"} =>
           pc'["app"] = pc["app"]
      /\ pc["app"] \in Shut => pc'["app"] = pc["app"]
  <2>1. (Handling \cup {"control"}) \cap (Emptied \cup {"register", "ready"})
          = {}
    BY PlacesApart DEF Emptied, Handling, Shut, Closed, None
  <2>2. CASE t = "app"
    BY <2>1, <2>2, Apart DEF Moves, Emptied
  <2>3. CASE t = "event"
    <3>1. \/ pc'["app"] = pc["app"]
          \/ pc["app"] \in Handling /\ pc'["app"] \in Handling
      BY <2>3, Apart DEF Moves, Handling
    <3> QED
      BY <2>1, <3>1 DEF Emptied
  <2> QED
    BY <2>2, <2>3, Apart
<1>2. PlaceInv'
  <2>1. /\ pc'["app"] \in Unconnected \cup Closed
             \cup {"free", "unref", "released"} => pc'["app"] = pc["app"]
    BY <1>1 DEF Emptied, Shut, Unconnected
  <2>2. devh.state = "null" => devh'.usbRef = devh.usbRef
    BY CarriedOpen DEF Carry
  <2> QED
    BY <2>1, <2>2 DEF RefsInv, PlaceInv, Carry
<1>3. pc'[Other(t)] \in Carries <=> pc[Other(t)] \in Carries
  BY DEF Moves, Carries
<1>4. IdleInv'
  <2>1. CASE /\ UNCHANGED <<urbs, completed>>
             /\ pc'[t] \in {"notify", "resubmit"} =>
                  pc[t] \in {"notify", "resubmit"}
    <3>1. pc'[Other(t)] \in {"notify", "resubmit"} =>
            pc'[Other(t)] = pc[Other(t)]
      BY DEF Moves
    <3>2. \A u \in Threads : pc'[u] \in {"notify", "resubmit"} =>
            pc[u] \in {"notify", "resubmit"}
      BY <2>1, <3>1, Apart
    <3> QED
      BY <1>1, <2>1, <3>2 DEF RefsInv, IdleInv
  <2>2. CASE /\ pc[t] \in Uses
             /\ completed' => completed \/ urbs'["control"] = "idle"
             /\ urbs["control"] = "idle" => urbs'["control"] = "idle"
             /\ pc'[t] \in {"notify", "resubmit"} => urbs'["status"] = "idle"
    <3>1. pc["app"] \notin Emptied /\ pc'["app"] \notin Emptied
      BY <1>1, <2>2, CarriedOpen
    <3>2. pc[Other(t)] \notin Uses
      BY <2>2, Apart, PlacesApart DEF HandleInv, LockInv
    <3>3. pc'[Other(t)] \notin {"notify", "resubmit"}
      BY <3>2 DEF Moves, Uses
    <3>4. \A u \in Threads : u = t \/ u = Other(t)
      BY Apart
    <3>5. \A u \in Threads : pc'[u] \in {"notify", "resubmit"} =>
            urbs'["status"] = "idle"
      BY <2>2, <3>3, <3>4
    <3>6. completed' \/ pc'["app"] \in {"register", "ready"} =>
            urbs'["control"] = "idle"
      BY <1>1, <2>2 DEF RefsInv, IdleInv
    <3> QED
      BY <3>1, <3>5, <3>6 DEF IdleInv
  <2> QED
    BY <2>1, <2>2 DEF Carry
<1>5. CountInv'
  <2>1. Owned' = Owned /\ Owned \in Int
    BY <1>a DEF Carry, Owned
  <2>2. /\ Flying \in Int /\ Flying' \in Int
        /\ Carried \in Int /\ Carried' \in Int
        /\ One(pc'[t] \in Carries) \in Int /\ One(pc[t] \in Carries) \in Int
    BY DEF Flying, Carried, One
  <2>3. Carried' = Carried
          + (One(pc'[t] \in Carries) - One(pc[t] \in Carries))
    <3>1. CASE t = "app"
      BY <1>3, <3>1, Apart DEF Carried, One
    <3>2. CASE t = "event"
      BY <1>3, <3>2, Apart DEF Carried, One
    <3> QED
      BY <3>1, <3>2, Apart
  <2>4. devh'.usbRef = devh.usbRef + (Flying' - Flying)
          + (One(pc'[t] \in Carries) - One(pc[t] \in Carries))
    <3>1. CASE /\ devh'.usbRef = devh.usbRef /\ urbs' = urbs
               /\ pc'[t] \in Carries <=> pc[t] \in Carries
      <4>1. Flying' = Flying
        BY <3>1 DEF Flying
      <4>2. One(pc'[t] \in Carries) = One(pc[t] \in Carries)
        BY <3>1 DEF One
      <4> QED
        BY <1>a, <2>2, <3>1, <4>1, <4>2
    <3> QED
      BY <3>1 DEF Carry
  <2>5. used'.inFlight - used'.leaked = used.inFlight - used.leaked
    BY DEF Carry
  <2>6. devh.usbRef =
          Owned + Flying + Carried + (used.inFlight - used.leaked)
    BY DEF RefsInv, CountInv
  <2> QED
    BY <1>a, <2>1, <2>2, <2>3, <2>4, <2>5, <2>6 DEF CountInv
<1> QED
  BY <1>2, <1>4, <1>5 DEF RefsInv

\* A step of the app's thread that takes no reference and gives none back.
SameCounts ==
  /\ devh'.state = devh.state /\ devh'.ref = devh.ref
  /\ devh'.usbRef = devh.usbRef
  /\ used'.inFlight = used.inFlight /\ used'.leaked = used.leaked
  /\ \A x \in {"status", "control"} :
       urbs'[x] = "idle" <=> urbs[x] = "idle"
  /\ completed' => completed

SamePlace(from, to) ==
  \/ to = from
  \/ /\ from \notin Carries /\ to \notin Carries
     /\ to \in Unconnected => from \in Unconnected
     /\ to \in Closed \cup {"free"} => from \in Closed \cup {"free"}
     /\ to = "unref" => from = "unref"
     /\ to = "released" => from \in Unconnected
     /\ to \in Emptied => from \in Emptied
     /\ to \in {"register", "ready"} =>
          from \in {"register", "ready"} \/ urbs["control"] = "idle"

LEMMA RefsKept ==
  ASSUME RefsInv, SameCounts, SamePlace(pc["app"], pc'["app"]),
         \/ pc'["event"] = pc["event"]
         \/ pc["event"] \notin Uses /\ pc'["event"] \notin Uses
  PROVE  RefsInv'
<1>1. PlaceInv'
  BY DEF RefsInv, PlaceInv, SameCounts, SamePlace
<1>2. IdleInv'
  <2>1. \A u \in Threads : pc'[u] \in {"notify", "resubmit"} =>
          pc[u] \in {"notify", "resubmit"}
    BY Apart DEF Uses, Carries, SamePlace
  <2> QED
    BY <2>1 DEF RefsInv, IdleInv, SameCounts, SamePlace
<1>3. CountInv'
  <2>1. Owned' = Owned /\ Flying' = Flying
    BY DEF Owned, Flying, One, SameCounts
  <2>2. /\ pc'["app"] \in Carries <=> pc["app"] \in Carries
        /\ pc'["event"] \in Carries <=> pc["event"] \in Carries
    BY DEF Carries, Uses, SamePlace
  <2>3. Carried' = Carried
    BY <2>2 DEF Carried, One
  <2> QED
    BY <2>1, <2>3 DEF RefsInv, CountInv, SameCounts
<1> QED
  BY <1>1, <1>2, <1>3 DEF RefsInv

\* The transfers that libusb_close takes off the list.
LEMMA FlyingCardinality ==
  ASSUME DOMAIN urbs = {"status", "control"}
  PROVE  Cardinality({x \in DOMAIN urbs : urbs[x] # "idle"}) = Flying
<1> DEFINE flying == {x \in DOMAIN urbs : urbs[x] # "idle"}
<1>1. Cardinality({}) = 0
  BY FS_EmptySet
<1>2. Cardinality({"status"}) = 1 /\ Cardinality({"control"}) = 1
  BY FS_Singleton
<1>3. Cardinality({"status", "control"}) = 2
  <2>1. IsFiniteSet({"status"}) /\ "control" \notin {"status"}
    BY FS_Singleton
  <2>2. Cardinality({"status"} \cup {"control"}) = 2
    BY <1>2, <2>1, FS_AddElement
  <2>3. {"status"} \cup {"control"} = {"status", "control"}
    OBVIOUS
  <2> QED
    BY <2>2, <2>3
<1>4. CASE urbs["status"] = "idle" /\ urbs["control"] = "idle"
  <2>1. flying = {}
    BY <1>4
  <2> QED
    BY <1>1, <1>4, <2>1 DEF Flying, One
<1>5. CASE urbs["status"] # "idle" /\ urbs["control"] = "idle"
  <2>1. flying = {"status"}
    BY <1>5
  <2> QED
    BY <1>2, <1>5, <2>1 DEF Flying, One
<1>6. CASE urbs["status"] = "idle" /\ urbs["control"] # "idle"
  <2>1. flying = {"control"}
    BY <1>6
  <2> QED
    BY <1>2, <1>6, <2>1 DEF Flying, One
<1>7. CASE urbs["status"] # "idle" /\ urbs["control"] # "idle"
  <2>1. flying = {"status", "control"}
    BY <1>7
  <2> QED
    BY <1>3, <1>7, <2>1 DEF Flying, One
<1> QED
  BY <1>4, <1>5, <1>6, <1>7

LEMMA RefsStep == TypeOK /\ HandleInv /\ RefsInv /\ [Next]_vars => RefsInv'
<1> SUFFICES ASSUME TypeOK, HandleInv, RefsInv, [Next]_vars PROVE RefsInv'
  OBVIOUS
<1>0. PcType /\ UrbsType /\ DevhType /\ UsedType
  BY TypeParts
<1>a. /\ devh.ref \in Int /\ devh.usbRef \in Int
      /\ used.inFlight \in Int /\ used.leaked \in Int
      /\ DOMAIN urbs = {"status", "control"}
  BY <1>0 DEF DevhType, UsedType, UrbsType
<1>b. ASSUME NEW label, Goto("app", label)
      PROVE  pc'["app"] = label /\ pc'["event"] = pc["event"]
  BY <1>0, <1>b, GotoPc, Apart
<1>c. Flying \in Int /\ Carried \in Int /\ Owned \in Int
  BY <1>a DEF Flying, Carried, Owned, One
<1>d. pc["app"] \in Emptied => Flying = 0
  BY DEF RefsInv, IdleInv, Flying, One
<1>e. pc["app"] \in Shut => Carried = 0
  BY PlacesApart DEF HandleInv, ShutInv, Carried, Carries, Uses, One
<1>f. devh.usbRef = Owned + Flying + Carried + (used.inFlight - used.leaked)
  BY DEF RefsInv, CountInv
<1>1. ASSUME NEW t \in Threads, Handle(t) \/ TimesOut(t) PROVE RefsInv'
  BY <1>1, HandleMoves, CarryStep, RefsKeptByHandling
<1>2. CASE Create
  <2>1. /\ pc["app"] = None /\ pc'["app"] = "new"
        /\ pc'["event"] = pc["event"]
        /\ UNCHANGED <<devh, urbs, completed>>
    BY <1>2, <1>b DEF Create, At
  <2>2. used'.inFlight = used.inFlight /\ used'.leaked = used.leaked
    BY <1>0, <1>2 DEF Create, UsedType
  <2> QED
    BY <2>1, <2>2, RefsKept
    DEF SameCounts, SamePlace, Unconnected, Closed, Emptied, Shut, Carries,
        None
<1>3. CASE ConnectFails
  <2>1. /\ pc["app"] = "new" /\ pc'["app"] = "failed"
        /\ pc'["event"] = pc["event"]
        /\ UNCHANGED <<devh, urbs, completed>>
    BY <1>3, <1>b DEF ConnectFails, At
  <2>2. used'.inFlight = used.inFlight /\ used'.leaked = used.leaked
    BY <1>0, <1>3 DEF ConnectFails, UsedType
  <2> QED
    BY <2>1, <2>2, RefsKept
    DEF SameCounts, SamePlace, Unconnected, Closed, Emptied, Shut, Carries,
        None
<1>4. CASE ConnectOpens
  <2>1. /\ pc["app"] = "new" /\ pc'["app"] = "register"
        /\ pc'["event"] = "test" /\ completed' = FALSE /\ used' = used
    BY <1>4 DEF ConnectOpens, At
  <2>2. devh.state = "null" /\ devh.usbRef = 0 /\ Owned = 0
        /\ Flying = 0 /\ Carried = 0
    BY <1>d, <1>e, <2>1
    DEF RefsInv, PlaceInv, Unconnected, Owned, Emptied, Shut
  <2>3. used.inFlight - used.leaked = 0
    BY <1>a, <1>f, <2>2
  <2>4. PICK status \in BOOLEAN :
          /\ urbs' = [status |-> IF status THEN "submitted" ELSE "idle",
                      control |-> "idle"]
          /\ devh' = [state |-> "open", status_cb |-> FALSE, ref |-> 2,
                      usbRef |-> IF status THEN 5 ELSE 4]
    BY <1>4 DEF ConnectOpens
  <2>5. PlaceInv'
    BY <2>1, <2>4 DEF PlaceInv, Unconnected, Closed, None
  <2>6. IdleInv'
    BY <2>1, <2>4 DEF IdleInv, Emptied, Shut, Closed, Threads, None
  <2>7. CountInv'
    <3>1. Carried' = 0 /\ Owned' = 4
      BY <2>1, <2>4 DEF Carried, Carries, One, Owned
    <3>2. devh'.usbRef = 4 + Flying' /\ Flying' \in Int
      BY <2>4 DEF Flying, One
    <3>3. used'.inFlight - used'.leaked = 0
      BY <2>1, <2>3
    <3> QED
      BY <3>1, <3>2, <3>3 DEF CountInv
  <2> QED
    BY <2>5, <2>6, <2>7 DEF RefsInv
<1>5. CASE Register
  <2>1. /\ pc["app"] = "register" /\ pc'["app"] = "ready"
        /\ pc'["event"] = pc["event"]
        /\ UNCHANGED <<urbs, completed, used>>
    BY <1>5, <1>b DEF Register, At
  <2>2. /\ devh'.state = devh.state /\ devh'.ref = devh.ref
        /\ devh'.usbRef = devh.usbRef
    BY <1>0, <1>5 DEF Register, DevhType
  <2> QED
    BY <2>1, <2>2, RefsKept
    DEF SameCounts, SamePlace, Unconnected, Closed, Emptied, Shut, Carries,
        None
<1>6. CASE SubmitControl
  <2>1. /\ pc["app"] = "ready" /\ completed' = FALSE
        /\ pc'["app"] = (IF plugged THEN "control" ELSE "ready")
        /\ pc'["event"] = pc["event"]
    BY <1>6, <1>b DEF SubmitControl, At
  <2>2. used'.inFlight = used.inFlight /\ used'.leaked = used.leaked
    BY <1>0, <1>6 DEF SubmitControl, UsedType
  <2>3. CASE ~plugged
    <3>1. UNCHANGED <<urbs, devh>>
      BY <1>6, <2>3 DEF SubmitControl, Submitted
    <3> QED
      BY <2>1, <2>2, <2>3, <3>1, RefsKept DEF SameCounts, SamePlace
  <2>4. CASE plugged
    <3>1. /\ urbs'["control"] = "submitted"
          /\ urbs'["status"] = urbs["status"]
          /\ devh'.state = devh.state /\ devh'.ref = devh.ref
          /\ devh'.usbRef = devh.usbRef + 1
      BY <1>0, <1>6, <2>4 DEF SubmitControl, Submitted, UrbsType, DevhType
    <3>2. urbs["control"] = "idle" /\ devh.state = "open"
      BY <2>1
      DEF RefsInv, IdleInv, HandleInv, OpenInv, Shut, Closed, None
    <3>3. Flying' = Flying + 1 /\ Carried' = Carried /\ Owned' = Owned
      BY <2>1, <2>4, <3>1, <3>2
      DEF Flying, One, Carried, Carries, Owned
    <3>4. CountInv'
      BY <1>a, <1>c, <1>f, <2>2, <3>1, <3>3 DEF CountInv
    <3>5. PlaceInv'
      BY <2>1, <2>4, <3>1, <3>2
      DEF RefsInv, PlaceInv, Unconnected, Closed, None
    <3>6. IdleInv'
      <4>1. \A u \in Threads : pc'[u] \in {"notify", "resubmit"} =>
              pc[u] \in {"notify", "resubmit"}
        BY <2>1, <2>4, Apart
      <4> QED
        BY <2>1, <2>4, <3>1, <4>1
        DEF RefsInv, IdleInv, Emptied, Shut, Closed, None
    <3> QED
      BY <3>4, <3>5, <3>6 DEF RefsInv
  <2> QED
    BY <2>3, <2>4
<1>7. CASE TestControl
  <2>1. /\ pc["app"] = "control"
        /\ pc'["app"] = (IF completed THEN "ready" ELSE "try")
        /\ pc'["event"] = pc["event"]
        /\ UNCHANGED <<devh, urbs, completed, used>>
    BY <1>7, <1>b
    DEF TestControl, At, ChangesOnlyPc, otherVars, deviceVars
  <2>2. completed => urbs["control"] = "idle"
    BY DEF RefsInv, IdleInv
  <2> QED
    BY <2>1, <2>2, RefsKept
    DEF SameCounts, SamePlace, Unconnected, Closed, Emptied, Shut, Carries,
        None
<1>8. CASE \/ DeleteStatus \/ KillThread \/ CloseModify \/ CloseSignal
           \/ CloseLock \/ CloseRead \/ CloseDone \/ CloseUnlock \/ Join
  <2>1. UNCHANGED <<devh, urbs, completed, used>>
    BY <1>8
    DEF DeleteStatus, KillThread, CloseModify, CloseSignal, CloseLock,
        CloseRead, CloseDone, CloseUnlock, Join, ChangesUsb, ChangesOnlyPc,
        otherVars, deviceVars
  <2>2. /\ pc'["event"] = pc["event"]
        /\ <<pc["app"], pc'["app"]>> \in
             {<<"ready", "killThread">>, <<"killThread", "closeModify">>,
              <<"closeModify", "closeSignal">>, <<"closeSignal", "closeLock">>,
              <<"closeLock", "closeRead">>, <<"closeRead", "removeFlying">>,
              <<"closeDone", "closeUnlock">>, <<"closeUnlock", "closeWake">>,
              <<"join", "free">>}
    BY <1>8, <1>b
    DEF DeleteStatus, KillThread, CloseModify, CloseSignal, CloseLock,
        CloseRead, CloseDone, CloseUnlock, Join, CloseStep, At
  <2> QED
    BY <2>1, <2>2, RefsKept
    DEF SameCounts, SamePlace, Unconnected, Closed, Emptied, Shut, Carries,
        None
<1>9. CASE WakeFlying \/ CloseWake
  <2>1. /\ UNCHANGED <<devh, urbs, completed, used>>
        /\ \/ pc["app"] = "wakeFlying" /\ pc'["app"] = "backendClose"
           \/ pc["app"] = "closeWake" /\ pc'["app"] = "join"
        /\ \/ pc'["event"] = pc["event"]
           \/ pc["event"] = "wait" /\ pc'["event"] = "woken"
    BY <1>0, <1>9, WokenPc, Apart
    DEF WakeFlying, CloseWake, At, ChangesOnlyPc, otherVars, deviceVars
  <2> QED
    BY <2>1, RefsKept
    DEF SameCounts, SamePlace, Unconnected, Closed, Emptied, Shut, Carries,
        Uses, None
<1>10. CASE RemoveFlying
  <2>1. /\ pc["app"] = "removeFlying" /\ pc'["app"] = "wakeFlying"
        /\ pc'["event"] = pc["event"] /\ UNCHANGED <<devh, completed>>
    BY <1>10, <1>b DEF RemoveFlying, CloseStep, At, deviceVars
  <2>2. urbs'["status"] = "idle" /\ urbs'["control"] = "idle"
    BY <1>10, <1>a DEF RemoveFlying
  <2>3. Cardinality({x \in DOMAIN urbs : urbs[x] # "idle"}) = Flying
    BY <1>a, FlyingCardinality
  <2>4. /\ used'.inFlight = used.inFlight + Flying
        /\ used'.leaked = used.leaked
    BY <1>0, <1>10, <2>3 DEF RemoveFlying, UsedType
  <2>5. Flying' = 0 /\ Carried' = Carried /\ Owned' = Owned
    BY <2>1, <2>2 DEF Flying, One, Carried, Carries, Owned
  <2>6. CountInv'
    BY <1>a, <1>c, <1>f, <2>1, <2>4, <2>5 DEF CountInv
  <2>7. PlaceInv'
    BY <2>1 DEF RefsInv, PlaceInv, Unconnected, Closed, None
  <2>8. IdleInv'
    BY <2>1, <2>2 DEF IdleInv
  <2> QED
    BY <2>6, <2>7, <2>8 DEF RefsInv
<1>11. CASE BackendClose
  <2>1. /\ pc["app"] = "backendClose" /\ pc'["app"] = "closeDone"
        /\ pc'["event"] = pc["event"] /\ UNCHANGED <<urbs, completed, used>>
    BY <1>11, <1>b DEF BackendClose, CloseStep, At
  <2>2. /\ devh'.state = "closed" /\ devh'.ref = devh.ref
        /\ devh'.usbRef = devh.usbRef - 1
    BY <1>0, <1>11 DEF BackendClose, DevhType
  <2>3. devh.state = "open"
    BY <2>1 DEF HandleInv, OpenInv, Shut, Closed, None
  <2>4. Owned = 4 /\ Owned' = 3 /\ Flying' = Flying /\ Carried' = Carried
    BY <2>1, <2>2, <2>3 DEF Owned, Flying, Carried, Carries, One
  <2>5. CountInv'
    BY <1>a, <1>c, <1>f, <2>1, <2>2, <2>4 DEF CountInv
  <2>6. PlaceInv'
    BY <2>1, <2>2, <2>3 DEF RefsInv, PlaceInv, Unconnected, None
  <2>7. IdleInv'
    <3>1. \A u \in Threads : pc'[u] \in {"notify", "resubmit"} =>
            pc[u] \in {"notify", "resubmit"}
      BY <2>1, Apart
    <3>2. pc["app"] \in Emptied
      BY <2>1 DEF Emptied
    <3> QED
      BY <2>1, <3>1, <3>2 DEF RefsInv, IdleInv
  <2> QED
    BY <2>5, <2>6, <2>7 DEF RefsInv
\* The three that give a reference of the device back after the close.
<1>12. ASSUME pc["app"] \in Shut, pc'["app"] \in Shut, ~pc'["event"] \in Uses,
              UNCHANGED <<urbs, completed>>
       PROVE  IdleInv' /\ Flying = 0 /\ Flying' = 0 /\ Carried = 0
              /\ Carried' = 0
  <2>1. pc["app"] \in Emptied
    BY <1>12 DEF Emptied
  <2>2. Flying = 0 /\ Flying' = 0 /\ Carried = 0
    BY <1>12, <1>d, <1>e, <2>1 DEF Flying
  <2>3. Carried' = 0
    BY <1>12, PlacesApart DEF Carried, Carries, Uses, One
  <2>4. \A u \in Threads : pc'[u] \notin {"notify", "resubmit"}
    BY <1>12, Apart, PlacesApart DEF Uses
  <2> QED
    BY <1>12, <2>1, <2>2, <2>3, <2>4 DEF RefsInv, IdleInv
<1>13. pc["app"] \in Shut => pc["event"] \notin Uses
  BY DEF HandleInv, ShutInv
<1>14. CASE FreeHandle
  <2>1. /\ pc["app"] = "free" /\ pc'["app"] = "unref"
        /\ pc'["event"] = pc["event"] /\ UNCHANGED <<urbs, completed, used>>
    BY <1>14, <1>b DEF FreeHandle, CloseStep, At
  <2>2. /\ devh'.state = "freed" /\ devh'.ref = devh.ref - 1
        /\ devh'.usbRef = devh.usbRef - 1
    BY <1>0, <1>14 DEF FreeHandle, UnrefDevice, DevhType
  <2>3. devh.state = "closed" /\ devh.ref = 2
    BY <2>1 DEF RefsInv, PlaceInv
  <2>4. IdleInv' /\ Flying = 0 /\ Flying' = 0 /\ Carried = 0 /\ Carried' = 0
    BY <1>12, <1>13, <2>1 DEF Shut
  <2>5. Owned = 3 /\ Owned' = 2
    BY <2>2, <2>3 DEF Owned
  <2>6. CountInv'
    BY <1>a, <1>f, <2>1, <2>2, <2>4, <2>5 DEF CountInv
  <2>7. PlaceInv'
    BY <2>1, <2>2, <2>3 DEF PlaceInv, Unconnected, Closed, None
  <2> QED
    BY <2>4, <2>6, <2>7 DEF RefsInv
<1>15. CASE UnrefAndClose
  <2>1. /\ pc["app"] = "unref" /\ pc'["app"] = "released"
        /\ pc'["event"] = pc["event"] /\ UNCHANGED <<urbs, completed, used>>
    BY <1>15, <1>b DEF UnrefAndClose, CloseStep, At
  <2>2. /\ devh'.state = devh.state /\ devh'.ref = devh.ref - 1
        /\ devh'.usbRef = devh.usbRef - 1
    BY <1>0, <1>15 DEF UnrefAndClose, UnrefDevice, DevhType
  <2>3. devh.state = "freed" /\ devh.ref = 1
    BY <2>1 DEF RefsInv, PlaceInv
  <2>4. IdleInv' /\ Flying = 0 /\ Flying' = 0 /\ Carried = 0 /\ Carried' = 0
    BY <1>12, <1>13, <2>1 DEF Shut
  <2>5. Owned = 2 /\ Owned' = 1
    BY <2>2, <2>3 DEF Owned
  <2>6. CountInv'
    BY <1>a, <1>f, <2>1, <2>2, <2>4, <2>5 DEF CountInv
  <2>7. PlaceInv'
    BY <2>1, <2>2, <2>3 DEF PlaceInv, Unconnected, Closed, None
  <2> QED
    BY <2>4, <2>6, <2>7 DEF RefsInv
<1>16. CASE ReleaseFailed
  <2>1. /\ pc["app"] = "failed" /\ pc'["app"] = "released"
        /\ pc'["event"] = pc["event"]
        /\ UNCHANGED <<devh, urbs, completed, used>>
    BY <1>16, <1>b DEF ReleaseFailed, CloseStep, At
  <2> QED
    BY <2>1, RefsKept
    DEF SameCounts, SamePlace, Unconnected, Closed, Emptied, Shut, Carries,
        None
<1>17. CASE Destroy
  <2>1. /\ pc["app"] = "released" /\ pc'["app"] = None /\ pc'["event"] = None
        /\ UNCHANGED <<urbs, completed>>
        /\ devh' = [state |-> "null", status_cb |-> FALSE, ref |-> 0,
                    usbRef |-> 0]
    BY <1>17 DEF Destroy, At
  <2>2. /\ used'.inFlight = used.inFlight
        /\ used'.leaked = used.leaked
             + (IF devh.state = "freed" THEN devh.usbRef - 1 ELSE 0)
    BY <1>0, <1>17 DEF Destroy, UsedType
  <2>3. \/ devh.state = "freed" /\ devh.ref = 0
        \/ devh.state = "null" /\ devh.usbRef = 0
    BY <2>1 DEF RefsInv, PlaceInv
  <2>4. IdleInv' /\ Flying = 0 /\ Flying' = 0 /\ Carried = 0 /\ Carried' = 0
    BY <1>12, <2>1, PlacesApart DEF Shut
  <2>5. /\ devh.state = "freed" => Owned = 1
        /\ devh.state = "null" => Owned = 0
        /\ Owned' = 0
    BY <1>a, <2>1, <2>3 DEF Owned
  <2>6. used'.leaked = used'.inFlight
    BY <1>a, <1>f, <2>2, <2>3, <2>4, <2>5
  <2>7. CountInv'
    BY <1>a, <2>1, <2>2, <2>4, <2>5, <2>6 DEF CountInv
  <2>8. PlaceInv'
    BY <2>1 DEF PlaceInv, Unconnected, Closed, None
  <2> QED
    BY <2>4, <2>7, <2>8 DEF RefsInv
<1>18. CASE TestKill
  <2>1. /\ pc["event"] = "test" /\ pc'["event"] \in {"exited", "try"}
        /\ pc'["app"] = pc["app"]
        /\ UNCHANGED <<devh, urbs, completed, used>>
    BY <1>0, <1>18, GotoPc, Apart
    DEF TestKill, At, ChangesOnlyPc, otherVars, deviceVars
  <2> QED
    BY <2>1, RefsKept DEF SameCounts, SamePlace, Uses
<1>19. CASE Environment \/ UNCHANGED vars
  <2>1. UNCHANGED <<pc, devh, completed>>
    BY <1>19
    DEF Environment, Report, FinishControl, Unplug, ProcessOpens, vars,
        otherVars, deviceVars
  <2>2. used'.inFlight = used.inFlight /\ used'.leaked = used.leaked
    BY <1>0, <1>19
    DEF Environment, Report, FinishControl, Unplug, ProcessOpens, vars,
        otherVars, UsedType
  <2>3. \A x \in {"status", "control"} :
          urbs'[x] = "idle" <=> urbs[x] = "idle"
    BY <1>0, <1>19
    DEF Environment, Report, FinishControl, Unplug, ProcessOpens, vars,
        otherVars, UrbsType
  <2> QED
    BY <2>1, <2>2, <2>3, RefsKept DEF SameCounts, SamePlace
<1> QED
  BY <1>1, <1>2, <1>3, <1>4, <1>5, <1>6, <1>7, <1>8, <1>9, <1>10, <1>11,
     <1>14, <1>15, <1>16, <1>17, <1>18, <1>19
  DEF Next, Connect, Control, Release, UsbClose

-----------------------------------------------------------------------------
(* The theorems.                                                           *)

LEMMA InitHandleInv == Init => HandleInv
<1> SUFFICES ASSUME Init PROVE HandleInv
  OBVIOUS
<1>1. /\ pc["app"] = None /\ pc["event"] = None /\ devh.state = "null"
      /\ ~watched
  BY DEF Init
<1>2. None \in Shut /\ None # "free"
  BY DEF Shut, None
<1> QED
  BY <1>1, <1>2, Apart, PlacesApart
  DEF HandleInv, LockInv, OpenInv, ShutInv, FreedInv

IInv == TypeOK /\ HandleInv /\ ReleaseInv /\ RefsInv

\* The lock and the handle, the callback, the descriptors and the references
\* are as the invariants say in every state of every connection.
THEOREM DeviceSound == Spec => []IInv
<1>1. Init => IInv
  BY InitType, InitHandleInv, InitReleaseInv, InitRefsInv DEF IInv
<1>2. IInv /\ [Next]_vars => IInv'
  BY TypeStep, HandleStep, ReleaseStep, RefsStep DEF IInv
<1> QED
  BY <1>1, <1>2, PTL DEF Spec

\* No thread completes a transfer of a handle that is closed, and uvc_close
\* frees it when the event thread has ended.
THEOREM HandleOutlives == Spec => []HandleOutlivesEvents
<1>1. IInv => HandleOutlivesEvents
  <2> SUFFICES ASSUME IInv PROVE HandleOutlivesEvents
    OBVIOUS
  <2>1. HandleInv
    BY DEF IInv
  <2>2. pc["app"] \in Uses => pc["app"] \notin Shut
    BY PlacesApart
  <2>3. pc["event"] \in Uses => pc["app"] \notin Shut
    BY <2>1 DEF HandleInv, ShutInv
  <2>4. \A t \in Threads : pc[t] \in Uses => devh.state = "open"
    BY <2>1, <2>2, <2>3, Apart DEF HandleInv, OpenInv
  <2>5. devh.state = "freed" => pc["event"] = "exited"
    BY <2>1 DEF HandleInv, FreedInv
  <2> QED
    BY <2>4, <2>5 DEF HandleOutlivesEvents, Uses
<1> QED
  BY <1>1, DeviceSound, PTL

\* Once libusb_close has the events lock nobody calls the status callback that
\* release deleted.
THEOREM DeletedStatus == Spec => []DeletedStatusUnused
<1>1. IInv => DeletedStatusUnused
  <2> SUFFICES ASSUME IInv, pc["event"] = "notify", camera.status = "deleted"
      PROVE  pc["app"] \in {"killThread", "closeModify", "closeSignal",
                            "closeLock"}
    BY DEF DeletedStatusUnused
  <2>1. usb.events_lock = "event" /\ pc["app"] \notin Holds
    BY Apart DEF IInv, HandleInv, LockInv, Holds, Uses
  <2>2. pc["app"] \notin Shut
    BY DEF IInv, HandleInv, ShutInv, Uses
  <2>3. pc["app"] \in Deleting
    BY DEF IInv, ReleaseInv, StatusInv
  <2> QED
    BY <2>1, <2>2, <2>3 DEF Deleting, Closing, Closed, Shut, Holds
<1> QED
  BY <1>1, DeviceSound, PTL

\* A release closes a descriptor of somebody else only after a connect that
\* failed.
THEOREM OwnDescriptor == Spec => []OwnDescriptorOnly
<1>1. IInv => OwnDescriptorOnly
  <2> SUFFICES ASSUME IInv PROVE badCloses <= used.failed
    BY DEF OwnDescriptorOnly
  <2>1. badCloses \in Nat /\ used.failed \in Nat
    BY DEF IInv, TypeOK
  <2> QED
    BY <2>1 DEF IInv, ReleaseInv, FileInv, Owed
<1> QED
  BY <1>1, DeviceSound, PTL

\* The release frees the uvc device, and the end of the context the libusb
\* device, but for one reference of each transfer libusb_close took off the
\* list: uvc_unref_device, libusb_unref_device and the transfers give back
\* exactly what uvc_open and the submissions took.
THEOREM ReferencesReturned == Spec => []DeviceReferences
<1>1. IInv => DeviceReferences
  <2> SUFFICES ASSUME IInv PROVE DeviceReferences
    OBVIOUS
  <2>1. pc["app"] = "released" => devh.ref = 0
    BY DEF IInv, RefsInv, PlaceInv
  <2>2. ASSUME pc["app"] = None PROVE used.leaked = used.inFlight
    <3>1. pc["app"] \in Shut \cap Emptied \cap Unconnected
      BY <2>2 DEF Shut, Emptied, Unconnected
    <3>2. devh.usbRef = 0 /\ Owned = 0
      BY <3>1 DEF IInv, RefsInv, PlaceInv, Owned
    <3>3. Flying = 0 /\ Carried = 0
      BY <3>1, PlacesApart
      DEF IInv, RefsInv, IdleInv, HandleInv, ShutInv, Flying, Carried,
          Carries, Uses, One
    <3>4. used.inFlight \in Int /\ used.leaked \in Int
      BY DEF IInv, TypeOK
    <3> QED
      BY <3>2, <3>3, <3>4 DEF IInv, RefsInv, CountInv
  <2> QED
    BY <2>1, <2>2 DEF DeviceReferences, At
<1> QED
  BY <1>1, DeviceSound, PTL
=============================================================================
