# usbCamera_recoder in TLA+

A verification project for the Android application in `src/app/src/main/`: it
opens a USB (UVC) camera, previews and records its images, and plays files and
streams. Paths below are relative to `src/app/src/main/`; `UVCPreview.cpp:364`
means `jni/UVCCamera/UVCPreview.cpp` line 364.

## The system

| Component | Code | State it keeps | Operations |
|---|---|---|---|
| libuvc devices and context | `jni/libuvc/src/device.c`, `init.c` | open devices, references, claimed interfaces, the event thread and `kill_handler_thread` | open, close, claim, release, get device by file descriptor, status callbacks |
| libuvc streaming | `jni/libuvc/src/stream.c` | transfers, the assembled and the held frame, `running`, the user thread | open, start, stop, close, transfer callback, payload processing, user thread |
| native camera | `jni/UVCCamera/UVCCamera.cpp`, JNI glue | context, device handle, file descriptor, path | connect, release, delegation to the preview and to controls |
| native preview pipeline | `jni/UVCCamera/UVCPreview.cpp` | `mIsRunning`, `mIsCapturing`, preview queue, latest frame, frame pool, windows, Java callback | startPreview, stopPreview, setPreviewDisplay, setFrameCallback, setCaptureDisplay, setPreviewSize; stream, preview and capture threads |
| Java camera, USB monitor | `java/.../usb/UVCCamera.java`, `USBMonitor.java`, `UsbControlBlock.java` | open control block, connection, `isCapture`, `isRecorder` | attach, detach, permission, connect, release, start and stop of capture and recording |
| recorder | `MPEG4Encoder.java`, audio thread of `USBMonitor.java` | codecs, muxer, track indices, timer | open, encode video and audio, reset of a segment, close |
| preview activity | `LocalUVCPreviewActivity.java` | buttons, capture listener, image of a shot | onResume, onPause, buttons, onFrame |
| player | `jni/ffmpeg/simplest_ffmpeg_sdl_player.c`, `playback/` | global flags of the decode and render threads, error code | start, pause, seek, stop, decode loop, render loop |
| hardware decoders | `mediacodec_decoder.c`, `NativeCodec.cpp`, `org/mediacodec` | codec handles | open, feed, drain, close |
| native pipeline classes | `jni/UVCCamera/pipeline` | - | not in `Android.mk`: not built |
| libusb, libjpeg-turbo, rapidjson, ffmpeg headers | vendored | - | third party |

How they interact. The activity calls `USBMonitor`, which opens a `UVCCamera`
(JNI). `UVCCamera.connect` opens libuvc on the descriptor Android gave it.
`startPreview` creates the preview thread, which starts libuvc's stream and
then the capture thread. libuvc's event thread completes transfers and
assembles a frame; its user thread hands the frame to
`uvc_preview_frame_callback`, which queues a copy; the preview thread draws it
and leaves it for the capture thread, which calls `onFrame` in Java, where the
image is encoded.

What is hard. Six kinds of threads share plain flags (`volatile bool`,
`UVCPreview.h:61,75`) and condition variables that are signalled outside their
mutexes and waited for without a predicate; each handover of a frame may fail;
stop, disconnection and failure may come between any two steps. PROJECT.json
lists the hazards with their lines.

What makes each part correct:

* preview: a frame buffer is in one place at a time; queues and pool keep their
  bounds; no frame is lost while running; `onFrame` sees images in order, once;
  `stopPreview` returns, and nothing of the session runs afterwards; the Java
  callback and the capture window are not freed in use.
* streaming: a frame is delivered once, whole and in order; stop waits for every
  transfer; nothing is used after close.
* devices: what open acquired, its failure paths and close release, once; the
  event thread runs while a device is open.
* recorder: samples go to a started muxer with increasing time stamps; a file
  that was begun is closed.
* USB monitor: what attach and resume acquire, detach and pause release.
* player: the render thread ends before the state it uses does; a new playback
  starts from a clean state.

## Plan

1. `UVCPreview`: the pipeline, with types and frame ownership proved. *Done.*
2. `UvcStream`: transfers, event thread, user thread, start, stop, close, with
   types and the quiet close proved. *Done.*
3. `ImageChannel`: an abstract lossy, in-order, at-most-once channel,
   implemented by `UvcStream` (published frame to user callback) and by
   `UVCPreview` (user callback to `onFrame`): a refinement for each. *Done*,
   both proved, the second one for one session or without an orphan thread.
4. `UvcDevice`: the native camera, libuvc's devices and libusb's event
   handling. *Done*, its safety proved.
5. `Recorder`: encoder, audio thread, segment timer, stop. *Done*, its safety
   proved.
6. `UsbMonitor`: attach, detach, permission, activity life cycle. *Done*, its
   safety proved.
7. `Player`: decode and render threads, pause, seek, errors, second playback.
   *Done*, its safety proved.

| Module | Models | Runs | Theorems in |
|---|---|---|---|
| `UVCPreview` | preview pipeline | `preview_yuyv`, `preview_mjpeg`, `preview_live` | `UVCPreview_proofs`, `PreviewFrames_proofs` |
| `UvcStream` | streaming of libuvc | `stream_iso`, `stream_bulk`, `stream_unplugged` | `UvcStream_proofs`, `StreamChannel_proofs` |
| `ImageChannel` | what both promise | as a PROPERTY of `preview_yuyv` and `stream_iso` | `StreamChannel_proofs`, `PreviewFrames_proofs` |
| `UvcDevice` | native camera, libuvc, libusb's events | `uvc_device`, `uvc_close_waits` | `UvcDevice_proofs` |
| `UsbMonitor` | USB monitor, activity | `usb_monitor` | `UsbMonitor_proofs` |
| `Recorder` | encoder, audio thread, timers | `recorder` | `Recorder_proofs` |
| `Player` | player | `player`, `player_forward` | `Player_proofs` |

`MCPreview` and `MCStream` give the first two their symmetry sets; the others
are instantiated by their .cfg alone. The boundaries between the modules are
calls: `UvcDevice` sees the preview as the thread that `release` joins,
`UsbMonitor` sees `UVCCamera` as open, previewing or closed, `Recorder` sees
the capture thread as a thread that calls `onFrame` while a capture lives, and
what `UVCPreview` delivers to `onFrame` is what `UvcStream` hands to
`uvc_preview_frame_callback`.

## ImageChannel: what a stage promises

An image goes through two stages that queue, drop and replace it: the stream of
libuvc and the preview pipeline. `ImageChannel` says what both promise:
`offered` counts the images given to the stage and `handed` are the numbers of
those that came out, increasing; any may be lost. Once the channel is `noisy`
(it was offered an image marked as faulty) the last one may come again.
`UvcStream` implements it with `seq`, the numbers of the frames `user_cb` got
and `marked`; `UVCPreview` with `images`, `delivered` and no noise. Each module
states so as `ImplementsChannel`.

## UVCPreview: the native preview pipeline

| Thread of the code | In the model |
|---|---|
| Java thread in the native methods | `"app"`, one call at a time (`UVCCamera.java` synchronizes start and stop; `setFrameCallback` is called from the same activity thread) |
| libuvc user thread in `uvc_preview_frame_callback` | `"stream"` |
| `preview_thread_func` | `"preview"` |
| `capture_thread_func` | the elements of `CaptureThreads`, one per `pthread_create` |

State. The members keep their names. `held` has one entry per local variable
that holds a frame (`copy`, `frame_mjpeg`, `frame`, `converted`, `rotated`,
the frame taken by a capture thread, its `callback_frame` and the `converted`
of `do_capture_surface`). A frame is its buffer and the number of the USB
image in it: pixels and geometry are abstracted. `heap` is what
`uvc_allocate_frame` has given and `uvc_free_frame` not taken back; `Buffers`
bounds the memory, so that `get_frame` can fail. `waitSet` is the set of
threads inside `pthread_cond_wait`.

Steps. A critical section that does not wait in its middle is one action.
What the code does outside a mutex is an action of its own: every test of
`mIsRunning` and `mIsCapturing`, the signals of `stopPreview`, of the end of
`do_preview` and of `do_capture`, the reads of `mFrameCallbackObj` in
`do_capture_callback`, the release of the window in `do_capture_surface`.
`pool_mutex` and `preview_mutex` are never held across actions;
`capture_mutex` is, by `setFrameCallback` and `setCaptureDisplay` between
their test and their wait, and is a variable.

`lateWaiters` is a history variable: the threads that began to wait after
`mIsRunning` was cleared. `delivered` are the numbers of the images given to
`onFrame`.

| Property | What it says |
|---|---|
| `FramesHaveOneOwner` | a buffer is in the pool, at one position of one queue, or in one local variable, and is allocated |
| `WithinCapacity` | at most `FRAME_POOL_SZ` pooled and `MAX_FRAME` queued frames |
| `LeakOnlyWhenStopped` | no step loses a frame while `mIsRunning` |
| `LeaksPerSession` | a session that is stopped at the wrong moment loses at most one frame of its preview thread and one of each capture thread made so far: two in the first, one more in each later one (an orphan thread, see below, lives on) |
| `ImplementsChannel` | `onFrame` gets images in the camera's order, each at most once |
| `StopQuiesces` | after `stopPreview` no thread, stream or callback of the session is active; in `onFrame` there may only be threads earlier sessions left unjoined, one each |
| `StopReturnsUnlessLate` | `stopPreview` returns unless a thread began to wait too late |
| `HeadIsTaken` | the image at the head of the queue is taken while running |

### Runs

All runs use `MCPreview`. `CHECK_DEADLOCK FALSE`: `stopPreview` really may
never return, and the counters that bound a behaviour end it.

| Run | Instance | Shows |
|---|---|---|
| `preview_yuyv` | 1 session, 4 buffers, `MAX_FRAME` 2, 3 images, converting callback | all safety properties. Three images fill the queue of two and overflow it; four buffers let every local variable on a frame's way hold one, and run out |
| `preview_mjpeg` | 3 buffers, `MAX_FRAME` 1, spurious wakeups, a capture window | `LeakOnlyWhenStopped` on the decoder's loop and its failure path, on a pool of two that overflows, and in `do_capture_surface` and `setCaptureDisplay` |
| `preview_live` | fair, 2 buffers, 2 images | the two liveness properties |

`TypeOK` and `HandsFollowPc` are proved, so no run repeats them. Symmetry
permutes buffers and capture threads, in runs without liveness.

Known and reachable in the model, without a run of their own because no
document says otherwise:

* `stopPreview` may never return: a thread passes its loop test, `stopPreview`
  clears the flag and signals without the mutex (364, 365), the thread waits
  (443, 796) without a predicate. `StopReturnsUnlessLate` says that this is the
  only way.
* `stopPreview` before line 531 has run joins no capture thread (366); it is
  created later and shares the next session with that session's own. With two
  capture threads that each have an image in hand the order of
  `ImplementsChannel` is lost, so that one is checked over one session; each
  may lose a frame when stopped, and one that no join waits for may still be in
  `onFrame` then. What holds over many sessions all the same is proved:
  `OneOwner`, `LossBounded`, `Quiesces`, and `PreviewIsChannel` under the
  condition that no two of them have an image in hand.
* `setFrameCallback` waits once on a condition variable that `addCaptureFrame`
  broadcasts too (223, 784), and deletes the callback's reference while the
  capture thread is about to use it (942-944). The application sets its
  callback once, before the preview starts.
* `do_capture_surface` and `setCaptureDisplay` may release the same window
  (910-913, 754). The application never sets a capture window.
* `do_capture` broadcasts the end of a capture without the mutex (860):
  `setFrameCallback` may begin to wait after it and then waits for the next
  image.

Bounds: `MaxImages`, `MaxSessions`, `MaxRefs` (references of one capture
window) stop the environment; `Buffers` is the heap. One to three images
suffice for every queue state because a queue holds at most two.

Fairness (`FairSpec`): every thread that can run does (weak fairness of the app
thread's started calls and of `AddPreviewFrame`). The preview and capture
threads get strong fairness: they need `capture_mutex`, which the app may take
again and again, and a mutex that is released infinitely often is eventually
acquired. No promise is made for the app's calls, the camera's images or
spurious wakeups.

### Proofs

`UVCPreview_proofs` proves `TypeCorrect`, `Spec => []TypeOK`. `TypeOK` is not
inductive: `Append(previewFrames, held[copy])` is a sequence of frames only if
the local variable holds one. `TypeInv` adds `HandsFollowPc`: a thread at a
label where it uses a frame has it. One lemma per thread, one step per action.

`PreviewFrames_proofs` proves `OneOwner`, `Spec => []FramesHaveOneOwner`.
With `TypeInv` it is inductive; the lemmas say what each kind of movement does
to it (`GetOwn`, `RecycleOwn`, `DropOwn`, `PutOwn`, `TakeOwn`, `KeepLatestOwn`,
`ClearOwn`), and one step per action picks the lemma. Both hold for every value
of the constants, any number of sessions, and with several capture threads:
the orphan thread above corrupts the order of images but not the ownership of
frames. Assumptions: `ConstantsAssumption` (thread names are distinct, `NULL`
is no frame, `Buffers` is finite).

`Capacities`, `Spec => []WithinCapacity`: with the types it is inductive. Every
step moves the pool and the preview queue in one of a few ways (`PoolMoves`,
`QueueMoves`); that `recycle_frame` keeps only as many buffers as there is room
for is a fact about cardinalities.

The rest of the safety properties takes a chain of invariants, each an
invariant of its own with the ones before it:

| Theorem | Invariant | Argument |
|---|---|---|
| `Stages` | `StageInv`: at which places the preview thread and libuvc can be at each step of the native method that runs | what is joined before what; there is no callback of libuvc once the queues are cleared |
| `HandsEmpty` | `EmptyHands`: a thread that is not using a local variable has no frame in it | an assignment to a local never forgets a frame |
| `NoLeakWhileRunning` | none besides | every step keeps what was reachable, or frees it, but for a thread of `MayLose` that sees the flag cleared with a frame in its hands (`Loses`) |
| `OnePerSession` | `SessionInv`: at most as many capture threads as sessions, one fewer while the present one's is yet to come | the bound of the next two |
| `Quiesces` | `OrphanInv`: of the threads alive all but the one in `capture_thread` are fewer than the sessions, and from the join on those in `onFrame` are | the join waits for the one in `capture_thread` only |
| `LossBounded` | `LossInv`: while stopped, what is lost plus what may still be lost is bounded; while running, what was lost before | a step that loses a frame takes its thread out of `MayLose`; nobody comes to it while stopped; a session starts when the bound has grown by `sessions + 2` |
| `PreviewIsChannel` | `OrderInv`: the images on their `Way` (delivered, in a capture thread's hand, `captureQueu`, drawn, queued, copied) are ordered, the nearer to `onFrame` the older | a movement takes an image one place on, or loses it; only `Alone` is needed to have at most one in the hands |
| `FirstSessionIsChannel` | `Alone` follows from `SessionInv` | with `MaxSessions = 1`, the instance of the run, unconditionally |

`Alone` is a condition on the behaviour, not an invariant: the orphan thread
breaks it in a second session, as the bullet above says. Only model-checked:
the two liveness properties (TLAPS has no fairness or ENABLED reasoning here).

### Not modelled

`setPreviewSize` and the pixel format: assignments made before the preview
starts. (170: a change of frame rate or bandwidth alone is ignored. 854:
`callbackPixelFormatChanged` runs in the capture thread without the mutex and
in `setFrameCallback` with it, and passes through NULL on its way.) The destructor;
`init_pool`, which nothing calls; pixel loops; and the crash of the MJPEG loop
when `get_frame` fails at 541: the model has no step there.
`mFrameCallbackFunc` is a constant, `Convert`.

## UvcStream: streaming in libuvc

| Thread of the code | In the model |
|---|---|
| caller of `uvc_start_streaming_bandwidth`, `uvc_stop_streaming` (the preview thread) | `appPc` |
| libusb's event thread in `_uvc_stream_callback` | `handlerPc`, the transfer `current`, the packets `left` in it, the `packet` whose data is due |
| `_uvc_user_caller` | `userPc` |

State. `working` and `held` are `outbuf` with `got_bytes` and `holdbuf` with
`hold_bytes`: sequences of packet numbers, so that a frame tells which packets
of which image it is made of. `frame` is `strmh->frame` with the number it was
published with. A slot of `transfers` is `"null"`, `"allocated"`, `"flying"`
(submitted), `"cancelling"`, `"callback"` (handed to the event thread) or
`"lost"` (a resubmission failed: the slot is taken and no callback will come).

Steps. The critical sections under `cb_mutex` are one action each. The reads
and writes of `running` outside it, the decision to resubmit and the
resubmission, the header and the data of a packet, and the second read of
`hold_bfh_err` in the user thread are actions of their own. `Bulk` selects
`_uvc_process_payload` or `_uvc_process_payload_iso`. PTS, SCR and the iSight
case (which the source says never occurs on Android) are left out, and so is
`uvc_stream_get_frame`, which the application does not call. An assertion that
fails in the isochronous path ends the program: the model has no step there.
After the handle is freed nothing that uses it has a step, and no new stream is
opened unless nothing of the old one is left.

External: libusb completes transfers of one endpoint in their order, so the
camera's packets come in order; a transfer may succeed, time out, fail, be
cancelled or find no device; `DeviceFaults` says which calls may fail.

| Property | What it says |
|---|---|
| `StreamsEnd` | the handle is freed only when every slot is `NULL` and the user thread has ended: refuted by `stream_unplugged` |
| `CloseIsQuiet` | the same, unless the camera was unplugged or a first submission failed (`cut`) |
| `ImplementsChannel` | `user_cb` gets the published frames in their order, each at most once until one is published as faulty (`marked`), and never an older one again |
| `DeliveredWhole` | with at most one fault, and that one flagged, every frame `user_cb` gets is one whole image, even if streaming begins inside an image: the first published frame has number 0 and the user thread starts with `last_seq = 0`, so that one is never delivered |
| `DeliveredOneImage` | no delivered frame mixes two images, however many packets are flagged, unless more packets than an image has are lost unnoticed |
| `WithinBuffers` | the bulk boundary test suffices |
| `StopReturns`, `PublishedIsTaken` | liveness of stop, and of the handover |

`faults` counts packets that were faulty and flagged the frame, packets that
were lost without a flag (empty, or with the ERR bit, which the code skips
without a flag), and transfers that failed or timed out; `cut` remembers an
unplugged camera or a first submission that failed, `marked` a frame that was
published with `hold_bfh_err`. They are history: the properties say with them
what each promise depends on, so one run has all the faults at once.

| Run | Instance | Shows |
|---|---|---|
| `stream_iso` | images of 2 packets, 2 transfers of 2 packets, 7 packets, 2 sessions, every packet and device fault, 3 faults in all | all safety properties but the bounds |
| `stream_bulk` | fair, buffer of 2 packets and a half, 6 packets, 3 short ones | the boundary test; stop returns, frames are taken |
| `stream_unplugged` | `NO_DEVICE` | **violation**: `running` is cleared in the event thread (984), close skips stop (1867) and frees the handle in use. A failing first submission (1606) takes the same way |

`TypeOK` is proved. Two more behaviours the conditions of the properties leave
room for: a resubmission whose result nobody looks at (1003) leaves its slot
taken and nothing in flight, and `uvc_stop_streaming` waits for it for ever
(1830), so `StopReturns` is checked without device faults; and when a faulty
frame is not copied (1651) but a good one is published before the second,
unlocked read of `hold_bfh_err` (1655), the frame of an earlier call is
delivered again, which is why the channel may be `noisy`. A failed
`uvc_stream_open_ctrl` frees the handle but keeps the claimed interface (1341).

The conditions are needed. With two flagged packets `DeliveredWhole` fails:
when both sides of an image border are bad, the swap of the first image clears
the flag and the rest of the second is published as complete (824, 940). With
more losses than `Parts` a whole image and both its borders can vanish unseen,
and two images are mixed.

Seven packets are three images and a rest: enough for the last delivered, the
held and the working frame, and for a border of images between any two faults.
Two transfers are one in its callback while another flies. Three faults are
more than any condition in the properties allows. `CHECK_DEADLOCK FALSE`: a
stream that is closed, or whose transfers are all gone, does nothing more.

Fairness: begun calls go on, a submitted transfer completes (transfers have a
timeout of 5 s, and cancelled ones are called back), the event and the user
thread run. The application need not stop the stream, nor the camera send.

Proofs, in `UvcStream_proofs`. `StreamTypeCorrect`, `Spec => []TypeOK`: the
inductive invariant adds that a packet whose data is due has been sent; flags
and data are proved apart because the solver does not mix them well.
`QuietClose`, `Spec => []CloseIsQuiet`: `cut` stays set once it is, and as long
as it is not, `QuietInv` is inductive. It ties `running` to the labels of the
application, keeps a transfer in its callback in its slot, and has every slot
`NULL` from the end of the wait in `uvc_stream_stop` on; `stream_unplugged`
shows what happens once `cut` is set. Failing resubmissions, broken packets
and the race on `running` are included. Assumed: `ConstantsAssumption`.

`BuffersHold`, `Spec => []WithinBuffers`: a step appends one packet that fits,
moves the bytes on, or leaves them. The isochronous case rests on the code's
assertion, the bulk case on its test.

`StreamChannel_proofs` proves `StreamIsChannel`, `Spec => ImplementsChannel`.
`ChannelInv` orders the numbers of a frame's way (delivered, `frame`,
`last_seq`, `hold_seq`, `seq`), says that a frame about to be handed over is new
unless one was marked, and that a stream not yet started is as `calloc` left
it. A step of the event thread is `Offer` or a stutter, one of the user thread
`HandOver` or a stutter, and `uvc_stream_open_ctrl` is `Reopen`.

The same module proves what the frames are made of: `FramesOfOneImage`,
`Spec => []DeliveredOneImage`, and `FramesAreWhole`, `Spec => []DeliveredWhole`,
for images and transfers of any size. Packet `n` is at place `(n - 1) % Parts` of
image `(n - 1) \div Parts`, and all the code sees of it are the parity of its
image (FID) and its EOF bit. `DataInv` says what the buffers hold:

* `PartInv`: an unfinished frame has the FID the stream remembers and no EOF,
  and unless it is flagged the packets gone through since its last one were
  all lost. A packet with the same FID is then of the same image or of the
  next but one, which takes a whole image and a packet to be lost in between:
  more than `Parts`, the condition of `DeliveredOneImage`.
* `OneImageInv`: not flagged means made of one image, in `working`, `held` and
  `frame`, and in all that was delivered.
* `WholeInv`: with one flagged fault at most, from the second frame on, a frame
  not flagged begins at the beginning of an image and has no gap; one published
  by EOF is the whole image; one published by a change of FID lost its EOF to
  the fault, which flagged it. The first frame may be a rest of an image, and is
  never delivered: its number is 0.

`frame` is copied from `held` under the mutex and with its flag (1651); the
second read of the flag (1655) may deliver an older frame again, never a mixed
one.

## UvcDevice: native camera, libuvc, libusb's events

Two threads share a libusb context. `"event"` is `_uvc_handle_events`
(`init.c:95`), which lives from the first `uvc_open` to the `pthread_join` of
the last `uvc_close`. `"app"` makes the camera, connects it, makes control
transfers and releases it: the UI thread, or the preview thread, which
`UVCCamera::release` joins before it does anything else. Both may handle
events: the one that gets the events lock polls, reaps and completes; the other
waits for it under the waiters' lock (`io.c`). So a control transfer may be
completed by the event thread, and a status report delivered on the app's.

State. `usb` has the locks of the context, who waits for a completion, and the
control pipe's bytes; `urbs` the two transfers, status and control, each
idle, flying or done; `devh` the handle with its state and the device's
references; `camera` the `UVCCamera` with its descriptor and its status
callback. A place of a thread (`pc`) is one lock operation, one test or one
system call of libusb. External: the kernel's urbs, the camera, the cable,
`open` and `dup` (a descriptor is the lowest free one).

| Property | What it says |
|---|---|
| `HandleOutlivesEvents` | nobody completes, notifies or resubmits for a device whose handle is closed, and `uvc_close` frees it after the event thread has ended |
| `DeletedStatusUnused` | the callback object `release` deletes first (`UVCCamera.cpp:198`) is called at most until `libusb_close` has the events lock |
| `OwnDescriptorOnly` | `release` closes a descriptor that is not the camera's only after a connect that failed (mUsbFs set, mFd 0: 170), once for each |
| `DeviceReferences` | the `uvc_device` is freed by the release, the `libusb_device` with its context, but for one reference of each transfer in flight when the handle was closed (`core.c:1360`) |
| `ControlReturns`, `ReportsReaped` | no wakeup is lost between the two threads, without any timeout |
| `ReleaseReturns` | release returns, if polls time out |
| `ClosedHandlerReturns` | `device.c:1571`: the event thread does not poll once `libusb_close` is over. Refuted by `uvc_close_waits`: it tests `kill_handler_thread` before it begins to poll, and the UI thread joins it for up to 60 s |

`uvc_device`: two cameras, two reports, two control transfers, one descriptor
opened by the rest of the process, descriptors 0 to 3. The second camera gets
descriptors a wrong close has freed; two reports are one in flight when the
other is handled; two control transfers are one completed by each thread.
`MaxCameras`, `MaxReports`, `MaxControls`, `MaxOpens` stop the environment.
`CHECK_DEADLOCK FALSE`: after the last camera nothing happens.

Fairness: each thread's steps strongly (a mutex that is free again and again is
got in the end), a control transfer finishes (it has a timeout), timeouts of
poll and of waits need not come; `ReleaseReturns` assumes them itself.

Proofs (`UvcDevice_proofs`): `DeviceTypeCorrect`, `HandleOutlives`,
`DeletedStatus`, `OwnDescriptor`, for any number of cameras, reports and
transfers. The inductive invariant is `LockInv`: a thread is at a place with
the events lock if and only if it holds it; outside `Shut` (from the end of
`do_close` on) the handle is open, inside nobody is at a place that uses it and
its descriptor is not watched; once it is freed the event thread has exited.
`HandleMoves` says what event handling may change, so that the app's steps and
the event thread's are proved apart. `OwnDescriptor` counts: a release owes at
most one wrong close, and only after a connect that failed.
`ReferencesReturned`, `Spec => []DeviceReferences`: `RefsInv` says at every
place whose the references of the `libusb_device` are: the application's own,
one of each transfer in flight, one of each being completed, and those
`libusb_close` took off the list. The liveness properties are only model-checked.

Not modelled: descriptors and device lists, claiming of interfaces,
libusb's hotplug pipe and timerfd, `open_devs_lock`, error codes of waits and a
failing control pipe; the streaming transfers, which `UvcStream` has. The
button callback is like the status callback and modelled as that one.
`kill_handler_thread` is never reset (`device.c:1575`), so a device opened
later in the same context would have no event thread; the application makes a
new context for each camera.

## UsbMonitor: the camera's life on the UI thread

`USBMonitor.java`, `UsbControlBlock.java`, `UVCCamera.java` and the life cycle
and buttons of `LocalUVCPreviewActivity.java` all run on the UI thread: a
handler is one action, and the calls it makes are operators on the record
`monitor`, composed in the order of the code. A call that may fail is the set
of its results. `onCreate` is two steps, because a camera plugged in between
`register()` and `getDeviceList()` is seen twice. `monitor.past` is history:
what happened that weakens a promise.

| Property | What it says |
|---|---|
| `CaptureIsPreview` | a running native preview is always known (`isCapture`); the flag without one means that the start failed or that a second connection closed the camera; it is never set without a connected camera |
| `ConnectedIsOpen` | `usbCameraConnect` says whether the camera is open, except after a second connection that failed (560) |
| `PausedIsIdle` | nothing is previewed in the background, unless the runnable of `onResume`, which is never cancelled (508), ran late |
| `RecordingEndsWithCamera` | a recording ends with its camera, unless the activity was paused during it (420) |
| `OneLeakPerBlock` | of the connections opened exactly each control block's own stays open (`UsbControlBlock.java:33`) |
| `UnpluggedIsReleased` | a camera that was pulled out is released, in whatever order the broadcasts come |

`usb_monitor`: two plugs, another device, two queued broadcasts (three pass
too, with 938 thousand states), two control blocks, one waiting runnable, two
resumes: a stale broadcast of the first plug may meet the second, and a
runnable of the first resume the second pause. `FairSpec` only promises that a
broadcast is delivered; the user and Android's life cycle are free.
`CHECK_DEADLOCK FALSE`: a destroyed or crashed activity ends the behaviour.

Proofs (`UsbMonitor_proofs`): `TypeCorrect` and the five safety properties
(`CaptureFlag`, `ConnectFlag`, `Background`, `RecordingEnds`, `Connections`).
`Sound` relates the flags to each other, `Recorded` the recording to the
capture, `Seen` the queued broadcasts to the plugs; none is inductive alone.
There is a lemma for each call, and an action composes the lemmas of the
calls it makes. `UnpluggedIsReleased` is only model-checked.

Seen on the way: pausing while recording and then unplugging leaves the
activity showing a recording; `setPreviewSize` throws uncaught, always after a
reconnect that failed; the detach of any USB device releases the camera.
Not modelled: `btnCapture` without a monitor (permission denied, a
NullPointerException); formats that do not parse; the control calls.
External: broadcasts, dialogs, the cable.

## Recorder: encoder, audio thread, segment timers

| Thread of the code | In the model |
|---|---|
| UI thread in `startRecoder`, `stopRecoder`, `startCapture`, `stopCapture`, `MPEG4Encoder.close` | `ui` |
| native capture thread in `onFrame`, `encodeVideo` | `pc["video"]` |
| `AudioRecordThread` in `encodeAudio` | `pc["audio"]` |
| one `java.util.Timer` per file, in `reset` | `timer[f]` |

`encodeVideo`, `encodeAudio` and `getThumbnailImage` hold the encoder's
monitor; `close` and `reset` do not. So each call of theirs on a codec or a
muxer is a step, and the read of the muxer and of the track index for one
sample are two. `using` and `receiver` are the locals of the encoding threads:
the encoder whose method runs, the muxer a call was made on. `disturbed`
remembers an encoder for which two of close, reset and an encode call
overlapped; `saved` and `mixed` are history too. External: `MediaCodec` (a
format once, then samples; `dequeueInputBuffer(-1)` does return),
`MediaMuxer` (takes tracks while new, samples while started, throws
otherwise), `Timer`, and JNI's `ExceptionClear` after `onFrame`
(`UVCPreview.cpp:943`): an exception is fatal in the audio thread only.

| Property | What it says |
|---|---|
| `StopFinishes` | once the button shows that nothing is recorded the codecs are released, the audio thread has ended, and unless close, reset and an encode call overlapped every file is finished and no timer is left |
| `AutoSavedIsFinished` | `onAutoSave` is told of a file once, when it can be played |
| `MixedOnlyWhenReplaced` | a sample goes to its own kind's track, except into a file that reset has replaced |
| `AudioDiesOnlyIfDisturbed` | the audio thread throws only if the encoder was forgotten under its hands or such an overlap happened |
| `StopRecoderReturns` | stopping returns if the audio thread had begun |

`recorder`: two recordings over three files, so that a file of the first may
be rolled over and the second begins with timers of the first alive (817
thousand states). Fairness: the two threads and the UI thread's calls go on,
the monitor is strongly fair to `getThumbnailImage`; timers need not fire and
the user need not press. `CHECK_DEADLOCK FALSE`: the process may end, and the
files run out.

Proofs (`Recorder_proofs`, for every `MaxRecordings` and `MaxFiles`):
`RecorderTypeCorrect`, `AutoSavedFinished`, `MixedReplaced`, `StopIsComplete`,
`AudioSurvives` and `CallsApart`. None is inductive; `Inv` adds what the first
three need, each part an invariant of its own:

| Part | What it says | Why it is needed |
|---|---|---|
| `PlaceInv` | where a thread or timer uses an encoder or a file, there is one | every step reads through these indices |
| `UiInv` | only the encoder of `mp4Encoder` runs, and what `stopRecoder` has released so far | an encoder is opened only when none runs |
| `MonitorInv` | the monitor is held by who is inside | the two encoding threads exclude each other |
| `OrderInv` | files and encoders are taken in order, the muxer is the encoder's own | a file that was replaced has a later one |
| `KnownInv` | a kind adds its track once, before the first file starts | at most two tracks; a timer exists only after both |
| `TimerInv` | one timer of an encoder at most is to come or at work up to the start of the next file | two resets never name the same file to `onAutoSave` |
| `TrackInv`, `ReceiverInv` | the index kept is the track of its kind in the present muxer; the muxer read is the present one or replaced | an index read late meets the muxer read early |
| `MixedInv` | a file that was mixed has a later one of the same encoder | what `MixedOnlyWhenReplaced` says, kept by every step |

`StopIsComplete` and `AudioSurvives` speak of an encoder in which no two of
`close`, `reset`, `encodeVideo` and `encodeAudio` overlapped. What holds of one
is `CalmInv` (`CallsApart`), proved together with two facts about every
encoder: `StartedInv`, a file is started only when both formats are known, and
`OldInv`, the muxer a reset is about to stop is its own encoder's.

| Part of `CalmInv` | What it says | Why it is needed |
|---|---|---|
| `BusyInv` | while a thread is inside the monitor the encoder is open and no reset works | its steps find the fields as it left them |
| `OpenInv` | while open, one muxer takes tracks or samples, and the only other unfinished file is the one a reset is about to stop; `mediaMuxerStarted` agrees with the muxer between two steps | close then stops the last file |
| `RollInv` | one reset works at a time, on the muxer it made | its `addTrack` and `start` are never refused |
| `WriterInv` | the muxer read for a timer or a sample is the present one, started | `writeSampleData` finds its track |
| `ClosedInv` | once close has begun no timer is left and only the muxer close will stop is started | what `StopFinishes` says, when close has ended |

`AudioSurvives` follows: inside the monitor of such an encoder no call throws
(`CalmNeverThrows`), so the thread dies only by reading `mp4Encoder` as null.
The lemmas named `...Fx` say what an action does to one record, those named
`...Next` and `...Calm` that a step keeps a part; a step that belongs to
another encoder leaves this one `Untouched`. TLC had checked `CalmInv` and
`StartedInv` with one recording over five files and two over four (5.5 million
states) before they were proved. The liveness property is only model-checked.

Seen on the way: Back while recording clears `isCapture` in `onPause`, so
`stopRecoder` does nothing and the file is never finished; an audio thread that
begins after `isAudioRecord` was cleared sets it again and is joined for ever;
a reset that overlaps close may leave a timer and an open file. That
`startRecoder` closes an earlier encoder cannot happen from the activity, and
has no step.

## Player

| Thread of the code | In the model |
|---|---|
| `nativeInitSDLThread` in `GLRenderer.updateThread` | `dec` |
| `thread_render_opengles`, one per session | `render[s]` |
| UI thread: `OpenGLActivity`, `stopRender` | `ui` |

The global variables of the C file are `flag`; nobody locks them. A press is
two steps (the request; then the amount, the locating flag and the pause). A
file is `Frames` packets with their dts; a stream has no end and may break. A
packet gives one image; images are told apart by being decoded in this session
and shown before. `Window` are the places of the decoding thread between a test
of a flag and the write it decided; `raced` remembers a press in one.

| Property | What it says |
|---|---|
| `RenderEndsWithSession` | a render thread outlives the function whose local variable it reads only if a broken stream was not opened again (1041) |
| `FreshImages` | no image is shown twice; only the first of a later session may be one nothing was decoded into (137: `thread_render` is not reset) |
| `PauseAgrees` | `thread_pause` agrees with what the activity shows, unless a button was pressed in a window |
| `StopReturns` | stopping returns, but for a press erased by `initGlobalState` (140) and a signal stolen by a render thread left over (1046) |
| `PausesAgain` | a seek while paused comes back to pause |
| `ForwardEnds` | the comment at 1003: a forward ends. Refuted by `player_forward`: pressed while a packet is decoded it is repeated with every packet |

`player`: two videos of three packets, key frames 0 and 2, two presses in the
first session and Back in both, one decoding error, 855 thousand states: a
seek forward may land between key frames, and backward on the packet before;
what one session leaves behind meets the next. `player_forward` needs one
press. The activity of a session is gone before the next starts.
`CHECK_DEADLOCK FALSE`: everything stops after the last video. Fairness: the
decoding thread (whether a stream opens again is free), each render thread and
the UI thread's calls; no button need be pressed.

Proofs (`Player_proofs`), for any number of sessions, presses, errors and any
file: `PlayerTypeCorrect`, `RenderEnds`, `ImagesFresh`, `PauseCorrect`.
`TypeInv` includes that every seek's target is in the file (`Max` over key
frames exists by a well-founded order). `SessionInv` relates the decoding thread
to the activity and says which error codes leave a render thread; `ImageInv`
that `thread_render` set while nothing stops means a fresh buffer, or an
untouched one of a later session; `PauseInv` what `thread_pause` is in each
window. Liveness is only model-checked.

Seen on the way: a decoding error on a seek's target packet seeks again without
end (the model has finitely many errors); `forwardOffset` is never reset (870);
reopening a stream is not interrupted by Back until it gives up (818); a
missing picture format races with the first image (1000); the listener may be
null when the thread ends (`OpenGLActivity.java:1034`, `GLRenderer.java:223`).
Not modelled: `nativeInitSDLThreadYUV`, the hardware decoder within a packet,
drawing, layout, the list of files.

## Coverage

Most lines of the repository are vendored: headers of ffmpeg, libjpeg-turbo,
libusb for other systems, rapidjson. The application's own concurrent code,
libuvc's streaming and device life, and the part of libusb the application's
threads run through are modelled; what is left out is named above and in
PROJECT.json. Not modelled at all: `jni/UVCCamera/pipeline` (not built), the
hardware decoders (one thread, calls into Android), pixel conversion.
