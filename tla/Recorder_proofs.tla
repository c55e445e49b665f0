--------------------------- MODULE Recorder_proofs ---------------------------
(***************************************************************************)
(* The recorder's types and its safety invariants, for any number of       *)
(* recordings and of files: onAutoSave gets each file once and only when   *)
(* it is finished; a sample reaches the other kind's track only in a file  *)
(* that reset has replaced; stopRecoder leaves nothing that records; and   *)
(* the audio thread dies only in an encoder whose calls overlapped or is   *)
(* forgotten.  The facts that need each other are the parts of Inv: which  *)
(* encoder the UI thread knows, who holds the monitor of an encoder, which *)
(* formats and tracks are known, that at most one timer of an encoder is   *)
(* to come or at work, and which muxer and index a thread has read.        *)
(* CalmInv, at the end, is what holds besides of an encoder in which no    *)
(* two of close, reset, encodeVideo and encodeAudio overlapped.  The       *)
(* lemmas named ...Fx say what an action does to one record; those named   *)
(* ...Next and ...Calm, that a step keeps a part of the invariant.         *)
(***************************************************************************)
EXTENDS Recorder, FiniteSetTheorems, TLAPS

-----------------------------------------------------------------------------
(* Types.                                                                  *)

Encoder ==
  [open : BOOLEAN, started : BOOLEAN, track : [Kinds -> -1..1],
   known : SUBSET Kinds, muxer : Files \cup {0}, timer : Files \cup {0},
   codecs : {"none", "running", "released"}, monitor : Kinds \cup {"free"},
   listener : BOOLEAN, disturbed : BOOLEAN]
File ==
  [state : {"none", "new", "started", "stopped"}, enc : Encoders \cup {0},
   tracks : Seq(Kinds)]
ResetTimer ==
  [pc : TimerLabels, periodic : BOOLEAN, cancelled : BOOLEAN,
   old : Files \cup {0}, next : Files \cup {0}]

UiType ==
  /\ ui \in UiLabels
  /\ {isCapture, capturing, isRecording, isAudioRecord, audioRecord}
       \subseteq BOOLEAN
  /\ mp4Encoder \in Encoders \cup {0}
EncType == enc \in [Encoders -> Encoder]
FileType == file \in [Files -> File]
TimerType == timer \in [Files -> ResetTimer]
ThreadType ==
  /\ pc \in [Kinds -> PcLabels] /\ using \in [Kinds -> Encoders \cup {0}]
  /\ receiver \in [Kinds -> Files \cup {0}]
HistoryType == saved \in Seq(Files) /\ mixed \subseteq Files

Types == /\ UiType /\ EncType /\ FileType /\ TimerType /\ ThreadType
         /\ HistoryType

\* The places of the threads and the timers where an encoder or a file is used.
Stopping == {"thumbnail", "close", "stopCodecs", "stopMuxer", "forget"}
Inside == {"codec", "addTrack", "start", "schedule", "test", "receive", "write"}

UiPlace ==
  /\ ui = "newEncoder" => enc[MaxRecordings].codecs = "none"
  /\ isRecording /\ ui # "newEncoder" => mp4Encoder \in Encoders
  /\ ui \in Stopping => mp4Encoder \in Encoders /\ ~isRecording
ThreadPlace ==
  \A k \in Kinds :
    /\ pc[k] \in Inside \cup {"enter"} => using[k] \in Encoders
    /\ pc[k] = "schedule" => receiver[k] \in Files
                             /\ file[receiver[k]].state \in {"started", "stopped"}
FilePlace ==
  \A f \in Files :
    /\ file[f].state # "none" <=> file[f].enc \in Encoders
    /\ file[f].state = "none" => file[f].tracks = <<>>
TimerPlace ==
  \A f \in Files :
    /\ timer[f].pc # "none" => file[f].state \in {"started", "stopped"}
    /\ timer[f].pc = "schedule" =>
         /\ timer[f].next \in Files \ {f}
         /\ file[timer[f].next].state \in {"started", "stopped"}
PlaceInv == UiPlace /\ ThreadPlace /\ FilePlace /\ TimerPlace

\* A second index is added to at most one track.
ShortTracks ==
  \A k \in Kinds : pc[k] = "addTrack" /\ enc[using[k]].muxer \in Files =>
    Len(file[enc[using[k]].muxer].tracks) \in 0..1

LEMMA TypeIsTypes == TypeOK <=> Types
BY DEF TypeOK, Types, UiType, EncType, FileType, TimerType, ThreadType,
       HistoryType, Encoder, File, ResetTimer

LEMMA TypesNext ==
  TypeOK' <=> /\ UiType' /\ EncType' /\ FileType' /\ TimerType'
              /\ ThreadType' /\ HistoryType'
BY DEF TypeOK, UiType, EncType, FileType, TimerType, ThreadType,
       HistoryType, Encoder, File, ResetTimer

LEMMA Numbers ==
  /\ MaxRecordings \in Nat \ {0} /\ MaxFiles \in Nat \ {0}
  /\ Encoders \subseteq Nat \ {0} /\ Files \subseteq Nat \ {0}
  /\ 0 \notin Encoders /\ 0 \notin Files
BY ConstantsAssumption DEF Encoders, Files

\* A record of a function of records is replaced by one of the same type.
LEMMA EncReplaced ==
  ASSUME EncType, NEW e \in Encoders, NEW x \in Encoder,
         enc' = [enc EXCEPT ![e] = x]
  PROVE  EncType'
BY DEF EncType

LEMMA FileReplaced ==
  ASSUME FileType, NEW f \in Files, NEW x \in File,
         file' = [file EXCEPT ![f] = x]
  PROVE  FileType'
BY DEF FileType

LEMMA TimerReplaced ==
  ASSUME TimerType, NEW f \in Files, NEW x \in ResetTimer,
         timer' = [timer EXCEPT ![f] = x]
  PROVE  TimerType'
BY DEF TimerType

LEMMA CancelType ==
  ASSUME TimerType, NEW e PROVE CancelTimer(e) \in [Files -> ResetTimer]
BY ZenonT(60) DEF TimerType, CancelTimer, Cancelled, NoTimer, ResetTimer, TimerLabels

LEMMA StopType ==
  ASSUME FileType, NEW f \in Files, Stop(f) PROVE FileType'
<1> DEFINE x == [file[f] EXCEPT !.state = "stopped", !.tracks = <<>>]
<1>0. file[f] \in File /\ <<>> \in Seq(Kinds)
  BY DEF FileType
<1>1. x \in File
  BY <1>0 DEF File
<1>2. file' = [file EXCEPT ![f] = x]
  BY DEF Stop, FileType
<1> HIDE DEF x
<1> QED
  BY <1>1, <1>2, FileReplaced

LEMMA StartType ==
  ASSUME FileType, NEW f \in Files,
         file' = [file EXCEPT ![f].state = "started"]
  PROVE  FileType'
<1> DEFINE x == [file[f] EXCEPT !.state = "started"]
<1>1. x \in File
  BY DEF FileType, File
<1>2. file' = [file EXCEPT ![f] = x]
  OBVIOUS
<1> HIDE DEF x
<1> QED
  BY <1>1, <1>2, FileReplaced

LEMMA TimerGotoType ==
  ASSUME TimerType, NEW f \in Files, NEW l \in TimerLabels, TimerGoto(f, l)
  PROVE  TimerType'
<1> DEFINE x == [timer[f] EXCEPT !.pc = l]
<1>1. x \in ResetTimer
  BY DEF TimerType, ResetTimer
<1>2. timer' = [timer EXCEPT ![f] = x]
  BY DEF TimerGoto
<1> HIDE DEF x
<1> QED
  BY <1>1, <1>2, TimerReplaced

LEMMA EndResetType ==
  ASSUME TimerType, NEW f \in Files, EndReset(f) PROVE TimerType'
<1>1. [NoTimer EXCEPT
         !.pc = IF timer[f].periodic /\ ~timer[f].cancelled
                THEN "set" ELSE "over",
         !.periodic = timer[f].periodic /\ ~timer[f].cancelled] \in ResetTimer
  BY DEF NoTimer, ResetTimer, TimerLabels, TimerType
<1> QED
  BY <1>1 DEF EndReset, TimerType

LEMMA TypesInit == Init => TypeOK
<1> SUFFICES ASSUME Init PROVE TypeOK
  OBVIOUS
<1>1. NewEncoder \in Encoder /\ NoTimer \in ResetTimer
  <2>1. NoTracks \in [Kinds -> -1..1]
    BY DEF NoTracks
  <2> QED
    BY <2>1 DEF NewEncoder, Encoder, NoTimer, ResetTimer, TimerLabels
<1>2. [state |-> "none", enc |-> 0, tracks |-> <<>>] \in File
  BY DEF File
<1>3. EncType /\ FileType /\ TimerType
  BY <1>1, <1>2 DEF Init, EncType, FileType, TimerType
<1>4. UiType /\ ThreadType /\ HistoryType
  <2>1. UiType
    BY DEF Init, UiType, UiLabels
  <2>2. ThreadType
    BY DEF Init, ThreadType, PcLabels
  <2> QED
    BY <2>1, <2>2 DEF Init, HistoryType
<1> QED
  BY <1>3, <1>4, TypeIsTypes DEF Types

\* The UI thread's steps.
LEMMA NextEncoder ==
  ASSUME EncType, PlaceInv, ui = "newEncoder"
  PROVE  Cardinality({d \in Encoders : enc[d].codecs # "none"}) + 1 \in Encoders
<1> DEFINE S == {d \in Encoders : enc[d].codecs # "none"}
<1>0. MaxRecordings \notin S
  BY DEF PlaceInv, UiPlace, ThreadPlace, FilePlace, TimerPlace
<1>1. S \subseteq 1..(MaxRecordings - 1)
  BY <1>0, Numbers DEF Encoders
<1> HIDE DEF S
<1>2. IsFiniteSet(1..(MaxRecordings - 1))
      /\ Cardinality(1..(MaxRecordings - 1)) = MaxRecordings - 1
  BY Numbers, FS_Interval
<1>3. Cardinality(S) \in Nat /\ Cardinality(S) <= MaxRecordings - 1
  BY ZenonT(60), <1>1, <1>2, FS_Subset, FS_CardinalityType
<1>4. Cardinality(S) + 1 \in Encoders
  BY <1>3, Numbers DEF Encoders
<1> QED
  BY <1>4 DEF S

LEMMA UiTypes ==
  ASSUME Types, PlaceInv, Ui PROVE TypeOK'
<1>0. UiType /\ EncType /\ FileType /\ TimerType /\ ThreadType /\ HistoryType
  BY DEF Types
<1>a. ui \in Stopping => /\ mp4Encoder \in Encoders
                         /\ enc[mp4Encoder].muxer \in Files \cup {0}
  BY <1>0 DEF PlaceInv, UiPlace, ThreadPlace, FilePlace, TimerPlace, EncType, Encoder
<1>b. UNCHANGED threadVars => ThreadType'
  BY <1>0 DEF threadVars, ThreadType
<1>c. UNCHANGED history => HistoryType'
  BY <1>0 DEF history, HistoryType
<1>d. /\ UNCHANGED file => FileType'
      /\ UNCHANGED timer => TimerType'
  BY <1>0 DEF FileType, TimerType
<1>e. ASSUME ui' \in UiLabels, UNCHANGED <<captureVars, recordVars>>
      PROVE  UiType'
  BY <1>0, <1>e DEF UiType, captureVars, recordVars
<1>1. CASE StartCapture \/ StopCapture \/ JoinCapture \/ StopRecoder
           \/ ForgetEncoder \/ StopAudio \/ JoinAudio \/ Destroy
  <2>1. UNCHANGED <<mediaVars, threadVars, history>>
    BY <1>1 DEF StartCapture, StopCapture, JoinCapture, StopRecoder,
                ForgetEncoder, StopAudio, JoinAudio, Destroy
  <2>2. UiType'
    BY <1>0, <1>1
    DEF StartCapture, StopCapture, JoinCapture, StopRecoder, ForgetEncoder,
        StopAudio, JoinAudio, Destroy, UiType, UiLabels, captureVars, recordVars
  <2> QED
    BY <1>0, <1>b, <1>c, <1>d, <2>1, <2>2, TypesNext DEF EncType, mediaVars
<1>2. CASE StartRecoder
  <2>1. UiType' /\ ThreadType'
    BY <1>0, <1>2
    DEF StartRecoder, UiType, ThreadType, captureVars, UiLabels, PcLabels
  <2> QED
    BY <1>0, <1>2, <1>c, <1>d, <2>1, TypesNext
    DEF StartRecoder, EncType, mediaVars
<1>3. ASSUME NEW f \in Files, OpenEncoder(f) PROVE TypeOK'
  <2> DEFINE e == Cardinality({d \in Encoders : enc[d].codecs # "none"}) + 1
             x == [enc[e] EXCEPT !.open = TRUE, !.codecs = "running",
                                 !.muxer = f, !.listener = TRUE]
             y == [file[f] EXCEPT !.state = "new", !.enc = e]
  <2>1. e \in Encoders
    BY Zenon, <1>0, <1>3, NextEncoder DEF OpenEncoder
  <2>2. mp4Encoder' = e
        /\ file' = [file EXCEPT ![f].state = "new", ![f].enc = e]
        /\ enc' = [enc EXCEPT ![e].open = TRUE, ![e].codecs = "running",
                              ![e].muxer = f, ![e].listener = TRUE]
        /\ ui' = "idle"
        /\ UNCHANGED <<captureVars, isRecording, isAudioRecord, audioRecord,
                       timer, threadVars, history>>
    BY Zenon, <1>3 DEF OpenEncoder
  <2> HIDE DEF e
  <2>3. UiType'
    BY <1>0, <2>1, <2>2 DEF UiType, UiLabels, captureVars
  <2>4. x \in Encoder /\ y \in File
    <3>1. enc[e] \in Encoder /\ file[f] \in File
      BY <1>0, <2>1 DEF EncType, FileType
    <3>2. x \in Encoder
      BY <3>1 DEF Encoder
    <3>3. y \in File
      BY <2>1, <3>1 DEF File
    <3> QED
      BY <3>2, <3>3
  <2>5. enc' = [enc EXCEPT ![e] = x] /\ file' = [file EXCEPT ![f] = y]
    BY <1>0, <2>1, <2>2 DEF EncType, FileType
  <2> HIDE DEF x, y
  <2>6. EncType' /\ FileType'
    BY <1>0, <2>1, <2>4, <2>5, EncReplaced, FileReplaced
  <2> QED
    BY <1>b, <1>c, <1>d, <2>2, <2>3, <2>6, TypesNext
<1>4. CASE GetThumbnail
  <2> DEFINE x == [enc[mp4Encoder] EXCEPT !.listener = FALSE]
  <2>0. mp4Encoder \in Encoders
    BY <1>4, <1>a DEF GetThumbnail, Stopping
  <2>1. x \in Encoder
    BY ZenonT(60), <1>0, <2>0 DEF EncType, Encoder
  <2>2. enc' = [enc EXCEPT ![mp4Encoder] = x]
    BY <1>4 DEF GetThumbnail
  <2> HIDE DEF x
  <2> QED
    BY <1>0, <1>4, <1>b, <1>c, <1>d, <1>e, <2>0, <2>1, <2>2, EncReplaced, TypesNext
    DEF GetThumbnail, UiLabels
<1>5. CASE CloseEncoder
  <2> DEFINE b == \/ enc[mp4Encoder].disturbed
                  \/ enc[mp4Encoder].monitor # "free"
                  \/ Resets(mp4Encoder) # {}
             x == [enc[mp4Encoder] EXCEPT
                     !.open = FALSE, !.started = FALSE,
                     !.track = NoTracks, !.timer = 0, !.disturbed = b]
  <2>0. mp4Encoder \in Encoders /\ NoTracks \in [Kinds -> -1..1]
    BY <1>5, <1>a DEF CloseEncoder, Stopping, NoTracks
  <2>1. x \in Encoder
    <3>1. enc[mp4Encoder] \in Encoder /\ b \in BOOLEAN
      BY <1>0, <2>0 DEF EncType
    <3> HIDE DEF b
    <3> QED
      BY <2>0, <3>1 DEF Encoder
  <2>2. enc' = [enc EXCEPT ![mp4Encoder] = x]
    BY <1>0, <1>5, <2>0 DEF CloseEncoder, EncType
  <2> HIDE DEF x
  <2>3. TimerType'
    BY <1>0, <1>5, CancelType DEF CloseEncoder, TimersOnClose, TimerType
  <2> QED
    BY <1>0, <1>5, <1>b, <1>c, <1>d, <1>e, <2>0, <2>1, <2>2, <2>3, EncReplaced,
       TypesNext
    DEF CloseEncoder, UiLabels
<1>6. CASE StopCodecs
  <2> DEFINE x == [enc[mp4Encoder] EXCEPT !.codecs = "released"]
  <2>0. mp4Encoder \in Encoders
    BY <1>6, <1>a DEF StopCodecs, Stopping
  <2>1. x \in Encoder
    BY <1>0, <2>0 DEF EncType, Encoder
  <2>2. enc' = [enc EXCEPT ![mp4Encoder] = x]
    BY <1>6 DEF StopCodecs
  <2> HIDE DEF x
  <2> QED
    BY <1>0, <1>6, <1>b, <1>c, <1>d, <1>e, <2>0, <2>1, <2>2, EncReplaced, TypesNext
    DEF StopCodecs, UiLabels
<1>7. CASE StopMuxer
  <2> DEFINE x == [enc[mp4Encoder] EXCEPT !.muxer = 0]
  <2>0. mp4Encoder \in Encoders /\ enc[mp4Encoder].muxer \in Files \cup {0}
    BY <1>7, <1>a DEF StopMuxer, Stopping
  <2>1. x \in Encoder
    BY <1>0, <2>0 DEF EncType, Encoder
  <2>2. enc' = enc \/ enc' = [enc EXCEPT ![mp4Encoder] = x]
    BY <1>7 DEF StopMuxer
  <2> HIDE DEF x
  <2>3. EncType'
    BY <1>0, <2>0, <2>1, <2>2, EncReplaced DEF EncType
  <2>4. FileType'
    BY <1>0, <1>7, <1>d, <2>0, StopType DEF StopMuxer
  <2> QED
    BY <1>7, <1>b, <1>c, <1>d, <1>e, <2>3, <2>4, TypesNext
    DEF StopMuxer, UiLabels
<1> QED
  BY <1>1, <1>2, <1>3, <1>4, <1>5, <1>6, <1>7 DEF Ui

\* The encoding threads' steps.
LEMMA LeaveTypes ==
  ASSUME EncType, ThreadType, NEW k \in Kinds, NEW l \in PcLabels,
         using[k] \in Encoders, Leave(k, l)
  PROVE  EncType' /\ (UNCHANGED receiver => ThreadType')
                  /\ pc' \in [Kinds -> PcLabels]
                  /\ using' \in [Kinds -> Encoders \cup {0}]
<1>1. pc' \in [Kinds -> PcLabels] /\ using' \in [Kinds -> Encoders \cup {0}]
  BY DEF Leave, Goto, ThreadType
<1> DEFINE x == [enc[using[k]] EXCEPT !.monitor = "free"]
<1>2. x \in Encoder
  BY DEF EncType, Encoder
<1>3. enc' = [enc EXCEPT ![using[k]] = x]
  BY DEF Leave
<1> HIDE DEF x
<1> QED
  BY <1>1, <1>2, <1>3, EncReplaced DEF ThreadType

LEMMA LabelTypes ==
  ASSUME NEW k \in Kinds
  PROVE  {Rest(k), Thrown(k), AfterSample(k)} \subseteq PcLabels
BY DEF Rest, Thrown, AfterSample, PcLabels

LEMMA EncodeTypes ==
  ASSUME Types, PlaceInv, ShortTracks, NEW k \in Kinds, Encode(k)
  PROVE  TypeOK'
<1>0. UiType /\ EncType /\ FileType /\ TimerType /\ ThreadType /\ HistoryType
  BY DEF Types
<1>a. pc[k] \in Inside \cup {"enter"} =>
        /\ using[k] \in Encoders
        /\ enc[using[k]].muxer \in Files \cup {0}
  BY <1>0 DEF PlaceInv, UiPlace, ThreadPlace, FilePlace, TimerPlace, EncType, Encoder
<1>b. UNCHANGED uiVars => UiType'
  BY <1>0 DEF uiVars, captureVars, recordVars, UiType
<1>c. UNCHANGED history => HistoryType'
  BY <1>0 DEF history, HistoryType
<1>d. /\ UNCHANGED file => FileType'
      /\ UNCHANGED timer => TimerType'
  BY <1>0 DEF FileType, TimerType
<1>e. ASSUME NEW l \in PcLabels, Goto(k, l) PROVE pc' \in [Kinds -> PcLabels]
  BY <1>0, <1>e DEF Goto, ThreadType
<1>f. {"idle", "look", "enter", "codec", "addTrack", "start", "schedule",
       "test", "receive", "write"} \subseteq PcLabels
  BY DEF PcLabels
<1>g. ASSUME NEW l \in PcLabels, Continue(k, l), UNCHANGED receiver
      PROVE  EncType' /\ ThreadType'
  BY <1>0, <1>e, <1>g DEF Continue, EncType, ThreadType
<1>1. CASE LookUp(k)
  <2>1. pc' \in [Kinds -> PcLabels]
    BY <1>1, <1>e, <1>f, LabelTypes DEF LookUp
  <2>2. mp4Encoder # 0 => mp4Encoder \in Encoders
    BY <1>0 DEF UiType
  <2>3. using' \in [Kinds -> Encoders \cup {0}]
    BY <1>0, <1>1, <2>2 DEF LookUp, ThreadType
  <2> QED
    BY <1>0, <1>1, <1>b, <1>c, <1>d, <2>1, <2>3, TypesNext
    DEF LookUp, mediaVars, EncType, ThreadType
<1>2. CASE Enter(k)
  <2> DEFINE b == enc[using[k]].disturbed \/ Resets(using[k]) # {}
             x == [enc[using[k]] EXCEPT !.monitor = k, !.disturbed = b]
  <2>0. using[k] \in Encoders
    BY <1>2, <1>a DEF Enter
  <2>1. x \in Encoder
    <3>1. enc[using[k]] \in Encoder /\ b \in BOOLEAN
      BY <1>0, <2>0 DEF EncType
    <3> HIDE DEF b
    <3> QED
      BY <3>1 DEF Encoder
  <2>2. enc' = enc \/ enc' = [enc EXCEPT ![using[k]] = x]
    BY <1>0, <1>2, <2>0 DEF Enter, EncType
  <2> HIDE DEF x
  <2>3. EncType'
    BY <1>0, <2>0, <2>1, <2>2, EncReplaced DEF EncType
  <2>4. pc' \in [Kinds -> PcLabels]
    BY <1>2, <1>e, <1>f, LabelTypes DEF Enter
  <2> QED
    BY <1>0, <1>2, <1>b, <1>c, <1>d, <2>3, <2>4, TypesNext
    DEF Enter, ThreadType
<1>3. CASE UseCodec(k)
  <2> DEFINE a == enc[using[k]].known \cup {k}
             x == [enc[using[k]] EXCEPT !.known = a]
  <2>0. using[k] \in Encoders
    BY <1>3, <1>a DEF UseCodec, Inside
  <2>1. x \in Encoder
    <3>1. enc[using[k]] \in Encoder
      BY <1>0, <2>0 DEF EncType
    <3>2. a \in SUBSET Kinds
      BY <3>1 DEF Encoder
    <3> HIDE DEF a
    <3> QED
      BY <3>1, <3>2 DEF Encoder
  <2>2. CASE Goto(k, "addTrack") /\ UNCHANGED using
             /\ enc' = [enc EXCEPT ![using[k]].known = @ \cup {k}]
    <3>1. enc' = [enc EXCEPT ![using[k]] = x]
      BY <2>2
    <3> HIDE DEF x
    <3>2. EncType' /\ ThreadType'
      BY <1>0, <1>3, <1>e, <1>f, <2>0, <2>1, <2>2, <3>1, EncReplaced
      DEF UseCodec, ThreadType
    <3> QED
      BY <1>3, <1>b, <1>c, <1>d, <3>2, TypesNext DEF UseCodec
  <2> HIDE DEF x
  <2>3. CASE Continue(k, "test") \/ Leave(k, Thrown(k)) \/ Leave(k, Rest(k))
    BY <1>0, <1>3, <1>b, <1>c, <1>d, <1>f, <1>g, <2>0, <2>3, LeaveTypes,
       LabelTypes, TypesNext DEF UseCodec
  <2> QED
    BY <1>3, <2>2, <2>3 DEF UseCodec
<1>4. CASE AddTrack(k)
  <2> DEFINE f == enc[using[k]].muxer
             n == Len(file[f].tracks)
             t == [enc[using[k]].track EXCEPT ![k] = n]
             x == [enc[using[k]] EXCEPT !.track = t]
             y == [file[f] EXCEPT !.tracks = Append(@, k)]
  <2>0. using[k] \in Encoders /\ f \in Files \cup {0} /\ pc[k] = "addTrack"
    BY Zenon, <1>4, <1>a DEF AddTrack, Inside
  <2>1. CASE ~Takes(f)
    BY Zenon, <1>0, <1>4, <1>b, <1>c, <1>d, <2>0, <2>1, LeaveTypes, LabelTypes, TypesNext
    DEF AddTrack
  <2>2. CASE Takes(f)
    <3>1. /\ file' = [file EXCEPT ![f].tracks = Append(@, k)]
          /\ enc' = [enc EXCEPT ![using[k]].track[k] = n]
          /\ Goto(k, "start") /\ UNCHANGED <<using, receiver>>
      BY <1>4, <2>2 DEF AddTrack
    <3>2. f \in Files
      BY <2>0, <2>2 DEF Takes
    <3>3. n \in -1..1
      BY <2>0, <3>2 DEF ShortTracks
    <3>4. enc[using[k]] \in Encoder /\ enc[using[k]].track \in [Kinds -> -1..1]
      BY <1>0, <2>0 DEF EncType, Encoder
    <3>5. EncType'
      <4> HIDE DEF n
      <4>1. t \in [Kinds -> -1..1]
        BY <3>3, <3>4
      <4>2. x \in Encoder
        <5> HIDE DEF t
        <5> QED
          BY <3>4, <4>1 DEF Encoder
      <4>3. enc' = [enc EXCEPT ![using[k]] = x]
        BY <3>1
      <4> HIDE DEF x
      <4> QED
        BY <1>0, <2>0, <4>2, <4>3, EncReplaced
    <3>6. FileType'
      <4>1. Append(file[f].tracks, k) \in Seq(Kinds)
        BY <1>0, <3>2 DEF FileType, File
      <4>2. y \in File
        BY <1>0, <3>2, <4>1 DEF FileType, File
      <4>3. file' = [file EXCEPT ![f] = y]
        BY <3>1
      <4> HIDE DEF y, f
      <4> QED
        BY <1>0, <3>2, <4>2, <4>3, FileReplaced
    <3>7. ThreadType'
      BY <1>0, <1>e, <1>f, <3>1 DEF ThreadType
    <3> QED
      BY Zenon, <1>4, <1>b, <1>c, <1>d, <3>5, <3>6, <3>7, TypesNext DEF AddTrack
  <2> QED
    BY <2>1, <2>2
<1>5. CASE StartMuxer(k)
  <2> DEFINE f == enc[using[k]].muxer
  <2>0. using[k] \in Encoders /\ f \in Files \cup {0}
    BY <1>5, <1>a DEF StartMuxer, Inside
  <2>1. CASE /\ Takes(f) /\ file' = [file EXCEPT ![f].state = "started"]
             /\ receiver' = [receiver EXCEPT ![k] = f]
             /\ Continue(k, "schedule")
    <3>1. f \in Files
      BY Zenon, <2>0, <2>1 DEF Takes
    <3>2. FileType'
      BY <1>0, <2>1, <3>1, StartType
    <3>3. EncType' /\ ThreadType'
      <4> HIDE DEF f
      <4> QED
        BY <1>0, <1>e, <1>f, <2>1, <3>1 DEF Continue, EncType, ThreadType
    <3> QED
      BY <1>5, <1>b, <1>c, <1>d, <3>2, <3>3, TypesNext DEF StartMuxer
  <2>2. CASE Leave(k, IF Ready(using[k]) THEN Thrown(k) ELSE Rest(k))
             /\ UNCHANGED <<file, receiver>>
    <3>1. (IF Ready(using[k]) THEN Thrown(k) ELSE Rest(k)) \in PcLabels
      BY LabelTypes
    <3> QED
      BY <1>0, <1>5, <1>b, <1>c, <1>d, <2>0, <2>2, <3>1, LeaveTypes, TypesNext
      DEF StartMuxer
  <2> QED
    BY <1>5, <2>1, <2>2 DEF StartMuxer
<1>6. CASE ScheduleReset(k)
  <2> DEFINE f == receiver[k]
             x == [enc[using[k]] EXCEPT !.started = TRUE, !.timer = f,
                                        !.monitor = "free"]
             y == [timer[f] EXCEPT !.pc = "set", !.periodic = (k = "audio")]
  <2>0. using[k] \in Encoders /\ f \in Files
    BY <1>6, <1>a DEF ScheduleReset, Inside, PlaceInv, UiPlace, ThreadPlace, FilePlace, TimerPlace
  <2>1. x \in Encoder /\ y \in ResetTimer
    <3>1. enc[using[k]] \in Encoder /\ timer[f] \in ResetTimer
      BY <1>0, <2>0 DEF EncType, TimerType
    <3> HIDE DEF f
    <3>2. x \in Encoder
      BY <2>0, <3>1 DEF Encoder
    <3>3. y \in ResetTimer
      BY <3>1 DEF ResetTimer, TimerLabels
    <3> QED
      BY <3>2, <3>3
  <2>2. enc' = [enc EXCEPT ![using[k]] = x]
    BY <1>0, <1>6, <2>0 DEF ScheduleReset, EncType
  <2>3. timer' = [timer EXCEPT ![f] = y]
    BY <1>0, <1>6, <2>0 DEF ScheduleReset, TimerType
  <2>4. ThreadType'
    <3>1. pc' \in [Kinds -> PcLabels]
      BY <1>6, <1>e, LabelTypes DEF ScheduleReset
    <3> QED
      BY <1>0, <1>6, <3>1 DEF ScheduleReset, ThreadType
  <2> HIDE DEF x, y, f
  <2> QED
    BY <1>0, <1>6, <1>b, <1>c, <1>d, <2>0, <2>1, <2>2, <2>3, <2>4, EncReplaced,
       TimerReplaced, TypesNext
    DEF ScheduleReset
<1>7. CASE TestStarted(k)
  <2>0. using[k] \in Encoders
    BY <1>7, <1>a DEF TestStarted, Inside
  <2> QED
    BY <1>0, <1>7, <1>b, <1>c, <1>d, <1>f, <1>g, <2>0, LeaveTypes, LabelTypes,
       TypesNext
    DEF TestStarted
<1>8. CASE ReadMuxer(k)
  <2> DEFINE f == enc[using[k]].muxer
  <2>1. f \in Files \cup {0} /\ receiver' = [receiver EXCEPT ![k] = f]
    BY <1>8, <1>a DEF ReadMuxer, Inside
  <2> HIDE DEF f
  <2>2. EncType' /\ ThreadType'
    BY <1>0, <1>8, <1>e, <1>f, <2>1 DEF ReadMuxer, Continue, EncType, ThreadType
  <2> QED
    BY <1>8, <1>b, <1>c, <1>d, <2>2, TypesNext DEF ReadMuxer
<1>9. CASE WriteSample(k)
  <2>0. using[k] \in Encoders
    BY <1>9, <1>a DEF WriteSample, Inside
  <2>1. EncType' /\ pc' \in [Kinds -> PcLabels]
        /\ using' \in [Kinds -> Encoders \cup {0}]
    BY <1>0, <1>9, <2>0, LeaveTypes, LabelTypes DEF WriteSample
  <2>2. receiver[k] \in Files \cup {0}
    BY <1>0 DEF ThreadType
  <2>3. ThreadType'
    BY <1>0, <1>9, <2>1 DEF WriteSample, ThreadType
  <2>4. HistoryType'
    BY <1>0, <1>9, <2>2 DEF WriteSample, Accepts, HistoryType
  <2> QED
    BY <1>9, <1>b, <1>d, <2>1, <2>3, <2>4, TypesNext DEF WriteSample
<1> QED
  BY <1>1, <1>2, <1>3, <1>4, <1>5, <1>6, <1>7, <1>8, <1>9 DEF Encode

LEMMA ThreadTypes ==
  ASSUME Types, PlaceInv, ShortTracks, Threads PROVE TypeOK'
<1>0. UiType /\ EncType /\ FileType /\ TimerType /\ ThreadType /\ HistoryType
  BY DEF Types
<1>1. CASE OnFrame \/ BeginAudio \/ AudioLoop
  <2>1. UiType'
    BY Zenon, <1>0, <1>1
    DEF OnFrame, BeginAudio, AudioLoop, uiVars, captureVars, recordVars, UiType
  <2>2. pc' \in [Kinds -> PcLabels]
    BY <1>0, <1>1
    DEF OnFrame, BeginAudio, AudioLoop, Goto, ThreadType, PcLabels
  <2>3. UNCHANGED <<enc, file, timer, using, receiver, saved, mixed>>
    BY <1>1 DEF OnFrame, BeginAudio, AudioLoop, mediaVars, history
  <2> QED
    BY <1>0, <2>1, <2>2, <2>3, TypesNext
    DEF EncType, FileType, TimerType, ThreadType, HistoryType
<1> QED
  BY <1>1, EncodeTypes DEF Threads

\* The timers' steps.
LEMMA TimerTypes ==
  ASSUME Types, PlaceInv, Timers PROVE TypeOK'
<1>0. UiType /\ EncType /\ FileType /\ TimerType /\ ThreadType /\ HistoryType
  BY DEF Types
<1>1. PICK f \in Files : Fire(f) \/ Reset(f)
  BY DEF Timers
<1>2. UiType' /\ ThreadType'
  BY Zenon, <1>0, <1>1
  DEF Fire, Reset, MarkReset, SwapMuxer, RollMuxer, RestartMuxer, ScheduleNext,
      FinishReset, uiVars, captureVars, recordVars, threadVars, UiType, ThreadType
<1> DEFINE e == file[f].enc
           g == enc[e].muxer
<1>3. timer[f].pc # "none" => e \in Encoders /\ g \in Files \cup {0}
  BY <1>0 DEF PlaceInv, UiPlace, ThreadPlace, FilePlace, TimerPlace, EncType, Encoder
<1>c. UNCHANGED history => HistoryType'
  BY <1>0 DEF history, HistoryType
<1>d. (UNCHANGED file => FileType') /\ (UNCHANGED enc => EncType')
  BY <1>0 DEF FileType, EncType
<1>4. CASE Fire(f)
  BY Zenon, <1>0, <1>2, <1>4, <1>c, <1>d, TimerGotoType, EndResetType, TypesNext
  DEF Fire, TimerLabels
<1>5. CASE MarkReset(f)
  <2> DEFINE b == \/ enc[e].disturbed \/ enc[e].monitor # "free"
                  \/ Resets(e) # {f} \/ ~enc[e].open
             x == [enc[e] EXCEPT !.started = FALSE, !.track = NoTracks,
                                 !.timer = 0, !.disturbed = b]
  <2>0. NoTracks \in [Kinds -> -1..1] /\ e \in Encoders
    BY <1>3, <1>5 DEF NoTracks, MarkReset
  <2>1. x \in Encoder
    <3>1. enc[e] \in Encoder /\ b \in BOOLEAN
      BY <1>0, <2>0 DEF EncType
    <3> HIDE DEF b, e
    <3> QED
      BY ZenonT(60), <2>0, <3>1 DEF Encoder
  <2>2. enc' = [enc EXCEPT ![e] = x]
    BY ZenonT(60), <1>0, <1>5, <2>0 DEF MarkReset, EncType
  <2> HIDE DEF x
  <2>3. TimerType'
    <3> DEFINE c == CancelTimer(e)
               y == [c[f] EXCEPT !.pc = "swap"]
    <3>1. c \in [Files -> ResetTimer] /\ timer' = [c EXCEPT ![f] = y]
      BY <1>0, <1>5, CancelType DEF MarkReset
    <3> HIDE DEF c
    <3>2. y \in ResetTimer
      BY <3>1 DEF ResetTimer, TimerLabels
    <3> HIDE DEF y
    <3> QED
      BY <3>1, <3>2 DEF TimerType
  <2> HIDE DEF e
  <2>4. EncType'
    BY <1>0, <2>0, <2>1, <2>2, EncReplaced
  <2> QED
    BY Zenon, <1>2, <1>5, <1>c, <1>d, <2>3, <2>4, TypesNext DEF MarkReset
<1>6. ASSUME NEW h \in Files, SwapMuxer(f, h) PROVE TypeOK'
  <2> DEFINE x == [enc[e] EXCEPT !.muxer = h]
             y == [file[h] EXCEPT !.state = "new", !.enc = e]
             z == [timer[f] EXCEPT !.pc = "addTracks", !.old = g]
  <2>0. e \in Encoders /\ g \in Files \cup {0}
    BY <1>3, <1>6 DEF SwapMuxer
  <2>1. z \in ResetTimer
    <3> HIDE DEF g
    <3> QED
      BY <1>0, <2>0 DEF TimerType, ResetTimer, TimerLabels
  <2>2. x \in Encoder /\ y \in File
    <3> HIDE DEF e
    <3> QED
      <4>1. x \in Encoder
        BY ZenonT(60), <1>0, <2>0 DEF EncType, Encoder
      <4>2. y \in File
        BY ZenonT(60), <1>0, <2>0 DEF FileType, File
      <4> QED
        BY <4>1, <4>2
  <2>3. timer' = [timer EXCEPT ![f] = z]
    BY <1>0, <1>6 DEF SwapMuxer, TimerType
  <2>4. file' = [file EXCEPT ![h] = y]
    BY <1>0, <1>6 DEF SwapMuxer, FileType
  <2>5. enc' = [enc EXCEPT ![e] = x]
    BY <1>6 DEF SwapMuxer
  <2> HIDE DEF x, y, z, e
  <2> QED
    BY <1>0, <1>2, <1>6, <1>c, <2>0, <2>1, <2>2, <2>3, <2>4, <2>5, EncReplaced,
       FileReplaced, TimerReplaced, TypesNext
    DEF SwapMuxer
<1>7. CASE RollMuxer(f)
  <2> DEFINE x == [enc[e] EXCEPT !.track = RollTracks]
             y == [file[g] EXCEPT !.tracks = <<"video", "audio">>]
  <2>0. e \in Encoders /\ g \in Files \cup {0}
    BY Zenon, <1>3, <1>7 DEF RollMuxer
  <2>1. TimerType'
    BY <1>0, <1>7, TimerGotoType, EndResetType DEF RollMuxer, TimerLabels
  <2>2. EncType'
    <3>0. RollTracks \in [Kinds -> -1..1]
      BY DEF RollTracks, Kinds
    <3>1. x \in Encoder
      BY SMTT(30), <1>0, <2>0, <3>0 DEF EncType, Encoder
    <3>2. enc' = enc \/ enc' = [enc EXCEPT ![e] = x]
      BY <1>7 DEF RollMuxer
    <3> HIDE DEF x, e
    <3> QED
      BY <1>0, <2>0, <3>1, <3>2, EncReplaced DEF EncType
  <2>3. FileType'
    <3>0. <<"video", "audio">> \in Seq(Kinds)
      BY DEF Kinds
    <3>1. g \in Files => y \in File
      <4> HIDE DEF g
      <4> QED
        BY <1>0, <2>0, <3>0 DEF FileType, File
    <3>2. file' = file \/ (Takes(g) /\ file' = [file EXCEPT ![g] = y])
      BY <1>7 DEF RollMuxer
    <3> HIDE DEF y, g
    <3> QED
      BY <1>0, <2>0, <3>1, <3>2, FileReplaced DEF FileType, Takes
  <2> QED
    BY Zenon, <1>2, <1>7, <1>c, <2>1, <2>2, <2>3, TypesNext DEF RollMuxer
<1>8. CASE RestartMuxer(f)
  <2> DEFINE z == [timer[f] EXCEPT !.pc = "schedule", !.next = g]
  <2>0. e \in Encoders /\ g \in Files \cup {0}
    BY Zenon, <1>3, <1>8 DEF RestartMuxer
  <2>3. \/ (TimerGoto(f, "finish") \/ EndReset(f)) /\ UNCHANGED file
        \/ /\ Takes(g) /\ file' = [file EXCEPT ![g].state = "started"]
           /\ timer' = [timer EXCEPT ![f].pc = "schedule", ![f].next = g]
    BY <1>8 DEF RestartMuxer
  <2>4. Takes(g) => g \in Files
    BY <2>0 DEF Takes
  <2>5. g \in Files => z \in ResetTimer
    <3> HIDE DEF g
    <3> QED
      BY <1>0 DEF TimerType, ResetTimer, TimerLabels
  <2>6. \/ TimerGoto(f, "finish") \/ EndReset(f)
        \/ Takes(g) /\ timer' = [timer EXCEPT ![f] = z]
    BY <1>0, <2>3 DEF TimerType
  <2> HIDE DEF z, g
  <2>1. TimerType'
    BY <1>0, <2>4, <2>5, <2>6, TimerReplaced, TimerGotoType, EndResetType
    DEF TimerLabels
  <2>2. FileType'
    BY <1>0, <1>d, <2>3, <2>4, StartType
  <2> QED
    BY Zenon, <1>2, <1>8, <1>c, <1>d, <2>1, <2>2, TypesNext DEF RestartMuxer
<1>9. CASE ScheduleNext(f)
  <2> DEFINE h == timer[f].next
             x == [enc[e] EXCEPT !.started = TRUE, !.timer = h]
             y == [timer[f] EXCEPT !.pc = "finish", !.next = 0]
             t == [timer EXCEPT ![f] = y]
             z == [t[h] EXCEPT !.pc = "set"]
  <2>0. e \in Encoders /\ h \in Files
    BY <1>3, <1>9 DEF ScheduleNext, PlaceInv, UiPlace, ThreadPlace, FilePlace, TimerPlace
  <2>1. TimerType'
    <3>1. y \in ResetTimer
      BY <1>0 DEF TimerType, ResetTimer, TimerLabels
    <3>2. t \in [Files -> ResetTimer]
      <4> HIDE DEF y
      <4> QED
        BY <1>0, <3>1 DEF TimerType
    <3>3. timer' = [t EXCEPT ![h] = z]
      BY <1>0, <1>9, <2>0 DEF ScheduleNext, TimerType
    <3> HIDE DEF t, h
    <3>4. z \in ResetTimer
      BY <2>0, <3>2 DEF ResetTimer, TimerLabels
    <3> HIDE DEF z
    <3> QED
      BY <3>2, <3>3, <3>4 DEF TimerType
  <2>2. EncType'
    <3>0. enc[e] \in Encoder
      BY <1>0, <2>0 DEF EncType
    <3>1. x \in Encoder
      <4> HIDE DEF e, h
      <4> QED
        BY <2>0, <3>0 DEF Encoder
    <3>2. enc' = [enc EXCEPT ![e] = x]
      BY <1>0, <1>9, <2>0 DEF ScheduleNext, EncType
    <3> HIDE DEF x, e
    <3> QED
      BY <1>0, <2>0, <3>1, <3>2, EncReplaced
  <2> QED
    BY Zenon, <1>2, <1>9, <1>c, <1>d, <2>1, <2>2, TypesNext DEF ScheduleNext
<1>10. CASE FinishReset(f)
  <2>0. timer[f].old \in Files \cup {0}
    BY <1>0 DEF TimerType, ResetTimer
  <2>1. TimerType'
    BY <1>0, <1>10, EndResetType DEF FinishReset
  <2>2. FileType'
    BY <1>0, <1>10, <1>d, <2>0, StopType DEF FinishReset
  <2>3. HistoryType'
    BY <1>0, <1>10, <2>0 DEF FinishReset, SavedName, HistoryType
  <2> QED
    BY <1>2, <1>10, <1>d, <2>1, <2>2, <2>3, TypesNext DEF FinishReset
<1> QED
  BY <1>1, <1>4, <1>5, <1>6, <1>7, <1>8, <1>9, <1>10 DEF Reset

-----------------------------------------------------------------------------
(* The inductive invariant.                                                *)

Of(e) == {f \in Files : file[f].enc = e}
Within(k, e) == pc[k] \in Inside /\ using[k] = e
\* The format of k is known and its track was added.
Added(e, k) == k \in enc[e].known /\ ~(pc[k] = "addTrack" /\ using[k] = e)
\* A timer whose reset has begun to change its encoder, and one that may yet.
Rolling(f) ==
  timer[f].pc \in {"swap", "addTracks", "start", "schedule", "finish"}
Live(f) == timer[f].pc \in {"set", "mark", "swap", "addTracks", "start",
                            "schedule"}

\* Encoders and files are taken in order; an encoder writes to its own files.
OrderInv ==
  /\ \A f, g \in Files :
       g < f /\ file[f].state # "none" => file[g].state # "none"
  /\ \A d, e \in Encoders :
       d < e /\ enc[e].codecs # "none" => enc[d].codecs # "none"
  /\ \A e \in Encoders :
       /\ enc[e].muxer \in Files => file[enc[e].muxer].enc = e
       /\ enc[e].codecs = "none" => enc[e] = NewEncoder /\ Of(e) = {}
       /\ enc[e].open => enc[e].codecs = "running"

MonitorInv ==
  \A e \in Encoders, k \in Kinds : enc[e].monitor = k <=> Within(k, e)

\* A track is added once, before the first file is started.
KnownInv ==
  /\ \A f \in Files : \A i \in 1..Len(file[f].tracks) :
       /\ Added(file[f].enc, file[f].tracks[i])
       /\ \A j \in 1..Len(file[f].tracks) :
            file[f].tracks[i] = file[f].tracks[j] => i = j
  /\ \A k \in Kinds : pc[k] = "addTrack" => k \in enc[using[k]].known
  /\ \A e \in Encoders, k \in Kinds : enc[e].track[k] # -1 => Added(e, k)
  /\ \A f \in Files, k \in Kinds :
       timer[f].pc # "none" => Added(file[f].enc, k)
  /\ \A k \in Kinds : pc[k] = "schedule" =>
       /\ file[receiver[k]].enc = using[k]
       /\ \A j \in Kinds : Added(using[k], j)
  /\ \A k \in Kinds, f \in Files :
       pc[k] \in {"start", "schedule"} /\ file[f].enc = using[k] =>
         timer[f].pc = "none"

\* One timer at most of an encoder is to come or at work up to the start of
\* the next file; the one that has begun does not run again.
TimerOf(f) ==
  /\ Rolling(f) => ~timer[f].periodic \/ timer[f].cancelled
  /\ timer[f].pc = "set" => enc[file[f].enc].timer = f
  /\ timer[f].pc = "mark" => enc[file[f].enc].timer = f \/ timer[f].cancelled
  /\ timer[f].pc = "schedule" => file[timer[f].next].enc = file[f].enc
  /\ timer[f].pc = "swap" => enc[file[f].enc].track = NoTracks
TimerInv ==
  /\ \A f, g \in Files :
       file[f].enc = file[g].enc /\ Live(f) /\ Live(g) => f = g
  /\ \A f \in Files : TimerOf(f)

\* An index that is known is the one its track has in the present file.
TrackInv ==
  \A e \in Encoders, k \in Kinds :
    LET m == enc[e].muxer IN
    enc[e].track[k] # -1 /\ m \in Files /\ file[m].state \in {"new", "started"} =>
      /\ enc[e].track[k] < Len(file[m].tracks)
      /\ file[m].tracks[enc[e].track[k] + 1] = k

\* The muxer that was read for a sample is the present one, or is replaced.
ReceiverInv ==
  \A k \in Kinds : pc[k] = "write" /\ receiver[k] \in Files =>
    /\ file[receiver[k]].enc = using[k]
    /\ \/ enc[using[k]].muxer = receiver[k]
       \/ file[receiver[k]].state = "stopped"
       \/ \E g \in Files : g > receiver[k] /\ file[g].enc = using[k]

\* The UI thread knows the encoder that runs.
UiInv ==
  /\ \A e \in Encoders : enc[e].codecs = "running" => e = mp4Encoder
  /\ ~isRecording /\ ui \notin Stopping => mp4Encoder = 0
  /\ ui = "newEncoder" => mp4Encoder = 0 /\ isRecording
  /\ ui \in {"stopMuxer", "forget"} => enc[mp4Encoder].codecs = "released"
  /\ ui \in {"stopCodecs", "stopMuxer", "forget"} => ~enc[mp4Encoder].open
  /\ mp4Encoder \in Encoders => enc[mp4Encoder].codecs # "none"
  /\ pc["audio"] # "idle" =>
       /\ audioRecord
       /\ isRecording \/ ui \in Stopping \cup {"stopAudio", "join"}

\* What was mixed is replaced.
MixedInv ==
  \A f \in mixed :
    file[f].enc \in Encoders /\ \E g \in Files : g > f /\ file[g].enc = file[f].enc

-----------------------------------------------------------------------------
(* What the actions do, record by record.                                  *)

LEMMA OpenFx ==
  ASSUME EncType, FileType, PlaceInv, NEW f \in Files, OpenEncoder(f)
  PROVE  \E e \in Encoders :
           /\ e = Cardinality({d \in Encoders : enc[d].codecs # "none"}) + 1
           /\ mp4Encoder' = e /\ ui = "newEncoder" /\ ui' = "idle"
           /\ \A d \in Encoders : d # e => enc'[d] = enc[d]
           /\ enc'[e].open = TRUE /\ enc'[e].muxer = f
           /\ enc'[e].codecs = "running" /\ enc'[e].listener = TRUE
           /\ enc'[e].started = enc[e].started /\ enc'[e].track = enc[e].track
           /\ enc'[e].known = enc[e].known /\ enc'[e].timer = enc[e].timer
           /\ enc'[e].monitor = enc[e].monitor
           /\ enc'[e].disturbed = enc[e].disturbed
           /\ \A d \in Files : d # f => file'[d] = file[d]
           /\ file'[f].state = "new" /\ file'[f].enc = e
           /\ file'[f].tracks = file[f].tracks
<1> DEFINE e == Cardinality({d \in Encoders : enc[d].codecs # "none"}) + 1
<1>1. e \in Encoders
  BY Zenon, NextEncoder DEF OpenEncoder
<1>2. /\ mp4Encoder' = e /\ ui = "newEncoder" /\ ui' = "idle"
      /\ file' = [file EXCEPT ![f].state = "new", ![f].enc = e]
      /\ enc' = [enc EXCEPT ![e].open = TRUE, ![e].codecs = "running",
                            ![e].muxer = f, ![e].listener = TRUE]
  BY Zenon DEF OpenEncoder
<1> HIDE DEF e
<1>3.
      /\ \A d \in Encoders : d # e => enc'[d] = enc[d]
      /\ enc'[e].open = TRUE /\ enc'[e].muxer = f
      /\ enc'[e].codecs = "running" /\ enc'[e].listener = TRUE
      /\ enc'[e].started = enc[e].started /\ enc'[e].track = enc[e].track
      /\ enc'[e].known = enc[e].known /\ enc'[e].timer = enc[e].timer
      /\ enc'[e].monitor = enc[e].monitor
      /\ enc'[e].disturbed = enc[e].disturbed
  BY <1>1, <1>2 DEF EncType, Encoder
<1>4.
      /\ \A d \in Files : d # f => file'[d] = file[d]
      /\ file'[f].state = "new" /\ file'[f].enc = e
      /\ file'[f].tracks = file[f].tracks
  BY <1>1, <1>2 DEF FileType, File
<1>5. e = Cardinality({d \in Encoders : enc[d].codecs # "none"}) + 1
  BY DEF e
<1> QED
  BY Zenon, <1>1, <1>2, <1>3, <1>4, <1>5

LEMMA CloseFx ==
  ASSUME EncType, mp4Encoder \in Encoders, CloseEncoder
  PROVE  /\ \A d \in Encoders : d # mp4Encoder => enc'[d] = enc[d]
         /\ enc'[mp4Encoder].open = FALSE /\ enc'[mp4Encoder].started = FALSE
         /\ enc'[mp4Encoder].track = NoTracks /\ enc'[mp4Encoder].timer = 0
         /\ enc'[mp4Encoder].disturbed = (enc[mp4Encoder].disturbed \/ enc[mp4Encoder].monitor # "free" \/ Resets(mp4Encoder) # {})
         /\ enc'[mp4Encoder].known = enc[mp4Encoder].known
         /\ enc'[mp4Encoder].muxer = enc[mp4Encoder].muxer
         /\ enc'[mp4Encoder].codecs = enc[mp4Encoder].codecs
         /\ enc'[mp4Encoder].monitor = enc[mp4Encoder].monitor
         /\ enc'[mp4Encoder].listener = enc[mp4Encoder].listener
BY DEF CloseEncoder, EncType, Encoder

LEMMA CodecsFx ==
  ASSUME EncType, mp4Encoder \in Encoders, StopCodecs
  PROVE  /\ \A d \in Encoders : d # mp4Encoder => enc'[d] = enc[d]
         /\ enc'[mp4Encoder].codecs = "released"
         /\ enc'[mp4Encoder].open = enc[mp4Encoder].open
         /\ enc'[mp4Encoder].started = enc[mp4Encoder].started
         /\ enc'[mp4Encoder].track = enc[mp4Encoder].track
         /\ enc'[mp4Encoder].known = enc[mp4Encoder].known
         /\ enc'[mp4Encoder].muxer = enc[mp4Encoder].muxer
         /\ enc'[mp4Encoder].timer = enc[mp4Encoder].timer
         /\ enc'[mp4Encoder].monitor = enc[mp4Encoder].monitor
         /\ enc'[mp4Encoder].listener = enc[mp4Encoder].listener
         /\ enc'[mp4Encoder].disturbed = enc[mp4Encoder].disturbed
BY DEF StopCodecs, EncType, Encoder

LEMMA ThumbnailFx ==
  ASSUME EncType, mp4Encoder \in Encoders, GetThumbnail
  PROVE  /\ \A d \in Encoders : d # mp4Encoder => enc'[d] = enc[d]
         /\ enc'[mp4Encoder].listener = FALSE
         /\ enc'[mp4Encoder].open = enc[mp4Encoder].open
         /\ enc'[mp4Encoder].started = enc[mp4Encoder].started
         /\ enc'[mp4Encoder].track = enc[mp4Encoder].track
         /\ enc'[mp4Encoder].known = enc[mp4Encoder].known
         /\ enc'[mp4Encoder].muxer = enc[mp4Encoder].muxer
         /\ enc'[mp4Encoder].timer = enc[mp4Encoder].timer
         /\ enc'[mp4Encoder].codecs = enc[mp4Encoder].codecs
         /\ enc'[mp4Encoder].monitor = enc[mp4Encoder].monitor
         /\ enc'[mp4Encoder].disturbed = enc[mp4Encoder].disturbed
BY DEF GetThumbnail, EncType, Encoder

LEMMA ForgetMuxerFx ==
  ASSUME EncType, mp4Encoder \in Encoders,
         enc' = [enc EXCEPT ![mp4Encoder].muxer = 0]
  PROVE  /\ \A d \in Encoders : d # mp4Encoder => enc'[d] = enc[d]
         /\ enc'[mp4Encoder].muxer = 0
         /\ enc'[mp4Encoder].open = enc[mp4Encoder].open
         /\ enc'[mp4Encoder].started = enc[mp4Encoder].started
         /\ enc'[mp4Encoder].track = enc[mp4Encoder].track
         /\ enc'[mp4Encoder].known = enc[mp4Encoder].known
         /\ enc'[mp4Encoder].timer = enc[mp4Encoder].timer
         /\ enc'[mp4Encoder].codecs = enc[mp4Encoder].codecs
         /\ enc'[mp4Encoder].monitor = enc[mp4Encoder].monitor
         /\ enc'[mp4Encoder].listener = enc[mp4Encoder].listener
         /\ enc'[mp4Encoder].disturbed = enc[mp4Encoder].disturbed
BY DEF EncType, Encoder

LEMMA StopFx ==
  ASSUME FileType, NEW f \in Files, Stop(f)
  PROVE  /\ \A d \in Files : d # f => file'[d] = file[d]
         /\ file'[f].state = "stopped" /\ file'[f].tracks = <<>>
         /\ file'[f].enc = file[f].enc
BY DEF Stop, FileType, File

LEMMA StartFx ==
  ASSUME FileType, NEW f \in Files,
         file' = [file EXCEPT ![f].state = "started"]
  PROVE  /\ \A d \in Files : d # f => file'[d] = file[d]
         /\ file'[f].state = "started" /\ file'[f].enc = file[f].enc
         /\ file'[f].tracks = file[f].tracks
BY DEF FileType, File

LEMMA EnterFx ==
  ASSUME EncType, NEW k \in Kinds, NEW e \in Encoders,
         enc' = [enc EXCEPT ![e].monitor = k,
                            ![e].disturbed = @ \/ Resets(e) # {}]
  PROVE  /\ \A d \in Encoders : d # e => enc'[d] = enc[d]
         /\ enc'[e].monitor = k
         /\ enc'[e].disturbed = (enc[e].disturbed \/ Resets(e) # {})
         /\ enc'[e].open = enc[e].open /\ enc'[e].started = enc[e].started
         /\ enc'[e].track = enc[e].track /\ enc'[e].known = enc[e].known
         /\ enc'[e].muxer = enc[e].muxer /\ enc'[e].timer = enc[e].timer
         /\ enc'[e].codecs = enc[e].codecs
         /\ enc'[e].listener = enc[e].listener
BY DEF EncType, Encoder

LEMMA FormatFx ==
  ASSUME EncType, NEW k \in Kinds, NEW e \in Encoders,
         enc' = [enc EXCEPT ![e].known = @ \cup {k}]
  PROVE  /\ \A d \in Encoders : d # e => enc'[d] = enc[d]
         /\ enc'[e].known = enc[e].known \cup {k}
         /\ enc'[e].open = enc[e].open /\ enc'[e].started = enc[e].started
         /\ enc'[e].track = enc[e].track /\ enc'[e].muxer = enc[e].muxer
         /\ enc'[e].timer = enc[e].timer /\ enc'[e].codecs = enc[e].codecs
         /\ enc'[e].monitor = enc[e].monitor
         /\ enc'[e].listener = enc[e].listener
         /\ enc'[e].disturbed = enc[e].disturbed
BY DEF EncType, Encoder

LEMMA LeaveFx ==
  ASSUME EncType, NEW k \in Kinds, NEW l, using[k] \in Encoders,
         Leave(k, l)
  PROVE  /\ \A d \in Encoders : d # using[k] => enc'[d] = enc[d]
         /\ enc'[using[k]].monitor = "free"
         /\ enc'[using[k]].open = enc[using[k]].open
         /\ enc'[using[k]].started = enc[using[k]].started
         /\ enc'[using[k]].track = enc[using[k]].track
         /\ enc'[using[k]].known = enc[using[k]].known
         /\ enc'[using[k]].muxer = enc[using[k]].muxer
         /\ enc'[using[k]].timer = enc[using[k]].timer
         /\ enc'[using[k]].codecs = enc[using[k]].codecs
         /\ enc'[using[k]].listener = enc[using[k]].listener
         /\ enc'[using[k]].disturbed = enc[using[k]].disturbed
BY DEF Leave, EncType, Encoder

LEMMA ScheduleFx ==
  ASSUME EncType, TimerType, NEW k \in Kinds, using[k] \in Encoders,
         receiver[k] \in Files, ScheduleReset(k)
  PROVE  /\ \A d \in Encoders : d # using[k] => enc'[d] = enc[d]
         /\ enc'[using[k]].started = TRUE
         /\ enc'[using[k]].timer = receiver[k]
         /\ enc'[using[k]].monitor = "free"
         /\ enc'[using[k]].open = enc[using[k]].open
         /\ enc'[using[k]].track = enc[using[k]].track
         /\ enc'[using[k]].known = enc[using[k]].known
         /\ enc'[using[k]].muxer = enc[using[k]].muxer
         /\ enc'[using[k]].codecs = enc[using[k]].codecs
         /\ enc'[using[k]].listener = enc[using[k]].listener
         /\ enc'[using[k]].disturbed = enc[using[k]].disturbed
         /\ \A d \in Files : d # receiver[k] => timer'[d] = timer[d]
         /\ timer'[receiver[k]].pc = "set"
         /\ timer'[receiver[k]].periodic = (k = "audio")
         /\ timer'[receiver[k]].cancelled = timer[receiver[k]].cancelled
         /\ timer'[receiver[k]].old = timer[receiver[k]].old
         /\ timer'[receiver[k]].next = timer[receiver[k]].next
<1>1.
         /\ \A d \in Encoders : d # using[k] => enc'[d] = enc[d]
         /\ enc'[using[k]].started = TRUE
         /\ enc'[using[k]].timer = receiver[k]
         /\ enc'[using[k]].monitor = "free"
         /\ enc'[using[k]].open = enc[using[k]].open
         /\ enc'[using[k]].track = enc[using[k]].track
         /\ enc'[using[k]].known = enc[using[k]].known
         /\ enc'[using[k]].muxer = enc[using[k]].muxer
         /\ enc'[using[k]].codecs = enc[using[k]].codecs
         /\ enc'[using[k]].listener = enc[using[k]].listener
         /\ enc'[using[k]].disturbed = enc[using[k]].disturbed
  BY DEF ScheduleReset, EncType, Encoder
<1>2.
         /\ \A d \in Files : d # receiver[k] => timer'[d] = timer[d]
         /\ timer'[receiver[k]].pc = "set"
         /\ timer'[receiver[k]].periodic = (k = "audio")
         /\ timer'[receiver[k]].cancelled = timer[receiver[k]].cancelled
         /\ timer'[receiver[k]].old = timer[receiver[k]].old
         /\ timer'[receiver[k]].next = timer[receiver[k]].next
  BY DEF ScheduleReset, TimerType, ResetTimer
<1> QED
  BY <1>1, <1>2

LEMMA GotoFx ==
  ASSUME TimerType, NEW f \in Files, NEW l, TimerGoto(f, l)
  PROVE  /\ \A d \in Files : d # f => timer'[d] = timer[d]
         /\ timer'[f].pc = l /\ timer'[f].periodic = timer[f].periodic
         /\ timer'[f].cancelled = timer[f].cancelled
         /\ timer'[f].old = timer[f].old /\ timer'[f].next = timer[f].next
BY DEF TimerGoto, TimerType, ResetTimer

LEMMA EndFx ==
  ASSUME TimerType, NEW f \in Files, EndReset(f)
  PROVE  /\ \A d \in Files : d # f => timer'[d] = timer[d]
         /\ timer'[f].pc \in {"set", "over"}
         /\ timer'[f].pc = "set" => timer[f].periodic /\ ~timer[f].cancelled
<1> DEFINE b == timer[f].periodic /\ ~timer[f].cancelled
<1>1. timer' = [timer EXCEPT ![f] = [NoTimer EXCEPT
                  !.pc = IF b THEN "set" ELSE "over", !.periodic = b]]
  BY DEF EndReset
<1> HIDE DEF b
<1>2. timer'[f] = [NoTimer EXCEPT
                     !.pc = IF b THEN "set" ELSE "over", !.periodic = b]
  BY <1>1 DEF TimerType
<1>3. timer'[f].pc = IF b THEN "set" ELSE "over"
  BY <1>2 DEF NoTimer
<1>4. \A d \in Files : d # f => timer'[d] = timer[d]
  BY <1>1 DEF TimerType
<1> QED
  BY <1>3, <1>4 DEF b

LEMMA CancelFx ==
  ASSUME TimerType, NEW e \in Encoders, NEW f \in Files
  PROVE  /\ enc[e].timer # f => CancelTimer(e)[f] = timer[f]
         /\ enc[e].timer = f /\ timer[f].pc = "set" =>
              CancelTimer(e)[f].pc = "over"
         /\ enc[e].timer = f /\ timer[f].pc # "set" =>
              /\ CancelTimer(e)[f].cancelled = TRUE /\ CancelTimer(e)[f].pc = timer[f].pc
              /\ CancelTimer(e)[f].periodic = timer[f].periodic
              /\ CancelTimer(e)[f].old = timer[f].old
              /\ CancelTimer(e)[f].next = timer[f].next
BY ZenonT(60) DEF CancelTimer, Cancelled, NoTimer, TimerType, ResetTimer

LEMMA MarkFx ==
  ASSUME EncType, NEW f \in Files, NEW e \in Encoders, e = file[f].enc,
         MarkReset(f)
  PROVE  /\ \A d \in Encoders : d # e => enc'[d] = enc[d]
         /\ enc'[e].started = FALSE /\ enc'[e].track = NoTracks
         /\ enc'[e].timer = 0
         /\ enc'[e].disturbed = (enc[e].disturbed \/ enc[e].monitor # "free" \/ Resets(e) # {f}
                                \/ ~enc[e].open)
         /\ enc'[e].open = enc[e].open /\ enc'[e].known = enc[e].known
         /\ enc'[e].muxer = enc[e].muxer /\ enc'[e].codecs = enc[e].codecs
         /\ enc'[e].monitor = enc[e].monitor
         /\ enc'[e].listener = enc[e].listener
BY DEF MarkReset, EncType, Encoder

LEMMA SwapFx ==
  ASSUME EncType, FileType, TimerType, NEW f \in Files, NEW g \in Files,
         NEW e \in Encoders, e = file[f].enc, SwapMuxer(f, g)
  PROVE  /\ \A d \in Encoders : d # e => enc'[d] = enc[d]
         /\ enc'[e].muxer = g /\ enc'[e].open = enc[e].open
         /\ enc'[e].started = enc[e].started /\ enc'[e].track = enc[e].track
         /\ enc'[e].known = enc[e].known /\ enc'[e].timer = enc[e].timer
         /\ enc'[e].codecs = enc[e].codecs /\ enc'[e].monitor = enc[e].monitor
         /\ enc'[e].listener = enc[e].listener
         /\ enc'[e].disturbed = enc[e].disturbed
         /\ \A d \in Files : d # g => file'[d] = file[d]
         /\ file'[g].state = "new" /\ file'[g].enc = e
         /\ file'[g].tracks = file[g].tracks
         /\ \A d \in Files : d # f => timer'[d] = timer[d]
         /\ timer'[f].pc = "addTracks" /\ timer'[f].old = enc[e].muxer
         /\ timer'[f].periodic = timer[f].periodic
         /\ timer'[f].cancelled = timer[f].cancelled
         /\ timer'[f].next = timer[f].next
<1>1.
         /\ \A d \in Encoders : d # e => enc'[d] = enc[d]
         /\ enc'[e].muxer = g /\ enc'[e].open = enc[e].open
         /\ enc'[e].started = enc[e].started /\ enc'[e].track = enc[e].track
         /\ enc'[e].known = enc[e].known /\ enc'[e].timer = enc[e].timer
         /\ enc'[e].codecs = enc[e].codecs /\ enc'[e].monitor = enc[e].monitor
         /\ enc'[e].listener = enc[e].listener
         /\ enc'[e].disturbed = enc[e].disturbed
  BY DEF SwapMuxer, EncType, Encoder
<1>2.
         /\ \A d \in Files : d # g => file'[d] = file[d]
         /\ file'[g].state = "new" /\ file'[g].enc = e
         /\ file'[g].tracks = file[g].tracks
  BY DEF SwapMuxer, FileType, File
<1>3.
         /\ \A d \in Files : d # f => timer'[d] = timer[d]
         /\ timer'[f].pc = "addTracks" /\ timer'[f].old = enc[e].muxer
         /\ timer'[f].periodic = timer[f].periodic
         /\ timer'[f].cancelled = timer[f].cancelled
         /\ timer'[f].next = timer[f].next
  BY DEF SwapMuxer, TimerType, ResetTimer
<1> QED
  BY <1>1, <1>2, <1>3

LEMMA RollFx ==
  ASSUME EncType, FileType, NEW e \in Encoders, NEW g \in Files,
         file' = [file EXCEPT ![g].tracks = <<"video", "audio">>],
         enc' = [enc EXCEPT ![e].track = RollTracks]
  PROVE  /\ \A d \in Encoders : d # e => enc'[d] = enc[d]
         /\ enc'[e].track = RollTracks /\ enc'[e].open = enc[e].open
         /\ enc'[e].started = enc[e].started /\ enc'[e].known = enc[e].known
         /\ enc'[e].muxer = enc[e].muxer /\ enc'[e].timer = enc[e].timer
         /\ enc'[e].codecs = enc[e].codecs /\ enc'[e].monitor = enc[e].monitor
         /\ enc'[e].listener = enc[e].listener
         /\ enc'[e].disturbed = enc[e].disturbed
         /\ \A d \in Files : d # g => file'[d] = file[d]
         /\ file'[g].tracks = <<"video", "audio">>
         /\ file'[g].state = file[g].state /\ file'[g].enc = file[g].enc
<1>1.
         /\ \A d \in Encoders : d # e => enc'[d] = enc[d]
         /\ enc'[e].track = RollTracks /\ enc'[e].open = enc[e].open
         /\ enc'[e].started = enc[e].started /\ enc'[e].known = enc[e].known
         /\ enc'[e].muxer = enc[e].muxer /\ enc'[e].timer = enc[e].timer
         /\ enc'[e].codecs = enc[e].codecs /\ enc'[e].monitor = enc[e].monitor
         /\ enc'[e].listener = enc[e].listener
         /\ enc'[e].disturbed = enc[e].disturbed
  BY DEF EncType, Encoder
<1>2.
         /\ \A d \in Files : d # g => file'[d] = file[d]
         /\ file'[g].tracks = <<"video", "audio">>
         /\ file'[g].state = file[g].state /\ file'[g].enc = file[g].enc
  BY DEF FileType, File
<1> QED
  BY <1>1, <1>2

LEMMA AddFx ==
  ASSUME EncType, FileType, NEW e \in Encoders, NEW g \in Files, NEW k \in Kinds,
         file' = [file EXCEPT ![g].tracks = Append(@, k)],
         enc' = [enc EXCEPT ![e].track[k] = Len(file[g].tracks)]
  PROVE  /\ \A d \in Encoders : d # e => enc'[d] = enc[d]
         /\ enc'[e].track = [enc[e].track EXCEPT ![k] = Len(file[g].tracks)]
         /\ enc'[e].open = enc[e].open /\ enc'[e].started = enc[e].started
         /\ enc'[e].known = enc[e].known /\ enc'[e].muxer = enc[e].muxer
         /\ enc'[e].timer = enc[e].timer /\ enc'[e].codecs = enc[e].codecs
         /\ enc'[e].monitor = enc[e].monitor
         /\ enc'[e].listener = enc[e].listener
         /\ enc'[e].disturbed = enc[e].disturbed
         /\ \A d \in Files : d # g => file'[d] = file[d]
         /\ file'[g].tracks = Append(file[g].tracks, k)
         /\ file'[g].state = file[g].state /\ file'[g].enc = file[g].enc
<1>1.
         /\ \A d \in Encoders : d # e => enc'[d] = enc[d]
         /\ enc'[e].track = [enc[e].track EXCEPT ![k] = Len(file[g].tracks)]
         /\ enc'[e].open = enc[e].open /\ enc'[e].started = enc[e].started
         /\ enc'[e].known = enc[e].known /\ enc'[e].muxer = enc[e].muxer
         /\ enc'[e].timer = enc[e].timer /\ enc'[e].codecs = enc[e].codecs
         /\ enc'[e].monitor = enc[e].monitor
         /\ enc'[e].listener = enc[e].listener
         /\ enc'[e].disturbed = enc[e].disturbed
  BY DEF EncType, Encoder
<1>2.
         /\ \A d \in Files : d # g => file'[d] = file[d]
         /\ file'[g].tracks = Append(file[g].tracks, k)
         /\ file'[g].state = file[g].state /\ file'[g].enc = file[g].enc
  BY DEF FileType, File
<1> QED
  BY <1>1, <1>2

LEMMA RestartFx ==
  ASSUME TimerType, NEW f \in Files, NEW g,
         timer' = [timer EXCEPT ![f].pc = "schedule", ![f].next = g]
  PROVE  /\ \A d \in Files : d # f => timer'[d] = timer[d]
         /\ timer'[f].pc = "schedule" /\ timer'[f].next = g
         /\ timer'[f].periodic = timer[f].periodic
         /\ timer'[f].cancelled = timer[f].cancelled
         /\ timer'[f].old = timer[f].old
BY DEF TimerType, ResetTimer

LEMMA NextFx ==
  ASSUME EncType, TimerType, NEW f \in Files, NEW g \in Files,
         NEW e \in Encoders, e = file[f].enc, g = timer[f].next, f # g,
         ScheduleNext(f)
  PROVE
         /\ \A d \in Encoders : d # e => enc'[d] = enc[d]
         /\ enc'[e].started = TRUE /\ enc'[e].timer = g
         /\ enc'[e].open = enc[e].open /\ enc'[e].track = enc[e].track
         /\ enc'[e].known = enc[e].known /\ enc'[e].muxer = enc[e].muxer
         /\ enc'[e].codecs = enc[e].codecs /\ enc'[e].monitor = enc[e].monitor
         /\ enc'[e].listener = enc[e].listener
         /\ enc'[e].disturbed = enc[e].disturbed
         /\ \A d \in Files : d # f /\ d # g => timer'[d] = timer[d]
         /\ timer'[g].pc = "set" /\ timer'[g].periodic = timer[g].periodic
         /\ timer'[g].cancelled = timer[g].cancelled
         /\ timer'[g].old = timer[g].old /\ timer'[g].next = timer[g].next
         /\ timer'[f].pc = "finish" /\ timer'[f].next = 0
         /\ timer'[f].periodic = timer[f].periodic
         /\ timer'[f].cancelled = timer[f].cancelled
         /\ timer'[f].old = timer[f].old
<1>1.
      /\ \A d \in Encoders : d # e => enc'[d] = enc[d]
      /\ enc'[e].started = TRUE /\ enc'[e].timer = g
      /\ enc'[e].open = enc[e].open /\ enc'[e].track = enc[e].track
      /\ enc'[e].known = enc[e].known /\ enc'[e].muxer = enc[e].muxer
      /\ enc'[e].codecs = enc[e].codecs /\ enc'[e].monitor = enc[e].monitor
      /\ enc'[e].listener = enc[e].listener
      /\ enc'[e].disturbed = enc[e].disturbed
  BY SMTT(30) DEF ScheduleNext, EncType, Encoder
<1>2.
      /\ \A d \in Files : d # f /\ d # g => timer'[d] = timer[d]
      /\ timer'[g].pc = "set" /\ timer'[g].periodic = timer[g].periodic
      /\ timer'[g].cancelled = timer[g].cancelled
      /\ timer'[g].old = timer[g].old /\ timer'[g].next = timer[g].next
      /\ timer'[f].pc = "finish" /\ timer'[f].next = 0
      /\ timer'[f].periodic = timer[f].periodic
      /\ timer'[f].cancelled = timer[f].cancelled
      /\ timer'[f].old = timer[f].old
  BY DEF ScheduleNext, TimerType, ResetTimer
<1> QED
  BY Zenon, <1>1, <1>2

-----------------------------------------------------------------------------
(* What every step of one kind leaves alone.                               *)

\* A thread's step leaves the other thread and the other encoders alone.
Others(k) ==
  \A j \in Kinds : j # k =>
    pc'[j] = pc[j] /\ using'[j] = using[j] /\ receiver'[j] = receiver[j]

LEMMA LabelsAfter ==
  ASSUME NEW k \in Kinds
  PROVE  /\ {Rest(k), Thrown(k), AfterSample(k)} \cap (Inside \cup {"enter"}) = {}
         /\ k = "audio" => "idle" \notin {Rest(k), Thrown(k), AfterSample(k)}
BY DEF Rest, Thrown, AfterSample, Inside

LEMMA EncodeFrame ==
  ASSUME Types, PlaceInv, NEW k \in Kinds, Encode(k)
  PROVE  /\ UNCHANGED <<uiVars, saved>> /\ Others(k)
         /\ pc[k] \in Inside \cup {"look", "enter"}
         /\ pc'[k] = "idle" => k = "video"
         /\ \A e \in Encoders :
              /\ enc'[e].codecs = enc[e].codecs /\ enc'[e].open = enc[e].open
              /\ enc'[e].muxer = enc[e].muxer
              /\ enc[e].disturbed => enc'[e].disturbed
              /\ pc[k] = "look" \/ using[k] # e => enc'[e] = enc[e]
         /\ pc[k] # "look" => using[k] \in Encoders
<1>0. EncType /\ FileType /\ TimerType /\ ThreadType
  BY DEF Types
<1>1. UNCHANGED <<uiVars, saved>>
  BY Zenon DEF Encode, LookUp, Enter, UseCodec, AddTrack, StartMuxer, ScheduleReset,
         TestStarted, ReadMuxer, WriteSample, history
<1>2. pc[k] \in Inside \cup {"look", "enter"} /\ (pc[k] # "look" => using[k] \in Encoders)
  BY Zenon DEF Encode, LookUp, Enter, UseCodec, AddTrack, StartMuxer, ScheduleReset,
         TestStarted, ReadMuxer, WriteSample, Inside, PlaceInv, UiPlace, ThreadPlace, FilePlace, TimerPlace
<1>3. Others(k)
  <2>1. \A j \in Kinds : j # k => pc'[j] = pc[j]
    BY ZenonT(60), <1>0 DEF Encode, LookUp, Enter, UseCodec, AddTrack, StartMuxer,
         ScheduleReset, TestStarted, ReadMuxer, WriteSample, Continue, Leave, Goto,
         ThreadType
  <2>2. \A j \in Kinds : j # k => using'[j] = using[j]
    BY ZenonT(60), <1>0 DEF Encode, LookUp, Enter, UseCodec, AddTrack, StartMuxer,
         ScheduleReset, TestStarted, ReadMuxer, WriteSample, Continue, Leave,
         ThreadType
  <2>3. \A j \in Kinds : j # k => receiver'[j] = receiver[j]
    BY <1>0 DEF Encode, LookUp, Enter, UseCodec, AddTrack, StartMuxer,
         ScheduleReset, TestStarted, ReadMuxer, WriteSample, ThreadType
  <2> QED
    BY <2>1, <2>2, <2>3 DEF Others
<1>4. pc'[k] = "idle" => k = "video"
  <2>1. \A l : Goto(k, l) => pc'[k] = l
    BY <1>0 DEF Goto, ThreadType
  <2> QED
    BY Zenon, <1>0, <2>1, LabelsAfter
    DEF Encode, LookUp, Enter, UseCodec, AddTrack, StartMuxer, ScheduleReset,
        TestStarted, ReadMuxer, WriteSample, Continue, Leave, Kinds
<1> DEFINE Same(e) ==
             /\ enc'[e].codecs = enc[e].codecs /\ enc'[e].open = enc[e].open
             /\ enc'[e].muxer = enc[e].muxer
             /\ enc[e].disturbed => enc'[e].disturbed
             /\ pc[k] = "look" \/ using[k] # e => enc'[e] = enc[e]
<1>5. \A e \in Encoders : Same(e)
  <2>1. CASE UNCHANGED enc
    BY <2>1
  <2>2. ASSUME NEW l, Leave(k, l), pc[k] # "look" PROVE \A e \in Encoders : Same(e)
    BY <1>0, <1>2, <2>2, LeaveFx
  <2>3. CASE LookUp(k) \/ ReadMuxer(k)
    BY <2>1, <2>3 DEF LookUp, ReadMuxer, mediaVars, Continue
  <2>4. CASE Enter(k)
    <3>1. using[k] \in Encoders /\ pc[k] # "look"
      BY <1>2, <2>4 DEF Enter
    <3>2. \/ UNCHANGED enc
          \/ enc' = [enc EXCEPT ![using[k]].monitor = k,
                       ![using[k]].disturbed = @ \/ Resets(using[k]) # {}]
      BY <2>4 DEF Enter
    <3>3. ASSUME enc' = [enc EXCEPT ![using[k]].monitor = k,
                       ![using[k]].disturbed = @ \/ Resets(using[k]) # {}]
          PROVE  \A e \in Encoders : Same(e)
      <4>1. /\ \A d \in Encoders : d # using[k] => enc'[d] = enc[d]
            /\ enc'[using[k]].codecs = enc[using[k]].codecs
            /\ enc'[using[k]].open = enc[using[k]].open
            /\ enc'[using[k]].muxer = enc[using[k]].muxer
            /\ enc[using[k]].disturbed => enc'[using[k]].disturbed
        BY ZenonT(60), <1>0, <3>1, <3>3, EnterFx
      <4> QED
        BY <3>1, <4>1
    <3> QED
      BY <2>1, <3>2, <3>3
  <2>5. CASE UseCodec(k)
    <3>1. using[k] \in Encoders /\ pc[k] # "look"
      BY <1>2, <2>5 DEF UseCodec
    <3>2. \/ UNCHANGED enc \/ \E l : Leave(k, l)
          \/ enc' = [enc EXCEPT ![using[k]].known = @ \cup {k}]
      BY <2>5 DEF UseCodec, Continue
    <3>3. CASE enc' = [enc EXCEPT ![using[k]].known = @ \cup {k}]
      BY <1>0, <3>1, <3>3, FormatFx
    <3> QED
      BY <2>1, <2>2, <3>1, <3>2, <3>3
  <2>6. CASE AddTrack(k)
    <3>1. using[k] \in Encoders /\ pc[k] # "look"
      BY <1>2, <2>6 DEF AddTrack
    <3>2. \/ \E l : Leave(k, l)
          \/ enc' = [enc EXCEPT ![using[k]].track[k] =
                       Len(file[enc[using[k]].muxer].tracks)]
      BY <2>6 DEF AddTrack
    <3>3. CASE enc' = [enc EXCEPT ![using[k]].track[k] =
                       Len(file[enc[using[k]].muxer].tracks)]
      BY <1>0, <3>1, <3>3 DEF EncType, Encoder
    <3> QED
      BY <2>2, <3>1, <3>2, <3>3
  <2>7. CASE StartMuxer(k) \/ TestStarted(k) \/ WriteSample(k)
    BY <2>1, <2>2, <2>7 DEF StartMuxer, TestStarted, WriteSample, Continue
  <2>8. CASE ScheduleReset(k)
    <3>1. using[k] \in Encoders /\ receiver[k] \in Files
      BY <1>2, <2>8 DEF ScheduleReset, PlaceInv, UiPlace, ThreadPlace, FilePlace, TimerPlace
    <3>2. /\ \A d \in Encoders : d # using[k] => enc'[d] = enc[d]
          /\ enc'[using[k]].codecs = enc[using[k]].codecs
          /\ enc'[using[k]].open = enc[using[k]].open
          /\ enc'[using[k]].muxer = enc[using[k]].muxer
          /\ enc[using[k]].disturbed => enc'[using[k]].disturbed
      BY Zenon, <1>0, <2>8, <3>1, ScheduleFx
    <3> QED
      BY <3>1, <3>2, <2>8 DEF ScheduleReset
  <2> QED
    BY <2>3, <2>4, <2>5, <2>6, <2>7, <2>8 DEF Encode
<1> QED
  BY <1>1, <1>2, <1>3, <1>4, <1>5

\* A timer's step leaves the threads and the other encoders alone.
LEMMA TimerFrame ==
  ASSUME Types, PlaceInv, NEW f \in Files, Fire(f) \/ Reset(f)
  PROVE  /\ UNCHANGED <<uiVars, threadVars>>
         /\ timer[f].pc # "none" /\ file[f].enc \in Encoders
         /\ \A e \in Encoders :
              /\ enc'[e].codecs = enc[e].codecs /\ enc'[e].open = enc[e].open
              /\ enc'[e].monitor = enc[e].monitor /\ enc'[e].known = enc[e].known
              /\ enc'[e].listener = enc[e].listener
              /\ enc[e].disturbed => enc'[e].disturbed
              /\ e # file[f].enc => enc'[e] = enc[e]
<1>0. EncType /\ FileType /\ TimerType /\ ThreadType
  BY DEF Types
<1>1. UNCHANGED <<uiVars, threadVars>> /\ timer[f].pc # "none"
  BY Zenon DEF Fire, Reset, MarkReset, SwapMuxer, RollMuxer, RestartMuxer, ScheduleNext,
         FinishReset
<1>2. file[f].enc \in Encoders
  BY <1>1 DEF PlaceInv, UiPlace, ThreadPlace, FilePlace, TimerPlace
<1> DEFINE Same(e) ==
              /\ enc'[e].codecs = enc[e].codecs /\ enc'[e].open = enc[e].open
              /\ enc'[e].monitor = enc[e].monitor /\ enc'[e].known = enc[e].known
              /\ enc'[e].listener = enc[e].listener
              /\ enc[e].disturbed => enc'[e].disturbed
              /\ e # file[f].enc => enc'[e] = enc[e]
<1>3. \A e \in Encoders : Same(e)
  <2>1. CASE UNCHANGED enc
    BY Zenon, <2>1
  <2>2. CASE Fire(f) \/ RestartMuxer(f) \/ FinishReset(f)
    BY <2>1, <2>2 DEF Fire, RestartMuxer, FinishReset
  <2>3. CASE MarkReset(f)
    BY <1>0, <1>2, <2>3, MarkFx
  <2>4. CASE \E g \in Files : SwapMuxer(f, g)
    BY <1>0, <1>2, <2>4, SwapFx
  <2>5. CASE RollMuxer(f)
    <3>1. UNCHANGED enc \/ enc' = [enc EXCEPT ![file[f].enc].track = RollTracks]
      BY <2>5 DEF RollMuxer
    <3>2. CASE enc' = [enc EXCEPT ![file[f].enc].track = RollTracks]
      BY SMTT(30), <1>0, <1>2, <3>2 DEF EncType, Encoder
    <3> QED
      BY <2>1, <3>1, <3>2
  <2>6. CASE ScheduleNext(f)
    BY <1>0, <1>2, <2>6 DEF ScheduleNext, EncType, Encoder
  <2> QED
    BY <2>2, <2>3, <2>4, <2>5, <2>6 DEF Reset
<1> QED
  BY <1>1, <1>2, <1>3
-----------------------------------------------------------------------------
(* The UI thread knows the encoder that runs.                              *)

\* Steps of the others that leave codecs and open alone.
LEMMA UiKept ==
  ASSUME Types, PlaceInv, UiInv, UNCHANGED <<ui, isRecording, mp4Encoder>>,
         \A e \in Encoders : /\ enc'[e].codecs = enc[e].codecs
                             /\ enc'[e].open = enc[e].open,
         pc'["audio"] # "idle" => audioRecord' = audioRecord /\ pc["audio"] # "idle"
  PROVE  UiInv'
<1>1. mp4Encoder \in Encoders \cup {0}
      /\ (ui \in Stopping => mp4Encoder \in Encoders)
  BY DEF Types, UiType, PlaceInv, UiPlace, ThreadPlace, FilePlace, TimerPlace
<1> QED
  BY <1>1 DEF UiInv, Stopping

LEMMA ThreadsUi ==
  ASSUME Types, PlaceInv, UiInv, Threads PROVE UiInv'
<1>0. ThreadType /\ {"audio", "video"} = Kinds
  BY DEF Types, Kinds
<1>1. CASE OnFrame
  BY <1>0, <1>1, UiKept DEF OnFrame, uiVars, recordVars, mediaVars, Goto, ThreadType
<1>2. CASE BeginAudio
  BY <1>0, <1>2, UiKept DEF BeginAudio, mediaVars, Goto, ThreadType
<1>3. CASE AudioLoop
  <2>1. UNCHANGED <<ui, isRecording, mp4Encoder, enc>>
    BY <1>3 DEF AudioLoop, mediaVars
  <2>2. pc'["audio"] # "idle" => audioRecord' = audioRecord /\ pc["audio"] # "idle"
    BY <1>0, <1>3 DEF AudioLoop, Goto, ThreadType
  <2> QED
    BY <2>1, <2>2, UiKept
<1>4. ASSUME NEW k \in Kinds, Encode(k) PROVE UiInv'
  <2>1. UNCHANGED <<ui, isRecording, mp4Encoder, audioRecord>>
    BY <1>4, EncodeFrame DEF uiVars, recordVars
  <2>2. pc'["audio"] # "idle" => pc["audio"] # "idle"
    BY <1>0, <1>4, EncodeFrame DEF Others, Inside
  <2>3. \A e \in Encoders : /\ enc'[e].codecs = enc[e].codecs
                            /\ enc'[e].open = enc[e].open
    BY <1>4, EncodeFrame
  <2> QED
    BY <2>1, <2>2, <2>3, UiKept
<1> QED
  BY <1>1, <1>2, <1>3, <1>4 DEF Threads

LEMMA TimersUi ==
  ASSUME Types, PlaceInv, UiInv, Timers PROVE UiInv'
<1>1. PICK f \in Files : Fire(f) \/ Reset(f)
  BY DEF Timers
<1>2. UNCHANGED <<ui, isRecording, mp4Encoder, audioRecord, pc>>
  BY <1>1, TimerFrame DEF uiVars, recordVars, threadVars
<1>3. \A e \in Encoders : /\ enc'[e].codecs = enc[e].codecs
                          /\ enc'[e].open = enc[e].open
  BY <1>1, TimerFrame
<1> QED
  BY <1>2, <1>3, UiKept

LEMMA UisUi ==
  ASSUME Types, PlaceInv, UiInv, Ui PROVE UiInv'
<1>0. UiType /\ EncType /\ FileType /\ ThreadType /\ 0 \notin Encoders
  BY Numbers DEF Types
<1>1. CASE StartCapture \/ StopCapture \/ JoinCapture \/ Destroy
  BY <1>0, <1>1
  DEF StartCapture, StopCapture, JoinCapture, Destroy, recordVars, mediaVars,
      threadVars, UiInv, Stopping
<1>2. CASE StopRecoder \/ StopAudio \/ JoinAudio
  BY <1>0, <1>2
  DEF StopRecoder, StopAudio, JoinAudio, recordVars, mediaVars, threadVars, UiInv,
      Stopping
<1>3. CASE StartRecoder
  BY <1>0, <1>3
  DEF StartRecoder, mediaVars, UiInv, Stopping, ThreadType
<1>4. ASSUME NEW f \in Files, OpenEncoder(f) PROVE UiInv'
  <2>1. PICK e \in Encoders :
           /\ mp4Encoder' = e /\ ui = "newEncoder" /\ ui' = "idle"
           /\ \A d \in Encoders : d # e => enc'[d] = enc[d]
           /\ enc'[e].codecs = "running"
    BY ZenonT(60), <1>0, <1>4, OpenFx
  <2>2. UNCHANGED <<isRecording, audioRecord, pc>>
    BY Zenon, <1>4 DEF OpenEncoder, threadVars
  <2>3. \A d \in Encoders : enc[d].codecs # "running"
    BY <1>0, <2>1 DEF UiInv
  <2>4. \A d \in Encoders : enc'[d].codecs = "running" => d = mp4Encoder'
    BY <2>1, <2>3
  <2>6. pc'["audio"] # "idle" => audioRecord'
    BY <2>2 DEF UiInv
  <2>7. isRecording'
    BY <2>1, <2>2 DEF UiInv
  <2>8. enc'[mp4Encoder'].codecs # "none"
    BY <2>1
  <2> QED
    BY <2>1, <2>4, <2>6, <2>7, <2>8 DEF UiInv, Stopping
<1>5. CASE GetThumbnail
  <2>0. mp4Encoder \in Encoders
    BY <1>5 DEF GetThumbnail, PlaceInv, UiPlace, ThreadPlace, FilePlace, TimerPlace, Stopping
  <2>1. \A e \in Encoders : enc'[e].codecs = enc[e].codecs /\ enc'[e].open = enc[e].open
    BY <1>0, <1>5, <2>0, ThumbnailFx
  <2> QED
    BY <1>5, <2>0, <2>1
    DEF GetThumbnail, recordVars, threadVars, UiInv, Stopping
<1>6. CASE CloseEncoder
  <2>0. mp4Encoder \in Encoders
    BY <1>6 DEF CloseEncoder, PlaceInv, UiPlace, ThreadPlace, FilePlace, TimerPlace, Stopping
  <2>1. /\ \A e \in Encoders : enc'[e].codecs = enc[e].codecs
        /\ ~enc'[mp4Encoder].open
    BY <1>0, <1>6, <2>0, CloseFx
  <2> QED
    BY <1>6, <2>0, <2>1 DEF CloseEncoder, recordVars, threadVars, UiInv, Stopping
<1>7. CASE StopCodecs
  <2>0. mp4Encoder \in Encoders
    BY <1>7 DEF StopCodecs, PlaceInv, UiPlace, ThreadPlace, FilePlace, TimerPlace, Stopping
  <2>1. /\ \A e \in Encoders : e # mp4Encoder => enc'[e] = enc[e]
        /\ enc'[mp4Encoder].open = enc[mp4Encoder].open
        /\ enc'[mp4Encoder].codecs = "released"
    BY <1>0, <1>7, <2>0, CodecsFx
  <2> QED
    BY <1>7, <2>0, <2>1 DEF StopCodecs, recordVars, threadVars, UiInv, Stopping
<1>8. CASE StopMuxer
  <2>0. mp4Encoder \in Encoders
    BY <1>8 DEF StopMuxer, PlaceInv, UiPlace, ThreadPlace, FilePlace, TimerPlace, Stopping
  <2>1. \A e \in Encoders : enc'[e].codecs = enc[e].codecs /\ enc'[e].open = enc[e].open
    <3>1. CASE UNCHANGED enc
      BY <3>1
    <3>2. CASE enc' = [enc EXCEPT ![mp4Encoder].muxer = 0]
      BY <1>0, <2>0, <3>2, ForgetMuxerFx
    <3> QED
      BY <1>8, <3>1, <3>2 DEF StopMuxer
  <2> QED
    BY <1>8, <2>0, <2>1 DEF StopMuxer, recordVars, threadVars, UiInv, Stopping
<1>9. CASE ForgetEncoder
  <2>0. mp4Encoder \in Encoders /\ ~isRecording
    BY <1>9 DEF ForgetEncoder, PlaceInv, UiPlace, ThreadPlace, FilePlace, TimerPlace, Stopping
  <2>1. \A e \in Encoders : enc'[e].codecs # "running"
    BY <1>9, <2>0 DEF ForgetEncoder, mediaVars, UiInv
  <2> QED
    BY <1>0, <1>9, <2>0, <2>1 DEF ForgetEncoder, threadVars, UiInv, Stopping
<1> QED
  BY <1>1, <1>2, <1>3, <1>4, <1>5, <1>6, <1>7, <1>8, <1>9 DEF Ui

LEMMA UiInvNext ==
  ASSUME Types, PlaceInv, UiInv, [Next]_vars PROVE UiInv'
<1>1. CASE UNCHANGED vars
  BY <1>1 DEF vars, uiVars, recordVars, mediaVars, threadVars, UiInv
<1> QED
  BY <1>1, UisUi, ThreadsUi, TimersUi DEF Next
-----------------------------------------------------------------------------
(* A file only goes on: none, new, started, stopped; and stays its encoder's.*)

Later(f) ==
  /\ file[f].state # "none" =>
       file'[f].state # "none" /\ file'[f].enc = file[f].enc
  /\ file[f].state \in {"started", "stopped"} =>
       file'[f].state \in {"started", "stopped"}
  /\ file[f].state = "stopped" => file'[f].state = "stopped"
  /\ file'[f].state # "none" <=> file'[f].enc \in Encoders
  /\ file'[f].state = "none" => file'[f].tracks = <<>>

LEMMA SameLater ==
  ASSUME PlaceInv, NEW f \in Files, file'[f] = file[f] PROVE Later(f)
BY DEF Later, PlaceInv, UiPlace, ThreadPlace, FilePlace, TimerPlace

LEMMA StopLater ==
  ASSUME Types, PlaceInv, NEW f \in Files, file[f].state = "started", Stop(f)
  PROVE  \A g \in Files : Later(g)
<1>1. FileType
  BY DEF Types
<1>2. Later(f)
  BY <1>1, StopFx DEF Later, PlaceInv, UiPlace, ThreadPlace, FilePlace, TimerPlace
<1>3. ASSUME NEW g \in Files, g # f PROVE Later(g)
  <2>1. file'[g] = file[g]
    BY <1>1, <1>3, StopFx
  <2> QED
    BY <2>1, SameLater
<1> QED
  BY <1>2, <1>3

LEMMA StartLater ==
  ASSUME Types, PlaceInv, NEW f \in Files, file[f].state = "new",
         file' = [file EXCEPT ![f].state = "started"]
  PROVE  \A g \in Files : Later(g)
<1>1. FileType
  BY DEF Types
<1>2. /\ file'[f].state = "started" /\ file'[f].enc = file[f].enc
      /\ \A g \in Files : g # f => file'[g] = file[g]
  BY <1>1, StartFx
<1>3. Later(f)
  BY <1>2 DEF Later, PlaceInv, UiPlace, ThreadPlace, FilePlace, TimerPlace
<1> QED
  BY <1>2, <1>3, SameLater

LEMMA TracksLater ==
  ASSUME PlaceInv, NEW f \in Files, file[f].state = "new",
         file'[f].state = "new", file'[f].enc = file[f].enc,
         \A g \in Files : g # f => file'[g] = file[g]
  PROVE  \A g \in Files : Later(g)
<1>1. Later(f)
  BY DEF Later, PlaceInv, UiPlace, ThreadPlace, FilePlace, TimerPlace
<1> QED
  BY <1>1, SameLater

LEMMA NewLater ==
  ASSUME PlaceInv, NEW f \in Files, file[f].state = "none", NEW e \in Encoders,
         file'[f].state = "new", file'[f].enc = e,
         \A g \in Files : g # f => file'[g] = file[g]
  PROVE  \A g \in Files : Later(g)
<1>1. Later(f)
  BY DEF Later, PlaceInv, UiPlace, ThreadPlace, FilePlace, TimerPlace
<1> QED
  BY <1>1, SameLater

LEMMA UiLater ==
  ASSUME Types, PlaceInv, Ui PROVE \A g \in Files : Later(g)
<1>0. EncType /\ FileType /\ TimerType
  BY DEF Types
<1>1. CASE UNCHANGED file
  BY <1>1, SameLater
<1>2. ASSUME NEW f \in Files, OpenEncoder(f) PROVE \A g \in Files : Later(g)
  <2>1. file[f].state = "none"
    BY Zenon, <1>2 DEF OpenEncoder, IsNext, FreeFiles
  <2>2. PICK e \in Encoders : /\ file'[f].state = "new" /\ file'[f].enc = e
                              /\ \A g \in Files : g # f => file'[g] = file[g]
    BY ZenonT(60), <1>0, <1>2, OpenFx
  <2> QED
    BY <2>1, <2>2, NewLater
<1>3. CASE StopMuxer
  <2> DEFINE f == enc[mp4Encoder].muxer
  <2>0. mp4Encoder \in Encoders /\ f \in Files \cup {0}
    BY <1>0, <1>3 DEF StopMuxer, PlaceInv, UiPlace, ThreadPlace, FilePlace, TimerPlace, Stopping, EncType, Encoder
  <2> QED
    BY <1>1, <1>3, <2>0, StopLater DEF StopMuxer
<1> QED
  BY <1>1, <1>2, <1>3
  DEF Ui, StartCapture, StopCapture, JoinCapture, StartRecoder, StopRecoder,
      GetThumbnail, CloseEncoder, StopCodecs, ForgetEncoder, StopAudio, JoinAudio,
      Destroy, mediaVars

LEMMA EncodeLater ==
  ASSUME Types, PlaceInv, NEW k \in Kinds, Encode(k)
  PROVE  \A g \in Files : Later(g)
<1>0. EncType /\ FileType
  BY DEF Types
<1>1. CASE UNCHANGED file
  BY <1>1, SameLater
<1> DEFINE f == enc[using[k]].muxer
<1>2. Takes(f) /\ using[k] \in Encoders => f \in Files /\ file[f].state = "new"
  BY <1>0 DEF Takes, EncType, Encoder
<1>3. pc[k] \in {"addTrack", "start"} => using[k] \in Encoders
  BY DEF PlaceInv, UiPlace, ThreadPlace, FilePlace, TimerPlace, Inside
<1>4. CASE AddTrack(k)
  <2>1. CASE UNCHANGED file
    BY <2>1, SameLater
  <2>2. CASE ~UNCHANGED file
    <3>1. /\ Takes(f) /\ using[k] \in Encoders
          /\ file' = [file EXCEPT ![f].tracks = Append(@, k)]
          /\ enc' = [enc EXCEPT ![using[k]].track[k] = Len(file[f].tracks)]
      BY Zenon, <1>3, <1>4, <2>2 DEF AddTrack
    <3>2. f \in Files /\ file[f].state = "new"
      BY Zenon, <1>2, <3>1
    <3> HIDE DEF f
    <3>3. /\ \A g \in Files : g # f => file'[g] = file[g]
          /\ file'[f].state = file[f].state /\ file'[f].enc = file[f].enc
      BY <1>0, <3>1, <3>2, AddFx
    <3> QED
      BY Zenon, <3>2, <3>3, TracksLater
  <2> QED
    BY <2>1, <2>2
<1>5. CASE StartMuxer(k)
  <2>1. \/ UNCHANGED file
        \/ Takes(f) /\ file' = [file EXCEPT ![f].state = "started"]
    BY <1>5 DEF StartMuxer
  <2>2. using[k] \in Encoders
    BY Zenon, <1>3, <1>5 DEF StartMuxer
  <2> HIDE DEF f
  <2> QED
    BY <1>1, <1>2, <2>1, <2>2, StartLater
<1> QED
  BY <1>1, <1>4, <1>5
  DEF Encode, LookUp, Enter, UseCodec, ScheduleReset, TestStarted, ReadMuxer,
      WriteSample, mediaVars

LEMMA TimerLater ==
  ASSUME Types, PlaceInv, NEW f \in Files, Fire(f) \/ Reset(f)
  PROVE  \A g \in Files : Later(g)
<1>0. EncType /\ FileType /\ TimerType
  BY DEF Types
<1> DEFINE e == file[f].enc
           m == enc[e].muxer
<1>1. e \in Encoders /\ m \in Files \cup {0}
  BY <1>0, TimerFrame DEF EncType, Encoder
<1>2. CASE UNCHANGED file
  BY <1>2, SameLater
<1>3. ASSUME NEW g \in Files, SwapMuxer(f, g) PROVE \A h \in Files : Later(h)
  <2>1. file[g].state = "none"
    BY <1>3 DEF SwapMuxer, IsNext, FreeFiles
  <2>2. /\ file'[g].state = "new" /\ file'[g].enc = e
        /\ \A h \in Files : h # g => file'[h] = file[h]
    BY <1>0, <1>1, <1>3, SwapFx
  <2> HIDE DEF e
  <2> QED
    BY <1>1, <2>1, <2>2, NewLater
<1>4. CASE RollMuxer(f)
  <2>1. CASE ~UNCHANGED file
    <3>1. /\ Takes(m) /\ m \in Files /\ file[m].state = "new"
          /\ file' = [file EXCEPT ![m].tracks = <<"video", "audio">>]
          /\ enc' = [enc EXCEPT ![e].track = RollTracks]
      BY <1>1, <1>4, <2>1 DEF RollMuxer, Takes
    <3> HIDE DEF e, m
    <3>2. /\ file'[m].state = file[m].state /\ file'[m].enc = file[m].enc
          /\ \A h \in Files : h # m => file'[h] = file[h]
      BY <1>0, <1>1, <3>1, RollFx
    <3> QED
      BY Zenon, <3>1, <3>2, TracksLater
  <2> QED
    BY <1>2, <2>1
<1>5. CASE RestartMuxer(f)
  <2>1. \/ UNCHANGED file
        \/ /\ m \in Files /\ file[m].state = "new"
           /\ file' = [file EXCEPT ![m].state = "started"]
    BY <1>1, <1>5 DEF RestartMuxer, Takes
  <2> HIDE DEF m
  <2> QED
    BY Zenon, <1>2, <2>1, StartLater
<1>6. CASE FinishReset(f)
  <2> DEFINE o == timer[f].old
  <2>1. \/ UNCHANGED file
        \/ o \in Files /\ file[o].state = "started" /\ Stop(o)
    BY <1>0, <1>6 DEF FinishReset, TimerType, ResetTimer
  <2> HIDE DEF o
  <2> QED
    BY <1>2, <2>1, StopLater
<1> QED
  BY <1>2, <1>3, <1>4, <1>5, <1>6
  DEF Fire, Reset, MarkReset, ScheduleNext

LEMMA NextLater ==
  ASSUME Types, PlaceInv, [Next]_vars PROVE \A g \in Files : Later(g)
<1>1. CASE UNCHANGED vars
  BY <1>1, SameLater DEF vars, mediaVars
<1>2. CASE OnFrame \/ BeginAudio \/ AudioLoop
  BY <1>2, SameLater DEF OnFrame, BeginAudio, AudioLoop, mediaVars
<1> QED
  BY <1>1, <1>2, UiLater, EncodeLater, TimerLater DEF Next, Threads, Timers
-----------------------------------------------------------------------------
(* The places of threads and timers.                                       *)

\* Timers: one that is no longer "none" belongs to a started file.
TimerMoves ==
  \A f \in Files :
    /\ timer'[f].pc # "none" =>
         \/ timer[f].pc # "none"
         \/ \E k \in Kinds : /\ pc[k] = "schedule" /\ receiver[k] = f
                              /\ pc'[k] \notin Inside
         \/ \E g \in Files : timer[g].pc = "schedule" /\ timer[g].next = f
    /\ timer'[f].pc = "schedule" =>
         \/ timer[f].pc = "schedule" /\ timer'[f].next = timer[f].next
         \/ /\ timer[f].pc # "none" /\ timer'[f].next \in Files
            /\ file[timer'[f].next].state = "new"
            /\ file'[timer'[f].next].state = "started"

LEMMA CancelMoves ==
  ASSUME TimerType, NEW e \in Encoders, NEW f \in Files
  PROVE  /\ CancelTimer(e)[f].pc # "none" <=> timer[f].pc # "none"
         /\ CancelTimer(e)[f].pc \in {timer[f].pc, "over"}
         /\ CancelTimer(e)[f].pc = "over" => timer[f].pc \in {"set", "over"}
         /\ CancelTimer(e)[f].pc = timer[f].pc =>
              /\ CancelTimer(e)[f].next = timer[f].next
              /\ CancelTimer(e)[f].old = timer[f].old
              /\ CancelTimer(e)[f].periodic = timer[f].periodic
              /\ CancelTimer(e)[f].cancelled \in {timer[f].cancelled, TRUE}
BY Zenon DEF CancelTimer, Cancelled, NoTimer, TimerType, ResetTimer

LEMMA EncodeMoves ==
  ASSUME Types, PlaceInv, NEW k \in Kinds, Encode(k) PROVE TimerMoves
<1>0. EncType /\ TimerType
  BY DEF Types
<1>1. CASE UNCHANGED timer
  BY <1>1 DEF TimerMoves
<1>2. CASE ScheduleReset(k)
  <2>1. pc[k] = "schedule" /\ receiver[k] \in Files /\ using[k] \in Encoders
    BY <1>2 DEF ScheduleReset, PlaceInv, ThreadPlace, Inside
  <2>2. /\ \A d \in Files : d # receiver[k] => timer'[d] = timer[d]
        /\ timer'[receiver[k]].pc = "set"
    BY <1>0, <1>2, <2>1, ScheduleFx
  <2>3. pc'[k] = Rest(k)
    BY <1>2 DEF ScheduleReset, Goto, Types, ThreadType
  <2>4. pc'[k] \notin Inside
    BY <2>3, LabelsAfter
  <2> QED
    BY <2>1, <2>2, <2>4 DEF TimerMoves
<1> QED
  BY Zenon, <1>1, <1>2
  DEF Encode, LookUp, Enter, UseCodec, AddTrack, StartMuxer, TestStarted,
      ReadMuxer, WriteSample, mediaVars

LEMMA ResetMoves ==
  ASSUME Types, PlaceInv, NEW f \in Files, Fire(f) \/ Reset(f) PROVE TimerMoves
<1>0. EncType /\ FileType /\ TimerType
  BY DEF Types
<1> DEFINE e == file[f].enc
           m == enc[e].muxer
<1>1. /\ e \in Encoders /\ m \in Files \cup {0} /\ timer[f].pc # "none"
  BY <1>0, TimerFrame DEF EncType, Encoder
<1>a. ASSUME \A g \in Files : g # f => timer'[g] = timer[g], timer'[f].pc # "schedule"
      PROVE  TimerMoves
  BY <1>1, <1>a DEF TimerMoves
<1>b. ASSUME NEW l, l # "schedule", TimerGoto(f, l) PROVE TimerMoves
  BY <1>0, <1>a, <1>b, GotoFx
<1>c. ASSUME EndReset(f) PROVE TimerMoves
  <2>1. /\ \A d \in Files : d # f => timer'[d] = timer[d]
        /\ timer'[f].pc # "schedule"
    BY <1>0, <1>c, EndFx
  <2> QED
    BY <2>1, <1>a
<1>2. CASE Fire(f)
  BY <1>2, <1>b, <1>c DEF Fire
<1>3. CASE MarkReset(f)
  <2>0. timer' = [CancelTimer(e) EXCEPT ![f].pc = "swap"] /\ timer[f].pc = "mark"
    BY <1>3 DEF MarkReset
  <2>1. CancelTimer(e) \in [Files -> ResetTimer]
    BY <1>0, CancelType
  <2>2. /\ \A g \in Files : g # f => timer'[g] = CancelTimer(e)[g]
        /\ timer'[f].pc = "swap"
    BY <2>0, <2>1 DEF ResetTimer
  <2> HIDE DEF e
  <2>3. ASSUME NEW g \in Files, g # f
        PROVE  /\ timer'[g].pc # "none" => timer[g].pc # "none"
               /\ timer'[g].pc = "schedule" =>
                    timer[g].pc = "schedule" /\ timer'[g].next = timer[g].next
    <3>1. timer'[g] = CancelTimer(e)[g]
      BY <2>2, <2>3
    <3>2. /\ CancelTimer(e)[g].pc # "none" <=> timer[g].pc # "none"
          /\ CancelTimer(e)[g].pc \in {timer[g].pc, "over"}
          /\ CancelTimer(e)[g].pc = timer[g].pc =>
               CancelTimer(e)[g].next = timer[g].next
      BY Zenon, <1>0, <1>1, CancelMoves
    <3> QED
      BY <3>1, <3>2
  <2> QED
    BY Zenon, <1>1, <2>2, <2>3 DEF TimerMoves
<1>4. ASSUME NEW g \in Files, SwapMuxer(f, g) PROVE TimerMoves
  <2>1. /\ \A d \in Files : d # f => timer'[d] = timer[d]
        /\ timer'[f].pc = "addTracks"
    BY Zenon, <1>0, <1>1, <1>4, SwapFx
  <2> QED
    BY <2>1, <1>a
<1>5. CASE RollMuxer(f)
  BY <1>5, <1>b, <1>c DEF RollMuxer
<1>6. CASE RestartMuxer(f)
  <2>1. \/ TimerGoto(f, "finish") \/ EndReset(f)
        \/ /\ m \in Files /\ file[m].state = "new"
           /\ file' = [file EXCEPT ![m].state = "started"]
           /\ timer' = [timer EXCEPT ![f].pc = "schedule", ![f].next = m]
    BY <1>1, <1>6 DEF RestartMuxer, Takes
  <2> HIDE DEF m
  <2>2. ASSUME m \in Files, file[m].state = "new",
               file' = [file EXCEPT ![m].state = "started"],
               timer' = [timer EXCEPT ![f].pc = "schedule", ![f].next = m]
        PROVE  TimerMoves
    <3>1. file'[m].state = "started"
      BY <1>0, <2>2, StartFx
    <3>2. /\ \A d \in Files : d # f => timer'[d] = timer[d]
          /\ timer'[f].pc = "schedule" /\ timer'[f].next = m
      BY <1>0, <2>2, RestartFx
    <3> QED
      BY <1>1, <2>2, <3>1, <3>2 DEF TimerMoves
  <2> QED
    BY Zenon, <2>1, <2>2, <1>b, <1>c
<1>7. CASE ScheduleNext(f)
  <2> DEFINE g == timer[f].next
  <2>1. timer[f].pc = "schedule" /\ g \in Files /\ f # g
    BY <1>7 DEF ScheduleNext, PlaceInv, TimerPlace
  <2>2. /\ \A d \in Files : d # f /\ d # g => timer'[d] = timer[d]
        /\ timer'[g].pc = "set" /\ timer'[f].pc = "finish"
    BY <1>0, <1>7, <2>1 DEF ScheduleNext, TimerType, ResetTimer
  <2> QED
    BY <2>1, <2>2 DEF TimerMoves
<1>8. CASE FinishReset(f)
  BY <1>8, <1>c DEF FinishReset
<1> QED
  BY <1>2, <1>3, <1>4, <1>5, <1>6, <1>7, <1>8 DEF Reset

LEMMA NextMoves ==
  ASSUME Types, PlaceInv, [Next]_vars PROVE TimerMoves
<1>0. TimerType /\ EncType
  BY DEF Types
<1>1. CASE UNCHANGED timer
  BY <1>1 DEF TimerMoves
<1>2. CASE CloseEncoder
  <2>1. mp4Encoder \in Encoders /\ timer' = CancelTimer(mp4Encoder)
    BY <1>2 DEF CloseEncoder, TimersOnClose, PlaceInv, UiPlace, Stopping
  <2> QED
    BY Zenon, <1>0, <2>1, CancelMoves DEF TimerMoves
<1>3. CASE OnFrame \/ BeginAudio \/ AudioLoop \/ UNCHANGED vars
  BY <1>1, <1>3 DEF OnFrame, BeginAudio, AudioLoop, vars, mediaVars
<1>4. CASE Ui
  BY Zenon, <1>1, <1>2, <1>4
  DEF Ui, StartCapture, StopCapture, JoinCapture, StartRecoder, OpenEncoder,
      StopRecoder, GetThumbnail, StopCodecs, StopMuxer, ForgetEncoder, StopAudio,
      JoinAudio, Destroy, mediaVars
<1> QED
  BY <1>3, <1>4, EncodeMoves, ResetMoves DEF Next, Threads, Timers

LEMMA ThreadPlaceNext ==
  ASSUME Types, PlaceInv, [Next]_vars PROVE ThreadPlace'
<1>0. ThreadType /\ EncType /\ FileType /\ \A f \in Files : Later(f)
  BY NextLater DEF Types
<1>1. ASSUME NEW k \in Kinds,
             pc'[k] \in Inside \cup {"enter"} => pc'[k] = pc[k] /\ using'[k] = using[k],
             pc'[k] = "schedule" => receiver'[k] = receiver[k]
      PROVE  /\ pc'[k] \in Inside \cup {"enter"} => using'[k] \in Encoders
             /\ pc'[k] = "schedule" =>
                  /\ receiver'[k] \in Files
                  /\ file'[receiver'[k]].state \in {"started", "stopped"}
  BY <1>0, <1>1 DEF PlaceInv, ThreadPlace, Later, Inside
<1>2. CASE UNCHANGED threadVars
  BY <1>1, <1>2 DEF threadVars, ThreadPlace
<1>3. CASE StartRecoder \/ OnFrame \/ BeginAudio \/ AudioLoop
  <2>1. \A k \in Kinds :
          /\ pc'[k] \in {pc[k], "new", "look", "loop", "idle"}
          /\ using'[k] = using[k] /\ receiver'[k] = receiver[k]
    BY <1>0, <1>3 DEF StartRecoder, OnFrame, BeginAudio, AudioLoop, Goto, ThreadType
  <2> QED
    BY <1>1, <2>1 DEF ThreadPlace, Inside
<1>4. ASSUME NEW k \in Kinds, Encode(k) PROVE ThreadPlace'
  <2>0. Others(k) /\ (pc[k] # "look" => using[k] \in Encoders)
    BY <1>4, EncodeFrame
  <2>1. ASSUME NEW j \in Kinds, j # k
        PROVE  /\ pc'[j] \in Inside \cup {"enter"} => using'[j] \in Encoders
               /\ pc'[j] = "schedule" =>
                    /\ receiver'[j] \in Files
                    /\ file'[receiver'[j]].state \in {"started", "stopped"}
    BY <1>1, <2>0, <2>1 DEF Others
  <2>2. \A l : Goto(k, l) => pc'[k] = l
    BY <1>0 DEF Goto, ThreadType
  <2>3. CASE LookUp(k)
    <3>1. pc'[k] \in Inside \cup {"enter"} => pc'[k] = "enter" /\ using'[k] \in Encoders
      <4>1. mp4Encoder # 0 => mp4Encoder \in Encoders
        BY DEF Types, UiType
      <4>2. \/ pc'[k] \in {Thrown(k), Rest(k)}
            \/ pc'[k] = "enter" /\ mp4Encoder # 0
               /\ using' = [using EXCEPT ![k] = mp4Encoder]
        BY <2>2, <2>3 DEF LookUp
      <4> QED
        BY <1>0, <4>1, <4>2, LabelsAfter DEF ThreadType
    <3> QED
      BY <2>1, <3>1 DEF ThreadPlace, Inside
  <2>4. CASE StartMuxer(k)
    <3> DEFINE f == enc[using[k]].muxer
    <3>0. using[k] \in Encoders /\ f \in Files \cup {0}
      BY <1>0, <2>0, <2>4 DEF StartMuxer, EncType, Encoder
    <3>1. CASE Leave(k, IF Ready(using[k]) THEN Thrown(k) ELSE Rest(k))
      <4>1. pc'[k] \in {Thrown(k), Rest(k)}
        BY <2>2, <3>1 DEF Leave
      <4> QED
        BY <2>1, <4>1, LabelsAfter DEF ThreadPlace, Inside
    <3>2. CASE /\ Takes(f) /\ file' = [file EXCEPT ![f].state = "started"]
               /\ receiver' = [receiver EXCEPT ![k] = f]
               /\ Continue(k, "schedule")
      <4>1. f \in Files /\ receiver'[k] = f /\ pc'[k] = "schedule" /\ using' = using
        BY SMTT(30), <1>0, <2>2, <3>0, <3>2 DEF Takes, ThreadType, Continue
      <4>2. file'[f].state = "started"
        BY <1>0, <3>2, <4>1, StartFx
      <4> QED
        BY <2>1, <3>0, <4>1, <4>2 DEF ThreadPlace
    <3> QED
      BY <2>4, <3>1, <3>2 DEF StartMuxer
  <2>5. CASE pc'[k] \in {Rest(k), Thrown(k), AfterSample(k)}
    BY <2>1, <2>5, LabelsAfter DEF ThreadPlace, Inside
  <2>6. CASE pc'[k] # "schedule" /\ using' = using /\ pc[k] # "look"
    BY <2>0, <2>1, <2>6 DEF ThreadPlace
  <2> QED
    BY Zenon, <1>4, <2>2, <2>3, <2>4, <2>5, <2>6
    DEF Encode, Enter, UseCodec, AddTrack, ScheduleReset, TestStarted, ReadMuxer,
        WriteSample, Continue, Leave
<1>5. CASE Ui
  BY Zenon, <1>2, <1>3, <1>5
  DEF Ui, StartCapture, StopCapture, JoinCapture, OpenEncoder, StopRecoder,
      GetThumbnail, CloseEncoder, StopCodecs, StopMuxer, ForgetEncoder, StopAudio,
      JoinAudio, Destroy
<1>6. CASE UNCHANGED vars
  BY <1>2, <1>6 DEF vars
<1>7. CASE Timers
  BY <1>2, <1>7, TimerFrame DEF Timers
<1> QED
  BY <1>3, <1>4, <1>5, <1>6, <1>7 DEF Next, Threads
LEMMA UiPlaceNext ==
  ASSUME Types, PlaceInv, [Next]_vars PROVE UiPlace'
<1>0. UiType /\ EncType /\ FileType /\ ThreadType /\ MaxRecordings \in Encoders
  BY Numbers DEF Types, Encoders
<1>1. ASSUME UNCHANGED <<ui, isRecording, mp4Encoder>>,
             \A e \in Encoders : enc'[e].codecs = enc[e].codecs
      PROVE  UiPlace'
  BY <1>0, <1>1 DEF PlaceInv, UiPlace
<1>2. CASE UNCHANGED vars \/ OnFrame \/ BeginAudio \/ AudioLoop
  BY <1>1, <1>2
  DEF OnFrame, BeginAudio, AudioLoop, vars, uiVars, recordVars, mediaVars
<1>3. ASSUME NEW k \in Kinds, Encode(k) PROVE UiPlace'
  BY <1>1, <1>3, EncodeFrame DEF uiVars, recordVars
<1>4. CASE Timers
  BY <1>1, <1>4, TimerFrame DEF Timers, uiVars, recordVars
<1>5. CASE Ui
  <2>1. CASE StartCapture \/ StopCapture \/ JoinCapture \/ Destroy
    BY <2>1
    DEF StartCapture, StopCapture, JoinCapture, Destroy, recordVars, PlaceInv,
        UiPlace, Stopping
  <2>2. CASE StartRecoder \/ StopRecoder
    BY <2>2
    DEF StartRecoder, StopRecoder, mediaVars, PlaceInv, UiPlace, Stopping
  <2>3. ASSUME NEW f \in Files, OpenEncoder(f) PROVE UiPlace'
    <3>1. mp4Encoder' \in Encoders /\ ui' = "idle"
      BY <1>0, <2>3, OpenFx
    <3> QED
      BY <3>1 DEF UiPlace, Stopping
  <2>4. CASE GetThumbnail \/ CloseEncoder \/ StopCodecs \/ StopMuxer
    BY <2>4
    DEF GetThumbnail, CloseEncoder, StopCodecs, StopMuxer, recordVars, PlaceInv,
        UiPlace, Stopping
  <2>5. CASE ForgetEncoder \/ StopAudio \/ JoinAudio
    BY <2>5
    DEF ForgetEncoder, StopAudio, JoinAudio, recordVars, PlaceInv, UiPlace,
        Stopping
  <2> QED
    BY <1>5, <2>1, <2>2, <2>3, <2>4, <2>5 DEF Ui
<1> QED
  BY <1>2, <1>3, <1>4, <1>5 DEF Next, Threads

LEMMA PlaceNext ==
  ASSUME Types, PlaceInv, [Next]_vars PROVE PlaceInv'
<1>1. FilePlace'
  BY NextLater DEF Later, FilePlace
<1>2. TimerPlace'
  <2>1. \A f \in Files : timer'[f].pc # "none" =>
          file[f].state \in {"started", "stopped"}
    BY NextMoves DEF TimerMoves, PlaceInv, ThreadPlace, TimerPlace
  <2>2. \A f \in Files : timer'[f].pc = "schedule" =>
          /\ timer'[f].next \in Files \ {f}
          /\ file'[timer'[f].next].state \in {"started", "stopped"}
    <3>1. ASSUME NEW f \in Files, timer[f].pc = "schedule",
                 timer'[f].next = timer[f].next
          PROVE  /\ timer'[f].next \in Files \ {f}
                 /\ file'[timer'[f].next].state \in {"started", "stopped"}
      BY <3>1, NextLater DEF PlaceInv, TimerPlace, Later
    <3>2. ASSUME NEW f \in Files, timer[f].pc # "none",
                 timer'[f].next \in Files, file[timer'[f].next].state = "new"
          PROVE  timer'[f].next \in Files \ {f}
      BY <3>2 DEF PlaceInv, TimerPlace
    <3> QED
      BY <3>1, <3>2, NextMoves DEF TimerMoves
  <2> QED
    BY <2>1, <2>2, NextLater DEF TimerPlace, Later
<1> QED
  BY <1>1, <1>2, ThreadPlaceNext, UiPlaceNext DEF PlaceInv

-----------------------------------------------------------------------------
(* Saved files.                                                            *)

LEMMA AutoSavedNext ==
  ASSUME Types, PlaceInv, AutoSavedIsFinished, [Next]_vars
  PROVE  AutoSavedIsFinished'
<1>0. FileType /\ TimerType /\ saved \in Seq(Files) /\ \A f \in Files : Later(f)
  BY NextLater DEF Types, HistoryType
<1>1. \A i \in DOMAIN saved : saved[i] \in Files
  BY <1>0
<1>2. CASE UNCHANGED saved
  BY <1>0, <1>1, <1>2 DEF AutoSavedIsFinished, Later
<1>3. ASSUME NEW f \in Files, FinishReset(f), ~UNCHANGED saved
      PROVE  AutoSavedIsFinished'
  <2> DEFINE g == timer[f].old
  <2>1. /\ g \in Files /\ file[g].state = "started"
        /\ Stop(g) /\ saved' = Append(saved, g)
    BY <1>0, <1>3 DEF FinishReset, SavedName, TimerType, ResetTimer
  <2> HIDE DEF g
  <2>2. file'[g].state = "stopped"
    BY <1>0, <2>1, StopFx
  <2>3. \A i \in DOMAIN saved : saved[i] # g
    BY <1>1, <2>1 DEF AutoSavedIsFinished
  <2>4. /\ DOMAIN saved = 1..Len(saved) /\ Len(saved) \in Nat
        /\ DOMAIN saved' = 1..(Len(saved) + 1)
        /\ \A i \in DOMAIN saved : saved'[i] = saved[i]
        /\ saved'[Len(saved) + 1] = g
    BY <1>0, <2>1
  <2>5. \A i \in DOMAIN saved' : i \in DOMAIN saved \/ i = Len(saved) + 1
    BY <2>4
  <2>6. \A i \in DOMAIN saved' : file'[saved'[i]].state = "stopped"
    BY <1>0, <1>1, <2>2, <2>4, <2>5 DEF AutoSavedIsFinished, Later
  <2>7. \A i, j \in DOMAIN saved' : saved'[i] = saved'[j] => i = j
    BY <2>3, <2>4, <2>5 DEF AutoSavedIsFinished
  <2> QED
    BY <2>6, <2>7 DEF AutoSavedIsFinished
<1>4. CASE UNCHANGED vars \/ Ui \/ OnFrame \/ BeginAudio \/ AudioLoop
  <2>1. UNCHANGED saved
    BY Zenon, <1>4
    DEF Ui, StartCapture, StopCapture, JoinCapture, StartRecoder, OpenEncoder,
        StopRecoder, GetThumbnail, CloseEncoder, StopCodecs, StopMuxer,
        ForgetEncoder, StopAudio, JoinAudio, Destroy, vars, history, OnFrame,
        BeginAudio, AudioLoop
  <2> QED
    BY <1>2, <2>1
<1>5. ASSUME NEW k \in Kinds, Encode(k) PROVE UNCHANGED saved
  BY <1>5, EncodeFrame
<1>6. ASSUME NEW f \in Files, Fire(f) \/ Reset(f), ~FinishReset(f)
      PROVE  UNCHANGED saved
  BY Zenon, <1>6
  DEF Fire, Reset, MarkReset, SwapMuxer, RollMuxer, RestartMuxer, ScheduleNext,
      history
<1> QED
  BY <1>2, <1>3, <1>4, <1>5, <1>6 DEF Next, Threads, Timers
-----------------------------------------------------------------------------
(* Samples in the wrong track.                                             *)

LEMMA MixedNext ==
  ASSUME Types, PlaceInv, TrackInv, ReceiverInv, MixedInv, [Next]_vars
  PROVE  MixedInv'
<1>0. /\ EncType /\ FileType /\ ThreadType /\ mixed \subseteq Files
      /\ \A f \in Files : Later(f)
  BY NextLater DEF Types, HistoryType
<1>1. ASSUME NEW f \in Files, NEW g \in Files, g > f, file[f].enc \in Encoders,
             file[g].enc = file[f].enc
      PROVE  file'[f].enc \in Encoders /\ file'[g].enc = file'[f].enc
  BY <1>0, <1>1 DEF PlaceInv, FilePlace, Later
<1>2. CASE UNCHANGED mixed
  BY <1>0, <1>1, <1>2 DEF MixedInv
<1>3. ASSUME NEW k \in Kinds, WriteSample(k), ~UNCHANGED mixed
      PROVE  MixedInv'
  <2> DEFINE e == using[k]
             f == receiver[k]
             i == enc[e].track[k]
  <2>1. /\ pc[k] = "write" /\ e \in Encoders /\ f \in Files \cup {0}
        /\ Accepts(f, i) /\ mixed' = mixed \cup {f} /\ file[f].tracks[i + 1] # k
    BY <1>0, <1>3
    DEF WriteSample, PlaceInv, ThreadPlace, Inside, ThreadType
  <2>2. i \in -1..1 /\ enc[e].muxer \in Files \cup {0}
    BY <1>0, <2>1 DEF EncType, Encoder
  <2> HIDE DEF e, i, f
  <2>3. f \in Files /\ file[f].state = "started" /\ i # -1
    BY <2>1, <2>2 DEF Accepts, HasTrack
  <2>4. enc[e].muxer # f
    BY <2>1, <2>3 DEF TrackInv, i
  <2>5. file[f].enc = e /\ \E g \in Files : g > f /\ file[g].enc = e
    BY <2>1, <2>3, <2>4 DEF ReceiverInv, e, f
  <2> QED
    BY <1>0, <1>1, <2>1, <2>3, <2>5 DEF MixedInv
<1>4. CASE UNCHANGED vars \/ Ui \/ OnFrame \/ BeginAudio \/ AudioLoop
  <2>1. UNCHANGED mixed
    BY Zenon, <1>4
    DEF Ui, StartCapture, StopCapture, JoinCapture, StartRecoder, OpenEncoder,
        StopRecoder, GetThumbnail, CloseEncoder, StopCodecs, StopMuxer,
        ForgetEncoder, StopAudio, JoinAudio, Destroy, vars, history, OnFrame,
        BeginAudio, AudioLoop
  <2> QED
    BY <1>2, <2>1
<1>5. ASSUME NEW k \in Kinds, Encode(k), ~WriteSample(k) PROVE UNCHANGED mixed
  BY Zenon, <1>5
  DEF Encode, LookUp, Enter, UseCodec, AddTrack, StartMuxer, ScheduleReset,
      TestStarted, ReadMuxer, history
<1>6. ASSUME NEW f \in Files, Fire(f) \/ Reset(f) PROVE UNCHANGED mixed
  BY Zenon, <1>6
  DEF Fire, Reset, MarkReset, SwapMuxer, RollMuxer, RestartMuxer, ScheduleNext,
      FinishReset, history
<1> QED
  BY <1>2, <1>3, <1>4, <1>5, <1>6 DEF Next, Threads, Timers

-----------------------------------------------------------------------------
(* The monitor.                                                            *)

LEMMA MonitorKept ==
  ASSUME MonitorInv, \A e \in Encoders : enc'[e].monitor = enc[e].monitor,
         \A e \in Encoders, k \in Kinds : Within(k, e)' <=> Within(k, e)
  PROVE  MonitorInv'
BY DEF MonitorInv

LEMMA MonitorLeft ==
  ASSUME Types, MonitorInv, NEW k \in Kinds, NEW e \in Encoders, Within(k, e),
         Others(k), pc'[k] \notin Inside, enc'[e].monitor = "free",
         \A d \in Encoders : d # e => enc'[d].monitor = enc[d].monitor
  PROVE  MonitorInv'
<1>1. \A d \in Encoders, j \in Kinds : j # k => (Within(j, d)' <=> Within(j, d))
  BY DEF Others, Within
<1>2. \A j \in Kinds : j # k => ~Within(j, e)
  BY DEF MonitorInv
<1>3. \A d \in Encoders : ~Within(k, d)'
  BY DEF Within
<1>4. \A d \in Encoders : d # e => ~Within(k, d)
  BY DEF Within
<1>5. "free" \notin Kinds
  BY DEF Kinds
<1> QED
  BY <1>1, <1>2, <1>3, <1>4, <1>5 DEF MonitorInv

LEMMA MonitorEntered ==
  ASSUME Types, MonitorInv, NEW k \in Kinds, NEW e \in Encoders, Others(k),
         enc[e].monitor = "free", enc'[e].monitor = k, pc[k] \notin Inside,
         pc'[k] \in Inside, using'[k] = e,
         \A d \in Encoders : d # e => enc'[d].monitor = enc[d].monitor
  PROVE  MonitorInv'
<1>1. \A d \in Encoders, j \in Kinds : j # k => (Within(j, d)' <=> Within(j, d))
  BY DEF Others, Within
<1>2. "free" \notin Kinds
  BY DEF Kinds
<1>3. \A j \in Kinds : ~Within(j, e)
  BY <1>2 DEF MonitorInv
<1>4. \A d \in Encoders : ~Within(k, d) /\ (Within(k, d)' <=> d = e)
  BY DEF Within
<1> QED
  BY <1>1, <1>3, <1>4 DEF MonitorInv

LEMMA MonitorNext ==
  ASSUME Types, PlaceInv, UiInv, MonitorInv, [Next]_vars PROVE MonitorInv'
<1>0. EncType /\ FileType /\ TimerType /\ ThreadType
  BY DEF Types
<1>a. ASSUME UNCHANGED <<pc, using>> PROVE
         \A e \in Encoders, k \in Kinds : Within(k, e)' <=> Within(k, e)
  BY <1>a DEF Within
<1>1. CASE UNCHANGED vars
  BY <1>a, <1>1, MonitorKept DEF vars, threadVars, mediaVars
<1>2. CASE Timers
  BY <1>a, <1>2, MonitorKept, TimerFrame DEF Timers, threadVars
<1>3. CASE OnFrame \/ BeginAudio \/ AudioLoop \/ StartRecoder
  <2>1. UNCHANGED <<enc, using>>
    BY <1>3 DEF OnFrame, BeginAudio, AudioLoop, StartRecoder, mediaVars
  <2>2. \A k \in Kinds : pc[k] \in Inside <=> pc'[k] \in Inside
    <3>1. StartRecoder => pc["audio"] = "idle"
      BY DEF StartRecoder, UiInv, Stopping
    <3> QED
      BY <1>0, <1>3, <3>1
      DEF OnFrame, BeginAudio, AudioLoop, StartRecoder, Goto, ThreadType, Inside
  <2> QED
    BY <2>1, <2>2, MonitorKept DEF Within
<1>4. CASE Ui /\ ~StartRecoder
  <2>1. UNCHANGED threadVars
    BY Zenon, <1>4
    DEF Ui, StartCapture, StopCapture, JoinCapture, OpenEncoder, StopRecoder,
        GetThumbnail, CloseEncoder, StopCodecs, StopMuxer, ForgetEncoder,
        StopAudio, JoinAudio, Destroy
  <2>2. ui \in Stopping => mp4Encoder \in Encoders
    BY DEF PlaceInv, UiPlace
  <2>3. \A e \in Encoders : enc'[e].monitor = enc[e].monitor
    <3>1. CASE UNCHANGED enc
      BY <3>1
    <3>2. ASSUME NEW f \in Files, OpenEncoder(f)
          PROVE  \A e \in Encoders : enc'[e].monitor = enc[e].monitor
      BY <1>0, <3>2, OpenFx
    <3>3. CASE GetThumbnail
      BY <1>0, <2>2, <3>3, ThumbnailFx DEF GetThumbnail, Stopping
    <3>4. CASE CloseEncoder
      BY <1>0, <2>2, <3>4, CloseFx DEF CloseEncoder, Stopping
    <3>5. CASE StopCodecs
      BY <1>0, <2>2, <3>5, CodecsFx DEF StopCodecs, Stopping
    <3>6. CASE StopMuxer
      BY <1>0, <2>2, <3>1, <3>6, ForgetMuxerFx DEF StopMuxer, Stopping
    <3> QED
      BY <1>4, <3>1, <3>2, <3>3, <3>4, <3>5, <3>6
      DEF Ui, StartCapture, StopCapture, JoinCapture, StopRecoder, ForgetEncoder,
          StopAudio, JoinAudio, Destroy, mediaVars
  <2> QED
    BY <1>a, <2>1, <2>3, MonitorKept DEF threadVars
<1>5. ASSUME NEW k \in Kinds, Encode(k) PROVE MonitorInv'
  <2>0. /\ Others(k) /\ (pc[k] # "look" => using[k] \in Encoders)
        /\ \A e \in Encoders : using[k] # e => enc'[e].monitor = enc[e].monitor
    BY <1>5, EncodeFrame DEF LookUp, mediaVars
  <2>1. \A l : Goto(k, l) => pc'[k] = l
    BY <1>0 DEF Goto, ThreadType
  <2>2. ASSUME NEW l \in {Rest(k), Thrown(k), AfterSample(k)}, Leave(k, l),
               pc[k] \in Inside
        PROVE  MonitorInv'
    <3>1. using[k] \in Encoders /\ Within(k, using[k])
      BY <2>0, <2>2 DEF Within, Inside
    <3>2. enc'[using[k]].monitor = "free" /\ pc'[k] = l
      BY <1>0, <2>1, <2>2, <3>1, LeaveFx DEF Leave
    <3>3. pc'[k] \notin Inside
      BY <2>2, <3>2, LabelsAfter
    <3> QED
      BY <2>0, <3>1, <3>2, <3>3, MonitorLeft
  <2>3. ASSUME pc[k] \in Inside, pc'[k] \in Inside, using' = using,
               \A e \in Encoders : enc'[e].monitor = enc[e].monitor
        PROVE  MonitorInv'
    BY <2>0, <2>3, MonitorKept DEF Others, Within
  <2>4. ASSUME NEW l \in Inside, Continue(k, l), pc[k] \in Inside PROVE MonitorInv'
    BY <2>1, <2>3, <2>4 DEF Continue
  <2>5. ASSUME pc[k] \notin Inside, pc'[k] \notin Inside, UNCHANGED enc
        PROVE  MonitorInv'
    BY <2>0, <2>5, MonitorKept DEF Others, Within
  <2>6. CASE LookUp(k)
    <3>1. pc'[k] \in {Thrown(k), Rest(k), "enter"} /\ UNCHANGED enc
      BY <2>1, <2>6 DEF LookUp, mediaVars
    <3> QED
      BY <2>5, <2>6, <3>1, LabelsAfter DEF LookUp, Inside
  <2>7. CASE Enter(k)
    <3> DEFINE e == using[k]
    <3>0. pc[k] = "enter" /\ e \in Encoders /\ enc[e].monitor = "free"
      BY <2>0, <2>7 DEF Enter
    <3>1. CASE ~MayEnter(e)
      BY <2>1, <2>5, <2>7, <3>0, <3>1, LabelsAfter DEF Enter, Inside
    <3>2. CASE MayEnter(e)
      <4>1. /\ pc'[k] = "codec" /\ using' = using
            /\ enc' = [enc EXCEPT ![e].monitor = k,
                                  ![e].disturbed = @ \/ Resets(e) # {}]
        BY <2>1, <2>7, <3>2 DEF Enter
      <4>2. enc'[e].monitor = k
        BY <1>0, <3>0, <4>1, EnterFx
      <4>3. pc[k] \notin Inside /\ pc'[k] \in Inside
        BY <3>0, <4>1 DEF Inside
      <4> QED
        BY <2>0, <3>0, <4>1, <4>2, <4>3, MonitorEntered
    <3> QED
      BY <3>1, <3>2
  <2>8. CASE UseCodec(k)
    <3>0. pc[k] = "codec" /\ using[k] \in Encoders /\ pc[k] \in Inside
      BY <2>0, <2>8 DEF UseCodec, Inside
    <3>1. CASE enc' = [enc EXCEPT ![using[k]].known = @ \cup {k}]
               /\ pc'[k] = "addTrack" /\ using' = using
      BY Zenon, <1>0, <2>0, <2>3, <3>0, <3>1, FormatFx DEF Inside
    <3> QED
      BY <2>1, <2>2, <2>4, <2>8, <3>0, <3>1 DEF UseCodec, Inside
  <2>9. CASE AddTrack(k)
    <3> DEFINE f == enc[using[k]].muxer
    <3>0. pc[k] = "addTrack" /\ using[k] \in Encoders /\ pc[k] \in Inside
      BY <2>0, <2>9 DEF AddTrack, Inside
    <3>1. ASSUME enc' = [enc EXCEPT ![using[k]].track[k] = Len(file[f].tracks)],
                 pc'[k] = "start", using' = using
          PROVE  MonitorInv'
      <4>1. enc'[using[k]].monitor = enc[using[k]].monitor
        BY Zenon, <1>0, <3>0, <3>1 DEF EncType, Encoder
      <4> QED
        BY <2>0, <2>3, <3>0, <3>1, <4>1 DEF Inside
    <3> QED
      BY Zenon, <2>1, <2>2, <2>9, <3>0, <3>1 DEF AddTrack
  <2>10. CASE StartMuxer(k) \/ TestStarted(k) \/ WriteSample(k) \/ ReadMuxer(k)
    BY <2>2, <2>4, <2>10
    DEF StartMuxer, TestStarted, WriteSample, ReadMuxer, Inside
  <2>11. CASE ScheduleReset(k)
    <3>0. /\ pc[k] = "schedule" /\ using[k] \in Encoders /\ Within(k, using[k])
          /\ receiver[k] \in Files
      BY <2>0, <2>11 DEF ScheduleReset, Inside, Within, PlaceInv, ThreadPlace
    <3>1. enc'[using[k]].monitor = "free"
      BY <1>0, <2>11, <3>0, ScheduleFx
    <3>2. pc'[k] \notin Inside
      BY <2>1, <2>11, LabelsAfter DEF ScheduleReset
    <3> QED
      BY <2>0, <3>0, <3>1, <3>2, MonitorLeft
  <2> QED
    BY <1>5, <2>6, <2>7, <2>8, <2>9, <2>10, <2>11 DEF Encode
<1> QED
  BY <1>1, <1>2, <1>3, <1>4, <1>5 DEF Next, Threads
-----------------------------------------------------------------------------
(* Encoders and files in order.                                            *)

\* The first encoder that was not made yet.
LEMMA FreshEncoder ==
  ASSUME EncType, PlaceInv, OrderInv, ui = "newEncoder", NEW e \in Encoders,
         e = Cardinality({d \in Encoders : enc[d].codecs # "none"}) + 1
  PROVE  /\ enc[e] = NewEncoder /\ Of(e) = {}
         /\ \A d \in Encoders : d < e => enc[d].codecs # "none"
<1> DEFINE S == {d \in Encoders : enc[d].codecs # "none"}
           n == Cardinality(S)
<1>0. /\ e = n + 1 /\ \A d \in S, c \in Encoders : c < d => c \in S
      /\ S \subseteq 1..MaxRecordings /\ MaxRecordings \in Nat /\ e \in Nat
      /\ Encoders = 1..MaxRecordings
  BY Numbers DEF OrderInv, Encoders
<1>x. e \in S <=> enc[e].codecs # "none"
  OBVIOUS
<1>y. \A d \in Encoders : d \in S <=> enc[d].codecs # "none"
  OBVIOUS
<1> HIDE DEF S
<1>1. IsFiniteSet(S) /\ n \in Nat
  <2>1. IsFiniteSet(1..MaxRecordings)
    BY <1>0, FS_Interval
  <2>2. IsFiniteSet(S)
    BY <1>0, <2>1, FS_Subset
  <2> QED
    BY <2>2, FS_CardinalityType
<1>2. ASSUME e \in S PROVE FALSE
  <2>1. 1..e \subseteq S
    <3>1. ASSUME NEW c \in 1..e PROVE c \in S
      <4>1. c \in Encoders /\ (c = e \/ c < e)
        BY <1>0
      <4> QED
        BY <1>0, <1>2, <4>1
    <3> QED
      BY <3>1
  <2>2. Cardinality(1..e) = e
    BY <1>0, FS_Interval
  <2>3. e <= n
    BY ZenonT(60), <1>1, <2>1, <2>2, FS_Subset
  <2> HIDE DEF n
  <2> QED
    BY <1>0, <1>1, <2>3
<1>3. ASSUME NEW d \in Encoders, d < e, d \notin S PROVE FALSE
  <2>1. S \subseteq 1..(d - 1)
    BY <1>0, <1>3
  <2>0. d \in Nat /\ d >= 1
    BY <1>0
  <2>2. Cardinality(1..(d - 1)) = d - 1 /\ IsFiniteSet(1..(d - 1)) /\ d \in Nat
    <3>1. d - 1 \in Int /\ 1 \in Int /\ d - 1 >= 1 - 1
      BY <2>0
    <3>2. /\ IsFiniteSet(1..(d - 1))
          /\ Cardinality(1..(d - 1)) = IF 1 > d - 1 THEN 0 ELSE d - 1 - 1 + 1
      BY <3>1, FS_Interval
    <3> QED
      BY <2>0, <3>2
  <2>3. n <= d - 1
    BY ZenonT(60), <2>1, <2>2, FS_Subset
  <2> HIDE DEF n
  <2> QED
    BY <1>0, <1>1, <1>3, <2>2, <2>3
<1>4. enc[e].codecs = "none"
  BY <1>2, <1>x
<1> QED
  BY <1>3, <1>4, <1>y DEF OrderInv

\* What no step but OpenEncoder touches.
LEMMA UnusedKept ==
  ASSUME Types, PlaceInv, UiInv, OrderInv, MonitorInv, [Next]_vars,
         NEW e \in Encoders, enc[e].codecs = "none",
         \A f \in Files : ~OpenEncoder(f)
  PROVE  enc'[e] = enc[e]
<1>0. EncType /\ enc[e] = NewEncoder /\ Of(e) = {}
  BY DEF Types, OrderInv
<1>1. enc[e].monitor = "free" /\ ~enc[e].open
  BY <1>0 DEF NewEncoder
<1>2. \A k \in Kinds : ~Within(k, e)
  BY <1>1 DEF MonitorInv, Kinds
<1>3. CASE UNCHANGED enc
  BY <1>3
<1>4. ASSUME NEW k \in Kinds, Encode(k) PROVE enc'[e] = enc[e]
  <2>1. CASE using[k] # e \/ pc[k] = "look"
    BY <1>4, <2>1, EncodeFrame
  <2>2. CASE using[k] = e /\ pc[k] = "enter"
    <3>1. Enter(k)
      BY <1>4, <2>2
      DEF Encode, LookUp, UseCodec, AddTrack, StartMuxer, ScheduleReset,
          TestStarted, ReadMuxer, WriteSample
    <3> QED
      BY <1>1, <2>2, <3>1 DEF Enter, MayEnter
  <2> QED
    BY <1>2, <1>4, <2>1, <2>2, EncodeFrame DEF Within
<1>5. CASE Timers
  BY <1>0, <1>5, TimerFrame DEF Timers, Of
<1>6. CASE Ui
  <2>1. mp4Encoder \in Encoders => mp4Encoder # e
    BY DEF UiInv
  <2>2. ui \in Stopping => mp4Encoder \in Encoders
    BY DEF PlaceInv, UiPlace
  <2>3. CASE GetThumbnail
    BY <1>0, <2>1, <2>2, <2>3, ThumbnailFx DEF GetThumbnail, Stopping
  <2>4. CASE CloseEncoder
    BY <1>0, <2>1, <2>2, <2>4, CloseFx DEF CloseEncoder, Stopping
  <2>5. CASE StopCodecs
    BY <1>0, <2>1, <2>2, <2>5, CodecsFx DEF StopCodecs, Stopping
  <2>6. CASE StopMuxer
    BY <1>0, <1>3, <2>1, <2>2, <2>6, ForgetMuxerFx DEF StopMuxer, Stopping
  <2> QED
    BY <1>3, <1>6, <2>3, <2>4, <2>5, <2>6
    DEF Ui, StartCapture, StopCapture, JoinCapture, StartRecoder, StopRecoder,
        ForgetEncoder, StopAudio, JoinAudio, Destroy, mediaVars
<1>7. CASE UNCHANGED vars \/ OnFrame \/ BeginAudio \/ AudioLoop
  BY <1>3, <1>7 DEF vars, OnFrame, BeginAudio, AudioLoop, mediaVars
<1> QED
  BY <1>4, <1>5, <1>6, <1>7 DEF Next, Threads

LEMMA OrderKept ==
  ASSUME Types, PlaceInv, OrderInv, \A f \in Files : Later(f),
         \A f \in Files : file[f].state = "none" => file'[f] = file[f],
         \A e \in Encoders :
           /\ enc[e].codecs = "none" => enc'[e] = enc[e]
           /\ enc[e].codecs # "none" => enc'[e].codecs # "none"
           /\ enc'[e].muxer \in {enc[e].muxer, 0}
           /\ enc'[e].open => enc[e].open /\ enc'[e].codecs = enc[e].codecs
  PROVE  OrderInv'
<1>1. \A f \in Files : file'[f].state = "none" <=> file[f].state = "none"
  BY DEF Later
<1>2. \A f, g \in Files : g < f /\ file'[f].state # "none" => file'[g].state # "none"
  BY <1>1 DEF OrderInv
<1>3. \A d, e \in Encoders :
        d < e /\ enc'[e].codecs # "none" => enc'[d].codecs # "none"
  BY DEF OrderInv
<1>4. ASSUME NEW e \in Encoders, enc'[e].muxer \in Files
      PROVE  file'[enc'[e].muxer].enc = e
  <2>1. enc'[e].muxer = enc[e].muxer
    BY <1>4, Numbers
  <2>2. file[enc[e].muxer].enc = e
    BY <1>4, <2>1 DEF OrderInv
  <2> QED
    BY <1>4, <2>1, <2>2 DEF Later, PlaceInv, FilePlace
<1>5. ASSUME NEW e \in Encoders, enc'[e].codecs = "none"
      PROVE  enc'[e] = NewEncoder /\ Of(e)' = {}
  <2>1. enc[e] = NewEncoder /\ Of(e) = {} /\ enc'[e] = enc[e]
    BY <1>5 DEF OrderInv
  <2>2. ASSUME NEW f \in Files PROVE file'[f].enc # e
    <3>1. CASE file[f].state = "none"
      BY <2>1, <3>1 DEF Of
    <3>2. CASE file[f].state # "none"
      BY <2>1, <3>2 DEF Of, Later
    <3> QED
      BY <3>1, <3>2
  <2> QED
    BY <2>1, <2>2 DEF Of
<1>6. \A e \in Encoders : enc'[e].open => enc'[e].codecs = "running"
  BY DEF OrderInv
<1> QED
  BY <1>2, <1>3, <1>4, <1>5, <1>6 DEF OrderInv

\* A new file of an encoder that was made: the first free one.
LEMMA OrderNew ==
  ASSUME Types, PlaceInv, OrderInv, NEW g \in Files, NEW e \in Encoders,
         IsNext(g), file'[g].state = "new", file'[g].enc = e,
         \A f \in Files : f # g => file'[f] = file[f],
         \A d \in Encoders : d # e => enc'[d] = enc[d],
         enc'[e].muxer = g, enc'[e].codecs # "none",
         enc'[e].open => enc'[e].codecs = "running",
         \A d \in Encoders : d < e => enc[d].codecs # "none"
  PROVE  OrderInv'
<1>0. file[g].state = "none"
      /\ \A f \in Files : file[f].state = "none" => g <= f
  BY DEF IsNext, FreeFiles
<1>1. \A f, h \in Files : h < f /\ file'[f].state # "none" => file'[h].state # "none"
  <2>1. \A h \in Files : h < g => file[h].state # "none"
    BY <1>0, Numbers
  <2> QED
    BY <1>0, <2>1 DEF OrderInv
<1>2. \A c, d \in Encoders :
        c < d /\ enc'[d].codecs # "none" => enc'[c].codecs # "none"
  BY DEF OrderInv
<1>3. ASSUME NEW d \in Encoders, enc'[d].muxer \in Files
      PROVE  file'[enc'[d].muxer].enc = d
  <2>1. CASE d = e
    BY <2>1
  <2>2. CASE d # e
    <3>1. enc[d].muxer \in Files /\ file[enc[d].muxer].enc = d
      BY <1>3, <2>2 DEF OrderInv
    <3>2. enc[d].muxer # g
      BY <1>0, <3>1 DEF PlaceInv, FilePlace
    <3> QED
      BY <2>2, <3>1, <3>2
  <2> QED
    BY <2>1, <2>2
<1>4. ASSUME NEW d \in Encoders, enc'[d].codecs = "none"
      PROVE  enc'[d] = NewEncoder /\ Of(d)' = {}
  <2>1. d # e /\ enc'[d] = enc[d] /\ enc[d] = NewEncoder /\ Of(d) = {}
    BY <1>4 DEF OrderInv
  <2> QED
    BY <2>1 DEF Of
<1>5. \A d \in Encoders : enc'[d].open => enc'[d].codecs = "running"
  BY DEF OrderInv
<1> QED
  BY <1>1, <1>2, <1>3, <1>4, <1>5 DEF OrderInv

LEMMA OrderNext ==
  ASSUME Types, PlaceInv, UiInv, OrderInv, MonitorInv, [Next]_vars
  PROVE  OrderInv'
<1>0. EncType /\ FileType /\ TimerType /\ \A f \in Files : Later(f)
  BY NextLater DEF Types
<1>1. ASSUME NEW f \in Files, OpenEncoder(f) PROVE OrderInv'
  <2>1. ui = "newEncoder" /\ IsNext(f)
    BY Zenon, <1>1 DEF OpenEncoder
  <2>2. PICK e \in Encoders :
          /\ e = Cardinality({d \in Encoders : enc[d].codecs # "none"}) + 1
          /\ file'[f].state = "new" /\ file'[f].enc = e
          /\ \A d \in Files : d # f => file'[d] = file[d]
          /\ \A d \in Encoders : d # e => enc'[d] = enc[d]
          /\ enc'[e].muxer = f /\ enc'[e].codecs = "running"
    BY ZenonT(60), <1>0, <1>1, OpenFx
  <2>3. \A d \in Encoders : d < e => enc[d].codecs # "none"
    BY <1>0, <2>1, <2>2, FreshEncoder
  <2> QED
    BY <2>1, <2>2, <2>3, OrderNew
<1>2. ASSUME NEW f \in Files, NEW g \in Files, SwapMuxer(f, g) PROVE OrderInv'
  <2> DEFINE e == file[f].enc
  <2>0. e \in Encoders
    BY <1>2, TimerFrame DEF Reset
  <2>1. enc[e].codecs # "none"
    BY <2>0 DEF OrderInv, Of
  <2>2. /\ IsNext(g) /\ file'[g].state = "new" /\ file'[g].enc = e
        /\ \A d \in Files : d # g => file'[d] = file[d]
        /\ \A d \in Encoders : d # e => enc'[d] = enc[d]
        /\ enc'[e].muxer = g /\ enc'[e].codecs = enc[e].codecs
        /\ enc'[e].open = enc[e].open
    <3>1. IsNext(g)
      BY <1>2 DEF SwapMuxer
    <3> QED
      BY <1>0, <1>2, <2>0, <3>1, SwapFx
  <2>3. \A d \in Encoders : d < e => enc[d].codecs # "none"
    BY <2>0, <2>1 DEF OrderInv
  <2>4. enc[e].open => enc[e].codecs = "running"
    BY <2>0 DEF OrderInv
  <2> HIDE DEF e
  <2> QED
    BY <2>0, <2>1, <2>2, <2>3, <2>4, OrderNew
<1>3. ASSUME \A f \in Files : ~OpenEncoder(f), \A f, g \in Files : ~SwapMuxer(f, g)
      PROVE  OrderInv'
  <2>1. \A e \in Encoders : enc[e].codecs = "none" => enc'[e] = enc[e]
    BY <1>3, UnusedKept
  <2>2. \A f \in Files : file[f].state = "none" => file'[f] = file[f]
    <3>1. CASE UNCHANGED file
      BY <3>1
    <3>2. CASE StopMuxer
      <4> DEFINE m == enc[mp4Encoder].muxer
      <4>1. UNCHANGED file \/ (m \in Files /\ file[m].state = "started" /\ Stop(m))
        BY <1>0, <3>2
        DEF StopMuxer, PlaceInv, UiPlace, Stopping, EncType, Encoder
      <4> HIDE DEF m
      <4> QED
        BY <1>0, <3>1, <4>1, StopFx
    <3>3. ASSUME NEW k \in Kinds, AddTrack(k) \/ StartMuxer(k)
          PROVE  \A f \in Files : file[f].state = "none" => file'[f] = file[f]
      <4> DEFINE m == enc[using[k]].muxer
      <4>1. \/ UNCHANGED file
            \/ /\ m \in Files /\ file[m].state = "new"
               /\ \A f \in Files : f # m => file'[f] = file[f]
        BY <1>0, <3>3
        DEF AddTrack, StartMuxer, Takes, PlaceInv, ThreadPlace, Inside, EncType,
            Encoder, FileType
      <4> HIDE DEF m
      <4> QED
        BY <4>1
    <3>4. ASSUME NEW f \in Files, RollMuxer(f) \/ RestartMuxer(f) \/ FinishReset(f)
          PROVE  \A g \in Files : file[g].state = "none" => file'[g] = file[g]
      <4> DEFINE m == enc[file[f].enc].muxer
                 o == timer[f].old
      <4>0. file[f].enc \in Encoders
        BY <3>4, TimerFrame DEF Reset
      <4>1. \/ UNCHANGED file
            \/ /\ m \in Files /\ file[m].state = "new"
               /\ \A g \in Files : g # m => file'[g] = file[g]
            \/ /\ o \in Files /\ file[o].state = "started"
               /\ \A g \in Files : g # o => file'[g] = file[g]
        BY Zenon, <1>0, <3>4, <4>0
        DEF RollMuxer, RestartMuxer, FinishReset, Takes, Stop, EncType, Encoder,
            FileType, TimerType, ResetTimer
      <4> HIDE DEF m, o
      <4> QED
        BY <4>1
    <3> QED
      BY ZenonT(30), <1>3, <3>1, <3>2, <3>3, <3>4
      DEF Next, Ui, Threads, Timers, Encode, Reset, StartCapture, StopCapture,
          JoinCapture, StartRecoder, StopRecoder, GetThumbnail, CloseEncoder,
          StopCodecs, ForgetEncoder, StopAudio, JoinAudio, Destroy, OnFrame,
          BeginAudio, AudioLoop, LookUp, Enter, UseCodec, ScheduleReset,
          TestStarted, ReadMuxer, WriteSample, Fire, MarkReset, ScheduleNext,
          mediaVars, vars
  <2> DEFINE Good(e) ==
           /\ enc[e].codecs # "none" => enc'[e].codecs # "none"
           /\ enc'[e].muxer \in {enc[e].muxer, 0}
           /\ enc'[e].open => enc[e].open /\ enc'[e].codecs = enc[e].codecs
  <2>3. \A e \in Encoders : Good(e)
    <3>1. CASE UNCHANGED enc
      BY <3>1
    <3>2. ui \in Stopping => mp4Encoder \in Encoders
      BY DEF PlaceInv, UiPlace
    <3>3. CASE GetThumbnail
      BY <1>0, <3>2, <3>3, ThumbnailFx DEF GetThumbnail, Stopping
    <3>4. CASE CloseEncoder
      BY <1>0, <3>2, <3>4, CloseFx DEF CloseEncoder, Stopping
    <3>5. CASE StopCodecs
      BY <1>0, <3>2, <3>5, CodecsFx DEF StopCodecs, Stopping, UiInv
    <3>6. CASE StopMuxer
      BY <1>0, <3>1, <3>2, <3>6, ForgetMuxerFx DEF StopMuxer, Stopping
    <3>7. CASE Ui
      BY <1>3, <3>1, <3>3, <3>4, <3>5, <3>6, <3>7
      DEF Ui, StartCapture, StopCapture, JoinCapture, StartRecoder, StopRecoder,
          ForgetEncoder, StopAudio, JoinAudio, Destroy, mediaVars
    <3>8. ASSUME NEW k \in Kinds, Encode(k) PROVE \A e \in Encoders : Good(e)
      BY <3>8, EncodeFrame
    <3>9. ASSUME NEW f \in Files, Fire(f) \/ Reset(f)
          PROVE  \A e \in Encoders : Good(e)
      <4>1. \A e \in Encoders : enc'[e].muxer = enc[e].muxer
        <5>1. CASE MarkReset(f)
          <6>1. file[f].enc \in Encoders
            BY <3>9, TimerFrame
          <6> QED
            BY <1>0, <5>1, <6>1, MarkFx
        <5>2. CASE RollMuxer(f)
          BY <1>0, <5>2 DEF RollMuxer, EncType, Encoder
        <5>3. CASE ScheduleNext(f)
          BY <1>0, <5>3 DEF ScheduleNext, EncType, Encoder
        <5> QED
          BY <1>3, <3>9, <5>1, <5>2, <5>3
          DEF Reset, Fire, RestartMuxer, FinishReset
      <4> QED
        BY Zenon, <3>9, <4>1, TimerFrame
    <3> QED
      BY <3>1, <3>7, <3>8, <3>9
      DEF Next, Threads, Timers, OnFrame, BeginAudio, AudioLoop, mediaVars, vars
  <2> QED
    BY <1>0, <2>1, <2>2, <2>3, OrderKept
<1> QED
  BY <1>1, <1>2, <1>3
-----------------------------------------------------------------------------
(* How the threads and the encoders move.                                  *)

\* Where a thread inside the monitor comes from.
ThreadMoves ==
  \A k \in Kinds :
    /\ pc'[k] = "addTrack" =>
         /\ using'[k] = using[k] /\ using[k] \in Encoders
         /\ \/ pc[k] = "addTrack"
            \/ k \notin enc[using[k]].known /\ k \in enc'[using[k]].known
    /\ pc'[k] = "start" =>
         using'[k] = using[k] /\ pc[k] \in {"start", "addTrack"}
    /\ pc'[k] = "schedule" =>
         /\ using'[k] = using[k]
         /\ \/ pc[k] = "schedule" /\ receiver'[k] = receiver[k]
            \/ /\ pc[k] = "start" /\ Ready(using[k])
               /\ receiver'[k] = enc[using[k]].muxer /\ receiver'[k] \in Files
    /\ pc'[k] = "write" =>
         /\ using'[k] = using[k] /\ using[k] \in Encoders
         /\ \/ pc[k] = "write" /\ receiver'[k] = receiver[k]
            \/ receiver'[k] = enc[using[k]].muxer

LEMMA ThreadsMove ==
  ASSUME Types, PlaceInv, [Next]_vars PROVE ThreadMoves
<1>0. ThreadType /\ EncType /\ FileType
  BY DEF Types
<1>1. ASSUME NEW k \in Kinds PROVE /\ pc[k] \in Inside => using[k] \in Encoders
                                   /\ "addTrack" \in Inside /\ "write" \in Inside
  BY DEF PlaceInv, ThreadPlace, Inside
<1>2. CASE UNCHANGED threadVars
  BY <1>1, <1>2 DEF ThreadMoves, threadVars
<1>3. CASE StartRecoder \/ OnFrame \/ BeginAudio \/ AudioLoop
  <2>1. \A k \in Kinds :
          /\ pc'[k] \in {pc[k], "new", "look", "loop", "idle"}
          /\ using'[k] = using[k] /\ receiver'[k] = receiver[k]
    BY Zenon, <1>0, <1>3 DEF StartRecoder, OnFrame, BeginAudio, AudioLoop, Goto, ThreadType
  <2> QED
    BY <1>1, <2>1 DEF ThreadMoves
<1>4. ASSUME NEW k \in Kinds, Encode(k) PROVE ThreadMoves
  <2> DEFINE M(j) ==
    /\ pc'[j] = "addTrack" =>
         /\ using'[j] = using[j] /\ using[j] \in Encoders
         /\ \/ pc[j] = "addTrack"
            \/ j \notin enc[using[j]].known /\ j \in enc'[using[j]].known
    /\ pc'[j] = "start" =>
         using'[j] = using[j] /\ pc[j] \in {"start", "addTrack"}
    /\ pc'[j] = "schedule" =>
         /\ using'[j] = using[j]
         /\ \/ pc[j] = "schedule" /\ receiver'[j] = receiver[j]
            \/ /\ pc[j] = "start" /\ Ready(using[j])
               /\ receiver'[j] = enc[using[j]].muxer /\ receiver'[j] \in Files
    /\ pc'[j] = "write" =>
         /\ using'[j] = using[j] /\ using[j] \in Encoders
         /\ \/ pc[j] = "write" /\ receiver'[j] = receiver[j]
            \/ receiver'[j] = enc[using[j]].muxer
  <2>0. Others(k) /\ (pc[k] # "look" => using[k] \in Encoders)
    BY <1>4, EncodeFrame
  <2>1. \A j \in Kinds : j # k => M(j)
    BY <1>1, <2>0 DEF Others
  <2>2. \A l : Goto(k, l) => pc'[k] = l
    BY <1>0 DEF Goto, ThreadType
  <2>3. CASE pc'[k] \notin Inside
    <3>1. M(k)
      BY <2>3 DEF Inside
    <3> QED
      BY <2>1, <3>1 DEF ThreadMoves
  <2>4. CASE pc'[k] \in {Rest(k), Thrown(k), AfterSample(k)}
    BY <2>3, <2>4, LabelsAfter
  <2>5. CASE LookUp(k)
    <3>1. pc'[k] \in {Rest(k), Thrown(k), "enter"}
      BY <2>2, <2>5 DEF LookUp
    <3> QED
      BY <2>3, <2>4, <3>1 DEF Inside
  <2>6. CASE pc'[k] \in {"codec", "test", "receive"}
    <3>1. M(k)
      BY <2>6
    <3> QED
      BY <2>1, <3>1 DEF ThreadMoves
  <2>7. CASE UseCodec(k)
    <3>0. using[k] \in Encoders
      BY <2>0, <2>7 DEF UseCodec
    <3>1. ASSUME k \notin enc[using[k]].known, pc'[k] = "addTrack", using' = using,
                 enc' = [enc EXCEPT ![using[k]].known = @ \cup {k}]
          PROVE  ThreadMoves
      <4>1. k \in enc'[using[k]].known
        BY <1>0, <3>0, <3>1, FormatFx
      <4>2. M(k)
        BY <3>0, <3>1, <4>1
      <4> QED
        BY <2>1, <4>2 DEF ThreadMoves
    <3> QED
      BY <2>2, <2>4, <2>6, <2>7, <3>1 DEF UseCodec, Leave, Continue
  <2>8. CASE AddTrack(k)
    <3>1. CASE pc'[k] = "start" /\ using' = using
      <4>1. M(k)
        BY <2>8, <3>1 DEF AddTrack
      <4> QED
        BY <2>1, <4>1 DEF ThreadMoves
    <3> QED
      BY <2>2, <2>4, <2>8, <3>1 DEF AddTrack, Leave
  <2>9. CASE StartMuxer(k)
    <3> DEFINE f == enc[using[k]].muxer
    <3>0. using[k] \in Encoders /\ f \in Files \cup {0}
      BY <1>0, <2>0, <2>9 DEF StartMuxer, EncType, Encoder
    <3>1. CASE /\ Ready(using[k]) /\ Takes(f)
               /\ receiver' = [receiver EXCEPT ![k] = f] /\ Continue(k, "schedule")
      <4>1. /\ receiver'[k] = f /\ f \in Files /\ pc'[k] = "schedule"
            /\ using' = using
        BY <1>0, <2>2, <3>0, <3>1 DEF Takes, Continue, ThreadType
      <4>2. M(k)
        BY <2>9, <3>1, <4>1 DEF StartMuxer
      <4> QED
        BY <2>1, <4>2 DEF ThreadMoves
    <3> QED
      BY <2>2, <2>4, <2>9, <3>1 DEF StartMuxer, Leave
  <2>10. CASE ReadMuxer(k)
    <3>1. pc'[k] = "write" /\ receiver'[k] = enc[using[k]].muxer /\ using' = using
      BY <1>0, <2>2, <2>10 DEF ReadMuxer, Continue, ThreadType
    <3>2. M(k)
      BY <2>0, <2>10, <3>1 DEF ReadMuxer
    <3> QED
      BY <2>1, <3>2 DEF ThreadMoves
  <2> QED
    BY <1>4, <2>2, <2>4, <2>5, <2>6, <2>7, <2>8, <2>9, <2>10
    DEF Encode, Enter, ScheduleReset, TestStarted, WriteSample, Continue, Leave
<1>5. CASE Ui
  BY Zenon, <1>2, <1>3, <1>5
  DEF Ui, StartCapture, StopCapture, JoinCapture, OpenEncoder, StopRecoder,
      GetThumbnail, CloseEncoder, StopCodecs, StopMuxer, ForgetEncoder, StopAudio,
      JoinAudio, Destroy
<1>6. CASE UNCHANGED vars
  BY <1>2, <1>6 DEF vars
<1>7. CASE Timers
  BY <1>2, <1>7, TimerFrame DEF Timers
<1> QED
  BY <1>3, <1>4, <1>5, <1>6, <1>7 DEF Next, Threads

\* Tracks: a step adds one, adds both in reset, or adds none.
AddsTrack(k, e) ==
  LET m == enc[e].muxer IN
  /\ pc[k] = "addTrack" /\ pc'[k] = "start" /\ using[k] = e
  /\ m \in Files /\ file[m].state = "new" /\ enc'[e].muxer = m
  /\ enc'[e].track = [enc[e].track EXCEPT ![k] = Len(file[m].tracks)]
  /\ file'[m].tracks = Append(file[m].tracks, k)
  /\ \A d \in Encoders : d # e => enc'[d].track = enc[d].track
  /\ \A f \in Files : f # m => file'[f].tracks = file[f].tracks
AddsTracks(e) ==
  LET m == enc[e].muxer IN
  /\ \E f \in Files : timer[f].pc = "addTracks" /\ file[f].enc = e
  /\ m \in Files /\ file[m].state = "new" /\ enc'[e].muxer = m
  /\ enc'[e].track = RollTracks
  /\ file'[m].tracks = <<"video", "audio">>
  /\ \A d \in Encoders : d # e => enc'[d].track = enc[d].track
  /\ \A f \in Files : f # m => file'[f].tracks = file[f].tracks
AddsNone ==
  /\ \A e \in Encoders : enc'[e].track \in {enc[e].track, NoTracks}
  /\ \A f \in Files : \/ file'[f].tracks = file[f].tracks
                      \/ file'[f].tracks = <<>> /\ file'[f].state = "stopped"

LEMMA UiAdds ==
  ASSUME Types, PlaceInv, Ui PROVE AddsNone
<1>0. EncType /\ FileType /\ TimerType /\ (ui \in Stopping => mp4Encoder \in Encoders)
  BY DEF Types, PlaceInv, UiPlace
<1>1. CASE UNCHANGED <<enc, file>>
  BY <1>1 DEF AddsNone
<1>2. ASSUME NEW f \in Files, OpenEncoder(f) PROVE AddsNone
  BY <1>0, <1>2, OpenFx DEF AddsNone
<1>3. CASE GetThumbnail
  <2>1. mp4Encoder \in Encoders /\ UNCHANGED file
    BY <1>0, <1>3 DEF GetThumbnail, Stopping
  <2> QED
    BY <1>0, <1>3, <2>1, ThumbnailFx DEF AddsNone
<1>4. CASE CloseEncoder
  <2>1. mp4Encoder \in Encoders /\ UNCHANGED file
    BY <1>0, <1>4 DEF CloseEncoder, Stopping
  <2> QED
    BY <1>0, <1>4, <2>1, CloseFx DEF AddsNone
<1>5. CASE StopCodecs
  <2>1. mp4Encoder \in Encoders /\ UNCHANGED file
    BY <1>0, <1>5 DEF StopCodecs, Stopping
  <2> QED
    BY <1>0, <1>5, <2>1, CodecsFx DEF AddsNone
<1>6. CASE StopMuxer
  <2> DEFINE f == enc[mp4Encoder].muxer
  <2>1. mp4Encoder \in Encoders /\ f \in Files \cup {0}
    BY <1>0, <1>6 DEF StopMuxer, Stopping, EncType, Encoder
  <2>2. \/ UNCHANGED <<enc, file>>
        \/ f \in Files /\ Stop(f) /\ enc' = [enc EXCEPT ![mp4Encoder].muxer = 0]
    BY <1>6, <2>1 DEF StopMuxer
  <2> HIDE DEF f
  <2>3. ASSUME f \in Files, Stop(f) PROVE
               \A g \in Files : \/ file'[g].tracks = file[g].tracks
                                \/ file'[g].tracks = <<>> /\ file'[g].state = "stopped"
    BY <1>0, <2>3, StopFx
  <2>4. ASSUME enc' = [enc EXCEPT ![mp4Encoder].muxer = 0]
        PROVE  \A e \in Encoders : enc'[e].track \in {enc[e].track, NoTracks}
    BY <1>0, <2>1, <2>4, ForgetMuxerFx
  <2> QED
    BY <1>1, <2>2, <2>3, <2>4 DEF AddsNone
<1> QED
  BY <1>1, <1>2, <1>3, <1>4, <1>5, <1>6
  DEF Ui, StartCapture, StopCapture, JoinCapture, StartRecoder, StopRecoder,
      ForgetEncoder, StopAudio, JoinAudio, Destroy, mediaVars

LEMMA EncodeAdds ==
  ASSUME Types, PlaceInv, NEW k \in Kinds, Encode(k)
  PROVE  AddsNone \/ AddsTrack(k, using[k])
<1>0. EncType /\ FileType /\ TimerType /\ ThreadType
  BY DEF Types
<1>1. CASE UNCHANGED <<enc, file>>
  BY <1>1 DEF AddsNone
<1>2. pc[k] # "look" => using[k] \in Encoders
  BY EncodeFrame
<1>3. ASSUME NEW l, Leave(k, l), UNCHANGED file, using[k] \in Encoders PROVE AddsNone
  BY <1>0, <1>3, LeaveFx DEF AddsNone
<1>4. CASE LookUp(k) \/ ReadMuxer(k)
  BY <1>1, <1>4 DEF LookUp, ReadMuxer, Continue, mediaVars
<1>5. CASE Enter(k)
  <2>1. /\ using[k] \in Encoders /\ UNCHANGED file
        /\ \/ UNCHANGED enc
           \/ enc' = [enc EXCEPT ![using[k]].monitor = k,
                        ![using[k]].disturbed = @ \/ Resets(using[k]) # {}]
    BY <1>2, <1>5 DEF Enter
  <2> QED
    BY <1>0, <1>1, <2>1, EnterFx DEF AddsNone
<1>6. CASE UseCodec(k)
  <2>1. /\ using[k] \in Encoders /\ UNCHANGED file
        /\ \/ UNCHANGED enc \/ \E l : Leave(k, l)
           \/ enc' = [enc EXCEPT ![using[k]].known = @ \cup {k}]
    BY Zenon, <1>2, <1>6 DEF UseCodec, Continue
  <2> QED
    BY <1>0, <1>1, <1>3, <2>1, FormatFx DEF AddsNone
<1>7. CASE AddTrack(k)
  <2> DEFINE e == using[k]
             m == enc[e].muxer
  <2>0. e \in Encoders /\ m \in Files \cup {0}
    BY Zenon, <1>0, <1>2, <1>7 DEF AddTrack, EncType, Encoder
  <2>1. CASE /\ Takes(m) /\ Goto(k, "start")
             /\ file' = [file EXCEPT ![m].tracks = Append(@, k)]
             /\ enc' = [enc EXCEPT ![e].track[k] = Len(file[m].tracks)]
    <3>1. m \in Files /\ file[m].state = "new" /\ pc'[k] = "start" /\ pc[k] = "addTrack"
      BY <1>0, <1>7, <2>0, <2>1 DEF Takes, Goto, ThreadType, AddTrack
    <3> HIDE DEF e, m
    <3>2. /\ \A d \in Encoders : d # e => enc'[d] = enc[d]
          /\ enc'[e].track = [enc[e].track EXCEPT ![k] = Len(file[m].tracks)]
          /\ enc'[e].muxer = enc[e].muxer
          /\ \A d \in Files : d # m => file'[d] = file[d]
          /\ file'[m].tracks = Append(file[m].tracks, k)
      BY <1>0, <2>0, <2>1, <3>1, AddFx
    <3> QED
      BY <3>1, <3>2 DEF AddsTrack, e, m
  <2> QED
    BY Zenon, <1>3, <1>7, <2>0, <2>1 DEF AddTrack
<1>8. CASE StartMuxer(k)
  <2> DEFINE m == enc[using[k]].muxer
  <2>0. using[k] \in Encoders /\ m \in Files \cup {0}
    BY <1>0, <1>2, <1>8 DEF StartMuxer, EncType, Encoder
  <2>1. \/ UNCHANGED file /\ \E l : Leave(k, l)
        \/ /\ m \in Files /\ UNCHANGED enc
           /\ file' = [file EXCEPT ![m].state = "started"]
    BY <1>8, <2>0 DEF StartMuxer, Takes, Continue
  <2> HIDE DEF m
  <2>2. ASSUME m \in Files, UNCHANGED enc,
               file' = [file EXCEPT ![m].state = "started"]
        PROVE  AddsNone
    <3>1. \A f \in Files : file'[f].tracks = file[f].tracks
      BY <1>0, <2>2, StartFx
    <3> QED
      BY <2>2, <3>1 DEF AddsNone
  <2> QED
    BY <1>3, <2>0, <2>1, <2>2
<1>9. CASE TestStarted(k) \/ WriteSample(k)
  <2>1. using[k] \in Encoders /\ UNCHANGED file
        /\ (UNCHANGED enc \/ \E l : Leave(k, l))
    BY <1>2, <1>9 DEF TestStarted, WriteSample, Continue
  <2> QED
    BY <1>1, <1>3, <2>1
<1>10. CASE ScheduleReset(k)
  <2>1. using[k] \in Encoders /\ receiver[k] \in Files /\ UNCHANGED file
    BY <1>2, <1>10 DEF ScheduleReset, PlaceInv, ThreadPlace
  <2>2. \A e \in Encoders : enc'[e].track = enc[e].track
    BY <1>0, <1>10, <2>1, ScheduleFx
  <2> QED
    BY <2>1, <2>2 DEF AddsNone
<1> QED
  BY <1>4, <1>5, <1>6, <1>7, <1>8, <1>9, <1>10 DEF Encode

LEMMA TimerAdds ==
  ASSUME Types, PlaceInv, NEW f \in Files, Fire(f) \/ Reset(f)
  PROVE  AddsNone \/ AddsTracks(file[f].enc)
<1>0. EncType /\ FileType /\ TimerType /\ file[f].enc \in Encoders
  BY TimerFrame DEF Types
<1> DEFINE e == file[f].enc
           m == enc[e].muxer
<1>1. CASE UNCHANGED <<enc, file>>
  BY <1>1 DEF AddsNone
<1>2. m \in Files \cup {0}
  BY <1>0 DEF EncType, Encoder
<1>3. CASE MarkReset(f)
  <2>1. UNCHANGED file
    BY <1>3 DEF MarkReset
  <2>2. /\ \A d \in Encoders : d # e => enc'[d] = enc[d]
        /\ enc'[e].track = NoTracks
    BY ZenonT(60), <1>0, <1>3, MarkFx
  <2> HIDE DEF e
  <2> QED
    BY Zenon, <2>1, <2>2 DEF AddsNone
<1>4. ASSUME NEW g \in Files, SwapMuxer(f, g) PROVE AddsNone
  <2>1. /\ \A d \in Encoders : enc'[d].track = enc[d].track
        /\ \A d \in Files : file'[d].tracks = file[d].tracks
    BY SMTT(30), <1>0, <1>4, SwapFx
  <2> QED
    BY <2>1 DEF AddsNone
<1>5. CASE RollMuxer(f)
  <2>1. CASE /\ Takes(m) /\ file' = [file EXCEPT ![m].tracks = <<"video", "audio">>]
             /\ enc' = [enc EXCEPT ![e].track = RollTracks]
    <3>1. m \in Files /\ file[m].state = "new" /\ timer[f].pc = "addTracks"
      BY Zenon, <1>2, <1>5, <2>1 DEF Takes, RollMuxer
    <3> HIDE DEF m
    <3>2. /\ \A d \in Encoders : d # e => enc'[d] = enc[d]
          /\ enc'[e].track = RollTracks /\ enc'[e].muxer = enc[e].muxer
          /\ \A d \in Files : d # m => file'[d] = file[d]
          /\ file'[m].tracks = <<"video", "audio">>
      BY <1>0, <2>1, <3>1, RollFx
    <3> QED
      BY Zenon, <3>1, <3>2 DEF AddsTracks, m
  <2> QED
    BY Zenon, <1>1, <1>5, <2>1 DEF RollMuxer
<1>6. CASE RestartMuxer(f)
  <2>1. /\ UNCHANGED enc
        /\ \/ UNCHANGED file
           \/ m \in Files /\ file' = [file EXCEPT ![m].state = "started"]
    BY <1>2, <1>6 DEF RestartMuxer, Takes
  <2> HIDE DEF m
  <2>2. \A d \in Files : file'[d].tracks = file[d].tracks
    BY Zenon, <1>0, <2>1, StartFx
  <2> QED
    BY SMTT(30), <2>1, <2>2 DEF AddsNone
<1>7. CASE ScheduleNext(f)
  <2>1. \A d \in Encoders : enc'[d].track = enc[d].track
    BY <1>0, <1>7 DEF ScheduleNext, EncType, Encoder
  <2> QED
    BY <1>7, <2>1 DEF AddsNone, ScheduleNext
<1>8. CASE FinishReset(f)
  <2> DEFINE o == timer[f].old
  <2>0. o \in Files \cup {0}
    BY <1>0 DEF TimerType, ResetTimer
  <2>1. UNCHANGED file \/ (o \in Files /\ Stop(o))
    BY <1>8, <2>0 DEF FinishReset
  <2>3. UNCHANGED enc
    BY <1>8 DEF FinishReset
  <2> HIDE DEF o
  <2>2. ASSUME o \in Files, Stop(o) PROVE
               \A g \in Files : \/ file'[g].tracks = file[g].tracks
                                \/ file'[g].tracks = <<>> /\ file'[g].state = "stopped"
    BY <1>0, <2>2, StopFx
  <2> QED
    BY <1>1, <2>1, <2>2, <2>3 DEF AddsNone
<1> QED
  BY <1>1, <1>3, <1>4, <1>5, <1>6, <1>7, <1>8 DEF Reset, Fire

LEMMA NextAdds ==
  ASSUME Types, PlaceInv, [Next]_vars
  PROVE  \/ AddsNone \/ \E k \in Kinds : using[k] \in Encoders /\ AddsTrack(k, using[k])
         \/ \E e \in Encoders : AddsTracks(e)
<1>1. CASE OnFrame \/ BeginAudio \/ AudioLoop \/ UNCHANGED vars
  BY Zenon, <1>1 DEF AddsNone, OnFrame, BeginAudio, AudioLoop, mediaVars, vars
<1>2. ASSUME NEW k \in Kinds, Encode(k), AddsTrack(k, using[k])
      PROVE  using[k] \in Encoders
  BY <1>2, EncodeFrame DEF AddsTrack
<1>3. ASSUME NEW f \in Files, Fire(f) \/ Reset(f) PROVE file[f].enc \in Encoders
  BY <1>3, TimerFrame
<1> QED
  BY <1>1, <1>2, <1>3, UiAdds, EncodeAdds, TimerAdds DEF Next, Threads, Timers

-----------------------------------------------------------------------------
(* Formats and tracks that are known.                                      *)

\* No step forgets a format; close, reset and ScheduleReset apart, no step
\* touches a timer or the field that holds it.
LEMMA FieldsKept ==
  ASSUME Types, PlaceInv, [Next]_vars, ~CloseEncoder, ~Timers,
         \A k \in Kinds : ~ScheduleReset(k)
  PROVE  /\ UNCHANGED timer
         /\ \A e \in Encoders : /\ enc[e].known \subseteq enc'[e].known
                                /\ enc'[e].timer = enc[e].timer
<1>0. EncType /\ FileType /\ TimerType /\ (ui \in Stopping => mp4Encoder \in Encoders)
  BY DEF Types, PlaceInv, UiPlace
<1> DEFINE Kept == \A e \in Encoders : /\ enc[e].known \subseteq enc'[e].known
                                       /\ enc'[e].timer = enc[e].timer
<1>1. ASSUME UNCHANGED enc PROVE Kept
  BY <1>1
<1>2. CASE Ui
  <2>1. ASSUME NEW f \in Files, OpenEncoder(f) PROVE Kept
    BY ZenonT(60), <1>0, <2>1, OpenFx
  <2>2. CASE GetThumbnail
    BY <1>0, <2>2, ThumbnailFx DEF GetThumbnail, Stopping
  <2>3. CASE StopCodecs
    BY <1>0, <2>3, CodecsFx DEF StopCodecs, Stopping
  <2>4. CASE StopMuxer
    BY <1>0, <1>1, <2>4, ForgetMuxerFx DEF StopMuxer, Stopping
  <2>5. UNCHANGED timer
    BY Zenon, <1>2
    DEF Ui, StartCapture, StopCapture, JoinCapture, StartRecoder, StopRecoder,
        OpenEncoder, GetThumbnail, StopCodecs, StopMuxer, ForgetEncoder,
        StopAudio, JoinAudio, Destroy, mediaVars
  <2> QED
    BY <1>1, <1>2, <2>1, <2>2, <2>3, <2>4, <2>5
    DEF Ui, StartCapture, StopCapture, JoinCapture, StartRecoder, StopRecoder,
        ForgetEncoder, StopAudio, JoinAudio, Destroy, mediaVars
<1>3. ASSUME NEW k \in Kinds, Encode(k) PROVE Kept
  <2>0. pc[k] # "look" => using[k] \in Encoders
    BY <1>3, EncodeFrame
  <2>1. ASSUME NEW l, Leave(k, l), using[k] \in Encoders PROVE Kept
    BY <1>0, <2>1, LeaveFx
  <2>2. CASE LookUp(k) \/ ReadMuxer(k)
    BY <1>1, <2>2 DEF LookUp, ReadMuxer, Continue, mediaVars
  <2>3. CASE Enter(k)
    <3>1. /\ using[k] \in Encoders
          /\ \/ UNCHANGED enc
             \/ enc' = [enc EXCEPT ![using[k]].monitor = k,
                          ![using[k]].disturbed = @ \/ Resets(using[k]) # {}]
      BY <2>0, <2>3 DEF Enter
    <3> QED
      BY <1>0, <1>1, <3>1, EnterFx
  <2>4. CASE UseCodec(k)
    <3>1. /\ using[k] \in Encoders
          /\ \/ UNCHANGED enc \/ \E l : Leave(k, l)
             \/ enc' = [enc EXCEPT ![using[k]].known = @ \cup {k}]
      BY <2>0, <2>4 DEF UseCodec, Continue
    <3> QED
      BY <1>0, <1>1, <2>1, <3>1, FormatFx
  <2>5. CASE AddTrack(k)
    <3>1. /\ using[k] \in Encoders
          /\ \/ \E l : Leave(k, l)
             \/ enc' = [enc EXCEPT ![using[k]].track[k] =
                          Len(file[enc[using[k]].muxer].tracks)]
      BY <2>0, <2>5 DEF AddTrack
    <3>2. CASE enc' = [enc EXCEPT ![using[k]].track[k] =
                          Len(file[enc[using[k]].muxer].tracks)]
      BY <1>0, <3>1, <3>2 DEF EncType, Encoder
    <3> QED
      BY <2>1, <3>1, <3>2
  <2>6. CASE StartMuxer(k) \/ TestStarted(k) \/ WriteSample(k)
    <3>1. using[k] \in Encoders /\ (UNCHANGED enc \/ \E l : Leave(k, l))
      BY <2>0, <2>6 DEF StartMuxer, TestStarted, WriteSample, Continue
    <3> QED
      BY <1>1, <2>1, <3>1
  <2> QED
    BY <1>3, <2>2, <2>3, <2>4, <2>5, <2>6 DEF Encode
<1>4. ASSUME NEW k \in Kinds, Encode(k) PROVE UNCHANGED timer
  BY Zenon, <1>4 DEF Encode, LookUp, Enter, UseCodec, AddTrack, StartMuxer, TestStarted,
      ReadMuxer, WriteSample, mediaVars
<1> QED
  BY <1>1, <1>2, <1>3, <1>4
  DEF Next, Threads, OnFrame, BeginAudio, AudioLoop, mediaVars, vars

LEMMA KnownGrows ==
  ASSUME Types, PlaceInv, [Next]_vars
  PROVE  \A e \in Encoders : enc[e].known \subseteq enc'[e].known
<1>0. EncType /\ TimerType /\ (ui \in Stopping => mp4Encoder \in Encoders)
  BY DEF Types, PlaceInv, UiPlace
<1>1. CASE CloseEncoder
  BY <1>0, <1>1, CloseFx DEF CloseEncoder, Stopping
<1>2. ASSUME NEW k \in Kinds, ScheduleReset(k)
      PROVE  \A e \in Encoders : enc'[e].known = enc[e].known
  <2>1. using[k] \in Encoders /\ receiver[k] \in Files
    BY <1>2 DEF ScheduleReset, PlaceInv, ThreadPlace, Inside
  <2> QED
    BY <1>0, <1>2, <2>1, ScheduleFx
<1>3. CASE Timers
  BY <1>3, TimerFrame DEF Timers
<1> QED
  BY <1>1, <1>2, <1>3, FieldsKept

LEMMA AddedKept ==
  ASSUME Types, PlaceInv, [Next]_vars, NEW e \in Encoders, NEW k \in Kinds,
         Added(e, k)
  PROVE  Added(e, k)'
BY KnownGrows, ThreadsMove DEF Added, ThreadMoves

\* The tracks a file has after a step.
LEMMA TracksKnown ==
  ASSUME Types, PlaceInv, OrderInv, KnownInv, [Next]_vars, NEW f \in Files,
         NEW i \in 1..Len(file'[f].tracks)
  PROVE  /\ \E e \in Encoders, k \in Kinds :
              /\ e = file[f].enc /\ e = file'[f].enc /\ k = file'[f].tracks[i]
              /\ Added(e, k)'
         /\ \A j \in 1..Len(file'[f].tracks) :
              file'[f].tracks[i] = file'[f].tracks[j] => i = j
<1>0. /\ EncType /\ FileType /\ file[f].tracks \in Seq(Kinds)
      /\ Later(f)
  BY NextLater DEF Types, FileType, File
<1>a. ASSUME file[f].state # "none"
      PROVE  \E e \in Encoders : e = file[f].enc /\ e = file'[f].enc
  BY <1>0, <1>a DEF Later, PlaceInv, FilePlace
<1>1. CASE file'[f].tracks = file[f].tracks
  <2>1. /\ i \in 1..Len(file[f].tracks) /\ file[f].tracks[i] \in Kinds
        /\ file[f].tracks # <<>>
    BY <1>0, <1>1
  <2>2. PICK e \in Encoders : e = file[f].enc /\ e = file'[f].enc
    BY <1>a, <2>1 DEF PlaceInv, FilePlace
  <2>3. PICK k \in Kinds : k = file[f].tracks[i]
    BY <2>1
  <2>4. Added(e, k)
    BY <2>1, <2>2, <2>3 DEF KnownInv
  <2>5. Added(e, k)'
    BY <2>4, AddedKept
  <2>6. \A j \in 1..Len(file[f].tracks) :
          file[f].tracks[i] = file[f].tracks[j] => i = j
    BY <2>1 DEF KnownInv
  <2> QED
    BY <1>1, <2>2, <2>3, <2>5, <2>6
<1>2. CASE file'[f].tracks = <<>>
  BY <1>2
<1>3. ASSUME NEW k \in Kinds, using[k] \in Encoders, AddsTrack(k, using[k]),
             f = enc[using[k]].muxer
      PROVE  /\ \E e \in Encoders, h \in Kinds :
                  /\ e = file[f].enc /\ e = file'[f].enc /\ h = file'[f].tracks[i]
                  /\ Added(e, h)'
             /\ \A j \in 1..Len(file'[f].tracks) :
                  file'[f].tracks[i] = file'[f].tracks[j] => i = j
  <2>0. PICK e \in Encoders : e = file[f].enc /\ e = file'[f].enc
    BY Zenon, <1>3, <1>a DEF AddsTrack
  <2>1. PICK s \in Seq(Kinds) : s = file[f].tracks /\ file'[f].tracks = Append(s, k)
    BY Zenon, <1>0, <1>3 DEF AddsTrack
  <2>2. e = using[k] /\ k \in enc[e].known /\ pc'[k] = "start" /\ ~Added(e, k)
    BY Zenon, <1>3, <2>0 DEF AddsTrack, KnownInv, OrderInv, Added
  <2>3. \A j \in 1..Len(s) : s[j] # k /\ s[j] \in Kinds /\ Added(e, s[j])
    <3>1. \A j \in 1..Len(file[f].tracks) : Added(file[f].enc, file[f].tracks[j])
      BY DEF KnownInv
    <3>2. \A j \in 1..Len(s) : s[j] \in Kinds
      OBVIOUS
    <3>3. \A j \in 1..Len(s) : Added(e, s[j])
      BY <2>0, <2>1, <3>1
    <3> QED
      BY <2>2, <3>2, <3>3
  <2>4. \A j, l \in 1..Len(s) : s[j] = s[l] => j = l
    BY <2>1 DEF KnownInv
  <2>5. Added(e, k)'
    BY <2>2, KnownGrows DEF Added
  <2>6. /\ Len(Append(s, k)) = Len(s) + 1 /\ Append(s, k)[Len(s) + 1] = k
        /\ \A j \in 1..Len(s) : Append(s, k)[j] = s[j]
        /\ \A j \in 1..(Len(s) + 1) : j \in 1..Len(s) \/ j = Len(s) + 1
    OBVIOUS
  <2>7. PICK h \in Kinds : h = file'[f].tracks[i] /\ (h = k \/ Added(e, h))
    BY <2>1, <2>3, <2>6
  <2>8. Added(e, h)'
    <3>1. CASE h = k
      BY <2>5, <3>1
    <3>2. CASE Added(e, h)
      BY <3>2, AddedKept
    <3> QED
      BY <2>7, <3>1, <3>2
  <2>9. \A j \in 1..Len(file'[f].tracks) :
          file'[f].tracks[i] = file'[f].tracks[j] => i = j
    BY <2>1, <2>3, <2>4, <2>6
  <2> QED
    BY <2>0, <2>7, <2>8, <2>9
<1>4. ASSUME NEW d \in Encoders, AddsTracks(d), f = enc[d].muxer
      PROVE  /\ \E e \in Encoders, h \in Kinds :
                  /\ e = file[f].enc /\ e = file'[f].enc /\ h = file'[f].tracks[i]
                  /\ Added(e, h)'
             /\ \A j \in 1..Len(file'[f].tracks) :
                  file'[f].tracks[i] = file'[f].tracks[j] => i = j
  <2>1. PICK e \in Encoders : e = file[f].enc /\ e = file'[f].enc
    BY <1>4, <1>a DEF AddsTracks
  <2>2. e = d /\ file'[f].tracks = <<"video", "audio">>
    BY <1>4, <2>1 DEF AddsTracks, OrderInv
  <2>3. \A j \in 1..Len(<<"video", "audio">>) : j = 1 \/ j = 2
    OBVIOUS
  <2>4. PICK h \in Kinds : h = file'[f].tracks[i]
    BY <2>2, <2>3 DEF Kinds
  <2>5. Added(e, h)
    BY <1>4, <2>2 DEF AddsTracks, KnownInv
  <2>6. Added(e, h)'
    BY <2>5, AddedKept
  <2>7. \A j \in 1..Len(file'[f].tracks) :
          file'[f].tracks[i] = file'[f].tracks[j] => i = j
    BY <2>2, <2>3
  <2> QED
    BY <2>1, <2>4, <2>6, <2>7
<1> QED
  BY Zenon, <1>1, <1>2, <1>3, <1>4, NextAdds DEF AddsNone, AddsTrack, AddsTracks

\* The timer of a file runs only after both tracks of its encoder are known.
LEMMA TimerKnown ==
  ASSUME Types, PlaceInv, KnownInv, TimerInv, [Next]_vars, NEW f \in Files,
         timer'[f].pc # "none"
  PROVE  \E e \in Encoders :
           /\ e = file[f].enc /\ e = file'[f].enc
           /\ \A k \in Kinds : Added(e, k)
<1>1. file[f].state # "none" /\ \A k \in Kinds : Added(file[f].enc, k)
  <2>1. CASE timer[f].pc # "none"
    BY <2>1 DEF PlaceInv, TimerPlace, KnownInv
  <2>2. ASSUME NEW k \in Kinds, pc[k] = "schedule", receiver[k] = f
        PROVE  file[f].state # "none" /\ \A j \in Kinds : Added(file[f].enc, j)
    BY <2>2 DEF PlaceInv, ThreadPlace, KnownInv
  <2>3. ASSUME NEW g \in Files, timer[g].pc = "schedule", timer[g].next = f
        PROVE  file[f].state # "none" /\ \A j \in Kinds : Added(file[f].enc, j)
    <3>1. timer[g].pc # "none" /\ file[f].enc = file[g].enc
      BY <2>3 DEF TimerInv, TimerOf
    <3> QED
      BY <2>3, <3>1 DEF PlaceInv, TimerPlace, KnownInv
  <2> QED
    BY <2>1, <2>2, <2>3, NextMoves DEF TimerMoves
<1>2. file'[f].enc = file[f].enc /\ file[f].enc \in Encoders
  BY <1>1, NextLater DEF Later, PlaceInv, FilePlace
<1> QED
  BY <1>1, <1>2

LEMMA KnownNext ==
  ASSUME Types, PlaceInv, MonitorInv, OrderInv, KnownInv, TimerInv, [Next]_vars
  PROVE  KnownInv'
<1>0. /\ EncType /\ FileType /\ ThreadType /\ ThreadMoves
      /\ \A f \in Files : Later(f)
  BY NextLater, ThreadsMove DEF Types
<1>1. \A f \in Files : \A i \in 1..Len(file'[f].tracks) :
        /\ Added(file[f].enc, file[f].tracks[i])'
        /\ \A j \in 1..Len(file'[f].tracks) :
             file'[f].tracks[i] = file'[f].tracks[j] => i = j
  <2>1. ASSUME NEW f \in Files, NEW i \in 1..Len(file'[f].tracks)
        PROVE  /\ Added(file[f].enc, file[f].tracks[i])'
               /\ \A j \in 1..Len(file'[f].tracks) :
                    file'[f].tracks[i] = file'[f].tracks[j] => i = j
    <3>1. PICK e \in Encoders, k \in Kinds :
            e = file'[f].enc /\ k = file'[f].tracks[i] /\ Added(e, k)'
      BY TracksKnown
    <3>2. Added(file[f].enc, file[f].tracks[i])'
      BY <3>1 DEF Added
    <3> QED
      BY <3>2, TracksKnown
  <2> QED
    BY <2>1
<1>2. \A k \in Kinds : pc'[k] = "addTrack" => k \in enc'[using'[k]].known
  BY SMTT(30), <1>0, KnownGrows DEF ThreadMoves, KnownInv
<1>3. ASSUME NEW e \in Encoders, NEW k \in Kinds, enc'[e].track[k] # -1
      PROVE  Added(e, k)'
  <2>1. CASE enc'[e].track = enc[e].track
    BY <1>3, <2>1, AddedKept DEF KnownInv
  <2>2. CASE enc'[e].track = NoTracks
    BY <1>3, <2>2 DEF NoTracks
  <2>3. ASSUME NEW j \in Kinds, AddsTrack(j, e) PROVE Added(e, k)'
    <3>1. CASE j = k
      <4>1. k \in enc[e].known /\ pc'[k] = "start"
        BY <2>3, <3>1 DEF AddsTrack, KnownInv
      <4> QED
        BY <4>1, KnownGrows DEF Added
    <3>2. CASE j # k
      <4>1. enc'[e].track[k] = enc[e].track[k]
        BY <1>0, <2>3, <3>2 DEF AddsTrack, EncType, Encoder
      <4> QED
        BY <1>3, <4>1, AddedKept DEF KnownInv
    <3> QED
      BY <3>1, <3>2
  <2>4. CASE AddsTracks(e)
    BY <2>4, AddedKept DEF AddsTracks, KnownInv
  <2> QED
    BY ZenonT(60), <2>1, <2>2, <2>3, <2>4, NextAdds DEF AddsNone, AddsTrack, AddsTracks
<1>4. ASSUME NEW f \in Files, NEW k \in Kinds, timer'[f].pc # "none"
      PROVE  Added(file[f].enc, k)'
  <2>1. PICK e \in Encoders : e = file'[f].enc /\ Added(e, k)
    BY <1>4, TimerKnown
  <2>2. Added(e, k)'
    BY <2>1, AddedKept
  <2> QED
    BY <2>1, <2>2 DEF Added
<1>5. ASSUME NEW k \in Kinds, pc'[k] = "schedule"
      PROVE  /\ file'[receiver'[k]].enc = using'[k]
             /\ \A j \in Kinds : Added(using[k], j)'
  <2>0. PICK e \in Encoders : e = using[k] /\ e = using'[k]
    BY <1>0, <1>5 DEF ThreadMoves, PlaceInv, ThreadPlace, Inside
  <2>1. CASE pc[k] = "schedule" /\ receiver'[k] = receiver[k]
    <3>1. receiver[k] \in Files /\ file[receiver[k]].state # "none"
      BY <2>1 DEF PlaceInv, ThreadPlace
    <3>2. file'[receiver'[k]].enc = using'[k]
      BY <1>0, <2>0, <2>1, <3>1 DEF Later, KnownInv
    <3>3. \A j \in Kinds : Added(e, j)'
      <4>1. \A j \in Kinds : Added(e, j)
        BY <2>0, <2>1 DEF KnownInv
      <4> QED
        BY <4>1, AddedKept
    <3> QED
      BY <2>0, <3>2, <3>3 DEF Added
  <2>2. CASE /\ pc[k] = "start" /\ Ready(using[k])
             /\ receiver'[k] = enc[using[k]].muxer /\ receiver'[k] \in Files
    <3>1. file[receiver'[k]].enc = e
      BY <2>0, <2>2 DEF OrderInv
    <3>2. file'[receiver'[k]].enc = e
      BY <1>0, <2>2, <3>1 DEF Later, PlaceInv, FilePlace
    <3>3. \A j \in Kinds : Added(e, j)'
      BY <2>0, <2>2, AddedKept DEF KnownInv, Ready
    <3> QED
      BY <2>0, <3>2, <3>3 DEF Added
  <2> QED
    BY <1>0, <1>5, <2>1, <2>2 DEF ThreadMoves
<1>6. ASSUME NEW k \in Kinds, NEW f \in Files, pc'[k] \in {"start", "schedule"},
             file'[f].enc = using'[k], timer'[f].pc # "none"
      PROVE  FALSE
  <2>1. PICK e \in Encoders :
          /\ e = file[f].enc /\ e = file'[f].enc /\ \A j \in Kinds : Added(e, j)
    BY <1>6, TimerKnown
  <2>2. using[k] = e /\ pc[k] \in {"start", "schedule"}
    BY <1>0, <1>6, <2>1 DEF ThreadMoves, Added
  <2>3. \A g \in Files : file[g].enc = e => timer[g].pc = "none"
    BY <2>2 DEF KnownInv
  <2>4. ASSUME NEW g \in Files, timer[g].pc = "schedule", timer[g].next = f
        PROVE  FALSE
    BY <2>1, <2>3, <2>4 DEF TimerInv, TimerOf
  <2>5. ASSUME NEW j \in Kinds, pc[j] = "schedule", receiver[j] = f,
               pc'[j] \notin Inside
        PROVE  FALSE
    <3>1. using[j] = e /\ Within(j, e) /\ Within(k, e)
      BY <2>1, <2>2, <2>5 DEF KnownInv, Within, Inside
    <3>2. j = k
      BY <3>1 DEF MonitorInv
    <3> QED
      BY <1>6, <2>5, <3>2 DEF Inside
  <2> QED
    BY ZenonT(60), <1>6, <2>1, <2>3, <2>4, <2>5, NextMoves DEF TimerMoves
<1> QED
  BY <1>1, <1>2, <1>3, <1>4, <1>5, <1>6 DEF KnownInv

-----------------------------------------------------------------------------
(* Track indices and muxers that were read.                                *)

\* The file an encoder writes to: the same one, none, or a new one.
MuxerMoves ==
  \A e \in Encoders :
    LET m == enc[e].muxer
        n == enc'[e].muxer
    IN  \/ n = m
        \/ n = 0 /\ (m \in Files => file'[m].state = "stopped")
        \/ /\ n \in Files /\ file[n].state = "none" /\ file'[n].enc = e
           /\ \A f \in Files : file[f].state = "none" => n <= f
           /\ enc[e].track = NoTracks /\ enc'[e].track = NoTracks

LEMMA MuxersMove ==
  ASSUME Types, PlaceInv, OrderInv, TimerInv, [Next]_vars PROVE MuxerMoves
<1>0. /\ EncType /\ FileType /\ TimerType
      /\ ui \in Stopping => mp4Encoder \in Encoders
  BY DEF Types, PlaceInv, UiPlace
<1> DEFINE Same == \A e \in Encoders : enc'[e].muxer = enc[e].muxer
<1>s. Same => MuxerMoves
  BY DEF MuxerMoves
<1>1. ASSUME NEW f \in Files, OpenEncoder(f) PROVE MuxerMoves
  <2>1. ui = "newEncoder" /\ IsNext(f)
    BY Zenon, <1>1 DEF OpenEncoder
  <2>2. PICK e \in Encoders :
          /\ e = Cardinality({d \in Encoders : enc[d].codecs # "none"}) + 1
          /\ file'[f].enc = e
          /\ \A d \in Encoders : d # e => enc'[d] = enc[d]
          /\ enc'[e].muxer = f /\ enc'[e].track = enc[e].track
    BY ZenonT(60), <1>0, <1>1, OpenFx
  <2>3. enc[e] = NewEncoder
    BY <1>0, <2>1, <2>2, FreshEncoder
  <2>4. enc[e].track = NoTracks
    BY <2>3 DEF NewEncoder
  <2> QED
    BY <2>1, <2>2, <2>4 DEF MuxerMoves, IsNext, FreeFiles
<1>2. ASSUME NEW f \in Files, NEW g \in Files, SwapMuxer(f, g) PROVE MuxerMoves
  <2> DEFINE e == file[f].enc
  <2>0. e \in Encoders /\ timer[f].pc = "swap" /\ IsNext(g)
    BY <1>2, TimerFrame DEF Reset, SwapMuxer
  <2>1. /\ file'[g].enc = e /\ enc'[e].muxer = g /\ enc'[e].track = enc[e].track
        /\ \A d \in Encoders : d # e => enc'[d] = enc[d]
    BY <1>0, <1>2, <2>0, SwapFx
  <2>2. enc[e].track = NoTracks
    BY <2>0 DEF TimerInv, TimerOf
  <2> HIDE DEF e
  <2> QED
    BY <2>0, <2>1, <2>2 DEF MuxerMoves, IsNext, FreeFiles
<1>3. CASE StopMuxer
  <2> DEFINE m == enc[mp4Encoder].muxer
  <2>1. mp4Encoder \in Encoders /\ m \in Files \cup {0}
    BY <1>0, <1>3 DEF StopMuxer, Stopping, EncType, Encoder
  <2>2. \/ UNCHANGED enc
        \/ /\ m \in Files /\ Stop(m) /\ enc' = [enc EXCEPT ![mp4Encoder].muxer = 0]
    BY <1>3, <2>1 DEF StopMuxer
  <2>3. ASSUME m \in Files, Stop(m), enc' = [enc EXCEPT ![mp4Encoder].muxer = 0]
        PROVE  MuxerMoves
    <3>1. /\ \A d \in Encoders : d # mp4Encoder => enc'[d] = enc[d]
          /\ enc'[mp4Encoder].muxer = 0
      BY <1>0, <2>1, <2>3, ForgetMuxerFx
    <3>2. file'[m].state = "stopped"
      BY <1>0, <2>3, StopFx
    <3> QED
      BY <3>1, <3>2 DEF MuxerMoves
  <2> QED
    BY <1>s, <2>2, <2>3
<1>4. CASE Ui /\ ~StopMuxer /\ \A f \in Files : ~OpenEncoder(f)
  <2>1. CASE UNCHANGED enc
    BY <1>s, <2>1
  <2>2. CASE GetThumbnail
    BY <1>0, <1>s, <2>2, ThumbnailFx DEF GetThumbnail, Stopping
  <2>3. CASE CloseEncoder
    BY <1>0, <1>s, <2>3, CloseFx DEF CloseEncoder, Stopping
  <2>4. CASE StopCodecs
    BY <1>0, <1>s, <2>4, CodecsFx DEF StopCodecs, Stopping
  <2> QED
    BY <1>4, <2>1, <2>2, <2>3, <2>4
    DEF Ui, StartCapture, StopCapture, JoinCapture, StartRecoder, StopRecoder,
        ForgetEncoder, StopAudio, JoinAudio, Destroy, mediaVars
<1>5. ASSUME NEW k \in Kinds, Encode(k) PROVE MuxerMoves
  BY <1>s, <1>5, EncodeFrame
<1>6. ASSUME NEW f \in Files, Fire(f) \/ Reset(f), \A g \in Files : ~SwapMuxer(f, g)
      PROVE  MuxerMoves
  <2>0. file[f].enc \in Encoders
    BY <1>6, TimerFrame
  <2>1. CASE MarkReset(f)
    BY <1>0, <1>s, <2>0, <2>1, MarkFx
  <2>2. CASE RollMuxer(f)
    BY <1>0, <1>s, <2>2 DEF RollMuxer, EncType, Encoder
  <2>3. CASE ScheduleNext(f)
    BY <1>0, <1>s, <2>3 DEF ScheduleNext, EncType, Encoder
  <2> QED
    BY <1>6, <1>s, <2>1, <2>2, <2>3 DEF Fire, Reset, RestartMuxer, FinishReset
<1> QED
  BY <1>1, <1>2, <1>3, <1>4, <1>5, <1>6, <1>s
  DEF Next, Threads, Timers, OnFrame, BeginAudio, AudioLoop, mediaVars, vars

LEMMA ReceiverNext ==
  ASSUME Types, PlaceInv, OrderInv, TimerInv, ReceiverInv, [Next]_vars
  PROVE  ReceiverInv'
<1>0. /\ EncType /\ FileType /\ ThreadType /\ ThreadMoves /\ MuxerMoves
      /\ \A f \in Files : Later(f)
  BY NextLater, ThreadsMove, MuxersMove DEF Types
<1> SUFFICES ASSUME NEW k \in Kinds, pc'[k] = "write", receiver'[k] \in Files
             PROVE  /\ file'[receiver'[k]].enc = using'[k]
                    /\ \/ enc'[using'[k]].muxer = receiver'[k]
                       \/ file'[receiver'[k]].state = "stopped"
                       \/ \E g \in Files : /\ g > receiver'[k]
                                           /\ file'[g].enc = using'[k]
  BY DEF ReceiverInv
<1>1. PICK e \in Encoders, r \in Files :
        /\ e = using[k] /\ e = using'[k] /\ r = receiver'[k]
        /\ \/ pc[k] = "write" /\ receiver[k] = r
           \/ enc[e].muxer = r
  BY <1>0 DEF ThreadMoves
<1>2. /\ file[r].enc = e
      /\ \/ enc[e].muxer = r \/ file[r].state = "stopped"
         \/ \E g \in Files : g > r /\ file[g].enc = e
  BY <1>1 DEF ReceiverInv, OrderInv
<1>3. \A g \in Files : file[g].enc = e => file'[g].enc = e /\ file[g].state # "none"
  BY <1>0 DEF Later, PlaceInv, FilePlace
<1>4. CASE enc[e].muxer = r
  <2>1. CASE enc'[e].muxer = r
    BY <1>1, <1>2, <1>3, <2>1
  <2>2. CASE file'[r].state = "stopped"
    BY <1>1, <1>2, <1>3, <2>2
  <2>3. ASSUME NEW n \in Files, file[n].state = "none", file'[n].enc = e,
               \A f \in Files : file[f].state = "none" => n <= f
        PROVE  \E g \in Files : g > r /\ file'[g].enc = e
    <3>1. file[r].state # "none" /\ r # n
      BY <1>2, <1>3, <2>3
    <3>2. ~(n < r)
      BY <2>3, <3>1 DEF OrderInv
    <3>3. n \in Nat /\ r \in Nat
      BY Numbers
    <3> QED
      BY <2>3, <3>1, <3>2, <3>3
  <2> QED
    BY <1>0, <1>1, <1>2, <1>3, <1>4, <2>1, <2>2, <2>3 DEF MuxerMoves
<1>5. CASE file[r].state = "stopped"
  BY <1>0, <1>1, <1>2, <1>3, <1>5 DEF Later
<1>6. CASE \E g \in Files : g > r /\ file[g].enc = e
  BY <1>1, <1>2, <1>3, <1>6
<1> QED
  BY <1>2, <1>4, <1>5, <1>6

LEMMA TrackNext ==
  ASSUME Types, PlaceInv, OrderInv, TimerInv, KnownInv, TrackInv, [Next]_vars
  PROVE  TrackInv'
<1>0. /\ EncType /\ FileType /\ MuxerMoves /\ \A f \in Files : Later(f)
  BY NextLater, MuxersMove DEF Types
<1> SUFFICES ASSUME NEW e \in Encoders, NEW k \in Kinds, NEW m \in Files,
                    m = enc'[e].muxer, enc'[e].track[k] # -1,
                    file'[m].state \in {"new", "started"}
             PROVE  /\ enc'[e].track[k] < Len(file'[m].tracks)
                    /\ file'[m].tracks[enc'[e].track[k] + 1] = k
  BY DEF TrackInv
<1>1. enc'[e].track # NoTracks /\ m # 0
  BY Numbers DEF NoTracks
<1>2. enc[e].muxer = m
  BY <1>0, <1>1 DEF MuxerMoves
<1>3. file[m].enc = e /\ file[m].state # "none" /\ file[m].state \in {"new", "started"}
  BY <1>0, <1>2 DEF OrderInv, PlaceInv, FilePlace, Later, FileType, File
<1>4. file[m].tracks \in Seq(Kinds) /\ enc[e].track \in [Kinds -> -1..1]
  BY <1>0 DEF FileType, File, EncType, Encoder
<1>5. enc[e].track[k] # -1 =>
        /\ enc[e].track[k] < Len(file[m].tracks)
        /\ file[m].tracks[enc[e].track[k] + 1] = k
  BY <1>2, <1>3 DEF TrackInv
<1>6. CASE AddsNone
  <2>1. enc'[e].track = enc[e].track /\ file'[m].tracks = file[m].tracks
    BY <1>1, <1>6 DEF AddsNone
  <2> QED
    BY <1>5, <2>1
<1>7. ASSUME NEW j \in Kinds, using[j] \in Encoders, AddsTrack(j, using[j])
      PROVE  /\ enc'[e].track[k] < Len(file'[m].tracks)
             /\ file'[m].tracks[enc'[e].track[k] + 1] = k
  <2>1. CASE using[j] = e
    <3>1. /\ enc'[e].track = [enc[e].track EXCEPT ![j] = Len(file[m].tracks)]
          /\ file'[m].tracks = Append(file[m].tracks, j)
      BY <1>2, <1>7, <2>1 DEF AddsTrack
    <3>2. CASE j = k
      <4>1. PICK s \in Seq(Kinds) : s = file[m].tracks
        BY <1>4
      <4>2. Len(s) < Len(Append(s, k)) /\ Append(s, k)[Len(s) + 1] = k
        OBVIOUS
      <4>3. enc'[e].track[k] = Len(s) /\ file'[m].tracks = Append(s, k)
        BY Zenon, <1>4, <3>1, <3>2, <4>1
      <4> QED
        BY <4>2, <4>3
    <3>3. CASE j # k
      <4>1. enc'[e].track[k] = enc[e].track[k] /\ enc[e].track[k] \in -1..1
        BY <1>4, <3>1, <3>3
      <4>2. PICK t \in -1..1 : t = enc[e].track[k]
        BY <4>1
      <4>3. PICK s \in Seq(Kinds) : s = file[m].tracks
        BY <1>4
      <4>4. t # -1 /\ t < Len(s) /\ s[t + 1] = k
        BY <1>5, <4>1, <4>2, <4>3
      <4>5. t < Len(Append(s, j)) /\ Append(s, j)[t + 1] = k
        BY <4>4
      <4> QED
        BY <3>1, <4>1, <4>2, <4>3, <4>5
    <3> QED
      BY Zenon, <3>2, <3>3
  <2>2. CASE using[j] # e
    <3>1. m # enc[using[j]].muxer
      <4>1. enc[using[j]].muxer \in Files
        BY <1>7 DEF AddsTrack
      <4>2. file[enc[using[j]].muxer].enc = using[j]
        BY Zenon, <1>7, <4>1 DEF OrderInv
      <4> QED
        BY Zenon, <1>3, <2>2, <4>2
    <3>2. enc'[e].track = enc[e].track /\ file'[m].tracks = file[m].tracks
      BY <1>7, <2>2, <3>1 DEF AddsTrack
    <3> QED
      BY <1>5, <3>2
  <2> QED
    BY <2>1, <2>2
<1>8. ASSUME NEW d \in Encoders, AddsTracks(d)
      PROVE  /\ enc'[e].track[k] < Len(file'[m].tracks)
             /\ file'[m].tracks[enc'[e].track[k] + 1] = k
  <2>1. CASE d = e
    <3>1. enc'[e].track = RollTracks /\ file'[m].tracks = <<"video", "audio">>
      BY <1>2, <1>8, <2>1 DEF AddsTracks
    <3>2. RollTracks["video"] = 0 /\ RollTracks["audio"] = 1
      BY DEF RollTracks
    <3> QED
      BY <3>1, <3>2 DEF Kinds
  <2>2. CASE d # e
    <3>1. m # enc[d].muxer
      BY <1>2, <1>3, <1>8, <2>2 DEF OrderInv, AddsTracks
    <3>2. enc'[e].track = enc[e].track /\ file'[m].tracks = file[m].tracks
      BY <1>8, <2>2, <3>1 DEF AddsTracks
    <3> QED
      BY <1>5, <3>2
  <2> QED
    BY <2>1, <2>2
<1> QED
  BY <1>6, <1>7, <1>8, NextAdds

-----------------------------------------------------------------------------
(* Timers.                                                                 *)

\* The file and the encoder of a timer that was made are still its own.
LEMMA TimerOwner ==
  ASSUME Types, PlaceInv, [Next]_vars, NEW f \in Files, timer[f].pc # "none"
  PROVE  /\ file'[f].enc = file[f].enc /\ file[f].enc \in Encoders
         /\ timer[f].pc = "schedule" =>
              file'[timer[f].next].enc = file[timer[f].next].enc
BY NextLater DEF Later, PlaceInv, FilePlace, TimerPlace

LEMMA LiveKept ==
  ASSUME Types, PlaceInv, TimerInv, [Next]_vars, \A f \in Files : TimerOf(f)',
         \A f \in Files : Live(f)' => Live(f)
  PROVE  TimerInv'
<1>1. \A f \in Files : Live(f) => file'[f].enc = file[f].enc
  BY TimerOwner DEF Live
<1> QED
  BY <1>1 DEF TimerInv

\* A timer that a step leaves as it is.
LEMMA TimerOfKept ==
  ASSUME Types, PlaceInv, TimerInv, [Next]_vars, NEW f \in Files,
         timer'[f] = timer[f],
         timer[f].pc \in {"set", "mark"} =>
           enc'[file[f].enc].timer = enc[file[f].enc].timer,
         timer[f].pc = "swap" => enc'[file[f].enc].track = NoTracks
  PROVE  TimerOf(f)' /\ (Live(f)' => Live(f))
<1>1. TimerOf(f) /\ (Live(f)' => Live(f)) /\ (Rolling(f)' => Rolling(f))
  BY DEF TimerInv, Live, Rolling
<1>2. CASE timer[f].pc = "none"
  BY <1>1, <1>2 DEF TimerOf, Rolling
<1>3. CASE timer[f].pc # "none"
  <2>1. file'[f].enc = file[f].enc
        /\ (timer[f].pc = "schedule" =>
              file'[timer[f].next].enc = file[timer[f].next].enc)
    BY <1>3, TimerOwner
  <2> QED
    BY <1>1, <2>1 DEF TimerOf
<1> QED
  BY <1>2, <1>3

\* close and reset cancel the timer of their encoder.
LEMMA TimerOfCancelled ==
  ASSUME Types, PlaceInv, TimerInv, [Next]_vars, NEW e \in Encoders,
         NEW f \in Files, timer'[f] = CancelTimer(e)[f], UNCHANGED file,
         enc'[e].timer = 0, enc'[e].track = NoTracks,
         \A d \in Encoders : d # e => enc'[d] = enc[d]
  PROVE  TimerOf(f)' /\ (Live(f)' => Live(f))
<1>0. TimerType /\ TimerOf(f)
  BY DEF Types, TimerInv
<1>1. /\ timer'[f].pc \in {timer[f].pc, "over"}
      /\ timer'[f].pc = timer[f].pc =>
           /\ timer'[f].next = timer[f].next
           /\ timer'[f].periodic = timer[f].periodic
           /\ timer'[f].cancelled \in {timer[f].cancelled, TRUE}
  BY ZenonT(60), <1>0, CancelMoves
<1>2. CASE timer'[f].pc \in {"over", "none"}
  BY <1>2 DEF TimerOf, Rolling, Live
<1>3. CASE timer'[f].pc = timer[f].pc /\ timer[f].pc # "none"
  <2>1. file[f].enc \in Encoders /\ file'[f].enc = file[f].enc
    BY <1>3, TimerOwner
  <2>2. /\ Rolling(f)' => ~timer'[f].periodic \/ timer'[f].cancelled
        /\ timer'[f].pc = "schedule" => file'[timer'[f].next].enc = file'[f].enc
        /\ Live(f)' => Live(f)
    BY <1>0, <1>1, <1>3 DEF TimerOf, Rolling, Live
  <2>3. timer'[f].pc = "swap" => enc'[file'[f].enc].track = NoTracks
    BY <1>0, <1>3, <2>1 DEF TimerOf
  <2>4. ASSUME timer'[f].pc = "set" PROVE enc'[file'[f].enc].timer = f
    <3>1. enc[e].timer # f
      BY ZenonT(60), <1>0, <1>3, <2>4, CancelFx
    <3> QED
      BY <1>0, <1>3, <2>1, <2>4, <3>1 DEF TimerOf
  <2>5. ASSUME timer'[f].pc = "mark", ~timer'[f].cancelled
        PROVE  enc'[file'[f].enc].timer = f
    <3>1. enc[e].timer # f
      BY <1>0, <1>3, <2>5, CancelFx
    <3>2. ~timer[f].cancelled
      BY <1>0, <2>5, <3>1, CancelFx
    <3> QED
      BY <1>0, <1>3, <2>1, <2>5, <3>1, <3>2 DEF TimerOf
  <2> QED
    BY <2>2, <2>3, <2>4, <2>5 DEF TimerOf
<1> QED
  BY <1>1, <1>2, <1>3

LEMMA OthersTimers ==
  ASSUME Types, PlaceInv, KnownInv, MonitorInv, TimerInv, [Next]_vars,
         ~CloseEncoder, ~Timers, \A k \in Kinds : ~ScheduleReset(k)
  PROVE  TimerInv'
<1>0. /\ timer' = timer
      /\ \A e \in Encoders : enc'[e].timer = enc[e].timer
  BY FieldsKept
<1>1. ASSUME NEW f \in Files, timer[f].pc = "swap"
      PROVE  enc'[file[f].enc].track = NoTracks
  <2>1. /\ file[f].enc \in Encoders /\ enc[file[f].enc].track = NoTracks
        /\ \A k \in Kinds : Added(file[f].enc, k)
    BY <1>1, TimerOwner DEF TimerInv, TimerOf, KnownInv
  <2>2. CASE AddsNone
    BY Zenon, <2>1, <2>2 DEF AddsNone
  <2>3. ASSUME NEW k \in Kinds, AddsTrack(k, using[k])
        PROVE  enc'[file[f].enc].track = enc[file[f].enc].track
    <3>1. file[f].enc # using[k]
      BY <2>1, <2>3 DEF AddsTrack, Added
    <3> QED
      BY Zenon, <2>1, <2>3, <3>1 DEF AddsTrack
  <2>4. ASSUME NEW k \in Kinds, Encode(k) PROVE AddsNone \/ AddsTrack(k, using[k])
    BY <2>4, EncodeAdds
  <2>5. CASE OnFrame \/ BeginAudio \/ AudioLoop \/ UNCHANGED vars
    BY <2>2, <2>5 DEF AddsNone, OnFrame, BeginAudio, AudioLoop, mediaVars, vars
  <2> QED
    BY <2>1, <2>2, <2>3, <2>4, <2>5, UiAdds DEF Next, Threads
<1>2. \A f \in Files : timer[f].pc \in {"set", "mark"} => file[f].enc \in Encoders
  BY TimerOwner
<1>3. \A f \in Files : TimerOf(f)' /\ (Live(f)' => Live(f))
  BY <1>0, <1>1, <1>2, TimerOfKept
<1> QED
  BY <1>3, LiveKept

LEMMA CloseTimers ==
  ASSUME Types, PlaceInv, TimerInv, [Next]_vars, CloseEncoder PROVE TimerInv'
<1>0. EncType /\ mp4Encoder \in Encoders
  BY DEF Types, PlaceInv, UiPlace, CloseEncoder, Stopping
<1>1. /\ timer' = CancelTimer(mp4Encoder) /\ UNCHANGED file
      /\ enc'[mp4Encoder].timer = 0 /\ enc'[mp4Encoder].track = NoTracks
      /\ \A d \in Encoders : d # mp4Encoder => enc'[d] = enc[d]
  BY <1>0, CloseFx DEF CloseEncoder, TimersOnClose
<1>2. \A f \in Files : TimerOf(f)' /\ (Live(f)' => Live(f))
  BY <1>0, <1>1, TimerOfCancelled
<1> QED
  BY <1>2, LiveKept

LEMMA ScheduleTimers ==
  ASSUME Types, PlaceInv, KnownInv, TimerInv, [Next]_vars, NEW k \in Kinds,
         ScheduleReset(k)
  PROVE  TimerInv'
<1>0. EncType /\ TimerType /\ UNCHANGED file
  BY DEF Types, ScheduleReset
<1>1. PICK e \in Encoders, r \in Files :
        e = using[k] /\ r = receiver[k] /\ pc[k] = "schedule"
  BY DEF ScheduleReset, PlaceInv, ThreadPlace, Inside
<1>2. file[r].enc = e /\ \A f \in Files : file[f].enc = e => timer[f].pc = "none"
  BY <1>1 DEF KnownInv
<1>3. /\ timer'[r].pc = "set" /\ enc'[e].timer = r
      /\ \A f \in Files : f # r => timer'[f] = timer[f]
      /\ \A d \in Encoders : d # e => enc'[d] = enc[d]
  BY <1>0, <1>1, ScheduleFx
<1>4. TimerOf(r)'
  BY <1>0, <1>2, <1>3 DEF TimerOf, Rolling
<1>5. ASSUME NEW f \in Files, f # r PROVE TimerOf(f)' /\ (Live(f)' => Live(f))
  <2>1. timer[f].pc # "none" => file[f].enc \in Encoders /\ file[f].enc # e
    BY <1>2, TimerOwner
  <2> QED
    BY <1>3, <1>5, <2>1, TimerOfKept DEF TimerInv, TimerOf
<1>6. \A f \in Files : file[f].enc = e /\ Live(f)' => f = r
  BY <1>2, <1>3 DEF Live
<1>7. \A f, g \in Files : file[f].enc = file[g].enc /\ Live(f)' /\ Live(g)' => f = g
  <2>1. \A f \in Files : file[f].enc # e /\ Live(f)' => Live(f)
    BY <1>2, <1>5
  <2> QED
    BY <1>6, <2>1 DEF TimerInv
<1> QED
  BY <1>0, <1>4, <1>5, <1>7 DEF TimerInv

LEMMA ResetTimers ==
  ASSUME Types, PlaceInv, OrderInv, TimerInv, [Next]_vars, NEW f \in Files,
         Fire(f) \/ Reset(f)
  PROVE  TimerInv'
<1>0. /\ EncType /\ FileType /\ TimerType /\ timer[f].pc # "none"
      /\ file'[f].enc = file[f].enc /\ TimerOf(f)
      /\ \A g \in Files : Later(g)
  BY TimerFrame, TimerOwner, NextLater DEF Types, TimerInv
<1>1. PICK e \in Encoders : e = file[f].enc /\ e = file'[f].enc
  BY <1>0, TimerFrame
<1>2. \A d \in Encoders : d # e => enc'[d] = enc[d]
  BY <1>1, TimerFrame
<1>3. \A g \in Files : timer[g].pc # "none" => file[g].enc \in Encoders
  BY TimerOwner
\* The timers but f are as they were.
<1>a. ASSUME \A g \in Files : g # f => timer'[g] = timer[g], TimerOf(f)',
             Live(f)' => Live(f), enc'[e].timer = enc[e].timer,
             enc[e].track = NoTracks => enc'[e].track = NoTracks \/ Live(f)
      PROVE  TimerInv'
  <2>1. ASSUME NEW g \in Files, g # f PROVE TimerOf(g)' /\ (Live(g)' => Live(g))
    <3>1. timer[g].pc \in {"set", "mark"} =>
            enc'[file[g].enc].timer = enc[file[g].enc].timer
      BY <1>2, <1>3, <1>a
    <3>2. ASSUME timer[g].pc = "swap" PROVE enc'[file[g].enc].track = NoTracks
      <4>1. Live(g) /\ TimerOf(g)
        BY <3>2 DEF Live, TimerInv
      <4>2. CASE file[g].enc = e
        <5>1. ~Live(f)
          BY <1>1, <2>1, <4>1, <4>2 DEF TimerInv
        <5> QED
          BY <1>a, <3>2, <4>1, <4>2, <5>1 DEF TimerOf
      <4>3. CASE file[g].enc # e
        BY <1>2, <1>3, <3>2, <4>1, <4>3 DEF TimerOf
      <4> QED
        BY <4>2, <4>3
    <3> QED
      BY <1>a, <2>1, <3>1, <3>2, TimerOfKept
  <2> QED
    BY <1>a, <2>1, LiveKept
<1>b. ASSUME UNCHANGED enc, NEW l, l \in {"mark", "finish"}, TimerGoto(f, l),
             l = "mark" => timer[f].pc = "set", l = "finish" => timer[f].pc = "start"
      PROVE  TimerInv'
  <2>1. /\ \A g \in Files : g # f => timer'[g] = timer[g]
        /\ timer'[f].pc = l /\ timer'[f].periodic = timer[f].periodic
        /\ timer'[f].cancelled = timer[f].cancelled
    BY <1>0, <1>b, GotoFx
  <2>2. TimerOf(f)' /\ (Live(f)' => Live(f))
    BY <1>0, <1>b, <2>1 DEF TimerOf, Rolling, Live
  <2> QED
    BY <1>a, <1>b, <2>1, <2>2
<1>c. ASSUME EndReset(f), UNCHANGED enc, timer[f].pc = "set" \/ Rolling(f)
      PROVE  TimerInv'
  <2>1. /\ \A g \in Files : g # f => timer'[g] = timer[g]
        /\ timer'[f].pc = "over" \/ (timer[f].pc = "set" /\ timer'[f].pc = "set")
    BY <1>0, <1>c, EndFx DEF TimerOf
  <2>2. TimerOf(f)' /\ (Live(f)' => Live(f))
    BY <1>0, <1>c, <2>1 DEF TimerOf, Rolling, Live
  <2> QED
    BY <1>a, <1>c, <2>1, <2>2
<1>4. CASE Fire(f)
  BY <1>4, <1>b, <1>c DEF Fire
<1>5. CASE MarkReset(f)
  <2>1. /\ timer' = [CancelTimer(e) EXCEPT ![f].pc = "swap"] /\ UNCHANGED file
        /\ timer[f].pc = "mark"
    BY <1>1, <1>5 DEF MarkReset
  <2>2. enc'[e].timer = 0 /\ enc'[e].track = NoTracks
    BY <1>0, <1>1, <1>5, MarkFx
  <2>3. CancelTimer(e) \in [Files -> ResetTimer]
    BY <1>0, CancelType
  <2>4. /\ timer'[f].pc = "swap" /\ timer'[f].periodic = CancelTimer(e)[f].periodic
        /\ timer'[f].cancelled = CancelTimer(e)[f].cancelled
        /\ \A g \in Files : g # f => timer'[g] = CancelTimer(e)[g]
    BY <2>1, <2>3 DEF ResetTimer
  <2>5. timer'[f].cancelled
    <3>1. CASE enc[e].timer = f
      BY <1>0, <2>1, <2>4, <3>1, CancelFx
    <3>2. CASE enc[e].timer # f
      BY <1>0, <1>1, <2>1, <2>4, <3>2, CancelFx DEF TimerOf
    <3> QED
      BY <3>1, <3>2
  <2>6. TimerOf(f)' /\ (Live(f)' => Live(f))
    BY <1>1, <2>1, <2>2, <2>4, <2>5 DEF TimerOf, Live
  <2>7. \A g \in Files : g # f => TimerOf(g)' /\ (Live(g)' => Live(g))
    BY <1>2, <2>1, <2>2, <2>4, TimerOfCancelled
  <2> QED
    BY Zenon, <2>6, <2>7, LiveKept
<1>6. ASSUME NEW g \in Files, SwapMuxer(f, g) PROVE TimerInv'
  <2>1. /\ \A h \in Files : h # f => timer'[h] = timer[h]
        /\ timer'[f].pc = "addTracks" /\ timer'[f].periodic = timer[f].periodic
        /\ timer'[f].cancelled = timer[f].cancelled
        /\ enc'[e].timer = enc[e].timer /\ enc'[e].track = enc[e].track
    BY <1>0, <1>1, <1>6, SwapFx
  <2>2. TimerOf(f)' /\ (Live(f)' => Live(f))
    BY Zenon, <1>0, <1>6, <2>1 DEF TimerOf, Rolling, Live, SwapMuxer
  <2> QED
    BY <1>a, <2>1, <2>2
<1>7. CASE RollMuxer(f)
  <2>1. CASE TimerGoto(f, "start")
    <3>1. /\ \A h \in Files : h # f => timer'[h] = timer[h]
          /\ timer'[f].pc = "start" /\ timer'[f].periodic = timer[f].periodic
          /\ timer'[f].cancelled = timer[f].cancelled
      BY Zenon, <1>0, <2>1, GotoFx
    <3>2. TimerOf(f)' /\ Live(f)
      BY Zenon, <1>0, <1>7, <3>1 DEF TimerOf, Rolling, Live, RollMuxer
    <3>3. enc'[e].timer = enc[e].timer
      BY SMTT(30), <1>0, <1>7 DEF RollMuxer, EncType, Encoder
    <3> QED
      BY <1>a, <3>1, <3>2, <3>3
  <2> QED
    BY <1>7, <1>c, <2>1 DEF RollMuxer, Rolling
<1>8. CASE RestartMuxer(f)
  <2> DEFINE m == enc[e].muxer
  <2>0. m \in Files \cup {0} /\ UNCHANGED enc /\ timer[f].pc = "start"
    BY <1>0, <1>8 DEF RestartMuxer, EncType, Encoder
  <2>1. CASE /\ Takes(m)
             /\ timer' = [timer EXCEPT ![f].pc = "schedule", ![f].next = m]
    <3>1. m \in Files /\ file[m].enc = e
      BY <2>0, <2>1 DEF Takes, OrderInv
    <3>2. file'[m].enc = e
      BY <1>0, <2>1, <3>1 DEF Takes, Later
    <3> HIDE DEF m
    <3>3. /\ \A h \in Files : h # f => timer'[h] = timer[h]
          /\ timer'[f].pc = "schedule" /\ timer'[f].periodic = timer[f].periodic
          /\ timer'[f].cancelled = timer[f].cancelled /\ timer'[f].next = m
      BY <1>0, <2>1, RestartFx
    <3>4. TimerOf(f)' /\ (Live(f)' => Live(f))
      BY <1>0, <1>1, <2>0, <3>2, <3>3 DEF TimerOf, Rolling, Live
    <3> QED
      BY <1>a, <2>0, <3>3, <3>4
  <2> QED
    BY Zenon, <1>1, <1>8, <1>b, <1>c, <2>0, <2>1 DEF RestartMuxer, Rolling
<1>9. CASE ScheduleNext(f)
  <2>1. PICK g \in Files : g = timer[f].next /\ f # g /\ timer[f].pc = "schedule"
    BY Zenon, <1>9 DEF ScheduleNext, PlaceInv, TimerPlace
  <2>2. file[g].enc = e /\ UNCHANGED file
    BY <1>0, <1>1, <1>9, <2>1 DEF TimerOf, ScheduleNext
  <2>a. enc'[e].timer = g /\ enc'[e].track = enc[e].track
    BY ZenonT(60), <1>0, <1>1, <1>9, <2>1, NextFx
  <2>3. /\ timer'[f].pc = "finish" /\ timer'[f].periodic = timer[f].periodic
        /\ timer'[f].cancelled = timer[f].cancelled
    BY <1>0, <1>1, <1>9, <2>1, NextFx
  <2>b. /\ timer'[g].pc = "set"
        /\ \A h \in Files : h # f /\ h # g => timer'[h] = timer[h]
    BY <1>0, <1>9, <2>1 DEF ScheduleNext, TimerType, ResetTimer
  <2>4. TimerOf(f)' /\ ~(Live(f)')
    BY <1>0, <2>1, <2>3 DEF TimerOf, Rolling, Live
  <2>5. TimerOf(g)'
    BY <2>2, <2>a, <2>b DEF TimerOf, Rolling
  <2>6. Live(f) /\ \A h \in Files : h # f /\ file[h].enc = e => ~Live(h)
    BY <1>1, <2>1 DEF TimerInv, Live
  <2>7. ASSUME NEW h \in Files, h # f, h # g
        PROVE  TimerOf(h)' /\ (Live(h)' => Live(h))
    <3>1. timer[h].pc \in {"set", "mark", "swap"} =>
            file[h].enc \in Encoders /\ file[h].enc # e
      BY <1>3, <2>6, <2>7 DEF Live
    <3> QED
      BY <1>2, <2>b, <2>7, <3>1, TimerOfKept DEF TimerInv, TimerOf
  <2>8. \A h \in Files : file[h].enc = e /\ Live(h)' => h = g
    BY <2>4, <2>6, <2>7
  <2>9. \A h \in Files : file[h].enc # e /\ Live(h)' => Live(h)
    BY <1>1, <2>2, <2>7
  <2>10. \A h, i \in Files : file[h].enc = file[i].enc /\ Live(h)' /\ Live(i)' => h = i
    BY <2>8, <2>9 DEF TimerInv
  <2> QED
    BY <2>2, <2>4, <2>5, <2>7, <2>10 DEF TimerInv
<1>10. CASE FinishReset(f)
  BY <1>10, <1>c DEF FinishReset, Rolling
<1> QED
  BY <1>4, <1>5, <1>6, <1>7, <1>8, <1>9, <1>10 DEF Reset

LEMMA TimerNext ==
  ASSUME Types, PlaceInv, OrderInv, MonitorInv, KnownInv, TimerInv, [Next]_vars
  PROVE  TimerInv'
BY OthersTimers, CloseTimers, ScheduleTimers, ResetTimers DEF Timers

-----------------------------------------------------------------------------
(* The theorems.                                                           *)

\* At most one track is there when a second is added.
LEMMA TracksShort ==
  ASSUME Types, PlaceInv, OrderInv, KnownInv PROVE ShortTracks
<1> SUFFICES ASSUME NEW k \in Kinds, pc[k] = "addTrack",
                    enc[using[k]].muxer \in Files
             PROVE  Len(file[enc[using[k]].muxer].tracks) \in 0..1
  BY DEF ShortTracks
<1>1. PICK e \in Encoders, m \in Files : e = using[k] /\ m = enc[e].muxer
  BY DEF PlaceInv, ThreadPlace, Inside
<1>2. PICK s \in Seq(Kinds) : s = file[m].tracks
  BY DEF Types, FileType, File
<1>3. file[m].enc = e
  BY <1>1 DEF OrderInv
<1>4. \A i \in 1..Len(s) : Added(e, s[i]) /\ \A j \in 1..Len(s) : s[i] = s[j] => i = j
  BY <1>2, <1>3 DEF KnownInv
<1>5. ~Added(e, k)
  BY <1>1 DEF Added
<1>6. \A i \in 1..Len(s) : s[i] \in Kinds \ {k}
  BY <1>4, <1>5
<1>7. \A x, y \in Kinds \ {k} : x = y
  BY DEF Kinds
<1>8. Len(s) \in Nat /\ (Len(s) > 1 => 1 \in 1..Len(s) /\ 2 \in 1..Len(s))
  OBVIOUS
<1>9. ~(Len(s) > 1)
  BY <1>4, <1>6, <1>7, <1>8
<1>10. Len(s) \in 0..1
  <2>1. PICK n \in Nat : n = Len(s) /\ ~(n > 1)
    BY <1>8, <1>9
  <2>2. n \in 0..1
    BY <2>1
  <2> QED
    BY <2>1, <2>2
<1> QED
  BY <1>1, <1>2, <1>10

\* The inductive invariant.
Inv ==
  /\ Types /\ PlaceInv /\ UiInv /\ MonitorInv /\ OrderInv /\ KnownInv
  /\ TimerInv /\ TrackInv /\ ReceiverInv /\ MixedInv /\ AutoSavedIsFinished

LEMMA InvInit == Init => Inv
<1> SUFFICES ASSUME Init PROVE Inv
  OBVIOUS
<1>1. Types
  BY TypesInit, TypeIsTypes
<1>2. /\ \A e \in Encoders : enc[e] = NewEncoder
      /\ \A f \in Files : /\ file[f].state = "none" /\ file[f].enc = 0
                          /\ file[f].tracks = <<>>
                          /\ timer[f].pc = "none"
      /\ \A k \in Kinds : pc[k] = "idle"
      /\ ui = "idle" /\ ~isRecording /\ mp4Encoder = 0
      /\ saved = <<>> /\ mixed = {}
  BY DEF Init, NoTimer
<1>3. /\ \A e \in Encoders : /\ enc[e].codecs = "none" /\ enc[e].muxer = 0
                             /\ ~enc[e].open /\ enc[e].monitor = "free"
                             /\ enc[e].track = NoTracks
      /\ \A k \in Kinds : NoTracks[k] = -1
  BY <1>2 DEF NewEncoder, NoTracks
<1>4. PlaceInv
  BY <1>2, Numbers
  DEF PlaceInv, UiPlace, ThreadPlace, FilePlace, TimerPlace, Stopping, Inside
<1>5. UiInv
  BY <1>2, <1>3, Numbers DEF UiInv, Stopping, Kinds
<1>6. MonitorInv
  BY <1>2, <1>3 DEF MonitorInv, Within, Inside, Kinds
<1>7. OrderInv
  BY <1>2, <1>3, Numbers DEF OrderInv, Of
<1>8. KnownInv
  BY <1>2, <1>3 DEF KnownInv
<1>9. TimerInv
  BY <1>2 DEF TimerInv, TimerOf, Live, Rolling
<1>10. TrackInv /\ ReceiverInv /\ MixedInv /\ AutoSavedIsFinished
  BY <1>2, <1>3 DEF TrackInv, ReceiverInv, MixedInv, AutoSavedIsFinished
<1> QED
  BY <1>1, <1>4, <1>5, <1>6, <1>7, <1>8, <1>9, <1>10 DEF Inv

LEMMA TypesKept ==
  ASSUME Inv, [Next]_vars PROVE Types'
<1>0. Types /\ PlaceInv /\ ShortTracks
  BY TracksShort DEF Inv
<1>1. CASE UNCHANGED vars
  BY <1>0, <1>1
  DEF Types, vars, uiVars, captureVars, recordVars, mediaVars, threadVars,
      history, UiType, EncType, FileType, TimerType, ThreadType, HistoryType
<1>2. CASE Next
  BY <1>0, <1>2, UiTypes, ThreadTypes, TimerTypes, TypesNext DEF Next, Types
<1> QED
  BY <1>1, <1>2

LEMMA InvNext == Inv /\ [Next]_vars => Inv'
<1> SUFFICES ASSUME Inv, [Next]_vars PROVE Inv'
  OBVIOUS
<1>0. /\ Types /\ PlaceInv /\ UiInv /\ MonitorInv /\ OrderInv /\ KnownInv
      /\ TimerInv /\ TrackInv /\ ReceiverInv /\ MixedInv /\ AutoSavedIsFinished
  BY DEF Inv
<1>1. Types'
  BY TypesKept
<1>2. PlaceInv' /\ UiInv' /\ MonitorInv' /\ OrderInv'
  BY <1>0, PlaceNext, UiInvNext, MonitorNext, OrderNext
<1>3. KnownInv' /\ TimerInv'
  BY <1>0, KnownNext, TimerNext
<1>4. TrackInv' /\ ReceiverInv'
  BY <1>0, TrackNext, ReceiverNext
<1>5. MixedInv' /\ AutoSavedIsFinished'
  BY <1>0, MixedNext, AutoSavedNext
<1> QED
  BY <1>1, <1>2, <1>3, <1>4, <1>5 DEF Inv

\* The inductive invariant holds of every step of the UI thread, the encoder
\* threads and the reset timers, for any number of recordings and of files.
THEOREM InvAlways == Spec => []Inv
<1>1. Init => Inv
  BY InvInit
<1>2. Inv /\ [Next]_vars => Inv'
  BY InvNext
<1> QED
  BY <1>1, <1>2, PTL DEF Spec

\* Every variable keeps its type; no muxer is given a third track.
THEOREM RecorderTypeCorrect == Spec => []TypeOK
<1>1. Inv => TypeOK
  BY TypeIsTypes DEF Inv
<1> QED
  BY <1>1, InvAlways, PTL

\* onAutoSave is called once for a file and only when it is finished, in
\* whatever order close and the resets of any number of recordings run.
THEOREM AutoSavedFinished == Spec => []AutoSavedIsFinished
<1>1. Inv => AutoSavedIsFinished
  BY DEF Inv
<1> QED
  BY <1>1, InvAlways, PTL

\* A sample reaches the other kind's track only in a file that reset replaced.
THEOREM MixedReplaced == Spec => []MixedOnlyWhenReplaced
<1>1. Inv => MixedOnlyWhenReplaced
  BY DEF Inv, MixedInv, MixedOnlyWhenReplaced
<1> QED
  BY <1>1, InvAlways, PTL
-----------------------------------------------------------------------------
(* An encoder whose calls did not overlap.                                 *)

\* The threads of a segment's end between the reset of the fields and the
\* start of the next file.
Changing(f) == timer[f].pc \in {"swap", "addTracks", "start", "schedule"}
At(k, e, labels) == using[k] = e /\ pc[k] \in labels

\* Nobody is between the start of a muxer and mediaMuxerStarted.
Steady(e) ==
  /\ \A f \in Of(e) : ~Changing(f)
  /\ \A k \in Kinds : ~At(k, e, {"schedule"})

BusyInv(e) ==
  enc[e].monitor # "free" => enc[e].open /\ \A f \in Of(e) : ~Rolling(f)

\* Once close has begun nothing starts a file or a timer any more.
ClosedInv(e) ==
  ~enc[e].open => \A f \in Of(e) :
    /\ timer[f].pc \in {"none", "over"}
    /\ file[f].state = "started" =>
         f = enc[e].muxer /\ mp4Encoder = e /\ ui \in {"stopCodecs", "stopMuxer"}

\* While it is open one muxer takes tracks or samples, and the only other one
\* not stopped is the one a reset is about to stop.
OpenInv(e) ==
  LET m == enc[e].muxer IN
  enc[e].open =>
    /\ m \in Files /\ file[m].state \in {"new", "started"}
    /\ \A f \in Of(e) : file[f].state = "started" /\ f # m =>
         \E g \in Of(e) : Rolling(g) /\ timer[g].pc # "swap" /\ timer[g].old = f
    /\ enc[e].started => \A k \in Kinds : enc[e].track[k] # -1
    /\ Steady(e) => (enc[e].started <=> file[m].state = "started")

\* One reset works at a time, on the muxer it has made.
RollOf(e, f) ==
  LET m == enc[e].muxer IN
  /\ Changing(f) => ~enc[e].started
  /\ Rolling(f) /\ timer[f].pc # "swap" => timer[f].old # m
  /\ timer[f].pc \in {"addTracks", "start"} => file[m].state = "new"
  /\ timer[f].pc \in {"start", "schedule"} => enc[e].track = RollTracks
  /\ timer[f].pc = "schedule" => timer[f].next = m /\ file[m].state = "started"
RollInv(e) ==
  /\ \A f, g \in Of(e) : Rolling(f) /\ Rolling(g) => f = g
  /\ \A f \in Of(e) : RollOf(e, f)

\* A thread that has the muxer for a timer or a sample has the present one.
WriterInv(e) ==
  \A k \in Kinds :
    /\ At(k, e, {"schedule"}) =>
         /\ receiver[k] = enc[e].muxer /\ file[enc[e].muxer].state = "started"
         /\ \A j \in Kinds : enc[e].track[j] # -1
    /\ At(k, e, {"receive", "write"}) => enc[e].started
    /\ At(k, e, {"write"}) => receiver[k] = enc[e].muxer

\* The parts together, for an encoder whose calls did not overlap.
CalmOf(e) ==
  ~enc[e].disturbed =>
    BusyInv(e) /\ ClosedInv(e) /\ OpenInv(e) /\ RollInv(e) /\ WriterInv(e)
CalmInv == \A e \in Encoders : CalmOf(e)

\* A file is started when both formats were added.
StartedInv ==
  \A f \in Files, k \in Kinds : file[f].state = "started" => Added(file[f].enc, k)

\* The muxer a close or a reset may be about to stop is its encoder's own.
OldInv ==
  \A f \in Files : Rolling(f) /\ timer[f].pc # "swap" /\ timer[f].old \in Files =>
    file[timer[f].old].enc = file[f].enc

\* A thread that has tested mediaMuxerStarted, and a close that goes on.
Late(k, e) == At(k, e, {"schedule", "receive", "write"})
Finishing(e) == mp4Encoder = e /\ ui \in {"stopCodecs", "stopMuxer"}

\* A step changes nothing of encoder e that matters here.
SameFiles(e) ==
  /\ \A f \in Files : file'[f].enc = e <=> file[f].enc = e
  /\ \A f \in Of(e) : file'[f].state = file[f].state
SameTimers(e) ==
  \A f \in Of(e) :
    \/ /\ timer'[f].pc = timer[f].pc
       /\ timer'[f].old = timer[f].old /\ timer'[f].next = timer[f].next
    \/ timer[f].pc = "set" /\ timer'[f].pc \in {"set", "mark", "over"}
SameThreads(e) ==
  \A k \in Kinds : Late(k, e) \/ Late(k, e)' =>
    pc'[k] = pc[k] /\ using'[k] = using[k] /\ receiver'[k] = receiver[k]
SameEncoder(e) ==
  /\ enc'[e].open = enc[e].open /\ enc'[e].started = enc[e].started
  /\ enc'[e].track = enc[e].track /\ enc'[e].muxer = enc[e].muxer
  /\ enc[e].disturbed => enc'[e].disturbed
Unmoved(e) ==
  /\ SameFiles(e) /\ SameTimers(e) /\ SameThreads(e) /\ SameEncoder(e)
  /\ Finishing(e) => Finishing(e)'
Untouched(e) == Unmoved(e) /\ enc'[e].monitor \in {enc[e].monitor, "free"}

LEMMA MuxerIsOwn ==
  ASSUME OrderInv, NEW e \in Encoders, enc[e].muxer \in Files
  PROVE  enc[e].muxer \in Of(e)
BY DEF OrderInv, Of

LEMMA SteadyKept ==
  ASSUME NEW e \in Encoders, Unmoved(e) PROVE Steady(e)' => Steady(e)
<1>1. \A f \in Of(e) : Changing(f) => Changing(f)' /\ f \in Of(e)'
  BY DEF Unmoved, SameTimers, SameFiles, Changing, Of
<1>2. \A k \in Kinds : At(k, e, {"schedule"}) => At(k, e, {"schedule"})'
  BY DEF Unmoved, SameThreads, Late, At
<1> QED
  BY <1>1, <1>2 DEF Steady

LEMMA UnmovedCalm ==
  ASSUME PlaceInv, OrderInv, NEW e \in Encoders, CalmOf(e), Unmoved(e),
         enc'[e].disturbed \/ BusyInv(e)'
  PROVE  CalmOf(e)'
<1> SUFFICES ASSUME ~enc'[e].disturbed
             PROVE  /\ BusyInv(e)' /\ ClosedInv(e)' /\ OpenInv(e)' /\ RollInv(e)'
                    /\ WriterInv(e)'
  BY DEF CalmOf
<1>0. /\ BusyInv(e) /\ ClosedInv(e) /\ OpenInv(e) /\ RollInv(e) /\ WriterInv(e)
      /\ SameFiles(e) /\ SameTimers(e) /\ SameThreads(e) /\ SameEncoder(e)
  BY DEF CalmOf, Unmoved, SameEncoder
<1>1. /\ \A f \in Files : f \in Of(e)' <=> f \in Of(e)
      /\ \A f \in Of(e) : f \in Files /\ file'[f].state = file[f].state
      /\ \A f \in Of(e)' : f \in Of(e)
  BY <1>0 DEF SameFiles, Of
<1>2. \A f \in Of(e) :
        /\ Rolling(f)' <=> Rolling(f)
        /\ Changing(f)' <=> Changing(f)
        /\ Rolling(f) => /\ timer'[f].pc = timer[f].pc
                         /\ timer'[f].old = timer[f].old /\ timer'[f].next = timer[f].next
        /\ timer[f].pc \in {"none", "over"} => timer'[f].pc \in {"none", "over"}
  BY <1>0 DEF SameTimers, Rolling, Changing
<1>3. \A k \in Kinds, l \in {{"schedule"}, {"receive", "write"}, {"write"}} :
        At(k, e, l)' => At(k, e, l) /\ receiver'[k] = receiver[k]
  BY <1>0 DEF SameThreads, Late, At
<1> DEFINE m == enc[e].muxer
<1>4. /\ enc'[e].open = enc[e].open /\ enc'[e].started = enc[e].started
      /\ enc'[e].track = enc[e].track /\ enc'[e].muxer = m
  BY <1>0 DEF SameEncoder
<1>5. m \in Files => m \in Of(e) /\ file'[m].state = file[m].state
  BY <1>1, MuxerIsOwn
<1>6. enc[e].open => m \in Files
  BY <1>0 DEF OpenInv
<1>7. BusyInv(e)'
  OBVIOUS
<1>8. ClosedInv(e)'
  BY <1>0, <1>1, <1>2, <1>4 DEF ClosedInv, Unmoved, Finishing
<1>9. OpenInv(e)'
  <2> SUFFICES ASSUME enc[e].open PROVE OpenInv(e)'
    BY <1>4 DEF OpenInv
  <2>1. m \in Files /\ file'[m].state \in {"new", "started"}
    BY <1>0, <1>5 DEF OpenInv
  <2>2. ASSUME NEW f \in Of(e)', file'[f].state = "started", f # m
        PROVE  \E g \in Of(e)' : /\ Rolling(g)' /\ timer'[g].pc # "swap"
                                 /\ timer'[g].old = f
    <3>1. PICK g \in Of(e) : Rolling(g) /\ timer[g].pc # "swap" /\ timer[g].old = f
      BY <1>0, <1>1, <2>2 DEF OpenInv
    <3> QED
      BY <1>1, <1>2, <3>1
  <2>3. Steady(e)' => (enc[e].started <=> file'[m].state = "started")
    BY <1>0, <1>5, <2>1, SteadyKept DEF OpenInv
  <2>4. enc[e].started => \A k \in Kinds : enc[e].track[k] # -1
    BY <1>0 DEF OpenInv
  <2> QED
    BY <1>4, <2>1, <2>2, <2>3, <2>4 DEF OpenInv
<1>10. RollInv(e)'
  <2>1. \A f \in Of(e) : Rolling(f) => m \in Files
    BY <1>0, <1>6 DEF ClosedInv, Rolling
  <2>2. \A f, g \in Of(e)' : Rolling(f)' /\ Rolling(g)' => f = g
    BY <1>0, <1>1, <1>2 DEF RollInv, RollOf
  <2>3. ASSUME NEW f \in Of(e), Rolling(f)
        PROVE  /\ Changing(f)' => ~enc[e].started
               /\ timer'[f].pc # "swap" => timer'[f].old # m
               /\ timer'[f].pc \in {"addTracks", "start"} => file'[m].state = "new"
               /\ timer'[f].pc \in {"start", "schedule"} => enc[e].track = RollTracks
               /\ timer'[f].pc = "schedule" =>
                    timer'[f].next = m /\ file'[m].state = "started"
    BY <1>0, <1>2, <1>5, <2>1, <2>3 DEF RollInv, RollOf
  <2>4. \A f \in Of(e)' : \/ Rolling(f)
                          \/ /\ ~Changing(f)' /\ ~Rolling(f)'
                             /\ timer'[f].pc \notin {"addTracks", "start", "schedule"}
    BY <1>1, <1>2 DEF Rolling, Changing
  <2> QED
    BY <1>1, <1>4, <2>2, <2>3, <2>4 DEF RollInv, RollOf
<1>11. WriterInv(e)'
  <2>1. \A k \in Kinds : At(k, e, {"schedule"}) => m \in Files
    BY <1>0 DEF WriterInv, PlaceInv, ThreadPlace, At
  <2> QED
    BY <1>0, <1>3, <1>4, <1>5, <2>1 DEF WriterInv
<1> QED
  BY <1>7, <1>8, <1>9, <1>10, <1>11

LEMMA UntouchedCalm ==
  ASSUME PlaceInv, OrderInv, NEW e \in Encoders, CalmOf(e), Untouched(e)
  PROVE  CalmOf(e)'
<1>1. ASSUME ~enc'[e].disturbed PROVE BusyInv(e)'
  <2>1. BusyInv(e) /\ SameFiles(e) /\ SameTimers(e)
    BY <1>1 DEF CalmOf, Untouched, Unmoved, SameEncoder
  <2>2. \A f \in Of(e)' : f \in Of(e) /\ (Rolling(f)' => Rolling(f))
    BY <2>1 DEF SameFiles, SameTimers, Rolling, Of
  <2> QED
    BY <2>1, <2>2 DEF BusyInv, Untouched, Unmoved, SameEncoder
<1> QED
  BY <1>1, UnmovedCalm DEF Untouched

\* The steps outside encode calls, close and reset.
LEMMA OutsideUntouched ==
  ASSUME Types, PlaceInv, UiInv, NEW e \in Encoders,
         \/ StartCapture \/ StopCapture \/ JoinCapture \/ StartRecoder \/ StopRecoder
         \/ GetThumbnail \/ StopCodecs \/ ForgetEncoder \/ StopAudio \/ JoinAudio
         \/ Destroy \/ OnFrame \/ BeginAudio \/ AudioLoop \/ UNCHANGED vars
  PROVE  Untouched(e)
<1>0. EncType /\ ThreadType /\ (ui \in Stopping => mp4Encoder \in Encoders)
  BY DEF Types, PlaceInv, UiPlace
<1>1. UNCHANGED <<file, timer, using, receiver>>
  BY Zenon DEF StartCapture, StopCapture, JoinCapture, StartRecoder, StopRecoder,
     GetThumbnail, StopCodecs, ForgetEncoder, StopAudio, JoinAudio, Destroy, OnFrame,
     BeginAudio, AudioLoop, vars, mediaVars, threadVars
<1>2. \A k \in Kinds :
        \/ pc'[k] = pc[k]
        \/ pc[k] \in {"idle", "new", "loop"} /\ pc'[k] \in {"new", "look", "loop", "idle"}
  <2>1. CASE StartRecoder
    <3>1. pc["audio"] = "idle" /\ pc' = [pc EXCEPT !["audio"] = "new"]
      BY <2>1 DEF StartRecoder, UiInv, Stopping
    <3> QED
      BY <1>0, <3>1 DEF ThreadType
  <2>2. CASE OnFrame \/ BeginAudio \/ AudioLoop
    BY Zenon, <1>0, <2>2 DEF OnFrame, BeginAudio, AudioLoop, Goto, ThreadType
  <2>3. CASE UNCHANGED pc
    BY <2>3
  <2> QED
    BY Zenon, <2>1, <2>2, <2>3 DEF StartCapture, StopCapture, JoinCapture, StopRecoder,
       GetThumbnail, StopCodecs, ForgetEncoder, StopAudio, JoinAudio, Destroy, vars,
       threadVars
<1>3. SameEncoder(e) /\ enc'[e].monitor = enc[e].monitor
  <2>1. CASE GetThumbnail
    BY <1>0, <2>1, ThumbnailFx DEF SameEncoder, GetThumbnail, Stopping
  <2>2. CASE StopCodecs
    BY <1>0, <2>2, CodecsFx DEF SameEncoder, StopCodecs, Stopping
  <2>3. CASE UNCHANGED enc
    BY <2>3 DEF SameEncoder
  <2> QED
    BY Zenon, <2>1, <2>2, <2>3 DEF StartCapture, StopCapture, JoinCapture, StartRecoder,
       StopRecoder, ForgetEncoder, StopAudio, JoinAudio, Destroy, OnFrame,
       BeginAudio, AudioLoop, vars, mediaVars
<1>4. Finishing(e) => Finishing(e)'
  BY DEF Finishing, StartCapture, StopCapture, JoinCapture, StartRecoder, StopRecoder,
     GetThumbnail, StopCodecs, ForgetEncoder, StopAudio, JoinAudio, Destroy, OnFrame,
     BeginAudio, AudioLoop, vars, uiVars, recordVars
<1>5. SameThreads(e)
  BY <1>1, <1>2 DEF SameThreads, Late, At
<1>6. SameFiles(e) /\ SameTimers(e)
  BY <1>1 DEF SameFiles, SameTimers, Of
<1> QED
  BY <1>3, <1>4, <1>5, <1>6 DEF Untouched, Unmoved

\* The calm of an encoder that nothing was done with.
LEMMA OpenCalm ==
  ASSUME Types, PlaceInv, OrderInv, UiInv, MonitorInv, CalmInv,
         NEW f \in Files, OpenEncoder(f), NEW e \in Encoders
  PROVE  CalmOf(e)'
<1>0. /\ EncType /\ FileType /\ file[f].state = "none" /\ file[f].enc \notin Encoders
      /\ ui = "newEncoder" /\ mp4Encoder = 0
      /\ UNCHANGED <<timer, threadVars>>
  BY Zenon DEF Types, OpenEncoder, IsNext, FreeFiles, PlaceInv, FilePlace, UiInv
<1>1. PICK d \in Encoders :
           /\ d = Cardinality({c \in Encoders : enc[c].codecs # "none"}) + 1
           /\ \A c \in Encoders : c # d => enc'[c] = enc[c]
           /\ enc'[d].open = TRUE /\ enc'[d].muxer = f
           /\ enc'[d].started = enc[d].started
           /\ enc'[d].monitor = enc[d].monitor
           /\ \A g \in Files : g # f => file'[g] = file[g]
           /\ file'[f].state = "new" /\ file'[f].enc = d
  BY ZenonT(60), <1>0, OpenFx
<1>2. CASE e # d
  <2>1. SameFiles(e)
    BY <1>0, <1>1, <1>2 DEF SameFiles, Of
  <2>2. SameTimers(e) /\ SameThreads(e)
    BY <1>0 DEF SameTimers, SameThreads, Late, At, threadVars
  <2>3. SameEncoder(e) /\ ~Finishing(e)
    BY <1>0, <1>1, <1>2, Numbers DEF SameEncoder, Finishing
  <2>4. Untouched(e)
    BY <1>1, <1>2, <2>1, <2>2, <2>3 DEF Untouched, Unmoved
  <2> QED
    BY <2>4, UntouchedCalm DEF CalmInv, CalmOf
<1>3. CASE e = d
  <2>1. enc[e].codecs = "none" /\ enc[e] = NewEncoder /\ Of(e) = {}
    <3>1. enc[e] = NewEncoder
      BY <1>0, <1>1, <1>3, FreshEncoder
    <3>2. enc[e].codecs = "none"
      BY <3>1 DEF NewEncoder
    <3> QED
      BY <3>1, <3>2 DEF OrderInv
  <2>2. enc[e].monitor = "free" /\ enc[e].started = FALSE
    BY <2>1 DEF NewEncoder
  <2>3. \A g \in Files : g \in Of(e)' <=> g = f
    BY <1>0, <1>1, <1>3, <2>1 DEF Of
  <2>4. timer'[f].pc = "none"
    BY <1>0 DEF PlaceInv, TimerPlace
  <2>5. \A k \in Kinds : ~Late(k, e)'
    BY <1>0, <2>2 DEF MonitorInv, Within, Inside, Late, At, threadVars, Kinds
  <2>6. \A g \in Of(e)' : g = f /\ ~Rolling(g)' /\ ~Changing(g)'
    BY <2>3, <2>4 DEF Rolling, Changing, Of
  <2>7. BusyInv(e)' /\ ClosedInv(e)'
    BY <1>1, <1>3, <2>2, <2>6 DEF BusyInv, ClosedInv
  <2>8. OpenInv(e)'
    BY <1>1, <1>3, <2>2, <2>6 DEF OpenInv
  <2>9. RollInv(e)'
    BY <2>4, <2>6 DEF RollInv, RollOf
  <2>10. WriterInv(e)'
    BY <2>5 DEF WriterInv, Late, At
  <2> QED
    BY <2>7, <2>8, <2>9, <2>10 DEF CalmOf
<1> QED
  BY <1>2, <1>3

\* close finds no reset at work and nobody inside, or disturbs the encoder.
LEMMA CloseCalm ==
  ASSUME Types, PlaceInv, OrderInv, TimerInv, MonitorInv, CalmInv, CloseEncoder,
         NEW e \in Encoders
  PROVE  CalmOf(e)'
<1>0. /\ EncType /\ TimerType /\ mp4Encoder \in Encoders
      /\ ui = "close" /\ ui' = "stopCodecs" /\ UNCHANGED <<mp4Encoder, file, threadVars>>
      /\ timer' = CancelTimer(mp4Encoder)
  BY DEF Types, CloseEncoder, PlaceInv, UiPlace, Stopping, recordVars, TimersOnClose
<1>1. /\ \A d \in Encoders : d # mp4Encoder => enc'[d] = enc[d]
      /\ enc'[mp4Encoder].open = FALSE /\ enc'[mp4Encoder].started = FALSE
      /\ enc'[mp4Encoder].disturbed =
           (enc[mp4Encoder].disturbed \/ enc[mp4Encoder].monitor # "free" \/ Resets(mp4Encoder) # {})
      /\ enc'[mp4Encoder].muxer = enc[mp4Encoder].muxer
      /\ enc'[mp4Encoder].monitor = enc[mp4Encoder].monitor
  BY <1>0, CloseFx
<1>2. CASE e # mp4Encoder
  <2>1. SameFiles(e) /\ SameThreads(e) /\ SameEncoder(e) /\ ~Finishing(e)
    BY <1>0, <1>1, <1>2
    DEF SameFiles, SameThreads, SameEncoder, Finishing, Of, Late, At, threadVars
  <2>2. SameTimers(e)
    <3> SUFFICES ASSUME NEW f \in Files
                 PROVE  \/ /\ timer'[f].pc = timer[f].pc
                           /\ timer'[f].old = timer[f].old
                           /\ timer'[f].next = timer[f].next
                        \/ timer[f].pc = "set" /\ timer'[f].pc \in {"set", "mark", "over"}
      BY DEF SameTimers, Of
    <3> QED
      BY <1>0, CancelFx
  <2> QED
    BY <1>1, <1>2, <2>1, <2>2, UntouchedCalm DEF CalmInv, CalmOf, Untouched, Unmoved
<1>3. ASSUME e = mp4Encoder, ~enc'[e].disturbed
      PROVE  BusyInv(e)' /\ ClosedInv(e)' /\ OpenInv(e)' /\ RollInv(e)' /\ WriterInv(e)'
  <2>1. /\ ~enc[e].disturbed /\ enc[e].monitor = "free" /\ Resets(e) = {}
    BY <1>1, <1>3
  <2>2. OpenInv(e) /\ ClosedInv(e)
    BY <2>1 DEF CalmInv, CalmOf
  <2>3. \A f \in Of(e) : timer[f].pc \in {"none", "set", "over"}
    BY <2>1 DEF Resets, Of
  <2>4. \A f \in Of(e) : timer'[f].pc \in {"none", "over"}
    <3> SUFFICES ASSUME NEW f \in Of(e) PROVE timer'[f].pc \in {"none", "over"}
      OBVIOUS
    <3>0. f \in Files /\ file[f].enc = e /\ timer[f].pc \in {"none", "set", "over"}
      BY <2>3 DEF Of
    <3>1. CASE timer[f].pc = "set"
      <4>1. enc[e].timer = f
        BY <3>0, <3>1 DEF TimerInv, TimerOf
      <4> QED
        BY <1>0, <1>3, <3>0, <3>1, <4>1, CancelFx
    <3>2. CASE timer[f].pc # "set"
      BY <1>0, <1>3, <3>0, <3>2, CancelMoves
    <3> QED
      BY <3>1, <3>2
  <2>5. Of(e)' = Of(e)
    BY <1>0 DEF Of
  <2>6. \A f \in Of(e)' : ~Rolling(f)' /\ ~Changing(f)' /\ timer'[f].pc \in {"none", "over"}
    BY <2>4, <2>5 DEF Rolling, Changing
  <2>7. \A k \in Kinds : ~Late(k, e)'
    BY <1>0, <2>1 DEF MonitorInv, Within, Inside, Late, At, threadVars, Kinds
  <2>8. \A f \in Of(e)' : file'[f].state = "started" => f = enc'[e].muxer
    <3>1. \A f \in Of(e) : ~Rolling(f)
      BY <2>3 DEF Rolling
    <3>2. \A f \in Of(e) : file[f].state = "started" => f = enc[e].muxer
      BY <2>2, <3>1 DEF OpenInv, ClosedInv
    <3> QED
      BY <1>0, <1>1, <1>3, <2>5, <3>2
  <2>9. BusyInv(e)' /\ OpenInv(e)'
    BY <1>1, <1>3, <2>1 DEF BusyInv, OpenInv
  <2>10. ClosedInv(e)'
    BY <1>0, <1>3, <2>6, <2>8 DEF ClosedInv
  <2>11. RollInv(e)'
    BY <2>6 DEF RollInv, RollOf
  <2>12. WriterInv(e)'
    BY <2>7 DEF WriterInv, Late, At
  <2> QED
    BY <2>9, <2>10, <2>11, <2>12
<1> QED
  BY <1>2, <1>3 DEF CalmOf

LEMMA StopCalm ==
  ASSUME Types, PlaceInv, OrderInv, UiInv, MonitorInv, CalmInv, StopMuxer,
         NEW e \in Encoders
  PROVE  CalmOf(e)'
<1> DEFINE d == mp4Encoder
           m == enc[d].muxer
<1>0. /\ EncType /\ FileType /\ d \in Encoders /\ m \in Files \cup {0}
      /\ ui = "stopMuxer" /\ ui' = "forget" /\ UNCHANGED <<mp4Encoder, timer, threadVars>>
      /\ enc[d].open = FALSE
  BY DEF Types, EncType, Encoder, StopMuxer, PlaceInv, UiPlace, Stopping, recordVars, UiInv
<1>1. \/ /\ UNCHANGED <<enc, file>> /\ (m \in Files => file[m].state # "started")
      \/ /\ m \in Files /\ Stop(m) /\ enc' = [enc EXCEPT ![d].muxer = 0]
  BY <1>0, Numbers DEF StopMuxer
<1>2. /\ m \in Files => file[m].enc = d /\ file'[m].state # "started"
      /\ \A f \in Files : f # m => file'[f] = file[f]
      /\ \A f \in Files : file'[f].enc = file[f].enc
  BY <1>0, <1>1, StopFx DEF OrderInv
<1>3. /\ \A c \in Encoders : c # d => enc'[c] = enc[c]
      /\ enc'[d].open = FALSE /\ enc'[d].monitor = enc[d].monitor
      /\ enc'[d].disturbed = enc[d].disturbed
  BY ZenonT(60), <1>0, <1>1, ForgetMuxerFx
<1> HIDE DEF m
<1>4. CASE e # d
  <2>1. SameFiles(e) /\ SameTimers(e) /\ SameThreads(e) /\ SameEncoder(e) /\ ~Finishing(e)
    BY <1>0, <1>2, <1>3, <1>4
    DEF SameFiles, SameTimers, SameThreads, SameEncoder, Finishing, Of, Late, At, threadVars
  <2> QED
    BY <1>3, <1>4, <2>1, UntouchedCalm DEF CalmInv, CalmOf, Untouched, Unmoved
<1>5. ASSUME e = d, ~enc'[e].disturbed
      PROVE  BusyInv(e)' /\ ClosedInv(e)' /\ OpenInv(e)' /\ RollInv(e)' /\ WriterInv(e)'
  <2>1. BusyInv(e) /\ ClosedInv(e)
    BY <1>3, <1>5 DEF CalmInv, CalmOf
  <2>2. enc[e].monitor = "free" /\ Of(e)' = Of(e)
    BY <1>0, <1>2, <1>5, <2>1 DEF BusyInv, Of
  <2>3. \A f \in Of(e) : /\ timer'[f].pc \in {"none", "over"}
                         /\ file'[f].state = "started" => f = m /\ f \in Files
    <3>1. \A f \in Of(e) : /\ f \in Files /\ timer[f].pc \in {"none", "over"}
                           /\ file[f].state = "started" => f = enc[e].muxer
      BY <1>0, <1>5, <2>1 DEF ClosedInv, Of
    <3> QED
      BY <1>0, <1>2, <1>5, <3>1 DEF m
  <2>4. \A f \in Of(e)' : /\ ~Rolling(f)' /\ ~Changing(f)' /\ timer'[f].pc \in {"none", "over"}
                          /\ file'[f].state # "started"
    BY <1>2, <2>2, <2>3 DEF Rolling, Changing
  <2>5. \A k \in Kinds : ~Late(k, e)'
    BY <1>0, <2>2 DEF MonitorInv, Within, Inside, Late, At, threadVars, Kinds
  <2>6. BusyInv(e)' /\ OpenInv(e)' /\ ClosedInv(e)'
    BY <1>3, <1>5, <2>2, <2>4 DEF BusyInv, OpenInv, ClosedInv
  <2>7. RollInv(e)'
    BY <2>4 DEF RollInv, RollOf
  <2>8. WriterInv(e)'
    BY <2>5 DEF WriterInv, Late, At
  <2> QED
    BY <2>6, <2>7, <2>8
<1> QED
  BY <1>4, <1>5 DEF CalmOf

\* The encode calls leave the other encoders alone.
LEMMA EncodeOthers ==
  ASSUME Types, PlaceInv, OrderInv, KnownInv, NEW k \in Kinds, Encode(k),
         NEW e \in Encoders, pc[k] = "look" \/ using[k] # e
  PROVE  Untouched(e)
<1>0. /\ EncType /\ FileType /\ TimerType /\ ThreadType
      /\ UNCHANGED uiVars /\ Others(k) /\ enc'[e] = enc[e]
      /\ pc[k] # "look" => using[k] \in Encoders
  BY EncodeFrame DEF Types
<1>1. SameFiles(e)
  <2>1. CASE UNCHANGED file
    BY <2>1 DEF SameFiles, Of
  <2>2. CASE AddTrack(k)
    <3>1. \A f \in Files : file'[f].enc = file[f].enc /\ file'[f].state = file[f].state
      <4> DEFINE m == enc[using[k]].muxer
      <4>1. UNCHANGED file \/ file' = [file EXCEPT ![m].tracks = Append(@, k)]
        BY <2>2 DEF AddTrack
      <4> HIDE DEF m
      <4>2. CASE file' = [file EXCEPT ![m].tracks = Append(@, k)]
        BY ONLY <1>0, <4>2 DEF FileType, File
      <4> QED
        BY <4>1, <4>2
    <3> QED
      BY <3>1 DEF SameFiles, Of
  <2>3. CASE StartMuxer(k)
    <3> DEFINE m == enc[using[k]].muxer
    <3>1. \/ UNCHANGED file
          \/ /\ m \in Files /\ file[m].enc = using[k] /\ using[k] # e
             /\ file' = [file EXCEPT ![m].state = "started"]
      BY <1>0, <2>3 DEF StartMuxer, Takes, OrderInv, EncType, Encoder
    <3> HIDE DEF m
    <3>2. ASSUME m \in Files, file[m].enc # e,
                 file' = [file EXCEPT ![m].state = "started"]
          PROVE  SameFiles(e)
      BY <1>0, <3>2, StartFx DEF SameFiles, Of
    <3> QED
      BY <2>1, <3>1, <3>2
  <2> QED
    BY Zenon, <2>1, <2>2, <2>3 DEF Encode, LookUp, Enter, UseCodec, ScheduleReset,
       TestStarted, ReadMuxer, WriteSample, mediaVars
<1>2. SameTimers(e)
  <2>1. CASE UNCHANGED timer
    BY <2>1 DEF SameTimers
  <2>2. CASE ScheduleReset(k)
    <3>1. /\ receiver[k] \in Files /\ using[k] \in Encoders /\ using[k] # e
          /\ file[receiver[k]].enc = using[k]
      BY <1>0, <2>2 DEF ScheduleReset, PlaceInv, ThreadPlace, KnownInv
    <3>2. \A f \in Files : f # receiver[k] => timer'[f] = timer[f]
      BY <1>0, <2>2, <3>1, ScheduleFx
    <3> QED
      BY <3>1, <3>2 DEF SameTimers, Of
  <2> QED
    BY Zenon, <2>1, <2>2 DEF Encode, LookUp, Enter, UseCodec, AddTrack, StartMuxer,
       TestStarted, ReadMuxer, WriteSample, mediaVars
<1>3. ~Late(k, e) /\ ~Late(k, e)'
  <2>1. \A l : Goto(k, l) => pc'[k] = l
    BY <1>0 DEF Goto, ThreadType
  <2>2. CASE LookUp(k)
    <3>1. pc'[k] \in {Thrown(k), Rest(k), "enter"} /\ pc[k] = "look"
      BY <2>1, <2>2 DEF LookUp
    <3> QED
      BY <3>1 DEF Late, At, Rest, Thrown
  <2>3. CASE ~LookUp(k)
    <3>1. using[k] # e
      BY <2>3 DEF Encode, Enter, UseCodec, AddTrack, StartMuxer, ScheduleReset,
         TestStarted, ReadMuxer, WriteSample
    <3>2. using' \in {using, [using EXCEPT ![k] = 0]}
      BY Zenon, <2>3 DEF Encode, Enter, UseCodec, AddTrack, StartMuxer,
         ScheduleReset, TestStarted, ReadMuxer, WriteSample, Continue, Leave
    <3>3. using'[k] \in {using[k], 0} /\ e # 0
      BY <1>0, <3>2, Numbers DEF ThreadType
    <3> QED
      BY <3>1, <3>3 DEF Late, At
  <2> QED
    BY <2>2, <2>3
<1>4. SameThreads(e)
  BY <1>0, <1>3 DEF Others, SameThreads, Late, At
<1> QED
  BY <1>0, <1>1, <1>2, <1>4 DEF Untouched, Unmoved, SameEncoder, Finishing, uiVars, recordVars

\* A call inside the monitor of an encoder that is calm.
LEMMA InsideCalm ==
  ASSUME OrderInv, MonitorInv, NEW e \in Encoders, NEW k \in Kinds, CalmOf(e),
         ~enc[e].disturbed, Within(k, e), Others(k),
         enc'[e].open = enc[e].open, enc'[e].muxer = enc[e].muxer,
         \A f \in Files : file'[f].enc = e <=> file[f].enc = e,
         \A f \in Of(e) : f # enc[e].muxer => file'[f].state = file[f].state,
         file'[enc[e].muxer].state \in {"new", "started"},
         \A f \in Of(e) : timer'[f].pc \in {timer[f].pc, "set"},
         enc'[e].started => \A j \in Kinds : enc'[e].track[j] # -1,
         Steady(e)' => (enc'[e].started <=> file'[enc[e].muxer].state = "started"),
         At(k, e, {"schedule"})' =>
           /\ receiver'[k] = enc[e].muxer /\ file'[enc[e].muxer].state = "started"
           /\ \A j \in Kinds : enc'[e].track[j] # -1,
         At(k, e, {"receive", "write"})' => enc'[e].started,
         At(k, e, {"write"})' => receiver'[k] = enc[e].muxer
  PROVE  CalmOf(e)'
<1>0. /\ enc[e].monitor = k /\ k # "free"
      /\ BusyInv(e) /\ OpenInv(e)
  BY DEF MonitorInv, CalmOf, Kinds
<1>1. enc[e].open /\ \A f \in Of(e) : ~Rolling(f)
  BY <1>0 DEF BusyInv
<1>2. \A f \in Of(e)' : f \in Of(e) /\ ~Rolling(f)' /\ ~Changing(f)'
                        /\ timer'[f].pc \notin {"addTracks", "start", "schedule"}
  BY <1>1 DEF Of, Rolling, Changing
<1>3. \A j \in Kinds : j # k => ~Late(j, e)'
  BY <1>0 DEF MonitorInv, Within, Inside, Late, At, Others
<1>4. enc[e].muxer \in Files
      /\ \A f \in Of(e) : file[f].state = "started" => f = enc[e].muxer
  BY <1>0, <1>1 DEF OpenInv
<1>5. BusyInv(e)' /\ ClosedInv(e)'
  BY <1>1, <1>2 DEF BusyInv, ClosedInv
<1>6. OpenInv(e)'
  BY <1>1, <1>2, <1>4 DEF OpenInv
<1>7. RollInv(e)'
  BY <1>2 DEF RollInv, RollOf
<1>8. WriterInv(e)'
  BY <1>3 DEF WriterInv, Late, At
<1> QED
  BY <1>5, <1>6, <1>7, <1>8 DEF CalmOf

\* What a thread finds inside the monitor of a calm encoder.
LEMMA InsideFacts ==
  ASSUME Types, OrderInv, MonitorInv, NEW e \in Encoders, NEW k \in Kinds,
         CalmOf(e), ~enc[e].disturbed, Within(k, e)
  PROVE  /\ enc[e].open /\ enc[e].codecs = "running" /\ enc[e].monitor = k
         /\ enc[e].muxer \in Files /\ enc[e].muxer \in Of(e)
         /\ file[enc[e].muxer].enc = e
         /\ file[enc[e].muxer].state \in {"new", "started"}
         /\ enc[e].started => \A j \in Kinds : enc[e].track[j] # -1
         /\ pc[k] # "schedule" =>
              (enc[e].started <=> file[enc[e].muxer].state = "started")
<1>0. /\ enc[e].monitor = k /\ k # "free"
      /\ BusyInv(e) /\ OpenInv(e)
  BY DEF MonitorInv, CalmOf, Kinds
<1>1. enc[e].open /\ \A f \in Of(e) : ~Rolling(f)
  BY <1>0 DEF BusyInv
<1>2. enc[e].muxer \in Files /\ enc[e].muxer \in Of(e)
  BY <1>0, <1>1, MuxerIsOwn DEF OpenInv
<1>3. pc[k] # "schedule" => Steady(e)
  <2>1. \A f \in Of(e) : ~Changing(f)
    BY <1>1 DEF Rolling, Changing
  <2>2. pc[k] # "schedule" => \A j \in Kinds : ~At(j, e, {"schedule"})
    BY <1>0 DEF MonitorInv, Within, Inside, At
  <2> QED
    BY <2>1, <2>2 DEF Steady
<1> QED
  BY <1>0, <1>1, <1>2, <1>3 DEF OpenInv, OrderInv, Of

LEMMA EnterCalm ==
  ASSUME Types, PlaceInv, OrderInv, NEW k \in Kinds, Enter(k),
         NEW e \in Encoders, e = using[k], CalmOf(e)
  PROVE  CalmOf(e)'
<1>0. /\ EncType /\ ThreadType /\ UNCHANGED <<uiVars, file, timer, receiver>>
  BY DEF Types, Enter
<1>2. \A l : Goto(k, l) => pc'[k] = l /\ \A j \in Kinds : j # k => pc'[j] = pc[j]
  BY <1>0 DEF Goto, ThreadType
<1>3. SameFiles(e) /\ SameTimers(e) /\ (Finishing(e) => Finishing(e)')
  BY <1>0 DEF SameFiles, SameTimers, Finishing, Of, uiVars, recordVars
<1>4. SameThreads(e)
  <2>1. \A j \in Kinds : j # k => pc'[j] = pc[j] /\ using'[j] = using[j]
    BY <1>0, <1>2 DEF Enter, ThreadType
  <2>2. ~Late(k, e) /\ ~Late(k, e)'
    <3>1. pc[k] = "enter" /\ pc'[k] \in {Rest(k), "codec"}
      BY <1>2 DEF Enter
    <3> QED
      BY <3>1 DEF Late, At, Rest
  <2> QED
    BY <1>0, <2>1, <2>2 DEF SameThreads, Late, At
<1>5. CASE UNCHANGED enc
  <2>1. Untouched(e)
    BY <1>3, <1>4, <1>5 DEF Untouched, Unmoved, SameEncoder
  <2> QED
    BY <2>1, UntouchedCalm
<1>6. CASE /\ MayEnter(e) /\ enc' = [enc EXCEPT ![e].monitor = k,
                              ![e].disturbed = @ \/ Resets(e) # {}]
  <2>1. /\ enc'[e].disturbed = (enc[e].disturbed \/ Resets(e) # {})
        /\ enc'[e].open = enc[e].open /\ enc'[e].started = enc[e].started
        /\ enc'[e].track = enc[e].track /\ enc'[e].muxer = enc[e].muxer
    BY ZenonT(60), <1>0, <1>6, EnterFx
  <2>2. Unmoved(e)
    BY <1>3, <1>4, <2>1 DEF Unmoved, SameEncoder
  <2>3. ASSUME ~enc'[e].disturbed PROVE BusyInv(e)'
    <3>1. Resets(e) = {} /\ enc[e].open
      BY <1>6, <2>1, <2>3 DEF MayEnter
    <3>2. \A f \in Of(e) : ~Rolling(f)
      BY <3>1 DEF Resets, Rolling, Of
    <3>3. \A f \in Of(e)' : ~Rolling(f)'
      BY <1>0, <3>2 DEF Rolling, Of
    <3> QED
      BY <2>1, <3>1, <3>3 DEF BusyInv
  <2> QED
    BY <2>2, <2>3, UnmovedCalm
<1> QED
  BY <1>5, <1>6 DEF Enter

\* The steps of encodeVideo and encodeAudio that are inside the monitor.
LEMMA WithinCalm ==
  ASSUME Types, PlaceInv, OrderInv, KnownInv, MonitorInv, NEW k \in Kinds,
         Encode(k), ~LookUp(k), ~Enter(k), NEW e \in Encoders, e = using[k],
         CalmOf(e)
  PROVE  CalmOf(e)'
<1>0. /\ EncType /\ FileType /\ TimerType /\ ThreadType
      /\ UNCHANGED uiVars /\ Others(k)
      /\ enc'[e].open = enc[e].open /\ enc'[e].muxer = enc[e].muxer
      /\ enc[e].disturbed => enc'[e].disturbed
  BY EncodeFrame DEF Types
<1>1. Within(k, e)
  BY Zenon DEF Encode, UseCodec, AddTrack, StartMuxer, ScheduleReset, TestStarted,
     ReadMuxer, WriteSample, Within, Inside
<1>2. \A l : Goto(k, l) => pc'[k] = l
  BY <1>0 DEF Goto, ThreadType
<1> SUFFICES ASSUME ~enc[e].disturbed PROVE CalmOf(e)'
  BY <1>0 DEF CalmOf
<1> DEFINE m == enc[e].muxer
<1>3. /\ enc[e].open /\ enc[e].codecs = "running" /\ enc[e].monitor = k
      /\ m \in Files /\ m \in Of(e) /\ file[m].enc = e
      /\ file[m].state \in {"new", "started"}
      /\ enc[e].started => \A j \in Kinds : enc[e].track[j] # -1
      /\ pc[k] # "schedule" => (enc[e].started <=> file[m].state = "started")
      /\ WriterInv(e)
  BY <1>1, InsideFacts DEF CalmOf
\* Out of the monitor, or on to where no muxer is in hand.
<1>a. ASSUME UNCHANGED <<file, timer>>, pc[k] # "schedule",
             enc'[e].started = enc[e].started, enc'[e].track = enc[e].track,
             pc'[k] \notin {"schedule", "receive", "write"}
      PROVE  CalmOf(e)'
  <2>1. ~Late(k, e)'
    BY <1>a DEF Late, At
  <2>2. \A f \in Files : file'[f].enc = e <=> file[f].enc = e
    BY <1>a
  <2> HIDE DEF m
  <2> QED
    BY <1>0, <1>1, <1>3, <1>a, <2>1, <2>2, InsideCalm DEF Late, At, m
<1>b. ASSUME NEW l \in {Rest(k), Thrown(k), AfterSample(k)}, Leave(k, l)
      PROVE  /\ pc'[k] \notin {"schedule", "receive", "write"}
             /\ enc'[e].started = enc[e].started /\ enc'[e].track = enc[e].track
  <2>1. pc'[k] = l
    BY <1>2, <1>b DEF Leave
  <2>2. l \notin Inside
    BY LabelsAfter
  <2>3. enc'[e].started = enc[e].started /\ enc'[e].track = enc[e].track
    BY <1>0, <1>b, LeaveFx
  <2> QED
    BY <2>1, <2>2, <2>3 DEF Inside
<1>4. CASE UseCodec(k)
  <2>1. pc[k] = "codec" /\ UNCHANGED <<file, timer>>
    BY <1>4 DEF UseCodec
  <2>2. ASSUME pc'[k] \in {"addTrack", "test"},
               \/ UNCHANGED enc \/ enc' = [enc EXCEPT ![e].known = @ \cup {k}]
        PROVE  CalmOf(e)'
    <3>1. enc'[e].started = enc[e].started /\ enc'[e].track = enc[e].track
      BY <1>0, <2>2, FormatFx
    <3> QED
      BY <1>a, <2>1, <2>2, <3>1
  <2>3. \/ Leave(k, Thrown(k)) \/ Leave(k, Rest(k))
        \/ /\ pc'[k] \in {"addTrack", "test"}
           /\ UNCHANGED enc \/ enc' = [enc EXCEPT ![e].known = @ \cup {k}]
    BY <1>2, <1>4 DEF UseCodec, Continue
  <2> QED
    BY <1>a, <1>b, <2>1, <2>2, <2>3
<1>5. CASE AddTrack(k)
  <2>1. pc[k] = "addTrack" /\ UNCHANGED timer
    BY <1>5 DEF AddTrack
  <2>2. CASE Leave(k, Thrown(k)) /\ UNCHANGED file
    BY <1>a, <1>b, <2>1, <2>2
  <2>3. CASE /\ Takes(m) /\ pc'[k] = "start"
             /\ file' = [file EXCEPT ![m].tracks = Append(@, k)]
             /\ enc' = [enc EXCEPT ![e].track[k] = Len(file[m].tracks)]
    <3>1. /\ enc'[e].started = enc[e].started
          /\ \A f \in Files : file'[f].enc = file[f].enc /\ file'[f].state = file[f].state
      BY ZenonT(60), <1>0, <1>3, <2>3, AddFx
    <3>2. ~Late(k, e)'
      BY <2>3 DEF Late, At
    <3>3. ~enc[e].started
      BY <1>3, <2>1, <2>3 DEF Takes
    <3> HIDE DEF m
    <3> QED
      BY <1>0, <1>1, <1>3, <2>1, <3>1, <3>2, <3>3, InsideCalm DEF Late, At, m, Of
  <2> QED
    BY <1>2, <1>5, <2>2, <2>3 DEF AddTrack
<1>6. CASE StartMuxer(k)
  <2>1. pc[k] = "start" /\ UNCHANGED timer
    BY <1>6 DEF StartMuxer
  <2>2. ASSUME NEW l \in {Rest(k), Thrown(k)}, Leave(k, l), UNCHANGED file
        PROVE  CalmOf(e)'
    BY <1>a, <1>b, <2>1, <2>2
  <2>3. CASE /\ Ready(e) /\ receiver' = [receiver EXCEPT ![k] = m]
             /\ file' = [file EXCEPT ![m].state = "started"] /\ Continue(k, "schedule")
    <3>1. /\ UNCHANGED <<enc, using>> /\ pc'[k] = "schedule" /\ receiver'[k] = m
      BY <1>0, <1>2, <2>3 DEF Continue, ThreadType
    <3>2. /\ \A f \in Files : f # m => file'[f] = file[f]
          /\ file'[m].state = "started" /\ file'[m].enc = file[m].enc
      BY <1>0, <1>3, <2>3, StartFx
    <3>3. ~Steady(e)'
      BY <3>1 DEF Steady, At
    <3>4. ~enc[e].started /\ \A j \in Kinds : enc[e].track[j] # -1
      BY <2>3 DEF Ready
    <3> HIDE DEF m
    <3> QED
      BY <1>0, <1>1, <1>3, <2>1, <3>1, <3>2, <3>3, <3>4, InsideCalm DEF At, m, Of
  <2> QED
    BY <1>6, <2>2, <2>3 DEF StartMuxer
<1>7. CASE ScheduleReset(k)
  <2>1. pc[k] = "schedule" /\ UNCHANGED file /\ pc'[k] = Rest(k)
    BY <1>2, <1>7 DEF ScheduleReset
  <2>2. /\ receiver[k] = m /\ file[m].state = "started"
        /\ \A j \in Kinds : enc[e].track[j] # -1
    BY <1>3, <2>1 DEF WriterInv, At
  <2>3. /\ enc'[e].started = TRUE /\ enc'[e].track = enc[e].track
        /\ \A f \in Files : timer'[f].pc \in {timer[f].pc, "set"}
    BY <1>0, <1>3, <1>7, <2>2, ScheduleFx
  <2>4. ~Late(k, e)'
    BY <2>1 DEF Late, At, Rest
  <2> HIDE DEF m
  <2> QED
    BY <1>0, <1>1, <1>3, <2>1, <2>2, <2>3, <2>4, InsideCalm DEF Late, At, m, Of
<1>8. CASE TestStarted(k)
  <2>1. pc[k] = "test" /\ UNCHANGED <<file, timer>>
    BY <1>8 DEF TestStarted
  <2>2. CASE Leave(k, AfterSample(k))
    BY <1>a, <1>b, <2>1, <2>2
  <2>3. CASE enc[e].started /\ Continue(k, "receive")
    <3>1. UNCHANGED enc /\ pc'[k] = "receive"
      BY <1>2, <2>3 DEF Continue
    <3>2. ~At(k, e, {"schedule"})' /\ ~At(k, e, {"write"})'
      BY <3>1 DEF At
    <3> HIDE DEF m
    <3> QED
      BY <1>0, <1>1, <1>3, <2>1, <2>3, <3>1, <3>2, InsideCalm DEF m, Of
  <2> QED
    BY <1>8, <2>2, <2>3 DEF TestStarted
<1>9. CASE ReadMuxer(k)
  <2>1. /\ pc[k] = "receive" /\ UNCHANGED <<file, timer, enc>>
        /\ pc'[k] = "write" /\ receiver'[k] = m
    BY <1>0, <1>2, <1>9 DEF ReadMuxer, Continue, ThreadType
  <2>2. enc[e].started /\ ~At(k, e, {"schedule"})'
    BY <1>3, <2>1 DEF WriterInv, At
  <2> HIDE DEF m
  <2> QED
    BY <1>0, <1>1, <1>3, <2>1, <2>2, InsideCalm DEF m, Of
<1>10. CASE WriteSample(k)
  <2>1. /\ pc[k] = "write" /\ UNCHANGED <<file, timer>>
        /\ Leave(k, AfterSample(k)) \/ Leave(k, Thrown(k))
    BY <1>10 DEF WriteSample
  <2> QED
    BY <1>a, <1>b, <2>1
<1> QED
  BY <1>4, <1>5, <1>6, <1>7, <1>8, <1>9, <1>10 DEF Encode

-----------------------------------------------------------------------------
(* The resets of a calm encoder.                                           *)

\* A reset leaves the other encoders alone.
LEMMA ResetOthers ==
  ASSUME Types, PlaceInv, OrderInv, TimerInv, OldInv, NEW f \in Files,
         Fire(f) \/ Reset(f), NEW d \in Encoders, d # file[f].enc
  PROVE  Untouched(d)
<1>0. /\ EncType /\ FileType /\ TimerType /\ UNCHANGED <<uiVars, threadVars>>
      /\ enc'[d] = enc[d]
  BY TimerFrame DEF Types
<1>1. PICK e \in Encoders : e = file[f].enc /\ e # d
  BY TimerFrame
<1> DEFINE m == enc[e].muxer
<1>2. m \in Files \cup {0} /\ (m \in Files => file[m].enc = e)
  BY <1>0 DEF EncType, Encoder, OrderInv
<1>3. SameFiles(d)
  <2>1. CASE UNCHANGED file
    BY <2>1 DEF SameFiles, Of
  <2>2. ASSUME NEW g \in Files, SwapMuxer(f, g) PROVE SameFiles(d)
    <3>1. file[g].enc # d
      BY <2>2 DEF SwapMuxer, IsNext, FreeFiles, PlaceInv, FilePlace
    <3>2. /\ \A h \in Files : h # g => file'[h] = file[h]
          /\ file'[g].enc = e
      BY <1>0, <1>1, <2>2, SwapFx
    <3> QED
      BY <1>1, <3>1, <3>2 DEF SameFiles, Of
  <2>3. CASE RollMuxer(f)
    <3>1. UNCHANGED file \/ file' = [file EXCEPT ![m].tracks = <<"video", "audio">>]
      BY <1>1, <2>3 DEF RollMuxer
    <3> HIDE DEF m
    <3>2. CASE file' = [file EXCEPT ![m].tracks = <<"video", "audio">>]
      <4>1. \A g \in Files : file'[g].enc = file[g].enc /\ file'[g].state = file[g].state
        BY ONLY <1>0, <3>2 DEF FileType, File
      <4> QED
        BY <4>1 DEF SameFiles, Of
    <3> QED
      BY <2>1, <3>1, <3>2
  <2>4. CASE RestartMuxer(f)
    <3>1. \/ UNCHANGED file
          \/ m \in Files /\ file' = [file EXCEPT ![m].state = "started"]
      BY <1>1, <1>2, <2>4 DEF RestartMuxer, Takes
    <3> HIDE DEF m
    <3>2. ASSUME m \in Files, file' = [file EXCEPT ![m].state = "started"]
          PROVE  SameFiles(d)
      BY <1>0, <1>1, <1>2, <3>2, StartFx DEF SameFiles, Of
    <3> QED
      BY <2>1, <3>1, <3>2
  <2>5. CASE FinishReset(f)
    <3> DEFINE g == timer[f].old
    <3>1. UNCHANGED file \/ (g \in Files /\ file[g].enc = e /\ Stop(g))
      BY <1>0, <1>1, <2>5 DEF FinishReset, OldInv, Rolling, TimerType, ResetTimer
    <3> HIDE DEF g
    <3>2. ASSUME g \in Files, file[g].enc = e, Stop(g) PROVE SameFiles(d)
      BY <1>0, <1>1, <3>2, StopFx DEF SameFiles, Of
    <3> QED
      BY <2>1, <3>1, <3>2
  <2> QED
    BY <2>1, <2>2, <2>3, <2>4, <2>5 DEF Fire, Reset, MarkReset, ScheduleNext
<1>4. SameTimers(d)
  <2>1. ASSUME \A g \in Files : g # f => timer'[g] = timer[g] PROVE SameTimers(d)
    BY <1>1, <2>1 DEF SameTimers, Of
  <2>2. ASSUME NEW l, TimerGoto(f, l) PROVE SameTimers(d)
    BY <1>0, <2>1, <2>2, GotoFx
  <2>3. CASE EndReset(f)
    BY <1>0, <2>1, <2>3, EndFx
  <2>4. CASE MarkReset(f)
    <3>1. /\ timer' = [CancelTimer(e) EXCEPT ![f].pc = "swap"]
          /\ CancelTimer(e) \in [Files -> ResetTimer]
      BY <1>0, <1>1, <2>4, CancelType DEF MarkReset
    <3>2. \A g \in Files : g # f => timer'[g] = CancelTimer(e)[g]
      BY <3>1
    <3>3. \A g \in Files :
            \/ /\ CancelTimer(e)[g].pc = timer[g].pc
               /\ CancelTimer(e)[g].old = timer[g].old
               /\ CancelTimer(e)[g].next = timer[g].next
            \/ timer[g].pc = "set" /\ CancelTimer(e)[g].pc = "over"
      BY <1>0, CancelFx
    <3> QED
      BY <1>1, <3>2, <3>3 DEF SameTimers, Of
  <2>5. ASSUME NEW g \in Files, SwapMuxer(f, g) PROVE SameTimers(d)
    BY <1>0, <1>1, <2>1, <2>5, SwapFx
  <2>6. CASE RestartMuxer(f)
    BY <1>0, <2>1, <2>2, <2>3, <2>6, RestartFx DEF RestartMuxer
  <2>7. CASE ScheduleNext(f)
    <3>1. PICK g \in Files : /\ g = timer[f].next /\ file[g].enc = e
                             /\ f # g /\ timer[f].pc = "schedule"
      BY <1>1, <2>7 DEF ScheduleNext, PlaceInv, TimerPlace, TimerInv, TimerOf
    <3>2. \A h \in Files : h # f /\ h # g => timer'[h] = timer[h]
      BY <1>0, <1>1, <2>7, <3>1 DEF ScheduleNext, TimerType, ResetTimer
    <3> QED
      BY <1>1, <3>1, <3>2 DEF SameTimers, Of
  <2> QED
    BY <2>2, <2>3, <2>4, <2>5, <2>6, <2>7 DEF Fire, Reset, RollMuxer, FinishReset
<1>5. SameThreads(d) /\ SameEncoder(d) /\ (Finishing(d) => Finishing(d)')
      /\ enc'[d].monitor = enc[d].monitor
  BY <1>0 DEF SameThreads, SameEncoder, Finishing, Late, At, threadVars, uiVars, recordVars
<1> QED
  BY <1>3, <1>4, <1>5 DEF Untouched, Unmoved

\* What a reset at work finds when its encoder is calm.
LEMMA RollingFacts ==
  ASSUME OrderInv, NEW f \in Files, NEW e \in Encoders, e = file[f].enc, Rolling(f),
         CalmOf(e), ~enc[e].disturbed
  PROVE  /\ enc[e].open /\ enc[e].monitor = "free" /\ f \in Of(e)
         /\ enc[e].muxer \in Files /\ file[enc[e].muxer].enc = e
         /\ file[enc[e].muxer].state \in {"new", "started"}
         /\ \A g \in Of(e) : g # f => ~Rolling(g)
         /\ \A g \in Of(e) : file[g].state = "started" /\ g # enc[e].muxer =>
              timer[f].pc # "swap" /\ timer[f].old = g
         /\ enc[e].started => \A k \in Kinds : enc[e].track[k] # -1
         /\ RollOf(e, f)
<1>1. f \in Of(e) /\ ClosedInv(e) /\ BusyInv(e) /\ RollInv(e) /\ OpenInv(e)
  BY DEF CalmOf, Of
<1>2. enc[e].open
  BY <1>1 DEF ClosedInv, Rolling
<1>3. enc[e].monitor = "free"
  BY <1>1 DEF BusyInv
<1>4. \A g \in Of(e) : g # f => ~Rolling(g)
  BY <1>1 DEF RollInv
<1> QED
  BY <1>1, <1>2, <1>3, <1>4 DEF OpenInv, OrderInv, RollInv

\* The encoder is calm after a step of its only reset.
LEMMA RollingCalm ==
  ASSUME MonitorInv, NEW f \in Files, NEW e \in Encoders, enc[e].monitor = "free",
         UNCHANGED threadVars, enc'[e].monitor = "free", enc'[e].open,
         \A g \in Of(e)' : g # f => ~Rolling(g)',
         OpenInv(e)', RollOf(e, f)'
  PROVE  CalmOf(e)'
<1>1. BusyInv(e)' /\ ClosedInv(e)'
  BY DEF BusyInv, ClosedInv
<1>2. \A k \in Kinds : ~Late(k, e)'
  BY DEF MonitorInv, Within, Inside, Late, At, threadVars, Kinds
<1>3. WriterInv(e)'
  BY <1>2 DEF WriterInv, Late, At
<1>4. \A g \in Of(e)' : g # f => RollOf(e, g)'
  BY DEF RollOf, Rolling, Changing
<1>5. RollInv(e)'
  BY <1>4 DEF RollInv
<1> QED
  BY <1>1, <1>3, <1>5 DEF CalmOf

LEMMA FireCalm ==
  ASSUME Types, PlaceInv, OrderInv, NEW f \in Files, Fire(f),
         NEW e \in Encoders, CalmOf(e)
  PROVE  CalmOf(e)'
<1>0. /\ TimerType /\ timer[f].pc = "set"
      /\ UNCHANGED <<uiVars, enc, file, threadVars>>
      /\ TimerGoto(f, "mark") \/ EndReset(f)
  BY DEF Types, Fire
<1>1. /\ \A g \in Files : g # f => timer'[g] = timer[g]
      /\ timer'[f].pc \in {"set", "mark", "over"}
  BY <1>0, GotoFx, EndFx
<1>2. SameTimers(e)
  BY <1>0, <1>1 DEF SameTimers, Of
<1>3. Untouched(e)
  BY <1>0, <1>2 DEF Untouched, Unmoved, SameFiles, SameThreads, SameEncoder, Finishing,
     Of, Late, At, threadVars, uiVars, recordVars
<1> QED
  BY <1>3, UntouchedCalm

LEMMA MarkCalm ==
  ASSUME Types, PlaceInv, OrderInv, MonitorInv, NEW f \in Files, MarkReset(f),
         NEW e \in Encoders, e = file[f].enc, CalmOf(e)
  PROVE  CalmOf(e)'
<1>0. /\ EncType /\ TimerType /\ UNCHANGED <<uiVars, file, threadVars>>
      /\ timer' = [CancelTimer(e) EXCEPT ![f].pc = "swap"]
      /\ CancelTimer(e) \in [Files -> ResetTimer]
  BY CancelType DEF Types, MarkReset
<1>1. /\ enc'[e].started = FALSE
      /\ enc'[e].disturbed = (enc[e].disturbed \/ enc[e].monitor # "free" \/ Resets(e) # {f}
                                \/ ~enc[e].open)
      /\ enc'[e].open = enc[e].open /\ enc'[e].muxer = enc[e].muxer
      /\ enc'[e].monitor = enc[e].monitor
  BY <1>0, MarkFx
<1> SUFFICES ASSUME ~enc'[e].disturbed PROVE CalmOf(e)'
  BY DEF CalmOf
<1>2. /\ ~enc[e].disturbed /\ enc[e].monitor = "free" /\ Resets(e) = {f} /\ enc[e].open
      /\ OpenInv(e)
  BY <1>1 DEF CalmOf
<1>3. \A g \in Of(e) : g # f => timer[g].pc \in {"none", "set", "over"}
  BY <1>2 DEF Resets, Of
<1>4. /\ timer'[f].pc = "swap"
      /\ \A g \in Files : g # f => timer'[g] = CancelTimer(e)[g]
  BY <1>0 DEF ResetTimer
<1>5. \A g \in Of(e) : g # f => timer'[g].pc \in {"none", "set", "over"}
  <2> SUFFICES ASSUME NEW g \in Of(e), g # f
               PROVE  timer'[g].pc \in {"none", "set", "over"}
    OBVIOUS
  <2>1. g \in Files /\ timer'[g] = CancelTimer(e)[g]
    BY <1>4 DEF Of
  <2>2. timer[g].pc \in {"none", "set", "over"}
    BY <1>3
  <2>3. CancelTimer(e)[g].pc \in {timer[g].pc, "over"}
    BY Zenon, <1>0, <2>1, CancelMoves
  <2> QED
    BY <2>1, <2>2, <2>3
<1>6. Of(e)' = Of(e) /\ f \in Of(e)
  BY <1>0 DEF Of
<1>7. \A g \in Of(e)' : g # f => ~Rolling(g)'
  BY <1>5, <1>6 DEF Rolling
<1>8. OpenInv(e)'
  <2>1. \A g \in Of(e) : ~Rolling(g) \/ (g = f /\ timer[f].pc = "mark")
    BY <1>3 DEF Rolling, MarkReset
  <2>2. \A g \in Of(e) : file[g].state = "started" => g = enc[e].muxer
    BY <1>2, <2>1 DEF OpenInv, Rolling
  <2>3. ~Steady(e)'
    BY <1>4, <1>6 DEF Steady, Changing
  <2> QED
    BY <1>0, <1>1, <1>2, <1>6, <2>2, <2>3 DEF OpenInv
<1>9. RollOf(e, f)'
  BY <1>1, <1>4 DEF RollOf
<1> QED
  BY <1>0, <1>1, <1>2, <1>7, <1>8, <1>9, RollingCalm

LEMMA SwapCalm ==
  ASSUME Types, PlaceInv, OrderInv, MonitorInv, NEW f \in Files, NEW g \in Files,
         SwapMuxer(f, g), NEW e \in Encoders, e = file[f].enc, CalmOf(e)
  PROVE  CalmOf(e)'
<1>0. /\ EncType /\ FileType /\ TimerType /\ UNCHANGED <<uiVars, threadVars>>
      /\ timer[f].pc = "swap" /\ Rolling(f) /\ file[g].state = "none"
  BY DEF Types, SwapMuxer, IsNext, FreeFiles, Rolling
<1> DEFINE m == enc[e].muxer
<1>1. /\ enc'[e].muxer = g /\ enc'[e].open = enc[e].open
      /\ enc'[e].started = enc[e].started
      /\ enc'[e].monitor = enc[e].monitor
      /\ enc'[e].disturbed = enc[e].disturbed
      /\ \A d \in Files : d # g => file'[d] = file[d]
      /\ file'[g].state = "new" /\ file'[g].enc = e
      /\ \A d \in Files : d # f => timer'[d] = timer[d]
      /\ timer'[f].pc = "addTracks" /\ timer'[f].old = m
  BY <1>0, SwapFx
<1> SUFFICES ASSUME ~enc[e].disturbed PROVE CalmOf(e)'
  BY <1>1 DEF CalmOf
<1>2. /\ enc[e].open /\ enc[e].monitor = "free" /\ f \in Of(e) /\ m \in Files
      /\ file[m].state \in {"new", "started"} /\ file[m].enc = e
      /\ \A h \in Of(e) : h # f => ~Rolling(h)
      /\ \A h \in Of(e) : file[h].state = "started" => h = m
      /\ ~enc[e].started
  BY <1>0, RollingFacts DEF RollOf, Changing
<1> HIDE DEF m
<1>3. f # g /\ timer[g].pc = "none"
  BY <1>0, <1>2 DEF PlaceInv, FilePlace, TimerPlace
<1>4. /\ \A h \in Of(e)' : h \in Of(e) \/ h = g
      /\ f \in Of(e)'
  BY <1>1, <1>2, <1>3 DEF Of
<1>5. \A h \in Of(e)' : h # f => ~Rolling(h)'
  BY <1>1, <1>2, <1>3, <1>4 DEF Rolling, Of
<1>6. \A h \in Of(e)' : file'[h].state = "started" => h = m
  BY <1>1, <1>2, <1>4 DEF Of
<1>7. Rolling(f)' /\ Changing(f)'
  BY <1>1 DEF Rolling, Changing
<1>8. OpenInv(e)'
  BY <1>1, <1>2, <1>4, <1>6, <1>7 DEF OpenInv, Steady
<1>9. RollOf(e, f)'
  BY <1>0, <1>1, <1>2 DEF RollOf
<1> QED
  BY <1>0, <1>1, <1>2, <1>5, <1>8, <1>9, RollingCalm

LEMMA RollMuxerCalm ==
  ASSUME Types, PlaceInv, OrderInv, MonitorInv, NEW f \in Files, RollMuxer(f),
         NEW e \in Encoders, e = file[f].enc, CalmOf(e)
  PROVE  CalmOf(e)'
<1>0. /\ EncType /\ FileType /\ TimerType /\ UNCHANGED <<uiVars, threadVars>>
      /\ timer[f].pc = "addTracks" /\ Rolling(f)
      /\ enc[e].disturbed => enc'[e].disturbed
  BY TimerFrame DEF Types, RollMuxer, Rolling, Reset
<1> SUFFICES ASSUME ~enc[e].disturbed PROVE CalmOf(e)'
  BY <1>0 DEF CalmOf
<1> DEFINE m == enc[e].muxer
<1>1. /\ enc[e].open /\ enc[e].monitor = "free" /\ f \in Of(e) /\ m \in Files
      /\ file[m].state = "new" /\ file[m].enc = e
      /\ \A h \in Of(e) : h # f => ~Rolling(h)
      /\ \A h \in Of(e) : file[h].state = "started" /\ h # m => timer[f].old = h
      /\ ~enc[e].started /\ timer[f].old # m
  BY <1>0, RollingFacts DEF RollOf, Changing
<1>2. Takes(m)
  BY <1>1, Numbers DEF Takes
<1>3. /\ TimerGoto(f, "start")
      /\ file' = [file EXCEPT ![m].tracks = <<"video", "audio">>]
      /\ enc' = [enc EXCEPT ![e].track = RollTracks]
  BY <1>2 DEF RollMuxer
<1> HIDE DEF m
<1>4. /\ enc'[e].track = RollTracks /\ enc'[e].open = enc[e].open
      /\ enc'[e].started = enc[e].started /\ enc'[e].muxer = m
      /\ enc'[e].monitor = enc[e].monitor
  BY <1>0, <1>1, <1>3, RollFx DEF m
<1>5. \A h \in Files : file'[h].state = file[h].state /\ file'[h].enc = file[h].enc
  BY ONLY <1>0, <1>1, <1>3 DEF FileType, File
<1>6. /\ \A d \in Files : d # f => timer'[d] = timer[d]
      /\ timer'[f].pc = "start" /\ timer'[f].old = timer[f].old
  BY <1>0, <1>3, GotoFx
<1>7. Of(e)' = Of(e)
  BY <1>5 DEF Of
<1>8. Rolling(f)' /\ Changing(f)' /\ \A h \in Of(e)' : h # f => ~Rolling(h)'
  BY <1>1, <1>6, <1>7 DEF Rolling, Changing, Of
<1>9. \A h \in Of(e)' : file'[h].state = "started" /\ h # m => timer'[f].old = h
  BY <1>1, <1>5, <1>6, <1>7 DEF Of
<1>10. OpenInv(e)'
  BY <1>1, <1>4, <1>5, <1>6, <1>7, <1>8, <1>9 DEF OpenInv, Steady
<1>11. RollOf(e, f)'
  BY <1>1, <1>4, <1>5, <1>6 DEF RollOf
<1> QED
  BY <1>0, <1>1, <1>4, <1>8, <1>10, <1>11, RollingCalm

LEMMA RestartCalm ==
  ASSUME Types, PlaceInv, OrderInv, MonitorInv, NEW f \in Files, RestartMuxer(f),
         NEW e \in Encoders, e = file[f].enc, CalmOf(e)
  PROVE  CalmOf(e)'
<1>0. /\ FileType /\ TimerType /\ UNCHANGED <<uiVars, enc, threadVars>>
      /\ timer[f].pc = "start" /\ Rolling(f)
  BY DEF Types, RestartMuxer, Rolling
<1> SUFFICES ASSUME ~enc[e].disturbed PROVE CalmOf(e)'
  BY <1>0 DEF CalmOf
<1> DEFINE m == enc[e].muxer
<1>1. /\ enc[e].open /\ enc[e].monitor = "free" /\ f \in Of(e) /\ m \in Files
      /\ file[m].state = "new" /\ file[m].enc = e
      /\ \A h \in Of(e) : h # f => ~Rolling(h)
      /\ \A h \in Of(e) : file[h].state = "started" /\ h # m => timer[f].old = h
      /\ ~enc[e].started /\ timer[f].old # m /\ enc[e].track = RollTracks
  BY <1>0, RollingFacts DEF RollOf, Changing
<1>2. Takes(m) /\ Ready(e)
  BY <1>1, Numbers DEF Takes, Ready, RollTracks, Kinds
<1>3. /\ file' = [file EXCEPT ![m].state = "started"]
      /\ timer' = [timer EXCEPT ![f].pc = "schedule", ![f].next = m]
  BY <1>2 DEF RestartMuxer
<1> HIDE DEF m
<1>4. /\ \A d \in Files : d # m => file'[d] = file[d]
      /\ file'[m].state = "started" /\ file'[m].enc = file[m].enc
  BY <1>0, <1>1, <1>3, StartFx
<1>5. /\ \A d \in Files : d # f => timer'[d] = timer[d]
      /\ timer'[f].pc = "schedule" /\ timer'[f].next = m
      /\ timer'[f].old = timer[f].old
  BY <1>0, <1>3, RestartFx
<1>6. Of(e)' = Of(e)
  BY <1>4 DEF Of
<1>7. Rolling(f)' /\ Changing(f)' /\ \A h \in Of(e)' : h # f => ~Rolling(h)'
  BY <1>1, <1>5, <1>6 DEF Rolling, Changing, Of
<1>8. \A h \in Of(e)' : file'[h].state = "started" /\ h # m => timer'[f].old = h
  BY <1>1, <1>4, <1>5, <1>6 DEF Of
<1>9. OpenInv(e)'
  BY <1>0, <1>1, <1>4, <1>5, <1>6, <1>7, <1>8 DEF OpenInv, Steady, m
<1>10. RollOf(e, f)'
  BY <1>0, <1>1, <1>4, <1>5 DEF RollOf, m
<1> QED
  BY <1>0, <1>1, <1>7, <1>9, <1>10, RollingCalm

LEMMA NextCalm ==
  ASSUME Types, PlaceInv, OrderInv, MonitorInv, NEW f \in Files, ScheduleNext(f),
         NEW e \in Encoders, e = file[f].enc, CalmOf(e)
  PROVE  CalmOf(e)'
<1>0. /\ EncType /\ TimerType /\ UNCHANGED <<uiVars, file, threadVars>>
      /\ timer[f].pc = "schedule" /\ Rolling(f) /\ f # timer[f].next
      /\ enc[e].disturbed => enc'[e].disturbed
  BY TimerFrame DEF Types, ScheduleNext, Rolling, Reset, PlaceInv, TimerPlace
<1> SUFFICES ASSUME ~enc[e].disturbed PROVE CalmOf(e)'
  BY <1>0 DEF CalmOf
<1> DEFINE m == enc[e].muxer
<1>1. /\ enc[e].open /\ enc[e].monitor = "free" /\ f \in Of(e) /\ m \in Files
      /\ file[m].state = "started" /\ file[m].enc = e
      /\ \A h \in Of(e) : h # f => ~Rolling(h)
      /\ \A h \in Of(e) : file[h].state = "started" /\ h # m => timer[f].old = h
      /\ timer[f].old # m /\ enc[e].track = RollTracks /\ timer[f].next = m
  BY <1>0, RollingFacts DEF RollOf
<1>2. /\ enc'[e].started = TRUE /\ enc'[e].open = enc[e].open
      /\ enc'[e].track = enc[e].track /\ enc'[e].muxer = m
      /\ enc'[e].monitor = enc[e].monitor
  BY ZenonT(60), <1>0, <1>1, NextFx
<1> HIDE DEF m
<1>3. /\ \A d \in Files : d # f /\ d # m => timer'[d] = timer[d]
      /\ timer'[m].pc = "set" /\ timer'[f].pc = "finish"
      /\ timer'[f].old = timer[f].old
  BY <1>0, <1>1 DEF ScheduleNext, TimerType, ResetTimer
<1>4. Of(e)' = Of(e)
  BY <1>0 DEF Of
<1>5. Rolling(f)' /\ ~Changing(f)' /\ \A h \in Of(e)' : h # f => ~Rolling(h)'
  BY <1>1, <1>3, <1>4 DEF Rolling, Changing, Of
<1>6. \A h \in Of(e)' : file'[h].state = "started" /\ h # m => timer'[f].old = h
  BY <1>0, <1>1, <1>3, <1>4
<1>7. \A k \in Kinds : RollTracks[k] # -1
  BY DEF RollTracks, Kinds
<1>8. OpenInv(e)'
  BY <1>0, <1>1, <1>2, <1>3, <1>4, <1>5, <1>6, <1>7 DEF OpenInv
<1>9. RollOf(e, f)'
  BY <1>1, <1>2, <1>3, <1>5 DEF RollOf
<1> QED
  BY <1>0, <1>1, <1>2, <1>5, <1>8, <1>9, RollingCalm

LEMMA FinishCalm ==
  ASSUME Types, PlaceInv, OrderInv, MonitorInv, NEW f \in Files, FinishReset(f),
         NEW e \in Encoders, e = file[f].enc, CalmOf(e)
  PROVE  CalmOf(e)'
<1>0. /\ FileType /\ TimerType /\ UNCHANGED <<uiVars, enc, threadVars>>
      /\ timer[f].pc = "finish" /\ Rolling(f) /\ EndReset(f)
      /\ timer[f].old \in Files \cup {0}
  BY DEF Types, FinishReset, Rolling, TimerType, ResetTimer
<1> SUFFICES ASSUME ~enc[e].disturbed PROVE CalmOf(e)'
  BY <1>0 DEF CalmOf
<1> DEFINE m == enc[e].muxer
           g == timer[f].old
<1>1. /\ enc[e].open /\ enc[e].monitor = "free" /\ f \in Of(e) /\ m \in Files
      /\ file[m].state \in {"new", "started"} /\ file[m].enc = e
      /\ \A h \in Of(e) : h # f => ~Rolling(h)
      /\ \A h \in Of(e) : file[h].state = "started" /\ h # m => g = h
      /\ enc[e].started => \A k \in Kinds : enc[e].track[k] # -1
      /\ g # m
  BY <1>0, RollingFacts DEF RollOf
<1>2. \/ UNCHANGED file /\ (g \in Files => file[g].state # "started")
      \/ g \in Files /\ Stop(g)
  BY <1>0, Numbers DEF FinishReset
<1>3. /\ \A d \in Files : d # f => timer'[d] = timer[d]
      /\ timer'[f].pc \in {"set", "over"}
  BY <1>0, EndFx
<1> HIDE DEF g
<1>4. /\ \A d \in Files : d # g => file'[d] = file[d]
      /\ \A d \in Files : file'[d].enc = file[d].enc
      /\ g \in Files => file'[g].state # "started"
  BY <1>0, <1>2, StopFx
<1> HIDE DEF m
<1>5. Of(e)' = Of(e)
  BY <1>4 DEF Of
<1>6. \A h \in Of(e)' : ~Rolling(h)' /\ ~Changing(h)'
  BY <1>1, <1>3, <1>5 DEF Rolling, Changing, Of
<1>7. \A h \in Of(e)' : file'[h].state = "started" => h = m
  BY <1>1, <1>4, <1>5 DEF Of
<1>8. file'[m] = file[m]
  BY <1>1, <1>4
<1>9. Steady(e)' => (enc[e].started <=> file[m].state = "started")
  <2>1. \A h \in Of(e) : ~Changing(h)
    BY <1>0, <1>1 DEF Changing, Rolling
  <2>2. Steady(e)' => Steady(e)
    BY <1>0, <2>1 DEF Steady, At, threadVars
  <2>3. OpenInv(e)
    BY DEF CalmOf
  <2> QED
    BY <1>1, <2>2, <2>3 DEF OpenInv, m
<1>10. OpenInv(e)'
  BY <1>0, <1>1, <1>7, <1>8, <1>9 DEF OpenInv, m
<1>11. RollOf(e, f)'
  BY <1>3 DEF RollOf, Rolling, Changing
<1> QED
  BY <1>0, <1>1, <1>6, <1>10, <1>11, RollingCalm
-----------------------------------------------------------------------------
(* The muxer a reset is about to stop, and the files that are started.     *)

OldMoves ==
  \A f \in Files : Rolling(f)' /\ timer'[f].pc # "swap" =>
    \/ Rolling(f) /\ timer[f].pc # "swap" /\ timer'[f].old = timer[f].old
    \/ timer[f].pc = "swap" /\ timer'[f].old = enc[file[f].enc].muxer

LEMMA ResetOlds ==
  ASSUME Types, PlaceInv, NEW f \in Files, Fire(f) \/ Reset(f) PROVE OldMoves
<1>0. EncType /\ FileType /\ TimerType
  BY DEF Types
<1> DEFINE e == file[f].enc
           m == enc[e].muxer
<1>1. e \in Encoders
  BY TimerFrame
<1>a. ASSUME \A g \in Files : g # f => timer'[g] = timer[g],
             timer'[f].pc \in {"set", "mark", "over"}
      PROVE  OldMoves
  BY <1>a DEF OldMoves, Rolling
<1>b. ASSUME NEW l, TimerGoto(f, l),
             l = "mark" \/ timer[f].pc \in {"addTracks", "start"}
      PROVE  OldMoves
  BY <1>0, <1>b, GotoFx DEF OldMoves, Rolling
<1>c. ASSUME EndReset(f) PROVE OldMoves
  BY <1>0, <1>a, <1>c, EndFx
<1>2. CASE Fire(f)
  BY <1>2, <1>b, <1>c DEF Fire
<1>3. CASE MarkReset(f)
  <2>0. timer' = [CancelTimer(e) EXCEPT ![f].pc = "swap"]
    BY <1>3 DEF MarkReset
  <2>1. CancelTimer(e) \in [Files -> ResetTimer]
    BY <1>0, CancelType
  <2>2. /\ \A g \in Files : g # f => timer'[g] = CancelTimer(e)[g]
        /\ timer'[f].pc = "swap"
    BY <2>0, <2>1 DEF ResetTimer
  <2> HIDE DEF e
  <2>3. ASSUME NEW g \in Files, g # f
        PROVE  Rolling(g)' => /\ timer'[g].pc = timer[g].pc
                              /\ timer'[g].old = timer[g].old
    <3>1. timer'[g] = CancelTimer(e)[g]
      BY <2>2, <2>3
    <3>2. /\ CancelTimer(e)[g].pc \in {timer[g].pc, "over"}
          /\ CancelTimer(e)[g].pc = timer[g].pc =>
               CancelTimer(e)[g].old = timer[g].old
      BY Zenon, <1>0, <1>1, CancelMoves
    <3> QED
      BY <3>1, <3>2 DEF Rolling
  <2> QED
    BY <2>2, <2>3 DEF OldMoves, Rolling
<1>4. ASSUME NEW g \in Files, SwapMuxer(f, g) PROVE OldMoves
  <2>1. timer[f].pc = "swap"
    BY <1>4 DEF SwapMuxer
  <2>2. /\ \A d \in Files : d # f => timer'[d] = timer[d]
        /\ timer'[f].old = m
    BY <1>0, <1>1, <1>4, SwapFx
  <2> QED
    BY <2>1, <2>2 DEF OldMoves, Rolling
<1>5. CASE RollMuxer(f)
  BY <1>5, <1>b, <1>c DEF RollMuxer
<1>6. CASE RestartMuxer(f)
  <2>1. \/ TimerGoto(f, "finish") \/ EndReset(f)
        \/ timer' = [timer EXCEPT ![f].pc = "schedule", ![f].next = m]
    BY <1>6 DEF RestartMuxer
  <2>2. ASSUME timer' = [timer EXCEPT ![f].pc = "schedule", ![f].next = m]
        PROVE  OldMoves
    <3> HIDE DEF m
    <3>1. /\ \A d \in Files : d # f => timer'[d] = timer[d]
          /\ timer[f].pc = "start" /\ timer'[f].old = timer[f].old
      BY <1>0, <1>6, <2>2, RestartFx DEF RestartMuxer
    <3> QED
      BY <3>1 DEF OldMoves, Rolling
  <2> QED
    BY <1>6, <2>1, <2>2, <1>b, <1>c DEF RestartMuxer
<1>7. CASE ScheduleNext(f)
  <2> DEFINE g == timer[f].next
  <2>1. timer[f].pc = "schedule" /\ g \in Files /\ f # g
    BY <1>7 DEF ScheduleNext, PlaceInv, TimerPlace
  <2>2. /\ \A d \in Files : d # f /\ d # g => timer'[d] = timer[d]
        /\ timer'[g].pc = "set" /\ timer'[f].old = timer[f].old
    BY <1>0, <1>7, <2>1 DEF ScheduleNext, TimerType, ResetTimer
  <2> QED
    BY <2>1, <2>2 DEF OldMoves, Rolling
<1>8. CASE FinishReset(f)
  BY <1>8, <1>c DEF FinishReset
<1> QED
  BY <1>2, <1>3, <1>4, <1>5, <1>6, <1>7, <1>8 DEF Reset

LEMMA NextOlds ==
  ASSUME Types, PlaceInv, [Next]_vars PROVE OldMoves
<1>0. TimerType /\ EncType
  BY DEF Types
<1>1. CASE UNCHANGED timer
  BY <1>1 DEF OldMoves, Rolling
<1>2. CASE CloseEncoder
  <2>1. mp4Encoder \in Encoders /\ timer' = CancelTimer(mp4Encoder)
    BY <1>2 DEF CloseEncoder, TimersOnClose, PlaceInv, UiPlace, Stopping
  <2>2. ASSUME NEW f \in Files, Rolling(f)'
        PROVE  timer'[f].pc = timer[f].pc /\ timer'[f].old = timer[f].old
    <3>1. /\ CancelTimer(mp4Encoder)[f].pc \in {timer[f].pc, "over"}
          /\ CancelTimer(mp4Encoder)[f].pc = timer[f].pc =>
               CancelTimer(mp4Encoder)[f].old = timer[f].old
      BY Zenon, <1>0, <2>1, CancelMoves
    <3> QED
      BY <2>1, <2>2, <3>1 DEF Rolling
  <2> QED
    BY <2>2 DEF OldMoves, Rolling
<1>3. CASE OnFrame \/ BeginAudio \/ AudioLoop \/ UNCHANGED vars
  BY <1>1, <1>3 DEF OnFrame, BeginAudio, AudioLoop, vars, mediaVars
<1>4. CASE Ui
  BY Zenon, <1>1, <1>2, <1>4
  DEF Ui, StartCapture, StopCapture, JoinCapture, StartRecoder, OpenEncoder,
      StopRecoder, GetThumbnail, StopCodecs, StopMuxer, ForgetEncoder, StopAudio,
      JoinAudio, Destroy, mediaVars
<1>5. ASSUME NEW k \in Kinds, Encode(k) PROVE OldMoves
  <2>1. CASE ScheduleReset(k)
    <3>1. using[k] \in Encoders /\ receiver[k] \in Files
      BY <2>1 DEF ScheduleReset, PlaceInv, ThreadPlace, Inside
    <3>2. /\ \A d \in Files : d # receiver[k] => timer'[d] = timer[d]
          /\ timer'[receiver[k]].pc = "set"
      BY <1>0, <2>1, <3>1, ScheduleFx
    <3> QED
      BY <3>2 DEF OldMoves, Rolling
  <2> QED
    BY <1>1, <1>5, <2>1
    DEF Encode, LookUp, Enter, UseCodec, AddTrack, StartMuxer, TestStarted,
        ReadMuxer, WriteSample, mediaVars
<1> QED
  BY <1>3, <1>4, <1>5, ResetOlds DEF Next, Threads, Timers

LEMMA OldNext ==
  ASSUME Types, PlaceInv, OrderInv, OldInv, [Next]_vars PROVE OldInv'
<1> SUFFICES ASSUME NEW f \in Files, Rolling(f)', timer'[f].pc # "swap",
                    timer'[f].old \in Files
             PROVE  file'[timer'[f].old].enc = file'[f].enc
  BY DEF OldInv
<1>1. \/ Rolling(f) /\ timer[f].pc # "swap" /\ timer'[f].old = timer[f].old
      \/ timer[f].pc = "swap" /\ timer'[f].old = enc[file[f].enc].muxer
  BY NextOlds DEF OldMoves
<1>2. file'[f].enc = file[f].enc /\ file[f].enc \in Encoders
  BY <1>1, TimerOwner DEF Rolling
<1>3. file[timer'[f].old].enc = file[f].enc
  BY <1>1, <1>2 DEF OldInv, OrderInv
<1>4. file'[timer'[f].old].enc = file[timer'[f].old].enc
  <2>1. file[timer'[f].old].state # "none"
    BY <1>2, <1>3 DEF PlaceInv, FilePlace
  <2>2. Later(timer'[f].old)
    BY NextLater
  <2> QED
    BY <2>1, <2>2 DEF Later
<1> QED
  BY <1>2, <1>3, <1>4

\* A file is started by a thread or a timer that knows both formats.
Begun(g) ==
  \/ file[g].state = "started"
  \/ \E e \in Encoders : /\ enc[e].muxer = g
                         /\ \A k \in Kinds : Added(e, k)


LEMMA NextBegun ==
  ASSUME Types, PlaceInv, KnownInv, [Next]_vars
  PROVE  \A g \in Files : file'[g].state = "started" => Begun(g)
<1>0. EncType /\ FileType /\ TimerType
  BY DEF Types
<1>1. CASE UNCHANGED file
  BY <1>1 DEF Begun
<1>a. ASSUME NEW f \in Files, Stop(f)
      PROVE  \A g \in Files : file'[g].state = "started" => Begun(g)
  BY <1>0, <1>a, StopFx DEF Begun
<1>b. ASSUME NEW e \in Encoders, enc[e].muxer \in Files,
             \A k \in Kinds : Added(e, k),
             file' = [file EXCEPT ![enc[e].muxer].state = "started"]
      PROVE  \A g \in Files : file'[g].state = "started" => Begun(g)
  BY <1>0, <1>b, StartFx DEF Begun
<1>2. ASSUME NEW f \in Files, OpenEncoder(f)
      PROVE  \A g \in Files : file'[g].state = "started" => Begun(g)
  <2>1. /\ file'[f].state = "new"
        /\ \A g \in Files : g # f => file'[g] = file[g]
    BY ZenonT(60), <1>0, <1>2, OpenFx
  <2> QED
    BY <2>1 DEF Begun
<1>3. CASE StopMuxer
  <2>1. mp4Encoder \in Encoders /\ enc[mp4Encoder].muxer \in Files \cup {0}
    BY <1>0, <1>3 DEF StopMuxer, PlaceInv, UiPlace, Stopping, EncType, Encoder
  <2> QED
    BY <1>1, <1>3, <1>a, <2>1 DEF StopMuxer
<1>4. CASE Ui
  BY <1>1, <1>2, <1>3, <1>4
  DEF Ui, StartCapture, StopCapture, JoinCapture, StartRecoder, StopRecoder,
      GetThumbnail, CloseEncoder, StopCodecs, ForgetEncoder, StopAudio, JoinAudio,
      Destroy, mediaVars
<1>5. ASSUME NEW k \in Kinds, Encode(k)
      PROVE  \A g \in Files : file'[g].state = "started" => Begun(g)
  <2> DEFINE e == using[k]
             m == enc[e].muxer
  <2>1. CASE AddTrack(k)
    <3>1. \A g \in Files : file'[g].state = file[g].state
      BY <1>0, <2>1 DEF AddTrack, FileType, File
    <3> QED
      BY <3>1 DEF Begun
  <2>2. CASE StartMuxer(k)
    <3>1. \/ UNCHANGED file
          \/ /\ Ready(e) /\ Takes(m)
             /\ file' = [file EXCEPT ![m].state = "started"]
      BY <2>2 DEF StartMuxer
    <3>2. e \in Encoders
      BY <2>2 DEF StartMuxer, PlaceInv, ThreadPlace, Inside
    <3>3. Takes(m) => m \in Files
      BY <1>0, <3>2 DEF Takes, EncType, Encoder
    <3>4. Ready(e) => \A j \in Kinds : Added(e, j)
      BY <3>2 DEF Ready, KnownInv
    <3> HIDE DEF e
    <3> QED
      BY <1>1, <1>b, <3>1, <3>2, <3>3, <3>4
  <2> QED
    BY <1>1, <1>5, <2>1, <2>2
    DEF Encode, LookUp, Enter, UseCodec, ScheduleReset, TestStarted, ReadMuxer,
        WriteSample, mediaVars
<1>6. ASSUME NEW f \in Files, Fire(f) \/ Reset(f)
      PROVE  \A g \in Files : file'[g].state = "started" => Begun(g)
  <2> DEFINE e == file[f].enc
             m == enc[e].muxer
  <2>1. /\ e \in Encoders /\ m \in Files \cup {0}
        /\ \A k \in Kinds : Added(e, k)
    BY <1>0, <1>6, TimerFrame DEF EncType, Encoder, KnownInv
  <2>2. ASSUME NEW h \in Files, SwapMuxer(f, h)
        PROVE  \A g \in Files : file'[g].state = "started" => Begun(g)
    <3>1. /\ file'[h].state = "new"
          /\ \A g \in Files : g # h => file'[g] = file[g]
      BY <1>0, <2>1, <2>2, SwapFx
    <3> QED
      BY <3>1 DEF Begun
  <2>3. CASE RollMuxer(f)
    <3>1. \/ UNCHANGED file
          \/ file' = [file EXCEPT ![m].tracks = <<"video", "audio">>]
      BY <2>3 DEF RollMuxer
    <3> HIDE DEF e, m
    <3>2. \A g \in Files : file'[g].state = file[g].state
      BY ONLY <1>0, <3>1 DEF FileType, File
    <3> QED
      BY <3>2 DEF Begun
  <2>4. CASE RestartMuxer(f)
    <3>1. \/ UNCHANGED file
          \/ m \in Files /\ file' = [file EXCEPT ![m].state = "started"]
      BY <2>1, <2>4 DEF RestartMuxer, Takes
    <3> HIDE DEF e
    <3> QED
      BY <1>1, <1>b, <2>1, <3>1
  <2>5. CASE FinishReset(f)
    <3>1. UNCHANGED file \/ (timer[f].old \in Files /\ Stop(timer[f].old))
      BY <1>0, <2>5 DEF FinishReset, TimerType, ResetTimer
    <3> QED
      BY <1>1, <1>a, <3>1
  <2> QED
    BY <1>1, <1>6, <2>2, <2>3, <2>4, <2>5 DEF Fire, Reset, MarkReset, ScheduleNext
<1>7. CASE OnFrame \/ BeginAudio \/ AudioLoop \/ UNCHANGED vars
  BY <1>1, <1>7 DEF OnFrame, BeginAudio, AudioLoop, vars, mediaVars
<1> QED
  BY <1>4, <1>5, <1>6, <1>7 DEF Next, Threads, Timers

LEMMA StartedNext ==
  ASSUME Types, PlaceInv, OrderInv, KnownInv, StartedInv, [Next]_vars
  PROVE  StartedInv'
<1> SUFFICES ASSUME NEW f \in Files, NEW k \in Kinds, file'[f].state = "started"
             PROVE  Added(file[f].enc, k)'
  BY DEF StartedInv
<1>1. Begun(f)
  BY NextBegun
<1>2. file[f].enc \in Encoders /\ Added(file[f].enc, k)
  BY <1>1 DEF Begun, StartedInv, OrderInv, PlaceInv, FilePlace
<1>3. file'[f].enc = file[f].enc
  BY <1>2, NextLater DEF Later, PlaceInv, FilePlace
<1> QED
  BY <1>2, <1>3, AddedKept

\* Every step keeps an encoder whose calls have not overlapped calm.
LEMMA CalmNext ==
  ASSUME Types, PlaceInv, OrderInv, UiInv, MonitorInv, KnownInv, TimerInv,
         OldInv, CalmInv, [Next]_vars
  PROVE  CalmInv'
<1> SUFFICES ASSUME NEW e \in Encoders PROVE CalmOf(e)'
  BY DEF CalmInv
<1>0. CalmOf(e)
  BY DEF CalmInv
<1>1. Untouched(e) => CalmOf(e)'
  BY <1>0, UntouchedCalm
<1>2. CASE Ui \/ OnFrame \/ BeginAudio \/ AudioLoop \/ UNCHANGED vars
  BY <1>1, <1>2, OutsideUntouched, OpenCalm, CloseCalm, StopCalm DEF Ui
<1>3. ASSUME NEW k \in Kinds, Encode(k) PROVE CalmOf(e)'
  <2>1. CASE pc[k] = "look" \/ using[k] # e
    BY <1>1, <1>3, <2>1, EncodeOthers
  <2>2. CASE pc[k] # "look" /\ using[k] = e
    <3>1. ~LookUp(k)
      BY <2>2 DEF LookUp
    <3> QED
      BY <1>0, <1>3, <2>2, <3>1, EnterCalm, WithinCalm
  <2> QED
    BY <2>1, <2>2
<1>4. ASSUME NEW f \in Files, Fire(f) \/ Reset(f) PROVE CalmOf(e)'
  <2>1. CASE e # file[f].enc
    BY <1>1, <1>4, <2>1, ResetOthers
  <2>2. CASE e = file[f].enc
    BY <1>0, <1>4, <2>2, FireCalm, MarkCalm, SwapCalm, RollMuxerCalm, RestartCalm,
       NextCalm, FinishCalm DEF Reset
  <2> QED
    BY <2>1, <2>2
<1> QED
  BY <1>2, <1>3, <1>4 DEF Next, Threads, Timers

-----------------------------------------------------------------------------
(* The audio thread in a calm encoder.                                     *)

\* Inside the monitor nothing throws: the codecs run, a track is added while
\* the muxer is new, and a sample has its track in the started muxer.
LEMMA CalmNeverThrows ==
  ASSUME Types, PlaceInv, OrderInv, MonitorInv, KnownInv, TrackInv, StartedInv,
         NEW k \in Kinds, NEW e \in Encoders, Within(k, e), CalmOf(e),
         ~enc[e].disturbed
  PROVE  /\ enc[e].codecs = "running" /\ AfterSample(k) = Rest(k)
         /\ pc[k] = "addTrack" => Takes(enc[e].muxer)
         /\ pc[k] = "start" /\ Ready(e) => Takes(enc[e].muxer)
         /\ pc[k] = "write" => Accepts(receiver[k], enc[e].track[k])
<1> DEFINE m == enc[e].muxer
<1>1. /\ enc[e].codecs = "running" /\ m \in Files /\ file[m].enc = e
      /\ file[m].state \in {"new", "started"}
      /\ enc[e].started => \A j \in Kinds : enc[e].track[j] # -1
      /\ pc[k] # "schedule" => (enc[e].started <=> file[m].state = "started")
  BY InsideFacts
<1>2. AfterSample(k) = Rest(k)
  BY <1>1 DEF AfterSample, Within
<1>3. ASSUME pc[k] = "addTrack" PROVE Takes(m)
  <2>1. ~Added(e, k)
    BY <1>3 DEF Added, Within
  <2>2. file[m].state # "started"
    BY <1>1, <2>1 DEF StartedInv
  <2> QED
    BY <1>1, <2>2, Numbers DEF Takes
<1>4. ASSUME pc[k] = "start", Ready(e) PROVE Takes(m)
  BY <1>1, <1>4, Numbers DEF Takes, Ready
<1>5. ASSUME pc[k] = "write" PROVE Accepts(receiver[k], enc[e].track[k])
  <2> DEFINE i == enc[e].track[k]
  <2>1. receiver[k] = m /\ enc[e].started
    BY <1>5 DEF CalmOf, WriterInv, At, Within
  <2>2. file[m].state = "started" /\ i # -1 /\ i \in -1..1
    BY <1>1, <1>5, <2>1 DEF Types, EncType, Encoder
  <2>3. i < Len(file[m].tracks)
    BY <1>1, <2>2 DEF TrackInv
  <2>4. m # 0 /\ i >= 0
    BY <1>1, <2>2, Numbers
  <2> QED
    BY <2>1, <2>2, <2>3, <2>4 DEF Accepts, HasTrack
<1> QED
  BY <1>1, <1>2, <1>3, <1>4, <1>5

\* A thread dies because it found no encoder, or in a disturbed one.
LEMMA DeathIsLeave ==
  ASSUME Types, PlaceInv, OrderInv, MonitorInv, KnownInv, TrackInv, StartedInv,
         CalmInv, NEW k \in Kinds, Encode(k), pc'[k] = "died"
  PROVE  \/ mp4Encoder = 0
         \/ \E e \in Encoders : enc[e].disturbed
<1> SUFFICES ASSUME mp4Encoder # 0, \A e \in Encoders : ~enc[e].disturbed
             PROVE  FALSE
  OBVIOUS
<1> DEFINE e == using[k]
<1>0. /\ ThreadType /\ Rest(k) # "died"
      /\ pc[k] # "look" => e \in Encoders
  BY EncodeFrame DEF Types, Rest
<1>1. \A l : Goto(k, l) => l = "died"
  BY <1>0 DEF Goto, ThreadType
<1>2. \A l : Leave(k, l) \/ Continue(k, l) => l = "died"
  BY <1>1 DEF Leave, Continue
<1>3. ~LookUp(k)
  BY <1>0, <1>1 DEF LookUp
<1>4. ~Enter(k)
  BY <1>0, <1>1 DEF Enter
<1>5. pc[k] \in Inside /\ e \in Encoders
  BY <1>0, <1>3, <1>4
  DEF Encode, UseCodec, AddTrack, StartMuxer, ScheduleReset, TestStarted, ReadMuxer,
      WriteSample, Inside
<1> HIDE DEF e
<1>6. CalmOf(e) /\ ~enc[e].disturbed /\ Within(k, e)
  BY <1>5 DEF CalmInv, CalmOf, Within, e
<1>7. /\ enc[e].codecs = "running" /\ AfterSample(k) = Rest(k)
      /\ pc[k] = "addTrack" => Takes(enc[e].muxer)
      /\ pc[k] = "start" /\ Ready(e) => Takes(enc[e].muxer)
      /\ pc[k] = "write" => Accepts(receiver[k], enc[e].track[k])
  BY <1>5, <1>6, CalmNeverThrows
<1>8. ~UseCodec(k)
  BY <1>0, <1>1, <1>2, <1>7 DEF UseCodec, e
<1>9. ~AddTrack(k) /\ ~StartMuxer(k)
  BY <1>0, <1>1, <1>2, <1>7 DEF AddTrack, StartMuxer, e
<1>10. ~ScheduleReset(k) /\ ~TestStarted(k) /\ ~ReadMuxer(k)
  BY <1>0, <1>1, <1>2, <1>7 DEF ScheduleReset, TestStarted, ReadMuxer
<1>11. ~WriteSample(k)
  BY <1>0, <1>1, <1>2, <1>7 DEF WriteSample, e
<1> QED
  BY <1>3, <1>4, <1>8, <1>9, <1>10, <1>11 DEF Encode

LEMMA DiesNext ==
  ASSUME Types, PlaceInv, OrderInv, UiInv, MonitorInv, KnownInv, TrackInv,
         StartedInv, CalmInv, AudioDiesOnlyIfDisturbed, [Next]_vars
  PROVE  AudioDiesOnlyIfDisturbed'
<1> SUFFICES ASSUME pc'["audio"] = "died"
             PROVE  mp4Encoder' = 0 \/ \E e \in Encoders : enc'[e].disturbed
  BY DEF AudioDiesOnlyIfDisturbed
<1>0. ThreadType /\ "audio" \in Kinds
  BY DEF Types, Kinds
<1>1. CASE UNCHANGED vars
  BY <1>1 DEF AudioDiesOnlyIfDisturbed, vars, uiVars, recordVars, mediaVars, threadVars
<1>2. ASSUME Next, pc'["audio"] = pc["audio"] PROVE FALSE
  BY <1>2 DEF Next, Alive
<1>3. CASE Ui
  <2>1. UNCHANGED pc \/ StartRecoder
    BY Zenon, <1>3
    DEF Ui, StartCapture, StopCapture, JoinCapture, OpenEncoder, StopRecoder,
        GetThumbnail, CloseEncoder, StopCodecs, StopMuxer, ForgetEncoder,
        StopAudio, JoinAudio, Destroy, threadVars
  <2> QED
    BY <1>0, <1>1, <1>2, <2>1 DEF StartRecoder, ThreadType
<1>4. CASE OnFrame \/ BeginAudio \/ AudioLoop
  BY <1>0, <1>1, <1>2, <1>4 DEF OnFrame, BeginAudio, AudioLoop, Goto, ThreadType
<1>5. CASE Timers
  BY <1>1, <1>2, <1>5, TimerFrame DEF Timers, threadVars
<1>6. ASSUME NEW k \in Kinds, Encode(k), Next
      PROVE  mp4Encoder' = 0 \/ \E e \in Encoders : enc'[e].disturbed
  <2>1. /\ UNCHANGED mp4Encoder /\ Others(k)
        /\ \A e \in Encoders : enc[e].disturbed => enc'[e].disturbed
    BY <1>6, EncodeFrame DEF uiVars, recordVars
  <2>2. k = "audio"
    BY <1>0, <1>2, <1>6, <2>1 DEF Others
  <2> QED
    BY <1>6, <2>1, <2>2, DeathIsLeave
<1> QED
  BY <1>1, <1>3, <1>4, <1>5, <1>6 DEF Next, Threads

\* The inductive invariant with the encoders whose calls did not overlap.
CalmParts == Inv /\ OldInv /\ StartedInv /\ CalmInv /\ AudioDiesOnlyIfDisturbed

LEMMA CalmInit == Init => CalmParts
<1> SUFFICES ASSUME Init PROVE CalmParts
  OBVIOUS
<1>1. /\ \A e \in Encoders : enc[e] = NewEncoder
      /\ \A f \in Files : file[f].state = "none" /\ timer[f].pc = "none"
      /\ \A k \in Kinds : pc[k] = "idle"
  BY DEF Init, NoTimer
<1>2. OldInv /\ StartedInv
  BY <1>1 DEF OldInv, StartedInv, Rolling
<1>3. CalmInv
  BY <1>1
  DEF CalmInv, CalmOf, BusyInv, ClosedInv, OpenInv, RollInv, RollOf, WriterInv, NewEncoder,
      Of, Rolling, Changing, At
<1>4. AudioDiesOnlyIfDisturbed
  BY <1>1 DEF AudioDiesOnlyIfDisturbed, Kinds
<1> QED
  BY <1>2, <1>3, <1>4, InvInit DEF CalmParts

LEMMA CalmPartsNext == CalmParts /\ [Next]_vars => CalmParts'
<1> SUFFICES ASSUME CalmParts, [Next]_vars PROVE CalmParts'
  OBVIOUS
<1>0. /\ Types /\ PlaceInv /\ UiInv /\ MonitorInv /\ OrderInv /\ KnownInv
      /\ TimerInv /\ TrackInv
      /\ Inv /\ OldInv /\ StartedInv /\ CalmInv /\ AudioDiesOnlyIfDisturbed
  BY DEF CalmParts, Inv
<1>1. Inv' /\ OldInv' /\ StartedInv'
  BY <1>0, InvNext, OldNext, StartedNext
<1>2. CalmInv' /\ AudioDiesOnlyIfDisturbed'
  BY <1>0, CalmNext, DiesNext
<1> QED
  BY <1>1, <1>2 DEF CalmParts

\* In an encoder whose calls of close, of reset and of encodeVideo and
\* encodeAudio never overlapped, one reset works at a time, on the muxer it has
\* made; the only other file being written is the one it is about to stop; a
\* thread inside the monitor has the present muxer; and after close began
\* nothing starts a file or a timer.
THEOREM CallsApart == Spec => []CalmInv
<1>1. Init => CalmParts
  BY CalmInit
<1>2. CalmParts /\ [Next]_vars => CalmParts'
  BY CalmPartsNext
<1>3. CalmParts => CalmInv
  BY DEF CalmParts
<1> QED
  BY <1>1, <1>2, <1>3, PTL DEF Spec

\* Once stopRecoder has returned the codecs are released and the audio thread
\* has ended; and, unless the calls overlapped, every file is finished and no
\* timer is left, for any number of recordings and of files.
THEOREM StopIsComplete == Spec => []StopFinishes
<1>1. Init => CalmParts
  BY CalmInit
<1>2. CalmParts /\ [Next]_vars => CalmParts'
  BY CalmPartsNext
<1>3. CalmParts => StopFinishes
  <2> SUFFICES ASSUME CalmParts, AtRest, ~isRecording
               PROVE  /\ pc["audio"] = "idle"
                      /\ \A e \in Encoders :
                           /\ enc[e].codecs # "running"
                           /\ ~enc[e].disturbed =>
                                \A f \in Files : file[f].enc = e =>
                                   /\ file[f].state # "started"
                                   /\ timer[f].pc \in {"none", "over"}
    BY DEF StopFinishes
  <2>1. UiInv /\ OrderInv /\ CalmInv
    BY DEF CalmParts, Inv
  <2>2. /\ ui \notin Stopping \cup {"stopAudio", "join"} /\ mp4Encoder = 0
        /\ pc["audio"] = "idle"
    BY <2>1 DEF UiInv, AtRest, Stopping
  <2>3. \A e \in Encoders : enc[e].codecs # "running" /\ ~enc[e].open
    BY <2>1, <2>2, Numbers DEF UiInv, OrderInv
  <2>4. ASSUME NEW e \in Encoders, ~enc[e].disturbed, NEW f \in Files, file[f].enc = e
        PROVE  file[f].state # "started" /\ timer[f].pc \in {"none", "over"}
    BY <2>1, <2>2, <2>3, <2>4 DEF CalmInv, CalmOf, ClosedInv, Of, Stopping
  <2> QED
    BY <2>2, <2>3, <2>4
<1> QED
  BY <1>1, <1>2, <1>3, PTL DEF Spec

\* The audio thread ends the process only when it found no encoder any more, or
\* when calls on an encoder overlapped.
THEOREM AudioSurvives == Spec => []AudioDiesOnlyIfDisturbed
<1>1. Init => CalmParts
  BY CalmInit
<1>2. CalmParts /\ [Next]_vars => CalmParts'
  BY CalmPartsNext
<1>3. CalmParts => AudioDiesOnlyIfDisturbed
  BY DEF CalmParts
<1> QED
  BY <1>1, <1>2, <1>3, PTL DEF Spec
=============================================================================
