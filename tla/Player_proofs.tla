---------------------------- MODULE Player_proofs ----------------------------
(***************************************************************************)
(* The player's types and three of its invariants, for any number of       *)
(* sessions, presses, decoding errors and packets: a render thread that    *)
(* outlives its session comes from a stream that was not opened again, no  *)
(* image is shown twice or undecoded but for the first of a later session, *)
(* and thread_pause agrees with the activity.                              *)
(***************************************************************************)
EXTENDS Player, WellFoundedInduction, TLAPS

-----------------------------------------------------------------------------
(* av_seek_frame stays in the file.                                        *)

LEMMA LastKeyFrame ==
  ASSUME NEW T \in SUBSET (0 .. Frames - 1), T # {}
  PROVE  Max(T) \in T
<1> DEFINE rest == {Frames - 1 - k : k \in T}
<1>1. rest \subseteq Nat /\ rest # {}
  <2>1. \A k \in T : Frames - 1 - k \in Nat
    BY PlayerAssumption
  <2>2. PICK k \in T : TRUE
    OBVIOUS
  <2>3. Frames - 1 - k \in rest
    OBVIOUS
  <2> QED
    BY <2>1, <2>3
<1>2. \E x \in rest : \A y \in rest : <<y, x>> \notin OpToRel(<, Nat)
  BY <1>1, NatLessThanWellFounded, WFMin
<1>3. OpToRel(<, Nat) = {ss \in Nat \X Nat : ss[1] < ss[2]}
  BY DEF OpToRel
<1>4. ASSUME NEW x \in Nat, NEW y \in Nat, y < x
      PROVE  <<y, x>> \in OpToRel(<, Nat)
  BY <1>3, <1>4
<1>5. PICK k \in T : \A y \in rest : <<y, Frames - 1 - k>> \notin OpToRel(<,
Nat)
  BY <1>2
<1>6. ASSUME NEW j \in T PROVE k >= j
  <2>1. Frames - 1 - j \in rest /\ Frames - 1 - k \in rest
    OBVIOUS
  <2>2. ~(Frames - 1 - j < Frames - 1 - k)
    BY <1>1, <1>4, <1>5, <2>1
  <2> QED
    BY <2>2, PlayerAssumption
<1> QED
  BY <1>6 DEF Max

LEMMA SeekInFile ==
  ASSUME NEW pos \in 0 .. Frames, NEW t PROVE SeekTo(pos, t) \in 0 .. Frames
<1> DEFINE before == {k \in KeyFrames : k <= t}
<1>1. before \subseteq 0 .. Frames - 1
  BY PlayerAssumption
<1>2. before # {} => Max(before) \in 0 .. Frames - 1
  BY <1>1, LastKeyFrame
<1> QED
  BY <1>2, PlayerAssumption DEF SeekTo

LEMMA LoopInFile ==
  ASSUME dec.pos \in 0 .. Frames, NEW pos \in AfterForward
  PROVE  AfterSeek(AfterBackward(pos)) \in 0 .. Frames
<1>1. pos \in 0 .. Frames
  BY SeekInFile, PlayerAssumption DEF AfterForward
<1>2. AfterBackward(pos) \in 0 .. Frames
  BY <1>1, SeekInFile DEF AfterBackward
<1> QED
  BY <1>2, SeekInFile DEF AfterSeek

-----------------------------------------------------------------------------
(* Types. The variables are records, and the target of a seek is a frame.  *)

Stages == -2 .. 1
Codes == -7 .. 0
Places == 0 .. Frames
Packets == 0 .. Frames - 1
Errors == 0 .. MaxErrors
Counts == 0 .. MaxPresses
Opened == 0 .. MaxSessions
RenderPlaces == {"none", "test", "lock", "wait", "work", "done"}
UiPlaces == {"list", "idle", "tracking", "seeking", "skipping", "join"}

LEMMA Ranges ==
  /\ {-2, -1, 0, 1} \subseteq Stages
  /\ {-7, -6, -5, -2, -1, 0} \subseteq Codes
  /\ 0 \in Places /\ Packets \subseteq Places /\ 0 \in Packets
  /\ \A p \in Places : p < Frames => p \in Packets /\ p + 1 \in Places
  /\ 0 \in Errors /\ \A e \in Errors : e < MaxErrors => e + 1 \in Errors
  /\ 0 \in Counts /\ \A c \in Counts : c < MaxPresses => c + 1 \in Counts
  /\ 0 \in Opened
  /\ \A o \in Opened : o < MaxSessions => o + 1 \in Opened
  /\ KeyFrames \subseteq Packets
BY PlayerAssumption
DEF Stages, Codes, Places, Packets, Errors, Counts, Opened

FlagType ==
  flag \in [exit : BOOLEAN, back : BOOLEAN, render : BOOLEAN, pause : Stages,
           forward : Stages, backward : BOOLEAN, seek : BOOLEAN,
           locating : BOOLEAN, skip : Int, target : Packets]
DecType ==
  dec \in [pc : DecPlaces, session : Opened, kind : {"file", "stream"},
          code : Codes, pos : Places, dts : Packets,
          fdts : Packets, offset : Nat, errors : Errors]
RenderType ==
  /\ render \in [Sessions -> [pc : RenderPlaces,
                              img : Images]]
  /\ buffer \in Images
UiType ==
  /\ ui \in [pc : UiPlaces,
            paused : BOOLEAN, presses : Counts, value : Int]
  /\ ui.pc = "seeking" => ui.value \in Packets
GhostType ==
  /\ lost \subseteq Sessions /\ (dec.pc # "none" => dec.session # 0)
  /\ raced \in BOOLEAN /\ crashed \in BOOLEAN

TypeInv == FlagType /\ DecType /\ RenderType /\ UiType /\ GhostType

LEMMA TypeInvOK == TypeInv => TypeOK
BY
DEF TypeInv, FlagType, DecType, RenderType, UiType, GhostType, TypeOK, Stages,
       Codes, Places, Packets, Errors, Counts, Opened, RenderPlaces, UiPlaces

LEMMA InitType == Init => TypeInv
<1> SUFFICES ASSUME Init PROVE TypeInv
  OBVIOUS
<1>2. FlagType
  BY Ranges DEF Init, FlagType
<1>3. DecType
  BY Ranges DEF Init, Locals, DecType, DecPlaces
<1>4. RenderType
  BY DEF Init, RenderType, RenderPlaces, Images
<1>5. UiType /\ GhostType
  <2>1. UiType
    BY Ranges DEF Init, UiType, UiPlaces
  <2>2. lost \subseteq Sessions /\ (dec.pc # "none" => dec.session # 0)
    BY DEF Init, Locals
  <2>3. raced \in BOOLEAN /\ crashed \in BOOLEAN
    BY Zenon DEF Init
  <2> QED
    BY <2>1, <2>2, <2>3 DEF GhostType
<1> QED
  BY <1>2, <1>3, <1>4, <1>5 DEF TypeInv

LEMMA FlagStep == ASSUME TypeInv, [Next]_vars PROVE FlagType'
<1>0. FlagType
  BY DEF TypeInv
<1>a. /\ ui.value \in Int /\ (ui.pc = "seeking" => ui.value \in Packets)
      /\ \A offset \in Nat : SkipFrames + OffsetStep * offset \in Int
      /\ dec.offset + 1 \in Nat
  BY PlayerAssumption DEF TypeInv, UiType, DecType
<1>1. CASE InitGlobalState \/ EndOfFile \/ SetPaused \/ SetLast \/
           Retry \/ EndForward \/ EndLocate
  BY <1>0, Ranges, <1>a, <1>1
  DEF InitGlobalState, EndOfFile, SetPaused, SetLast, Retry, EndForward,
      EndLocate, Decoded, At, Go, FlagType
<1>2. CASE Loop
  BY <1>0, Ranges, <1>a, <1>2
  DEF Loop, At, Go, FlagType
<1>3. CASE HandOver \/ OnError
  BY <1>0, Ranges, <1>a, <1>3
  DEF HandOver, OnError, Signal, EndRender, Return, Joins, Locals, At, Go,
      FlagType
<1>4. CASE Locate
  <2>1. CASE flag.exit
    BY <1>0, Ranges, <1>4, <2>1 DEF Locate, FlagType
  <2>2. CASE ForwardAgain
    <3>1. PICK offset \in Nat :
            flag' = [flag EXCEPT !.forward = 1, !.locating = TRUE,
                                 !.skip = SkipFrames + OffsetStep * offset]
      BY <1>a, <2>2 DEF ForwardAgain
    <3> DEFINE ahead == SkipFrames + OffsetStep * offset
    <3>2. flag' = [flag EXCEPT !.forward = 1, !.locating = TRUE,
    !.skip = ahead]
      BY <3>1
    <3>3. ahead \in Int
      BY <1>a
    <3> HIDE DEF ahead
    <3> QED
      BY <1>0, Ranges, <3>2, <3>3 DEF FlagType
  <2>3. CASE Located
    BY <1>0, <2>3 DEF Located, FlagType
  <2> QED
    BY <1>4, <2>1, <2>2, <2>3 DEF Locate
<1>5. CASE StopTracking
  BY <1>0, Ranges, <1>a, <1>5
  DEF StopTracking, UiAt, FlagType
<1>6. CASE SetSkip
  BY <1>0, Ranges, <1>a, <1>6
  DEF SetSkip, PauseOnce, UiAt, FlagType
<1>7. CASE SetTarget
  BY <1>0, Ranges, <1>a, <1>7
  DEF SetTarget, PauseOnce, UiAt, FlagType
<1>8. CASE Leave \/ Start \/ PressPause \/ PressForward \/
           PressBackward \/ StartTracking \/ StopRender
  BY <1>0, Ranges, <1>a, <1>8
  DEF Leave, Start, PressPause, PressForward, PressBackward, StartTracking,
      StopRender, Locals, UiAt, FlagType
<1>9. ASSUME NEW s \in Sessions, RenderTake(s) \/ RenderSkip(s) PROVE FlagType'
  BY <1>0, <1>9, Ranges, <1>a
  DEF RenderTake, RenderSkip, RenderAt, FlagType
<1>10. ASSUME NEW s \in Sessions, RenderTest(s) \/ RenderWait(s) \/
                                  RenderWork(s) \/ RenderCrash(s)
      PROVE  FlagType'
  BY <1>0, <1>10
  DEF RenderTest, RenderWait, RenderWork, RenderCrash, RenderAt, FlagType
<1>11. CASE OpenFails \/ OpenSucceeds \/ LoopEnds \/ ReadFile \/
            ReadStream \/ StreamBreaks \/ ReopenGivesUp \/ TestPaused \/
            JoinRender \/ Reopens \/ ReopenFails \/ JoinDecoder \/
            UNCHANGED vars
  BY <1>0, <1>11
  DEF OpenFails, OpenSucceeds, LoopEnds, ReadFile, ReadStream, StreamBreaks,
      ReopenGivesUp, TestPaused, JoinRender, Reopens, ReopenFails,
      JoinDecoder, ReopenLost, vars, FlagType
<1> QED
  BY <1>1, <1>2, <1>3, <1>4, <1>5, <1>6, <1>7, <1>8, <1>9, <1>10, <1>11
  DEF Next, DecodingThread, RenderThread, UiWorks, User

LEMMA DecStep == ASSUME TypeInv, [Next]_vars PROVE DecType'
<1>0. DecType
  BY DEF TypeInv
<1>a. /\ \A pos \in AfterForward : AfterSeek(AfterBackward(pos)) \in Places
      /\ 1 \in Nat /\ dec.offset + 1 \in Nat
  BY <1>0, LoopInFile DEF DecType, Places
<1>1. CASE InitGlobalState \/ LoopEnds
  BY <1>0, Ranges, <1>a, <1>1
  DEF InitGlobalState, LoopEnds, At, Go, DecType, DecPlaces
<1>2. CASE OpenFails
  BY <1>0, Ranges, <1>a, <1>2
  DEF OpenFails, At, Go, DecType, DecPlaces
<1>3. CASE OpenSucceeds
  BY <1>0, Ranges, <1>a, <1>3
  DEF OpenSucceeds, At, Go, DecType, DecPlaces
<1>4. CASE Loop
  <2>1. PICK pos \in AfterForward :
          dec' = [dec EXCEPT !.pos = AfterSeek(AfterBackward(pos)),
                             !.fdts = IF flag.forward = 1 THEN dec.dts ELSE @,
                             !.pc = IF flag.pause = 1 THEN "locate" ELSE "read"]
    BY <1>4 DEF Loop
  <2> DEFINE landed == AfterSeek(AfterBackward(pos))
  <2>2. landed \in Places
    BY <1>a
  <2> HIDE DEF landed
  <2>3. PICK fdts \in Packets, place \in {"locate", "read"} :
          dec' = [dec EXCEPT !.pos = landed, !.fdts = fdts, !.pc = place]
    <3>1. dec.dts \in Packets /\ dec.fdts \in Packets
      BY <1>0 DEF DecType
    <3> QED
      BY <2>1, <3>1 DEF landed
  <2> QED
    BY <1>0, <2>2, <2>3 DEF DecType, DecPlaces
<1>5. CASE ReadFile
  <2>1. dec.pos \in Packets /\ dec.pos + 1 \in Places
    BY <1>0, Ranges, <1>5 DEF ReadFile, DecType
  <2> DEFINE d == [dec EXCEPT !.dts = dec.pos, !.pos = dec.pos + 1]
  <2>2. d \in [pc : DecPlaces, session : Opened, kind : {"file", "stream"},
              code : Codes, pos : Places, dts : Packets, fdts : Packets,
              offset : Nat, errors : Errors]
    BY <1>0, <2>1 DEF DecType
  <2>3. d.errors = dec.errors
    BY <1>0 DEF DecType
  <2>4. Decoded(d)
    BY <1>5 DEF ReadFile
  <2> HIDE DEF d
  <2> QED
    BY <1>0, Ranges, <2>2, <2>3, <2>4 DEF Decoded, DecType, DecPlaces
<1>6. CASE EndOfFile \/ ReadStream
  BY <1>0, Ranges, <1>a, <1>6
  DEF EndOfFile, ReadStream, Decoded, At, Go, DecType, DecPlaces
<1>7. CASE StreamBreaks \/ Reopens
  BY <1>0, Ranges, <1>a, <1>7
  DEF StreamBreaks, Reopens, At, Go, DecType, DecPlaces
<1>8. CASE ReopenGivesUp \/ ReopenFails
  <2>1. PICK code \in {-5, -2, -1} : dec' = [dec EXCEPT !.pc = "end",
                                                  !.code = code]
    BY <1>8 DEF ReopenGivesUp, ReopenFails, ReopenLost
  <2>2. code \in Codes
    BY Ranges
  <2> QED
    BY <1>0, <2>1, <2>2 DEF DecType, DecPlaces
<1>9. CASE HandOver \/ TestPaused \/ SetPaused \/ SetLast
  BY <1>0, Ranges, <1>a, <1>9
  DEF HandOver, TestPaused, SetPaused, SetLast, Signal, At, Go, DecType,
      DecPlaces
<1>10. CASE Locate
  BY <1>0, Ranges, <1>a, <1>10
  DEF Locate, ForwardAgain, Located, At, Go, DecType, DecPlaces
<1>11. CASE Retry \/ EndForward \/ EndLocate
  BY <1>0, Ranges, <1>a, <1>11
  DEF Retry, EndForward, EndLocate, At, Go, DecType, DecPlaces
<1>12. CASE OnError \/ JoinRender
  BY <1>0, Ranges, <1>a, <1>12
  DEF OnError, JoinRender, EndRender, Signal, Return, Joins, Locals, At, Go,
      DecType, DecPlaces
<1>13. CASE Start
  BY <1>0, Ranges, <1>a, <1>13
  DEF Start, Locals, UiAt, DecType, DecPlaces
<1>14. ASSUME NEW s \in Sessions, RenderTest(s) \/ RenderWait(s) \/
                                  RenderTake(s) \/ RenderSkip(s) \/
                                  RenderWork(s) \/ RenderCrash(s)
      PROVE  DecType'
  BY <1>0, <1>14
  DEF RenderTest, RenderWait, RenderTake, RenderSkip, RenderWork, RenderCrash,
      RenderAt, DecType
<1>15. CASE StopTracking \/ SetSkip \/ SetTarget \/ JoinDecoder \/
            Leave \/ PressPause \/ PressForward \/ PressBackward \/
            StartTracking \/ StopRender \/ UNCHANGED vars
  BY <1>0, <1>15
  DEF StopTracking, SetSkip, SetTarget, JoinDecoder, Leave, PressPause,
      PressForward, PressBackward, StartTracking, StopRender, vars, DecType
<1> QED
  BY <1>1, <1>2, <1>3, <1>4, <1>5, <1>6, <1>7, <1>8, <1>9, <1>10, <1>11,
     <1>12, <1>13, <1>14, <1>15
  DEF Next, DecodingThread, RenderThread, UiWorks, User

LEMMA RenderStep == ASSUME TypeInv, [Next]_vars PROVE RenderType'
<1>0. RenderType
  BY DEF TypeInv
<1>1. CASE OpenSucceeds
  BY <1>0, <1>1
  DEF OpenSucceeds, At, Go, RenderType, RenderPlaces, Images
<1>2. CASE HandOver \/ OnError
  BY <1>0, <1>2
  DEF HandOver, OnError, Signal, EndRender, Return, Joins, Locals, At, Go,
      RenderType, RenderPlaces, Images
<1>3. ASSUME NEW s \in Sessions, RenderTest(s) \/ RenderWait(s)
      \/ RenderTake(s) \/ RenderSkip(s) \/ RenderWork(s) PROVE RenderType'
  BY <1>0, <1>3
  DEF RenderTest, RenderWait, RenderTake, RenderSkip, RenderWork, RenderAt,
      RenderType, RenderPlaces, Images
<1>4. ASSUME NEW s \in Sessions, RenderCrash(s)
      PROVE  RenderType'
  BY <1>0, <1>4
  DEF RenderCrash, RenderAt, RenderType
<1>5. CASE InitGlobalState \/ OpenFails \/ Loop \/ LoopEnds \/
           ReadFile \/ EndOfFile \/ ReadStream \/ StreamBreaks \/
           ReopenGivesUp \/ TestPaused \/ SetPaused \/ SetLast \/
           Locate \/ Retry \/ EndForward \/ EndLocate \/ JoinRender \/
           Reopens \/ ReopenFails \/ StopTracking \/ SetSkip \/
           SetTarget \/ JoinDecoder \/ Leave \/ Start \/ PressPause \/
           PressForward \/ PressBackward \/ StartTracking \/ StopRender \/
           UNCHANGED vars
  BY <1>0, <1>5
  DEF InitGlobalState, OpenFails, Loop, LoopEnds, ReadFile, EndOfFile,
      ReadStream, StreamBreaks, ReopenGivesUp, TestPaused, SetPaused, SetLast,
      Locate, Retry, EndForward, EndLocate, JoinRender, Reopens, ReopenFails,
      StopTracking, SetSkip, SetTarget, JoinDecoder, Leave, Start, PressPause,
      PressForward, PressBackward, StartTracking, StopRender, ReopenLost,
      vars, RenderType
<1> QED
  BY <1>1, <1>2, <1>3, <1>4, <1>5
  DEF Next, DecodingThread, RenderThread, UiWorks, User

LEMMA UiStep == ASSUME TypeInv, [Next]_vars PROVE UiType'
<1>0. UiType
  BY DEF TypeInv
<1>a. /\ 0 \in Int /\ SkipFrames \in Int /\ -SkipFrames \in Int /\ Packets \subseteq Int
  BY PlayerAssumption DEF Packets
<1>1. CASE StopTracking
  BY <1>0, Ranges, <1>a, <1>1
  DEF StopTracking, UiAt, UiType, UiPlaces, Presses
<1>2. CASE SetSkip \/ SetTarget
  BY <1>0, Ranges, <1>a, <1>2
  DEF SetSkip, SetTarget, PauseOnce, UiAt, UiType, UiPlaces, Presses
<1>3. CASE JoinDecoder \/ Leave
  BY <1>0, Ranges, <1>a, <1>3
  DEF JoinDecoder, Leave, UiAt, UiType, UiPlaces, Presses
<1>4. CASE Start
  BY <1>0, Ranges, <1>a, <1>4
  DEF Start, Locals, UiAt, UiType, UiPlaces, Presses
<1>5. CASE PressPause \/ PressForward \/ PressBackward \/ StartTracking
  BY <1>0, Ranges, <1>a, <1>5
  DEF PressPause, PressForward, PressBackward, StartTracking, UiAt, UiType,
      UiPlaces, Presses
<1>6. CASE StopRender
  BY <1>0, Ranges, <1>a, <1>6
  DEF StopRender, UiAt, UiType, UiPlaces, Presses
<1>7. ASSUME NEW s \in Sessions, RenderTest(s) \/ RenderWait(s) \/
                                 RenderTake(s) \/ RenderSkip(s) \/
                                 RenderWork(s) \/ RenderCrash(s)
      PROVE  UiType'
  BY <1>0, <1>7
  DEF RenderTest, RenderWait, RenderTake, RenderSkip, RenderWork, RenderCrash,
      RenderAt, UiType
<1>8. CASE InitGlobalState \/ OpenFails \/ OpenSucceeds \/ Loop \/
           LoopEnds \/ ReadFile \/ EndOfFile \/ ReadStream \/
           StreamBreaks \/ ReopenGivesUp \/ HandOver \/ TestPaused \/
           SetPaused \/ SetLast \/ Locate \/ Retry \/ EndForward \/
           EndLocate \/ OnError \/ JoinRender \/ Reopens \/
           ReopenFails \/ UNCHANGED vars
  BY <1>0, <1>8
  DEF InitGlobalState, OpenFails, OpenSucceeds, Loop, LoopEnds, ReadFile,
      EndOfFile, ReadStream, StreamBreaks, ReopenGivesUp, HandOver,
      TestPaused, SetPaused, SetLast, Locate, Retry, EndForward, EndLocate,
      OnError, JoinRender, Reopens, ReopenFails, ReopenLost, vars, UiType
<1> QED
  BY <1>1, <1>2, <1>3, <1>4, <1>5, <1>6, <1>7, <1>8
  DEF Next, DecodingThread, RenderThread, UiWorks, User

LEMMA SessionKept ==
  ASSUME TypeInv, [Next]_vars, ~Start
  PROVE  /\ dec'.session = dec.session
         /\ dec.pc = "none" => dec'.pc = "none"
         /\ dec'.pc = "none" => dec.pc = "none"
<1>0. DecType
  BY DEF TypeInv
<1>1. CASE InitGlobalState \/ OpenFails \/ OpenSucceeds \/ LoopEnds
  BY <1>0, <1>1
  DEF InitGlobalState, OpenFails, OpenSucceeds, LoopEnds, At, Go, DecType
<1>2. CASE Loop
  BY <1>0, <1>2
  DEF Loop, At, Go, DecType
<1>3. CASE ReadFile \/ EndOfFile \/ ReadStream
  BY <1>0, <1>3
  DEF ReadFile, EndOfFile, ReadStream, Decoded, At, Go, DecType
<1>4. CASE StreamBreaks \/ Reopens \/ ReopenGivesUp \/ ReopenFails
  BY <1>0, <1>4
  DEF StreamBreaks, Reopens, ReopenGivesUp, ReopenFails, ReopenLost, At, Go,
      DecType
<1>5. CASE HandOver \/ TestPaused \/ SetPaused \/ SetLast
  BY <1>0, <1>5
  DEF HandOver, TestPaused, SetPaused, SetLast, Signal, At, Go, DecType
<1>6. CASE Locate \/ Retry \/ EndForward \/ EndLocate
  BY <1>0, <1>6
  DEF Locate, Retry, EndForward, EndLocate, ForwardAgain, Located, At, Go,
      DecType
<1>7. CASE OnError \/ JoinRender
  BY <1>0, <1>7
  DEF OnError, JoinRender, EndRender, Signal, Return, Joins, Locals, At, Go,
      DecType
<1>8. CASE UNCHANGED dec
  BY <1>8
<1>9. InitGlobalState \/ OpenFails \/ OpenSucceeds \/ LoopEnds \/ Loop \/
      ReadFile \/ EndOfFile \/ ReadStream \/ StreamBreaks \/ Reopens \/
      ReopenGivesUp \/ ReopenFails \/ HandOver \/ TestPaused \/
      SetPaused \/ SetLast \/ Locate \/ Retry \/ EndForward \/
      EndLocate \/ OnError \/ JoinRender \/ UNCHANGED dec
  BY DEF Next, DecodingThread, RenderThread, UiWorks, User, vars,
         StopTracking, SetSkip, SetTarget, JoinDecoder, Leave, PressPause,
         PressForward, PressBackward, StartTracking, StopRender, RenderTest,
         RenderWait, RenderTake, RenderSkip, RenderWork, RenderCrash
<1> QED
  BY <1>1, <1>2, <1>3, <1>4, <1>5, <1>6, <1>7, <1>8, <1>9

LEMMA GhostStep == ASSUME TypeInv, [Next]_vars PROVE GhostType'
<1>1. GhostType /\ DecType /\ dec.session \in Opened
  BY DEF TypeInv, DecType
<1>2. lost' \subseteq Sessions
  <2>1. CASE ReopenGivesUp \/ ReopenFails
    <3>1. dec.session \in Sessions
      BY <1>1, <2>1, PlayerAssumption
      DEF ReopenGivesUp, ReopenFails, ReopenLost, At, GhostType, Opened,
          Sessions
    <3> QED
      BY <1>1, <2>1, <3>1
      DEF ReopenGivesUp, ReopenFails, ReopenLost, GhostType
  <2>2. CASE ~(ReopenGivesUp \/ ReopenFails)
    <3>1. lost' = lost
      BY <2>2
      DEF Next, DecodingThread, RenderThread, UiWorks, User, vars,
          InitGlobalState, OpenFails, OpenSucceeds, Loop, LoopEnds, ReadFile,
          EndOfFile, ReadStream, StreamBreaks, HandOver, TestPaused,
          SetPaused, SetLast, Locate, Retry, EndForward, EndLocate, OnError,
          JoinRender, Reopens, StopTracking, SetSkip, SetTarget, JoinDecoder,
          Leave, Start, PressPause, PressForward, PressBackward,
          StartTracking, StopRender, RenderTest, RenderWait, RenderTake,
          RenderSkip, RenderWork, RenderCrash
    <3> QED
      BY <1>1, <3>1 DEF GhostType
  <2> QED
    BY <2>1, <2>2
<1>3. raced' \in BOOLEAN
  <2>1. raced' = raced \/ Race
    BY DEF Next, DecodingThread, RenderThread, UiWorks, User, vars,
           InitGlobalState, OpenFails, OpenSucceeds, Loop, LoopEnds, ReadFile,
           EndOfFile, ReadStream, StreamBreaks, ReopenGivesUp, HandOver,
           TestPaused, SetPaused, SetLast, Locate, Retry, EndForward,
           EndLocate, OnError, JoinRender, Reopens, ReopenFails, StopTracking,
           SetSkip, SetTarget, JoinDecoder, Leave, Start, PressPause,
           PressForward, PressBackward, StartTracking, StopRender, RenderTest,
           RenderWait, RenderTake, RenderSkip, RenderWork, RenderCrash,
           ReopenLost
  <2> QED
    BY <1>1, <2>1, Zenon DEF Race, GhostType
<1>4. crashed' \in BOOLEAN
  <2>1. crashed' = crashed \/ crashed' = TRUE
    BY DEF Next, DecodingThread, RenderThread, UiWorks, User, vars,
           InitGlobalState, OpenFails, OpenSucceeds, Loop, LoopEnds, ReadFile,
           EndOfFile, ReadStream, StreamBreaks, ReopenGivesUp, HandOver,
           TestPaused, SetPaused, SetLast, Locate, Retry, EndForward,
           EndLocate, OnError, JoinRender, Reopens, ReopenFails, StopTracking,
           SetSkip, SetTarget, JoinDecoder, Leave, Start, PressPause,
           PressForward, PressBackward, StartTracking, StopRender, RenderTest,
           RenderWait, RenderTake, RenderSkip, RenderWork, RenderCrash,
           ReopenLost
  <2> QED
    BY <1>1, <2>1, Zenon DEF GhostType
<1>5. dec'.pc # "none" => dec'.session # 0
  <2>1. CASE Start
    BY <1>1, <2>1, PlayerAssumption DEF Start, Locals, Opened
  <2>2. CASE ~Start
    BY <1>1, <2>2, SessionKept DEF GhostType
  <2> QED
    BY <2>1, <2>2
<1> QED
  BY <1>2, <1>3, <1>4, <1>5, Zenon DEF GhostType

LEMMA TypeStep == ASSUME TypeInv, [Next]_vars PROVE TypeInv'
BY FlagStep, DecStep, RenderStep, UiStep, GhostStep DEF TypeInv

-----------------------------------------------------------------------------
(* Sessions and their render threads.                                      *)

SessionInv ==
  /\ ui.pc = "list" => dec.pc \in {"none", "done"}
  /\ dec.pc = "none" => ui.pc = "list" /\ dec.session = 0
  /\ \A s \in Sessions : s > dec.session => render[s].pc = "none"
  /\ dec.pc \in {"init", "open"} => render[dec.session].pc = "none"
  /\ dec.pc \notin {"end", "done"} => dec.code \in {0, -7}
  /\ dec.pc = "end" /\ ~Joins =>
       render[dec.session].pc = "none" \/ dec.session \in lost
  /\ RenderEndsWithSession

\* A signal at most ends a wait.
Kept(s) ==
  /\ render'[s].img = render[s].img
  /\ \/ render'[s].pc = render[s].pc
     \/ render[s].pc = "wait" /\ render'[s].pc = "lock"

LEMMA SignalKeeps ==
  ASSUME RenderType, Signal PROVE \A s \in Sessions : Kept(s)
<1>1. CASE UNCHANGED render
  BY <1>1 DEF Kept
<1>2. ASSUME NEW r \in Sessions, render[r].pc = "wait",
             render' = [render EXCEPT ![r].pc = "lock"]
      PROVE  \A s \in Sessions : Kept(s)
  BY <1>2 DEF RenderType, Kept
<1>3. UNCHANGED render \/ \E r \in Sessions :
        render[r].pc = "wait" /\ render' = [render EXCEPT ![r].pc = "lock"]
  BY DEF Signal
<1> QED
  BY <1>1, <1>2, <1>3

\* A step of the decoding thread between the opening and the end.
Middle ==
  \/ InitGlobalState \/ LoopEnds \/ Loop \/ ReadFile \/ EndOfFile
  \/ ReadStream \/ StreamBreaks \/ Reopens \/ HandOver \/ TestPaused
  \/ SetPaused \/ SetLast \/ Locate \/ Retry \/ EndForward
  \/ EndLocate

Advance ==
  /\ dec.pc \notin {"none", "end", "join", "done"}
  /\ dec'.pc \notin {"none", "init", "join", "done"}
  /\ dec'.pc = "open" => dec.pc = "init"
  /\ dec'.session = dec.session /\ dec'.code \in {dec.code, -7}
  /\ UNCHANGED <<ui, lost, crashed>>
  /\ \A s \in Sessions : Kept(s)

LEMMA MiddleAdvances == ASSUME TypeInv, Middle PROVE Advance
<1>0. DecType /\ RenderType
  BY DEF TypeInv
<1>1. \A s \in Sessions : Kept(s)
  <2>1. UNCHANGED render \/ Signal
    BY DEF Middle, InitGlobalState, LoopEnds, Loop, ReadFile, EndOfFile,
           ReadStream, StreamBreaks, Reopens, HandOver, TestPaused, SetPaused,
           SetLast, Locate, Retry, EndForward, EndLocate
  <2>2. CASE UNCHANGED render
    BY <2>2 DEF Kept
  <2> QED
    BY <1>0, <2>1, <2>2, SignalKeeps
<1>2. UNCHANGED <<ui, lost, crashed>>
  BY DEF Middle, InitGlobalState, LoopEnds, Loop, ReadFile, EndOfFile,
         ReadStream, StreamBreaks, Reopens, HandOver, TestPaused, SetPaused,
         SetLast, Locate, Retry, EndForward, EndLocate
<1>3. CASE InitGlobalState \/ LoopEnds \/ StreamBreaks \/ Reopens
  BY <1>0, <1>1, <1>2, <1>3
  DEF InitGlobalState, LoopEnds, StreamBreaks, Reopens, At, Go, DecType,
      Advance
<1>4. CASE Loop
  BY <1>0, <1>1, <1>2, <1>4
  DEF Loop, At, Go, DecType, Advance
<1>5. CASE ReadFile
  BY <1>0, <1>1, <1>2, <1>5
  DEF ReadFile, Decoded, At, Go, DecType, Advance
<1>6. CASE EndOfFile \/ ReadStream
  BY <1>0, <1>1, <1>2, <1>6
  DEF EndOfFile, ReadStream, Decoded, At, Go, DecType, Advance
<1>7. CASE HandOver
  BY <1>0, <1>1, <1>2, <1>7
  DEF HandOver, Signal, At, Go, DecType, Advance
<1>8. CASE TestPaused \/ SetPaused \/ SetLast
  BY <1>0, <1>1, <1>2, <1>8
  DEF TestPaused, SetPaused, SetLast, At, Go, DecType, Advance
<1>9. CASE Locate
  BY <1>0, <1>1, <1>2, <1>9
  DEF Locate, ForwardAgain, Located, At, Go, DecType, Advance
<1>10. CASE Retry \/ EndForward \/ EndLocate
  BY <1>0, <1>1, <1>2, <1>10
  DEF Retry, EndForward, EndLocate, At, Go, DecType, Advance
<1> QED
  BY <1>3, <1>4, <1>5, <1>6, <1>7, <1>8, <1>9, <1>10 DEF Middle

LEMMA AdvanceKeeps == ASSUME TypeInv, SessionInv, Advance PROVE SessionInv'
<1>1. dec.code \in {0, -7} /\ dec'.code \in {0, -7}
  BY DEF SessionInv, Advance
<1>2. Joins'
  BY <1>1 DEF Joins
<1>3. \A s \in Sessions : ContextGone(s)' => ContextGone(s)
  BY DEF ContextGone, Advance
<1>4. RenderEndsWithSession'
  BY <1>3 DEF RenderEndsWithSession, SessionInv, Advance, Kept
<1>5. dec.session \in Sessions
  BY PlayerAssumption
  DEF TypeInv, DecType, GhostType, Opened, Sessions, Advance
<1> QED
  BY <1>1, <1>2, <1>4, <1>5 DEF SessionInv, Advance, Kept

LEMMA SessionStep ==
  ASSUME TypeInv, SessionInv, [Next]_vars PROVE SessionInv'
<1>0. DecType /\ RenderType /\ UiType /\ GhostType
  BY DEF TypeInv
<1>a. dec.session \in Nat /\ (dec.pc # "none" => dec.session \in Sessions)
  BY <1>0, PlayerAssumption DEF DecType, GhostType, Opened, Sessions
<1>1. CASE Middle
  BY <1>1, MiddleAdvances, AdvanceKeeps
<1>2. CASE OpenFails
  <2>1. /\ dec.pc = "open" /\ dec'.pc = "end" /\ dec'.session = dec.session
        /\ UNCHANGED <<render, ui, lost, crashed>>
    BY <1>0, <1>2 DEF OpenFails, At, DecType
  <2>2. RenderEndsWithSession'
    BY <2>1 DEF SessionInv, RenderEndsWithSession, ContextGone
  <2> QED
    BY <2>1, <2>2 DEF SessionInv
<1>3. CASE OpenSucceeds
  <2>1. /\ dec.pc = "open" /\ dec'.pc = "loop" /\ dec'.session = dec.session
        /\ dec'.code = dec.code /\ UNCHANGED <<ui, lost, crashed>>
        /\ \A s \in Sessions \ {dec.session} : render'[s] = render[s]
    BY <1>0, <1>3 DEF OpenSucceeds, At, Go, DecType, RenderType
  <2>2. RenderEndsWithSession'
    BY <1>a, <2>1 DEF SessionInv, RenderEndsWithSession, ContextGone, Sessions
  <2>3. \A s \in Sessions : s > dec.session => s # dec.session
    BY <1>a
  <2> QED
    BY <2>1, <2>2, <2>3 DEF SessionInv
<1>4. CASE ReopenGivesUp \/ ReopenFails
  <2>1. /\ dec.pc = "reopen" /\ dec'.pc = "end" /\ dec'.session = dec.session
        /\ UNCHANGED <<render, ui, crashed>>
        /\ lost' = lost \cup {dec.session}
    BY <1>0, <1>4 DEF ReopenGivesUp, ReopenFails, ReopenLost, At, DecType
  <2>2. RenderEndsWithSession'
    BY <2>1 DEF SessionInv, RenderEndsWithSession, ContextGone
  <2> QED
    BY <2>1, <2>2 DEF SessionInv
<1>5. CASE OnError
  <2>1. /\ dec.pc = "end" /\ dec'.session = dec.session
        /\ UNCHANGED <<ui, lost, crashed>>
    BY <1>0, <1>5
    DEF OnError, EndRender, Return, Locals, At, Go, DecType
  <2>2. CASE Joins
    <3>1. dec'.pc = "join" /\ dec'.code = dec.code /\ dec.code \in {0, -7}
      BY <1>0, <1>5, <2>2 DEF OnError, At, Go, DecType, Joins, Codes
    <3>2. \A s \in Sessions : Kept(s)
      BY <1>0, <1>5, <2>2, SignalKeeps DEF OnError, EndRender, Kept
    <3>3. RenderEndsWithSession'
      BY <2>1, <3>1, <3>2
      DEF SessionInv, RenderEndsWithSession, ContextGone, Kept
    <3> QED
      BY <2>1, <3>1, <3>2, <3>3 DEF SessionInv, Kept
  <2>3. CASE ~Joins
    <3>1. dec'.pc = "done" /\ UNCHANGED render
      BY <1>5, <2>3 DEF OnError, Return, Locals
    <3>2. render[dec.session].pc = "none" \/ dec.session \in lost
      BY <2>1, <2>3 DEF SessionInv
    <3>3. \A s \in Sessions :
            s < dec.session \/ s = dec.session \/ s > dec.session
      BY <1>a DEF Sessions
    <3>4. RenderEndsWithSession'
      BY <2>1, <3>1, <3>2, <3>3
      DEF SessionInv, RenderEndsWithSession, ContextGone
    <3> QED
      BY <2>1, <3>1, <3>4 DEF SessionInv
  <2> QED
    BY <2>2, <2>3
<1>6. CASE JoinRender
  <2>1. /\ dec.pc = "join" /\ dec'.pc = "done" /\ dec'.session = dec.session
        /\ render[dec.session].pc = "done"
        /\ UNCHANGED <<render, ui, lost, crashed>>
    BY <1>0, <1>6 DEF JoinRender, Return, Locals, At
  <2>2. \A s \in Sessions :
          s < dec.session \/ s = dec.session \/ s > dec.session
    BY <1>a DEF Sessions
  <2>3. RenderEndsWithSession'
    BY <2>1, <2>2 DEF SessionInv, RenderEndsWithSession, ContextGone
  <2> QED
    BY <2>1, <2>3 DEF SessionInv
<1>7. CASE Start
  <2>1. /\ ui.pc = "list" /\ ui'.pc = "idle" /\ dec'.pc = "init"
        /\ dec'.session = dec.session + 1 /\ dec'.code = 0
        /\ dec.session + 1 \in Sessions
        /\ UNCHANGED <<render, lost, crashed>>
    BY <1>0, <1>7, <1>a, PlayerAssumption
    DEF Start, UiAt, Locals, UiType, Sessions
  <2>2. (dec.pc = "none" /\ dec.session = 0) \/ dec.pc = "done"
    BY <2>1 DEF SessionInv
  <2>3. \A s \in Sessions : s < dec.session + 1 => ContextGone(s)
    BY <1>a, <2>2 DEF ContextGone, Sessions
  <2>4. RenderEndsWithSession'
    BY <2>1, <2>3 DEF SessionInv, RenderEndsWithSession, ContextGone
  <2>5. \A s \in Sessions : s >= dec.session + 1 => s > dec.session
    BY <1>a DEF Sessions
  <2>6. render[dec.session + 1].pc = "none"
    BY <1>a, <2>1, <2>5 DEF SessionInv
  <2>7. \A s \in Sessions : s > dec.session + 1 => render[s].pc = "none"
    BY <1>a, <2>5 DEF SessionInv, Sessions
  <2> QED
    BY <2>1, <2>4, <2>6, <2>7 DEF SessionInv
<1>8. CASE UNCHANGED <<dec, render, lost, crashed>>
           /\ (ui'.pc = "list" => dec.pc = "done" \/ ui.pc = "list")
           /\ (ui.pc = "list" => ui'.pc = "list")
  <2>1. RenderEndsWithSession'
    BY <1>8 DEF SessionInv, RenderEndsWithSession, ContextGone
  <2> QED
    BY <1>8, <2>1 DEF SessionInv, Joins
<1>9. ASSUME NEW r \in Sessions, RenderThread(r) PROVE SessionInv'
  <2>1. CASE RenderCrash(r)
    <3>1. r \in lost
      BY <2>1 DEF RenderCrash, SessionInv, RenderEndsWithSession
    <3>2. RenderEndsWithSession'
      BY <2>1, <3>1
      DEF RenderCrash, SessionInv, RenderEndsWithSession, ContextGone
    <3> QED
      BY <2>1, <3>2 DEF RenderCrash, SessionInv, Joins
  <2>2. CASE ~RenderCrash(r)
    <3>1. /\ render[r].pc \notin {"none", "done"} /\ render'[r].pc # "none"
          /\ \A s \in Sessions \ {r} : render'[s] = render[s]
      BY <1>0, <1>9, <2>2
      DEF RenderThread, RenderTest, RenderWait, RenderTake, RenderSkip,
          RenderWork, RenderAt, RenderType
    <3>2. UNCHANGED <<dec, ui, lost, crashed>>
      BY <1>9, <2>2
      DEF RenderThread, RenderTest, RenderWait, RenderTake, RenderSkip,
          RenderWork
    <3>3. RenderEndsWithSession'
      BY <3>1, <3>2 DEF SessionInv, RenderEndsWithSession, ContextGone
    <3> QED
      BY <1>a, <3>1, <3>2, <3>3 DEF SessionInv, Joins
  <2> QED
    BY <2>1, <2>2
<1>10. CASE StopTracking \/ SetSkip \/ SetTarget \/ JoinDecoder \/ Leave
            \/ PressPause \/ PressForward \/ PressBackward \/ StartTracking
            \/ StopRender \/ UNCHANGED vars
  <2>1. UNCHANGED <<dec, render, lost, crashed>>
    BY <1>10
    DEF StopTracking, SetSkip, SetTarget, JoinDecoder, Leave, PressPause,
        PressForward, PressBackward, StartTracking, StopRender, vars
  <2>2. /\ ui'.pc = "list" => dec.pc = "done" \/ ui.pc = "list"
        /\ ui.pc = "list" => ui'.pc = "list"
    BY <1>0, <1>10
    DEF StopTracking, SetSkip, SetTarget, JoinDecoder, Leave, PressPause,
        PressForward, PressBackward, StartTracking, StopRender, UiAt, vars,
        UiType
  <2> QED
    BY <1>8, <2>1, <2>2
<1> QED
  BY <1>1, <1>2, <1>3, <1>4, <1>5, <1>6, <1>7, <1>9, <1>10
  DEF Next, Middle, DecodingThread, UiWorks, User

-----------------------------------------------------------------------------
(* Images.                                                                 *)

FreshBuffer == buffer = "fresh" \/ (buffer = "none" /\ dec.session > 1)

ImageInv ==
  /\ FreshImages
  /\ (/\ dec.session \in Sessions /\ render[dec.session].pc # "none"
      /\ flag.render /\ ~Stopping /\ dec.pc # "done") => FreshBuffer
  /\ dec.session \in {0, 1} /\ dec.pc \in {"none", "init", "open"} =>
       ~flag.render
  /\ dec.pc = "end" /\ Joins => Stopping
  /\ dec.pc = "join" => Stopping

LEMMA ImageStep ==
  ASSUME TypeInv, SessionInv, ImageInv, [Next]_vars PROVE ImageInv'
<1>0. DecType /\ RenderType /\ FlagType /\ GhostType
  BY DEF TypeInv
<1>a. dec.session \in Nat /\ (dec.pc # "none" => dec.session \in Sessions)
  BY <1>0, PlayerAssumption DEF DecType, GhostType, Opened, Sessions
<1>b. ASSUME \A s \in Sessions : Kept(s) PROVE FreshImages'
  BY <1>b DEF ImageInv, FreshImages, Kept
\* A step of the decoding thread that hands nothing over.
<1>1. CASE Loop \/ LoopEnds \/ ReadFile \/ EndOfFile \/ ReadStream \/
           StreamBreaks \/ Reopens \/ TestPaused \/ SetPaused \/
           SetLast \/ Locate \/ Retry \/ EndForward \/ EndLocate
  <2>1. Advance
    BY <1>1, MiddleAdvances DEF Middle
  <2>2. UNCHANGED <<buffer, render>> /\ flag'.render = flag.render
    BY <1>0, <1>1
    DEF Loop, LoopEnds, ReadFile, EndOfFile, ReadStream, StreamBreaks,
        Reopens, TestPaused, SetPaused, SetLast, Locate, Retry, EndForward,
        EndLocate, ForwardAgain, Located, FlagType
  <2>3. Stopping => Stopping'
    BY <1>0, <1>1
    DEF Loop, LoopEnds, ReadFile, EndOfFile, ReadStream, StreamBreaks,
        Reopens, TestPaused, SetPaused, SetLast, Locate, Retry, EndForward,
        EndLocate, ForwardAgain, Located, FlagType, Stopping
  <2>4. dec'.pc # "open"
    BY <1>0, <1>1
    DEF Loop, LoopEnds, ReadFile, EndOfFile, ReadStream, StreamBreaks,
        Reopens, TestPaused, SetPaused, SetLast, Locate, Retry, EndForward,
        EndLocate, ForwardAgain, Located, At, Go, Decoded, DecType
  <2>5. dec'.pc = "end" => Stopping
    BY <1>0, <1>1
    DEF Loop, LoopEnds, ReadFile, EndOfFile, ReadStream, StreamBreaks,
        Reopens, TestPaused, SetPaused, SetLast, Locate, Retry, EndForward,
        EndLocate, ForwardAgain, Located, At, Go, Decoded, DecType, Stopping
  <2>6. FreshImages'
    BY <2>2 DEF ImageInv, FreshImages
  <2> QED
    BY <2>1, <2>2, <2>3, <2>4, <2>5, <2>6 DEF ImageInv, Advance, FreshBuffer
<1>2. CASE InitGlobalState
  <2>1. /\ dec.pc = "init" /\ dec'.pc = "open" /\ dec'.session = dec.session
        /\ UNCHANGED <<buffer, render>> /\ flag'.render = flag.render
    BY <1>0, <1>2 DEF InitGlobalState, At, Go, DecType, FlagType
  <2>2. render[dec.session].pc = "none"
    BY <2>1 DEF SessionInv
  <2> QED
    BY <2>1, <2>2 DEF ImageInv, FreshImages
<1>3. CASE OpenFails
  <2>1. /\ dec.pc = "open" /\ dec'.pc = "end" /\ dec'.session = dec.session
        /\ dec'.code \in {-6, -1} /\ UNCHANGED <<buffer, render, flag>>
    BY <1>0, <1>3 DEF OpenFails, At, DecType
  <2>2. render[dec.session].pc = "none" /\ ~Joins'
    BY <2>1 DEF SessionInv, Joins
  <2> QED
    BY <2>1, <2>2 DEF ImageInv, FreshImages
<1>4. CASE OpenSucceeds
  <2>1. /\ dec.pc = "open" /\ dec'.pc = "loop" /\ dec'.session = dec.session
        /\ buffer' = "none" /\ flag' = flag
        /\ \A s \in Sessions :
             render'[s] = render[s] \/ render'[s].pc = "test"
    BY <1>0, <1>4 DEF OpenSucceeds, At, Go, DecType, RenderType
  <2>2. flag.render => dec.session > 1
    BY <1>a, <2>1 DEF ImageInv
  <2>3. FreshImages'
    BY <2>1 DEF ImageInv, FreshImages
  <2> QED
    BY <2>1, <2>2, <2>3 DEF ImageInv, FreshBuffer
<1>5. CASE HandOver
  <2>1. Advance
    BY <1>5, MiddleAdvances DEF Middle
  <2>2. dec.pc = "hand" /\ dec'.pc = "pause" /\ (Stopping => Stopping')
    BY <1>0, <1>5 DEF HandOver, At, Go, DecType, FlagType, Stopping
  <2>3. FreshImages'
    BY <1>b, <2>1 DEF Advance
  <2>4. CASE flag.render
    <3>1. UNCHANGED <<flag, render, buffer>>
      BY <1>5, <2>4 DEF HandOver
    <3> QED
      BY <2>1, <2>2, <2>3, <3>1 DEF ImageInv, Advance, FreshBuffer
  <2>5. CASE ~flag.render
    <3>1. buffer' = "fresh"
      BY <1>5, <2>5 DEF HandOver
    <3> QED
      BY <2>1, <2>2, <2>3, <3>1 DEF ImageInv, Advance, FreshBuffer
  <2> QED
    BY <2>4, <2>5
<1>6. CASE ReopenGivesUp \/ ReopenFails
  <2>1. /\ dec.pc = "reopen" /\ dec'.pc = "end" /\ dec'.session = dec.session
        /\ UNCHANGED <<render, buffer, flag>>
    BY <1>0, <1>6 DEF ReopenGivesUp, ReopenFails, ReopenLost, At, DecType
  <2>2. dec'.code \in {-5, -2, -1}
    BY <1>0, <1>6 DEF ReopenGivesUp, ReopenFails, ReopenLost, DecType
  <2>3. ~Joins'
    BY <2>2 DEF Joins
  <2> QED
    BY <2>1, <2>3 DEF ImageInv, FreshImages, FreshBuffer, Stopping
<1>7. CASE OnError
  <2>1. dec.pc = "end" /\ dec'.session = dec.session /\ UNCHANGED buffer
    BY <1>0, <1>7 DEF OnError, Return, Locals, At, Go, DecType
  <2>2. \A s \in Sessions : Kept(s)
    <3>1. UNCHANGED render \/ Signal
      BY <1>7 DEF OnError, EndRender
    <3> QED
      BY <1>0, <3>1, SignalKeeps DEF Kept
  <2>3. FreshImages'
    BY <1>b, <2>2
  <2>4. CASE Joins
    <3>1. dec'.pc = "join" /\ Stopping
      BY <1>0, <1>7, <2>1, <2>4 DEF OnError, Go, DecType, ImageInv
    <3>2. Stopping'
      BY <1>0, <1>7, <2>4, <3>1 DEF OnError, EndRender, FlagType, Stopping
    <3> QED
      BY <2>1, <2>3, <3>1, <3>2 DEF ImageInv
  <2>5. CASE ~Joins
    BY <1>7, <2>3, <2>5 DEF OnError, Return, Locals, ImageInv
  <2> QED
    BY <2>4, <2>5
<1>8. CASE JoinRender
  <2>1. dec'.pc = "done" /\ UNCHANGED render
    BY <1>8 DEF JoinRender, Return, Locals
  <2> QED
    BY <2>1 DEF ImageInv, FreshImages
<1>9. CASE Start
  <2>1. /\ dec'.pc = "init" /\ dec'.session = dec.session + 1
        /\ dec.session + 1 \in Sessions /\ flag'.render = flag.render
        /\ UNCHANGED <<render, buffer>>
    BY <1>0, <1>9, <1>a, PlayerAssumption
    DEF Start, Locals, Sessions, FlagType
  <2>2. dec.session + 1 > dec.session
    BY <1>a
  <2>3. render[dec.session + 1].pc = "none"
    BY <2>1, <2>2 DEF SessionInv
  <2>4. dec.session + 1 \in {0, 1} => dec.session = 0 /\ dec.pc = "none"
    BY <1>0, <1>a DEF GhostType
  <2> QED
    BY <2>1, <2>3, <2>4 DEF ImageInv, FreshImages
<1>10. CASE StopTracking \/ SetSkip \/ SetTarget \/ JoinDecoder \/
            Leave \/ PressPause \/ PressForward \/ PressBackward \/
            StartTracking \/ StopRender \/ UNCHANGED vars
  <2>1. UNCHANGED <<dec, render, buffer>> /\ flag'.render = flag.render
    BY <1>0, <1>10
    DEF StopTracking, SetSkip, SetTarget, JoinDecoder, Leave, PressPause,
        PressForward, PressBackward, StartTracking, StopRender, vars, FlagType
  <2>2. Stopping => Stopping'
    BY <1>0, <1>10
    DEF StopTracking, SetSkip, SetTarget, JoinDecoder, Leave, PressPause,
        PressForward, PressBackward, StartTracking, StopRender, vars,
        FlagType, Stopping
  <2> QED
    BY <2>1, <2>2 DEF ImageInv, FreshImages, FreshBuffer, Joins
<1>11. ASSUME NEW r \in Sessions, RenderTake(r) PROVE ImageInv'
  <2>1. /\ render[r].pc = "lock" /\ flag.render /\ ~Stopping
        /\ r >= dec.session /\ dec.pc # "done"
        /\ render' = [render EXCEPT ![r] = [pc |-> "work", img |-> buffer]]
        /\ dec' = dec /\ ~flag'.render
        /\ flag'.exit = flag.exit /\ flag'.back = flag.back
    BY <1>0, <1>11, <1>a
    DEF RenderTake, RenderAt, ContextGone, FlagType, Sessions
  <2>2. ~(r > dec.session)
    BY <2>1 DEF SessionInv
  <2>3. r = dec.session
    BY <1>a, <2>1, <2>2 DEF Sessions
  <2>4. buffer = "fresh" \/ (buffer = "none" /\ r > 1)
    BY <2>1, <2>3 DEF ImageInv, FreshBuffer
  <2>5. FreshImages'
    BY <1>0, <2>1, <2>4 DEF ImageInv, FreshImages, RenderType
  <2> QED
    BY <2>1, <2>5 DEF ImageInv, Stopping, Joins
<1>12. ASSUME NEW r \in Sessions,
              RenderTest(r) \/ RenderWait(r) \/ RenderSkip(r) \/ RenderWork(r)
              \/ RenderCrash(r)
       PROVE  ImageInv'
  <2>1. /\ dec' = dec /\ buffer' = buffer
        /\ flag'.exit = flag.exit /\ flag'.back = flag.back
        /\ flag'.render => flag.render
    BY <1>0, <1>12
    DEF RenderTest, RenderWait, RenderSkip, RenderWork, RenderCrash, FlagType
  <2>2. \A s \in Sessions :
          /\ render'[s].pc = "work" => render'[s] = render[s]
          /\ render[s].pc = "none" => render'[s] = render[s]
    BY <1>0, <1>12
    DEF RenderTest, RenderWait, RenderSkip, RenderWork, RenderCrash, RenderAt,
        RenderType
  <2>3. FreshImages'
    BY <2>2 DEF ImageInv, FreshImages
  <2> QED
    BY <2>1, <2>2, <2>3 DEF ImageInv, Stopping, Joins, FreshBuffer
<1> QED
  BY <1>1, <1>2, <1>3, <1>4, <1>5, <1>6, <1>7, <1>8, <1>9, <1>10, <1>11, <1>12
  DEF Next, DecodingThread, RenderThread, UiWorks, User

-----------------------------------------------------------------------------
(* Pause.                                                                  *)

PauseInv ==
  raced \/
  /\ dec.pc \notin {"none", "init", "done"} =>
       /\ ui.pc \in {"idle", "skipping", "seeking"} =>
            (ui.paused <=> flag.pause # 0)
       /\ ui.pc = "tracking" /\ ui.paused => flag.pause # 0
  /\ dec.pc \in {"setpaused", "setlast", "retry"} => flag.pause # 0
  /\ dec.pc = "init" => ui.pc = "idle" /\ ~ui.paused

LEMMA PauseStep ==
  ASSUME TypeInv, SessionInv, PauseInv, [Next]_vars PROVE PauseInv'
<1>0. DecType /\ FlagType /\ UiType
  BY DEF TypeInv
<1>1. CASE Middle
  <2>1. Advance /\ UNCHANGED ui
    BY <1>1, MiddleAdvances DEF Advance
  <2>2. raced' = raced
    BY <1>1 DEF Middle, InitGlobalState, HandOver, Loop, LoopEnds, ReadFile,
                EndOfFile, ReadStream, StreamBreaks, Reopens, TestPaused,
                SetPaused, SetLast, Locate, Retry, EndForward, EndLocate
  <2>3. CASE InitGlobalState
    <3>1. dec.pc = "init" /\ dec'.pc = "open" /\ flag'.pause = 0
      BY <1>0, <2>3 DEF InitGlobalState, At, Go, DecType, FlagType
    <3> QED
      BY <2>1, <2>2, <3>1 DEF PauseInv
  <2>4. CASE SetPaused \/ SetLast \/ Retry
    <3>1. /\ dec.pc \in {"setpaused", "setlast", "retry"}
          /\ dec'.pc \in {"locate", "loop"} /\ flag'.pause # 0
      BY <1>0, <2>4 DEF SetPaused, SetLast, Retry, At, Go, DecType, FlagType
    <3> QED
      BY <2>1, <2>2, <3>1 DEF PauseInv
  <2>5. CASE ~InitGlobalState /\ ~(SetPaused \/ SetLast \/ Retry)
    <3>1. flag'.pause = flag.pause
      BY <1>0, <1>1, <2>5
      DEF Middle, HandOver, Loop, LoopEnds, ReadFile, EndOfFile, ReadStream,
          StreamBreaks, Reopens, TestPaused, SetPaused, SetLast, Locate,
          Retry, EndForward, EndLocate, ForwardAgain, Located, FlagType
    <3>2. /\ dec.pc # "init"
          /\ dec'.pc \in {"setpaused", "setlast", "retry"} => flag.pause # 0
      <4>1. CASE TestPaused
        BY <1>0, <4>1 DEF TestPaused, At, Go, DecType
      <4>2. CASE Locate
        BY <1>0, <4>2 DEF Locate, ForwardAgain, Located, At, Go, DecType
      <4>3. CASE ~TestPaused /\ ~Locate
        BY <1>0, <1>1, <2>5, <4>3
        DEF Middle, HandOver, Loop, LoopEnds, ReadFile, EndOfFile, ReadStream,
            StreamBreaks, Reopens, SetPaused, SetLast, Retry, EndForward,
            EndLocate, At, Go, Decoded, DecType
      <4> QED
        BY <4>1, <4>2, <4>3
    <3> QED
      BY <2>1, <2>2, <3>1, <3>2 DEF PauseInv, Advance
  <2> QED
    BY <2>3, <2>4, <2>5
<1>2. CASE OpenFails \/ OpenSucceeds \/ ReopenGivesUp \/ ReopenFails
  <2>1. /\ dec.pc \in {"open", "reopen"} /\ dec'.pc \in {"end", "loop"}
        /\ UNCHANGED <<flag, ui, raced>>
    BY <1>0, <1>2
    DEF OpenFails, OpenSucceeds, ReopenGivesUp, ReopenFails, ReopenLost, At,
        Go,
        DecType
  <2> QED
    BY <2>1 DEF PauseInv
<1>3. CASE OnError \/ JoinRender
  <2>1. /\ dec.pc \in {"end", "join"} /\ dec'.pc \in {"join", "done"}
        /\ flag'.pause = flag.pause /\ UNCHANGED <<ui, raced>>
    BY <1>0, <1>3
    DEF OnError, JoinRender, EndRender, Return, Locals, At, Go, DecType,
        FlagType
  <2> QED
    BY <2>1 DEF PauseInv
<1>4. CASE Start
  BY <1>0, <1>4 DEF Start, Locals, UiType, PauseInv
<1>5. CASE JoinDecoder \/ Leave
  <2>1. dec.pc = "done" /\ dec' = dec
    BY <1>5 DEF JoinDecoder, Leave
  <2> QED
    BY <2>1 DEF PauseInv
\* The buttons: in a window the press is remembered.
<1>6. CASE PressPause \/ PressForward \/ PressBackward \/ StartTracking
          \/ StopTracking \/ SetSkip \/ SetTarget \/ StopRender
  <2>1. Race /\ dec' = dec
    BY <1>6
    DEF PressPause, PressForward, PressBackward, StartTracking, StopTracking,
        SetSkip, SetTarget, StopRender
  <2>2. CASE raced \/ dec.pc \in Window
    BY <2>1, <2>2 DEF Race, PauseInv
  <2>3. CASE ~raced /\ dec.pc \notin Window
    <3>1. dec.pc \notin {"init", "setpaused", "setlast", "retry"}
      BY <2>3 DEF Window
    <3>2. CASE PressPause
      <4>1. /\ ui.pc = "idle" /\ ui'.pc = "idle"
            /\ ui' = [ui EXCEPT !.paused = ~ui.paused, !.presses = @ + 1]
        BY <1>0, <3>2 DEF PressPause, UiAt, UiType
      <4>2. CASE ui.paused
        <5>1. ~ui'.paused
          BY <1>0, <4>1, <4>2 DEF UiType
        <5>2. flag'.pause = 0
          BY <1>0, <3>2, <4>2 DEF PressPause, FlagType
        <5> QED
          BY <2>1, <3>1, <4>1, <5>1, <5>2 DEF PauseInv
      <4>3. CASE ~ui.paused
        <5>1. ui'.paused
          BY <1>0, <4>1, <4>3 DEF UiType
        <5>2. flag'.pause = 1
          BY <1>0, <3>2, <4>3 DEF PressPause, FlagType
        <5> QED
          BY <2>1, <3>1, <4>1, <5>1, <5>2 DEF PauseInv
      <4> QED
        BY <4>2, <4>3
    <3>3. CASE PressForward \/ PressBackward
      BY <1>0, <2>1, <2>3, <3>1, <3>3
      DEF PressForward, PressBackward, UiAt, FlagType, UiType, PauseInv
    <3>4. CASE StartTracking
      BY <1>0, <2>1, <2>3, <3>1, <3>4
      DEF StartTracking, UiAt, FlagType, UiType, PauseInv
    <3>5. CASE StopTracking
      BY <1>0, <2>1, <2>3, <3>1, <3>5
      DEF StopTracking, UiAt, FlagType, UiType, PauseInv
    <3>6. CASE SetSkip \/ SetTarget
      <4>1. /\ ui.pc \in {"skipping", "seeking"} /\ ui'.pc = "idle"
            /\ ui'.paused = ui.paused
        BY <1>0, <3>6 DEF SetSkip, SetTarget, UiAt, UiType
      <4>2. flag'.pause # 0 <=> flag.pause # 0
        <5>1. flag'.pause = PauseOnce
          BY <1>0, <3>6 DEF SetSkip, SetTarget, FlagType
        <5> QED
          BY <5>1 DEF PauseOnce
      <4> QED
        BY <2>1, <2>3, <3>1, <4>1, <4>2 DEF PauseInv
    <3>7. CASE StopRender
      BY <1>0, <2>1, <2>3, <3>1, <3>7
      DEF StopRender, UiAt, FlagType, UiType, PauseInv
    <3> QED
      BY <1>6, <3>2, <3>3, <3>4, <3>5, <3>6, <3>7
  <2> QED
    BY <2>2, <2>3
<1>7. CASE UNCHANGED vars
  BY <1>7 DEF vars, PauseInv
<1>8. ASSUME NEW r \in Sessions, RenderThread(r) PROVE PauseInv'
  <2>1. UNCHANGED <<dec, ui, raced>> /\ flag'.pause = flag.pause
    BY <1>0, <1>8
    DEF RenderThread, RenderTest, RenderWait, RenderTake, RenderSkip,
        RenderWork, RenderCrash, FlagType
  <2> QED
    BY <2>1 DEF PauseInv
<1> QED
  BY <1>1, <1>2, <1>3, <1>4, <1>5, <1>6, <1>7, <1>8
  DEF Next, Middle, DecodingThread, UiWorks, User

-----------------------------------------------------------------------------
(* The theorems.                                                           *)

IInv == TypeInv /\ SessionInv /\ ImageInv /\ PauseInv

LEMMA InitIInv == Init => IInv
<1> SUFFICES ASSUME Init PROVE IInv
  OBVIOUS
<1>1. /\ dec.pc = "none" /\ dec.session = 0 /\ dec.code = 0 /\ ~flag.render
      /\ \A s \in Sessions : render[s].pc = "none"
      /\ ui.pc = "list" /\ ~crashed
  BY DEF Init, Locals
<1>2. RenderEndsWithSession
  BY <1>1 DEF RenderEndsWithSession
<1>3. SessionInv
  BY <1>1, <1>2 DEF SessionInv
<1>4. ImageInv
  BY <1>1 DEF ImageInv, FreshImages
<1>5. PauseInv
  BY <1>1 DEF PauseInv
<1> QED
  BY <1>3, <1>4, <1>5, InitType DEF IInv

\* Sessions, images and pauses are as the invariants say in every state.
THEOREM PlayerSound == Spec => []IInv
<1>1. IInv /\ [Next]_vars => IInv'
  BY TypeStep, SessionStep, ImageStep, PauseStep DEF IInv
<1> QED
  BY <1>1, InitIInv, PTL DEF Spec

\* The variables of Player have their types; the reading position stays in
\* the file.
THEOREM PlayerTypeCorrect == Spec => []TypeOK
<1>1. IInv => TypeOK
  BY TypeInvOK DEF IInv
<1> QED
  BY <1>1, PlayerSound, PTL

\* Only a stream that was not opened again leaves a render thread behind.
THEOREM RenderEnds == Spec => []RenderEndsWithSession
<1>1. IInv => RenderEndsWithSession
  BY DEF IInv, SessionInv
<1> QED
  BY <1>1, PlayerSound, PTL

\* No image is shown twice, and none undecoded but at the beginning of a later
\* session.
THEOREM ImagesFresh == Spec => []FreshImages
<1>1. IInv => FreshImages
  BY DEF IInv, ImageInv
<1> QED
  BY <1>1, PlayerSound, PTL

\* thread_pause agrees with the activity unless a button was pressed between
\* a test and the write it decided.
THEOREM PauseCorrect == Spec => []PauseAgrees
<1>1. IInv => PauseAgrees
  <2> SUFFICES ASSUME IInv, ui.pc = "idle", dec.pc \notin {"init", "done"},
  ~raced
      PROVE  ui.paused <=> flag.pause # 0
    BY DEF PauseAgrees
  <2>1. dec.pc # "none"
    BY DEF IInv, SessionInv
  <2> QED
    BY <2>1 DEF IInv, PauseInv
<1> QED
  BY <1>1, PlayerSound, PTL
=============================================================================
