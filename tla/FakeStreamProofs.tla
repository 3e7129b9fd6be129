--------------------------- MODULE FakeStreamProofs ---------------------------
(***************************************************************************)
(* Proofs about FakeStream, for any number of frames, any set of command    *)
(* lines, and any time a frame may take.                                    *)
(***************************************************************************)
EXTENDS FakeStream, TLAPS

-----------------------------------------------------------------------------
(* Arithmetic. *)

LEMMA NextMultiple == \A i, n \in Nat : (i + 1) * n = i * n + n /\ i * n \in Nat
  OBVIOUS

(* A frame adds two steps' worth of what sleeping and writing may add.      *)
LEMMA TwoMore ==
    \A i, n \in Nat : /\ (2 * (i + 1) + 1) * n = (2 * i + 1) * n + n + n
                      /\ (2 * i + 2) * n = (2 * i + 1) * n + n
                      /\ (2 * i + 1) * n \in Nat
<1> SUFFICES ASSUME NEW i \in Nat, NEW n \in Nat
             PROVE  /\ (2 * (i + 1) + 1) * n = (2 * i + 1) * n + n + n
                    /\ (2 * i + 2) * n = (2 * i + 1) * n + n
                    /\ (2 * i + 1) * n \in Nat
  OBVIOUS
<1> DEFINE j == 2 * i + 1
<1>1. j \in Nat /\ 2 * (i + 1) + 1 = (j + 1) + 1 /\ 2 * i + 2 = j + 1
  OBVIOUS
<1> HIDE DEF j
<1>2. (j + 1) * n = j * n + n /\ ((j + 1) + 1) * n = (j + 1) * n + n /\ j * n \in Nat
  BY <1>1, NextMultiple
<1>3. (2 * (i + 1) + 1) * n = j * n + n + n /\ (2 * i + 2) * n = j * n + n
  BY <1>1, <1>2
<1> QED
  BY <1>2, <1>3 DEF j

(* A scale of at least 1, in halves, does not shorten a frame's time.       *)
LEMMA ScaledAtLeast ==
    ASSUME NEW e \in Nat, setting.scale \in Int, setting.scale >= 2
    PROVE  Scaled(e) \in Int /\ Scaled(e) >= e
<1> DEFINE s == setting.scale
<1>1. e * s >= e * 2 /\ e * s \in Int
  <2> HIDE DEF s
  <2>1. s \in Int /\ s >= 2
    BY DEF s
  <2>2. s - 2 \in Nat /\ e * (s - 2) \in Nat
    BY <2>1
  <2>3. e * s = e * (s - 2) + e * 2
    BY <2>1
  <2> QED
    BY <2>1, <2>2, <2>3
<1> QED
  BY <1>1 DEF Scaled

(* The adapted interval is never shorter than the base interval, and        *)
(* without a cap never shorter than the frame's scaled time.                *)
LEMMA IntervalBounds ==
    ASSUME setting \in Settings, NEW e \in Nat,
           setting.adaptive => ~AdaptRaises, setting.adaptive
    PROVE  /\ NextInterval(e) \in Nat
           /\ NextInterval(e) >= setting.interval
           /\ setting.interval > 0 /\ Follows => NextInterval(e) >= e
<1>1. setting.interval \in Nat /\ setting.scale \in Int /\ setting.cap \in Int \cup {None}
  BY StreamAssumption
<1>2. Scaled(e) \in Int
  BY <1>1 DEF Scaled
<1>3. Follows => Scaled(e) >= e
  BY <1>1, ScaledAtLeast DEF Follows
<1> QED
  BY <1>1, <1>2, <1>3, StreamAssumption DEF NextInterval, Later, Earlier, AdaptRaises, Follows

-----------------------------------------------------------------------------
(* The inductive invariant. *)

(* A skipped frame is never the last one. *)
NothingSkippedAtEnd == status = "running" /\ index = Frames => skipped = 0

(* The adaptive schedule is never ahead of the camera ...                   *)
OnSchedule == setting.adaptive =>
                 /\ effective >= setting.interval
                 /\ offset >= index * setting.interval

(* ... and, where it follows the server, the clock is never ahead of the    *)
(* schedule by more than what sleeping and writing added.                   *)
ClockFollows == status = "running" /\ Follows /\ setting.interval > 0 =>
                    now - offset <= (2 * index + 1) * Slack

IInv == /\ TypeOK
        /\ NoFrameLost /\ NothingSkippedAtEnd
        /\ OnSchedule /\ NeverBeforeItsTime
        /\ SentFramesAreFresh
        /\ ClockFollows /\ AdaptiveKeepsUp

LEMMA InitIInv == Init => IInv
<1> SUFFICES ASSUME Init PROVE IInv
  OBVIOUS
<1>1. setting.interval \in Nat
  BY StreamAssumption DEF Init
<1>2. TypeOK
  BY <1>1, StreamAssumption DEF Init, TypeOK
<1>3. NoFrameLost /\ NothingSkippedAtEnd
  BY StreamAssumption DEF Init, NoFrameLost, NothingSkippedAtEnd
<1>4. OnSchedule /\ ClockFollows
  <2>1. now \in 0..Slack /\ index = 0 /\ offset = 0 /\ Slack \in Nat
    BY StreamAssumption DEF Init
  <2>2. (2 * index + 1) * Slack = Slack
    BY <2>1
  <2>3. ClockFollows
    BY <2>1, <2>2 DEF ClockFollows
  <2> QED
    BY <1>1, <2>1, <2>3 DEF Init, OnSchedule
<1>5. NeverBeforeItsTime /\ SentFramesAreFresh /\ AdaptiveKeepsUp
  BY DEF Init, NeverBeforeItsTime, SentFramesAreFresh, AdaptiveKeepsUp
<1> QED
  BY <1>2, <1>3, <1>4, <1>5 DEF IInv

(* What a command line that was chosen may be.                              *)
LEMMA SettingTypes ==
    ASSUME setting \in Settings
    PROVE  /\ setting.interval \in Nat /\ setting.scale \in Int
           /\ setting.threshold \in Int \cup {None} /\ Threshold \in Int
           /\ setting.cap \in Int \cup {None}
           /\ {setting.skip, setting.adaptive, setting.stopOnError} \subseteq BOOLEAN
BY StreamAssumption DEF Threshold

LEMMA ScheduledIsNat ==
    ASSUME TypeOK
    PROVE  Scheduled \in Nat
<1>1. index \in Nat /\ offset \in Nat /\ setting.interval \in Nat
  BY SettingTypes, StreamAssumption DEF TypeOK
<1>2. index * setting.interval \in Nat
  BY <1>1, NextMultiple
<1> QED
  BY <1>1, <1>2 DEF Scheduled

LEMMA LastIsLine ==
    ASSUME records \in Seq(Line), records # <<>>
    PROVE  Len(records) \in Nat \ {0} /\ Last \in Line /\ Last.frame \in Nat
<1>1. Len(records) \in Nat /\ Len(records) # 0
  OBVIOUS
<1>2. Last \in Line
  BY <1>1 DEF Last
<1> QED
  BY <1>1, <1>2, StreamAssumption DEF Line

(* Skipping a frame. *)
LEMMA SkipStep ==
    ASSUME IInv, Skip
    PROVE  IInv'
<1> DEFINE n == setting.interval
<1>1. TypeOK /\ setting' = setting /\ records' = records /\ status' = status
  BY DEF IInv, Skip
<1>2. /\ n \in Nat /\ index \in Nat /\ offset \in Nat /\ effective \in Nat
      /\ now \in Nat /\ skipped \in Nat /\ Slack \in Nat /\ Frames \in Nat
  BY <1>1, SettingTypes, StreamAssumption DEF TypeOK
<1>3. /\ index + 1 < Frames /\ index' = index + 1 /\ skipped' = skipped + 1
      /\ effective' = effective /\ status = "running"
      /\ offset' = IF setting.adaptive THEN offset + effective ELSE offset
  BY <1>2 DEF Skip, AtFrame, MaySkip, HasFutureFrame
<1>4. PICK s \in 0..Slack : now' = now + s
  BY DEF Skip
<1> HIDE DEF n
<1>5. TypeOK'
  BY <1>1, <1>2, <1>3, <1>4 DEF TypeOK, Line
<1>6. NoFrameLost' /\ NothingSkippedAtEnd'
  <2> DEFINE sent == IF records = <<>> THEN 0 ELSE Last.frame + 1
  <2>1. sent \in Nat /\ sent' = sent
    BY <1>1, LastIsLine DEF TypeOK, Last
  <2>2. index = skipped + sent
    BY <1>3 DEF IInv, NoFrameLost
  <2> HIDE DEF sent
  <2>3. index' = skipped' + sent'
    BY <1>2, <1>3, <2>1, <2>2
  <2>4. \A k \in 1..Len(records') :
          records'[k].frame = records'[k].skipped
                              + (IF k = 1 THEN 0 ELSE records'[k - 1].frame + 1)
    BY <1>1 DEF IInv, NoFrameLost
  <2> QED
    BY <1>2, <1>3, <2>3, <2>4 DEF NoFrameLost, NothingSkippedAtEnd, sent
<1>7. OnSchedule'
  <2>1. CASE setting.adaptive
    <3>1. effective >= n /\ offset >= index * n
      BY <2>1 DEF IInv, OnSchedule, n
    <3>2. index' * n = index * n + n /\ index * n \in Nat
      BY <1>2, <1>3, NextMultiple
    <3> QED
      BY <1>1, <1>2, <1>3, <2>1, <3>1, <3>2 DEF OnSchedule, n
  <2>2. CASE ~setting.adaptive
    BY <1>1, <2>2 DEF OnSchedule
  <2> QED
    BY <2>1, <2>2
<1>8. NeverBeforeItsTime' /\ SentFramesAreFresh' /\ AdaptiveKeepsUp'
  BY <1>1 DEF IInv, NeverBeforeItsTime, SentFramesAreFresh, AdaptiveKeepsUp, Follows, Threshold
<1>9. ClockFollows'
  <2> SUFFICES ASSUME Follows, n > 0
               PROVE  now' - offset' <= (2 * index' + 1) * Slack
    BY <1>1 DEF ClockFollows, Follows, n
  <2>1. now - offset <= (2 * index + 1) * Slack
    BY <1>3 DEF IInv, ClockFollows, n
  <2>2. offset' = offset + effective
    BY <1>3 DEF Follows
  <2>3. /\ (2 * index' + 1) * Slack = (2 * index + 1) * Slack + Slack + Slack
        /\ (2 * index + 1) * Slack \in Nat
    BY <1>2, <1>3, TwoMore
  <2> DEFINE lag == (2 * index + 1) * Slack
  <2>4. now' - offset' <= lag + Slack + Slack
    <3>1. lag \in Nat /\ now - offset <= lag
      BY <2>1, <2>3
    <3> HIDE DEF lag
    <3> QED
      BY <1>2, <1>4, <2>2, <3>1
  <2> QED
    BY <2>3, <2>4
<1> QED
  BY <1>5, <1>6, <1>7, <1>8, <1>9 DEF IInv

(* What a frame that is sent adds to the output file.                       *)
LineOf(start, elapsed) ==
    [frame |-> index, skipped |-> skipped, start |-> start,
     scheduled |-> Scheduled, delay |-> Delay(start), took |-> elapsed]

LEMMA StartOfFrame ==
    ASSUME TypeOK, IsSent, NEW s \in 0..Slack, NEW elapsed \in Nat
    PROVE  /\ StartFrame(s) \in Nat
           /\ Delay(StartFrame(s)) \in Nat
           /\ LineOf(StartFrame(s), elapsed) \in Line
           /\ setting.interval > 0 =>
                /\ StartFrame(s) >= Scheduled
                /\ StartFrame(s) = Later(now, Scheduled) + s
                /\ Delay(StartFrame(s)) = StartFrame(s) - Scheduled
           /\ setting.interval = 0 => Delay(StartFrame(s)) = 0
<1>1. /\ Scheduled \in Nat /\ now \in Nat /\ setting.interval \in Nat /\ s \in Nat
      /\ skipped \in Nat /\ index \in 0..(Frames - 1)
  BY ScheduledIsNat, SettingTypes, StreamAssumption DEF TypeOK, IsSent, AtFrame
<1>2. /\ StartFrame(s) \in Nat
      /\ setting.interval > 0 => /\ StartFrame(s) >= Scheduled
                                 /\ StartFrame(s) = Later(now, Scheduled) + s
  BY <1>1 DEF StartFrame, Later
<1>3. /\ Delay(StartFrame(s)) \in Nat
      /\ setting.interval > 0 => Delay(StartFrame(s)) = StartFrame(s) - Scheduled
      /\ setting.interval = 0 => Delay(StartFrame(s)) = 0
  BY <1>1, <1>2 DEF Delay, Later
<1> QED
  BY <1>1, <1>2, <1>3 DEF LineOf, Line

(* Sending a frame, whatever comes of it. *)
LEMMA SendStep ==
    ASSUME IInv, Send
    PROVE  IInv'
<1> DEFINE n == setting.interval
<1>1. PICK s \in 0..Slack, elapsed \in Elapsed, ok \in BOOLEAN, w \in 0..Slack :
        /\ Record(StartFrame(s), elapsed)
        /\ now' = StartFrame(s) + elapsed + w
        /\ IF AdaptRaises
             THEN status' = "raised" /\ UNCHANGED <<index, offset, effective>>
             ELSE /\ Adapt(elapsed)
                  /\ IF setting.stopOnError /\ ~ok
                       THEN status' = "stopped" /\ index' = index
                       ELSE status' = status /\ index' = index + 1
  BY DEF Send
<1> DEFINE start == StartFrame(s)
           line  == LineOf(start, elapsed)
           last  == Len(records) + 1
<1>2. TypeOK /\ IsSent /\ setting' = setting /\ status = "running"
  BY DEF IInv, Send, IsSent, AtFrame
<1>3. /\ n \in Nat /\ index \in Nat /\ offset \in Nat /\ effective \in Nat
      /\ now \in Nat /\ skipped \in Nat /\ Slack \in Nat /\ Frames \in Nat
      /\ elapsed \in Nat /\ s \in Nat /\ w \in Nat /\ w <= Slack /\ s <= Slack
      /\ index < Frames /\ Scheduled \in Nat
  BY <1>2, SettingTypes, ScheduledIsNat, StreamAssumption DEF TypeOK, IsSent, AtFrame
<1>4. /\ start \in Nat /\ Delay(start) \in Nat /\ line \in Line
      /\ n > 0 => start >= Scheduled /\ start = Later(now, Scheduled) + s
                  /\ Delay(start) = start - Scheduled
      /\ n = 0 => Delay(start) = 0
  BY <1>2, <1>3, StartOfFrame
<1>5. records' = Append(records, line) /\ skipped' = 0
  BY <1>1 DEF Record, LineOf
<1>6. /\ Len(records) \in Nat /\ Len(records') = last
      /\ records' \in Seq(Line) /\ records' # <<>>
      /\ records'[last] = line
      /\ \A k \in 1..Len(records) : records'[k] = records[k]
  <2> HIDE DEF line
  <2>1. records \in Seq(Line)
    BY <1>2 DEF TypeOK
  <2> QED
    BY <1>4, <1>5, <2>1
<1>7. /\ line.frame = index /\ line.skipped = skipped /\ line.start = start
      /\ line.delay = Delay(start) /\ line.took = elapsed
  BY DEF LineOf
<1> HIDE DEF n, start, line
<1>8. /\ effective' \in Nat /\ offset' \in Nat /\ index' \in {index, index + 1}
      /\ status' \in {"running", "stopped", "raised"}
      /\ status' = "running" => index' = index + 1
      /\ index' = index + 1 => status' = "running" /\ ~AdaptRaises
      /\ \/ offset' = offset /\ effective' = effective /\ (setting.adaptive => AdaptRaises)
         \/ /\ setting.adaptive /\ ~AdaptRaises
            /\ effective' = NextInterval(elapsed) /\ offset' = offset + effective'
            /\ effective' >= n
            /\ n > 0 /\ Follows => effective' >= elapsed
  <2>1. CASE AdaptRaises
    BY <1>1, <1>2, <1>3, <2>1
  <2>2. CASE ~AdaptRaises /\ ~setting.adaptive
    BY <1>1, <1>2, <1>3, <2>2 DEF Adapt
  <2>3. CASE ~AdaptRaises /\ setting.adaptive
    <3>1. /\ NextInterval(elapsed) \in Nat
          /\ NextInterval(elapsed) >= n
          /\ n > 0 /\ Follows => NextInterval(elapsed) >= elapsed
      BY <1>2, <1>3, <2>3, IntervalBounds DEF TypeOK, n
    <3>2. effective' = NextInterval(elapsed) /\ offset' = offset + effective'
      BY <1>1, <2>3 DEF Adapt
    <3> QED
      BY <1>1, <1>2, <1>3, <2>3, <3>1, <3>2
  <2> QED
    BY <2>1, <2>2, <2>3
<1>9. TypeOK'
  <2>1. now' \in Nat
    BY <1>1, <1>3, <1>4 DEF start
  <2>2. index' \in 0..Frames
    BY <1>3, <1>8
  <2> QED
    BY <1>2, <1>5, <1>6, <1>8, <2>1, <2>2 DEF TypeOK, Line
<1>10. NoFrameLost' /\ NothingSkippedAtEnd'
  <2> DEFINE sent == IF records = <<>> THEN 0 ELSE Last.frame + 1
  <2>1. index = skipped + sent /\ sent \in Nat
    BY <1>2, LastIsLine DEF IInv, NoFrameLost, TypeOK
  <2>2. sent = IF last = 1 THEN 0 ELSE records'[last - 1].frame + 1
    BY <1>2, <1>6 DEF TypeOK, Last
  <2> HIDE DEF sent
  <2>3. ASSUME NEW k \in 1..Len(records')
        PROVE  records'[k].frame = records'[k].skipped
                              + (IF k = 1 THEN 0 ELSE records'[k - 1].frame + 1)
    <3>1. CASE k = last
      BY <1>3, <1>6, <1>7, <2>1, <2>2, <3>1
    <3>2. CASE k \in 1..Len(records)
      <4>1. records'[k] = records[k] /\ (k # 1 => records'[k - 1] = records[k - 1])
        BY <1>6, <3>2
      <4> QED
        BY <3>2, <4>1 DEF IInv, NoFrameLost
    <3> QED
      BY <1>6, <3>1, <3>2
  <2>4. Last' = line
    BY <1>6 DEF Last
  <2>5. status' = "running" => index' = skipped' + (Last'.frame + 1)
    BY <1>3, <1>5, <1>7, <1>8, <2>4
  <2> QED
    BY <1>5, <1>6, <2>3, <2>5 DEF NoFrameLost, NothingSkippedAtEnd
<1>11. OnSchedule'
  <2> SUFFICES ASSUME setting.adaptive
               PROVE  effective' >= n /\ offset' >= index' * n
    BY <1>2 DEF OnSchedule, n
  <2>1. effective >= n /\ offset >= index * n
    BY DEF IInv, OnSchedule, n
  <2>2. (index + 1) * n = index * n + n /\ index * n \in Nat
    BY <1>3, NextMultiple
  <2>3. CASE AdaptRaises
    BY <1>8, <2>1, <2>3
  <2>4. CASE ~AdaptRaises
    <3>1. offset' = offset + effective' /\ effective' >= n
      BY <1>8, <2>4
    <3>2. index' * n = index * n \/ index' * n = index * n + n
      BY <1>8, <2>2
    <3> DEFINE due == index * n
               next == index' * n
    <3>3. due \in Nat /\ offset >= due /\ (next = due \/ next = due + n)
      BY <2>1, <2>2, <3>2
    <3> HIDE DEF due, next
    <3>4. offset' >= next
      BY <1>3, <1>8, <3>1, <3>3
    <3> QED
      BY <3>1, <3>4 DEF next
  <2> QED
    BY <2>3, <2>4
<1>12. NeverBeforeItsTime'
  <2>1. Scheduled >= index * n
    BY <1>3, NextMultiple DEF IInv, OnSchedule, Scheduled, n
  <2>2. index * n \in Nat
    BY <1>3, NextMultiple
  <2>3. start >= index * n
    <3>1. CASE n > 0
      BY <1>3, <1>4, <2>1, <2>2, <3>1
    <3>2. CASE n = 0
      BY <1>3, <1>4, <3>2
    <3> QED
      BY <1>3, <3>1, <3>2
  <2> QED
    BY <1>2, <1>6, <1>7, <2>3 DEF IInv, NeverBeforeItsTime, n
<1>13. SentFramesAreFresh'
  <2>1. Threshold' = Threshold /\ Threshold \in Int
    BY <1>2, SettingTypes DEF Threshold, TypeOK
  <2>2. setting.skip /\ n > 0 /\ index < Frames - 1 => Delay(start) < Threshold + Slack
    <3> SUFFICES ASSUME setting.skip, n > 0, index < Frames - 1
                 PROVE  Delay(start) < Threshold + Slack
      OBVIOUS
    <3>1. Threshold >= 0 /\ Delay(now) < Threshold
      BY <1>2 DEF IsSent, MaySkip, HasFutureFrame, n
    <3>2. Delay(now) = Later(0, now - Scheduled)
      BY <1>3 DEF Delay, n
    <3> QED
      BY <1>3, <1>4, <2>1, <3>1, <3>2 DEF Later
  <2> QED
    BY <1>2, <1>6, <1>7, <2>1, <2>2 DEF IInv, SentFramesAreFresh, n
<1>14. ClockFollows'
  <2> SUFFICES ASSUME Follows, n > 0, status' = "running"
               PROVE  now' - offset' <= (2 * index' + 1) * Slack
    BY <1>2 DEF ClockFollows, Follows, n
  <2>1. now - offset <= (2 * index + 1) * Slack
    BY <1>2 DEF IInv, ClockFollows, n
  <2>2. offset' = offset + effective' /\ effective' >= elapsed
    BY <1>8 DEF Follows
  <2>3. /\ (2 * index' + 1) * Slack = (2 * index + 1) * Slack + Slack + Slack
        /\ (2 * index + 1) * Slack \in Nat
    BY <1>3, <1>8, TwoMore
  <2>4. start = Later(now, offset) + s
    BY <1>4 DEF Scheduled, Follows
  <2>5. now' = start + elapsed + w
    BY <1>1 DEF start
  <2> DEFINE lag == (2 * index + 1) * Slack
  <2>6. lag \in Nat /\ now - offset <= lag
    BY <2>1, <2>3
  <2> HIDE DEF lag
  <2>7. start - offset <= lag + Slack
    BY <1>3, <2>4, <2>6 DEF Later
  <2>8. now' - offset' <= lag + Slack + Slack
    BY <1>3, <1>4, <1>8, <2>2, <2>5, <2>6, <2>7
  <2> QED
    BY <2>3, <2>8 DEF lag
<1>15. AdaptiveKeepsUp'
  <2>1. Follows => Delay(start) <= (2 * index + 2) * Slack
    <3> SUFFICES ASSUME Follows PROVE Delay(start) <= (2 * index + 2) * Slack
      OBVIOUS
    <3>1. /\ (2 * index + 2) * Slack = (2 * index + 1) * Slack + Slack
          /\ (2 * index + 1) * Slack \in Nat
      BY <1>3, TwoMore
    <3>2. CASE n = 0
      BY <1>3, <1>4, <3>1, <3>2
    <3>3. CASE n > 0
      <4>1. now - offset <= (2 * index + 1) * Slack
        BY <1>2, <3>3 DEF IInv, ClockFollows, n
      <4>2. start = Later(now, offset) + s /\ Delay(start) = start - offset
        BY <1>4, <3>3 DEF Scheduled, Follows
      <4> QED
        BY <1>3, <3>1, <4>1, <4>2 DEF Later
    <3> QED
      BY <1>3, <3>2, <3>3
  <2> QED
    BY <1>2, <1>6, <1>7, <2>1 DEF IInv, AdaptiveKeepsUp, Follows
<1> QED
  BY <1>9, <1>10, <1>11, <1>12, <1>13, <1>14, <1>15 DEF IInv

(* An exception ends the stream: what is checked of a running one is vacuous. *)
LEMMA RaiseStep ==
    ASSUME IInv, ThresholdRaises \/ RequestRaises
    PROVE  IInv'
<1>1. /\ UNCHANGED <<setting, index, now, offset, effective, records>>
      /\ status' = "raised" /\ skipped' \in {0, skipped}
  BY DEF ThresholdRaises, RequestRaises
<1>2. TypeOK'
  BY <1>1 DEF IInv, TypeOK, Line
<1>3. NoFrameLost' /\ NothingSkippedAtEnd' /\ ClockFollows'
  BY <1>1 DEF IInv, NoFrameLost, NothingSkippedAtEnd, ClockFollows
<1>4. OnSchedule' /\ NeverBeforeItsTime' /\ SentFramesAreFresh' /\ AdaptiveKeepsUp'
  BY <1>1 DEF IInv, OnSchedule, NeverBeforeItsTime, SentFramesAreFresh,
              AdaptiveKeepsUp, Follows, Threshold
<1> QED
  BY <1>2, <1>3, <1>4 DEF IInv

LEMMA StutterStep ==
    ASSUME IInv, UNCHANGED vars
    PROVE  IInv'
BY DEF IInv, vars, TypeOK, Line, NoFrameLost, NothingSkippedAtEnd, Last, OnSchedule,
       NeverBeforeItsTime, SentFramesAreFresh, ClockFollows, AdaptiveKeepsUp,
       Follows, Threshold

LEMMA Inductive == Spec => []IInv
<1>1. IInv /\ [Next]_vars => IInv'
  BY SkipStep, SendStep, RaiseStep, StutterStep DEF Next
<1> QED
  BY InitIInv, <1>1, PTL DEF Spec

-----------------------------------------------------------------------------
(* A server that keeps up with the camera. *)

Unhurried == setting.interval > 0 /\ Threshold > Slack

(* While no frame has taken longer than the interval, none has been skipped *)
(* and the loop comes to the next one at most one delay of its own late.    *)
Paced == Unhurried /\ status = "running" /\ Quick(Len(records)) =>
             skipped = 0 /\ now <= Scheduled + Slack

PInv == Paced /\ KeepsPace

LEMMA InitPInv == Init => PInv
<1> SUFFICES ASSUME Init PROVE PInv
  OBVIOUS
<1>1. /\ now \in 0..Slack /\ skipped = 0 /\ index = 0 /\ offset = 0
      /\ records = <<>> /\ setting.interval \in Nat /\ Slack \in Nat
  BY SettingTypes, StreamAssumption DEF Init
<1>2. Scheduled = 0
  BY <1>1 DEF Scheduled
<1>3. Paced
  BY <1>1, <1>2 DEF Paced
<1>4. KeepsPace
  BY <1>1 DEF KeepsPace
<1> QED
  BY <1>3, <1>4 DEF PInv

(* A stream on pace skips nothing, and one off pace has nothing to keep.    *)
LEMMA PacedSkip ==
    ASSUME IInv, PInv, Skip
    PROVE  PInv'
<1>1. /\ TypeOK /\ status = "running" /\ setting' = setting /\ records' = records
      /\ setting.interval > 0 /\ Delay(now) >= Threshold
  BY DEF IInv, Skip, AtFrame, MaySkip
<1>2. Threshold' = Threshold /\ (Quick(Len(records)))' = Quick(Len(records))
  BY <1>1 DEF Threshold, Quick
<1>3. KeepsPace'
  BY <1>1, <1>2 DEF PInv, KeepsPace, Quick
<1>4. ~(Unhurried /\ Quick(Len(records)))
  <2> SUFFICES ASSUME Unhurried, Quick(Len(records)) PROVE FALSE
    OBVIOUS
  <2>1. now <= Scheduled + Slack
    BY <1>1 DEF PInv, Paced
  <2>2. now \in Nat /\ Scheduled \in Nat /\ Slack \in Nat /\ Threshold \in Int
    BY <1>1, ScheduledIsNat, SettingTypes, StreamAssumption DEF TypeOK
  <2>3. Delay(now) = Later(0, now - Scheduled)
    BY <1>1 DEF Delay
  <2> QED
    BY <1>1, <2>1, <2>2, <2>3 DEF Unhurried, Later
<1>5. Paced'
  BY <1>1, <1>2, <1>4 DEF Paced, Unhurried
<1> QED
  BY <1>3, <1>5 DEF PInv

(* The next frame's time comes at least one interval after this one's.      *)
LEMMA NextSchedule ==
    ASSUME TypeOK, setting' = setting, NEW elapsed \in Nat, ~AdaptRaises,
           Adapt(elapsed), index' = index + 1
    PROVE  Scheduled' \in Nat /\ Scheduled' >= Scheduled + setting.interval
<1> DEFINE n == setting.interval
<1>1. n \in Nat /\ index \in Nat /\ offset \in Nat
  BY SettingTypes, StreamAssumption DEF TypeOK
<1>2. CASE setting.adaptive
  <2>1. NextInterval(elapsed) \in Nat /\ NextInterval(elapsed) >= n
    BY <1>2, IntervalBounds DEF TypeOK
  <2>2. offset' = offset + NextInterval(elapsed)
    BY <1>2 DEF Adapt
  <2>3. Scheduled = offset /\ Scheduled' = offset'
    BY <1>2 DEF Scheduled
  <2> QED
    BY <1>1, <2>1, <2>2, <2>3
<1>3. CASE ~setting.adaptive
  <2>1. Scheduled = index * n /\ Scheduled' = (index + 1) * n
    BY <1>3 DEF Scheduled
  <2>2. (index + 1) * n = index * n + n /\ index * n \in Nat
    BY <1>1, NextMultiple
  <2> QED
    BY <1>1, <2>1, <2>2
<1> QED
  BY <1>2, <1>3

LEMMA PacedSend ==
    ASSUME IInv, PInv, Send
    PROVE  PInv'
<1> DEFINE n == setting.interval
           m == Len(records)
<1>1. PICK s \in 0..Slack, elapsed \in Elapsed, ok \in BOOLEAN, w \in 0..Slack :
        /\ Record(StartFrame(s), elapsed)
        /\ now' = StartFrame(s) + elapsed + w
        /\ IF AdaptRaises
             THEN status' = "raised" /\ UNCHANGED <<index, offset, effective>>
             ELSE /\ Adapt(elapsed)
                  /\ IF setting.stopOnError /\ ~ok
                       THEN status' = "stopped" /\ index' = index
                       ELSE status' = status /\ index' = index + 1
  BY DEF Send
<1> DEFINE start == StartFrame(s)
           line  == LineOf(start, elapsed)
<1>2. TypeOK /\ IsSent /\ setting' = setting /\ status = "running"
  BY DEF IInv, Send, IsSent, AtFrame
<1>3. /\ n \in Nat /\ now \in Nat /\ Slack \in Nat /\ Scheduled \in Nat
      /\ elapsed \in Nat /\ s \in 0..Slack /\ w \in 0..Slack
      /\ Threshold' = Threshold
  BY <1>2, SettingTypes, ScheduledIsNat, StreamAssumption DEF TypeOK, Threshold
<1>4. /\ start \in Nat /\ line \in Line
      /\ n > 0 => start = Later(now, Scheduled) + s /\ Delay(start) = start - Scheduled
  BY <1>2, <1>3, StartOfFrame
<1>5. records' = Append(records, line) /\ skipped' = 0
  BY <1>1 DEF Record, LineOf
<1>6. /\ line.skipped = skipped /\ line.delay = Delay(start) /\ line.took = elapsed
  BY DEF LineOf
<1>7. now' = start + elapsed + w
  BY <1>1
<1> HIDE DEF start, line
<1>8. /\ m \in Nat /\ Len(records') = m + 1 /\ records'[m + 1] = line
      /\ \A k \in 1..m : records'[k] = records[k]
  <2>1. records \in Seq(Line)
    BY <1>2 DEF TypeOK
  <2> QED
    BY <1>4, <1>5, <2>1
<1> DEFINE QuickNow(k) == \A i \in 1..k : records'[i].took + 3 * Slack <= n
<1>9. /\ \A k \in 0..m : QuickNow(k) => Quick(k)
      /\ QuickNow(m + 1) => Quick(m) /\ elapsed + 3 * Slack <= n
  <2>1. ASSUME NEW k \in 0..m, QuickNow(k) PROVE Quick(k)
    <3>1. \A i \in 1..k : i \in 1..m
      BY <1>8
    <3> QED
      BY <1>8, <2>1, <3>1 DEF Quick
  <2>2. ASSUME QuickNow(m + 1) PROVE Quick(m) /\ elapsed + 3 * Slack <= n
    <3>1. \A i \in 1..m : i \in 1..(m + 1) /\ m + 1 \in 1..(m + 1)
      BY <1>8
    <3>2. line.took + 3 * Slack <= n
      <4>1. m + 1 \in 1..(m + 1)
        BY <1>8
      <4> QED
        BY <1>8, <2>2, <4>1
    <3>3. Quick(m)
      BY <1>8, <2>2, <3>1 DEF Quick
    <3> QED
      BY <1>6, <3>2, <3>3
  <2> QED
    BY <2>1, <2>2
<1>10. ASSUME Unhurried, Quick(m)
       PROVE  /\ skipped = 0 /\ start <= Scheduled + 2 * Slack
              /\ Delay(start) <= 2 * Slack
  <2>1. skipped = 0 /\ now <= Scheduled + Slack
    BY <1>2, <1>10 DEF PInv, Paced
  <2>2. start = Later(now, Scheduled) + s /\ Delay(start) = start - Scheduled
    BY <1>4, <1>10 DEF Unhurried
  <2> QED
    BY <1>3, <2>1, <2>2 DEF Later
<1>11. KeepsPace'
  <2> SUFFICES ASSUME Unhurried, NEW k \in 1..(m + 1), QuickNow(k - 1)
               PROVE  records'[k].skipped = 0 /\ records'[k].delay <= 2 * Slack
    BY <1>2, <1>3, <1>8 DEF KeepsPace, Unhurried, Quick
  <2> HIDE DEF QuickNow
  <2>1. k - 1 \in 0..m /\ Quick(k - 1)
    BY <1>8, <1>9
  <2>2. CASE k = m + 1
    <3>1. Quick(m)
      BY <1>8, <2>1, <2>2
    <3> QED
      BY <1>6, <1>8, <1>10, <2>2, <3>1
  <2>3. CASE k # m + 1
    <3>1. k \in 1..m
      BY <1>8, <2>3
    <3> QED
      BY <1>8, <2>1, <3>1 DEF PInv, KeepsPace, Unhurried
  <2> QED
    BY <2>2, <2>3
<1>12. Paced'
  <2> SUFFICES ASSUME Unhurried, status' = "running", QuickNow(m + 1)
               PROVE  skipped' = 0 /\ now' <= Scheduled' + Slack
    <3>1. Paced' <=> (Unhurried /\ status' = "running" /\ QuickNow(m + 1) =>
                          skipped' = 0 /\ now' <= Scheduled' + Slack)
      BY <1>2, <1>3, <1>8 DEF Paced, Unhurried, Quick
    <3> QED
      BY <3>1
  <2> HIDE DEF QuickNow
  <2>1. Quick(m) /\ elapsed + 3 * Slack <= n
    BY <1>9
  <2>2. start <= Scheduled + 2 * Slack
    BY <1>10, <2>1
  <2>3. ~AdaptRaises /\ Adapt(elapsed) /\ index' = index + 1
    <3>1. status' # "raised" /\ status' # "stopped"
      OBVIOUS
    <3> QED
      BY <1>1, <3>1
  <2>4. Scheduled' \in Nat /\ Scheduled' >= Scheduled + n
    BY <1>2, <1>3, <2>3, NextSchedule
  <2> HIDE DEF n
  <2>5. now' \in Nat /\ now' <= Scheduled + n
    BY <1>3, <1>4, <1>7, <2>1, <2>2
  <2>6. now' <= Scheduled'
    BY <1>3, <2>4, <2>5
  <2>7. now' <= Scheduled' + Slack
    <3>1. Slack \in Nat /\ now' \in Nat /\ Scheduled' \in Nat
      BY <1>3, <2>4, <2>5
    <3>2. \A a, b, c \in Nat : a <= b => a <= b + c
      OBVIOUS
    <3> QED
      BY <2>6, <3>1, <3>2, Zenon
  <2> QED
    BY <1>5, <2>7
<1> QED
  BY <1>11, <1>12 DEF PInv

LEMMA PacedElse ==
    ASSUME PInv, ThresholdRaises \/ RequestRaises \/ UNCHANGED vars
    PROVE  PInv'
<1>1. setting' = setting /\ records' = records /\ Threshold' = Threshold
  BY DEF ThresholdRaises, RequestRaises, vars, Threshold
<1>2. KeepsPace'
  BY <1>1 DEF PInv, KeepsPace, Quick
<1>3. Paced'
  BY <1>1 DEF PInv, Paced, Unhurried, Quick, Scheduled, ThresholdRaises, RequestRaises, vars
<1> QED
  BY <1>2, <1>3 DEF PInv

LEMMA InductivePace == Spec => []PInv
<1>1. IInv /\ PInv /\ [Next]_vars => PInv'
  BY PacedSkip, PacedSend, PacedElse DEF Next
<1> QED
  BY InitPInv, Inductive, <1>1, PTL DEF Spec

-----------------------------------------------------------------------------
(* The theorems. *)

(* The types, for every command line, also a misconfigured one.             *)
THEOREM TypeCorrect == Spec => []TypeOK
<1>1. IInv => TypeOK
  BY DEF IInv
<1> QED
  BY <1>1, Inductive, PTL

(* Every frame is sent or counted exactly once.                             *)
THEOREM FramesAreAccounted == Spec => []NoFrameLost
<1>1. IInv => NoFrameLost
  BY DEF IInv
<1> QED
  BY <1>1, Inductive, PTL

(* The last frame is sent: frames are skipped only while one follows.       *)
THEOREM EndsWithLastFrame == Spec => []LastFrameSent
<1>1. IInv => LastFrameSent
  <2> SUFFICES ASSUME IInv, status = "running", index = Frames, Frames > 0
               PROVE  skipped = 0 /\ Len(records) > 0 /\ Last.frame = Frames - 1
    BY DEF LastFrameSent
  <2>1. skipped = 0 /\ index = skipped + (IF records = <<>> THEN 0 ELSE Last.frame + 1)
    BY DEF IInv, NothingSkippedAtEnd, NoFrameLost
  <2>2. records # <<>>
    BY <2>1, StreamAssumption
  <2>3. Len(records) \in Nat \ {0} /\ Last.frame \in Nat
    BY <2>2, LastIsLine DEF IInv, TypeOK
  <2> QED
    BY <2>1, <2>2, <2>3, StreamAssumption
<1> QED
  BY <1>1, Inductive, PTL

(* The stream never runs ahead of the camera it stands for.                 *)
THEOREM NeverAhead == Spec => []NeverBeforeItsTime
<1>1. IInv => NeverBeforeItsTime
  BY DEF IInv
<1> QED
  BY <1>1, Inductive, PTL

(* Skipping keeps the frames that are sent fresh.                           *)
THEOREM FreshWhenSkipping == Spec => []SentFramesAreFresh
<1>1. IInv => SentFramesAreFresh
  BY DEF IInv
<1> QED
  BY <1>1, Inductive, PTL

(* An adaptive stream without a cap is never late on account of its server. *)
THEOREM AdaptationKeepsUp == Spec => []AdaptiveKeepsUp
<1>1. IInv => AdaptiveKeepsUp
  BY DEF IInv
<1> QED
  BY <1>1, Inductive, PTL

(* As long as the server answers within the interval, no frame is skipped   *)
(* and none starts late, whatever the command line: the loop's own delays   *)
(* do not pile up.                                                          *)
THEOREM QuickServerKeepsPace == Spec => []KeepsPace
<1>1. PInv => KeepsPace
  BY DEF PInv
<1> QED
  BY <1>1, InductivePace, PTL
=============================================================================
