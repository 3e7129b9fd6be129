------------------------------ MODULE FakeStream ------------------------------
(***************************************************************************)
(* The fake camera stream (src/edge_vlm/fake_stream.py): a folder of images *)
(* is sent to the server as if a camera took one every interval.  A frame   *)
(* whose scheduled start has not come is waited for; one that is late may   *)
(* be skipped; the interval may adapt to how long the last frame took.      *)
(*                                                                          *)
(* Time is counted in ticks since stream_started.  Frames are numbered from *)
(* 0, as in the code.                                                       *)
(***************************************************************************)
EXTENDS Integers, Sequences

CONSTANTS Frames,     \* how many frames there are
          Settings,   \* the command lines considered
          Elapsed,    \* how long a frame may take
          Slack,      \* bound: what sleep or the loop may add to a step
          None

ASSUME StreamAssumption ==
    /\ Frames \in Nat
    /\ Elapsed \subseteq Nat
    /\ Slack \in Nat
    /\ None \notin Int
    /\ Settings \subseteq
         [interval : Nat, skip : BOOLEAN, threshold : Int \cup {None},
          adaptive : BOOLEAN, scale : Int, cap : Int \cup {None},
          stopOnError : BOOLEAN]

VARIABLES setting,    \* the command line, fixed
          index,      \* the frame the loop is at
          now,        \* time.perf_counter() - stream_started
          offset,     \* next_scheduled_offset_s
          effective,  \* effective_interval_s
          skipped,    \* skipped_frames_before
          records,    \* the lines of the output file
          status      \* "running", "stopped" by --stop-on-error, or "raised"

vars == <<setting, index, now, offset, effective, skipped, records, status>>

Later(a, b)   == IF a >= b THEN a ELSE b
Earlier(a, b) == IF a <= b THEN a ELSE b

HasFutureFrame == index < Frames - 1

(* Without --adaptive-interval the schedule is a fixed cadence.  A frame    *)
(* has no schedule at all when the interval is 0.                           *)
Scheduled == IF setting.adaptive THEN offset ELSE index * setting.interval

Delay(at) == IF setting.interval = 0 THEN 0 ELSE Later(0, at - Scheduled)

Threshold == IF setting.threshold # None THEN setting.threshold
                                         ELSE setting.interval

\* Mutant: the last frame is skipped like the others.
MaySkipAny == setting.skip /\ setting.interval > 0

MaySkip == setting.skip /\ setting.interval > 0 /\ HasFutureFrame

(* The scale is in halves, 2 being --adaptive-interval-scale 1.0.           *)
Scaled(elapsed) == (elapsed * setting.scale) \div 2

\* Mutant: a quick frame makes the interval shorter than it was asked for.
ShrinkInterval(elapsed) ==
    IF setting.interval = 0 THEN 0
    ELSE IF setting.cap = None THEN Scaled(elapsed)
                               ELSE Earlier(Scaled(elapsed), setting.cap)

NextInterval(elapsed) ==
    IF setting.interval = 0 THEN 0
    ELSE LET wanted == Later(setting.interval, Scaled(elapsed))
         IN IF setting.cap = None THEN wanted ELSE Earlier(wanted, setting.cap)

(* _next_adaptive_interval refuses its arguments when it is first called,   *)
(* after a frame has been sent and recorded.                                *)
AdaptRaises == /\ setting.adaptive /\ setting.interval > 0
               /\ \/ setting.scale <= 0
                  \/ setting.cap # None /\ setting.cap < setting.interval

-----------------------------------------------------------------------------

Init == /\ setting \in Settings
        /\ index = 0 /\ now \in 0..Slack /\ offset = 0
        /\ effective = setting.interval
        /\ skipped = 0 /\ records = <<>> /\ status = "running"

\* Mutant: off by one.
AtFrameOrEnd == status = "running" /\ index <= Frames

AtFrame == status = "running" /\ index < Frames

\* Mutant: a skipped frame leaves the schedule where it was.
SkipInPlace ==
    /\ AtFrame /\ MaySkip /\ Threshold >= 0 /\ Delay(now) >= Threshold
    /\ skipped' = skipped + 1
    /\ index' = index + 1
    /\ \E s \in 0..Slack : now' = now + s
    /\ UNCHANGED <<setting, offset, effective, records, status>>

Skip ==
    /\ AtFrame /\ MaySkip /\ Threshold >= 0 /\ Delay(now) >= Threshold
    /\ skipped' = skipped + 1
    /\ offset' = IF setting.adaptive THEN offset + effective ELSE offset
    /\ index' = index + 1
    /\ \E s \in 0..Slack : now' = now + s
    /\ UNCHANGED <<setting, effective, records, status>>

ThresholdRaises ==
    /\ AtFrame /\ MaySkip /\ Threshold < 0
    /\ status' = "raised"
    /\ UNCHANGED <<setting, index, now, offset, effective, skipped, records>>

(* Whether the frame is sent: with --skip-late-frames when it is not late.  *)
IsSent == AtFrame /\ (MaySkip => Threshold >= 0 /\ Delay(now) < Threshold)

\* Mutant: the loop sleeps one interval between frames.
SleepInterval(s) == now + setting.interval + s

StartFrame(s) == IF setting.interval > 0 THEN Later(now, Scheduled) + s
                                         ELSE now + s

\* Mutant: the count of skipped frames is not reset.
RecordKeeping(start, elapsed) ==
    /\ records' = Append(records,
                    [frame |-> index, skipped |-> skipped, start |-> start,
                     scheduled |-> Scheduled, delay |-> Delay(start), took |-> elapsed])
    /\ skipped' = skipped

Record(start, elapsed) ==
    /\ records' = Append(records,
                    [frame |-> index, skipped |-> skipped, start |-> start,
                     scheduled |-> Scheduled, delay |-> Delay(start), took |-> elapsed])
    /\ skipped' = 0

\* Mutant: the schedule advances by the interval of the frame before.
AdaptLate(elapsed) ==
    IF setting.adaptive
      THEN effective' = NextInterval(elapsed) /\ offset' = offset + effective
      ELSE UNCHANGED <<offset, effective>>

Adapt(elapsed) ==
    IF setting.adaptive
      THEN effective' = NextInterval(elapsed) /\ offset' = offset + effective'
      ELSE UNCHANGED <<offset, effective>>

(* One frame sent and recorded, answered or not: wait for its start, send   *)
(* it, write its record, adapt the interval, stop if that was asked for.    *)
Send ==
    /\ IsSent
    /\ \E s \in 0..Slack, elapsed \in Elapsed, ok \in BOOLEAN, w \in 0..Slack :
         LET start == StartFrame(s)
         IN /\ Record(start, elapsed)
            /\ now' = start + elapsed + w
            /\ IF AdaptRaises
                 THEN status' = "raised" /\ UNCHANGED <<index, offset, effective>>
                 ELSE /\ Adapt(elapsed)
                      /\ IF setting.stopOnError /\ ~ok
                           THEN status' = "stopped" /\ index' = index
                           ELSE status' = status /\ index' = index + 1
    /\ UNCHANGED setting

(* An exception that neither the client nor the loop expects, such as a     *)
(* response that ends in the middle: the frame has no record.               *)
RequestRaises ==
    /\ IsSent
    /\ skipped' = 0
    /\ status' = "raised"
    /\ UNCHANGED <<setting, index, now, offset, effective, records>>

Next == Skip \/ ThresholdRaises \/ Send \/ RequestRaises

Spec == Init /\ [][Next]_vars

-----------------------------------------------------------------------------
(* Properties. *)

Line == [frame : 0..(Frames - 1), skipped : Nat, start : Nat, scheduled : Nat,
         delay : Nat, took : Nat]

(* Types of the loop's variables and of the lines it writes.                *)
TypeOK ==
    /\ setting \in Settings
    /\ index \in 0..Frames /\ now \in Nat /\ offset \in Nat
    /\ effective \in Nat /\ skipped \in Nat
    /\ records \in Seq(Line)
    /\ status \in {"running", "stopped", "raised"}

Last == records[Len(records)]

(* Every frame is sent or counted as skipped, exactly once, and the count   *)
(* is in the record of the next frame that was sent.                        *)
NoFrameLost ==
    /\ \A k \in 1..Len(records) :
         records[k].frame = records[k].skipped
                            + (IF k = 1 THEN 0 ELSE records[k - 1].frame + 1)
    /\ status = "running" =>
         index = skipped + (IF records = <<>> THEN 0 ELSE Last.frame + 1)

(* A stream that runs to its end has sent the last frame, however late.     *)
LastFrameSent ==
    status = "running" /\ index = Frames /\ Frames > 0 =>
        skipped = 0 /\ Len(records) > 0 /\ Last.frame = Frames - 1

(* No frame is sent before the camera would have taken it, whatever was     *)
(* skipped and however the interval adapted.                                *)
NeverBeforeItsTime ==
    \A k \in 1..Len(records) :
        records[k].start >= records[k].frame * setting.interval

(* With --skip-late-frames a frame that is sent starts less than the        *)
(* threshold late, and the time that sleeping and the loop itself add after *)
(* the decision, which is not looked at again; the last one excepted.       *)
SentFramesAreFresh ==
    \A k \in 1..Len(records) :
        /\ setting.skip /\ setting.interval > 0
        /\ records[k].frame < Frames - 1
        => records[k].delay < Threshold + Slack

Follows == setting.adaptive /\ setting.scale >= 2 /\ setting.cap = None

(* An adaptive stream without a cap and with a scale of at least 1 keeps up *)
(* with any server: a frame is late by no more than what sleeping and       *)
(* writing added, never by what earlier frames took.                        *)
AdaptiveKeepsUp ==
    Follows => \A k \in 1..Len(records) :
                   records[k].delay <= (2 * records[k].frame + 2) * Slack

(* The server took less than an interval for each of the first m frames.    *)
Quick(m) == \A k \in 1..m : records[k].took + 3 * Slack <= setting.interval

(* As long as no frame takes longer than the interval, none is skipped and  *)
(* none is late: what sleeping and writing add does not pile up, with a     *)
(* fixed cadence and with every adaptive one.                               *)
KeepsPace ==
    setting.interval > 0 /\ Threshold > Slack =>
        \A n \in 1..Len(records) :
            Quick(n - 1) => records[n].skipped = 0 /\ records[n].delay <= 2 * Slack
=============================================================================
