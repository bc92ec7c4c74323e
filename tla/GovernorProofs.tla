--------------------------- MODULE GovernorProofs ---------------------------
(***************************************************************************)
(* What Governor.tla promises for every set of readings, every threshold,   *)
(* hysteresis length, cooldown and stabilization window: the level and the   *)
(* counters stay in range, the knobs follow the level, and every change of    *)
(* level is one that pressure or profit justifies.                           *)
(***************************************************************************)
EXTENDS Governor, TLAPS

(* The counters of compute_transition never run ahead of the readings that   *)
(* they count: ramp_up_count is at most the number of consecutive readings    *)
(* above the level, hysteresis_count at most the number of those below it.    *)
CountersHonest == rampUp <= above /\ hysteresis <= below

GovernorInv == TypeOK /\ KnobsFollowLevel /\ CountersHonest

-----------------------------------------------------------------------------
(* PsiStats::parse yields numbers whatever the file holds. *)
LEMMA ReadingsAreNumbers ==
  ASSUME NEW f \in PsiFiles
  PROVE  /\ Parse(f) \in Readings
         /\ Parse(f).some \in Nat /\ Parse(f).full \in Nat
  BY GovernorAssumption DEF Readings, Parse, ParseValue

(* MaxAge is the larger of the two durations. *)
LEMMA MaxAgeIsNat == MaxAge \in Nat /\ Cooldown <= MaxAge /\ Stabilization <= MaxAge
  BY GovernorAssumption DEF MaxAge, Larger

(* pressure_to_level never asks for level 0 or 2. *)
LEMMA TargetRange ==
  ASSUME NEW r
  PROVE  Target(r) \in {1, 3, 4, 5}
  BY DEF Target, PressureToLevel

(* What compute_transition may answer: a jump of two levels or more straight *)
(* to the target; one level up, carried out or counted; a step down, waiting   *)
(* for the cooldown, carried out or counted; or nothing, at the target.        *)
Answer(t, m) ==
  \/ t >= level + 2 /\ m = Move(t, 0, 0, TRUE)
  \/ t = level + 1 /\ rampUp + 1 >= Hysteresis /\ m = Move(t, 0, 0, TRUE)
  \/ t = level + 1 /\ rampUp + 1 < Hysteresis /\ m = Move(level, 0, rampUp + 1, FALSE)
  \/ t < level /\ enteredAge < Cooldown /\ m = Move(level, hysteresis, 0, FALSE)
  \/ t < level /\ hysteresis + 1 >= Hysteresis /\ m = Move(level - 1, 0, 0, TRUE)
  \/ t < level /\ hysteresis + 1 < Hysteresis /\ m = Move(level, hysteresis + 1, 0, FALSE)
  \/ t = level /\ m = Move(level, 0, 0, FALSE)

(* compute_transition gives one of these answers. *)
LEMMA TransitionAnswers ==
  ASSUME TypeOK, NEW t \in 1 .. 5
  PROVE  Answer(t, ComputeTransition(t))
<1>0. /\ level \in Nat /\ rampUp \in Nat /\ hysteresis \in Nat
      /\ Hysteresis \in Nat /\ Cooldown \in Nat /\ enteredAge \in Nat
  BY GovernorAssumption, MaxAgeIsNat DEF TypeOK, Levels
<1>1. CASE t >= level + 2
  <2>1. ~(t = level + 1) /\ ~(t < level)
    BY <1>0, <1>1
  <2>2. ComputeTransition(t) = Move(t, 0, 0, TRUE)
    BY <1>1, <2>1 DEF ComputeTransition
  <2> QED BY <1>1, <2>2 DEF Answer
<1>2. CASE t = level + 1
  <2>1. ~(t >= level + 2) /\ ~(t < level)
    BY <1>0, <1>2
  <2>2. ComputeTransition(t) = RampUp(t)
    BY <1>2, <2>1 DEF ComputeTransition
  <2>3. CASE rampUp + 1 >= Hysteresis
    BY <1>2, <2>2, <2>3 DEF Answer, RampUp
  <2>4. CASE ~(rampUp + 1 >= Hysteresis)
    <3>1. rampUp + 1 < Hysteresis
      BY <1>0, <2>4
    <3> QED BY <1>2, <2>2, <2>4, <3>1 DEF Answer, RampUp
  <2> QED BY <2>3, <2>4
<1>3. CASE t < level
  <2>1. ~(t >= level + 2) /\ ~(t = level + 1)
    BY <1>0, <1>3
  <2>2. ComputeTransition(t) = RampDown
    BY <1>3, <2>1 DEF ComputeTransition
  <2>3. CASE enteredAge < Cooldown
    BY <1>3, <2>2, <2>3 DEF Answer, RampDown
  <2>4. CASE ~(enteredAge < Cooldown) /\ hysteresis + 1 >= Hysteresis
    BY <1>3, <2>2, <2>4 DEF Answer, RampDown
  <2>5. CASE ~(enteredAge < Cooldown) /\ ~(hysteresis + 1 >= Hysteresis)
    <3>1. hysteresis + 1 < Hysteresis
      BY <1>0, <2>5
    <3> QED BY <1>3, <2>2, <2>5, <3>1 DEF Answer, RampDown
  <2> QED BY <2>3, <2>4, <2>5
<1>4. CASE t = level
  <2>1. ~(t >= level + 2) /\ ~(t = level + 1) /\ ~(t < level)
    BY <1>0, <1>4
  <2>2. ComputeTransition(t) = Stay
    BY <1>4, <2>1 DEF ComputeTransition
  <2> QED BY <1>4, <2>2 DEF Answer, Stay
<1> QED BY <1>0, <1>1, <1>2, <1>3, <1>4

(* The fields of an answer: the level stays between the old one and the      *)
(* target, and the counters count no more than one reading.                   *)
AnswerIsSound(t, m) ==
  /\ m.new \in Levels
  /\ m.new > level => m.new <= t
  /\ m.new < level => m.new >= t /\ hysteresis + 1 >= Hysteresis
  /\ m.new = level + 1 /\ t = level + 1 => rampUp + 1 >= Hysteresis
  /\ m.hyst \in 0 .. Hysteresis /\ m.ramp \in 0 .. Hysteresis
  /\ t > level => m.hyst = 0 /\ m.ramp <= rampUp + 1
  /\ t < level => m.ramp = 0 /\ m.hyst <= hysteresis + 1
  /\ t = level => m.ramp = 0 /\ m.hyst = 0
  /\ m.enter \in BOOLEAN

(* Every answer of compute_transition is sound. *)
LEMMA AnswersAreSound ==
  ASSUME TypeOK, NEW t \in 1 .. 5, NEW m, Answer(t, m)
  PROVE  AnswerIsSound(t, m)
<1>0. /\ level \in 0 .. 5 /\ rampUp \in 0 .. Hysteresis /\ hysteresis \in 0 .. Hysteresis
      /\ Hysteresis \in Nat
  BY GovernorAssumption DEF TypeOK, Levels
<1> USE <1>0 DEF AnswerIsSound, Levels, Move
<1>1. CASE t >= level + 2 /\ m = Move(t, 0, 0, TRUE)
  BY <1>1
<1>2. CASE t = level + 1 /\ rampUp + 1 >= Hysteresis /\ m = Move(t, 0, 0, TRUE)
  BY <1>2
<1>3. CASE t = level + 1 /\ rampUp + 1 < Hysteresis /\ m = Move(level, 0, rampUp + 1, FALSE)
  BY <1>3
<1>4. CASE t < level /\ enteredAge < Cooldown /\ m = Move(level, hysteresis, 0, FALSE)
  BY <1>4
<1>5. CASE t < level /\ hysteresis + 1 >= Hysteresis /\ m = Move(level - 1, 0, 0, TRUE)
  BY <1>5
<1>6. CASE t < level /\ hysteresis + 1 < Hysteresis /\ m = Move(level, hysteresis + 1, 0, FALSE)
  BY <1>6
<1>7. CASE t = level /\ m = Move(level, 0, 0, FALSE)
  BY <1>7
<1> QED
  BY <1>1, <1>2, <1>3, <1>4, <1>5, <1>6, <1>7, Zenon DEF Answer

-----------------------------------------------------------------------------
(* What one step may do to the level, the bodies of the action properties.   *)
LevelChangeOK ==
  /\ level > 0 => level' > 0
  /\ level' > level => level' <= Target(psi')
  /\ level' < level /\ ~loss' => level' >= Target(psi')
  /\ level' = level + 1 /\ Target(psi') = level + 1 => above' >= Hysteresis
  /\ level' < level /\ ~loss' => below' >= Hysteresis
  /\ level' # level /\ ~(loss' /\ level' < level) => actionAge >= Stabilization

(* The initial state of Governor::new satisfies the invariant. *)
LEMMA InitInv == Init => GovernorInv
<1> SUFFICES ASSUME Init PROVE GovernorInv
  OBVIOUS
<1>1. TypeOK
  <2>1. knobs \in [Knobs -> Levels]
    BY DEF Init, Levels
  <2>2. stale \subseteq Knobs /\ loss \in BOOLEAN
    BY Zenon DEF Init
  <2>3. scansAtLevel \in 0 .. MaxScans /\ fullScans \in 0 .. MaxScans
        /\ scansAtEntry \in 0 .. MaxScans
    BY GovernorAssumption DEF Init
  <2>4. enteredAge \in 0 .. MaxAge /\ actionAge \in 0 .. MaxAge
    BY MaxAgeIsNat DEF Init
  <2> QED BY GovernorAssumption, <2>1, <2>2, <2>3, <2>4 DEF Init, TypeOK, Levels
<1>2. KnobsFollowLevel /\ CountersHonest
  BY DEF Init, KnobsFollowLevel, CountersHonest
<1> QED BY <1>1, <1>2 DEF GovernorInv

(* A tick: the counters stay honest, the knobs of the last profile applied   *)
(* hold its level, and the level changes only as it may.                      *)
LEMMA TickIsSound ==
  ASSUME GovernorInv, NEW r \in Readings, NEW lossNow \in BOOLEAN,
         TickWithReadings(r, lossNow)
  PROVE  GovernorInv' /\ LevelChangeOK
<1> DEFINE t == Target(r)
           move == ComputeTransition(t)
           applied == move.new # level /\ WindowPassed
           moved == IF applied THEN move.new ELSE level
           base == IF move.enter THEN 0 ELSE scansAtLevel
           reduced == StepsDown(moved, lossNow, base)
           final == IF reduced THEN moved - 1 ELSE moved
<1>1. t \in {1, 3, 4, 5}
  BY TargetRange
<1>2. AnswerIsSound(t, move)
  BY <1>1, TransitionAnswers, AnswersAreSound DEF GovernorInv
<1>3. /\ level' = final
      /\ hysteresis' = move.hyst /\ rampUp' = move.ramp
      /\ enteredAge' = IF move.enter THEN 0 ELSE enteredAge
      /\ scansAtLevel' = base
      /\ psi' = r /\ loss' = lossNow
      /\ actionAge' = IF applied \/ reduced THEN 0 ELSE actionAge
      /\ above' = IF t > level THEN CountUpTo(above, Hysteresis) ELSE 0
      /\ below' = IF t < level THEN CountUpTo(below, Hysteresis) ELSE 0
      /\ scansAtEntry' = IF final # level THEN fullScans ELSE scansAtEntry
      /\ fullScans' = fullScans
  BY Zenon DEF TickWithReadings
<1>4. PICK failed1 \in Failures(applied), failed2 \in Failures(reduced) :
           /\ knobs' = LET kn == IF applied THEN Written(knobs, moved, failed1) ELSE knobs
                       IN  IF reduced THEN Written(kn, final, failed2) ELSE kn
           /\ stale' = IF reduced THEN failed2 \cap Managed
                       ELSE IF applied THEN failed1 \cap Managed ELSE stale
  BY Zenon DEF TickWithReadings
<1>5. reduced => moved > 1 /\ lossNow
  BY DEF StepsDown
<1>6. /\ level \in 0 .. 5 /\ rampUp \in 0 .. Hysteresis /\ hysteresis \in 0 .. Hysteresis
      /\ Hysteresis \in Nat /\ above \in 0 .. Hysteresis /\ below \in 0 .. Hysteresis
      /\ rampUp <= above /\ hysteresis <= below
  BY GovernorAssumption DEF GovernorInv, TypeOK, Levels, CountersHonest
<1> HIDE DEF t, move, reduced
<1>7. moved \in Levels /\ final \in Levels /\ (level > 0 => final > 0)
  BY <1>1, <1>2, <1>5, <1>6 DEF AnswerIsSound, Levels
<1>8. CountersHonest' /\ hysteresis' \in 0 .. Hysteresis /\ rampUp' \in 0 .. Hysteresis
      /\ above' \in 0 .. Hysteresis /\ below' \in 0 .. Hysteresis
  BY <1>1, <1>2, <1>3, <1>6 DEF AnswerIsSound, CountersHonest, CountUpTo
<1>9. TypeOK'
  <2>1. scansAtLevel' \in 0 .. MaxScans /\ fullScans' \in 0 .. MaxScans
        /\ scansAtEntry' \in 0 .. MaxScans
    BY <1>3, GovernorAssumption DEF GovernorInv, TypeOK
  <2>2. enteredAge' \in 0 .. MaxAge /\ actionAge' \in 0 .. MaxAge
    BY <1>3, MaxAgeIsNat DEF GovernorInv, TypeOK
  <2>3. ASSUME NEW kn \in [Knobs -> Levels], NEW l \in Levels, NEW failed
        PROVE  Written(kn, l, failed) \in [Knobs -> Levels]
    BY <2>3 DEF Written
  <2>4. knobs' \in [Knobs -> Levels]
    BY <1>4, <1>7, <2>3, Zenon DEF GovernorInv, TypeOK
  <2>5. stale' \subseteq Knobs
    BY <1>4 DEF GovernorInv, TypeOK, Managed
  <2>6. level' \in Levels /\ psi' \in Readings \cup {NoReading} /\ loss' \in BOOLEAN
    BY <1>3, <1>7
  <2> QED BY <1>8, <2>1, <2>2, <2>4, <2>5, <2>6 DEF TypeOK
<1>10. KnobsFollowLevel'
  <2>1. ASSUME NEW kn, NEW l, NEW failed, NEW k \in Managed \ (failed \cap Managed)
        PROVE  Written(kn, l, failed)[k] = l
    BY <2>1 DEF Written, Managed
  <2>2. CASE reduced
    <3>1. PICK kn : knobs' = Written(kn, final, failed2)
      BY <1>4, <2>2
    <3>2. stale' = failed2 \cap Managed /\ level' = final
      BY <1>3, <1>4, <2>2
    <3> HIDE DEF final
    <3> QED BY <2>1, <3>1, <3>2 DEF KnobsFollowLevel, Managed
  <2>3. CASE ~reduced /\ applied
    <3>1. knobs' = Written(knobs, moved, failed1)
      BY <1>4, <2>3
    <3>2. stale' = failed1 \cap Managed /\ level' = moved
      BY <1>3, <1>4, <2>3
    <3> HIDE DEF moved
    <3> QED BY <2>1, <3>1, <3>2 DEF KnobsFollowLevel, Managed
  <2>4. CASE ~reduced /\ ~applied
    BY <1>3, <1>4, <2>4 DEF KnobsFollowLevel, Managed, GovernorInv
  <2> QED BY <2>2, <2>3, <2>4
<1>11. LevelChangeOK
  <2>1. /\ level > 0 => level' > 0
        /\ level' > level => level' <= t
        /\ level' < level /\ ~loss' => level' >= t
    BY <1>1, <1>2, <1>3, <1>5, <1>6, <1>7 DEF AnswerIsSound, Levels
  <2>2. level' = level + 1 /\ t = level + 1 => above' >= Hysteresis
    BY <1>1, <1>2, <1>3, <1>5, <1>6, <1>7 DEF AnswerIsSound, Levels, CountUpTo
  <2>3. level' < level /\ ~loss' => below' >= Hysteresis
    BY <1>1, <1>2, <1>3, <1>5, <1>6, <1>7 DEF AnswerIsSound, Levels, CountUpTo
  <2>4. level' # level /\ ~(loss' /\ level' < level) => actionAge >= Stabilization
    BY <1>1, <1>2, <1>3, <1>5, <1>6, <1>7 DEF AnswerIsSound, Levels, WindowPassed
  <2>5. Target(psi') = t
    BY <1>3 DEF t
  <2> QED BY <2>1, <2>2, <2>3, <2>4, <2>5 DEF LevelChangeOK
<1> QED BY <1>8, <1>9, <1>10, <1>11 DEF GovernorInv

(* The level, the counters and the knobs are left alone. *)
Untouched == UNCHANGED <<level, hysteresis, rampUp, knobs, stale, above, below, loss>>

(* A step that touches neither level nor counters nor knobs: a failed tick,   *)
(* the passing of time, a scan of ksmd.                                       *)
LEMMA OthersAreSound ==
  ASSUME GovernorInv, TickFails \/ Elapse \/ ScanCompletes \/ UNCHANGED vars
  PROVE  GovernorInv' /\ LevelChangeOK
<1>1. Untouched /\ psi' = psi
  BY DEF Untouched, TickFails, Elapse, ScanCompletes, vars
<1>2. TypeOK'
  <2>1. enteredAge' \in 0 .. MaxAge /\ actionAge' \in 0 .. MaxAge
    BY MaxAgeIsNat DEF GovernorInv, TypeOK, TickFails, Elapse, ScanCompletes, vars, CountUpTo
  <2>2. scansAtLevel' \in 0 .. MaxScans /\ fullScans' \in 0 .. MaxScans
        /\ scansAtEntry' \in 0 .. MaxScans
    BY GovernorAssumption
    DEF GovernorInv, TypeOK, TickFails, Elapse, ScanCompletes, vars
  <2> QED BY <1>1, <2>1, <2>2 DEF GovernorInv, TypeOK, Untouched
<1>3. KnobsFollowLevel' /\ CountersHonest'
  BY <1>1 DEF Untouched, GovernorInv, KnobsFollowLevel, CountersHonest, Managed
<1>4. LevelChangeOK
  BY <1>1 DEF Untouched, LevelChangeOK, GovernorInv, TypeOK, Levels
<1> QED BY <1>2, <1>3, <1>4 DEF GovernorInv

(* Every step. *)
LEMMA StepIsSound == GovernorInv /\ [Next]_vars => GovernorInv' /\ LevelChangeOK
<1> SUFFICES ASSUME GovernorInv, [Next]_vars PROVE GovernorInv' /\ LevelChangeOK
  OBVIOUS
<1>1. CASE Tick
  <2>1. PICK f \in PsiFiles, lossNow \in BOOLEAN : TickWithReadings(Parse(f), lossNow)
    BY <1>1 DEF Tick
  <2> QED BY <2>1, ReadingsAreNumbers, TickIsSound
<1>2. CASE TickFails \/ Elapse \/ ScanCompletes \/ UNCHANGED vars
  BY <1>2, OthersAreSound
<1> QED BY <1>1, <1>2 DEF Next

-----------------------------------------------------------------------------
(* The invariant holds throughout. *)
LEMMA GovernorInvariant == Spec => []GovernorInv
<1>1. Init => GovernorInv
  BY InitInv
<1>2. GovernorInv /\ [Next]_vars => GovernorInv'
  BY StepIsSound
<1> QED BY <1>1, <1>2, PTL DEF Spec

(* Whatever the readings, the level stays between 0 and 5 and neither         *)
(* hysteresis counter of compute_transition exceeds hysteresis_readings.      *)
THEOREM GovernorTypeCorrect == Spec => []TypeOK
<1>1. GovernorInv => TypeOK
  BY DEF GovernorInv
<1> QED BY <1>1, GovernorInvariant, PTL

(* The sysfs knobs that the governor manages hold the profile of its current  *)
(* level, except those whose last write failed: apply_profile is never left    *)
(* out of a change of level, nor made for another level than the one recorded.  *)
THEOREM KnobsAlwaysFollowLevel == Spec => []KnobsFollowLevel
<1>1. GovernorInv => KnobsFollowLevel
  BY DEF GovernorInv
<1> QED BY <1>1, GovernorInvariant, PTL

(* Neither compute_transition nor any number of profit step-downs brings the   *)
(* level back to 0.                                                           *)
THEOREM GovernorNeverStops == Spec => NeverStops
<1>1. GovernorInv /\ [Next]_vars => [level > 0 => level' > 0]_vars
  BY StepIsSound DEF LevelChangeOK
<1> QED BY <1>1, GovernorInvariant, PTL DEF Spec, NeverStops

(* classify and pressure_to_level together: the target is the highest level that *)
(* a score or a threshold justifies.                                          *)
LEMMA TargetIsJustified ==
  ASSUME NEW r \in Readings
  PROVE  Justified(r) = 0 .. Target(r)
<1>1. r.some \in Nat /\ r.full \in Nat /\ SomeThreshold \in Nat /\ FullThreshold \in Nat
  BY GovernorAssumption, ReadingsAreNumbers DEF Readings
<1>2. PICK score : score = Score(r)
  OBVIOUS
<1>3. score \in Nat
  BY <1>1, <1>2 DEF Score
<1>4. CASE score >= 20000
  <2>1. Target(r) = 5
    BY <1>1, <1>2, <1>3, <1>4 DEF Target, Classify, PressureToLevel
  <2>2. Justified(r) = 0 .. 5
    BY <1>2, <1>3, <1>4 DEF Justified
  <2>3. QED
    BY <2>1, <2>2
<1>5. CASE score < 20000 /\ (score >= 10000 \/ r.full >= FullThreshold * 2)
  <2>1. Target(r) = 4
    BY <1>1, <1>2, <1>3, <1>5 DEF Target, Classify, PressureToLevel
  <2>2. Justified(r) = 0 .. 4
    BY <1>1, <1>2, <1>3, <1>5 DEF Justified
  <2>3. QED
    BY <2>1, <2>2
<1>6. CASE score < 10000 /\ r.full < FullThreshold * 2 /\ (score >= 5000 \/ r.some >= SomeThreshold)
  <2>1. Target(r) = 3
    BY <1>1, <1>2, <1>3, <1>6 DEF Target, Classify, PressureToLevel
  <2>2. Justified(r) = 0 .. 3
    BY <1>1, <1>2, <1>3, <1>6 DEF Justified
  <2>3. QED
    BY <2>1, <2>2
<1>7. CASE score < 5000 /\ r.full < FullThreshold * 2 /\ r.some < SomeThreshold
  <2>1. Classify(r) \in {"low", "idle"}
    BY <1>1, <1>2, <1>3, <1>7 DEF Classify
  <2>2. Target(r) = 1
    BY <2>1 DEF Target, PressureToLevel
  <2>3. Justified(r) = 0 .. 1
    BY <1>1, <1>2, <1>3, <1>7 DEF Justified
  <2>4. QED
    BY <2>2, <2>3
<1>8. QED
  BY <1>1, <1>3, <1>4, <1>5, <1>6, <1>7

(* The level rises only as far as the scores and thresholds of the reading justify, *)
(* and only the profit check takes it below that.                             *)
THEOREM LevelMovesTowardTarget == Spec => MovesTowardTarget
<1>1. ASSUME GovernorInv, [Next]_vars
      PROVE  [/\ level' > level => level' \in Justified(psi')
              /\ level' < level /\ ~loss' => Justified(psi') \subseteq 0 .. level']_vars
  <2>1. LevelChangeOK
    BY <1>1, StepIsSound
  <2>2. level \in 0 .. 5 /\ level' \in 0 .. 5
    BY <1>1, StepIsSound DEF GovernorInv, TypeOK, Levels
  <2>3. CASE Tick
    <3>1. PICK f \in PsiFiles, lossNow \in BOOLEAN : TickWithReadings(Parse(f), lossNow)
      BY <2>3 DEF Tick
    <3>2. psi' = Parse(f)
      BY <3>1 DEF TickWithReadings
    <3>3. psi' \in Readings
      BY <3>2, ReadingsAreNumbers
    <3>4. Justified(psi') = 0 .. Target(psi') /\ Target(psi') \in {1, 3, 4, 5}
      BY <3>3, TargetIsJustified, TargetRange
    <3>5. QED
      BY <2>1, <2>2, <3>4 DEF LevelChangeOK
  <2>4. CASE TickFails \/ Elapse \/ ScanCompletes \/ UNCHANGED vars
    <3>1. level' = level
      BY <2>4 DEF TickFails, Elapse, ScanCompletes, vars
    <3>2. QED
      BY <2>2, <3>1
  <2>5. QED
    BY <1>1, <2>3, <2>4 DEF Next
<1>2. QED
  BY <1>1, GovernorInvariant, PTL DEF Spec, MovesTowardTarget

(* However deferred changes, the cooldown and profit step-downs interfere with *)
(* ramp_up_count and hysteresis_count, a one-level change caused by pressure    *)
(* has hysteresis_readings consecutive readings behind it.                     *)
THEOREM HysteresisAlwaysHonoured == Spec => HysteresisHonoured
<1>1. GovernorInv /\ [Next]_vars
      => [/\ level' = level + 1 /\ Target(psi') = level + 1 => above' >= Hysteresis
          /\ level' < level /\ ~loss' => below' >= Hysteresis]_vars
  BY StepIsSound DEF LevelChangeOK
<1> QED BY <1>1, GovernorInvariant, PTL DEF Spec, HysteresisHonoured

(* tick applies a change that pressure asks for only outside the stabilization *)
(* window of the last action.                                                 *)
THEOREM PressureChangesAlwaysDamped == Spec => PressureChangesDamped
<1>1. GovernorInv /\ [Next]_vars
      => [level' # level /\ ~(loss' /\ level' < level) => actionAge >= Stabilization]_vars
  BY StepIsSound DEF LevelChangeOK
<1> QED BY <1>1, GovernorInvariant, PTL DEF Spec, PressureChangesDamped
=============================================================================
