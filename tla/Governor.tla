------------------------------ MODULE Governor ------------------------------
(***************************************************************************)
(* Tier 1 of the daemon, the PSI-aware KSM governor                         *)
(* (crates/daemon/src/governor.rs, PsiStats::classify in                    *)
(* crates/common/src/psi.rs).  Every tick reads memory pressure and KSM's    *)
(* profit, turns pressure into a target level, moves its own level towards   *)
(* the target through hysteresis, a cooldown and a stabilization window, and  *)
(* writes the profile of the new level to sysfs.                             *)
(*                                                                          *)
(* Instants are modelled by ages: how long ago something happened, in units  *)
(* of time, saturating at MaxAge, beyond which no test tells ages apart.      *)
(* Ticks are not tied to time units: tokio's interval may delay a tick and    *)
(* then fire several in a burst.                                             *)
(***************************************************************************)
EXTENDS Naturals, FiniteSets

CONSTANTS
  PsiFiles,       \* /proc/pressure/memory: records [some, full], avg10 in 1/100 percent
  NoValue,        \* an avg10 that is missing or does not parse
  NoReading,      \* last_psi before the first tick
  SomeThreshold,  \* psi_some_threshold, in 1/100 percent
  FullThreshold,  \* psi_full_threshold, in 1/100 percent
  Hysteresis,     \* hysteresis_readings
  Cooldown,       \* min_level_duration_secs, in units of time
  Stabilization,  \* stabilization_secs, in units of time
  SustainedScans, \* the literal 10 of the profit check
  MaxScans,       \* bound on the kernel's full_scans counter
  UseAdvisor,     \* use_advisor
  FallibleKnobs   \* sysfs files whose writes may fail; the error is ignored

Levels == 0 .. 5
Knobs == {"sleep", "sharing", "scan"}
Larger(x, y) == IF x >= y THEN x ELSE y
MaxAge == Larger(Cooldown, Stabilization)

(* PsiStats::parse and parse_line: what does not parse is 0.                 *)
ParseValue(v) == IF v = NoValue THEN 0 ELSE v
Parse(f) == [some |-> ParseValue(f.some), full |-> ParseValue(f.full)]
Readings == {Parse(f) : f \in PsiFiles}

ASSUME GovernorAssumption ==
  /\ PsiFiles \subseteq [some : Nat \cup {NoValue}, full : Nat \cup {NoValue}]
  /\ NoReading \notin Readings
  /\ SomeThreshold \in Nat /\ FullThreshold \in Nat
  /\ Hysteresis \in Nat /\ Cooldown \in Nat /\ Stabilization \in Nat
  /\ SustainedScans \in Nat /\ MaxScans \in Nat
  /\ UseAdvisor \in BOOLEAN
  /\ FallibleKnobs \subseteq Knobs

VARIABLES
  level,        \* Governor.current_level
  hysteresis,   \* Governor.hysteresis_count
  rampUp,       \* Governor.ramp_up_count
  enteredAge,   \* age of Governor.level_entered_at
  scansAtLevel, \* Governor.full_scans_at_level
  psi,          \* Governor.last_psi
  loss,         \* general_profit < 0 at the last tick (GovernorState.general_profit)
  actionAge,    \* age of GovernorState.last_governor_action
  fullScans,    \* the kernel's full_scans counter
  knobs,        \* the level each sysfs knob was last written for; 0: not yet written
  stale,        \* history: the knobs whose last write failed
  above, below, \* history: consecutive ticks with the target above / below the level
  scansAtEntry  \* history: full_scans when the level last changed

vars == <<level, hysteresis, rampUp, enteredAge, scansAtLevel, psi, loss,
          actionAge, fullScans, knobs, stale, above, below, scansAtEntry>>

(* PsiStats::classify: score = 0.7 full + 0.3 some, here scaled by 1000. *)
Score(r) == 7 * r.full + 3 * r.some

(* Mutant: twice the threshold for full stalls itself is not yet high. *)
ClassifyBeyond(r) ==
  CASE Score(r) >= 20000 -> "critical"
    [] Score(r) < 20000 /\ (Score(r) >= 10000 \/ r.full > FullThreshold * 2) -> "high"
    [] Score(r) < 10000 /\ r.full <= FullThreshold * 2
       /\ (Score(r) >= 5000 \/ r.some >= SomeThreshold) -> "medium"
    [] OTHER -> "idle"

Classify(r) ==
  CASE Score(r) >= 20000 -> "critical"
    [] Score(r) < 20000 /\ (Score(r) >= 10000 \/ r.full >= FullThreshold * 2) -> "high"
    [] Score(r) < 10000 /\ r.full < FullThreshold * 2
       /\ (Score(r) >= 5000 \/ r.some >= SomeThreshold) -> "medium"
    [] Score(r) < 5000 /\ r.full < FullThreshold * 2 /\ r.some < SomeThreshold
       /\ Score(r) >= 500 -> "low"
    [] OTHER -> "idle"

PressureToLevel(p) ==
  CASE p = "critical" -> 5
    [] p = "high" -> 4
    [] p = "medium" -> 3
    [] OTHER -> 1

Target(r) == PressureToLevel(Classify(r))

TypeOK ==
  /\ level \in Levels
  /\ hysteresis \in 0 .. Hysteresis /\ rampUp \in 0 .. Hysteresis
  /\ enteredAge \in 0 .. MaxAge /\ actionAge \in 0 .. MaxAge
  /\ scansAtLevel \in 0 .. MaxScans /\ fullScans \in 0 .. MaxScans
  /\ scansAtEntry \in 0 .. MaxScans
  /\ psi \in Readings \cup {NoReading}
  /\ loss \in BOOLEAN
  /\ knobs \in [Knobs -> Levels]
  /\ stale \subseteq Knobs
  /\ above \in 0 .. Hysteresis /\ below \in 0 .. Hysteresis

(* Governor::new and GovernorState::default.  KSM may have been scanning     *)
(* before the daemon started.                                               *)
Init ==
  /\ level = 0 /\ hysteresis = 0 /\ rampUp = 0 /\ scansAtLevel = 0
  /\ enteredAge = 0 /\ actionAge = 0
  /\ psi = NoReading /\ loss = FALSE
  /\ fullScans \in {0, MaxScans} /\ scansAtEntry = fullScans
  /\ knobs = [k \in Knobs |-> 0] /\ stale = {}
  /\ above = 0 /\ below = 0

(* compute_transition: the level it returns and what it does to the counters *)
(* and to level_entered_at, whether or not the change is then carried out.    *)
Move(new, hyst, ramp, enter) == [new |-> new, hyst |-> hyst, ramp |-> ramp, enter |-> enter]

(* Mutant: the ramp-up counter survives the change it causes. *)
RampUpUnreset(target) ==
  IF rampUp + 1 >= Hysteresis THEN Move(target, 0, rampUp + 1, TRUE)
                              ELSE Move(level, 0, rampUp + 1, FALSE)

(* One level up: Hysteresis consecutive readings. *)
RampUp(target) ==
  IF rampUp + 1 >= Hysteresis THEN Move(target, 0, 0, TRUE)
                              ELSE Move(level, 0, rampUp + 1, FALSE)

(* Mutant: readings below the level are not counted. *)
RampDownUncounted ==
  IF enteredAge < Cooldown THEN Move(level, hysteresis, 0, FALSE)
  ELSE IF hysteresis + 1 >= Hysteresis
    THEN Move(level - 1, 0, 0, TRUE)
    ELSE Move(level, hysteresis, 0, FALSE)

(* Down: the cooldown, then Hysteresis readings, then one level. *)
RampDown ==
  IF enteredAge < Cooldown THEN Move(level, hysteresis, 0, FALSE)
  ELSE IF hysteresis + 1 >= Hysteresis
    THEN Move(level - 1, 0, 0, TRUE)
    ELSE Move(level, hysteresis + 1, 0, FALSE)

(* Mutant: a reading at the level leaves the counters running. *)
StayCounting == Move(level, hysteresis, rampUp, FALSE)

(* At the target: both counters start again. *)
Stay == Move(level, 0, 0, FALSE)

ComputeTransition(target) ==
  CASE target >= level + 2 -> Move(target, 0, 0, TRUE)
    [] target = level + 1 -> RampUp(target)
    [] target < level -> RampDown
    [] OTHER -> Stay

(* Mutant: the profit check may leave level 1. *)
StepsDownToZero(current, lossNow, scansBase) ==
  current > 0 /\ lossNow /\ fullScans > scansBase + SustainedScans

(* The profit check, on the level that the transition has left. *)
StepsDown(current, lossNow, scansBase) ==
  current > 1 /\ lossNow /\ fullScans > scansBase + SustainedScans

(* The sysfs writes of apply_profile; those in failed have no effect.        *)
Managed == IF UseAdvisor THEN Knobs \ {"scan"} ELSE Knobs

(* Mutant: sleep_millisecs is not written. *)
WrittenWithoutSleep(kn, l, failed) ==
  [k \in Knobs |-> IF k \in Managed \ (failed \cup {"sleep"}) THEN l ELSE kn[k]]

(* `run` is left out: it is 1 in every profile above level 0, and no profile of *)
(* level 0 is ever applied.                                                  *)
Written(kn, l, failed) == [k \in Knobs |-> IF k \in Managed \ failed THEN l ELSE kn[k]]

(* The writes that fail while a profile is applied, if one is. *)
Failures(applied) == IF applied THEN SUBSET FallibleKnobs ELSE {{}}

(* Mutant: the window also ends one unit early. *)
WindowPassedEarly == actionAge + 1 >= Stabilization

(* The check of the governor's stabilization window. *)
WindowPassed == actionAge >= Stabilization

CountUpTo(n, cap) == IF n < cap THEN n + 1 ELSE cap

(* tick: classify, compute_transition, apply_profile if the level is to      *)
(* change and the stabilization window has passed, then the profit check,     *)
(* which applies a profile of its own without looking at the window.          *)
TickWithReadings(r, lossNow) ==
  LET move == ComputeTransition(Target(r))
      applied == move.new # level /\ WindowPassed
      moved == IF applied THEN move.new ELSE level
      base == IF move.enter THEN 0 ELSE scansAtLevel
      reduced == StepsDown(moved, lossNow, base)
      final == IF reduced THEN moved - 1 ELSE moved
  IN  /\ \E failed1 \in Failures(applied) : \E failed2 \in Failures(reduced) :
           /\ knobs' = LET kn == IF applied THEN Written(knobs, moved, failed1) ELSE knobs
                       IN  IF reduced THEN Written(kn, final, failed2) ELSE kn
           /\ stale' = IF reduced THEN failed2 \cap Managed
                       ELSE IF applied THEN failed1 \cap Managed ELSE stale
      /\ level' = final
      /\ hysteresis' = move.hyst /\ rampUp' = move.ramp
      /\ enteredAge' = IF move.enter THEN 0 ELSE enteredAge
      /\ scansAtLevel' = base
      /\ psi' = r /\ loss' = lossNow
      /\ actionAge' = IF applied \/ reduced THEN 0 ELSE actionAge
      /\ above' = IF Target(r) > level THEN CountUpTo(above, Hysteresis) ELSE 0
      /\ below' = IF Target(r) < level THEN CountUpTo(below, Hysteresis) ELSE 0
      /\ scansAtEntry' = IF final # level THEN fullScans ELSE scansAtEntry
      /\ fullScans' = fullScans

Tick == \E f \in PsiFiles, lossNow \in BOOLEAN : TickWithReadings(Parse(f), lossNow)

(* tick when /proc/pressure or the KSM statistics cannot be read. *)
TickFails == UNCHANGED vars

(* Time passes. *)
Elapse ==
  /\ enteredAge < MaxAge \/ actionAge < MaxAge
  /\ enteredAge' = CountUpTo(enteredAge, MaxAge)
  /\ actionAge' = CountUpTo(actionAge, MaxAge)
  /\ UNCHANGED <<level, hysteresis, rampUp, scansAtLevel, psi, loss, fullScans,
                 knobs, stale, above, below, scansAtEntry>>

(* ksmd completes a full scan. *)
ScanCompletes ==
  /\ fullScans < MaxScans
  /\ fullScans' = fullScans + 1
  /\ UNCHANGED <<level, hysteresis, rampUp, enteredAge, scansAtLevel, psi, loss,
                 actionAge, knobs, stale, above, below, scansAtEntry>>

Next == Tick \/ TickFails \/ Elapse \/ ScanCompletes

Spec == Init /\ [][Next]_vars

(* A tick that repeats the last reading: what happens while pressure is steady. *)
SteadyTick == psi # NoReading /\ TickWithReadings(psi, loss)

(* Time keeps passing, and the interval keeps firing: a steady tick that would  *)
(* change something is not put off for ever.                                   *)
FairSpec == Spec /\ WF_vars(SteadyTick) /\ WF_vars(Elapse)

-----------------------------------------------------------------------------
(* Properties. *)

(* Once the governor has left level 0 it never stops KSM again ("Level 0 is   *)
(* never chosen automatically"), not even through repeated profit step-downs.  *)
NeverStops == [][level > 0 => level' > 0]_vars

(* The levels that a reading justifies, each by a score or a threshold of its own *)
(* that it reaches; level 2 is only passed on the way down.                   *)
Justified(r) ==
  {0, 1} \cup {l \in {2, 3} : Score(r) >= 5000 \/ r.some >= SomeThreshold
                              \/ r.full >= 2 * FullThreshold}
  \cup {l \in {4} : Score(r) >= 10000 \/ r.full >= 2 * FullThreshold}
  \cup {l \in {5} : Score(r) >= 20000}

(* A tick never raises the level to one that the reading does not justify, be it *)
(* just on a threshold, and while KSM is profitable never lowers it below one that *)
(* the reading justifies.                                                     *)
MovesTowardTarget ==
  [][/\ level' > level => level' \in Justified(psi')
     /\ level' < level /\ ~loss' => Justified(psi') \subseteq 0 .. level']_vars

(* A one-level change that pressure causes comes only after Hysteresis         *)
(* consecutive readings on the same side of the level, however the window, the  *)
(* cooldown and profit step-downs interfered with the counters in between.      *)
HysteresisHonoured ==
  [][/\ level' = level + 1 /\ Target(psi') = level + 1 => above' >= Hysteresis
     /\ level' < level /\ ~loss' => below' >= Hysteresis]_vars

(* Every knob holds the value of the current level's profile, unless the last   *)
(* write to it failed: a deferred level change never leaves the knobs and the    *)
(* level apart, and a tick that applies two profiles ends on the second.         *)
KnobsFollowLevel == level > 0 => \A k \in Managed \ stale : knobs[k] = level

(* When pressure settles and KSM is profitable, the level settles on the target *)
(* for that pressure, although a deferred change resets its own counters and the *)
(* cooldown.                                                                     *)
AtTarget == psi # NoReading /\ level = Target(psi)
PressureSettles == <>[][psi # NoReading => Target(psi') = Target(psi)]_psi
Converges == PressureSettles /\ <>[](psi # NoReading /\ ~loss) => <>[]AtTarget

(* A change of level that pressure causes waits for the stabilization window    *)
(* (config.rs:95-96, "minimum time between repeated actions within the same      *)
(* tier") after any action, a profit step-down included.  Step-downs themselves   *)
(* do not wait.                                                                  *)
PressureChangesDamped ==
  [][level' # level /\ ~(loss' /\ level' < level) => actionAge >= Stabilization]_vars

(* governor.rs:229: "if KSM is running but profit is negative after many scans"; *)
(* full_scans_at_level is where the scans at a level are counted from.           *)
ReducesAfterManyScans ==
  [][level' < level /\ level' < Target(psi') => fullScans > scansAtEntry + SustainedScans]_vars
=============================================================================
