---------------------------- MODULE DaemonProofs ----------------------------
(***************************************************************************)
(* What Daemon.tla promises for every set of ranges, profiles and            *)
(* administrator's configurations: the knobs keep values the kernel can hold, *)
(* the snapshot file is never torn, and a restore under systemd puts back     *)
(* the snapshot that it finds.                                               *)
(***************************************************************************)
EXTENDS Daemon, TLAPS

(* advisor_mode is written without a clamp, so a write of it has to carry one *)
(* of the two modes already when it is planned.                               *)
SafeWrites == {w \in Writes : w.param = "advisor" => w.value <= ScanTime}
QueuesSafe == govTodo \in Seq(SafeWrites) /\ todo \in Seq(SafeWrites)

(* The temporary file is complete when the rename is due. *)
SnapshotComplete == file # Torn /\ (phase = "renaming" => tmp \in Config)

DaemonInv == TypeOK /\ QueuesSafe /\ SnapshotComplete

-----------------------------------------------------------------------------
(* clamp_value returns a value of the range. *)
LEMMA ClampInRange ==
  ASSUME NEW p \in Params, NEW v \in 0 .. MaxValue
  PROVE  /\ Clamp(p, v) \in 0 .. MaxValue
         /\ MinOf[p] <= Clamp(p, v) /\ Clamp(p, v) <= MaxOf[p]
         /\ MinOf[p] <= v /\ v <= MaxOf[p] => Clamp(p, v) = v
  BY DaemonAssumption DEF Clamp

(* A knob given a value of its own leaves a configuration the kernel can hold. *)
LEMMA ConfigUpdate ==
  ASSUME NEW c \in Config, NEW p \in Params, NEW v \in 0 .. MaxValue,
         p = "run" => v <= 2, p = "advisor" => v <= ScanTime
  PROVE  [c EXCEPT ![p] = v] \in Config
  BY DEF Config, Params

(* The knobs of a configuration. *)
LEMMA ConfigValues ==
  ASSUME NEW c \in Config
  PROVE  /\ \A p \in Params : c[p] \in 0 .. MaxValue
         /\ c["advisor"] \in {ModeNone, ScanTime}
         /\ c["run"] <= 2
  BY DaemonAssumption DEF Config, Params, ModeNone, ScanTime

(* write_validated and write_string keep the knobs within what they can hold. *)
LEMMA WriteKeepsConfig ==
  ASSUME sysfs \in Config, NEW w \in SafeWrites, WriteOk(w)
  PROVE  sysfs' \in Config
<1>1. w.param \in Params /\ w.value \in 0 .. MaxValue
  BY DEF SafeWrites, Writes
<1>2. CASE w.param = "advisor"
  BY <1>1, <1>2, ConfigUpdate DEF WriteOk, SafeWrites
<1>3. CASE w.param # "advisor"
  <2>1. Clamp(w.param, w.value) \in 0 .. MaxValue
        /\ (w.param = "run" => Clamp(w.param, w.value) <= 2)
    BY <1>1, ClampInRange, DaemonAssumption
  <2> QED BY <1>1, <1>3, <2>1, ConfigUpdate DEF WriteOk
<1> QED BY <1>2, <1>3

(* The writes of restore are safe whatever snapshot was read. *)
LEMMA RestorePlanSafe ==
  ASSUME NEW snap \in Config
  PROVE  RestorePlan(snap) \in Seq(SafeWrites)
<1>1. ASSUME NEW p \in Params, NEW v \in 0 .. MaxValue, NEW must \in BOOLEAN,
             p = "advisor" => v <= ScanTime
      PROVE  Write(p, v, must) \in SafeWrites
  BY <1>1 DEF SafeWrites, Writes, Write
<1>2. /\ Write("run", snap["run"], TRUE) \in SafeWrites
      /\ Write("scan", snap["scan"], TRUE) \in SafeWrites
      /\ Write("sleep", snap["sleep"], TRUE) \in SafeWrites
      /\ Write("sharing", snap["sharing"], TRUE) \in SafeWrites
      /\ Write("target", snap["target"], FALSE) \in SafeWrites
      /\ Write("cpu", snap["cpu"], FALSE) \in SafeWrites
  BY <1>1, ConfigValues DEF Params
<1> DEFINE first == IF snap["advisor"] = ScanTime THEN ModeNone ELSE snap["advisor"]
<1>3. /\ snap["advisor"] \in 0 .. MaxValue /\ snap["advisor"] <= ScanTime
      /\ first \in 0 .. MaxValue /\ first <= ScanTime
  BY ConfigValues, DaemonAssumption DEF ScanTime, ModeNone
<1> HIDE DEF first
<1>4. /\ Write("advisor", snap["advisor"], FALSE) \in SafeWrites
      /\ Write("advisor", first, FALSE) \in SafeWrites
  BY <1>1, <1>3 DEF Params
<1>5. ASSUME NEW a1 \in SafeWrites, NEW a2 \in SafeWrites, NEW a3 \in SafeWrites,
             NEW a4 \in SafeWrites, NEW a5 \in SafeWrites, NEW a6 \in SafeWrites,
             NEW a7 \in SafeWrites, NEW a8 \in SafeWrites
      PROVE  <<a1, a2, a3, a4, a5, a6, a7, a8>> \in Seq(SafeWrites)
  OBVIOUS
<1> QED BY <1>2, <1>4, <1>5, Zenon DEF RestorePlan, first

(* A queue of safe writes is a queue of writes. *)
LEMMA SafeAreWrites == Seq(SafeWrites) \subseteq Seq(Writes)
  BY DEF SafeWrites

(* What is left of a queue of safe writes is one, too. *)
LEMMA TailSafe ==
  ASSUME NEW s \in Seq(SafeWrites), s # <<>>
  PROVE  Head(s) \in SafeWrites /\ Tail(s) \in Seq(SafeWrites)
  OBVIOUS

(* Short queues of safe writes. *)
LEMMA QueuesOfSafeWrites ==
  /\ <<>> \in Seq(SafeWrites)
  /\ \A a \in SafeWrites : <<a>> \in Seq(SafeWrites)
  /\ \A a, b \in SafeWrites : <<a, b>> \in Seq(SafeWrites)
  /\ \A s, t \in Seq(SafeWrites) : s \o t \in Seq(SafeWrites)
  OBVIOUS

(* The governor's writes are safe: its advisor write selects "scan-time", its  *)
(* profiles hold values of the knobs.                                         *)
LEMMA GovernorWritesSafe ==
  /\ Write("advisor", ScanTime, FALSE) \in SafeWrites
  /\ Write("run", 1, FALSE) \in SafeWrites
  /\ \A q \in Profiles : ProfileWrites(q) \in Seq(SafeWrites)
<1>1. ASSUME NEW p \in Params, NEW v \in 0 .. MaxValue, NEW must \in BOOLEAN,
             p = "advisor" => v <= ScanTime
      PROVE  Write(p, v, must) \in SafeWrites
  BY <1>1 DEF SafeWrites, Writes, Write
<1>2. Write("advisor", ScanTime, FALSE) \in SafeWrites /\ Write("run", 1, FALSE) \in SafeWrites
  <2>1. ScanTime \in 0 .. MaxValue /\ 1 \in 0 .. MaxValue /\ ScanTime <= ScanTime
    BY DaemonAssumption DEF ScanTime
  <2> QED BY <1>1, <2>1 DEF Params
<1>3. ASSUME NEW q \in Profiles
      PROVE  ProfileWrites(q) \in Seq(SafeWrites)
  <2>1. q["sleep"] \in 0 .. MaxValue /\ q["sharing"] \in 0 .. MaxValue
        /\ q["scan"] \in 0 .. MaxValue
    BY DaemonAssumption
  <2>2. /\ Write("sleep", q["sleep"], FALSE) \in SafeWrites
        /\ Write("sharing", q["sharing"], FALSE) \in SafeWrites
        /\ Write("scan", q["scan"], FALSE) \in SafeWrites
    BY <1>1, <2>1 DEF Params
  <2> QED BY <1>2, <2>2, QueuesOfSafeWrites, Zenon DEF ProfileWrites
<1> QED BY <1>2, <1>3

-----------------------------------------------------------------------------
(* Nothing has been written when the model starts. *)
LEMMA InitDaemon == Init => DaemonInv
<1> SUFFICES ASSUME Init PROVE DaemonInv
  OBVIOUS
<1>1. sysfs \in Config /\ wanted \in Config
  BY DaemonAssumption DEF Init
<1>2. QueuesSafe /\ govTodo \in Seq(Writes) /\ todo \in Seq(Writes)
  BY QueuesOfSafeWrites, SafeAreWrites DEF Init, QueuesSafe
<1>3. SnapshotComplete
  BY DaemonAssumption DEF Init, SnapshotComplete
<1>4. /\ tmp \in {NoFile, Torn} /\ file \in {NoFile, Torn} /\ phase \in Phases
      /\ scanner \in {"none", "idle", "busy"} /\ govAlive \in BOOLEAN /\ faulted \in BOOLEAN
  BY Zenon DEF Init, Phases
<1> QED BY <1>1, <1>2, <1>3, <1>4, Zenon DEF DaemonInv, TypeOK

(* ExecStopPost plans safe writes, whatever the configuration file has become. *)
LEMMA GoneKeepsInv ==
  ASSUME DaemonInv, ProcessGone, UNCHANGED <<sysfs, tmp, file, wanted>>
  PROVE  DaemonInv'
<1>1. file \in Config \/ file \in {NoFile, Torn}
  BY DEF DaemonInv, TypeOK
<1>2. RestoreWrites \in Seq(SafeWrites)
  BY <1>1, RestorePlanSafe, QueuesOfSafeWrites DEF RestoreWrites
<1>3. todo' \in Seq(SafeWrites) /\ faulted' \in BOOLEAN
  <2>1. CASE Systemd
    BY <1>2, <2>1, QueuesOfSafeWrites, Zenon DEF ProcessGone, RestoreKsm
  <2>2. CASE ~Systemd
    BY <2>2, QueuesOfSafeWrites, Zenon DEF ProcessGone, DaemonInv, TypeOK
  <2> QED BY <2>1, <2>2
<1>4. govTodo' \in Seq(SafeWrites) /\ govAlive' \in BOOLEAN
      /\ scanner' \in {"none", "idle", "busy"} /\ phase' \in {"stop_post", "down"}
  BY QueuesOfSafeWrites, Zenon DEF ProcessGone
<1>5. phase' \in Phases /\ phase' # "renaming"
  BY <1>4 DEF Phases
<1>6. TypeOK'
  BY <1>3, <1>4, <1>5, SafeAreWrites DEF DaemonInv, TypeOK
<1> QED BY <1>3, <1>4, <1>5, <1>6 DEF DaemonInv, QueuesSafe, SnapshotComplete

(* Every step keeps the invariant. *)
LEMMA StepDaemon == DaemonInv /\ [Next]_vars => DaemonInv'
<1> SUFFICES ASSUME DaemonInv, [Next]_vars PROVE DaemonInv'
  OBVIOUS
<1>0. TypeOK /\ QueuesSafe /\ SnapshotComplete
  BY DEF DaemonInv
<1>1. CASE AdminSet
  <2>1. sysfs' \in Config /\ wanted' \in Config
    BY <1>1, DaemonAssumption DEF AdminSet
  <2> QED BY <1>0, <1>1, <2>1 DEF DaemonInv, TypeOK, QueuesSafe, SnapshotComplete, AdminSet
<1>2. CASE AdvisorAdjusts
  <2>1. PICK v \in MinOf["scan"] .. MaxOf["scan"] : sysfs' = [sysfs EXCEPT !["scan"] = v]
    BY <1>2 DEF AdvisorAdjusts
  <2>2. v \in 0 .. MaxValue
    BY DaemonAssumption DEF Params
  <2>3. sysfs' \in Config
    BY <1>0, <2>1, <2>2, ConfigUpdate DEF TypeOK, Params
  <2> QED BY <1>0, <1>2, <2>3 DEF DaemonInv, TypeOK, QueuesSafe, SnapshotComplete, AdvisorAdjusts
<1>3. CASE Start
  <2>1. CASE ProcessGone
    BY <1>3, <2>1, GoneKeepsInv DEF Start
  <2>2. CASE phase' = "starting" /\ UNCHANGED <<govAlive, govTodo, scanner, todo, faulted>>
    BY <1>0, <1>3, <2>2
    DEF DaemonInv, TypeOK, QueuesSafe, SnapshotComplete, Start, Phases
  <2> QED BY <1>3, <2>1, <2>2 DEF Start
<1>4. CASE StartFails \/ Exit \/ StopKill \/ Crash
  BY <1>4, GoneKeepsInv DEF StartFails, Exit, StopKill, Crash
<1>5. CASE BeginTmp
  BY <1>0, <1>5 DEF DaemonInv, TypeOK, QueuesSafe, SnapshotComplete, BeginTmp, Phases
<1>6. CASE FinishTmp
  BY <1>0, <1>6 DEF DaemonInv, TypeOK, QueuesSafe, SnapshotComplete, FinishTmp, Phases
<1>7. CASE Rename
  <2>1. govTodo' \in Seq(SafeWrites) /\ govAlive' \in BOOLEAN
    BY <1>0, <1>7, GovernorWritesSafe, QueuesOfSafeWrites, Zenon
    DEF Rename, QueuesSafe
  <2>2. file' \in Config /\ tmp' = NoFile /\ phase' = "running" /\ scanner' \in {"idle", "none"}
    BY <1>0, <1>7 DEF Rename, SnapshotComplete
  <2>3. file' # Torn
    BY <2>2, DaemonAssumption
  <2> QED BY <1>0, <1>7, <2>1, <2>2, <2>3, SafeAreWrites
    DEF DaemonInv, TypeOK, QueuesSafe, SnapshotComplete, Rename, Phases
<1>8. CASE GovernorTick
  <2>1. govTodo' \in Seq(SafeWrites)
    BY <1>8, GovernorWritesSafe DEF GovernorTick
  <2> QED BY <1>0, <1>8, <2>1, SafeAreWrites
    DEF DaemonInv, TypeOK, QueuesSafe, SnapshotComplete, GovernorTick
<1>9. CASE GovernorWrite
  <2>1. Head(govTodo) \in SafeWrites /\ govTodo' \in Seq(SafeWrites)
    BY <1>0, <1>9, TailSafe DEF GovernorWrite, QueuesSafe
  <2>2. sysfs' \in Config
    BY <1>0, <1>9, <2>1, WriteKeepsConfig DEF GovernorWrite, TypeOK
  <2> QED BY <1>0, <1>9, <2>1, <2>2, SafeAreWrites
    DEF DaemonInv, TypeOK, QueuesSafe, SnapshotComplete, GovernorWrite
<1>10. CASE RestoreWrite
  <2>1. Head(todo) \in SafeWrites /\ Tail(todo) \in Seq(SafeWrites)
    BY <1>0, <1>10, TailSafe DEF RestoreWrite, QueuesSafe
  <2>2. sysfs' \in Config
    BY <1>0, <1>10, <2>1, WriteKeepsConfig DEF RestoreWrite, TypeOK
  <2>3. todo' \in Seq(SafeWrites)
    BY <1>10, <2>1, QueuesOfSafeWrites, Zenon DEF RestoreWrite
  <2>4. faulted' \in BOOLEAN
    BY <1>0, <1>10, Zenon DEF RestoreWrite, TypeOK
  <2> QED BY <1>0, <1>10, <2>2, <2>3, <2>4, SafeAreWrites
    DEF DaemonInv, TypeOK, QueuesSafe, SnapshotComplete, RestoreWrite
<1>11. CASE GovernorExits \/ ScanBegins \/ ScanEnds \/ ScannerExits
  BY <1>0, <1>11
  DEF DaemonInv, TypeOK, QueuesSafe, SnapshotComplete, GovernorExits, ScanBegins, ScanEnds, ScannerExits
<1>12. CASE Signal \/ RestoreEnds \/ StopPostEnds
  BY <1>0, <1>12
  DEF DaemonInv, TypeOK, QueuesSafe, SnapshotComplete, Signal, RestoreEnds, StopPostEnds, Phases
<1>13. CASE TasksDone \/ Timeout
  <2>1. file \in Config \/ file \in {NoFile, Torn}
    BY <1>0 DEF TypeOK
  <2>2. todo' \in Seq(SafeWrites)
    BY <1>13, <2>1, RestorePlanSafe, QueuesOfSafeWrites
    DEF TasksDone, Timeout, BeginRestore, RestoreWrites
  <2> QED BY <1>0, <1>13, <2>2, SafeAreWrites
    DEF DaemonInv, TypeOK, QueuesSafe, SnapshotComplete, TasksDone, Timeout, BeginRestore, Phases
<1>14. CASE UNCHANGED vars
  BY <1>0, <1>14 DEF DaemonInv, TypeOK, QueuesSafe, SnapshotComplete, vars
<1> QED
  BY <1>1, <1>2, <1>3, <1>4, <1>5, <1>6, <1>7, <1>8, <1>9, <1>10, <1>11, <1>12, <1>13, <1>14
  DEF Next

(* The invariant holds throughout. *)
LEMMA DaemonInvariant == Spec => []DaemonInv
<1> QED BY InitDaemon, StepDaemon, PTL DEF Spec

(* Whatever fails and whenever: the knobs hold values that the kernel accepts, *)
(* and so does every snapshot, although restore writes advisor_mode unclamped.  *)
THEOREM DaemonTypeCorrect == Spec => []TypeOK
<1>1. DaemonInv => TypeOK
  BY DEF DaemonInv
<1> QED BY <1>1, DaemonInvariant, PTL

(* KsmController::snapshot writes a temporary file and renames it: no crash at *)
(* any point of it leaves a part of a snapshot behind.                         *)
THEOREM SnapshotAlwaysWhole == Spec => []SnapshotNeverTorn
<1>1. DaemonInv => SnapshotNeverTorn
  BY DEF DaemonInv, SnapshotComplete, SnapshotNeverTorn
<1> QED BY <1>1, DaemonInvariant, PTL

-----------------------------------------------------------------------------
(* The restore that ExecStopPost runs.  9 - Len(todo) is the place in the     *)
(* plan of the next write; Progress says what the writes before it have       *)
(* achieved.  The advisor is out of the way from the first write to the       *)
(* sixth, which is what lets the write of pages_to_scan in between succeed;    *)
(* once the sixth has selected it again, pages_to_scan is the kernel's.        *)
Progress(i) ==
  /\ i \in 2 .. 6 => sysfs["advisor"] = ModeNone
  /\ i >= 7 => sysfs["advisor"] = file["advisor"]
  /\ i >= 3 => sysfs["run"] = Clamp("run", file["run"])
  /\ i >= 4 /\ (i <= 6 \/ file["advisor"] # ScanTime) => sysfs["scan"] = Clamp("scan", file["scan"])
  /\ i >= 5 => sysfs["sleep"] = Clamp("sleep", file["sleep"])
  /\ i >= 6 => sysfs["sharing"] = Clamp("sharing", file["sharing"])
  /\ i >= 8 => sysfs["target"] = Clamp("target", file["target"])
  /\ i >= 9 => sysfs["cpu"] = Clamp("cpu", file["cpu"])

RestoreUnderWay ==
  /\ Len(todo) <= 8
  /\ \A j \in 1 .. Len(todo) : todo[j] = RestorePlan(file)[8 - Len(todo) + j]
  /\ Progress(9 - Len(todo))

(* The next write of the plan. *)
LEMMA NextWrite ==
  ASSUME DaemonInv, RestoreUnderWay, todo # <<>>
  PROVE  /\ Len(todo) \in 1 .. 8
         /\ Head(todo) = RestorePlan(file)[9 - Len(todo)]
         /\ Len(Tail(todo)) = Len(todo) - 1
         /\ \A j \in 1 .. Len(Tail(todo)) :
              Tail(todo)[j] = RestorePlan(file)[8 - Len(Tail(todo)) + j]
<1>1. todo \in Seq(SafeWrites)
  BY DEF DaemonInv, QueuesSafe
<1>2. Len(todo) \in 1 .. 8
  <2>1. Len(todo) \in Nat /\ Len(todo) # 0
    BY <1>1
  <2>2. Len(todo) <= 8
    BY DEF RestoreUnderWay
  <2>3. \A n : n \in Nat /\ n # 0 /\ n <= 8 => n \in 1 .. 8
    OBVIOUS
  <2> QED BY <2>1, <2>2, <2>3, Zenon
<1>3. Head(todo) = todo[1] /\ Len(Tail(todo)) = Len(todo) - 1
  BY <1>1
<1>4. \A j \in 1 .. Len(todo) - 1 : Tail(todo)[j] = todo[j + 1]
  BY <1>1
<1>5. Head(todo) = RestorePlan(file)[9 - Len(todo)]
  BY <1>2, <1>3 DEF RestoreUnderWay
<1>6. ASSUME NEW j \in 1 .. Len(Tail(todo))
      PROVE  Tail(todo)[j] = RestorePlan(file)[8 - Len(Tail(todo)) + j]
  <2>1. j + 1 \in 1 .. Len(todo) /\ j \in 1 .. Len(todo) - 1
    BY <1>2, <1>3
  <2>2. todo[j + 1] = RestorePlan(file)[8 - Len(todo) + (j + 1)]
    BY <2>1 DEF RestoreUnderWay
  <2>3. 8 - Len(todo) + (j + 1) = 8 - Len(Tail(todo)) + j
    BY <1>2, <1>3
  <2> QED BY <1>4, <2>1, <2>2, <2>3
<1> QED BY <1>2, <1>3, <1>5, <1>6

(* The kernel never refuses a write of a restore that runs by itself: when     *)
(* pages_to_scan is due, the advisor has been switched off.                    *)
LEMMA NeverRefused ==
  ASSUME DaemonInv, file \in Config, RestoreUnderWay, todo # <<>>
  PROVE  ~Refused(Head(todo))
<1>1. PICK i \in 1 .. 8 : i = 9 - Len(todo)
  <2>1. Len(todo) \in 1 .. 8
    BY NextWrite
  <2>2. \A n \in 1 .. 8 : \E i \in 1 .. 8 : i = 9 - n
    OBVIOUS
  <2> QED BY <2>1, <2>2, Zenon
<1>2. Progress(i) /\ Head(todo) = RestorePlan(file)[i]
  BY <1>1, NextWrite DEF RestoreUnderWay
<1>3. CASE i = 3
  BY <1>2, <1>3 DEF Progress, Refused, ModeNone, ScanTime
<1>4. CASE i # 3
  <2>1. Head(todo).param # "scan"
    BY <1>2, <1>4 DEF RestorePlan, Write
  <2> QED BY <2>1 DEF Refused
<1> QED BY <1>3, <1>4

(* The writes of restore, place by place. *)
LEMMA PlanEntries ==
  ASSUME NEW snap \in Config
  PROVE  /\ RestorePlan(snap)[1] = Write("advisor", ModeNone, FALSE)
         /\ RestorePlan(snap)[2] = Write("run", snap["run"], TRUE)
         /\ RestorePlan(snap)[3] = Write("scan", snap["scan"], TRUE)
         /\ RestorePlan(snap)[4] = Write("sleep", snap["sleep"], TRUE)
         /\ RestorePlan(snap)[5] = Write("sharing", snap["sharing"], TRUE)
         /\ RestorePlan(snap)[6] = Write("advisor", snap["advisor"], FALSE)
         /\ RestorePlan(snap)[7] = Write("target", snap["target"], FALSE)
         /\ RestorePlan(snap)[8] = Write("cpu", snap["cpu"], FALSE)
<1>1. (IF snap["advisor"] = ScanTime THEN ModeNone ELSE snap["advisor"]) = ModeNone
  BY ConfigValues
<1> QED BY <1>1 DEF RestorePlan

(* What a write of a given knob does to the knobs. *)
LEMMA WriteEffect ==
  ASSUME NEW p, NEW v, NEW must, WriteOk(Write(p, v, must))
  PROVE  /\ p = "advisor" => sysfs' = [sysfs EXCEPT ![p] = v]
         /\ p # "advisor" => sysfs' = [sysfs EXCEPT ![p] = Clamp(p, v)]
  BY DEF WriteOk, Write

(* A write of the restore that succeeds brings it one place further. *)
LEMMA RestoreAdvances ==
  ASSUME DaemonInv, file \in Config, RestoreUnderWay, todo # <<>>,
         WriteOk(Head(todo)), todo' = Tail(todo), file' = file
  PROVE  RestoreUnderWay'
<1>1. PICK i \in 1 .. 8 : i = 9 - Len(todo)
  <2>1. Len(todo) \in 1 .. 8
    BY NextWrite
  <2>2. \A n \in 1 .. 8 : \E i \in 1 .. 8 : i = 9 - n
    OBVIOUS
  <2> QED BY <2>1, <2>2, Zenon
<1>2. Progress(i) /\ Head(todo) = RestorePlan(file)[i]
  BY <1>1, NextWrite DEF RestoreUnderWay
<1>3. sysfs \in [Params -> 0 .. MaxValue] /\ file["advisor"] \in {ModeNone, ScanTime}
  BY ConfigValues DEF DaemonInv, TypeOK, Config
<1> DEFINE After(p, v) == sysfs' = [sysfs EXCEPT ![p] = v]
<1>5. /\ i = 1 => Head(todo) = Write("advisor", ModeNone, FALSE)
      /\ i = 2 => Head(todo) = Write("run", file["run"], TRUE)
      /\ i = 3 => Head(todo) = Write("scan", file["scan"], TRUE)
      /\ i = 4 => Head(todo) = Write("sleep", file["sleep"], TRUE)
      /\ i = 5 => Head(todo) = Write("sharing", file["sharing"], TRUE)
      /\ i = 6 => Head(todo) = Write("advisor", file["advisor"], FALSE)
      /\ i = 7 => Head(todo) = Write("target", file["target"], FALSE)
      /\ i = 8 => Head(todo) = Write("cpu", file["cpu"], FALSE)
  BY <1>2, PlanEntries, Zenon
<1>6. ASSUME NEW p, NEW v, NEW must, Head(todo) = Write(p, v, must)
      PROVE  (p = "advisor" => After(p, v)) /\ (p # "advisor" => After(p, Clamp(p, v)))
  <2>1. WriteOk(Write(p, v, must))
    BY <1>6, Zenon
  <2> QED BY <2>1, WriteEffect, Zenon
<1> HIDE DEF After
<1>7. /\ i = 1 => After("advisor", ModeNone)
      /\ i = 2 => After("run", Clamp("run", file["run"]))
      /\ i = 3 => After("scan", Clamp("scan", file["scan"]))
      /\ i = 4 => After("sleep", Clamp("sleep", file["sleep"]))
      /\ i = 5 => After("sharing", Clamp("sharing", file["sharing"]))
      /\ i = 6 => After("advisor", file["advisor"])
      /\ i = 7 => After("target", Clamp("target", file["target"]))
      /\ i = 8 => After("cpu", Clamp("cpu", file["cpu"]))
  BY <1>5, <1>6
<1>8. Progress(i + 1)'
  BY <1>2, <1>3, <1>7 DEF Progress, Params, Clamp, After
<1>9. Len(Tail(todo)) <= 8 /\ 9 - Len(Tail(todo)) = i + 1
  <2>1. Len(Tail(todo)) = Len(todo) - 1 /\ Len(todo) \in 1 .. 8
    BY NextWrite
  <2> QED BY <1>1, <2>1
<1> QED BY <1>8, <1>9, NextWrite DEF RestoreUnderWay

(* The advisor's own changes of pages_to_scan do not disturb the restore: it   *)
(* is active before the first write or, if the snapshot says so, after the      *)
(* sixth.                                                                       *)
LEMMA AdvisorHarmless ==
  ASSUME DaemonInv, RestoreUnderWay, AdvisorAdjusts
  PROVE  RestoreUnderWay'
<1>1. todo' = todo /\ file' = file /\ sysfs["advisor"] = ScanTime
      /\ \E v : sysfs' = [sysfs EXCEPT !["scan"] = v]
  BY DEF AdvisorAdjusts
<1>2. PICK i : i = 9 - Len(todo)
  OBVIOUS
<1>3. Len(todo) \in Nat /\ Len(todo) <= 8
  BY DEF DaemonInv, QueuesSafe, RestoreUnderWay
<1>4. i \in 1 .. 9
  <2>1. \A n \in Nat : n <= 8 => 9 - n \in 1 .. 9
    OBVIOUS
  <2> QED BY <1>2, <1>3, <2>1, Zenon
<1>5. Progress(i)
  BY <1>2 DEF RestoreUnderWay
<1>6. sysfs \in [Params -> 0 .. MaxValue]
  BY DEF DaemonInv, TypeOK, Config
<1>7. Progress(i)'
  BY <1>1, <1>4, <1>5, <1>6 DEF Progress, Params, Clamp, ModeNone, ScanTime
<1> QED BY <1>1, <1>2, <1>7 DEF RestoreUnderWay

(* A restore that begins. *)
LEMMA RestoreBegins ==
  ASSUME NEW snap \in Config, file' = snap, todo' = RestorePlan(snap)
  PROVE  RestoreUnderWay'
<1>1. Len(RestorePlan(snap)) = 8
  BY DEF RestorePlan
<1>2. Progress(1)'
  BY DEF Progress
<1>3. \A j \in 1 .. 8 : 8 - 8 + j = j
  OBVIOUS
<1>4. 9 - 8 = 1 /\ 8 <= 8
  OBVIOUS
<1> QED BY <1>1, <1>2, <1>3, <1>4, Zenon DEF RestoreUnderWay

(* A restore that has ended: every knob holds the snapshot's value, clamped,   *)
(* pages_to_scan where the snapshot's advisor leaves it alone.                 *)
LEMMA RestoreDone ==
  ASSUME RestoreUnderWay, todo = <<>>
  PROVE  /\ sysfs["advisor"] = file["advisor"]
         /\ \A p \in Params \ {"advisor"} :
              (p = "scan" => file["advisor"] # ScanTime) => sysfs[p] = Clamp(p, file[p])
<1>1. Len(todo) = 0
  OBVIOUS
<1>2. Progress(9 - 0)
  BY <1>1, Zenon DEF RestoreUnderWay
<1>3. Progress(9)
  BY <1>2
<1> QED BY <1>3 DEF Progress, Params

-----------------------------------------------------------------------------
(* The governor writes only from "running" to "draining", a restore only in   *)
(* "restoring" and "stop_post": restore-ksm has the knobs to itself.           *)
AlonePhases == {"down", "starting", "writing", "renaming", "stop_post"}
OneWriter ==
  /\ phase \in AlonePhases => govTodo = <<>> /\ ~govAlive
  /\ phase \notin {"stop_post", "restoring"} => todo = <<>>

(* What a completed restore of the administrator's snapshot leaves behind. *)
KnobsAsWanted ==
  /\ sysfs["advisor"] = wanted["advisor"]
  /\ \A p \in Owned : sysfs[p] \in {wanted[p], Clamp(p, wanted[p])}

RestoreInv ==
  /\ DaemonInv
  /\ OneWriter
  /\ phase = "stop_post" /\ file \in Config /\ ~faulted => RestoreUnderWay
  /\ phase = "down" /\ SnapshotIsWanted /\ ~faulted => KnobsAsWanted

(* The stop command of the unit starts a restore of what is on disk, or marks  *)
(* itself as having looked elsewhere.                                          *)
LEMMA GoneBeginsRestore ==
  ASSUME Systemd, DaemonInv, ProcessGone, UNCHANGED <<sysfs, tmp, file, wanted>>
  PROVE  /\ phase' = "stop_post"
         /\ govTodo' = <<>> /\ ~govAlive'
         /\ file' \in Config /\ ~faulted' => RestoreUnderWay'
<1>1. phase' = "stop_post" /\ govTodo' = <<>> /\ ~govAlive' /\ RestoreKsm
  BY Zenon DEF ProcessGone
<1>2. ASSUME file' \in Config, ~faulted'
      PROVE  RestoreUnderWay'
  <2>1. todo' = RestoreWrites
    BY <1>1, <1>2, Zenon DEF RestoreKsm, LoadConfigOrDefault, Load, Validate
  <2>2. file \in Config /\ file \notin {NoFile, Torn}
    BY <1>2, DaemonAssumption
  <2> QED BY <2>1, <2>2, RestoreBegins DEF RestoreWrites
<1> QED BY <1>1, <1>2

(* With the unit's ExecStopPost, every step keeps the invariant. *)
LEMMA RestoreStep ==
  ASSUME Systemd, RestoreInv, [Next]_vars
  PROVE  RestoreInv'
<1>0. DaemonInv'
  BY StepDaemon DEF RestoreInv
<1>1. CASE AdminSet
  <2>1. PICK c \in AdminConfigs : sysfs' = c /\ wanted' = c
    BY <1>1 DEF AdminSet
  <2>2. KnobsAsWanted'
    BY <2>1 DEF KnobsAsWanted
  <2> QED BY <1>0, <1>1, <2>2 DEF RestoreInv, OneWriter, AlonePhases, AdminSet
<1>2. CASE AdvisorAdjusts
  <2>1. OneWriter' /\ phase' = phase /\ file' = file /\ faulted' = faulted /\ wanted' = wanted
    BY <1>2 DEF RestoreInv, OneWriter, AlonePhases, AdvisorAdjusts
  <2>2. (phase = "stop_post" /\ file \in Config /\ ~faulted => RestoreUnderWay)'
    BY <1>2, <2>1, AdvisorHarmless DEF RestoreInv
  <2>3. (phase = "down" /\ SnapshotIsWanted /\ ~faulted => KnobsAsWanted)'
    <3> SUFFICES ASSUME phase = "down", SnapshotIsWanted, ~faulted PROVE KnobsAsWanted'
      BY <2>1 DEF SnapshotIsWanted, Owned
    <3>1. KnobsAsWanted /\ sysfs \in [Params -> 0 .. MaxValue]
      BY DEF RestoreInv, DaemonInv, TypeOK, Config
    <3>2. sysfs["advisor"] = ScanTime /\ \E v : sysfs' = [sysfs EXCEPT !["scan"] = v]
      BY <1>2 DEF AdvisorAdjusts
    <3>3. Owned = Params \ {"scan"}
      BY <3>1, <3>2 DEF KnobsAsWanted, Owned
    <3> QED BY <2>1, <3>1, <3>2, <3>3 DEF KnobsAsWanted, Owned, Params, Clamp
  <2> QED BY <1>0, <2>1, <2>2, <2>3 DEF RestoreInv
<1>3. CASE ProcessGone /\ UNCHANGED <<sysfs, tmp, file, wanted>>
  BY <1>0, <1>3, GoneBeginsRestore DEF RestoreInv, OneWriter, AlonePhases
<1>4. CASE Start
  BY <1>0, <1>3, <1>4 DEF Start, RestoreInv, OneWriter, AlonePhases
<1>5. CASE StartFails \/ Exit \/ StopKill \/ Crash
  BY <1>3, <1>5 DEF StartFails, Exit, StopKill, Crash
<1>6. CASE BeginTmp \/ FinishTmp
  BY <1>0, <1>6 DEF BeginTmp, FinishTmp, RestoreInv, OneWriter, AlonePhases
<1>7. CASE Rename
  BY <1>0, <1>7 DEF Rename, RestoreInv, OneWriter, AlonePhases
<1>8. CASE GovernorTick \/ GovernorWrite
  <2>1. phase \notin AlonePhases /\ UNCHANGED <<phase, todo>>
    BY <1>8 DEF GovernorTick, GovernorWrite, RestoreInv, OneWriter
  <2> QED BY <1>0, <2>1 DEF RestoreInv, OneWriter, AlonePhases
<1>9. CASE GovernorExits \/ ScanBegins \/ ScanEnds \/ ScannerExits \/ UNCHANGED vars
  <2>1. UNCHANGED <<sysfs, file, phase, govTodo, todo, wanted, faulted>> /\ (govAlive' => govAlive)
    BY <1>9 DEF GovernorExits, ScanBegins, ScanEnds, ScannerExits, vars
  <2>2. OneWriter'
    BY <2>1 DEF RestoreInv, OneWriter, AlonePhases
  <2>3. UNCHANGED <<RestoreUnderWay, SnapshotIsWanted, KnobsAsWanted>>
    BY <2>1 DEF RestoreUnderWay, Progress, SnapshotIsWanted, KnobsAsWanted, Owned, Clamp
  <2> QED BY <1>0, <2>1, <2>2, <2>3 DEF RestoreInv
<1>10. CASE Signal \/ RestoreEnds
  BY <1>0, <1>10 DEF Signal, RestoreEnds, RestoreInv, OneWriter, AlonePhases
<1>11. CASE TasksDone \/ Timeout
  BY <1>0, <1>11 DEF TasksDone, Timeout, BeginRestore, RestoreInv, OneWriter, AlonePhases
<1>12. CASE RestoreWrite
  <2>1. phase \in {"stop_post", "restoring"} /\ phase' = phase /\ file' = file /\ todo # <<>>
        /\ UNCHANGED <<govTodo, govAlive>>
    BY <1>12 DEF RestoreWrite, RestoreInv, OneWriter
  <2>2. OneWriter'
    BY <2>1 DEF RestoreInv, OneWriter, AlonePhases
  <2>3. ASSUME phase = "stop_post", file \in Config, ~faulted' PROVE RestoreUnderWay'
    <3>1. ~faulted
      BY <1>12, <2>3, Zenon DEF RestoreWrite
    <3>2. RestoreUnderWay
      BY <2>3, <3>1 DEF RestoreInv
    <3>3. ~Refused(Head(todo))
      BY <2>1, <2>3, <3>2, NeverRefused DEF RestoreInv
    <3>4. WriteOk(Head(todo)) /\ todo' = Tail(todo)
      BY <1>12, <2>3, <3>3, Zenon DEF RestoreWrite
    <3> QED BY <2>1, <2>3, <3>2, <3>4, RestoreAdvances DEF RestoreInv
  <2> QED BY <1>0, <2>1, <2>2, <2>3 DEF RestoreInv
<1>13. CASE StopPostEnds
  <2>1. phase' = "down" /\ todo = <<>> /\ UNCHANGED <<sysfs, file, wanted, faulted, todo, govAlive, govTodo>>
        /\ phase = "stop_post"
    BY <1>13 DEF StopPostEnds
  <2>2. OneWriter'
    BY <2>1 DEF RestoreInv, OneWriter, AlonePhases
  <2>3. ASSUME SnapshotIsWanted, ~faulted PROVE KnobsAsWanted
    <3>1. file \in Config
      BY <2>3 DEF RestoreInv, DaemonInv, TypeOK, SnapshotIsWanted
    <3>2. RestoreUnderWay
      BY <2>1, <2>3, <3>1 DEF RestoreInv
    <3> QED BY <2>1, <2>3, <3>2, RestoreDone DEF KnobsAsWanted, SnapshotIsWanted, Owned, Params
  <2>4. UNCHANGED <<SnapshotIsWanted, KnobsAsWanted>>
    BY <2>1 DEF SnapshotIsWanted, KnobsAsWanted, Owned, Clamp
  <2> QED BY <1>0, <2>1, <2>2, <2>3, <2>4 DEF RestoreInv
<1> QED
  BY <1>1, <1>2, <1>4, <1>5, <1>6, <1>7, <1>8, <1>9, <1>10, <1>11, <1>12, <1>13 DEF Next

(* Before the first start there is nothing to restore. *)
LEMMA InitRestore == Init => RestoreInv
<1> SUFFICES ASSUME Init PROVE RestoreInv
  OBVIOUS
<1>1. KnobsAsWanted
  BY DEF Init, KnobsAsWanted
<1> QED BY <1>1, InitDaemon DEF RestoreInv, Init, OneWriter

(* Under the service unit, and with everything allowed to fail: a stopped      *)
(* service whose snapshot is the administrator's configuration, and whose last  *)
(* restore met no failing write, leaves that configuration, clamped.  The       *)
(* invariant says how far the restore has come, and that neither the governor   *)
(* nor the kernel's advisor can undo a write of it.                            *)
THEOREM RestorePutsBackSnapshot ==
  ASSUME Systemd
  PROVE  Spec => []RestoresSnapshot
<1>1. RestoreInv => RestoresSnapshot
  BY DEF RestoreInv, RestoresSnapshot, KnobsAsWanted
<1>2. RestoreInv /\ [Next]_vars => RestoreInv'
  BY RestoreStep
<1> QED BY <1>1, <1>2, InitRestore, PTL DEF Spec

-----------------------------------------------------------------------------
(* No failing start, no failing write, the configuration file left alone, and *)
(* an administrator's configuration within the safe ranges, which alone can    *)
(* survive clamp_value.                                                       *)
CleanOperation ==
  /\ Systemd /\ ~FailsBeforeSnapshot /\ ~WritesMayFail
  /\ ConfigFiles = {"same"}
  /\ \A c \in AdminConfigs : \A p \in Params \ {"advisor"} : MinOf[p] <= c[p] /\ c[p] <= MaxOf[p]

(* Until the snapshot is in place the knobs are the administrator's; from then *)
(* on the snapshot is, and the stop command of the unit restores it unharmed.   *)
BeforeSnapshot == {"down", "starting", "writing", "renaming"}
CleanInv ==
  /\ RestoreInv
  /\ \A p \in Params \ {"advisor"} : MinOf[p] <= wanted[p] /\ wanted[p] <= MaxOf[p]
  /\ phase \in BeforeSnapshot => \A p \in Owned : sysfs[p] = wanted[p]
  /\ phase = "renaming" => \A p \in Owned : tmp[p] = wanted[p]
  /\ phase \notin BeforeSnapshot => SnapshotIsWanted
  /\ phase = "stop_post" => ~faulted

(* In clean operation every step keeps the invariant. *)
LEMMA CleanStep ==
  ASSUME CleanOperation, CleanInv, [Next]_vars
  PROVE  CleanInv'
<1>0. RestoreInv'
  BY RestoreStep DEF CleanOperation, CleanInv
<1>a. RestoreInv /\ DaemonInv /\ Systemd
  BY DEF CleanInv, RestoreInv, CleanOperation
<1>1. CASE AdminSet
  BY <1>0, <1>1 DEF AdminSet, CleanInv, CleanOperation, BeforeSnapshot
<1>2. CASE AdvisorAdjusts
  <2>1. UNCHANGED <<tmp, file, phase, wanted, faulted>>
    BY <1>2 DEF AdvisorAdjusts
  <2>2. ASSUME phase \in BeforeSnapshot, NEW p \in Owned PROVE sysfs'[p] = wanted[p]
    <3>1. sysfs["advisor"] = wanted["advisor"] /\ sysfs[p] = wanted[p]
      BY <2>2 DEF CleanInv, Owned, Params
    <3>2. sysfs["advisor"] = ScanTime /\ \E v : sysfs' = [sysfs EXCEPT !["scan"] = v]
      BY <1>2 DEF AdvisorAdjusts
    <3>3. p \in Params /\ p # "scan" /\ sysfs \in [Params -> 0 .. MaxValue]
      BY <1>a, <2>2, <3>1, <3>2 DEF Owned, DaemonInv, TypeOK, Config
    <3> QED BY <3>1, <3>2, <3>3
  <2>3. UNCHANGED <<Owned, SnapshotIsWanted>>
    BY <2>1 DEF Owned, SnapshotIsWanted
  <2> QED BY <1>0, <2>1, <2>2, <2>3 DEF CleanInv
<1>3. CASE ProcessGone /\ UNCHANGED <<sysfs, tmp, file, wanted>> /\ phase \notin BeforeSnapshot
  <2>1. phase' = "stop_post" /\ ~faulted'
    BY <1>a, <1>3 DEF ProcessGone, RestoreKsm, CleanOperation
  <2>2. UNCHANGED SnapshotIsWanted
    BY <1>3 DEF SnapshotIsWanted, Owned
  <2> QED BY <1>0, <1>3, <2>1, <2>2 DEF CleanInv, BeforeSnapshot
<1>4. CASE Start
  <2>1. phase = "down" /\ phase' = "starting" /\ UNCHANGED <<sysfs, tmp, file, wanted>>
    BY <1>4 DEF Start, CleanOperation, LoadConfigOrDefault, Load, Validate
  <2> QED BY <1>0, <2>1 DEF CleanInv, BeforeSnapshot, Owned
<1>5. CASE StartFails
  BY <1>5 DEF StartFails, CleanOperation
<1>6. CASE Exit \/ StopKill \/ Crash
  BY <1>3, <1>6 DEF Exit, StopKill, Crash, CleanOperation, BeforeSnapshot
<1>7. CASE BeginTmp \/ FinishTmp
  BY <1>0, <1>7 DEF BeginTmp, FinishTmp, CleanInv, BeforeSnapshot, Owned
<1>8. CASE Rename
  <2>1. phase = "renaming" /\ phase' = "running" /\ file' = tmp /\ UNCHANGED wanted
    BY <1>8 DEF Rename
  <2>2. tmp \in Config
    BY <1>a, <2>1 DEF DaemonInv, SnapshotComplete
  <2>3. SnapshotIsWanted'
    BY <2>1, <2>2, DaemonAssumption DEF CleanInv, SnapshotIsWanted, Owned
  <2> QED BY <1>0, <2>1, <2>3 DEF CleanInv, BeforeSnapshot
<1>9. CASE GovernorTick \/ GovernorWrite
  <2>1. phase \notin AlonePhases /\ UNCHANGED <<phase, file, wanted>>
    BY <1>a, <1>9 DEF GovernorTick, GovernorWrite, RestoreInv, OneWriter
  <2>2. UNCHANGED SnapshotIsWanted
    BY <2>1 DEF SnapshotIsWanted, Owned
  <2> QED BY <1>0, <2>1, <2>2 DEF CleanInv, BeforeSnapshot, AlonePhases
<1>10. CASE GovernorExits \/ ScanBegins \/ ScanEnds \/ ScannerExits \/ UNCHANGED vars
  <2>1. UNCHANGED <<sysfs, tmp, file, phase, wanted, faulted>>
    BY <1>10 DEF GovernorExits, ScanBegins, ScanEnds, ScannerExits, vars
  <2>2. UNCHANGED <<Owned, SnapshotIsWanted>>
    BY <2>1 DEF SnapshotIsWanted, Owned
  <2> QED BY <1>0, <2>1, <2>2 DEF CleanInv
<1>11. CASE Signal \/ RestoreEnds \/ TasksDone \/ Timeout
  <2>1. phase \notin BeforeSnapshot /\ phase' \notin BeforeSnapshot \cup {"stop_post"}
        /\ UNCHANGED <<file, wanted>>
    BY <1>11 DEF Signal, RestoreEnds, TasksDone, Timeout, BeginRestore, BeforeSnapshot
  <2>2. UNCHANGED SnapshotIsWanted
    BY <2>1 DEF SnapshotIsWanted, Owned
  <2> QED BY <1>0, <2>1, <2>2 DEF CleanInv, BeforeSnapshot
<1>12. CASE RestoreWrite
  <2>1. phase \in {"stop_post", "restoring"} /\ UNCHANGED <<phase, file, wanted>> /\ todo # <<>>
    BY <1>a, <1>12 DEF RestoreWrite, RestoreInv, OneWriter
  <2>2. UNCHANGED SnapshotIsWanted
    BY <2>1 DEF SnapshotIsWanted, Owned
  <2>3. ASSUME phase = "stop_post" PROVE ~faulted'
    <3>1. file \in Config /\ ~faulted
      BY <1>a, <2>3 DEF CleanInv, BeforeSnapshot, SnapshotIsWanted, DaemonInv, TypeOK
    <3>2. ~Refused(Head(todo))
      BY <1>a, <2>1, <2>3, <3>1, NeverRefused DEF RestoreInv
    <3> QED BY <1>12, <3>1, <3>2, Zenon DEF RestoreWrite, CleanOperation
  <2> QED BY <1>0, <2>1, <2>2, <2>3 DEF CleanInv, BeforeSnapshot
<1>13. CASE StopPostEnds
  <2>1. phase = "stop_post" /\ todo = <<>> /\ phase' = "down" /\ UNCHANGED <<sysfs, file, wanted, faulted>>
    BY <1>13 DEF StopPostEnds
  <2>2. SnapshotIsWanted /\ file \in Config /\ ~faulted
    BY <1>a, <2>1 DEF CleanInv, BeforeSnapshot, SnapshotIsWanted, DaemonInv, TypeOK
  <2>3. RestoreUnderWay
    BY <1>a, <2>1, <2>2 DEF RestoreInv
  <2>4. ASSUME NEW p \in Owned PROVE sysfs[p] = wanted[p]
    <3>1. p \in Params /\ file[p] = wanted[p] /\ file["advisor"] = wanted["advisor"]
          /\ (p = "scan" => wanted["advisor"] # ScanTime)
      BY <2>2 DEF SnapshotIsWanted, Owned, Params
    <3>2. CASE p = "advisor"
      BY <2>1, <2>3, <3>1, <3>2, RestoreDone
    <3>3. CASE p # "advisor"
      <4>1. sysfs[p] = Clamp(p, wanted[p])
        BY <2>1, <2>3, <3>1, <3>3, RestoreDone
      <4>2. wanted[p] \in 0 .. MaxValue
        BY <1>a, <3>1, ConfigValues DEF DaemonInv, TypeOK
      <4>3. Clamp(p, wanted[p]) = wanted[p]
        BY <3>1, <3>3, <4>2, ClampInRange DEF CleanInv
      <4> QED BY <4>1, <4>3
    <3> QED BY <3>2, <3>3
  <2>5. UNCHANGED Owned
    BY <2>1 DEF Owned
  <2> QED BY <1>0, <2>1, <2>4, <2>5 DEF CleanInv, BeforeSnapshot
<1> QED
  BY <1>1, <1>2, <1>4, <1>5, <1>6, <1>7, <1>8, <1>9, <1>10, <1>11, <1>12, <1>13 DEF Next

(* README.md: "restores on shutdown - zero config drift".  In clean operation, *)
(* whatever the interleaving of governor, shutdown timeout, crash, restore and   *)
(* restart, a service that is down has left every knob as the administrator set  *)
(* it.                                                                          *)
THEOREM NoDriftInCleanOperation ==
  ASSUME CleanOperation
  PROVE  Spec => []DriftFree
<1>1. Init => CleanInv
  <2> SUFFICES ASSUME Init PROVE CleanInv
    OBVIOUS
  <2>1. RestoreInv
    BY InitRestore
  <2>2. phase = "down" /\ wanted = sysfs /\ wanted \in AdminConfigs
    BY DEF Init
  <2> QED BY <2>1, <2>2 DEF CleanInv, BeforeSnapshot, CleanOperation
<1>2. CleanInv /\ [Next]_vars => CleanInv'
  BY CleanStep
<1>3. CleanInv => DriftFree
  BY DEF CleanInv, DriftFree, BeforeSnapshot
<1> QED BY <1>1, <1>2, <1>3, PTL DEF Spec
=============================================================================
