------------------------------- MODULE Daemon -------------------------------
(***************************************************************************)
(* The life of the daemon around KSM's sysfs knobs: the snapshot taken at    *)
(* start (KsmController::snapshot), the governor task that writes the knobs,  *)
(* the shutdown sequence with its timeout (run_daemon_with_shutdown), the     *)
(* restore (KsmController::restore), and what systemd does with the service   *)
(* unit: ExecStopPost runs restore-ksm after every exit, clean or not, and    *)
(* Restart=on-failure may start the daemon again.                             *)
(*                                                                          *)
(* Every sysfs write is a step of its own.  The governor here may apply any   *)
(* profile at any time; Governor.tla says which one it chooses.               *)
(***************************************************************************)
EXTENDS Naturals, Sequences

CONSTANTS
  MinOf, MaxOf,        \* PARAM_RANGES
  MaxValue,            \* bound on the value of a knob
  Profiles,            \* PROFILES: the knob values of each level
  AdminConfigs,        \* configurations the administrator may set
  UseAdvisor,          \* use_advisor
  Systemd,             \* the daemon runs under its service unit
  FailsBeforeSnapshot, \* a start may fail or crash before its snapshot is in place
  CrashesMayHappen,    \* the daemon may be killed or panic
  WritesMayFail,       \* sysfs writes may fail for reasons of the kernel's own
  ConfigFiles,         \* what may have become of the configuration file when it is read
  ScannerMayRun,       \* scanner.enabled
  NoFile, Torn         \* snapshot file states: absent, incompletely written

(* run, pages_to_scan, sleep_millisecs, max_page_sharing, advisor_mode,      *)
(* advisor_target_scan_time and advisor_max_cpu: what restore writes back.   *)
Params == {"run", "scan", "sleep", "sharing", "advisor", "target", "cpu"}

(* advisor_mode: "none" and "scan-time". *)
ModeNone == 0
ScanTime == 1

(* What the knobs can hold: run is 0 .. 2, the advisor one of its two modes. *)
Config == {c \in [Params -> 0 .. MaxValue] : c["run"] <= 2 /\ c["advisor"] <= ScanTime}

Phases == {"down", "starting", "writing", "renaming", "running", "stopping",
           "restoring", "draining", "stop_post"}

(* One call of a set_* method; must: its error is propagated with "?". *)
Write(p, v, must) == [param |-> p, value |-> v, must |-> must]
Writes == [param : Params, value : 0 .. MaxValue, must : BOOLEAN]

ASSUME DaemonAssumption ==
  /\ MaxValue \in Nat /\ MaxValue >= 2
  /\ MaxOf["run"] = 2
  /\ MinOf \in [Params -> 0 .. MaxValue] /\ MaxOf \in [Params -> 0 .. MaxValue]
  /\ \A p \in Params : MinOf[p] <= MaxOf[p]
  /\ AdminConfigs \subseteq Config
  /\ Profiles \subseteq [{"scan", "sleep", "sharing"} -> 0 .. MaxValue]
  /\ {UseAdvisor, Systemd, FailsBeforeSnapshot, CrashesMayHappen, WritesMayFail,
      ScannerMayRun} \subseteq BOOLEAN
  /\ "same" \in ConfigFiles /\ ConfigFiles \subseteq {"same", "moved", "absent", "garbled", "out_of_range"}
  /\ NoFile \notin Config /\ Torn \notin Config /\ NoFile # Torn

VARIABLES
  sysfs,    \* the knobs under /sys/kernel/mm/ksm
  tmp,      \* ksm-snapshot.json.tmp
  file,     \* ksm-snapshot.json
  phase,    \* what the service is doing
  govAlive, \* the governor task exists
  govTodo,  \* the writes left of what the governor is doing
  scanner,  \* the scanner task: none, idle, or busy with a cycle
  todo,     \* the writes left of the restore under way
  wanted,   \* history: the administrator's configuration
  faulted   \* history: a write of the latest restore failed by itself

vars == <<sysfs, tmp, file, phase, govAlive, govTodo, scanner, todo, wanted, faulted>>

TypeOK ==
  /\ sysfs \in Config /\ wanted \in Config
  /\ tmp \in Config \cup {NoFile, Torn}
  /\ file \in Config \cup {NoFile, Torn}
  /\ phase \in Phases /\ scanner \in {"none", "idle", "busy"}
  /\ govAlive \in BOOLEAN /\ faulted \in BOOLEAN
  /\ govTodo \in Seq(Writes) /\ todo \in Seq(Writes)

Init ==
  /\ sysfs \in AdminConfigs /\ wanted = sysfs
  /\ tmp = NoFile /\ file = NoFile
  /\ phase = "down"
  /\ govAlive = FALSE /\ govTodo = <<>> /\ todo = <<>> /\ scanner = "none"
  /\ faulted = FALSE

(* clamp_value. *)
Clamp(p, v) == IF v < MinOf[p] THEN MinOf[p] ELSE IF v > MaxOf[p] THEN MaxOf[p] ELSE v

(* The kernel refuses pages_to_scan while the scan-time advisor is active. *)
Refused(w) == w.param = "scan" /\ sysfs["advisor"] = ScanTime

(* write_validated and write_string succeed: advisor_mode is not clamped.   *)
WriteOk(w) ==
  /\ ~Refused(w)
  /\ sysfs' = [sysfs EXCEPT ![w.param] =
                 IF w.param = "advisor" THEN w.value ELSE Clamp(w.param, w.value)]

(* Mutant: the advisor is restored from another field of the snapshot. *)
RestorePlanSwapped(snap) ==
  << Write("advisor", ModeNone, FALSE),
     Write("run", snap["run"], TRUE),
     Write("scan", snap["scan"], TRUE),
     Write("sleep", snap["sleep"], TRUE),
     Write("sharing", snap["sharing"], TRUE),
     Write("advisor", snap["sharing"], FALSE),
     Write("target", snap["target"], FALSE),
     Write("cpu", snap["cpu"], FALSE) >>

(* Mutant: pages_to_scan is written before the advisor is out of the way. *)
RestorePlanAdvisorLast(snap) ==
  << Write("run", snap["run"], TRUE),
     Write("scan", snap["scan"], TRUE),
     Write("sleep", snap["sleep"], TRUE),
     Write("sharing", snap["sharing"], TRUE),
     Write("advisor", snap["advisor"], FALSE),
     Write("target", snap["target"], FALSE),
     Write("cpu", snap["cpu"], FALSE) >>

(* The writes of KsmController::restore.  The advisor comes first, because  *)
(* pages_to_scan cannot be written under it, and again at the end.           *)
RestorePlan(snap) ==
  << Write("advisor", IF snap["advisor"] = ScanTime THEN ModeNone ELSE snap["advisor"], FALSE),
     Write("run", snap["run"], TRUE),
     Write("scan", snap["scan"], TRUE),
     Write("sleep", snap["sleep"], TRUE),
     Write("sharing", snap["sharing"], TRUE),
     Write("advisor", snap["advisor"], FALSE),
     Write("target", snap["target"], FALSE),
     Write("cpu", snap["cpu"], FALSE) >>

(* No snapshot: nothing to restore.  An unreadable one: an error, likewise.  *)
RestoreWrites == IF file \in {NoFile, Torn} THEN <<>> ELSE RestorePlan(file)

(* Mutant: nothing is restored after an exit that the daemon did not choose. *)
ProcessGoneUnrestored ==
  /\ phase' = IF Systemd THEN "stop_post" ELSE "down"
  /\ todo' = <<>>
  /\ faulted' = IF Systemd THEN FALSE ELSE faulted
  /\ govAlive' = FALSE /\ govTodo' = <<>> /\ scanner' = "none"

(* The configuration file is as before; valid, but naming another state directory *)
(* than the running daemon's; absent, so that the default directory applies, again *)
(* another; not TOML; or with a value out of range.                          *)
Validate(f) == f # "out_of_range"
Load(f) == f # "garbled" /\ Validate(f)
LoadConfigOrDefault(f) == f = "absent" \/ Load(f)

(* restore-ksm loads the configuration again.  If it cannot, or looks in another *)
(* directory, it restores nothing.                                           *)
RestoreKsm ==
  \E f \in ConfigFiles :
    /\ todo' = IF LoadConfigOrDefault(f) /\ f = "same" THEN RestoreWrites ELSE <<>>
    /\ faulted' = (f # "same")

(* The service's process is gone: ExecStopPost runs under systemd.           *)
ProcessGone ==
  /\ phase' = IF Systemd THEN "stop_post" ELSE "down"
  /\ IF Systemd THEN RestoreKsm ELSE todo' = <<>> /\ UNCHANGED faulted
  /\ govAlive' = FALSE /\ govTodo' = <<>> /\ scanner' = "none"

AdminSet ==
  /\ phase = "down"
  /\ \E c \in AdminConfigs : sysfs' = c /\ wanted' = c
  /\ UNCHANGED <<tmp, file, phase, govAlive, govTodo, scanner, todo, faulted>>

(* The scan-time advisor moves pages_to_scan by itself. *)
AdvisorAdjusts ==
  /\ sysfs["advisor"] = ScanTime /\ sysfs["run"] = 1
  /\ \E v \in MinOf["scan"] .. MaxOf["scan"] : sysfs' = [sysfs EXCEPT !["scan"] = v]
  /\ UNCHANGED <<tmp, file, phase, govAlive, govTodo, scanner, todo, wanted, faulted>>

(* run: a configuration that does not load ends it at once.                  *)
Start ==
  /\ phase = "down"
  /\ \E f \in ConfigFiles :
       \/ /\ LoadConfigOrDefault(f)
          /\ phase' = "starting" /\ UNCHANGED <<govAlive, govTodo, scanner, todo, faulted>>
       \/ ~LoadConfigOrDefault(f) /\ ProcessGone
  /\ UNCHANGED <<sysfs, tmp, file, wanted>>

(* The KSM directory or the snapshot cannot be read or written:              *)
(* run_daemon_with_shutdown returns before anything is spawned.              *)
StartFails ==
  /\ FailsBeforeSnapshot
  /\ phase \in {"starting", "writing", "renaming"}
  /\ ProcessGone
  /\ UNCHANGED <<sysfs, tmp, file, wanted>>

(* Mutant: the snapshot is written in place. *)
BeginTmpInPlace ==
  /\ phase = "starting"
  /\ tmp' = Torn /\ file' = Torn
  /\ phase' = "writing"
  /\ UNCHANGED <<sysfs, govAlive, govTodo, scanner, todo, wanted, faulted>>

(* snapshot: read_config, write the temporary file, rename it.  Only the      *)
(* kernel's advisor can change a knob in between, so the knobs are read with   *)
(* the write that ends.                                                       *)
BeginTmp ==
  /\ phase = "starting"
  /\ tmp' = Torn
  /\ phase' = "writing"
  /\ UNCHANGED <<sysfs, file, govAlive, govTodo, scanner, todo, wanted, faulted>>
FinishTmp ==
  /\ phase = "writing"
  /\ tmp' = sysfs
  /\ phase' = "renaming"
  /\ UNCHANGED <<sysfs, file, govAlive, govTodo, scanner, todo, wanted, faulted>>

(* The rename, then the tasks are spawned; Governor::run begins by selecting *)
(* the advisor and starting KSM.  A scanner.interval_secs of 0 is valid, and the *)
(* scanner task then panics at once.                                         *)
Rename ==
  /\ phase = "renaming"
  /\ file' = tmp /\ tmp' = NoFile
  /\ phase' = "running"
  /\ \/ /\ govAlive' = TRUE
        /\ govTodo' = (IF UseAdvisor THEN <<Write("advisor", ScanTime, FALSE)>> ELSE <<>>)
                      \o <<Write("run", 1, FALSE)>>
     \/ govAlive' = FALSE /\ UNCHANGED govTodo    \* governor.enabled is FALSE
  /\ scanner' \in (IF ScannerMayRun THEN {"idle", "none"} ELSE {"none"})
  /\ UNCHANGED <<sysfs, todo, wanted, faulted>>

(* apply_profile: the order of its writes. *)
ProfileWrites(q) ==
  <<Write("sleep", q["sleep"], FALSE), Write("sharing", q["sharing"], FALSE)>>
  \o (IF UseAdvisor THEN <<>> ELSE <<Write("scan", q["scan"], FALSE)>>)
  \o <<Write("run", 1, FALSE)>>

(* A tick that applies a profile.  After the shutdown signal select! may     *)
(* still pick a tick that is due.                                            *)
GovernorTick ==
  /\ govAlive /\ govTodo = <<>> /\ phase # "draining"
  /\ \E q \in Profiles : govTodo' = ProfileWrites(q)
  /\ UNCHANGED <<sysfs, tmp, file, phase, govAlive, scanner, todo, wanted, faulted>>

(* One write of the governor; its failure is ignored. *)
GovernorWrite ==
  /\ govTodo # <<>>
  /\ govTodo' = Tail(govTodo)
  /\ \/ WriteOk(Head(govTodo))
     \/ (Refused(Head(govTodo)) \/ WritesMayFail) /\ sysfs' = sysfs
  /\ UNCHANGED <<tmp, file, phase, govAlive, scanner, todo, wanted, faulted>>

GovernorExits ==
  /\ govAlive /\ govTodo = <<>> /\ phase \notin {"running", "draining"}
  /\ govAlive' = FALSE
  /\ UNCHANGED <<sysfs, tmp, file, phase, govTodo, scanner, todo, wanted, faulted>>

(* A cycle of the scanner, which blocks its thread, for ever if a target that it *)
(* waits for does not stop (Scanner.tla).                                    *)
ScanBegins ==
  /\ scanner = "idle" /\ phase # "draining"
  /\ scanner' = "busy"
  /\ UNCHANGED <<sysfs, tmp, file, phase, govAlive, govTodo, todo, wanted, faulted>>
ScanEnds ==
  /\ scanner = "busy"
  /\ scanner' = "idle"
  /\ UNCHANGED <<sysfs, tmp, file, phase, govAlive, govTodo, todo, wanted, faulted>>
ScannerExits ==
  /\ scanner = "idle" /\ phase \notin {"running", "draining"}
  /\ scanner' = "none"
  /\ UNCHANGED <<sysfs, tmp, file, phase, govAlive, govTodo, todo, wanted, faulted>>

(* SIGTERM or SIGINT. *)
Signal ==
  /\ phase = "running"
  /\ phase' = "stopping"
  /\ UNCHANGED <<sysfs, tmp, file, govAlive, govTodo, scanner, todo, wanted, faulted>>

(* The tasks have finished, or five seconds have passed and they are left to *)
(* themselves: in both cases the restore begins.                             *)
BeginRestore ==
  /\ phase' = "restoring"
  /\ todo' = RestoreWrites
  /\ faulted' = FALSE
  /\ UNCHANGED <<sysfs, tmp, file, govAlive, govTodo, scanner, wanted>>
TasksDone == phase = "stopping" /\ ~govAlive /\ scanner = "none" /\ BeginRestore

(* Mutant: the timeout is only looked at while the scanner waits for its interval. *)
TimeoutWhenIdle ==
  phase = "stopping" /\ (govAlive \/ scanner = "idle") /\ scanner # "busy" /\ BeginRestore

(* The five-second timeout around the awaited handles. *)
Timeout == phase = "stopping" /\ (govAlive \/ scanner # "none") /\ BeginRestore

(* One write of restore, in the daemon or in restore-ksm. *)
RestoreWrite ==
  /\ todo # <<>>
  /\ \/ WriteOk(Head(todo)) /\ todo' = Tail(todo) /\ faulted' = faulted
     \/ /\ Refused(Head(todo)) \/ WritesMayFail
        /\ todo' = IF Head(todo).must THEN <<>> ELSE Tail(todo)
        /\ faulted' = (faulted \/ ~Refused(Head(todo)))
        /\ sysfs' = sysfs
  /\ UNCHANGED <<tmp, file, phase, govAlive, govTodo, scanner, wanted>>

(* main returns; dropping the runtime waits for the tasks to reach an await: *)
(* the governor finishes the writes it has begun, the scanner its cycle.     *)
RestoreEnds ==
  /\ phase = "restoring" /\ todo = <<>>
  /\ phase' = "draining"
  /\ UNCHANGED <<sysfs, tmp, file, govAlive, govTodo, scanner, todo, wanted, faulted>>
Exit ==
  /\ phase = "draining" /\ govTodo = <<>> /\ scanner # "busy"
  /\ ProcessGone
  /\ UNCHANGED <<sysfs, tmp, file, wanted>>

(* systemd kills a service that does not stop in time.  Its timeout is far longer *)
(* than the daemon's own, so only the wait for the runtime can last as long.  *)
StopKill ==
  /\ Systemd /\ phase = "draining"
  /\ ProcessGone
  /\ UNCHANGED <<sysfs, tmp, file, wanted>>

StopPostEnds ==
  /\ phase = "stop_post" /\ todo = <<>>
  /\ phase' = "down"
  /\ UNCHANGED <<sysfs, tmp, file, govAlive, govTodo, scanner, todo, wanted, faulted>>

(* The daemon is killed (SIGKILL, the unit's MemoryMax), panics, or leaves    *)
(* through a "?" after the tasks are spawned.                                *)
Crash ==
  /\ CrashesMayHappen
  /\ phase \notin {"down", "stop_post"}
  /\ FailsBeforeSnapshot \/ phase \notin {"starting", "writing", "renaming"}
  /\ ProcessGone
  /\ UNCHANGED <<sysfs, tmp, file, wanted>>

Next ==
  \/ AdminSet \/ AdvisorAdjusts
  \/ Start \/ StartFails \/ BeginTmp \/ FinishTmp \/ Rename
  \/ GovernorTick \/ GovernorWrite \/ GovernorExits
  \/ ScanBegins \/ ScanEnds \/ ScannerExits
  \/ Signal \/ TasksDone \/ Timeout \/ StopKill
  \/ RestoreWrite \/ RestoreEnds \/ Exit \/ StopPostEnds \/ Crash

Spec == Init /\ [][Next]_vars

(* Sysfs writes return, the shutdown timer fires, processes make progress, and *)
(* systemd's stop timeout fires.  Nothing is assumed of the tasks: the governor may *)
(* tick and a cycle of the scanner may last for ever.                        *)
FairSpec ==
  /\ Spec
  /\ WF_vars(Timeout) /\ WF_vars(TasksDone) /\ WF_vars(GovernorWrite)
  /\ WF_vars(RestoreWrite) /\ WF_vars(RestoreEnds) /\ WF_vars(Exit)
  /\ WF_vars(StopKill) /\ WF_vars(StopPostEnds)

-----------------------------------------------------------------------------
(* Properties. *)

(* pages_to_scan belongs to the kernel where the administrator had selected   *)
(* the scan-time advisor.                                                     *)
Owned == IF wanted["advisor"] = ScanTime THEN Params \ {"scan"} ELSE Params

(* A stopped service has left the administrator's configuration in place       *)
(* (README.md:43, "restores on shutdown - zero config drift").                  *)
DriftFree == phase = "down" => \A p \in Owned : sysfs[p] = wanted[p]

SnapshotIsWanted == file \notin {NoFile, Torn} /\ \A p \in Owned : file[p] = wanted[p]

(* Whatever crashes, timeouts and failed starts came before: when the snapshot  *)
(* on disk is the administrator's configuration and no write of the last restore *)
(* failed by itself, a stopped service leaves that configuration, clamped to the *)
(* safe ranges.  No order of governor and restore writes gets in the way, and    *)
(* pages_to_scan is never refused for an advisor that is still active.           *)
RestoresSnapshot ==
  phase = "down" /\ SnapshotIsWanted /\ ~faulted =>
    \A p \in Owned : sysfs[p] \in {wanted[p], Clamp(p, wanted[p])}

(* A crash at any point of snapshot leaves the previous snapshot or the new one  *)
(* in place, never part of one.                                                 *)
SnapshotNeverTorn == file # Torn

(* A service that has been told to stop does stop, even when a task hangs: the    *)
(* timer ends the wait for the tasks, and the wait for the runtime ends at the    *)
(* latest when systemd kills the process.                                         *)
StopTerminates == phase = "stopping" ~> phase = "down"
=============================================================================
