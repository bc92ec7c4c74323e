------------------------------ MODULE Scanner ------------------------------
(***************************************************************************)
(* Tier 2 of the daemon, the process scanner (crates/daemon/src/scanner.rs   *)
(* with the readings of crates/common/src/procfs.rs), on top of the injector. *)
(* A cycle lists the processes, sieves them by status and ksm_stat, reads the *)
(* maps of the largest, injects madvise region by region, may ask for huge   *)
(* pages, and starts the stabilization window if it merged anything.  Each   *)
(* reading of /proc is a step of its own: processes change in between.       *)
(***************************************************************************)
EXTENDS PtraceInjector

CONSTANTS
  InitImages,    \* what the pids may run when the daemon starts
  RssKb,         \* RssAnon of each image in kB, or NoField where there is none
  Blocklisted,   \* images whose name matches the blocklist
  KsmStat,       \* /proc/PID/ksm_stat of each image, or NoField without the file
  NoField,       \* an absent or unreadable field or file
  MinRssMb,      \* min_anon_rss_mb
  MaxCandidates, \* max_candidates_per_cycle
  Stabilization  \* stabilization_secs, in units of time

ASSUME ScannerAssumption ==
  /\ \A i \in Images : RssKb[i] = NoField \/ RssKb[i] \in Nat
  /\ \A i \in Images : KsmStat[i] = NoField
       \/ KsmStat[i] \in [merge_any : STRING \cup {NoField}, profit : Int \cup {NoField}]
  /\ NoField \notin [mergeAny : BOOLEAN, profit : Int]
  /\ InitImages \subseteq [Pids -> Images \cup {NoProc}]
  /\ Blocklisted \subseteq Images /\ Pids \subseteq Nat /\ IsFiniteSet(Pids)
  /\ MinRssMb \in Nat /\ MaxCandidates \in Nat /\ Stabilization \in Nat

VARIABLES
  dryRun,    \* Scanner.dry_run
  phase,     \* where scan_cycle is
  queue,     \* what the current pass has still to look at
  kept,      \* what it has let through
  targets,   \* the targets of this cycle, with their maps
  batch,     \* the ranges left for the current target
  merged,    \* regions counted as merged in this cycle
  collapsed, \* <<pid, range>> of the MADV_COLLAPSE requests of this cycle
  age,       \* age of last_scanner_action, saturating at Stabilization
  seen,      \* history: what each process was when this cycle read that file of it
  sinceMerge \* history: age of the latest region counted as merged

cycleVars == <<queue, kept, targets, batch, merged, collapsed, seen>>
scannerVars == <<cycleVars, dryRun, phase, age, sinceMerge>>
vars == <<injectorVars, scannerVars>>

Readings == {"status", "ksm_stat", "maps"}
Unread == [reading \in Readings |-> [p \in Pids |-> NoProc]]
Phases == {"idle", "status", "ksm_stat", "maps", "apply", "inject", "collapse"}

TypeOK ==
  /\ InjectorTypeOK
  /\ dryRun \in BOOLEAN /\ phase \in Phases
  /\ Len(queue) <= Cardinality(Pids) /\ Len(kept) <= Cardinality(Pids)
  /\ Len(targets) <= MaxCandidates
  /\ merged \in Nat /\ seen \in [Readings -> [Pids -> Images \cup {NoProc}]]
  /\ age \in 0 .. Stabilization /\ sinceMerge \in 0 .. Stabilization

(* GovernorState::default: the window starts with the daemon.                *)
Init ==
  /\ InjectorInit /\ image \in InitImages
  /\ dryRun \in BOOLEAN /\ phase = "idle"
  /\ queue = <<>> /\ kept = <<>> /\ targets = <<>> /\ batch = <<>>
  /\ merged = 0 /\ collapsed = {} /\ seen = Unread
  /\ age = 0 /\ sinceMerge = Stabilization

-----------------------------------------------------------------------------
(* What the filters read.                                                    *)

(* parse_kb_value and parse_ksm_bool.                                        *)
ParseKb(v) == IF v = NoField THEN 0 ELSE v
ParseKsmBool(word) == word \in {"1", "yes", "true"}

(* Mutant: the names are not compared with the blocklist.                    *)
L1CandidateAnyName(p) == p > 2 /\ ParseKb(RssKb[image[p]]) \div 1024 >= MinRssMb

(* What read_process_status and is_blocklisted make of the status file, and  *)
(* l1_candidate_from_status.                                                 *)
AnonRssMb(p) == ParseKb(RssKb[image[p]]) \div 1024
IsBlocklisted(p) == image[p] \in Blocklisted
L1Candidate(p) == p > 2 /\ ~IsBlocklisted(p) /\ AnonRssMb(p) >= MinRssMb

(* read_ksm_stat: an error without the file; a profit that does not parse is 0. *)
ReadKsmStatOf(p) ==
  IF ~Alive(p) \/ KsmStat[image[p]] = NoField THEN NoField
  ELSE LET stat == KsmStat[image[p]] IN
       [mergeAny |-> ParseKsmBool(stat.merge_any),
        profit |-> IF stat.profit = NoField THEN 0 ELSE stat.profit]

(* passes_l2_already_merged_filter and passes_l25_profit_filter: a missing file *)
(* is nothing against the process.                                           *)
KsmStatPasses(stat) == stat = NoField \/ (~stat.mergeAny /\ stat.profit >= 0)

(* Mutant: the smallest first.                                               *)
LargestFirstReversed(cands) ==
  LET n == Len(cands)
      before(i, j) == cands[i].rss < cands[j].rss \/ (cands[i].rss = cands[j].rss /\ i < j)
      orders == {o \in [1 .. n -> 1 .. n] : \A i, j \in 1 .. n : i < j => before(o[i], o[j])}
  IN  {[i \in 1 .. (IF n < MaxCandidates THEN n ELSE MaxCandidates) |-> cands[o[i]]] : o \in orders}

(* Mutant: the list is not truncated.                                        *)
LargestFirstAll(cands) ==
  LET n == Len(cands)
      before(i, j) == cands[i].rss > cands[j].rss \/ (cands[i].rss = cands[j].rss /\ i < j)
      orders == {o \in [1 .. n -> 1 .. n] : \A i, j \in 1 .. n : i < j => before(o[i], o[j])}
  IN  {[i \in 1 .. n |-> cands[o[i]]] : o \in orders}

(* sort_by_key(Reverse(anon_rss_mb)), which is stable, then truncate: the set of *)
(* the one sequence that this leaves.                                        *)
LargestFirst(cands) ==
  LET n == Len(cands)
      before(i, j) == cands[i].rss > cands[j].rss \/ (cands[i].rss = cands[j].rss /\ i < j)
      orders == {o \in [1 .. n -> 1 .. n] : \A i, j \in 1 .. n : i < j => before(o[i], o[j])}
  IN  {[i \in 1 .. (IF n < MaxCandidates THEN n ELSE MaxCandidates) |-> cands[o[i]]] : o \in orders}

(* What read_process_maps makes of /proc/PID/maps: the lines that parse.     *)
MapsNow(p) ==
  LET lines == MapsOf[image[p]] IN Keep(lines, {i \in DOMAIN lines : lines[i] # Unparsable})

(* The history of a reading of p's file; one that is gone has none.          *)
Reads(p, reading) ==
  seen' = [seen EXCEPT ![reading][p] = IF Alive(p) THEN image[p] ELSE NoProc]

-----------------------------------------------------------------------------
(* The cycle.                                                                *)

NoInjection ==
  UNCHANGED <<image, marked, halted, events, mode, regs, held, stage, victim, range, result,
              pend, report, rax, others>>
InjectorIdle == NoInjection /\ UNCHANGED vdso

(* scan_cycle returns, and with it what it found.                            *)
CycleReturns ==
  /\ phase' = "idle"
  /\ queue' = <<>> /\ kept' = <<>> /\ targets' = <<>> /\ batch' = <<>>
  /\ merged' = 0 /\ collapsed' = {} /\ seen' = Unread /\ vdso' = {}
  /\ NoInjection /\ UNCHANGED <<dryRun, sinceMerge>>

(* list_pids gives the pids as /proc does, in ascending order (the set of that one *)
(* sequence); zombies are listed too.                                        *)
ListPids ==
  LET listed == {p \in Pids : image[p] # NoProc}
  IN  {s \in [1 .. Cardinality(listed) -> listed] : \A i, j \in DOMAIN s : i < j => s[i] < s[j]}

(* A tick of the interval, outside the stabilization window, with /proc listed. *)
(* A tick inside the window, or one that cannot list /proc, changes nothing. *)
Tick ==
  /\ phase = "idle" /\ age >= Stabilization
  /\ phase' = "status"
  /\ queue' \in ListPids
  /\ UNCHANGED <<kept, targets, batch, merged, collapsed, seen, dryRun, age, sinceMerge>>
  /\ InjectorIdle

(* Level 1, one process.  A process that is gone has no status; a zombie has *)
(* no RssAnon.                                                               *)
ReadStatus ==
  /\ phase = "status" /\ queue # <<>>
  /\ LET p == Head(queue) IN
       /\ kept' = IF Alive(p) /\ L1Candidate(p)
                    THEN Append(kept, [pid |-> p, rss |-> AnonRssMb(p)]) ELSE kept
       /\ Reads(p, "status")
  /\ queue' = Tail(queue)
  /\ UNCHANGED <<phase, targets, batch, merged, collapsed, dryRun, age, sinceMerge>>
  /\ InjectorIdle

(* A pass is over: go on with what it kept, or return early.                 *)
NextPass(now, next, work) ==
  /\ phase = now /\ queue = <<>>
  /\ \/ /\ kept = <<>>
        /\ CycleReturns /\ UNCHANGED age
     \/ /\ kept # <<>>
        /\ phase' = next /\ queue' = work /\ kept' = <<>>
        /\ targets' = IF now = "maps" THEN kept ELSE targets
        /\ UNCHANGED <<batch, merged, collapsed, seen, dryRun, age, sinceMerge>>
        /\ InjectorIdle

StatusRead == NextPass("status", "ksm_stat", kept)

(* Levels 2 and 2.5, one candidate.                                          *)
ReadKsmStat ==
  /\ phase = "ksm_stat" /\ queue # <<>>
  /\ LET c == Head(queue)
     IN  /\ kept' = IF KsmStatPasses(ReadKsmStatOf(c.pid)) THEN Append(kept, c) ELSE kept
         /\ Reads(c.pid, "ksm_stat")
  /\ queue' = Tail(queue)
  /\ UNCHANGED <<phase, targets, batch, merged, collapsed, dryRun, age, sinceMerge>>
  /\ InjectorIdle

KsmStatRead ==
  phase = "ksm_stat" /\ \E largest \in LargestFirst(kept) : NextPass("ksm_stat", "maps", largest)

(* Level 3, one candidate: its place is not given to another if it drops out. *)
ReadMaps ==
  /\ phase = "maps" /\ queue # <<>>
  /\ LET p == Head(queue).pid
         maps == IF Alive(p) THEN MapsNow(p) ELSE <<>>
     IN  /\ kept' = IF \E r \in ToSet(maps) : Eligible(r)
                      THEN Append(kept, [pid |-> p, maps |-> maps]) ELSE kept
         /\ Reads(p, "maps")
  /\ queue' = Tail(queue)
  /\ UNCHANGED <<phase, targets, batch, merged, collapsed, dryRun, age, sinceMerge>>
  /\ InjectorIdle

MapsRead == NextPass("maps", "apply", kept)

-----------------------------------------------------------------------------
(* apply_mergeable, target after target.                                     *)

Target == Head(queue)

NextTarget(n) ==
  /\ merged' = merged + n /\ queue' = Tail(queue)
  /\ sinceMerge' = IF n > 0 THEN 0 ELSE sinceMerge
  /\ UNCHANGED <<batch, phase>>

(* find_syscall_in_vdso: reads maps and mem once more, or fails.             *)
FindSyscallInVdso(p) == Alive(p) /\ vdso' = vdso \cup {p}

(* apply_mergeable up to the first injection: a dry run counts its batch; without *)
(* a syscall instruction every region fails.                                 *)
ApplyMergeable ==
  /\ phase = "apply" /\ queue # <<>>
  /\ \E b \in {Batch(Target.maps)} :
       \/ (dryRun \/ b = <<>>) /\ NextTarget(Len(b)) /\ UNCHANGED vdso
       \/ ~dryRun /\ b # <<>> /\ NextTarget(0) /\ UNCHANGED vdso
       \/ /\ ~dryRun /\ b # <<>> /\ FindSyscallInVdso(Target.pid)
          /\ batch' = b /\ phase' = "inject"
          /\ UNCHANGED <<queue, merged, sinceMerge>>
  /\ NoInjection /\ UNCHANGED <<kept, targets, collapsed, seen, dryRun, age>>

InjectNext ==
  /\ phase = "inject" /\ batch # <<>>
  /\ Inject(Target.pid, Head(batch))
  /\ batch' = Tail(batch)
  /\ UNCHANGED <<phase, queue, kept, targets, merged, collapsed, seen, dryRun, age, sinceMerge>>

(* Mutant: a region that failed is tried again.                              *)
InjectReturnedRetries ==
  /\ phase = "inject" /\ stage = "done"
  /\ stage' = "ready" /\ victim' = NoPid /\ range' = NoRange /\ result' = "none" /\ others' = 0
  /\ rax' = "call"
  /\ merged' = IF result = "ok" THEN merged + 1 ELSE merged
  /\ sinceMerge' = IF result = "ok" THEN 0 ELSE sinceMerge
  /\ batch' = IF result = "ok" THEN batch ELSE <<range>> \o batch
  /\ phase' = IF batch' = <<>> THEN "apply" ELSE "inject"
  /\ queue' = IF batch' = <<>> THEN Tail(queue) ELSE queue
  /\ UNCHANGED <<processVars, mode, regs, held, pend, report,
                 kept, targets, collapsed, seen, dryRun, age>>

(* The result of one region is counted; then the next region or target.      *)
InjectReturned ==
  /\ phase = "inject" /\ stage = "done"
  /\ stage' = "ready" /\ victim' = NoPid /\ range' = NoRange /\ result' = "none" /\ others' = 0
  /\ rax' = "call"
  /\ merged' = IF result = "ok" THEN merged + 1 ELSE merged
  /\ sinceMerge' = IF result = "ok" THEN 0 ELSE sinceMerge
  /\ phase' = IF batch = <<>> THEN "apply" ELSE "inject"
  /\ queue' = IF batch = <<>> THEN Tail(queue) ELSE queue
  /\ UNCHANGED <<processVars, mode, regs, held, pend, report,
                 batch, kept, targets, collapsed, seen, dryRun, age>>

(* Mutant: the dry run asks for huge pages all the same.                     *)
AppliedCollapses ==
  /\ phase = "apply" /\ queue = <<>>
  /\ phase' = "collapse"
  /\ queue' \in {targets, <<>>}
  /\ UNCHANGED <<kept, targets, batch, merged, collapsed, seen, dryRun, age, sinceMerge>>
  /\ InjectorIdle

(* pages_volatile is read: high, low, or not readable.                       *)
Applied ==
  /\ phase = "apply" /\ queue = <<>>
  /\ phase' = "collapse"
  /\ queue' \in (IF dryRun THEN {<<>>} ELSE {targets, <<>>})
  /\ UNCHANGED <<kept, targets, batch, merged, collapsed, seen, dryRun, age, sinceMerge>>
  /\ InjectorIdle

(* How many of the ranges process_madvise_single asks the kernel for: none if *)
(* pidfd_open fails; all, whatever it answers; or one, if the answer is ENOSYS. *)
PidfdOpen(p) == Alive(p)
AskedFor(p, ranges) ==
  IF PidfdOpen(p) /\ ranges # <<>> THEN {0, 1, Len(ranges)} ELSE {0}

(* collapse_regions of one target.                                           *)
CollapseRegions ==
  /\ phase = "collapse" /\ queue # <<>>
  /\ \E ranges \in {CollapseRanges(Target.maps)} :
       \E n \in AskedFor(Target.pid, ranges) :
         collapsed' = collapsed \cup {<<Target.pid, ranges[i]>> : i \in 1 .. n}
  /\ queue' = Tail(queue)
  /\ UNCHANGED <<phase, kept, targets, batch, merged, seen, dryRun, age, sinceMerge>>
  /\ InjectorIdle

(* Mutant: the window only starts when huge pages were asked for.            *)
CycleEndsUnstamped ==
  /\ phase = "collapse" /\ queue = <<>>
  /\ CycleReturns
  /\ age' = IF collapsed # {} THEN 0 ELSE age

(* The window starts again if this cycle counted a merged region.            *)
CycleEnds ==
  /\ phase = "collapse" /\ queue = <<>>
  /\ CycleReturns
  /\ age' = IF merged > 0 THEN 0 ELSE age

(* Time passes.                                                              *)
Elapse ==
  /\ age < Stabilization \/ sinceMerge < Stabilization
  /\ age' = IF age < Stabilization THEN age + 1 ELSE age
  /\ sinceMerge' = IF sinceMerge < Stabilization THEN sinceMerge + 1 ELSE sinceMerge
  /\ UNCHANGED <<injectorVars, cycleVars, dryRun, phase>>

ScannerStep ==
  \/ ReadStatus \/ StatusRead \/ ReadKsmStat \/ KsmStatRead \/ ReadMaps \/ MapsRead
  \/ ApplyMergeable \/ InjectNext \/ InjectReturned \/ Applied \/ CollapseRegions \/ CycleEnds

Next ==
  \/ Tick \/ ScannerStep \/ Elapse
  \/ UNCHANGED scannerVars /\ (InjectorStep \/ KernelStep \/ Disturbance)

Spec == Init /\ [][Next]_vars

(* A cycle that has begun goes on, and so does a tracee: the kernel stops it when *)
(* it is told to, and a system call that it runs returns.                    *)
FairSpec ==
  /\ Spec
  /\ WF_vars(ScannerStep)
  /\ WF_vars(UNCHANGED scannerVars /\ InjectorStep)
  /\ WF_vars(UNCHANGED scannerVars /\ KernelStep)

-----------------------------------------------------------------------------
(* Properties.                                                               *)

(* A process executes the injected call only while the daemon traces it; on every *)
(* path out of madvise_via_ptrace it has its own registers again (madvise.rs:450, *)
(* "the target will resume with corrupted registers ... and crash").         *)
BorrowedRegistersReturned ==
  \A p \in Pids : Alive(p) /\ regs[p] = "injected" =>
    /\ p = victim /\ mode[p] \in {"running", "stopped"}
    /\ stage \in {"wait_entry", "resume", "wait_exit", "finish", "give_up"}

(* Between two injections no process is traced or kept stopped, and a dead one is *)
(* only kept from its parent if it was killed after its stop had been waited for. *)
Released ==
  stage \in {"ready", "done"} =>
    \A p \in Pids : mode[p] = "free" \/ (mode[p] = "zombie" /\ p \in held)

(* An injection leaves a process in a job-control stop that it was not in before *)
(* only if two signals came to it from elsewhere meanwhile, or a real-time one, and *)
(* the wait for the stop of the attach reported that and failed.  Of two, one may *)
(* be taken for that stop and the other end the injection.  Either way the SIGSTOP *)
(* of PTRACE_ATTACH stays behind.                                            *)
LeftAsFound ==
  [][stage # "done" /\ stage' = "done" /\ ~(halted' \subseteq halted) =>
       others > 1 \/ (others = 1 /\ stage = "wait_failed" /\ report = "realtime")]_vars

(* An injection that returns Ok, and so counts as a merged region, has advised the *)
(* whole range, whatever the target unmapped, wherever the call was interrupted, *)
(* and although a SIGTRAP may come from elsewhere.  Two of them pass for both syscall *)
(* stops.                                                                    *)
MarkedAsReported ==
  [][stage # "done" /\ result' = "ok" /\ others <= 1 => RangePages \subseteq marked[victim]]_vars

(* What the filters let through, by what each file said when it was read: the pid, *)
(* the name, the size and the KSM statistics.                                *)
SizeMb(p) == IF RssKb[seen["status"][p]] = NoField THEN 0 ELSE RssKb[seen["status"][p]] \div 1024
PassedFilters(p) ==
  /\ p > 2 /\ seen["status"][p] \in Images \ Blocklisted
  /\ SizeMb(p) >= MinRssMb
  /\ \A i \in {seen["ksm_stat"][p]} \cap Images : KsmStat[i] # NoField =>
       KsmStat[i].merge_any \notin {"1", "yes", "true"} /\ KsmStat[i].profit \in Nat \cup {NoField}

(* An injection is only for a process that passed every filter, and for memory that *)
(* was anonymous, private, readable, writable and not executable, as this cycle read *)
(* them, however pids are handed on and lists are cut in between.  What the process *)
(* has become since is another matter: the region may have been made executable or *)
(* given to another mapping, the statistics may have turned, and after an exec even *)
(* the name may be on the blocklist.                                         *)
AdvisesOnlyAsRead ==
  stage # "ready" =>
    /\ PassedFilters(victim) /\ seen["maps"][victim] \in Images
    /\ \E r \in Regions(seen["maps"][victim]) :
         /\ RangePages \subseteq Pages(r.start, r.end)
         /\ r.perms = {"r", "w"} /\ r.path = "" /\ r.inode = 0

(* No process is touched while MaxCandidates larger ones passed every filter, as this *)
(* cycle read them.                                                          *)
LargestAreChosen ==
  \A t \in ToSet(targets) :
    Cardinality({p \in Pids : PassedFilters(p) /\ SizeMb(p) > SizeMb(t.pid)}) < MaxCandidates

(* The batch of a target covers its eligible pages in address order up to the cap, *)
(* all of them or exactly MaxPages.                                          *)
PagesInOrder(ranges) ==
  FlattenSeq([i \in DOMAIN ranges |->
    [k \in 1 .. ranges[i].end - ranges[i].start |-> ranges[i].start + k - 1]])
BatchIsCappedPrefix ==
  \A t \in ToSet(targets) :
    \A all \in {PagesInOrder(regions) : regions \in {EligibleRegions(t.maps)}},
       advised \in {PagesInOrder(ranges) : ranges \in {Batch(t.maps)}} :
      advised = SubSeq(all, 1, IF Len(all) < MaxPages THEN Len(all) ELSE MaxPages)

(* MADV_COLLAPSE is asked for whole huge pages inside a region that was eligible. *)
CollapsesWholeHugePages ==
  \A c \in collapsed :
    /\ c[2].start % ThpSize = 0 /\ c[2].end % ThpSize = 0 /\ c[2].start < c[2].end
    /\ \E t \in ToSet(targets) : t.pid = c[1] /\
         \E r \in ToSet(t.maps) : Eligible(r) /\ r.start <= c[2].start /\ c[2].end <= r.end

(* No cycle begins within the stabilization window of a merge, dry runs included. *)
BurstsSpaced == [][phase = "idle" /\ phase' # "idle" => sinceMerge >= Stabilization]_vars

(* A dry run neither attaches to a process nor changes its memory.           *)
DryRunTouchesNothing ==
  dryRun => stage = "ready" /\ collapsed = {} /\ \A p \in Pids : marked[p] = {}

(* A cycle ends, whatever signals, deaths, execs and failing injections it meets, *)
(* as long as the kernel stops or reaps a target that the daemon waits for.  *)
CycleTerminates == phase # "idle" ~> phase = "idle"
=============================================================================
