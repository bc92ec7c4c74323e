--------------------------- MODULE PtraceInjector ---------------------------
(***************************************************************************)
(* madvise_via_ptrace (crates/daemon/src/madvise.rs): one madvise call       *)
(* injected into another process.  The daemon stops the target, borrows its  *)
(* registers, lets it run the call between two syscall stops, and gives the  *)
(* registers back.  Meanwhile the target may receive signals, be killed, or  *)
(* change its memory; while it is not traced it may exec or its pid be reused. *)
(*                                                                           *)
(* ptrace and waitpid are external.  A tracee that stops reports one signal; a *)
(* syscall stop reports SIGTRAP like a SIGTRAP that somebody sent, and for a  *)
(* real-time signal, which has no name in its Signal type, nix's waitpid returns *)
(* EINVAL.  Calls on a stopped tracee fail only when it has been killed.     *)
(***************************************************************************)
EXTENDS Madvise, FiniteSets

CONSTANTS
  Pids,      \* process ids
  Images,    \* what a process can be: its program, statistics and memory map
  NewImages, \* what a pid may become by exec, or when it is used again
  Developments, \* <<i, j>>: what is i may become j by mprotect, mmap, munmap, or
                \* because its size, its name or its KSM statistics change
  MapsOf,    \* /proc/PID/maps of each image
  NoProc,    \* no process has this pid
  NoPid,     \* no target
  MaxSignals, \* bound on the signals that reach a target from elsewhere during a call
  MaxEvents  \* bound on what else befalls processes

ASSUME InjectorAssumption ==
  /\ NewImages \subseteq Images /\ Developments \subseteq Images \X Images
  /\ NoProc \notin Images /\ NoPid \notin Pids
  /\ MaxSignals \in Nat /\ MaxEvents \in Nat
ASSUME MapsAssumption == MapsOf \in [Images -> Seq(MapsEntries \cup {Unparsable})]

(* "stop": the SIGSTOP of PTRACE_ATTACH; "trap": SIGTRAP sent by anybody else; *)
(* "realtime": SIGRTMIN and above; "other": any other signal.  "sys" and "fault" *)
(* are stops of the call itself.                                             *)
Signals == {"stop", "trap", "realtime", "other"}
Reports == Signals \cup {"sys", "fault", "none"}
Modes == {"free", "attached", "running", "stopped", "zombie"}
Stages == {"ready", "attach", "wait_attach", "wait_failed", "inject", "wait_entry", "resume",
           "wait_exit", "finish", "give_up", "done"}

VARIABLES
  image,   \* what each pid is
  marked,  \* pages each process has had advised MADV_MERGEABLE
  mode,    \* free; traced: attached, running, stopped; killed while traced
  regs,    \* whose registers the process has
  halted,  \* processes in a job-control stop
  vdso,    \* processes that have not called exec since their vDSO was looked up
  held,    \* history: targets killed after the daemon had waited for their stop
  stage,   \* where madvise_via_ptrace is
  victim,  \* its pid
  range,   \* its addr and len
  pend,    \* signals pending for the victim while it is traced
  report,  \* what its current stop reports
  rax,     \* "call": the number 28, "nosys": entry stop, "ok", "err": result
  result,  \* what madvise_via_ptrace returned
  others,  \* history: signals the victim got from elsewhere during this call
  events   \* events left

processVars == <<image, marked, halted, vdso, events>>
tracerVars == <<stage, victim, range, result>>
injectorVars == <<image, marked, mode, regs, halted, vdso, held, stage, victim, range, pend,
                  report, rax, result, others, events>>

Regions(i) == ToSet(MapsOf[i]) \ {Unparsable}
Mapped(p) == UNION {Pages(r.start, r.end) : r \in Regions(image[p])}
RangePages == Pages(range.start, range.end)
Alive(p) == image[p] # NoProc /\ mode[p] # "zombie"
NoRange == [start |-> 0, end |-> 0]

InjectorTypeOK ==
  /\ image \in [Pids -> Images \cup {NoProc}]
  /\ marked \in [Pids -> SUBSET Nat]
  /\ mode \in [Pids -> Modes]
  /\ regs \in [Pids -> {"own", "injected"}]
  /\ halted \subseteq Pids /\ held \subseteq Pids /\ vdso \subseteq Pids
  /\ stage \in Stages
  /\ victim \in Pids \cup {NoPid}
  /\ range.start \in Nat /\ range.end \in Nat
  /\ pend \subseteq Signals /\ report \in Reports
  /\ rax \in {"call", "nosys", "ok", "err"}
  /\ result \in {"none", "ok", "err"}
  /\ others \in 0 .. MaxSignals /\ events \in 0 .. MaxEvents

InjectorInit ==
  /\ marked = [p \in Pids |-> {}]
  /\ mode = [p \in Pids |-> "free"] /\ regs = [p \in Pids |-> "own"]
  /\ halted = {} /\ held = {} /\ vdso = {}
  /\ stage = "ready" /\ victim = NoPid /\ range = NoRange
  /\ pend = {} /\ report = "none" /\ rax = "call" /\ result = "none"
  /\ others = 0 /\ events = MaxEvents

-----------------------------------------------------------------------------
(* The daemon.                                                               *)

(* madvise_via_ptrace is called.                                             *)
Inject(p, r) ==
  /\ stage = "ready"
  /\ stage' = "attach" /\ victim' = p /\ range' = r /\ result' = "none" /\ others' = 0
  /\ UNCHANGED <<processVars, mode, regs, held, pend, report, rax>>

Returns(res) == stage' = "done" /\ result' = res /\ UNCHANGED <<victim, range>>
At(s) == stage' = s /\ UNCHANGED <<victim, range, result>>

(* The victim runs on; the signal it had stopped for is discarded.           *)
Detached ==
  /\ mode' = [mode EXCEPT ![victim] = "free"]
  /\ regs' = [regs EXCEPT ![victim] = "own"]
  /\ halted' = IF "stop" \in pend THEN halted \cup {victim} ELSE halted
  /\ pend' = {} /\ report' = "none"
  /\ UNCHANGED <<image, marked, vdso, events, held, others>>

(* ESRCH: the victim was killed after its stop was reported, and is not      *)
(* waited for again.                                                         *)
TracerUnchanged == UNCHANGED <<processVars, mode, regs, held, pend, report, rax, others>>
LostVictim == mode[victim] = "zombie" /\ Returns("err") /\ TracerUnchanged

(* PTRACE_ATTACH, refused for processes that are gone, traced or protected.  *)
Attach ==
  /\ stage = "attach"
  /\ \/ /\ Alive(victim)
        /\ mode' = [mode EXCEPT ![victim] = "attached"] /\ pend' = {"stop"}
        /\ At("wait_attach")
        /\ UNCHANGED <<processVars, regs, held, report, rax, others>>
     \/ Returns("err") /\ TracerUnchanged

(* waitpid reports that the victim was killed, and frees its pid.            *)
Reaped ==
  /\ mode[victim] = "zombie"
  /\ mode' = [mode EXCEPT ![victim] = "free"]
  /\ image' = [image EXCEPT ![victim] = NoProc]
  /\ marked' = [marked EXCEPT ![victim] = {}]
  /\ vdso' = vdso \ {victim}
  /\ regs' = [regs EXCEPT ![victim] = "own"]
  /\ halted' = halted \ {victim}
  /\ pend' = {} /\ report' = "none"
  /\ Returns("err")
  /\ UNCHANGED <<events, held, rax, others>>

(* Any stop will do that waitpid can name.                                   *)
WaitAttach ==
  /\ stage = "wait_attach"
  /\ \/ /\ mode[victim] = "stopped"
        /\ IF report = "realtime" THEN At("wait_failed") ELSE At("inject")
        /\ TracerUnchanged
     \/ Reaped

(* The arm for an error of that waitpid: detach, and return Err.             *)
WaitFailed ==
  /\ stage = "wait_failed"
  /\ \/ LostVictim
     \/ mode[victim] = "stopped" /\ Detached /\ Returns("err") /\ UNCHANGED rax

(* getregs, setregs, PTRACE_SYSCALL, the last without the reported signal.   *)
SetRegs ==
  /\ stage = "inject"
  /\ \/ LostVictim
     \/ /\ mode[victim] = "stopped"
        /\ regs' = [regs EXCEPT ![victim] = "injected"]
        /\ mode' = [mode EXCEPT ![victim] = "running"]
        /\ report' = "none" /\ rax' = "call"
        /\ At("wait_entry")
        /\ UNCHANGED <<processVars, held, pend, others>>

(* Mutant: an unexpected stop returns at once.                               *)
WaitSyscallLeaves(next) ==
  \/ /\ mode[victim] = "stopped"
     /\ IF report \in {"trap", "sys"} THEN At(next) ELSE Returns("err")
     /\ TracerUnchanged
  \/ Reaped

(* Stopped(_, SIGTRAP); another stop or an error of waitpid, which are answered *)
(* alike; or dead.                                                           *)
WaitSyscall(next) ==
  \/ /\ mode[victim] = "stopped"
     /\ IF report \in {"trap", "sys"} THEN At(next) ELSE At("give_up")
     /\ TracerUnchanged
  \/ Reaped

WaitEntry == stage = "wait_entry" /\ WaitSyscall("resume")
WaitExit == stage = "wait_exit" /\ WaitSyscall("finish")

(* PTRACE_SYSCALL again.                                                     *)
Resume ==
  /\ stage = "resume"
  /\ \/ LostVictim
     \/ /\ mode[victim] = "stopped"
        /\ mode' = [mode EXCEPT ![victim] = "running"] /\ report' = "none"
        /\ At("wait_exit")
        /\ UNCHANGED <<processVars, regs, held, pend, rax, others>>

(* Mutant: the error path forgets the registers.                             *)
GiveUpCorrupted ==
  /\ stage = "give_up"
  /\ \/ LostVictim
     \/ /\ mode[victim] = "stopped"
        /\ mode' = [mode EXCEPT ![victim] = "free"]
        /\ halted' = IF "stop" \in pend THEN halted \cup {victim} ELSE halted
        /\ pend' = {} /\ report' = "none"
        /\ Returns("err")
        /\ UNCHANGED <<image, marked, vdso, events, held, regs, rax, others>>

(* Mutant: the error path delivers the signal that had stopped the victim.   *)
GiveUpDelivers ==
  /\ stage = "give_up"
  /\ \/ LostVictim
     \/ /\ mode[victim] = "stopped"
        /\ mode' = [mode EXCEPT ![victim] = "free"]
        /\ regs' = [regs EXCEPT ![victim] = "own"]
        /\ halted' = IF "stop" \in pend \cup {report} THEN halted \cup {victim} ELSE halted
        /\ pend' = {} /\ report' = "none"
        /\ Returns("err")
        /\ UNCHANGED <<image, marked, vdso, events, held, rax, others>>

(* The error path after an unexpected stop: setregs(orig), detach.           *)
GiveUp ==
  /\ stage = "give_up"
  /\ \/ LostVictim
     \/ mode[victim] = "stopped" /\ Detached /\ Returns("err") /\ UNCHANGED rax

(* Mutant: the result of the call is not looked at.                          *)
FinishUnchecked ==
  /\ stage = "finish"
  /\ \/ LostVictim
     \/ mode[victim] = "stopped" /\ Detached /\ Returns("ok") /\ UNCHANGED rax

(* getregs, setregs(orig), detach, and the result: -4096 < rax < 0 is an     *)
(* error, -ENOSYS at an entry stop included, and 28 is not.                  *)
Finish ==
  /\ stage = "finish"
  /\ \/ LostVictim
     \/ /\ mode[victim] = "stopped"
        /\ Detached
        /\ Returns(IF rax \in {"nosys", "err"} THEN "err" ELSE "ok")
        /\ UNCHANGED rax

InjectorStep ==
  Attach \/ WaitAttach \/ WaitFailed \/ SetRegs \/ WaitEntry \/ Resume \/ WaitExit \/ GiveUp \/ Finish

-----------------------------------------------------------------------------
(* The kernel and the processes: external.                                   *)

Stops(why) ==
  /\ mode' = [mode EXCEPT ![victim] = "stopped"]
  /\ report' = why
  /\ UNCHANGED <<image, halted, vdso, events, regs, held, tracerVars, others>>

Traced == victim # NoPid /\ mode[victim] \in {"attached", "running"}

(* A pending signal stops the tracee before it runs any code; which of several *)
(* comes first depends on their numbers, on whether they are for the thread or the *)
(* process, and on whether they came before the SIGSTOP.  A tracee in a job-control *)
(* stop reports that first.                                                  *)
StopsForSignal ==
  /\ Traced /\ (mode[victim] = "running" => rax = "call")
  /\ \/ /\ mode[victim] = "attached" => victim \notin halted
        /\ \E s \in pend : pend' = pend \ {s} /\ Stops(s)
     \/ mode[victim] = "attached" /\ victim \in halted /\ Stops("stop") /\ UNCHANGED pend
  /\ UNCHANGED <<marked, rax>>

(* The syscall instruction of the vDSO; a stale address faults.              *)
SyscallEntry ==
  /\ Traced /\ mode[victim] = "running" /\ rax = "call" /\ pend = {}
  /\ \/ victim \in vdso /\ Stops("sys") /\ rax' = "nosys"
     \/ victim \notin vdso /\ Stops("fault") /\ UNCHANGED rax
  /\ UNCHANGED <<marked, pend>>

(* madvise marks what is mapped, and fails with ENOMEM if something is not; it *)
(* may also fail before it marks anything.                                   *)
SyscallExit ==
  /\ Traced /\ mode[victim] = "running" /\ rax = "nosys"
  /\ Stops("sys")
  /\ \/ /\ marked' = [marked EXCEPT ![victim] = @ \cup (RangePages \cap Mapped(victim))]
        /\ rax' = IF RangePages \subseteq Mapped(victim) THEN "ok" ELSE "err"
     \/ rax' = "err" /\ UNCHANGED marked
  /\ UNCHANGED pend

Event == events > 0 /\ events' = events - 1

SignalArrives ==
  /\ victim # NoPid /\ mode[victim] \in {"attached", "running", "stopped"}
  /\ \E s \in {"trap", "realtime", "other"} \ pend : pend' = pend \cup {s}
  /\ others < MaxSignals /\ others' = others + 1
  /\ UNCHANGED <<processVars, mode, regs, held, tracerVars, report, rax>>

(* SIGKILL, or an exit of its own.                                           *)
Dies(p) ==
  /\ Event /\ Alive(p)
  /\ \/ /\ mode[p] = "free"
        /\ image' = [image EXCEPT ![p] = NoProc]
        /\ marked' = [marked EXCEPT ![p] = {}] /\ vdso' = vdso \ {p}
        /\ halted' = halted \ {p}
        /\ UNCHANGED <<mode, held>>
     \/ /\ mode[p] # "free"
        /\ mode' = [mode EXCEPT ![p] = "zombie"]
        /\ held' = IF stage \in {"wait_failed", "inject", "resume", "finish", "give_up"}
                     THEN held \cup {p} ELSE held
        /\ UNCHANGED <<image, marked, vdso, halted>>
  /\ UNCHANGED <<regs, tracerVars, pend, report, rax, others>>

(* exec, or another process gets the pid.                                    *)
NewImage(p) ==
  /\ Event /\ mode[p] = "free" /\ p \notin halted
  /\ \E i \in NewImages : image' = [image EXCEPT ![p] = i]
  /\ marked' = [marked EXCEPT ![p] = {}] /\ vdso' = vdso \ {p}
  /\ UNCHANGED <<mode, regs, halted, held, tracerVars, pend, report, rax, others>>

(* The process goes on, traced or not, and any thread of it may change its memory; *)
(* what /proc says of it changes.                                            *)
Develops(p) ==
  /\ Event /\ Alive(p)
  /\ \E i \in Images : <<image[p], i>> \in Developments /\ image' = [image EXCEPT ![p] = i]
  /\ UNCHANGED <<marked, halted, vdso, mode, regs, held, tracerVars, pend, report, rax, others>>

(* A job-control stop, by the user.                                          *)
Halts(p) ==
  /\ Event /\ Alive(p) /\ mode[p] = "free" /\ p \notin halted
  /\ halted' = halted \cup {p}
  /\ UNCHANGED <<image, marked, vdso, mode, regs, held, tracerVars,
                 pend, report, rax, others>>

KernelStep == StopsForSignal \/ SyscallEntry \/ SyscallExit
Disturbance ==
  \/ SignalArrives
  \/ \E p \in Pids : Dies(p) \/ NewImage(p) \/ Develops(p) \/ Halts(p)
=============================================================================
