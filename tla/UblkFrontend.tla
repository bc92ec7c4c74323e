---------------------------- MODULE UblkFrontend ----------------------------
(***************************************************************************)
(* The ublk frontend (crates/swap-proxy/src/ublk_frontend.rs): each queue    *)
(* thread takes one block request after another and serves it page by page on *)
(* the engine, which is the abstract device of PageDevice here (ProxyEngine  *)
(* implements it).  A request that fails at one page has already carried out *)
(* the pages before it; requests of different queues interleave between pages. *)
(*                                                                           *)
(* Which tags a queue has, the order of its io_uring completions and whether an *)
(* answer reaches the kernel are external.                                   *)
(***************************************************************************)
EXTENDS Naturals, Sequences

CONSTANTS
  Queues,      \* queue threads
  Tags,        \* request slots of the device
  QueueOf,     \* the queue each tag belongs to
  Blocks,      \* pages of the device, from 0
  Pages,       \* contents of a page
  ZeroPage,
  NoRequest, NoTag,
  MaxFailures  \* MAX_COMPLETION_FAILURES

(* What execute_request tells apart; "unsupported" is every other opcode.     *)
Ops == {"read", "write", "discard", "write_zeroes", "flush", "unsupported"}
BlockRequests ==
  [op : Ops, first : Nat, count : Nat, valid : BOOLEAN, data : Seq(Pages), sync : BOOLEAN]

ASSUME FrontendAssumption ==
  /\ QueueOf \in [Tags -> Queues] /\ NoTag \notin Tags
  /\ Blocks \subseteq Nat /\ ZeroPage \in Pages
  /\ MaxFailures \in Nat \ {0}
  /\ NoRequest \notin BlockRequests

(* A block request; valid is FALSE for one that is not a whole number of pages or *)
(* longer than the buffer.  data is what it writes; sync: its issuer waits for it. *)
BlockRequest(op, first, count, valid, data, sync) ==
  [op |-> op, first |-> first, count |-> count, valid |-> valid, data |-> data, sync |-> sync]

VARIABLES
  contents, phase, req, ret, raced, \* the device, see PageDevice
  io,       \* the request of each tag, or NoRequest
  inbox,    \* the tags each queue has still to look at
  serving,  \* the tag each queue serves, or NoTag
  done,     \* how many of its pages are done
  buf,      \* what it has read
  answer,   \* its result, or "none"
  lost,     \* tags whose answer could not be delivered: never free again
  outcome,  \* the answer to the request that somebody waits for
  failures, \* completion_failures of each queue
  touched   \* history: another queue changed a page of the request meanwhile

deviceVars == <<contents, phase, req, ret, raced>>
queueVars == <<io, inbox, serving, done, buf, answer, lost, outcome, failures, touched>>
frontendVars == <<deviceVars, queueVars>>

Device == INSTANCE PageDevice WITH
  Threads <- Queues, Offsets <- Blocks, Errors <- {"error"}

Answers == {"none", "ok", "EIO", "EINVAL", "EOPNOTSUPP"}
Range(r) == {b \in Blocks : r.first <= b /\ b < r.first + r.count}

FrontendTypeOK ==
  /\ contents \in [Blocks -> Pages]
  /\ serving \in [Queues -> Tags \cup {NoTag}]
  /\ \A q \in Queues : serving[q] # NoTag =>
       /\ QueueOf[serving[q]] = q /\ io[serving[q]] # NoRequest
       /\ done[q] <= io[serving[q]].count
       /\ req[q] # NoRequest => answer[q] = "none" /\ req[q].off \in Range(io[serving[q]])
  /\ answer \in [Queues -> Answers] /\ outcome \in Answers
  /\ failures \in [Queues -> 0 .. MaxFailures]
  /\ lost \subseteq Tags

QueuesEmpty ==
  /\ phase = [q \in Queues |-> "idle"] /\ req = [q \in Queues |-> NoRequest]
  /\ ret = [q \in Queues |-> "none"] /\ raced = [q \in Queues |-> FALSE]
  /\ io = [t \in Tags |-> NoRequest] /\ inbox = [q \in Queues |-> <<>>]
  /\ serving = [q \in Queues |-> NoTag] /\ done = [q \in Queues |-> 0]
  /\ buf = [q \in Queues |-> <<>>] /\ answer = [q \in Queues |-> "none"]
  /\ lost = {} /\ outcome = "none"
  /\ failures = [q \in Queues |-> 0] /\ touched = [q \in Queues |-> FALSE]

FrontendInit == QueuesEmpty /\ contents = [b \in Blocks |-> ZeroPage]

(* The queues of a process that has ended.                                   *)
QueuesReset ==
  /\ phase' = [q \in Queues |-> "idle"] /\ req' = [q \in Queues |-> NoRequest]
  /\ ret' = [q \in Queues |-> "none"] /\ raced' = [q \in Queues |-> FALSE]
  /\ io' = [t \in Tags |-> NoRequest] /\ inbox' = [q \in Queues |-> <<>>]
  /\ serving' = [q \in Queues |-> NoTag] /\ done' = [q \in Queues |-> 0]
  /\ buf' = [q \in Queues |-> <<>>] /\ answer' = [q \in Queues |-> "none"]
  /\ lost' = {} /\ outcome' = "none"
  /\ failures' = [q \in Queues |-> 0] /\ touched' = [q \in Queues |-> FALSE]

(* The kernel puts a request on a free tag.                                  *)
Issue(t, r) ==
  /\ io[t] = NoRequest /\ t \notin lost
  /\ io' = [io EXCEPT ![t] = r]
  /\ inbox' = [inbox EXCEPT ![QueueOf[t]] = Append(@, t)]
  /\ UNCHANGED <<deviceVars, serving, done, buf, answer, lost, outcome, failures, touched>>

(* What execute_request answers without touching the engine; a valid request of no *)
(* pages leaves its loop at once.                                            *)
Immediate(r) ==
  CASE r.op = "flush" -> "ok"
    [] r.op = "unsupported" -> "EOPNOTSUPP"
    [] OTHER -> IF ~r.valid THEN "EINVAL" ELSE IF r.count = 0 THEN "ok" ELSE "none"

(* The closure of wait_and_handle_io begins with a tag.                      *)
Fetch(q) ==
  /\ serving[q] = NoTag /\ inbox[q] # <<>>
  /\ serving' = [serving EXCEPT ![q] = Head(inbox[q])]
  /\ inbox' = [inbox EXCEPT ![q] = Tail(@)]
  /\ answer' = [answer EXCEPT ![q] = Immediate(io[Head(inbox[q])])]
  /\ UNCHANGED <<deviceVars, io, done, buf, lost, outcome, failures, touched>>

Current(q) == io[serving[q]]

(* Mutant: the offset of the request is left out.                            *)
PageRequestUnshifted(q) ==
  LET r == Current(q) off == done[q] IN
  CASE r.op = "read" -> [op |-> "read", off |-> off]
    [] r.op = "write" -> [op |-> "write", off |-> off, page |-> r.data[done[q] + 1]]
    [] r.op = "discard" -> [op |-> "discard", off |-> off]
    [] OTHER -> [op |-> "write", off |-> off, page |-> ZeroPage]

(* The page operation that the next page of a request takes; write-zeroes    *)
(* writes a page of zeroes.                                                  *)
PageRequest(q) ==
  LET r == Current(q) off == r.first + done[q] IN
  CASE r.op = "read" -> [op |-> "read", off |-> off]
    [] r.op = "write" -> [op |-> "write", off |-> off, page |-> r.data[done[q] + 1]]
    [] r.op = "discard" -> [op |-> "discard", off |-> off]
    [] OTHER -> [op |-> "write", off |-> off, page |-> ZeroPage]

NextPage(q) ==
  /\ serving[q] # NoTag /\ answer[q] = "none" /\ phase[q] = "idle"
  /\ Device!Invoke(q) /\ req'[q] = PageRequest(q)
  /\ UNCHANGED queueVars

(* The engine carries out a page operation.                                  *)
EngineStep(q) ==
  /\ \/ /\ Device!Commit(q)
        /\ touched' = [u \in Queues |->
             \/ touched[u]
             \/ u # q /\ serving[u] # NoTag /\ req[q].off \in Range(Current(u))]
     \/ (Device!ReadValue(q) \/ Device!Fail(q)) /\ UNCHANGED touched
  /\ UNCHANGED <<io, inbox, serving, done, buf, answer, lost, outcome, failures>>

(* Mutant: a page that fails is skipped.                                     *)
PageDoneSkips(q) ==
  /\ phase[q] = "done"
  /\ Device!Reply(q)
  /\ done' = [done EXCEPT ![q] = @ + 1]
  /\ buf' = IF req[q].op = "read" THEN [buf EXCEPT ![q] = Append(@, ret[q])] ELSE buf
  /\ answer' = IF done[q] + 1 = Current(q).count THEN [answer EXCEPT ![q] = "ok"] ELSE answer
  /\ UNCHANGED <<io, inbox, serving, lost, outcome, failures, touched>>

(* It returns: "?" on an error, else the next page or the whole length.      *)
PageDone(q) ==
  /\ phase[q] = "done"
  /\ Device!Reply(q)
  /\ \/ /\ ret[q] = "error"
        /\ answer' = [answer EXCEPT ![q] = "EIO"]
        /\ UNCHANGED <<done, buf>>
     \/ /\ ret[q] # "error"
        /\ done' = [done EXCEPT ![q] = @ + 1]
        /\ buf' = IF req[q].op = "read" THEN [buf EXCEPT ![q] = Append(@, ret[q])] ELSE buf
        /\ answer' = IF done[q] + 1 = Current(q).count
                       THEN [answer EXCEPT ![q] = "ok"] ELSE answer
  /\ UNCHANGED <<io, inbox, serving, lost, outcome, failures, touched>>

(* Mutant: the queue does stop after too many failures.                      *)
CompleteAndStop(q) ==
  /\ answer[q] # "none" /\ failures[q] < MaxFailures
  /\ \/ /\ outcome' = IF Current(q).sync THEN answer[q] ELSE outcome
        /\ failures' = [failures EXCEPT ![q] = 0]
        /\ UNCHANGED lost
     \/ /\ lost' = lost \cup {serving[q]}
        /\ failures' = [failures EXCEPT ![q] = IF @ < MaxFailures THEN @ + 1 ELSE @]
        /\ UNCHANGED outcome
  /\ io' = [io EXCEPT ![serving[q]] = NoRequest]
  /\ serving' = [serving EXCEPT ![q] = NoTag] /\ answer' = [answer EXCEPT ![q] = "none"]
  /\ done' = [done EXCEPT ![q] = 0] /\ buf' = [buf EXCEPT ![q] = <<>>]
  /\ touched' = [touched EXCEPT ![q] = FALSE]
  /\ UNCHANGED <<deviceVars, inbox>>

(* complete_io_cmd_unified.  An answer that cannot be delivered is counted, and *)
(* after MaxFailures in a row there is a warning; the queue goes on in any case. *)
Complete(q) ==
  /\ answer[q] # "none"
  /\ \/ /\ outcome' = IF Current(q).sync THEN answer[q] ELSE outcome
        /\ failures' = [failures EXCEPT ![q] = 0]
        /\ UNCHANGED lost
     \/ /\ lost' = lost \cup {serving[q]}
        /\ failures' = [failures EXCEPT ![q] = IF @ < MaxFailures THEN @ + 1 ELSE @]
        /\ UNCHANGED outcome
  /\ io' = [io EXCEPT ![serving[q]] = NoRequest]
  /\ serving' = [serving EXCEPT ![q] = NoTag] /\ answer' = [answer EXCEPT ![q] = "none"]
  /\ done' = [done EXCEPT ![q] = 0] /\ buf' = [buf EXCEPT ![q] = <<>>]
  /\ touched' = [touched EXCEPT ![q] = FALSE]
  /\ UNCHANGED <<deviceVars, inbox>>

ServeStep(q) == Fetch(q) \/ NextPage(q) \/ EngineStep(q) \/ PageDone(q) \/ Complete(q)
=============================================================================
