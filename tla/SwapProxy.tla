----------------------------- MODULE SwapProxy -----------------------------
(***************************************************************************)
(* The life of the swap proxy in real mode (crates/swap-proxy/src/main.rs and *)
(* ublk_frontend.rs, systemd/animaksm-swap-proxy.service): the device comes up *)
(* when every queue has been set up, a background thread makes it a swap device *)
(* (bootstrap_swap), the queues serve the kernel, the process ends, killed or *)
(* because the device was deleted, and ExecStopPost runs cleanup_after_crash. *)
(* Nothing of the engine survives the process: a new device is all zeroes.   *)
(***************************************************************************)
EXTENDS UblkFrontend, FiniteSets

CONSTANTS
  Requests,   \* the block requests that the users of the device put on each tag
  Header,     \* the page that mkswap writes
  SwapNames,  \* names that swapon --show may print: records [stem, rest]
  OtherSwaps, \* active swap areas that are not the proxy's
  NoName

HeaderWrite == BlockRequest("write", 0, 1, TRUE, <<Header>>, TRUE)

ASSUME ProxyAssumption ==
  /\ Header \in Pages /\ 0 \in Blocks /\ NoName \notin SwapNames
  /\ OtherSwaps \subseteq SwapNames
  /\ \A t \in Tags : Requests[t] \subseteq BlockRequests

VARIABLES
  service,   \* down, launching, adding, starting, live; cleanup: listing, swapping_off
  ready,     \* queues that are set up
  broken,    \* queues that failed to be (init_errors)
  bdev,      \* the name of the block device, or NoName
  boot,      \* the bootstrap: none, pending (its closure is still there), mkswap,
             \* writing, swapon; none again when it has ended
  swaps,     \* active swap areas
  offTodo,   \* devices that cleanup has still to swap off
  before,    \* history: the active swap areas when the last cleanup began
  failed     \* history: the swap areas that the last cleanup failed to list or to end

lifeVars == <<service, ready, broken, bdev, boot, swaps, offTodo, before, failed>>
vars == <<frontendVars, lifeVars>>

TypeOK ==
  /\ FrontendTypeOK
  /\ service \in {"down", "launching", "adding", "starting", "live", "listing", "swapping_off"}
  /\ failed \subseteq SwapNames
  /\ ready \subseteq Queues /\ broken \subseteq Queues \ ready
  /\ bdev \in SwapNames \cup {NoName} /\ (service = "live" => bdev # NoName)
  /\ boot \in {"none", "pending", "mkswap", "writing", "swapon"}
  /\ swaps \subseteq SwapNames /\ offTodo \subseteq SwapNames /\ before \subseteq SwapNames
  /\ service = "live" => ready = Queues

Init ==
  /\ FrontendInit
  /\ service = "down" /\ ready = {} /\ broken = {} /\ bdev = NoName
  /\ boot = "none"
  /\ swaps = OtherSwaps /\ before = OtherSwaps
  /\ offTodo = {} /\ failed = OtherSwaps    \* no cleanup has run, none was ended

(* Mutant: everything that begins like a ublk device.                        *)
IsUblkPrefix(n) == n.stem \in {"/dev/ublkb", "/dev/ubd"}

(* ubd_devices_in_swapon_output: the prefix and then digits only.            *)
IsUblkName(n) == n.stem \in {"/dev/ublkb", "/dev/ubd"} /\ n.rest = "digits"

(* main and run_command: the configuration loads or the process ends, and the *)
(* options are merged into it.                                               *)
RunCommand ==
  /\ service = "down"
  /\ \/ service' = "launching" /\ boot' \in {"none", "pending"}    \* --no-bootstrap, or not
        /\ UNCHANGED <<before, failed>>
     \/ service' = "listing" /\ boot' = "none"
        /\ before' = swaps /\ failed' = {}
  /\ UNCHANGED <<frontendVars, ready, broken, bdev, swaps, offTodo>>

(* run_real_proxy.  Without the ublk driver, or when the engine cannot be made, the *)
(* process ends (Ends).                                                      *)
RunRealProxy ==
  /\ service' = "adding" /\ UNCHANGED boot
  /\ before' = {} /\ failed' = {}

(* run_proxy_v2.  A dry run, started by hand, drives an engine of its own (see *)
(* ProxyEngine) and touches neither devices nor swap areas.                  *)
RunProxyV2 ==
  /\ service = "launching"
  /\ \/ RunRealProxy
     \/ service' = "down" /\ boot' = "none" /\ UNCHANGED <<before, failed>>
  /\ UNCHANGED <<frontendVars, ready, broken, bdev, swaps, offTodo>>

(* The control device is built and the kernel picks its id, and so its path; a size *)
(* that overflows or a refusal of the driver ends the process (Ends).        *)
AddDevice ==
  /\ service = "adding"
  /\ service' = "starting"
  /\ \E n \in SwapNames \ swaps : IsUblkName(n) /\ bdev' = n
  /\ UNCHANGED <<frontendVars, ready, broken, boot, swaps, offTodo, before, failed>>

(* run_queue until its fetch commands are submitted, or its error is noted and the *)
(* thread returns.                                                           *)
QueueInit(q) ==
  /\ service = "starting" /\ q \notin ready \cup broken
  /\ \/ ready' = ready \cup {q} /\ UNCHANGED broken
     \/ broken' = broken \cup {q} /\ UNCHANGED ready
  /\ UNCHANGED <<frontendVars, service, bdev, boot, swaps, offTodo, before, failed>>

(* Mutant: the device goes live although a queue is not set up.              *)
GoLiveEarly ==
  /\ service = "starting" /\ ready # {}
  /\ service' = "live"
  /\ boot' = IF boot = "pending" THEN "mkswap" ELSE "none"
  /\ UNCHANGED <<frontendVars, ready, broken, bdev, swaps, offTodo, before, failed>>

(* The kernel starts the device once every queue has fetched; then device_fn hands *)
(* its path to the bootstrap thread.                                         *)
GoLive ==
  /\ service = "starting" /\ ready = Queues
  /\ service' = "live"
  /\ boot' = IF boot = "pending" THEN "mkswap" ELSE "none"
  /\ UNCHANGED <<frontendVars, ready, broken, bdev, swaps, offTodo, before, failed>>

-----------------------------------------------------------------------------
(* bootstrap_swap.  mkswap and swapon are external.                          *)

(* mkswap writes its header through the device, or fails before that.        *)
Mkswap ==
  /\ boot = "mkswap"
  /\ \/ /\ \E t \in Tags : Issue(t, HeaderWrite)
        /\ boot' = "writing"
     \/ boot' = "none" /\ UNCHANGED frontendVars
  /\ UNCHANGED <<service, ready, broken, bdev, swaps, offTodo, before, failed>>

(* It waits for the answer, for ever if there is none.                       *)
MkswapReturns ==
  /\ boot = "writing" /\ outcome # "none"
  /\ boot' = IF outcome = "ok" THEN "swapon" ELSE "none"
  /\ outcome' = "none"
  /\ UNCHANGED <<deviceVars, io, inbox, serving, done, buf, answer, lost, failures, touched>>
  /\ UNCHANGED <<service, ready, broken, bdev, swaps, offTodo, before, failed>>

Swapon ==
  /\ boot = "swapon"
  /\ boot' = "none"
  /\ \/ contents[0] = Header /\ swaps' = swaps \cup {bdev}
     \/ UNCHANGED swaps
  /\ UNCHANGED <<frontendVars, service, ready, broken, bdev, offTodo, before, failed>>

(* The kernel swaps, sparing the header, or the device is used as a block device; *)
(* mkswap and swapon hold it exclusively.                                    *)
UserRequest ==
  /\ service = "live" /\ boot = "none"
  /\ \E t \in Tags : \E r \in Requests[t] :
       /\ bdev \in swaps => r.first > 0 \/ r.op \in {"flush", "unsupported"}
       /\ Issue(t, r)
  /\ UNCHANGED lifeVars

Serve(q) == service = "live" /\ ServeStep(q) /\ UNCHANGED lifeVars

(* The process ends: it is killed, or run_target returns because the device was *)
(* deleted.  The kernel fails what is outstanding; a swap area stays active. *)
Ends ==
  /\ service \in {"launching", "adding", "starting", "live"}
  /\ service' = "listing"
  /\ QueuesReset /\ contents' = [b \in Blocks |-> ZeroPage]
  /\ ready' = {} /\ broken' = {} /\ bdev' = NoName /\ boot' = "none"
  /\ before' = swaps /\ failed' = {}
  /\ UNCHANGED <<swaps, offTodo>>

(* cleanup_after_crash: list the swap areas, then swap off those on ublk devices one *)
(* by one; a command that fails is reported and passed over.  zram0 is only looked *)
(* for, to choose a message.                                                 *)
ListSwaps ==
  /\ service = "listing"
  /\ service' = "swapping_off"
  /\ \/ offTodo' = {n \in swaps : IsUblkName(n)} /\ UNCHANGED failed
     \/ offTodo' = {} /\ failed' = swaps
  /\ UNCHANGED <<frontendVars, ready, broken, bdev, boot, swaps, before>>

Swapoff ==
  /\ service = "swapping_off"
  /\ \E n \in offTodo :
       /\ offTodo' = offTodo \ {n}
       /\ \/ swaps' = swaps \ {n} /\ UNCHANGED failed
          \/ failed' = failed \cup {n} /\ UNCHANGED swaps
  /\ UNCHANGED <<frontendVars, service, ready, broken, bdev, boot, before>>

CleanupEnds ==
  /\ service = "swapping_off" /\ offTodo = {}
  /\ service' = "down"
  /\ UNCHANGED <<frontendVars, ready, broken, bdev, boot, swaps, offTodo, before, failed>>

Next ==
  \/ RunCommand \/ RunProxyV2 \/ AddDevice \/ GoLive \/ Mkswap \/ MkswapReturns \/ Swapon \/ UserRequest
  \/ Ends \/ ListSwaps \/ Swapoff \/ CleanupEnds
  \/ \E q \in Queues : QueueInit(q) \/ Serve(q)

Spec == Init /\ [][Next]_vars

(* The queue threads run.                                                    *)
FairSpec == Spec /\ \A q \in Queues : WF_vars(Serve(q))

-----------------------------------------------------------------------------
(* Properties.                                                               *)

(* An answer of "ok" is true of every page of the request, unless another queue *)
(* changed one of them meanwhile: what was read is there, and what was written, *)
(* discarded or zeroed can be read.  EIO means that a prefix was carried out and the *)
(* rest was not, and never answers a discard; the other errors mean that nothing was. *)
Holds(q, n) ==
  LET r == Current(q) IN
  \A i \in 1 .. n : contents[r.first + i - 1] =
    CASE r.op = "read" -> buf[q][i] [] r.op = "write" -> r.data[i] [] OTHER -> ZeroPage
AnswersAreTrue ==
  \A q \in Queues : serving[q] # NoTag =>
    LET r == Current(q) IN
    /\ answer[q] = "ok" /\ r.op # "flush" =>
         /\ r.valid /\ r.op # "unsupported" /\ done[q] = r.count
         /\ touched[q] \/ Holds(q, r.count)
    /\ answer[q] = "EIO" =>
         /\ r.valid /\ r.op # "discard" /\ done[q] < r.count
         /\ touched[q] \/ Holds(q, done[q])
    /\ answer[q] \in {"EINVAL", "EOPNOTSUPP"} =>
         done[q] = 0 /\ (~r.valid \/ r.op = "unsupported")

(* The device changes only where a request under way says so: a page outside every *)
(* request that writes, zeroes or discards keeps its contents while the process lives. *)
ChangesOnlyAsAsked ==
  [][service' = "live" => \A b \in Blocks : contents'[b] # contents[b] =>
       \E q \in Queues :
         /\ serving[q] # NoTag /\ b \in Range(Current(q))
         /\ Current(q).op \in {"write", "discard", "write_zeroes"}]_vars

(* A device is only ever active as swap space while its header is on it, whatever *)
(* mkswap's write met and whoever else uses the device.                      *)
ActiveSwapHasHeader == service = "live" /\ bdev \in swaps => contents[0] = Header

(* A cleanup swaps off the ublk devices, those of earlier runs included and even if *)
(* the command fails for another, and no other swap area (main.rs:456, "excluding *)
(* unrelated names").                                                        *)
CleanupIsExact ==
  service = "down" =>
    swaps = {n \in before : n.stem \notin {"/dev/ublkb", "/dev/ubd"} \/ n.rest # "digits"
                             \/ n \in failed}

(* Every request is answered, or its answer is lost on the way, or the process ends, *)
(* although queues are shared, pages fail, and completions fail any number of times. *)
RequestsAreAnswered ==
  \A t \in Tags : io[t] # NoRequest ~> io[t] = NoRequest
=============================================================================
