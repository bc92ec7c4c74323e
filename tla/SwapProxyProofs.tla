-------------------------- MODULE SwapProxyProofs --------------------------
(***************************************************************************)
(* The queues answer truthfully, an active swap area keeps its header, and a *)
(* cleanup ends exactly the swap areas on ublk devices: for any number of     *)
(* queues, tags and pages, any requests and any set of other swap areas.      *)
(***************************************************************************)
EXTENDS SwapProxy, TLAPS

USE FrontendAssumption, ProxyAssumption

(* The types of the variables of the queues, the history of a request included. *)
QueuesTyped ==
  /\ contents \in [Blocks -> Pages]
  /\ phase \in [Queues -> {"idle", "called", "done"}]
  /\ req \in [Queues -> Device!Request \cup {NoRequest}]
  /\ ret \in [Queues -> Pages \cup {"none", "ok", "error"}]
  /\ raced \in [Queues -> BOOLEAN] /\ touched \in [Queues -> BOOLEAN]
  /\ io \in [Tags -> BlockRequests \cup {NoRequest}]
  /\ inbox \in [Queues -> Seq(Tags)]
  /\ serving \in [Queues -> Tags \cup {NoTag}]
  /\ done \in [Queues -> Nat] /\ buf \in [Queues -> Seq(Pages)]
  /\ answer \in [Queues -> Answers] /\ outcome \in Answers
  /\ failures \in [Queues -> 0 .. MaxFailures] /\ lost \subseteq Tags

(* A queue has a tag at most once, in its inbox or in hand, while the tag's    *)
(* request is outstanding.                                                    *)
InboxOK(q) ==
  \A i \in 1 .. Len(inbox[q]) :
    /\ QueueOf[inbox[q][i]] = q /\ io[inbox[q][i]] # NoRequest
    /\ inbox[q][i] # serving[q]
    /\ \A j \in 1 .. Len(inbox[q]) : inbox[q][i] = inbox[q][j] => i = j

IdleOK(q) ==
  /\ phase[q] = "idle" /\ answer[q] = "none" /\ done[q] = 0 /\ buf[q] = <<>>
  /\ ~touched[q] /\ ~raced[q]

(* What page i of the request in hand must hold once it has been dealt with.  *)
Wanted(q, i) ==
  CASE Current(q).op = "read" -> buf[q][i]
    [] Current(q).op = "write" -> Current(q).data[i]
    [] OTHER -> ZeroPage

(* The page under way has been carried out, when the engine reports success.  *)
PageCarriedOut(q) ==
  /\ ret[q] = "error" => req[q].op # "discard"
  /\ ret[q] # "error" =>
       /\ req[q].op = "read" => ret[q] \in Pages
       /\ \/ touched[q]
          \/ contents[req[q].off] = CASE req[q].op = "read" -> ret[q]
                                      [] req[q].op = "write" -> req[q].page
                                      [] OTHER -> ZeroPage

(* A request in hand: its first pages are done, and one may be under way.     *)
BusyOK(q) ==
  LET r == Current(q) IN
  /\ QueueOf[serving[q]] = q /\ r \in BlockRequests
  /\ done[q] <= r.count /\ \A i \in 1 .. done[q] : r.first + i - 1 \in Blocks
  /\ answer[q] = "none" => Immediate(r) = "none" /\ done[q] < r.count
  /\ phase[q] = "idle" => ~raced[q]
  /\ phase[q] # "idle" => answer[q] = "none" /\ req[q] = PageRequest(q) /\ req[q] \in Device!Request
  /\ raced[q] => touched[q]
  /\ r.op = "read" => Len(buf[q]) = done[q]
  /\ touched[q] \/ Holds(q, done[q])
  /\ phase[q] = "done" => PageCarriedOut(q)

AnswerOK(q) ==
  LET r == Current(q) IN
  /\ answer[q] = "ok" /\ r.op # "flush" => r.valid /\ r.op # "unsupported" /\ done[q] = r.count
  /\ answer[q] = "EIO" => r.valid /\ r.op # "discard" /\ done[q] < r.count
  /\ answer[q] \in {"EINVAL", "EOPNOTSUPP"} => done[q] = 0 /\ (~r.valid \/ r.op = "unsupported")

QueueOK(q) ==
  /\ phase[q] = "idle" => req[q] = NoRequest
  /\ serving[q] = NoTag => IdleOK(q)
  /\ serving[q] # NoTag => BusyOK(q) /\ AnswerOK(q)

QueuesOK == QueuesTyped /\ \A q \in Queues : InboxOK(q) /\ QueueOK(q)

(* What each stage of the service's life knows of the queues and of the device. *)
Outstanding == {t \in Tags : io[t] # NoRequest}

LifeOK ==
  /\ service \in {"down", "launching", "adding", "starting", "live", "listing", "swapping_off"}
  /\ ready \subseteq Queues /\ broken \subseteq Queues \ ready
  /\ bdev \in SwapNames \cup {NoName}
  /\ boot \in {"none", "pending", "mkswap", "writing", "swapon"}
  /\ swaps \subseteq SwapNames /\ offTodo \subseteq SwapNames
  /\ before \subseteq SwapNames /\ failed \subseteq SwapNames
  /\ service # "live" => QueuesEmpty
  /\ service = "live" => ready = Queues
  /\ service \in {"starting", "live"} => bdev \in SwapNames
  /\ service = "starting" => bdev \notin swaps
  /\ boot \in {"mkswap", "writing", "swapon"} => service = "live" /\ bdev \notin swaps
  /\ boot = "pending" => service \in {"launching", "adding", "starting"}

(* mkswap is alone on the device, and its one write is answered once.         *)
BootOK ==
  /\ boot \in {"mkswap", "swapon"} => Outstanding = {}
  /\ boot = "mkswap" => outcome = "none"
  /\ boot = "writing" =>
       /\ \A t \in Outstanding : io[t] = HeaderWrite
       /\ \A t, u \in Outstanding : t = u
       /\ outcome # "none" => Outstanding = {}

(* No request outstanding can reach the header of an active swap area.        *)
HeaderOK ==
  service = "live" /\ bdev \in swaps =>
    /\ contents[0] = Header
    /\ \A t \in Outstanding : io[t].first > 0 \/ io[t].op \in {"flush", "unsupported"}

SwapProxyInv == QueuesOK /\ LifeOK /\ BootOK /\ HeaderOK

(* The cleanup at each of its stages.                                         *)
CleanupInv ==
  /\ service = "listing" => swaps = before /\ failed = {}
  /\ service = "swapping_off" =>
       /\ offTodo \cap failed = {} /\ \A n \in offTodo : IsUblkName(n)
       /\ swaps = {n \in before : ~IsUblkName(n) \/ n \in failed \cup offTodo}
  /\ service \in {"down", "launching"} =>
       swaps = {n \in before : ~IsUblkName(n) \/ n \in failed}

-----------------------------------------------------------------------------
(* What is left of a queue whose front is taken. *)
LEMMA TailElements ==
  ASSUME NEW S, NEW s \in Seq(S), s # <<>>
  PROVE  /\ Tail(s) \in Seq(S) /\ Len(s) \in Nat \ {0} /\ Len(Tail(s)) = Len(s) - 1
         /\ Head(s) = s[1] /\ s[1] \in S
         /\ \A i \in 1 .. Len(Tail(s)) : i + 1 \in 2 .. Len(s) /\ Tail(s)[i] = s[i + 1]
OBVIOUS

(* A process that has just begun, or has ended, has nothing in hand.          *)
LEMMA EmptyQueuesOK ==
  QueuesEmpty /\ contents \in [Blocks -> Pages] => QueuesOK /\ Outstanding = {}
<1> SUFFICES ASSUME QueuesEmpty, contents \in [Blocks -> Pages]
             PROVE  QueuesOK /\ Outstanding = {}
  OBVIOUS
<1>1. QueuesTyped
  BY DEF QueuesEmpty, QueuesTyped, Answers
<1>2. ASSUME NEW q \in Queues PROVE InboxOK(q) /\ QueueOK(q)
  BY DEF QueuesEmpty, InboxOK, QueueOK, IdleOK
<1>3. Outstanding = {}
  BY DEF QueuesEmpty, Outstanding
<1>4. QED BY <1>1, <1>2, <1>3 DEF QueuesOK

(* A queue whose own state, request and pages are as before is still as it should be. *)
LEMMA QueueFrame ==
  ASSUME NEW q \in Queues, QueueOK(q), contents' = contents,
         phase'[q] = phase[q], req'[q] = req[q], ret'[q] = ret[q], raced'[q] = raced[q],
         serving'[q] = serving[q], done'[q] = done[q], buf'[q] = buf[q],
         answer'[q] = answer[q], touched'[q] = touched[q],
         serving[q] # NoTag => io'[serving[q]] = io[serving[q]]
  PROVE  QueueOK(q)'
<1>1. CASE serving[q] = NoTag
  BY <1>1 DEF QueueOK, IdleOK
<1>2. CASE serving[q] # NoTag
  <2>1. Current(q)' = Current(q)
    BY <1>2 DEF Current
  <2>2. PageRequest(q)' = PageRequest(q)
    BY <2>1 DEF PageRequest
  <2>3. PageCarriedOut(q) => PageCarriedOut(q)'
    BY DEF PageCarriedOut
  <2>4. Holds(q, done[q]) => Holds(q, done[q])'
    BY <2>1 DEF Holds
  <2>5. BusyOK(q)'
    BY <1>2, <2>1, <2>2, <2>3, <2>4 DEF QueueOK, BusyOK
  <2>6. AnswerOK(q)'
    BY <1>2, <2>1 DEF QueueOK, AnswerOK
  <2>7. QED BY <1>2, <2>5, <2>6 DEF QueueOK
<1>3. QED BY <1>1, <1>2

(* A step that concerns another queue. *)
LEMMA InboxFrame ==
  ASSUME NEW q \in Queues, InboxOK(q), inbox'[q] = inbox[q], serving'[q] = serving[q],
         inbox[q] \in Seq(Tags),
         \A t \in Tags : QueueOf[t] = q /\ io[t] # NoRequest => io'[t] # NoRequest
  PROVE  InboxOK(q)'
<1>1. \A i \in 1 .. Len(inbox[q]) : inbox[q][i] \in Tags
  OBVIOUS
<1>2. QED BY <1>1 DEF InboxOK

-----------------------------------------------------------------------------
(* A request arrives: its tag goes to the end of one inbox.                   *)
LEMMA IssueKeepsQueues ==
  ASSUME QueuesOK, NEW t \in Tags, NEW r \in BlockRequests, Issue(t, r)
  PROVE  QueuesOK' /\ Outstanding' = Outstanding \cup {t} /\ io'[t] = r
<1>1. /\ io[t] = NoRequest /\ io' = [io EXCEPT ![t] = r]
      /\ inbox' = [inbox EXCEPT ![QueueOf[t]] = Append(@, t)]
      /\ UNCHANGED <<contents, phase, req, ret, raced>>
      /\ UNCHANGED <<serving, done, buf, answer, lost, outcome, failures, touched>>
  BY DEF Issue, deviceVars
<1>2. QueuesTyped /\ QueueOf[t] \in Queues /\ r # NoRequest
  BY DEF QueuesOK
<1>3. QueuesTyped'
  BY <1>1, <1>2 DEF QueuesTyped
<1>4. ASSUME NEW q \in Queues PROVE QueueOK(q)'
  <2>1. QueueOK(q)
    BY DEF QueuesOK
  <2>2. serving[q] # NoTag => io[serving[q]] # NoRequest /\ serving[q] \in Tags
    BY <1>2, <2>1 DEF QueueOK, BusyOK, Current, QueuesTyped
  <2>3. serving[q] # NoTag => io'[serving[q]] = io[serving[q]]
    BY <1>1, <1>2, <2>2 DEF QueuesTyped
  <2>4. QED BY <1>1, <2>1, <2>3, QueueFrame
<1>5. ASSUME NEW q \in Queues PROVE InboxOK(q)'
  <2>1. InboxOK(q) /\ QueueOK(q) /\ inbox[q] \in Seq(Tags)
    BY <1>2 DEF QueuesOK, QueuesTyped
  <2>2. \A u \in Tags : io[u] # NoRequest => io'[u] # NoRequest
    BY <1>1, <1>2 DEF QueuesTyped
  <2>3. CASE q # QueueOf[t]
    <3>1. inbox'[q] = inbox[q]
      BY <1>1, <1>2, <2>3 DEF QueuesTyped
    <3>2. QED BY <1>1, <2>1, <2>2, <3>1, InboxFrame
  <2>4. CASE q = QueueOf[t]
    <3>1. inbox'[q] = Append(inbox[q], t)
      BY <1>1, <1>2, <2>4 DEF QueuesTyped
    <3>2. \A i \in 1 .. Len(inbox[q]) : inbox[q][i] \in Tags /\ inbox[q][i] # t
      BY <1>1, <2>1 DEF InboxOK
    <3>3. serving[q] # t
      BY <1>1, <1>2, <2>1 DEF QueueOK, BusyOK, Current
    <3>4. /\ Len(inbox'[q]) = Len(inbox[q]) + 1
          /\ inbox'[q][Len(inbox[q]) + 1] = t
          /\ \A i \in 1 .. Len(inbox[q]) : inbox'[q][i] = inbox[q][i]
      BY <2>1, <3>1
    <3>5. io'[t] # NoRequest /\ Len(inbox[q]) \in Nat
      BY <1>1, <1>2, <2>1 DEF QueuesTyped
    <3>6. QED BY <1>1, <2>1, <2>2, <2>4, <3>2, <3>3, <3>4, <3>5 DEF InboxOK
  <2>5. QED BY <2>3, <2>4
<1>6. Outstanding' = Outstanding \cup {t} /\ io'[t] = r
  BY <1>1, <1>2 DEF Outstanding, QueuesTyped
<1>7. QED BY <1>3, <1>4, <1>5, <1>6 DEF QueuesOK

(* A step that moves none of the queues' variables but the awaited outcome.   *)
LEMMA QueuesUntouched ==
  ASSUME QueuesOK, outcome' \in Answers, UNCHANGED deviceVars,
         UNCHANGED <<io, inbox, serving, done, buf, answer, lost, failures, touched>>
  PROVE  QueuesOK' /\ Outstanding' = Outstanding
<1> USE DEF deviceVars
<1>1. QueuesTyped' /\ Outstanding' = Outstanding
  BY DEF QueuesOK, QueuesTyped, Outstanding
<1>2. ASSUME NEW q \in Queues PROVE InboxOK(q)' /\ QueueOK(q)'
  <2>1. QueueOK(q)'
    BY QueueFrame DEF QueuesOK
  <2>2. InboxOK(q)'
    BY DEF QueuesOK, InboxOK
  <2>3. QED BY <2>1, <2>2
<1>3. QED BY <1>1, <1>2 DEF QueuesOK

(* A queue takes the first tag of its inbox in hand.                          *)
LEMMA FetchKeepsQueues ==
  ASSUME QueuesOK, NEW q \in Queues, Fetch(q)
  PROVE  QueuesOK' /\ UNCHANGED <<contents, io, outcome>>
<1>1. PICK t : /\ t = Head(inbox[q]) /\ serving[q] = NoTag /\ inbox[q] # <<>>
               /\ serving' = [serving EXCEPT ![q] = t]
               /\ inbox' = [inbox EXCEPT ![q] = Tail(@)]
               /\ answer' = [answer EXCEPT ![q] = Immediate(io[t])]
               /\ UNCHANGED <<contents, phase, req, ret, raced>>
               /\ UNCHANGED <<io, done, buf, lost, outcome, failures, touched>>
  BY DEF Fetch, deviceVars
<1>2. QueuesTyped /\ inbox[q] \in Seq(Tags) /\ InboxOK(q) /\ QueueOK(q)
  BY DEF QueuesOK, QueuesTyped
<1>3. Len(inbox[q]) \in Nat \ {0} /\ inbox[q][1] = t /\ t \in Tags
  BY <1>1, <1>2, TailElements
<1>4. QueueOf[t] = q /\ io[t] \in BlockRequests
  <2>1. io \in [Tags -> BlockRequests \cup {NoRequest}]
    BY <1>2 DEF QueuesTyped
  <2>2. 1 \in 1 .. Len(inbox[q])
    BY <1>3
  <2>3. QueueOf[t] = q /\ io[t] # NoRequest
    BY <1>2, <1>3, <2>2, Zenon DEF InboxOK
  <2>4. QED
    BY <1>3, <2>1, <2>3
<1>5. Immediate(io[t]) \in Answers
  BY DEF Immediate, Answers
<1>6. QueuesTyped'
  <2>1. Tail(inbox[q]) \in Seq(Tags)
    BY <1>1, <1>2, TailElements
  <2>2. inbox' \in [Queues -> Seq(Tags)]
    BY <1>1, <1>2, <2>1 DEF QueuesTyped
  <2>3. QED BY <1>1, <1>2, <1>3, <1>5, <2>2 DEF QueuesTyped
<1>7. ASSUME NEW u \in Queues, u # q PROVE InboxOK(u)' /\ QueueOK(u)'
  <2>1. /\ serving'[u] = serving[u] /\ inbox'[u] = inbox[u] /\ answer'[u] = answer[u]
        /\ inbox[u] \in Seq(Tags)
    BY <1>1, <1>2, <1>7 DEF QueuesTyped
  <2>2. QueueOK(u)'
    BY <1>1, <2>1, QueueFrame DEF QueuesOK
  <2>3. InboxOK(u)'
    BY <1>1, <2>1, InboxFrame DEF QueuesOK
  <2>4. QED BY <2>2, <2>3
<1>8. InboxOK(q)'
  <2>1. inbox'[q] = Tail(inbox[q]) /\ serving'[q] = t
    BY <1>1, <1>2 DEF QueuesTyped
  <2>2. /\ Len(inbox'[q]) = Len(inbox[q]) - 1
        /\ \A i \in 1 .. Len(inbox'[q]) : inbox'[q][i] = inbox[q][i + 1]
    <3>1. /\ Len(Tail(inbox[q])) = Len(inbox[q]) - 1
          /\ \A i \in 1 .. Len(Tail(inbox[q])) : Tail(inbox[q])[i] = inbox[q][i + 1]
      BY <1>1, <1>2, TailElements
    <3>2. QED BY <2>1, <3>1, Zenon
  <2>3. \A i \in 1 .. Len(inbox'[q]) : i + 1 \in 1 .. Len(inbox[q]) /\ i + 1 # 1
    BY <1>3, <2>2
  <2>4. ASSUME NEW i \in 1 .. Len(inbox'[q])
        PROVE  /\ QueueOf[inbox'[q][i]] = q /\ io[inbox'[q][i]] # NoRequest
               /\ inbox'[q][i] # t
    BY <1>2, <1>3, <2>2, <2>3 DEF InboxOK
  <2>5. ASSUME NEW i \in 1 .. Len(inbox'[q]), NEW j \in 1 .. Len(inbox'[q]),
               inbox'[q][i] = inbox'[q][j]
        PROVE  i = j
    <3>1. \A k, l \in 1 .. Len(inbox[q]) : inbox[q][k] = inbox[q][l] => k = l
      BY <1>2 DEF InboxOK
    <3>2. inbox[q][i + 1] = inbox[q][j + 1] /\ {i + 1, j + 1} \subseteq 1 .. Len(inbox[q])
      BY <2>2, <2>3, <2>5
    <3>3. i + 1 = j + 1
      BY <3>1, <3>2
    <3>4. QED BY <3>3
  <2>6. QED BY <1>1, <2>1, <2>4, <2>5 DEF InboxOK
<1>9. QueueOK(q)'
  <2>1. IdleOK(q) /\ serving'[q] = t /\ answer'[q] = Immediate(io[t]) /\ t # NoTag
    BY <1>1, <1>2, <1>3 DEF QueueOK, QueuesTyped
  <2>2. Current(q)' = io[t] /\ done'[q] = 0 /\ phase'[q] = "idle" /\ ~raced'[q]
    BY <1>1, <2>1 DEF Current, IdleOK
  <2>3. /\ io[t].count \in Nat /\ io[t].op \in Ops
        /\ Immediate(io[t]) = "none" => io[t].count > 0
    BY <1>4 DEF BlockRequests, Immediate
  <2>4. Holds(q, 0)'
    BY DEF Holds
  <2>5. Len(buf'[q]) = 0
    BY <1>1, <2>1 DEF IdleOK
  <2>6. BusyOK(q)'
    BY <1>4, <2>1, <2>2, <2>3, <2>4, <2>5 DEF BusyOK
  <2>7. AnswerOK(q)'
    BY <2>1, <2>2, <2>3 DEF AnswerOK, Immediate, Ops
  <2>8. phase'[q] = "idle" => req'[q] = NoRequest
    BY <1>1, <1>2 DEF QueueOK
  <2>9. QED BY <2>1, <2>6, <2>7, <2>8 DEF QueueOK
<1>10. QED BY <1>1, <1>6, <1>7, <1>8, <1>9 DEF QueuesOK

(* The page operation asked for is of the page that comes next.               *)
LEMMA PageRequestIs ==
  ASSUME NEW q \in Queues, Current(q) \in BlockRequests
  PROVE  LET r == Current(q) p == PageRequest(q) IN
         /\ p.off = r.first + done[q]
         /\ p.op = "read" <=> r.op = "read"
         /\ p.op = "discard" <=> r.op = "discard"
         /\ p.op \in {"read", "discard", "write"}
         /\ r.op = "write" => p.op = "write" /\ p.page = r.data[done[q] + 1]
         /\ r.op \notin {"read", "write", "discard"} => p.op = "write" /\ p.page = ZeroPage
BY DEF PageRequest

(* What holds of a queue that the engine serves.                              *)
LEMMA UnderWay ==
  ASSUME QueuesOK, NEW q \in Queues, phase[q] # "idle"
  PROVE  /\ serving[q] \in Tags /\ io[serving[q]] = Current(q) /\ Current(q) \in BlockRequests
         /\ BusyOK(q) /\ AnswerOK(q) /\ answer[q] = "none" /\ Immediate(Current(q)) = "none"
         /\ req[q] = PageRequest(q) /\ req[q] \in Device!Request
         /\ req[q].off \in Blocks /\ req[q].off \in Range(Current(q))
         /\ req[q].op = "write" => req[q].page \in Pages
<1>1. QueueOK(q) /\ QueuesTyped
  BY DEF QueuesOK
<1>2. /\ serving[q] \in Tags /\ serving[q] # NoTag /\ BusyOK(q) /\ AnswerOK(q)
  BY <1>1 DEF QueueOK, IdleOK, QueuesTyped
<1>3. /\ io[serving[q]] = Current(q) /\ Current(q) \in BlockRequests /\ answer[q] = "none"
      /\ Immediate(Current(q)) = "none" /\ done[q] < Current(q).count
      /\ req[q] = PageRequest(q) /\ req[q] \in Device!Request
  BY <1>2 DEF BusyOK, Current
<1>4. req[q].off \in Blocks /\ (req[q].op = "write" => req[q].page \in Pages)
  BY <1>3 DEF Device!Request
<1>5. req[q].off = Current(q).first + done[q]
  BY <1>3, PageRequestIs
<1>6. Current(q).first \in Nat /\ Current(q).count \in Nat /\ done[q] \in Nat
  BY <1>1, <1>3 DEF BlockRequests, QueuesTyped
<1>7. req[q].off \in Range(Current(q))
  BY <1>3, <1>4, <1>5, <1>6 DEF Range
<1>8. QED BY <1>2, <1>3, <1>4, <1>7

(* A step of one queue that changes no page leaves the other queues as they were. *)
LEMMA OthersKeep ==
  ASSUME QueuesOK, NEW q \in Queues, NEW u \in Queues, u # q, contents' = contents,
         inbox'[u] = inbox[u],
         phase'[u] = phase[u], req'[u] = req[u], ret'[u] = ret[u], raced'[u] = raced[u],
         serving'[u] = serving[u], done'[u] = done[u], buf'[u] = buf[u],
         answer'[u] = answer[u], touched'[u] = touched[u],
         \A t \in Tags : QueueOf[t] # q => io'[t] = io[t]
  PROVE  InboxOK(u)' /\ QueueOK(u)'
<1>1. InboxOK(u) /\ QueueOK(u) /\ QueuesTyped /\ inbox[u] \in Seq(Tags)
  BY DEF QueuesOK, QueuesTyped
<1>2. serving[u] # NoTag => serving[u] \in Tags /\ QueueOf[serving[u]] = u
  BY <1>1 DEF QueueOK, BusyOK, QueuesTyped
<1>3. InboxOK(u)'
  BY <1>1, InboxFrame
<1>4. QueueOK(u)'
  BY <1>1, <1>2, QueueFrame
<1>5. QED BY <1>3, <1>4

(* A queue asks the engine for the next page.                                 *)
LEMMA NextPageKeepsQueues ==
  ASSUME QueuesOK, NEW q \in Queues, NextPage(q)
  PROVE  QueuesOK' /\ UNCHANGED <<contents, io, outcome>>
<1>1. PICK r \in Device!Request :
        /\ serving[q] # NoTag /\ answer[q] = "none" /\ phase[q] = "idle"
        /\ phase' = [phase EXCEPT ![q] = "called"]
        /\ req' = [req EXCEPT ![q] = r] /\ req'[q] = PageRequest(q)
        /\ UNCHANGED <<contents, ret, raced>>
        /\ UNCHANGED <<io, inbox, serving, done, buf, answer, lost, outcome, failures, touched>>
  BY DEF NextPage, Device!Invoke, queueVars
<1>2. QueuesTyped /\ InboxOK(q) /\ QueueOK(q)
  BY DEF QueuesOK
<1>3. QueuesTyped'
  BY <1>1, <1>2 DEF QueuesTyped
<1>4. ASSUME NEW u \in Queues, u # q PROVE InboxOK(u)' /\ QueueOK(u)'
  BY <1>1, <1>2, <1>4, OthersKeep DEF QueuesTyped
<1>5. InboxOK(q)'
  BY <1>1, <1>2 DEF InboxOK
<1>6. QueueOK(q)'
  <2>1. Current(q)' = Current(q) /\ PageRequest(q)' = PageRequest(q)
    BY <1>1 DEF Current, PageRequest
  <2>2. phase'[q] = "called" /\ req'[q] = PageRequest(q) /\ PageRequest(q) \in Device!Request
    BY <1>1, <1>2 DEF QueuesTyped
  <2>3. Holds(q, done[q]) => Holds(q, done[q])'
    BY <1>1, <2>1 DEF Holds
  <2>4. BusyOK(q)'
    BY <1>1, <1>2, <2>1, <2>2, <2>3 DEF QueueOK, BusyOK
  <2>5. AnswerOK(q)'
    BY <1>1, <1>2, <2>1 DEF QueueOK, AnswerOK
  <2>6. QED BY <1>1, <2>2, <2>4, <2>5 DEF QueueOK
<1>7. QED BY <1>1, <1>3, <1>4, <1>5, <1>6 DEF QueuesOK

(* The engine carries out a write or a discard: every other queue that has the *)
(* page in its request is marked as touched.                                   *)
LEMMA CommitKeepsQueues ==
  ASSUME QueuesOK, NEW q \in Queues, Device!Commit(q),
         touched' = [u \in Queues |->
             \/ touched[u]
             \/ u # q /\ serving[u] # NoTag /\ req[q].off \in Range(Current(u))],
         UNCHANGED <<io, inbox, serving, done, buf, answer, lost, outcome, failures>>
  PROVE  /\ QueuesOK' /\ io' = io /\ outcome' = outcome
         /\ \A b \in Blocks : b # req[q].off => contents'[b] = contents[b]
<1>1. PICK p \in Pages :
        /\ p = IF req[q].op = "write" THEN req[q].page ELSE ZeroPage
        /\ phase[q] = "called" /\ phase' = [phase EXCEPT ![q] = "done"]
        /\ ret' = [ret EXCEPT ![q] = "ok"] /\ req' = req
        /\ req[q].op \in {"write", "discard"}
        /\ contents' = [contents EXCEPT ![req[q].off] = p]
        /\ raced' = [u \in Queues |->
                      \/ raced[u]
                      \/ /\ phase[u] = "called"
                         /\ req[u].op = "read" /\ req[u].off = req[q].off]
  BY UnderWay DEF Device!Commit, Device!Finish
<1>2. QueuesTyped /\ QueueOK(q) /\ req[q].off \in Blocks
  BY <1>1, UnderWay DEF QueuesOK
<1>3. QueuesTyped'
  <2>1. raced' \in [Queues -> BOOLEAN] /\ touched' \in [Queues -> BOOLEAN]
    BY <1>1
  <2>2. QED BY <1>1, <1>2, <2>1 DEF QueuesTyped
<1>4. \A b \in Blocks : b # req[q].off => contents'[b] = contents[b]
  BY <1>1, <1>2 DEF QueuesTyped
<1>5. ASSUME NEW u \in Queues PROVE InboxOK(u)'
  BY <1>5 DEF QueuesOK, InboxOK
<1>6. ASSUME NEW u \in Queues PROVE Current(u)' = Current(u) /\ PageRequest(u)' = PageRequest(u)
  BY <1>1 DEF Current, PageRequest
<1>7. ASSUME NEW u \in Queues, u # q PROVE QueueOK(u)'
  <2>1. QueueOK(u)
    BY DEF QueuesOK
  <2>2. /\ phase'[u] = phase[u] /\ ret'[u] = ret[u]
        /\ raced'[u] => raced[u] \/ (phase[u] = "called" /\ req[u].off = req[q].off)
    BY <1>1, <1>2, <1>7 DEF QueuesTyped
  <2>3. /\ touched[u] => touched'[u]
        /\ serving[u] # NoTag /\ req[q].off \in Range(Current(u)) => touched'[u]
        /\ serving[u] = NoTag /\ touched'[u] => touched[u]
    BY <1>7
  <2>4. CASE serving[u] = NoTag
    BY <1>1, <2>1, <2>2, <2>3, <2>4 DEF QueueOK, IdleOK
  <2>5. CASE serving[u] # NoTag
    <3>1. /\ BusyOK(u) /\ AnswerOK(u) /\ Current(u) \in BlockRequests /\ done[u] \in Nat
          /\ done[u] <= Current(u).count /\ Current(u).first \in Nat /\ Current(u).count \in Nat
      BY <1>2, <2>1, <2>5 DEF QueueOK, BusyOK, QueuesTyped, BlockRequests
    <3>2. ASSUME ~touched'[u]
          PROVE  /\ ~touched[u] /\ req[q].off \notin Range(Current(u))
                 /\ \A b \in Range(Current(u)) : contents'[b] = contents[b]
      BY <1>4, <2>3, <2>5, <3>2 DEF Range
    <3>3. touched'[u] \/ Holds(u, done[u])'
      <4>1. \A i \in 1 .. done[u] : Current(u).first + i - 1 \in Range(Current(u))
        BY <3>1 DEF BusyOK, Range
      <4>2. SUFFICES ASSUME ~touched'[u] PROVE Holds(u, done[u])'
        OBVIOUS
      <4>3. Holds(u, done[u])
        BY <3>1, <3>2, <4>2 DEF BusyOK
      <4>4. QED BY <1>6, <3>2, <4>1, <4>2, <4>3 DEF Holds
    <3>4. raced'[u] => touched'[u]
      <4>1. CASE raced[u]
        BY <2>3, <3>1, <4>1 DEF BusyOK
      <4>2. CASE phase[u] = "called" /\ req[u].off = req[q].off
        BY <2>3, <2>5, <4>2, UnderWay
      <4>3. QED BY <2>2, <4>1, <4>2
    <3>5. phase[u] = "done" => PageCarriedOut(u)'
      <4>1. SUFFICES ASSUME phase[u] = "done" PROVE PageCarriedOut(u)'
        OBVIOUS
      <4>2. PageCarriedOut(u) /\ req[u].off \in Range(Current(u))
        BY <3>1, <4>1, UnderWay DEF BusyOK
      <4>3. touched'[u] \/ (contents'[req[u].off] = contents[req[u].off] /\ ~touched[u])
        BY <3>2, <4>2
      <4>4. QED BY <1>1, <2>2, <4>2, <4>3 DEF PageCarriedOut
    <3>6. BusyOK(u)'
      BY <1>1, <1>6, <2>2, <3>1, <3>3, <3>4, <3>5 DEF BusyOK
    <3>7. AnswerOK(u)'
      BY <1>6, <3>1 DEF AnswerOK
    <3>8. QED BY <1>1, <2>1, <2>2, <2>5, <3>6, <3>7 DEF QueueOK
  <2>6. QED BY <2>4, <2>5
<1>8. QueueOK(q)'
  <2>1. /\ serving[q] # NoTag /\ BusyOK(q) /\ AnswerOK(q) /\ Current(q) \in BlockRequests
        /\ req[q].off = Current(q).first + done[q]
    BY <1>1, <1>2, UnderWay, PageRequestIs
  <2>2. /\ phase'[q] = "done" /\ ret'[q] = "ok" /\ contents'[req[q].off] = p
    BY <1>1, <1>2 DEF QueuesTyped
  <2>3. (touched'[q] <=> touched[q]) /\ (raced'[q] => raced[q])
    BY <1>1
  <2>4. Holds(q, done[q]) => Holds(q, done[q])'
    <3>1. /\ done[q] \in Nat /\ Current(q).first \in Nat
          /\ \A i \in 1 .. done[q] : Current(q).first + i - 1 \in Blocks
      BY <1>2, <2>1 DEF BusyOK, QueuesTyped, BlockRequests
    <3>2. \A i \in 1 .. done[q] :
             contents'[Current(q).first + i - 1] = contents[Current(q).first + i - 1]
      BY <1>4, <2>1, <3>1
    <3>3. QED BY <1>6, <3>2 DEF Holds
  <2>5. PageCarriedOut(q)'
    BY <1>1, <2>2 DEF PageCarriedOut
  <2>6. BusyOK(q)'
    BY <1>1, <1>6, <2>1, <2>2, <2>3, <2>4, <2>5 DEF BusyOK
  <2>7. AnswerOK(q)'
    BY <1>6, <2>1 DEF AnswerOK
  <2>8. QED BY <2>1, <2>2, <2>6, <2>7 DEF QueueOK
<1>9. QED BY <1>3, <1>4, <1>5, <1>7, <1>8 DEF QueuesOK

(* A read finds its page, or a read or a write fails: nothing changes but what *)
(* the engine will answer.                                                      *)
LEMMA QuietStepKeepsQueues ==
  ASSUME QueuesOK, NEW q \in Queues, Device!ReadValue(q) \/ Device!Fail(q),
         UNCHANGED <<io, inbox, serving, done, buf, answer, lost, outcome, failures, touched>>
  PROVE  QueuesOK' /\ UNCHANGED <<contents, io, outcome>>
<1>1. PICK v \in Pages \cup {"error"} :
        /\ phase[q] = "called" /\ phase' = [phase EXCEPT ![q] = "done"]
        /\ ret' = [ret EXCEPT ![q] = v] /\ UNCHANGED <<req, contents, raced>>
        /\ req[q].op # "discard"
        /\ v # "error" => /\ req[q].op = "read" /\ v \in Pages
                          /\ raced[q] \/ v = contents[req[q].off]
  BY DEF Device!ReadValue, Device!Fail, Device!Finish
<1>2. QueuesTyped /\ InboxOK(q) /\ QueueOK(q)
  BY DEF QueuesOK
<1>3. QueuesTyped'
  BY <1>1, <1>2 DEF QueuesTyped
<1>4. ASSUME NEW u \in Queues, u # q PROVE InboxOK(u)' /\ QueueOK(u)'
  BY <1>1, <1>2, <1>4, OthersKeep DEF QueuesTyped
<1>5. InboxOK(q)'
  BY <1>2 DEF InboxOK
<1>6. QueueOK(q)'
  <2>1. /\ serving[q] # NoTag /\ BusyOK(q) /\ AnswerOK(q)
    BY <1>1, <1>2, UnderWay
  <2>2. Current(q)' = Current(q) /\ PageRequest(q)' = PageRequest(q)
    BY DEF Current, PageRequest
  <2>3. phase'[q] = "done" /\ ret'[q] = v
    BY <1>1, <1>2 DEF QueuesTyped
  <2>4. PageCarriedOut(q)'
    BY <1>1, <2>1, <2>3 DEF PageCarriedOut, BusyOK
  <2>5. Holds(q, done[q]) => Holds(q, done[q])'
    BY <1>1, <2>2 DEF Holds
  <2>6. BusyOK(q)'
    BY <1>1, <2>1, <2>2, <2>3, <2>4, <2>5 DEF BusyOK
  <2>7. AnswerOK(q)'
    BY <2>1, <2>2 DEF AnswerOK
  <2>8. QED BY <2>1, <2>3, <2>6, <2>7 DEF QueueOK
<1>7. QED BY <1>1, <1>3, <1>4, <1>5, <1>6 DEF QueuesOK

(* A page is done, or the request fails at it.                                *)
LEMMA PageDoneKeepsQueues ==
  ASSUME QueuesOK, NEW q \in Queues, PageDone(q)
  PROVE  QueuesOK' /\ UNCHANGED <<contents, io, outcome>>
<1>1. /\ phase[q] = "done" /\ phase' = [phase EXCEPT ![q] = "idle"]
      /\ req' = [req EXCEPT ![q] = NoRequest] /\ ret' = [ret EXCEPT ![q] = "none"]
      /\ raced' = [raced EXCEPT ![q] = FALSE] /\ contents' = contents
      /\ UNCHANGED <<io, inbox, serving, lost, outcome, failures, touched>>
  BY DEF PageDone, Device!Reply
<1>2. QueuesTyped /\ InboxOK(q) /\ QueueOK(q)
  BY DEF QueuesOK
<1> DEFINE r == Current(q)
<1>3. /\ serving[q] # NoTag /\ BusyOK(q) /\ AnswerOK(q) /\ answer[q] = "none"
      /\ r \in BlockRequests /\ Immediate(r) = "none" /\ PageCarriedOut(q)
      /\ req[q] = PageRequest(q) /\ req[q].off = r.first + done[q] /\ req[q].off \in Blocks
  BY <1>1, UnderWay, PageRequestIs DEF BusyOK
<1>4. /\ done[q] \in Nat /\ r.count \in Nat /\ r.first \in Nat /\ done[q] < r.count
      /\ r.op \in {"read", "write", "discard", "write_zeroes"} /\ r.valid
      /\ buf[q] \in Seq(Pages)
  BY <1>2, <1>3 DEF BlockRequests, QueuesTyped, BusyOK, Immediate, Ops
<1>5. Current(q)' = Current(q)
  BY <1>1 DEF Current
<1>6. /\ phase'[q] = "idle" /\ req'[q] = NoRequest /\ raced'[q] = FALSE
  BY <1>1, <1>2 DEF QueuesTyped
<1>7. ASSUME NEW u \in Queues, u # q, done'[u] = done[u], buf'[u] = buf[u], answer'[u] = answer[u]
      PROVE  InboxOK(u)' /\ QueueOK(u)'
  BY <1>1, <1>2, <1>7, OthersKeep DEF QueuesTyped
<1>8. InboxOK(q)'
  BY <1>1, <1>2 DEF InboxOK
<1>9. CASE ret[q] = "error" /\ answer' = [answer EXCEPT ![q] = "EIO"] /\ UNCHANGED <<done, buf>>
  <2>1. QueuesTyped' /\ answer'[q] = "EIO"
    BY <1>1, <1>2, <1>9 DEF QueuesTyped, Answers
  <2>2. \A u \in Queues : u # q => InboxOK(u)' /\ QueueOK(u)'
    BY <1>2, <1>7, <1>9 DEF QueuesTyped
  <2>3. Holds(q, done[q]) => Holds(q, done[q])'
    BY <1>1, <1>5, <1>9 DEF Holds
  <2>4. r.op # "discard"
    BY <1>3, <1>9, PageRequestIs DEF PageCarriedOut
  <2>5. BusyOK(q)'
    BY <1>1, <1>3, <1>5, <1>6, <1>9, <2>1, <2>3 DEF BusyOK
  <2>6. AnswerOK(q)'
    BY <1>4, <1>5, <1>9, <2>1, <2>4 DEF AnswerOK
  <2>7. QueueOK(q)'
    BY <1>1, <1>3, <1>6, <2>5, <2>6 DEF QueueOK
  <2>8. QED BY <1>1, <1>8, <1>9, <2>1, <2>2, <2>7 DEF QueuesOK
<1>10. CASE /\ ret[q] # "error"
            /\ done' = [done EXCEPT ![q] = @ + 1]
            /\ buf' = IF req[q].op = "read" THEN [buf EXCEPT ![q] = Append(@, ret[q])] ELSE buf
            /\ answer' = IF done[q] + 1 = Current(q).count
                           THEN [answer EXCEPT ![q] = "ok"] ELSE answer
  <2>1. /\ done'[q] = done[q] + 1
        /\ answer'[q] = IF done[q] + 1 = r.count THEN "ok" ELSE "none"
        /\ \A u \in Queues : u # q => /\ done'[u] = done[u] /\ buf'[u] = buf[u]
                                      /\ answer'[u] = answer[u]
    BY <1>2, <1>3, <1>10 DEF QueuesTyped
  <2>2. buf'[q] = IF r.op = "read" THEN Append(buf[q], ret[q]) ELSE buf[q]
    BY <1>2, <1>3, <1>10, PageRequestIs DEF QueuesTyped
  <2>3. r.op = "read" => ret[q] \in Pages /\ Len(buf[q]) = done[q]
    BY <1>3, <1>10, PageRequestIs DEF PageCarriedOut, BusyOK
  <2>4. buf'[q] \in Seq(Pages)
    BY <1>4, <2>2, <2>3
  <2>5. QueuesTyped'
    <3>1. done' \in [Queues -> Nat]
      BY <1>2, <1>10 DEF QueuesTyped
    <3>2. buf' \in [Queues -> Seq(Pages)]
      BY <1>2, <1>3, <1>4, <1>10, <2>3, PageRequestIs DEF QueuesTyped
    <3>3. answer' \in [Queues -> Answers]
      BY <1>2, <1>10 DEF QueuesTyped, Answers
    <3>4. QED BY <1>1, <1>2, <3>1, <3>2, <3>3 DEF QueuesTyped
  <2>6. \A u \in Queues : u # q => InboxOK(u)' /\ QueueOK(u)'
    BY <1>7, <2>1
  <2>7. \A i \in 1 .. done[q] + 1 : r.first + i - 1 \in Blocks
    <3>1. \A i \in 1 .. done[q] : r.first + i - 1 \in Blocks
      BY <1>3 DEF BusyOK
    <3>2. r.first + (done[q] + 1) - 1 = req[q].off
      BY <1>3, <1>4
    <3>3. \A i \in 1 .. done[q] + 1 : i \in 1 .. done[q] \/ i = done[q] + 1
      BY <1>4
    <3>4. QED BY <1>3, <3>1, <3>2, <3>3
  <2>8. touched'[q] \/ Holds(q, done[q])'
    <3>1. SUFFICES ASSUME ~touched[q] PROVE Holds(q, done[q])'
      BY <1>1
    <3>2. Holds(q, done[q])
      BY <1>3, <3>1 DEF BusyOK
    <3>3. contents[req[q].off] = CASE req[q].op = "read" -> ret[q]
                                   [] req[q].op = "write" -> req[q].page
                                   [] OTHER -> ZeroPage
      BY <1>3, <1>10, <3>1 DEF PageCarriedOut
    <3>4. contents[r.first + done[q]] = CASE r.op = "read" -> ret[q]
                                          [] r.op = "write" -> r.data[done[q] + 1]
                                          [] OTHER -> ZeroPage
      BY <1>3, <1>4, <3>3, PageRequestIs
    <3>5. r.op = "read" => /\ \A i \in 1 .. done[q] : buf'[q][i] = buf[q][i]
                           /\ buf'[q][done[q] + 1] = ret[q]
      BY <1>4, <2>2, <2>3
    <3>6. \A i \in 1 .. done[q] + 1 : i \in 1 .. done[q] \/ i = done[q] + 1
      BY <1>4
    <3>7. r.first + (done[q] + 1) - 1 = r.first + done[q]
      BY <1>4
    <3>8. ASSUME NEW i \in 1 .. done[q] + 1
          PROVE  contents[r.first + i - 1] = CASE r.op = "read" -> buf'[q][i]
                                               [] r.op = "write" -> r.data[i]
                                               [] OTHER -> ZeroPage
      <4>1. CASE i = done[q] + 1
        BY <3>4, <3>5, <3>7, <4>1
      <4>2. CASE i \in 1 .. done[q]
        BY <3>2, <3>5, <4>2 DEF Holds
      <4>3. QED BY <3>6, <4>1, <4>2
    <3>9. QED BY <1>1, <1>5, <2>1, <3>8 DEF Holds
  <2>9. done[q] + 1 <= r.count /\ (answer'[q] = "none" => done[q] + 1 < r.count)
    BY <1>4, <2>1
  <2>10. r.op = "read" => Len(buf'[q]) = done[q] + 1
    BY <1>4, <2>2, <2>3
  <2>11. BusyOK(q)'
    BY <1>1, <1>3, <1>5, <1>6, <2>1, <2>7, <2>8, <2>9, <2>10 DEF BusyOK
  <2>12. AnswerOK(q)'
    BY <1>4, <1>5, <2>1 DEF AnswerOK
  <2>13. QueueOK(q)'
    BY <1>1, <1>3, <1>6, <2>11, <2>12 DEF QueueOK
  <2>14. QED BY <1>1, <1>8, <2>5, <2>6, <2>13 DEF QueuesOK
<1>11. QED BY <1>9, <1>10 DEF PageDone

(* The answer of a request is delivered, or lost: its tag is out of hand.     *)
LEMMA CompleteKeepsQueues ==
  ASSUME QueuesOK, NEW q \in Queues, Complete(q)
  PROVE  /\ QueuesOK' /\ contents' = contents
         /\ serving[q] \in Outstanding /\ Outstanding' = Outstanding \ {serving[q]}
         /\ \A t \in Outstanding' : io'[t] = io[t]
         /\ serving[q] # NoTag
<1>1. /\ answer[q] # "none" /\ io' = [io EXCEPT ![serving[q]] = NoRequest]
      /\ serving' = [serving EXCEPT ![q] = NoTag] /\ answer' = [answer EXCEPT ![q] = "none"]
      /\ done' = [done EXCEPT ![q] = 0] /\ buf' = [buf EXCEPT ![q] = <<>>]
      /\ touched' = [touched EXCEPT ![q] = FALSE]
      /\ UNCHANGED <<contents, phase, req, ret, raced, inbox>>
      /\ \/ /\ outcome' = IF Current(q).sync THEN answer[q] ELSE outcome
            /\ failures' = [failures EXCEPT ![q] = 0] /\ UNCHANGED lost
         \/ /\ lost' = lost \cup {serving[q]} /\ UNCHANGED outcome
            /\ failures' = [failures EXCEPT ![q] = IF @ < MaxFailures THEN @ + 1 ELSE @]
  BY DEF Complete, deviceVars
<1>2. QueuesTyped /\ InboxOK(q) /\ QueueOK(q)
  BY DEF QueuesOK
<1>3. /\ serving[q] \in Tags /\ serving[q] # NoTag /\ QueueOf[serving[q]] = q
      /\ io[serving[q]] \in BlockRequests /\ phase[q] = "idle" /\ req[q] = NoRequest /\ ~raced[q]
  BY <1>1, <1>2 DEF QueuesTyped, QueueOK, IdleOK, BusyOK, Current
<1>4. QueuesTyped'
  <2>1. outcome' \in Answers /\ lost' \subseteq Tags
    BY <1>1, <1>2, <1>3 DEF QueuesTyped
  <2>2. failures' \in [Queues -> 0 .. MaxFailures]
    <3>1. failures \in [Queues -> 0 .. MaxFailures] /\ failures[q] \in 0 .. MaxFailures
      BY <1>2 DEF QueuesTyped
    <3>2. PICK n \in 0 .. MaxFailures : failures' = [failures EXCEPT ![q] = n]
      <4>1. CASE failures' = [failures EXCEPT ![q] = 0]
        <5>1. 0 \in 0 .. MaxFailures
          OBVIOUS
        <5>2. QED BY <4>1, <5>1, Zenon
      <4>2. CASE failures' = [failures EXCEPT ![q] = IF @ < MaxFailures THEN @ + 1 ELSE @]
        <5>1. (IF failures[q] < MaxFailures THEN failures[q] + 1 ELSE failures[q])
                \in 0 .. MaxFailures
          BY <3>1
        <5>2. QED BY <4>2, <5>1, Zenon
      <4>3. QED BY <1>1, <4>1, <4>2
    <3>3. QED BY <3>1, <3>2
  <2>3. answer' \in [Queues -> Answers] /\ buf' \in [Queues -> Seq(Pages)]
    BY <1>1, <1>2 DEF QueuesTyped, Answers
  <2>4. QED BY <1>1, <1>2, <2>1, <2>2, <2>3 DEF QueuesTyped
<1>5. /\ \A t \in Tags : t # serving[q] => io'[t] = io[t]
      /\ io'[serving[q]] = NoRequest
  BY <1>1, <1>2, <1>3 DEF QueuesTyped
<1>6. ASSUME NEW u \in Queues, u # q PROVE InboxOK(u)' /\ QueueOK(u)'
  <2>1. /\ inbox'[u] = inbox[u] /\ contents' = contents
        /\ phase'[u] = phase[u] /\ req'[u] = req[u] /\ ret'[u] = ret[u] /\ raced'[u] = raced[u]
    BY <1>1
  <2>2. /\ serving'[u] = serving[u] /\ done'[u] = done[u] /\ buf'[u] = buf[u]
        /\ answer'[u] = answer[u] /\ touched'[u] = touched[u]
    BY <1>1, <1>2, <1>6 DEF QueuesTyped
  <2>3. \A t \in Tags : QueueOf[t] # q => io'[t] = io[t]
    BY <1>3, <1>5
  <2>4. QED
    BY <1>6, <2>1, <2>2, <2>3, OthersKeep
<1>7. InboxOK(q)'
  <2>1. \A i \in 1 .. Len(inbox[q]) : inbox[q][i] \in Tags /\ inbox[q][i] # serving[q]
    <3>1. inbox[q] \in Seq(Tags)
      BY <1>2 DEF QueuesTyped
    <3>2. \A i \in 1 .. Len(inbox[q]) : inbox[q][i] \in Tags
      BY <3>1
    <3>3. QED BY <1>2, <3>2 DEF InboxOK
  <2>2. serving'[q] = NoTag
    BY <1>1, <1>2 DEF QueuesTyped
  <2>3. QED BY <1>1, <1>2, <1>5, <2>1, <2>2 DEF InboxOK
<1>8. QueueOK(q)'
  BY <1>1, <1>2, <1>3 DEF QueueOK, IdleOK, QueuesTyped
<1>9. /\ serving[q] \in Outstanding /\ Outstanding' = Outstanding \ {serving[q]}
      /\ \A t \in Outstanding' : io'[t] = io[t]
  BY <1>3, <1>5 DEF Outstanding
<1>10. QED BY <1>1, <1>3, <1>4, <1>6, <1>7, <1>8, <1>9 DEF QueuesOK

(* What a step of a queue does to the requests outstanding, to the outcome that *)
(* mkswap waits for and to the pages of the device.                            *)
LEMMA ServeKeepsQueues ==
  ASSUME QueuesOK, NEW q \in Queues, ServeStep(q)
  PROVE  /\ QueuesOK'
         /\ \/ Outstanding' = Outstanding /\ outcome' = outcome
            \/ \E t \in Outstanding : Outstanding' = Outstanding \ {t}
         /\ \A t \in Outstanding' : io'[t] = io[t]
         /\ \A b \in Blocks : contents'[b] # contents[b] =>
              /\ serving[q] \in Outstanding /\ serving[q] # NoTag
              /\ b \in Range(Current(q))
              /\ Current(q).op \in {"write", "discard", "write_zeroes"}
<1>1. CASE Fetch(q) \/ NextPage(q) \/ PageDone(q)
  BY <1>1, FetchKeepsQueues, NextPageKeepsQueues, PageDoneKeepsQueues DEF Outstanding
<1>2. CASE Complete(q)
  BY <1>2, CompleteKeepsQueues
<1> DEFINE Rest == UNCHANGED <<io, inbox, serving, done, buf, answer, lost, outcome, failures>>
<1>3. CASE /\ Device!Commit(q) /\ Rest
           /\ touched' = [u \in Queues |->
                \/ touched[u]
                \/ u # q /\ serving[u] # NoTag /\ req[q].off \in Range(Current(u))]
  <2>1. /\ QueuesOK' /\ io' = io /\ outcome' = outcome
        /\ \A b \in Blocks : b # req[q].off => contents'[b] = contents[b]
    BY <1>3, CommitKeepsQueues
  <2>2. phase[q] # "idle" /\ req[q].op \in {"write", "discard"}
    BY <1>3 DEF Device!Commit, Device!Finish
  <2>3. /\ serving[q] \in Tags /\ Current(q) = io[serving[q]] /\ Current(q) \in BlockRequests
        /\ Immediate(Current(q)) = "none" /\ req[q] = PageRequest(q)
        /\ req[q].off \in Range(Current(q))
    BY <2>2, UnderWay
  <2>4. Current(q).op \in {"write", "discard", "write_zeroes"}
    BY <2>2, <2>3, PageRequestIs DEF BlockRequests, Ops, Immediate
  <2>5. serving[q] \in Outstanding
    BY <2>3 DEF Outstanding
  <2>6. Outstanding' = Outstanding
    BY <2>1 DEF Outstanding
  <2>7. QED BY <2>1, <2>3, <2>4, <2>5, <2>6
<1>4. CASE (Device!ReadValue(q) \/ Device!Fail(q)) /\ Rest /\ UNCHANGED touched
  <2>1. QueuesOK' /\ UNCHANGED <<contents, io, outcome>>
    BY <1>4, QuietStepKeepsQueues
  <2>2. QED BY <2>1 DEF Outstanding
<1>5. QED BY <1>1, <1>2, <1>3, <1>4 DEF ServeStep, EngineStep

-----------------------------------------------------------------------------
(* The proxy starts before its device exists. *)
LEMMA InitSwapProxy == Init => SwapProxyInv
<1> SUFFICES ASSUME Init PROVE SwapProxyInv
  OBVIOUS
<1>1. QueuesEmpty /\ contents \in [Blocks -> Pages]
  BY DEF Init, FrontendInit
<1>2. QueuesOK /\ Outstanding = {}
  BY <1>1, EmptyQueuesOK
<1>3. LifeOK
  BY <1>1 DEF Init, LifeOK
<1>4. BootOK /\ HeaderOK
  BY DEF Init, BootOK, HeaderOK
<1>5. QED BY <1>2, <1>3, <1>4 DEF SwapProxyInv

(* Steps of the service's life that leave the queues alone.                   *)
LEMMA LifeStepKeeps ==
  ASSUME SwapProxyInv, UNCHANGED frontendVars,
         \/ RunCommand \/ RunProxyV2 \/ AddDevice \/ GoLive \/ Swapon
         \/ ListSwaps \/ Swapoff \/ CleanupEnds \/ \E q \in Queues : QueueInit(q)
  PROVE  SwapProxyInv'
<1>1. QueuesOK' /\ Outstanding' = Outstanding /\ outcome' = outcome /\ io' = io
  BY QueuesUntouched DEF SwapProxyInv, frontendVars, queueVars, deviceVars, QueuesOK, QueuesTyped
<1>2. QueuesEmpty => QueuesEmpty'
  BY DEF QueuesEmpty, frontendVars, queueVars, deviceVars
<1>3. QueuesEmpty => Outstanding = {} /\ outcome = "none"
  BY DEF QueuesEmpty, Outstanding
<1>4. contents' = contents
  BY DEF frontendVars, deviceVars
<1>5. LifeOK /\ BootOK /\ HeaderOK
  BY DEF SwapProxyInv
<1>6. CASE RunCommand
  <2>1. LifeOK'
    BY <1>2, <1>5, <1>6 DEF RunCommand, LifeOK
  <2>2. BootOK' /\ HeaderOK'
    BY <1>6 DEF RunCommand, BootOK, HeaderOK
  <2>3. QED BY <1>1, <2>1, <2>2 DEF SwapProxyInv
<1>7. CASE RunProxyV2
  <2>1. LifeOK'
    BY <1>2, <1>5, <1>7 DEF RunProxyV2, RunRealProxy, LifeOK
  <2>2. BootOK' /\ HeaderOK'
    BY <1>5, <1>7 DEF RunProxyV2, RunRealProxy, LifeOK, BootOK, HeaderOK
  <2>3. QED BY <1>1, <2>1, <2>2 DEF SwapProxyInv
<1>8. CASE AddDevice
  <2>1. LifeOK'
    BY <1>2, <1>5, <1>8 DEF AddDevice, LifeOK
  <2>2. BootOK' /\ HeaderOK'
    BY <1>5, <1>8 DEF AddDevice, LifeOK, BootOK, HeaderOK
  <2>3. QED BY <1>1, <2>1, <2>2 DEF SwapProxyInv
<1>9. CASE GoLive
  <2>1. LifeOK'
    BY <1>2, <1>5, <1>9 DEF GoLive, LifeOK
  <2>2. BootOK' /\ HeaderOK'
    BY <1>1, <1>3, <1>5, <1>9 DEF GoLive, LifeOK, BootOK, HeaderOK
  <2>3. QED BY <1>1, <2>1, <2>2 DEF SwapProxyInv
<1>10. CASE Swapon
  <2>1. LifeOK'
    BY <1>2, <1>5, <1>10 DEF Swapon, LifeOK
  <2>2. BootOK' /\ HeaderOK'
    BY <1>1, <1>4, <1>5, <1>10 DEF Swapon, LifeOK, BootOK, HeaderOK
  <2>3. QED BY <1>1, <2>1, <2>2 DEF SwapProxyInv
<1>11. CASE ListSwaps
  <2>1. LifeOK'
    BY <1>2, <1>5, <1>11 DEF ListSwaps, LifeOK
  <2>2. BootOK' /\ HeaderOK'
    BY <1>5, <1>11 DEF ListSwaps, LifeOK, BootOK, HeaderOK
  <2>3. QED BY <1>1, <2>1, <2>2 DEF SwapProxyInv
<1>12. CASE Swapoff
  <2>1. LifeOK'
    BY <1>2, <1>5, <1>12 DEF Swapoff, LifeOK
  <2>2. BootOK' /\ HeaderOK'
    BY <1>5, <1>12 DEF Swapoff, LifeOK, BootOK, HeaderOK
  <2>3. QED BY <1>1, <2>1, <2>2 DEF SwapProxyInv
<1>13. CASE CleanupEnds
  <2>1. LifeOK'
    BY <1>2, <1>5, <1>13 DEF CleanupEnds, LifeOK
  <2>2. BootOK' /\ HeaderOK'
    BY <1>5, <1>13 DEF CleanupEnds, LifeOK, BootOK, HeaderOK
  <2>3. QED BY <1>1, <2>1, <2>2 DEF SwapProxyInv
<1>14. CASE \E q \in Queues : QueueInit(q)
  <2>1. LifeOK'
    BY <1>2, <1>5, <1>14 DEF QueueInit, LifeOK
  <2>2. BootOK' /\ HeaderOK'
    BY <1>5, <1>14 DEF QueueInit, LifeOK, BootOK, HeaderOK
  <2>3. QED BY <1>1, <2>1, <2>2 DEF SwapProxyInv
<1>15. QED BY <1>6, <1>7, <1>8, <1>9, <1>10, <1>11, <1>12, <1>13, <1>14

(* mkswap writes its header on a device that nobody else uses yet.             *)
LEMMA MkswapKeeps ==
  ASSUME SwapProxyInv, Mkswap
  PROVE  SwapProxyInv'
<1>1. QueuesOK /\ LifeOK /\ BootOK /\ HeaderOK
  BY DEF SwapProxyInv
<1>2. boot = "mkswap" /\ UNCHANGED <<service, ready, broken, bdev, swaps, offTodo, before, failed>>
  BY DEF Mkswap
<1>3. Outstanding = {} /\ outcome = "none" /\ service = "live" /\ bdev \notin swaps
  BY <1>1, <1>2 DEF LifeOK, BootOK
<1>4. HeaderOK'
  BY <1>2, <1>3 DEF HeaderOK
<1>5. CASE boot' = "writing" /\ \E t \in Tags : Issue(t, HeaderWrite)
  <2>1. PICK t \in Tags : Issue(t, HeaderWrite)
    BY <1>5
  <2>2. HeaderWrite \in BlockRequests
    BY DEF HeaderWrite, BlockRequest, BlockRequests, Ops
  <2>3. QueuesOK' /\ Outstanding' = {t} /\ io'[t] = HeaderWrite /\ outcome' = "none"
    BY <1>1, <1>3, <2>1, <2>2, IssueKeepsQueues DEF Issue
  <2>4. LifeOK'
    BY <1>1, <1>2, <1>3, <1>5 DEF LifeOK
  <2>5. BootOK'
    BY <1>5, <2>3, Zenon DEF BootOK
  <2>6. QED BY <1>4, <2>3, <2>4, <2>5 DEF SwapProxyInv
<1>6. CASE boot' = "none" /\ UNCHANGED frontendVars
  <2>1. QueuesOK'
    BY <1>1, <1>6, QueuesUntouched
    DEF frontendVars, queueVars, deviceVars, QueuesOK, QueuesTyped
  <2>2. LifeOK' /\ BootOK'
    BY <1>1, <1>2, <1>3, <1>6 DEF LifeOK, BootOK
  <2>3. QED BY <1>4, <2>1, <2>2 DEF SwapProxyInv
<1>7. QED BY <1>5, <1>6 DEF Mkswap

(* mkswap returns only when nothing is outstanding any more.                   *)
LEMMA MkswapReturnsKeeps ==
  ASSUME SwapProxyInv, MkswapReturns
  PROVE  SwapProxyInv'
<1>1. QueuesOK /\ LifeOK /\ BootOK /\ HeaderOK
  BY DEF SwapProxyInv
<1>2. /\ boot = "writing" /\ outcome # "none" /\ outcome' = "none" /\ boot' \in {"swapon", "none"}
      /\ UNCHANGED <<service, ready, broken, bdev, swaps, offTodo, before, failed>>
      /\ UNCHANGED deviceVars
      /\ UNCHANGED <<io, inbox, serving, done, buf, answer, lost, failures, touched>>
  BY DEF MkswapReturns
<1>3. Outstanding = {} /\ service = "live" /\ bdev \notin swaps
  BY <1>1, <1>2 DEF LifeOK, BootOK
<1>4. QueuesOK' /\ Outstanding' = {}
  BY <1>1, <1>2, <1>3, QueuesUntouched DEF Answers
<1>5. LifeOK'
  BY <1>1, <1>2, <1>3 DEF LifeOK
<1>6. BootOK' /\ HeaderOK'
  BY <1>2, <1>3, <1>4 DEF BootOK, HeaderOK
<1>7. QED BY <1>4, <1>5, <1>6 DEF SwapProxyInv

(* The users of the device respect the header of an active swap area.         *)
LEMMA UserRequestKeeps ==
  ASSUME SwapProxyInv, UserRequest
  PROVE  SwapProxyInv'
<1>1. QueuesOK /\ LifeOK /\ BootOK /\ HeaderOK
  BY DEF SwapProxyInv
<1>2. PICK t \in Tags, r \in BlockRequests :
        /\ service = "live" /\ boot = "none" /\ UNCHANGED lifeVars /\ Issue(t, r)
        /\ bdev \in swaps => r.first > 0 \/ r.op \in {"flush", "unsupported"}
  BY DEF UserRequest
<1>3. QueuesOK' /\ Outstanding' = Outstanding \cup {t} /\ io'[t] = r
  BY <1>1, <1>2, IssueKeepsQueues
<1>4. contents' = contents /\ \A u \in Outstanding : io'[u] = io[u]
  BY <1>1, <1>2 DEF Issue, deviceVars, Outstanding, QueuesOK, QueuesTyped
<1>5. LifeOK' /\ BootOK'
  BY <1>1, <1>2 DEF LifeOK, BootOK, lifeVars
<1>6. HeaderOK'
  BY <1>1, <1>2, <1>3, <1>4 DEF HeaderOK, lifeVars
<1>7. QED BY <1>3, <1>5, <1>6 DEF SwapProxyInv

(* A queue's step: it changes no page outside the request in hand, so not the *)
(* header of an active swap area.                                             *)
LEMMA ServeKeeps ==
  ASSUME SwapProxyInv, NEW q \in Queues, Serve(q)
  PROVE  SwapProxyInv'
<1>1. QueuesOK /\ LifeOK /\ BootOK /\ HeaderOK
  BY DEF SwapProxyInv
<1>2. service = "live" /\ ServeStep(q)
      /\ UNCHANGED <<service, ready, broken, bdev, boot, swaps, offTodo, before, failed>>
  BY DEF Serve, lifeVars
<1>3. /\ QueuesOK'
      /\ \/ Outstanding' = Outstanding /\ outcome' = outcome
         \/ \E t \in Outstanding : Outstanding' = Outstanding \ {t}
      /\ \A t \in Outstanding' : io'[t] = io[t]
      /\ contents'[0] # contents[0] =>
           /\ serving[q] \in Outstanding /\ serving[q] # NoTag
           /\ 0 \in Range(Current(q))
           /\ Current(q).op \in {"write", "discard", "write_zeroes"}
  BY <1>1, <1>2, ServeKeepsQueues
<1>4. LifeOK'
  BY <1>1, <1>2 DEF LifeOK
<1>5. BootOK'
  BY <1>1, <1>2, <1>3 DEF BootOK
<1>6. HeaderOK'
  <2>1. SUFFICES ASSUME bdev \in swaps PROVE HeaderOK'
    BY <1>2 DEF HeaderOK
  <2>2. contents[0] = Header
        /\ \A t \in Outstanding : io[t].first > 0 \/ io[t].op \in {"flush", "unsupported"}
    BY <1>1, <1>2, <2>1 DEF HeaderOK
  <2>3. contents'[0] = contents[0]
    <3>1. SUFFICES ASSUME contents'[0] # contents[0] PROVE FALSE
      OBVIOUS
    <3>2. /\ Current(q).first > 0 /\ Current(q).first <= 0
      BY <1>3, <2>2, <3>1 DEF Current, Range
    <3>3. Current(q).first \in Nat
      BY <1>1, <1>3, <3>1 DEF Outstanding, QueuesOK, QueuesTyped, Current, BlockRequests
    <3>4. QED BY <3>2, <3>3
  <2>4. \A t \in Outstanding' : t \in Outstanding
    BY <1>3
  <2>5. QED BY <1>3, <2>2, <2>3, <2>4 DEF HeaderOK
<1>7. QED BY <1>3, <1>4, <1>5, <1>6 DEF SwapProxyInv

(* The process ends: its device and all that its queues had in hand are gone. *)
LEMMA EndsKeeps ==
  ASSUME SwapProxyInv, Ends
  PROVE  SwapProxyInv'
<1>1. QueuesEmpty' /\ (contents \in [Blocks -> Pages])'
  BY DEF Ends, QueuesReset, QueuesEmpty
<1>2. QueuesOK'
  BY <1>1, EmptyQueuesOK, PTL
<1>3. LifeOK'
  BY <1>1 DEF Ends, LifeOK, SwapProxyInv
<1>4. BootOK' /\ HeaderOK'
  BY DEF Ends, BootOK, HeaderOK
<1>5. QED BY <1>2, <1>3, <1>4 DEF SwapProxyInv

(* Every step keeps the invariant. *)
LEMMA SwapProxyInvStep == SwapProxyInv /\ [Next]_vars => SwapProxyInv'
<1> SUFFICES ASSUME SwapProxyInv, [Next]_vars PROVE SwapProxyInv'
  OBVIOUS
<1>1. CASE \/ RunCommand \/ RunProxyV2 \/ AddDevice \/ GoLive \/ Swapon
           \/ ListSwaps \/ Swapoff \/ CleanupEnds \/ \E q \in Queues : QueueInit(q)
  <2>1. UNCHANGED frontendVars
    BY <1>1 DEF RunCommand, RunProxyV2, AddDevice, GoLive, Swapon, ListSwaps, Swapoff,
       CleanupEnds, QueueInit
  <2>2. QED BY <1>1, <2>1, LifeStepKeeps
<1>2. CASE Mkswap \/ MkswapReturns \/ UserRequest \/ Ends
  BY <1>2, MkswapKeeps, MkswapReturnsKeeps, UserRequestKeeps, EndsKeeps
<1>3. CASE \E q \in Queues : Serve(q)
  BY <1>3, ServeKeeps
<1>4. CASE UNCHANGED vars
  <2>1. UNCHANGED frontendVars /\ UNCHANGED lifeVars
    BY <1>4 DEF vars
  <2>2. QueuesOK' /\ Outstanding' = Outstanding /\ outcome' = outcome /\ io' = io
        /\ contents' = contents
    BY <2>1, QueuesUntouched
    DEF SwapProxyInv, frontendVars, queueVars, deviceVars, QueuesOK, QueuesTyped
  <2>3. QueuesEmpty => QueuesEmpty'
    BY <2>1 DEF QueuesEmpty, frontendVars, queueVars, deviceVars
  <2>4. LifeOK'
    BY <2>1, <2>3 DEF SwapProxyInv, LifeOK, lifeVars
  <2>5. BootOK' /\ HeaderOK'
    BY <2>1, <2>2 DEF SwapProxyInv, BootOK, HeaderOK, lifeVars
  <2>6. QED BY <2>2, <2>4, <2>5 DEF SwapProxyInv
<1>5. QED BY <1>1, <1>2, <1>3, <1>4 DEF Next

(* The inductive invariant of the proxy. *)
LEMMA SwapProxyInvariant == Spec => []SwapProxyInv
<1>1. QED BY InitSwapProxy, SwapProxyInvStep, PTL DEF Spec

-----------------------------------------------------------------------------
(* The cleanup: listing gives exactly the ublk devices, and each of them is   *)
(* either ended or remembered as failed.                                      *)
LEMMA CleanupStep == SwapProxyInv /\ CleanupInv /\ [Next]_vars => CleanupInv'
<1> SUFFICES ASSUME SwapProxyInv, CleanupInv, [Next]_vars PROVE CleanupInv'
  OBVIOUS
<1>1. CASE UNCHANGED <<service, swaps, before, failed, offTodo>>
  BY <1>1 DEF CleanupInv
<1>2. CASE RunCommand \/ RunProxyV2 \/ AddDevice \/ GoLive \/ Ends
  BY <1>2 DEF RunCommand, RunProxyV2, RunRealProxy, AddDevice, GoLive, Ends, CleanupInv
<1>3. CASE Swapon
  BY <1>3 DEF Swapon, CleanupInv, SwapProxyInv, LifeOK
<1>4. CASE ListSwaps
  <2>1. CASE offTodo' = {n \in swaps : IsUblkName(n)} /\ UNCHANGED failed
    BY <1>4, <2>1 DEF ListSwaps, CleanupInv
  <2>2. CASE offTodo' = {} /\ failed' = swaps
    BY <1>4, <2>2 DEF ListSwaps, CleanupInv
  <2>3. QED BY <1>4, <2>1, <2>2 DEF ListSwaps
<1>5. CASE Swapoff
  <2>1. PICK n \in offTodo :
          /\ offTodo' = offTodo \ {n}
          /\ \/ swaps' = swaps \ {n} /\ UNCHANGED failed
             \/ failed' = failed \cup {n} /\ UNCHANGED swaps
    BY <1>5 DEF Swapoff
  <2>2. service = "swapping_off" /\ service' = service /\ before' = before
    BY <1>5 DEF Swapoff
  <2>3. QED BY <2>1, <2>2 DEF CleanupInv
<1>6. CASE CleanupEnds
  BY <1>6 DEF CleanupEnds, CleanupInv
<1>7. QED
  BY <1>1, <1>2, <1>3, <1>4, <1>5, <1>6
  DEF Next, vars, lifeVars, Mkswap, MkswapReturns, UserRequest, QueueInit, Serve

-----------------------------------------------------------------------------
(* The variables keep their types; what a queue has in hand is an outstanding  *)
(* request of one of its own tags, the page it asks the engine for lies within *)
(* that request, and the device is live only when every queue is set up.       *)
THEOREM SwapProxyTypeCorrect == Spec => []TypeOK
<1>1. SwapProxyInv => TypeOK
  <2> SUFFICES ASSUME SwapProxyInv PROVE TypeOK
    OBVIOUS
  <2>1. QueuesTyped /\ LifeOK /\ \A q \in Queues : QueueOK(q)
    BY DEF SwapProxyInv, QueuesOK
  <2>2. ASSUME NEW q \in Queues, serving[q] # NoTag
        PROVE  /\ QueueOf[serving[q]] = q /\ io[serving[q]] # NoRequest
               /\ done[q] <= io[serving[q]].count
               /\ req[q] # NoRequest => answer[q] = "none" /\ req[q].off \in Range(io[serving[q]])
    <3>1. BusyOK(q) /\ (phase[q] = "idle" => req[q] = NoRequest)
      BY <2>1, <2>2 DEF QueueOK
    <3>2. req[q] # NoRequest => answer[q] = "none" /\ req[q].off \in Range(io[serving[q]])
      BY <3>1, UnderWay DEF SwapProxyInv, Current
    <3>3. QED BY <3>1, <3>2 DEF BusyOK, Current
  <2>3. FrontendTypeOK
    BY <2>1, <2>2 DEF FrontendTypeOK, QueuesTyped
  <2>4. QED BY <2>1, <2>3 DEF TypeOK, LifeOK
<1>2. QED BY <1>1, SwapProxyInvariant, PTL

(* Every answer says what was done: "ok" that every page was dealt with, EIO    *)
(* that a prefix was, the other errors that none was; and the device still      *)
(* shows it, unless another queue has changed a page of the request since.      *)
THEOREM AnswersAlwaysTrue == Spec => []AnswersAreTrue
<1>1. SwapProxyInv => AnswersAreTrue
  <2> SUFFICES ASSUME SwapProxyInv, NEW q \in Queues, serving[q] # NoTag
               PROVE  LET r == Current(q) IN
                      /\ answer[q] = "ok" /\ r.op # "flush" =>
                           /\ r.valid /\ r.op # "unsupported" /\ done[q] = r.count
                           /\ touched[q] \/ Holds(q, r.count)
                      /\ answer[q] = "EIO" =>
                           /\ r.valid /\ r.op # "discard" /\ done[q] < r.count
                           /\ touched[q] \/ Holds(q, done[q])
                      /\ answer[q] \in {"EINVAL", "EOPNOTSUPP"} =>
                           done[q] = 0 /\ (~r.valid \/ r.op = "unsupported")
    BY DEF AnswersAreTrue
  <2>1. BusyOK(q) /\ AnswerOK(q)
    BY DEF SwapProxyInv, QueuesOK, QueueOK
  <2>2. QED BY <2>1 DEF BusyOK, AnswerOK
<1>2. QED BY <1>1, SwapProxyInvariant, PTL

(* A page changes only under a request in hand that writes, zeroes or discards it. *)
THEOREM PagesChangeOnlyAsAsked == Spec => ChangesOnlyAsAsked
<1>1. ASSUME SwapProxyInv, [Next]_vars
      PROVE  service' = "live" => \A b \in Blocks : contents'[b] # contents[b] =>
               \E q \in Queues :
                 /\ serving[q] # NoTag /\ b \in Range(Current(q))
                 /\ Current(q).op \in {"write", "discard", "write_zeroes"}
  <2>1. CASE contents' = contents
    BY <2>1
  <2>2. CASE Ends
    BY <2>2 DEF Ends
  <2>3. CASE \E q \in Queues : Serve(q)
    BY <1>1, <2>3, ServeKeepsQueues DEF Serve, SwapProxyInv
  <2>4. contents' = contents \/ Ends \/ \E q \in Queues : Serve(q)
    BY <1>1 DEF Next, vars, frontendVars, deviceVars, RunCommand, RunProxyV2, AddDevice,
       GoLive, Mkswap, MkswapReturns, Swapon, UserRequest, ListSwaps, Swapoff, CleanupEnds,
       QueueInit, Issue
  <2>5. QED BY <2>1, <2>2, <2>3, <2>4
<1>2. QED BY <1>1, SwapProxyInvariant, PTL DEF Spec, ChangesOnlyAsAsked

(* An active swap area has its header, from swapon until the process ends.     *)
THEOREM ActiveSwapAlwaysHasHeader == Spec => []ActiveSwapHasHeader
<1>1. SwapProxyInv => ActiveSwapHasHeader
  BY DEF SwapProxyInv, HeaderOK, ActiveSwapHasHeader
<1>2. QED BY <1>1, SwapProxyInvariant, PTL

(* cleanup_after_crash ends the ublk swap areas that it can, and no other.     *)
THEOREM CleanupAlwaysExact == Spec => []CleanupIsExact
<1>1. Init => CleanupInv
  BY DEF Init, CleanupInv
<1>2. CleanupInv => CleanupIsExact
  BY DEF CleanupInv, CleanupIsExact, IsUblkName
<1>3. QED BY <1>1, <1>2, CleanupStep, SwapProxyInvariant, PTL DEF Spec

=============================================================================
