----------------------- MODULE ProxyRefinementProofs -----------------------
(***************************************************************************)
(* In real mode the engine implements PageDevice, for any number of threads, *)
(* offsets, pages and slots.  The mapping takes the contents of a page from   *)
(* the translation table and the store, so a write takes effect when its       *)
(* translation is installed, and a discard when it is removed.  Exclusive      *)
(* ownership of slots (ProxyOwnershipProofs) is what makes every other step a  *)
(* stutter: a store write goes to a slot that no page maps.  The lemmas about   *)
(* the steps that the device sees need no ownership; ProxyDedupProofs uses them  *)
(* for the dry run.                                                            *)
(***************************************************************************)
EXTENDS ProxyOwnershipProofs

USE BackendAssumption, DedupAssumption, EngineAssumption, RequestAssumption

(* Between the store write and replace_mapping the thread's slot holds its    *)
(* page; between the lookup and the load of a read that nothing overlapped, the *)
(* page still maps the slot that the lookup found.                              *)
WrittenIsStored == \A t \in Threads : pc[t] = "map" => store[entry[t].slot] = req[t].page
LookupIsCurrent ==
  \A t \in Threads : pc[t] = "load" /\ ~raced[t] => Maps(req[t].off, slot[t])

RefinementInv == TypeInv /\ WrittenIsStored /\ LookupIsCurrent

PhaseOf(label) == IF label = "idle" THEN "idle"
                  ELSE IF label \in {"release", "reply"} THEN "done" ELSE "called"

(* The abstract phase of a thread follows its place in the handler. *)
LEMMA PhaseIs == \A t \in Threads : Phase[t] = PhaseOf(pc[t])
BY DEF Phase, PhaseOf

(* A step of one thread moves the abstract phase of that thread only. *)
LEMMA PhaseMoves ==
  ASSUME TypeOK, NEW t \in Threads, NEW label, Goto(t, label)
  PROVE  Phase' = [Phase EXCEPT ![t] = PhaseOf(label)]
<1>1. pc \in [Threads -> PCs] /\ pc' = [pc EXCEPT ![t] = label]
  BY DEF TypeOK, Goto
<1>2. \A u \in Threads : Phase'[u] = PhaseOf(pc'[u])
  BY DEF Phase, PhaseOf
<1>3. \A u \in Threads : Phase'[u] = IF u = t THEN PhaseOf(label) ELSE Phase[u]
  BY <1>1, <1>2, PhaseIs
<1>4. QED BY <1>3 DEF Phase

(* A step within a handler that has not decided its answer, or within the     *)
(* release after it, is a stutter of the phase.                               *)
LEMMA PhaseStays ==
  ASSUME TypeOK, NEW t \in Threads, NEW label, Goto(t, label), PhaseOf(label) = PhaseOf(pc[t])
  PROVE  Phase' = Phase
<1>1. Phase' = [Phase EXCEPT ![t] = Phase[t]]
  BY PhaseMoves, PhaseIs
<1>2. QED BY <1>1 DEF Phase

(* The device's contents depend on the translation table and on mapped slots. *)
LEMMA ContentsStay ==
  ASSUME translation' = translation,
         \A o \in Offsets : translation[o] # NoEntry
                            => store'[translation[o].slot] = store[translation[o].slot]
  PROVE  Contents' = Contents
BY DEF Contents

-----------------------------------------------------------------------------
(* The initial state of ProxyEngine::new is an all-zero device, idle. *)
LEMMA InitRefines == Init => RefinementInv /\ Device!Init
<1> SUFFICES ASSUME Init PROVE RefinementInv /\ Device!Init
  OBVIOUS
<1>1. RefinementInv
  BY InitType DEF Init, RefinementInv, WrittenIsStored, LookupIsCurrent
<1>2. Contents = [o \in Offsets |-> ZeroPage]
  BY DEF Init, BackendInit, Contents
<1>3. Phase = [t \in Threads |-> "idle"]
  <2>1. \A t \in Threads : Phase[t] = "idle"
    BY PhaseIs DEF Init, PhaseOf
  <2>2. QED BY <2>1 DEF Phase
<1>4. Device!Init
  BY <1>2, <1>3, Zenon DEF Init, Device!Init
<1>5. QED BY <1>1, <1>4

(* A request reaches a handler: Invoke. *)
LEMMA InvokeRefines ==
  ASSUME RefinementInv, NEW t \in Threads, Invoke(t)
  PROVE  WrittenIsStored' /\ LookupIsCurrent' /\ Device!Invoke(t)
<1> USE DEF RefinementInv, TypeInv
<1>1. PICK r \in Request : req' = [req EXCEPT ![t] = r] /\ Goto(t, r.op)
  BY DEF Invoke
<1>2. r.op \in {"read", "write", "discard"}
  BY DEF Request
<1>3. pc \in [Threads -> PCs] /\ req \in [Threads -> Request \cup {NoRequest}]
  BY DEF TypeOK
<1>4. UNCHANGED <<backendVars, slot, entry, ret, raced>> /\ pc[t] = "idle"
  BY DEF Invoke
<1>5. WrittenIsStored' /\ LookupIsCurrent'
  BY <1>1, <1>2, <1>3, <1>4
  DEF WrittenIsStored, LookupIsCurrent, Goto, backendVars, Maps
<1>6. Phase' = [Phase EXCEPT ![t] = "called"] /\ Phase[t] = "idle"
  BY <1>1, <1>2, <1>4, PhaseMoves, PhaseIs DEF PhaseOf
<1>7. Contents' = Contents
  BY <1>4, ContentsStay DEF backendVars
<1>8. r \in Device!Request
  BY DEF Request, Device!Request
<1>9. Device!Invoke(t)
  BY <1>1, <1>4, <1>6, <1>7, <1>8, Zenon DEF Device!Invoke
<1>10. QED BY <1>5, <1>9

(* Finding the way through handle_write and handle_read, and releasing what    *)
(* was displaced after the answer is decided, are not seen from outside.       *)
LEMMA QuietRefines ==
  ASSUME RefinementInv, OwnershipInv, NEW t \in Threads,
         \/ WriteBegin(t)
         \/ AllocateDirect(t) /\ ~Return(t, "full")
         \/ StoreDirect(t)
         \/ ReleaseMapping(t)
         \/ ReadLookup(t) /\ translation[req[t].off] # NoEntry
  PROVE  WrittenIsStored' /\ LookupIsCurrent' /\ UNCHANGED Device!vars
<1> USE DEF RefinementInv, OwnershipInv, TypeInv
<1>1. /\ pc \in [Threads -> PCs] /\ store \in [Slots -> Pages]
      /\ slot \in [Threads -> Slots \cup {TotalSlots}]
      /\ entry \in [Threads -> TranslationEntry \cup {NoEntry}]
  BY DEF TypeOK, BackendTypeOK
<1>2. UNCHANGED <<translation, req, ret, raced>>
  BY DEF WriteBegin, AllocateDirect, AllocateSlot, StoreDirect, ReleaseMapping, ReadLookup,
     backendVars, allocatorVars, Return
<1>3. PICK label \in {"direct_alloc", "direct_store", "map", "unwind", "reply", "load"} :
        /\ Goto(t, label)
        /\ PhaseOf(label) = PhaseOf(pc[t])
        /\ label = "map" => StoreDirect(t)
        /\ label = "load" => ReadLookup(t) /\ translation[req[t].off] # NoEntry
  BY DEF WriteBegin, AllocateDirect, AllocateSlot, StoreDirect, ReleaseMapping, ReadLookup,
     PhaseOf, PassthroughInv, AllocatorExhausted
<1>4. CASE StoreDirect(t)
  <2>1. /\ slot[t] \in Slots /\ Owns(t, slot[t])
        /\ \E p \in Pages : store' = [store EXCEPT ![slot[t]] = p]
        /\ slot' = slot
    BY <1>4, <1>1 DEF StoreDirect, WritePage, WritePageFails, LocalsOK, WritePCs, SlotPCs, Owns
  <2>2. \A s \in Slots \ {slot[t]} : store'[s] = store[s]
    BY <1>1, <2>1
  <2>3. \A o \in Offsets : translation[o] # NoEntry
          => translation[o].slot \in Slots /\ translation[o].slot # slot[t]
    BY <2>1 DEF TypeOK, BackendTypeOK, TranslationEntry, SlotOwnership, InFlightIsPrivate, Maps
  <2>4. Contents' = Contents
    BY <1>2, <2>2, <2>3, ContentsStay
  <2>5. ASSUME NEW u \in Threads, u # t, pc[u] = "map"
        PROVE  store'[entry[u].slot] = req[u].page /\ entry'[u] = entry[u]
    <3>1. Owns(u, entry[u].slot) /\ entry[u].slot \in Slots
      BY <2>5 DEF Owns, LocalsOK, TranslationEntry
    <3>2. entry[u].slot # slot[t]
      BY <2>1, <2>5, <3>1 DEF SlotOwnership, ThreadsShareNoSlot
    <3>3. entry'[u] = entry[u]
      BY <1>1, <1>4, <2>5 DEF StoreDirect
    <3>4. QED BY <2>2, <2>5, <3>1, <3>2, <3>3 DEF WrittenIsStored
  <2>6. pc'[t] = "map" => store'[entry'[t].slot] = req[t].page
    BY <1>1, <1>4, <2>1 DEF StoreDirect, WritePage, Direct, Goto
  <2>7. \A u \in Threads : u # t => pc'[u] = pc[u]
    BY <1>1, <1>3 DEF Goto
  <2>8. WrittenIsStored'
    BY <1>2, <2>5, <2>6, <2>7 DEF WrittenIsStored
  <2>9. LookupIsCurrent'
    BY <1>1, <1>2, <1>4, <2>1 DEF LookupIsCurrent, Maps, StoreDirect, Goto
  <2>10. QED BY <1>2, <1>3, <2>4, <2>8, <2>9, PhaseStays DEF Device!vars
<1>5. CASE ~StoreDirect(t)
  <2>1. UNCHANGED <<store, entry>>
    BY <1>5 DEF WriteBegin, AllocateDirect, AllocateSlot, ReleaseMapping, ReadLookup, backendVars
  <2>2. Contents' = Contents
    BY <1>2, <2>1, ContentsStay
  <2>3. \A u \in Threads : u # t => pc'[u] = pc[u] /\ slot'[u] = slot[u]
    BY <1>1, <1>3, <1>5
    DEF Goto, WriteBegin, AllocateDirect, AllocateSlot, ReleaseMapping, ReadLookup
  <2>4. pc'[t] # "map" /\ (pc'[t] = "load" => Maps(req[t].off, slot'[t]))
    BY <1>1, <1>3, <1>5 DEF Goto, ReadLookup, Maps
  <2>5. WrittenIsStored'
    BY <1>2, <2>1, <2>3, <2>4 DEF WrittenIsStored
  <2>6. LookupIsCurrent'
    BY <1>2, <2>3, <2>4 DEF LookupIsCurrent, Maps
  <2>7. QED BY <1>2, <1>3, <2>2, <2>5, <2>6, PhaseStays DEF Device!vars
<1>6. QED BY <1>4, <1>5

(* A write that fails, for lack of space or because the store did: Fail.  The  *)
(* slot it may have given back was not a page's.                               *)
LEMMA FailureRefines ==
  ASSUME RefinementInv, NEW t \in Threads,
         \/ (AllocateDirect(t) \/ AllocateUnique(t)) /\ Return(t, "full")
         \/ Verify(t) /\ Return(t, "eio")
         \/ Unwind(t)
  PROVE  WrittenIsStored' /\ LookupIsCurrent' /\ Device!Fail(t)
<1> USE DEF RefinementInv, TypeInv
<1>1. pc \in [Threads -> PCs] /\ slot \in [Threads -> Slots \cup {TotalSlots}]
  BY DEF TypeOK
<1>2. UNCHANGED <<store, translation, req, entry, raced>>
  BY <1>1 DEF AllocateDirect, AllocateUnique, AllocateSlot, Unwind, Verify, Return, Goto, backendVars
<1>3. PICK e \in Errors : Return(t, e)
  BY DEF Unwind, Errors
<1>4. pc[t] \in {"verify", "direct_alloc", "unique_alloc", "unwind"} /\ req[t].op # "discard"
  BY DEF AllocateDirect, AllocateUnique, AllocateSlot, Unwind, Verify, LocalsOK, WritePCs
<1>5. \A u \in Threads : pc'[u] = IF u = t THEN "reply" ELSE pc[u]
  BY <1>1, <1>3 DEF Return, Goto
<1>6. \A u \in Threads : u # t => slot'[u] = slot[u]
  BY <1>1 DEF AllocateDirect, AllocateUnique, AllocateSlot, Unwind, Verify
<1>7. WrittenIsStored' /\ LookupIsCurrent'
  BY <1>2, <1>5, <1>6 DEF WrittenIsStored, LookupIsCurrent, Maps
<1>8. Phase' = [Phase EXCEPT ![t] = "done"] /\ Phase[t] = "called"
  BY <1>3, <1>4, PhaseMoves, PhaseIs DEF Return, PhaseOf
<1>9. Contents' = Contents
  BY <1>2, ContentsStay
<1>10. Device!Fail(t)
  BY <1>2, <1>3, <1>4, <1>8, <1>9 DEF Device!Fail, Device!Finish, Return
<1>11. QED BY <1>7, <1>10

(* A read answers: a page that is not mapped is zero; otherwise the slot that   *)
(* the lookup found still belongs to the page, unless a write or discard of it   *)
(* has overlapped the read.                                                    *)
LEMMA ReadRefines ==
  ASSUME RefinementInv, NEW t \in Threads,
         \/ ReadLookup(t) /\ translation[req[t].off] = NoEntry
         \/ ReadLoad(t)
  PROVE  WrittenIsStored' /\ LookupIsCurrent' /\ (Device!ReadValue(t) \/ Device!Fail(t))
<1> USE DEF RefinementInv, TypeInv
<1>1. /\ pc \in [Threads -> PCs] /\ store \in [Slots -> Pages]
      /\ slot \in [Threads -> Slots \cup {TotalSlots}]
  BY DEF TypeOK, BackendTypeOK
<1>2. UNCHANGED <<store, translation, req, slot, entry, raced>>
  BY DEF ReadLookup, ReadLoad, backendVars
<1>3. pc[t] \in {"read", "load"} /\ req[t].op = "read" /\ req[t].off \in Offsets
  BY DEF ReadLookup, ReadLoad, LocalsOK
<1>4. PICK v : Return(t, v) /\ (v = "eio" \/ (v \in Pages /\ (raced[t] \/ v = Contents[req[t].off])))
  <2>1. CASE ReadLookup(t) /\ translation[req[t].off] = NoEntry
    <3>1. Contents[req[t].off] = ZeroPage
      BY <1>3, <2>1 DEF Contents
    <3>2. QED BY <2>1, <3>1 DEF ReadLookup
  <2>2. CASE ReadLoad(t) /\ Return(t, "eio")
    BY <2>2
  <2>3. CASE ReadLoad(t) /\ slot[t] \in Slots /\ Return(t, store[slot[t]])
    <3>1. store[slot[t]] \in Pages
      BY <1>1, <2>3
    <3>2. ~raced[t] => store[slot[t]] = Contents[req[t].off]
      BY <1>3, <2>3 DEF LookupIsCurrent, Maps, Contents, ReadLoad
    <3>3. QED BY <2>3, <3>1, <3>2
  <2>4. QED BY <2>1, <2>2, <2>3 DEF ReadLoad
<1>5. \A u \in Threads : pc'[u] = IF u = t THEN "reply" ELSE pc[u]
  BY <1>1, <1>4 DEF Return, Goto
<1>6. WrittenIsStored' /\ LookupIsCurrent'
  BY <1>2, <1>5 DEF WrittenIsStored, LookupIsCurrent, Maps
<1>7. Phase' = [Phase EXCEPT ![t] = "done"] /\ Phase[t] = "called"
  BY <1>3, <1>4, PhaseMoves, PhaseIs DEF Return, PhaseOf
<1>8. Contents' = Contents
  BY <1>2, ContentsStay
<1>9. Device!Finish(t, v)
  BY <1>2, <1>4, <1>7 DEF Device!Finish, Return
<1>10. CASE v = "eio"
  BY <1>2, <1>3, <1>6, <1>7, <1>8, <1>9, <1>10 DEF Device!Fail, Errors
<1>11. CASE v \in Pages /\ (raced[t] \/ v = Contents[req[t].off])
  BY <1>2, <1>3, <1>6, <1>7, <1>8, <1>9, <1>11 DEF Device!ReadValue
<1>12. QED BY <1>4, <1>10, <1>11

(* The translation of a page changes: a write or a discard takes effect, and   *)
(* every read of the page that is under way has been overlapped.               *)
LEMMA CommitRefines ==
  ASSUME RefinementInv, NEW t \in Threads, MapPage(t) \/ Discard(t)
  PROVE  WrittenIsStored' /\ LookupIsCurrent' /\ Device!Commit(t)
<1> USE DEF RefinementInv, TypeInv
<1> DEFINE o == req[t].off
           e == IF pc[t] = "map" THEN entry[t] ELSE NoEntry
<1>1. /\ pc \in [Threads -> PCs] /\ translation \in [Offsets -> TranslationEntry \cup {NoEntry}]
      /\ raced \in [Threads -> BOOLEAN]
  BY DEF TypeOK, BackendTypeOK
<1>2. /\ UNCHANGED <<store, req, slot, entry>>
      /\ translation' = [translation EXCEPT ![o] = e]
      /\ Displace(t, o) /\ pc[t] \in {"map", "discard"}
  BY DEF MapPage, Discard
<1>3. /\ o \in Offsets
      /\ pc[t] = "map" => req[t].op = "write" /\ e \in TranslationEntry /\ e # NoEntry
      /\ pc[t] = "discard" => req[t].op = "discard" /\ e = NoEntry
  <2>1. o \in Offsets
    BY <1>2 DEF LocalsOK, WritePCs
  <2>2. pc[t] = "map" => req[t].op = "write" /\ e \in TranslationEntry /\ e # NoEntry
    BY DEF LocalsOK, WritePCs
  <2>3. pc[t] = "discard" => req[t].op = "discard" /\ e = NoEntry
    BY DEF LocalsOK
  <2>4. QED BY <2>1, <2>2, <2>3
<1>4. PICK label \in {"reply", "release"} : Goto(t, label)
  BY <1>2 DEF Displace
<1>5. \A u \in Threads : pc'[u] = IF u = t THEN label ELSE pc[u]
  BY <1>1, <1>4 DEF Goto
<1>6. WrittenIsStored'
  BY <1>2, <1>5 DEF WrittenIsStored
<1>7. LookupIsCurrent'
  <2> SUFFICES ASSUME NEW u \in Threads, pc'[u] = "load", ~raced'[u]
               PROVE  Maps(req[u].off, slot[u])'
    BY <1>2 DEF LookupIsCurrent, Maps
  <2>1. pc[u] = "load" /\ ~raced[u] /\ req[u].off # o
    BY <1>2, <1>5 DEF Displace
  <2>2. Maps(req[u].off, slot[u]) /\ req[u].off \in Offsets
    BY <2>1 DEF LookupIsCurrent, LocalsOK
  <2>3. QED BY <1>1, <1>2, <2>1, <2>2 DEF Maps
<1>8. Phase' = [Phase EXCEPT ![t] = "done"] /\ Phase[t] = "called"
  BY <1>2, <1>4, PhaseMoves, PhaseIs DEF PhaseOf
<1>9. Contents' = [Contents EXCEPT ![o] = IF req[t].op = "write" THEN req[t].page ELSE ZeroPage]
  <2>1. \A p \in Offsets : p # o => Contents'[p] = Contents[p]
    BY <1>1, <1>2 DEF Contents
  <2>2. pc[t] = "map" => Contents'[o] = req[t].page
    BY <1>1, <1>2, <1>3 DEF Contents, WrittenIsStored
  <2>3. pc[t] = "discard" => Contents'[o] = ZeroPage
    BY <1>1, <1>2, <1>3 DEF Contents
  <2>4. Contents'[o] = IF req[t].op = "write" THEN req[t].page ELSE ZeroPage
    BY <1>2, <1>3, <2>2, <2>3
  <2>5. QED BY <1>3, <2>1, <2>4 DEF Contents
<1>10. raced' = [u \in Threads |->
                  raced[u] \/ (Phase[u] = "called" /\ req[u].op = "read" /\ req[u].off = o)]
  <2>1. ASSUME NEW u \in Threads
        PROVE  pc[u] \in {"read", "load"} <=> Phase[u] = "called" /\ req[u].op = "read"
    <3>1. pc[u] \in PCs /\ Phase[u] = PhaseOf(pc[u])
      BY <1>1, PhaseIs
    <3>2. CASE pc[u] \in {"read", "load"}
      BY <3>1, <3>2 DEF PhaseOf, LocalsOK
    <3>3. CASE pc[u] \in WritePCs
      BY <3>3 DEF LocalsOK, WritePCs
    <3>4. CASE pc[u] = "discard"
      BY <3>4 DEF LocalsOK
    <3>5. CASE pc[u] \in {"idle", "release", "reply"}
      BY <3>1, <3>5 DEF PhaseOf
    <3>6. QED BY <3>1, <3>2, <3>3, <3>4, <3>5 DEF PCs, WritePCs
  <2>2. QED BY <1>2, <2>1, Zenon DEF Displace
<1>11. Device!Finish(t, "ok")
  BY <1>2, <1>8 DEF Device!Finish, Displace
<1>12. req[t].op \in {"write", "discard"}
  BY <1>2, <1>3
<1>13. Device!Commit(t)
  BY <1>9, <1>10, <1>11, <1>12, Zenon DEF Device!Commit
<1>14. QED BY <1>6, <1>7, <1>13

(* The handler returns: Reply. *)
LEMMA ReplyRefines ==
  ASSUME RefinementInv, NEW t \in Threads, Reply(t)
  PROVE  WrittenIsStored' /\ LookupIsCurrent' /\ Device!Reply(t)
<1> USE DEF RefinementInv, TypeInv
<1>1. /\ pc \in [Threads -> PCs] /\ slot \in [Threads -> Slots \cup {TotalSlots}]
      /\ entry \in [Threads -> TranslationEntry \cup {NoEntry}]
      /\ req \in [Threads -> Request \cup {NoRequest}] /\ raced \in [Threads -> BOOLEAN]
  BY DEF TypeOK
<1>2. UNCHANGED <<store, translation>> /\ Goto(t, "idle") /\ pc[t] = "reply"
  BY DEF Reply, backendVars
<1>3. pc'[t] = "idle" /\ \A u \in Threads : u # t =>
        pc'[u] = pc[u] /\ req'[u] = req[u] /\ slot'[u] = slot[u] /\ entry'[u] = entry[u]
        /\ raced'[u] = raced[u]
  BY <1>1 DEF Reply, Goto
<1>4. WrittenIsStored' /\ LookupIsCurrent'
  BY <1>2, <1>3 DEF WrittenIsStored, LookupIsCurrent, Maps
<1>5. Phase' = [Phase EXCEPT ![t] = "idle"] /\ Phase[t] = "done"
  BY <1>2, PhaseMoves, PhaseIs DEF PhaseOf
<1>6. Contents' = Contents
  BY <1>2, ContentsStay
<1>7. Device!Reply(t)
  BY <1>5, <1>6, Zenon DEF Device!Reply, Reply
<1>8. QED BY <1>4, <1>7

(* Every step of real mode is a step of the device or is not seen. *)
LEMMA NextRefines ==
  ~DryRun /\ OwnershipInv /\ RefinementInv /\ [Next]_vars
    => OwnershipInv' /\ RefinementInv' /\ [Device!Next]_(Device!vars)
<1> SUFFICES ASSUME ~DryRun, OwnershipInv, RefinementInv, [Next]_vars
             PROVE  OwnershipInv' /\ RefinementInv' /\ [Device!Next]_(Device!vars)
  OBVIOUS
<1>1. OwnershipInv'
  BY NextOwnership
<1>2. CASE UNCHANGED vars
  <2>1. UNCHANGED Device!vars
    BY <1>2 DEF vars, Device!vars, Contents, Phase
  <2>2. WrittenIsStored' /\ LookupIsCurrent'
    BY <1>2 DEF vars, RefinementInv, WrittenIsStored, LookupIsCurrent, Maps
  <2>3. QED BY <1>1, <2>1, <2>2 DEF RefinementInv, OwnershipInv
<1>3. ASSUME NEW t \in Threads, Invoke(t) \/ Step(t)
      PROVE  OwnershipInv' /\ RefinementInv' /\ [Device!Next]_(Device!vars)
  <2>1. ~(Verify(t) \/ AllocateUnique(t) \/ StoreUnique(t) \/ InsertUnique(t))
    BY DEF OwnershipInv, PassthroughInv, Verify, AllocateUnique, AllocateSlot,
       StoreUnique, InsertUnique
  <2>2. /\ WrittenIsStored' /\ LookupIsCurrent'
        /\ \/ Device!Invoke(t) \/ Device!Commit(t) \/ Device!ReadValue(t)
           \/ Device!Fail(t) \/ Device!Reply(t)
           \/ UNCHANGED Device!vars
    BY <1>3, <2>1, InvokeRefines, QuietRefines, FailureRefines, ReadRefines, CommitRefines,
       ReplyRefines DEF Step
  <2>3. QED BY <1>1, <2>2, Zenon DEF RefinementInv, OwnershipInv, Device!Next
<1>4. ~EnableDedup
  BY DEF EnableDedup
<1>5. QED BY <1>2, <1>3, <1>4 DEF Next

(* In real mode (run_real_proxy), however the critical sections of the queue   *)
(* threads interleave and whichever writes and reads of the store fail, the     *)
(* engine is a block device of pages: writes and discards are atomic, a failed  *)
(* write changes nothing, and a read that none of them overlaps returns what     *)
(* was last written.                                                           *)
THEOREM RealModeImplementsDevice ==
  ASSUME ~DryRun
  PROVE  Spec => ImplementsPageDevice
<1>1. Init => OwnershipInv /\ RefinementInv /\ Device!Init
  BY InitOwnership, InitRefines
<1>2. OwnershipInv /\ RefinementInv /\ [Next]_vars
        => OwnershipInv' /\ RefinementInv' /\ [Device!Next]_(Device!vars)
  BY NextRefines
<1>3. QED BY <1>1, <1>2, PTL DEF Spec, ImplementsPageDevice, Device!Spec
=============================================================================
