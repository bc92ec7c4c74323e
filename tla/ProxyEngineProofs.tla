------------------------- MODULE ProxyEngineProofs -------------------------
(***************************************************************************)
(* Type correctness of the engine, for any number of threads, offsets,      *)
(* pages and slots, in real mode and in the dry run.  TypeOK alone is not    *)
(* inductive: a critical section uses locals that an earlier one set, so the *)
(* invariant also says which locals each section may rely on (LocalsOK).     *)
(***************************************************************************)
EXTENDS ProxyEngine, TLAPS

USE BackendAssumption, DedupAssumption, EngineAssumption, RequestAssumption

TypeInv == TypeOK /\ LocalsOK

(* ProxyEngine::new leaves every variable in its type. *)
LEMMA InitType == Init => TypeInv
BY DEF Init, TypeInv, TypeOK, LocalsOK, BackendInit, BackendTypeOK, DedupInit, DedupTypeOK,
       Slots, PCs, WritePCs, SlotPCs

(* A request handed to a handler is of the kind the handler expects. *)
LEMMA InvokeType == ASSUME TypeInv, NEW t \in Threads, Invoke(t) PROVE TypeInv'
<1> USE DEF TypeInv, Invoke, Goto, backendVars, dedupVars
<1>1. TypeOK'
  BY DEF TypeOK, BackendTypeOK, DedupTypeOK, PCs, Request
<1>2. LocalsOK'
  BY DEF TypeOK, LocalsOK, PCs, Request, WritePCs, SlotPCs
<1>3. QED BY <1>1, <1>2

(* handle_write: the slot a dedup hit returns is one of the store's. *)
LEMMA WriteBeginType == ASSUME TypeInv, NEW t \in Threads, WriteBegin(t) PROVE TypeInv'
<1> USE DEF TypeInv, WriteBegin, Goto, backendVars, dedupVars
<1>0. req[t].page \in Pages /\ FpOf[req[t].page] \in Fingerprints
  BY DEF LocalsOK, WritePCs
<1>00. LookupHit(FpOf[req[t].page], req[t].page) => map[FpOf[req[t].page]].slot \in Slots
  BY <1>0 DEF LookupHit, Tracked, TypeOK, DedupTypeOK, DedupEntry
<1>1. TypeOK'
  BY <1>0, <1>00 DEF TypeOK, BackendTypeOK, DedupTypeOK, PCs
<1>2. LocalsOK'
  BY <1>0, <1>00 DEF TypeOK, LocalsOK, PCs, WritePCs, SlotPCs
<1>3. QED BY <1>1, <1>2

(* allocate_slot keeps next_slot within the store and returns one of its slots. *)
LEMMA AllocateType == ASSUME TypeInv, NEW t \in Threads, AllocateDirect(t) \/ AllocateUnique(t)
                      PROVE TypeInv'
<1> USE DEF TypeInv, AllocateDirect, AllocateUnique, AllocateSlot, Goto, Return, dedupVars, allocatorVars
<1>0. freeSlots' \in Seq(Slots) /\ nextSlot' \in 0 .. TotalSlots
  <2>1. CASE UNCHANGED <<freeSlots, nextSlot>>
    BY <2>1 DEF TypeOK, BackendTypeOK
  <2>2. CASE freeSlots # <<>> /\ freeSlots' = Tail(freeSlots) /\ nextSlot' = nextSlot
    BY <2>2 DEF TypeOK, BackendTypeOK
  <2>3. CASE nextSlot < TotalSlots /\ nextSlot' = nextSlot + 1 /\ freeSlots' = freeSlots
    BY <2>3 DEF TypeOK, BackendTypeOK
  <2>4. QED BY <2>1, <2>2, <2>3 DEF Allocate
<1>1. TypeOK'
  <2>1. pc' \in [Threads -> PCs]
    BY DEF TypeOK, PCs
  <2>2. slot' \in [Threads -> Slots \cup {TotalSlots}]
    BY DEF TypeOK
  <2>3. ret' \in [Threads -> Pages \cup Errors \cup {"none", "ok"}]
    BY DEF TypeOK, Errors
  <2>4. BackendTypeOK' /\ DedupTypeOK'
    BY <1>0 DEF TypeOK, BackendTypeOK, DedupTypeOK
  <2>5. QED BY <2>1, <2>2, <2>3, <2>4 DEF TypeOK
<1>2. LocalsOK'
  BY DEF TypeOK, LocalsOK, PCs, WritePCs, SlotPCs
<1>3. QED BY <1>1, <1>2

(* Pushing a fingerprint on the LRU list lists fingerprints only. *)
LEMMA PushType ==
  ASSUME NEW order \in SUBSET (Fingerprints \X Fingerprints), NEW f \in Fingerprints
  PROVE  Push(order, f) \in SUBSET (Fingerprints \X Fingerprints)
<1> SUFFICES ASSUME NEW p \in Push(order, f) PROVE p \in Fingerprints \X Fingerprints
  OBVIOUS
<1>1. CASE p \in order
  BY <1>1
<1>2. CASE p \in {<<g, f>> : g \in {h \in Fingerprints : Listed(order, h)} \cup {f}}
  <2>1. PICK g \in {h \in Fingerprints : Listed(order, h)} \cup {f} : p = <<g, f>>
    BY <1>2
  <2>2. g \in Fingerprints
    BY <2>1
  <2>3. QED BY <2>1, <2>2
<1>3. QED BY <1>1, <1>2 DEF Push

(* Taking a fingerprint off the LRU list lists nothing new. *)
LEMMA ForgetType ==
  ASSUME NEW order \in SUBSET (Fingerprints \X Fingerprints), NEW f
  PROVE  Forget(order, f) \in SUBSET (Fingerprints \X Fingerprints)
BY DEF Forget

(* A verified dedup hit yields a well-formed translation and count. *)
LEMMA VerifyType == ASSUME TypeInv, NEW t \in Threads, Verify(t) PROVE TypeInv'
<1> DEFINE f == FpOf[req[t].page]
<1> USE DEF TypeInv, Verify, Goto, Return, backendVars, dedupVars
<1>0. f \in Fingerprints /\ slot[t] \in Slots
  BY DEF LocalsOK, WritePCs, SlotPCs
<1>1. DedupTypeOK'
  <2>1. CASE AddReference(f)
    <3>1. map[f] \in DedupEntry
      BY <1>0, <2>1 DEF AddReference, Tracked, TypeOK, DedupTypeOK
    <3>2. map' \in [Fingerprints -> DedupEntry \cup {NoMeta}]
      <4>1. map \in [Fingerprints -> DedupEntry \cup {NoMeta}] /\ map' = [map EXCEPT ![f].ref = @ + 1]
        BY <2>1 DEF AddReference, TypeOK, DedupTypeOK
      <4> HIDE DEF TypeInv, Verify, Goto, Return, backendVars, dedupVars, f
      <4>2. [map[f] EXCEPT !.ref = @ + 1] \in DedupEntry
        BY <3>1 DEF DedupEntry
      <4>3. QED
        BY <1>0, <4>1, <4>2
    <3>3. lru' \subseteq Fingerprints \X Fingerprints
      BY <1>0, <2>1, PushType, ForgetType DEF AddReference, TypeOK, DedupTypeOK, Touch
    <3>4. QED BY <2>1, <3>2, <3>3 DEF AddReference, TypeOK, DedupTypeOK
  <2>2. CASE UNCHANGED dedupVars
    BY <2>2 DEF TypeOK, DedupTypeOK
  <2>3. QED BY <2>1, <2>2
<1>2. BackendTypeOK'
  BY DEF TypeOK, BackendTypeOK
<1>3. pc' \in [Threads -> PCs]
  BY DEF TypeOK, PCs
<1>4. entry' \in [Threads -> TranslationEntry \cup {NoEntry}]
  BY <1>0 DEF TypeOK, TranslationEntry, Deduplicated
<1>5. ret' \in [Threads -> Pages \cup Errors \cup {"none", "ok"}]
  BY DEF TypeOK, Errors
<1>6. TypeOK'
  BY <1>1, <1>2, <1>3, <1>4, <1>5 DEF TypeOK
<1>7. LocalsOK'
  BY <1>0 DEF TypeOK, LocalsOK, PCs, WritePCs, SlotPCs, TranslationEntry, Deduplicated
<1>8. QED BY <1>6, <1>7

(* A store write, whole or failed, touches the thread's own slot only. *)
LEMMA StoreType == ASSUME TypeInv, NEW t \in Threads, StoreDirect(t) \/ StoreUnique(t)
                   PROVE TypeInv'
<1> USE DEF TypeInv, StoreDirect, StoreUnique, Goto, Return, allocatorVars, dedupVars
<1>0. slot[t] \in Slots /\ req[t].page \in Pages
  BY DEF LocalsOK, WritePCs, SlotPCs
<1>1. store' \in [Slots -> Pages]
  BY <1>0 DEF TypeOK, BackendTypeOK, WritePage, WritePageFails
<1>2. BackendTypeOK' /\ DedupTypeOK'
  BY <1>1 DEF TypeOK, BackendTypeOK, DedupTypeOK
<1>3. pc' \in [Threads -> PCs]
  BY DEF TypeOK, PCs
<1>4. entry' \in [Threads -> TranslationEntry \cup {NoEntry}]
  BY <1>0 DEF TypeOK, TranslationEntry, Direct
<1>6. TypeOK'
  BY <1>2, <1>3, <1>4 DEF TypeOK
<1>7. LocalsOK'
  BY <1>0 DEF TypeOK, LocalsOK, PCs, WritePCs, SlotPCs, TranslationEntry, Direct
<1>8. QED BY <1>6, <1>7

(* Freeing a slot of the store leaves the allocator well-formed. *)
LEMMA FreeType == ASSUME BackendTypeOK, NEW s \in Slots, Free(s)
                  PROVE freeSlots' \in Seq(Slots) /\ nextSlot' \in 0 .. TotalSlots
<1>1. s < TotalSlots
  BY DEF Slots
<1>2. freeSlots' = Append(freeSlots, s)
  BY <1>1 DEF Free
<1>3. QED BY <1>2 DEF BackendTypeOK, Free

(* The error path of a failed store frees a slot of the store. *)
LEMMA UnwindType == ASSUME TypeInv, NEW t \in Threads, Unwind(t) PROVE TypeInv'
<1> USE DEF TypeInv, Unwind, Goto, Return, dedupVars
<1>0. slot[t] \in Slots
  BY DEF LocalsOK, SlotPCs
<1>1. BackendTypeOK' /\ DedupTypeOK'
  BY <1>0, FreeType DEF TypeOK, BackendTypeOK, DedupTypeOK
<1>2. pc' \in [Threads -> PCs]
  BY DEF TypeOK, PCs
<1>3. ret' \in [Threads -> Pages \cup Errors \cup {"none", "ok"}]
  BY DEF TypeOK, Errors
<1>4. TypeOK'
  BY <1>1, <1>2, <1>3 DEF TypeOK
<1>5. LocalsOK'
  BY DEF TypeOK, LocalsOK, PCs, WritePCs, SlotPCs
<1>6. QED BY <1>4, <1>5

(* dedup_table.insert, with or without eviction, leaves the table well-formed. *)
LEMMA InsertType == ASSUME TypeInv, NEW t \in Threads, InsertUnique(t) PROVE TypeInv'
<1> DEFINE f == FpOf[req[t].page]
<1> USE DEF TypeInv, InsertUnique, Goto, backendVars, dedupVars
<1>0. f \in Fingerprints /\ slot[t] \in Slots /\ req[t].page \in Pages
  BY DEF LocalsOK, WritePCs, SlotPCs
<1>1. DedupTypeOK'
  <2>1. CASE UNCHANGED dedupVars
    BY <2>1 DEF TypeOK, DedupTypeOK
  <2>2. ASSUME NEW m \in [Fingerprints -> DedupEntry \cup {NoMeta}],
               NEW l \in SUBSET (Fingerprints \X Fingerprints),
               Publish(m, l, f, req[t].page, slot[t])
        PROVE  DedupTypeOK'
    <3>1. [ref |-> 1, slot |-> slot[t], prefix |-> PrefixOf[req[t].page]] \in DedupEntry
      BY <1>0 DEF DedupEntry
    <3>2. map' \in [Fingerprints -> DedupEntry \cup {NoMeta}]
      BY <1>0, <2>2, <3>1 DEF Publish
    <3>3. bloom' \subseteq BloomBits
      BY <1>0, <2>2 DEF Publish, TypeOK, DedupTypeOK
    <3>4. lru' \subseteq Fingerprints \X Fingerprints
      BY <1>0, <2>2, PushType DEF Publish
    <3>5. QED BY <3>2, <3>3, <3>4 DEF DedupTypeOK
  <2>3. CASE Insert(f, req[t].page, slot[t])
    <3>1. CASE Publish(map, lru, f, req[t].page, slot[t])
      BY <2>2, <3>1 DEF TypeOK, DedupTypeOK
    <3>2. ASSUME NEW v \in Fingerprints,
                 Publish([map EXCEPT ![v] = NoMeta], Forget(lru, v), f, req[t].page, slot[t])
          PROVE  DedupTypeOK'
      <4>1. [map EXCEPT ![v] = NoMeta] \in [Fingerprints -> DedupEntry \cup {NoMeta}]
        BY DEF TypeOK, DedupTypeOK
      <4>2. Forget(lru, v) \in SUBSET (Fingerprints \X Fingerprints)
        BY ForgetType DEF TypeOK, DedupTypeOK
      <4>3. QED BY <2>2, <3>2, <4>1, <4>2
    <3>3. QED BY <2>3, <3>1, <3>2 DEF Insert
  <2>4. QED BY <2>1, <2>3
<1>2. BackendTypeOK'
  BY DEF TypeOK, BackendTypeOK
<1>3. pc' \in [Threads -> PCs]
  BY DEF TypeOK, PCs
<1>4. entry' \in [Threads -> TranslationEntry \cup {NoEntry}]
  BY <1>0 DEF TypeOK, TranslationEntry, Direct, Deduplicated
<1>5. TypeOK'
  BY <1>1, <1>2, <1>3, <1>4 DEF TypeOK
<1>6. LocalsOK'
  BY <1>0 DEF TypeOK, LocalsOK, PCs, WritePCs, SlotPCs, TranslationEntry, Direct, Deduplicated
<1>7. QED BY <1>5, <1>6

(* replace_mapping and discard hand a well-formed translation to release. *)
LEMMA DisplaceType == ASSUME TypeInv, NEW t \in Threads, MapPage(t) \/ Discard(t) PROVE TypeInv'
<1> DEFINE o == req[t].off
<1> USE DEF TypeInv, MapPage, Discard, Displace, Goto, allocatorVars, dedupVars
<1>0. o \in Offsets /\ (pc[t] = "map" => entry[t] \in TranslationEntry)
  BY DEF LocalsOK, WritePCs
<1>1. translation' \in [Offsets -> TranslationEntry \cup {NoEntry}]
  BY <1>0 DEF TypeOK, BackendTypeOK
<1>2. BackendTypeOK' /\ DedupTypeOK'
  BY <1>1 DEF TypeOK, BackendTypeOK, DedupTypeOK
<1>3. translation[o] \in TranslationEntry \cup {NoEntry}
  BY <1>0 DEF TypeOK, BackendTypeOK
<1>4. pc' \in [Threads -> PCs]
  BY DEF TypeOK, PCs
<1>5. old' \in [Threads -> TranslationEntry \cup {NoEntry}]
  BY <1>3 DEF TypeOK
<1>6. ret' \in [Threads -> Pages \cup Errors \cup {"none", "ok"}]
  BY DEF TypeOK
<1>7. raced' \in [Threads -> BOOLEAN]
  BY DEF TypeOK
<1>8. TypeOK'
  BY <1>2, <1>4, <1>5, <1>6, <1>7 DEF TypeOK
<1>9. LocalsOK'
  BY <1>3 DEF TypeOK, LocalsOK, PCs, WritePCs, SlotPCs
<1>10. QED BY <1>8, <1>9

(* release_mapping frees a slot of the store and never counts below zero. *)
LEMMA ReleaseType == ASSUME TypeInv, NEW t \in Threads, ReleaseMapping(t) PROVE TypeInv'
<1> USE DEF TypeInv, ReleaseMapping, Goto, allocatorVars, dedupVars
<1>0. old[t] \in TranslationEntry
  BY DEF LocalsOK
<1>1. old[t].slot \in Slots
  BY <1>0 DEF TranslationEntry
<1>2. old[t].kind = "dedup" => old[t].fp \in Fingerprints
  BY <1>0 DEF TranslationEntry
<1>3. DedupTypeOK'
  <2>1. CASE UNCHANGED dedupVars
    BY <2>1 DEF TypeOK, DedupTypeOK
  <2>2. ASSUME NEW f \in Fingerprints, RemovalStillReferenced(f) PROVE DedupTypeOK'
    <3>1. map[f] \in DedupEntry /\ map[f].ref > 1
      BY <2>2 DEF RemovalStillReferenced, Tracked, LastReference, TypeOK, DedupTypeOK, DedupEntry
    <3>2. map' \in [Fingerprints -> DedupEntry \cup {NoMeta}]
      BY <2>2, <3>1 DEF RemovalStillReferenced, TypeOK, DedupTypeOK, DedupEntry
    <3>3. QED BY <2>2, <3>2 DEF RemovalStillReferenced, TypeOK, DedupTypeOK
  <2>3. ASSUME NEW f \in Fingerprints, RemovalRemoved(f) PROVE DedupTypeOK'
    BY <2>3, ForgetType DEF RemovalRemoved, TypeOK, DedupTypeOK
  <2>4. QED BY <1>2, <2>1, <2>2, <2>3 DEF RemovalNotTracked
<1>4. BackendTypeOK'
  <2>1. CASE UNCHANGED allocatorVars
    BY <2>1 DEF TypeOK, BackendTypeOK
  <2>2. CASE Free(old[t].slot)
    BY <2>2, <1>1, FreeType DEF TypeOK, BackendTypeOK
  <2>3. ASSUME old[t].kind = "dedup", RemovalRemoved(old[t].fp), Free(map[old[t].fp].slot)
        PROVE  BackendTypeOK'
    <3>1. map[old[t].fp].slot \in Slots
      BY <1>2, <2>3 DEF RemovalRemoved, Tracked, TypeOK, DedupTypeOK, DedupEntry
    <3>2. QED BY <3>1, <2>3, FreeType DEF TypeOK, BackendTypeOK
  <2>4. QED BY <2>1, <2>2, <2>3
<1>5. pc' \in [Threads -> PCs]
  BY DEF TypeOK, PCs
<1>6. TypeOK'
  BY <1>3, <1>4, <1>5 DEF TypeOK
<1>7. LocalsOK'
  BY DEF TypeOK, LocalsOK, PCs, WritePCs, SlotPCs
<1>8. QED BY <1>6, <1>7

(* handle_read reads a slot of the store. *)
LEMMA ReadType == ASSUME TypeInv, NEW t \in Threads, ReadLookup(t) \/ ReadLoad(t) PROVE TypeInv'
<1> USE DEF TypeInv, ReadLookup, ReadLoad, Goto, Return, backendVars, dedupVars
<1>0. req[t].off \in Offsets
  BY DEF LocalsOK
<1>1. translation[req[t].off] # NoEntry => translation[req[t].off].slot \in Slots
  BY <1>0 DEF TypeOK, BackendTypeOK, TranslationEntry
<1>2. BackendTypeOK' /\ DedupTypeOK'
  BY DEF TypeOK, BackendTypeOK, DedupTypeOK
<1>3. pc' \in [Threads -> PCs]
  BY DEF TypeOK, PCs
<1>4. slot' \in [Threads -> Slots \cup {TotalSlots}]
  BY <1>1 DEF TypeOK
<1>5. ret' \in [Threads -> Pages \cup Errors \cup {"none", "ok"}]
  BY DEF TypeOK, BackendTypeOK, Errors
<1>6. TypeOK'
  BY <1>2, <1>3, <1>4, <1>5 DEF TypeOK
<1>7. LocalsOK'
  BY <1>1 DEF TypeOK, LocalsOK, PCs, WritePCs, SlotPCs
<1>8. QED BY <1>6, <1>7

(* Returning from a handler resets its locals. *)
LEMMA ReplyType == ASSUME TypeInv, NEW t \in Threads, Reply(t) PROVE TypeInv'
<1> USE DEF TypeInv, Reply, Goto, backendVars, dedupVars
<1>1. TypeOK'
  BY DEF TypeOK, BackendTypeOK, DedupTypeOK, PCs
<1>2. LocalsOK'
  BY DEF TypeOK, LocalsOK, PCs, WritePCs, SlotPCs
<1>3. QED BY <1>1, <1>2

(* Turning passthrough off changes nothing else. *)
LEMMA EnableType == ASSUME TypeInv, EnableDedup PROVE TypeInv'
BY DEF TypeInv, TypeOK, LocalsOK, BackendTypeOK, DedupTypeOK, EnableDedup, threadVars,
       backendVars, dedupVars

(* A step of something else changes nothing here. *)
LEMMA StutterType == ASSUME TypeInv, UNCHANGED vars PROVE TypeInv'
BY DEF TypeInv, TypeOK, LocalsOK, BackendTypeOK, DedupTypeOK, vars

(* The invariant is inductive. *)
LEMMA NextType == TypeInv /\ [Next]_vars => TypeInv'
BY InvokeType, WriteBeginType, VerifyType, AllocateType, StoreType, UnwindType, InsertType,
   DisplaceType, ReleaseType, ReadType, ReplyType, EnableType, StutterType
   DEF Next, Step

(* In every reachable state of the engine each variable has its type: in     *)
(* particular next_slot never passes the end of the store (allocate rolls    *)
(* back), only slots of the store are queued, mapped or read, and no         *)
(* reference count falls below zero.                                        *)
THEOREM TypeCorrect == Spec => []TypeOK
<1>1. Spec => []TypeInv
  BY InitType, NextType, PTL DEF Spec
<1>2. TypeInv => TypeOK
  BY DEF TypeInv
<1>3. QED BY <1>1, <1>2, PTL
=============================================================================
