----------------------- MODULE ProxyOwnershipProofs -----------------------
(***************************************************************************)
(* In real mode the engine never leaves passthrough, and then every slot of  *)
(* the page store has exactly one owner at every instant, for any number of  *)
(* threads, offsets, pages and slots.                                       *)
(***************************************************************************)
EXTENDS ProxyEngineProofs

USE BackendAssumption, DedupAssumption, EngineAssumption, RequestAssumption

(* What real mode never leaves: passthrough, and direct mappings. *)
PassthroughInv ==
  /\ passthrough
  /\ \A t \in Threads : pc[t] \notin {"verify", "unique_alloc", "unique_store", "insert"}
  /\ \A o \in Offsets : translation[o] # NoEntry => translation[o].kind = "direct"
  /\ \A t \in Threads : pc[t] = "map" => entry[t].kind = "direct"
  /\ \A t \in Threads : pc[t] = "release" => old[t].kind = "direct"

OwnershipInv == TypeInv /\ PassthroughInv /\ SlotOwnership

-----------------------------------------------------------------------------
(* The free queue. *)

(* allocate takes the front of the queue: that slot, and no other, leaves it. *)
LEMMA TailFree ==
  ASSUME TypeOK, NoDoubleFree, freeSlots # <<>>, freeSlots' = Tail(freeSlots)
  PROVE  /\ NoDoubleFree'
         /\ Head(freeSlots) \in FreeSet
         /\ \A s : s \in FreeSet' <=> s \in FreeSet /\ s # Head(freeSlots)
<1>0. freeSlots \in Seq(Slots) /\ Len(freeSlots) \in Nat /\ Len(freeSlots) >= 1
  BY DEF TypeOK, BackendTypeOK
<1>1. Len(freeSlots') = Len(freeSlots) - 1
  BY <1>0
<1>2. \A i \in 1 .. Len(freeSlots') : freeSlots'[i] = freeSlots[i + 1]
  BY <1>0, <1>1
<1>3. Head(freeSlots) = freeSlots[1]
  BY <1>0
<1>4. NoDoubleFree'
  BY <1>0, <1>1, <1>2 DEF NoDoubleFree
<1>5. Head(freeSlots) \in FreeSet
  BY <1>0, <1>3 DEF FreeSet
<1>6. ASSUME NEW s, s \in FreeSet' PROVE s \in FreeSet /\ s # Head(freeSlots)
  <2>1. PICK i \in 1 .. Len(freeSlots') : s = freeSlots'[i]
    BY <1>6 DEF FreeSet
  <2>2. i + 1 \in 1 .. Len(freeSlots) /\ s = freeSlots[i + 1]
    BY <1>0, <1>1, <1>2, <2>1
  <2>3. s # freeSlots[1]
    BY <1>0, <2>2 DEF NoDoubleFree
  <2>4. QED BY <1>3, <2>2, <2>3 DEF FreeSet
<1>7. ASSUME NEW s, s \in FreeSet, s # Head(freeSlots) PROVE s \in FreeSet'
  <2>1. PICK i \in 1 .. Len(freeSlots) : s = freeSlots[i]
    BY <1>7 DEF FreeSet
  <2>2. i # 1
    BY <1>3, <1>7, <2>1
  <2>3. i - 1 \in 1 .. Len(freeSlots') /\ s = freeSlots'[i - 1]
    BY <1>0, <1>1, <1>2, <2>1, <2>2
  <2>4. QED BY <2>3 DEF FreeSet
<1>8. QED BY <1>4, <1>5, <1>6, <1>7

(* free adds a slot that was not queued: it, and no other, joins the queue. *)
LEMMA AppendFree ==
  ASSUME TypeOK, NoDoubleFree, NEW x \in Slots, x \notin FreeSet, Free(x)
  PROVE  /\ NoDoubleFree'
         /\ \A s : s \in FreeSet' <=> s \in FreeSet \/ s = x
<1>0. freeSlots \in Seq(Slots) /\ Len(freeSlots) \in Nat
  BY DEF TypeOK, BackendTypeOK
<1>1. freeSlots' = Append(freeSlots, x)
  BY DEF Free, Slots
<1>2. Len(freeSlots') = Len(freeSlots) + 1
  BY <1>0, <1>1
<1>3. \A i \in 1 .. Len(freeSlots) : freeSlots'[i] = freeSlots[i]
  BY <1>0, <1>1
<1>4. freeSlots'[Len(freeSlots) + 1] = x
  BY <1>0, <1>1
<1>5. \A i \in 1 .. Len(freeSlots) : freeSlots[i] # x
  BY DEF FreeSet
<1>6. NoDoubleFree'
  BY <1>0, <1>2, <1>3, <1>4, <1>5 DEF NoDoubleFree
<1>7. ASSUME NEW s, s \in FreeSet' PROVE s \in FreeSet \/ s = x
  <2>1. PICK i \in 1 .. Len(freeSlots') : s = freeSlots'[i]
    BY <1>7 DEF FreeSet
  <2>2. CASE i = Len(freeSlots) + 1
    BY <1>4, <2>1, <2>2
  <2>3. CASE i # Len(freeSlots) + 1
    <3>1. i \in 1 .. Len(freeSlots)
      BY <1>0, <1>2, <2>1, <2>3
    <3>2. QED BY <1>3, <2>1, <3>1 DEF FreeSet
  <2>4. QED BY <2>2, <2>3
<1>8. ASSUME NEW s, s \in FreeSet \/ s = x PROVE s \in FreeSet'
  <2>1. CASE s = x
    BY <1>0, <1>2, <1>4, <2>1 DEF FreeSet
  <2>2. CASE s \in FreeSet
    <3>1. PICK i \in 1 .. Len(freeSlots) : s = freeSlots[i]
      BY <2>2 DEF FreeSet
    <3>2. i \in 1 .. Len(freeSlots') /\ s = freeSlots'[i]
      BY <1>0, <1>2, <1>3, <3>1
    <3>3. QED BY <3>2 DEF FreeSet
  <2>3. QED BY <1>8, <2>1, <2>2
<1>9. QED BY <1>6, <1>7, <1>8

-----------------------------------------------------------------------------
(* How a slot may change hands.  Each lemma takes the shape of one kind of   *)
(* step and shows that every slot still has exactly one owner after it.      *)

(* A step that moves no slot. *)
LEMMA SlotsStay ==
  ASSUME SlotOwnership, UNCHANGED <<freeSlots, nextSlot>>,
         \A o \in Offsets, s \in Slots : Maps(o, s)' <=> Maps(o, s),
         \A u \in Threads, s \in Slots : Owns(u, s)' <=> Owns(u, s),
         FreeSet \subseteq Slots
  PROVE  SlotOwnership'
<1>1. FreeSet' = FreeSet /\ NoDoubleFree'
  BY DEF FreeSet, SlotOwnership, NoDoubleFree
<1>2. FreeIsUnmapped'
  BY <1>1 DEF SlotOwnership, FreeIsUnmapped
<1>3. OwnersAreIssued'
  BY <1>1 DEF SlotOwnership, OwnersAreIssued
<1>4. PagesShareNoSlot' /\ ThreadsShareNoSlot' /\ InFlightIsPrivate'
  BY <1>1 DEF SlotOwnership, PagesShareNoSlot, ThreadsShareNoSlot, InFlightIsPrivate
<1>5. QED BY <1>1, <1>2, <1>3, <1>4 DEF SlotOwnership

(* allocate: a slot goes from the free queue, or from beyond next_slot, to a  *)
(* thread that owned none.                                                  *)
LEMMA SlotIsAllocated ==
  ASSUME TypeOK, SlotOwnership, NEW t \in Threads, NEW x \in Slots, Allocate(x),
         \A o \in Offsets, s \in Slots : Maps(o, s)' <=> Maps(o, s),
         \A u \in Threads, s \in Slots : Owns(u, s)' <=> Owns(u, s) \/ (u = t /\ s = x),
         \A s \in Slots : ~Owns(t, s),
         FreeSet \subseteq Slots
  PROVE  SlotOwnership'
<1> USE DEF SlotOwnership
<1>0. nextSlot \in Nat
  BY DEF TypeOK, BackendTypeOK
<1>1. CASE freeSlots # <<>> /\ x = Head(freeSlots) /\ freeSlots' = Tail(freeSlots)
           /\ nextSlot' = nextSlot
  <2>1. NoDoubleFree' /\ x \in FreeSet
        /\ \A s : s \in FreeSet' <=> s \in FreeSet /\ s # x
    BY <1>1, TailFree
  <2>2. FreeIsUnmapped' /\ PagesShareNoSlot'
    BY <2>1 DEF FreeIsUnmapped, PagesShareNoSlot
  <2>3. OwnersAreIssued'
    BY <1>1, <2>1 DEF OwnersAreIssued
  <2>4. ThreadsShareNoSlot'
    BY <2>1 DEF ThreadsShareNoSlot, InFlightIsPrivate
  <2>5. InFlightIsPrivate'
    BY <2>1 DEF InFlightIsPrivate, FreeIsUnmapped
  <2>6. QED BY <2>1, <2>2, <2>3, <2>4, <2>5
<1>2. CASE freeSlots' = freeSlots /\ x = nextSlot /\ nextSlot' = nextSlot + 1
  <2>1. NoDoubleFree' /\ FreeSet' = FreeSet
    BY <1>2 DEF NoDoubleFree, FreeSet
  <2>2. x \notin FreeSet /\ (\A o \in Offsets : ~Maps(o, x)) /\ (\A u \in Threads : ~Owns(u, x))
    BY <1>0, <1>2 DEF OwnersAreIssued
  <2>3. FreeIsUnmapped' /\ PagesShareNoSlot'
    BY <2>1 DEF FreeIsUnmapped, PagesShareNoSlot
  <2>4. OwnersAreIssued'
    <3>1. \A s \in Slots : s < nextSlot' <=> s < nextSlot \/ s = x
      BY <1>0, <1>2 DEF Slots
    <3>2. QED BY <2>1, <3>1 DEF OwnersAreIssued
  <2>5. ThreadsShareNoSlot'
    BY <2>2 DEF ThreadsShareNoSlot
  <2>6. InFlightIsPrivate'
    BY <2>1, <2>2 DEF InFlightIsPrivate
  <2>7. QED BY <2>1, <2>3, <2>4, <2>5, <2>6
<1>3. QED BY <1>1, <1>2 DEF Allocate

(* free: a thread's slot goes to the end of the free queue. *)
LEMMA SlotIsFreed ==
  ASSUME TypeOK, SlotOwnership, NEW t \in Threads, NEW x \in Slots, Free(x),
         \A o \in Offsets, s \in Slots : Maps(o, s)' <=> Maps(o, s),
         \A u \in Threads, s \in Slots : Owns(u, s)' <=> Owns(u, s) /\ u # t,
         \A s \in Slots : Owns(t, s) <=> s = x,
         FreeSet \subseteq Slots
  PROVE  SlotOwnership'
<1> USE DEF SlotOwnership
<1>1. x \notin FreeSet /\ \A o \in Offsets : ~Maps(o, x)
  BY DEF InFlightIsPrivate
<1>2. NoDoubleFree' /\ \A s : s \in FreeSet' <=> s \in FreeSet \/ s = x
  BY <1>1, AppendFree
<1>3. FreeIsUnmapped' /\ PagesShareNoSlot'
  BY <1>1, <1>2 DEF FreeIsUnmapped, PagesShareNoSlot
<1>4. OwnersAreIssued'
  BY <1>2 DEF OwnersAreIssued, Free
<1>5. ThreadsShareNoSlot'
  BY DEF ThreadsShareNoSlot
<1>6. InFlightIsPrivate'
  BY <1>2 DEF InFlightIsPrivate, ThreadsShareNoSlot
<1>7. QED BY <1>2, <1>3, <1>4, <1>5, <1>6

(* replace_mapping: a thread gives its slot to page p and takes p's old one. *)
LEMMA SlotIsMapped ==
  ASSUME SlotOwnership, UNCHANGED <<freeSlots, nextSlot>>,
         NEW t \in Threads, NEW x \in Slots, NEW p \in Offsets,
         \A o \in Offsets, s \in Slots : Maps(o, s)' <=> IF o = p THEN s = x ELSE Maps(o, s),
         \A u \in Threads, s \in Slots : Owns(u, s)' <=> IF u = t THEN Maps(p, s) ELSE Owns(u, s),
         \A s \in Slots : Owns(t, s) <=> s = x,
         FreeSet \subseteq Slots
  PROVE  SlotOwnership'
<1> USE DEF SlotOwnership
<1>1. FreeSet' = FreeSet /\ NoDoubleFree'
  BY DEF FreeSet, NoDoubleFree
<1>2. x \notin FreeSet /\ \A o \in Offsets : ~Maps(o, x)
  BY DEF InFlightIsPrivate
<1>3. FreeIsUnmapped'
  BY <1>1, <1>2 DEF FreeIsUnmapped
<1>4. OwnersAreIssued'
  <2> SUFFICES ASSUME NEW s \in Slots
               PROVE  (s \in FreeSet' \/ (\E o \in Offsets : Maps(o, s)') \/ (\E u \in Threads : Owns(u, s)'))
                      <=> (s \in FreeSet \/ (\E o \in Offsets : Maps(o, s)) \/ (\E u \in Threads : Owns(u, s)))
    BY DEF OwnersAreIssued
  <2>1. CASE s = x
    BY <2>1
  <2>2. CASE s # x
    BY <1>1, <2>2
  <2>3. QED BY <2>1, <2>2
<1>5. PagesShareNoSlot'
  BY <1>2 DEF PagesShareNoSlot
<1>6. ThreadsShareNoSlot'
  BY DEF ThreadsShareNoSlot, InFlightIsPrivate
<1>7. InFlightIsPrivate'
  <2> SUFFICES ASSUME NEW u \in Threads, NEW s \in Slots, Owns(u, s)'
               PROVE  s \notin FreeSet /\ \A o \in Offsets : ~Maps(o, s)'
    BY <1>1 DEF InFlightIsPrivate
  <2>1. CASE u = t
    BY <1>2, <2>1 DEF FreeIsUnmapped, PagesShareNoSlot
  <2>2. CASE u # t
    BY <2>2 DEF InFlightIsPrivate, ThreadsShareNoSlot
  <2>3. QED BY <2>1, <2>2
<1>8. QED BY <1>1, <1>3, <1>4, <1>5, <1>6, <1>7

(* handle_discard: a thread that owned no slot takes page p's. *)
LEMMA SlotIsUnmapped ==
  ASSUME SlotOwnership, UNCHANGED <<freeSlots, nextSlot>>,
         NEW t \in Threads, NEW p \in Offsets,
         \A o \in Offsets, s \in Slots : Maps(o, s)' <=> o # p /\ Maps(o, s),
         \A u \in Threads, s \in Slots : Owns(u, s)' <=> IF u = t THEN Maps(p, s) ELSE Owns(u, s),
         \A s \in Slots : ~Owns(t, s),
         FreeSet \subseteq Slots
  PROVE  SlotOwnership'
<1> USE DEF SlotOwnership
<1>1. FreeSet' = FreeSet /\ NoDoubleFree'
  BY DEF FreeSet, NoDoubleFree
<1>2. FreeIsUnmapped' /\ PagesShareNoSlot'
  BY <1>1 DEF FreeIsUnmapped, PagesShareNoSlot
<1>3. OwnersAreIssued'
  BY <1>1 DEF OwnersAreIssued
<1>4. ThreadsShareNoSlot'
  BY DEF ThreadsShareNoSlot, InFlightIsPrivate
<1>5. InFlightIsPrivate'
  BY <1>1 DEF InFlightIsPrivate, FreeIsUnmapped, PagesShareNoSlot
<1>6. QED BY <1>1, <1>2, <1>3, <1>4, <1>5

-----------------------------------------------------------------------------
(* The free queue holds slots of the store. *)
LEMMA FreeSlotsAreSlots == TypeOK => FreeSet \subseteq Slots
<1> SUFFICES ASSUME TypeOK, NEW s \in FreeSet PROVE s \in Slots
  OBVIOUS
<1>1. PICK i \in 1 .. Len(freeSlots) : s = freeSlots[i]
  BY DEF FreeSet
<1>2. QED BY <1>1 DEF TypeOK, BackendTypeOK

-----------------------------------------------------------------------------
(* One lemma per action: passthrough and exclusive ownership are preserved.  *)

(* ProxyEngine::new: no slot has been issued and nobody owns one. *)
LEMMA InitOwnership == Init => OwnershipInv
<1> SUFFICES ASSUME Init PROVE OwnershipInv
  OBVIOUS
<1> USE DEF Init, BackendInit
<1>1. TypeInv
  BY InitType
<1>2. PassthroughInv
  BY DEF PassthroughInv
<1>3. Len(freeSlots) = 0 /\ FreeSet = {}
  BY DEF FreeSet
<1>4. \A s \in Slots : ~(s < nextSlot)
  BY DEF Slots
<1>5. SlotOwnership
  BY <1>3, <1>4 DEF SlotOwnership, NoDoubleFree, FreeIsUnmapped, OwnersAreIssued,
     PagesShareNoSlot, ThreadsShareNoSlot, InFlightIsPrivate, Maps, Owns
<1>6. QED BY <1>1, <1>2, <1>5 DEF OwnershipInv

(* The steps that read, answer or start a request move no slot. *)
LEMMA QuietOwnership ==
  ASSUME OwnershipInv, NEW t \in Threads,
         Invoke(t) \/ WriteBegin(t) \/ ReadLookup(t) \/ ReadLoad(t) \/ Reply(t)
  PROVE  PassthroughInv' /\ SlotOwnership'
<1> USE DEF OwnershipInv, TypeInv, Invoke, WriteBegin, ReadLookup, ReadLoad, Reply, Goto, Return,
           backendVars, dedupVars
<1>0. pc \in [Threads -> PCs] /\ slot \in [Threads -> Slots \cup {TotalSlots}]
  BY DEF TypeOK
<1>00. \A r \in Request : r.op \in {"read", "write", "discard"}
  BY DEF Request
<1>01. pc'[t] \in {"idle", "write", "read", "load", "discard", "reply", "direct_alloc"}
  BY <1>0, <1>00 DEF PassthroughInv
<1>02. \A u \in Threads \ {t} : pc'[u] = pc[u] /\ slot'[u] = slot[u] /\ entry'[u] = entry[u]
                                 /\ old'[u] = old[u]
  BY <1>0 DEF TypeOK
<1>03. UNCHANGED <<passthrough, translation>>
  OBVIOUS
<1>1. PassthroughInv'
  <2>1. passthrough'
    BY <1>03, Zenon DEF PassthroughInv
  <2>2. \A o \in Offsets : translation'[o] # NoEntry => translation'[o].kind = "direct"
    BY <1>03, Zenon DEF PassthroughInv
  <2>3. ASSUME NEW u \in Threads
        PROVE  /\ pc'[u] \notin {"verify", "unique_alloc", "unique_store", "insert"}
               /\ pc'[u] = "map" => entry'[u].kind = "direct"
               /\ pc'[u] = "release" => old'[u].kind = "direct"
    <3>1. CASE u = t
      BY <1>01, <3>1
    <3>2. CASE u # t
      BY <1>02, <3>2 DEF PassthroughInv
    <3>3. QED BY <3>1, <3>2
  <2>4. QED BY <2>1, <2>2, <2>3, Zenon DEF PassthroughInv
<1>2. ASSUME NEW u \in Threads, NEW s \in Slots PROVE Owns(u, s)' <=> Owns(u, s)
  <2>1. CASE u # t
    BY <1>02, <2>1 DEF Owns
  <2>2. CASE u = t
    <3>1. pc[t] \in {"idle", "write", "read", "load", "reply"}
      OBVIOUS
    <3>2. QED BY <1>01, <2>2, <3>1 DEF Owns
  <2>3. QED BY <2>1, <2>2
<1>3. \A o \in Offsets, s \in Slots : Maps(o, s)' <=> Maps(o, s)
  BY DEF Maps
<1>4. SlotOwnership'
  BY <1>2, <1>3, SlotsStay, FreeSlotsAreSlots
<1>5. QED BY <1>1, <1>4

(* allocate_slot in write_direct. *)
LEMMA AllocateOwnership ==
  ASSUME OwnershipInv, NEW t \in Threads, AllocateDirect(t)
  PROVE  PassthroughInv' /\ SlotOwnership'
<1> USE DEF OwnershipInv, TypeInv, AllocateDirect, AllocateSlot, Goto, Return, dedupVars
<1>0. pc \in [Threads -> PCs] /\ slot \in [Threads -> Slots \cup {TotalSlots}]
  BY DEF TypeOK
<1>1. PassthroughInv'
  BY <1>0 DEF PassthroughInv
<1>2. \A o \in Offsets, s \in Slots : Maps(o, s)' <=> Maps(o, s)
  BY DEF Maps
<1>3. CASE AllocatorExhausted /\ Return(t, "full") /\ UNCHANGED <<allocatorVars, slot>>
  <2>1. \A u \in Threads, s \in Slots : Owns(u, s)' <=> Owns(u, s)
    BY <1>0, <1>3 DEF Owns
  <2>2. QED BY <1>1, <1>2, <1>3, <2>1, SlotsStay, FreeSlotsAreSlots DEF allocatorVars
<1>4. ASSUME NEW x \in Slots, Allocate(x), slot' = [slot EXCEPT ![t] = x],
             Goto(t, "direct_store")
      PROVE  SlotOwnership'
  <2>1. \A s \in Slots : ~Owns(t, s)
    BY DEF Owns
  <2>2. \A u \in Threads, s \in Slots : Owns(u, s)' <=> Owns(u, s) \/ (u = t /\ s = x)
    BY <1>0, <1>4 DEF Owns
  <2>3. QED BY <1>2, <1>4, <2>1, <2>2, SlotIsAllocated, FreeSlotsAreSlots
<1>5. QED BY <1>1, <1>3, <1>4

(* write_page_to_slot in write_direct: the thread keeps its slot either way. *)
LEMMA StoreOwnership ==
  ASSUME OwnershipInv, NEW t \in Threads, StoreDirect(t)
  PROVE  PassthroughInv' /\ SlotOwnership'
<1> USE DEF OwnershipInv, TypeInv, StoreDirect, Goto, allocatorVars, dedupVars
<1>0. pc \in [Threads -> PCs] /\ entry \in [Threads -> TranslationEntry \cup {NoEntry}]
  BY DEF TypeOK
<1>1. PassthroughInv'
  BY <1>0 DEF PassthroughInv, Direct
<1>2. \A u \in Threads, s \in Slots : Owns(u, s)' <=> Owns(u, s)
  BY <1>0 DEF Owns, Direct
<1>3. \A o \in Offsets, s \in Slots : Maps(o, s)' <=> Maps(o, s)
  BY DEF Maps
<1>4. QED BY <1>1, <1>2, <1>3, SlotsStay, FreeSlotsAreSlots

(* free_slot after a failed store. *)
LEMMA UnwindOwnership ==
  ASSUME OwnershipInv, NEW t \in Threads, Unwind(t)
  PROVE  PassthroughInv' /\ SlotOwnership'
<1> USE DEF OwnershipInv, TypeInv, Unwind, Goto, Return, dedupVars
<1>0. pc \in [Threads -> PCs] /\ slot[t] \in Slots
  BY DEF TypeOK, LocalsOK, SlotPCs
<1>1. PassthroughInv'
  BY <1>0 DEF PassthroughInv
<1>2. \A o \in Offsets, s \in Slots : Maps(o, s)' <=> Maps(o, s)
  BY DEF Maps
<1>3. \A s \in Slots : Owns(t, s) <=> s = slot[t]
  BY DEF Owns
<1>4. \A u \in Threads, s \in Slots : Owns(u, s)' <=> Owns(u, s) /\ u # t
  BY <1>0 DEF Owns
<1>5. QED BY <1>0, <1>1, <1>2, <1>3, <1>4, SlotIsFreed, FreeSlotsAreSlots

(* release_mapping of a direct translation. *)
LEMMA ReleaseOwnership ==
  ASSUME OwnershipInv, NEW t \in Threads, ReleaseMapping(t)
  PROVE  PassthroughInv' /\ SlotOwnership'
<1> USE DEF OwnershipInv, TypeInv, ReleaseMapping, Goto, dedupVars
<1>0. pc \in [Threads -> PCs] /\ old[t].slot \in Slots
  BY DEF TypeOK, LocalsOK, TranslationEntry
<1>1. PassthroughInv'
  BY <1>0 DEF PassthroughInv
<1>2. Free(old[t].slot)
  BY DEF PassthroughInv
<1>3. \A o \in Offsets, s \in Slots : Maps(o, s)' <=> Maps(o, s)
  BY DEF Maps
<1>4. \A s \in Slots : Owns(t, s) <=> s = old[t].slot
  BY DEF Owns
<1>5. \A u \in Threads, s \in Slots : Owns(u, s)' <=> Owns(u, s) /\ u # t
  BY <1>0 DEF Owns
<1>6. QED BY <1>0, <1>1, <1>2, <1>3, <1>4, <1>5, SlotIsFreed, FreeSlotsAreSlots

(* replace_mapping. *)
LEMMA MapOwnership ==
  ASSUME OwnershipInv, NEW t \in Threads, MapPage(t)
  PROVE  PassthroughInv' /\ SlotOwnership'
<1> DEFINE p == req[t].off
           x == entry[t].slot
<1> USE DEF OwnershipInv, TypeInv, MapPage, Displace, Goto, allocatorVars, dedupVars
<1>0. /\ p \in Offsets /\ x \in Slots /\ entry[t] # NoEntry
      /\ pc \in [Threads -> PCs] /\ translation \in [Offsets -> TranslationEntry \cup {NoEntry}]
      /\ old \in [Threads -> TranslationEntry \cup {NoEntry}]
  BY DEF TypeOK, BackendTypeOK, LocalsOK, WritePCs, TranslationEntry
<1>1. PassthroughInv'
  BY <1>0 DEF PassthroughInv
<1>2. \A o \in Offsets, s \in Slots : Maps(o, s)' <=> IF o = p THEN s = x ELSE Maps(o, s)
  BY <1>0 DEF Maps
<1>3. \A s \in Slots : Owns(t, s) <=> s = x
  BY DEF Owns
<1>4. \A u \in Threads, s \in Slots : Owns(u, s)' <=> IF u = t THEN Maps(p, s) ELSE Owns(u, s)
  BY <1>0 DEF Owns, Maps
<1>5. QED BY <1>0, <1>1, <1>2, <1>3, <1>4, SlotIsMapped, FreeSlotsAreSlots

(* handle_discard's removal from the translation table. *)
LEMMA DiscardOwnership ==
  ASSUME OwnershipInv, NEW t \in Threads, Discard(t)
  PROVE  PassthroughInv' /\ SlotOwnership'
<1> DEFINE p == req[t].off
<1> USE DEF OwnershipInv, TypeInv, Discard, Displace, Goto, allocatorVars, dedupVars
<1>0. /\ p \in Offsets
      /\ pc \in [Threads -> PCs] /\ translation \in [Offsets -> TranslationEntry \cup {NoEntry}]
      /\ old \in [Threads -> TranslationEntry \cup {NoEntry}]
  BY DEF TypeOK, BackendTypeOK, LocalsOK
<1>1. PassthroughInv'
  BY <1>0 DEF PassthroughInv
<1>2. \A o \in Offsets, s \in Slots : Maps(o, s)' <=> o # p /\ Maps(o, s)
  BY <1>0 DEF Maps
<1>3. \A s \in Slots : ~Owns(t, s)
  BY DEF Owns
<1>4. \A u \in Threads, s \in Slots : Owns(u, s)' <=> IF u = t THEN Maps(p, s) ELSE Owns(u, s)
  BY <1>0 DEF Owns, Maps
<1>5. QED BY <1>0, <1>1, <1>2, <1>3, <1>4, SlotIsUnmapped, FreeSlotsAreSlots

(* Every step of real mode preserves the invariant: the sections of the      *)
(* dedup path are unreachable while passthrough holds.                       *)
LEMMA NextOwnership == ~DryRun /\ OwnershipInv /\ [Next]_vars => OwnershipInv'
<1> SUFFICES ASSUME ~DryRun, OwnershipInv, [Next]_vars PROVE OwnershipInv'
  OBVIOUS
<1>1. TypeInv'
  BY NextType DEF OwnershipInv
<1>2. CASE UNCHANGED vars
  <2>1. UNCHANGED <<freeSlots, nextSlot, translation, passthrough, pc, slot, entry, old>>
    BY <1>2 DEF vars
  <2>2. PassthroughInv' /\ SlotOwnership'
    BY <2>1, SlotsStay, FreeSlotsAreSlots DEF OwnershipInv, TypeInv, PassthroughInv, Owns, Maps
  <2>3. QED BY <1>1, <2>2 DEF OwnershipInv
<1>3. ASSUME NEW t \in Threads, Invoke(t) \/ Step(t) PROVE OwnershipInv'
  <2>1. ~(Verify(t) \/ AllocateUnique(t) \/ StoreUnique(t) \/ InsertUnique(t))
    BY DEF OwnershipInv, PassthroughInv, Verify, AllocateUnique, AllocateSlot, StoreUnique,
       InsertUnique
  <2>2. PassthroughInv' /\ SlotOwnership'
    BY <1>3, <2>1, QuietOwnership, AllocateOwnership, StoreOwnership, UnwindOwnership,
       ReleaseOwnership, MapOwnership, DiscardOwnership DEF Step
  <2>3. QED BY <1>1, <2>2 DEF OwnershipInv
<1>4. ~EnableDedup
  BY DEF EnableDedup
<1>5. QED BY <1>2, <1>3, <1>4 DEF Next

(* In real mode (run_real_proxy) every slot the allocator has issued has      *)
(* exactly one owner, whatever the queue threads interleave and whichever     *)
(* writes fail: no slot leaks, none is freed twice and none is shared.        *)
THEOREM RealModeOwnership ==
  ASSUME ~DryRun
  PROVE  Spec => []SlotOwnership
<1>1. OwnershipInv /\ [Next]_vars => OwnershipInv'
  BY NextOwnership
<1>2. Spec => []OwnershipInv
  BY <1>1, InitOwnership, PTL DEF Spec
<1>3. OwnershipInv => SlotOwnership
  BY DEF OwnershipInv
<1>4. QED BY <1>2, <1>3, PTL
=============================================================================
