------------------------- MODULE ProxyDedupProofs -------------------------
(***************************************************************************)
(* The dedup table and the engine on top of it, in the dry run.  For any      *)
(* fingerprints, Bloom filter, capacity and requests the map, the LRU list and *)
(* the filter stay consistent.  As long as no metadata is evicted, counts are  *)
(* exact, no live slot is freed, and the engine implements PageDevice.         *)
(***************************************************************************)
EXTENDS ProxyRefinementProofs, FiniteSetTheorems

USE BackendAssumption, DedupAssumption, EngineAssumption, RequestAssumption

-----------------------------------------------------------------------------
(* The operations of the table.                                              *)

(* Taking an element off a finite set. *)
LEMMA OneLess ==
  ASSUME NEW S, IsFiniteSet(S), NEW x
  PROVE  /\ IsFiniteSet(S \ {x}) /\ Cardinality(S) \in Nat /\ Cardinality(S \ {x}) \in Nat
         /\ Cardinality(S \ {x}) = IF x \in S THEN Cardinality(S) - 1 ELSE Cardinality(S)
<1>1. IsFiniteSet(S \ {x})
  BY FS_RemoveElement
<1>2. Cardinality(S) \in Nat /\ Cardinality(S \ {x}) \in Nat
  BY <1>1, FS_CardinalityType
<1>3. QED BY <1>1, <1>2, FS_RemoveElement

(* Adding one. *)
LEMMA OneMore ==
  ASSUME NEW S, IsFiniteSet(S), NEW x, x \notin S
  PROVE  /\ IsFiniteSet(S \cup {x}) /\ Cardinality(S) \in Nat
         /\ Cardinality(S \cup {x}) = Cardinality(S) + 1
<1>1. Cardinality(S) \in Nat
  BY FS_CardinalityType
<1>2. QED BY <1>1, FS_AddElement

TrackedSet == {f \in Fingerprints : Tracked(f)}

TableInv ==
  /\ IsFiniteSet(TrackedSet) /\ TableWithinBound
  /\ BloomCoversTable /\ LruListsTheTable

(* What a total order of the listed fingerprints is.                         *)
Orders(order, S) ==
  /\ order \subseteq Fingerprints \X Fingerprints
  /\ \A f \in Fingerprints : Listed(order, f) <=> f \in S
  /\ \A f, g \in Fingerprints :
       /\ Listed(order, f) /\ Listed(order, g) <=> <<f, g>> \in order \/ <<g, f>> \in order
       /\ <<f, g>> \in order /\ <<g, f>> \in order => f = g

(* The property says that lru is a total order of the tracked fingerprints. *)
LEMMA LruOrders == TypeOK => (LruListsTheTable <=> Orders(lru, TrackedSet))
BY DEF TypeOK, DedupTypeOK, LruListsTheTable, Orders, TrackedSet

(* Which pairs a push and a removal leave.                                   *)
LEMMA PushHas ==
  ASSUME NEW order \in SUBSET (Fingerprints \X Fingerprints), NEW f \in Fingerprints,
         NEW g \in Fingerprints, NEW h \in Fingerprints
  PROVE  <<g, h>> \in Push(order, f) <=> <<g, h>> \in order \/ (h = f /\ (g = f \/ Listed(order, g)))
BY DEF Push

(* A removal drops every pair that names the fingerprint. *)
LEMMA ForgetHas ==
  ASSUME NEW order \in SUBSET (Fingerprints \X Fingerprints), NEW f \in Fingerprints,
         NEW g \in Fingerprints, NEW h \in Fingerprints
  PROVE  <<g, h>> \in Forget(order, f) <=> <<g, h>> \in order /\ g # f /\ h # f
BY DEF Forget

(* lru.push of an unlisted fingerprint puts it last. *)
LEMMA PushOrders ==
  ASSUME NEW order, NEW S, Orders(order, S), NEW f \in Fingerprints, f \notin S
  PROVE  Orders(Push(order, f), S \cup {f})
<1>1. order \in SUBSET (Fingerprints \X Fingerprints)
  BY DEF Orders
<1>2. Push(order, f) \subseteq Fingerprints \X Fingerprints
  BY <1>1, PushType
<1>3. \A g \in Fingerprints : Listed(Push(order, f), g) <=> g \in S \cup {f}
  BY <1>1, PushHas DEF Orders, Listed
<1>4. ASSUME NEW g \in Fingerprints, NEW h \in Fingerprints
      PROVE  LET new == Push(order, f) IN
             /\ Listed(new, g) /\ Listed(new, h) <=> <<g, h>> \in new \/ <<h, g>> \in new
             /\ <<g, h>> \in new /\ <<h, g>> \in new => g = h
  BY <1>1, <1>3, PushHas DEF Orders, Listed
<1>5. QED BY <1>2, <1>3, <1>4 DEF Orders

(* lru.retain takes one fingerprint off, wherever it stands. *)
LEMMA ForgetOrders ==
  ASSUME NEW order, NEW S, Orders(order, S), NEW f \in Fingerprints
  PROVE  Orders(Forget(order, f), S \ {f})
<1>1. order \in SUBSET (Fingerprints \X Fingerprints)
  BY DEF Orders
<1>2. Forget(order, f) \subseteq Fingerprints \X Fingerprints
  BY <1>1, ForgetType
<1>3. \A g \in Fingerprints : Listed(Forget(order, f), g) <=> g \in S \ {f}
  BY <1>1, ForgetHas DEF Orders, Listed
<1>4. ASSUME NEW g \in Fingerprints, NEW h \in Fingerprints
      PROVE  LET new == Forget(order, f) IN
             /\ Listed(new, g) /\ Listed(new, h) <=> <<g, h>> \in new \/ <<h, g>> \in new
             /\ <<g, h>> \in new /\ <<h, g>> \in new => g = h
  BY <1>1, <1>3, ForgetHas DEF Orders, Listed
<1>5. QED BY <1>2, <1>3, <1>4 DEF Orders

(* A refreshed tick reorders the list and lists nothing new. *)
LEMMA TouchOrders ==
  ASSUME NEW order, NEW S \in SUBSET Fingerprints, Orders(order, S), NEW f \in Fingerprints
  PROVE  Orders(Touch(order, f), S)
<1>1. CASE Listed(order, f)
  <2>1. Orders(Push(Forget(order, f), f), (S \ {f}) \cup {f})
    BY ForgetOrders, PushOrders
  <2>2. (S \ {f}) \cup {f} = S
    BY <1>1 DEF Orders
  <2>3. QED BY <1>1, <2>1, <2>2 DEF Touch
<1>2. CASE ~Listed(order, f)
  BY <1>2 DEF Touch
<1>3. QED BY <1>1, <1>2

(* Every step leaves the table alone or is one call of it.                    *)
LEMMA TableSteps ==
  ASSUME TypeInv, [Next]_vars
  PROVE  \/ UNCHANGED dedupVars
         \/ \E f \in Fingerprints :
              \/ AddReference(f) \/ RemovalStillReferenced(f)
              \/ RemovalRemoved(f) /\ \E t \in Threads : pc[t] = "release"
              \/ \E page \in Pages, s \in Slots : Insert(f, page, s)
<1> USE DEF TypeInv
<1>1. CASE UNCHANGED vars
  BY <1>1 DEF vars, dedupVars
<1>2. CASE EnableDedup
  BY <1>2 DEF EnableDedup
<1>3. ASSUME NEW t \in Threads, Invoke(t) \/ WriteBegin(t) \/ AllocateDirect(t) \/ AllocateUnique(t)
               \/ StoreDirect(t) \/ StoreUnique(t) \/ Unwind(t) \/ MapPage(t) \/ Discard(t)
               \/ ReadLookup(t) \/ ReadLoad(t) \/ Reply(t)
      PROVE  UNCHANGED dedupVars
  BY <1>3 DEF Invoke, WriteBegin, AllocateDirect, AllocateUnique, AllocateSlot, StoreDirect, StoreUnique,
    Unwind, MapPage, Discard, ReadLookup, ReadLoad, Reply
<1>4. ASSUME NEW t \in Threads, Verify(t) \/ InsertUnique(t)
      PROVE  \/ UNCHANGED dedupVars
             \/ \E f \in Fingerprints : AddReference(f) \/ \E page \in Pages, s \in Slots : Insert(f, page, s)
  <2>1. req[t].page \in Pages /\ FpOf[req[t].page] \in Fingerprints /\ slot[t] \in Slots
    BY <1>4 DEF Verify, InsertUnique, LocalsOK, WritePCs, SlotPCs
  <2>2. QED BY <1>4, <2>1 DEF Verify, InsertUnique
<1>5. ASSUME NEW t \in Threads, ReleaseMapping(t)
      PROVE  /\ pc[t] = "release"
             /\ UNCHANGED dedupVars \/ \E f \in Fingerprints : RemovalStillReferenced(f) \/ RemovalRemoved(f)
  <2>1. old[t].kind = "dedup" => old[t].fp \in Fingerprints
    BY <1>5 DEF ReleaseMapping, LocalsOK, TranslationEntry
  <2>2. QED BY <1>5, <2>1 DEF ReleaseMapping, RemovalNotTracked
<1>6. QED BY <1>1, <1>2, <1>3, <1>4, <1>5 DEF Next, Step

(* An entry that changes its count stays tracked.                             *)
LEMMA CountChanges ==
  ASSUME TypeOK, NEW f \in Fingerprints, AddReference(f) \/ RemovalStillReferenced(f)
  PROVE  /\ \A g \in Fingerprints : Tracked(g)' <=> Tracked(g)
         /\ TrackedSet' = TrackedSet
         /\ map[f].ref \in Nat
         /\ map' = [map EXCEPT ![f].ref = IF AddReference(f) THEN @ + 1 ELSE @ - 1]
<1>1. map \in [Fingerprints -> DedupEntry \cup {NoMeta}] /\ map[f] \in DedupEntry
  BY DEF TypeOK, DedupTypeOK, AddReference, RemovalStillReferenced, Tracked
<1>2. map[f].ref \in Nat
  BY <1>1 DEF DedupEntry
<1>3. AddReference(f) => map' = [map EXCEPT ![f].ref = @ + 1]
  BY DEF AddReference
<1>4. ~AddReference(f) => map' = [map EXCEPT ![f].ref = @ - 1] /\ map[f].ref > 1
  BY <1>2 DEF RemovalStillReferenced, LastReference
<1>5. map'[f] \in DedupEntry
  BY <1>1, <1>2, <1>3, <1>4 DEF DedupEntry
<1>6. \A g \in Fingerprints : Tracked(g)' <=> Tracked(g)
  BY <1>1, <1>3, <1>4, <1>5 DEF Tracked
<1>7. QED BY <1>2, <1>3, <1>4, <1>6 DEF TrackedSet

(* remove_reference of the last reference untracks one fingerprint. *)
LEMMA Removed ==
  ASSUME TypeOK, NEW f \in Fingerprints, RemovalRemoved(f)
  PROVE  TrackedSet' = TrackedSet \ {f} /\ \A g \in Fingerprints : Tracked(g)' <=> Tracked(g) /\ g # f
BY DEF TypeOK, DedupTypeOK, RemovalRemoved, TrackedSet, Tracked

(* An insertion tracks f, in place of the entry it may have evicted.          *)
LEMMA Inserted ==
  ASSUME TypeOK, NEW f \in Fingerprints, NEW page \in Pages, NEW s \in Slots, Insert(f, page, s)
  PROVE  /\ map'[f] = [ref |-> 1, slot |-> s, prefix |-> PrefixOf[page]]
         /\ map'[f] \in DedupEntry /\ ~Tracked(f) /\ bloom' = bloom \cup BloomOf[f]
         /\ \/ /\ ~TableFull
               /\ \A g \in Fingerprints \ {f} : map'[g] = map[g]
               /\ TrackedSet' = TrackedSet \cup {f} /\ lru' = Push(lru, f)
            \/ \E v \in TrackedSet \ {f} :
               /\ \A g \in Fingerprints \ {f} : map'[g] = IF g = v THEN NoMeta ELSE map[g]
               /\ TrackedSet' = (TrackedSet \ {v}) \cup {f} /\ lru' = Push(Forget(lru, v), f)
<1>1. map \in [Fingerprints -> DedupEntry \cup {NoMeta}] /\ ~Tracked(f)
  BY DEF TypeOK, DedupTypeOK, Insert
<1>2. [ref |-> 1, slot |-> s, prefix |-> PrefixOf[page]] \in DedupEntry
  BY DEF DedupEntry
<1>3. CASE ~TableFull /\ Publish(map, lru, f, page, s)
  BY <1>1, <1>2, <1>3 DEF Publish, TrackedSet, Tracked
<1>4. ASSUME NEW v \in Fingerprints, EvictionVictim(v),
             Publish([map EXCEPT ![v] = NoMeta], Forget(lru, v), f, page, s)
      PROVE  /\ map'[f] = [ref |-> 1, slot |-> s, prefix |-> PrefixOf[page]]
             /\ bloom' = bloom \cup BloomOf[f] /\ lru' = Push(Forget(lru, v), f)
             /\ v \in TrackedSet \ {f}
             /\ \A g \in Fingerprints \ {f} : map'[g] = IF g = v THEN NoMeta ELSE map[g]
             /\ TrackedSet' = (TrackedSet \ {v}) \cup {f}
  <2>1. v \in TrackedSet \ {f}
    BY <1>1, <1>4 DEF EvictionVictim, Evictable, TrackedSet
  <2>2. /\ map'[f] = [ref |-> 1, slot |-> s, prefix |-> PrefixOf[page]]
        /\ \A g \in Fingerprints \ {f} : map'[g] = IF g = v THEN NoMeta ELSE map[g]
        /\ bloom' = bloom \cup BloomOf[f] /\ lru' = Push(Forget(lru, v), f)
    BY <1>1, <1>4 DEF Publish
  <2>3. TrackedSet' = (TrackedSet \ {v}) \cup {f}
    BY <1>1, <1>2, <2>1, <2>2 DEF TrackedSet, Tracked
  <2>4. QED BY <2>1, <2>2, <2>3
<1>5. QED BY <1>1, <1>2, <1>3, <1>4 DEF Insert

(* The consistency of the table is inductive.                                 *)
LEMMA AddKeepsTable ==
  ASSUME TypeOK, TableInv, NEW f \in Fingerprints, AddReference(f) \/ RemovalStillReferenced(f)
  PROVE  TableInv'
<1>1. TrackedSet' = TrackedSet /\ \A g \in Fingerprints : Tracked(g)' <=> Tracked(g)
  BY CountChanges
<1>2. bloom' = bloom /\ (lru' = lru \/ lru' = Touch(lru, f))
  BY DEF AddReference, RemovalStillReferenced
<1>3. Orders(lru, TrackedSet)
  BY LruOrders DEF TableInv
<1>4. Orders(lru', TrackedSet)
  BY <1>2, <1>3, TouchOrders DEF TrackedSet
<1>5. LruListsTheTable'
  BY <1>1, <1>4 DEF LruListsTheTable, Orders, TrackedSet
<1>6. BloomCoversTable'
  BY <1>1, <1>2 DEF TableInv, BloomCoversTable, MightContain
<1>7. IsFiniteSet(TrackedSet)' /\ TableWithinBound'
  BY <1>1 DEF TableInv, TableWithinBound, TrackedSet
<1>8. QED BY <1>5, <1>6, <1>7 DEF TableInv

(* The map and the list lose the same fingerprint. *)
LEMMA RemoveKeepsTable ==
  ASSUME TypeOK, TableInv, NEW f \in Fingerprints, RemovalRemoved(f)
  PROVE  TableInv'
<1>1. TrackedSet' = TrackedSet \ {f} /\ \A g \in Fingerprints : Tracked(g)' <=> Tracked(g) /\ g # f
  BY Removed
<1>2. bloom' = bloom /\ lru' = Forget(lru, f)
  BY DEF RemovalRemoved
<1>3. Orders(lru', TrackedSet')
  BY <1>1, <1>2, LruOrders, ForgetOrders DEF TableInv
<1>4. LruListsTheTable'
  BY <1>3 DEF LruListsTheTable, Orders, TrackedSet
<1>5. BloomCoversTable'
  BY <1>1, <1>2 DEF TableInv, BloomCoversTable, MightContain
<1>6. IsFiniteSet(TrackedSet') /\ Cardinality(TrackedSet') <= MaxEntries
  <2>1. IsFiniteSet(TrackedSet) /\ Cardinality(TrackedSet) \in Nat /\ Cardinality(TrackedSet) <= MaxEntries
    BY FS_CardinalityType DEF TableInv, TableWithinBound, TrackedSet
  <2>2. IsFiniteSet(TrackedSet \ {f}) /\ Cardinality(TrackedSet \ {f}) <= MaxEntries
    BY <2>1, OneLess
  <2>3. QED BY <1>1, <2>2, Zenon
<1>7. QED BY <1>4, <1>5, <1>6 DEF TableInv, TableWithinBound, TrackedSet

(* A full table has lost one entry before the new one is published. *)
LEMMA InsertKeepsTable ==
  ASSUME TypeOK, TableInv, NEW f \in Fingerprints, NEW page \in Pages, NEW s \in Slots, Insert(f, page, s)
  PROVE  TableInv'
<1>0. /\ IsFiniteSet(TrackedSet) /\ Cardinality(TrackedSet) \in Nat /\ Cardinality(TrackedSet) <= MaxEntries
      /\ f \notin TrackedSet /\ Orders(lru, TrackedSet)
  BY Inserted, LruOrders, FS_CardinalityType DEF TableInv, TableWithinBound, TrackedSet
<1>1. PICK S \in SUBSET TrackedSet :
        /\ IsFiniteSet(S) /\ Cardinality(S) \in Nat /\ Cardinality(S) < MaxEntries
        /\ TrackedSet' = S \cup {f} /\ \E order : Orders(order, S) /\ lru' = Push(order, f)
  <2>1. CASE ~TableFull /\ TrackedSet' = TrackedSet \cup {f} /\ lru' = Push(lru, f)
    <3>1. Cardinality(TrackedSet) < MaxEntries
      BY <1>0, <2>1 DEF TableFull, TrackedSet
    <3>2. QED BY <1>0, <2>1, <3>1
  <2>2. ASSUME NEW v \in TrackedSet, TrackedSet' = (TrackedSet \ {v}) \cup {f}, lru' = Push(Forget(lru, v), f)
        PROVE  \E S \in SUBSET TrackedSet :
                 /\ IsFiniteSet(S) /\ Cardinality(S) \in Nat /\ Cardinality(S) < MaxEntries
                 /\ TrackedSet' = S \cup {f} /\ \E order : Orders(order, S) /\ lru' = Push(order, f)
    <3>1. /\ IsFiniteSet(TrackedSet \ {v}) /\ Cardinality(TrackedSet \ {v}) = Cardinality(TrackedSet) - 1
          /\ Cardinality(TrackedSet \ {v}) \in Nat
      BY <1>0, OneLess
    <3>2. Orders(Forget(lru, v), TrackedSet \ {v})
      BY <1>0, ForgetOrders DEF TrackedSet
    <3>3. Cardinality(TrackedSet \ {v}) < MaxEntries
      BY <1>0, <3>1
    <3>4. QED BY <2>2, <3>1, <3>2, <3>3
  <2>3. QED BY <2>1, <2>2, Inserted
<1>2. f \notin S
  BY <1>0
<1>3. Orders(lru', TrackedSet')
  BY <1>1, <1>2, PushOrders
<1>4. LruListsTheTable'
  BY <1>3 DEF LruListsTheTable, Orders, TrackedSet
<1>5. IsFiniteSet(TrackedSet') /\ Cardinality(TrackedSet') <= MaxEntries
  <2>1. IsFiniteSet(S \cup {f}) /\ Cardinality(S \cup {f}) <= MaxEntries
    BY <1>1, <1>2, OneMore
  <2>2. QED BY <1>1, <2>1, Zenon
<1>6. BloomCoversTable'
  <2>1. \A g \in Fingerprints : Tracked(g)' => g = f \/ Tracked(g)
    BY <1>1 DEF TrackedSet
  <2>2. bloom' = bloom \cup BloomOf[f]
    BY Inserted
  <2>3. QED BY <2>1, <2>2 DEF TableInv, BloomCoversTable, MightContain
<1>7. QED BY <1>4, <1>5, <1>6 DEF TableInv, TableWithinBound, TrackedSet

(* DedupTable::new: nothing tracked, nothing listed. *)
LEMMA InitTable == Init => TableInv
<1> SUFFICES ASSUME Init PROVE TableInv
  OBVIOUS
<1>1. TrackedSet = {} /\ \A f \in Fingerprints : ~Tracked(f)
  BY DEF Init, DedupInit, TrackedSet, Tracked
<1>2. IsFiniteSet({}) /\ Cardinality({}) = 0
  BY FS_EmptySet
<1>3. IsFiniteSet(TrackedSet) /\ Cardinality(TrackedSet) <= MaxEntries
  BY <1>1, <1>2
<1>4. BloomCoversTable /\ LruListsTheTable
  BY <1>1 DEF Init, DedupInit, BloomCoversTable, LruListsTheTable, Listed
<1>5. QED BY <1>3, <1>4 DEF TableInv, TableWithinBound, TrackedSet

(* No step of the engine breaks the table. *)
LEMMA NextTable == TypeInv /\ TableInv /\ [Next]_vars => TableInv'
<1> SUFFICES ASSUME TypeInv, TableInv, [Next]_vars PROVE TableInv'
  OBVIOUS
<1>1. CASE UNCHANGED dedupVars
  BY <1>1 DEF dedupVars, TableInv, TrackedSet, TableWithinBound, BloomCoversTable, LruListsTheTable, Tracked,
    MightContain
<1>2. QED BY <1>1, TableSteps, AddKeepsTable, RemoveKeepsTable, InsertKeepsTable DEF TypeInv

(* The consistency of the table as an invariant. *)
LEMMA TableInvHolds == Spec => [](TypeInv /\ TableInv)
BY InitType, InitTable, NextType, NextTable, PTL DEF Spec

(* Insert, add_reference and remove_reference keep the LRU list in step with the *)
(* map: eviction can reach every entry, and finds no dead one.                  *)
THEOREM LruAlwaysListsTable == Spec => []LruListsTheTable
BY TableInvHolds, PTL DEF TableInv

(* The capacity check of insert: a full table evicts one entry or refuses.      *)
THEOREM TableAlwaysBounded == Spec => []TableWithinBound
BY TableInvHolds, PTL DEF TableInv

(* lookup skips the map where the Bloom filter says no: it never hides an entry, *)
(* whatever was inserted, evicted and removed before.                           *)
THEOREM BloomNeverHides == Spec => []BloomCoversTable
BY TableInvHolds, PTL DEF TableInv

-----------------------------------------------------------------------------
(* The dry run: one thread.  Who holds a slot, besides the free queue: a page  *)
(* directly, an entry of the table, or the thread itself.                      *)

DirectAt(o, s) == Maps(o, s) /\ translation[o].kind = "direct"
EntryAt(f, s) == Tracked(f) /\ map[f].slot = s
Private(t, s) ==
  \/ pc[t] \in {"direct_store", "unique_store", "unwind", "insert"} /\ slot[t] = s
  \/ pc[t] = "map" /\ entry[t].kind = "direct" /\ entry[t].slot = s
  \/ pc[t] = "release" /\ old[t].kind = "direct" /\ old[t].slot = s
Held(s) ==
  \/ \E o \in Offsets : DirectAt(o, s)
  \/ \E f \in Fingerprints : EntryAt(f, s)
  \/ \E t \in Threads : Private(t, s)

SlotsApart ==
  /\ NoDoubleFree
  /\ \A s \in FreeSet : s < nextSlot /\ ~Held(s)
  /\ \A s \in Slots : Held(s) => s < nextSlot
  /\ \A s \in Slots : \A o, p \in Offsets : DirectAt(o, s) /\ DirectAt(p, s) => o = p
  /\ \A s \in Slots : \A f, g \in Fingerprints : EntryAt(f, s) /\ EntryAt(g, s) => f = g
  /\ \A s \in Slots : \A o \in Offsets, f \in Fingerprints : ~(DirectAt(o, s) /\ EntryAt(f, s))
  /\ \A s \in Slots : \A t \in Threads : Private(t, s) =>
       (\A o \in Offsets : ~DirectAt(o, s)) /\ (\A f \in Fingerprints : ~EntryAt(f, s))

(* Every translation of fingerprint f, installed or in the thread's hands, is to *)
(* the slot of f's entry, and the entry counts them.                           *)
Names(f, e) == Refers(e, f) => Tracked(f) /\ e.slot = map[f].slot
CountsOK ==
  \A f \in Fingerprints :
    /\ IsFiniteSet(Referrers(f))
    /\ Cardinality(Referrers(f)) = IF Tracked(f) THEN map[f].ref ELSE 0
    /\ \A o \in Offsets : Names(f, translation[o])
    /\ \A t \in Threads : pc[t] = "map" => Names(f, entry[t])
    /\ \A t \in Threads : pc[t] = "release" => Names(f, old[t])

(* What the lookup has found is still there when the page is verified.         *)
HitOK ==
  \A t \in Threads : pc[t] = "verify" =>
    LET f == FpOf[req[t].page] IN Tracked(f) /\ map[f].slot = slot[t]

DedupInv == TypeInv /\ SlotsApart /\ CountsOK /\ HitOK

(* An entry leaves the map only when its last reference is released.           *)
LeavesByRelease ==
  \A f \in Fingerprints : Tracked(f) /\ ~Tracked(f)' => \E t \in Threads : pc[t] = "release"
NoEviction == [][LeavesByRelease]_vars

(* The referrers of a fingerprint, where one thread runs.                      *)
LEMMA ReferrersAre ==
  ASSUME NEW t, Threads = {t}, NEW f
  PROVE  \A x : x \in Referrers(f) <=>
           \/ \E o \in Offsets : x = <<"page", o>> /\ Refers(translation[o], f)
           \/ x = <<"new", t>> /\ pc[t] = "map" /\ Refers(entry[t], f)
           \/ x = <<"old", t>> /\ pc[t] = "release" /\ Refers(old[t], f)
BY DEF Referrers

(* A step that moves no reference. *)
LEMMA ReferrersStay ==
  ASSUME NEW t, Threads = {t}, NEW f,
         \A o \in Offsets : Refers(translation[o], f)' <=> Refers(translation[o], f),
         (pc[t] = "map" /\ Refers(entry[t], f))' <=> pc[t] = "map" /\ Refers(entry[t], f),
         (pc[t] = "release" /\ Refers(old[t], f))' <=> pc[t] = "release" /\ Refers(old[t], f)
  PROVE  Referrers(f)' = Referrers(f)
<1>1. \A x : x \in Referrers(f)' <=>
           \/ \E o \in Offsets : x = <<"page", o>> /\ Refers(translation[o], f)'
           \/ x = <<"new", t>> /\ (pc[t] = "map" /\ Refers(entry[t], f))'
           \/ x = <<"old", t>> /\ (pc[t] = "release" /\ Refers(old[t], f))'
  BY DEF Referrers
<1>2. \A x : x \in Referrers(f)' <=> x \in Referrers(f)
  BY <1>1, ReferrersAre
<1>3. QED BY <1>2

(* Trading one element of a set for a new one. *)
LEMMA Swapped ==
  ASSUME NEW S, IsFiniteSet(S), NEW a \in S, NEW b, b \notin S
  PROVE  IsFiniteSet((S \ {a}) \cup {b}) /\ Cardinality((S \ {a}) \cup {b}) = Cardinality(S)
<1>1. IsFiniteSet(S \ {a}) /\ Cardinality(S \ {a}) = Cardinality(S) - 1 /\ Cardinality(S) \in Nat
  BY OneLess
<1>2. b \notin S \ {a}
  OBVIOUS
<1>3. QED BY <1>1, <1>2, OneMore

-----------------------------------------------------------------------------
(* Steps that move no slot and no reference.                                  *)
LEMMA HoldersStay ==
  ASSUME TypeOK, SlotsApart, UNCHANGED <<freeSlots, nextSlot, translation>>,
         \A f \in Fingerprints, s \in Slots : EntryAt(f, s)' <=> EntryAt(f, s),
         \A t \in Threads, s \in Slots : Private(t, s)' <=> Private(t, s)
  PROVE  SlotsApart'
<1>1. \A o \in Offsets, s \in Slots : DirectAt(o, s)' <=> DirectAt(o, s)
  BY DEF DirectAt, Maps
<1>2. FreeSet' = FreeSet /\ NoDoubleFree' /\ FreeSet \subseteq Slots
  BY FreeSlotsAreSlots DEF SlotsApart, NoDoubleFree, FreeSet
<1>3. \A s \in Slots : Held(s)' <=> Held(s)
  BY <1>1 DEF Held
<1>4. QED BY <1>1, <1>2, <1>3 DEF SlotsApart

(* A step that touches neither map nor translations, with no reference in hand. *)
LEMMA CountsStay ==
  ASSUME NEW t, Threads = {t}, CountsOK, UNCHANGED <<translation, map>>,
         pc[t] \notin {"map", "release"}, pc'[t] \notin {"map", "release"}
  PROVE  CountsOK'
<1>1. ASSUME NEW f \in Fingerprints PROVE Referrers(f)' = Referrers(f)
  <2>1. \A o \in Offsets : Refers(translation[o], f)' <=> Refers(translation[o], f)
    BY DEF Refers
  <2>2. QED BY <2>1, ReferrersStay
<1>2. QED BY <1>1 DEF CountsOK, Names, Tracked, Refers

(* Nothing that moves no slot and no reference can break the two invariants. *)
LEMMA QuietKeeps ==
  ASSUME NEW t, Threads = {t}, DedupInv, UNCHANGED <<freeSlots, nextSlot, translation, map>>,
         \A s \in Slots : Private(t, s)' <=> Private(t, s),
         pc[t] \notin {"map", "release"}, pc'[t] \notin {"map", "release"}
  PROVE  SlotsApart' /\ CountsOK'
<1>1. \A f \in Fingerprints, s \in Slots : EntryAt(f, s)' <=> EntryAt(f, s)
  BY DEF EntryAt, Tracked
<1>2. QED BY <1>1, HoldersStay, CountsStay DEF DedupInv, TypeInv

(* The sections of a handler that only read, or fail before they take anything. *)
LEMMA QuietDedup ==
  ASSUME NEW t, Threads = {t}, DedupInv,
         \/ Invoke(t) \/ WriteBegin(t) \/ ReadLookup(t) \/ ReadLoad(t) \/ Reply(t) \/ StoreUnique(t)
         \/ Verify(t) /\ pc'[t] # "map"
         \/ (AllocateDirect(t) \/ AllocateUnique(t)) /\ AllocatorExhausted
  PROVE  SlotsApart' /\ CountsOK' /\ HitOK'
<1> USE DEF DedupInv, TypeInv
<1>1. pc \in [Threads -> PCs] /\ slot \in [Threads -> Slots \cup {TotalSlots}] /\ req \in [Threads -> Request \cup {NoRequest}]
  BY DEF TypeOK
<1>2. UNCHANGED <<translation, map>>
  BY <1>1 DEF Invoke, WriteBegin, ReadLookup, ReadLoad, Reply, StoreUnique, Verify, AllocateDirect, AllocateUnique,
    AllocateSlot, Goto, backendVars, dedupVars
<1>a. AllocatorExhausted => ~\E s \in Slots : Allocate(s)
  BY DEF Allocate, AllocatorExhausted, TypeOK, BackendTypeOK
<1>b. (AllocateDirect(t) \/ AllocateUnique(t)) /\ AllocatorExhausted
        => UNCHANGED <<freeSlots, nextSlot>> /\ pc[t] \in {"direct_alloc", "unique_alloc"} /\ pc'[t] = "reply"
  BY <1>1, <1>a DEF AllocateDirect, AllocateUnique, AllocateSlot, Return, Goto, allocatorVars
<1>3. UNCHANGED <<freeSlots, nextSlot>>
  BY <1>b DEF Invoke, WriteBegin, ReadLookup, ReadLoad, Reply, StoreUnique, Verify, backendVars, allocatorVars
<1>4. pc[t] \notin {"map", "release"} /\ pc'[t] \notin {"map", "release"}
  BY <1>1, <1>b DEF Invoke, WriteBegin, ReadLookup, ReadLoad, Reply, StoreUnique, Verify, Goto, Return, Request
<1>5. \A s \in Slots : Private(t, s)' <=> Private(t, s)
  BY <1>1, <1>4, <1>b DEF Invoke, WriteBegin, ReadLookup, ReadLoad, Reply, StoreUnique, Verify,
    Goto, Return, Request, Private
<1>6. HitOK'
  BY <1>1, <1>2 DEF Invoke, WriteBegin, ReadLookup, ReadLoad, Reply, StoreUnique, Verify, AllocateDirect, AllocateUnique,
    AllocateSlot, Goto, Return, Request, HitOK, LookupHit, Tracked
<1>7. QED BY <1>2, <1>3, <1>4, <1>5, <1>6, QuietKeeps

-----------------------------------------------------------------------------
(* A slot is taken off the allocator, or given back to it.                     *)
LEMMA SlotTaken ==
  ASSUME TypeOK, SlotsApart, NEW t \in Threads, NEW x \in Slots, Allocate(x), UNCHANGED translation,
         \A f \in Fingerprints, s \in Slots : EntryAt(f, s)' <=> EntryAt(f, s),
         \A u \in Threads, s \in Slots : Private(u, s)' <=> Private(u, s) \/ (u = t /\ s = x)
  PROVE  SlotsApart'
<1>1. \A o \in Offsets, s \in Slots : DirectAt(o, s)' <=> DirectAt(o, s)
  BY DEF DirectAt, Maps
<1>2. FreeSet \subseteq Slots /\ nextSlot \in Nat
  BY FreeSlotsAreSlots DEF TypeOK, BackendTypeOK
<1>3. /\ NoDoubleFree' /\ ~Held(x) /\ x \notin FreeSet' /\ x < nextSlot'
      /\ \A s : s \in FreeSet' => s \in FreeSet
      /\ nextSlot' \in Nat /\ nextSlot <= nextSlot'
  <2>1. CASE freeSlots # <<>> /\ x = Head(freeSlots) /\ freeSlots' = Tail(freeSlots) /\ nextSlot' = nextSlot
    <3>1. /\ NoDoubleFree' /\ Head(freeSlots) \in FreeSet
          /\ \A s : s \in FreeSet' <=> s \in FreeSet /\ s # Head(freeSlots)
      BY <2>1, TailFree DEF SlotsApart
    <3>2. QED BY <1>2, <2>1, <3>1 DEF SlotsApart
  <2>2. CASE freeSlots' = freeSlots /\ x = nextSlot /\ nextSlot' = nextSlot + 1
    <3>1. FreeSet' = FreeSet /\ NoDoubleFree'
      BY <2>2 DEF FreeSet, SlotsApart, NoDoubleFree
    <3>2. ~Held(x) /\ x \notin FreeSet
      BY <1>2, <2>2 DEF SlotsApart
    <3>3. QED BY <1>2, <2>2, <3>1, <3>2
  <2>3. QED BY <2>1, <2>2 DEF Allocate
<1>4. \A s \in Slots : Held(s)' <=> Held(s) \/ s = x
  BY <1>1 DEF Held
<1>a. /\ \A s \in FreeSet : s < nextSlot /\ ~Held(s)
      /\ \A s \in Slots : Held(s) => s < nextSlot
  BY DEF SlotsApart
<1>b. \A s \in Slots : s \in Int
  BY DEF Slots
<1>5. /\ \A s \in FreeSet' : s < nextSlot' /\ ~Held(s)'
      /\ \A s \in Slots : Held(s)' => s < nextSlot'
  <2> HIDE DEF Held
  <2>1. ASSUME NEW s \in FreeSet' PROVE s < nextSlot' /\ ~Held(s)'
    <3>1. s \in FreeSet /\ s \in Slots /\ s # x
      BY <1>2, <1>3
    <3>2. QED BY <3>1, <1>2, <1>3, <1>4, <1>a, <1>b
  <2>2. ASSUME NEW s \in Slots, Held(s)' PROVE s < nextSlot'
    BY <2>2, <1>2, <1>3, <1>4, <1>a, <1>b
  <2>3. QED BY <2>1, <2>2
<1>6. \A s \in Slots : \A u \in Threads : Private(u, s)' =>
       (\A o \in Offsets : ~DirectAt(o, s)') /\ (\A f \in Fingerprints : ~EntryAt(f, s)')
  BY <1>1, <1>3 DEF SlotsApart, Held
<1>7. QED BY <1>1, <1>3, <1>5, <1>6 DEF SlotsApart

(* free of a slot that only its last holder knows. *)
LEMMA SlotGivenBack ==
  ASSUME TypeOK, SlotsApart, NEW x \in Slots, Free(x), Held(x), UNCHANGED translation,
         \A o \in Offsets : ~DirectAt(o, x),
         \A f \in Fingerprints, s \in Slots : EntryAt(f, s)' <=> EntryAt(f, s) /\ s # x,
         \A u \in Threads, s \in Slots : Private(u, s)' <=> Private(u, s) /\ s # x
  PROVE  SlotsApart'
<1>1. \A o \in Offsets, s \in Slots : DirectAt(o, s)' <=> DirectAt(o, s)
  BY DEF DirectAt, Maps
<1>2. FreeSet \subseteq Slots /\ nextSlot' = nextSlot /\ x \notin FreeSet /\ x < nextSlot
  BY FreeSlotsAreSlots DEF SlotsApart, Free
<1>3. NoDoubleFree' /\ \A s : s \in FreeSet' <=> s \in FreeSet \/ s = x
  BY <1>2, AppendFree DEF SlotsApart
<1>4. \A s \in Slots : Held(s)' <=> Held(s) /\ s # x
  BY <1>1 DEF Held
<1>5. /\ \A s \in FreeSet' : s < nextSlot' /\ ~Held(s)'
      /\ \A s \in Slots : Held(s)' => s < nextSlot'
  BY <1>2, <1>3, <1>4 DEF SlotsApart
<1>6. QED BY <1>1, <1>3, <1>5 DEF SlotsApart

(* allocate_slot hands the thread a slot that nothing holds. *)
LEMMA AllocateDedup ==
  ASSUME NEW t, Threads = {t}, DedupInv, AllocateDirect(t) \/ AllocateUnique(t), ~AllocatorExhausted
  PROVE  SlotsApart' /\ CountsOK' /\ HitOK'
<1> USE DEF DedupInv, TypeInv
<1>1. pc \in [Threads -> PCs] /\ slot \in [Threads -> Slots \cup {TotalSlots}]
  BY DEF TypeOK
<1>2. PICK x \in Slots : Allocate(x) /\ slot' = [slot EXCEPT ![t] = x]
  BY DEF AllocateDirect, AllocateUnique, AllocateSlot
<1>3. /\ UNCHANGED <<translation, map, req>>
      /\ pc[t] \in {"direct_alloc", "unique_alloc"} /\ pc'[t] \in {"direct_store", "unique_store"}
  BY <1>1 DEF AllocateDirect, AllocateUnique, AllocateSlot, Goto, dedupVars
<1>4. \A s \in Slots : Private(t, s)' <=> Private(t, s) \/ s = x
  BY <1>1, <1>2, <1>3 DEF Private
<1>5. \A f \in Fingerprints, s \in Slots : EntryAt(f, s)' <=> EntryAt(f, s)
  BY <1>3 DEF EntryAt, Tracked
<1>6. SlotsApart'
  BY <1>2, <1>3, <1>4, <1>5, SlotTaken
<1>7. CountsOK'
  BY <1>3, CountsStay
<1>8. HitOK'
  BY <1>3 DEF HitOK
<1>9. QED BY <1>6, <1>7, <1>8

(* free_slot after a failed write of the store. *)
LEMMA UnwindDedup ==
  ASSUME NEW t, Threads = {t}, DedupInv, Unwind(t)
  PROVE  SlotsApart' /\ CountsOK' /\ HitOK'
<1> USE DEF DedupInv, TypeInv
<1>1. pc \in [Threads -> PCs] /\ slot[t] \in Slots
  BY DEF TypeOK, Unwind, LocalsOK, SlotPCs
<1>2. /\ UNCHANGED <<translation, map, req, slot>> /\ Free(slot[t])
      /\ pc[t] = "unwind" /\ pc'[t] = "reply"
  BY <1>1 DEF Unwind, Return, Goto, dedupVars
<1>3. \A s \in Slots : (Private(t, s) <=> s = slot[t]) /\ ~Private(t, s)'
  BY <1>1, <1>2 DEF Private
<1>4. Held(slot[t]) /\ (\A o \in Offsets : ~DirectAt(o, slot[t])) /\ \A f \in Fingerprints : ~EntryAt(f, slot[t])
  BY <1>1, <1>3 DEF Held, SlotsApart
<1>5. \A f \in Fingerprints, s \in Slots : EntryAt(f, s)' <=> EntryAt(f, s) /\ s # slot[t]
  BY <1>2, <1>4 DEF EntryAt, Tracked
<1>6. SlotsApart'
  BY <1>1, <1>2, <1>3, <1>4, <1>5, SlotGivenBack
<1>7. CountsOK'
  BY <1>2, CountsStay
<1>8. HitOK'
  BY <1>2 DEF HitOK
<1>9. QED BY <1>6, <1>7, <1>8

(* write_direct: the private slot becomes a private direct translation. *)
LEMMA StoreDirectDedup ==
  ASSUME NEW t, Threads = {t}, DedupInv, StoreDirect(t)
  PROVE  SlotsApart' /\ CountsOK' /\ HitOK'
<1> USE DEF DedupInv, TypeInv
<1>1. pc \in [Threads -> PCs] /\ entry \in [Threads -> TranslationEntry \cup {NoEntry}]
  BY DEF TypeOK
<1>2. /\ UNCHANGED <<freeSlots, nextSlot, translation, map, slot>> /\ pc[t] = "direct_store"
      /\ \/ pc'[t] = "map" /\ entry'[t] = Direct(slot[t])
         \/ pc'[t] = "unwind"
  BY <1>1 DEF StoreDirect, Goto, dedupVars, allocatorVars
<1>3. \A s \in Slots : Private(t, s)' <=> Private(t, s)
  BY <1>2 DEF Private, Direct
<1>4. \A f \in Fingerprints, s \in Slots : EntryAt(f, s)' <=> EntryAt(f, s)
  BY <1>2 DEF EntryAt, Tracked
<1>5. SlotsApart'
  BY <1>2, <1>3, <1>4, HoldersStay
<1>6. ASSUME NEW f PROVE ~(pc[t] = "map" /\ Refers(entry[t], f))' /\ ~(pc[t] = "map" /\ Refers(entry[t], f))
  BY <1>2 DEF Refers, Direct
<1>7. ASSUME NEW f \in Fingerprints PROVE Referrers(f)' = Referrers(f)
  <2>1. \A o \in Offsets : Refers(translation[o], f)' <=> Refers(translation[o], f)
    BY <1>2 DEF Refers
  <2>2. QED BY <1>2, <1>6, <2>1, ReferrersStay
<1>8. CountsOK'
  BY <1>2, <1>6, <1>7 DEF CountsOK, Names, Tracked, Refers
<1>9. HitOK'
  BY <1>2 DEF HitOK
<1>10. QED BY <1>5, <1>8, <1>9

-----------------------------------------------------------------------------
(* A write gets a reference: of the entry it has hit, or of one it inserts.    *)
LEMMA ReferrerJoins ==
  ASSUME NEW t, Threads = {t}, CountsOK, NEW f \in Fingerprints, NEW s \in Slots, UNCHANGED translation,
         pc[t] \notin {"map", "release"}, pc'[t] = "map", entry'[t] = Deduplicated(f, s)
  PROVE  /\ \A g \in Fingerprints \ {f} : Referrers(g)' = Referrers(g)
         /\ Referrers(f)' = Referrers(f) \cup {<<"new", t>>}
         /\ IsFiniteSet(Referrers(f)') /\ Cardinality(Referrers(f)') = Cardinality(Referrers(f)) + 1
<1>1. \A g : Refers(entry'[t], g) <=> g = f
  <2>1. Deduplicated(f, s) # NoEntry
    BY DEF Deduplicated, TranslationEntry
  <2>2. QED BY <2>1 DEF Refers, Deduplicated
<1>2. ASSUME NEW g PROVE \A o \in Offsets : Refers(translation[o], g)' <=> Refers(translation[o], g)
  BY DEF Refers
<1>3. ASSUME NEW g \in Fingerprints \ {f} PROVE Referrers(g)' = Referrers(g)
  <2>1. ~(pc[t] = "map" /\ Refers(entry[t], g))'
    BY <1>1
  <2>2. QED BY <1>2, <2>1, ReferrersStay
<1>4. \A x : x \in Referrers(f)' <=> x \in Referrers(f) \cup {<<"new", t>>}
  <2>1. \A x : x \in Referrers(f)' <=>
             \/ \E o \in Offsets : x = <<"page", o>> /\ Refers(translation[o], f)'
             \/ x = <<"new", t>> /\ pc'[t] = "map" /\ Refers(entry'[t], f)
             \/ x = <<"old", t>> /\ pc'[t] = "release" /\ Refers(old'[t], f)
    BY DEF Referrers, Refers
  <2>2. QED BY <1>1, <1>2, <2>1, ReferrersAre
<1>5. Referrers(f)' = Referrers(f) \cup {<<"new", t>>} /\ <<"new", t>> \notin Referrers(f)
  BY <1>4, ReferrersAre
<1>6. QED BY <1>3, <1>5, OneMore DEF CountsOK

(* The write joins the entry whose slot it has compared. *)
LEMMA VerifyDedup ==
  ASSUME NEW t, Threads = {t}, DedupInv, Verify(t), pc'[t] = "map", NEW f, f = FpOf[req[t].page]
  PROVE  SlotsApart' /\ CountsOK' /\ HitOK'
<1> USE DEF DedupInv, TypeInv
<1>1. /\ pc \in [Threads -> PCs] /\ entry \in [Threads -> TranslationEntry \cup {NoEntry}]
      /\ map \in [Fingerprints -> DedupEntry \cup {NoMeta}]
  BY DEF TypeOK, DedupTypeOK
<1>2. /\ AddReference(f) /\ UNCHANGED <<freeSlots, nextSlot, translation, req>>
      /\ pc[t] = "verify" /\ entry'[t] = Deduplicated(f, slot[t])
  BY <1>1 DEF Verify, Goto, Return, backendVars
<1>3. f \in Fingerprints /\ slot[t] \in Slots
  BY <1>2 DEF LocalsOK, WritePCs, SlotPCs
<1>4. Tracked(f) /\ map[f].slot = slot[t]
  BY <1>2 DEF HitOK
<1>5. /\ \A g \in Fingerprints : Tracked(g)' <=> Tracked(g)
      /\ map[f].ref \in Nat /\ map' = [map EXCEPT ![f].ref = @ + 1]
  BY <1>2, <1>3, CountChanges
<1>6. map[f] \in DedupEntry
  BY <1>1, <1>3, <1>4 DEF Tracked
<1>7. /\ \A g \in Fingerprints : map'[g].slot = map[g].slot
      /\ \A g \in Fingerprints \ {f} : map'[g].ref = map[g].ref
      /\ map'[f].ref = map[f].ref + 1
  BY <1>1, <1>3, <1>5, <1>6 DEF DedupEntry
<1>8. SlotsApart'
  <2>1. \A s \in Slots : ~Private(t, s) /\ ~Private(t, s)'
    BY <1>2 DEF Private, Deduplicated
  <2>2. \A g \in Fingerprints, s \in Slots : EntryAt(g, s)' <=> EntryAt(g, s)
    BY <1>5, <1>7 DEF EntryAt
  <2>3. QED BY <1>2, <2>1, <2>2, HoldersStay
<1>9. /\ \A g \in Fingerprints \ {f} : Referrers(g)' = Referrers(g)
      /\ IsFiniteSet(Referrers(f)') /\ Cardinality(Referrers(f)') = Cardinality(Referrers(f)) + 1
  <2>1. CountsOK /\ UNCHANGED translation /\ pc[t] \notin {"map", "release"} /\ pc'[t] = "map"
    BY <1>2
  <2>2. PICK s \in Slots : entry'[t] = Deduplicated(f, s)
    BY <1>2, <1>3
  <2> HIDE DEF DedupInv, TypeInv
  <2>3. QED BY <1>3, <2>1, <2>2, ReferrerJoins
<1>10. CountsOK'
  <2> SUFFICES ASSUME NEW g \in Fingerprints
               PROVE  /\ IsFiniteSet(Referrers(g)')
                      /\ Cardinality(Referrers(g)') = IF Tracked(g)' THEN map'[g].ref ELSE 0
                      /\ \A o \in Offsets : Names(g, translation[o])'
                      /\ Names(g, entry[t])'
    BY <1>2 DEF CountsOK
  <2>1. IsFiniteSet(Referrers(g)') /\ Cardinality(Referrers(g)') = IF Tracked(g)' THEN map'[g].ref ELSE 0
    <3>1. /\ IsFiniteSet(Referrers(g)) /\ Cardinality(Referrers(g)) = IF Tracked(g) THEN map[g].ref ELSE 0
          /\ Cardinality(Referrers(f)) = map[f].ref
      BY <1>3, <1>4 DEF CountsOK
    <3>2. CASE g = f
      BY <1>4, <1>5, <1>7, <1>9, <3>1, <3>2
    <3>3. CASE g # f
      BY <1>5, <1>7, <1>9, <3>1, <3>3
    <3>4. QED BY <3>2, <3>3
  <2>2. \A o \in Offsets : Names(g, translation[o])'
    BY <1>2, <1>5, <1>7 DEF CountsOK, Names, Refers
  <2>3. Names(g, entry[t])'
    <3>1. entry'[t].slot = map[f].slot /\ entry'[t].fp = f
      BY <1>2, <1>4 DEF Deduplicated
    <3>2. Tracked(f)' /\ map'[f].slot = map[f].slot
      BY <1>3, <1>4, <1>5, <1>7
    <3> HIDE DEF DedupInv, TypeInv
    <3>3. Refers(entry'[t], g) => g = f
      BY <3>1 DEF Refers
    <3>4. QED
      BY <3>1, <3>2, <3>3 DEF Names, Refers
  <2>4. QED BY <2>1, <2>2, <2>3
<1>11. HitOK'
  BY DEF HitOK
<1>12. QED BY <1>8, <1>10, <1>11

(* insert returns false: the page stays a direct mapping of its own slot. *)
LEMMA RefusedDedup ==
  ASSUME NEW t, Threads = {t}, DedupInv, InsertUnique(t), UNCHANGED dedupVars, entry'[t] = Direct(slot[t])
  PROVE  SlotsApart' /\ CountsOK' /\ HitOK'
<1> USE DEF DedupInv, TypeInv
<1>1. pc \in [Threads -> PCs]
  BY DEF TypeOK
<1>2. UNCHANGED <<freeSlots, nextSlot, translation, map, slot>> /\ pc[t] = "insert" /\ pc'[t] = "map"
  BY <1>1 DEF InsertUnique, Goto, dedupVars, backendVars
<1>3. \A s \in Slots : Private(t, s)' <=> Private(t, s)
  BY <1>2 DEF Private, Direct
<1>4. \A f \in Fingerprints, s \in Slots : EntryAt(f, s)' <=> EntryAt(f, s)
  BY <1>2 DEF EntryAt, Tracked
<1>5. SlotsApart'
  BY <1>2, <1>3, <1>4, HoldersStay
<1>6. ASSUME NEW f PROVE ~(pc[t] = "map" /\ Refers(entry[t], f))' /\ ~(pc[t] = "map" /\ Refers(entry[t], f))
  BY <1>2 DEF Refers, Direct
<1>7. ASSUME NEW f \in Fingerprints PROVE Referrers(f)' = Referrers(f)
  <2>1. \A o \in Offsets : Refers(translation[o], f)' <=> Refers(translation[o], f)
    BY <1>2 DEF Refers
  <2>2. QED BY <1>2, <1>6, <2>1, ReferrersStay
<1>8. CountsOK'
  BY <1>2, <1>6, <1>7 DEF CountsOK, Names, Tracked, Refers
<1>9. HitOK'
  BY <1>2 DEF HitOK
<1>10. QED BY <1>5, <1>8, <1>9

(* insert returns true without evicting: the slot becomes the entry's. *)
LEMMA InsertedDedup ==
  ASSUME NEW t, Threads = {t}, DedupInv, LeavesByRelease, InsertUnique(t), NEW f, f = FpOf[req[t].page],
         Insert(f, req[t].page, slot[t]), entry'[t] = Deduplicated(f, slot[t])
  PROVE  SlotsApart' /\ CountsOK' /\ HitOK'
<1> USE DEF DedupInv, TypeInv
<1>1. pc \in [Threads -> PCs]
  BY DEF TypeOK
<1>2. UNCHANGED <<freeSlots, nextSlot, translation, slot>> /\ pc[t] = "insert" /\ pc'[t] = "map"
  BY <1>1 DEF InsertUnique, Goto, backendVars
<1>3. f \in Fingerprints /\ slot[t] \in Slots /\ req[t].page \in Pages
  BY <1>2 DEF LocalsOK, WritePCs, SlotPCs
<1>4. /\ map'[f] \in DedupEntry /\ map'[f].ref = 1 /\ map'[f].slot = slot[t] /\ ~Tracked(f)
      /\ \A g \in Fingerprints \ {f} : map'[g] = map[g]
  <2>1. ASSUME NEW v \in TrackedSet \ {f}, \A g \in Fingerprints \ {f} : map'[g] = IF g = v THEN NoMeta ELSE map[g]
        PROVE  FALSE
    BY <1>2, <2>1 DEF LeavesByRelease, TrackedSet, Tracked
  <2>2. /\ map'[f] = [ref |-> 1, slot |-> slot[t], prefix |-> PrefixOf[req[t].page]]
        /\ map'[f] \in DedupEntry /\ ~Tracked(f)
        /\ \/ \A g \in Fingerprints \ {f} : map'[g] = map[g]
           \/ \E v \in TrackedSet \ {f} : \A g \in Fingerprints \ {f} : map'[g] = IF g = v THEN NoMeta ELSE map[g]
    BY <1>3, Inserted
  <2>3. QED BY <2>1, <2>2
<1>5. Tracked(f)' /\ \A g \in Fingerprints \ {f} : Tracked(g)' <=> Tracked(g)
  BY <1>3, <1>4 DEF Tracked
<1>6. \A s \in Slots : (Private(t, s) <=> s = slot[t]) /\ ~Private(t, s)'
  BY <1>2 DEF Private, Deduplicated
<1>7. \A g \in Fingerprints, s \in Slots : EntryAt(g, s)' <=> EntryAt(g, s) \/ (g = f /\ s = slot[t])
  BY <1>4, <1>5 DEF EntryAt
<1>8. SlotsApart'
  <2>1. \A o \in Offsets, s \in Slots : DirectAt(o, s)' <=> DirectAt(o, s)
    BY <1>2 DEF DirectAt, Maps
  <2>2. \A s \in Slots : Held(s)' <=> Held(s)
    BY <1>3, <1>6, <1>7, <2>1 DEF Held
  <2>3. FreeSet' = FreeSet /\ NoDoubleFree' /\ FreeSet \subseteq Slots
    BY <1>2, FreeSlotsAreSlots DEF SlotsApart, NoDoubleFree, FreeSet
  <2>4. /\ \A s \in FreeSet' : s < nextSlot' /\ ~Held(s)'
        /\ \A s \in Slots : Held(s)' => s < nextSlot'
    BY <1>2, <2>2, <2>3 DEF SlotsApart
  <2>5. QED BY <1>6, <1>7, <2>1, <2>3, <2>4 DEF SlotsApart
<1>9. Referrers(f) = {} /\ Cardinality(Referrers(f)) = 0
  BY <1>3, <1>4, FS_EmptySet DEF CountsOK
<1>10. /\ \A g \in Fingerprints \ {f} : Referrers(g)' = Referrers(g)
       /\ IsFiniteSet(Referrers(f)') /\ Cardinality(Referrers(f)') = 1
  <2>1. CountsOK /\ UNCHANGED translation /\ pc[t] \notin {"map", "release"}
    BY <1>2
  <2>2. PICK s \in Slots : entry'[t] = Deduplicated(f, s)
    BY <1>3
  <2> HIDE DEF DedupInv, TypeInv
  <2>3. /\ \A g \in Fingerprints \ {f} : Referrers(g)' = Referrers(g)
        /\ IsFiniteSet(Referrers(f)') /\ Cardinality(Referrers(f)') = Cardinality(Referrers(f)) + 1
    BY <1>2, <1>3, <2>1, <2>2, ReferrerJoins
  <2>4. QED BY <1>9, <2>3
<1>11. CountsOK'
  <2> SUFFICES ASSUME NEW g \in Fingerprints
               PROVE  /\ IsFiniteSet(Referrers(g)')
                      /\ Cardinality(Referrers(g)') = IF Tracked(g)' THEN map'[g].ref ELSE 0
                      /\ \A o \in Offsets : Names(g, translation[o])'
                      /\ Names(g, entry[t])'
    BY <1>2 DEF CountsOK
  <2>1. IsFiniteSet(Referrers(g)') /\ Cardinality(Referrers(g)') = IF Tracked(g)' THEN map'[g].ref ELSE 0
    BY <1>4, <1>5, <1>10 DEF CountsOK
  <2>2. \A o \in Offsets : Names(g, translation[o])'
    <3>1. \A o \in Offsets : Refers(translation[o], g) => g # f
      BY <1>3, <1>4 DEF CountsOK, Names
    <3>2. QED BY <1>2, <1>4, <1>5, <3>1 DEF CountsOK, Names, Refers
  <2>3. Names(g, entry[t])'
    BY <1>4, <1>5 DEF Names, Refers, Deduplicated
  <2>4. QED BY <2>1, <2>2, <2>3
<1>12. HitOK'
  BY <1>2 DEF HitOK
<1>13. QED BY <1>8, <1>11, <1>12

-----------------------------------------------------------------------------
(* A write or a discard replaces the translation of a page: what it installs    *)
(* was the thread's, and what it displaces becomes the thread's.               *)
LEMMA ReferrersMove ==
  ASSUME NEW t, Threads = {t}, TypeOK, NEW f, IsFiniteSet(Referrers(f)),
         NEW p \in Offsets, NEW e, NEW w, w = translation[p], translation' = [translation EXCEPT ![p] = e],
         \/ pc[t] = "map" /\ e = entry[t]
         \/ pc[t] = "discard" /\ e = NoEntry,
         old'[t] = w, pc'[t] = IF w = NoEntry THEN "reply" ELSE "release"
  PROVE  IsFiniteSet(Referrers(f)') /\ Cardinality(Referrers(f)') = Cardinality(Referrers(f))
<1>1. /\ ~Refers(NoEntry, f)
      /\ \A o \in Offsets : translation'[o] = IF o = p THEN e ELSE translation[o]
  BY DEF TypeOK, BackendTypeOK, Refers
<1>2. \A x : x \in Referrers(f) <=>
           \/ \E o \in Offsets : x = <<"page", o>> /\ Refers(translation[o], f)
           \/ x = <<"new", t>> /\ Refers(e, f)
  BY <1>1, ReferrersAre
<1>3. \A x : x \in Referrers(f)' <=>
           \/ \E o \in Offsets : x = <<"page", o>> /\ Refers(translation'[o], f)
           \/ x = <<"old", t>> /\ Refers(w, f)
  <2>1. \A x : x \in Referrers(f)' <=>
           \/ \E o \in Offsets : x = <<"page", o>> /\ Refers(translation[o], f)'
           \/ x = <<"new", t>> /\ (pc[t] = "map" /\ Refers(entry[t], f))'
           \/ x = <<"old", t>> /\ (pc[t] = "release" /\ Refers(old[t], f))'
    BY DEF Referrers
  <2>2. \A x : Refers(x, f)' <=> Refers(x', f)
    BY DEF Refers
  <2>3. QED BY <1>1, <2>1 DEF Refers
<1>4. \A x : x \in Referrers(f)' <=>
           \/ \E o \in Offsets \ {p} : x = <<"page", o>> /\ Refers(translation[o], f)
           \/ x = <<"page", p>> /\ Refers(e, f)
           \/ x = <<"old", t>> /\ Refers(w, f)
  BY <1>1, <1>3
<1>5. CASE ~Refers(e, f) /\ ~Refers(w, f)
  <2>1. \A x : x \in Referrers(f)' <=> x \in Referrers(f)
    BY <1>2, <1>4, <1>5
  <2>2. Referrers(f)' = Referrers(f)
    BY <2>1
  <2>3. QED BY <2>2
<1>6. ASSUME NEW a \in Referrers(f), NEW b, b \notin Referrers(f),
             \A x : x \in Referrers(f)' <=> (x \in Referrers(f) /\ x # a) \/ x = b
      PROVE  IsFiniteSet(Referrers(f)') /\ Cardinality(Referrers(f)') = Cardinality(Referrers(f))
  <2>1. Referrers(f)' = (Referrers(f) \ {a}) \cup {b}
    BY <1>6
  <2>2. QED BY <1>6, <2>1, Swapped
<1>7. CASE Refers(e, f) /\ ~Refers(w, f)
  <2>1. /\ <<"new", t>> \in Referrers(f) /\ <<"page", p>> \notin Referrers(f)
        /\ \A x : x \in Referrers(f)' <=> (x \in Referrers(f) /\ x # <<"new", t>>) \/ x = <<"page", p>>
    BY <1>2, <1>4, <1>7
  <2>2. QED BY <1>6, <2>1
<1>8. CASE ~Refers(e, f) /\ Refers(w, f)
  <2>1. /\ <<"page", p>> \in Referrers(f) /\ <<"old", t>> \notin Referrers(f)
        /\ \A x : x \in Referrers(f)' <=> (x \in Referrers(f) /\ x # <<"page", p>>) \/ x = <<"old", t>>
    BY <1>2, <1>4, <1>8
  <2>2. QED BY <1>6, <2>1
<1>9. CASE Refers(e, f) /\ Refers(w, f)
  <2>1. /\ <<"new", t>> \in Referrers(f) /\ <<"old", t>> \notin Referrers(f)
        /\ \A x : x \in Referrers(f)' <=> (x \in Referrers(f) /\ x # <<"new", t>>) \/ x = <<"old", t>>
    BY <1>2, <1>4, <1>9
  <2>2. QED BY <1>6, <2>1
<1>10. QED BY <1>5, <1>7, <1>8, <1>9

(* replace_mapping and the removal in handle_discard. *)
LEMMA DisplaceDedup ==
  ASSUME NEW t, Threads = {t}, DedupInv, MapPage(t) \/ Discard(t)
  PROVE  SlotsApart' /\ CountsOK' /\ HitOK'
<1> USE DEF DedupInv, TypeInv
<1>1. /\ pc \in [Threads -> PCs] /\ old \in [Threads -> TranslationEntry \cup {NoEntry}]
      /\ translation \in [Offsets -> TranslationEntry \cup {NoEntry}] /\ req[t].off \in Offsets
  BY DEF TypeOK, BackendTypeOK, MapPage, Discard, LocalsOK, WritePCs
<1>2. PICK p, e, w :
        /\ p \in Offsets /\ p = req[t].off /\ w = translation[p] /\ translation' = [translation EXCEPT ![p] = e]
        /\ \/ pc[t] = "map" /\ e = entry[t]
           \/ pc[t] = "discard" /\ e = NoEntry
        /\ old'[t] = w /\ pc'[t] = IF w = NoEntry THEN "reply" ELSE "release"
  <2> HIDE DEF DedupInv, TypeInv
  <2>1. Displace(t, req[t].off)
    BY DEF MapPage, Discard
  <2>2. /\ old'[t] = translation[req[t].off]
        /\ pc'[t] = IF translation[req[t].off] = NoEntry THEN "reply" ELSE "release"
    BY <1>1, <2>1 DEF Displace, Goto
  <2>3. \E e : /\ translation' = [translation EXCEPT ![req[t].off] = e]
               /\ \/ pc[t] = "map" /\ e = entry[t]
                  \/ pc[t] = "discard" /\ e = NoEntry
    BY DEF MapPage, Discard
  <2>4. QED
    BY <1>1, <2>2, <2>3
<1>3. UNCHANGED <<freeSlots, nextSlot, map, req, slot, entry>>
  BY DEF MapPage, Discard, dedupVars, allocatorVars
<1>4. \A o \in Offsets : translation'[o] = IF o = p THEN e ELSE translation[o]
  BY <1>1, <1>2
<1>5. \A s \in Slots : Private(t, s) <=> e # NoEntry /\ e.kind = "direct" /\ e.slot = s
  BY <1>2 DEF Private, LocalsOK
<1>6. \A s \in Slots : Private(t, s)' <=> DirectAt(p, s)
  BY <1>2 DEF Private, DirectAt, Maps
<1>7. \A o \in Offsets, s \in Slots : DirectAt(o, s)' <=> IF o = p THEN Private(t, s) ELSE DirectAt(o, s)
  BY <1>4, <1>5 DEF DirectAt, Maps
<1>8. \A f \in Fingerprints, s \in Slots : EntryAt(f, s)' <=> EntryAt(f, s)
  BY <1>3 DEF EntryAt, Tracked
<1>9. SlotsApart'
  <2>1. FreeSet' = FreeSet /\ NoDoubleFree' /\ FreeSet \subseteq Slots
    BY <1>3, FreeSlotsAreSlots DEF SlotsApart, NoDoubleFree, FreeSet
  <2>2. \A s \in Slots : Held(s)' <=> Held(s)
    BY <1>2, <1>6, <1>7, <1>8 DEF Held
  <2>3. /\ \A s \in FreeSet' : s < nextSlot' /\ ~Held(s)'
        /\ \A s \in Slots : Held(s)' => s < nextSlot'
    BY <1>3, <2>1, <2>2 DEF SlotsApart
  <2>4. /\ \A s \in Slots : \A o, q \in Offsets : DirectAt(o, s)' /\ DirectAt(q, s)' => o = q
        /\ \A s \in Slots : \A o \in Offsets, f \in Fingerprints : ~(DirectAt(o, s)' /\ EntryAt(f, s)')
    BY <1>7, <1>8 DEF SlotsApart
  <2>5. \A s \in Slots : Private(t, s)' =>
          (\A o \in Offsets : ~DirectAt(o, s)') /\ (\A f \in Fingerprints : ~EntryAt(f, s)')
    BY <1>2, <1>6, <1>7, <1>8 DEF SlotsApart
  <2>6. QED BY <1>8, <2>1, <2>3, <2>4, <2>5 DEF SlotsApart
<1>10. ASSUME NEW f \in Fingerprints
       PROVE  IsFiniteSet(Referrers(f)') /\ Cardinality(Referrers(f)') = Cardinality(Referrers(f))
  <2>1. TypeOK /\ IsFiniteSet(Referrers(f))
    BY DEF CountsOK
  <2> HIDE DEF DedupInv, TypeInv
  <2>2. QED BY <1>2, <2>1, ReferrersMove
<1>11. CountsOK'
  <2> SUFFICES ASSUME NEW f \in Fingerprints
               PROVE  /\ IsFiniteSet(Referrers(f)')
                      /\ Cardinality(Referrers(f)') = IF Tracked(f)' THEN map'[f].ref ELSE 0
                      /\ \A o \in Offsets : Names(f, translation[o])'
                      /\ pc'[t] = "release" => Names(f, old[t])'
    BY <1>2 DEF CountsOK
  <2>1. IsFiniteSet(Referrers(f)') /\ Cardinality(Referrers(f)') = IF Tracked(f)' THEN map'[f].ref ELSE 0
    BY <1>3, <1>10 DEF CountsOK, Tracked
  <2>2. Names(f, e) /\ \A o \in Offsets : Names(f, translation[o])
    BY <1>2 DEF CountsOK, Names, Refers
  <2>3. \A o \in Offsets : Names(f, translation[o])'
    BY <1>3, <1>4, <2>2 DEF Names, Refers, Tracked
  <2>4. Names(f, old[t])'
    BY <1>2, <1>3, <2>2 DEF Names, Refers, Tracked
  <2>5. QED BY <2>1, <2>3, <2>4
<1>12. HitOK'
  BY <1>2 DEF HitOK
<1>13. QED BY <1>9, <1>11, <1>12

-----------------------------------------------------------------------------
(* release_mapping of a displaced direct translation, and of a reference.       *)
LEMMA ReleaseDirectDedup ==
  ASSUME NEW t, Threads = {t}, DedupInv, ReleaseMapping(t), old[t].kind = "direct"
  PROVE  SlotsApart' /\ CountsOK' /\ HitOK'
<1> USE DEF DedupInv, TypeInv
<1>1. pc \in [Threads -> PCs] /\ old[t] \in TranslationEntry /\ old[t].slot \in Slots
  BY DEF TypeOK, ReleaseMapping, LocalsOK, TranslationEntry
<1>2. /\ UNCHANGED <<translation, map, req, slot, old>> /\ Free(old[t].slot)
      /\ pc[t] = "release" /\ pc'[t] = "reply"
  BY <1>1 DEF ReleaseMapping, Goto, dedupVars
<1>3. \A s \in Slots : (Private(t, s) <=> s = old[t].slot) /\ ~Private(t, s)'
  BY <1>1, <1>2 DEF Private
<1>4. Held(old[t].slot) /\ (\A o \in Offsets : ~DirectAt(o, old[t].slot)) /\ \A f \in Fingerprints : ~EntryAt(f, old[t].slot)
  BY <1>1, <1>3 DEF Held, SlotsApart
<1>5. \A f \in Fingerprints, s \in Slots : EntryAt(f, s)' <=> EntryAt(f, s) /\ s # old[t].slot
  BY <1>2, <1>4 DEF EntryAt, Tracked
<1>6. SlotsApart'
  BY <1>1, <1>2, <1>3, <1>4, <1>5, SlotGivenBack
<1>7. ASSUME NEW f \in Fingerprints PROVE Referrers(f)' = Referrers(f)
  <2>1. \A o \in Offsets : Refers(translation[o], f)' <=> Refers(translation[o], f)
    BY <1>2 DEF Refers
  <2>2. ~(pc[t] = "release" /\ Refers(old[t], f)) /\ ~(pc[t] = "release" /\ Refers(old[t], f))'
    BY <1>2 DEF Refers
  <2>3. QED BY <1>2, <2>1, <2>2, ReferrersStay
<1>8. CountsOK'
  BY <1>2, <1>7 DEF CountsOK, Names, Tracked, Refers
<1>9. HitOK'
  BY <1>2 DEF HitOK
<1>10. QED BY <1>6, <1>8, <1>9

(* The reference of the released translation, and no other, goes.              *)
LEMMA ReferrerLeaves ==
  ASSUME NEW t, Threads = {t}, CountsOK, NEW f \in Fingerprints, UNCHANGED translation,
         pc[t] = "release", pc'[t] = "reply", Refers(old[t], f)
  PROVE  /\ \A g \in Fingerprints \ {f} : Referrers(g)' = Referrers(g)
         /\ IsFiniteSet(Referrers(f)') /\ Cardinality(Referrers(f)) \in Nat \ {0}
         /\ Cardinality(Referrers(f)') = Cardinality(Referrers(f)) - 1
<1>1. \A g : Refers(old[t], g) <=> g = f
  BY DEF Refers
<1>2. ASSUME NEW g PROVE \A o \in Offsets : Refers(translation[o], g)' <=> Refers(translation[o], g)
  BY DEF Refers
<1>3. ASSUME NEW g \in Fingerprints \ {f} PROVE Referrers(g)' = Referrers(g)
  <2>1. ~(pc[t] = "release" /\ Refers(old[t], g)) /\ ~(pc[t] = "release" /\ Refers(old[t], g))'
    BY <1>1
  <2>2. ~(pc[t] = "map" /\ Refers(entry[t], g)) /\ ~(pc[t] = "map" /\ Refers(entry[t], g))'
    OBVIOUS
  <2>3. QED BY <1>2, <2>1, <2>2, ReferrersStay
<1>4. \A x : x \in Referrers(f)' <=> x \in Referrers(f) /\ x # <<"old", t>>
  <2>1. \A x : x \in Referrers(f)' <=>
             \/ \E o \in Offsets : x = <<"page", o>> /\ Refers(translation[o], f)'
             \/ x = <<"new", t>> /\ (pc[t] = "map" /\ Refers(entry[t], f))'
             \/ x = <<"old", t>> /\ (pc[t] = "release" /\ Refers(old[t], f))'
    BY DEF Referrers
  <2>2. QED BY <1>2, <2>1, ReferrersAre
<1>5. Referrers(f)' = Referrers(f) \ {<<"old", t>>} /\ <<"old", t>> \in Referrers(f)
  BY <1>4, ReferrersAre
<1>6. PICK R, S : S = Referrers(f) /\ R = Referrers(f)' /\ R = S \ {<<"old", t>>} /\ <<"old", t>> \in S
  BY <1>5
<1>7. IsFiniteSet(S)
  BY <1>6 DEF CountsOK
<1>8. /\ IsFiniteSet(R) /\ Cardinality(S) \in Nat /\ Cardinality(R) \in Nat
      /\ Cardinality(R) = Cardinality(S) - 1
  BY <1>6, <1>7, OneLess
<1>9. QED BY <1>3, <1>6, <1>8

(* remove_reference: one less, or the slot goes back with the last one. *)
LEMMA ReleaseReferenceDedup ==
  ASSUME NEW t, Threads = {t}, DedupInv, ReleaseMapping(t), old[t].kind = "dedup", NEW f, f = old[t].fp
  PROVE  SlotsApart' /\ CountsOK' /\ HitOK'
<1> USE DEF DedupInv, TypeInv
<1>1. /\ pc \in [Threads -> PCs] /\ old[t] \in TranslationEntry /\ f \in Fingerprints
      /\ map \in [Fingerprints -> DedupEntry \cup {NoMeta}]
  BY DEF TypeOK, DedupTypeOK, ReleaseMapping, LocalsOK, TranslationEntry
<1>2. /\ UNCHANGED <<translation, req, slot, old>> /\ pc[t] = "release" /\ pc'[t] = "reply"
  BY <1>1 DEF ReleaseMapping, Goto
<1>3. Refers(old[t], f)
  BY <1>1 DEF Refers
<1>4. Tracked(f) /\ map[f] \in DedupEntry /\ map[f].slot \in Slots /\ map[f].ref \in Nat
  BY <1>1, <1>2, <1>3 DEF CountsOK, Names, Tracked, DedupEntry
<1>5. /\ \A g \in Fingerprints \ {f} : Referrers(g)' = Referrers(g)
      /\ IsFiniteSet(Referrers(f)') /\ map[f].ref \in Nat \ {0}
      /\ Cardinality(Referrers(f)') = map[f].ref - 1
  <2>1. CountsOK /\ Cardinality(Referrers(f)) = map[f].ref
    BY <1>1, <1>4 DEF CountsOK
  <2> HIDE DEF DedupInv, TypeInv
  <2>2. QED BY <1>1, <1>2, <1>3, <2>1, ReferrerLeaves
<1>6. \A s \in Slots : ~Private(t, s) /\ ~Private(t, s)'
  BY <1>2 DEF Private
<1>7. /\ \A g \in Fingerprints \ {f} : Tracked(g)' <=> Tracked(g)
      /\ \A g \in Fingerprints \ {f} : map'[g] = map[g]
      /\ \/ Tracked(f)' /\ map'[f].ref = map[f].ref - 1 /\ map'[f].slot = map[f].slot /\ UNCHANGED allocatorVars
         \/ ~Tracked(f)' /\ map[f].ref = 1 /\ Free(map[f].slot)
  <2>1. CASE RemovalStillReferenced(f) /\ UNCHANGED allocatorVars
    <3>1. map[f].ref - 1 \in Nat /\ map' = [map EXCEPT ![f].ref = @ - 1]
      BY <1>5, <2>1 DEF RemovalStillReferenced
    <3>2. map'[f] \in DedupEntry /\ map'[f].ref = map[f].ref - 1 /\ map'[f].slot = map[f].slot
      BY <1>1, <1>4, <3>1 DEF DedupEntry
    <3>3. QED BY <1>1, <2>1, <3>1, <3>2 DEF Tracked
  <2>2. CASE RemovalRemoved(f) /\ Free(map[f].slot)
    BY <1>1, <1>5, <2>2 DEF RemovalRemoved, LastReference, Tracked
  <2>3. ~RemovalNotTracked(f)
    BY <1>4 DEF RemovalNotTracked
  <2>4. QED BY <2>1, <2>2, <2>3 DEF ReleaseMapping
<1>8. SlotsApart'
  <2>1. CASE Tracked(f)' /\ map'[f].slot = map[f].slot /\ UNCHANGED allocatorVars
    <3>1. \A g \in Fingerprints, s \in Slots : EntryAt(g, s)' <=> EntryAt(g, s)
      BY <1>4, <1>7, <2>1 DEF EntryAt
    <3>2. QED BY <1>2, <1>6, <2>1, <3>1, HoldersStay DEF allocatorVars
  <2>2. CASE ~Tracked(f)' /\ Free(map[f].slot)
    <3>1. PICK x \in Slots : x = map[f].slot
      BY <1>4
    <3>2. EntryAt(f, x) /\ Held(x) /\ \A o \in Offsets : ~DirectAt(o, x)
      BY <1>1, <1>4, <3>1 DEF EntryAt, Held, SlotsApart
    <3>3. \A g \in Fingerprints, s \in Slots : EntryAt(g, s)' <=> EntryAt(g, s) /\ s # x
      <4>1. ASSUME NEW g \in Fingerprints \ {f}, NEW s \in Slots PROVE EntryAt(g, s)' <=> EntryAt(g, s) /\ s # x
        <5>1. EntryAt(g, s)' <=> EntryAt(g, s)
          BY <1>7 DEF EntryAt
        <5>2. EntryAt(g, s) => s # x
          BY <1>1, <3>2 DEF SlotsApart
        <5>3. QED BY <5>1, <5>2
      <4>2. ASSUME NEW s \in Slots PROVE ~EntryAt(f, s)' /\ (EntryAt(f, s) => s = x)
        BY <2>2, <3>1 DEF EntryAt
      <4>3. QED BY <4>1, <4>2
    <3>4. QED BY <1>2, <1>6, <2>2, <3>1, <3>2, <3>3, SlotGivenBack
  <2>3. QED BY <1>7, <2>1, <2>2
<1>9. CountsOK'
  <2> SUFFICES ASSUME NEW g \in Fingerprints
               PROVE  /\ IsFiniteSet(Referrers(g)')
                      /\ Cardinality(Referrers(g)') = IF Tracked(g)' THEN map'[g].ref ELSE 0
                      /\ \A o \in Offsets : Names(g, translation[o])'
    BY <1>2 DEF CountsOK
  <2>1. CASE g # f
    <3>1. IsFiniteSet(Referrers(g)') /\ Cardinality(Referrers(g)') = IF Tracked(g)' THEN map'[g].ref ELSE 0
      BY <1>5, <1>7, <2>1 DEF CountsOK
    <3>2. \A o \in Offsets : Names(g, translation[o])'
      BY <1>2, <1>7, <2>1 DEF CountsOK, Names, Refers
    <3>3. QED BY <3>1, <3>2
  <2>2. CASE g = f
    <3>1. IsFiniteSet(Referrers(f)') /\ Cardinality(Referrers(f)') = IF Tracked(f)' THEN map'[f].ref ELSE 0
      BY <1>5, <1>7
    <3>2. ASSUME NEW o \in Offsets, Refers(translation'[o], f)
          PROVE  Tracked(f)' /\ translation'[o].slot = map'[f].slot
      <4>1. translation[o].slot = map[f].slot
        BY <1>1, <1>2, <3>2 DEF CountsOK, Names
      <4>2. Referrers(f)' # {}
        <5>1. <<"page", o>> \in Referrers(f)'
          BY <3>2 DEF Referrers, Refers
        <5>2. QED BY <5>1
      <4>3. Tracked(f)'
        <5>1. Cardinality(Referrers(f)') # 0
          BY <1>5, <4>2, FS_EmptySet
        <5>2. QED BY <3>1, <5>1
      <4>4. QED BY <1>2, <1>7, <4>1, <4>3
    <3>3. \A o \in Offsets : Names(f, translation[o])'
      BY <3>2 DEF Names, Refers
    <3>4. QED BY <2>2, <3>1, <3>3
  <2>3. QED BY <2>1, <2>2
<1>10. HitOK'
  BY <1>2 DEF HitOK
<1>11. QED BY <1>8, <1>9, <1>10

-----------------------------------------------------------------------------
(* Every step of the dry run that evicts no metadata keeps the invariant.      *)
LEMMA StepDedup ==
  ASSUME NEW t, Threads = {t}, DedupInv, LeavesByRelease, Invoke(t) \/ Step(t)
  PROVE  SlotsApart' /\ CountsOK' /\ HitOK'
<1>1. CASE Verify(t) /\ pc'[t] = "map"
  <2>1. PICK f : f = FpOf[req[t].page]
    OBVIOUS
  <2>2. QED BY <1>1, <2>1, VerifyDedup
<1>2. CASE InsertUnique(t)
  <2>1. PICK f : f = FpOf[req[t].page]
    OBVIOUS
  <2>2. entry \in [Threads -> TranslationEntry \cup {NoEntry}]
    BY DEF DedupInv, TypeInv, TypeOK
  <2>3. CASE Insert(f, req[t].page, slot[t]) /\ entry' = [entry EXCEPT ![t] = Deduplicated(f, slot[t])]
    <3>1. entry'[t] = Deduplicated(f, slot[t])
      BY <2>2, <2>3
    <3>2. QED BY <1>2, <2>1, <2>3, <3>1, InsertedDedup
  <2>4. CASE UNCHANGED dedupVars /\ entry' = [entry EXCEPT ![t] = Direct(slot[t])]
    <3>1. entry'[t] = Direct(slot[t])
      BY <2>2, <2>4
    <3>2. QED BY <1>2, <2>4, <3>1, RefusedDedup
  <2>5. QED BY <1>2, <2>1, <2>3, <2>4 DEF InsertUnique
<1>3. CASE ReleaseMapping(t)
  <2>1. PICK f : f = old[t].fp
    OBVIOUS
  <2>2. QED BY <1>3, <2>1, ReleaseDirectDedup, ReleaseReferenceDedup DEF ReleaseMapping
<1>4. CASE AllocateDirect(t) \/ AllocateUnique(t)
  BY <1>4, AllocateDedup, QuietDedup
<1>5. CASE StoreDirect(t) \/ Unwind(t) \/ MapPage(t) \/ Discard(t)
  BY <1>5, StoreDirectDedup, UnwindDedup, DisplaceDedup
<1>6. CASE \/ Invoke(t) \/ WriteBegin(t) \/ ReadLookup(t) \/ ReadLoad(t) \/ Reply(t) \/ StoreUnique(t)
           \/ Verify(t) /\ pc'[t] # "map"
  BY <1>6, QuietDedup
<1>7. QED BY <1>1, <1>2, <1>3, <1>4, <1>5, <1>6 DEF Step

(* The same for every step of the specification. *)
LEMMA NextDedup == DryRun /\ DedupInv /\ [Next]_vars /\ [LeavesByRelease]_vars => DedupInv'
<1> SUFFICES ASSUME DryRun, DedupInv, [Next]_vars, [LeavesByRelease]_vars PROVE DedupInv'
  OBVIOUS
<1>1. TypeInv'
  BY NextType DEF DedupInv
<1>2. PICK t : Threads = {t}
  OBVIOUS
<1>3. CASE UNCHANGED vars \/ EnableDedup
  <2>1. UNCHANGED <<freeSlots, nextSlot, translation, map, pc, req, slot, entry, old>>
    BY <1>3 DEF vars, EnableDedup, backendVars, dedupVars, threadVars
  <2>2. \A s \in Slots : Private(t, s)' <=> Private(t, s)
    BY <2>1 DEF Private
  <2>3. \A f \in Fingerprints, s \in Slots : EntryAt(f, s)' <=> EntryAt(f, s)
    BY <2>1 DEF EntryAt, Tracked
  <2>4. SlotsApart'
    BY <1>2, <2>1, <2>2, <2>3, HoldersStay DEF DedupInv, TypeInv
  <2>5. ASSUME NEW f PROVE Referrers(f)' = Referrers(f)
    BY <2>1 DEF Referrers, Refers
  <2>6. CountsOK' /\ HitOK'
    BY <2>1, <2>5 DEF DedupInv, CountsOK, HitOK, Names, Refers, Tracked
  <2>7. QED BY <1>1, <2>4, <2>6 DEF DedupInv
<1>4. CASE ~UNCHANGED vars /\ (Invoke(t) \/ Step(t))
  BY <1>1, <1>2, <1>4, StepDedup DEF DedupInv
<1>5. QED BY <1>2, <1>3, <1>4 DEF Next

(* The dry run starts with an empty table and an empty store. *)
LEMMA InitDedup == DryRun /\ Init => DedupInv
<1> SUFFICES ASSUME DryRun, Init PROVE DedupInv
  OBVIOUS
<1>1. TypeInv
  BY InitType
<1>2. PICK t : Threads = {t}
  OBVIOUS
<1>3. /\ \A o \in Offsets : translation[o] = NoEntry
      /\ pc[t] = "idle" /\ \A f \in Fingerprints : ~Tracked(f)
      /\ freeSlots = <<>>
  BY <1>2 DEF Init, BackendInit, DedupInit, Tracked
<1>4. FreeSet = {} /\ NoDoubleFree
  BY <1>3 DEF FreeSet, NoDoubleFree
<1>5. \A s \in Slots : ~Held(s) /\ ~Private(t, s)
  BY <1>2, <1>3 DEF Held, Private, DirectAt, EntryAt, Maps
<1>6. SlotsApart
  BY <1>2, <1>3, <1>4, <1>5 DEF SlotsApart, DirectAt, EntryAt, Maps
<1>7. ASSUME NEW f PROVE Referrers(f) = {}
  BY <1>2, <1>3, ReferrersAre DEF Refers
<1>8. CountsOK
  BY <1>2, <1>3, <1>7, FS_EmptySet DEF CountsOK, Names, Refers
<1>9. HitOK
  BY <1>2, <1>3 DEF HitOK
<1>10. QED BY <1>1, <1>6, <1>8, <1>9 DEF DedupInv

(* The inductive invariant of the dry run. *)
LEMMA DedupInvHolds == ASSUME DryRun PROVE Spec /\ NoEviction => []DedupInv
<1>1. DedupInv /\ [Next]_vars /\ [LeavesByRelease]_vars => DedupInv'
  BY NextDedup
<1>2. Init => DedupInv
  BY InitDedup
<1>3. QED BY <1>1, <1>2, PTL DEF Spec, NoEviction

(* A table with room for every fingerprint never evicts: the hypothesis of the   *)
(* theorems below is what insert's capacity check then guarantees.             *)
THEOREM RoomForAll ==
  ASSUME IsFiniteSet(Fingerprints), Cardinality(Fingerprints) <= MaxEntries
  PROVE  Spec => NoEviction
<1>1. ASSUME TypeInv, [Next]_vars PROVE [LeavesByRelease]_vars
  <2>1. CASE UNCHANGED dedupVars
    BY <2>1 DEF LeavesByRelease, dedupVars, Tracked
  <2>2. ASSUME NEW f \in Fingerprints, AddReference(f) \/ RemovalStillReferenced(f)
        PROVE  LeavesByRelease
    BY <2>2, <1>1, CountChanges DEF LeavesByRelease, TypeInv
  <2>3. CASE \E t \in Threads : pc[t] = "release"
    BY <2>3 DEF LeavesByRelease
  <2>4. ASSUME NEW f \in Fingerprints, NEW page \in Pages, NEW s \in Slots, Insert(f, page, s)
        PROVE  LeavesByRelease
    <3>1. /\ f \in Fingerprints \ TrackedSet /\ map'[f] \in DedupEntry
          /\ ~TableFull => \A g \in Fingerprints \ {f} : map'[g] = map[g]
      <4>1. TypeOK /\ map \in [Fingerprints -> DedupEntry \cup {NoMeta}]
        BY <1>1 DEF TypeInv, TypeOK, DedupTypeOK
      <4>2. f \in Fingerprints \ TrackedSet /\ map'[f] \in DedupEntry
        BY <2>4, <4>1, Inserted DEF TrackedSet
      <4>3. ~TableFull => \A g \in Fingerprints \ {f} : map'[g] = map[g]
        BY <2>4, <4>1 DEF Insert, Publish
      <4>4. QED BY <4>2, <4>3
    <3>2. ~TableFull
      <4>1. IsFiniteSet(Fingerprints \ {f}) /\ Cardinality(Fingerprints \ {f}) < MaxEntries
        BY OneLess
      <4>2. TrackedSet \in SUBSET (Fingerprints \ {f})
        BY <3>1 DEF TrackedSet
      <4>3. Cardinality(TrackedSet) \in Nat /\ Cardinality(TrackedSet) <= Cardinality(Fingerprints \ {f})
        BY <4>1, <4>2, FS_Subset, FS_CardinalityType
      <4>4. Cardinality(Fingerprints \ {f}) \in Nat
        BY <4>1, FS_CardinalityType
      <4>5. QED BY <4>1, <4>3, <4>4 DEF TableFull, TrackedSet
    <3>3. QED BY <3>1, <3>2 DEF LeavesByRelease, Tracked
  <2>5. QED BY <1>1, <2>1, <2>2, <2>3, <2>4, TableSteps
<1>2. QED BY <1>1, InitType, NextType, PTL DEF Spec, NoEviction

(* add_reference, remove_reference and the unwinding of every failed write keep  *)
(* each entry's count at the exact number of translations that name it.         *)
THEOREM CountsAlwaysExact ==
  ASSUME DryRun
  PROVE  Spec /\ NoEviction => []RefCountExact
<1>1. DedupInv => RefCountExact
  BY DEF DedupInv, CountsOK, RefCountExact, Names
<1>2. QED BY <1>1, DedupInvHolds, PTL

(* release_mapping frees a slot only when nothing maps it any more: no slot is   *)
(* ever queued twice, or queued while a page still reads from it.              *)
THEOREM LiveSlotsNeverFreed == Spec /\ (DryRun => NoEviction) => []NoLiveSlotFreed
<1>1. ASSUME TypeOK, SlotsApart, CountsOK PROVE NoLiveSlotFreed
  <2> SUFFICES ASSUME NEW s \in FreeSet, NEW o \in Offsets, Maps(o, s) PROVE FALSE
    BY <1>1 DEF NoLiveSlotFreed, FreeIsUnmapped, SlotsApart
  <2>1. s \in Slots /\ ~Held(s)
    BY <1>1, FreeSlotsAreSlots DEF SlotsApart
  <2>2. translation[o] \in TranslationEntry /\ translation[o] # NoEntry /\ translation[o].slot = s
    BY <1>1 DEF TypeOK, BackendTypeOK, Maps
  <2>3. CASE translation[o].kind = "direct"
    BY <2>1, <2>3 DEF Held, DirectAt
  <2>4. CASE translation[o].kind = "dedup" /\ translation[o].fp \in Fingerprints
    BY <1>1, <2>1, <2>2, <2>4 DEF CountsOK, Names, Refers, EntryAt, Held
  <2>5. QED BY <2>2, <2>3, <2>4 DEF TranslationEntry
<1>2. DedupInv => NoLiveSlotFreed
  BY <1>1 DEF DedupInv, TypeInv
<1>3. SlotOwnership => NoLiveSlotFreed
  BY DEF SlotOwnership, NoLiveSlotFreed
<1>4. CASE DryRun
  BY <1>2, <1>4, DedupInvHolds, PTL
<1>5. CASE ~DryRun
  BY <1>3, <1>5, RealModeOwnership, PTL
<1>6. QED BY <1>4, <1>5

-----------------------------------------------------------------------------
(* The dry run implements the device.  Between a write of the store and what     *)
(* becomes of it, the slot holds the page.                                     *)
InsertedIsStored == \A t \in Threads : pc[t] = "insert" => store[slot[t]] = req[t].page

(* A slot the thread writes is one that no page maps, directly or by an entry.   *)
LEMMA StoreUnseen ==
  ASSUME NEW t, Threads = {t}, DedupInv, StoreDirect(t) \/ StoreUnique(t)
  PROVE  /\ Contents' = Contents
         /\ pc'[t] \in {"map", "insert"} => store'[slot[t]] = req[t].page
<1> USE DEF DedupInv, TypeInv
<1>1. /\ pc \in [Threads -> PCs] /\ store \in [Slots -> Pages] /\ slot[t] \in Slots
      /\ translation \in [Offsets -> TranslationEntry \cup {NoEntry}]
  BY DEF TypeOK, BackendTypeOK, StoreDirect, StoreUnique, LocalsOK, SlotPCs
<1>2. PICK page : store' = [store EXCEPT ![slot[t]] = page]
  BY <1>1 DEF StoreDirect, StoreUnique, WritePage, WritePageFails
<1>3. Private(t, slot[t]) /\ translation' = translation
  BY DEF Private, StoreDirect, StoreUnique
<1>4. ASSUME NEW o \in Offsets, translation[o] # NoEntry
      PROVE  translation[o].slot \in Slots /\ translation[o].slot # slot[t]
  <2>1. translation[o] \in TranslationEntry /\ translation[o].slot \in Slots
    BY <1>1, <1>4 DEF TranslationEntry
  <2>2. CASE translation[o].kind = "direct"
    BY <1>1, <1>3, <1>4, <2>1, <2>2 DEF SlotsApart, DirectAt, Maps
  <2>3. CASE translation[o].kind = "dedup" /\ translation[o].fp \in Fingerprints
    <3>1. EntryAt(translation[o].fp, translation[o].slot)
      BY <1>4, <2>3 DEF CountsOK, Names, Refers, EntryAt
    <3>2. QED BY <1>1, <1>3, <2>1, <2>3, <3>1 DEF SlotsApart
  <2>4. QED BY <2>1, <2>2, <2>3 DEF TranslationEntry
<1>5. Contents' = Contents
  BY <1>1, <1>2, <1>3, <1>4, ContentsStay
<1>6. pc'[t] \in {"map", "insert"} => store'[slot[t]] = req[t].page
  BY <1>1 DEF StoreDirect, StoreUnique, WritePage, Goto
<1>7. QED BY <1>5, <1>6

(* Everything up to the installation of a translation is not seen from outside. *)
LEMMA QuietDevice ==
  ASSUME NEW t, Threads = {t}, DedupInv, RefinementInv, InsertedIsStored,
         \/ WriteBegin(t)
         \/ Verify(t) /\ ~Return(t, "eio")
         \/ (AllocateDirect(t) \/ AllocateUnique(t)) /\ ~Return(t, "full")
         \/ StoreDirect(t) \/ StoreUnique(t) \/ InsertUnique(t) \/ ReleaseMapping(t)
         \/ ReadLookup(t) /\ translation[req[t].off] # NoEntry
  PROVE  WrittenIsStored' /\ LookupIsCurrent' /\ InsertedIsStored' /\ UNCHANGED Device!vars
<1> USE DEF RefinementInv, TypeInv
<1>1. /\ pc \in [Threads -> PCs] /\ slot \in [Threads -> Slots \cup {TotalSlots}]
      /\ entry \in [Threads -> TranslationEntry \cup {NoEntry}]
  BY DEF TypeOK
<1>2. UNCHANGED <<translation, req, ret, raced>>
  BY DEF WriteBegin, Verify, AllocateDirect, AllocateUnique, AllocateSlot, StoreDirect, StoreUnique, InsertUnique,
    ReleaseMapping, ReadLookup, Return, backendVars
<1>3. PICK label \in {"direct_alloc", "verify", "unique_alloc", "direct_store", "unique_store", "map", "unwind",
                      "insert", "reply", "load"} :
        Goto(t, label) /\ PhaseOf(label) = PhaseOf(pc[t])
  BY DEF WriteBegin, Verify, AllocateDirect, AllocateUnique, AllocateSlot, StoreDirect, StoreUnique, InsertUnique,
    ReleaseMapping, ReadLookup, Return, PhaseOf
<1>4. pc'[t] = label
  BY <1>1, <1>3 DEF Goto
<1>5. CASE StoreDirect(t) \/ StoreUnique(t)
  <2>1. Contents' = Contents /\ (pc'[t] \in {"map", "insert"} => store'[slot[t]] = req[t].page)
    BY <1>5, StoreUnseen
  <2>2. slot' = slot /\ pc'[t] # "load" /\ (pc'[t] = "map" => entry'[t].slot = slot[t])
    BY <1>1, <1>5 DEF StoreDirect, StoreUnique, Goto, Direct
  <2>3. WrittenIsStored' /\ LookupIsCurrent' /\ InsertedIsStored'
    BY <1>2, <2>1, <2>2 DEF WrittenIsStored, LookupIsCurrent, InsertedIsStored
  <2>4. QED BY <1>2, <1>3, <2>1, <2>3, PhaseStays DEF Device!vars
<1>6. CASE ~(StoreDirect(t) \/ StoreUnique(t))
  <2>1. store' = store
    BY <1>6 DEF WriteBegin, Verify, AllocateDirect, AllocateUnique, AllocateSlot, InsertUnique,
      ReleaseMapping, ReadLookup, backendVars
  <2>2. pc'[t] = "map" => entry'[t].slot = slot[t] /\ store[slot[t]] = req[t].page
    <3>1. CASE Verify(t)
      BY <1>1, <1>3, <3>1 DEF Verify, Goto, Return, Deduplicated, StoredPageMatches
    <3>2. CASE InsertUnique(t)
      BY <1>1, <3>2 DEF InsertUnique, Deduplicated, Direct, InsertedIsStored
    <3>3. CASE ~Verify(t) /\ ~InsertUnique(t)
      BY <1>1, <1>6, <3>3 DEF WriteBegin, AllocateDirect, AllocateUnique, AllocateSlot, ReleaseMapping, ReadLookup,
        Goto, Return
    <3>4. QED BY <3>1, <3>2, <3>3
  <2>3. pc'[t] # "insert" /\ (pc'[t] = "load" => Maps(req[t].off, slot'[t]))
    BY <1>1, <1>6 DEF WriteBegin, Verify, AllocateDirect, AllocateUnique, AllocateSlot, InsertUnique, ReleaseMapping,
      ReadLookup, Goto, Return, Maps
  <2>4. WrittenIsStored' /\ LookupIsCurrent' /\ InsertedIsStored'
    BY <1>2, <2>1, <2>2, <2>3 DEF WrittenIsStored, LookupIsCurrent, InsertedIsStored, Maps
  <2>5. QED BY <1>2, <1>3, <2>1, <2>4, ContentsStay, PhaseStays DEF Device!vars
<1>7. QED BY <1>5, <1>6

(* Every step of the dry run is a step of the device or is not seen. *)
LEMMA NextDevice ==
  DryRun /\ DedupInv /\ RefinementInv /\ InsertedIsStored /\ [Next]_vars
    => WrittenIsStored' /\ LookupIsCurrent' /\ InsertedIsStored' /\ [Device!Next]_(Device!vars)
<1> SUFFICES ASSUME DryRun, DedupInv, RefinementInv, InsertedIsStored, [Next]_vars
             PROVE  WrittenIsStored' /\ LookupIsCurrent' /\ InsertedIsStored' /\ [Device!Next]_(Device!vars)
  OBVIOUS
<1>1. PICK t : Threads = {t}
  OBVIOUS
<1>2. CASE UNCHANGED vars \/ EnableDedup
  <2>1. UNCHANGED <<store, translation, pc, req, slot, entry, ret, raced>>
    BY <1>2 DEF vars, EnableDedup, backendVars, dedupVars, threadVars
  <2>2. UNCHANGED Device!vars
    BY <2>1 DEF Device!vars, Contents, Phase
  <2>3. WrittenIsStored' /\ LookupIsCurrent' /\ InsertedIsStored'
    BY <2>1 DEF RefinementInv, WrittenIsStored, LookupIsCurrent, InsertedIsStored, Maps
  <2>4. QED BY <2>2, <2>3
<1>3. CASE Invoke(t) \/ Step(t)
  <2> DEFINE Seen ==
        \/ Invoke(t)
        \/ Verify(t) /\ Return(t, "eio")
        \/ (AllocateDirect(t) \/ AllocateUnique(t)) /\ Return(t, "full")
        \/ Unwind(t) \/ MapPage(t) \/ Discard(t) \/ ReadLoad(t) \/ Reply(t)
        \/ ReadLookup(t) /\ translation[req[t].off] = NoEntry
      Unseen ==
        \/ WriteBegin(t)
        \/ Verify(t) /\ ~Return(t, "eio")
        \/ (AllocateDirect(t) \/ AllocateUnique(t)) /\ ~Return(t, "full")
        \/ StoreDirect(t) \/ StoreUnique(t) \/ InsertUnique(t) \/ ReleaseMapping(t)
        \/ ReadLookup(t) /\ translation[req[t].off] # NoEntry
  <2>1. CASE Unseen
    BY <1>1, <2>1, QuietDevice
  <2>2. CASE Seen
    <3>1. /\ WrittenIsStored' /\ LookupIsCurrent'
          /\ \/ Device!Invoke(t) \/ Device!Commit(t) \/ Device!ReadValue(t)
             \/ Device!Fail(t) \/ Device!Reply(t)
      BY <1>1, <2>2, InvokeRefines, FailureRefines, ReadRefines, CommitRefines, ReplyRefines
    <3>2. pc \in [Threads -> PCs]
      BY DEF RefinementInv, TypeInv, TypeOK
    <3>3. pc'[t] # "insert"
      BY <1>1, <2>2, <3>2 DEF Invoke, Verify, AllocateDirect, AllocateUnique, AllocateSlot, Unwind, MapPage, Discard,
        Displace, ReadLoad, Reply, ReadLookup, Return, Goto, Request
    <3>4. InsertedIsStored'
      BY <1>1, <3>3 DEF InsertedIsStored
    <3>5. QED BY <1>1, <3>1, <3>4 DEF Device!Next
  <2>3. Seen \/ Unseen
    BY <1>3 DEF Step
  <2> HIDE DEF Seen, Unseen
  <2>4. QED BY <2>1, <2>2, <2>3
<1>4. QED BY <1>1, <1>2, <1>3 DEF Next

(* In the dry run too the engine is a block device of pages: deduplication is    *)
(* not seen from outside, whatever is shared and whichever I/O fails.          *)
THEOREM DryRunImplementsDevice ==
  ASSUME DryRun
  PROVE  Spec /\ NoEviction => ImplementsPageDevice
<1>1. Init => DedupInv /\ RefinementInv /\ InsertedIsStored /\ Device!Init
  BY InitDedup, InitRefines DEF Init, InsertedIsStored
<1>2. DedupInv /\ RefinementInv /\ InsertedIsStored /\ [Next]_vars /\ [LeavesByRelease]_vars
        => DedupInv' /\ RefinementInv' /\ InsertedIsStored' /\ [Device!Next]_(Device!vars)
  BY NextDedup, NextDevice DEF DedupInv, RefinementInv
<1>3. QED BY <1>1, <1>2, PTL DEF Spec, NoEviction, ImplementsPageDevice, Device!Spec

=============================================================================
