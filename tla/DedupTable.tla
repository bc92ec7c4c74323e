----------------------------- MODULE DedupTable -----------------------------
(***************************************************************************)
(* The deduplication table (crates/swap-proxy/src/dedup.rs): fingerprint to *)
(* reference-counted slot, a Bloom filter in front of it, and LRU eviction  *)
(* of metadata.  The program reaches this table only from one thread (the   *)
(* dry run), so a call of the table is one step.                            *)
(*                                                                          *)
(* Ticks only ever order the LRU list, so the list is modelled by that      *)
(* order: <<f, g>> \in lru when f and g are listed and f was used no later   *)
(* than g.  f is listed exactly when <<f, f>> \in lru.                       *)
(***************************************************************************)
EXTENDS Backend, FiniteSets

CONSTANTS
  Prefixes,     \* the 64-byte prefixes kept for verification
  FpOf,         \* fingerprint_page
  PrefixOf,     \* page_prefix
  BloomBits,    \* bit positions of the Bloom filter
  BloomOf,      \* bloom_indices
  MaxEntries,   \* DedupTable.max_entries
  NoMeta        \* the absence of an entry in the map

DedupEntry == [ref : Nat, slot : Slots, prefix : Prefixes]

ASSUME DedupAssumption ==
  /\ FpOf \in [Pages -> Fingerprints]
  /\ PrefixOf \in [Pages -> Prefixes]
  /\ BloomOf \in [Fingerprints -> SUBSET BloomBits]
  /\ MaxEntries \in Nat
  /\ NoMeta \notin DedupEntry

VARIABLES
  map,     \* DedupTable.map
  bloom,   \* the bits set in DedupTable.bloom; never cleared
  lru      \* DedupTable.lru, as the order of its ticks

dedupVars == <<map, bloom, lru>>

DedupTypeOK ==
  /\ map \in [Fingerprints -> DedupEntry \cup {NoMeta}]
  /\ bloom \subseteq BloomBits
  /\ lru \subseteq Fingerprints \X Fingerprints

DedupInit ==
  /\ map = [f \in Fingerprints |-> NoMeta]
  /\ bloom = {}
  /\ lru = {}

Tracked(f) == map[f] # NoMeta
Listed(order, f) == <<f, f>> \in order

(* lru.push((f, tick)), lru.retain(|g| g != f), and a tick update in place. *)
Push(order, f) ==
  order \cup {<<g, f>> : g \in {h \in Fingerprints : Listed(order, h)} \cup {f}}
Forget(order, f) == {p \in order : p[1] # f /\ p[2] # f}
Touch(order, f) == IF Listed(order, f) THEN Push(Forget(order, f), f) ELSE order

(* DedupTable::lookup: Bloom filter, map, prefix verification. *)
MightContain(f) == BloomOf[f] \subseteq bloom
LookupHit(f, page) ==
  MightContain(f) /\ Tracked(f) /\ map[f].prefix = PrefixOf[page]

(* Mutant: a hit that refreshes the LRU list but takes no reference. *)
AddReferenceUncounted(f) ==
  /\ Tracked(f)
  /\ lru' = Touch(lru, f)
  /\ UNCHANGED <<map, bloom>>

(* DedupTable::add_reference returns true. *)
AddReference(f) ==
  /\ Tracked(f)
  /\ map' = [map EXCEPT ![f].ref = @ + 1]
  /\ lru' = Touch(lru, f)
  /\ bloom' = bloom

(* DedupTable::evict_lru_metadata picks the first singly referenced entry  *)
(* of the list, least recently used first.                                  *)
Evictable(f) == Listed(lru, f) /\ Tracked(f) /\ map[f].ref <= 1
EvictionVictim(f) ==
  /\ Evictable(f)
  /\ \A g \in Fingerprints : Evictable(g) => <<f, g>> \in lru

(* Mutant: the capacity check lets one entry too many in. *)
TableFullLate == Cardinality({f \in Fingerprints : Tracked(f)}) > MaxEntries

(* The capacity check of DedupTable::insert. *)
TableFull == Cardinality({f \in Fingerprints : Tracked(f)}) >= MaxEntries

(* DedupTable::insert returns false. *)
InsertRefused(f) ==
  \/ Tracked(f)
  \/ TableFull /\ \A g \in Fingerprints : ~Evictable(g)

(* Mutant: the Bloom filter is not told of the new entry. *)
PublishUnannounced(m, l, f, page, s) ==
  /\ map' = [m EXCEPT ![f] = [ref |-> 1, slot |-> s, prefix |-> PrefixOf[page]]]
  /\ bloom' = bloom
  /\ lru' = Push(l, f)

(* The end of DedupTable::insert, on the map m and list order l that       *)
(* eviction may have left.                                                  *)
Publish(m, l, f, page, s) ==
  /\ map' = [m EXCEPT ![f] = [ref |-> 1, slot |-> s, prefix |-> PrefixOf[page]]]
  /\ bloom' = bloom \cup BloomOf[f]
  /\ lru' = Push(l, f)

(* DedupTable::insert returns true, evicting one entry if the table is full. *)
Insert(f, page, s) ==
  /\ ~Tracked(f)
  /\ \/ ~TableFull /\ Publish(map, lru, f, page, s)
     \/ /\ TableFull
        /\ \E v \in Fingerprints :
             /\ EvictionVictim(v)
             /\ Publish([map EXCEPT ![v] = NoMeta], Forget(lru, v), f, page, s)

(* Mutant: the next to last reference already counts as the last. *)
LastReferenceEarly(f) == map[f].ref <= 2

(* The test of prev in DedupTable::remove_reference. *)
LastReference(f) == map[f].ref <= 1

(* Mutant: the entry leaves the map but stays in the LRU list. *)
RemovalRemovedListed(f) ==
  /\ Tracked(f) /\ LastReference(f)
  /\ map' = [map EXCEPT ![f] = NoMeta]
  /\ UNCHANGED <<bloom, lru>>

(* DedupTable::remove_reference, one operator per ReferenceRemoval outcome. *)
RemovalNotTracked(f) == ~Tracked(f) /\ UNCHANGED dedupVars
RemovalStillReferenced(f) ==
  /\ Tracked(f) /\ ~LastReference(f)
  /\ map' = [map EXCEPT ![f].ref = @ - 1]
  /\ UNCHANGED <<bloom, lru>>
RemovalRemoved(f) ==
  /\ Tracked(f) /\ LastReference(f)
  /\ map' = [map EXCEPT ![f] = NoMeta]
  /\ lru' = Forget(lru, f)
  /\ bloom' = bloom
=============================================================================
