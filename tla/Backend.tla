------------------------------ MODULE Backend ------------------------------
(***************************************************************************)
(* The storage half of the swap proxy (crates/swap-proxy/src/backend.rs):  *)
(* the page store, the allocator of its slots, and the translation table   *)
(* from virtual swap offsets to slots.  Every operation below runs under   *)
(* the mutex that ProxyEngine wraps around its structure, so each one is a  *)
(* single step of the thread that calls it.                                 *)
(***************************************************************************)
EXTENDS Naturals, Sequences

CONSTANTS
  Offsets,       \* the virtual page offsets in use on the block device
  Pages,         \* page contents the properties tell apart
  ZeroPage,      \* the all-zero page
  Fingerprints,  \* fingerprints of pages
  TotalSlots,    \* PageStore.total_slots = SlotAllocator.max_slots
  NoEntry        \* the absence of a translation (Option::None)

Slots == 0 .. (TotalSlots - 1)

(* TranslationEntry, with MappingKind folded into its kind field. *)
Direct(s) == [kind |-> "direct", slot |-> s]
Deduplicated(f, s) == [kind |-> "dedup", fp |-> f, slot |-> s]

TranslationEntry == [kind : {"direct"}, slot : Slots]
                    \cup [kind : {"dedup"}, fp : Fingerprints, slot : Slots]

ASSUME BackendAssumption ==
  /\ ZeroPage \in Pages
  /\ TotalSlots \in Nat
  /\ NoEntry \notin TranslationEntry

VARIABLES
  store,        \* what each slot of the page store holds
  freeSlots,    \* SlotAllocator.free_slots, a FIFO queue
  nextSlot,     \* SlotAllocator.next_slot
  translation   \* TranslationTable.entries

backendVars == <<store, freeSlots, nextSlot, translation>>
allocatorVars == <<freeSlots, nextSlot>>

BackendTypeOK ==
  /\ store \in [Slots -> Pages]
  /\ freeSlots \in Seq(Slots)
  /\ nextSlot \in 0 .. TotalSlots
  /\ translation \in [Offsets -> TranslationEntry \cup {NoEntry}]

(* A store file that already exists is opened as it is, with whatever an   *)
(* earlier run left in it; a new one is all zeroes.                         *)
BackendInit ==
  /\ store \in [Slots -> Pages]
  /\ freeSlots = <<>>
  /\ nextSlot = 0
  /\ translation = [o \in Offsets |-> NoEntry]

(* SlotAllocator::allocate returns Some(s): recycled slots first. *)
Allocate(s) ==
  \/ /\ freeSlots # <<>>
     /\ s = Head(freeSlots)
     /\ freeSlots' = Tail(freeSlots)
     /\ nextSlot' = nextSlot
  \/ /\ freeSlots = <<>>
     /\ nextSlot < TotalSlots
     /\ s = nextSlot
     /\ nextSlot' = nextSlot + 1
     /\ freeSlots' = freeSlots

(* SlotAllocator::allocate returns None. *)
AllocatorExhausted == freeSlots = <<>> /\ nextSlot >= TotalSlots

(* SlotAllocator::free. *)
Free(s) ==
  /\ freeSlots' = IF s < TotalSlots THEN Append(freeSlots, s) ELSE freeSlots
  /\ nextSlot' = nextSlot

(* PageStore::write_page succeeds. *)
WritePage(s, p) == s \in Slots /\ store' = [store EXCEPT ![s] = p]

(* PageStore::write_page fails: out of range it leaves the store alone; an *)
(* I/O error in write_all leaves the slot with some mixture of old and new. *)
WritePageFails(s) ==
  IF s \in Slots
    THEN \E torn \in Pages : store' = [store EXCEPT ![s] = torn]
    ELSE store' = store

(* The slots waiting in the free queue. *)
FreeSet == {freeSlots[i] : i \in 1 .. Len(freeSlots)}
=============================================================================
