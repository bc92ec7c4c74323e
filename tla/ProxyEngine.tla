---------------------------- MODULE ProxyEngine ----------------------------
(***************************************************************************)
(* The storage engine of the swap proxy (ProxyEngine in                     *)
(* crates/swap-proxy/src/main.rs) as its threads run it.                    *)
(*                                                                          *)
(* In real mode up to four ublk queue threads share one engine              *)
(* (ublk_frontend::run) and each serves one page operation at a time.  The   *)
(* engine has three mutexes, taken one after the other and never together,   *)
(* so an operation is a sequence of critical sections: one action each.      *)
(* In the dry run one thread calls the same engine and turns passthrough off  *)
(* half way, which is the only place the program ever does.  The requests of  *)
(* the model are not tied to its synthetic workload: any sequence, as in the   *)
(* unit tests of the engine.                                                 *)
(***************************************************************************)
EXTENDS DedupTable

CONSTANTS
  Threads,    \* the threads that call the engine
  DryRun,     \* TRUE: run_dry_run_simulation; FALSE: run_real_proxy
  NoRequest   \* a thread that serves no request

ASSUME EngineAssumption ==
  /\ DryRun \in BOOLEAN
  /\ DryRun => \E t \in Threads : Threads = {t}

Request == [op : {"read"}, off : Offsets] \cup [op : {"discard"}, off : Offsets]
           \cup [op : {"write"}, off : Offsets, page : Pages]

(* "page store is full", and any I/O error of the store; the frontend turns *)
(* both into EIO.                                                           *)
Errors == {"full", "eio"}

ASSUME RequestAssumption == NoRequest \notin Request

VARIABLES
  passthrough,  \* ProxyEngine.passthrough
  pc,           \* the critical section each thread enters next
  req,          \* the page operation each thread serves
  slot,         \* its local slot / backend_offset
  entry,        \* the translation it is about to install
  old,          \* the translation it has displaced
  ret,          \* what its handler returns
  raced         \* history: a write or discard overlapped the read it serves

threadVars == <<pc, req, slot, entry, old, ret, raced>>
vars == <<store, freeSlots, nextSlot, translation, map, bloom, lru,
          passthrough, pc, req, slot, entry, old, ret, raced>>

PCs == {"idle", "write", "verify", "direct_alloc", "direct_store",
        "unique_alloc", "unique_store", "unwind", "insert", "map", "read",
        "load", "discard", "release", "reply"}

TypeOK ==
  /\ BackendTypeOK
  /\ DedupTypeOK
  /\ passthrough \in BOOLEAN
  /\ pc \in [Threads -> PCs]
  /\ req \in [Threads -> Request \cup {NoRequest}]
  /\ slot \in [Threads -> Slots \cup {TotalSlots}]
  /\ entry \in [Threads -> TranslationEntry \cup {NoEntry}]
  /\ old \in [Threads -> TranslationEntry \cup {NoEntry}]
  /\ ret \in [Threads -> Pages \cup Errors \cup {"none", "ok"}]
  /\ raced \in [Threads -> BOOLEAN]

(* What each critical section may rely on of the locals the earlier ones set. *)
WritePCs == {"write", "verify", "direct_alloc", "direct_store", "unique_alloc",
             "unique_store", "unwind", "insert", "map"}
SlotPCs == {"verify", "direct_store", "unique_store", "unwind", "insert", "load"}
LocalsOK ==
  \A t \in Threads :
    /\ pc[t] \in WritePCs => req[t] \in [op : {"write"}, off : Offsets, page : Pages]
    /\ pc[t] \in {"read", "load"} => req[t] \in [op : {"read"}, off : Offsets]
    /\ pc[t] = "discard" => req[t] \in [op : {"discard"}, off : Offsets]
    /\ pc[t] \in SlotPCs => slot[t] \in Slots
    /\ pc[t] = "map" => entry[t] \in TranslationEntry
    /\ pc[t] = "release" => old[t] \in TranslationEntry

(* ProxyEngine::new.  A thread's unset slot is TotalSlots, which is no slot. *)
Init ==
  /\ BackendInit
  /\ DedupInit
  /\ passthrough = TRUE
  /\ pc = [t \in Threads |-> "idle"]
  /\ req = [t \in Threads |-> NoRequest]
  /\ slot = [t \in Threads |-> TotalSlots]
  /\ entry = [t \in Threads |-> NoEntry]
  /\ old = [t \in Threads |-> NoEntry]
  /\ ret = [t \in Threads |-> "none"]
  /\ raced = [t \in Threads |-> FALSE]

Goto(t, label) == pc' = [pc EXCEPT ![t] = label]
Return(t, value) == Goto(t, "reply") /\ ret' = [ret EXCEPT ![t] = value]

(* A request reaches a handler. *)
Invoke(t) ==
  /\ pc[t] = "idle"
  /\ \E r \in Request :
       /\ req' = [req EXCEPT ![t] = r]
       /\ Goto(t, r.op)
  /\ UNCHANGED <<backendVars, dedupVars, passthrough, slot, entry, old, ret, raced>>

(* handle_write up to the outcome of the dedup lookup. *)
WriteBegin(t) ==
  LET page == req[t].page
      f == FpOf[page]
  IN  /\ pc[t] = "write"
      /\ \/ passthrough /\ Goto(t, "direct_alloc") /\ slot' = slot
         \/ /\ ~passthrough /\ LookupHit(f, page)
            /\ Goto(t, "verify") /\ slot' = [slot EXCEPT ![t] = map[f].slot]
         \/ ~passthrough /\ ~LookupHit(f, page) /\ Goto(t, "unique_alloc") /\ slot' = slot
      /\ UNCHANGED <<backendVars, dedupVars, passthrough, req, entry, old, ret, raced>>

(* Mutant: the fingerprint is trusted, the stored page is not compared. *)
StoredPageMatchesUnread(t) == slot[t] \in Slots

(* stored_page == page. *)
StoredPageMatches(t) == slot[t] \in Slots /\ store[slot[t]] = req[t].page

(* The stored page is read back and compared in full; a match takes a      *)
(* reference, a mismatch or a vanished entry stores the page as unique, a   *)
(* failed read fails the write.                                             *)
Verify(t) ==
  LET f == FpOf[req[t].page]
  IN  /\ pc[t] = "verify"
      /\ \/ /\ StoredPageMatches(t) /\ AddReference(f)
            /\ entry' = [entry EXCEPT ![t] = Deduplicated(f, slot[t])]
            /\ Goto(t, "map") /\ ret' = ret
         \/ /\ ~StoredPageMatches(t) \/ ~Tracked(f)
            /\ Goto(t, "unique_alloc") /\ UNCHANGED <<dedupVars, entry, ret>>
         \/ Return(t, "eio") /\ UNCHANGED <<dedupVars, entry>>
      /\ UNCHANGED <<backendVars, passthrough, req, slot, old, raced>>

(* Mutant: next_slot is not rolled back when the store is full. *)
AllocateSlotNoRollback(t, from, to) ==
  /\ pc[t] = from
  /\ \/ \E s \in Slots :
          /\ Allocate(s)
          /\ slot' = [slot EXCEPT ![t] = s]
          /\ Goto(t, to)
          /\ ret' = ret
     \/ /\ AllocatorExhausted /\ Return(t, "full")
        /\ nextSlot' = nextSlot + 1 /\ UNCHANGED <<freeSlots, slot>>
  /\ UNCHANGED <<store, translation, dedupVars, passthrough, req, entry, old, raced>>

(* allocate_slot, for write_direct and write_unique_or_direct. *)
AllocateSlot(t, from, to) ==
  /\ pc[t] = from
  /\ \/ \E s \in Slots :
          /\ Allocate(s)
          /\ slot' = [slot EXCEPT ![t] = s]
          /\ Goto(t, to)
          /\ ret' = ret
     \/ AllocatorExhausted /\ Return(t, "full") /\ UNCHANGED <<allocatorVars, slot>>
  /\ UNCHANGED <<store, translation, dedupVars, passthrough, req, entry, old, raced>>

AllocateDirect(t) == AllocateSlot(t, "direct_alloc", "direct_store")
AllocateUnique(t) == AllocateSlot(t, "unique_alloc", "unique_store")

(* write_page_to_slot in write_direct. *)
StoreDirect(t) ==
  /\ pc[t] = "direct_store"
  /\ \/ /\ WritePage(slot[t], req[t].page)
        /\ entry' = [entry EXCEPT ![t] = Direct(slot[t])]
        /\ Goto(t, "map")
     \/ WritePageFails(slot[t]) /\ Goto(t, "unwind") /\ entry' = entry
  /\ UNCHANGED <<allocatorVars, translation, dedupVars, passthrough, req, slot, old, ret, raced>>

(* write_page_to_slot in write_unique_or_direct. *)
StoreUnique(t) ==
  /\ pc[t] = "unique_store"
  /\ \/ WritePage(slot[t], req[t].page) /\ Goto(t, "insert")
     \/ WritePageFails(slot[t]) /\ Goto(t, "unwind")
  /\ UNCHANGED <<allocatorVars, translation, dedupVars, passthrough, req, slot, entry, old, ret, raced>>

(* Mutant: the slot of a failed write is not given back. *)
UnwindLeaking(t) ==
  /\ pc[t] = "unwind"
  /\ Return(t, "eio")
  /\ UNCHANGED <<backendVars, dedupVars, passthrough, req, slot, entry, old, raced>>

(* free_slot after a failed store, then the error. *)
Unwind(t) ==
  /\ pc[t] = "unwind"
  /\ Free(slot[t])
  /\ Return(t, "eio")
  /\ UNCHANGED <<store, translation, dedupVars, passthrough, req, slot, entry, old, raced>>

(* dedup_table.insert: the page is tracked, or kept as a direct mapping. *)
InsertUnique(t) ==
  LET f == FpOf[req[t].page]
  IN  /\ pc[t] = "insert"
      /\ \/ /\ Insert(f, req[t].page, slot[t])
            /\ entry' = [entry EXCEPT ![t] = Deduplicated(f, slot[t])]
         \/ /\ InsertRefused(f) /\ UNCHANGED dedupVars
            /\ entry' = [entry EXCEPT ![t] = Direct(slot[t])]
      /\ Goto(t, "map")
      /\ UNCHANGED <<backendVars, passthrough, req, slot, old, ret, raced>>

(* Mutant: the new translation is released in place of the old one. *)
DisplaceNew(t, o) ==
  /\ old' = [old EXCEPT ![t] = entry[t]]
  /\ Goto(t, IF translation[o] = NoEntry \/ entry[t] = NoEntry THEN "reply" ELSE "release")
  /\ ret' = [ret EXCEPT ![t] = "ok"]
  /\ raced' = [u \in Threads |->
                 raced[u] \/ (pc[u] \in {"read", "load"} /\ req[u].off = o)]

(* After the translation of o is changed: what was there is released, and   *)
(* every read of o that is under way has been overlapped.                   *)
Displace(t, o) ==
  /\ old' = [old EXCEPT ![t] = translation[o]]
  /\ Goto(t, IF translation[o] = NoEntry THEN "reply" ELSE "release")
  /\ ret' = [ret EXCEPT ![t] = "ok"]
  /\ raced' = [u \in Threads |->
                 raced[u] \/ (pc[u] \in {"read", "load"} /\ req[u].off = o)]

(* replace_mapping: translation.lock().insert. *)
MapPage(t) ==
  /\ pc[t] = "map"
  /\ translation' = [translation EXCEPT ![req[t].off] = entry[t]]
  /\ Displace(t, req[t].off)
  /\ UNCHANGED <<store, allocatorVars, dedupVars, passthrough, req, slot, entry>>

(* handle_discard: translation.lock().remove. *)
Discard(t) ==
  /\ pc[t] = "discard"
  /\ translation' = [translation EXCEPT ![req[t].off] = NoEntry]
  /\ Displace(t, req[t].off)
  /\ UNCHANGED <<store, allocatorVars, dedupVars, passthrough, req, slot, entry>>

(* release_mapping of the displaced translation. *)
ReleaseMapping(t) ==
  /\ pc[t] = "release"
  /\ \/ old[t].kind = "direct" /\ Free(old[t].slot) /\ UNCHANGED dedupVars
     \/ /\ old[t].kind = "dedup"
        /\ \/ RemovalStillReferenced(old[t].fp) /\ UNCHANGED allocatorVars
           \/ RemovalRemoved(old[t].fp) /\ Free(map[old[t].fp].slot)
           \/ RemovalNotTracked(old[t].fp) /\ Free(old[t].slot)
  /\ Goto(t, "reply")
  /\ UNCHANGED <<store, translation, passthrough, req, slot, entry, old, ret, raced>>

(* handle_read: the translation is looked up and its lock dropped ... *)
ReadLookup(t) ==
  LET e == translation[req[t].off]
  IN  /\ pc[t] = "read"
      /\ \/ e = NoEntry /\ Return(t, ZeroPage) /\ slot' = slot
         \/ e # NoEntry /\ slot' = [slot EXCEPT ![t] = e.slot] /\ Goto(t, "load") /\ ret' = ret
      /\ UNCHANGED <<backendVars, dedupVars, passthrough, req, entry, old, raced>>

(* ... and the slot is read under the store's lock; the read may fail. *)
ReadLoad(t) ==
  /\ pc[t] = "load"
  /\ \/ slot[t] \in Slots /\ Return(t, store[slot[t]])
     \/ Return(t, "eio")
  /\ UNCHANGED <<backendVars, dedupVars, passthrough, req, slot, entry, old, raced>>

(* The handler returns and its locals go out of scope. *)
Reply(t) ==
  /\ pc[t] = "reply"
  /\ Goto(t, "idle")
  /\ req' = [req EXCEPT ![t] = NoRequest]
  /\ slot' = [slot EXCEPT ![t] = TotalSlots]
  /\ entry' = [entry EXCEPT ![t] = NoEntry]
  /\ old' = [old EXCEPT ![t] = NoEntry]
  /\ ret' = [ret EXCEPT ![t] = "none"]
  /\ raced' = [raced EXCEPT ![t] = FALSE]
  /\ UNCHANGED <<backendVars, dedupVars, passthrough>>

(* The second phase of the dry run. *)
EnableDedup ==
  /\ DryRun /\ passthrough
  /\ \A t \in Threads : pc[t] = "idle"
  /\ passthrough' = FALSE
  /\ UNCHANGED <<backendVars, dedupVars, threadVars>>

Step(t) ==
  \/ WriteBegin(t) \/ Verify(t) \/ AllocateDirect(t) \/ AllocateUnique(t)
  \/ StoreDirect(t) \/ StoreUnique(t) \/ Unwind(t) \/ InsertUnique(t)
  \/ MapPage(t) \/ Discard(t) \/ ReleaseMapping(t) \/ ReadLookup(t)
  \/ ReadLoad(t) \/ Reply(t)

Next == (\E t \in Threads : Invoke(t) \/ Step(t)) \/ EnableDedup

Spec == Init /\ [][Next]_vars

-----------------------------------------------------------------------------
(* Properties. *)

(* The slots a thread has taken off the allocator or out of the translation *)
(* table and not yet handed on.                                             *)
Owns(t, s) ==
  \/ pc[t] \in {"direct_store", "unique_store", "unwind", "insert"} /\ slot[t] = s
  \/ pc[t] = "map" /\ entry[t].slot = s
  \/ pc[t] = "release" /\ old[t].slot = s

Maps(o, s) == translation[o] # NoEntry /\ translation[o].slot = s

(* The free queue holds no slot twice and no slot that a virtual page still  *)
(* maps: allocate can never hand a live page's slot to another page.         *)
NoDoubleFree == \A i, j \in 1 .. Len(freeSlots) : freeSlots[i] = freeSlots[j] => i = j
FreeIsUnmapped == \A s \in FreeSet : \A o \in Offsets : ~Maps(o, s)
NoLiveSlotFreed == NoDoubleFree /\ FreeIsUnmapped

(* While every page is stored directly, as in real mode, each slot ever       *)
(* handed out has exactly one owner: a place in the free queue, one virtual   *)
(* page, or one thread between two of its critical sections.  Nothing leaks    *)
(* and nothing is shared, in whatever order the critical sections interleave.  *)
OwnersAreIssued ==
  \A s \in Slots :
    \/ s \in FreeSet \/ (\E o \in Offsets : Maps(o, s)) \/ (\E t \in Threads : Owns(t, s))
    <=> s < nextSlot
PagesShareNoSlot == \A s \in Slots : \A o, p \in Offsets : Maps(o, s) /\ Maps(p, s) => o = p
ThreadsShareNoSlot == \A s \in Slots : \A t, u \in Threads : Owns(t, s) /\ Owns(u, s) => t = u
InFlightIsPrivate ==
  \A t \in Threads : \A s \in Slots :
    Owns(t, s) => s \notin FreeSet /\ \A o \in Offsets : ~Maps(o, s)
SlotOwnership ==
  /\ NoDoubleFree /\ FreeIsUnmapped
  /\ OwnersAreIssued
  /\ PagesShareNoSlot /\ ThreadsShareNoSlot /\ InFlightIsPrivate

(* The translations that hold a reference on fingerprint f, in the table or   *)
(* in the hands of a thread that is installing or releasing one.              *)
Refers(e, f) == e # NoEntry /\ e.kind = "dedup" /\ e.fp = f
Referrers(f) ==
  {<<"page", o>> : o \in {p \in Offsets : Refers(translation[p], f)}}
  \cup {<<"new", t>> : t \in {u \in Threads : pc[u] = "map" /\ Refers(entry[u], f)}}
  \cup {<<"old", t>> : t \in {u \in Threads : pc[u] = "release" /\ Refers(old[u], f)}}

(* As long as no metadata is evicted, an entry's reference count is the exact *)
(* number of translations that name its fingerprint, an untracked fingerprint *)
(* has none, and every one of them points to the entry's own slot.            *)
RefCountExact ==
  \A f \in Fingerprints :
    /\ Cardinality(Referrers(f)) = IF Tracked(f) THEN map[f].ref ELSE 0
    /\ \A o \in Offsets : Refers(translation[o], f) => translation[o].slot = map[f].slot

(* The LRU list names exactly the tracked fingerprints, totally ordered by     *)
(* last use: eviction can always reach every entry of a full table.            *)
LruListsTheTable ==
  /\ \A f \in Fingerprints : Listed(lru, f) <=> Tracked(f)
  /\ \A f, g \in Fingerprints :
       /\ Listed(lru, f) /\ Listed(lru, g) <=> <<f, g>> \in lru \/ <<g, f>> \in lru
       /\ <<f, g>> \in lru /\ <<g, f>> \in lru => f = g

(* The table never tracks more fingerprints than it was given room for.        *)
TableWithinBound == Cardinality({f \in Fingerprints : Tracked(f)}) <= MaxEntries

(* A Bloom filter never hides an entry: every tracked fingerprint passes it.   *)
BloomCoversTable == \A f \in Fingerprints : Tracked(f) => MightContain(f)

(* A device with as many pages as its store has slots (main.rs:51, "Device     *)
(* size in GB") never refuses a write for lack of space; the tests overwrite    *)
(* a page and unwrap the result (main.rs:955-956).                             *)
NeverFull == \A t \in Threads : ret[t] # "full"

(* The contents of the device as the translation table and the store give it. *)
Contents == [o \in Offsets |->
               IF translation[o] = NoEntry THEN ZeroPage ELSE store[translation[o].slot]]

Phase == [t \in Threads |-> CASE pc[t] = "idle" -> "idle"
                              [] pc[t] \in {"release", "reply"} -> "done"
                              [] OTHER -> "called"]

Device == INSTANCE PageDevice WITH contents <- Contents, phase <- Phase

(* The engine implements a block device of pages.                           *)
ImplementsPageDevice == Device!Spec
=============================================================================
