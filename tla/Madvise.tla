------------------------------ MODULE Madvise -------------------------------
(***************************************************************************)
(* Which memory of a process the scanner advises: the predicates of          *)
(* MapsEntry (crates/common/src/procfs.rs), build_batch and the alignment of *)
(* collapse_regions (crates/daemon/src/madvise.rs).  Addresses and lengths   *)
(* are counted in pages; the file /proc/PID/maps is a sequence of lines, each *)
(* a MapsEntry or Unparsable.                                                *)
(***************************************************************************)
EXTENDS Integers, Sequences, SequencesExt

CONSTANTS
  MaxPages,   \* max_mergeable_per_process_mb, in pages
  ThpSize,    \* THP_SIZE, in pages
  Unparsable  \* a line that parse_maps_line gives up on

ASSUME MadviseAssumption == MaxPages \in Nat /\ ThpSize \in Nat \ {0}

(* A line of maps: start, end, the set of its permission letters ("p" is the *)
(* absence of "s"), pathname ("" for none) and inode; and what parse_maps_line *)
(* makes of the lines that the kernel writes, where no region is empty.      *)
Region(start, end, perms, path, inode) ==
  [start |-> start, end |-> end, perms |-> perms, path |-> path, inode |-> inode]
MapsEntries ==
  {r \in [start : Nat, end : Nat, perms : SUBSET {"r", "w", "x", "s"}, path : STRING, inode : Nat] :
     r.start < r.end}

Size(r) == r.end - r.start
Pages(start, end) == start .. end - 1

IsAnonRw(r) ==
  {"r", "w"} \subseteq r.perms /\ "s" \notin r.perms /\ r.path = "" /\ r.inode = 0
HasExec(r) == "x" \in r.perms

(* starts_with("[stack") and the like are the names alone: a region with any name is *)
(* not anonymous.                                                            *)
IsSpecial(r) == r.path \in {"[vdso]", "[vvar]", "[vsyscall]", "[stack]", "[heap]"}

Eligible(r) == IsAnonRw(r) /\ ~HasExec(r) /\ ~IsSpecial(r)

(* What a filter leaves of a list: the elements at the places P, in order.   *)
Keep(list, P) ==
  LET keep[i \in 0 .. Len(list)] ==
        IF i = 0 THEN <<>>
        ELSE IF i \in P THEN Append(keep[i - 1], list[i]) ELSE keep[i - 1]
  IN  keep[Len(list)]

(* bytes_accumulated before region i + 1, while build_batch has cut nothing.  *)
PagesUpTo(regions) ==
  LET pages[i \in 0 .. Len(regions)] == IF i = 0 THEN 0 ELSE pages[i - 1] + Size(regions[i])
  IN  pages

(* The regions that build_batch takes before it breaks off.                  *)
Taken(regions) ==
  {i \in DOMAIN regions :
     \A j \in 1 .. i : PagesUpTo(regions)[j - 1] < MaxPages /\ Size(regions[j]) > 0}

(* Mutant: the cap is tested but the last region is not cut to fit it.       *)
BuildBatchUncut(regions) ==
  [i \in Taken(regions) |-> [start |-> regions[i].start, end |-> regions[i].end]]

(* build_batch: the eligible regions in order, the last one cut so that the  *)
(* total stays within the cap.                                               *)
BuildBatch(regions) ==
  LET remaining(i) == MaxPages - PagesUpTo(regions)[i - 1]
      len(i) == IF Size(regions[i]) < remaining(i) THEN Size(regions[i]) ELSE remaining(i)
  IN  [i \in Taken(regions) |->
         [start |-> regions[i].start, end |-> regions[i].start + len(i)]]

(* The filter at the head of apply_mergeable, and its batch.                 *)
EligibleRegions(maps) == Keep(maps, {i \in DOMAIN maps : Eligible(maps[i])})
Batch(maps) == BuildBatch(EligibleRegions(maps))

(* Mutant: the start is rounded down.                                        *)
ThpRangeOutside(r) ==
  [start |-> (r.start \div ThpSize) * ThpSize, end |-> (r.end \div ThpSize) * ThpSize]

(* The part of a region that whole huge pages can back.                      *)
ThpRange(r) ==
  [start |-> ((r.start + ThpSize - 1) \div ThpSize) * ThpSize,
   end |-> (r.end \div ThpSize) * ThpSize]

(* The ranges that collapse_regions asks for, in order: a large region may hold no *)
(* whole huge page.                                                          *)
CollapseRanges(maps) ==
  LET large == {i \in DOMAIN maps : Eligible(maps[i]) /\ Size(maps[i]) >= ThpSize}
      ranges == [i \in DOMAIN maps |-> IF i \in large THEN ThpRange(maps[i]) ELSE maps[i]]
  IN  Keep(ranges, {i \in large : ranges[i].start < ranges[i].end})
=============================================================================
