----------------------------- MODULE MCScanner -----------------------------
(***************************************************************************)
(* An instance of Scanner for TLC.  A page stands for 4 KiB, a huge page for *)
(* four of them, and RssAnon is what the status file says, not derived from  *)
(* the maps.                                                                 *)
(***************************************************************************)
EXTENDS Scanner

CONSTANTS Big, Mid, Edge, Small, Guard, Loss, Merged, Thread, Jit, Shrunk

MCImages == {Big, Mid, Edge, Small, Guard, Loss, Merged, Thread, Jit, Shrunk}
MCRssKb == [i \in MCImages |->
  CASE i \in {Big, Shrunk} -> 4095 [] i = Mid -> 2048 [] i = Edge -> 1024 [] i = Small -> 1023
    [] i = Thread -> NoField [] OTHER -> 4096]
MCKsmStat == [i \in MCImages |->
  CASE i = Loss -> [merge_any |-> "no", profit |-> -1]
    [] i = Merged -> [merge_any |-> "yes", profit |-> 1]
    [] i = Mid -> [merge_any |-> "0", profit |-> NoField]
    [] i = Edge -> [merge_any |-> "no", profit |-> 0]
    [] OTHER -> NoField]

Private(start, end, perms) == Region(start, end, perms, "", 0)
MCMapsOf == [i \in MCImages |->
  CASE i = Big -> << Region(0, 1, {"r", "x"}, "program", 7), Unparsable,
                     Private(1, 2, {"r", "w"}), Private(2, 3, {"r", "w", "x"}),
                     Private(3, 9, {"r", "w"}), Private(9, 10, {"r", "w"}),
                     Region(20, 21, {"r", "w"}, "[stack]", 0), Region(22, 23, {"r", "x"}, "[vdso]", 0) >>
    [] i = Shrunk -> << Private(1, 2, {"r", "w"}), Private(3, 4, {"r", "w"}), Private(6, 9, {"r", "w"}) >>
    [] i = Mid -> << Region(0, 1, {"r", "w"}, "[heap]", 0), Private(2, 3, {"r"}) >>
    [] i = Jit -> << Private(2, 3, {"r", "w"}), Private(4, 8, {"r", "w", "x"}) >>
    [] i = Thread -> <<>>
    [] OTHER -> << Private(4, 8, {"r", "w"}), Private(8, 9, {"r", "w", "s"}) >>]

(* munmap in the middle of a region, mprotect of one, and KSM statistics that turn *)
(* negative.  Exec is of a program whose name is blocked and whose memory is eligible. *)
MCDevelopments == {<<Big, Shrunk>>, <<Big, Jit>>, <<Mid, Loss>>}

(* Three candidates for two places, of which the second largest has no eligible *)
(* memory unless it execs; then processes that the filters reject.           *)
MCInitImages ==
  {(2 :> NoProc) @@ (3 :> Edge) @@ (4 :> Mid) @@ (5 :> Big),
   (2 :> Big) @@ (3 :> Small) @@ (4 :> Guard) @@ (5 :> NoProc),
   (2 :> Thread) @@ (3 :> Mid) @@ (4 :> Merged) @@ (5 :> Loss)}
=============================================================================
