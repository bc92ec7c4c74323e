---------------------------- MODULE MCSwapProxy ----------------------------
(* An instance of SwapProxy for TLC.                                         *)
EXTENDS SwapProxy, TLC

CONSTANTS q1, q2, t1, t2, t3, Zero

MCQueueOf == (t1 :> q1) @@ (t2 :> q1) @@ (t3 :> q2)
(* Every kind of request, those of the two queues overlapping in both directions; a *)
(* few for each tag, to keep the number of combinations down.                *)
MCRequests ==
  t1 :> {BlockRequest("write", 1, 2, TRUE, <<Zero, Header>>, FALSE),
         BlockRequest("unsupported", 1, 1, TRUE, <<>>, FALSE)} @@
  t2 :> {BlockRequest("discard", 0, 2, TRUE, <<>>, FALSE),
         BlockRequest("read", 0, 1, FALSE, <<>>, FALSE),
         BlockRequest("discard", 1, 0, TRUE, <<>>, FALSE)} @@
  t3 :> {BlockRequest("read", 1, 2, TRUE, <<>>, FALSE),
         BlockRequest("write_zeroes", 2, 1, TRUE, <<>>, FALSE),
         BlockRequest("flush", 0, 0, TRUE, <<>>, FALSE)}

Name(stem, rest) == [stem |-> stem, rest |-> rest]
MCOtherSwaps == {Name("/dev/zram", "digits"), Name("/dev/ubd", "letters")}
MCSwapNames == MCOtherSwaps \cup {Name("/dev/ublkb", "digits"), Name("/dev/ubd", "digits")}
=============================================================================
