----------------------------- MODULE PageDevice -----------------------------
(***************************************************************************)
(* What the swap proxy promises the kernel: a block device of pages.  Each  *)
(* thread serves one request at a time; a write or a discard takes effect    *)
(* at one instant between its start and its reply, or the write fails and    *)
(* changes nothing.  A read that no write or discard of the same page        *)
(* overlaps returns the page's current contents; one that is overlapped may   *)
(* return anything (the engine drops its locks between finding the slot and   *)
(* reading it, so it promises no more).                                      *)
(***************************************************************************)
CONSTANTS Threads, Offsets, Pages, ZeroPage, Errors, NoRequest

Request == [op : {"read"}, off : Offsets] \cup [op : {"discard"}, off : Offsets]
           \cup [op : {"write"}, off : Offsets, page : Pages]

VARIABLES contents, phase, req, ret, raced

vars == <<contents, phase, req, ret, raced>>

Init ==
  /\ contents = [o \in Offsets |-> ZeroPage]
  /\ phase = [t \in Threads |-> "idle"]
  /\ req = [t \in Threads |-> NoRequest]
  /\ ret = [t \in Threads |-> "none"]
  /\ raced = [t \in Threads |-> FALSE]

Invoke(t) ==
  /\ phase[t] = "idle"
  /\ phase' = [phase EXCEPT ![t] = "called"]
  /\ \E r \in Request : req' = [req EXCEPT ![t] = r]
  /\ UNCHANGED <<contents, ret, raced>>

Finish(t, value) ==
  /\ phase[t] = "called"
  /\ phase' = [phase EXCEPT ![t] = "done"]
  /\ ret' = [ret EXCEPT ![t] = value]
  /\ req' = req

(* A write or discard takes effect, overlapping every read of its page. *)
Commit(t) ==
  /\ Finish(t, "ok")
  /\ req[t].op \in {"write", "discard"}
  /\ contents' = [contents EXCEPT ![req[t].off] =
                    IF req[t].op = "write" THEN req[t].page ELSE ZeroPage]
  /\ raced' = [u \in Threads |->
                 \/ raced[u]
                 \/ /\ phase[u] = "called"
                    /\ req[u].op = "read" /\ req[u].off = req[t].off]

ReadValue(t) ==
  /\ phase[t] = "called" /\ req[t].op = "read"
  /\ \E p \in Pages :
       /\ raced[t] \/ p = contents[req[t].off]
       /\ Finish(t, p)
  /\ UNCHANGED <<contents, raced>>

(* A read or write fails and changes nothing; a discard never fails. *)
Fail(t) ==
  /\ phase[t] = "called" /\ req[t].op # "discard"
  /\ \E e \in Errors : Finish(t, e)
  /\ UNCHANGED <<contents, raced>>

Reply(t) ==
  /\ phase[t] = "done"
  /\ phase' = [phase EXCEPT ![t] = "idle"]
  /\ req' = [req EXCEPT ![t] = NoRequest]
  /\ ret' = [ret EXCEPT ![t] = "none"]
  /\ raced' = [raced EXCEPT ![t] = FALSE]
  /\ contents' = contents

Next == \E t \in Threads :
          Invoke(t) \/ Commit(t) \/ ReadValue(t) \/ Fail(t) \/ Reply(t)

Spec == Init /\ [][Next]_vars
=============================================================================
