--------------------------- MODULE MemoryRegions ----------------------------
(***************************************************************************)
(* What an RDMA buffer promises to those who allocate from it, with no     *)
(* mention of how free space is kept: blocks are runs of bytes nobody else *)
(* holds, taken at the lowest address, and a request is refused only when  *)
(* there is no such run.  BaseMemory implements it.                        *)
(***************************************************************************)
EXTENDS Integers

CONSTANTS MemSize, Sizes, Handles, NoBlock

VARIABLES held, result

vars == <<held, result>>

Holding == {h \in Handles : held[h] # NoBlock}

Covers(block, byte) == block.offset <= byte /\ byte < block.offset + block.size

(* A run of `size` bytes from `offset` on that lies in the buffer and that *)
(* no caller holds a byte of.                                              *)
Gap(offset, size) ==
  /\ offset + size <= MemSize
  /\ \A byte \in offset .. (offset + size - 1), h \in Holding : ~Covers(held[h], byte)

Gaps(size) == {offset \in 0 .. (MemSize - 1) : Gap(offset, size)}

Init ==
  /\ held = [h \in Handles |-> NoBlock]
  /\ result = "none"

Alloc(h, size) ==
  /\ held[h] = NoBlock
  /\ \E offset \in Gaps(size) :
       /\ \A lower \in Gaps(size) : offset <= lower
       /\ held' = [held EXCEPT ![h] = [offset |-> offset, size |-> size]]
  /\ result' = "ok"

AllocFails(h, size) ==
  /\ held[h] = NoBlock
  /\ Gaps(size) = {}
  /\ result' = "noMemory"
  /\ UNCHANGED held

Free(h) ==
  /\ held[h] # NoBlock
  /\ held' = [held EXCEPT ![h] = NoBlock]
  /\ result' = "ok"

Next ==
  \/ \E h \in Handles, size \in Sizes : Alloc(h, size) \/ AllocFails(h, size)
  \/ \E h \in Handles : Free(h)

Spec == Init /\ [][Next]_vars
=============================================================================
