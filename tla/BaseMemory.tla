----------------------------- MODULE BaseMemory -----------------------------
(***************************************************************************)
(* The first-fit allocator inside every registered RDMA buffer             *)
(* (src/memory/BaseMemory.cc).  All of a node's memory goes through it:    *)
(* localAlloc/localFree and the memory stubs of the node's own threads,    *)
(* and, through RDMAServer::requestMemoryResource/releaseMemoryResource,   *)
(* the remoteAlloc/remoteFree calls of other nodes.                        *)
(*                                                                         *)
(* internalAlloc and free hold m_lockMem from their first to their last    *)
(* access, so each is one step.  A "handle" stands for one pointer (or     *)
(* remote offset) kept by a caller between its alloc and its free.         *)
(***************************************************************************)
EXTENDS Integers, SequencesExt

CONSTANTS
  MemSize,   \* bytes in the buffer
  Sizes,     \* the sizes callers ask for
  Handles,   \* the pointers callers may hold at the same time
  NoBlock,   \* a handle that holds nothing
  MaxNulls   \* bound: null records that unknown frees may leave in m_rdmaMem

ASSUME MemSizeAssumption == MemSize \in Nat \ {0}
ASSUME SizesAssumption   == Sizes \subseteq Nat
ASSUME MaxNullsAssumption == MaxNulls \in Nat

(* rdma_mem_t: `free` is determined by the container that holds the record *)
(* and `isnull` only matters for the two null records named below.         *)
Region == [offset : Nat, size : Nat]

ASSUME NoBlockAssumption == NoBlock \notin Region

NullRegion == [offset |-> 0, size |-> 0]

End(m)   == m.offset + m.size
Bytes(m) == m.offset .. (End(m) - 1)

VARIABLES
  m_rdmaMem,      \* the list of free regions
  m_usedRdmaMem,  \* offset -> size of the regions recorded as used
  held,           \* handle -> the block its caller may use, or NoBlock
  result,         \* how the last call ended
  stale           \* history: an offset was freed that nothing was recorded for

vars == <<m_rdmaMem, m_usedRdmaMem, held, result, stale>>

Results == {"none", "ok", "noMemory", "nothingFreed"}

Init ==
  /\ m_rdmaMem = <<[offset |-> 0, size |-> MemSize]>>
  /\ m_usedRdmaMem = [o \in {} |-> 0]
  /\ held = [h \in Handles |-> NoBlock]
  /\ result = "none"
  /\ stale = FALSE

-----------------------------------------------------------------------------
(* Slip: an exact fit is not good enough. *)
FittingStrictly(size) == {i \in DOMAIN m_rdmaMem : m_rdmaMem[i].size > size}

(* internalAlloc: the first listed region that is large enough. *)
Fitting(size) == {i \in DOMAIN m_rdmaMem : m_rdmaMem[i].size >= size}

FirstIndex(I) == CHOOSE i \in I : \A j \in I : i <= j

(* Slip: the rest of the region keeps its offset. *)
CutFrontInPlace(i, size) ==
  LET region == m_rdmaMem[i]
  IN  IF region.size > size
      THEN ReplaceAt(m_rdmaMem, i, [region EXCEPT !.size = @ - size])
      ELSE RemoveAt(m_rdmaMem, i)

(* Slip: the operands of the subtraction swapped. *)
CutFrontSwapped(i, size) ==
  LET region == m_rdmaMem[i]
  IN  IF region.size > size
      THEN ReplaceAt(m_rdmaMem, i, [offset |-> region.offset + size,
                                    size   |-> size - region.size])
      ELSE RemoveAt(m_rdmaMem, i)

(* The list once `size` bytes are cut off the front of region i. *)
CutFront(i, size) ==
  LET region == m_rdmaMem[i]
  IN  IF region.size > size
      THEN ReplaceAt(m_rdmaMem, i, [offset |-> region.offset + size,
                                    size   |-> region.size - size])
      ELSE RemoveAt(m_rdmaMem, i)

Record(offset, size) ==
  [o \in DOMAIN m_usedRdmaMem \cup {offset} |->
     IF o = offset THEN size ELSE m_usedRdmaMem[o]]

Alloc(h, size) ==
  /\ held[h] = NoBlock
  /\ Fitting(size) # {}
  /\ LET i      == FirstIndex(Fitting(size))
         offset == m_rdmaMem[i].offset
     IN  /\ m_rdmaMem' = CutFront(i, size)
         /\ m_usedRdmaMem' = Record(offset, size)
         /\ held' = [held EXCEPT ![h] = [offset |-> offset, size |-> size]]
  /\ result' = "ok"
  /\ UNCHANGED stale

(* internalAlloc returns a null region, alloc throws. *)
AllocFails(h, size) ==
  /\ held[h] = NoBlock
  /\ Fitting(size) = {}
  /\ result' = "noMemory"
  /\ UNCHANGED <<m_rdmaMem, m_usedRdmaMem, held, stale>>

-----------------------------------------------------------------------------
(* Slip: the region before is fused without its size. *)
mergeFreeMemShort(list, k) ==
  IF k > 1 /\ End(list[k - 1]) = list[k].offset
  THEN RemoveAt([list EXCEPT ![k].offset = list[k - 1].offset], k - 1)
  ELSE list

(* Slip: only the region after is looked at. *)
mergeFreeMemAfter(list, k) ==
  IF k < Len(list) /\ End(list[k]) = list[k + 1].offset
  THEN RemoveAt([list EXCEPT ![k].size = @ + list[k + 1].size], k + 1)
  ELSE list

(* mergeFreeMem on the region at k: fuse it with the region listed before  *)
(* it and with the one listed after it, when they touch.                   *)
mergeFreeMem(list, k) ==
  LET before == k > 1 /\ End(list[k - 1]) = list[k].offset
      after  == k < Len(list) /\ End(list[k]) = list[k + 1].offset
      first  == IF before THEN k - 1 ELSE k
      last   == IF after THEN k + 1 ELSE k
      size   == list[k].size + (IF before THEN list[k - 1].size ELSE 0)
                             + (IF after THEN list[k + 1].size ELSE 0)
  IN  SubSeq(list, 1, first - 1)
        \o <<[offset |-> list[first].offset, size |-> size]>>
        \o SubSeq(list, last + 1, Len(list))

(* free's running sum `lastOffset` when its scan reaches index i: listed   *)
(* regions never share a byte (FreeListOrdered), so the sum of the sizes   *)
(* is the number of bytes listed before i.                                 *)
lastOffset(i) ==
  Cardinality(UNION {Bytes(m_rdmaMem[j]) : j \in 1 .. (i - 1)})

(* Slip: the lower bound of the scan excludes the running sum itself. *)
StopsAfter(offset) ==
  {i \in DOMAIN m_rdmaMem : lastOffset(i) < offset /\ offset < m_rdmaMem[i].offset}

(* Where the scan stops: in front of a region, or past the end of the list *)
(* (also the case of an empty list).                                       *)
StopsAt(offset) ==
  {i \in DOMAIN m_rdmaMem : lastOffset(i) <= offset /\ offset < m_rdmaMem[i].offset}

(* Slip: regions are always appended. *)
InsertionAtEnd(offset) == {i \in {Len(m_rdmaMem) + 1} : lastOffset(i) <= offset}

InsertionPoints(offset) ==
  IF StopsAt(offset) # {} THEN {FirstIndex(StopsAt(offset))}
  ELSE {i \in {Len(m_rdmaMem) + 1} : lastOffset(i) <= offset}

(* m_usedRdmaMem[offset] default-inserts a null record when there is none. *)
Lookup(offset) ==
  IF offset \in DOMAIN m_usedRdmaMem
  THEN [offset |-> offset, size |-> m_usedRdmaMem[offset]]
  ELSE NullRegion

free(offset) ==
  /\ m_usedRdmaMem' = [o \in DOMAIN m_usedRdmaMem \ {offset} |-> m_usedRdmaMem[o]]
  /\ \/ \E i \in InsertionPoints(offset) :
          /\ m_rdmaMem' = mergeFreeMem(InsertAt(m_rdmaMem, i, Lookup(offset)), i)
          /\ result' = "ok"
     \/ /\ InsertionPoints(offset) = {}
        /\ m_rdmaMem' = m_rdmaMem
        /\ result' = "nothingFreed"

(* The caller gives its pointer up whatever the outcome. *)
Free(h) ==
  /\ held[h] # NoBlock
  /\ free(held[h].offset)
  /\ held' = [held EXCEPT ![h] = NoBlock]
  /\ UNCHANGED stale

(* A call of free with an offset nothing is recorded for: a second free of *)
(* the same pointer, or the offset UnreliableRDMA::localAlloc handed out   *)
(* (the block's offset plus the UD header) given to localFree(offset).     *)
NullsListed == Cardinality({i \in DOMAIN m_rdmaMem : m_rdmaMem[i].size = 0})

FreeUnknown(offset) ==
  /\ offset \notin DOMAIN m_usedRdmaMem
  /\ NullsListed < MaxNulls
  /\ free(offset)
  /\ stale' = TRUE
  /\ UNCHANGED held

Next ==
  \/ \E h \in Handles, size \in Sizes : Alloc(h, size) \/ AllocFails(h, size)
  \/ \E h \in Handles : Free(h)
  \/ \E offset \in 0 .. (MemSize - 1) : FreeUnknown(offset)

Spec == Init /\ [][Next]_vars

-----------------------------------------------------------------------------
(* Type correctness of the allocator's state. *)
TypeOK ==
  /\ m_rdmaMem \in Seq(Region)
  /\ DOMAIN m_usedRdmaMem \subseteq Nat
  /\ \A o \in DOMAIN m_usedRdmaMem : m_usedRdmaMem[o] \in Nat
  /\ held \in [Handles -> Region \cup {NoBlock}]
  /\ result \in Results
  /\ stale \in BOOLEAN

Holding    == {h \in Handles : held[h] # NoBlock}
FreeBytes  == UNION {Bytes(m_rdmaMem[i]) : i \in DOMAIN m_rdmaMem}
HeldBytes  == UNION {Bytes(held[h]) : h \in Holding}

(* Two callers never own the same byte, and no byte a caller owns is still *)
(* offered by the free list: nobody's RDMA buffer is handed out twice by   *)
(* internalAlloc, in whatever order blocks are allocated and freed.        *)
BlocksDisjoint ==
  /\ \A g, h \in Holding : g # h => Bytes(held[g]) \cap Bytes(held[h]) = {}
  /\ HeldBytes \cap FreeBytes = {}

(* No sequence of allocs and frees loses a byte of the buffer or reaches   *)
(* beyond it: splitting in internalAlloc, fusing in mergeFreeMem and the   *)
(* scan of free keep free and held bytes a cover of the whole buffer.      *)
NoByteLost == FreeBytes \cup HeldBytes = 0 .. (MemSize - 1)

(* The list stays sorted by address and its regions never share a byte:    *)
(* both the scan of free and the fusing of neighbours rely on it.          *)
FreeListOrdered ==
  \A i, j \in DOMAIN m_rdmaMem :
    i < j /\ m_rdmaMem[i].size > 0 /\ m_rdmaMem[j].size > 0
      => End(m_rdmaMem[i]) <= m_rdmaMem[j].offset

(* No two free regions touch, so free space is never split where it could  *)
(* serve a larger request (mergeFreeMem).  A null record that a stale free *)
(* has left in the list may keep its neighbours apart.                     *)
FreeListCoalesced ==
  ~ stale => \A i, j \in DOMAIN m_rdmaMem :
               i # j => End(m_rdmaMem[i]) # m_rdmaMem[j].offset

(* Freeing a block a caller holds never ends in "Did not free any internal *)
(* memory!": the throw would leave the block unrecorded and lost.          *)
FreeingHeldSucceeds == [][\A h \in Handles : Free(h) => result' = "ok"]_vars

(* What callers rely on, without the list: see MemoryRegions. *)
Regions == INSTANCE MemoryRegions

(* Up to the first stale free the list implements it: a request is refused *)
(* only when no run of unheld bytes could serve it, gets the lowest such   *)
(* run otherwise, and freeing always works.                                *)
RegionsSpec == Regions!Init /\ [][~ stale' => Regions!Next]_(Regions!vars)
=============================================================================
