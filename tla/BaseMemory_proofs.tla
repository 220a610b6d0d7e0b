-------------------------- MODULE BaseMemory_proofs -------------------------
(***************************************************************************)
(* Proofs about BaseMemory, for every buffer size, every set of handles    *)
(* and every set of request sizes.                                         *)
(*                                                                         *)
(* None of the properties is inductive by itself.  BlocksDisjoint needs    *)
(* the list in order (or mergeFreeMem would swallow a held block) and the  *)
(* record of each held block right (or free would return more than was     *)
(* taken); NoByteLost needs every free to find its place in the list.      *)
(* IInv is their conjunction, byte by byte.                                *)
(*                                                                         *)
(* The lemmas about the list of free regions come first: what the list     *)
(* operations of internalAlloc, mergeFreeMem and free do to its order and  *)
(* to the bytes it lists, for every list.                                  *)
(***************************************************************************)
EXTENDS BaseMemory, FiniteSetTheorems, WellFoundedInduction, TLAPS

-----------------------------------------------------------------------------
(* Lists of regions, element by element. *)

(* An element between two lists. *)
LEMMA BetweenElements ==
  ASSUME NEW front \in Seq(Region), NEW r \in Region, NEW back \in Seq(Region)
  PROVE  LET new == front \o <<r>> \o back IN
         /\ new \in Seq(Region)
         /\ Len(new) = Len(front) + 1 + Len(back)
         /\ \A i \in 1 .. Len(front) : new[i] = front[i]
         /\ new[Len(front) + 1] = r
         /\ \A i \in 1 .. Len(back) : new[Len(front) + 1 + i] = back[i]
<1> DEFINE begin == front \o <<r>>
           new   == begin \o back
<1>1. /\ begin \in Seq(Region) /\ Len(begin) = Len(front) + 1
      /\ \A i \in 1 .. Len(front) : begin[i] = front[i]
      /\ begin[Len(front) + 1] = r
  OBVIOUS
<1> HIDE DEF begin
<1>2. /\ new \in Seq(Region)
      /\ Len(new) = Len(begin) + Len(back)
      /\ \A i \in 1 .. Len(begin) : new[i] = begin[i]
      /\ \A i \in 1 .. Len(back) : new[Len(begin) + i] = back[i]
  BY <1>1, SMTT(60)
<1> HIDE DEF new
<1>3. /\ new \in Seq(Region)
      /\ Len(new) = Len(front) + 1 + Len(back)
      /\ \A i \in 1 .. Len(front) : new[i] = front[i]
      /\ new[Len(front) + 1] = r
      /\ \A i \in 1 .. Len(back) : new[Len(front) + 1 + i] = back[i]
  BY <1>1, <1>2
<1>4. QED
  BY <1>3 DEF new, begin

(* Replacing the run of elements from `first` to `last` by one element. *)
Collapse(list, first, last, r) ==
  SubSeq(list, 1, first - 1) \o <<r>> \o SubSeq(list, last + 1, Len(list))

IsCollapse(new, list, first, last, r) ==
  /\ new \in Seq(Region)
  /\ Len(new) = Len(list) - (last - first)
  /\ \A i \in 1 .. (first - 1) : new[i] = list[i]
  /\ new[first] = r
  /\ \A i \in (first + 1) .. Len(new) : new[i] = list[i + (last - first)]

LEMMA CollapseElements ==
  ASSUME NEW list \in Seq(Region), NEW first \in 1 .. Len(list),
         NEW last \in first .. Len(list), NEW r \in Region
  PROVE  IsCollapse(Collapse(list, first, last, r), list, first, last, r)
<1> DEFINE front == SubSeq(list, 1, first - 1)
           back  == SubSeq(list, last + 1, Len(list))
           new   == front \o <<r>> \o back
<1>1. /\ front \in Seq(Region) /\ Len(front) = first - 1
      /\ \A i \in 1 .. (first - 1) : front[i] = list[i]
  OBVIOUS
<1>2. /\ back \in Seq(Region) /\ Len(back) = Len(list) - last
      /\ \A i \in 1 .. (Len(list) - last) : back[i] = list[last + i]
  OBVIOUS
<1> HIDE DEF front, back
<1>3. /\ new \in Seq(Region)
      /\ Len(new) = Len(front) + 1 + Len(back)
      /\ \A i \in 1 .. Len(front) : new[i] = front[i]
      /\ new[Len(front) + 1] = r
      /\ \A i \in 1 .. Len(back) : new[Len(front) + 1 + i] = back[i]
  BY <1>1, <1>2, BetweenElements, ZenonT(60)
<1> HIDE DEF new
<1>4. \A i \in (first + 1) .. Len(new) : new[i] = list[i + (last - first)]
  <2> TAKE i \in (first + 1) .. Len(new)
  <2>1. /\ i - first \in 1 .. Len(back)
        /\ i = Len(front) + 1 + (i - first)
        /\ last + (i - first) = i + (last - first)
    BY <1>1, <1>2, <1>3
  <2>2. new[i] = back[i - first]
    BY <1>3, <2>1
  <2>3. back[i - first] = list[last + (i - first)]
    BY <1>2, <2>1
  <2>4. QED
    BY <2>1, <2>2, <2>3
<1>5. /\ new \in Seq(Region)
      /\ Len(new) = Len(list) - (last - first)
      /\ \A i \in 1 .. (first - 1) : new[i] = list[i]
      /\ new[first] = r
  BY <1>1, <1>2, <1>3
<1>6. QED
  BY <1>4, <1>5 DEF new, front, back, Collapse, IsCollapse

LEMMA InsertAtElements ==
  ASSUME NEW list \in Seq(Region), NEW k \in 1 .. (Len(list) + 1), NEW r \in Region
  PROVE  LET new == InsertAt(list, k, r) IN
         /\ new \in Seq(Region)
         /\ Len(new) = Len(list) + 1
         /\ \A i \in 1 .. (k - 1) : new[i] = list[i]
         /\ new[k] = r
         /\ \A i \in (k + 1) .. (Len(list) + 1) : new[i] = list[i - 1]
<1> DEFINE front == SubSeq(list, 1, k - 1)
           back  == SubSeq(list, k, Len(list))
           new   == front \o <<r>> \o back
<1>1. /\ front \in Seq(Region) /\ Len(front) = k - 1
      /\ \A i \in 1 .. (k - 1) : front[i] = list[i]
  OBVIOUS
<1>2. /\ back \in Seq(Region) /\ Len(back) = Len(list) - k + 1
      /\ \A i \in 1 .. Len(back) : back[i] = list[i + k - 1]
  OBVIOUS
<1>3. InsertAt(list, k, r) = new
  BY DEF InsertAt
<1> HIDE DEF front, back
<1>4. /\ new \in Seq(Region)
      /\ Len(new) = Len(front) + 1 + Len(back)
      /\ \A i \in 1 .. Len(front) : new[i] = front[i]
      /\ new[Len(front) + 1] = r
      /\ \A i \in 1 .. Len(back) : new[Len(front) + 1 + i] = back[i]
  BY <1>1, <1>2, BetweenElements, ZenonT(60)
<1> HIDE DEF new
<1>5. \A i \in (k + 1) .. (Len(list) + 1) : new[i] = list[i - 1]
  <2> TAKE i \in (k + 1) .. (Len(list) + 1)
  <2>1. /\ i - k \in 1 .. Len(back)
        /\ i = Len(front) + 1 + (i - k)
        /\ (i - k) + k - 1 = i - 1
    BY <1>1, <1>2
  <2>2. new[i] = back[i - k]
    BY <1>4, <2>1
  <2>3. back[i - k] = list[i - 1]
    BY <1>2, <2>1
  <2>4. QED
    BY <2>2, <2>3
<1>6. QED
  BY <1>1, <1>2, <1>3, <1>4, <1>5, SMTT(60)

LEMMA RemoveAtElements ==
  ASSUME NEW list \in Seq(Region), NEW k \in 1 .. Len(list)
  PROVE  LET new == RemoveAt(list, k) IN
         /\ new \in Seq(Region)
         /\ Len(new) = Len(list) - 1
         /\ \A i \in 1 .. (k - 1) : new[i] = list[i]
         /\ \A i \in k .. (Len(list) - 1) : new[i] = list[i + 1]
<1> DEFINE front == SubSeq(list, 1, k - 1)
           back  == SubSeq(list, k + 1, Len(list))
<1>1. /\ front \in Seq(Region) /\ Len(front) = k - 1
      /\ \A i \in 1 .. (k - 1) : front[i] = list[i]
  OBVIOUS
<1>2. /\ back \in Seq(Region) /\ Len(back) = Len(list) - k
      /\ \A i \in 1 .. (Len(list) - k) : back[i] = list[i + k]
  OBVIOUS
<1>3. RemoveAt(list, k) = front \o back
  BY DEF RemoveAt
<1> HIDE DEF front, back
<1> DEFINE new == RemoveAt(list, k)
<1>4. Len(list) \in Nat /\ k \in Int /\ 1 <= k /\ k <= Len(list)
  OBVIOUS
<1>5. new \in Seq(Region) /\ Len(new) = Len(front) + Len(back)
  <2>1. front \in Seq(Region) /\ back \in Seq(Region)
    BY <1>1, <1>2
  <2>2. front \o back \in Seq(Region) /\ Len(front \o back) = Len(front) + Len(back)
    BY <2>1
  <2>3. QED
    BY <1>3, <2>2
<1>6. Len(new) = Len(list) - 1
  BY <1>1, <1>2, <1>4, <1>5
<1>7. ASSUME NEW i \in 1 .. (k - 1)
      PROVE  new[i] = list[i]
  <2>1. i \in 1 .. Len(front)
    BY <1>1
  <2>2. (front \o back)[i] = front[i]
    BY <1>1, <1>2, <2>1
  <2>3. QED
    BY <1>1, <1>3, <2>2
<1>8. ASSUME NEW i \in k .. (Len(list) - 1)
      PROVE  new[i] = list[i + 1]
  <2>1. /\ i \in (Len(front) + 1) .. (Len(front) + Len(back))
        /\ i - Len(front) \in 1 .. (Len(list) - k)
        /\ (i - Len(front)) + k = i + 1
    BY <1>1, <1>2, <1>4
  <2>2. (front \o back)[i] = back[i - Len(front)]
    BY <1>1, <1>2, <2>1
  <2>3. QED
    BY <1>2, <1>3, <2>1, <2>2
<1> HIDE DEF new
<1>9. /\ new \in Seq(Region)
      /\ Len(new) = Len(list) - 1
      /\ \A i \in 1 .. (k - 1) : new[i] = list[i]
      /\ \A i \in k .. (Len(list) - 1) : new[i] = list[i + 1]
  BY <1>5, <1>6, <1>7, <1>8
<1>10. QED
  BY <1>9 DEF new

-----------------------------------------------------------------------------
(* A list as free needs it: addresses ascend, null records sit at zero. *)
Ordered(list) ==
  \A i, j \in 1 .. Len(list) :
    i < j /\ list[i].size > 0 /\ list[j].size > 0 => End(list[i]) <= list[j].offset

NullsAtZero(list) == \A i \in 1 .. Len(list) : list[i].size = 0 => list[i].offset = 0

Inside(list) == \A i \in 1 .. Len(list) : End(list[i]) <= MemSize

WellFormed(list) ==
  list \in Seq(Region) /\ Ordered(list) /\ NullsAtZero(list) /\ Inside(list)

In(byte, region) == region.offset <= byte /\ byte < End(region)

Has(list, byte) == \E i \in 1 .. Len(list) : In(byte, list[i])

(* No null records, and a gap between any two regions. *)
Tight(list) ==
  /\ \A i \in 1 .. Len(list) : list[i].size > 0
  /\ \A i, j \in 1 .. Len(list) : i < j => End(list[i]) < list[j].offset

(* Two regions that touch, and the region that covers them. *)
LEMMA FuseTwo ==
  ASSUME NEW a \in Region, NEW b \in Region, End(a) = b.offset,
         a.size = 0 => a.offset = 0, b.size = 0 => b.offset = 0,
         NEW m, m = [offset |-> a.offset, size |-> a.size + b.size]
  PROVE  /\ m \in Region
         /\ m.offset = a.offset
         /\ End(m) = End(b)
         /\ m.size > 0 <=> (a.size > 0 \/ b.size > 0)
         /\ m.size = 0 => m.offset = 0
         /\ \A byte \in Nat : In(byte, m) <=> (In(byte, a) \/ In(byte, b))
         /\ m.size > 0 /\ a.size = 0 => b.size > 0 /\ b.offset = 0
<1>1. /\ a.offset \in Nat /\ a.size \in Nat
      /\ b.offset \in Nat /\ b.size \in Nat
  BY DEF Region
<1>2. a.offset + a.size = b.offset
  BY DEF End
<1>3. m.offset = a.offset /\ m.size = a.size + b.size
  OBVIOUS
<1>4. m \in Region
  BY <1>1 DEF Region
<1>5. End(m) = End(b)
  BY <1>1, <1>2, <1>3 DEF End
<1>6. \A byte \in Nat : In(byte, m) <=> (In(byte, a) \/ In(byte, b))
  BY <1>1, <1>2, <1>3 DEF In, End
<1>7. QED
  BY <1>1, <1>2, <1>3, <1>4, <1>5, <1>6

(* What mergeFreeMem does to the list: the regions from `first` to `last`, *)
(* which touch one another, give way to one region with the same bytes.    *)
LEMMA MergeCollapses ==
  ASSUME NEW list, WellFormed(list), NEW k \in 1 .. Len(list)
  PROVE  \E first \in 1 .. Len(list), last \in 1 .. Len(list), merged \in Region :
         /\ first <= k /\ k <= last
         /\ mergeFreeMem(list, k) = Collapse(list, first, last, merged)
         /\ merged.offset = list[first].offset
         /\ End(merged) = End(list[last])
         /\ merged.size > 0 <=> \E i \in first .. last : list[i].size > 0
         /\ merged.size = 0 => merged.offset = 0
         /\ \A byte \in Nat : In(byte, merged) <=> \E i \in first .. last : In(byte, list[i])
         /\ merged.size > 0 /\ list[first].size = 0 =>
              \E i \in first .. last : list[i].size > 0 /\ list[i].offset = 0
         /\ first = k => (k = 1 \/ End(list[k - 1]) # list[k].offset)
         /\ last = k => (k = Len(list) \/ End(list[k]) # list[k + 1].offset)
         /\ first \in {k - 1, k} /\ last \in {k, k + 1}
<1> DEFINE before == k > 1 /\ End(list[k - 1]) = list[k].offset
           after  == k < Len(list) /\ End(list[k]) = list[k + 1].offset
           first  == IF before THEN k - 1 ELSE k
           last   == IF after THEN k + 1 ELSE k
           size   == list[k].size + (IF before THEN list[k - 1].size ELSE 0)
                                  + (IF after THEN list[k + 1].size ELSE 0)
           merged == [offset |-> list[first].offset, size |-> size]
<1>1. /\ first \in 1 .. Len(list) /\ last \in 1 .. Len(list)
      /\ first <= k /\ k <= last /\ first \in {k - 1, k} /\ last \in {k, k + 1}
  BY DEF WellFormed
<1>2. /\ list[k] \in Region
      /\ before => list[k - 1] \in Region
      /\ after => list[k + 1] \in Region
      /\ list[first] \in Region
  BY <1>1 DEF WellFormed
<1>3. /\ list[k].offset \in Nat /\ list[k].size \in Nat
      /\ before => list[k - 1].offset \in Nat /\ list[k - 1].size \in Nat
      /\ after => list[k + 1].offset \in Nat /\ list[k + 1].size \in Nat
      /\ list[first].offset \in Nat
  BY <1>2 DEF Region
<1>4. merged \in Region /\ merged.offset = list[first].offset /\ merged.size = size
  BY <1>3, SMTT(60) DEF Region
<1>5. mergeFreeMem(list, k) = Collapse(list, first, last, merged)
  BY DEF mergeFreeMem, Collapse
<1>6. /\ list[k].size = 0 => list[k].offset = 0
      /\ before /\ list[k - 1].size = 0 => list[k - 1].offset = 0
      /\ after /\ list[k + 1].size = 0 => list[k + 1].offset = 0
  BY DEF WellFormed, NullsAtZero
<1>7. /\ End(merged) = End(list[last])
      /\ merged.size > 0 <=> \E i \in first .. last : list[i].size > 0
      /\ merged.size = 0 => merged.offset = 0
      /\ \A byte \in Nat : In(byte, merged) <=> \E i \in first .. last : In(byte, list[i])
      /\ merged.size > 0 /\ list[first].size = 0 =>
           \E i \in first .. last : list[i].size > 0 /\ list[i].offset = 0
  <2>1. CASE before /\ after
    <3> DEFINE two == [offset |-> list[k - 1].offset, size |-> list[k - 1].size + list[k].size]
    <3>1. first .. last = {k - 1, k, k + 1} /\ first = k - 1 /\ last = k + 1
      BY <2>1
    <3>2. /\ two \in Region
          /\ two.offset = list[k - 1].offset
          /\ End(two) = End(list[k])
          /\ two.size > 0 <=> (list[k - 1].size > 0 \/ list[k].size > 0)
          /\ two.size = 0 => two.offset = 0
          /\ \A byte \in Nat :
               In(byte, two) <=> (In(byte, list[k - 1]) \/ In(byte, list[k]))
          /\ two.size > 0 /\ list[k - 1].size = 0 => list[k].size > 0 /\ list[k].offset = 0
      BY <1>2, <1>6, <2>1, FuseTwo
    <3>3. merged = [offset |-> two.offset, size |-> two.size + list[k + 1].size]
      BY <1>3, <2>1
    <3> HIDE DEF two
    <3>4. End(two) = list[k + 1].offset
      BY <2>1, <3>2
    <3> HIDE DEF merged
    <3>5. /\ End(merged) = End(list[k + 1])
          /\ merged.size > 0 <=> (two.size > 0 \/ list[k + 1].size > 0)
          /\ merged.size = 0 => merged.offset = 0
          /\ \A byte \in Nat :
               In(byte, merged) <=> (In(byte, two) \/ In(byte, list[k + 1]))
          /\ merged.size > 0 /\ two.size = 0 =>
               list[k + 1].size > 0 /\ list[k + 1].offset = 0
      BY <1>2, <1>6, <2>1, <3>2, <3>3, <3>4, FuseTwo
    <3> HIDE DEF first, last, before, after
    <3>6. two.size \in Nat
      BY <3>2 DEF Region
    <3>7. QED
      BY <3>1, <3>2, <3>5, <3>6, SMTT(60)
  <2>2. CASE before /\ ~after
    <3>1. first .. last = {k - 1, k} /\ first = k - 1 /\ last = k
      BY <2>2
    <3>2. merged = [offset |-> list[k - 1].offset, size |-> list[k - 1].size + list[k].size]
      BY <1>3, <2>2
    <3> HIDE DEF merged
    <3>3. /\ End(merged) = End(list[k])
          /\ merged.size > 0 <=> (list[k - 1].size > 0 \/ list[k].size > 0)
          /\ merged.size = 0 => merged.offset = 0
          /\ \A byte \in Nat :
               In(byte, merged) <=> (In(byte, list[k - 1]) \/ In(byte, list[k]))
          /\ merged.size > 0 /\ list[k - 1].size = 0 =>
               list[k].size > 0 /\ list[k].offset = 0
      BY <1>2, <1>6, <2>2, <3>2, FuseTwo
    <3> HIDE DEF first, last, before, after
    <3>4. QED
      BY <3>1, <3>3
  <2>3. CASE ~before /\ after
    <3>1. first .. last = {k, k + 1} /\ first = k /\ last = k + 1
      BY <2>3
    <3>2. merged = [offset |-> list[k].offset, size |-> list[k].size + list[k + 1].size]
      BY <1>3, <2>3
    <3> HIDE DEF merged
    <3>3. /\ End(merged) = End(list[k + 1])
          /\ merged.size > 0 <=> (list[k].size > 0 \/ list[k + 1].size > 0)
          /\ merged.size = 0 => merged.offset = 0
          /\ \A byte \in Nat :
               In(byte, merged) <=> (In(byte, list[k]) \/ In(byte, list[k + 1]))
          /\ merged.size > 0 /\ list[k].size = 0 =>
               list[k + 1].size > 0 /\ list[k + 1].offset = 0
      BY <1>2, <1>6, <2>3, <3>2, FuseTwo
    <3> HIDE DEF first, last, before, after
    <3>4. QED
      BY <3>1, <3>3
  <2>4. CASE ~before /\ ~after
    <3>1. first .. last = {k} /\ first = k /\ last = k
      BY <2>4
    <3>2. merged = list[k]
      <4>1. merged = [offset |-> list[k].offset, size |-> list[k].size]
        BY <1>3, <2>4
      <4>2. QED
        BY <1>2, <4>1 DEF Region
    <3> HIDE DEF first, last, merged, before, after
    <3>3. QED
      BY <1>3, <1>6, <3>1, <3>2
  <2>5. QED
    BY <2>1, <2>2, <2>3, <2>4
<1>8. /\ first = k => (k = 1 \/ End(list[k - 1]) # list[k].offset)
      /\ last = k => (k = Len(list) \/ End(list[k]) # list[k + 1].offset)
  BY DEF WellFormed
<1> HIDE DEF first, last, merged
<1>9. QED
  BY <1>1, <1>4, <1>5, <1>7, <1>8

(* Tight, but for the neighbourhood of k. *)
TightAround(list, k) ==
  /\ \A i \in 1 .. Len(list) : list[i].size > 0
  /\ \A i, j \in 1 .. Len(list) : i < j /\ i # k /\ j # k => End(list[i]) < list[j].offset

(* mergeFreeMem keeps the list in order and its bytes the same, and fuses  *)
(* the region at k with whatever it touches.                               *)
LEMMA MergeKeepsOrder ==
  ASSUME NEW list, WellFormed(list), NEW k \in 1 .. Len(list)
  PROVE  LET new == mergeFreeMem(list, k) IN
         /\ WellFormed(new)
         /\ \A byte \in Nat : Has(new, byte) <=> Has(list, byte)
         /\ TightAround(list, k) => Tight(new)
<1> DEFINE new == mergeFreeMem(list, k)
<1>1. PICK first \in 1 .. Len(list), last \in 1 .. Len(list), merged \in Region :
         /\ first <= k /\ k <= last
         /\ new = Collapse(list, first, last, merged)
         /\ merged.offset = list[first].offset
         /\ End(merged) = End(list[last])
         /\ merged.size > 0 <=> \E i \in first .. last : list[i].size > 0
         /\ merged.size = 0 => merged.offset = 0
         /\ \A byte \in Nat : In(byte, merged) <=> \E i \in first .. last : In(byte, list[i])
         /\ merged.size > 0 /\ list[first].size = 0 =>
              \E i \in first .. last : list[i].size > 0 /\ list[i].offset = 0
         /\ first = k => (k = 1 \/ End(list[k - 1]) # list[k].offset)
         /\ last = k => (k = Len(list) \/ End(list[k]) # list[k + 1].offset)
         /\ first \in {k - 1, k} /\ last \in {k, k + 1}
  BY MergeCollapses
<1> DEFINE shift == last - first
<1>2. list \in Seq(Region) /\ Len(list) \in Nat
  BY DEF WellFormed
<1>3. /\ new \in Seq(Region)
      /\ Len(new) = Len(list) - shift
      /\ \A i \in 1 .. (first - 1) : new[i] = list[i]
      /\ new[first] = merged
      /\ \A i \in (first + 1) .. Len(new) : new[i] = list[i + shift]
  <2>1. last \in first .. Len(list) /\ new = Collapse(list, first, last, merged)
    BY <1>1, <1>2
  <2> HIDE DEF new
  <2>2. IsCollapse(Collapse(list, first, last, merged), list, first, last, merged)
    BY <1>2, <2>1, CollapseElements, Zenon
  <2>3. QED
    BY <2>1, <2>2 DEF IsCollapse
<1> HIDE DEF new
<1>4. /\ Len(list) \in Nat /\ Len(new) \in Nat /\ k \in 1 .. Len(list)
      /\ first \in 1 .. Len(list) /\ last \in 1 .. Len(list) /\ shift \in Nat
      /\ last = first + shift /\ first <= k /\ k <= last
      /\ Len(new) = Len(list) - shift
  <2>1. /\ first \in 1 .. Len(list) /\ last \in 1 .. Len(list) /\ first <= k /\ k <= last
    BY <1>1
  <2>2. QED
    BY <1>2, <1>3, <2>1
<1> HIDE DEF shift
<1>16. \A i \in 1 .. Len(new) : i < first => i \in 1 .. Len(list) /\ new[i] = list[i]
  <2>1. SUFFICES ASSUME NEW i \in 1 .. Len(new), i < first
                 PROVE  i \in 1 .. Len(list) /\ new[i] = list[i]
    OBVIOUS
  <2>2. i \in 1 .. (first - 1) /\ i \in 1 .. Len(list)
    BY <1>4, <2>1
  <2>3. QED
    BY <1>3, <2>2
<1>17. new[first] = merged
  BY <1>3
<1>18. \A i \in 1 .. Len(new) : i > first =>
         i + shift \in 1 .. Len(list) /\ i + shift > last /\ new[i] = list[i + shift]
  <2>1. SUFFICES ASSUME NEW i \in 1 .. Len(new), i > first
                 PROVE  i + shift \in 1 .. Len(list) /\ i + shift > last /\ new[i] = list[i + shift]
    OBVIOUS
  <2>2. i \in (first + 1) .. Len(new) /\ i + shift \in 1 .. Len(list) /\ i + shift > last
    BY <1>4, <2>1
  <2>3. QED
    BY <1>3, <2>2
<1>19. merged.offset = list[first].offset /\ End(merged) = End(list[last])
  BY <1>1
<1>20. \A byte \in Nat : In(byte, merged) <=> \E i \in first .. last : In(byte, list[i])
  BY <1>1
<1>5. \A i \in 1 .. Len(list) :
        /\ list[i].offset \in Nat /\ list[i].size \in Nat /\ End(list[i]) \in Nat
        /\ End(list[i]) = list[i].offset + list[i].size
        /\ list[i].offset <= End(list[i])
        /\ list[i].size = 0 => list[i].offset = 0 /\ End(list[i]) = 0
        /\ End(list[i]) <= MemSize
  <2> TAKE i \in 1 .. Len(list)
  <2>1. list[i] \in Region
    BY <1>2
  <2>2. /\ list[i].offset \in Nat /\ list[i].size \in Nat /\ End(list[i]) \in Nat
        /\ End(list[i]) = list[i].offset + list[i].size
    BY <2>1 DEF Region, End
  <2>3. list[i].size = 0 => list[i].offset = 0
    BY DEF WellFormed, NullsAtZero
  <2>4. End(list[i]) <= MemSize
    BY DEF WellFormed, Inside
  <2>5. QED
    BY <2>2, <2>3, <2>4
<1>6. /\ merged.offset \in Nat /\ merged.size \in Nat
      /\ End(merged) = merged.offset + merged.size
  BY <1>1 DEF Region, End
<1>7. \A i, j \in 1 .. Len(list) :
        i < j /\ list[i].size > 0 /\ list[j].size > 0 => End(list[i]) <= list[j].offset
  BY DEF WellFormed, Ordered
<1>8. ASSUME NEW i \in 1 .. Len(list), i < first, list[i].size > 0, merged.size > 0
      PROVE  End(list[i]) <= merged.offset
  <2>1. CASE list[first].size > 0
    BY <1>1, <1>7, <1>8, <2>1
  <2>2. CASE list[first].size = 0
    <3>1. PICK j \in first .. last : list[j].size > 0 /\ list[j].offset = 0
      BY <1>1, <1>8, <2>2
    <3>2. End(list[i]) <= list[j].offset
      BY <1>1, <1>2, <1>7, <1>8, <3>1
    <3>3. End(list[i]) \in Nat /\ list[i].offset \in Nat /\ list[i].size \in Nat
          /\ End(list[i]) = list[i].offset + list[i].size
      BY <1>5
    <3>4. QED
      BY <1>8, <3>1, <3>2, <3>3
  <2>3. QED
    BY <1>1, <1>5, <2>1, <2>2
<1>9. ASSUME NEW j \in 1 .. Len(list), j > last, list[j].size > 0
      PROVE  End(merged) <= list[j].offset
  <2>1. CASE list[last].size > 0
    BY <1>1, <1>7, <1>9, <2>1
  <2>2. CASE list[last].size = 0
    <3>1. End(list[last]) = 0 /\ list[j].offset \in Nat
      BY <1>5, <2>2
    <3>2. QED
      BY <1>19, <3>1
  <2>3. QED
    BY <1>1, <1>5, <2>1, <2>2
<1>10. Ordered(new)
  <2> SUFFICES ASSUME NEW i \in 1 .. Len(new), NEW j \in 1 .. Len(new),
                      i < j, new[i].size > 0, new[j].size > 0
               PROVE  End(new[i]) <= new[j].offset
    BY DEF Ordered
  <2>1. CASE i < first /\ j < first
    BY <1>7, <1>16, <2>1
  <2>2. CASE i < first /\ j = first
    BY <1>8, <1>16, <1>17, <2>2
  <2>3. CASE i < first /\ j > first
    <3>1. i < j + shift
      BY <1>4, <2>3
    <3>2. QED
      BY <1>7, <1>16, <1>18, <2>3, <3>1
  <2>4. CASE i = first /\ j > first
    BY <1>9, <1>17, <1>18, <2>4
  <2>5. CASE i > first /\ j > first
    <3>1. i + shift < j + shift
      BY <1>4, <2>5
    <3>2. QED
      BY <1>7, <1>18, <2>5, <3>1
  <2>6. QED
    BY <1>4, <2>1, <2>2, <2>3, <2>4, <2>5
<1>21. \A i \in 1 .. Len(new) :
         new[i] = merged \/ \E j \in 1 .. Len(list) : new[i] = list[j]
  BY <1>4, <1>16, <1>17, <1>18, SMTT(60)
<1>11. NullsAtZero(new)
  <2> SUFFICES ASSUME NEW i \in 1 .. Len(new), new[i].size = 0
               PROVE  new[i].offset = 0
    BY DEF NullsAtZero
  <2>1. CASE new[i] = merged
    BY <1>1, <1>5, <2>1
  <2>2. CASE \E j \in 1 .. Len(list) : new[i] = list[j]
    BY <1>5, <2>2
  <2>3. QED
    BY <1>21, <2>1, <2>2
<1>12. Inside(new)
  BY <1>4, <1>5, <1>19, <1>21 DEF Inside
<1>13. ASSUME NEW byte \in Nat
       PROVE  Has(new, byte) <=> Has(list, byte)
  <2>1. ASSUME NEW i \in 1 .. Len(new), In(byte, new[i])
        PROVE  \E j \in 1 .. Len(list) : In(byte, list[j])
    <3>1. CASE i < first
      BY <1>16, <2>1, <3>1
    <3>2. CASE i = first
      <4>1. PICK j \in first .. last : In(byte, list[j])
        BY <1>17, <1>20, <2>1, <3>2
      <4>2. QED
        BY <1>4, <4>1
    <3>3. CASE i > first
      BY <1>18, <2>1, <3>3
    <3>4. QED
      BY <1>4, <3>1, <3>2, <3>3
  <2>2. ASSUME NEW j \in 1 .. Len(list), In(byte, list[j])
        PROVE  \E i \in 1 .. Len(new) : In(byte, new[i])
    <3>1. CASE j < first
      <4>1. j \in 1 .. Len(new)
        BY <1>4, <3>1
      <4>2. QED
        BY <1>16, <2>2, <3>1, <4>1
    <3>2. CASE j \in first .. last
      <4>1. In(byte, merged) /\ first \in 1 .. Len(new)
        BY <1>4, <1>20, <2>2, <3>2
      <4>2. QED
        BY <1>17, <4>1
    <3>3. CASE j > last
      <4>1. j - shift \in 1 .. Len(new) /\ j - shift > first /\ (j - shift) + shift = j
        BY <1>4, <3>3
      <4>2. new[j - shift] = list[j]
        BY <1>18, <4>1
      <4>3. QED
        BY <2>2, <4>1, <4>2
    <3>4. QED
      BY <1>4, <3>1, <3>2, <3>3
  <2>3. QED
    BY <2>1, <2>2 DEF Has
<1>14. ASSUME TightAround(list, k)
       PROVE  Tight(new)
  <2>1. \A i \in 1 .. Len(list) : list[i].size > 0
    BY <1>14 DEF TightAround
  <2>2. \A i, j \in 1 .. Len(list) : i < j /\ i # k /\ j # k => End(list[i]) < list[j].offset
    BY <1>14 DEF TightAround
  <2>3. merged.size > 0
    BY <1>1, <2>1
  <2>9. /\ first = k => (k = 1 \/ End(list[k - 1]) # list[k].offset)
        /\ last = k => (k = Len(list) \/ End(list[k]) # list[k + 1].offset)
        /\ first \in {k - 1, k} /\ last \in {k, k + 1}
    BY <1>1
  <2>4. ASSUME NEW i \in 1 .. Len(list), i < first
        PROVE  End(list[i]) < merged.offset
    <3>1. CASE first = k - 1
      <4>1. i < k - 1 /\ i # k /\ k - 1 # k /\ k - 1 \in 1 .. Len(list)
        BY <1>4, <2>4, <3>1
      <4>2. QED
        BY <1>19, <2>2, <3>1, <4>1
    <3>2. CASE first = k
      <4>1. k > 1 /\ k - 1 \in 1 .. Len(list) /\ k - 1 < k
        BY <1>4, <2>4, <3>2
      <4>2. End(list[k - 1]) < merged.offset /\ End(list[k - 1]) \in Nat
        <5>1. End(list[k - 1]) <= list[k].offset /\ End(list[k - 1]) # list[k].offset
          BY <1>7, <2>1, <2>9, <3>2, <4>1
        <5>2. End(list[k - 1]) \in Nat /\ list[k].offset \in Nat
          BY <1>5, <4>1
        <5>3. QED
          BY <1>19, <3>2, <5>1, <5>2
      <4>3. CASE i = k - 1
        BY <4>2, <4>3
      <4>4. CASE i < k - 1
        <5>1. End(list[i]) < list[k - 1].offset
          BY <2>2, <4>1, <4>4
        <5>2. list[k - 1].offset <= End(list[k - 1])
          BY <1>5, <4>1
        <5>3. End(list[i]) \in Nat /\ list[k - 1].offset \in Nat /\ merged.offset \in Nat
          BY <1>5, <1>6, <4>1
        <5>4. QED
          BY <4>2, <5>1, <5>2, <5>3
      <4>5. QED
        BY <2>4, <3>2, <4>1, <4>3, <4>4
    <3>3. QED
      BY <2>9, <3>1, <3>2
  <2>5. ASSUME NEW j \in 1 .. Len(list), j > last
        PROVE  End(merged) < list[j].offset
    <3>1. CASE last = k + 1
      <4>1. k + 1 < j /\ j # k /\ k + 1 # k /\ k + 1 \in 1 .. Len(list)
        BY <1>4, <2>5, <3>1
      <4>2. QED
        BY <1>19, <2>2, <3>1, <4>1
    <3>2. CASE last = k
      <4>1. k < Len(list) /\ k + 1 \in 1 .. Len(list) /\ k < k + 1
        BY <1>4, <2>5, <3>2
      <4>2. End(merged) < list[k + 1].offset /\ list[k + 1].offset \in Nat
        <5>1. End(list[k]) <= list[k + 1].offset /\ End(list[k]) # list[k + 1].offset
          BY <1>7, <2>1, <2>9, <3>2, <4>1
        <5>2. End(list[k]) \in Nat /\ list[k + 1].offset \in Nat
          BY <1>5, <4>1
        <5>3. QED
          BY <1>19, <3>2, <5>1, <5>2
      <4>3. CASE j = k + 1
        BY <4>2, <4>3
      <4>4. CASE j > k + 1
        <5>1. End(list[k + 1]) < list[j].offset
          BY <2>2, <4>1, <4>4
        <5>2. list[k + 1].offset <= End(list[k + 1])
          BY <1>5, <4>1
        <5>3. list[j].offset \in Nat /\ End(list[k + 1]) \in Nat /\ End(merged) \in Nat
          <6>1. End(merged) \in Nat
            BY <1>6
          <6>2. QED
            BY <1>5, <4>1, <6>1
        <5>4. QED
          BY <4>2, <5>1, <5>2, <5>3, SMTT(60)
      <4>5. QED
        BY <2>5, <3>2, <4>1, <4>3, <4>4
    <3>3. QED
      BY <2>9, <3>1, <3>2
  <2>6. ASSUME NEW i \in 1 .. Len(new), NEW j \in 1 .. Len(new), i < j
        PROVE  End(new[i]) < new[j].offset
    <3>1. CASE i < first /\ j < first
      <4>1. /\ i \in 1 .. Len(list) /\ new[i] = list[i]
            /\ j \in 1 .. Len(list) /\ new[j] = list[j]
        BY <1>16, <3>1
      <4>2. End(list[i]) < list[j].offset
        <5>1. i < j /\ i # k /\ j # k
          BY <1>4, <2>6, <3>1
        <5>2. QED
          BY <2>2, <4>1, <5>1
      <4>3. QED
        BY <4>1, <4>2
    <3>2. CASE i < first /\ j = first
      BY <1>16, <1>17, <2>4, <3>2
    <3>3. CASE i < first /\ j > first
      <4>1. i < j + shift /\ i # k /\ j + shift # k
        BY <1>4, <3>3
      <4>2. QED
        BY <1>16, <1>18, <2>2, <3>3, <4>1
    <3>4. CASE i = first /\ j > first
      BY <1>17, <1>18, <2>5, <3>4
    <3>5. CASE i > first /\ j > first
      <4>1. i + shift < j + shift /\ i + shift # k /\ j + shift # k
        BY <1>4, <2>6, <3>5
      <4>2. QED
        BY <1>18, <2>2, <3>5, <4>1
    <3>6. QED
      BY <1>4, <2>6, <3>1, <3>2, <3>3, <3>4, <3>5
  <2>7. \A i \in 1 .. Len(new) : new[i].size > 0
    BY <1>21, <2>1, <2>3
  <2>8. QED
    BY <2>6, <2>7 DEF Tight
<1>15. QED
  BY <1>3, <1>10, <1>11, <1>12, <1>13, <1>14 DEF WellFormed, new

-----------------------------------------------------------------------------
(* A set of list positions has a first one: the loops over m_rdmaMem find  *)
(* what they look for if it is there.                                      *)
LEMMA FirstIndexExists ==
  ASSUME NEW I \in SUBSET Nat, I # {}
  PROVE  FirstIndex(I) \in I /\ \A j \in I : FirstIndex(I) <= j
<1> DEFINE R == OpToRel(<, Nat)
<1>1. \A x, y \in Nat : x < y => <<x, y>> \in R
  BY DEF OpToRel
<1>2. IsWellFoundedOn(R, Nat)
  BY NatLessThanWellFounded
<1> HIDE DEF R
<1>3. PICK x \in I : \A y \in I : ~ (<<y, x>> \in R)
  BY <1>2, WFMin
<1>4. \A y \in I : x <= y
  <2> TAKE y \in I
  <2>1. x \in Nat /\ y \in Nat
    OBVIOUS
  <2>2. ~ (y < x)
    BY <1>1, <1>3, <2>1, Zenon
  <2>3. QED
    BY <2>1, <2>2
<1>5. QED
  BY <1>4 DEF FirstIndex

(* The regions of a well-formed list, as numbers. *)
LEMMA RegionNumbers ==
  ASSUME NEW list, WellFormed(list), NEW i \in 1 .. Len(list)
  PROVE  /\ list[i] \in Region
         /\ list[i].offset \in Nat /\ list[i].size \in Nat
         /\ End(list[i]) = list[i].offset + list[i].size
         /\ End(list[i]) \in Nat
         /\ End(list[i]) <= MemSize
         /\ list[i].size = 0 => list[i].offset = 0
<1>1. list[i] \in Region
  BY DEF WellFormed
<1>2. list[i].offset \in Nat /\ list[i].size \in Nat
  BY <1>1 DEF Region
<1>3. End(list[i]) = list[i].offset + list[i].size
  BY DEF End
<1>4. QED
  BY <1>1, <1>2, <1>3 DEF WellFormed, NullsAtZero, Inside

-----------------------------------------------------------------------------
(* internalAlloc: the block it hands out and the list it leaves. *)
CutResult(list, new, block) ==
  /\ WellFormed(new)
  /\ \A byte \in Nat : Has(list, byte) <=> (Has(new, byte) \/ In(byte, block))
  /\ \A byte \in Nat : ~ (Has(new, byte) /\ In(byte, block))
  /\ Tight(list) => Tight(new)

LEMMA ShrinkRegion ==
  ASSUME NEW list, WellFormed(list), NEW i \in 1 .. Len(list),
         NEW size \in Nat, 0 < size, size < list[i].size,
         NEW rest, rest = [offset |-> list[i].offset + size, size |-> list[i].size - size],
         NEW block, block = [offset |-> list[i].offset, size |-> size]
  PROVE  CutResult(list, ReplaceAt(list, i, rest), block)
<1> DEFINE new == ReplaceAt(list, i, rest)
<1>1. list \in Seq(Region) /\ Len(list) \in Nat
  BY DEF WellFormed
<1>2. \A j \in 1 .. Len(list) :
         /\ list[j].offset \in Nat /\ list[j].size \in Nat
         /\ End(list[j]) = list[j].offset + list[j].size
         /\ End(list[j]) \in Nat /\ End(list[j]) <= MemSize
         /\ list[j].size = 0 => list[j].offset = 0
  BY RegionNumbers
<1>3. /\ rest.offset = list[i].offset + size /\ rest.size = list[i].size - size
      /\ rest.offset \in Nat /\ rest.size \in Nat /\ rest.size > 0
      /\ End(rest) = End(list[i])
      /\ rest \in Region
      /\ list[i].size > 0
  <2>1. /\ list[i].offset \in Nat /\ list[i].size \in Nat
        /\ End(list[i]) = list[i].offset + list[i].size
    BY <1>2
  <2>2. rest.offset = list[i].offset + size /\ rest.size = list[i].size - size
    OBVIOUS
  <2>3. rest.offset \in Nat /\ rest.size \in Nat /\ rest.size > 0 /\ list[i].size > 0
    BY <2>1, <2>2
  <2>4. rest \in Region
    <3>1. list[i].offset + size \in Nat /\ list[i].size - size \in Nat
      BY <2>1
    <3>2. QED
      BY <3>1 DEF Region
  <2>5. End(rest) = rest.offset + rest.size
    BY DEF End
  <2>6. QED
    BY <2>1, <2>2, <2>3, <2>4, <2>5, SMTT(60)
<1>4. /\ block.offset = list[i].offset /\ End(block) = list[i].offset + size
  BY DEF End
<1>5. /\ new \in Seq(Region) /\ Len(new) = Len(list) /\ new[i] = rest
      /\ \A j \in 1 .. Len(list) : j # i => new[j] = list[j]
  BY <1>1, <1>3 DEF ReplaceAt
<1> HIDE DEF new
<1>6. \A j, k \in 1 .. Len(list) :
        j < k /\ list[j].size > 0 /\ list[k].size > 0 => End(list[j]) <= list[k].offset
  BY DEF WellFormed, Ordered
<1>7. Ordered(new)
  <2> SUFFICES ASSUME NEW j \in 1 .. Len(list), NEW k \in 1 .. Len(list),
                      j < k, new[j].size > 0, new[k].size > 0
               PROVE  End(new[j]) <= new[k].offset
    BY <1>5 DEF Ordered
  <2>1. CASE j = i
    <3>1. new[j] = rest /\ new[k] = list[k] /\ list[i].size > 0
      BY <1>3, <1>5, <2>1
    <3>2. QED
      BY <1>3, <1>6, <2>1, <3>1
  <2>2. CASE k = i
    <3>1. new[k] = rest /\ new[j] = list[j] /\ list[i].size > 0
      BY <1>3, <1>5, <2>2
    <3>2. End(list[j]) <= list[i].offset
      BY <1>6, <2>2, <3>1
    <3>3. list[j].offset + list[j].size <= list[i].offset + size
      BY <1>2, <3>2
    <3>4. QED
      BY <1>2, <1>3, <3>1, <3>3
  <2>3. CASE j # i /\ k # i
    BY <1>5, <1>6, <2>3
  <2>4. QED
    BY <2>1, <2>2, <2>3
<1>8. WellFormed(new)
  <2>1. NullsAtZero(new)
    BY <1>2, <1>3, <1>5, SMTT(60) DEF NullsAtZero
  <2>2. Inside(new)
    BY <1>2, <1>3, <1>5 DEF Inside
  <2>3. QED
    BY <1>5, <1>7, <2>1, <2>2 DEF WellFormed
<1>9. ASSUME NEW byte \in Nat
      PROVE  In(byte, list[i]) <=> (In(byte, rest) \/ In(byte, block))
  BY <1>2, <1>3, <1>4, SMTT(60) DEF In
<1>10. ASSUME NEW byte \in Nat
       PROVE  Has(list, byte) <=> (Has(new, byte) \/ In(byte, block))
  BY <1>5, <1>9 DEF Has
<1>11. ASSUME NEW byte \in Nat, Has(new, byte), In(byte, block)
       PROVE  FALSE
  <2>1. PICK j \in 1 .. Len(list) : In(byte, new[j])
    BY <1>5, <1>11 DEF Has
  <2>2. list[i].offset <= byte /\ byte < list[i].offset + size
    BY <1>4, <1>11 DEF In
  <2>3. CASE j = i
    BY <1>2, <1>3, <1>5, <2>1, <2>2, <2>3 DEF In
  <2>4. CASE j # i
    <3>1. list[j].offset <= byte /\ byte < list[j].offset + list[j].size
      BY <1>2, <1>5, <2>1, <2>4 DEF In
    <3>2. list[j].size > 0 /\ list[i].size > 0
      <4>1. list[j].offset \in Nat /\ list[j].size \in Nat
        BY <1>2
      <4>2. QED
        BY <1>3, <3>1, <4>1
    <3>3. End(list[j]) <= list[i].offset \/ End(list[i]) <= list[j].offset
      BY <1>1, <1>6, <2>4, <3>2
    <3>4. /\ list[j].offset \in Nat /\ list[j].size \in Nat /\ list[i].offset \in Nat
          /\ list[i].size \in Nat
          /\ End(list[j]) = list[j].offset + list[j].size
          /\ End(list[i]) = list[i].offset + list[i].size
      BY <1>2
    <3>5. list[i].offset + size < End(list[i])
      BY <3>4
    <3>6. CASE End(list[j]) <= list[i].offset
      BY <2>2, <3>1, <3>4, <3>6, SMTT(60)
    <3>7. CASE End(list[i]) <= list[j].offset
      BY <2>2, <3>1, <3>4, <3>5, <3>7
    <3>8. QED
      BY <3>3, <3>6, <3>7
  <2>5. QED
    BY <2>3, <2>4
<1>12. ASSUME Tight(list)
       PROVE  Tight(new)
  <2>1. \A j \in 1 .. Len(list) : list[j].size > 0
    BY <1>12 DEF Tight
  <2>2. \A j, k \in 1 .. Len(list) : j < k => End(list[j]) < list[k].offset
    BY <1>12 DEF Tight
  <2>3. ASSUME NEW j \in 1 .. Len(list), NEW k \in 1 .. Len(list), j < k
        PROVE  End(new[j]) < new[k].offset
    <3>1. End(list[j]) < list[k].offset
      BY <2>2, <2>3
    <3>2. End(new[j]) = End(list[j])
      BY <1>3, <1>5
    <3>3. list[k].offset <= new[k].offset
      BY <1>2, <1>3, <1>5, SMTT(60)
    <3>4. new[k].offset \in Nat /\ list[k].offset \in Nat /\ End(list[j]) \in Nat
      BY <1>2, <1>3, <1>5
    <3>5. QED
      BY <3>1, <3>2, <3>3, <3>4
  <2>4. QED
    BY <1>3, <1>5, <2>1, <2>3 DEF Tight
<1>13. QED
  BY <1>8, <1>10, <1>11, <1>12 DEF CutResult, new

LEMMA DropRegion ==
  ASSUME NEW list, WellFormed(list), NEW i \in 1 .. Len(list), list[i].size > 0,
         NEW block, block = [offset |-> list[i].offset, size |-> list[i].size]
  PROVE  CutResult(list, RemoveAt(list, i), block)
<1> DEFINE new == RemoveAt(list, i)
           old(j) == IF j < i THEN j ELSE j + 1
<1>1. list \in Seq(Region) /\ Len(list) \in Nat
  BY DEF WellFormed
<1>2. \A j \in 1 .. Len(list) :
         /\ list[j].offset \in Nat /\ list[j].size \in Nat
         /\ End(list[j]) = list[j].offset + list[j].size
         /\ End(list[j]) \in Nat /\ End(list[j]) <= MemSize
         /\ list[j].size = 0 => list[j].offset = 0
  BY RegionNumbers
<1>3. /\ new \in Seq(Region) /\ Len(new) = Len(list) - 1
      /\ \A j \in 1 .. (i - 1) : new[j] = list[j]
      /\ \A j \in i .. (Len(list) - 1) : new[j] = list[j + 1]
  BY <1>1, RemoveAtElements
<1> HIDE DEF new
<1>4. \A j \in 1 .. Len(new) :
        old(j) \in 1 .. Len(list) /\ old(j) # i /\ new[j] = list[old(j)]
  BY <1>1, <1>3
<1>5. \A j \in 1 .. Len(list) : j # i => \E k \in 1 .. Len(new) : old(k) = j
  <2> SUFFICES ASSUME NEW j \in 1 .. Len(list), j # i
               PROVE  \E k \in 1 .. Len(new) : old(k) = j
    OBVIOUS
  <2>1. CASE j < i
    <3>1. j \in 1 .. Len(new) /\ old(j) = j
      BY <1>1, <1>3, <2>1
    <3>2. QED
      BY <3>1
  <2>2. CASE j > i
    <3>1. j - 1 \in 1 .. Len(new) /\ old(j - 1) = j
      BY <1>1, <1>3, <2>2
    <3>2. QED
      BY <3>1
  <2>3. QED
    BY <2>1, <2>2
<1>6. \A j, k \in 1 .. Len(new) : j < k => old(j) < old(k)
  BY <1>1, <1>3
<1> HIDE DEF old
<1>7. block.offset = list[i].offset /\ End(block) = End(list[i])
  BY <1>2 DEF End
<1>8. \A j, k \in 1 .. Len(list) :
        j < k /\ list[j].size > 0 /\ list[k].size > 0 => End(list[j]) <= list[k].offset
  BY DEF WellFormed, Ordered
<1>9. WellFormed(new)
  <2>1. Ordered(new)
    BY <1>4, <1>6, <1>8 DEF Ordered
  <2>2. NullsAtZero(new)
    BY <1>2, <1>4 DEF NullsAtZero
  <2>3. Inside(new)
    BY <1>2, <1>4 DEF Inside
  <2>4. QED
    BY <1>3, <2>1, <2>2, <2>3 DEF WellFormed
<1>10. ASSUME NEW byte \in Nat
       PROVE  Has(list, byte) <=> (Has(new, byte) \/ In(byte, block))
  <2>1. In(byte, block) <=> In(byte, list[i])
    BY <1>7 DEF In
  <2>2. ASSUME Has(list, byte), ~ In(byte, list[i])
        PROVE  Has(new, byte)
    <3>1. PICK j \in 1 .. Len(list) : In(byte, list[j])
      BY <2>2 DEF Has
    <3>2. PICK k \in 1 .. Len(new) : old(k) = j
      BY <1>5, <2>2, <3>1
    <3>3. QED
      BY <1>4, <3>1, <3>2 DEF Has
  <2>3. ASSUME Has(new, byte)
        PROVE  Has(list, byte)
    BY <1>4, <2>3 DEF Has
  <2>4. In(byte, list[i]) => Has(list, byte)
    BY DEF Has
  <2>5. QED
    BY <2>1, <2>2, <2>3, <2>4
<1>11. ASSUME NEW byte \in Nat, Has(new, byte), In(byte, block)
       PROVE  FALSE
  <2>1. PICK k \in 1 .. Len(new) : In(byte, new[k])
    BY <1>11 DEF Has
  <2>2. PICK j \in 1 .. Len(list) : j # i /\ In(byte, list[j])
    BY <1>4, <2>1
  <2>3. /\ list[j].offset <= byte /\ byte < End(list[j])
        /\ list[i].offset <= byte /\ byte < End(list[i])
    BY <1>7, <1>11, <2>2 DEF In
  <2>4. /\ list[j].offset \in Nat /\ list[j].size \in Nat /\ list[i].offset \in Nat
        /\ End(list[j]) \in Nat /\ End(list[i]) \in Nat
        /\ End(list[j]) = list[j].offset + list[j].size
    BY <1>2
  <2>5. list[j].size > 0
    BY <2>3, <2>4, SMTT(60)
  <2>6. End(list[j]) <= list[i].offset \/ End(list[i]) <= list[j].offset
    BY <1>1, <1>8, <2>2, <2>5
  <2>7. QED
    BY <2>3, <2>4, <2>6
<1>12. ASSUME Tight(list)
       PROVE  Tight(new)
  BY <1>4, <1>6, <1>12 DEF Tight
<1>13. QED
  BY <1>9, <1>10, <1>11, <1>12 DEF CutResult, new

-----------------------------------------------------------------------------
(* free: the list with a region inserted, before mergeFreeMem runs. *)
FitsAt(list, k, r) ==
  /\ r \in Region /\ End(r) <= MemSize /\ (r.size = 0 => r.offset = 0)
  /\ r.size > 0 => \A j \in 1 .. Len(list) :
       /\ j < k => End(list[j]) <= r.offset
       /\ j >= k /\ list[j].size > 0 => End(r) <= list[j].offset

InsertResult(list, new, k, r) ==
  /\ WellFormed(new) /\ k \in 1 .. Len(new)
  /\ \A byte \in Nat : Has(new, byte) <=> (Has(list, byte) \/ In(byte, r))
  /\ Tight(list) /\ r.size > 0 => TightAround(new, k)

LEMMA InsertKeepsOrder ==
  ASSUME NEW list, WellFormed(list), NEW k \in 1 .. (Len(list) + 1),
         NEW r, FitsAt(list, k, r)
  PROVE  InsertResult(list, InsertAt(list, k, r), k, r)
<1> DEFINE new == InsertAt(list, k, r)
           old(j) == IF j < k THEN j ELSE j - 1
<1>1. list \in Seq(Region) /\ Len(list) \in Nat /\ r \in Region
  BY DEF WellFormed, FitsAt
<1>2. \A j \in 1 .. Len(list) :
         /\ list[j].offset \in Nat /\ list[j].size \in Nat
         /\ End(list[j]) = list[j].offset + list[j].size
         /\ End(list[j]) \in Nat /\ End(list[j]) <= MemSize
         /\ list[j].size = 0 => list[j].offset = 0
  BY RegionNumbers
<1>3. /\ new \in Seq(Region) /\ Len(new) = Len(list) + 1
      /\ \A j \in 1 .. (k - 1) : new[j] = list[j]
      /\ new[k] = r
      /\ \A j \in (k + 1) .. (Len(list) + 1) : new[j] = list[j - 1]
  BY <1>1, InsertAtElements
<1> HIDE DEF new
<1>4. \A j \in 1 .. Len(new) : j # k =>
        /\ old(j) \in 1 .. Len(list) /\ new[j] = list[old(j)]
        /\ old(j) < k <=> j < k
  <2> SUFFICES ASSUME NEW j \in 1 .. Len(new), j # k
               PROVE  /\ old(j) \in 1 .. Len(list) /\ new[j] = list[old(j)]
                      /\ old(j) < k <=> j < k
    OBVIOUS
  <2>1. CASE j < k
    <3>1. old(j) = j /\ j \in 1 .. (k - 1) /\ j \in 1 .. Len(list)
      BY <1>1, <1>3, <2>1
    <3>2. QED
      BY <1>3, <2>1, <3>1
  <2>2. CASE j > k
    <3>1. old(j) = j - 1 /\ j \in (k + 1) .. (Len(list) + 1) /\ j - 1 \in 1 .. Len(list)
      BY <1>1, <1>3, <2>2
    <3>2. ~ (j - 1 < k) /\ ~ (j < k)
      BY <2>2, <3>1
    <3>3. QED
      BY <1>3, <3>1, <3>2
  <2>3. QED
    BY <1>3, <2>1, <2>2
<1>5. \A j \in 1 .. Len(list) : \E i \in 1 .. Len(new) : i # k /\ old(i) = j
  <2> SUFFICES ASSUME NEW j \in 1 .. Len(list)
               PROVE  \E i \in 1 .. Len(new) : i # k /\ old(i) = j
    OBVIOUS
  <2>1. CASE j < k
    <3>1. j \in 1 .. Len(new) /\ old(j) = j /\ j # k
      BY <1>1, <1>3, <2>1
    <3>2. QED
      BY <3>1
  <2>2. CASE j >= k
    <3>1. j + 1 \in 1 .. Len(new) /\ old(j + 1) = j /\ j + 1 # k
      BY <1>1, <1>3, <2>2
    <3>2. QED
      BY <3>1
  <2>3. QED
    BY <2>1, <2>2
<1>6. \A i, j \in 1 .. Len(new) : i # k /\ j # k /\ i < j => old(i) < old(j)
  BY <1>1, <1>3
<1>7. k \in 1 .. Len(new)
  BY <1>1, <1>3
<1> HIDE DEF old
<1>8. \A i, j \in 1 .. Len(list) :
        i < j /\ list[i].size > 0 /\ list[j].size > 0 => End(list[i]) <= list[j].offset
  BY DEF WellFormed, Ordered
<1>9. Ordered(new)
  <2> SUFFICES ASSUME NEW i \in 1 .. Len(new), NEW j \in 1 .. Len(new),
                      i < j, new[i].size > 0, new[j].size > 0
               PROVE  End(new[i]) <= new[j].offset
    BY DEF Ordered
  <2>1. CASE i = k
    <3>1. j # k /\ ~ (j < k) /\ old(j) \in 1 .. Len(list) /\ new[j] = list[old(j)]
      BY <1>4, <2>1
    <3>2. ~ (old(j) < k)
      BY <1>4, <3>1
    <3>3. QED
      BY <1>1, <1>3, <2>1, <3>1, <3>2 DEF FitsAt
  <2>2. CASE j = k
    <3>1. i < k /\ i # k
      BY <2>2
    <3>2. old(i) < k /\ old(i) \in 1 .. Len(list) /\ new[i] = list[old(i)]
      BY <1>4, <3>1
    <3>3. QED
      BY <1>3, <2>2, <3>2 DEF FitsAt
  <2>3. CASE i # k /\ j # k
    BY <1>4, <1>6, <1>8, <2>3
  <2>4. QED
    BY <2>1, <2>2, <2>3
<1>10. \A j \in 1 .. Len(new) : new[j] = r \/ \E i \in 1 .. Len(list) : new[j] = list[i]
  BY <1>3, <1>4
<1>11. WellFormed(new)
  <2>1. NullsAtZero(new)
    BY <1>2, <1>10 DEF NullsAtZero, FitsAt
  <2>2. Inside(new)
    BY <1>2, <1>10 DEF Inside, FitsAt
  <2>3. QED
    BY <1>3, <1>9, <2>1, <2>2 DEF WellFormed
<1>12. ASSUME NEW byte \in Nat
       PROVE  Has(new, byte) <=> (Has(list, byte) \/ In(byte, r))
  <2>1. Has(list, byte) => Has(new, byte)
    BY <1>4, <1>5 DEF Has
  <2>2. In(byte, r) => Has(new, byte)
    BY <1>3, <1>7 DEF Has
  <2>3. Has(new, byte) => Has(list, byte) \/ In(byte, r)
    BY <1>10 DEF Has
  <2>4. QED
    BY <2>1, <2>2, <2>3
<1>13. ASSUME Tight(list), r.size > 0
       PROVE  TightAround(new, k)
  <2>1. \A i \in 1 .. Len(new) : new[i].size > 0
    BY <1>10, <1>13 DEF Tight
  <2>2. ASSUME NEW i \in 1 .. Len(new), NEW j \in 1 .. Len(new), i < j, i # k, j # k
        PROVE  End(new[i]) < new[j].offset
    BY <1>4, <1>6, <1>13, <2>2 DEF Tight
  <2>3. QED
    BY <2>1, <2>2 DEF TightAround
<1>14. QED
  BY <1>7, <1>11, <1>12, <1>13 DEF InsertResult, new

(* The sum of sizes `lastOffset` never passes an offset that every region  *)
(* listed so far ends at or before.                                        *)
LEMMA LastOffsetBound ==
  ASSUME WellFormed(m_rdmaMem), NEW i \in 1 .. (Len(m_rdmaMem) + 1), NEW o \in Nat,
         \A j \in 1 .. (i - 1) : End(m_rdmaMem[j]) <= o
  PROVE  lastOffset(i) <= o
<1> DEFINE before == UNION {Bytes(m_rdmaMem[j]) : j \in 1 .. (i - 1)}
<1>1. before \subseteq 0 .. (o - 1)
  <2> SUFFICES ASSUME NEW j \in 1 .. (i - 1), NEW byte \in Bytes(m_rdmaMem[j])
               PROVE  byte \in 0 .. (o - 1)
    OBVIOUS
  <2>1. j \in 1 .. Len(m_rdmaMem)
    BY DEF WellFormed
  <2>2. m_rdmaMem[j].offset \in Nat /\ End(m_rdmaMem[j]) \in Nat
    BY <2>1, RegionNumbers
  <2>3. QED
    BY <2>2 DEF Bytes
<1>2. IsFiniteSet(0 .. (o - 1)) /\ Cardinality(0 .. (o - 1)) = o
  <2>1. IsFiniteSet(0 .. (o - 1))
    BY FS_Interval
  <2>2. Cardinality(0 .. (o - 1)) = IF 0 > o - 1 THEN 0 ELSE (o - 1) - 0 + 1
    BY FS_Interval
  <2>3. QED
    BY <2>1, <2>2
<1> HIDE DEF before
<1>3. Cardinality(before) <= o
  BY <1>1, <1>2, FS_Subset, ZenonT(60)
<1>4. QED
  BY <1>3 DEF lastOffset, before

(* A block that shares no byte with the list: free finds a place for it,   *)
(* and it is the right one.                                                *)
LEMMA InsertionPointFits ==
  ASSUME WellFormed(m_rdmaMem), NEW r \in Region, r.size > 0, End(r) <= MemSize,
         \A byte \in Nat : ~ (In(byte, r) /\ Has(m_rdmaMem, byte))
  PROVE  /\ InsertionPoints(r.offset) # {}
         /\ \A i \in InsertionPoints(r.offset) :
              i \in 1 .. (Len(m_rdmaMem) + 1) /\ FitsAt(m_rdmaMem, i, r)
<1> DEFINE list == m_rdmaMem
           o == r.offset
           Above == {j \in 1 .. Len(list) : o < list[j].offset}
<1>1. list \in Seq(Region) /\ Len(list) \in Nat /\ DOMAIN list = 1 .. Len(list)
  BY DEF WellFormed
<1>2. \A j \in 1 .. Len(list) :
         /\ list[j].offset \in Nat /\ list[j].size \in Nat
         /\ End(list[j]) = list[j].offset + list[j].size
         /\ End(list[j]) \in Nat /\ End(list[j]) <= MemSize
         /\ list[j].size = 0 => list[j].offset = 0
  BY RegionNumbers
<1>3. o \in Nat /\ r.size \in Nat /\ End(r) = o + r.size
  BY DEF Region, End
<1> HIDE DEF list, o
<1>4. ASSUME NEW j \in 1 .. Len(list), ~ (o < list[j].offset)
      PROVE  End(list[j]) <= o
  <2> SUFFICES ASSUME o < End(list[j])
               PROVE  FALSE
    BY <1>2, <1>3
  <2>1. In(o, list[j])
    BY <1>2, <1>3, <1>4 DEF In
  <2>2. In(o, r)
    <3>1. o <= o /\ o < End(r)
      BY <1>3
    <3>2. QED
      BY <3>1 DEF In, o
  <2>3. QED
    BY <1>3, <2>1, <2>2 DEF Has, list
<1>5. ASSUME NEW j \in 1 .. Len(list), o < list[j].offset
      PROVE  End(r) <= list[j].offset
  <2> SUFFICES ASSUME list[j].offset < End(r)
               PROVE  FALSE
    BY <1>2, <1>3
  <2>1. In(list[j].offset, r)
    <3>1. list[j].offset \in Nat /\ o <= list[j].offset
      BY <1>2, <1>3, <1>5
    <3>2. QED
      BY <3>1 DEF In, o
  <2>2. In(list[j].offset, list[j])
    BY <1>2, <1>3, <1>5, SMTT(60) DEF In
  <2>3. QED
    BY <1>2, <2>1, <2>2 DEF Has, list
<1>6. \A i \in StopsAt(o) : i \in Above
  BY <1>1 DEF StopsAt, list
<1>7. r \in Region /\ End(r) <= MemSize /\ (r.size = 0 => r.offset = 0)
  BY <1>3
<1>8. CASE Above # {}
  <2> DEFINE a == FirstIndex(Above)
  <2>1. a \in Above /\ \A j \in Above : a <= j
    <3>1. Above \in SUBSET Nat
      BY <1>1
    <3>2. QED
      BY <1>8, <3>1, FirstIndexExists
  <2> HIDE DEF a
  <2>2. a \in 1 .. Len(list) /\ o < list[a].offset
    BY <2>1
  <2>3. \A j \in 1 .. Len(list) : j < a => End(list[j]) <= o
    BY <1>1, <1>4, <2>1, <2>2
  <2>4. lastOffset(a) <= o
    <3>1. a \in 1 .. (Len(m_rdmaMem) + 1) /\ \A j \in 1 .. (a - 1) : End(m_rdmaMem[j]) <= o
      BY <1>1, <2>2, <2>3 DEF list
    <3>2. QED
      BY <1>3, <3>1, LastOffsetBound
  <2>5. a \in StopsAt(o)
    BY <1>1, <2>2, <2>4 DEF StopsAt, list
  <2>6. FirstIndex(StopsAt(o)) = a
    <3>1. StopsAt(o) \subseteq Nat
      BY <1>6
    <3>2. FirstIndex(StopsAt(o)) \in StopsAt(o)
          /\ \A j \in StopsAt(o) : FirstIndex(StopsAt(o)) <= j
      BY <2>5, <3>1, FirstIndexExists
    <3> DEFINE f == FirstIndex(StopsAt(o))
    <3>3. f <= a /\ a <= f /\ f \in Nat /\ a \in Nat
      BY <1>6, <2>1, <2>5, <3>1, <3>2
    <3> HIDE DEF f
    <3>4. f = a
      BY <3>3
    <3>5. QED
      BY <3>4 DEF f
  <2>7. InsertionPoints(o) = {a}
    BY <2>5, <2>6 DEF InsertionPoints
  <2>8. ASSUME NEW j \in 1 .. Len(list), j >= a, list[j].size > 0
        PROVE  End(r) <= list[j].offset
    <3>1. CASE j = a
      BY <1>5, <2>2, <3>1
    <3>2. CASE j > a
      <4>1. list[a].size > 0
        BY <1>2, <1>3, <2>2
      <4>2. End(list[a]) <= list[j].offset
        BY <2>2, <2>8, <3>2, <4>1 DEF WellFormed, Ordered, list
      <4>3. list[a].offset \in Nat /\ list[a].size \in Nat /\ list[j].offset \in Nat
            /\ End(list[a]) = list[a].offset + list[a].size
        BY <1>2, <2>2
      <4>4. o < list[j].offset
        BY <1>3, <2>2, <4>2, <4>3
      <4>5. QED
        BY <1>5, <4>4
    <3>3. QED
      BY <1>1, <2>2, <2>8, <3>1, <3>2
  <2>9. FitsAt(list, a, r)
    BY <1>7, <2>3, <2>8 DEF FitsAt, o
  <2>10. QED
    BY <1>1, <2>2, <2>7, <2>9 DEF o, list
<1>9. CASE Above = {}
  <2> DEFINE a == Len(list) + 1
  <2>1. \A j \in 1 .. Len(list) : End(list[j]) <= o
    BY <1>4, <1>9
  <2>2. lastOffset(a) <= o
    <3>1. a \in 1 .. (Len(m_rdmaMem) + 1) /\ \A j \in 1 .. (a - 1) : End(m_rdmaMem[j]) <= o
      BY <1>1, <2>1 DEF list
    <3>2. QED
      BY <1>3, <3>1, LastOffsetBound
  <2>3. StopsAt(o) = {}
    BY <1>6, <1>9
  <2>4. InsertionPoints(o) = {a}
    BY <2>2, <2>3 DEF InsertionPoints, list
  <2>5. FitsAt(list, a, r)
    BY <1>1, <1>7, <2>1 DEF FitsAt, o
  <2>6. QED
    BY <1>1, <2>4, <2>5 DEF o, list
<1>10. QED
  BY <1>8, <1>9

-----------------------------------------------------------------------------
(* Without zero-size requests: with them m_usedRdmaMem, keyed by the       *)
(* offset, mixes up the blocks that share one (run memory_zero_size).      *)
RealSizes == 0 \notin Sizes

Types ==
  /\ WellFormed(m_rdmaMem)
  /\ DOMAIN m_usedRdmaMem \subseteq Nat
  /\ \A o \in DOMAIN m_usedRdmaMem : m_usedRdmaMem[o] \in Nat
  /\ held \in [Handles -> Region \cup {NoBlock}]
  /\ result \in Results
  /\ stale \in BOOLEAN

(* A held block is recorded with its size, at its offset. *)
Recorded(h) ==
  /\ held[h].size > 0
  /\ End(held[h]) <= MemSize
  /\ held[h].offset \in DOMAIN m_usedRdmaMem
  /\ m_usedRdmaMem[held[h].offset] = held[h].size

AllRecorded == \A h \in Holding : Recorded(h)

HeldApart ==
  \A g, h \in Holding, byte \in Nat : In(byte, held[g]) /\ In(byte, held[h]) => g = h

FreeApart == \A h \in Holding, byte \in Nat : ~ (In(byte, held[h]) /\ Has(m_rdmaMem, byte))

Covered ==
  \A byte \in Nat :
    byte < MemSize => Has(m_rdmaMem, byte) \/ \E h \in Holding : In(byte, held[h])

IInv ==
  /\ Types
  /\ AllRecorded
  /\ HeldApart
  /\ FreeApart
  /\ Covered
  /\ ~ stale => Tight(m_rdmaMem)

-----------------------------------------------------------------------------
LEMMA HeldRegion ==
  ASSUME Types, NEW h \in Holding
  PROVE  h \in Handles /\ held[h] \in Region /\ held[h] # NoBlock
BY DEF Types, Holding

LEMMA InitInvariant == Init => IInv
<1> SUFFICES ASSUME Init PROVE IInv
  OBVIOUS
<1> DEFINE all == [offset |-> 0, size |-> MemSize]
<1>1. MemSize \in Nat /\ MemSize > 0
  BY MemSizeAssumption
<1>2. m_rdmaMem = <<all>> /\ all \in Region /\ all.offset = 0 /\ all.size = MemSize
  BY <1>1 DEF Init, Region
<1>3. End(all) = MemSize
  BY <1>1, <1>2 DEF End
<1> HIDE DEF all
<1>4. /\ m_rdmaMem \in Seq(Region) /\ Len(m_rdmaMem) = 1
      /\ \A i \in 1 .. Len(m_rdmaMem) : i = 1 /\ m_rdmaMem[i] = all
  BY <1>2
<1>5. Types
  <2>1. WellFormed(m_rdmaMem)
    BY <1>1, <1>2, <1>3, <1>4 DEF WellFormed, Ordered, NullsAtZero, Inside
  <2>2. QED
    BY <2>1 DEF Init, Types, Results
<1>6. Holding = {}
  BY DEF Init, Holding
<1>7. Covered
  <2> SUFFICES ASSUME NEW byte \in Nat, byte < MemSize
               PROVE  Has(m_rdmaMem, byte)
    BY DEF Covered
  <2>1. In(byte, all)
    BY <1>2, <1>3 DEF In
  <2>2. QED
    BY <1>4, <2>1 DEF Has
<1>8. Tight(m_rdmaMem)
  BY <1>1, <1>2, <1>4 DEF Tight
<1>9. QED
  BY <1>5, <1>6, <1>7, <1>8 DEF IInv, AllRecorded, HeldApart, FreeApart

(* The block Alloc hands out, and the list it leaves behind. *)
AllocBlock(size) == [offset |-> m_rdmaMem[FirstIndex(Fitting(size))].offset, size |-> size]

LEMMA AllocCuts ==
  ASSUME Types, NEW size \in Nat, size > 0, Fitting(size) # {}
  PROVE  LET i == FirstIndex(Fitting(size)) IN
         /\ i \in 1 .. Len(m_rdmaMem) /\ m_rdmaMem[i].size >= size
         /\ \A j \in Fitting(size) : i <= j
         /\ AllocBlock(size) \in Region
         /\ End(AllocBlock(size)) <= MemSize
         /\ CutResult(m_rdmaMem, CutFront(i, size), AllocBlock(size))
<1> DEFINE i == FirstIndex(Fitting(size))
<1>1. WellFormed(m_rdmaMem) /\ DOMAIN m_rdmaMem = 1 .. Len(m_rdmaMem)
      /\ Len(m_rdmaMem) \in Nat
  BY DEF Types, WellFormed
<1>2. i \in Fitting(size) /\ \A j \in Fitting(size) : i <= j
  <2>1. Fitting(size) \in SUBSET Nat
    BY <1>1 DEF Fitting
  <2>2. QED
    BY <2>1, FirstIndexExists
<1>3. AllocBlock(size) = [offset |-> m_rdmaMem[i].offset, size |-> size]
  BY DEF AllocBlock
<1> HIDE DEF i
<1>4. i \in 1 .. Len(m_rdmaMem) /\ m_rdmaMem[i].size >= size
  BY <1>1, <1>2 DEF Fitting
<1>5. /\ m_rdmaMem[i].offset \in Nat /\ m_rdmaMem[i].size \in Nat
      /\ End(m_rdmaMem[i]) = m_rdmaMem[i].offset + m_rdmaMem[i].size
      /\ End(m_rdmaMem[i]) <= MemSize
  BY <1>1, <1>4, RegionNumbers
<1>6. AllocBlock(size) \in Region
  BY <1>3, <1>5 DEF Region
<1>7. End(AllocBlock(size)) <= MemSize
  <2>1. End(AllocBlock(size)) = m_rdmaMem[i].offset + size
    BY <1>3 DEF End
  <2>2. QED
    BY <1>4, <1>5, <2>1, MemSizeAssumption
<1>8. CutResult(m_rdmaMem, CutFront(i, size), AllocBlock(size))
  <2>1. CASE m_rdmaMem[i].size > size
    <3> DEFINE rest == [offset |-> m_rdmaMem[i].offset + size,
                        size   |-> m_rdmaMem[i].size - size]
    <3>1. CutFront(i, size) = ReplaceAt(m_rdmaMem, i, rest)
      BY <2>1 DEF CutFront
    <3>2. CutResult(m_rdmaMem, ReplaceAt(m_rdmaMem, i, rest), AllocBlock(size))
      BY <1>1, <1>3, <1>4, <2>1, ShrinkRegion
    <3>3. QED
      BY <3>1, <3>2
  <2>2. CASE ~ (m_rdmaMem[i].size > size)
    <3>1. m_rdmaMem[i].size = size
      BY <1>4, <1>5, <2>2
    <3>2. CutFront(i, size) = RemoveAt(m_rdmaMem, i)
      BY <2>2 DEF CutFront
    <3>3. CutResult(m_rdmaMem, RemoveAt(m_rdmaMem, i), AllocBlock(size))
      BY <1>1, <1>3, <1>4, <3>1, DropRegion
    <3>4. QED
      BY <3>2, <3>3
  <2>3. QED
    BY <2>1, <2>2
<1>9. QED
  BY <1>2, <1>4, <1>6, <1>7, <1>8 DEF i

LEMMA AllocInvariant ==
  ASSUME IInv, RealSizes, NEW h \in Handles, NEW size \in Sizes, Alloc(h, size)
  PROVE  IInv'
<1> DEFINE i == FirstIndex(Fitting(size))
           block == AllocBlock(size)
<1>1. size \in Nat /\ size > 0
  BY SizesAssumption DEF RealSizes
<1>2. /\ Types /\ AllRecorded /\ HeldApart /\ FreeApart /\ Covered
      /\ ~ stale => Tight(m_rdmaMem)
  BY DEF IInv
<1>3. held[h] = NoBlock /\ Fitting(size) # {}
  BY DEF Alloc
<1>4. /\ i \in 1 .. Len(m_rdmaMem) /\ m_rdmaMem[i].size >= size
      /\ block \in Region /\ End(block) <= MemSize
      /\ CutResult(m_rdmaMem, CutFront(i, size), block)
  BY <1>1, <1>2, <1>3, AllocCuts
<1>5. block.offset = m_rdmaMem[i].offset /\ block.size = size
  BY DEF AllocBlock
<1>6. /\ m_rdmaMem' = CutFront(i, size)
      /\ m_usedRdmaMem' = Record(block.offset, size)
      /\ held' = [held EXCEPT ![h] = block]
      /\ result' = "ok"
  BY DEF Alloc, AllocBlock
<1> HIDE DEF i, block
<1>7. /\ WellFormed(m_rdmaMem')
      /\ \A byte \in Nat : Has(m_rdmaMem, byte) <=> (Has(m_rdmaMem', byte) \/ In(byte, block))
      /\ \A byte \in Nat : ~ (Has(m_rdmaMem', byte) /\ In(byte, block))
      /\ Tight(m_rdmaMem) => Tight(m_rdmaMem')
  BY <1>4, <1>6 DEF CutResult
<1>8. block.offset \in Nat /\ block.size \in Nat /\ End(block) = block.offset + block.size
  BY <1>4 DEF Region, End
<1>9. In(block.offset, block) /\ Has(m_rdmaMem, block.offset)
  <2>1. In(block.offset, block)
    BY <1>1, <1>5, <1>8 DEF In
  <2>2. QED
    BY <1>7, <1>8, <2>1
<1>10. /\ Holding' = Holding \cup {h} /\ h \notin Holding
       /\ held'[h] = block
       /\ \A g \in Holding : held'[g] = held[g] /\ g # h
  <2>1. held \in [Handles -> Region \cup {NoBlock}] /\ block # NoBlock
    BY <1>2, <1>4, NoBlockAssumption DEF Types
  <2>2. QED
    BY <1>3, <1>6, <2>1 DEF Holding
<1>11. \A g \in Holding, byte \in Nat : ~ (In(byte, held[g]) /\ In(byte, block))
  BY <1>2, <1>7 DEF FreeApart
<1>12. ASSUME NEW g \in Holding
       PROVE  held[g].offset # block.offset /\ Recorded(g)
  <2>1. held[g] \in Region /\ Recorded(g)
    BY <1>2, HeldRegion DEF AllRecorded
  <2>2. In(held[g].offset, held[g]) /\ held[g].offset \in Nat
    BY <2>1 DEF In, End, Region, Recorded
  <2>3. QED
    BY <1>9, <1>11, <2>1, <2>2
<1>13. Types'
  <2>1. DOMAIN m_usedRdmaMem' \subseteq Nat
        /\ \A o \in DOMAIN m_usedRdmaMem' : m_usedRdmaMem'[o] \in Nat
    BY <1>1, <1>2, <1>6, <1>8 DEF Types, Record
  <2>2. held' \in [Handles -> Region \cup {NoBlock}]
    BY <1>2, <1>4, <1>6 DEF Types
  <2>3. QED
    BY <1>2, <1>6, <1>7, <2>1, <2>2 DEF Types, Results, Alloc
<1>14. AllRecorded'
  <2> SUFFICES ASSUME NEW g \in Holding'
               PROVE  Recorded(g)'
    BY DEF AllRecorded
  <2>1. CASE g = h
    BY <1>1, <1>4, <1>5, <1>6, <1>10, <2>1 DEF Recorded, Record
  <2>2. CASE g # h
    <3>1. g \in Holding /\ held'[g] = held[g]
      BY <1>10, <2>2
    <3>2. held[g].offset # block.offset /\ Recorded(g)
      BY <1>12, <3>1
    <3>3. QED
      BY <1>6, <3>1, <3>2 DEF Recorded, Record
  <2>3. QED
    BY <2>1, <2>2
<1>15. HeldApart'
  BY <1>2, <1>10, <1>11 DEF HeldApart
<1>16. FreeApart'
  BY <1>2, <1>7, <1>10 DEF FreeApart
<1>17. Covered'
  BY <1>2, <1>7, <1>10 DEF Covered
<1>18. QED
  BY <1>2, <1>7, <1>13, <1>14, <1>15, <1>16, <1>17 DEF IInv, Alloc

-----------------------------------------------------------------------------
(* free leaves the list as it was, or adds the bytes of what was recorded. *)
LEMMA FreeAdds ==
  ASSUME NEW list, WellFormed(list), NEW k \in 1 .. (Len(list) + 1), NEW r, FitsAt(list, k, r)
  PROVE  LET new == mergeFreeMem(InsertAt(list, k, r), k) IN
         /\ WellFormed(new)
         /\ \A byte \in Nat : Has(new, byte) <=> (Has(list, byte) \/ In(byte, r))
         /\ Tight(list) /\ r.size > 0 => Tight(new)
<1> DEFINE inserted == InsertAt(list, k, r)
           new == mergeFreeMem(inserted, k)
<1>1. InsertResult(list, inserted, k, r)
  BY InsertKeepsOrder
<1> HIDE DEF inserted
<1>2. WellFormed(inserted) /\ k \in 1 .. Len(inserted)
  BY <1>1 DEF InsertResult
<1>3. /\ WellFormed(new)
      /\ \A byte \in Nat : Has(new, byte) <=> Has(inserted, byte)
      /\ TightAround(inserted, k) => Tight(new)
  BY <1>2, MergeKeepsOrder
<1> HIDE DEF new
<1>4. /\ WellFormed(new)
      /\ \A byte \in Nat : Has(new, byte) <=> (Has(list, byte) \/ In(byte, r))
      /\ Tight(list) /\ r.size > 0 => Tight(new)
  BY <1>1, <1>3 DEF InsertResult
<1>5. QED
  BY <1>4 DEF new, inserted

(* Freeing a held block: a place is found, and the list gets its bytes. *)
LEMMA FreeHeld ==
  ASSUME IInv, NEW h \in Handles, Free(h)
  PROVE  /\ h \in Holding
         /\ result' = "ok"
         /\ WellFormed(m_rdmaMem')
         /\ \A byte \in Nat : Has(m_rdmaMem', byte) <=>
                               (Has(m_rdmaMem, byte) \/ In(byte, held[h]))
         /\ Tight(m_rdmaMem) => Tight(m_rdmaMem')
<1> DEFINE r == held[h]
<1>1. h \in Holding /\ free(r.offset)
  BY DEF Free, Holding
<1>2. Types /\ r \in Region /\ Recorded(h) /\ WellFormed(m_rdmaMem)
  BY <1>1, HeldRegion DEF IInv, AllRecorded, Types
<1>3. r.size > 0 /\ End(r) <= MemSize
  BY <1>2 DEF Recorded
<1>4. \A byte \in Nat : ~ (In(byte, r) /\ Has(m_rdmaMem, byte))
  BY <1>1 DEF IInv, FreeApart
<1>5. Lookup(r.offset) = r
  <2>1. Lookup(r.offset) = [offset |-> r.offset, size |-> r.size]
    BY <1>2 DEF Lookup, Recorded
  <2>2. QED
    BY <1>2, <2>1 DEF Region
<1> HIDE DEF r
<1>6. /\ InsertionPoints(r.offset) # {}
      /\ \A i \in InsertionPoints(r.offset) :
            i \in 1 .. (Len(m_rdmaMem) + 1) /\ FitsAt(m_rdmaMem, i, r)
  BY <1>2, <1>3, <1>4, InsertionPointFits
<1>7. PICK i \in InsertionPoints(r.offset) :
        /\ m_rdmaMem' = mergeFreeMem(InsertAt(m_rdmaMem, i, r), i)
        /\ result' = "ok"
  BY <1>1, <1>5, <1>6 DEF free
<1>8. i \in 1 .. (Len(m_rdmaMem) + 1) /\ FitsAt(m_rdmaMem, i, r)
  BY <1>6
<1>9. /\ WellFormed(m_rdmaMem')
      /\ \A byte \in Nat : Has(m_rdmaMem', byte) <=> (Has(m_rdmaMem, byte) \/ In(byte, r))
      /\ Tight(m_rdmaMem) /\ r.size > 0 => Tight(m_rdmaMem')
  BY <1>2, <1>7, <1>8, FreeAdds
<1>10. QED
  BY <1>1, <1>3, <1>7, <1>9 DEF r

LEMMA FreeInvariant ==
  ASSUME IInv, NEW h \in Handles, Free(h)
  PROVE  IInv'
<1>1. /\ h \in Holding
      /\ result' = "ok"
      /\ WellFormed(m_rdmaMem')
      /\ \A byte \in Nat : Has(m_rdmaMem', byte) <=>
                            (Has(m_rdmaMem, byte) \/ In(byte, held[h]))
      /\ Tight(m_rdmaMem) => Tight(m_rdmaMem')
  BY FreeHeld
<1>2. /\ Types /\ AllRecorded /\ HeldApart /\ FreeApart /\ Covered
      /\ ~ stale => Tight(m_rdmaMem)
  BY DEF IInv
<1>3. /\ held' = [held EXCEPT ![h] = NoBlock]
      /\ m_usedRdmaMem' = [o \in DOMAIN m_usedRdmaMem \ {held[h].offset} |-> m_usedRdmaMem[o]]
  BY DEF Free, free
<1>4. /\ Holding' = Holding \ {h}
      /\ \A g \in Holding' : g \in Holding /\ g # h /\ held'[g] = held[g]
  BY <1>2, <1>3 DEF Holding, Types
<1>5. ASSUME NEW g \in Holding, g # h
      PROVE  held[g].offset # held[h].offset
  <2>1. held[g] \in Region /\ held[h] \in Region /\ held[g].size > 0 /\ held[h].size > 0
    BY <1>1, <1>2, HeldRegion DEF AllRecorded, Recorded
  <2>2. /\ held[g].offset \in Nat /\ In(held[g].offset, held[g])
        /\ held[h].offset \in Nat /\ In(held[h].offset, held[h])
    BY <2>1 DEF Region, In, End
  <2>3. QED
    BY <1>1, <1>2, <1>5, <2>2 DEF HeldApart
<1>6. Types'
  BY <1>1, <1>2, <1>3 DEF Types, Results, Free
<1>7. AllRecorded'
  BY <1>2, <1>3, <1>4, <1>5 DEF AllRecorded, Recorded
<1>8. HeldApart'
  BY <1>2, <1>4 DEF HeldApart
<1>9. FreeApart'
  <2> SUFFICES ASSUME NEW g \in Holding', NEW byte \in Nat, In(byte, held'[g]),
                      Has(m_rdmaMem', byte)
               PROVE  FALSE
    BY DEF FreeApart
  <2>1. g \in Holding /\ g # h /\ In(byte, held[g])
    BY <1>4
  <2>2. ~ Has(m_rdmaMem, byte) /\ ~ In(byte, held[h])
    BY <1>1, <1>2, <2>1 DEF FreeApart, HeldApart
  <2>3. QED
    BY <1>1, <2>2
<1>10. Covered'
  <2> SUFFICES ASSUME NEW byte \in Nat, byte < MemSize, ~ Has(m_rdmaMem', byte)
               PROVE  \E g \in Holding' : In(byte, held'[g])
    BY DEF Covered
  <2>1. ~ Has(m_rdmaMem, byte) /\ ~ In(byte, held[h])
    BY <1>1
  <2>2. PICK g \in Holding : In(byte, held[g])
    BY <1>2, <2>1 DEF Covered
  <2>3. g \in Holding'
    BY <1>4, <2>1, <2>2
  <2>4. QED
    BY <1>4, <2>2, <2>3
<1>11. QED
  BY <1>1, <1>2, <1>6, <1>7, <1>8, <1>9, <1>10 DEF IInv, Free

-----------------------------------------------------------------------------
(* An unknown offset puts at most a null record, without bytes, in the     *)
(* list; from then on neighbours may touch.                                *)
LEMMA NullRecord ==
  /\ NullRegion \in Region /\ NullRegion.offset = 0 /\ NullRegion.size = 0
  /\ End(NullRegion) = 0
  /\ \A byte \in Nat : ~ In(byte, NullRegion)
<1>1. NullRegion \in Region /\ NullRegion.offset = 0 /\ NullRegion.size = 0
  BY DEF NullRegion, Region
<1>2. End(NullRegion) = 0
  BY <1>1 DEF End
<1>3. QED
  BY <1>1, <1>2 DEF In

LEMMA NullFits ==
  ASSUME NEW list, NEW k
  PROVE  FitsAt(list, k, NullRegion)
<1>1. 0 <= MemSize
  BY MemSizeAssumption
<1>2. QED
  BY <1>1, NullRecord DEF FitsAt

LEMMA FreeUnknownInvariant ==
  ASSUME IInv, NEW offset \in 0 .. (MemSize - 1), FreeUnknown(offset)
  PROVE  IInv'
<1>1. /\ Types /\ AllRecorded /\ HeldApart /\ FreeApart /\ Covered
      /\ WellFormed(m_rdmaMem)
  BY DEF IInv, Types
<1>2. held' = held /\ offset \notin DOMAIN m_usedRdmaMem /\ free(offset)
  BY DEF FreeUnknown
<1>3. stale' = TRUE
  BY DEF FreeUnknown
<1>4. /\ DOMAIN m_usedRdmaMem' = DOMAIN m_usedRdmaMem
      /\ \A o \in DOMAIN m_usedRdmaMem : m_usedRdmaMem'[o] = m_usedRdmaMem[o]
  BY <1>2 DEF free
<1>5. Lookup(offset) = NullRegion
  BY <1>2 DEF Lookup
<1>6. /\ WellFormed(m_rdmaMem') /\ result' \in Results
      /\ \A byte \in Nat : Has(m_rdmaMem', byte) <=> Has(m_rdmaMem, byte)
  <2>1. CASE m_rdmaMem' = m_rdmaMem /\ result' = "nothingFreed"
    BY <1>1, <2>1 DEF Results
  <2>2. ASSUME NEW i \in InsertionPoints(offset),
               m_rdmaMem' = mergeFreeMem(InsertAt(m_rdmaMem, i, NullRegion), i),
               result' = "ok"
        PROVE  /\ WellFormed(m_rdmaMem') /\ result' \in Results
               /\ \A byte \in Nat : Has(m_rdmaMem', byte) <=> Has(m_rdmaMem, byte)
    <3>1. i \in 1 .. (Len(m_rdmaMem) + 1)
      <4>1. Len(m_rdmaMem) \in Nat /\ DOMAIN m_rdmaMem = 1 .. Len(m_rdmaMem)
        BY <1>1 DEF WellFormed
      <4>2. CASE StopsAt(offset) # {}
        <5>1. StopsAt(offset) \in SUBSET Nat
          BY <4>1 DEF StopsAt
        <5>2. FirstIndex(StopsAt(offset)) \in StopsAt(offset)
          BY <4>2, <5>1, FirstIndexExists
        <5>3. FirstIndex(StopsAt(offset)) \in 1 .. Len(m_rdmaMem)
          BY <4>1, <5>2 DEF StopsAt
        <5>4. QED
          BY <2>2, <4>1, <4>2, <5>3 DEF InsertionPoints
      <4>3. CASE StopsAt(offset) = {}
        <5>1. i = Len(m_rdmaMem) + 1
          BY <2>2, <4>3 DEF InsertionPoints
        <5>2. QED
          BY <4>1, <5>1
      <4>4. QED
        BY <4>2, <4>3
    <3>2. FitsAt(m_rdmaMem, i, NullRegion)
      BY NullFits
    <3>3. /\ WellFormed(m_rdmaMem')
          /\ \A byte \in Nat : Has(m_rdmaMem', byte) <=>
                                (Has(m_rdmaMem, byte) \/ In(byte, NullRegion))
      BY <1>1, <2>2, <3>1, <3>2, FreeAdds
    <3>4. QED
      BY <2>2, <3>3, NullRecord DEF Results
  <2>3. QED
    BY <1>2, <1>5, <2>1, <2>2 DEF free
<1>7. Holding' = Holding
  BY <1>2 DEF Holding
<1>8. Types'
  BY <1>1, <1>2, <1>3, <1>4, <1>6 DEF Types
<1>9. AllRecorded'
  BY <1>1, <1>2, <1>4, <1>7 DEF AllRecorded, Recorded
<1>10. HeldApart' /\ FreeApart' /\ Covered'
  BY <1>1, <1>2, <1>6, <1>7 DEF HeldApart, FreeApart, Covered
<1>11. QED
  BY <1>3, <1>8, <1>9, <1>10 DEF IInv

-----------------------------------------------------------------------------
LEMMA StepInvariant ==
  ASSUME IInv, RealSizes, [Next]_vars
  PROVE  IInv'
<1>1. ASSUME NEW h \in Handles, NEW size \in Sizes, Alloc(h, size)
      PROVE  IInv'
  BY <1>1, AllocInvariant
<1>2. ASSUME NEW h \in Handles, NEW size \in Sizes, AllocFails(h, size)
      PROVE  IInv'
  BY <1>2 DEF AllocFails, IInv, Types, Results, AllRecorded, Recorded, HeldApart, FreeApart,
              Covered, Holding
<1>3. ASSUME NEW h \in Handles, Free(h)
      PROVE  IInv'
  BY <1>3, FreeInvariant
<1>4. ASSUME NEW offset \in 0 .. (MemSize - 1), FreeUnknown(offset)
      PROVE  IInv'
  BY <1>4, FreeUnknownInvariant
<1>5. CASE UNCHANGED vars
  BY <1>5 DEF vars, IInv, Types, AllRecorded, Recorded, HeldApart, FreeApart, Covered, Holding
<1>6. QED
  BY <1>1, <1>2, <1>3, <1>4, <1>5 DEF Next

(* The allocator's inductive invariant holds throughout. *)
THEOREM Invariance ==
  ASSUME RealSizes
  PROVE  Spec => []IInv
<1>1. Init => IInv
  BY InitInvariant
<1>2. IInv /\ [Next]_vars => IInv'
  BY StepInvariant
<1>3. QED
  BY <1>1, <1>2, PTL DEF Spec

-----------------------------------------------------------------------------
(* What the invariant says of the state, in BaseMemory's terms. *)
LEMMA BytesOf ==
  ASSUME NEW r \in Region
  PROVE  \A byte : byte \in Bytes(r) <=> byte \in Nat /\ In(byte, r)
<1>1. r.offset \in Nat /\ End(r) \in Nat
  BY DEF Region, End
<1>2. QED
  BY <1>1 DEF Bytes, In

LEMMA InvariantImplies ==
  ASSUME IInv
  PROVE  /\ TypeOK /\ BlocksDisjoint /\ NoByteLost /\ FreeListOrdered
         /\ FreeListCoalesced
<1>1. /\ Types /\ AllRecorded /\ HeldApart /\ FreeApart /\ Covered
      /\ ~ stale => Tight(m_rdmaMem)
  BY DEF IInv
<1>2. /\ WellFormed(m_rdmaMem) /\ m_rdmaMem \in Seq(Region)
      /\ DOMAIN m_rdmaMem = 1 .. Len(m_rdmaMem) /\ Len(m_rdmaMem) \in Nat
  BY <1>1 DEF Types, WellFormed
<1>3. \A h \in Holding : held[h] \in Region
  BY <1>1, HeldRegion
<1>4. TypeOK
  BY <1>1, <1>2 DEF TypeOK, Types
<1>5. \A byte : byte \in FreeBytes <=> byte \in Nat /\ Has(m_rdmaMem, byte)
  <2>1. \A i \in 1 .. Len(m_rdmaMem) : \A byte :
          byte \in Bytes(m_rdmaMem[i]) <=> byte \in Nat /\ In(byte, m_rdmaMem[i])
    BY <1>2, BytesOf
  <2>2. QED
    BY <1>2, <2>1 DEF FreeBytes, Has
<1>6. \A byte : byte \in HeldBytes <=> byte \in Nat /\ \E h \in Holding : In(byte, held[h])
  <2>1. \A h \in Holding : \A byte :
          byte \in Bytes(held[h]) <=> byte \in Nat /\ In(byte, held[h])
    BY <1>3, BytesOf
  <2>2. QED
    BY <2>1 DEF HeldBytes
<1>7. BlocksDisjoint
  <2>1. ASSUME NEW g \in Holding, NEW h \in Holding, g # h
        PROVE  Bytes(held[g]) \cap Bytes(held[h]) = {}
    <3>1. /\ \A byte : byte \in Bytes(held[g]) <=> byte \in Nat /\ In(byte, held[g])
          /\ \A byte : byte \in Bytes(held[h]) <=> byte \in Nat /\ In(byte, held[h])
      BY <1>3, BytesOf
    <3>2. QED
      BY <1>1, <2>1, <3>1 DEF HeldApart
  <2>2. HeldBytes \cap FreeBytes = {}
    BY <1>1, <1>5, <1>6 DEF FreeApart
  <2>3. QED
    BY <2>1, <2>2 DEF BlocksDisjoint
<1>8. NoByteLost
  <2>1. ASSUME NEW byte \in FreeBytes \cup HeldBytes
        PROVE  byte \in 0 .. (MemSize - 1)
    <3>1. CASE byte \in FreeBytes
      <4>1. PICK i \in 1 .. Len(m_rdmaMem) : byte \in Nat /\ In(byte, m_rdmaMem[i])
        BY <1>5, <3>1 DEF Has
      <4>2. End(m_rdmaMem[i]) \in Nat /\ End(m_rdmaMem[i]) <= MemSize
        BY <1>2, RegionNumbers
      <4>3. QED
        BY <4>1, <4>2, MemSizeAssumption DEF In
    <3>2. CASE byte \in HeldBytes
      <4>1. PICK h \in Holding : byte \in Nat /\ In(byte, held[h])
        BY <1>6, <3>2
      <4>2. End(held[h]) \in Nat /\ End(held[h]) <= MemSize
        BY <1>1, <1>3 DEF AllRecorded, Recorded, End, Region
      <4>3. QED
        BY <4>1, <4>2, MemSizeAssumption DEF In
    <3>3. QED
      BY <3>1, <3>2
  <2>2. ASSUME NEW byte \in 0 .. (MemSize - 1)
        PROVE  byte \in FreeBytes \cup HeldBytes
    <3>1. byte \in Nat /\ byte < MemSize
      BY MemSizeAssumption
    <3>2. QED
      BY <1>1, <1>5, <1>6, <3>1 DEF Covered
  <2>3. QED
    BY <2>1, <2>2 DEF NoByteLost
<1>9. FreeListOrdered
  BY <1>2 DEF FreeListOrdered, WellFormed, Ordered
<1>10. ASSUME ~ stale => Tight(m_rdmaMem)
       PROVE  FreeListCoalesced
  <2> SUFFICES ASSUME Tight(m_rdmaMem),
                      NEW i \in 1 .. Len(m_rdmaMem), NEW j \in 1 .. Len(m_rdmaMem), i # j,
                      End(m_rdmaMem[i]) = m_rdmaMem[j].offset
               PROVE  FALSE
    BY <1>2, <1>10 DEF FreeListCoalesced
  <2>1. /\ m_rdmaMem[i].offset \in Nat /\ m_rdmaMem[i].size \in Nat
        /\ m_rdmaMem[j].offset \in Nat /\ m_rdmaMem[j].size \in Nat
        /\ End(m_rdmaMem[i]) = m_rdmaMem[i].offset + m_rdmaMem[i].size
        /\ End(m_rdmaMem[j]) = m_rdmaMem[j].offset + m_rdmaMem[j].size
    BY <1>2, RegionNumbers
  <2>2. m_rdmaMem[i].size > 0 /\ m_rdmaMem[j].size > 0
    BY DEF Tight
  <2>3. CASE i < j
    <3>1. End(m_rdmaMem[i]) < m_rdmaMem[j].offset
      BY <2>3 DEF Tight
    <3>2. QED
      BY <2>1, <3>1
  <2>4. CASE j < i
    <3>1. End(m_rdmaMem[j]) < m_rdmaMem[i].offset
      BY <2>4 DEF Tight
    <3>2. m_rdmaMem[j].offset + m_rdmaMem[j].size < m_rdmaMem[i].offset
      BY <2>1, <3>1
    <3>3. m_rdmaMem[i].offset + m_rdmaMem[i].size = m_rdmaMem[j].offset
      BY <2>1
    <3>4. QED
      BY <2>1, <3>2, <3>3
  <2>5. QED
    BY <1>2, <2>3, <2>4
<1>11. QED
  BY <1>1, <1>4, <1>7, <1>8, <1>9, <1>10

(* Type correctness. *)
THEOREM TypeCorrect ==
  ASSUME RealSizes
  PROVE  Spec => []TypeOK
<1>1. IInv => TypeOK
  BY InvariantImplies
<1>2. QED
  BY <1>1, Invariance, PTL

(* No byte has two owners, whatever the order of allocs and frees, and     *)
(* even while stale frees leave null records in the list (internalAlloc).  *)
THEOREM OneOwner ==
  ASSUME RealSizes
  PROVE  Spec => []BlocksDisjoint
<1>1. IInv => BlocksDisjoint
  BY InvariantImplies
<1>2. QED
  BY <1>1, Invariance, PTL

(* Every byte of the buffer stays free or held (internalAlloc, free). *)
THEOREM Conservation ==
  ASSUME RealSizes
  PROVE  Spec => []NoByteLost
<1>1. IInv => NoByteLost
  BY InvariantImplies
<1>2. QED
  BY <1>1, Invariance, PTL

(* The free list stays sorted by address (free). *)
THEOREM SortedList ==
  ASSUME RealSizes
  PROVE  Spec => []FreeListOrdered
<1>1. IInv => FreeListOrdered
  BY InvariantImplies
<1>2. QED
  BY <1>1, Invariance, PTL

(* Up to the first stale free no two free regions touch (mergeFreeMem). *)
THEOREM Coalesced ==
  ASSUME RealSizes
  PROVE  Spec => []FreeListCoalesced
<1>1. IInv => FreeListCoalesced
  BY InvariantImplies
<1>2. QED
  BY <1>1, Invariance, PTL

(* The scan of free finds a place for every block that is held. *)
THEOREM HeldBlocksCanBeFreed ==
  ASSUME RealSizes
  PROVE  Spec => FreeingHeldSucceeds
<1>1. IInv /\ [Next]_vars => [\A h \in Handles : Free(h) => result' = "ok"]_vars
  BY FreeHeld
<1>2. QED
  BY <1>1, Invariance, PTL DEF Spec, FreeingHeldSucceeds

-----------------------------------------------------------------------------
(* Refinement: the list against the gaps between held blocks. *)

(* Free bytes in a row lie in one region of a tight list. *)
LEMMA RunInOneRegion ==
  ASSUME NEW list, WellFormed(list), Tight(list), NEW o \in Nat, NEW n \in Nat, n > 0,
         \A byte \in o .. (o + n - 1) : Has(list, byte)
  PROVE  \E j \in 1 .. Len(list) : list[j].offset <= o /\ o + n <= End(list[j])
<1>1. Len(list) \in Nat
  BY DEF WellFormed
<1>2. PICK j \in 1 .. Len(list) : In(o, list[j])
  <2>1. o \in o .. (o + n - 1)
    OBVIOUS
  <2>2. QED
    BY <2>1 DEF Has
<1>3. /\ list[j].offset \in Nat /\ End(list[j]) \in Nat
      /\ list[j].offset <= o /\ o < End(list[j])
  BY <1>2, RegionNumbers DEF In
<1>4. ASSUME End(list[j]) < o + n
      PROVE  FALSE
  <2> DEFINE next == End(list[j])
  <2>1. next \in o .. (o + n - 1)
    BY <1>3, <1>4
  <2>2. PICK k \in 1 .. Len(list) : In(next, list[k])
    BY <2>1 DEF Has
  <2>3. /\ list[k].offset \in Nat /\ End(list[k]) \in Nat
        /\ list[k].offset <= next /\ next < End(list[k])
    BY <2>2, RegionNumbers DEF In
  <2>4. CASE j < k
    <3>1. next < list[k].offset
      BY <2>4 DEF Tight
    <3>2. QED
      BY <1>3, <2>3, <3>1
  <2>5. CASE k < j
    <3>1. End(list[k]) < list[j].offset
      BY <2>5 DEF Tight
    <3>2. QED
      BY <1>3, <2>3, <3>1
  <2>6. CASE k = j
    BY <2>3, <2>6
  <2>7. QED
    BY <1>1, <2>4, <2>5, <2>6
<1>5. QED
  BY <1>3, <1>4

(* The gaps between held blocks are the runs inside the listed regions. *)
LEMMA GapsAreRegions ==
  ASSUME IInv, Tight(m_rdmaMem), NEW size \in Nat, size > 0, NEW o \in Nat
  PROVE  o \in Regions!Gaps(size) <=>
           \E j \in 1 .. Len(m_rdmaMem) :
              m_rdmaMem[j].offset <= o /\ o + size <= End(m_rdmaMem[j])
<1>1. Types /\ AllRecorded /\ FreeApart /\ Covered /\ WellFormed(m_rdmaMem)
  BY DEF IInv, Types
<1>2. MemSize \in Nat
  BY MemSizeAssumption
<1>3. \A h \in Holding : \A byte : Regions!Covers(held[h], byte) <=> In(byte, held[h])
  BY DEF Regions!Covers, In, End
<1>4. Regions!Holding = Holding
  BY DEF Regions!Holding, Holding
<1>5. ASSUME o \in Regions!Gaps(size)
      PROVE  \E j \in 1 .. Len(m_rdmaMem) :
               m_rdmaMem[j].offset <= o /\ o + size <= End(m_rdmaMem[j])
  <2>1. /\ o + size <= MemSize
        /\ \A byte \in o .. (o + size - 1), h \in Holding : ~ In(byte, held[h])
    BY <1>3, <1>4, <1>5 DEF Regions!Gaps, Regions!Gap
  <2>2. ASSUME NEW byte \in o .. (o + size - 1)
        PROVE  Has(m_rdmaMem, byte)
    <3>1. byte \in Nat /\ byte < MemSize
      BY <1>2, <2>1
    <3>2. QED
      BY <1>1, <2>1, <3>1 DEF Covered
  <2>3. QED
    BY <1>1, <2>2, RunInOneRegion
<1>6. ASSUME NEW j \in 1 .. Len(m_rdmaMem),
             m_rdmaMem[j].offset <= o, o + size <= End(m_rdmaMem[j])
      PROVE  o \in Regions!Gaps(size)
  <2>1. /\ m_rdmaMem[j].offset \in Nat /\ End(m_rdmaMem[j]) \in Nat
        /\ End(m_rdmaMem[j]) <= MemSize
    BY <1>1, RegionNumbers
  <2>2. o + size <= MemSize /\ o \in 0 .. (MemSize - 1)
    BY <1>2, <1>6, <2>1
  <2>3. ASSUME NEW byte \in o .. (o + size - 1), NEW h \in Holding
        PROVE  ~ In(byte, held[h])
    <3>1. byte \in Nat /\ m_rdmaMem[j].offset <= byte /\ byte < End(m_rdmaMem[j])
      BY <1>6, <2>1
    <3>2. Has(m_rdmaMem, byte)
      BY <3>1 DEF Has, In
    <3>3. QED
      BY <1>1, <3>1, <3>2 DEF FreeApart
  <2>4. QED
    BY <1>3, <1>4, <2>2, <2>3 DEF Regions!Gaps, Regions!Gap
<1>7. QED
  BY <1>5, <1>6

LEMMA RefinesAlloc ==
  ASSUME IInv, Tight(m_rdmaMem), RealSizes, NEW h \in Handles, NEW size \in Sizes,
         Alloc(h, size)
  PROVE  Regions!Alloc(h, size)
<1> DEFINE i == FirstIndex(Fitting(size))
           o == m_rdmaMem[i].offset
<1>1. size \in Nat /\ size > 0
  BY SizesAssumption DEF RealSizes
<1>2. Types /\ WellFormed(m_rdmaMem) /\ Len(m_rdmaMem) \in Nat
      /\ DOMAIN m_rdmaMem = 1 .. Len(m_rdmaMem)
  BY DEF IInv, Types, WellFormed
<1>3. Fitting(size) # {} /\ held[h] = NoBlock
  BY DEF Alloc
<1>4. /\ i \in 1 .. Len(m_rdmaMem) /\ m_rdmaMem[i].size >= size
      /\ \A j \in Fitting(size) : i <= j
  BY <1>1, <1>2, <1>3, AllocCuts
<1>5. held' = [held EXCEPT ![h] = [offset |-> o, size |-> size]] /\ result' = "ok"
  BY DEF Alloc
<1> HIDE DEF i, o
<1>6. \A j \in 1 .. Len(m_rdmaMem) :
         /\ m_rdmaMem[j].offset \in Nat /\ m_rdmaMem[j].size \in Nat
         /\ End(m_rdmaMem[j]) = m_rdmaMem[j].offset + m_rdmaMem[j].size
         /\ End(m_rdmaMem[j]) \in Nat
  BY <1>2, RegionNumbers
<1>7. o \in Regions!Gaps(size)
  <2>1. o \in Nat /\ m_rdmaMem[i].offset <= o /\ o + size <= End(m_rdmaMem[i])
    <3>1. /\ m_rdmaMem[i].offset \in Nat /\ m_rdmaMem[i].size \in Nat
          /\ End(m_rdmaMem[i]) = m_rdmaMem[i].offset + m_rdmaMem[i].size
      BY <1>4, <1>6
    <3>2. QED
      BY <1>1, <1>4, <3>1 DEF o
  <2>2. QED
    BY <1>1, <1>4, <2>1, GapsAreRegions
<1>8. ASSUME NEW lower \in Regions!Gaps(size)
      PROVE  o <= lower
  <2>1. lower \in Nat
    BY <1>8, MemSizeAssumption DEF Regions!Gaps
  <2>2. PICK j \in 1 .. Len(m_rdmaMem) :
          m_rdmaMem[j].offset <= lower /\ lower + size <= End(m_rdmaMem[j])
    BY <1>1, <1>8, <2>1, GapsAreRegions
  <2>3. /\ m_rdmaMem[j].offset \in Nat /\ m_rdmaMem[j].size \in Nat
        /\ End(m_rdmaMem[j]) = m_rdmaMem[j].offset + m_rdmaMem[j].size
    BY <1>6
  <2>4. m_rdmaMem[j].size >= size
    BY <1>1, <2>1, <2>2, <2>3
  <2>5. i <= j
    BY <1>2, <1>4, <2>4 DEF Fitting
  <2>6. CASE i = j
    BY <2>2, <2>6 DEF o
  <2>7. CASE i < j
    <3>1. End(m_rdmaMem[i]) < m_rdmaMem[j].offset
      BY <1>4, <2>7 DEF Tight
    <3>2. /\ o \in Nat /\ m_rdmaMem[i].size \in Nat
          /\ End(m_rdmaMem[i]) = o + m_rdmaMem[i].size
      BY <1>4, <1>6 DEF o
    <3>3. QED
      BY <2>1, <2>2, <2>3, <3>1, <3>2
  <2>8. QED
    BY <1>2, <1>4, <2>5, <2>6, <2>7
<1>9. QED
  BY <1>3, <1>5, <1>7, <1>8 DEF Regions!Alloc

LEMMA RefinesAllocFails ==
  ASSUME IInv, Tight(m_rdmaMem), RealSizes, NEW h \in Handles, NEW size \in Sizes,
         AllocFails(h, size)
  PROVE  Regions!AllocFails(h, size)
<1>1. size \in Nat /\ size > 0
  BY SizesAssumption DEF RealSizes
<1>2. WellFormed(m_rdmaMem) /\ DOMAIN m_rdmaMem = 1 .. Len(m_rdmaMem)
  BY DEF IInv, Types, WellFormed
<1>3. ASSUME NEW o \in Regions!Gaps(size)
      PROVE  FALSE
  <2>1. o \in Nat
    BY <1>3, MemSizeAssumption DEF Regions!Gaps
  <2>2. PICK j \in 1 .. Len(m_rdmaMem) :
          m_rdmaMem[j].offset <= o /\ o + size <= End(m_rdmaMem[j])
    BY <1>1, <1>3, <2>1, GapsAreRegions
  <2>3. /\ m_rdmaMem[j].offset \in Nat /\ m_rdmaMem[j].size \in Nat
        /\ End(m_rdmaMem[j]) = m_rdmaMem[j].offset + m_rdmaMem[j].size
    BY <1>2, RegionNumbers
  <2>4. m_rdmaMem[j].size >= size
    BY <1>1, <2>1, <2>2, <2>3
  <2>5. j \in Fitting(size)
    BY <1>2, <2>4 DEF Fitting
  <2>6. QED
    BY <2>5 DEF AllocFails
<1>4. QED
  BY <1>3 DEF AllocFails, Regions!AllocFails

(* The free list implements the gaps up to the first stale free: first fit *)
(* hands out the lowest gap, refuses only when there is none, and every    *)
(* free succeeds.                                                          *)
THEOREM ImplementsRegions ==
  ASSUME RealSizes
  PROVE  Spec => RegionsSpec
<1>1. Init => Regions!Init
  BY DEF Init, Regions!Init
<1>2. IInv /\ [Next]_vars => [~ stale' => Regions!Next]_(Regions!vars)
  <2> SUFFICES ASSUME IInv, Next, ~ stale'
               PROVE  Regions!Next
    BY DEF vars, Regions!vars
  <2>1. /\ \A offset \in 0 .. (MemSize - 1) : ~ FreeUnknown(offset)
        /\ ~ stale
    BY DEF Next, Alloc, AllocFails, Free, FreeUnknown
  <2>2. Tight(m_rdmaMem)
    BY <2>1 DEF IInv
  <2>3. ASSUME NEW h \in Handles, NEW size \in Sizes, Alloc(h, size)
        PROVE  Regions!Next
    BY <2>2, <2>3, RefinesAlloc DEF Regions!Next
  <2>4. ASSUME NEW h \in Handles, NEW size \in Sizes, AllocFails(h, size)
        PROVE  Regions!Next
    BY <2>2, <2>4, RefinesAllocFails DEF Regions!Next
  <2>5. ASSUME NEW h \in Handles, Free(h)
        PROVE  Regions!Next
    <3>1. Regions!Free(h)
      BY <2>5, FreeHeld DEF Free, Regions!Free
    <3>2. QED
      BY <3>1 DEF Regions!Next
  <2>6. QED
    BY <2>1, <2>3, <2>4, <2>5 DEF Next
<1>3. QED
  BY <1>1, <1>2, Invariance, PTL DEF Spec, RegionsSpec
=============================================================================
