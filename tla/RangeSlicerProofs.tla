-------------------------- MODULE RangeSlicerProofs --------------------------
(***************************************************************************)
(* Proofs about RangeSlicer, for every number of ranges, every largest key *)
(* and every sequence of keys.                                             *)
(*                                                                         *)
(* The loop invariant SlicerInv: the first loop has found the cuts up to   *)
(* CutTo, the second one has filled the slices below CopiedTo.             *)
(***************************************************************************)
EXTENDS RangeSlicer, SequenceTheorems, TLAPS

CutTo    == IF stage = "cut" THEN part ELSE RangeCount
CopiedTo == IF stage = "cut" THEN 0 ELSE IF stage = "copy" THEN part ELSE RangeCount

CutsInOrder ==
  /\ pos[0] = 0
  /\ \A i \in 0..(CutTo - 1) : pos[i] <= pos[i + 1]

CutsCover ==
  \A j \in 1..pos[CutTo] : \E i \in 0..(CutTo - 1) : pos[i] < j /\ j <= pos[i + 1]

CutsSeparate ==
  Sorted(keys) =>
    \A i \in 0..(CutTo - 1) : \A j \in 1..Len(keys) :
      j <= pos[i + 1] <=> keys[j] < RangeEnd(i)

Copied ==
  \A i \in Parts :
    slices[i] = IF i < CopiedTo THEN CopySlice(i) ELSE <<>>

SlicerInv == SlicerTypeOK /\ CutsInOrder /\ CutsCover /\ CutsSeparate /\ Copied

-----------------------------------------------------------------------------
\* The ranges meet, and their ends do not decrease (constructor of RangeSlicer).
LEMMA WidthType == RangeCount > 0 => Width \in Nat
  BY SlicerAssumption DEF Width

LEMMA RangesMeet ==
  ASSUME NEW i \in Parts
  PROVE  /\ RangeBegin(0) = 0
         /\ RangeEnd(i) \in Nat /\ RangeBegin(i) \in Nat
         /\ RangeBegin(i) <= RangeEnd(i)
         /\ i > 0 => RangeBegin(i) = RangeEnd(i - 1)
<1>1. Width \in Nat
  BY WidthType, SlicerAssumption DEF Parts
<1>2. i \in Nat
  BY SlicerAssumption DEF Parts
<1>3. Width * (i + 1) = Width * i + Width /\ Width * i \in Nat /\ Width * 0 = 0
  BY <1>1, <1>2
<1> QED
  BY <1>1, <1>2, <1>3 DEF RangeBegin, RangeEnd

\* The copied range of positions is a sequence of keys.
LEMMA CopyType ==
  ASSUME SlicerTypeOK, NEW i \in Parts, pos[i] <= pos[i + 1]
  PROVE  /\ CopySlice(i) \in Seq(Key)
         /\ Len(CopySlice(i)) = pos[i + 1] - pos[i]
         /\ \A j \in 1..(pos[i + 1] - pos[i]) : CopySlice(i)[j] = keys[pos[i] + j]
<1>1. /\ pos[i] \in 0..Len(keys) /\ pos[i + 1] \in 0..Len(keys)
      /\ keys \in Seq(Key) /\ Len(keys) \in Nat
  BY SlicerAssumption DEF SlicerTypeOK, Parts
<1> DEFINE m == pos[i] + 1
           n == pos[i + 1]
<1>2. \A j \in m..n : keys[j] \in Key
  BY <1>1
<1>3. m \in 1..(Len(keys) + 1) /\ m - 1 <= n /\ n \in 0..Len(keys) /\ n - m + 1 = pos[i + 1] - pos[i]
  BY <1>1
<1>4. CopySlice(i) = SubSeq(keys, m, n)
  BY DEF CopySlice
<1> HIDE DEF m, n
<1>5. /\ SubSeq(keys, m, n) \in Seq(Key) /\ Len(SubSeq(keys, m, n)) = n - m + 1
      /\ \A j \in 1..(n - m + 1) : SubSeq(keys, m, n)[j] = keys[m + j - 1]
  BY <1>1, <1>2, <1>3, SubSeqProperties
<1>6. \A j \in 1..(n - m + 1) : m + j - 1 = pos[i] + j
  BY <1>1 DEF m
<1> QED
  BY <1>3, <1>4, <1>5, <1>6

-----------------------------------------------------------------------------
LEMMA SlicerInitInv ==
  ASSUME keys \in Seq(Key), SlicerInit
  PROVE  SlicerInv
<1>1. SlicerTypeOK
  BY SlicerAssumption DEF SlicerInit, SlicerTypeOK, Parts
<1>2. CutTo = 0 /\ CopiedTo = 0
  BY DEF SlicerInit, CutTo, CopiedTo
<1> QED
  BY <1>1, <1>2, SlicerAssumption
  DEF SlicerInit, SlicerInv, CutsInOrder, CutsCover, CutsSeparate, Copied, Parts

LEMMA CutInv ==
  ASSUME SlicerInv, Cut
  PROVE  SlicerInv'
<1> DEFINE first == pos'[part]
           next  == pos'[part + 1]
<1>t. /\ SlicerTypeOK /\ stage = "cut" /\ part \in Parts
      /\ CutTo = part /\ CutTo' = part + 1 /\ CopiedTo = 0 /\ CopiedTo' = 0
      /\ keys' = keys /\ slices' = slices /\ stage' = stage /\ part' = part + 1
      /\ Len(keys) \in Nat /\ part \in Nat
  BY SlicerAssumption, SMTT(30) DEF SlicerInv, SlicerTypeOK, Cut, CutTo, CopiedTo, Parts
<1>k. \A j \in 1..Len(keys) : keys[j] \in Nat
  BY <1>t, SlicerAssumption DEF SlicerTypeOK, Key
<1>1. PICK f \in IF part = 0 THEN CutPositions(keys, 0, RangeBegin(0)) ELSE {pos[part]} :
        \E n \in CutPositions(keys, f, RangeEnd(part)) :
          pos' = [pos EXCEPT ![part] = f, ![part + 1] = n]
  BY DEF Cut
<1>2. PICK n \in CutPositions(keys, f, RangeEnd(part)) :
        pos' = [pos EXCEPT ![part] = f, ![part + 1] = n]
  BY <1>1
<1>3. f = pos[part]
  <2>1. CASE part = 0
    <3>1. f \in CutPositions(keys, 0, 0)
      BY <2>1, <1>1, RangesMeet, <1>t
    <3>2. f = 0
      BY <3>1, <1>k, <1>t DEF CutPositions
    <3> QED
      BY <3>2, <2>1 DEF SlicerInv, CutsInOrder
  <2> QED
    BY <2>1, <1>1
<1>4. n \in f..Len(keys) /\ f \in 0..Len(keys)
  BY <1>2, <1>3, <1>t, SlicerAssumption DEF CutPositions, SlicerTypeOK, Parts
<1>5. /\ \A i \in 0..part : pos'[i] = pos[i]
      /\ pos'[part + 1] = n
      /\ pos' \in [0..RangeCount -> 0..Len(keys)]
  <2>1. /\ pos \in [0..RangeCount -> 0..Len(keys)]
        /\ part \in 0..RangeCount /\ part + 1 \in 0..RangeCount /\ part # part + 1
    BY <1>t, SlicerAssumption DEF SlicerTypeOK, Parts
  <2>2. n \in 0..Len(keys)
    BY <1>4, <1>t
  <2>3. pos' = [pos EXCEPT ![part + 1] = n]
    BY <1>2, <1>3, <2>1
  <2> QED
    BY <2>1, <2>2, <2>3
<1>6. SlicerTypeOK'
  BY <1>t, <1>5, SlicerAssumption, SMTT(30) DEF SlicerTypeOK, Parts
<1>7. CutsInOrder'
  <2>1. pos'[0] = 0
    BY <1>t, <1>5 DEF SlicerInv, CutsInOrder
  <2>2. ASSUME NEW i \in 0..part PROVE pos'[i] <= pos'[i + 1]
    <3>1. CASE i < part
      <4>1. i \in 0..(part - 1) /\ i + 1 \in 0..part
        BY <3>1, <1>t
      <4>2. pos[i] <= pos[i + 1]
        BY <4>1, <1>t DEF SlicerInv, CutsInOrder
      <4> QED BY <4>1, <4>2, <1>5
    <3>2. CASE i = part
      BY <3>2, <1>3, <1>4, <1>5
    <3> QED BY <3>1, <3>2, <1>t
  <2> QED BY <2>1, <2>2, <1>t DEF CutsInOrder
<1>8. CutsCover'
  <2> SUFFICES ASSUME NEW j \in 1..n
               PROVE  \E i \in 0..part : pos'[i] < j /\ j <= pos'[i + 1]
    BY <1>t, <1>5 DEF CutsCover
  <2>1. CASE j <= pos[part]
    <3>1. PICK i \in 0..(part - 1) : pos[i] < j /\ j <= pos[i + 1]
      BY <2>1, <1>t, <1>3, <1>4 DEF SlicerInv, CutsCover
    <3> QED
      BY <3>1, <1>5, <1>t
  <2>2. CASE j > pos[part]
    BY <2>2, <1>5, <1>t
  <2> QED
    BY <2>1, <2>2, <1>3, <1>4, <1>t
<1>9. CutsSeparate'
  <2> SUFFICES ASSUME Sorted(keys), NEW i \in 0..part, NEW j \in 1..Len(keys)
               PROVE  j <= pos'[i + 1] <=> keys[j] < RangeEnd(i)
    BY <1>t DEF CutsSeparate, RangeEnd, Width
  <2>1. CASE i < part
    <3>1. i \in 0..(part - 1) /\ i + 1 \in 0..part
      BY <2>1, <1>t
    <3>2. pos'[i + 1] = pos[i + 1]
      BY <3>1, <1>5
    <3>3. j <= pos[i + 1] <=> keys[j] < RangeEnd(i)
      BY <3>1, <1>t DEF SlicerInv, CutsSeparate
    <3> QED BY ONLY <3>2, <3>3
  <2>2. CASE i = part
    <3>1. RangeEnd(part) \in Nat /\ keys[j] \in Nat
      BY RangesMeet, <1>t, <1>k
    <3>2. ASSUME j <= pos[part] PROVE keys[j] < RangeEnd(part)
      <4>1. part > 0
        BY <3>2, <1>t DEF SlicerInv, CutsInOrder
      <4>2. keys[j] < RangeEnd(part - 1)
        BY <3>2, <4>1, <1>t DEF SlicerInv, CutsSeparate
      <4>3. RangeEnd(part - 1) = RangeBegin(part) /\ RangeBegin(part) <= RangeEnd(part)
            /\ RangeBegin(part) \in Nat
        BY <4>1, <1>t, RangesMeet
      <4> QED
        BY <4>2, <4>3, <3>1
    <3>3. ASSUME j > pos[part], j <= n PROVE keys[j] < RangeEnd(part)
      <4>1. n > f /\ n \in 1..Len(keys)
        BY <3>3, <1>3, <1>4, <1>t
      <4>2. keys[n] < RangeEnd(part)
        BY <1>2, <4>1 DEF CutPositions
      <4>3. keys[j] <= keys[n]
        BY <3>3, <4>1, <1>k DEF Sorted, IsSorted
      <4> QED
        BY <4>1, <4>2, <4>3, <3>1, <1>k
    <3>4. ASSUME j > n PROVE keys[j] >= RangeEnd(part)
      <4>1. n + 1 \in 1..Len(keys) /\ n < Len(keys)
        BY <3>4, <1>4, <1>t
      <4>2. keys[n + 1] >= RangeEnd(part)
        BY <1>2, <4>1 DEF CutPositions
      <4>3. keys[n + 1] <= keys[j]
        BY <3>4, <4>1, <1>4, <1>k DEF Sorted, IsSorted
      <4> QED
        BY <4>1, <4>2, <4>3, <3>1, <1>k
    <3> QED
      BY <2>2, <3>1, <3>2, <3>3, <3>4, <1>3, <1>4, <1>5, <1>t
  <2> QED
    BY <2>1, <2>2, <1>t
<1>10. Copied'
  BY <1>t DEF SlicerInv, Copied, Parts
<1> QED
  BY <1>6, <1>7, <1>8, <1>9, <1>10 DEF SlicerInv

LEMMA CutDoneInv ==
  ASSUME SlicerInv, CutDone
  PROVE  SlicerInv'
<1>t. /\ SlicerTypeOK /\ stage = "cut" /\ part = RangeCount /\ part' = 0
      /\ CutTo = RangeCount /\ CutTo' = RangeCount /\ CopiedTo = 0
      /\ keys' = keys /\ slices' = slices /\ pos' = pos /\ RangeCount \in Nat
  BY SlicerAssumption DEF SlicerInv, CutDone, CutTo, CopiedTo
<1>1. SlicerTypeOK'
  BY <1>t DEF SlicerTypeOK, CutDone
<1>2. CutsInOrder' /\ CutsCover' /\ CutsSeparate'
  BY <1>t DEF SlicerInv, CutsInOrder, CutsCover, CutsSeparate, RangeEnd, Width
<1>3. Copied'
  <2>1. CASE keys # <<>>
    <3>1. CopiedTo' = 0
      BY <2>1, <1>t DEF CutDone, CopiedTo
    <3> QED
      BY <3>1, <1>t DEF SlicerInv, Copied, Parts
  <2>2. CASE keys = <<>>
    <3> SUFFICES ASSUME NEW i \in Parts
                 PROVE  slices[i] = <<>> /\ CopySlice(i)' = <<>>
      BY <1>t DEF Copied
    <3>1. i \in Nat /\ pos[i] = 0 /\ pos[i + 1] = 0
      BY <2>2, <1>t DEF SlicerTypeOK, Parts
    <3>2. slices[i] = <<>>
      BY <1>t, <3>1 DEF SlicerInv, Copied
    <3>3. CopySlice(i)' = SubSeq(keys, 1, 0)
      BY <3>1, <1>t DEF CopySlice
    <3> QED
      BY <3>2, <3>3
  <2> QED
    BY <2>1, <2>2
<1> QED
  BY <1>1, <1>2, <1>3 DEF SlicerInv

LEMMA CopyInv ==
  ASSUME SlicerInv, Copy
  PROVE  SlicerInv'
<1>t. /\ SlicerTypeOK /\ stage = "copy" /\ part \in Parts /\ part' = part + 1
      /\ CutTo = RangeCount /\ CutTo' = RangeCount
      /\ CopiedTo = part /\ CopiedTo' = part + 1
      /\ keys' = keys /\ stage' = stage /\ pos' = pos
      /\ RangeCount \in Nat /\ part \in Nat
  BY SlicerAssumption DEF SlicerInv, SlicerTypeOK, Copy, CutTo, CopiedTo, Parts
<1>1. pos[part] <= pos[part + 1]
  BY <1>t DEF SlicerInv, CutsInOrder, Parts
<1>2. CopySlice(part) \in Seq(Key)
  BY <1>t, <1>1, CopyType
<1>3. slices' = [slices EXCEPT ![part] = CopySlice(part)]
  <2>1. CASE pos[part + 1] = pos[part]
    <3>1. pos[part] \in Int
      BY <1>t DEF SlicerTypeOK, Parts
    <3>2. CopySlice(part) = <<>>
      BY <2>1, <3>1, <1>t DEF CopySlice
    <3>3. slices[part] = <<>>
      BY <1>t DEF SlicerInv, Copied
    <3> QED
      BY <2>1, <3>2, <3>3, <1>t DEF Copy, SlicerTypeOK
  <2> QED
    BY <2>1 DEF Copy
<1>4. SlicerTypeOK'
  BY <1>t, <1>2, <1>3 DEF SlicerTypeOK, Parts
<1>5. CutsInOrder' /\ CutsCover' /\ CutsSeparate'
  BY <1>t DEF SlicerInv, CutsInOrder, CutsCover, CutsSeparate, RangeEnd, Width
<1>6. Copied'
  <2> SUFFICES ASSUME NEW i \in Parts
               PROVE  slices'[i] = IF i < part + 1 THEN CopySlice(i) ELSE <<>>
    BY <1>t DEF Copied, CopySlice
  <2>1. slices[i] = IF i < part THEN CopySlice(i) ELSE <<>>
    BY <1>t DEF SlicerInv, Copied
  <2>2. CASE i = part
    BY <2>2, <1>t, <1>3 DEF SlicerTypeOK
  <2>3. CASE i # part
    <3>1. slices'[i] = slices[i]
      BY <2>3, <1>3, <1>t DEF SlicerTypeOK
    <3>2. i < part + 1 <=> i < part
      BY <2>3, <1>t DEF Parts
    <3> QED
      BY <3>1, <3>2, <2>1
  <2> QED
    BY <2>2, <2>3
<1> QED
  BY <1>4, <1>5, <1>6 DEF SlicerInv

LEMMA CopyDoneInv ==
  ASSUME SlicerInv, CopyDone
  PROVE  SlicerInv'
<1>t. /\ CutTo = RangeCount /\ CutTo' = RangeCount
      /\ CopiedTo = RangeCount /\ CopiedTo' = RangeCount
      /\ keys' = keys /\ pos' = pos /\ slices' = slices
      /\ stage' = "sliced" /\ part' = 0 /\ RangeCount \in Nat
  BY SlicerAssumption DEF CopyDone, CutTo, CopiedTo
<1> QED
  BY <1>t DEF SlicerInv, SlicerTypeOK, CutsInOrder, CutsCover, CutsSeparate,
              Copied, CopySlice, RangeEnd, Width

LEMMA SlicerStepInv ==
  ASSUME SlicerInv, [SlicerNext]_slicerVars
  PROVE  SlicerInv'
<1>1. CASE UNCHANGED slicerVars
  BY <1>1 DEF slicerVars, SlicerInv, SlicerTypeOK, CutsInOrder, CutsCover,
              CutsSeparate, Copied, CutTo, CopiedTo, CopySlice, RangeEnd, Width
<1> QED
  BY <1>1, CutInv, CutDoneInv, CopyInv, CopyDoneInv DEF SlicerNext

THEOREM SlicerInvariant == SlicerSpec => []SlicerInv
  BY SlicerInitInv, SlicerStepInv, PTL DEF SlicerSpec

-----------------------------------------------------------------------------
\* Type correctness of the slicer.
THEOREM SlicerTypeCorrect == SlicerSpec => []SlicerTypeOK
<1>1. SlicerInv => SlicerTypeOK
  BY DEF SlicerInv
<1> QED
  BY <1>1, SlicerInvariant, PTL

\* What the invariant says of a slice once all are copied.
LEMMA SliceIsRun ==
  ASSUME SlicerInv, Sliced, NEW i \in Parts
  PROVE  /\ i \in Nat /\ pos[i] \in Nat /\ pos[i + 1] \in 0..Len(keys)
         /\ CutTo = RangeCount /\ Len(keys) \in Nat
         /\ pos[i] <= pos[i + 1]
         /\ Len(slices[i]) = pos[i + 1] - pos[i]
         /\ \A j \in 1..Len(slices[i]) : slices[i][j] = keys[pos[i] + j]
<1>1. SlicerTypeOK /\ CutTo = RangeCount /\ CopiedTo = RangeCount /\ RangeCount \in Nat
  BY SlicerAssumption DEF SlicerInv, CutTo, CopiedTo, Sliced
<1>2. /\ i \in Nat /\ pos[i] \in Nat /\ pos[i + 1] \in 0..Len(keys) /\ Len(keys) \in Nat
  BY <1>1 DEF SlicerTypeOK, Parts
<1>3. pos[i] <= pos[i + 1]
  BY <1>1 DEF SlicerInv, CutsInOrder, Parts
<1>4. slices[i] = CopySlice(i)
  BY <1>1 DEF SlicerInv, Copied, Parts
<1> QED
  BY <1>1, <1>2, <1>3, <1>4, CopyType

\* The j-th place of a run that starts after place a and ends at place b.
LEMMA PlaceInRun ==
  ASSUME NEW n \in Nat, NEW a \in Nat, NEW b \in 0..n, NEW j \in Nat, 1 <= j, j <= b - a
  PROVE  a + j \in 1..n /\ a + j > a /\ a + j <= b
  OBVIOUS

\* Every slice holds keys of its own range only, if the keys were sorted.
THEOREM SlicesAreInRange == SlicerSpec => []SlicesInRange
<1>1. SlicerInv => SlicesInRange
  <2> SUFFICES ASSUME SlicerInv, Sliced, Sorted(keys), NEW i \in Parts,
                      NEW j \in 1..Len(slices[i])
               PROVE  RangeBegin(i) <= slices[i][j] /\ slices[i][j] < RangeEnd(i)
    BY DEF SlicesInRange
  <2> DEFINE k == pos[i] + j
  <2>1. /\ k \in 1..Len(keys) /\ slices[i][j] = keys[k]
        /\ k > pos[i] /\ k <= pos[i + 1] /\ i \in 0..(RangeCount - 1) /\ i \in Nat
    <3>1. /\ i \in Nat /\ pos[i] \in Nat /\ pos[i + 1] \in 0..Len(keys) /\ Len(keys) \in Nat
          /\ Len(slices[i]) = pos[i + 1] - pos[i] /\ slices[i][j] = keys[pos[i] + j]
      BY SliceIsRun
    <3>2. j \in Nat /\ 1 <= j /\ j <= pos[i + 1] - pos[i]
      BY ONLY <3>1, j \in 1..Len(slices[i])
    <3>3. k \in 1..Len(keys) /\ k > pos[i] /\ k <= pos[i + 1]
      BY <3>1, <3>2, PlaceInRun
    <3> QED
      BY <3>1, <3>3 DEF Parts
  <2>2. keys[k] \in Nat
    <3>1. keys \in Seq(Key) /\ k \in 1..Len(keys)
      BY <2>1 DEF SlicerInv, SlicerTypeOK
    <3>2. keys[k] \in Key
      BY <3>1
    <3> QED
      BY <3>2, SlicerAssumption DEF Key
  <2>3. keys[k] < RangeEnd(i)
    BY <2>1, SliceIsRun DEF SlicerInv, CutsSeparate
  <2>4. RangeBegin(i) <= keys[k]
    <3>1. CASE i = 0
      BY <3>1, <2>2, RangesMeet
    <3>2. CASE i > 0
      <4>1. i - 1 \in 0..(RangeCount - 1) /\ (i - 1) + 1 = i
        BY <3>2, <2>1, SlicerAssumption
      <4>2. ~(k <= pos[i])
        BY <2>1, SliceIsRun
      <4>3. ~(keys[k] < RangeEnd(i - 1))
        BY <4>1, <4>2, <2>1, SliceIsRun DEF SlicerInv, CutsSeparate
      <4> QED
        BY <4>3, <3>2, <2>2, RangesMeet
    <3> QED
      BY <3>1, <3>2, <2>1
  <2> QED
    BY <2>1, <2>3, <2>4
<1> QED
  BY <1>1, SlicerInvariant, PTL

\* The slices are consecutive runs of the keys: together the first
\* pos[RangeCount] of them, each once and in order, sorted or not.
THEOREM SlicesAreInOrder == SlicerSpec => []SlicesInOrder
<1>1. SlicerInv => SlicesInOrder
  <2> SUFFICES ASSUME SlicerInv, Sliced
               PROVE  /\ pos[0] = 0
                      /\ \A i \in Parts : Len(slices[i]) = pos[i + 1] - pos[i]
                      /\ \A j \in 1..pos[RangeCount] : \E i \in Parts :
                           /\ pos[i] < j /\ j <= pos[i + 1]
                           /\ slices[i][j - pos[i]] = keys[j]
    BY DEF SlicesInOrder
  <2>1. pos[0] = 0
    BY DEF SlicerInv, CutsInOrder
  <2>2. \A i \in Parts : Len(slices[i]) = pos[i + 1] - pos[i]
    BY SliceIsRun
  <2>3. ASSUME NEW j \in 1..pos[RangeCount]
        PROVE  \E i \in Parts : /\ pos[i] < j /\ j <= pos[i + 1]
                                /\ slices[i][j - pos[i]] = keys[j]
    <3>1. CutTo = RangeCount
      BY DEF CutTo, Sliced
    <3>2. PICK i \in Parts : pos[i] < j /\ j <= pos[i + 1]
      BY <3>1 DEF SlicerInv, CutsCover, Parts
    <3>3. j - pos[i] \in 1..Len(slices[i]) /\ pos[i] + (j - pos[i]) = j
      BY <3>2, SliceIsRun
    <3> QED
      BY <3>2, <3>3, SliceIsRun
  <2> QED
    BY <2>1, <2>2, <2>3
<1> QED
  BY <1>1, SlicerInvariant, PTL

\* Exactly the keys that lie in some range are kept, if the keys were sorted.
THEOREM OnlyTailIsDropped == SlicerSpec => []OnlyTailDropped
<1>1. SlicerInv => OnlyTailDropped
  <2> SUFFICES ASSUME SlicerInv, Sliced, Sorted(keys), NEW j \in 1..Len(keys)
               PROVE  j <= pos[RangeCount] <=> InSomeRange(keys[j])
    BY DEF OnlyTailDropped
  <2>t. /\ CutTo = RangeCount /\ RangeCount \in Nat /\ Len(keys) \in Nat
        /\ pos[0] = 0 /\ keys[j] \in Nat
    BY SlicerAssumption
    DEF SlicerInv, SlicerTypeOK, CutTo, Sliced, CutsInOrder, Key
  <2>1. CASE RangeCount = 0
    BY <2>1, <2>t DEF InSomeRange, Parts
  <2>2. CASE RangeCount > 0
    <3> DEFINE last == RangeCount - 1
    <3>1. last \in Parts /\ last + 1 = RangeCount
      BY <2>2, <2>t DEF Parts
    <3>2. j <= pos[RangeCount] <=> keys[j] < RangeEnd(last)
      BY <3>1, <2>t DEF SlicerInv, CutsSeparate, Parts
    <3>3. ASSUME NEW i \in Parts PROVE RangeEnd(i) <= RangeEnd(last)
      <4>1. Width \in Nat /\ i + 1 \in Nat /\ i + 1 <= RangeCount
        BY WidthType, <2>2, <2>t DEF Parts
      <4>2. Width * (i + 1) <= Width * RangeCount
        BY <4>1, <2>t
      <4> QED
        BY <4>2, <3>1 DEF RangeEnd
    <3>4. \A i \in Parts : RangeEnd(i) \in Nat
      BY RangesMeet
    <3> QED
      BY <3>1, <3>2, <3>3, <3>4, <2>t DEF InSomeRange
  <2> QED
    BY <2>1, <2>2, <2>t
<1> QED
  BY <1>1, SlicerInvariant, PTL

=============================================================================
