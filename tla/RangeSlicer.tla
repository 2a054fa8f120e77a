----------------------------- MODULE RangeSlicer -----------------------------
(***************************************************************************)
(* tiangan::RangeSlicer: the space of keys 0..MaxKey is cut into ranges of *)
(* equal width, and a sequence of keys into one slice per range.           *)
(*                                                                         *)
(* std::lower_bound is external and modelled by what every run of its      *)
(* binary search guarantees, also when the keys are not sorted (nothing in *)
(* the code checks that they are).                                         *)
(***************************************************************************)
EXTENDS Integers, SequencesExt

CONSTANTS
  MaxKey,     \* std::numeric_limits<K>::max()
  RangeCount  \* the constructor's argument `range`

ASSUME SlicerAssumption ==
  /\ MaxKey \in Nat
  /\ RangeCount \in Nat

VARIABLES
  keys,    \* the keys to cut
  stage,   \* which loop of slice() runs
  part,    \* its index i
  pos,     \* the vector of cut positions
  slices   \* the result

slicerVars == <<keys, stage, part, pos, slices>>

Key   == 0..MaxKey
Parts == 0..(RangeCount - 1)

Sorted(s) == IsSorted(s, <=)

Width == MaxKey \div RangeCount

RangeBegin(i) == Width * i

\* Mutant of RangeEnd: the ranges do not meet.
RangeEndShort(i) == Width * (i + 1) - 1

RangeEnd(i) == Width * (i + 1)

-----------------------------------------------------------------------------
SlicerInit ==
  /\ stage = "cut"
  /\ part = 0
  /\ pos = [i \in 0..RangeCount |-> 0]
  /\ slices = [i \in Parts |-> <<>>]

\* Mutant of CutPositions: std::upper_bound.
UpperBounds(s, lo, x) ==
  {p \in lo..Len(s) : /\ p > lo => s[p] <= x
                      /\ p < Len(s) => s[p + 1] > x}

\* What std::lower_bound(begin + lo, end, x) - begin may be.
CutPositions(s, lo, x) ==
  {p \in lo..Len(s) : /\ p > lo => s[p] < x
                      /\ p < Len(s) => s[p + 1] >= x}

\* One iteration of the first loop; the first one also looks for the begin of
\* the first range.
Cut ==
  /\ stage = "cut"
  /\ part < RangeCount
  /\ \E first \in IF part = 0 THEN CutPositions(keys, 0, RangeBegin(0))
                              ELSE {pos[part]} :
     \E next \in CutPositions(keys, first, RangeEnd(part)) :
       pos' = [pos EXCEPT ![part] = first, ![part + 1] = next]
  /\ part' = part + 1
  /\ UNCHANGED <<keys, stage, slices>>

\* Between the loops: an empty sequence is not copied.
CutDone ==
  /\ stage = "cut"
  /\ part = RangeCount
  /\ stage' = IF keys = <<>> THEN "sliced" ELSE "copy"
  /\ part' = 0
  /\ UNCHANGED <<keys, pos, slices>>

\* Mutant of CopySlice: the last element is left out.
CopySliceShort(i) == SubSeq(keys, pos[i] + 1, pos[i + 1] - 1)

CopySlice(i) == SubSeq(keys, pos[i] + 1, pos[i + 1])

\* One iteration of the second loop.
Copy ==
  /\ stage = "copy"
  /\ part < RangeCount
  /\ slices' = IF pos[part + 1] = pos[part]
               THEN slices
               ELSE [slices EXCEPT ![part] = CopySlice(part)]
  /\ part' = part + 1
  /\ UNCHANGED <<keys, stage, pos>>

CopyDone ==
  /\ stage = "copy"
  /\ part = RangeCount
  /\ stage' = "sliced"
  /\ part' = 0
  /\ UNCHANGED <<keys, pos, slices>>

SlicerNext == Cut \/ CutDone \/ Copy \/ CopyDone

\* slice() of any sequence of keys.
SlicerSpec ==
  /\ keys \in Seq(Key) /\ SlicerInit
  /\ [][SlicerNext]_slicerVars

-----------------------------------------------------------------------------
(* Properties.                                                             *)

\* Type invariant.
SlicerTypeOK ==
  /\ keys \in Seq(Key)
  /\ stage \in {"cut", "copy", "sliced"}
  /\ part \in 0..RangeCount
  /\ pos \in [0..RangeCount -> 0..Len(keys)]
  /\ slices \in [Parts -> Seq(Key)]

Sliced == stage = "sliced"

\* The model server of range i is asked for keys of range i only, provided the
\* keys came sorted (tgp_postman.cc:49).
SlicesInRange ==
  Sliced /\ Sorted(keys) =>
    \A i \in Parts : \A j \in 1..Len(slices[i]) :
      RangeBegin(i) <= slices[i][j] /\ slices[i][j] < RangeEnd(i)

\* The slices, put one after the other, are the first pos[RangeCount] keys in
\* the order they came, sorted or not: no key is lost between two slices or sent
\* twice, and the answers can be concatenated.
SlicesInOrder ==
  Sliced =>
    /\ pos[0] = 0
    /\ \A i \in Parts : Len(slices[i]) = pos[i + 1] - pos[i]
    /\ \A j \in 1..pos[RangeCount] : \E i \in Parts :
         /\ pos[i] < j /\ j <= pos[i + 1]
         /\ slices[i][j - pos[i]] = keys[j]

\* Of sorted keys exactly the ones below the end of some range are kept: only
\* the keys the division of MaxKey by RangeCount leaves over are dropped.
InSomeRange(key) == \E i \in Parts : key < RangeEnd(i)

OnlyTailDropped ==
  Sliced /\ Sorted(keys) =>
    \A j \in 1..Len(keys) : j <= pos[RangeCount] <=> InSomeRange(keys[j])

\* The features are cut up, all of them ("slice features_", tgp_postman.cc:81).
NothingDropped == Sliced => pos[RangeCount] = Len(keys)

=============================================================================
