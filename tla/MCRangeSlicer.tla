---------------------------- MODULE MCRangeSlicer ----------------------------
(* Instances of RangeSlicer for TLC.                                       *)
EXTENDS RangeSlicer

CONSTANT MaxLength   \* bound: length of the sequences of keys

\* Sorted and unsorted ones, with repeated keys.
ShortSequences == UNION {[1..n -> Key] : n \in 0..MaxLength}

ShortInit == keys \in ShortSequences /\ SlicerInit

ShortSpec == ShortInit /\ [][SlicerNext]_slicerVars

=============================================================================
