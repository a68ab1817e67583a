---------------------------- MODULE MC_BitVector ----------------------------
(* Words of 8 bits.  Elements of 2 bits never cross a word, elements of 3    *)
(* do; a capacity of 13 ends inside a word, 16 with one.                     *)
EXTENDS BitVector

MCMaskSizes == {2, 3}
MCThreeBits == {3}
MCCaps      == {13, 16, 20}
MCPatterns  == {0, 5}
=============================================================================
