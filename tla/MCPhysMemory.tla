---------------------------- MODULE MCPhysMemory ----------------------------
(* Two guest pages of two bytes; regions of 1, 2 and 4 host pages.  Guest  *)
(* page numbers are only compared, so they are interchangeable.            *)
EXTENDS PhysMemory, TLC

MCSizes == {1, 2}
MCByte == {0, 1}

PageSymmetry == Permutations(Pages)
=============================================================================
