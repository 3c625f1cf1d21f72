------------------------------- MODULE MCHart -------------------------------
(* Bytes of one bit: registers of eight bits, words of four.  All values   *)
(* on the left; on the right all word values, and around the sign change.  *)
EXTENDS HartReference

MCDecode == [w \in Words |-> IllegalInstr]
MCLefts == RegValues
MCRights == (0 .. 17) \cup (120 .. 136) \cup (246 .. 255)
=============================================================================
