------------------------------ MODULE MCSimApp --------------------------------
(* Three levels of two-slot tables and a fourth VPN field that the mode    *)
(* ignores, as the default stack's addresses have bits above SV39.  The    *)
(* stack is pages 14 and 15, which the mode cannot tell from 6 and 7.      *)
(* Five tables: stack and pages 0, 1 need them all, 2 and 3 one more.      *)
EXTENDS SimApp

Segment(vaddr, filesz, memsz) ==
    [load |-> TRUE, vaddr |-> vaddr, offset |-> vaddr % PAGE_SIZE,
     filesz |-> filesz, memsz |-> memsz]

Note == [Segment(0, 3, 3) EXCEPT !.load = FALSE]

File(segs, entry) == [readable |-> TRUE, valid |-> TRUE, segs |-> segs, entry |-> entry]

NotElf == [File(<<>>, 0) EXCEPT !.valid = FALSE]
Missing == [NotElf EXCEPT !.readable = FALSE]

(* One page or two, whole or in parts, with and without .bss, a segment    *)
(* without memory, an alias of a stack page, and (the last one) a file     *)
(* part that is longer than the memory part and leaves its page.           *)
Segments == {Segment(0, 4, 4), Segment(1, 5, 6), Segment(3, 1, 5), Segment(2, 0, 3),
             Segment(5, 0, 0), Segment(9, 6, 7), Segment(16, 4, 6), Segment(27, 2, 2),
             Segment(6, 1, 1), Segment(39, 4, 1)}

(* For main(). *)
MCElfs == {NotElf, Missing, File(<<Note>>, 0)}
              \cup {File(<<s>>, s.vaddr) : s \in Segments}
              \cup {File(<<Note, s, t>>, s.vaddr) : s, t \in Segments}

(* For three calls in a row by a client: a load fails and is tried again.  *)
MCFewElfs == {NotElf, File(<<Segment(16, 4, 6), Segment(3, 1, 5), Segment(9, 6, 7)>>, 16),
              File(<<Segment(1, 5, 6), Segment(27, 2, 2)>>, 1)}
                 \cup {File(<<s>>, s.vaddr) : s \in Segments}
=============================================================================
