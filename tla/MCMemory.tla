------------------------------ MODULE MCMemory ------------------------------
EXTENDS Memory

Seg(vaddr, memsz, filesz, short) ==
    [vaddr |-> vaddr, memsz |-> memsz, filesz |-> filesz, short |-> short]

\* Small programs: one that loads, with memory past the file, and one each
\* for the ways a file can be wrong.
MCImages ==
    [sh    |-> [magic |-> TRUE, segs |-> <<Seg(0, 20, 10, FALSE)>>],
     text  |-> [magic |-> FALSE, segs |-> <<>>],
     cut   |-> [magic |-> TRUE, segs |-> <<Seg(0, 10, 10, FALSE),
                                           Seg(16, 10, 10, TRUE)>>],
     wraps |-> [magic |-> TRUE, segs |-> <<Seg(176, 20, 1, FALSE)>>],
     odd   |-> [magic |-> TRUE, segs |-> <<Seg(8, 4, 4, FALSE)>>],
     small |-> [magic |-> TRUE, segs |-> <<Seg(0, 2, 4, FALSE)>>]]

MCArgs == {<<>>, <<2, 1>>, <<20>>, <<1, 1, 1>>}
MCDeltas == {16, 24, -16, -32, -80}
=============================================================================
