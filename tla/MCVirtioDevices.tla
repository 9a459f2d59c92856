---------------------------- MODULE MCVirtioDevices ----------------------------
(* Queues of five descriptors, chains of up to four segments.  A chain is given *)
(* by its indices and lengths.  Past leaves memory, Wraps passes the end of the *)
(* addresses as well, Long and Read3 have a segment too many.                   *)
EXTENDS VirtioDevices

Desc(len, next) == [addr |-> 0, len |-> len, more |-> TRUE, next |-> next]
End(len) == [Desc(len, 0) EXCEPT !.more = FALSE]
Unused == End(0)
Of(a, b, c, d) == [i \in 0..4 |-> <<a, b, c, d, End(1)>>[i + 1]]

One == [head |-> 0, table |-> Of(End(1), Unused, Unused, Unused)]
Two == [head |-> 2, table |-> Of(End(1), Unused, Desc(1, 0), Unused)]
Loop == [head |-> 1, table |-> Of(Unused, Desc(1, 1), Unused, Unused)]
Far == [head |-> 0, table |-> Of(Desc(1, 5), Unused, Unused, Unused)]
At(addr, len) == [End(len) EXCEPT !.addr = addr]
Past == [head |-> 3, table |-> Of(Unused, Unused, Unused, At(MemSize, 1))]
Wraps == [head |-> 0, table |-> Of(Desc(1, 2), Unused, At(Wrap - 1, 2), Unused)]
\* header, one or two data segments, status
Read1 == [head |-> 3, table |-> Of(Desc(1, 1), End(1), Unused, Desc(1, 0))]
Read2 == [head |-> 3, table |-> Of(Desc(1, 1), Desc(1, 2), End(1), Desc(1, 0))]
Long == [head |-> 0, table |-> Of(Desc(1, 1), Desc(0, 2), Desc(0, 3), Desc(0, 4))]
Read3 == [head |-> 0, table |-> Of(Desc(1, 1), Desc(1, 2), Desc(1, 3), Desc(1, 4))]

MCChains ==
  [console |-> {One, Two, Loop, Far, Past, Wraps, Long},
   blk |-> {One, Loop, Read1, Read2, Read3}]
=============================================================================
