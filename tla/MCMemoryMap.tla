---------------------------- MODULE MCMemoryMap ----------------------------
(***************************************************************************)
(* Eight addresses in pages of two.  Descriptors are empty, one or three   *)
(* pages long, or longer than the address space; one start is not aligned. *)
(***************************************************************************)
EXTENDS MemoryMap

MCDescriptor ==
  [start : {0, 2, 3, 6}, pages : {1, 3}, allows : {"reading", "writing"}]
  \cup {[start |-> s, pages |-> 1, allows |-> "nothing"] : s \in {2, 4}}
  \cup {[start |-> 4, pages |-> 1, allows |-> "writing"],
        [start |-> 2, pages |-> 0, allows |-> "writing"],
        [start |-> 2, pages |-> 4, allows |-> "writing"]}

\* In some order at most three; a snapshot may be one longer than is asked for.
MCMaps == UNION {[1 .. n -> MCDescriptor] : n \in 0 .. 3}

\* MemoryMapRangeIsReadable, with or without the number of bytes, and
\* MemoryMapRangeIsWritable.
MCQueries ==
  {[addr |-> a, len |-> n, exact |-> k = "count", write |-> k = "write"] :
     a \in {0, 3}, n \in {0, 4, 7}, k \in {"read", "count", "write"}}

=============================================================================
