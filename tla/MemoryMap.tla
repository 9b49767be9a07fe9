----------------------------- MODULE MemoryMap -----------------------------
(***************************************************************************)
(* MemoryMap.c: a snapshot of the firmware's memory map, and the walk that *)
(* decides whether a range of addresses may be read or written.            *)
(*                                                                         *)
(* The map is a sequence of descriptors in no particular order, which may  *)
(* overlap, be empty or be malformed.  Sizes of buffers count descriptors. *)
(***************************************************************************)
EXTENDS Integers, Sequences

CONSTANTS
  MaxAddr,      \* MAX_UINT64, which is MAX_UINTN
  PageSize,     \* EFI_PAGE_SIZE
  Maps,         \* the maps the firmware may return
  Queries,      \* what clients ask: [addr, len, exact, write]
  Attempts,     \* MEMORY_MAP_CAPTURE_ATTEMPTS
  Slack,        \* MEMORY_MAP_SLACK_ENTRIES
  MaxSize       \* the largest buffer size that can be represented

Addr == 0 .. MaxAddr

\* Type and Attribute amount to what a descriptor allows.
Descriptor ==
  [start : Addr, pages : Nat, allows : {"nothing", "reading", "writing"}]

\* exact: the caller wants to know how many bytes (ReadableBytes # NULL).
Query == [addr : Addr, len : Addr, exact : BOOLEAN, write : BOOLEAN]

ASSUME MapAssumption ==
  /\ MaxAddr \in Nat /\ PageSize \in Nat /\ PageSize > 1
  /\ Maps \subseteq Seq(Descriptor)
  /\ Queries \subseteq Query
  /\ Attempts \in Nat /\ Slack \in Nat /\ MaxSize \in Nat /\ Slack <= MaxSize

VARIABLES
  phase,      \* where the client is
  attempt,    \* Attempt
  size,       \* RequiredSize
  pools,      \* pool buffers that are allocated and not freed
  map,        \* the contents of Snapshot->Map
  query,      \* the arguments of MemoryMapRangeAccessible
  cursor,     \* Cursor
  available,  \* Available
  answer      \* what it returned

mapVars == <<phase, attempt, size, pools, map, query, cursor, available, answer>>

NoQuery == [addr |-> 0, len |-> 0, exact |-> FALSE, write |-> FALSE]

MapInit ==
  /\ phase = "start"
  /\ attempt = 0 /\ size = 0 /\ pools = 0 /\ map = << >>
  /\ query = NoQuery /\ cursor = 0 /\ available = 0 /\ answer = FALSE

-----------------------------------------------------------------------------
(* MemoryMapCapture.                                                       *)

walkVars == <<query, cursor, available, answer>>

\* The size the firmware asks for, with room for what the allocation adds.
Grow(n) ==
  /\ n <= MaxSize - Slack
  /\ size' = n + Slack

Failed ==
  /\ phase' = "failed" /\ attempt' = 0 /\ size' = 0
  /\ map' = << >>

\* The call with no buffer: anything but EFI_BUFFER_TOO_SMALL is an error.
GetSize ==
  /\ phase = "start"
  /\ \/ /\ \E n \in 0 .. MaxSize : Grow(n)
        /\ phase' = "allocate"
        /\ UNCHANGED <<attempt, map>>
     \/ Failed
  /\ UNCHANGED <<pools, walkVars>>

Allocate ==
  /\ phase = "allocate"
  /\ \/ /\ attempt < Attempts
        /\ pools' = pools + 1
        /\ phase' = "capture"
        /\ UNCHANGED <<attempt, size, map>>
     \/ Failed /\ UNCHANGED pools
  /\ UNCHANGED walkVars

\* The map fits and is made of whole descriptors.
Captured ==
  /\ phase = "capture"
  /\ \E m \in Maps :
       /\ m # << >> /\ Len(m) <= size
       /\ map' = m
  /\ phase' = "ready" /\ attempt' = 0 /\ size' = 0
  /\ UNCHANGED <<pools, walkVars>>

\* The map has grown in the meantime: free the buffer and try a larger one.
Grown ==
  /\ phase = "capture"
  /\ \E n \in 0 .. MaxSize : Grow(n)
  /\ pools' = pools - 1 /\ attempt' = attempt + 1
  /\ phase' = "allocate"
  /\ UNCHANGED <<map, walkVars>>

\* Another error, a warning, or sizes that cannot be.
CaptureFailed ==
  /\ phase = "capture"
  /\ Failed /\ pools' = pools - 1
  /\ UNCHANGED walkVars

-----------------------------------------------------------------------------
(* MemoryMapRangeAccessible.                                               *)

RangeBytes(d) == d.pages * PageSize

Last(d) == d.start + RangeBytes(d) - 1

\* Neither the number of bytes nor the last address overflows.
WellFormed(d) ==
  /\ d.pages <= MaxAddr \div PageSize
  /\ RangeBytes(d) # 0 => d.start <= MaxAddr - (RangeBytes(d) - 1)

Covers(d, a) == RangeBytes(d) # 0 /\ d.start <= a /\ a <= Last(d)

\* MemoryTypeMayBeRead and the attributes.
Allowed(d, write) == d.allows = "writing" \/ (~write /\ d.allows = "reading")

\* The descriptor that covers address a alone, if it allows the access.
Usable(i, a) ==
  /\ Covers(map[i], a)
  /\ \A j \in DOMAIN map : Covers(map[j], a) => j = i
  /\ Allowed(map[i], query.write)

\* Mutant: a descriptor that begins inside the covering one is not noticed.
CoveredLastWhole(i, a, last) == last = Last(map[i])

\* The last address for which descriptor i is the only one from a on:
\* CoveredLast, cut where another one begins (NextStart).
CoveredLast(i, a, last) ==
  /\ last <= Last(map[i])
  /\ \A j \in DOMAIN map : RangeBytes(map[j]) # 0 /\ map[j].start > a => last < map[j].start
  /\ \/ last = Last(map[i])
     \/ \E j \in DOMAIN map : RangeBytes(map[j]) # 0 /\ map[j].start > a /\ map[j].start = last + 1

captureVars == <<attempt, size, pools, map>>

Answer(n) ==
  /\ phase' = "answer"
  /\ available' = n
  /\ answer' = (n >= query.len)

\* A bad length, or a range that wraps around.
RangeRefusable(q) == q.len = 0 \/ q.addr > MaxAddr - (q.len - 1)

Ask ==
  /\ phase \in {"ready", "answer"}
  /\ \E q \in Queries :
       /\ query' = q
       /\ cursor' = q.addr /\ available' = 0 /\ answer' = FALSE
       /\ phase' = IF RangeRefusable(q) THEN "answer" ELSE "walk"
  /\ UNCHANGED captureVars

\* Every round looks at all descriptors, and the first finds a bad one.
Malformed ==
  /\ phase = "walk" /\ \E i \in DOMAIN map : ~WellFormed(map[i])
  /\ phase' = "answer" /\ available' = 0 /\ answer' = FALSE
  /\ UNCHANGED <<query, cursor, captureVars>>

\* A hole, an overlap or an access that is not allowed ends the walk.
StopWalk ==
  /\ phase = "walk" /\ \A i \in DOMAIN map : WellFormed(map[i])
  /\ \A i \in DOMAIN map : ~Usable(i, cursor)
  /\ Answer(available)
  /\ UNCHANGED <<query, cursor, captureVars>>

\* How many bytes there are up to an address, in an unsigned integer.
Count(last) ==
  IF last - query.addr >= MaxAddr THEN MaxAddr ELSE last - query.addr + 1

\* Enough for a caller that only wants to know whether it is.
EndsWithLength(last) == ~query.exact /\ Count(last) >= query.len

\* The walk has seen enough.
Ends(last) == EndsWithLength(last) \/ last = MaxAddr

Walk ==
  /\ phase = "walk" /\ \A i \in DOMAIN map : WellFormed(map[i])
  /\ \E i \in DOMAIN map, last \in cursor .. MaxAddr :
       /\ Usable(i, cursor) /\ CoveredLast(i, cursor, last)
       /\ \/ Ends(last) /\ Answer(Count(last)) /\ UNCHANGED cursor
          \/ /\ ~Ends(last)
             /\ cursor' = last + 1 /\ available' = Count(last)
             /\ UNCHANGED <<phase, answer>>
  /\ UNCHANGED <<query, captureVars>>

MemoryMapRelease ==
  /\ phase \in {"ready", "answer"}
  /\ pools' = pools - 1 /\ map' = << >>
  /\ query' = NoQuery /\ cursor' = 0 /\ available' = 0 /\ answer' = FALSE
  /\ phase' = "released"
  /\ UNCHANGED <<attempt, size>>

\* A client that has its answer, or none, may ask for a new snapshot.
Again ==
  /\ phase \in {"released", "failed"}
  /\ phase' = "start"
  /\ UNCHANGED <<walkVars, captureVars>>

MapNext ==
  \/ GetSize \/ Allocate \/ Captured \/ Grown \/ CaptureFailed
  \/ Ask \/ Malformed \/ StopWalk \/ Walk \/ MemoryMapRelease \/ Again

MapSpec == MapInit /\ [][MapNext]_mapVars

-----------------------------------------------------------------------------
(* Properties.                                                             *)

\* No counter wraps around: the walk does not leave the address space and the
\* capture does not try more often than it may.
TypeOK ==
  /\ phase \in {"start", "allocate", "capture", "ready", "walk", "answer", "released", "failed"}
  /\ attempt \in 0 .. Attempts /\ size \in 0 .. MaxSize
  /\ pools \in 0 .. 1
  /\ map \in Seq(Descriptor)
  /\ query \in Query
  /\ cursor \in Addr /\ available \in Addr /\ answer \in BOOLEAN

\* What the walk is for: an address may be accessed if exactly one descriptor
\* covers it and that one allows it.
Accessible(a) == \E i \in DOMAIN map : Usable(i, a)

\* The answer is yes exactly if every address of the range may be accessed, the
\* map is well formed and the range exists.  A caller who asked for the number of
\* bytes is told all that follow without a gap, and not one more.
WalkExact ==
  phase = "answer" =>
    LET sane == (\A i \in DOMAIN map : WellFormed(map[i])) /\ ~RangeRefusable(query)
    IN  /\ answer = (sane /\ \A a \in query.addr .. query.addr + (query.len - 1) : Accessible(a))
        /\ ~sane => available = 0
        /\ \A a \in query.addr .. query.addr + (available - 1) : Accessible(a)
        /\ query.exact /\ sane =>
             \/ query.addr + available > MaxAddr
             \/ available = MaxAddr
             \/ ~Accessible(query.addr + available)

\* However often the map grows and whatever fails, a client that got a snapshot
\* owns its buffer, and nobody else has one.
SnapshotOwned ==
  /\ phase \in {"ready", "walk", "answer"} => pools = 1 /\ map # << >>
  /\ phase \in {"start", "released", "failed"} => pools = 0 /\ map = << >>

=============================================================================
