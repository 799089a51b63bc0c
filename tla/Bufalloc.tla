------------------------------ MODULE Bufalloc ------------------------------
(***************************************************************************)
(* The buffer allocator of lib/CL/devices/bufalloc.c and its only client   *)
(* that is concurrent, the pthread device (allocate_aligned_buffer and     *)
(* pocl_pthread_free in lib/CL/devices/pthread/pthread.c).                 *)
(*                                                                         *)
(* A device keeps a list of memory regions.  A region is cut into chunks,  *)
(* kept in a list in address order; the chunk records come from a fixed    *)
(* array (all_chunks), the unused ones wait in free_chunks.  The last      *)
(* chunk, the sentinel, is the unallocated rest of the region.             *)
(*                                                                         *)
(* An allocation holds mem_regions_lock from beginning to end, and takes   *)
(* the lock of a region for each of its attempts on it.  A free takes only *)
(* the lock of one region at a time and walks the region list without      *)
(* mem_regions_lock.  Each action below is one critical section of a       *)
(* region lock, or one step on the region list.                            *)
(***************************************************************************)
EXTENDS Integers, Sequences, FiniteSets

CONSTANTS
  Threads,      \* the threads that call the allocator
  Handles,      \* names of the buffers a client may hold at one time
  Chunks,       \* all_chunks: the chunk records of a region
  Sizes,        \* the sizes clients ask for
  Align,        \* region->alignment (MAX_EXTENDED_ALIGNMENT)
  Strategy,     \* region->strategy
  EvalOrders,   \* orders in which the compiler may evaluate call arguments
  Additional,   \* ADDITIONAL_ALLOCATION_MAX_MB, in the unit of Sizes
  Multiple,     \* ALLOCATION_MULTIPLE
  SizeMod,      \* 2^w for a size_t of w bits
  IntHalf,      \* 2^(w-1) for an int of w bits
  HeapGap,      \* what malloc keeps between two blocks (its own header)
  MaxRegions,   \* bound: how many regions the host can give
  None          \* no thread, no chunk

Strategies == {"WASTEFUL", "TIGHT"}

\* The arguments of coalesce_chunks (coalesce_chunks (p, c), c->next): c->next
\* is read after the inner call ("inner_first") or before it ("next_first").
ArgumentOrders == {"inner_first", "next_first"}

ASSUME SizesAssumption == Sizes \subseteq Nat \ {0}
ASSUME AlignAssumption == Align \in Nat \ {0}
ASSUME WidthAssumption == SizeMod \in Nat \ {0} /\ IntHalf \in Nat \ {0}
ASSUME GrowthAssumption == Additional \in Nat /\ Multiple \in Nat
ASSUME HeapAssumption == HeapGap \in Nat \ {0} /\ MaxRegions \in Nat
ASSUME OrderAssumption == /\ Strategy \in Strategies
                          /\ EvalOrders \subseteq ArgumentOrders
ASSUME NoneAssumption == None \notin Threads /\ None \notin Chunks /\ None \notin Handles
ASSUME ChunksAssumption == IsFiniteSet(Chunks) /\ Cardinality(Chunks) >= 2

VARIABLES
  regions,       \* d->mem_regions, the region list
  unlinked,      \* index of the region whose next pointer is not yet set, or 0
  regions_lock,  \* the holder of d->mem_regions_lock, or None
  pc,            \* where each thread is
  cur,           \* the region a thread works on (an index in regions)
  handle,        \* the buffer a thread allocates or frees
  bufs           \* what the clients know of each buffer

vars == <<regions, unlinked, regions_lock, pc, cur, handle, bufs>>
-----------------------------------------------------------------------------
(* Addresses and sizes.                                                    *)

\* The closest aligned address at or above a.
AlignUp(a) == a + ((-a) % Align)

\* The conversion of a size_t to int.
ToInt(x) == ((x + IntHalf) % (2 * IntHalf)) - IntHalf

End(ch) == ch.start + ch.size

chunk_slack(ch, size) == ToInt(End(ch) - (AlignUp(ch.start) + size))

\* Mistaken form: refuses a chunk of exactly the size asked for.
FitsStrict(ch, size) == chunk_slack(ch, size) > 0

Fits(ch, size) == chunk_slack(ch, size) >= 0

region_size(size) ==
  LET more  == (size + Additional) % SizeMod
      times == (size * Multiple) % SizeMod
      grown == IF more < times THEN more ELSE times
  IN  IF grown > size THEN grown ELSE size
-----------------------------------------------------------------------------
(* A region: the record array, the chunk list (indices into the array, in  *)
(* list order), the unused records and the sentinel; base and size are the *)
(* memory the region manages.                                              *)

Chunk == [start : Nat, size : Nat, alloc : BOOLEAN]

Region == [chunk : [Chunks -> Chunk], chunks : Seq(Chunks),
           free : SUBSET Chunks, last : Chunks, base : Nat, size : Nat]

\* The chunk at position i of the list of region R.
At(R, i) == R.chunk[R.chunks[i]]

Delete(seq, i) == [j \in 1..(Len(seq) - 1) |-> IF j < i THEN seq[j] ELSE seq[j + 1]]

\* What a record in free_chunks contains is never read.
Unused == [start |-> 0, size |-> 0, alloc |-> FALSE]

init_mem_region(base, size, first) ==
  [chunk  |-> [c \in Chunks |->
                 IF c = first THEN [start |-> base, size |-> size, alloc |-> FALSE]
                 ELSE Unused],
   chunks |-> <<first>>, free |-> Chunks \ {first}, last |-> first,
   base   |-> base, size |-> size]

\* Mistaken form: does not look at the size of the sentinel.
CanAppendUnchecked(R, size) == R.free # {}

CanAppend(R, size) == Fits(R.chunk[R.last], size) /\ R.free # {}

\* Mistaken form: the new chunk is put behind the sentinel.
append_behind_sentinel(R, size, c) ==
  LET rest == R.chunk[R.last]
      new  == [start |-> AlignUp(rest.start), size |-> size, alloc |-> TRUE]
  IN  [R EXCEPT !.chunk  = [R.chunk EXCEPT
                             ![c] = new,
                             ![R.last] = [rest EXCEPT !.start = End(new),
                                                      !.size = chunk_slack(rest, size)]],
                !.chunks = Append(R.chunks, c),
                !.free   = R.free \ {c}]

\* The chunk record c becomes an allocated chunk in front of the sentinel.
append_new_chunk(R, size, c) ==
  LET rest == R.chunk[R.last]
      new  == [start |-> AlignUp(rest.start), size |-> size, alloc |-> TRUE]
      lastpos == CHOOSE i \in 1..Len(R.chunks) : R.chunks[i] = R.last
  IN  [R EXCEPT !.chunk  = [R.chunk EXCEPT
                             ![c] = new,
                             ![R.last] = [rest EXCEPT !.start = End(new),
                                                      !.size = chunk_slack(rest, size)]],
                !.chunks = Delete(R.chunks, lastpos) \o <<c, R.last>>,
                !.free   = R.free \ {c}]

\* Mistaken form: takes chunks that are allocated.
ReusableAllocated(R, size, i) == R.chunks[i] # R.last /\ Fits(At(R, i), size)

\* Position i holds a freed chunk that can be given out again as it is.
Reusable(R, size, i) == /\ R.chunks[i] # R.last
                        /\ ~At(R, i).alloc
                        /\ Fits(At(R, i), size)

FirstFit(R, size, i) == /\ Reusable(R, size, i)
                        /\ \A j \in 1..(i - 1) : ~Reusable(R, size, j)

reuse_chunk(R, i) == [R EXCEPT !.chunk[R.chunks[i]].alloc = TRUE]

\* Merges the chunks at positions i and i + 1 if both are unallocated.  Where
\* the code is given the list head's prev (the tail), or no next, it returns
\* without merging: those are the positions 0 and Len.
Mergeable(R, i) == /\ i \in 1..(Len(R.chunks) - 1)
                   /\ ~At(R, i).alloc
                   /\ ~At(R, i + 1).alloc
                   /\ At(R, i).start <= At(R, i + 1).start

\* The records after the chunk at i took over the next one and has this size.
Merged(R, i, size) == [R.chunk EXCEPT ![R.chunks[i]].size = size,
                                      ![R.chunks[i + 1]] = Unused]

\* Mistaken form: the sentinel may be merged away without a successor.
coalesce_losing_sentinel(R, i) ==
  IF ~Mergeable(R, i) THEN R
  ELSE [R EXCEPT !.chunk  = Merged(R, i, End(At(R, i + 1)) - At(R, i).start),
                 !.chunks = Delete(R.chunks, i + 1),
                 !.free   = R.free \cup {R.chunks[i + 1]}]

\* Mistaken form: the record of the second chunk is not given back.
coalesce_losing_record(R, i) ==
  IF ~Mergeable(R, i) THEN R
  ELSE LET second == R.chunks[i + 1]
       IN  [R EXCEPT !.chunk  = Merged(R, i, End(At(R, i + 1)) - At(R, i).start),
                     !.chunks = Delete(R.chunks, i + 1),
                     !.last   = IF R.last = second THEN R.chunks[i] ELSE R.last]

\* Mistaken form: adds the sizes, and so loses what alignment skipped.
coalesce_adding_sizes(R, i) ==
  IF ~Mergeable(R, i) THEN R
  ELSE LET second == R.chunks[i + 1]
       IN  [R EXCEPT !.chunk  = Merged(R, i, At(R, i).size + At(R, i + 1).size),
                     !.chunks = Delete(R.chunks, i + 1),
                     !.free   = R.free \cup {second},
                     !.last   = IF R.last = second THEN R.chunks[i] ELSE R.last]

coalesce_chunks(R, i) ==
  IF ~Mergeable(R, i) THEN R
  ELSE LET second == R.chunks[i + 1]
       IN  [R EXCEPT !.chunk  = Merged(R, i, End(At(R, i + 1)) - At(R, i).start),
                     !.chunks = Delete(R.chunks, i + 1),
                     !.free   = R.free \cup {second},
                     !.last   = IF R.last = second THEN R.chunks[i] ELSE R.last]

\* Mistaken form: merges with the predecessor only.
free_without_next(R, i, order) ==
  coalesce_chunks([R EXCEPT !.chunk[R.chunks[i]].alloc = FALSE], i - 1)

\* Mistaken form: the chunk stays marked as allocated.
free_still_allocated(R, i, order) == R

\* The chunk at position i is freed: merged with its predecessor, and the result
\* with the next chunk.  When the first merge returns the freed record to
\* free_chunks its next pointer becomes NULL, so that an order of evaluation
\* that reads c->next afterwards finds no next chunk.
free_chunk(R, i, order) ==
  LET freed  == [R EXCEPT !.chunk[R.chunks[i]].alloc = FALSE]
      merged == coalesce_chunks(freed, i - 1)
  IN  IF Mergeable(freed, i - 1)
      THEN IF order = "next_first" THEN coalesce_chunks(merged, i - 1) ELSE merged
      ELSE coalesce_chunks(merged, i)

\* Position i holds the chunk that free_buffer finds at address addr.
FoundAt(R, addr, i) == /\ At(R, i).start = addr
                       /\ \A j \in 1..(i - 1) : At(R, j).start # addr
-----------------------------------------------------------------------------
(* The pthread device.                                                     *)

\* A buffer: its request, its address once the client has it, and the chunk
\* (region and record) that backs it.
NoBuffer == [st |-> "none", size |-> 0, addr |-> 0, reg |-> 0, rec |-> None]

Init ==
  /\ regions = <<>>
  /\ unlinked = 0
  /\ regions_lock = None
  /\ pc = [t \in Threads |-> "idle"]
  /\ cur = [t \in Threads |-> 0]
  /\ handle = [t \in Threads |-> None]
  /\ bufs = [h \in Handles |-> NoBuffer]

\* Where an attempt on a region begins, and where it goes on when it failed.
FirstTry == IF Strategy = "WASTEFUL" THEN "append" ELSE "reuse"

\* alloc_buffer goes on to region i, or leaves the list.
Try(t, i) ==
  /\ cur' = [cur EXCEPT ![t] = i]
  /\ pc' = [pc EXCEPT ![t] = IF i <= Len(regions) THEN FirstTry ELSE "newregion"]

\* No attempt on the current region succeeded.  On a region that was created for
\* this request the code asserts that this does not happen.
RegionFailed(t) ==
  IF pc[t] \in {"append_new", "reuse_new"}
  THEN pc' = [pc EXCEPT ![t] = "assert_failed"] /\ UNCHANGED cur
  ELSE Try(t, cur[t] + 1)

\* The request of thread t is served by record c of its current region.
Serve(t, R, c) ==
  /\ regions' = [regions EXCEPT ![cur[t]] = R]
  /\ bufs' = [bufs EXCEPT ![handle[t]].reg = cur[t], ![handle[t]].rec = c]
  /\ pc' = [pc EXCEPT ![t] = "unlock"]
  /\ UNCHANGED cur

\* allocate_aligned_buffer: lock the region list, start with its first region.
Malloc(t, h, size) ==
  /\ pc[t] = "idle"
  /\ bufs[h].st = "none"
  /\ regions_lock = None
  /\ regions_lock' = t
  /\ handle' = [handle EXCEPT ![t] = h]
  /\ bufs' = [bufs EXCEPT ![h].st = "pending", ![h].size = size]
  /\ Try(t, 1)
  /\ UNCHANGED <<regions, unlinked>>

\* append_new_chunk on the current region.
AppendChunk(t) ==
  LET R == regions[cur[t]]
      size == bufs[handle[t]].size
      next == IF pc[t] = "append" THEN "reuse" ELSE "reuse_new"
  IN  /\ pc[t] \in {"append", "append_new"}
      /\ \/ /\ CanAppend(R, size)
            /\ \E c \in R.free : Serve(t, append_new_chunk(R, size, c), c)
         \/ /\ ~CanAppend(R, size)
            /\ IF Strategy = "WASTEFUL"
               THEN pc' = [pc EXCEPT ![t] = next] /\ UNCHANGED cur
               ELSE RegionFailed(t)
            /\ UNCHANGED <<regions, bufs>>
      /\ UNCHANGED <<unlinked, regions_lock, handle>>

\* The search of the current region for a freed chunk that is large enough.
ReuseChunk(t) ==
  LET R == regions[cur[t]]
      size == bufs[handle[t]].size
      next == IF pc[t] = "reuse" THEN "append" ELSE "append_new"
  IN  /\ pc[t] \in {"reuse", "reuse_new"}
      /\ \/ \E i \in 1..Len(R.chunks) :
              /\ FirstFit(R, size, i)
              /\ Serve(t, reuse_chunk(R, i), R.chunks[i])
         \/ /\ \A i \in 1..Len(R.chunks) : ~Reusable(R, size, i)
            /\ IF Strategy = "WASTEFUL"
               THEN RegionFailed(t)
               ELSE pc' = [pc EXCEPT ![t] = next] /\ UNCHANGED cur
            /\ UNCHANGED <<regions, bufs>>
      /\ UNCHANGED <<unlinked, regions_lock, handle>>

\* posix_memalign: an aligned address above every block given out before.
posix_memalign ==
  LET top == IF regions = <<>> THEN 0
             ELSE regions[Len(regions)].base + regions[Len(regions)].size
  IN  AlignUp(top + HeapGap)

\* No region could serve the request: get memory for a new one, of the preferred
\* size or else of the size asked for, and put it at the end of the list.  The
\* region becomes visible to frees when the tail points to it; its own next
\* pointer is set after that.
NewRegion(t) ==
  /\ pc[t] = "newregion"
  /\ Len(regions) < MaxRegions
  /\ \E size \in {region_size(bufs[handle[t]].size), bufs[handle[t]].size}, c \in Chunks :
       regions' = Append(regions, init_mem_region(posix_memalign, size, c))
  /\ unlinked' = Len(regions) + 1
  /\ pc' = [pc EXCEPT ![t] = "linked"]
  /\ UNCHANGED <<regions_lock, cur, handle, bufs>>

LinkRegion(t) ==
  /\ pc[t] = "linked"
  /\ unlinked' = 0
  /\ cur' = [cur EXCEPT ![t] = Len(regions)]
  /\ pc' = [pc EXCEPT ![t] = IF Strategy = "WASTEFUL" THEN "append_new" ELSE "reuse_new"]
  /\ UNCHANGED <<regions, regions_lock, handle, bufs>>

\* Mistaken form: the error path leaves the region list locked.
NoMemoryLocked(t) ==
  /\ pc[t] = "newregion"
  /\ bufs' = [bufs EXCEPT ![handle[t]] = NoBuffer]
  /\ handle' = [handle EXCEPT ![t] = None]
  /\ cur' = [cur EXCEPT ![t] = 0]
  /\ pc' = [pc EXCEPT ![t] = "idle"]
  /\ UNCHANGED <<regions, unlinked, regions_lock>>

\* malloc or both calls of posix_memalign failed: ENOMEM, the caller gets NULL.
NoMemory(t) ==
  /\ pc[t] = "newregion"
  /\ regions_lock' = None
  /\ bufs' = [bufs EXCEPT ![handle[t]] = NoBuffer]
  /\ handle' = [handle EXCEPT ![t] = None]
  /\ cur' = [cur EXCEPT ![t] = 0]
  /\ pc' = [pc EXCEPT ![t] = "idle"]
  /\ UNCHANGED <<regions, unlinked>>

MallocUnlock(t) ==
  /\ pc[t] = "unlock"
  /\ regions_lock' = None
  /\ pc' = [pc EXCEPT ![t] = "return"]
  /\ UNCHANGED <<regions, unlinked, cur, handle, bufs>>

\* *memptr = chunk->start_address, read when no lock is held any more.
MallocReturn(t) ==
  /\ pc[t] = "return"
  /\ bufs' = [bufs EXCEPT ![handle[t]].st = "held",
                          ![handle[t]].addr =
                             regions[cur[t]].chunk[bufs[handle[t]].rec].start]
  /\ handle' = [handle EXCEPT ![t] = None]
  /\ cur' = [cur EXCEPT ![t] = 0]
  /\ pc' = [pc EXCEPT ![t] = "idle"]
  /\ UNCHANGED <<regions, unlinked, regions_lock>>

\* pocl_pthread_free is called for a buffer that the client holds.
Free(t, h) ==
  /\ pc[t] = "idle"
  /\ bufs[h].st = "held"
  /\ bufs' = [bufs EXCEPT ![h].st = "freeing"]
  /\ handle' = [handle EXCEPT ![t] = h]
  /\ cur' = [cur EXCEPT ![t] = 1]
  /\ pc' = [pc EXCEPT ![t] = "free"]
  /\ UNCHANGED <<regions, unlinked, regions_lock>>

\* One region of free_buffer: free the first chunk with that address, or else
\* follow the next pointer of the region.  At the end of the list the caller
\* asserts that a region was found.
FreeInRegion(t) ==
  LET R == regions[cur[t]]
      addr == bufs[handle[t]].addr
  IN  /\ pc[t] = "free"
      /\ \/ \E i \in 1..Len(R.chunks), order \in EvalOrders :
              /\ FoundAt(R, addr, i)
              /\ regions' = [regions EXCEPT ![cur[t]] = free_chunk(R, i, order)]
              /\ bufs' = [bufs EXCEPT ![handle[t]] = NoBuffer]
              /\ handle' = [handle EXCEPT ![t] = None]
              /\ cur' = [cur EXCEPT ![t] = 0]
              /\ pc' = [pc EXCEPT ![t] = "idle"]
         \/ /\ \A i \in 1..Len(R.chunks) : At(R, i).start # addr
            /\ cur' = [cur EXCEPT ![t] = cur[t] + 1]
            /\ pc' = [pc EXCEPT ![t] = IF cur[t] = unlinked THEN "wild_pointer"
                                       ELSE IF cur[t] = Len(regions) THEN "assert_failed"
                                       ELSE "free"]
            /\ UNCHANGED <<regions, bufs, handle>>
      /\ UNCHANGED <<unlinked, regions_lock>>

Step(t) == \/ AppendChunk(t)
           \/ ReuseChunk(t)
           \/ NewRegion(t)
           \/ LinkRegion(t)
           \/ NoMemory(t)
           \/ MallocUnlock(t)
           \/ MallocReturn(t)
           \/ FreeInRegion(t)

Next == \E t \in Threads :
          \/ \E h \in Handles, size \in Sizes : Malloc(t, h, size)
          \/ \E h \in Handles : Free(t, h)
          \/ Step(t)

\* A thread that is inside a call is scheduled again; nobody has to call.
Fairness == \A t \in Threads : WF_vars(Step(t))

Spec == Init /\ [][Next]_vars /\ Fairness
-----------------------------------------------------------------------------
(* Properties.                                                             *)

Points == {"idle", "append", "reuse", "newregion", "linked", "append_new",
           "reuse_new", "unlock", "return", "free", "assert_failed", "wild_pointer"}

Buffer == [st : {"none", "pending", "held", "freeing"}, size : Sizes \cup {0},
           addr : Nat, reg : Nat, rec : Chunks \cup {None}]

\* Every variable has the type its C counterpart has; sizes and addresses do not
\* become negative, which in the code would be a size_t that wrapped around.
TypeOK ==
  /\ regions \in Seq(Region)
  /\ unlinked \in 0..Len(regions)
  /\ regions_lock \in Threads \cup {None}
  /\ pc \in [Threads -> Points]
  /\ cur \in [Threads -> Nat]
  /\ handle \in [Threads -> Handles \cup {None}]
  /\ bufs \in [Handles -> Buffer]

\* "Assumes the last_chunk is always the last chunk in the region and it is
\* unallocated" (append_new_chunk).
SentinelOK(R) == /\ R.chunks # <<>>
                 /\ R.chunks[Len(R.chunks)] = R.last
                 /\ ~R.chunk[R.last].alloc

SentinelIsLast == \A r \in 1..Len(regions) : SentinelOK(regions[r])

\* The list of a region is in address order, its chunks do not overlap, and they
\* stay inside the memory of the region.
OrderOK(R) == /\ \A i \in 1..Len(R.chunks) : /\ R.base <= At(R, i).start
                                             /\ End(At(R, i)) <= R.base + R.size
              /\ \A i, j \in 1..Len(R.chunks) : i < j => End(At(R, i)) <= At(R, j).start

ChunksInOrder == \A r \in 1..Len(regions) : OrderOK(regions[r])

\* Every chunk record of a region is in its chunk list, once, or unused: merging
\* and splitting neither lose a record nor list it twice.
RecordsOK(R) == /\ {R.chunks[i] : i \in 1..Len(R.chunks)} = Chunks \ R.free
                /\ \A i, j \in 1..Len(R.chunks) : R.chunks[i] = R.chunks[j] => i = j

RecordsConserved == \A r \in 1..Len(regions) : RecordsOK(regions[r])

Backed == {h \in Handles : bufs[h].rec # None}

Backing(h) == regions[bufs[h].reg].chunk[bufs[h].rec]

\* A buffer from the moment the allocator chose its chunk until free_buffer has
\* let go of it: the chunk is large enough, allocated and nobody else's, and the
\* address the client got is still the chunk's, although the client reads it when
\* no lock is held.
BuffersBacked ==
  \A h \in Backed :
    /\ bufs[h].reg \in 1..Len(regions)
    /\ bufs[h].rec \in Chunks \ regions[bufs[h].reg].free
    /\ Backing(h).alloc
    /\ Backing(h).size >= bufs[h].size
    /\ bufs[h].st \in {"held", "freeing"} => bufs[h].addr = Backing(h).start
    /\ \A g \in Backed : bufs[g].reg = bufs[h].reg /\ bufs[g].rec = bufs[h].rec => g = h

\* The memory of two buffers that clients hold at the same time never overlaps,
\* whatever the threads allocate and free in between.
BuffersDisjoint ==
  \A g, h \in Handles :
    g # h /\ bufs[g].st = "held" /\ bufs[h].st = "held" =>
      \/ bufs[g].addr + bufs[g].size <= bufs[h].addr
      \/ bufs[h].addr + bufs[h].size <= bufs[g].addr

\* No chunk stays allocated without a buffer: what is freed is really freed, also
\* when the free races with an allocation in the same region.
NoLeak ==
  \A r \in 1..Len(regions) : \A c \in Chunks \ regions[r].free :
    regions[r].chunk[c].alloc =>
      \E h \in Backed : bufs[h].reg = r /\ bufs[h].rec = c

\* None of the assertions of the code fails: an allocation in a region created for
\* it succeeds, and a free finds its chunk; in particular it finds it before it
\* follows the next pointer of a region that is still being linked.
NoFailure == \A t \in Threads : pc[t] \notin {"assert_failed", "wild_pointer"}

\* "Successive unallocated chunks in the region, if found, are merged to form
\* larger unallocated chunks" (free_chunk).
Coalesced ==
  \A r \in 1..Len(regions) : \A i \in 1..(Len(regions[r].chunks) - 1) :
    At(regions[r], i).alloc \/ At(regions[r], i + 1).alloc

\* When every buffer of a region has been freed, the region is one chunk again and
\* all of its memory, what alignment skipped included, can be allocated.
RegionReclaimed ==
  \A r \in 1..Len(regions) :
    (\A h \in Backed : bufs[h].reg # r) =>
       /\ Len(regions[r].chunks) = 1
       /\ At(regions[r], 1).start = regions[r].base
       /\ At(regions[r], 1).size = regions[r].size

\* Between the lock and the unlock of allocate_aligned_buffer.
Locked == {"append", "reuse", "newregion", "linked", "append_new", "reuse_new", "unlock"}

\* The lock of the region list is held by the thread that is in the locked part of
\* an allocation and by no other: no way out of it, the error path included, takes
\* the lock along, and no two threads are in it.
LockGivenBack == \A t \in Threads : regions_lock = t <=> pc[t] \in Locked
=============================================================================
