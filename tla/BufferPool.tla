----------------------------- MODULE BufferPool -----------------------------
(***************************************************************************)
(* The Vulkan buffer pool (src/src/vulkan/runtime_buffer_state.h and       *)
(* runtime_buffer.cpp): buffers are sub-allocated first-fit from memory    *)
(* blocks, each with a sorted free list of ranges.  The pool's mutex makes *)
(* reserving and releasing a span atomic; creating, binding and destroying *)
(* the VkBuffer happen outside it, so several buffers may be under way.    *)
(* Offsets and sizes are in units the instance chooses.                    *)
(***************************************************************************)
EXTENDS Integers, Sequences, SequencesExt, FiniteSets, FiniteSetsExt

CONSTANTS Buffers,      \* Buffer::Impl objects
          BlockIds,     \* device memory objects the driver grants at a time; positive numbers
          BlockBytes,   \* block_bytes of the pool
          HeapBytes,    \* size of every memory heap
          Atom,         \* non_coherent_atom_size
          MemoryTypes,  \* the property flags of each memory type
          Requests      \* what allocate is asked for and what the driver requires for it

\* Alignments and the atom are powers of two, as Vulkan guarantees: of two, one divides the other.
ASSUME PoolAssumption ==
  /\ BlockIds \subseteq Nat \ {0}
  /\ BlockBytes \in Nat \ {0} /\ HeapBytes \in Nat /\ Atom \in Nat \ {0}
  /\ DOMAIN MemoryTypes \subseteq Nat \ {0}
  /\ Requests # {}
  /\ \A r \in Requests :
       /\ r.size \in Nat \ {0} /\ r.alignment \in Nat \ {0}
       /\ r.alignment % Atom = 0 \/ Atom % r.alignment = 0
       /\ r.dedicated \in BOOLEAN /\ r.addressable \in BOOLEAN
       /\ r.usage \in {"device", "upload", "readback"}
       /\ r.types \subseteq DOMAIN MemoryTypes

VARIABLES
  blocks,  \* the pool's vector of blocks, in order
  block,   \* the block with each identity
  stage,   \* "none", "created", "reserved", "live", "releasing"
  req,     \* the request a buffer was created for
  place    \* the span reserved for it

poolVars == <<blocks, block, stage, req, place>>

NoBlock == [bytes |-> 0, type |-> 0, dedicated |-> FALSE, addressable |-> FALSE, failed |-> FALSE,
            used |-> 0, free |-> <<>>]
NoPlace == [block |-> 0, offset |-> 0, bytes |-> 0]
NoRequest == CHOOSE r \in Requests : TRUE

Span(o, n) == [offset |-> o, bytes |-> n]
End(r) == r.offset + r.bytes

Holders(i) == {b \in Buffers : place[b].block = i}

PoolTypeOK ==
  /\ blocks \in Seq(BlockIds) /\ IsInjective(blocks)
  /\ \A i \in BlockIds :
       /\ block[i].bytes \in Nat /\ block[i].type \in DOMAIN MemoryTypes \cup {0}
       /\ block[i].used \in 0 .. block[i].bytes
       /\ \A k \in DOMAIN block[i].free :
            /\ block[i].free[k].offset \in Nat /\ block[i].free[k].bytes \in Nat \ {0}
            /\ End(block[i].free[k]) <= block[i].bytes
  /\ stage \in [Buffers -> {"none", "created", "reserved", "live", "releasing"}]
  /\ req \in [Buffers -> Requests]
  /\ \A b \in Buffers :
       IF stage[b] \in {"none", "created"} THEN place[b] = NoPlace
       ELSE place[b].block \in ToSet(blocks) /\ place[b].offset \in Nat /\ place[b].bytes \in Nat \ {0}

PoolInit ==
  /\ blocks = <<>>
  /\ block = [i \in BlockIds |-> NoBlock]
  /\ stage = [b \in Buffers |-> "none"]
  /\ req = [b \in Buffers |-> NoRequest]
  /\ place = [b \in Buffers |-> NoPlace]

-----------------------------------------------------------------------------
(* Memory types, sizes and alignments.                                     *)

Required(usage) == IF usage = "device" THEN {"device_local"} ELSE {"host_visible"}
Preferred(usage) ==
  CASE usage = "device"   -> {}
    [] usage = "upload"   -> {"host_coherent"}
    [] usage = "readback" -> {"host_coherent", "host_cached"}

Eligible(r) == {i \in r.types : Required(r.usage) \subseteq MemoryTypes[i]}
Score(r, i) == Cardinality(Preferred(r.usage) \cap MemoryTypes[i])

\* choose_memory_type: the first of those with the best score.
MemoryTypeOf ==
  [r \in {q \in Requests : Eligible(q) # {}} |->
     Min({i \in Eligible(r) : \A j \in Eligible(r) : Score(r, j) <= Score(r, i)})]
ChosenType(r) == MemoryTypeOf[r]

Coherent(type) == "host_coherent" \in MemoryTypes[type]
HostVisible(type) == "host_visible" \in MemoryTypes[type]

AlignUp(v, a) == ((v + a - 1) \div a) * a
AlignDown(v, a) == v - (v % a)

AtomAlignment(r) == Atom  \* mistake
SpanAlignment(r) == IF HostVisible(ChosenType(r)) THEN Max({r.alignment, Atom}) ELSE r.alignment
DriverBytes(r) == r.size  \* mistake
SpanBytes(r) == IF HostVisible(ChosenType(r)) THEN AlignUp(r.size, Atom) ELSE r.size

\* A block's size: block_bytes, clamped to an eighth of the heap, or more if the buffer needs it.
NewBlockBytes(r) ==
  IF r.dedicated THEN SpanBytes(r)
  ELSE AlignUp(Max({SpanBytes(r), Min({BlockBytes, Max({HeapBytes \div 8, SpanBytes(r)})})}),
               SpanAlignment(r))

-----------------------------------------------------------------------------
(* Free lists.                                                             *)

FitsUnaligned(range, n, a) == n <= range.bytes  \* mistake
Fits(range, n, a) == AlignUp(range.offset, a) + n <= End(range)

FirstFit(free, n, a) == SelectInSeq(free, LAMBDA range : Fits(range, n, a))

NonEmpty(range) == IF range.bytes = 0 THEN <<>> ELSE <<range>>

Suffix(range, at, n) == Span(at + n, End(range) - at - n)

\* take_range: the span is cut out of the first range it fits, alignment gaps stay free.
TakeRange(free, n, a) ==
  LET k == FirstFit(free, n, a)
      at == AlignUp(free[k].offset, a)
  IN [at |-> at,
      free |-> SubSeq(free, 1, k - 1)
               \o NonEmpty(Span(free[k].offset, at - free[k].offset))
               \o NonEmpty(Suffix(free[k], at, n))
               \o SubSeq(free, k + 1, Len(free))]

\* The span lies inside the range, a gap on each side: the free list grows, and that may fail.
Splits(free, n, a) ==
  LET range == free[FirstFit(free, n, a)]
      at == AlignUp(range.offset, a)
  IN range.offset < at /\ at + n < End(range)

TouchesNever(left, right) == FALSE  \* mistake
Touches(left, right) == End(left) = right.offset

\* std::lower_bound: the position of the first range that does not begin before the offset.
LowerBound(free, offset) ==
  LET k == SelectInSeq(free, LAMBDA x : x.offset >= offset) IN IF k = 0 THEN Len(free) + 1 ELSE k

\* release: insert at its place and coalesce with both neighbours.
Insert(free, range) ==
  LET k == LowerBound(free, range.offset)
      before == SubSeq(free, 1, k - 1)
      after  == SubSeq(free, k, Len(free))
      l == before # <<>> /\ Touches(Last(before), range)
      r == after # <<>> /\ Touches(range, Head(after))
      from == IF l THEN Last(before).offset ELSE range.offset
      to == IF r THEN End(Head(after)) ELSE End(range)
  IN (IF l THEN Front(before) ELSE before) \o <<Span(from, to - from)>>
     \o (IF r THEN Tail(after) ELSE after)

-----------------------------------------------------------------------------
(* BufferPool::allocate.                                                   *)

\* vkCreateBuffer, and the memory requirements of the new buffer.
Create(b, r) ==
  /\ stage[b] = "none"
  /\ stage' = [stage EXCEPT ![b] = "created"]
  /\ req' = [req EXCEPT ![b] = r]
  /\ UNCHANGED <<blocks, block, place>>

\* Before anything is reserved a failure only destroys the VkBuffer: no memory type fits, or
\* vkAllocateMemory or vkMapMemory fails, or the free list cannot grow for a split.
Abandon(b) ==
  /\ stage' = [stage EXCEPT ![b] = "none"]
  /\ req' = [req EXCEPT ![b] = NoRequest]
  /\ UNCHANGED <<blocks, block, place>>

\* The blocks of the pool that may hold the request, by position.
Candidates(r) ==
  {k \in DOMAIN blocks :
     LET candidate == block[blocks[k]]
     IN /\ ~r.dedicated /\ ~candidate.dedicated /\ ~candidate.failed
        /\ candidate.type = ChosenType(r)
        /\ r.addressable => candidate.addressable
        /\ FirstFit(candidate.free, SpanBytes(r), SpanAlignment(r)) # 0}

Reserve(b, i, target) ==
  LET r == req[b]
      taken == TakeRange(target.free, SpanBytes(r), SpanAlignment(r))
  IN /\ block' = [block EXCEPT ![i] =
                    [target EXCEPT !.free = taken.free, !.used = @ + SpanBytes(r)]]
     /\ place' = [place EXCEPT ![b] = [block |-> i, offset |-> taken.at, bytes |-> SpanBytes(r)]]
     /\ stage' = [stage EXCEPT ![b] = "reserved"]
     /\ UNCHANGED req

ReserveInBlock(b) ==
  /\ stage[b] = "created" /\ Eligible(req[b]) # {}
  /\ Candidates(req[b]) # {}
  /\ LET i == blocks[Min(Candidates(req[b]))] IN Reserve(b, i, block[i])
  /\ UNCHANGED blocks

ReserveNewBlock(b) ==
  /\ stage[b] = "created" /\ Eligible(req[b]) # {}
  /\ Candidates(req[b]) = {}
  /\ BlockIds \ ToSet(blocks) # {}
  /\ LET r == req[b]
         i == Min(BlockIds \ ToSet(blocks))
         n == NewBlockBytes(r)
     IN /\ Reserve(b, i, [NoBlock EXCEPT !.bytes = n, !.type = ChosenType(r),
                                         !.dedicated = r.dedicated, !.addressable = r.addressable,
                                         !.free = <<Span(0, n)>>])
        /\ blocks' = Append(blocks, i)

AllocationFails(b) ==
  /\ stage[b] = "created"
  /\ Eligible(req[b]) # {} => Candidates(req[b]) = {}
  /\ Abandon(b)

SplitFails(b) ==
  /\ stage[b] = "created" /\ Eligible(req[b]) # {}
  /\ Candidates(req[b]) # {}
  /\ LET r == req[b] IN Splits(block[blocks[Min(Candidates(r))]].free, SpanBytes(r), SpanAlignment(r))
  /\ Abandon(b)

\* vkBindBufferMemory; its failure destroys the buffer and releases the span.
Bind(b) ==
  /\ stage[b] = "reserved"
  /\ \E s \in {"live", "releasing"} : stage' = [stage EXCEPT ![b] = s]
  /\ UNCHANGED <<blocks, block, req, place>>

-----------------------------------------------------------------------------
(* Destruction and trimming.                                               *)

\* The blocks that are kept when others are erased, in their order.
Remaining(kept) ==
  LET first[n \in 0 .. Len(blocks)] ==
        IF n = 0 THEN <<>>
        ELSE IF blocks[n] \in kept THEN Append(first[n - 1], blocks[n]) ELSE first[n - 1]
  IN first[Len(blocks)]

\* ~Buffer::Impl destroys the VkBuffer, then releases its span.
Destroy(b) ==
  /\ stage[b] = "live"
  /\ stage' = [stage EXCEPT ![b] = "releasing"]
  /\ UNCHANGED <<blocks, block, req, place>>

RetiredIfDedicated(blk) == blk.dedicated  \* mistake
Retired(blk) == blk.dedicated \/ blk.failed

\* Growing the free list may fail: the block is then never reused, and its free list forgotten.
Release(b) ==
  /\ stage[b] = "releasing"
  /\ \E outOfMemory \in BOOLEAN :
       LET i == place[b].block
           fails == block[i].failed \/ outOfMemory
           span == Span(place[b].offset, place[b].bytes)
           blk == [block[i] EXCEPT !.used = @ - place[b].bytes,
                                   !.failed = fails,
                                   !.free = IF fails THEN <<>> ELSE Insert(@, span)]
           gone == Retired(blk) /\ blk.used = 0
       IN /\ blocks' = IF gone THEN Remaining(BlockIds \ {i}) ELSE blocks
          /\ block' = [block EXCEPT ![i] = IF gone THEN NoBlock ELSE blk]
  /\ stage' = [stage EXCEPT ![b] = "none"]
  /\ req' = [req EXCEPT ![b] = NoRequest]
  /\ place' = [place EXCEPT ![b] = NoPlace]

Trim ==
  /\ blocks' = Remaining({i \in BlockIds : block[i].used # 0})
  /\ block' = [i \in BlockIds |-> IF block[i].used = 0 THEN NoBlock ELSE block[i]]
  /\ UNCHANGED <<stage, req, place>>

PoolNext ==
  \/ \E b \in Buffers :
       \/ \E r \in Requests : Create(b, r)
       \/ ReserveInBlock(b) \/ ReserveNewBlock(b) \/ AllocationFails(b) \/ SplitFails(b)
       \/ Bind(b) \/ Destroy(b) \/ Release(b)
  \/ Trim

PoolSpec == PoolInit /\ [][PoolNext]_poolVars

-----------------------------------------------------------------------------
(* Properties.                                                             *)

Bytes(range) == range.offset .. (End(range) - 1)

\* No two buffers share a byte of device memory, through any order of allocations, bind failures,
\* releases and trims, and each starts at an offset its requirements allow.
SpansDisjoint ==
  \A b \in Buffers : place[b] # NoPlace =>
    /\ place[b].offset % req[b].alignment = 0
    /\ End(place[b]) <= block[place[b].block].bytes
    /\ \A c \in Holders(place[b].block) \ {b} : Bytes(place[b]) \cap Bytes(place[c]) = {}

Reserved(i) == UNION {Bytes(place[b]) : b \in Holders(i)}
Vacant(free) == UNION {Bytes(x) : x \in ToSet(free)}

\* The free list of a reusable block is exact and canonical: sorted, fully coalesced, and together
\* with the reserved spans it covers every byte of the block once.  Nothing leaks and a block whose
\* buffers are gone is one range again.
FreeListExact ==
  \A k \in DOMAIN blocks :
    LET blk == block[blocks[k]]
    IN /\ blk.used = Cardinality(Reserved(blocks[k]))
       /\ \A x, y \in DOMAIN blk.free : x < y => End(blk.free[x]) < blk.free[y].offset
       /\ ~blk.failed => Vacant(blk.free) = (0 .. blk.bytes - 1) \ Reserved(blocks[k])

\* A block that cannot be reused is not kept once it is empty: dedicated memory and blocks whose
\* bookkeeping failed go back to the driver without a trim.
NoDeadBlocks == \A k \in DOMAIN blocks :
  LET blk == block[blocks[k]] IN blk.dedicated \/ blk.failed => blk.used > 0

\* Buffer::Impl::mapped_range for a part of a buffer.
MappedRange(b, from, n) ==
  LET begin == AlignDown(place[b].offset + from, Atom)
      end == Min({End(place[b]), AlignUp(place[b].offset + from + n, Atom)})
  IN Span(begin, end - begin)

\* Flushing or invalidating part of a buffer rounds to whole atoms, as vkFlushMappedMemoryRanges
\* demands, and still never reaches into a neighbour, whose pending host writes an invalidation
\* would destroy.
FlushStaysInside ==
  \A b \in Buffers : stage[b] = "live" /\ HostVisible(ChosenType(req[b])) /\ ~Coherent(ChosenType(req[b])) =>
    \A from \in 0 .. (req[b].size - 1) : \A n \in 1 .. (req[b].size - from) :
      LET range == MappedRange(b, from, n)
      IN /\ place[b].offset <= range.offset /\ End(range) <= End(place[b])
         /\ range.offset <= place[b].offset + from /\ place[b].offset + from + n <= End(range)
         /\ range.offset % Atom = 0 /\ range.bytes % Atom = 0

\* Buffers that share a block never touch each other's bytes, neither by use nor by a flush.
BuffersStayApart == SpansDisjoint /\ FlushStaysInside

\* What a block has free and reserved adds up, and a block nothing can use again is gone.
BlocksBalance == FreeListExact /\ NoDeadBlocks

\* Buffers never touch each other's bytes and every block's free list is exact.
PoolIsSound == BuffersStayApart /\ BlocksBalance
=============================================================================
