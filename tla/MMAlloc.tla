------------------------------- MODULE MMAlloc -------------------------------
(***************************************************************************)
(* The first-fit allocator of src/Personal/hw-memory/mm_alloc/mm_alloc.c  *)
(* on top of the growing sbrk of Sbrk, driven by a program that mallocs,  *)
(* reallocs, frees and writes its blocks.                                 *)
(*                                                                         *)
(* blocks is the block list from head in list order: a block's header    *)
(* starts at addr and holds size and isFree, its content starts H bytes   *)
(* later (H is sizeof(struct block)); prev/next are the neighbours in the *)
(* sequence.  mem is the byte contents of the heap's address range.       *)
(* kernel is Sbrk's [heapEnd, pagedir, freeFrames].  held maps each       *)
(* pointer the program holds to the bytes it expects to read there: zero  *)
(* after mm_malloc, what it wrote, and what mm_realloc copied.            *)
(***************************************************************************)
EXTENDS Naturals, Sequences, SequencesExt, Sbrk

CONSTANTS
    H,          \* sizeof(struct block)
    Size,       \* request sizes the program passes
    MaxHeld     \* most blocks the program holds at once

VARIABLES blocks, mem, kernel, held

vars == <<blocks, mem, kernel, held>>

NULL == 0

Addr == HeapStart .. ESP - 1

Content(b) == b.addr + H

Zeros(n) == [i \in 1..n |-> 0]

(* memset(a, 0, n) and memcpy(dst, src, n) on the heap's bytes. *)
Memset(m, a, n) == [x \in DOMAIN m |-> IF a <= x /\ x < a + n THEN 0 ELSE m[x]]
Memcpy(m, dst, src, n) ==
    [x \in DOMAIN m |-> IF dst <= x /\ x < dst + n THEN m[src + x - dst] ELSE m[x]]

(* The list position of the block whose content is ptr. *)
BlockAt(bs, ptr) == SelectInSeq(bs, LAMBDA b : Content(b) = ptr)

(* A heap: the allocator's and the kernel's state together. *)
Heap == [blocks |-> blocks, mem |-> mem, kernel |-> kernel]

(* createBlock(size): sbrk(size + sizeof(block)); on success the block at  *)
(* the old break, allocated, content zeroed.  The outcomes, with sbrk's    *)
(* return value and the new block.                                         *)
createBlock(h, size) ==
    {[h |-> [h EXCEPT !.kernel = o.k,
                      !.mem = IF o.ret = -1 THEN @ ELSE Memset(@, o.ret + H, size)],
      ret |-> o.ret,
      blk |-> [addr |-> o.ret, size |-> size, isFree |-> FALSE]] :
        o \in syscall_sbrk(h.kernel, size + H)}

(* splitBlock(cur, size): zero cur's content, shrink it to size and put a  *)
(* free block of the rest after it, behind a new header (addBlock).        *)
splitBlock(h, i, size) ==
    LET b == h.blocks[i]
        rest == [addr |-> Content(b) + size, size |-> b.size - size - H, isFree |-> TRUE]
    IN [h EXCEPT !.mem = Memset(@, Content(b), b.size),
                 !.blocks = SubSeq(@, 1, i - 1)
                            \o <<[b EXCEPT !.size = size, !.isFree = FALSE], rest>>
                            \o SubSeq(@, i + 1, Len(@))]

(* mergeBlocks(first, second) for the blocks at i and i + 1: first's size  *)
(* spans up to the end of second's content, second leaves the list, the    *)
(* merged content is zeroed.                                               *)
mergeBlocks(h, i) ==
    LET f == h.blocks[i]
        s == h.blocks[i + 1]
        size == Content(s) - Content(f) + s.size
    IN [h EXCEPT !.blocks = [RemoveAt(@, i + 1) EXCEPT ![i].size = size],
                 !.mem = Memset(@, Content(f), size)]

(* Mutant: a block is split whenever it is larger than the request. *)
TooLargeAny(b, size) == b.size > size

(* The reused block has room for the request twice and a header. *)
TooLarge(b, size) == b.size >= size * 2 + H

(* mm_malloc(size) for size > 0: the first free block of at least size     *)
(* bytes is split if it has room for size twice plus a header, otherwise   *)
(* zeroed and its size set to size; with none, a new block from sbrk is    *)
(* linked at the end.  The outcomes [h, ptr].                              *)
mm_malloc(h, size) ==
    LET i == SelectInSeq(h.blocks, LAMBDA b : b.isFree /\ b.size >= size)
        b == h.blocks[i]
    IN IF i # 0
         THEN IF TooLarge(b, size)
                THEN {[h |-> splitBlock(h, i, size), ptr |-> Content(b)]}
                ELSE {[h |-> [h EXCEPT !.mem = Memset(@, Content(b), b.size),
                                       !.blocks[i] = [b EXCEPT !.size = size, !.isFree = FALSE]],
                       ptr |-> Content(b)]}
         ELSE {[h |-> IF c.ret = -1 THEN c.h ELSE [c.h EXCEPT !.blocks = Append(@, c.blk)],
                ptr |-> IF c.ret = -1 THEN NULL ELSE Content(c.blk)] :
                 c \in createBlock(h, size)}

(* The two loops of mm_free: merge into free predecessors, then absorb     *)
(* free successors.                                                        *)
RECURSIVE MergePrev(_, _)
MergePrev(h, i) ==
    IF i > 1 /\ h.blocks[i - 1].isFree THEN MergePrev(mergeBlocks(h, i - 1), i - 1)
    ELSE [h |-> h, i |-> i]

RECURSIVE MergeNext(_, _)
MergeNext(h, i) ==
    IF i < Len(h.blocks) /\ h.blocks[i + 1].isFree THEN MergeNext(mergeBlocks(h, i), i)
    ELSE h

(* Mutant: mm_free without its second loop. *)
mm_free_back_only(h, ptr) ==
    LET i == BlockAt(h.blocks, ptr)
        freed == [h EXCEPT !.blocks[i].isFree = TRUE, !.mem = Memset(@, ptr, h.blocks[i].size)]
    IN MergePrev(freed, i).h

(* mm_free(ptr): mark the block free, zero its content, coalesce. *)
mm_free(h, ptr) ==
    LET i == BlockAt(h.blocks, ptr)
        b == h.blocks[i]
        freed == [h EXCEPT !.blocks[i].isFree = TRUE, !.mem = Memset(@, ptr, b.size)]
        back == MergePrev(freed, i)
    IN MergeNext(back.h, back.i)

(* mm_realloc(ptr, size) for a held ptr and size > 0: shrink in place; or  *)
(* mm_malloc a new block (NULL leaves ptr as it was), zero it, copy the    *)
(* old content into it and mm_free the old one.                            *)
(* Mutant: the shrunk block keeps its old size. *)
ShrinkKeepingSize(h, i, size) == h

(* Shrinking in place: cur->size = size. *)
ShrinkInPlace(h, i, size) == [h EXCEPT !.blocks[i].size = size]

(* Mutant: the new content is zeroed after the copy instead of before. *)
CopyIntoThenZero(m, dst, src, size, oldSize) ==
    Memset(Memcpy(m, dst, src, IF size > oldSize THEN oldSize ELSE size), dst, size)

(* memset the new content, then memcpy the smaller of the two sizes. *)
CopyInto(m, dst, src, size, oldSize) ==
    Memcpy(Memset(m, dst, size), dst, src, IF size > oldSize THEN oldSize ELSE size)

mm_realloc(h, ptr, size) ==
    LET i == BlockAt(h.blocks, ptr)
        cur == h.blocks[i]
    IN IF cur.size >= size
         THEN {[h |-> ShrinkInPlace(h, i, size), ptr |-> ptr]}
         ELSE {IF n.ptr = NULL THEN n
               ELSE [h |-> mm_free([n.h EXCEPT !.mem = CopyInto(@, n.ptr, ptr, size, cur.size)], ptr),
                     ptr |-> n.ptr] :
                 n \in mm_malloc(h, size)}

-----------------------------------------------------------------------------
(* The program. *)

Init ==
    /\ blocks = <<>>
    /\ mem = [a \in Addr |-> 0]
    /\ kernel = [heapEnd |-> HeapStart, pagedir |-> <<>>, freeFrames |-> Frame]
    /\ held = <<>>

(* The state after a call that left heap h. *)
Become(h) == blocks' = h.blocks /\ mem' = h.mem /\ kernel' = h.kernel

(* mm_malloc(size) and mm_realloc(NULL, size); size 0 returns NULL. *)
Malloc(size) ==
    /\ Cardinality(DOMAIN held) < MaxHeld
    /\ \E r \in mm_malloc(Heap, size) :
        /\ Become(r.h)
        /\ held' = IF r.ptr = NULL THEN held ELSE held @@ (r.ptr :> Zeros(size))

(* mm_free(ptr), and mm_realloc(ptr, 0), of a pointer the program holds. *)
Free(ptr) ==
    /\ Become(mm_free(Heap, ptr))
    /\ held' = Restrict(held, DOMAIN held \ {ptr})

Realloc(ptr, size) ==
    \E r \in mm_realloc(Heap, ptr, size) :
        /\ Become(r.h)
        /\ held' = IF r.ptr = NULL THEN held
                   ELSE LET old == held[ptr]
                            kept == IF size > Len(old) THEN Len(old) ELSE size
                        IN Restrict(held, DOMAIN held \ {ptr})
                           @@ (r.ptr :> [j \in 1..size |-> IF j <= kept THEN old[j] ELSE 0])

(* The program fills a block it holds with a value of its own: its address. *)
Write(ptr) ==
    /\ mem' = [x \in Addr |-> IF ptr <= x /\ x < ptr + Len(held[ptr]) THEN ptr ELSE mem[x]]
    /\ held' = [held EXCEPT ![ptr] = [j \in DOMAIN @ |-> ptr]]
    /\ UNCHANGED <<blocks, kernel>>

Next ==
    \/ \E size \in Size : Malloc(size)
    \/ \E ptr \in DOMAIN held :
        \/ Free(ptr)
        \/ Write(ptr)
        \/ \E size \in Size : Realloc(ptr, size)

Spec == Init /\ [][Next]_vars
-----------------------------------------------------------------------------
Block == [addr : Addr, size : 0 .. ESP, isFree : BOOLEAN]

TypeOK ==
    /\ blocks \in Seq(Block)
    /\ mem \in [Addr -> {0} \cup Addr]
    /\ kernel.heapEnd \in HeapStart .. ESP
    /\ kernel.freeFrames \subseteq Frame
    /\ DOMAIN held \subseteq Addr

(* Every byte of every block the program holds reads back what the        *)
(* program expects: zero after mm_malloc, its own writes, and the old     *)
(* content mm_realloc copied; no split, merge, memset or copy of another  *)
(* call ever touches it.                                                   *)
Intact ==
    \A p \in DOMAIN held : \A j \in DOMAIN held[p] : mem[p + j - 1] = held[p][j]

(* The list runs from the heap start in address order, each header and    *)
(* recorded content ending before the next header and the last before the *)
(* break; the allocated blocks are exactly the ones the program holds,    *)
(* each recording the size last asked for.                                *)
BlocksTile ==
    /\ blocks # <<>> => blocks[1].addr = HeapStart
    /\ \A i \in 1 .. Len(blocks) - 1 : Content(blocks[i]) + blocks[i].size <= blocks[i + 1].addr
    /\ blocks # <<>> => Content(Last(blocks)) + Last(blocks).size <= kernel.heapEnd
    /\ DOMAIN held = {Content(blocks[i]) : i \in {j \in DOMAIN blocks : ~blocks[j].isFree}}
    /\ \A p \in DOMAIN held : blocks[BlockAt(blocks, p)].size = Len(held[p])

(* mm_free leaves no two neighbouring blocks both free. *)
Coalesced ==
    \A i \in 1 .. Len(blocks) - 1 : ~(blocks[i].isFree /\ blocks[i + 1].isFree)

(* Every page below the break is mapped, to distinct frames, and every    *)
(* frame is mapped or free, never both: the rollback of a failed palloc    *)
(* clears each page it mapped and frees its frame, and a failed            *)
(* pagedir_set_page frees the frame it just took, across any sequence of   *)
(* growing, failing and retried sbrk calls.  (Pages above the break may   *)
(* stay mapped after a failed pagedir_set_page: see PROJECT.json.)         *)
HeapBacked ==
    /\ HeapPages(kernel.heapEnd) \subseteq DOMAIN kernel.pagedir
    /\ IsInjective(kernel.pagedir)
    /\ Range(kernel.pagedir) \cap kernel.freeFrames = {}
    /\ Range(kernel.pagedir) \cup kernel.freeFrames = Frame
=============================================================================
