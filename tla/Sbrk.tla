-------------------------------- MODULE Sbrk --------------------------------
(***************************************************************************)
(* The growing half of syscall_sbrk (src/Personal/hw-memory/pintos/src/   *)
(* userprog/syscall.c:82-135), as an operator on the process's kernel     *)
(* state: the break heapEnd, the user pages its page directory maps to    *)
(* kernel frames, and the frames palloc still has.  Addresses are bytes,  *)
(* a user page is numbered by its first address divided by PGSIZE.        *)
(* Its caller here is mm_alloc (MMAlloc), which only ever grows the heap, *)
(* so the two shrinking branches (lines 119-132) are not modelled.        *)
(* pagedir_set_page fails when it cannot allocate a page table; whether   *)
(* that may happen is the constant SetPageFails.                           *)
(***************************************************************************)
EXTENDS Naturals, FiniteSets, FiniteSetsExt, Functions, TLC

CONSTANTS
    PGSIZE,        \* bytes per page
    HeapStart,     \* the initial break, page aligned
    ESP,           \* the user stack pointer saved at syscall entry
    Frame,         \* the kernel frames palloc can hand out
    SetPageFails   \* TRUE if pagedir_set_page may fail

pg_round_up(a) == ((a + PGSIZE - 1) \div PGSIZE) * PGSIZE

PageOf(a) == a \div PGSIZE

(* The user pages that hold the heap [HeapStart, e). *)
HeapPages(e) == PageOf(HeapStart) .. PageOf(pg_round_up(e)) - 1

(* Mutant: the rollback clears the pages but frees none of their frames. *)
RollbackLeaking(first, cur, pd, fr) ==
    LET gone == (first .. cur) \cap DOMAIN pd IN
    [pagedir |-> Restrict(pd, DOMAIN pd \ gone), freeFrames |-> fr]

(* The rollback loop of a failed palloc_get_page: every page from          *)
(* pg_round_up(prevEnd) up to and including the one that failed is looked  *)
(* up, cleared and its frame freed (palloc_free_page(NULL) does nothing).  *)
Rollback(first, cur, pd, fr) ==
    LET gone == (first .. cur) \cap DOMAIN pd IN
    [pagedir |-> Restrict(pd, DOMAIN pd \ gone),
     freeFrames |-> fr \cup {pd[p] : p \in gone}]

(* The outcomes of the mapping loop from page k to page stop - 1, having   *)
(* started at page first: ok, and the page directory and free frames after *)
(* it.  A page already mapped, or a failed pagedir_set_page, returns -1    *)
(* after freeing only the frame just taken.                                *)
RECURSIVE MapPages(_, _, _, _, _)
MapPages(first, k, stop, pd, fr) ==
    IF k = stop THEN {[ok |-> TRUE, pagedir |-> pd, freeFrames |-> fr]}
    ELSE IF fr = {}
      THEN {[ok |-> FALSE] @@ Rollback(first, k, pd, fr)}
    ELSE IF k \in DOMAIN pd
      THEN {[ok |-> FALSE, pagedir |-> pd, freeFrames |-> fr]}
    ELSE LET f == Min(fr) IN
         (IF SetPageFails THEN {[ok |-> FALSE, pagedir |-> pd, freeFrames |-> fr]} ELSE {})
         \cup MapPages(first, k + 1, stop, pd @@ (k :> f), fr \ {f})

(***************************************************************************)
(* syscall_sbrk(increment) for increment > 0 on kernel state k =          *)
(* [heapEnd, pagedir, freeFrames]: the set of possible [ret, k'] where    *)
(* ret is prevEnd or -1.  It fails if the rounded-up new break reaches    *)
(* the stack pointer; maps the pages between the rounded-up old and new   *)
(* breaks when the new break passes the old one's page; and sets heapEnd  *)
(* only on success.                                                        *)
(***************************************************************************)
syscall_sbrk(k, increment) ==
    LET prevEnd == k.heapEnd
        newEnd == prevEnd + increment
        first == PageOf(pg_round_up(prevEnd))
        stop == PageOf(pg_round_up(newEnd))
    IN IF pg_round_up(newEnd) >= ESP THEN {[ret |-> -1, k |-> k]}
       ELSE IF newEnd > pg_round_up(prevEnd)
         THEN {[ret |-> IF o.ok THEN prevEnd ELSE -1,
                k |-> [heapEnd |-> IF o.ok THEN newEnd ELSE prevEnd,
                       pagedir |-> o.pagedir, freeFrames |-> o.freeFrames]] :
                 o \in MapPages(first, first, stop, k.pagedir, k.freeFrames)}
         ELSE {[ret |-> prevEnd, k |-> [k EXCEPT !.heapEnd = newEnd]]}
=============================================================================
