-------------------------------- MODULE Heap --------------------------------
(***************************************************************************)
(* The kernel heap of src/mm.c: one static array carved into a singly      *)
(* linked list of blocks, each a header followed by its payload.  kmalloc  *)
(* walks the list for the first free block that fits and splits it;        *)
(* kfree marks a block free and walks the list merging free neighbours.    *)
(* Each iteration of either walk is one step.  Addresses are offsets from  *)
(* heap_start.                                                             *)
(***************************************************************************)
EXTENDS Integers, FiniteSets

CONSTANTS
    HeapBytes,      \* sizeof(kernel_heap_space)
    HDR,            \* sizeof(struct block_header)
    UNIT,           \* the granularity of the ALIGN macro
    MinTail,        \* payload a split must leave behind
    WordMod,        \* 2^32: uint32_t arithmetic wraps here
    Requests        \* the sizes callers ask for

ASSUME HeapAssumption ==
    /\ HDR \in Nat \ {0} /\ UNIT \in Nat \ {0} /\ MinTail \in Nat
    /\ HeapBytes \in Nat /\ HDR <= HeapBytes
    /\ WordMod \in Nat /\ HeapBytes < WordMod
    /\ Requests \subseteq 0 .. WordMod - 1

VARIABLES
    mm_initialized,
    hdr,            \* the headers on the list, by address
    pc,             \* what the allocator is executing
    current,        \* the list walk's pointer, NIL outside a call
    size,           \* kmalloc's argument, 0 outside a call
    live            \* blocks the callers own, with the size they asked for

vars == <<mm_initialized, hdr, pc, current, size, live>>

NIL == -1

Addr == 0 .. HeapBytes - 1

Header == [size : 0 .. HeapBytes, is_free : {0, 1}, next : Addr \cup {NIL}]

\* (size + 7) & ~7 in 32-bit arithmetic.
ALIGN(n) == LET m == (n + UNIT - 1) % WordMod IN m - (m % UNIT)

TypeOK ==
    /\ mm_initialized \in {0, 1}
    /\ DOMAIN hdr \subseteq Addr
    /\ hdr \in [DOMAIN hdr -> Header]
    /\ pc \in {"idle", "search", "coalesce", "panic"}
    /\ current \in Addr \cup {NIL}
    /\ size \in 0 .. WordMod - 1
    /\ DOMAIN live \subseteq Addr
    /\ live \in [DOMAIN live -> 0 .. WordMod - 1]

-----------------------------------------------------------------------------
\* The BSS is zero until init_mm runs.
Init ==
    /\ mm_initialized = 0
    /\ hdr = [a \in {0} |-> [size |-> 0, is_free |-> 0, next |-> NIL]]
    /\ pc = "idle"
    /\ current = NIL
    /\ size = 0
    /\ live = [a \in {} |-> 0]

init_mm ==
    [a \in {0} |-> [size |-> HeapBytes - HDR, is_free |-> 1, next |-> NIL]]

\* Mutant: the search starts at the second block.
KmallocCall_SkipsFirst(n) ==
    /\ pc = "idle"
    /\ mm_initialized' = 1
    /\ hdr' = IF mm_initialized = 0 THEN init_mm ELSE hdr
    /\ pc' = "search"
    /\ current' = IF hdr[0].next = NIL THEN 0 ELSE hdr[0].next
    /\ size' = n
    /\ UNCHANGED live

\* kmalloc is called: the heap is set up on first use and the search starts.
KmallocCall(n) ==
    /\ pc = "idle"
    /\ mm_initialized' = 1
    /\ hdr' = IF mm_initialized = 0 THEN init_mm ELSE hdr
    /\ pc' = "search"
    /\ current' = 0
    /\ size' = n
    /\ UNCHANGED live

Fits(a) == hdr[a].is_free = 1 /\ hdr[a].size >= ALIGN(size)

CanSplit(a) == hdr[a].size >= ALIGN(size) + HDR + MinTail

\* Mutant: the remainder keeps the length of the whole block.
Split_LongTail(a) ==
    LET needed == ALIGN(size)
        next_block == a + HDR + needed
    IN  [b \in DOMAIN hdr \cup {next_block} |->
            CASE b = next_block ->
                    [size |-> hdr[a].size - HDR, is_free |-> 1,
                     next |-> hdr[a].next]
              [] b = a ->
                    [size |-> needed, is_free |-> 0, next |-> next_block]
              [] OTHER -> hdr[b]]

\* The list after block a has been cut down to the request, the rest of it
\* becoming a free block of its own.
Split(a) ==
    LET needed == ALIGN(size)
        next_block == a + HDR + needed
    IN  [b \in DOMAIN hdr \cup {next_block} |->
            CASE b = next_block ->
                    [size |-> hdr[a].size - needed - HDR, is_free |-> 1,
                     next |-> hdr[a].next]
              [] b = a ->
                    [size |-> needed, is_free |-> 0, next |-> next_block]
              [] OTHER -> hdr[b]]

Take(a) == IF CanSplit(a) THEN Split(a) ELSE [hdr EXCEPT ![a].is_free = 0]

\* One iteration of the first-fit loop that finds its block and returns it.
KmallocFound ==
    /\ pc = "search"
    /\ current # NIL
    /\ Fits(current)
    /\ hdr' = Take(current)
    /\ live' = [a \in DOMAIN live \cup {current} |->
                    IF a = current THEN size ELSE live[a]]
    /\ pc' = "idle" /\ current' = NIL /\ size' = 0
    /\ UNCHANGED mm_initialized

\* One iteration that moves on.
KmallocAdvance ==
    /\ pc = "search"
    /\ current # NIL
    /\ ~Fits(current)
    /\ current' = hdr[current].next
    /\ UNCHANGED <<mm_initialized, hdr, pc, size, live>>

\* The walk fell off the list: the kernel spins for ever.
KmallocPanic ==
    /\ pc = "search"
    /\ current = NIL
    /\ pc' = "panic"
    /\ UNCHANGED <<mm_initialized, hdr, current, size, live>>

PanicSpin == pc = "panic" /\ UNCHANGED vars

\* kfree of a block its caller owns (kfree(NULL) returns at once).
KfreeCall(p) ==
    /\ pc = "idle"
    /\ p \in DOMAIN live
    /\ hdr' = [hdr EXCEPT ![p].is_free = 1]
    /\ live' = [a \in DOMAIN live \ {p} |-> live[a]]
    /\ pc' = "coalesce"
    /\ current' = 0
    /\ UNCHANGED <<mm_initialized, size>>

Mergeable(a) ==
    /\ hdr[a].next # NIL
    /\ hdr[a].is_free = 1
    /\ hdr[hdr[a].next].is_free = 1

\* Mutant: the absorbed block's header is not reclaimed.
Absorb_NoHeader(a) ==
    LET b == hdr[a].next
    IN  [c \in DOMAIN hdr \ {b} |->
            IF c = a
            THEN [size |-> hdr[a].size + hdr[b].size, is_free |-> 1,
                  next |-> hdr[b].next]
            ELSE hdr[c]]

\* The list after block a has absorbed its successor.
Absorb(a) ==
    LET b == hdr[a].next
    IN  [c \in DOMAIN hdr \ {b} |->
            IF c = a
            THEN [size |-> hdr[a].size + HDR + hdr[b].size, is_free |-> 1,
                  next |-> hdr[b].next]
            ELSE hdr[c]]

\* Mutant: moves on after one merge.
KfreeMerge_Advances ==
    /\ pc = "coalesce"
    /\ current # NIL
    /\ Mergeable(current)
    /\ hdr' = Absorb(current)
    /\ current' = hdr'[current].next
    /\ UNCHANGED <<mm_initialized, pc, size, live>>

\* A merge leaves current where it is: the block may merge again.
KfreeMerge ==
    /\ pc = "coalesce"
    /\ current # NIL
    /\ Mergeable(current)
    /\ hdr' = Absorb(current)
    /\ UNCHANGED <<mm_initialized, pc, current, size, live>>

\* Mutant: the walk stays on a block that is in use.
KfreeAdvance_OnlyFree ==
    /\ pc = "coalesce"
    /\ current # NIL
    /\ ~Mergeable(current)
    /\ current' = IF hdr[current].is_free = 1 THEN hdr[current].next ELSE current
    /\ UNCHANGED <<mm_initialized, hdr, pc, size, live>>

KfreeAdvance ==
    /\ pc = "coalesce"
    /\ current # NIL
    /\ ~Mergeable(current)
    /\ current' = hdr[current].next
    /\ UNCHANGED <<mm_initialized, hdr, pc, size, live>>

KfreeDone ==
    /\ pc = "coalesce"
    /\ current = NIL
    /\ pc' = "idle"
    /\ UNCHANGED <<mm_initialized, hdr, current, size, live>>

Walk ==
    \/ KmallocFound \/ KmallocAdvance \/ KmallocPanic
    \/ KfreeMerge \/ KfreeAdvance \/ KfreeDone

Next ==
    \/ \E n \in Requests : KmallocCall(n)
    \/ \E p \in DOMAIN live : KfreeCall(p)
    \/ Walk
    \/ PanicSpin

Spec == Init /\ [][Next]_vars

\* The kernel keeps executing: a walk that can take a step takes it.
FairSpec == Spec /\ WF_vars(Walk)

-----------------------------------------------------------------------------
\* Blocks tile the heap: following next from any header lands exactly where
\* that block's payload ends, and the last block ends where the heap does.
Tiled ==
    \A a \in DOMAIN hdr :
        IF hdr[a].next = NIL
        THEN a + HDR + hdr[a].size = HeapBytes
        ELSE /\ hdr[a].next = a + HDR + hdr[a].size
             /\ hdr[a].next \in DOMAIN hdr

\* No block starts inside another one.
Ordered ==
    \A a, b \in DOMAIN hdr : a < b => a + HDR + hdr[a].size <= b

\* Whatever kmalloc and kfree are in the middle of, the list of blocks is a
\* partition of the heap (kmalloc's split, kfree's merge).
Partition == mm_initialized = 1 => 0 \in DOMAIN hdr /\ Tiled /\ Ordered

\* A block handed out by kmalloc holds at least the bytes asked for, as long
\* as rounding the request up does not wrap around 2^32.
HoldsRequest ==
    \A p \in DOMAIN live :
        live[p] + UNIT - 1 < WordMod => hdr[p].size >= live[p]

\* The list and the callers agree on which blocks are in use: a block is
\* marked active exactly while some caller owns it, so none is leaked and
\* none is handed out twice.
ActiveIsOwned ==
    mm_initialized = 1 =>
        \A a \in DOMAIN hdr : hdr[a].is_free = 0 <=> a \in DOMAIN live

\* Between calls no two neighbours are both free: kfree leaves nothing to
\* merge and kmalloc creates nothing to merge.
Coalesced ==
    pc \in {"idle", "search"} => \A a \in DOMAIN hdr : ~Mergeable(a)

\* Once everything has been given back the heap is one free block again,
\* whatever the order of the calls was: fragmentation never outlives the
\* allocations that caused it.
FreshWhenEmpty ==
    (mm_initialized = 1 /\ pc = "idle" /\ DOMAIN live = {}) => hdr = init_mm

\* kmalloc declares the kernel out of memory only when no free block could
\* have served the request.
PanicJustified == pc = "panic" => \A a \in DOMAIN hdr : ~Fits(a)

\* Every kmalloc ends in a block or in the panic, and every kfree returns:
\* neither list walk can loop.
CallsEnd == (pc \in {"search", "coalesce"}) ~> (pc \in {"idle", "panic"})

\* What the callers own, as regions of the heap.
Owned == {[base |-> p + HDR, size |-> hdr[p].size] : p \in DOMAIN live}

API == INSTANCE HeapAPI WITH regions <- Owned

\* kmalloc and kfree keep the promise of HeapAPI: regions granted to callers
\* never overlap, and no split or merge moves or resizes one.
ImplementsAPI == API!Spec

=============================================================================
