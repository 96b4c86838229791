-------------------------- MODULE AllocationProofs --------------------------
(***************************************************************************)
(* Proofs about the two allocations of the system: the memory the kernel   *)
(* heap gives to its callers and the address a DHCP server gives to the    *)
(* interface.                                                              *)
(***************************************************************************)
EXTENDS Heap, Dhcp, TLAPS

-----------------------------------------------------------------------------
(* The heap, for every size of it, every size of a header and every        *)
(* request.                                                                *)

\* The remainder operator on naturals.
LEMMA ModRange ==
    ASSUME NEW m \in Nat, NEW k \in Nat \ {0}
    PROVE  /\ m % k \in 0 .. k - 1
           /\ m % k <= m
           /\ m < k => m % k = m
OBVIOUS

\* The ALIGN macro yields a size.
LEMMA AlignNat ==
    ASSUME NEW n \in Nat
    PROVE  ALIGN(n) \in Nat
<1> DEFINE m == (n + UNIT - 1) % WordMod
<1>1. n + UNIT - 1 \in Nat /\ WordMod \in Nat \ {0} /\ UNIT \in Nat \ {0}
    BY HeapAssumption
<1>2. m \in Nat
    BY <1>1, ModRange
<1>3. ALIGN(n) = m - (m % UNIT)
    BY DEF ALIGN
<1> HIDE DEF m
<1>4. m % UNIT \in Nat /\ m % UNIT <= m
    BY <1>1, <1>2, ModRange
<1> QED BY <1>2, <1>3, <1>4

\* ALIGN rounds up whenever its addition does not wrap.
LEMMA AlignHolds ==
    ASSUME NEW n \in Nat, n + UNIT - 1 < WordMod
    PROVE  ALIGN(n) >= n
<1> DEFINE m == n + UNIT - 1
<1>1. m \in Nat /\ WordMod \in Nat \ {0} /\ UNIT \in Nat \ {0}
    BY HeapAssumption
<1>2. m % WordMod = m
    BY <1>1, ModRange
<1>3. m % UNIT \in 0 .. UNIT - 1
    BY <1>1, ModRange
<1> QED BY <1>1, <1>2, <1>3 DEF ALIGN

-----------------------------------------------------------------------------
\* Block a has already been visited by the list walk in progress.
Behind(a) == current = NIL \/ a < current

\* A walk points at a block of the list or has fallen off its end.
WalkOK ==
    /\ pc # "idle" => mm_initialized = 1
    /\ pc \in {"search", "coalesce"} => current \in DOMAIN hdr \cup {NIL}

\* No block the search has passed would have served the request.
SearchOK ==
    /\ pc = "search" => \A a \in DOMAIN hdr : Behind(a) => ~Fits(a)
    /\ pc = "panic" => \A a \in DOMAIN hdr : ~Fits(a)

\* Only ahead of a coalescing walk can two free blocks be neighbours.
MergeOK ==
    \A a \in DOMAIN hdr :
        pc = "coalesce" => (Behind(a) => ~Mergeable(a))
MergedOK ==
    pc # "coalesce" => \A a \in DOMAIN hdr : ~Mergeable(a)

OwnedOK ==
    /\ DOMAIN live \subseteq DOMAIN hdr
    /\ mm_initialized = 0 => DOMAIN live = {}
    /\ ActiveIsOwned

HeapInv ==
    /\ TypeOK /\ 0 \in DOMAIN hdr /\ Partition
    /\ WalkOK /\ SearchOK /\ MergeOK /\ MergedOK
    /\ OwnedOK /\ HoldsRequest

\* The zeroed BSS satisfies the invariant.
LEMMA InitInv == Init => HeapInv
<1> SUFFICES ASSUME Init PROVE HeapInv
    OBVIOUS
<1>1. DOMAIN hdr = {0} /\ hdr[0] = [size |-> 0, is_free |-> 0, next |-> NIL]
    BY DEF Init
<1>2. DOMAIN live = {}
    BY DEF Init
<1>3. TypeOK
    BY <1>1, <1>2, HeapAssumption DEF Init, TypeOK, Addr, Header, NIL
<1> QED
    BY <1>1, <1>2, <1>3 DEF Init, HeapInv, Partition, WalkOK, SearchOK,
        MergeOK, MergedOK, Mergeable, OwnedOK, ActiveIsOwned, HoldsRequest

\* Entering kmalloc, with or without init_mm, starts a walk with nothing
\* behind it.
LEMMA KmallocCallInv ==
    ASSUME HeapInv, NEW n \in Requests, KmallocCall(n)
    PROVE  HeapInv'
<1> USE HeapAssumption
<1>1. CASE mm_initialized = 0
    <2>1. hdr' = init_mm /\ live' = live /\ pc' = "search" /\ current' = 0
          /\ mm_initialized' = 1 /\ size' = n /\ DOMAIN live = {}
        BY <1>1 DEF KmallocCall, HeapInv, OwnedOK
    <2>2. DOMAIN init_mm = {0}
          /\ init_mm[0] = [size |-> HeapBytes - HDR, is_free |-> 1, next |-> NIL]
        BY DEF init_mm
    <2>3. init_mm \in [DOMAIN init_mm -> Header]
        BY DEF init_mm, Header
    <2>4. TypeOK'
        BY <2>1, <2>2, <2>3 DEF HeapInv, TypeOK, Addr
    <2> QED
        BY <2>1, <2>2, <2>4 DEF HeapInv, Partition, Tiled, Ordered, WalkOK,
            SearchOK, Behind, NIL, MergeOK, MergedOK, Mergeable, OwnedOK,
            ActiveIsOwned, HoldsRequest
<1>2. CASE mm_initialized # 0
    <2>1. hdr' = hdr /\ live' = live /\ pc' = "search" /\ current' = 0
          /\ mm_initialized' = mm_initialized /\ size' = n /\ pc = "idle"
        BY <1>2 DEF KmallocCall, HeapInv, TypeOK
    <2>2. TypeOK'
        BY <2>1 DEF HeapInv, TypeOK, Addr
    <2> QED
        BY <1>2, <2>1, <2>2 DEF HeapInv, TypeOK, Addr, Partition, Tiled, Ordered, WalkOK,
            SearchOK, Behind, NIL, MergeOK, MergedOK, Mergeable, OwnedOK,
            ActiveIsOwned, HoldsRequest
<1> QED BY <1>1, <1>2

\* Between a block and its successor there is no other block.
LEMMA NothingBetween ==
    ASSUME HeapInv, mm_initialized = 1,
           NEW a \in DOMAIN hdr, NEW b \in DOMAIN hdr, a < b
    PROVE  hdr[a].next # NIL /\ hdr[a].next <= b
BY HeapAssumption DEF HeapInv, TypeOK, Addr, Header, NIL, Partition, Tiled, Ordered

\* Moving the first-fit search on adds exactly one block to those behind it.
LEMMA KmallocAdvanceInv ==
    ASSUME HeapInv, KmallocAdvance
    PROVE  HeapInv'
<1> USE HeapAssumption
<1>1. hdr' = hdr /\ live' = live /\ pc' = pc /\ pc = "search" /\ size' = size
      /\ mm_initialized' = mm_initialized /\ mm_initialized = 1
      /\ current \in DOMAIN hdr /\ current' = hdr[current].next /\ ~Fits(current)
    BY DEF KmallocAdvance, HeapInv, WalkOK
<1>2. current' \in DOMAIN hdr \cup {NIL}
    BY <1>1 DEF HeapInv, Partition, Tiled
<1>3. ASSUME NEW a \in DOMAIN hdr, Behind(a)' PROVE ~Fits(a)
    <2>1. current # NIL
        BY <1>1 DEF KmallocAdvance
    <2>2. a \in Int /\ current \in Int
        BY <1>1 DEF HeapInv, TypeOK, Addr
    <2>3. CASE a < current
        BY <2>3, <1>1 DEF HeapInv, SearchOK, Behind
    <2>4. CASE a = current
        BY <2>4, <1>1
    <2>5. CASE current < a
        BY <2>5, <2>2, <1>1, <1>2, <1>3, NothingBetween DEF Behind, HeapInv, TypeOK, Addr
    <2> QED BY <2>2, <2>3, <2>4, <2>5
<1>4. TypeOK'
    BY <1>1, <1>2 DEF HeapInv, TypeOK
<1>5. SearchOK'
    BY <1>1, <1>3 DEF SearchOK, Fits
<1> QED
    BY <1>1, <1>2, <1>4, <1>5 DEF HeapInv, Partition, Tiled, Ordered, WalkOK,
        MergeOK, MergedOK, Mergeable, OwnedOK, ActiveIsOwned, HoldsRequest

\* Taking a block without splitting it only flips its mark.
LEMMA TakeWholeInv ==
    ASSUME HeapInv, KmallocFound, ~CanSplit(current)
    PROVE  HeapInv'
<1> USE HeapAssumption
<1> DEFINE a == current
<1>1. pc = "search" /\ pc' = "idle" /\ a \in DOMAIN hdr /\ Fits(a)
      /\ mm_initialized = 1 /\ mm_initialized' = 1
      /\ current' = NIL /\ size' = 0
    BY DEF KmallocFound, HeapInv, WalkOK
<1>2. DOMAIN live' = DOMAIN live \cup {a} /\ live'[a] = size
      /\ \A p \in DOMAIN live : p # a => live'[p] = live[p]
    BY DEF KmallocFound
<1>3. hdr' = [hdr EXCEPT ![a].is_free = 0]
    BY DEF KmallocFound, Take
<1>4. DOMAIN hdr' = DOMAIN hdr
      /\ \A b \in DOMAIN hdr :
            hdr'[b].size = hdr[b].size /\ hdr'[b].next = hdr[b].next
            /\ hdr'[b].is_free = IF b = a THEN 0 ELSE hdr[b].is_free
    BY <1>1, <1>3 DEF HeapInv, TypeOK, Header
<1>5. hdr' \in [DOMAIN hdr' -> Header]
    BY <1>1, <1>3 DEF HeapInv, TypeOK, Header
<1>6. live' \in [DOMAIN live' -> 0 .. WordMod - 1]
    BY DEF KmallocFound, HeapInv, TypeOK
<1>7. TypeOK'
    BY <1>1, <1>2, <1>4, <1>5, <1>6 DEF HeapInv, TypeOK, NIL
<1>8. Partition'
    BY <1>1, <1>4 DEF HeapInv, Partition, Tiled, Ordered
<1>9. \A b \in DOMAIN hdr : ~Mergeable(b)'
    <2>1. \A b \in DOMAIN hdr : ~Mergeable(b)
        BY <1>1 DEF HeapInv, MergedOK
    <2>2. \A b \in DOMAIN hdr : hdr[b].next # NIL => hdr[b].next \in DOMAIN hdr
        BY <1>1 DEF HeapInv, Partition, Tiled
    <2> QED BY <2>1, <2>2, <1>4 DEF Mergeable
<1>10. OwnedOK'
    BY <1>1, <1>2, <1>4 DEF HeapInv, OwnedOK, ActiveIsOwned
<1>11. HoldsRequest'
    <2>1. size + UNIT - 1 < WordMod => hdr[a].size >= size
        <3>1. size \in Nat /\ hdr[a].size \in Nat
            BY <1>1 DEF HeapInv, TypeOK, Header
        <3> QED BY <1>1, <3>1, AlignNat, AlignHolds DEF Fits
    <2>2. ASSUME NEW p \in DOMAIN live
          PROVE live[p] + UNIT - 1 < WordMod => hdr[p].size >= live[p]
        BY DEF HeapInv, HoldsRequest
    <2>3. DOMAIN live \subseteq DOMAIN hdr
        BY DEF HeapInv, OwnedOK
    <2> QED BY <1>1, <1>2, <1>4, <2>1, <2>2, <2>3 DEF HoldsRequest
<1> QED
    BY <1>1, <1>4, <1>7, <1>8, <1>9, <1>10, <1>11
    DEF HeapInv, WalkOK, SearchOK, MergeOK, MergedOK

\* Splitting cuts the block in two parts that tile it.
LEMMA SplitInv ==
    ASSUME HeapInv, KmallocFound, CanSplit(current)
    PROVE  HeapInv'
<1> USE HeapAssumption
<1> DEFINE a == current
           needed == ALIGN(size)
           nb == a + HDR + needed
<1>1. pc = "search" /\ pc' = "idle" /\ a \in DOMAIN hdr /\ Fits(a)
      /\ mm_initialized = 1 /\ mm_initialized' = 1
      /\ current' = NIL /\ size' = 0
    BY DEF KmallocFound, HeapInv, WalkOK
<1>2. DOMAIN live' = DOMAIN live \cup {a} /\ live'[a] = size
      /\ \A p \in DOMAIN live : p # a => live'[p] = live[p]
    BY DEF KmallocFound
<1>3. needed \in Nat /\ size \in Nat /\ a \in Addr /\ hdr[a].size \in 0 .. HeapBytes
      /\ hdr[a].is_free = 1
    BY <1>1, AlignNat DEF HeapInv, TypeOK, Header, Fits
<1>4. hdr[a].size >= needed + HDR + MinTail
    BY DEF CanSplit
<1>5. a + HDR + hdr[a].size <= HeapBytes
    BY <1>1, <1>3 DEF HeapInv, Partition, Tiled, TypeOK, Header, Addr, NIL
<1> HIDE DEF needed
<1>6. nb \in Addr /\ a < nb /\ nb + HDR <= a + HDR + hdr[a].size
    BY <1>3, <1>4, <1>5 DEF Addr
<1>7. nb \notin DOMAIN hdr
    BY <1>1, <1>3, <1>6 DEF HeapInv, Partition, Ordered, TypeOK, Addr
<1>8. hdr' = [b \in DOMAIN hdr \cup {nb} |->
                CASE b = nb -> [size |-> hdr[a].size - needed - HDR, is_free |-> 1,
                                next |-> hdr[a].next]
                  [] b = a -> [size |-> needed, is_free |-> 0, next |-> nb]
                  [] OTHER -> hdr[b]]
    BY DEF KmallocFound, Take, Split, needed
<1> HIDE DEF nb
<1>9. DOMAIN hdr' = DOMAIN hdr \cup {nb}
      /\ hdr'[nb] = [size |-> hdr[a].size - needed - HDR, is_free |-> 1,
                     next |-> hdr[a].next]
      /\ hdr'[a] = [size |-> needed, is_free |-> 0, next |-> nb]
      /\ \A b \in DOMAIN hdr : b # a => hdr'[b] = hdr[b]
    BY <1>1, <1>7, <1>8
<1>10. TypeOK'
    <2>1. hdr'[nb] \in Header /\ hdr'[a] \in Header
        BY <1>1, <1>3, <1>4, <1>6, <1>9 DEF HeapInv, TypeOK, Header
    <2>2. \A b \in DOMAIN hdr' : hdr'[b] \in Header
        BY <1>9, <2>1 DEF HeapInv, TypeOK
    <2>3. hdr' \in [DOMAIN hdr' -> Header]
        BY <1>8, <2>2
    <2>4. live' \in [DOMAIN live' -> 0 .. WordMod - 1]
        BY DEF KmallocFound, HeapInv, TypeOK
    <2> QED BY <1>1, <1>2, <1>6, <1>9, <2>3, <2>4 DEF HeapInv, TypeOK, NIL
<1>11. Tiled'
    <2>1. Tiled
        BY <1>1 DEF HeapInv, Partition
    <2>2. nb = a + HDR + needed
        BY DEF nb
    <2>3. nb + HDR + hdr'[nb].size = a + HDR + hdr[a].size
        BY <1>3, <1>9, <2>2 DEF Addr
    <2>4. ASSUME NEW b \in DOMAIN hdr, b # a
          PROVE IF hdr'[b].next = NIL
                THEN b + HDR + hdr'[b].size = HeapBytes
                ELSE /\ hdr'[b].next = b + HDR + hdr'[b].size
                     /\ hdr'[b].next \in DOMAIN hdr'
        BY <2>1, <2>4, <1>9 DEF Tiled
    <2>5. IF hdr'[nb].next = NIL
          THEN nb + HDR + hdr'[nb].size = HeapBytes
          ELSE /\ hdr'[nb].next = nb + HDR + hdr'[nb].size
               /\ hdr'[nb].next \in DOMAIN hdr'
        BY <1>1, <1>9, <2>1, <2>3 DEF Tiled
    <2>6. hdr'[a].next # NIL /\ hdr'[a].next = a + HDR + hdr'[a].size
          /\ hdr'[a].next \in DOMAIN hdr'
        BY <1>6, <1>9, <2>2 DEF NIL, Addr
    <2> QED BY <1>9, <2>4, <2>5, <2>6 DEF Tiled
<1>12. Ordered'
    <2>1. Ordered /\ nb = a + HDR + needed
        BY <1>1 DEF HeapInv, Partition, nb
    <2>2. nb + HDR + hdr'[nb].size = a + HDR + hdr[a].size
        BY <1>3, <1>9, <2>1 DEF Addr
    <2>3. \A b \in DOMAIN hdr : b \in Int /\ hdr[b].size \in Nat
        BY DEF HeapInv, TypeOK, Addr, Header
    <2>4. ASSUME NEW b \in DOMAIN hdr, NEW c \in DOMAIN hdr, b < c
          PROVE b + HDR + hdr'[b].size <= c
        BY <1>3, <1>4, <1>9, <2>1, <2>3, <2>4 DEF Ordered, Addr
    <2>5. ASSUME NEW b \in DOMAIN hdr, b < nb
          PROVE b + HDR + hdr'[b].size <= nb
        BY <1>1, <1>3, <1>4, <1>6, <1>9, <2>1, <2>3, <2>5 DEF Ordered, Addr
    <2>6. ASSUME NEW c \in DOMAIN hdr, nb < c
          PROVE nb + HDR + hdr'[nb].size <= c
        BY <1>1, <1>3, <1>6, <2>1, <2>2, <2>3, <2>6 DEF Ordered, Addr
    <2> QED BY <1>6, <1>9, <2>4, <2>5, <2>6 DEF Ordered, Addr
<1>13. \A b \in DOMAIN hdr' : ~Mergeable(b)'
    <2>1. \A b \in DOMAIN hdr : ~Mergeable(b)
        BY <1>1 DEF HeapInv, MergedOK
    <2>2. \A b \in DOMAIN hdr : hdr[b].next # NIL => hdr[b].next \in DOMAIN hdr
        BY <1>1 DEF HeapInv, Partition, Tiled
    <2> DEFINE Joins(b) == hdr'[b].next # NIL /\ hdr'[b].is_free = 1
                           /\ hdr'[hdr'[b].next].is_free = 1
    <2>3. ~Joins(a)
        BY <1>9
    <2>4. ASSUME NEW b \in DOMAIN hdr, b # a PROVE ~Joins(b)
        BY <1>9, <2>1, <2>2, <2>4 DEF Mergeable
    <2>5. ~Joins(nb)
        <3>1. hdr[a].next # NIL => hdr[hdr[a].next].is_free # 1 /\ hdr[a].next # a
            BY <1>1, <1>3, <2>1, <2>2 DEF Mergeable
        <3> QED BY <1>1, <1>9, <2>2, <3>1
    <2>6. \A b \in DOMAIN hdr' : ~Joins(b)
        BY <1>9, <2>3, <2>4, <2>5
    <2> QED BY <2>6 DEF Mergeable
<1>14. OwnedOK'
    BY <1>1, <1>2, <1>7, <1>9 DEF HeapInv, OwnedOK, ActiveIsOwned
<1>15. HoldsRequest'
    <2>1. size + UNIT - 1 < WordMod => needed >= size
        BY <1>3, AlignHolds DEF needed
    <2>2. ASSUME NEW p \in DOMAIN live
          PROVE live[p] + UNIT - 1 < WordMod => hdr[p].size >= live[p]
        BY DEF HeapInv, HoldsRequest
    <2>3. DOMAIN live \subseteq DOMAIN hdr
        BY DEF HeapInv, OwnedOK
    <2> QED BY <1>2, <1>9, <2>1, <2>2, <2>3 DEF HoldsRequest
<1> QED
    BY <1>1, <1>9, <1>10, <1>11, <1>12, <1>13, <1>14, <1>15
    DEF HeapInv, Partition, WalkOK, SearchOK, MergeOK, MergedOK

\* Marking a block free can only create neighbours to merge ahead of the walk.
LEMMA KfreeCallInv ==
    ASSUME HeapInv, NEW p \in DOMAIN live, KfreeCall(p)
    PROVE  HeapInv'
<1> USE HeapAssumption
<1>1. pc' = "coalesce" /\ current' = 0 /\ size' = size
      /\ p \in DOMAIN hdr /\ mm_initialized = 1 /\ mm_initialized' = 1
    BY DEF KfreeCall, HeapInv, OwnedOK, TypeOK
<1>2. DOMAIN live' = DOMAIN live \ {p} /\ \A q \in DOMAIN live' : live'[q] = live[q]
    BY DEF KfreeCall
<1>3. hdr' = [hdr EXCEPT ![p].is_free = 1]
    BY DEF KfreeCall
<1>4. DOMAIN hdr' = DOMAIN hdr
      /\ \A b \in DOMAIN hdr :
            hdr'[b].size = hdr[b].size /\ hdr'[b].next = hdr[b].next
            /\ hdr'[b].is_free = IF b = p THEN 1 ELSE hdr[b].is_free
    BY <1>1, <1>3 DEF HeapInv, TypeOK, Header
<1>5. hdr' \in [DOMAIN hdr' -> Header]
    BY <1>1, <1>3 DEF HeapInv, TypeOK, Header
<1>6. live' \in [DOMAIN live' -> 0 .. WordMod - 1]
    BY DEF KfreeCall, HeapInv, TypeOK
<1>7. TypeOK'
    BY <1>1, <1>2, <1>4, <1>5, <1>6 DEF HeapInv, TypeOK, Addr
<1>8. Partition'
    BY <1>1, <1>4 DEF HeapInv, Partition, Tiled, Ordered
<1>9. \A b \in DOMAIN hdr : ~Behind(b)'
    BY <1>1 DEF HeapInv, TypeOK, Addr, Behind, NIL
<1>10. OwnedOK'
    BY <1>1, <1>2, <1>4 DEF HeapInv, OwnedOK, ActiveIsOwned
<1>11. HoldsRequest'
    BY <1>2, <1>4 DEF HeapInv, OwnedOK, HoldsRequest
<1> QED
    BY <1>1, <1>4, <1>7, <1>8, <1>9, <1>10, <1>11
    DEF HeapInv, WalkOK, SearchOK, MergeOK, MergedOK

\* A merge of kfree keeps the list a partition: only the absorbing block
\* pointed at the absorbed one.
LEMMA KfreeMergeInv ==
    ASSUME HeapInv, KfreeMerge
    PROVE  HeapInv'
<1> USE HeapAssumption
<1>1. PICK a \in DOMAIN hdr : a = current
    BY DEF KfreeMerge, HeapInv, WalkOK
<1>2. PICK b \in DOMAIN hdr : b = hdr[a].next
    BY <1>1 DEF KfreeMerge, Mergeable, HeapInv, WalkOK, Partition, Tiled
<1>3. pc = "coalesce" /\ pc' = pc /\ current' = a /\ size' = size /\ live' = live
      /\ mm_initialized = 1 /\ mm_initialized' = 1
      /\ hdr[a].is_free = 1 /\ hdr[b].is_free = 1 /\ b # NIL
    BY <1>1, <1>2 DEF KfreeMerge, Mergeable, HeapInv, WalkOK
<1>4. hdr' = [c \in DOMAIN hdr \ {b} |->
                IF c = a THEN [size |-> hdr[a].size + HDR + hdr[b].size,
                               is_free |-> 1, next |-> hdr[b].next]
                         ELSE hdr[c]]
    BY <1>1, <1>2 DEF KfreeMerge, Absorb
<1>5. Tiled /\ Ordered /\ TypeOK
    BY <1>3 DEF HeapInv, Partition
<1>6. \A c \in DOMAIN hdr : c \in Addr /\ c \in Int /\ hdr[c] \in Header /\ hdr[c].size \in Nat
    BY <1>5 DEF TypeOK, Addr, Header
<1>7. b = a + HDR + hdr[a].size /\ a < b
    BY <1>2, <1>3, <1>5, <1>6 DEF Tiled
<1>8. DOMAIN hdr' = DOMAIN hdr \ {b} /\ a \in DOMAIN hdr'
      /\ hdr'[a] = [size |-> hdr[a].size + HDR + hdr[b].size, is_free |-> 1,
                    next |-> hdr[b].next]
      /\ \A c \in DOMAIN hdr' : c # a => hdr'[c] = hdr[c]
    BY <1>4, <1>6, <1>7
<1>9. a + HDR + hdr'[a].size = b + HDR + hdr[b].size
    BY <1>6, <1>7, <1>8
\* Only a points at b.
<1>10. ASSUME NEW c \in DOMAIN hdr, c # a, hdr[c].next = b PROVE FALSE
    <2>1. b = c + HDR + hdr[c].size
        BY <1>3, <1>5, <1>10 DEF Tiled
    <2> QED BY <1>5, <1>6, <1>7, <1>10, <2>1 DEF Ordered
<1>11. Tiled'
    <2>1. ASSUME NEW c \in DOMAIN hdr', c # a
          PROVE IF hdr'[c].next = NIL
                THEN c + HDR + hdr'[c].size = HeapBytes
                ELSE /\ hdr'[c].next = c + HDR + hdr'[c].size
                     /\ hdr'[c].next \in DOMAIN hdr'
        BY <1>5, <1>8, <1>10, <2>1 DEF Tiled
    <2>2. hdr[b].next # b
        BY <1>3, <1>5, <1>6 DEF Tiled
    <2>3. IF hdr'[a].next = NIL
          THEN a + HDR + hdr'[a].size = HeapBytes
          ELSE /\ hdr'[a].next = a + HDR + hdr'[a].size
               /\ hdr'[a].next \in DOMAIN hdr'
        BY <1>5, <1>8, <1>9, <2>2 DEF Tiled
    <2> QED BY <2>1, <2>3 DEF Tiled
<1>12. Ordered'
    <2>1. ASSUME NEW c \in DOMAIN hdr', NEW d \in DOMAIN hdr', c < d, c # a
          PROVE c + HDR + hdr'[c].size <= d
        BY <1>5, <1>8, <2>1 DEF Ordered
    <2>2. ASSUME NEW d \in DOMAIN hdr', a < d
          PROVE a + HDR + hdr'[a].size <= d
        <3>1. b < d
            BY <1>5, <1>6, <1>7, <1>8, <2>2 DEF Ordered
        <3> QED BY <1>5, <1>8, <1>9, <3>1 DEF Ordered
    <2> QED BY <2>1, <2>2 DEF Ordered
<1>13. TypeOK'
    <2>1. hdr[a].size + HDR + hdr[b].size \in 0 .. HeapBytes
        BY <1>5, <1>6, <1>7 DEF Tiled, Addr, Header, NIL
    <2>2. hdr'[a] \in Header
        BY <1>6, <1>8, <2>1 DEF Header
    <2>3. hdr' \in [DOMAIN hdr' -> Header]
        BY <1>4, <1>6, <1>8, <2>2
    <2> QED BY <1>3, <1>5, <1>6, <1>8, <2>3 DEF TypeOK
<1>14. 0 \in DOMAIN hdr'
    BY <1>6, <1>7, <1>8 DEF HeapInv, Addr
<1>15. MergeOK'
    <2>1. ASSUME NEW c \in DOMAIN hdr', c < a
          PROVE ~(hdr'[c].next # NIL /\ hdr'[c].is_free = 1
                  /\ hdr'[hdr'[c].next].is_free = 1)
        <3>1. ~Mergeable(c) /\ hdr'[c] = hdr[c] /\ hdr[c].next # b
            BY <1>1, <1>3, <1>6, <1>8, <1>10, <2>1 DEF HeapInv, MergeOK, Behind
        <3>2. hdr[c].next # NIL => hdr[c].next \in DOMAIN hdr'
            BY <1>5, <1>8, <2>1, <3>1 DEF Tiled
        <3> QED BY <1>3, <1>8, <3>1, <3>2 DEF Mergeable
    <2>2. a # NIL
        BY <1>6 DEF Addr, NIL
    <2> QED BY <1>3, <2>1, <2>2 DEF MergeOK, Behind, Mergeable
<1>16. OwnedOK' /\ HoldsRequest'
    <2>1. a \notin DOMAIN live /\ b \notin DOMAIN live
        BY <1>3 DEF HeapInv, OwnedOK, ActiveIsOwned
    <2>2. DOMAIN live \subseteq DOMAIN hdr'
        BY <1>8, <2>1 DEF HeapInv, OwnedOK
    <2> QED BY <1>3, <1>8, <2>1, <2>2 DEF HeapInv, OwnedOK, ActiveIsOwned, HoldsRequest
<1> QED
    BY <1>1, <1>3, <1>8, <1>11, <1>12, <1>13, <1>14, <1>15, <1>16
    DEF HeapInv, Partition, WalkOK, SearchOK, MergedOK

\* Moving the coalescing walk on leaves nothing to merge behind it.
LEMMA KfreeAdvanceInv ==
    ASSUME HeapInv, KfreeAdvance
    PROVE  HeapInv'
<1> USE HeapAssumption
<1>1. hdr' = hdr /\ live' = live /\ pc' = pc /\ pc = "coalesce" /\ size' = size
      /\ mm_initialized' = mm_initialized /\ mm_initialized = 1
      /\ current \in DOMAIN hdr /\ current' = hdr[current].next
      /\ ~Mergeable(current)
    BY DEF KfreeAdvance, HeapInv, WalkOK
<1>2. current' \in DOMAIN hdr \cup {NIL}
    BY <1>1 DEF HeapInv, Partition, Tiled
<1>3. ASSUME NEW a \in DOMAIN hdr, Behind(a)' PROVE ~Mergeable(a)
    <2>1. a \in Int /\ current \in Int
        BY <1>1 DEF HeapInv, TypeOK, Addr
    <2>2. CASE a < current
        BY <2>2, <1>1 DEF HeapInv, MergeOK, Behind
    <2>3. CASE a = current
        BY <2>3, <1>1
    <2>4. CASE current < a
        BY <2>4, <2>1, <1>1, <1>2, <1>3, NothingBetween DEF Behind, HeapInv, TypeOK, Addr
    <2> QED BY <2>1, <2>2, <2>3, <2>4
<1>4. TypeOK'
    BY <1>1, <1>2 DEF HeapInv, TypeOK
<1>5. MergeOK'
    BY <1>1, <1>3 DEF MergeOK, Mergeable
<1> QED
    BY <1>1, <1>2, <1>4, <1>5 DEF HeapInv, Partition, Tiled, Ordered, WalkOK,
        SearchOK, MergedOK, OwnedOK, ActiveIsOwned, HoldsRequest

\* The steps that end a walk, and the panic's spin, change no block.
LEMMA WalkEndInv ==
    ASSUME HeapInv, KmallocPanic \/ KfreeDone \/ UNCHANGED vars
    PROVE  HeapInv'
<1>1. hdr' = hdr /\ live' = live /\ mm_initialized' = mm_initialized
      /\ current' = current /\ size' = size
    BY DEF KmallocPanic, KfreeDone, vars
<1>2. pc' \in {"idle", "search", "coalesce", "panic"}
    BY DEF HeapInv, TypeOK, KmallocPanic, KfreeDone, vars
<1>3. TypeOK'
    BY <1>1, <1>2 DEF HeapInv, TypeOK
<1>4. Partition' /\ OwnedOK' /\ HoldsRequest'
    BY <1>1 DEF HeapInv, Partition, Tiled, Ordered, OwnedOK, ActiveIsOwned, HoldsRequest
<1>5. \A a \in DOMAIN hdr : /\ Fits(a)' <=> Fits(a)
                            /\ Mergeable(a)' <=> Mergeable(a)
                            /\ Behind(a)' <=> Behind(a)
    BY <1>1 DEF Fits, Mergeable, Behind
<1>6. WalkOK' /\ SearchOK' /\ MergeOK' /\ MergedOK'
    BY <1>1, <1>5 DEF HeapInv, WalkOK, SearchOK, MergeOK, MergedOK, Behind,
        KmallocPanic, KfreeDone, vars
<1> QED BY <1>1, <1>3, <1>4, <1>6 DEF HeapInv

\* HeapInv holds at every step of every kmalloc and kfree.
THEOREM Invariance == Spec => []HeapInv
<1>1. HeapInv /\ [Next]_vars => HeapInv'
    <2> SUFFICES ASSUME HeapInv, [Next]_vars PROVE HeapInv'
        OBVIOUS
    <2>1. CASE KmallocFound
        BY <2>1, TakeWholeInv, SplitInv
    <2> QED
        BY <2>1, KmallocCallInv, KmallocAdvanceInv, KfreeCallInv, KfreeMergeInv,
           KfreeAdvanceInv, WalkEndInv DEF Next, Walk, PanicSpin
<1> QED BY InitInv, <1>1, PTL DEF Spec

-----------------------------------------------------------------------------
\* For every heap size, header size, alignment and sequence of requests, the
\* block list of mm.c partitions the heap at every step of every walk.
THEOREM PartitionAlways == Spec => []Partition
BY Invariance, PTL DEF HeapInv

\* kmalloc never returns a block smaller than the request, unless rounding
\* the request up wraps.
THEOREM HoldsRequestAlways == Spec => []HoldsRequest
BY Invariance, PTL DEF HeapInv

\* A block is active exactly while a caller owns it.
THEOREM ActiveIsOwnedAlways == Spec => []ActiveIsOwned
<1>1. HeapInv => ActiveIsOwned
    BY DEF HeapInv, OwnedOK
<1> QED BY <1>1, Invariance, PTL

\* kmalloc panics only when no free block fits.
THEOREM PanicJustifiedAlways == Spec => []PanicJustified
<1>1. HeapInv => PanicJustified
    BY DEF HeapInv, SearchOK, PanicJustified
<1> QED BY <1>1, Invariance, PTL

\* Outside kfree no two neighbouring blocks are free, and a heap whose blocks
\* have all been given back is the single free block init_mm made.
THEOREM FreshWhenEmptyAlways == Spec => [](Coalesced /\ FreshWhenEmpty)
<1>1. HeapInv => Coalesced
    BY DEF HeapInv, MergedOK, Coalesced
<1>2. ASSUME HeapInv, mm_initialized = 1, pc = "idle", DOMAIN live = {}
      PROVE  hdr = init_mm
    <2> USE HeapAssumption
    <2>1. Tiled /\ Ordered /\ TypeOK /\ 0 \in DOMAIN hdr
        BY <1>2 DEF HeapInv, Partition
    <2>2. \A a \in DOMAIN hdr : hdr[a].is_free = 1
        BY <1>2, <2>1 DEF HeapInv, OwnedOK, ActiveIsOwned, TypeOK, Header
    <2>3. hdr[0].next = NIL
        BY <1>1, <1>2, <2>1, <2>2 DEF Coalesced, Mergeable, Tiled
    <2>4. hdr[0].size = HeapBytes - HDR
        BY <2>1, <2>3 DEF Tiled, TypeOK, Header
    <2>5. DOMAIN hdr = {0}
        BY <2>1, <2>4 DEF Ordered, TypeOK, Addr
    <2>6. hdr[0] = [size |-> HeapBytes - HDR, is_free |-> 1, next |-> NIL]
        BY <2>1, <2>2, <2>3, <2>4 DEF TypeOK, Header
    <2> QED BY <2>1, <2>5, <2>6 DEF init_mm, TypeOK
<1>3. HeapInv => FreshWhenEmpty
    BY <1>2 DEF FreshWhenEmpty
<1> QED BY <1>1, <1>3, Invariance, PTL

-----------------------------------------------------------------------------
\* A step that neither grants nor releases leaves every owned region alone.
LEMMA OwnedKept ==
    ASSUME live' = live,
           \A p \in DOMAIN live : hdr'[p].size = hdr[p].size
    PROVE  Owned' = Owned
BY DEF Owned

\* When kmalloc returns, one region apart from all owned ones is granted.
LEMMA GrantStep ==
    ASSUME HeapInv, HeapInv', KmallocFound
    PROVE  \E r \in API!Region : API!Grant(r)
<1> USE HeapAssumption
<1>1. PICK a \in DOMAIN hdr : a = current
    BY DEF KmallocFound, HeapInv, WalkOK
<1>2. Fits(a) /\ pc = "search" /\ mm_initialized = 1 /\ mm_initialized' = 1
    BY <1>1 DEF KmallocFound, HeapInv, WalkOK
<1>3. a \notin DOMAIN live /\ DOMAIN live \subseteq DOMAIN hdr
    BY <1>1, <1>2 DEF HeapInv, OwnedOK, ActiveIsOwned, Fits
<1>4. DOMAIN live' = DOMAIN live \cup {a}
    BY <1>1 DEF KmallocFound
<1>5. a \in DOMAIN hdr' /\ DOMAIN live \subseteq DOMAIN hdr'
    BY <1>4 DEF HeapInv, OwnedOK
<1>6. a + HDR + ALIGN(size) \notin DOMAIN hdr \/ ~CanSplit(a)
    <2>1. size \in Nat /\ ALIGN(size) \in Nat /\ hdr[a].size \in Nat
        BY AlignNat DEF HeapInv, TypeOK, Header
    <2>2. \A b \in DOMAIN hdr : b \in Int
        BY DEF HeapInv, TypeOK, Addr
    <2> QED BY <1>2, <2>1, <2>2 DEF HeapInv, Partition, Ordered, CanSplit
<1>7. \A p \in DOMAIN live : hdr'[p].size = hdr[p].size
    <2>1. CASE CanSplit(a)
        BY <1>1, <1>3, <1>6, <2>1 DEF KmallocFound, Take, Split
    <2>2. CASE ~CanSplit(a)
        BY <1>1, <1>3, <2>2 DEF KmallocFound, Take
    <2> QED BY <2>1, <2>2
<1> DEFINE r == [base |-> a + HDR, size |-> hdr'[a].size]
<1>8. hdr'[a].size \in 0 .. HeapBytes /\ a \in 0 .. HeapBytes - 1
      /\ Tiled' /\ Ordered' /\ \A b \in DOMAIN hdr' : b \in Int /\ hdr'[b].size \in Nat
    BY <1>2, <1>5 DEF HeapInv, TypeOK, Header, Addr, Partition
<1>9. a + HDR + hdr'[a].size <= HeapBytes
    <2>1. ASSUME hdr'[a].next # NIL PROVE hdr'[a].next \in 0 .. HeapBytes - 1
        BY <1>5, <2>1 DEF HeapInv, TypeOK, Header, Addr
    <2> QED BY <1>5, <1>8, <2>1 DEF Tiled
<1>10. r \in API!Region /\ API!End(r) <= HeapBytes
    BY <1>8, <1>9 DEF API!Region, API!End
<1>11. ASSUME NEW s \in Owned PROVE API!Apart(r, s)
    <2>1. PICK p \in DOMAIN live : s = [base |-> p + HDR, size |-> hdr[p].size]
        BY DEF Owned
    <2>2. p # a /\ p \in DOMAIN hdr' /\ hdr'[p].size = hdr[p].size
        BY <1>3, <1>5, <1>7
    <2>3. p + HDR + hdr'[p].size <= a \/ a + HDR + hdr'[a].size <= p
        BY <1>5, <1>8, <2>2 DEF Ordered
    <2> QED BY <1>5, <1>8, <2>1, <2>2, <2>3 DEF API!Apart, API!End
<1>12. Owned' = Owned \cup {r}
    BY <1>4, <1>7 DEF Owned
<1> QED BY <1>10, <1>11, <1>12 DEF API!Grant

\* Entering kfree releases exactly the region of the block.
LEMMA ReleaseStep ==
    ASSUME HeapInv, NEW p \in DOMAIN live, KfreeCall(p)
    PROVE  \E r \in Owned : API!Release(r)
<1> USE HeapAssumption
<1> DEFINE r == [base |-> p + HDR, size |-> hdr[p].size]
<1>1. DOMAIN live' = DOMAIN live \ {p} /\ DOMAIN live \subseteq DOMAIN hdr
    BY DEF KfreeCall, HeapInv, OwnedOK
<1>2. \A q \in DOMAIN live : hdr'[q].size = hdr[q].size /\ q \in Int
    BY <1>1 DEF KfreeCall, HeapInv, TypeOK, Header, Addr
<1>3. Owned' = Owned \ {r}
    BY <1>1, <1>2 DEF Owned
<1> QED BY <1>3 DEF API!Release, Owned

\* kmalloc and kfree implement HeapAPI: whatever the constants, every step of
\* mm.c grants one region apart from all owned ones, releases one, or leaves
\* what callers own untouched.
THEOREM Implements == Spec => ImplementsAPI
<1>1. Init => API!Init
    BY DEF Init, API!Init, Owned
<1>2. ASSUME HeapInv, HeapInv', [Next]_vars PROVE [API!Next]_Owned
    <2>1. CASE KmallocFound
        <3>1. PICK r \in API!Region : API!Grant(r)
            BY <1>2, <2>1, GrantStep
        <3>2. r \in Owned'
            BY <3>1 DEF API!Grant
        <3> QED BY <3>1, <3>2 DEF API!Next
    <2>2. ASSUME NEW p \in DOMAIN live, KfreeCall(p) PROVE API!Next
        BY <1>2, <2>2, ReleaseStep DEF API!Next
    <2>3. ASSUME NEW n \in Requests, KmallocCall(n) PROVE Owned' = Owned
        BY <1>2, <2>3, OwnedKept DEF KmallocCall, HeapInv, OwnedOK
    <2>4. CASE KfreeMerge
        <3>1. PICK b \in DOMAIN hdr : b = hdr[current].next
            BY <1>2, <2>4 DEF KfreeMerge, Mergeable, HeapInv, WalkOK, Partition, Tiled
        <3>2. current \notin DOMAIN live /\ b \notin DOMAIN live
              /\ DOMAIN live \subseteq DOMAIN hdr
            BY <1>2, <2>4, <3>1 DEF KfreeMerge, Mergeable, HeapInv, WalkOK,
                OwnedOK, ActiveIsOwned
        <3> QED BY <2>4, <3>1, <3>2, OwnedKept DEF KfreeMerge, Absorb
    <2>5. CASE KmallocAdvance \/ KmallocPanic \/ KfreeAdvance \/ KfreeDone
               \/ UNCHANGED vars
        BY <2>5, OwnedKept DEF KmallocAdvance, KmallocPanic, KfreeAdvance,
            KfreeDone, vars
    <2> QED BY <1>2, <2>1, <2>2, <2>3, <2>4, <2>5 DEF Next, Walk, PanicSpin
<1> QED BY <1>1, <1>2, Invariance, PTL DEF Spec, ImplementsAPI, API!Spec

-----------------------------------------------------------------------------
(* The interface has an address only within its lease, for every set of    *)
(* addresses and lease times and every number of messages on their way.    *)

DhcpRequests == [type : {"DISCOVER", "REQUEST"}, cur : BOOLEAN, ip : Addrs \cup {NoAddr}]
Replies == [type : {"OFFER", "ACK", "NAK"}, cur : BOOLEAN, ip : Addrs \cup {NoAddr},
            offer : Offers \cup {NoOffer}]

\* A set of replies in which every ACK grants an address for a time.
Granting(S) ==
    /\ S \subseteq Replies
    /\ \A m \in S : m.type = "ACK" => m.ip \in Addrs /\ m.offer \in Offers

Messages ==
    /\ synced \in BOOLEAN /\ req \subseteq DhcpRequests /\ Granting(rep)
    /\ ip_addr \in Addrs \cup {NoAddr} /\ offered_ip_addr \in Addrs \cup {NoAddr}

Timers ==
    /\ t0_timeout \in Nat /\ lease_used \in Nat
    /\ t1_renew_time \in Nat /\ t2_rebind_time \in Nat /\ t2_timeout \in Nat

DhcpInv == Messages /\ Timers /\ AddressLeased

\* A lease, renewal or rebinding time is at least one tick.
LEMMA TicksPositive ==
    ASSUME NEW s \in Nat
    PROVE  Ticks(s) \in Nat /\ Ticks(s) >= 1
<1> DEFINE n == (s + Minute \div 2) \div Minute
<1>1. Minute \in Nat \ {0} /\ MaxTicks \in Nat \ {0}
    BY DhcpAssumption
<1>2. Minute \div 2 \in Nat
    BY <1>1
<1>3. n \in Nat
    BY <1>1, <1>2
<1> HIDE DEF n
<1>4. Ticks(s) = IF n = 0 THEN 1 ELSE IF n > MaxTicks THEN MaxTicks ELSE n
    BY DEF Ticks, n
<1> QED BY <1>1, <1>3, <1>4

\* The three times of an ACK are numbers.
LEMMA AckTimes ==
    ASSUME NEW o \in Offers
    PROVE  /\ dhcp_handle_ack(o).t0 \in Nat
           /\ dhcp_handle_ack(o).t1 \in Nat
           /\ dhcp_handle_ack(o).t2 \in Nat
<1>1. o.t0 \in Nat /\ o.t1 \in Nat \cup {NotGiven} /\ o.t2 \in Nat \cup {NotGiven}
    BY DhcpAssumption
<1>2. o.t0 \div 2 \in Nat /\ (o.t0 * 7) \div 8 \in Nat
    BY <1>1
<1> QED BY <1>1, <1>2 DEF dhcp_handle_ack

\* Making messages stale, losing and adding them keeps their types.
LEMMA StaleTypes ==
    /\ \A S : S \subseteq DhcpRequests => Stale(S) \subseteq DhcpRequests
    /\ \A S : Granting(S) => Granting(Stale(S))
BY DEF Stale, DhcpRequests, Replies, Granting

LEMMA AddTypes ==
    /\ \A S, m, max : S \subseteq DhcpRequests /\ m \in DhcpRequests => Add(S, m, max) \subseteq DhcpRequests
    /\ \A S, m, max : /\ Granting(S) /\ m \in Replies
                      /\ m.type = "ACK" => m.ip \in Addrs /\ m.offer \in Offers
                      => Granting(Add(S, m, max))
BY DEF Add, Granting

LEMMA SentTypes ==
    ASSUME NEW fate, NEW S, NEW m \in DhcpRequests, S \subseteq DhcpRequests
    PROVE  Sent(fate, S, m) \subseteq DhcpRequests
BY AddTypes DEF Sent

\* dhcp_discover keeps the types and leaves the client without a claim to an
\* address of its own.
LEMMA Discovers ==
    ASSUME NEW t, NEW sync \in BOOLEAN, NEW fate, NEW out, NEW in,
           out \subseteq DhcpRequests, Granting(in), dhcp_discover(t, sync, fate, out, in)
    PROVE  /\ state' = "SELECTING" /\ offered_ip_addr' = NoAddr
           /\ synced' \in BOOLEAN /\ req' \subseteq DhcpRequests /\ Granting(rep')
<1> DEFINE m == [type |-> "DISCOVER", cur |-> TRUE, ip |-> NoAddr]
<1>1. m \in DhcpRequests
    BY DEF DhcpRequests
<1>2. Stale(out) \subseteq DhcpRequests /\ Granting(Stale(in))
    BY StaleTypes
<1>3. synced' \in BOOLEAN
    BY DEF dhcp_discover
<1>4. \E S \in {out, Stale(out)} : req' = Sent(fate, S, m)
    BY DEF dhcp_discover
<1>5. req' \subseteq DhcpRequests
    BY <1>1, <1>2, <1>4, SentTypes
<1>6. Granting(rep')
    BY <1>2 DEF dhcp_discover
<1> QED BY <1>3, <1>5, <1>6 DEF dhcp_discover

\* Starting over gives the address back.
LEMMA RestartInv ==
    ASSUME DhcpInv, NEW fate, Restart(fate)
    PROVE  DhcpInv'
<1>1. PICK released \in BOOLEAN :
        IF released THEN dhcp_discover(0, FALSE, fate, Stale(req), Stale(rep))
                    ELSE dhcp_discover(0, FALSE, fate, req, rep)
    BY DEF Restart
<1>2. /\ state' = "SELECTING" /\ offered_ip_addr' = NoAddr
      /\ synced' \in BOOLEAN /\ req' \subseteq DhcpRequests /\ Granting(rep')
    BY <1>1, StaleTypes, Discovers DEF DhcpInv, Messages
<1>3. ip_addr' = NoAddr
    BY DEF Restart, DhcpInv, AddressLeased, dhcp_supplied_address
<1>4. Timers'
    BY DEF Restart, Timers
<1> QED BY <1>2, <1>3, <1>4 DEF DhcpInv, Messages, AddressLeased

\* A request changes nothing but the state and the messages.
LEMMA RequestTypes ==
    ASSUME Messages, NEW new, NEW ip \in Addrs \cup {NoAddr}, NEW fate, Request(new, ip, fate)
    PROVE  /\ state' = new /\ req' \subseteq DhcpRequests
           /\ UNCHANGED <<synced, ip_addr>>
<1>1. [type |-> "REQUEST", cur |-> synced, ip |-> ip] \in DhcpRequests
    BY DEF DhcpRequests, Messages
<1> QED BY <1>1, SentTypes DEF Request, Messages

\* Binding starts the lease and the renewal timer at one tick or more.
LEMMA AckInv ==
    ASSUME DhcpInv, NEW m \in rep, NEW in, Granting(in), Ack(m, in)
    PROVE  DhcpInv'
<1>1. m.ip \in Addrs /\ m.offer \in Offers
    BY DEF DhcpInv, Messages, Granting, Ack
<1> DEFINE o == dhcp_handle_ack(m.offer)
<1>2. /\ Ticks(o.t0) \in Nat /\ Ticks(o.t0) >= 1
      /\ Ticks(o.t1) \in Nat /\ Ticks(o.t1) >= 1
      /\ Ticks(o.t2) \in Nat
    BY <1>1, AckTimes, TicksPositive
<1>3. /\ state' = "BOUND" /\ ip_addr' = m.ip /\ offered_ip_addr' = m.ip
      /\ lease_used' = 0 /\ t0_timeout' = Ticks(o.t0)
      /\ t1_renew_time' = Ticks(o.t1)
      /\ t2_timeout' = Ticks(o.t2) /\ t2_rebind_time' = Ticks(o.t2)
      /\ UNCHANGED <<synced, req>> /\ rep' = in
    BY DEF Ack, dhcp_bind
<1> HIDE DEF o
<1>4. Messages'
    BY <1>1, <1>3 DEF DhcpInv, Messages
<1>5. Timers'
    BY <1>2, <1>3 DEF Timers
<1>6. AddressLeased'
    BY <1>1, <1>2, <1>3, DhcpAssumption DEF AddressLeased, Supplied
<1> QED BY <1>4, <1>5, <1>6 DEF DhcpInv

\* A refusal takes the address away.
LEMMA NakInv ==
    ASSUME DhcpInv, NEW m, NEW in, NEW fate, Granting(in), Nak(m, in, fate)
    PROVE  DhcpInv'
<1>1. ip_addr' = NoAddr /\ dhcp_discover(0, synced, fate, req, in) /\ UNCHANGED lease
    BY DEF Nak, dhcp_handle_nak
<1>2. /\ state' = "SELECTING" /\ offered_ip_addr' = NoAddr
      /\ synced' \in BOOLEAN /\ req' \subseteq DhcpRequests /\ Granting(rep')
    BY <1>1, Discovers DEF DhcpInv, Messages
<1>3. Timers'
    BY <1>1 DEF lease, DhcpInv, Timers
<1> QED BY <1>1, <1>2, <1>3 DEF DhcpInv, Messages, AddressLeased

\* An offer is asked for; a client that has one does not ask.
LEMMA OfferInv ==
    ASSUME DhcpInv, NEW m \in rep, NEW in, NEW fate, Granting(in), Offer(m, in, fate)
    PROVE  DhcpInv'
<1>1. m.ip \in Addrs \cup {NoAddr}
    BY DEF DhcpInv, Messages, Granting, Replies
<1>2. /\ state = "SELECTING" /\ offered_ip_addr' = m.ip /\ rep' = in
      /\ Request("REQUESTING", m.ip, fate) /\ UNCHANGED lease
    BY DEF Offer, dhcp_handle_offer
<1>3. state' = "REQUESTING" /\ req' \subseteq DhcpRequests /\ UNCHANGED <<synced, ip_addr>>
    BY <1>1, <1>2, RequestTypes DEF DhcpInv
<1>4. ip_addr = NoAddr
    BY <1>2 DEF DhcpInv, AddressLeased, Supplied
<1>5. Timers'
    BY <1>2 DEF lease, DhcpInv, Timers
<1> QED BY <1>1, <1>2, <1>3, <1>4, <1>5 DEF DhcpInv, Messages, AddressLeased

\* Whatever reply arrives, and however often.
LEMMA RecvInv == DhcpInv /\ dhcp_recv => DhcpInv'
<1> SUFFICES ASSUME DhcpInv, dhcp_recv PROVE DhcpInv'
    OBVIOUS
<1>1. PICK m \in rep, fate \in Fates : \E in \in Without(rep, m) :
        \/ Ack(m, in)
        \/ Nak(m, in, fate)
        \/ Offer(m, in, fate)
        \/ rep' = rep \ {m} /\ UNCHANGED <<client, req>>
    BY DEF dhcp_recv
<1>2. PICK in \in Without(rep, m) :
        \/ Ack(m, in)
        \/ Nak(m, in, fate)
        \/ Offer(m, in, fate)
        \/ rep' = rep \ {m} /\ UNCHANGED <<client, req>>
    BY <1>1
<1>3. Granting(in) /\ Granting(rep \ {m})
    BY DEF DhcpInv, Messages, Granting, Without
<1>4. CASE rep' = rep \ {m} /\ UNCHANGED <<client, req>>
    BY <1>3, <1>4 DEF DhcpInv, Messages, Timers, AddressLeased, client, lease
<1> QED BY <1>2, <1>3, <1>4, AckInv, NakInv, OfferInv

\* Retransmission: the client asks again, gives up an offer, or stops a timer.
LEMMA FineInv ==
    ASSUME DhcpInv, NEW fate, dhcp_fine_tmr(fate)
    PROVE  DhcpInv'
<1>1. CASE state = "SELECTING" /\ dhcp_discover(tries, synced, fate, req, rep)
           /\ UNCHANGED <<lease, ip_addr>>
    <2>1. /\ state' = "SELECTING" /\ offered_ip_addr' = NoAddr
          /\ synced' \in BOOLEAN /\ req' \subseteq DhcpRequests /\ Granting(rep')
        BY <1>1, Discovers DEF DhcpInv, Messages
    <2>2. ip_addr = NoAddr
        BY <1>1 DEF DhcpInv, AddressLeased, Supplied
    <2>3. Timers'
        BY <1>1 DEF lease, DhcpInv, Timers
    <2> QED BY <1>1, <2>1, <2>2, <2>3 DEF DhcpInv, Messages, AddressLeased
<1>2. CASE state = "REQUESTING" /\ Request("REQUESTING", offered_ip_addr, fate)
           /\ UNCHANGED <<lease, offered_ip_addr, rep>>
    <2>1. state' = "REQUESTING" /\ req' \subseteq DhcpRequests /\ UNCHANGED <<synced, ip_addr>>
        BY <1>2, RequestTypes DEF DhcpInv, Messages
    <2>2. ip_addr = NoAddr
        BY <1>2 DEF DhcpInv, AddressLeased, Supplied
    <2>3. Timers'
        BY <1>2 DEF lease, DhcpInv, Timers
    <2> QED BY <1>2, <2>1, <2>2, <2>3 DEF DhcpInv, Messages, AddressLeased
<1>3. CASE Restart(fate)
    BY <1>3, RestartInv
<1>4. CASE UNCHANGED <<state, tries, offered_ip_addr, lease, synced, ip_addr, req, rep>>
    BY <1>4 DEF DhcpInv, Messages, Timers, AddressLeased, lease
<1> QED BY <1>1, <1>2, <1>3, <1>4 DEF dhcp_fine_tmr

\* A tick of the lease: at its end the address is given back, before it the
\* renewal timer of a bound client is still running.
LEMMA CoarseInv ==
    ASSUME DhcpInv, NEW fate, dhcp_coarse_tmr(fate)
    PROVE  DhcpInv'
<1> DEFINE used == LeaseUsed
           expired == t0_timeout # 0 /\ used = t0_timeout
<1>1. used \in Nat
    BY DEF LeaseUsed, DhcpInv, Timers
<1>2. ASSUME ~ expired PROVE ip_addr # NoAddr => used < t0_timeout
    BY <1>2 DEF LeaseUsed, DhcpInv, Timers, AddressLeased
<1>3. \A end \in Nat : Again(end, used) \in Nat
    BY <1>1 DEF Again
<1>4. \A n \in Nat : Dec(n) \in Nat /\ (n > 1 => Dec(n) > 0)
    BY DEF Dec
<1>5. ip_addr \in Addrs \cup {NoAddr}
    BY DEF DhcpInv, Messages
<1>6. CASE expired /\ Restart(fate)
    BY <1>6, RestartInv
<1>7. CASE /\ ~ expired /\ lease_used' = used
           /\ UNCHANGED <<t0_timeout, t2_timeout, t1_renew_time, offered_ip_addr, rep>>
           /\ IF state = "SELECTING"
              THEN t2_rebind_time' = 0 /\ UNCHANGED <<state, tries, request_timeout, synced, ip_addr, req>>
              ELSE /\ Request("REBINDING", ip_addr, fate)
                   /\ t2_rebind_time' = Again(t0_timeout, used)
    <2>1. ip_addr # NoAddr => used < t0_timeout
        BY <1>2, <1>7
    <2> HIDE DEF used
    <2>2. CASE state = "SELECTING"
        BY <1>1, <1>7, <2>1, <2>2 DEF DhcpInv, Messages, Timers, AddressLeased
    <2>3. CASE state # "SELECTING"
        <3>1. /\ state' = "REBINDING" /\ req' \subseteq DhcpRequests
              /\ UNCHANGED <<synced, ip_addr>>
            BY <1>5, <1>7, <2>3, RequestTypes DEF DhcpInv
        <3>2. Timers'
            BY <1>1, <1>3, <1>7, <2>3 DEF DhcpInv, Timers
        <3> QED BY <1>7, <2>1, <3>1, <3>2 DEF DhcpInv, Messages, AddressLeased, Supplied
    <2> QED BY <2>2, <2>3
<1>8. CASE /\ ~ expired /\ lease_used' = used /\ t2_rebind_time' = Dec(t2_rebind_time)
           /\ UNCHANGED <<t0_timeout, t2_timeout, offered_ip_addr, rep>>
           /\ IF t1_renew_time = 1 /\ state \in {"REQUESTING", "BOUND", "RENEWING"}
              THEN /\ Request("RENEWING", ip_addr, fate)
                   /\ t1_renew_time' = Again(t2_timeout, used)
              ELSE /\ t1_renew_time' = Dec(t1_renew_time)
                   /\ UNCHANGED <<state, tries, request_timeout, synced, ip_addr, req>>
    <2>1. ip_addr # NoAddr => used < t0_timeout
        BY <1>2, <1>8
    <2> HIDE DEF used
    <2>2. CASE t1_renew_time = 1 /\ state \in {"REQUESTING", "BOUND", "RENEWING"}
        <3>1. /\ state' = "RENEWING" /\ req' \subseteq DhcpRequests
              /\ UNCHANGED <<synced, ip_addr>>
            BY <1>5, <1>8, <2>2, RequestTypes DEF DhcpInv
        <3>2. Timers'
            BY <1>1, <1>3, <1>4, <1>8, <2>2 DEF DhcpInv, Timers
        <3> QED BY <1>8, <2>1, <3>1, <3>2 DEF DhcpInv, Messages, AddressLeased, Supplied
    <2>3. CASE ~(t1_renew_time = 1 /\ state \in {"REQUESTING", "BOUND", "RENEWING"})
        <3>1. t1_renew_time' = Dec(t1_renew_time) /\ UNCHANGED <<state, synced, ip_addr, req>>
            BY <1>8, <2>3
        <3>2. Timers'
            BY <1>1, <1>4, <1>8, <3>1 DEF DhcpInv, Timers
        <3>3. state = "BOUND" => t1_renew_time > 1
            BY <2>3 DEF DhcpInv, Timers, AddressLeased
        <3>4. AddressLeased'
            BY <1>4, <1>8, <2>1, <3>1, <3>3 DEF DhcpInv, Timers, AddressLeased
        <3> QED BY <1>8, <3>1, <3>2, <3>4 DEF DhcpInv, Messages
    <2> QED BY <2>2, <2>3
<1> QED BY <1>6, <1>7, <1>8 DEF dhcp_coarse_tmr

\* The servers grant an address with every ACK; the client does not notice.
LEMMA ServerInv == DhcpInv /\ Servers => DhcpInv'
<1> SUFFICES ASSUME DhcpInv, NEW m \in req, NEW answer, Server(m, answer) PROVE DhcpInv'
    BY DEF Servers
<1>1. m \in DhcpRequests /\ req' \subseteq DhcpRequests /\ UNCHANGED client
    BY DEF DhcpInv, Messages, Server, Without
<1>2. Granting(rep')
    <2>1. CASE \E a \in Addrs : rep' = Add(rep, Reply("OFFER", m, a, NoOffer), MaxRep)
        <3>1. \A a \in Addrs : /\ Reply("OFFER", m, a, NoOffer) \in Replies
                               /\ Reply("OFFER", m, a, NoOffer).type = "OFFER"
            BY <1>1 DEF Reply, Replies, DhcpRequests
        <3> QED BY <2>1, <3>1, AddTypes DEF DhcpInv, Messages
    <2>2. CASE m.ip \in Addrs /\ \E o \in Offers :
                    rep' = Add(rep, Reply("ACK", m, m.ip, o), MaxRep)
        <3>1. \A o \in Offers : /\ Reply("ACK", m, m.ip, o) \in Replies
                                /\ Reply("ACK", m, m.ip, o).ip \in Addrs
                                /\ Reply("ACK", m, m.ip, o).offer \in Offers
            BY <1>1, <2>2 DEF Reply, Replies, DhcpRequests
        <3> QED BY <2>2, <3>1, AddTypes DEF DhcpInv, Messages
    <2>3. CASE rep' = Add(rep, Reply("NAK", m, NoAddr, NoOffer), MaxRep)
        <3>1. /\ Reply("NAK", m, NoAddr, NoOffer) \in Replies
              /\ Reply("NAK", m, NoAddr, NoOffer).type = "NAK"
            BY <1>1 DEF Reply, Replies, DhcpRequests
        <3> QED BY <2>3, <3>1, AddTypes DEF DhcpInv, Messages
    <2> QED BY <2>1, <2>2, <2>3 DEF Server
<1> QED BY <1>1, <1>2 DEF DhcpInv, Messages, Timers, AddressLeased, client, lease

\* Every step keeps the address within its lease.
LEMMA DhcpStepInv == DhcpInv /\ [DhcpNext]_dhcpVars => DhcpInv'
<1> SUFFICES ASSUME DhcpInv, [DhcpNext]_dhcpVars PROVE DhcpInv'
    OBVIOUS
<1>1. CASE dhcp_start
    BY <1>1, RestartInv DEF dhcp_start
<1>2. CASE dhcp_recv
    BY <1>2, RecvInv
<1>3. CASE FineTimer
    BY <1>3, FineInv DEF FineTimer
<1>4. CASE CoarseTimer
    BY <1>4, CoarseInv DEF CoarseTimer
<1>5. CASE Servers
    BY <1>5, ServerInv
<1>6. CASE MinutePasses
    BY <1>6 DEF MinutePasses, DhcpInv, Messages, Granting, Timers, AddressLeased, client,
       lease
<1>7. CASE UNCHANGED protocol
    BY <1>7 DEF protocol, DhcpInv, Messages, Timers, AddressLeased, client, lease
<1> QED BY <1>1, <1>2, <1>3, <1>4, <1>5, <1>6, <1>7 DEF DhcpNext, dhcpVars

\* dhcp_bind, dhcp_coarse_tmr, dhcp_handle_nak and dhcp_release_and_stop leave
\* the interface with an address only within its lease, and a client that is
\* bound with a renewal timer that runs.
THEOREM AddressLeasedAlways == DhcpSpec => []AddressLeased
<1>1. ASSUME DhcpInit PROVE DhcpInv
    <2>1. Messages
        BY <1>1 DEF DhcpInit, Messages, Granting
    <2>2. Timers
        BY <1>1 DEF DhcpInit, Timers
    <2>3. AddressLeased
        BY <1>1 DEF DhcpInit, AddressLeased
    <2> QED BY <2>1, <2>2, <2>3 DEF DhcpInv
<1>2. DhcpInv => AddressLeased
    BY DEF DhcpInv
<1> QED BY <1>1, DhcpStepInv, <1>2, PTL DEF DhcpSpec
=============================================================================
