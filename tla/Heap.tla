--------------------------------- MODULE Heap ---------------------------------
(***************************************************************************)
(* The heaps of src/src/rtos.c, after Kernighan & Ritchie.  Memory is      *)
(* counted in units of a block header; the units of a heap are 1 .. Units, *)
(* and 0 is its base node, which has no memory.  Free blocks are linked in *)
(* a circle in order of address.  The search and the release of a block    *)
(* run under the heap's semaphore and are one step each.                   *)
(***************************************************************************)
EXTENDS Naturals, FiniteSets, FiniteSetsExt, Functions

CONSTANTS
    HeapId,
    Units,          \* of each heap
    Alternate,      \* the heap to try next, or None
    InUse,          \* next of a taken block: no block, but its heap
    None            \* the NULL pointer

ASSUME HeapAssumption ==
    /\ Units \in [HeapId -> Nat \ {0}]
    /\ Alternate \in [HeapId -> HeapId \cup {None}]
    /\ InUse \notin Nat
    /\ None \notin HeapId \cup HeapId \X Nat

VARIABLES
    node,           \* of each heap: the block headers by address, [next, size]
    available,      \* where the last search or release stopped
    count           \* blocks that are taken

heapVars == <<node, available, count>>

OS_HeapCreate ==
    /\ node = [h \in HeapId |-> [a \in {0, 1} |->
                  IF a = 0 THEN [next |-> 1, size |-> 0] ELSE [next |-> 0, size |-> Units[h]]]]
    /\ available = [h \in HeapId |-> 1]
    /\ count = [h \in HeapId |-> 0]

\* The nodes as a loop from available meets them.
Walk(h) ==
    LET w[i \in 0 .. Units[h] + 1] == IF i = 0 THEN available[h] ELSE node[h][w[i - 1]].next
    IN  w

Turn(h, walk) == Min({i \in 1 .. Units[h] + 1 : walk[i] = walk[0]})

\* Mutant: the loop ends before it has looked at the node it began behind.
FirstFit_StopsEarly(h, walk, n) ==
    LET fits == {i \in 1 .. Turn(h, walk) - 1 : node[h][walk[i]].size >= n}
    IN  IF fits = {} THEN 0 ELSE Min(fits)

FirstFit(h, walk, n) ==
    LET fits == {i \in 1 .. Turn(h, walk) : node[h][walk[i]].size >= n}
    IN  IF fits = {} THEN 0 ELSE Min(fits)

\* A block of just n units leaves the circle; a larger one gives its tail.
TakenFrom(nodes, prevp, at, n) ==
    IF nodes[at].size = n
    THEN [nodes EXCEPT ![prevp].next = nodes[at].next, ![at].next = InUse]
    ELSE [a \in DOMAIN nodes \cup {at + nodes[at].size - n} |->
            IF a = at THEN [nodes[a] EXCEPT !.size = @ - n]
            ELSE IF a = at + nodes[at].size - n THEN [next |-> InUse, size |-> n]
            ELSE nodes[a]]

\* The address a search that stops at the i-th node returns.
Address(h, walk, i, n) == walk[i] + node[h][walk[i]].size - n

Take(h, walk, i, n) ==
    /\ node' = [node EXCEPT ![h] = TakenFrom(@, walk[i - 1], walk[i], n)]
    /\ available' = [available EXCEPT ![h] = walk[i - 1]]
    /\ count' = [count EXCEPT ![h] = @ + 1]

\* The last free node in front of bp; the last of all when bp is at an end.
Before(nodes, walk, bp) ==
    LET here(i) == LET p == walk[i]
                       q == nodes[p].next
                   IN  (p < bp /\ bp < q) \/ (p >= q /\ (bp > p \/ bp < q))
    IN  walk[Min({i \in DOMAIN walk : here(i)})]

JoinUpper(nodes, p, bp) ==
    LET q == nodes[p].next
    IN  IF bp + nodes[bp].size = q
        THEN [Restrict(nodes, DOMAIN nodes \ {q}) EXCEPT
                 ![bp] = [next |-> nodes[q].next, size |-> @.size + nodes[q].size]]
        ELSE [nodes EXCEPT ![bp].next = q]

\* Mutant: the lower block's size is left as it was.
JoinLower_KeepSize(nodes, p, bp) ==
    IF p + nodes[p].size = bp
    THEN [Restrict(nodes, DOMAIN nodes \ {bp}) EXCEPT ![p].next = nodes[bp].next]
    ELSE [nodes EXCEPT ![p].next = bp]

JoinLower(nodes, p, bp) ==
    IF p + nodes[p].size = bp
    THEN [Restrict(nodes, DOMAIN nodes \ {bp}) EXCEPT
             ![p] = [next |-> nodes[bp].next, size |-> @.size + nodes[bp].size]]
    ELSE [nodes EXCEPT ![p].next = bp]

rtos__heap_free(block) ==
    LET h == block[1]
        bp == block[2]
        p == Before(node[h], Walk(h), bp)
    IN  /\ node' = [node EXCEPT ![h] = JoinLower(JoinUpper(@, p, bp), p, bp)]
        /\ available' = [available EXCEPT ![h] = p]
        /\ count' = [count EXCEPT ![h] = @ - 1]

-------------------------------------------------------------------------------
Block(h, a) == a .. a + node[h][a].size - 1
Taken(h) == {a \in DOMAIN node[h] : node[h][a].next = InUse}
TakenBlocks == UNION {{<<h, a>> : a \in Taken(h)} : h \in HeapId}

\* Units side by side that no taken block covers.
HasRoom(h, n) ==
    \E a \in 1 .. Units[h] + 1 - n :
        \A b \in Taken(h) : Block(h, b) \cap (a .. a + n - 1) = {}

\* The circle holds the free blocks, every unit of a heap belongs to one block,
\* free neighbours are joined, and count tells how many blocks are out.
HeapSound ==
    \A h \in HeapId :
        LET walk == Walk(h)
            free == {walk[i] : i \in 0 .. Turn(h, walk) - 1}
        IN  /\ free \cap Taken(h) = {} /\ free \cup Taken(h) = DOMAIN node[h]
            /\ \A u \in 1 .. Units[h] :
                  Cardinality({a \in DOMAIN node[h] : u \in Block(h, a)}) = 1
            /\ \A a, b \in free \ {0} : a + node[h][a].size # b
            /\ count[h] = Cardinality(Taken(h))

=============================================================================
