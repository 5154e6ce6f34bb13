------------------------------ MODULE RadixTree ------------------------------
(***************************************************************************)
(* The radix tree of RadixCache (mem_cache/radix_cache.py) as operators on *)
(* a tree record.  Lengths are in pages: match() returns whole pages only  *)
(* (RadixKeyMatch), so a key is a sequence of units, a unit standing for   *)
(* the tokens of one page together with the namespace (extra_key and       *)
(* cache_salt) that child_key() prepends.                                  *)
(*                                                                         *)
(* A node is named by the path from the root to its end.  value maps every *)
(* cached path to the page that holds its last unit; the page belongs to   *)
(* the shortest node that extends the path, so that splitting a node moves *)
(* no page.  lock_ref is defined on exactly the nodes; the root, the empty *)
(* path, is always locked and is not among them.                           *)
(***************************************************************************)
EXTENDS Integers, Sequences, FiniteSets, FiniteSetsExt, Functions, SequencesExt

Root == <<>>

EmptyTree ==
    [value |-> <<>>, lock_ref |-> <<>>, evictable_leaves |-> {},
     evictable_size_ |-> 0, protected_size_ |-> 0]

Nodes(t) == DOMAIN t.lock_ref

Paths(t) == DOMAIN t.value

(* The path of a node and of its ancestors below the root. *)
PathToRoot(t, n) == {m \in Nodes(t) : IsPrefix(m, n)}

HasChild(t, n) == \E m \in Nodes(t) : IsStrictPrefix(n, m)

Children(t, n) ==
    {m \in Nodes(t) : /\ IsStrictPrefix(n, m)
                      /\ ~\E k \in Nodes(t) : IsStrictPrefix(n, k) /\ IsStrictPrefix(k, m)}

(* The paths whose pages the nodes N hold, len(node.key) of them per node. *)
Cells(t, N) ==
    {q \in Paths(t) : \E n \in N :
        /\ IsPrefix(q, n)
        /\ ~\E m \in Nodes(t) : IsPrefix(q, m) /\ IsStrictPrefix(m, n)}

KeyLens(t, N) == Cardinality(Cells(t, N))

(* _update_leaf_status on the nodes N. *)
UpdateLeafStatus(t, N) ==
    [t EXCEPT !.evictable_leaves =
        (@ \ N) \cup {n \in N \cap Nodes(t) : t.lock_ref[n] = 0 /\ ~HasChild(t, n)}]

-----------------------------------------------------------------------------
(* inc_lock_ref and dec_lock_ref walk from a node to the root. *)
AddLockRef(t, n, d) ==
    LET up    == PathToRoot(t, n)
        edge  == {m \in up : t.lock_ref[m] = IF d = 1 THEN 0 ELSE 1}
        moved == d * KeyLens(t, edge)
    IN  UpdateLeafStatus(
            [t EXCEPT !.lock_ref = [m \in Nodes(t) |-> IF m \in up THEN @[m] + d ELSE @[m]],
                      !.evictable_size_ = @ - moved,
                      !.protected_size_ = @ + moved],
            up)

IncLockRef(t, n) == AddLockRef(t, n, 1)

DecLockRef(t, n) == AddLockRef(t, n, -1)

-----------------------------------------------------------------------------
(* The longest prefix of the key that is cached. *)
MatchedPath(t, key) ==
    LET cached == {i \in 0..Len(key) : \A j \in 1..i : SubSeq(key, 1, j) \in Paths(t)}
    IN  SubSeq(key, 1, Max(cached))

(* _split_node: the new node takes over the lock count of the node below. *)
MutSplitUnlocked(t, p) ==
    IF p = Root \/ p \in Nodes(t)
    THEN t
    ELSE [t EXCEPT !.lock_ref = [m \in Nodes(t) \cup {p} |-> IF m = p THEN 0 ELSE @[m]]]

SplitNode(t, p) ==
    IF p = Root \/ p \in Nodes(t)
    THEN t
    ELSE LET child == CHOOSE m \in Nodes(t) :
                 /\ IsPrefix(p, m)
                 /\ \A k \in Nodes(t) : IsPrefix(p, k) => Len(m) <= Len(k)
         IN  [t EXCEPT !.lock_ref =
                 [m \in Nodes(t) \cup {p} |-> IF m = p THEN @[child] ELSE @[m]]]

(* match_prefix: the last node of the match, split off if need be. *)
MatchPrefix(t, key) ==
    LET p == MatchedPath(t, key)
    IN  [tree |-> SplitNode(t, p), last_node |-> p]

(* device_indices of a path that is cached. *)
PagesOf(t, p) == [i \in 1..Len(p) |-> t.value[SubSeq(p, 1, i)]]

(* insert: a new leaf for the part of the key that is not cached yet. *)
MutLeafNotUpdated(t, key, pages) ==
    LET p    == MatchedPath(t, key)
        s    == SplitNode(t, p)
        new  == {SubSeq(key, 1, i) : i \in (Len(p) + 1)..Len(key)}
        leaf == [s EXCEPT
                   !.value = [q \in Paths(s) \cup new |-> IF q \in new THEN pages[Len(q)] ELSE @[q]],
                   !.lock_ref = [m \in Nodes(s) \cup {key} |-> IF m = key THEN 0 ELSE @[m]],
                   !.evictable_size_ = @ + Cardinality(new)]
    IN  [tree |-> IF new = {} THEN s ELSE UpdateLeafStatus(leaf, {key}),
         prefix_len |-> Len(p)]

Insert(t, key, pages) ==
    LET p    == MatchedPath(t, key)
        s    == SplitNode(t, p)
        new  == {SubSeq(key, 1, i) : i \in (Len(p) + 1)..Len(key)}
        leaf == [s EXCEPT
                   !.value = [q \in Paths(s) \cup new |-> IF q \in new THEN pages[Len(q)] ELSE @[q]],
                   !.lock_ref = [m \in Nodes(s) \cup {key} |-> IF m = key THEN 0 ELSE @[m]],
                   !.evictable_size_ = @ + Cardinality(new)]
    IN  [tree |-> IF new = {} THEN s ELSE UpdateLeafStatus(leaf, {p, key}),
         prefix_len |-> Len(p)]

-----------------------------------------------------------------------------
(* evict(num): pop leaves, and parents that became unlocked leaves, until  *)
(* num pages are evicted or the heap is empty.  The eviction strategy      *)
(* orders the heap; every order is allowed here, so the nodes E evicted    *)
(* are any set that pops in some order and stops in time.                  *)
Poppable(t, n, E) ==
    IF HasChild(t, n)
    THEN t.lock_ref[n] = 0 /\ Children(t, n) \subseteq E
    ELSE n \in t.evictable_leaves

CanEvict(t, E, num) ==
    /\ \A n \in E : Poppable(t, n, E)
    /\ \/ /\ KeyLens(t, E) >= num
          /\ \/ E = {}
             \/ \E last \in E : /\ ~\E m \in E : IsStrictPrefix(m, last)
                                /\ KeyLens(t, E \ {last}) < num
       \/ /\ KeyLens(t, E) < num
          /\ \A n \in Nodes(t) \ E : ~Poppable(t, n, E)

EvictNodes(t, E) ==
    LET rest    == Nodes(t) \ E
        parents == {m \in rest : Children(t, m) \cap E # {}}
        u       == [t EXCEPT !.value = Restrict(@, Paths(t) \ Cells(t, E)),
                             !.lock_ref = Restrict(@, rest),
                             !.evictable_size_ = @ - KeyLens(t, E),
                             !.evictable_leaves = @ \ E]
    IN  UpdateLeafStatus(u, parents)

EvictedPages(t, E) == Restrict(t.value, Cells(t, E))

-----------------------------------------------------------------------------
(* What the tree's bookkeeping has to say, for any tree.                   *)

(* Every cached path is reachable: its prefixes are cached, and a node     *)
(* ends at or below it.                                                    *)
WellFormed(t) ==
    /\ \A q \in Paths(t) : q # Root /\ \A i \in 1..Len(q) : SubSeq(q, 1, i) \in Paths(t)
    /\ \A q \in Paths(t) : \E n \in Nodes(t) : IsPrefix(q, n)
    /\ Nodes(t) \subseteq Paths(t)

(* evictable_size_ and protected_size_ are the sums the scheduler budgets  *)
(* with, and evictable_leaves are exactly the nodes evict may start from.  *)
SizesExact(t) ==
    /\ t.evictable_size_ = KeyLens(t, {n \in Nodes(t) : t.lock_ref[n] = 0})
    /\ t.protected_size_ = KeyLens(t, {n \in Nodes(t) : t.lock_ref[n] > 0})

LeavesExact(t) ==
    t.evictable_leaves = {n \in Nodes(t) : t.lock_ref[n] = 0 /\ ~HasChild(t, n)}
=============================================================================
