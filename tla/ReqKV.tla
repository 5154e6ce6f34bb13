-------------------------------- MODULE ReqKV --------------------------------
(***************************************************************************)
(* The KV memory of requests: how a request's row of req_to_token, the     *)
(* radix tree and the free list exchange pages.  Operators only; they work *)
(* on a memory m = [is_eagle, tree, free, req] and return the next one.    *)
(* Scheduler applies them.                                                 *)
(*                                                                         *)
(* free counts how often a page is on the free list, so a page freed twice *)
(* is seen.  A row is the sequence of pages that hold a request's tokens   *)
(* 1..kv_allocated_len; the token slots inside a page are PagedAllocator's *)
(* subject.  Which free page an allocation takes is irrelevant here, since *)
(* the pages are interchangeable: the smallest ones are taken.             *)
(***************************************************************************)
EXTENDS RadixTree

CONSTANTS
    Request,
    Text,       \* per request, the page units of its prompt and output
    InputLen,   \* per request, the tokens of its prompt
    NumPages,
    PageSize

ASSUME ReqKVAssumption ==
    /\ NumPages \in Nat \ {0}
    /\ PageSize \in Nat \ {0}
    /\ InputLen \in [Request -> Nat \ {0}]

Page == 1..NumPages

(* ceil_align(n, page_size) // page_size: the pages n tokens fill or open. *)
CeilPages(n) == (n + PageSize - 1) \div PageSize

(* len(RadixKey(...).page_aligned(page_size)) of n raw tokens, in pages;   *)
(* with is_eagle the tree's keys are bigrams.                              *)
KeyPages(m, n) == (IF m.is_eagle /\ n > 0 THEN n - 1 ELSE n) \div PageSize

Key(m, r, n) == SubSeq(Text[r], 1, KeyPages(m, n))

(* len(origin_input_ids) + len(output_ids) *)
TotalLen(m, r) == InputLen[r] + m.req[r].out

available_size(m) == Cardinality({p \in Page : m.free[p] > 0})

-----------------------------------------------------------------------------
(* allocator.free of the pages of a row from position a to position b.     *)
FreeRow(m, r, a, b) ==
    [m EXCEPT !.free = [p \in Page |->
        @[p] + Cardinality({i \in a..b : m.req[r].row[i] = p})]]

(* One allocation for the batch S: its requests get need[r] pages each, in *)
(* the order of the batch, appended to their rows.                         *)
GrowRows(m, S, need) ==
    LET avail    == {p \in Page : m.free[p] > 0}
        rank(p)  == Cardinality({x \in avail : x < p})
        sum(R)   == MapThenSumSet(LAMBDA x : need[x], R)
        order    == SetToSeq(S)
        start(r) == sum({order[j] : j \in 1..(SelectInSeq(order, LAMBDA x : x = r) - 1)})
        pages(r) == [i \in 1..need[r] |-> CHOOSE p \in avail : rank(p) = start(r) + i - 1]
    IN  [m EXCEPT
           !.free = [p \in Page |-> IF p \in avail /\ rank(p) < sum(S) THEN @[p] - 1 ELSE @[p]],
           !.req = [r \in Request |->
               IF r \in S THEN [m.req[r] EXCEPT !.row = @ \o pages(r)] ELSE m.req[r]]]

(* evict_from_tree_cache: evict only the shortfall, here by the nodes E. *)
CanEvictFor(m, num_tokens, E) ==
    LET short == CeilPages(num_tokens) - available_size(m)
    IN  IF PageSize * available_size(m) < num_tokens
        THEN CanEvict(m.tree, E, short)
        ELSE E = {}

Evict(m, E) ==
    LET gone == EvictedPages(m.tree, E)
    IN  [m EXCEPT !.tree = EvictNodes(@, E),
                  !.free = [p \in Page |-> @[p] + Cardinality({q \in DOMAIN gone : gone[q] = p})]]

-----------------------------------------------------------------------------
(* the row keeps the freed duplicates: no write back to req_to_token *)
MutRowNotRewritten(m, r) ==
    LET q     == m.req[r]
        key   == Key(m, r, q.end)
        ins   == Insert(m.tree, key, q.row)
        freed == FreeRow(m, r, q.prot + 1, ins.prefix_len)
    IN  [freed EXCEPT
           !.tree = IncLockRef(DecLockRef(ins.tree, q.last_node), key),
           !.req[r].prot = Len(key),
           !.req[r].pre = q.end,
           !.req[r].last_node = key]

(* cache_unfinished_req: the whole pages of the request go to the tree;    *)
(* those the tree had already are freed and replaced in the row; the lock  *)
(* moves from the old last node to the new one.                            *)
CacheUnfinished(m, r) ==
    LET q     == m.req[r]
        key   == Key(m, r, q.end)
        n     == Len(key)
        ins   == Insert(m.tree, key, q.row)
        freed == FreeRow(m, r, q.prot + 1, ins.prefix_len)
    IN  [freed EXCEPT
           !.tree = IncLockRef(DecLockRef(ins.tree, q.last_node), key),
           !.req[r].row = [i \in 1..Len(q.row) |->
               IF i \in (q.prot + 1)..n THEN ins.tree.value[SubSeq(key, 1, i)] ELSE q.row[i]],
           !.req[r].prot = n,
           !.req[r].pre = q.end,
           !.req[r].last_node = key]

(* cache_finished_req: insert the committed pages or free them, free the   *)
(* unaligned tail, unlock.                                                 *)
CacheFinished(m, r, is_insert) ==
    LET q         == m.req[r]
        len       == Min({q.com, TotalLen(m, r)})
        key       == Key(m, r, len)
        ins       == IF is_insert
                     THEN Insert(m.tree, key, q.row)
                     ELSE [tree |-> m.tree, prefix_len |-> Len(key)]
        duplicate == FreeRow(m, r, q.prot + 1, ins.prefix_len)
        tail      == FreeRow(duplicate, r, Len(key) + 1, CeilPages(len))
    IN  [tail EXCEPT !.tree = DecLockRef(ins.tree, q.last_node)]

(* release_kv_cache: also the pages allocated beyond the committed tokens, *)
(* and the row itself.                                                     *)
MutOverlappingTail(m, r, is_insert) ==
    LET q    == m.req[r]
        done == CacheFinished(m, r, is_insert)
        over == FreeRow(done, r, (q.com \div PageSize) + 1, CeilPages(q.alo))
    IN  [over EXCEPT !.req[r].row = <<>>, !.req[r].prot = 0,
                     !.req[r].com = 0, !.req[r].alo = 0,
                     !.req[r].pre = 0, !.req[r].end = 0, !.req[r].last_node = Root]

ReleaseKV(m, r, is_insert) ==
    LET q    == m.req[r]
        done == CacheFinished(m, r, is_insert)
        over == FreeRow(done, r, CeilPages(q.com) + 1, CeilPages(q.alo))
    IN  [over EXCEPT !.req[r].row = <<>>, !.req[r].prot = 0,
                     !.req[r].com = 0, !.req[r].alo = 0,
                     !.req[r].pre = 0, !.req[r].end = 0, !.req[r].last_node = Root]
=============================================================================
