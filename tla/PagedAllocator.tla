--------------------------- MODULE PagedAllocator ---------------------------
(***************************************************************************)
(* PagedTokenToKVPoolAllocator (mem_cache/allocator/paged.py and base.py). *)
(*                                                                         *)
(* A slot is page * PageSize + offset.  A row is a request's row of        *)
(* req_to_token, or the page-aligned copy of one that a radix-tree node    *)
(* keeps; position i of the code is rows[r][i+1] here.  The clients are    *)
(* the calls of allocation.py, common.py and radix_cache.py: they extend   *)
(* rows, and free page-aligned tails of rows in one or two segments.       *)
(***************************************************************************)
EXTENDS Integers, Sequences, FiniteSets, TLC, SequencesExt

CONSTANTS
    Row,        \* the rows
    NumPages,   \* num_pages
    PageSize,   \* page_size; page_size 1 uses another allocator
    NeedSorts,  \* the values of need_sort to consider
    MaxRow,     \* bound: the longest row
    MaxBatch    \* bound: requests of one batch

ASSUME AllocAssumption ==
    /\ NumPages \in Nat
    /\ PageSize \in Nat /\ PageSize > 1
    /\ NeedSorts \subseteq BOOLEAN
    /\ MaxRow \in Nat /\ MaxBatch \in Nat

VARIABLES
    need_sort,                          \* freed pages go to release_pages first
    free_pages, release_pages,          \* sequences of page ids
    in_free_group,                      \* not is_not_in_free_group
    free_group, free_page_reps_group,   \* slots whose free is deferred
    rows,                               \* the slots of each row
    result                              \* outcome of the last allocation

vars == <<need_sort, free_pages, release_pages, in_free_group, free_group,
          free_page_reps_group, rows, result>>

Pages == 1..NumPages

Ceil(n) == (n + PageSize - 1) \div PageSize

Slot(page, offset) == page * PageSize + offset

Done == [ok |-> TRUE, need |-> 0]

-----------------------------------------------------------------------------
(* torch.sort: the ascending arrangement of a list, as a set of one. *)
Sorted(list) ==
    {s \in {[i \in DOMAIN list |-> list[p[i]]] : p \in Bijection(DOMAIN list, DOMAIN list)} :
        \A i, j \in DOMAIN list : i < j => s[i] <= s[j]}

(* merge_and_sort_free, as an allocation that wants n pages calls it: what *)
(* it leaves in free_pages and release_pages.                              *)
Merged(n) ==
    IF need_sort /\ n > Len(free_pages) /\ release_pages # <<>>
    THEN {<<s, <<>> >> : s \in Sorted(free_pages \o release_pages)}
    ELSE {<<free_pages, release_pages>>}

NumNewPages(pre, seq) == Ceil(seq) - Ceil(pre)

(* tl.sum and torch.sum over the first n entries of a list. *)
CumSum(list) ==
    LET cum[n \in 0..Len(list)] == IF n = 0 THEN 0 ELSE cum[n-1] + list[n]
    IN  cum

(* New pages of the first n requests of a batch. *)
CumNewPages(pre, seq) == CumSum([i \in DOMAIN pre |-> NumNewPages(pre[i], seq[i])])

(* alloc_extend_kernel, position p of a row that grows from pre to seq     *)
(* positions and whose new pages start at before in the list free: the     *)
(* rest of the last partial page, full pages, a new partial page.          *)
ExtendSlot(free, before, pre, seq, last_loc, p) ==
    LET start   == Ceil(pre) * PageSize
        full    == (seq \div PageSize) * PageSize
        page(k) == free[before + k + 1]
    IN  CASE p < start -> last_loc + 1 + (p - pre)
          [] p >= start /\ p < full ->
               Slot(page((p - start) \div PageSize), (p - start) % PageSize)
          [] OTHER -> Slot(page(NumNewPages(pre, seq) - 1), p - full)

(* The new slots of request i of a batch. *)
ExtendSlots(free, pre, seq, last_loc, i) ==
    LET before == CumNewPages(pre, seq)[i-1]
    IN  [j \in 1..(seq[i] - pre[i]) |->
            ExtendSlot(free, before, pre[i], seq[i], last_loc[i], pre[i] + j - 1)]

(* last_loc read one position too early *)
MutEarlyLastLoc(r) == IF Len(rows[r]) < 2 THEN -1 ELSE rows[r][Len(rows[r]) - 1]

LastLoc(r) == IF rows[r] = <<>> THEN -1 ELSE rows[r][Len(rows[r])]

(* The batches: requests in the order the scheduler put them. *)
Batches == UNION {Injection(1..n, Row) : n \in 1..MaxBatch}

(* Give request b[i] the slots out[i]; take `need` pages off the list. *)
Grow(b, free, need, out) ==
    /\ rows' = [r \in Row |->
                   IF \E i \in DOMAIN b : b[i] = r
                   THEN rows[r] \o out[CHOOSE i \in DOMAIN b : b[i] = r]
                   ELSE rows[r]]
    /\ free_pages' = SubSeq(free, need + 1, Len(free))
    /\ result' = Done

Refuse(free, need) ==
    /\ rows' = rows
    /\ free_pages' = free
    /\ result' = [ok |-> FALSE, need |-> need]

(* the merge ignores the page each request may open: no bs + 1 *)
MutMergeThreshold(extend_num_tokens, bs) == extend_num_tokens \div PageSize

ExtendPagesWanted(extend_num_tokens, bs) == extend_num_tokens \div PageSize + bs + 1

AllocExtend(b, ext) ==
    LET pre  == [i \in DOMAIN b |-> Len(rows[b[i]])]
        seq  == [i \in DOMAIN b |-> pre[i] + ext[i]]
        last == [i \in DOMAIN b |-> LastLoc(b[i])]
        need == CumNewPages(pre, seq)[Len(b)]
    IN  /\ \A i \in DOMAIN b : seq[i] <= MaxRow
        /\ \E m \in Merged(ExtendPagesWanted(CumSum(ext)[Len(b)], Len(b))) :
              /\ release_pages' = m[2]
              /\ IF need > Len(m[1])
                 THEN Refuse(m[1], need)
                 ELSE Grow(b, m[1], need,
                           [i \in DOMAIN b |-> ExtendSlots(m[1], pre, seq, last, i)])
        /\ UNCHANGED <<need_sort, in_free_group, free_group, free_page_reps_group>>

(* alloc_decode and its kernel: one more position for every request, on a  *)
(* new page exactly when the last one is full.                             *)
DecodeNewPages(b) == Cardinality({i \in DOMAIN b : (Len(rows[b[i]]) + 1) % PageSize = 1})

DecodeSlot(free, b, i) ==
    LET pre == [j \in DOMAIN b |-> Len(rows[b[j]])]
        cum == CumNewPages(pre, [j \in DOMAIN b |-> pre[j] + 1])
    IN  IF NumNewPages(pre[i], pre[i] + 1) = 0
        THEN LastLoc(b[i]) + 1
        ELSE Slot(free[cum[i-1] + 1], 0)

AllocDecode(b) ==
    LET need == DecodeNewPages(b)
    IN  /\ \A i \in DOMAIN b : Len(rows[b[i]]) \in 1..(MaxRow - 1)
        /\ \E m \in Merged(Len(b)) :
              /\ release_pages' = m[2]
              /\ IF need > Len(m[1])
                 THEN Refuse(m[1], need)
                 ELSE Grow(b, m[1], need, [i \in DOMAIN b |-> <<DecodeSlot(m[1], b, i)>>])
        /\ UNCHANGED <<need_sort, in_free_group, free_group, free_page_reps_group>>

(* alloc: whole pages, for a row that ends at a page boundary. *)
Alloc(r, num_pages) ==
    LET slots(free) == [j \in 1..(num_pages * PageSize) |->
                           Slot(free[(j - 1) \div PageSize + 1], (j - 1) % PageSize)]
    IN  /\ Len(rows[r]) % PageSize = 0
        /\ Len(rows[r]) + num_pages * PageSize <= MaxRow
        /\ \E m \in Merged(num_pages) :
              /\ release_pages' = m[2]
              /\ IF num_pages > Len(m[1])
                 THEN Refuse(m[1], num_pages)
                 ELSE Grow(<<r>>, m[1], num_pages, <<slots(m[1])>>)
        /\ UNCHANGED <<need_sort, in_free_group, free_group, free_page_reps_group>>

-----------------------------------------------------------------------------
(* _release_page_ids *)
ReleasePageIds(ids) ==
    IF need_sort
    THEN release_pages' = ids \o release_pages /\ free_pages' = free_pages
    ELSE free_pages' = ids \o free_pages /\ release_pages' = release_pages

(* the // page_size forgotten: slots end up in the page list *)
MutSlotsAsPages(slots) == slots

PageIds(slots) == [i \in DOMAIN slots |-> slots[i] \div PageSize]

PagesIn(slots) == {slots[i] \div PageSize : i \in DOMAIN slots}

(* torch.unique(slots // page_size): the page ids, once each, ascending;   *)
(* as a set of one.                                                        *)
UniquePages(slots) ==
    {ids \in [1..Cardinality(PagesIn(slots)) -> PagesIn(slots)] :
        /\ Range(ids) = PagesIn(slots)
        /\ \A i, j \in DOMAIN ids : i < j => ids[i] < ids[j]}

(* slots[k::page_size] *)
Stride(slots, k) ==
    [i \in 1..(IF Len(slots) > k THEN Ceil(Len(slots) - k) ELSE 0) |->
        slots[k + (i - 1) * PageSize + 1]]

(* free_segment takes one slot per page of row[start_pos:...]. *)
PageReps(slots, start_pos) ==
    LET offset == start_pos % PageSize
    IN  IF offset = 0 \/ slots = <<>>
        THEN Stride(slots, 0)
        ELSE <<slots[1]>> \o Stride(slots, PageSize - offset)

(* free_segments of row[a:b] and row[c:]: the start of the second segment, *)
(* once the page the first one ends on is trimmed off it.                  *)
MutNoTrim(a, b, c) == c

SecondStart(a, b, c) ==
    IF b > a /\ c \div PageSize = (b - 1) \div PageSize
    THEN (c \div PageSize + 1) * PageSize
    ELSE c

FreeSegments(r, q, a, b, c) ==
    LET row   == rows[r]
        n     == Len(row)
        second == SecondStart(a, b, c)
        reps1 == PageReps(SubSeq(row, a + 1, b), a)
        reps2 == PageReps(SubSeq(row, second + 1, n), second)
    IN  /\ rows[q] = <<>> /\ q # r
        /\ rows' = [rows EXCEPT ![r] = SubSeq(row, 1, a), ![q] = SubSeq(row, b + 1, c)]
        /\ IF in_free_group
           THEN /\ free_page_reps_group' = free_page_reps_group \o reps1 \o reps2
                /\ UNCHANGED <<free_pages, release_pages>>
           ELSE /\ ReleasePageIds(PageIds(reps2 \o reps1))
                /\ UNCHANGED free_page_reps_group
        /\ result' = Done
        /\ UNCHANGED <<need_sort, in_free_group, free_group>>

(* free of row[a:]: the page ids are deduplicated by torch.unique. *)
Free(r, a) ==
    LET slots == SubSeq(rows[r], a + 1, Len(rows[r]))
    IN  /\ slots # <<>>
        /\ rows' = [rows EXCEPT ![r] = SubSeq(rows[r], 1, a)]
        /\ IF in_free_group
           THEN /\ free_group' = free_group \o slots
                /\ UNCHANGED <<free_pages, release_pages>>
           ELSE /\ \E ids \in UniquePages(slots) : ReleasePageIds(ids)
                /\ UNCHANGED free_group
        /\ result' = Done
        /\ UNCHANGED <<need_sort, in_free_group, free_page_reps_group>>

FreeGroupBegin ==
    /\ ~in_free_group
    /\ in_free_group' = TRUE
    /\ free_group' = <<>>
    /\ free_page_reps_group' = <<>>
    /\ result' = Done
    /\ UNCHANGED <<need_sort, free_pages, release_pages, rows>>

(* only the plain frees of the group are flushed *)
MutGroupForgotten ==
    /\ in_free_group
    /\ in_free_group' = FALSE
    /\ \E ids \in UniquePages(free_group) : ReleasePageIds(ids)
    /\ free_page_reps_group' = <<>>
    /\ result' = Done
    /\ UNCHANGED <<need_sort, free_group, rows>>

(* The plain frees are released first, the segment representatives in      *)
(* front of them.  free_group keeps its contents until the next begin.     *)
FreeGroupEnd ==
    /\ in_free_group
    /\ in_free_group' = FALSE
    /\ \E ids \in UniquePages(free_group) :
          ReleasePageIds(PageIds(free_page_reps_group) \o ids)
    /\ free_page_reps_group' = <<>>
    /\ result' = Done
    /\ UNCHANGED <<need_sort, free_group, rows>>

Clear ==
    /\ free_pages' = [i \in 1..NumPages |-> i]
    /\ release_pages' = <<>>
    /\ in_free_group' = FALSE
    /\ free_group' = <<>>
    /\ free_page_reps_group' = <<>>
    /\ rows' = [r \in Row |-> <<>>]
    /\ result' = Done
    /\ UNCHANGED need_sort

Init ==
    /\ need_sort \in NeedSorts
    /\ free_pages = [i \in 1..NumPages |-> i]
    /\ release_pages = <<>>
    /\ in_free_group = FALSE
    /\ free_group = <<>>
    /\ free_page_reps_group = <<>>
    /\ rows = [r \in Row |-> <<>>]
    /\ result = Done

(* The calls of the clients: rows grow in a batch, and give back a         *)
(* page-aligned tail; the two segments of free_segments meet, or leave     *)
(* whole pages between them to the radix tree (row q).                     *)
Extend == \E b \in Batches : \E ext \in [DOMAIN b -> 1..MaxRow] : AllocExtend(b, ext)

Decode == \E b \in Batches : AllocDecode(b)

AllocWhole == \E r \in Row : \E n \in 1..(MaxRow \div PageSize) : Alloc(r, n)

CutPoints(r, a) ==
    LET n == Len(rows[r])
    IN  {<<k, k>> : k \in a..n} \cup
        {bc \in (a..n) \X (a..n) : /\ bc[1] <= bc[2]
                                   /\ bc[1] % PageSize = 0 /\ bc[2] % PageSize = 0}

Tails(r) == {i \in 0..(Len(rows[r]) - 1) : i % PageSize = 0}

FreeTail == \E r \in Row : \E a \in Tails(r) : Free(r, a)

FreeTailSegments ==
    \E r, q \in Row : \E a \in Tails(r) : \E bc \in CutPoints(r, a) :
        FreeSegments(r, q, a, bc[1], bc[2])

Next ==
    \/ Extend
    \/ Decode
    \/ AllocWhole
    \/ FreeTail
    \/ FreeTailSegments
    \/ FreeGroupBegin
    \/ FreeGroupEnd
    \/ Clear

Spec == Init /\ [][Next]_vars

-----------------------------------------------------------------------------
RowPages(r) == PagesIn(rows[r])

(* What the open free group holds back: pages that free_segment gave, and  *)
(* pages of slots that free gave.                                          *)
DeferredReps == IF in_free_group THEN PageIds(free_page_reps_group) ELSE <<>>

DeferredPages == IF in_free_group THEN PagesIn(free_group) ELSE {}

TypeOK ==
    /\ need_sort \in BOOLEAN
    /\ free_pages \in Seq(Pages)
    /\ release_pages \in Seq(Pages)
    /\ in_free_group \in BOOLEAN
    /\ free_group \in Seq(Nat)
    /\ free_page_reps_group \in Seq(Nat)
    /\ rows \in [Row -> Seq(Nat)]
    /\ result \in [ok : BOOLEAN, need : Nat]

(* The contract _debug_check_no_duplicate_pages asserts in debug mode,     *)
(* and more: every page id occurs exactly once in the lists, the deferred  *)
(* frees and the rows together, so that no free is lost or done twice.     *)
PagesOnce ==
    LET listed == free_pages \o release_pages \o DeferredReps
        freed  == Range(listed) \cup DeferredPages
    IN  /\ IsInjective(listed) /\ Range(listed) \cap DeferredPages = {}
        /\ \A r \in Row : RowPages(r) \cap freed = {}
        /\ \A r, s \in Row : r # s => RowPages(r) \cap RowPages(s) = {}
        /\ Pages = freed \cup UNION {RowPages(r) : r \in Row}

(* Every row keeps the layout the kernels and free_segment rely on:        *)
(* position i sits at offset i % page_size of a page that holds exactly    *)
(* the positions of i's block.                                             *)
RowsAligned ==
    \A r \in Row : \A i, j \in DOMAIN rows[r] :
        /\ rows[r][i] % PageSize = (i - 1) % PageSize
        /\ (rows[r][i] \div PageSize = rows[r][j] \div PageSize)
              <=> ((i - 1) \div PageSize = (j - 1) \div PageSize)

(* alloc, alloc_extend and alloc_decode return None only when the pages    *)
(* available_size() counts are really too few: the cheap estimates that    *)
(* decide whether to merge release_pages never cause a refusal.            *)
RefusedOnlyWhenFull ==
    ~result.ok => result.need > Len(free_pages) + Len(release_pages)

(* The abstract allocator. *)
Pool == INSTANCE PagePool WITH
    Page  <- Pages,
    avail <- Range(free_pages) \cup Range(release_pages),
    limbo <- Range(DeferredReps) \cup DeferredPages,
    held  <- [r \in Row |-> RowPages(r)],
    open  <- in_free_group

(* Every call of the paged allocator is a step of the page pool: pages go  *)
(* from the lists to rows, from rows to the lists or to the open group,    *)
(* and nowhere else.                                                       *)
ImplementsPool == Pool!Spec
=============================================================================
