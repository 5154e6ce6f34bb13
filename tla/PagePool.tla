------------------------------ MODULE PagePool ------------------------------
(***************************************************************************)
(* What the KV page allocators promise their clients: every page is        *)
(* available, owned by one row, or waiting for the end of the open free    *)
(* group - never two of these, never none.  How pages are ordered, sorted  *)
(* or represented is left to PagedAllocator, which implements this.        *)
(***************************************************************************)
CONSTANTS
    Page,       \* the KV pages; the padding page 0 is not one of them
    Row         \* who can own pages: request rows and cached segments

VARIABLES
    avail,      \* pages an allocation may take
    limbo,      \* pages freed inside the open group
    held,       \* the pages each row owns
    open        \* a free group is open

vars == <<avail, limbo, held, open>>

TypeOK ==
    /\ avail \subseteq Page
    /\ limbo \subseteq Page
    /\ held \in [Row -> SUBSET Page]
    /\ open \in BOOLEAN

Init ==
    /\ avail = Page
    /\ limbo = {}
    /\ held = [r \in Row |-> {}]
    /\ open = FALSE

(* Some rows grow by available pages, each page going to one of them. *)
Acquire ==
    /\ UNCHANGED <<limbo, open>>
    /\ \E got \in [Row -> SUBSET avail] :
          /\ \A r, s \in Row : r # s => got[r] \cap got[s] = {}
          /\ avail' = avail \ UNION {got[r] : r \in Row}
          /\ held' = [r \in Row |-> held[r] \cup got[r]]

(* held, when r loses the pages S and M and q gets M. *)
Moved(r, q, S, M) ==
    [x \in Row |-> (held[x] \ (IF x = r THEN S \cup M ELSE {}))
                    \cup (IF x = q THEN M ELSE {})]

(* Row r gives up the pages S, and passes the pages M on to row q. *)
Release ==
    \E r, q \in Row : \E S, M \in SUBSET held[r] :
        /\ S \cap M = {}
        /\ IF open
           THEN limbo' = limbo \cup S /\ avail' = avail
           ELSE avail' = avail \cup S /\ limbo' = limbo
        /\ held' = Moved(r, q, S, M)
        /\ open' = open

OpenGroup ==
    /\ ~open
    /\ open' = TRUE
    /\ UNCHANGED <<avail, limbo, held>>

CloseGroup ==
    /\ open
    /\ open' = FALSE
    /\ avail' = avail \cup limbo
    /\ limbo' = {}
    /\ held' = held

Clear ==
    /\ avail' = Page
    /\ limbo' = {}
    /\ held' = [r \in Row |-> {}]
    /\ open' = FALSE

Next == Acquire \/ Release \/ OpenGroup \/ CloseGroup \/ Clear

Spec == Init /\ [][Next]_vars

-----------------------------------------------------------------------------
(* No page is lost and none is owned twice. *)
Partition ==
    /\ Page = avail \cup limbo \cup UNION {held[r] : r \in Row}
    /\ avail \cap limbo = {}
    /\ \A r \in Row : held[r] \cap (avail \cup limbo) = {}
    /\ \A r, s \in Row : r # s => held[r] \cap held[s] = {}

(* Outside a group nothing is held back from the next allocation. *)
NothingHeldBack == ~open => limbo = {}
=============================================================================
