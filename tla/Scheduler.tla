------------------------------ MODULE Scheduler ------------------------------
(***************************************************************************)
(* The scheduler loop (managers/scheduler.py) with the KV memory its       *)
(* batches use: requests arrive, are admitted by the PrefillAdder, perhaps *)
(* chunked, prefilled, decoded, retracted, preempted, aborted and answered.*)
(* With overlap the result of a batch is processed after the next batch    *)
(* was prepared and launched, so the state it meets has moved on.          *)
(*                                                                         *)
(* One iteration of event_loop_overlap/event_loop_normal is                *)
(*   idle -> admit -> prefill* -> batch -> [result*] -> idle     or        *)
(*   idle -> admit -> prefill* -> decode -> launch -> [result*] -> idle    *)
(* where client messages are handled at idle.  Token-level sampling is     *)
(* external: when a request stops and how many drafts are accepted is a    *)
(* free choice.  The waiting queue is a set, any order of it being some    *)
(* scheduling policy's.                                                    *)
(***************************************************************************)
EXTENDS ReqKV

CONSTANTS
    NoReq,              \* None
    ReqNew,             \* per request, the max_new_tokens the client asked for
    Priority,           \* per request, larger is more urgent
    ChunkedPrefillSize,
    MaxRunning,         \* max_running_requests, also the size of req_to_token
    Ratio,              \* the values new_token_ratio takes
    RetractSteps,       \* SGLANG_RETRACT_DECODE_STEPS
    Setups              \* server arguments, and what the clients will send

(* One execution of the server:                                            *)
(*   overlap     event_loop_overlap rather than event_loop_normal          *)
(*   draft       speculative_num_draft_tokens, 0 without speculation       *)
(*   preemption  priority scheduling with enable_priority_preemption       *)
(*   max_queued  max_queued_requests                                       *)
(*   timeouts    SGLANG_REQ_WAITING_TIMEOUT and SGLANG_REQ_RUNNING_TIMEOUT *)
(*   clients     the control messages clients send                         *)
(*   reqs        the requests they send                                    *)
Setup ==
    [overlap : BOOLEAN, draft : Nat, preemption : BOOLEAN, max_queued : Nat \ {0},
     timeouts : BOOLEAN, clients : SUBSET {"abort", "pause", "flush"}, reqs : SUBSET Request]

ASSUME SchedulerAssumption ==
    /\ NoReq \notin Request
    /\ ReqNew \in [Request -> Nat]
    /\ Priority \in [Request -> Int]
    /\ {ChunkedPrefillSize, MaxRunning} \subseteq Nat \ {0}
    /\ Ratio \subseteq {0, 1} /\ Ratio # {}
    /\ RetractSteps \in Nat
    /\ Setups \subseteq Setup

VARIABLES
    setup,                  \* never changes
    m,                      \* the KV memory and the requests: tree, free, req
    fresh,                  \* requests the scheduler has not received yet
    waiting_queue,
    running_batch,
    batch_is_full,
    last_batch,             \* the last batch if it was a prefill
    chunked_req,
    pending_chunked_abort,
    result_queue,
    adder,
    pc,
    paused,
    answers                 \* per request, the final messages sent to its client

batches == <<fresh, waiting_queue, running_batch, batch_is_full, last_batch, chunked_req>>

vars == <<setup, m, batches, pending_chunked_abort, result_queue, adder, pc, paused, answers>>

PcStates ==
    {"idle", "admit", "prefill", "preempt", "batch", "decode", "launch", "retract",
     "result", "pause", "crashed"}

NoBatch == [reqs |-> {}, chunked_req |-> NoReq]

NoAdder ==
    [can_run_list |-> {}, preempt_list |-> {}, new_chunked_req |-> NoReq,
     total |-> 0, cur |-> 0, chunk |-> 0, ratio |-> 0, target |-> NoReq, victims |-> {}]

NewReq ==
    [fill |-> 0, out |-> 0, finished |-> FALSE, to_finish |-> FALSE,
     is_retracted |-> FALSE, inflight |-> 0, last_node |-> Root, prot |-> 0,
     pre |-> 0, end |-> 0, com |-> 0, alo |-> 0, row |-> <<>>]

Init ==
    /\ setup \in Setups
    /\ m = [is_eagle |-> setup.draft > 0, tree |-> EmptyTree,
            free |-> [p \in Page |-> 1], req |-> [r \in Request |-> NewReq]]
    /\ fresh = setup.reqs
    /\ waiting_queue = {}
    /\ running_batch = {}
    /\ batch_is_full = FALSE
    /\ last_batch = NoBatch
    /\ chunked_req = NoReq
    /\ pending_chunked_abort = NoReq
    /\ result_queue = <<>>
    /\ adder = NoAdder
    /\ pc = "idle"
    /\ paused = "no"
    /\ answers = [r \in Request |-> 0]

-----------------------------------------------------------------------------
(* get_worker_info and init_req_max_new_tokens. *)
PoolTokens == PageSize * NumPages

MaxReqLen == PoolTokens - 1

MaxReqInputLen == MaxReqLen - 5

MaxNew(r) ==
    Max({0, Min({ReqNew[r],
                 MaxReqLen - InputLen[r] - 1,
                 PoolTokens - PageSize * CeilPages(InputLen[r]) - PageSize - 1})})

(* Prompts of MaxReqInputLen tokens or more are replaced by a one-token    *)
(* stub that is answered with an error; they are not modelled.             *)
ASSUME PromptsAccepted == \A r \in Request : InputLen[r] < MaxReqInputLen

Answer(S) == answers' = [r \in Request |-> IF r \in S THEN answers[r] + 1 ELSE answers[r]]

(* _add_request_to_queue and _abort_on_queued_limit for the requests S,    *)
(* new or retracted: what exceeds max_queued_requests is answered with an  *)
(* error, the incoming requests by default, with priorities the least      *)
(* urgent ones, a queued one only for one that is strictly more urgent.    *)
Rejections(queue, S) ==
    LET excess == Min({Cardinality(S), Max({0, Cardinality(queue \cup S) - setup.max_queued})})
    IN  {A \in SUBSET (queue \cup S) :
            /\ Cardinality(A) = excess
            /\ ~setup.preemption => A \subseteq S
            /\ \A a \in A, x \in (queue \cup S) \ A :
                   setup.preemption => /\ Priority[a] <= Priority[x]
                                       /\ a \in queue /\ x \in S => Priority[a] < Priority[x]}

AddRequestsToQueue(queue, S) ==
    \E A \in Rejections(queue, S) :
        /\ waiting_queue' = (queue \cup S) \ A
        /\ Answer(A)

(* handle_generate_request *)
HandleGenerate(r) ==
    /\ pc = "idle"
    /\ r \in fresh
    /\ fresh' = fresh \ {r}
    /\ AddRequestsToQueue(waiting_queue, {r})
    /\ UNCHANGED <<setup, m, running_batch, batch_is_full, last_batch, chunked_req,
                   pending_chunked_abort, result_queue, adder, pc, paused>>

(* abort_request: a chunked request is only marked, a waiting one is       *)
(* dropped at once, one in a batch finishes with its next result.          *)
AbortRequest(r) ==
    /\ "abort" \in setup.clients
    /\ pc = "idle"
    /\ r \in setup.reqs \ fresh
    /\ answers[r] = 0
    /\ pending_chunked_abort' = IF chunked_req = r THEN r ELSE pending_chunked_abort
    /\ waiting_queue' = waiting_queue \ {r}
    /\ Answer({r} \cap waiting_queue)
    /\ m' = [m EXCEPT !.req[r].to_finish =
                 @ \/ (r \in running_batch \cup last_batch.reqs /\ ~m.req[r].finished)]
    /\ UNCHANGED <<setup, fresh, running_batch, batch_is_full, last_batch, chunked_req,
                   result_queue, adder, pc, paused>>

(* flush_cache, when is_fully_idle. *)
FlushCache ==
    /\ "flush" \in setup.clients
    /\ pc = "idle"
    /\ running_batch = {} /\ waiting_queue = {} /\ last_batch.reqs = {}
    /\ chunked_req = NoReq
    /\ result_queue = <<>>
    /\ m' = [m EXCEPT !.tree = EmptyTree, !.free = [p \in Page |-> 1]]
    /\ UNCHANGED <<setup, batches, pending_chunked_abort, result_queue, adder, pc, paused, answers>>

-----------------------------------------------------------------------------
(* get_next_batch_to_run up to get_new_batch_prefill: tear down an aborted *)
(* chunked request, cache the last chunk, merge the last prefill batch.    *)
AbortedChunk == pending_chunked_abort # NoReq /\ pending_chunked_abort = chunked_req

ProcessPendingChunkedAbort ==
    IF AbortedChunk
    THEN [ReleaseKV(m, chunked_req, FALSE) EXCEPT
             !.req[chunked_req].finished = TRUE, !.req[chunked_req].to_finish = FALSE]
    ELSE m

StashChunkedRequest(mem, r) ==
    IF r # NoReq /\ mem.req[r].end > mem.req[r].pre THEN CacheUnfinished(mem, r) ELSE mem

(* _abort_on_running_timeout: the requests T finish with their next result.*)
MarkTimedOut(mem, T) ==
    [mem EXCEPT !.req = [r \in Request |->
        IF r \in T /\ ~mem.req[r].finished
        THEN [mem.req[r] EXCEPT !.to_finish = TRUE] ELSE mem.req[r]]]

(* W and T are the waiting and running requests whose time is up.  The last*)
(* batch becomes the running one when that is empty, with its own flag     *)
(* batch_is_full, which is not set.                                        *)
PrepareStep(W, T) ==
    LET p      == pending_chunked_abort
        ch     == IF AbortedChunk THEN NoReq ELSE chunked_req
        s      == StashChunkedRequest(MarkTimedOut(ProcessPendingChunkedAbort, T), ch)
        merged == {r \in last_batch.reqs : /\ ~s.req[r].finished
                                           /\ r \notin {ch, last_batch.chunked_req}}
    IN  /\ pc = "idle"
        /\ paused = "no"
        /\ W \subseteq waiting_queue /\ T \subseteq running_batch
        /\ setup.timeouts \/ W \cup T = {}
        /\ m' = s
        /\ waiting_queue' = waiting_queue \ W
        /\ Answer(W \cup IF AbortedChunk THEN {p} ELSE {})
        /\ chunked_req' = ch
        /\ pending_chunked_abort' =
               IF p = NoReq \/ AbortedChunk \/ m.req[p].finished \/ m.req[p].row = <<>>
               THEN NoReq ELSE p
        /\ running_batch' = running_batch \cup merged
        /\ batch_is_full' = /\ batch_is_full /\ merged = last_batch.reqs
                            /\ merged = {} \/ running_batch # {}
        /\ last_batch' = NoBatch
        /\ pc' = "admit"
        /\ UNCHANGED <<setup, fresh, result_queue, adder, paused>>

-----------------------------------------------------------------------------
(* PrefillAdder *)
rem_total_tokens(mem, a) ==
    PageSize * (available_size(mem) + mem.tree.evictable_size_) - a.total

cur_rem_tokens(mem, a) ==
    PageSize * (available_size(mem) + mem.tree.evictable_size_) - a.cur

RunningOffset(mem, ratio, r) == ratio * (MaxNew(r) - mem.req[r].out)

MutChunkNotCharged(a, extend, max_new) ==
    LET ext == PageSize * CeilPages(extend)
    IN  [a EXCEPT !.total = @ + ext + max_new + PageSize,
                  !.cur = @ + ext + PageSize]

UpdatePrefillBudget(a, extend, max_new) ==
    LET ext == PageSize * CeilPages(extend)
    IN  [a EXCEPT !.total = @ + ext + max_new + PageSize,
                  !.cur = @ + ext + PageSize,
                  !.chunk = @ - ext]

BudgetLeft(mem, a) == rem_total_tokens(mem, a) > 0 /\ cur_rem_tokens(mem, a) > 0

(* req_to_token slots that no request holds *)
FreeSlots(mem) == MaxRunning - Cardinality({r \in Request : mem.req[r].row # <<>>})

NumAllocatable == Min({MaxRunning - Cardinality(running_batch), FreeSlots(m)})

(* _get_new_batch_prefill_raw, the early returns. *)
SkipPrefill ==
    LET full == batch_is_full /\ ~setup.preemption
    IN  /\ pc = "admit"
        /\ chunked_req = NoReq
        /\ full \/ waiting_queue = {} \/ (NumAllocatable <= 0 /\ ~setup.preemption)
        /\ batch_is_full' = (full \/ (waiting_queue # {} /\ NumAllocatable <= 0 /\ ~setup.preemption))
        /\ pc' = "decode"
        /\ UNCHANGED <<setup, m, fresh, waiting_queue, running_batch, last_batch, chunked_req,
                       pending_chunked_abort, result_queue, adder, paused, answers>>

(* The PrefillAdder of a pass, which sets aside what running requests may  *)
(* still need.                                                             *)
NewAdder(ratio) ==
    [NoAdder EXCEPT
        !.ratio = ratio,
        !.chunk = ChunkedPrefillSize,
        !.total = MapThenSumSet(LAMBDA r : RunningOffset(m, ratio, r), running_batch)]

(* add_chunked_req continues the request that is being chunked. *)
AddChunkedReq(new) ==
    LET r    == chunked_req
        rem  == Min({new.chunk, rem_total_tokens(m, new)})
        room == IF rem <= 0 THEN new.chunk ELSE rem
        cand == TotalLen(m, r) - m.req[r].pre
    IN  /\ m' = [m EXCEPT !.req[r].fill = TotalLen(m, r),
                          !.req[r].end = m.req[r].pre + Min({cand, room})]
        /\ adder' = [UpdatePrefillBudget(new, Min({cand, room}), IF cand > room THEN 0 ELSE MaxNew(r))
                     EXCEPT !.can_run_list = {r}]
        /\ chunked_req' = IF cand > room THEN r ELSE NoReq

StartAdder ==
    LET full == batch_is_full /\ ~setup.preemption
    IN  /\ pc = "admit"
        /\ \/ chunked_req # NoReq
           \/ ~full /\ waiting_queue # {} /\ (NumAllocatable > 0 \/ setup.preemption)
        /\ \E ratio \in Ratio :
             IF chunked_req = NoReq
             THEN adder' = NewAdder(ratio) /\ UNCHANGED <<m, chunked_req>>
             ELSE AddChunkedReq(NewAdder(ratio))
        /\ batch_is_full' = full
        /\ pc' = "prefill"
        /\ UNCHANGED <<setup, fresh, waiting_queue, running_batch, last_batch,
                       pending_chunked_abort, result_queue, paused, answers>>

SlotsExhausted == Cardinality(adder.can_run_list) >= NumAllocatable

(* add_one_req: the budget is tested before and after the nodes of the     *)
(* cached prefix are locked, since locking makes them unevictable.         *)
MutUncheckedLock(before, locked, tokens) == tokens < rem_total_tokens(before, adder)

FitsBudget(before, locked, tokens) ==
    /\ tokens < rem_total_tokens(before, adder)
    /\ tokens < rem_total_tokens(locked, adder)

(* init_next_round_input: the tokens to fill and the longest cached prefix *)
(* of all of them but the last.                                            *)
InitNextRoundInput(r) ==
    LET len   == TotalLen(m, r)
        match == MatchPrefix(m.tree, Key(m, r, len - 1))
        node  == match.last_node
    IN  [m EXCEPT !.tree = match.tree,
                  !.req[r].fill = len,
                  !.req[r].pre = PageSize * Len(node),
                  !.req[r].prot = Len(node),
                  !.req[r].last_node = node]

AddOneReq(r) ==
    LET before  == InitNextRoundInput(r)
        pre     == before.req[r].pre
        cand    == before.req[r].fill - pre
        locked  == [before EXCEPT !.tree = IncLockRef(@, before.req[r].last_node)]
        tokens  == cand + Max({MaxNew(r) - m.req[r].out, 0}) + PageSize
        fits    == FitsBudget(before, locked, tokens)
        whole   == PageSize * CeilPages(cand) <= adder.chunk
        trunc   == PageSize * (adder.chunk \div PageSize)
        extend  == IF whole THEN cand ELSE trunc
        added   == [locked EXCEPT !.req[r].end = pre + extend]
        charged == [UpdatePrefillBudget(adder, extend, IF whole THEN MaxNew(r) ELSE 0)
                    EXCEPT !.can_run_list = @ \cup {r},
                           !.target = NoReq,
                           !.new_chunked_req = IF whole THEN @ ELSE r]
    IN  /\ pc = "prefill"
        /\ r \in waiting_queue \ adder.can_run_list
        /\ IF adder.target = NoReq THEN ~batch_is_full /\ ~SlotsExhausted ELSE adder.target = r
        /\ IF fits /\ extend > 0
           THEN /\ m' = added
                /\ adder' = charged
                /\ batch_is_full' = (batch_is_full \/ ~BudgetLeft(added, charged))
                /\ pc' = IF BudgetLeft(added, charged) /\ charged.chunk > 0
                         THEN "prefill" ELSE "batch"
           ELSE /\ m' = before
                /\ adder' = adder
                /\ batch_is_full' = (batch_is_full \/ ~fits)
                /\ pc' = "batch"
        /\ UNCHANGED <<setup, fresh, waiting_queue, running_batch, last_batch, chunked_req,
                       pending_chunked_abort, result_queue, paused, answers>>

(* preempt_to_schedule, when no slot is left: the victims are running      *)
(* requests of lower priority, lowest first, until the new request fits.   *)
(* fill and pre are those of the last time it was looked at.               *)
VictimSets(r) ==
    LET valid  == {x \in running_batch : ~m.req[x].finished /\ Priority[x] < Priority[r]}
        remove == m.req[r].fill - m.req[r].pre + MaxNew(r) - rem_total_tokens(m, adder)
        gain(P) == MapThenSumSet(LAMBDA x : RunningOffset(m, adder.ratio, x), P)
    IN  {P \in SUBSET valid :
            /\ P # {}
            /\ gain(P) >= remove
            /\ \A x \in P, y \in valid \ P : Priority[x] <= Priority[y]
            /\ \E x \in P : /\ \A y \in P : Priority[y] <= Priority[x]
                            /\ P = {x} \/ gain(P \ {x}) < remove}

PreemptToSchedule(r) ==
    /\ pc = "prefill"
    /\ setup.preemption
    /\ adder.target = NoReq
    /\ r \in waiting_queue \ adder.can_run_list
    /\ batch_is_full \/ SlotsExhausted
    /\ \E P \in VictimSets(r) : adder' = [adder EXCEPT !.target = r, !.victims = P]
    /\ batch_is_full' = TRUE
    /\ pc' = "preempt"
    /\ UNCHANGED <<setup, m, fresh, waiting_queue, running_batch, last_batch, chunked_req,
                   pending_chunked_abort, result_queue, paused, answers>>

(* The loop over the waiting queue ends: it is exhausted, or the batch is  *)
(* full and the next request may preempt nothing.                          *)
StopAdding ==
    LET left == waiting_queue \ adder.can_run_list
        full == batch_is_full \/ SlotsExhausted
    IN  /\ pc = "prefill"
        /\ adder.target = NoReq
        /\ \/ left = {}
           \/ full /\ (setup.preemption => \E r \in left : VictimSets(r) = {})
        /\ batch_is_full' = (batch_is_full \/ left # {})
        /\ pc' = "batch"
        /\ UNCHANGED <<setup, m, fresh, waiting_queue, running_batch, last_batch, chunked_req,
                       pending_chunked_abort, result_queue, adder, paused, answers>>

-----------------------------------------------------------------------------
(* release_req and reset_for_retract: free without inserting, use the      *)
(* space at once for num requests that go on, by evicting the nodes E.     *)
Retracted(r) ==
    [ReleaseKV(m, r, FALSE) EXCEPT !.req[r].is_retracted = TRUE, !.req[r].inflight = 0]

ReleaseReq(r, num, E) ==
    /\ CanEvictFor(Retracted(r), num * RetractSteps, E)
    /\ m' = Evict(Retracted(r), E)

ReleaseVictim(v, E) ==
    /\ pc = "preempt"
    /\ v \in adder.victims
    /\ ReleaseReq(v, Cardinality(running_batch) - 1, E)
    /\ running_batch' = running_batch \ {v}
    /\ adder' = [adder EXCEPT !.victims = @ \ {v},
                              !.preempt_list = @ \cup {v},
                              !.total = @ - RunningOffset(m, adder.ratio, v)]
    /\ pc' = IF adder.victims = {v} THEN "prefill" ELSE "preempt"
    /\ UNCHANGED <<setup, fresh, waiting_queue, batch_is_full, last_batch, chunked_req,
                   pending_chunked_abort, result_queue, paused, answers>>

(* The rest of _get_new_batch_prefill_raw, nothing being admitted. *)
NoPrefill ==
    /\ pc = "batch"
    /\ adder.can_run_list = {}
    /\ adder' = NoAdder
    /\ pc' = "decode"
    /\ UNCHANGED <<setup, m, batches, pending_chunked_abort, result_queue, paused, answers>>

(* event_loop_overlap pops the result of the batch before this one,        *)
(* event_loop_normal that of the batch itself.                             *)
MutResultKept(batch) ==
    /\ result_queue' = Append(result_queue, batch)
    /\ pc' = "idle"

Launch(batch) ==
    /\ result_queue' = Append(result_queue, batch)
    /\ pc' = IF setup.overlap /\ result_queue = <<>> THEN "idle" ELSE "result"

(* alloc_for_extend: the pages for tokens pre+1..end of the batch. *)
ExtendTokens(mem, S) ==
    MapThenSumSet(LAMBDA r : mem.req[r].end - mem.req[r].pre, S)
        + IF PageSize = 1 THEN 0 ELSE PageSize * Cardinality(S)

ExtendPages(mem, r) == CeilPages(mem.req[r].end) - CeilPages(mem.req[r].pre)

(* prepare_for_extend, and the cached prefix written to new rows. *)
PrepareForExtend(mem, S) ==
    [mem EXCEPT !.req = [r \in Request |->
        IF r \in S
        THEN [mem.req[r] EXCEPT
                 !.row = IF mem.req[r].row = <<>> THEN PagesOf(mem.tree, mem.req[r].last_node)
                         ELSE mem.req[r].row,
                 !.com = mem.req[r].end,
                 !.alo = mem.req[r].end,
                 !.is_retracted = FALSE]
        ELSE mem.req[r]]]

AllocForExtend(mem, S) ==
    GrowRows(PrepareForExtend(mem, S), S, [r \in S |-> ExtendPages(mem, r)])

MutNoInflight(mem, r) == mem

CountChunk(mem, r) == IF r = NoReq THEN mem ELSE [mem EXCEPT !.req[r].inflight = @ + 1]

LaunchPrefill(E) ==
    LET S  == adder.can_run_list
        ch == IF adder.new_chunked_req # NoReq THEN adder.new_chunked_req ELSE chunked_req
        e  == Evict(m, E)
    IN  /\ pc = "batch"
        /\ S # {}
        /\ CanEvictFor(m, ExtendTokens(m, S), E)
        /\ AddRequestsToQueue(waiting_queue \ S, adder.preempt_list)
        /\ chunked_req' = ch
        /\ adder' = NoAdder
        /\ IF /\ MapThenSumSet(LAMBDA r : ExtendPages(m, r), S) <= available_size(e)
              /\ Cardinality({r \in S : m.req[r].row = <<>>}) <= FreeSlots(m)
           THEN /\ m' = CountChunk(AllocForExtend(e, S), ch)
                /\ last_batch' = [reqs |-> S, chunked_req |-> ch]
                /\ Launch([extend |-> TRUE, reqs |-> S, chunked_req |-> ch])
           ELSE /\ pc' = "crashed"
                /\ UNCHANGED <<m, last_batch, result_queue>>
        /\ UNCHANGED <<setup, fresh, running_batch, batch_is_full, pending_chunked_abort, paused>>

-----------------------------------------------------------------------------
(* update_running_batch and what follows it in get_next_batch_to_run. *)
Alive == {r \in running_batch : ~m.req[r].finished}

(* kv_allocated_len after the next decode: one token more, or room for two *)
(* verify steps of draft tokens each.                                      *)
MutOneStepReserve(q) ==
    IF setup.draft = 0
    THEN q.alo + 1
    ELSE Max({q.alo, PageSize * CeilPages(q.com + setup.draft)})

NextAllocated(q) ==
    IF setup.draft = 0
    THEN q.alo + 1
    ELSE Max({q.alo, PageSize * CeilPages(q.com + 2 * setup.draft)})

DecodePages(S) ==
    MapThenSumSet(LAMBDA r : CeilPages(NextAllocated(m.req[r])) - CeilPages(m.req[r].alo), S)

(* The tokens prepare_for_decode asks evict_from_tree_cache for. *)
DecodeTokens(S) ==
    LET asked == MapThenSumSet(LAMBDA r : NextAllocated(m.req[r]) - m.req[r].alo, S)
        pages == PageSize * Cardinality(S)
    IN  IF PageSize = 1 \/ asked = 0 THEN asked
        ELSE IF setup.draft = 0 THEN pages ELSE asked + pages

MutFullStaysSet ==
    /\ pc = "decode"
    /\ Alive = {}
    /\ running_batch' = {}
    /\ pc' = IF result_queue = <<>> THEN "idle" ELSE "result"
    /\ UNCHANGED <<setup, m, fresh, waiting_queue, batch_is_full, last_batch, chunked_req,
                   pending_chunked_abort, result_queue, adder, paused, answers>>

NoDecode ==
    /\ pc = "decode"
    /\ Alive = {}
    /\ running_batch' = {}
    /\ batch_is_full' = (batch_is_full /\ running_batch = {})
    /\ pc' = IF result_queue = <<>> THEN "idle" ELSE "result"
    /\ UNCHANGED <<setup, m, fresh, waiting_queue, last_batch, chunked_req,
                   pending_chunked_abort, result_queue, adder, paused, answers>>

(* filter_batch, then check_decode_mem. *)
CheckDecodeMem(E) ==
    /\ pc = "decode"
    /\ Alive # {}
    /\ CanEvictFor(m, PageSize * DecodePages(Alive), E)
    /\ m' = Evict(m, E)
    /\ running_batch' = Alive
    /\ batch_is_full' = (batch_is_full /\ running_batch = Alive)
    /\ pc' = IF available_size(m') >= DecodePages(Alive) THEN "launch" ELSE "retract"
    /\ UNCHANGED <<setup, fresh, waiting_queue, last_batch, chunked_req,
                   pending_chunked_abort, result_queue, adder, paused, answers>>

(* retract_decode: the request with the fewest output tokens goes back to  *)
(* the queue, of several such one with the longest prompt.                 *)
LeastPreferred(r) ==
    \A x \in running_batch :
        \/ m.req[r].out < m.req[x].out
        \/ m.req[r].out = m.req[x].out /\ InputLen[r] >= InputLen[x]

RetractDecode(r, E) ==
    /\ pc = "retract"
    /\ Cardinality(running_batch) > 1
    /\ r \in running_batch
    /\ LeastPreferred(r)
    /\ ReleaseReq(r, Cardinality(running_batch) - 1, E)
    /\ running_batch' = running_batch \ {r}
    /\ AddRequestsToQueue(waiting_queue, {r})
    /\ batch_is_full' = FALSE
    /\ pc' = "decode"
    /\ UNCHANGED <<setup, fresh, last_batch, chunked_req,
                   pending_chunked_abort, result_queue, adder, paused>>

(* The last request does not fit alone: it is aborted. *)
AbortLast(r) ==
    /\ pc = "retract"
    /\ running_batch = {r}
    /\ m' = [Retracted(r) EXCEPT !.req[r].to_finish = TRUE]
    /\ running_batch' = {}
    /\ batch_is_full' = FALSE
    /\ Answer({r})
    /\ pc' = IF result_queue = <<>> THEN "idle" ELSE "result"
    /\ UNCHANGED <<setup, fresh, waiting_queue, last_batch, chunked_req,
                   pending_chunked_abort, result_queue, adder, paused>>

(* prepare_for_decode.  Without speculation the token is committed here,   *)
(* with it when the result tells how many were accepted.                   *)
PrepareForDecode(mem, S) ==
    [mem EXCEPT !.req = [r \in Request |->
        IF r \in S
        THEN [mem.req[r] EXCEPT !.alo = NextAllocated(mem.req[r]),
                                !.com = IF setup.draft = 0 THEN @ + 1 ELSE @]
        ELSE mem.req[r]]]

(* alloc_for_decode and run_batch. *)
LaunchDecode(E) ==
    LET S     == running_batch
        e     == Evict(m, E)
        grown == GrowRows(PrepareForDecode(e, S), S, [r \in S |-> DecodePages({r})])
    IN  /\ pc = "launch"
        /\ CanEvictFor(m, DecodeTokens(S), E)
        /\ IF DecodePages(S) <= available_size(e)
           THEN /\ m' = grown
                /\ Launch([extend |-> FALSE, reqs |-> S, chunked_req |-> NoReq])
           ELSE /\ pc' = "crashed"
                /\ UNCHANGED <<m, result_queue>>
        /\ UNCHANGED <<setup, batches, pending_chunked_abort, adder, paused, answers>>

-----------------------------------------------------------------------------
(* process_batch_result_prefill and process_batch_result_decode, one       *)
(* request of the batch at a time.                                         *)
Settle(r) == result_queue' = [result_queue EXCEPT ![1].reqs = @ \ {r}]

(* update_finish_state after k new tokens. *)
Output(mem, r, k, stop) ==
    LET q == mem.req[r]
    IN  [mem EXCEPT !.req[r].out = @ + k,
                    !.req[r].finished = q.to_finish \/ stop \/ q.out + k >= MaxNew(r),
                    !.req[r].to_finish = FALSE]

MutFinishedNotDropped(q, extend) == q.is_retracted

Dropped(q, extend) ==
    \/ q.finished /\ (extend => q.inflight <= 0)
    \/ q.is_retracted

DropResult(r) ==
    /\ pc = "result"
    /\ r \in result_queue[1].reqs
    /\ Dropped(m.req[r], result_queue[1].extend)
    /\ Settle(r)
    /\ UNCHANGED <<setup, m, batches, pending_chunked_abort, adder, pc, paused, answers>>

ChunkResult(r) ==
    /\ pc = "result"
    /\ r \in result_queue[1].reqs
    /\ result_queue[1].extend
    /\ ~Dropped(m.req[r], TRUE)
    /\ m.req[r].inflight > 0
    /\ m' = [m EXCEPT !.req[r].inflight = @ - 1]
    /\ Settle(r)
    /\ UNCHANGED <<setup, batches, pending_chunked_abort, adder, pc, paused, answers>>

PrefillResult(r, stop) ==
    LET o == Output(m, r, 1, stop)
    IN  /\ pc = "result"
        /\ r \in result_queue[1].reqs
        /\ result_queue[1].extend
        /\ ~Dropped(m.req[r], TRUE)
        /\ m.req[r].inflight <= 0
        /\ m' = IF o.req[r].finished THEN ReleaseKV(o, r, TRUE) ELSE CacheUnfinished(o, r)
        /\ Answer({x \in {r} : o.req[r].finished})
        /\ Settle(r)
        /\ UNCHANGED <<setup, batches, pending_chunked_abort, adder, pc, paused>>

(* k tokens were accepted; with speculation they are committed now. *)
DecodeResult(r, k, stop) ==
    LET o == Output(IF setup.draft = 0 THEN m ELSE [m EXCEPT !.req[r].com = @ + k], r, k, stop)
    IN  /\ pc = "result"
        /\ r \in result_queue[1].reqs
        /\ ~result_queue[1].extend
        /\ ~Dropped(m.req[r], FALSE)
        /\ m' = IF o.req[r].finished THEN ReleaseKV(o, r, TRUE) ELSE o
        /\ Answer({x \in {r} : o.req[r].finished})
        /\ Settle(r)
        /\ UNCHANGED <<setup, batches, pending_chunked_abort, adder, pc, paused>>

EndResult ==
    /\ pc = "result"
    /\ result_queue[1].reqs = {}
    /\ result_queue' = Tail(result_queue)
    /\ pc' = IF paused = "retracting" THEN "pause" ELSE "idle"
    /\ UNCHANGED <<setup, m, batches, pending_chunked_abort, adder, paused, answers>>

-----------------------------------------------------------------------------
(* pause_generation and continue_generation. *)
PauseGeneration(mode) ==
    /\ "pause" \in setup.clients
    /\ pc = "idle"
    /\ IF mode = "in_place"
       THEN paused = "no" /\ paused' = "yes" /\ pc' = pc
       ELSE /\ paused' = "retracting"
            /\ pc' = IF result_queue = <<>> THEN "pause" ELSE "result"
    /\ UNCHANGED <<setup, m, batches, pending_chunked_abort, result_queue, adder, answers>>

MutForgetLastBatch ==
    {r \in running_batch \cup ({chunked_req} \ {NoReq}) : ~m.req[r].finished}

ToRetract ==
    {r \in running_batch \cup last_batch.reqs \cup ({chunked_req} \ {NoReq}) : ~m.req[r].finished}

RetractAll(r, E) ==
    /\ pc = "pause"
    /\ r \in ToRetract
    /\ ReleaseReq(r, Cardinality(ToRetract), E)
    /\ running_batch' = running_batch \ {r}
    /\ last_batch' = [last_batch EXCEPT !.reqs = @ \ {r}]
    /\ chunked_req' = IF chunked_req = r THEN NoReq ELSE chunked_req
    /\ AddRequestsToQueue(waiting_queue, {r})
    /\ UNCHANGED <<setup, fresh, batch_is_full, pending_chunked_abort, result_queue,
                   adder, pc, paused>>

EndPause ==
    /\ pc = "pause"
    /\ ToRetract = {}
    /\ running_batch' = {}
    /\ last_batch' = NoBatch
    /\ chunked_req' = NoReq
    /\ batch_is_full' = FALSE
    /\ paused' = "yes"
    /\ pc' = "idle"
    /\ UNCHANGED <<setup, m, fresh, waiting_queue, pending_chunked_abort, result_queue, adder, answers>>

ContinueGeneration ==
    /\ pc = "idle"
    /\ paused = "yes"
    /\ paused' = "no"
    /\ UNCHANGED <<setup, m, batches, pending_chunked_abort, result_queue, adder, pc, answers>>

-----------------------------------------------------------------------------
Client ==
    \/ \E r \in Request : HandleGenerate(r) \/ AbortRequest(r)
    \/ \E mode \in {"in_place", "retract"} : PauseGeneration(mode)
    \/ ContinueGeneration
    \/ FlushCache

Loop ==
    \/ \E W, T \in SUBSET Request : PrepareStep(W, T)
    \/ SkipPrefill
    \/ StartAdder
    \/ \E r \in Request : AddOneReq(r) \/ PreemptToSchedule(r)
    \/ StopAdding
    \/ NoPrefill
    \/ NoDecode
    \/ \E E \in SUBSET Nodes(m.tree) : LaunchPrefill(E) \/ CheckDecodeMem(E) \/ LaunchDecode(E)
    \/ \E r \in Request, E \in SUBSET Nodes(m.tree) :
           ReleaseVictim(r, E) \/ RetractDecode(r, E) \/ RetractAll(r, E)
    \/ \E r \in Request : AbortLast(r) \/ DropResult(r) \/ ChunkResult(r)
    \/ \E r \in Request, stop \in BOOLEAN : PrefillResult(r, stop)
    \/ \E r \in Request, stop \in BOOLEAN, k \in 1..Max({1, setup.draft}) : DecodeResult(r, k, stop)
    \/ EndResult
    \/ EndPause

Next == Client \/ Loop

Spec == Init /\ [][Next]_vars

(* The event loop never stops unless it is paused; whether clients send    *)
(* anything is up to them.  Every state where Turn is enabled enables a    *)
(* step of Loop, and only finitely many of these in a row leave pc alone.  *)
Turn ==
    /\ pc # "crashed"
    /\ pc = "idle" => paused = "no"
    /\ pc' \in PcStates \ {pc}

FairSpec == Spec /\ WF_pc(Turn)

-----------------------------------------------------------------------------
(* The properties.                                                         *)

Slotted(r) == m.req[r].row # <<>>

Locked(r) == Slotted(r) \/ r \in adder.can_run_list

(* The type invariant; at most two results are in the queue, the last and  *)
(* the current batch of the overlapped loop.                               *)
TypeOK ==
    /\ m.free \in [Page -> Nat]
    /\ Range(m.tree.value) \subseteq Page
    /\ \A r \in Request :
        LET q == m.req[r]
        IN  /\ {q.fill, q.out, q.inflight, q.prot, q.pre, q.end, q.com, q.alo} \subseteq Nat
            /\ {q.finished, q.to_finish, q.is_retracted} \subseteq BOOLEAN
            /\ Range(q.row) \subseteq Page
            /\ IsPrefix(q.last_node, Text[r])
    /\ {fresh, waiting_queue, running_batch, last_batch.reqs} \subseteq SUBSET Request
    /\ {chunked_req, pending_chunked_abort, last_batch.chunked_req} \subseteq Request \cup {NoReq}
    /\ Len(result_queue) <= 2
    /\ pc \in PcStates
    /\ paused \in {"no", "retracting", "yes"}

(* Every page has exactly one owner at every step: it is free once, or     *)
(* holds one path of the tree, or one cell of one row beyond the part the  *)
(* row shares with the tree.  No leak and no double free survives          *)
(* duplicates, retraction, over-allocation, aborts or eviction             *)
(* (_check_kv_page_invariants, self_check_during_busy).                    *)
PagesAccounted ==
    \A p \in Page :
        m.free[p]
          + Cardinality({q \in Paths(m.tree) : m.tree.value[q] = p})
          + Cardinality({c \in Request \X (1..NumPages) :
                            LET q == m.req[c[1]]
                            IN  c[2] \in (q.prot + 1)..Len(q.row) /\ q.row[c[2]] = p}) = 1

(* The part of a row that counts as cached is the tree's own path to the   *)
(* request's last node, page for page: what a batch reads through          *)
(* req_to_token is never evicted or reassigned under it.                   *)
SharedPrefixLive ==
    \A r \in Request : Slotted(r) =>
        /\ Len(m.req[r].last_node) = m.req[r].prot
        /\ m.req[r].prot <= Len(m.req[r].row)
        /\ \A i \in 1..m.req[r].prot :
               /\ SubSeq(Text[r], 1, i) \in Paths(m.tree)
               /\ m.req[r].row[i] = m.tree.value[SubSeq(Text[r], 1, i)]

(* lock_ref counts exactly the requests whose last node is at or below the *)
(* node, through every split, insertion and hand-over of the lock.         *)
LocksExact ==
    \A n \in Nodes(m.tree) :
        m.tree.lock_ref[n] = Cardinality({r \in Request : Locked(r) /\ IsPrefix(n, m.req[r].last_node)})

(* The tree's counters and its set of evictable leaves agree with its      *)
(* structure, so the admission budget and evict() see what is there.       *)
TreeExact == WellFormed(m.tree) /\ SizesExact(m.tree) /\ LeavesExact(m.tree)

(* Admission and check_decode_mem are enough: alloc_for_extend and the     *)
(* decode allocation never raise "out of memory".                          *)
NeverOutOfMemory == pc # "crashed"

(* How far result r's request is behind what was launched for it. *)
Pending(r) == Cardinality({i \in 1..Len(result_queue) : r \in result_queue[i].reqs})

(* The KV length and the text of a request differ by exactly the results   *)
(* still pending: no result is applied twice, to a request it was not      *)
(* launched for, or lost.  With speculation only the verified tokens are   *)
(* committed.                                                              *)
CommittedMatchesText ==
    \A r \in Request :
        Slotted(r) /\ r \notin adder.can_run_list /\ r # chunked_req =>
            m.req[r].com = TotalLen(m, r) - 1
                + IF setup.draft = 0
                  THEN Pending(r) - m.req[r].inflight
                  ELSE Cardinality({i \in 1..Len(result_queue) :
                           result_queue[i].extend /\ r \in result_queue[i].reqs}) - m.req[r].inflight

(* inflight_middle_chunks counts the chunk results to come, so the final   *)
(* chunk, and no other, is taken for the end of the prefill.               *)
ChunksCounted ==
    \A r \in Request : ~m.req[r].is_retracted =>
        m.req[r].inflight = Cardinality({i \in 1..Len(result_queue) :
                                /\ result_queue[i].chunked_req = r
                                /\ r \in result_queue[i].reqs})

(* A row covers what it allocated, and without speculation nothing is      *)
(* allocated beyond the committed tokens when a row is released (the       *)
(* assertion of _release_overallocated_kv_indices); with it, all drafts of *)
(* the verify steps in flight have room (alloc "double" of eagle_utils).   *)
RowsCoverWrites ==
    \A r \in Request : Slotted(r) =>
        LET q == m.req[r]
            verifies == Cardinality({i \in 1..Len(result_queue) :
                            ~result_queue[i].extend /\ r \in result_queue[i].reqs})
        IN  /\ Len(q.row) = CeilPages(q.alo)
            /\ setup.draft = 0 => q.com = q.alo
            /\ q.com + verifies * setup.draft <= q.alo

(* One request at most is being chunked (the assertion on new_chunked_req).*)
OneChunkedReq == adder.new_chunked_req # NoReq => chunked_req = NoReq

(* A request that was received and not answered is in a queue or a batch,  *)
(* through retraction, time-outs, rejections by the queue limit and pauses.*)
NoRequestLost ==
    \A r \in setup.reqs \ fresh : answers[r] = 0 =>
        \/ r \in waiting_queue \cup running_batch \cup last_batch.reqs
        \/ r \in adder.can_run_list \cup adder.preempt_list
        \/ r = chunked_req

(* The same without priority preemption, which does lose requests (run     *)
(* preempted_request_lost).                                                *)
RequestsKept == ~setup.preemption => NoRequestLost

(* No client gets two final messages, whichever of a result, an abort, a   *)
(* time-out and a rejection come together.                                 *)
AnsweredOnce == \A r \in Request : answers[r] <= 1

(* Every request that arrives is answered, the retracted ones too. *)
EveryRequestAnswered ==
    \A r \in Request : r \in setup.reqs \ fresh ~> answers[r] = 1
=============================================================================
