# A TLA+ development for the Lagom / SGLang serving runtime

The repository is a fork of SGLang, a server for large language models.  A client's request is
tokenized by the front end, sent to a *scheduler* process, batched with others, prefilled (perhaps
in chunks), decoded one step per iteration, and answered.  Prefill and decode may also run on two
instances, with the KV cache written from one to the other over RDMA.

Three things make this hard, and the development follows them:

* inside the scheduler, running requests, the radix tree of cached prefixes and the free list share
  one pool of pages, and with the overlapped loop the result of a batch is processed only after the
  next batch was launched (`Scheduler` and the modules below it);
* in the front end, coroutines for requests, LoRA loads and unloads, weight updates and pauses meet
  at three locks and a reference count (`TokenizerManager`);
* between a prefill and a decode instance, five threads on two machines share status tables without
  locks, and a late write may reach memory that belongs to somebody else by then (`PDTransfer`).

TLC checks the modules on small instances; TLAPS proves what is listed under *Proofs* for every
value of the constants.

## 1. Inventory

| Part (under `src/python/sglang/srt/` unless noted) | State | Operations | What makes it correct |
|---|---|---|---|
| `RadixKey` (`mem_cache/radix_cache.py`) | a token array, a limit, raw or bigram view | `match`, `__len__`, slicing | `match` is the longest common prefix in whole pages |
| `RadixCache` (same file) | tree of nodes, `lock_ref`, `evictable_leaves`, `evictable_size_`, `protected_size_` | `match_prefix`, `insert`, `_split_node`, `inc/dec_lock_ref`, `evict`, `cache_unfinished_req`, `cache_finished_req`, `reset` | counters agree with the structure; locks count the requests below; a locked node is never evicted |
| Paged allocator (`mem_cache/allocator/{base,paged}.py`, kernels) | `free_pages`, `release_pages`, the open free group | `alloc`, `alloc_extend`, `alloc_decode`, `free`, `free_segments`, `free_group_begin/end`, `clear` | each page once; rows laid out page by page; refusal only when full |
| Request KV memory (`mem_cache/{allocation,common}.py`, `ReqToTokenPool`) | rows of `req_to_token`, `kv_committed_len`, `kv_allocated_len`, `cache_protected_len`, `last_node` | `alloc_for_extend/decode/spec_decode`, `release_kv_cache`, `evict_from_tree_cache` | no page leaked or freed twice; cached prefix of a row equals the tree's pages |
| `PrefillAdder` (`managers/schedule_policy.py`) | token budgets of one pass, `can_run_list`, `preempt_list`, `new_chunked_req` | `add_chunked_req`, `add_one_req`, `preempt_to_schedule` | what is admitted can be allocated; one chunked request at a time |
| `ScheduleBatch`/`Req` (`managers/schedule_batch.py`) | output length, finish state, `is_retracted`, `inflight_middle_chunks` | `prepare_for_extend/decode`, `check_decode_mem`, `retract_decode`, `filter_batch` | chunk counts match results to come |
| Scheduler (`managers/scheduler.py`) | `waiting_queue`, `running_batch`, `last_batch`, `chunked_req`, `_pending_chunked_abort_req`, `result_queue`, `_engine_paused` | `event_loop_overlap/normal`, `abort_request`, `pause_generation`, `continue_generation`, `flush_cache`, queue limit, waiting and running timeouts | no request lost or answered twice; every request answered |
| Result processor (`managers/scheduler_components/batch_result_processor.py`) | – | `process_batch_result_prefill/decode` | late results of finished or retracted requests are dropped |
| EAGLE (`speculative/eagle_utils.py`) | over-allocated rows | `eagle_prepare_for_decode` | room for all verify steps in flight |
| Tokenizer manager (`managers/tokenizer_manager.py`, `tokenizer_control_mixin.py`) | `rid_to_state`, `is_pause`, the locks | `generate_request`, `abort_request`, `pause_generation`, weight updates, LoRA loads and unloads | requests end, calls return, weights change between answers, a pause leaves the engine idle |
| `RWLock` (`utils/aio_rwlock.py`), `LoRARegistry` (`lora/lora_registry.py`) | readers, writers; ids in LRU order, usage counters | acquire, release, register, unregister, `wait_for_unload` | an adapter stays loaded while a request uses it |
| Prefill instance (`disaggregation/prefill.py`) | bootstrap, waiting and inflight queues, `pending_chunk_rids`, metadata buffers | `pop_bootstrapped`, `process_prefill_chunk`, `send_kv_chunk`, `process_batch_result_disagg_prefill`, `process_disagg_prefill_inflight_queue` | every chunk is sent once, after its forward pass |
| Decode instance (`disaggregation/decode.py`) | prealloc and transfer queues, `pending_reqs`, pages, metadata buffers | `add`, `pop_preallocated`, `pop_transferred` | a request decodes its own KV |
| KV transfer manager (`disaggregation/{common,mooncake}/conn.py`) | `request_status`, `transfer_infos`, transfer queues, `failed_sessions` | `bootstrap_thread`, `transfer_worker`, `decode_thread`, timeouts, aborts | both ends conclude |
| HiCache, SWA/mamba/unified caches, grammar, sessions, DP controller, pipeline parallelism, `sgl-model-gateway/` (Rust) | | | not modelled, see 8 |

The hazards this creates are listed with their lines in `PROJECT.json`; every property below is
aimed at one of them.

## 2. Modules

| Module | Models | Used by |
|---|---|---|
| `RadixKeyMatch` | `RadixKey.match`, one action per turn of its gallop and bisection loops | `MCRadixKeyMatch`, `RadixKeyMatchProofs` |
| `PagePool` | what a page allocator promises: pages are available, deferred, or owned by one row | `PagedAllocator` (refinement), `PagePoolProofs` |
| `PagedAllocator` | `PagedTokenToKVPoolAllocator` at the level of token slots, the Triton kernels included | `MCPagedAllocator`, `PagedAllocatorProofs` |
| `RadixTree` | the radix tree as operators on a record | `ReqKV` |
| `ReqKV` | how rows, tree and free list exchange pages, as operators on a memory | `Scheduler` |
| `Scheduler` | the event loop, admission, batches, results and client messages | `MCScheduler`, `SchedulerProofs` |
| `TokenizerManager` | the front end's coroutines, its locks, the LoRA registry, and the scheduler as a mailbox | `MCTokenizerManager`, `TokenizerManagerProofs` |
| `PDStatus` | rooms, `KVPoll`, `update_status`, metadata buffers: common to both instances | `PDPrefill`, `PDDecode` |
| `PDPrefill`, `PDDecode` | the scheduler thread of each instance with its KV sender or receiver, as functions on a record | `PDTransfer` |
| `PDTransfer` | both instances and the threads and channels between them | `MCPDTransfer`, `PDInstanceProofs`, `PDTransferProofs` |
| `QueueLoopProofs` | nothing of its own: the loop `for x in queue: step` as a sequence of states, for proofs | `PDInstanceProofs`, `PDTransferProofs` |

In `Scheduler`, `TokenizerManager` and `PDTransfer` the server arguments and what the clients and
the network may do are a record chosen in `Init` that never changes (`setup`, `config`); the MC
modules name the records that a run explores.

**RadixTree.**  A node is named by the path from the root to its end; `value` maps each cached path
to the page of its last unit.  Splitting a node then moves no page and only adds an entry to
`lock_ref`, which is what `_split_node` does to the bookkeeping.  Lengths are in pages, since
`match` returns whole pages (proved in `RadixKeyMatchProofs`); a unit stands for the tokens of one
page with `extra_key` and `cache_salt`.  `evict` pops leaves in the order of a strategy; `CanEvict`
admits every set of nodes that some order can pop, so all of `evict_policy.py` is covered.

**ReqKV.**  `free` counts how often a page is on the free list, so that a double free is visible.
Pages are interchangeable, so an allocation takes the smallest free ones.  `CacheUnfinished`,
`CacheFinished` and `ReleaseKV` are whole calls: insertion, freeing of duplicates, rewriting of the
row, the move of the lock, the unaligned and the over-allocated tail.

**Scheduler.**  `pc` walks through one iteration:

    idle -> admit -> prefill* -> batch -> [result*] -> idle
                 \-> decode -> [retract*] -> launch -> [result*] -> idle

| Action | Code |
|---|---|
| `HandleGenerate`, `AbortRequest`, `FlushCache`, `PauseGeneration`, `ContinueGeneration` | the handlers of the same names; they run at `idle`.  A full waiting queue rejects the newcomer or, with priorities, a queued request (`Rejections`) |
| `PrepareStep` | `get_next_batch_to_run` up to `get_new_batch_prefill`: `process_pending_chunked_abort`, the waiting and running timeouts, `stash_chunked_request`, merge of the last prefill batch (which, when it becomes the running batch, brings its own `batch_is_full`, unset) |
| `SkipPrefill`, `StartAdder`, `AddOneReq`, `PreemptToSchedule`, `ReleaseVictim`, `StopAdding`, `NoPrefill`, `LaunchPrefill` | `_get_new_batch_prefill_raw` and `PrefillAdder`, one action per early return and per request looked at |
| `NoDecode`, `CheckDecodeMem`, `RetractDecode`, `AbortLast`, `LaunchDecode` | `update_running_batch`, `retract_decode`, `prepare_for_decode`, `run_batch` |
| `DropResult`, `ChunkResult`, `PrefillResult`, `DecodeResult`, `EndResult` | `process_batch_result_*`, one action per branch and request |
| `RetractAll`, `EndPause` | the retracting mode of `pause_generation` |

An allocation that fails raises in the code and ends the scheduler; the model goes to
`pc = "crashed"`.  Actions between two values of `pc` other than `idle` are parts of one iteration
that nothing else can interleave with; they are separate so that each follows one branch of the
code.

Abstractions: sampling is external, so a request may stop at any token, and any number of drafts
from 1 to `draft` may be accepted.  The waiting queue is a set, each order of it being some
policy's.  `new_token_ratio` is 0 or 1, the two ends of its range.  The preemption threshold is 0.
A timeout may strike any request at any iteration.  `max_prefill_tokens`, `CLIP_MAX_NEW_TOKENS` and
the context length are assumed not to bind; prompts that `validate_input_length` rejects are left
out.  The loop of `event_loop_overlap` that processes the last result before the launch (when
overlap is disabled for a batch) leaves the same state as the other order in this model, since a
launch reads nothing of the result, and is not distinguished.

**TokenizerManager.**  The front end is one thread of coroutines, so an action is what one of them
does between two awaits that really suspend it.  `pc` says where each request and the operator's
LoRA call are suspended; holding `model_update_lock`, `is_pause_cond` or `lora_update_lock` is a
range of `pc`.  The scheduler process is a mailbox with a set of queued and running requests; its
answers come back over two paths (straight, or past the detokenizer), hence as a set.  Tokenization
is one step that may fail.  Streaming is left out except for the client that goes away, which
cancels the coroutine wherever it is suspended (`CancelStream`), except inside its own reload of an
adapter.  A load is refused because the name is loaded already or fails for another reason
(`LoadFailed`), which also ends the request whose adapter was to be reloaded; unloading waits for
the usage counter (`WaitForUnload`) as `wait_for_unload` does.

**PDStatus, PDPrefill, PDDecode, PDTransfer.**  A request has one bootstrap room, known by its own
name.  Each instance is a record; a function of `PDPrefill` or `PDDecode` is one method applied to
it, and an action of `PDTransfer` is one phase of a loop or one atomic step of a thread:

| Actor | Actions | Code |
|---|---|---|
| prefill scheduler | `PrefillArrives`, `PrefillAborts`, `PrefillPop`, `PrefillPlan`, `PrefillResult` | `event_loop_{normal,overlap}_disagg_prefill` |
| decode scheduler | `DecodeArrives`, `DecodeAborts`, `DecodePrealloc`, `DecodeTransferred`, `DecodeEnds` | `process_decode_queue` and the loop around it |
| prefill manager | `ReceiveMetadata`, `StoreMetadata`, `LookAtMetadata`, `RoomReady`; `ReceiveAbort`, `CheckAbort`, `HandleAbort` | `bootstrap_thread` |
| prefill manager | `WorkerTakes`, `WorkerChecks`, `WorkerLooks`, `WorkerReads`, `WorkerWrites`, `WorkerFails`, `WorkerCounts`, `WorkerConcludes`, `WorkerTearsDown`, `WorkerPops` | `transfer_worker` |
| decode manager | `ReceiveStatus`, `HandleSuccess` | `decode_thread` |
| clocks, network | `BootstrapTimeout`, `WaitingTimeout`, `ProbeSucceeds`, `MetadataLands` | `_check_*_timeout`, `_run_one_probe_pass`, RDMA |

The managers test `room in request_status` or `room in transfer_infos` and then look the room up
without a lock.  Each such pair is two steps; the lookup of a room that was cleared in between
raises `KeyError`, and the thread is `"dead"` from then on, as it is in the code.  An ABORT checks
the status and sets it in two steps as well, so that it may overwrite a Success set in between.  A
single `update_status` or `clear()` is one step.  `link` says what breaks between the instances for
a request: its prefill instance is gone when the receiver is initialized (`init`,
`_setup_bootstrap_infos`), the registration fails, or `send_metadata` does; `radix` is
`disaggregation_decode_enable_radix_cache`, with which `pop_preallocated` counts in whole pages.
Where the prefill scheduler raises "Unexpected poll state" the model changes nothing, and
`PollsExpected` says that it never gets there.  A page of the decode pool holds
`<<request, page of its prompt>>` or `Junk`; a write of a page whose forward pass has not ended, or
whose memory was given back, may write either.  Metadata is written by RDMA and becomes visible
later (`metadata_wire`), in order but not in order with the zmq message that reports success: this
is the case `_apply_metadata_gate` was written for.

## 3. Runs

| Run | Instance | Shows |
|---|---|---|
| `key_match` | bigram keys, up to 5 tokens over 2 values, every limit | `MatchCorrect`, the loop invariant, termination |
| `paged_allocator` | 3 rows, 3 pages of 2, rows up to 5, batches up to 2, `need_sort` off and on | `PagesOnce`, `RowsAligned`, `RefusedOnlyWhenFull`, `ImplementsPool` |
| `scheduler` | up to 3 requests, 6 pages of 2, chunks of 4; six setups: aborts; pauses and flushes; the loop without overlap; EAGLE with 3 drafts; preemption with a queue of one; timeouts with a queue of one | memory, lock, tree, result and request properties |
| `scheduler_progress` | long shared prefixes, 8 pages, chunks of 2; both loops, timeouts with a queue of one | `NeverOutOfMemory`, `OneChunkedReq`, `EveryRequestAnswered` |
| `front_end` | 2 requests, 2 adapters; LoRA, batch, update and pause setups | adapter, weight, pause and state properties, `EverythingEnds` |
| `pd_transfer` | 2 requests, 3 pages and chunks of 2 tokens; fourteen configs | own KV, buffers, requests, polls, page counts, move gate |
| `pd_stranded` | 1 request whose clocks run, with aborts, failures and broken links; 2 requests of one page, the clocks of either one running | `NobodyStranded` |
| `preempted_request_lost` | priorities | violates `NoRequestLost`, see 6 |
| `prompt_never_scheduled` | one prompt of 17 tokens, 3 pages of 8 | violates `EveryRequestAnswered`, see 6 |
| `lora_released_twice` | one unload, requests that may end with an error | violates `AdapterLoadedWhileUsed`, see 6 |
| `lora_never_released` | one unload, prompts that may be refused | violates `UnloadEnds`, see 6 |
| `bystander_aborted` | one metadata buffer, the first request may time out | violates `BystandersUnharmed`, see 6 |

Each property has a mutant in `PROJECT.json`: a small change of one mapped definition, of the kind
a slip in the code would be, that makes the run fail.

**Bounds.**  The allocator's batches have at most two requests (`MaxBatch`): the second is the first
whose new pages start at an offset into `free_pages`.  Pages of two tokens make every offset inside a page
and every boundary occur; rows of five tokens reach a third page.  The scheduler's requests are
chosen so that the interesting cases meet: r1 (2 tokens, up to 7 new ones) and r2 (3 and 4) share a
first page and outgrow 6 pages together, so they are retracted; r3 (5 tokens) exceeds the chunk of
4 and diverges from r1 inside its prompt, so nodes are split under locks and duplicates are freed.
With three drafts one request alone can outgrow the pool, so the last one is aborted.  In
`scheduler_progress` two requests have three pages in common and the third fills the pool, so that
locking a cached prefix really shrinks the budget; chunks of 2 make a chunked request be truncated
twice while another long one waits.

In the front end two requests and one operator suffice for every pair of coroutines to meet at
every lock; `MaxLoads` bounds the ids that reloads create (each request needs at most one reload,
the operator one load).  In the disaggregated runs a prompt of three tokens is two chunks and two
pages, the second partial, one of five is three chunks; the pool of three pages holds the requests
of some configs together and those of others one after the other, so that pages pass from one to
the next; one of seven tokens never fits and is refused.  Both instances receive the requests in
the same order.  `MaxFaults = 1` lets one transfer fail, after which the session has failed for the
other request too until the probe succeeds; `MaxEnsureRetries = 2` makes a retry and the giving up
both happen.  Where `pd_stranded` combines the clocks with aborts, failures or broken links it has
one request; the death of a thread over one request matters to another in its two configs of two
requests, where either may be the one that times out.  Each config names the requests that may be aborted or time out.

**Deadlock** is checked in all scheduler and disaggregation runs (an idle loop still turns).
`RadixKeyMatch` ends, and so does the front end when all calls have returned; their configurations
switch the check off.

## 4. Properties

Scheduler and memory:

* `PagesAccounted`: at every step each page is free once, or in one path of the tree, or in one
  cell of one row beyond the part the row shares with the tree.  This is the busy-time check of
  `invariant_checker.py`, without its exemptions.
* `SharedPrefixLive`: the protected part of each row is the tree's path to its last node, page for
  page.
* `LocksExact`, `TreeExact`: `lock_ref` counts the requests at or below the node; sizes and
  evictable leaves are what a recount would give.
* `CommittedMatchesText`, `ChunksCounted`: committed KV and text differ by exactly the results
  that are pending; `inflight_middle_chunks` is the number of chunk results to come.
* `RowsCoverWrites`: rows cover every verify step in flight, and without speculation nothing is
  allocated beyond the committed tokens.
* `NeverOutOfMemory`, `OneChunkedReq`: admission and `check_decode_mem` suffice for every
  allocation; the assertion on `new_chunked_req` holds.
* `RequestsKept`, `AnsweredOnce`, `EveryRequestAnswered`: a request received is in a queue or a
  batch until it is answered (`NoRequestLost`, outside preemption); it is answered once; it is
  answered.

Front end:

* `AdapterLoadedWhileUsed`, `RegistryBacked`: a request on its way to or in the scheduler finds its
  adapter there and no unload of it is in the socket; the registry names only what is loaded.
* `OneWeightVersion`: no weight update falls inside a request that is answered normally.
* `PausedMeansIdle`: when an aborting pause has returned, no request is in the scheduler or can
  get there.
* `NoStateLeft`, `EverythingEnds`: `rid_to_state` has no entry of a finished request; every request
  ends and every control call returns, unless the engine stays paused.

Disaggregation:

* `DecodesOwnKV`: each page of a request that decodes holds the page of its own prompt that belongs
  there, from the commit to its end.
* `BuffersExact`: metadata buffers and decode pages are free or held, each once.
* `RequestsKept`: on each instance, a request is in exactly one place until its one answer, and
  holds nothing after it.
* `InflightIsSent`: a request that waits for its transfer to end has handed over all of its pages,
  so that the last chunk was marked as such; none is handed over twice.
* `MoveGateUndisturbed`: while the worker writes for requests that nothing happens to, the gate of
  compaction is shut on both instances.
* `PollsExpected`: no poll of the prefill scheduler, in any of its queues, returns a status at
  which the code raises.
* `NobodyStranded`: the decode instance answers every request whose clocks run, whichever threads
  have died; the prefill instance answers as long as one of its two manager threads is left that can
  end the request (`Helpless` says when there is none).

**Fairness.**  `Scheduler!FairSpec` is `Spec /\ WF_pc(Turn)`: the event loop is `while True`, so
unless it is paused it moves from one phase to another forever.  Nothing is assumed of clients, nor
of when requests stop (they stop at `max_new_tokens` at the latest).  Weak fairness of a particular
action would be more than the code gives, since the loop decides which branch it takes.  In the
front end, asyncio runs every coroutine that can run, and the scheduler process reads its socket
and finishes what it runs; clients and the operator are free.  In `PDTransfer` both scheduler loops
never wait, so each moves on again and again; a thread that is alive and has something to do does
it, an RDMA write becomes visible, the two timeouts pass for requests that have them, and a running
request ends.  Strong fairness is used for that end only, since the loop may be elsewhere when it
could be observed.

## 5. Proofs

`RadixKeyMatchProofs` proves, for every token set, page size, key length and limit,
`TypeCorrect`, `LoopCorrect` and `MatchIsLongestCommonPrefix` (`Spec => []MatchCorrect`).  The
inductive invariant is `LoopInv`: all tokens before `lo` are equal, and while bisecting, the window
from `lo` to `hi` contains a difference.  `MatchCorrect` alone is not inductive, as it speaks of
the last state only.  That `lo` is the length of the longest common prefix at the end follows from
the window having length one; rounding to pages and the bigram step use two lemmas on `\div`.
The assumptions are those named in the module: a page size of at least 1, and keys that are page
aligned as `page_aligned()` makes them.

`PagePoolProofs` proves `PoolPartitioned` for every set of pages and rows.  `Partition` and
`NothingHeldBack` are inductive together with the types; a lemma per kind of action.

`PagedAllocatorProofs` proves everything the run `paged_allocator` checks of
the allocator, for every page size above 1, number of pages, set of rows, length of a row and size
of a batch (`AllocAssumption`):

| Theorem | States |
|---|---|
| `TypeCorrect` | the lists hold page ids of the pool, never slots (`TypeOK`) |
| `PagesOnceAlways` | no page is freed twice, lost, or owned by two rows (`PagesOnce`) |
| `RowsAlignedAlways` | the kernels keep each position at its offset of the page of its block (`RowsAligned`) |
| `RefusedOnlyWhenFullAlways` | the estimates before a merge are never too small (`RefusedOnlyWhenFull`) |
| `ImplementsPoolAlways` | every call is a step of `PagePool` or changes nothing there (`ImplementsPool`) |

One inductive invariant, `Inv`, carries all five:

* `Lists`: neither list repeats a page, they have none in common, and no page waits in the open
  group both as a representative and among the slots of a plain free;
* `Layout`: each row is laid out over its block table (`LaidOut(row, BlockTable(row))`), in which
  no page occurs twice.  `RowsAligned` says the same of each two positions; as an explicit list of
  pages it can be cut, appended to and passed on, which is what the calls do to it;
* `NothingReleased`: without `need_sort`, nothing is in `release_pages`, so that skipping the merge
  hides nothing from an allocation;
* `PoolInv` of the mapped pool: what the lists, the group and the rows hold are a partition of the
  pages.  The step lemmas of `PagePoolProofs` are reused through an `INSTANCE` with the refinement
  mapping, so that each call is shown once to be a pool step and inherits the partition from it.

The module begins with the operator lemmas.  Rows grow by `ExtendSlot`: whichever of the kernel's
three parts a position falls into, it gets the next offset of the next page (`ExtendSlotAt`,
`LaidOutGrow`).  The slices of `free_pages` that the requests of a batch take are disjoint and cover
exactly the pages taken off the list (`CumSumMonotone`, `SlicesCover`), and their sum is at most
`extend_num_tokens // page_size + bs` (`WantedIsEnough`), or `bs` for a decode step
(`DecodeSums`).  The representatives that `free_segment` takes with a stride are the pages of the
segment, once each (`RepsOfPages`); `SecondStartFacts` and `Cut` show that trimming the second
segment leaves each page of the tail to exactly one of the first segment, the part that is kept and
the second segment.  The induction over batches and list positions is on a set of numbers (`UpTo`:
a set that holds 0 and is closed under successor up to n holds all of `0..n`), since the library's
induction theorems cannot be instantiated; `\div` and `%` by the parameter `PageSize` are reduced to
`DivUnique` and `DivMono`.

`TokenizerManagerProofs` proves the safety properties of the front end for any finite sets of
requests and adapters, any `MaxLoads`, and every setup: every mix of LoRA calls, updates, pauses,
aborts, disconnects and answers, including the combinations no run explores.
`FrontEndAssumption` says that the sets are finite, that the names are different and that at most
`max_loaded_loras` adapters are given at the start, as `check_lora_server_args` demands.  Six
inductive invariants carry the argument; each adds what the property before it leaves open:

| Theorem | Inductive invariant | Why it is needed |
|---|---|---|
| `TypeCorrect` (`TypeOK`) | `TypeInv` | a task that holds `lora_update_lock` has a target that is an id, a request that reloads has an adapter |
| `NoStateLeftAlways` (`NoStateLeft`) | `FlowInv`: `Placed`, `Ended` | a request is in one place between the socket, the queue, the batch, the way back and its delivered output, so that one answer only is ever handled; its `rid_to_state` entry lives from the dispatch to the end |
| `PausedMeansIdleAlways` (`PausedMeansIdle`) | `PauseInv` | the pause returns when nobody is a reader, and without an update nobody waits to become one |
| `OneWeightVersionAlways` (`OneWeightVersion`) | `UpdateInv`: `UpdateAlone`, `MixedEnded` | the update message travels behind whatever was sent before it: what is ahead of it in the socket, or in the scheduler when it arrives, was given up by its client |
| `RegistryBackedAlways` (`RegistryBacked`) | `LoraInv`: `OneHolder`, `OneLoraMessage`, `TargetPlaced`, `Backed` | one load or unload is in flight at a time, that of the lock's holder, and its target is outside the registry meanwhile; ids are never reused |
| `AdapterLoadedAlways` (`AdapterLoadedWhileUsed`), `CountersStayNatural` | `CountInv`: `ReleasesOnce`, `Counted` | the counter of an adapter is at least the number of requests that hold it, hence never below zero; what is released was counted, and once |

`TypeOK` itself says only that counters are integers: with the double release of 6 one of them does
reach -1.

Four of them state a condition on the setup, and each condition is where the code stops short:

* `PausedMeansIdleAlways` assumes `setup.updates = 0`.  Next to an update, a request in
  `reader_wait` is not seen by `is_locked` (see 6).
* `OneWeightVersionAlways` assumes `FewUpdates`: with an aborting pause, at most one update.  With
  two, the request in `reader_wait` enters the paused engine when the first update leaves the lock,
  and the second, which finds the engine paused, takes no lock at all.  Without an aborting pause
  any number of updates is covered.
* `AdapterLoadedAlways` and `CountersStayNatural` assume `CountsKept`: no batch, whose counters rise
  late, and no answer with status 500 or 503, which is released twice (the finding
  `lora_released_twice`).

TLC found the two counterexamples behind the first two conditions when the unconditional statements
were tried on setups wider than those of `front_end`.

`SchedulerProofs` proves what the scheduler owes its clients, for any number of requests, any pool
and page size and every setup: overlap on or off, speculation, priorities and preemption, queue
limits, timeouts, aborts, pauses and flushes in every combination.  It uses `SchedulerAssumption`
and nothing else.

| Theorem | States |
|---|---|
| `ChunksCountedAlways` | `inflight_middle_chunks` of a request that was not retracted is the number of its chunks' results still on the result queue (`ChunksCounted`) |
| `AnsweredOnceAlways` | no request is answered twice (`AnsweredOnce`) |
| `RequestsKeptAlways` | a request that arrived and was not answered is in the queue, in the running or last batch, with the adder, or is the chunked request (`RequestsKept`), as long as no allocation has failed |
| `RowsCoverWritesAlways` | a row has the pages of all tokens allocated to it, and every verify step in flight has room for its drafts (`RowsCoverWrites`) |
| `CommittedMatchesTextAlways` | committed KV and text of a request differ by exactly its pending results (`CommittedMatchesText`), without preemption and as long as no allocation has failed |
| `OneChunkedReqAlways` | the assertion on `new_chunked_req` holds: one batch cuts at most one request (`OneChunkedReq`), without preemption |

The first two follow from one inductive invariant, `ControlInv`:

* `ControlTypes`: the types of the control state (not of the tree and the pages, which these
  properties do not read);
* `QueueInv`: how many batches of results are pending in each phase (at most one between
  iterations, two right after a launch with overlap), and that in the queue the results of a
  request's chunks come before its other results;
* `PhaseInv`: which of the iteration's variables are set in each phase: the adder outside
  `get_new_batch_prefill` is empty, and during it holds the request that is being chunked; the last
  batch was merged before;
* `PlaceInv`: for each place a request may be in (not arrived, waiting, preempted, in the adder, in
  a batch, the chunked request, with a pending result) what its flags and its answers then are, and
  which places exclude each other;
* `ChunksCounted` itself.

None of the parts is inductive alone: that a result answers its request once needs that a finished
request is dropped from the batch or skipped with its pending result, which needs to know how old
that result can be; that the counter is right needs that a request with pending chunk results is
nowhere but in the chunk's place.  `RequestsKept` adds `KeptInv`: `AllPlaced`, that every unanswered
request has a place, and `LastChunk`, on the chunked request of the last batch, since merging that
batch leaves it out and it must then be kept by `chunked_req`.  The step lemmas rest on
operator lemmas about `ReqKV` (`EvictKeeps`, `ReleaseKVKeeps`, `CacheUnfinishedKeeps`,
`GrowRowsKeeps`, ...): what moves pages moves no request and changes no flag.

`RequestsKeptAlways` has the condition `NeverOutOfMemory` because a failed allocation raises in the
middle of an iteration, with the new batch already out of the queue; that this does not happen is
what `scheduler_progress` checks.  `RequestsKept` itself speaks of setups without preemption, for the
reason that the finding `preempted_request_lost` gives.

The last three rest on `LengthInv` and `ChunkBudget`, inductive on top of `ControlInv`:

* `LengthTypes`: the lengths of a request are numbers, its row is a list, the batches are finite;
* `Good(r)`, for each request: it has no row before its first launch, after its end and after a
  retraction (`Unlaunched`), and one while it is in a batch (`Launched`); `Covered` and `Committed`,
  the two properties with the queue of results at hand; between two chunks what was launched is what
  is committed, and stashing moves the start of the next chunk there (`Chunked`); a request of the
  batch that is being made starts where its row ends, or at the end of the cached prefix, and is
  taken whole unless it is chunked (`Admitted`).  `Admitted` is what makes launching a batch extend
  a row by exactly its new tokens, with no gap and no overlap;
* `ChunkBudget`: while the adder works on a batch whose chunked request was added before, either the
  chunk or the total budget is used up, so nobody else can be cut.

`Good` is claimed until an allocation fails: that exception leaves the batch half made, with the
adder gone.  It changes no row (`CrashKeeps`), so `RowsCoverWritesAlways` needs no condition.  With
preemption the victims' pages raise the budget again after the chunked request has taken its share;
`ChunkBudget`, and with it the other two theorems, therefore exclude it.

`ControlInv`, `KeptInv`, `LengthInv` and `ChunkBudget` were checked with TLC before they were
proved, on setups wider than those of the run too.

`PDInstanceProofs` and, on top of it, `PDTransferProofs` prove, for any finite set of requests, any
numbers of pages and buffers, every config and every interleaving of the two schedulers with the
threads between them:

| Theorem | States |
|---|---|
| `TypeOKAlways` | no queue holds a request twice, statuses stay in `KVPoll` (`TypeOK`) |
| `BuffersExactAlways` | each metadata buffer of either instance and each page of the decode pool is free or belongs to one request (`BuffersExact`) |
| `RequestsKeptAlways` | an unanswered request is in exactly one place of each instance it has reached, an answered one was answered once and holds nothing (`RequestsKept`) |

It uses `PDAssumption` and `ConfigsAssumption`: finitely many requests, none of them the value
`Nil`, sizes of at least one, chunks of at least a page, and cached prefixes that are whole pages of
their prompt.  The inductive invariant `Inv` has one part per actor:

* `DecInv`, of the decode instance: which of its three places a request is in (`DecPlaced`), that
  only a request in the transfer queue has a buffer and only one there or running has pages, and
  that the free list and the requests' pages are a partition (`DecPages`, `FreeBuffers`);
* `PreSide`, of the prefill instance: for each request (`PreReqOK`) which of the queues it is in,
  whether it is the chunked request, and whether it has a *whole* or a *partial* entry in the batch
  whose result comes next or in the one behind it.  This is what makes the overlapped loop and the
  optimistic prefill inductive: the counter `chunks` (`inflight_middle_chunks`) is the number of
  partial entries still to come, a request that is answered while a partial entry is pending is
  aborted, so that its result is dropped, and a request that yields its chunk waits for exactly one
  such result before it goes back to the bootstrap queue.  The stage of the loop is part of it,
  since a chunked request has no entry of the next batch before that batch is made;
* `ThreadsOK`: the threads and channels name rooms of requests only.  What they do to an instance
  is a `Still` or `Quiet` step, one that moves no request and no buffer; the shared tables may hold
  anything else, so the proof does not depend on how the races on them end.

Each method of `PDPrefill` and `PDDecode` has a lemma of what it does to one request (`Gone`,
`Leaves`, `Allocated`, ...) and each loop over a queue a lemma that it keeps the invariant.  The
loops are folds in the model.  `QueueLoopProofs` shows that such a fold is the last of a sequence
of states, each the step of the one before (`Loop`), for any step; the module is instantiated once
per loop, and the induction is again the one over a set of numbers.  With the positions of the
queue at hand it can be stated which requests of the queue the loop has already seen, which is what
its invariant needs: `pop_bootstrapped` and its kin remove requests from the queue they walk over.

`Inv` was checked with TLC on all states of `pd_transfer` before it was proved.

### Only model-checked

* Liveness (`EverythingEnds`, `EveryRequestAnswered`, `NobodyStranded`, the termination of `match`,
  `UnloadEnds`): fairness and `ENABLED` are beyond the prover.
* The memory properties of `Scheduler` that count over the whole pool (`PagesAccounted`,
  `SharedPrefixLive`, `LocksExact`, `TreeExact`, and the tree's part of `TypeOK`): they
  count locks, pages and nodes over paths of the tree and over all requests, and the code that keeps
  them exact allocates several rows at a time; relating the counts before and after is an induction
  over the sets of requests and nodes that has not been carried out.  `NeverOutOfMemory` compares
  such sums with the budget of the adder.
* `CommittedMatchesText` with preemption.  `OneChunkedReq` is checked without it as well: with
  preemption the model's `new_token_ratio`, which may jump between 0 and 1 from one iteration to the
  next, admits a second chunked request, a limit of that abstraction.
* Of `PDTransfer`: `PollsExpected`, `InflightIsSent`, `DecodesOwnKV` and `MoveGateUndisturbed`. They
  relate the status that the threads set, and the position of every chunk in the transfer queue, at
  the worker and in the result to come with the pages of the request, across both instances; the
  invariant proved here follows each request and each buffer through the schedulers, but not the
  chunks between them.

## 6. Findings

* **A preempted request can be lost** (`preempted_request_lost`).  `preempt_to_schedule` judges
  the room a new request needs by `full_untruncated_fill_ids`, which is empty until
  `init_next_round_input` runs, after the preemption.  The request may then be refused by
  `add_one_req`; if nothing else was admitted, `_get_new_batch_prefill_raw` returns before it puts
  the victims back into the queue.  The client of the victim never gets an answer.  (The dLLM
  variant of the loop puts them back unconditionally.)  For this reason `RequestsKept` speaks of
  setups without preemption.
* **A long prompt can block the queue** (`prompt_never_scheduled`).  The comment in
  `init_req_max_new_tokens` asks that an accepted request always fits the admission budget; the
  clamp at 0 breaks that for prompts within one page of the pool size when pages have eight tokens
  or more and the context length is no tighter bound.
* **An adapter can be released twice** (`lora_released_twice`).  A request that ends with status
  500 or 503 in a batch output is released in `_handle_batch_output` and again in
  `_handle_abort_finish_reason`; the counter then misses a request that is still running, and the
  adapter is unloaded under it.
* **An adapter may never be released** (`lora_never_released`).  A request that fails between
  `acquire` and the scheduler, one whose client disconnects, and one aborted in the waiting queue
  keep their count.  An unload then waits forever, with `lora_update_lock` held.
* **A bystander is aborted** (`bystander_aborted`).  The decode instance resets the room of a freed
  metadata buffer, but the late metadata of the request that timed out lands after the reset.  If
  the next owner's success is reported before its own metadata is visible, the room it finds is
  neither 0 nor its own, and it is aborted for "metadata corruption".

Observed while modelling, and stated as limits of the properties rather than as findings:

* Front end.  A reader that waits for `model_update_lock` is not counted by `is_locked`: an
  aborting pause that runs together with an update started before it can return while such a reader
  is still to enter, so `front_end` has no setup with both.  The counters of a *batch* are raised in
  tasks of `asyncio.gather`, after the lookup; an unload in between is not waited for, so batches
  appear in setups without unloads.  The cancellation of a streaming client discards the
  `rid_to_state` entry, so that the later `abort_request` of `create_abort_task` does nothing and
  the scheduler computes to the end.
* Disaggregation.  A request aborted on the prefill instance alone while its last chunk is being
  written can be committed by the decode instance with torn KV; `DecodesOwnKV` leaves those out.
  After a timeout or an abort on the decode instance the gate of compaction opens, and the pages are
  free, while the worker may still be writing (the code has a TODO on deferring the release until
  ABORT_ACK); reuse by another *transfer* is safe because the messages, the worker of a session and
  its writes are each in order, and this is what `DecodesOwnKV` shows; reuse by the growth of a
  running request is not modelled.  An ABORT that arrives before the request has a sender is
  dropped, and metadata that arrives after a room was cleared creates its entry again, for nobody to
  remove.  `bootstrap_thread` tests that a room is known and then checks its status, without a lock,
  although an ABORT for a room that has succeeded is to be ignored; the scheduler's `clear()` of the
  room in between makes `check_status` raise, and the thread, which alone receives metadata and
  ABORTs, is gone.  `transfer_worker` has the same gap after each chunk.  `pd_stranded` shows how far
  the damage goes: with one of the two dead, every other request whose clocks run is still answered;
  with both dead, a request in `WaitingForInput` is not, since the prefill instance has no timeout
  in that state and nobody hears its ABORT.

## 7. Running

    tlc -workers 2 -config MCScheduler.cfg MCScheduler
    tlc -workers 2 -config MCPDTransfer.cfg MCPDTransfer
    tlapm RadixKeyMatchProofs.tla
    tlapm PagePoolProofs.tla
    tlapm PagedAllocatorProofs.tla
    tlapm TokenizerManagerProofs.tla
    tlapm SchedulerProofs.tla
    tlapm QueueLoopProofs.tla
    tlapm PDInstanceProofs.tla
    tlapm PDTransferProofs.tla

`PROJECT.json` lists the module and configuration of each run, and the source lines behind each
definition.

## 8. Plan

Done: keys, tree, allocator, request memory, scheduler loop with overlap, speculation, preemption,
queue limits, timeouts, pause, abort and flush; the front end with LoRA, weight updates and pauses;
disaggregated prefill and decode; the proofs above.

Next, in this order:

1. **Proofs**: `InflightIsSent` and then `DecodesOwnKV`, on top of the invariant of
   `PDTransferProofs`; the lock counts of the radix tree.
2. **HiCache** (`hiradix_cache.py`, `cache_controller.py`): write-through with acknowledgements,
   load-back and prefetch against eviction; a node is backed up or resident until it is deleted.
3. **Gateway core** (`circuit_breaker.rs`, `worker_registry.rs`, `job_queue.rs`): atomics with
   their interleavings.
4. **Grammar manager, sessions, data-parallel controller.**

### Not modelled

* Of disaggregation: more than one rank (TP, PP, CP), other transfer backends, staging buffers,
  HiSparse, SWA and mamba state, HiCache restore on the decode instance, retraction and rebootstrap,
  prefix hits and the early send of a cached prefix on the prefill instance, heartbeats, errors of
  zmq sends other than the receiver's registration and metadata.  A pending decode request whose
  data-parallel rank is never found has no retry limit in the code; with one rank this cannot
  happen.
* Of the front end: tokenization itself, streaming chunks, batches beyond their adapter counts,
  parallel sampling, several tokenizer workers, the LoRA drainer and memory pool, and the
  `FanOutCommunicator` behind the control calls: a caller cancelled while it waits for an answer
  leaves that answer to the next caller.
* Model execution and kernels other than the allocator's, sampling, transport and serialization,
  multimodal generation, the language front end, benchmarks: numerical code, I/O, or programs
  beside the serving runtime.
