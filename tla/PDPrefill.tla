------------------------------ MODULE PDPrefill ------------------------------
(***************************************************************************)
(* The scheduler thread of a prefill instance (disaggregation/prefill.py,  *)
(* abort_request and process_pending_chunked_abort of                      *)
(* managers/scheduler.py) and the KV sender it uses, as functions on the   *)
(* record S of the instance:                                               *)
(*   bootstrap, waiting, inflight   the three queues                       *)
(*   chunked, abort_chunked         chunked_req, _pending_chunked_abort_req*)
(*   batch, last_batch              the batch launched now and before      *)
(*   pending_chunks                 disagg_prefill_pending_chunk_rids      *)
(*   req                            per request, its fields and sender     *)
(*   free_buffers, metadata         the metadata buffers and their room    *)
(*   status, infos, prefix_len      request_status, transfer_infos and     *)
(*                                  req_to_decode_prefix_len of the manager*)
(*   outstanding, transfers         _staging_outstanding and the transfer  *)
(*                                  queue of the decode session            *)
(*   overdue                        rooms whose bootstrap timeout passed   *)
(* The KV pool is large enough, and there is no prefix hit: a request's    *)
(* memory is one flag, kv.  Memory pressure is the subject of Scheduler.   *)
(***************************************************************************)
EXTENDS PDStatus

(* arrived: received; kv: the pool holds its KV; end: extend_range.end;    *)
(* computed: tokens whose forward pass has ended; chunks:                  *)
(* inflight_middle_chunks; send_from: start_send_idx; send_to: tmp_end_idx;*)
(* sent, to_send: curr_idx and num_kv_indices of the sender, in pages.     *)
NewPrefillReq(len) ==
    [arrived |-> FALSE, len |-> len, kv |-> FALSE, end |-> 0, computed |-> 0,
     chunks |-> 0, pending_bootstrap |-> FALSE, attempts |-> 0, aborted |-> FALSE,
     send_from |-> 0, send_to |-> 0, buffer |-> Nil, conclude |-> Nil,
     sent |-> 0, to_send |-> 0, answers |-> 0, abort_asked |-> FALSE]

(* A room that is not in transfer_infos, and one whose dictionary of       *)
(* destinations is still empty.                                            *)
NoInfo == [pages |-> <<>>, buffer |-> Nil, decode_prefix |-> 0]
EmptyInfo == [NoInfo EXCEPT !.buffer = 0]

PrefillInit(config) ==
    [bootstrap |-> <<>>, waiting |-> <<>>, inflight |-> <<>>, chunked |-> Nil,
     abort_chunked |-> Nil, batch |-> <<>>, last_batch |-> <<>>, pending_chunks |-> {},
     req |-> [r \in Request |-> NewPrefillReq(config.len[r])],
     free_buffers |-> [i \in 1 .. PrefillBuffers |-> i],
     metadata |-> [i \in 1 .. PrefillBuffers |-> Nil],
     status |-> [r \in Request |-> Absent], infos |-> [r \in Request |-> NoInfo],
     prefix_len |-> [r \in Request |-> 0], outstanding |-> [r \in Request |-> 0],
     transfers |-> <<>>, overdue |-> {}]

(* A queue without one request, which is in it at most once. *)
Without(q, r) == RemoveFirst(q, r)

-----------------------------------------------------------------------------
(* MooncakeKVSender: poll, failure_exception, clear, abort. *)
PollValue(S, r) ==
    IF S.req[r].conclude # Nil THEN S.req[r].conclude
    ELSE IF S.status[r] = Success /\ S.outstanding[r] > 0 THEN Transferring
    ELSE IF S.status[r] = Bootstrapping /\ r \in S.overdue THEN Failed
    ELSE S.status[r]

Polled(S, r) ==
    LET v == PollValue(S, r) IN
    IF S.req[r].conclude # Nil THEN S
    ELSE IF S.status[r] = Bootstrapping /\ v = Failed THEN UpdateStatus(S, r, Failed)
    ELSE IF v \in {Success, Failed} THEN [S EXCEPT !.req[r].conclude = v]
    ELSE S

ClearRoom(S, r) ==
    [S EXCEPT !.status[r] = Absent, !.prefix_len[r] = 0, !.infos[r] = NoInfo]

FailureException(S, r) ==
    ClearRoom([S EXCEPT !.req[r].conclude = IF @ = Nil THEN Failed ELSE @], r)

AbortSender(S, r) == [UpdateStatus(S, r, Failed) EXCEPT !.req[r].conclude = Failed]

(* send and add_transfer_request: the sender counts the pages whether or   *)
(* not the room still accepts them.                                        *)
Send(S, r, first_page, pages) ==
    LET at      == S.req[r].sent
        counted == [S EXCEPT !.req[r].sent = at + pages]
    IN IF S.status[r] \in {Absent, Failed} \/ S.infos[r] = NoInfo THEN counted
       ELSE [counted EXCEPT !.transfers = Append(@,
                [room |-> r, first |-> first_page, at |-> at, pages |-> pages,
                 last |-> at + pages = S.req[r].to_send, buffer |-> S.req[r].buffer])]

(* send_kv_chunk: all but the last chunk stop at a page boundary, and the  *)
(* partial page goes with the next one.                                    *)
SendKVChunkUnnoted(S, r, last_chunk, upto) ==
    LET from  == S.req[r].send_from
        end   == IF last_chunk THEN upto ELSE upto - (upto % PageSize)
        pages == PagesOf(end) - (from \div PageSize)
        ready == IF last_chunk
                 THEN [S EXCEPT !.metadata[S.req[r].buffer] = r] ELSE S
        sent  == IF pages > 0 \/ last_chunk
                 THEN Send(ready, r, from \div PageSize, pages) ELSE ready
    IN IF end < from THEN S ELSE [sent EXCEPT !.req[r].send_from = end]

SendKVChunk(S, r, last_chunk, upto) ==
    LET from  == S.req[r].send_from
        end   == IF last_chunk THEN upto ELSE upto - (upto % PageSize)
        pages == PagesOf(end) - (from \div PageSize)
        ready == IF last_chunk
                 THEN [S EXCEPT !.metadata[S.req[r].buffer] = r] ELSE S
        sent  == IF pages > 0 \/ last_chunk
                 THEN Send(ready, r, from \div PageSize, pages) ELSE ready
    IN IF end < from THEN S
       ELSE [sent EXCEPT !.req[r].send_from = end,
                         !.pending_chunks = IF last_chunk THEN @ \ {r} ELSE @ \union {r}]

-----------------------------------------------------------------------------
(* ensure_metadata_buffer. *)
BufferAvailable(S, r) == S.req[r].buffer # Nil \/ S.free_buffers # <<>>

EnsureBuffer(S, r) == IF S.req[r].buffer # Nil THEN S ELSE TakeBuffer(S, r)

(* finalize_bootstrap, when a metadata buffer is available. *)
FinalizeBootstrapWholePrompt(S, r) ==
    LET T == EnsureBuffer(S, r) IN
    [T EXCEPT !.prefix_len[r] = 0,
              !.req[r].send_from = S.prefix_len[r],
              !.req[r].to_send = PagesOf(S.req[r].len),
              !.req[r].pending_bootstrap = FALSE]

FinalizeBootstrapStillPending(S, r) ==
    LET T == EnsureBuffer(S, r) IN
    [T EXCEPT !.prefix_len[r] = 0,
              !.req[r].send_from = S.prefix_len[r],
              !.req[r].to_send = PagesOf(S.req[r].len - S.prefix_len[r])]

FinalizeBootstrap(S, r) ==
    LET T == EnsureBuffer(S, r) IN
    [T EXCEPT !.prefix_len[r] = 0,
              !.req[r].send_from = S.prefix_len[r],
              !.req[r].to_send = PagesOf(S.req[r].len - S.prefix_len[r]),
              !.req[r].pending_bootstrap = FALSE]

(* handle_bootstrap_failure. *)
HandleBootstrapFailureKeepsBuffer(S, r) ==
    LET T == FailureException(S, r) IN
    Answer([T EXCEPT !.pending_chunks = @ \ {r}, !.req[r].kv = FALSE,
                     !.req[r].pending_bootstrap = FALSE, !.req[r].aborted = TRUE], r)

HandleBootstrapFailure(S, r) ==
    LET T == ReleaseBuffer(FailureException(S, r), r) IN
    Answer([T EXCEPT !.pending_chunks = @ \ {r}, !.req[r].kv = FALSE,
                     !.req[r].pending_bootstrap = FALSE, !.req[r].aborted = TRUE], r)

(* optimistic_release_and_requeue. *)
ReleaseAndRequeue(S, r, max_attempts) ==
    LET T == [S EXCEPT !.req[r].kv = FALSE, !.req[r].end = 0, !.req[r].computed = 0,
                       !.req[r].send_from = 0, !.req[r].send_to = 0,
                       !.req[r].pending_bootstrap = TRUE,
                       !.pending_chunks = @ \ {r}]
    IN IF S.req[r].attempts >= max_attempts
       THEN [T EXCEPT !.bootstrap = Append(@, r)]
       ELSE [T EXCEPT !.req[r].attempts = @ + 1, !.waiting = <<r>> \o @]

(* handle_pending_bootstrap of a request whose poll is already in S; the   *)
(* buffer is held since pop_bootstrapped.                                  *)
HandlePendingBootstrap(S, r, poll) ==
    CASE poll = Failed -> HandleBootstrapFailure(S, r)
      [] poll = WaitingForInput -> FinalizeBootstrap(S, r)
      [] OTHER -> S

-----------------------------------------------------------------------------
(* _add_request_to_queue, create_sender: a new sender, and its room.  *)
PrefillReceive(S, r) ==
    [UpdateStatus(S, r, Bootstrapping)
        EXCEPT !.req[r].arrived = TRUE, !.req[r].pending_bootstrap = TRUE,
               !.bootstrap = Append(@, r)]

(* abort_request on a prefill instance. *)
PrefillAbort(S, r) ==
    LET T == [S EXCEPT !.req[r].abort_asked = TRUE,
                       !.abort_chunked = IF S.chunked = r THEN r ELSE @]
        released == ReleaseBuffer(T, r)
        running  == [T EXCEPT !.req[r].aborted =
                        @ \/ (\E b \in Range(S.last_batch) : b.req = r /\ S.req[r].answers = 0)]
    IN IF r \in Range(S.waiting)
       THEN LET U == IF S.req[r].pending_bootstrap
                     THEN AbortSender(released, r) ELSE released
            IN Answer([U EXCEPT !.waiting = Without(@, r)], r)
       ELSE IF r \in Range(S.bootstrap) \union Range(S.inflight) THEN AbortSender(running, r)
       ELSE running

(* pop_bootstrapped, one entry of the bootstrap queue. *)
PopOne(S, r, max_attempts) ==
    LET poll == PollValue(S, r)
        T    == Polled(S, r)
        gone == [T EXCEPT !.bootstrap = Without(@, r)]
        move(U) == [U EXCEPT !.waiting = Append(@, r)]
    IN CASE poll = Failed -> HandleBootstrapFailure(gone, r)
         [] poll = Bootstrapping /\ S.req[r].attempts < max_attempts /\ BufferAvailable(S, r) ->
               move([EnsureBuffer(gone, r) EXCEPT !.req[r].attempts = @ + 1])
         [] poll = WaitingForInput /\ BufferAvailable(S, r) ->
               move(FinalizeBootstrap(gone, r))
         [] OTHER -> T

PopBootstrapped(S, max_attempts) ==
    FoldLeft(LAMBDA T, r : PopOne(T, r, max_attempts), S, S.bootstrap)

-----------------------------------------------------------------------------
(* process_pending_chunked_abort. *)
ProcessPendingChunkedAbort(S) ==
    LET r == S.abort_chunked
        T == ReleaseBuffer(AbortSender(S, r), r)
    IN IF r = Nil THEN S
       ELSE IF S.chunked # r
       THEN [S EXCEPT !.abort_chunked = IF S.req[r].answers > 0 \/ ~S.req[r].kv THEN Nil ELSE @]
       ELSE Answer([T EXCEPT !.pending_chunks = @ \ {r}, !.req[r].pending_bootstrap = FALSE,
                             !.req[r].aborted = TRUE, !.req[r].kv = FALSE,
                             !.chunked = Nil, !.abort_chunked = Nil], r)

(* resolve_waiting_queue_bootstrap, one entry of the waiting queue. *)
ResolveOne(S, r) ==
    LET poll == PollValue(S, r)
        T    == Polled(S, r)
    IN CASE S.req[r].aborted -> S
         [] poll = Failed ->
               HandleBootstrapFailure([T EXCEPT !.waiting = Without(@, r)], r)
         [] poll = WaitingForInput /\ S.req[r].pending_bootstrap /\ BufferAvailable(S, r) ->
               FinalizeBootstrap(T, r)
         [] OTHER -> T

ResolveWaitingQueueBootstrap(S) == FoldLeft(ResolveOne, S, S.waiting)

HasBootstrappedWaitingReq(S) ==
    \E r \in Range(S.waiting) : ~S.req[r].pending_bootstrap /\ ~S.req[r].aborted

(* process_prefill_chunk: a chunked request that is still bootstrapping    *)
(* keeps computing, or yields to one that is not.                          *)
ProcessPrefillChunk(S, config) ==
    LET r    == S.chunked
        poll == PollValue(S, r)
        ready == ~S.req[r].pending_bootstrap \/ poll = WaitingForInput
        T    == IF S.req[r].pending_bootstrap
                THEN HandlePendingBootstrap(Polled(S, r), r, poll) ELSE S
        upto == Min({T.req[r].end, T.req[r].len})
        none == [T EXCEPT !.chunked = Nil]
    IN IF r = Nil THEN S
       ELSE IF ready /\ config.overlap THEN [T EXCEPT !.req[r].send_to = upto]
       ELSE IF ready THEN SendKVChunk(T, r, FALSE, upto)
       ELSE IF T.req[r].aborted THEN none
       ELSE IF ~HasBootstrappedWaitingReq(T) THEN T
       ELSE IF config.overlap THEN none
       ELSE ReleaseAndRequeue(none, r, config.max_attempts)

(* get_new_batch_prefill: the chunked request first, then the waiting      *)
(* queue, in chunks of whole pages, while the budget of the batch lasts.   *)
AddToBatch(A, r) ==
    LET S    == A.S
        left == S.req[r].len - S.req[r].end
        n    == IF left <= A.budget THEN left
                ELSE (A.budget \div PageSize) * PageSize
        whole == n = left
    IN IF n = 0 \/ A.stop THEN [A EXCEPT !.stop = TRUE]
       ELSE [budget |-> A.budget - n, stop |-> ~whole,
             S |-> [S EXCEPT !.req[r].kv = TRUE, !.req[r].end = @ + n,
                             !.req[r].chunks = IF whole THEN @ ELSE @ + 1,
                             !.waiting = Without(@, r), 
                             !.batch = Append(@, [req |-> r, end |-> S.req[r].end + n]),
                             !.chunked = IF whole THEN Nil ELSE r]]

GetNewBatchPrefill(S) ==
    LET chunk == IF S.chunked = Nil THEN <<>> ELSE <<S.chunked>>
        start == [budget |-> ChunkedPrefillSize, stop |-> FALSE,
                  S |-> [S EXCEPT !.batch = <<>>]]
    IN FoldLeft(AddToBatch, start, chunk \o S.waiting).S

(* get_next_disagg_prefill_batch_to_run. *)
NextPrefillBatch(S, config) ==
    GetNewBatchPrefill(
        ProcessPrefillChunk(
            ResolveWaitingQueueBootstrap(ProcessPendingChunkedAbort(S)), config))

-----------------------------------------------------------------------------
(* process_batch_result_disagg_prefill, one request of the batch; b.end is *)
(* as far as the forward pass of this batch computed it.                   *)
ResultOneSendsAhead(S, b, config) ==
    LET r    == b.req
        req  == S.req[r]
        done == [S EXCEPT !.req[r].computed = b.end]
        last == [done EXCEPT !.inflight = Append(@, r)]
        T    == [done EXCEPT !.req[r].chunks = @ - 1]
        still_chunking == S.chunked = r \/ req.end >= req.len
    IN IF req.chunks <= 0
       THEN IF req.pending_bootstrap THEN last ELSE SendKVChunk(last, r, TRUE, req.len)
       ELSE IF req.pending_bootstrap /\ ~still_chunking
       THEN ReleaseAndRequeue(T, r, config.max_attempts)
       ELSE IF req.aborted THEN [T EXCEPT !.pending_chunks = @ \ {r}]
       ELSE IF config.overlap /\ ~req.pending_bootstrap
       THEN SendKVChunk(T, r, FALSE, req.end)
       ELSE T

ResultOne(S, b, config) ==
    LET r    == b.req
        req  == S.req[r]
        done == [S EXCEPT !.req[r].computed = b.end]
        last == [done EXCEPT !.inflight = Append(@, r)]
        T    == [done EXCEPT !.req[r].chunks = @ - 1]
        still_chunking == S.chunked = r \/ req.end >= req.len
    IN IF req.chunks <= 0
       THEN IF req.pending_bootstrap THEN last ELSE SendKVChunk(last, r, TRUE, req.len)
       ELSE IF req.pending_bootstrap /\ ~still_chunking
       THEN ReleaseAndRequeue(T, r, config.max_attempts)
       ELSE IF req.aborted THEN [T EXCEPT !.pending_chunks = @ \ {r}]
       ELSE IF config.overlap /\ ~req.pending_bootstrap
       THEN SendKVChunk(T, r, FALSE, req.send_to)
       ELSE T

ProcessBatchResult(S, batch, config) ==
    FoldLeft(LAMBDA T, b : ResultOne(T, b, config), S, batch)

(* process_disagg_prefill_inflight_queue, one entry: parked requests wait  *)
(* for their bootstrap, the others for the end of their transfer.          *)
InflightOne(S, r) ==
    LET poll == PollValue(S, r)
        T    == Polled(S, r)
        gone == [T EXCEPT !.inflight = Without(@, r)]
        release(U) == ReleaseBuffer(Answer([U EXCEPT !.req[r].kv = FALSE], r), r)
    IN CASE S.req[r].pending_bootstrap /\ poll = Failed -> HandleBootstrapFailure(gone, r)
         [] S.req[r].pending_bootstrap /\ poll = WaitingForInput ->
               SendKVChunk(FinalizeBootstrap(T, r), r, TRUE, S.req[r].len)
         [] ~S.req[r].pending_bootstrap /\ poll = Success -> release(ClearRoom(gone, r))
         [] ~S.req[r].pending_bootstrap /\ poll = Failed ->
               release([FailureException(gone, r) EXCEPT !.req[r].aborted = TRUE])
         [] OTHER -> T

ProcessInflightQueue(S) == FoldLeft(InflightOne, S, S.inflight)
===============================================================================
