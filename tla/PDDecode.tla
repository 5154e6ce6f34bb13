------------------------------- MODULE PDDecode -------------------------------
(***************************************************************************)
(* The scheduler thread of a decode instance (disaggregation/decode.py,    *)
(* abort_request of managers/scheduler.py) and the KV receiver it uses, as *)
(* functions on the record S of the instance:                              *)
(*   queue, pending, transfer   the prealloc queue, the requests of it     *)
(*                              whose prefill rank is not resolved, and    *)
(*                              the transfer queue                         *)
(*   retries                    _ensure_retry_count of the prefill instance*)
(*   published                  _num_published_destinations                *)
(*   running                    requests whose KV has arrived, until they  *)
(*                              end (their decoding is Scheduler's)        *)
(*   req                        per request, its fields and receiver       *)
(*   free, free_buffers         the free pages and metadata buffers        *)
(*   status, overdue            request_status; rooms whose waiting        *)
(*                              timeout passed                             *)
(*   outbox                     messages to the prefill instance, in order *)
(*   landed                     the room that each metadata buffer shows   *)
(* Nothing is restored from HiCache and nothing is retracted here.         *)
(***************************************************************************)
EXTENDS PDStatus

(* What the network does to a request: nothing; the prefill instance, or   *)
(* the address of its rank, is not known any more when the receiver is     *)
(* initialized; the registration cannot be sent; the metadata cannot.      *)
Link == {"ok", "down", "unregistered", "unsent"}

(* connected: bootstrap_infos are known; sent: send_metadata has run, so   *)
(* init_time is set; notified: abort_notified; radix: its prefix is looked *)
(* up in the radix cache.                                                  *)
NewDecodeReq(config, r) ==
    [arrived |-> FALSE, len |-> config.len[r], prefix |-> config.prefix[r],
     radix |-> config.radix, link |-> config.link[r],
     waiting_for_input |-> FALSE, connected |-> FALSE, sent |-> FALSE, notified |-> FALSE,
     conclude |-> Nil, aborted |-> FALSE, pages |-> <<>>, buffer |-> Nil, answers |-> 0]

DecodeInit(config) ==
    [queue |-> <<>>, pending |-> {}, retries |-> 0, transfer |-> <<>>, published |-> 0, running |-> {},
     req |-> [r \in Request |-> NewDecodeReq(config, r)],
     free |-> Page, free_buffers |-> [i \in 1 .. config.buffers |-> i],
     status |-> [r \in Request |-> Absent], overdue |-> {}, outbox |-> <<>>,
     landed |-> [i \in 1 .. config.buffers |-> Nil]]

(* A queue without one request, which is in it at most once. *)
Removed(q, r) == RemoveFirst(q, r)

-----------------------------------------------------------------------------
(* CommonKVReceiver and MooncakeKVReceiver.  The abort notification goes   *)
(* out once, over the connection that also carries the metadata.           *)
NotifyAbort(S, r) ==
    IF S.req[r].notified \/ ~S.req[r].connected THEN S
    ELSE [S EXCEPT !.req[r].notified = TRUE,
                   !.outbox = Append(@, [type |-> "ABORT", room |-> r])]

AbortReceiver(S, r) ==
    NotifyAbort([UpdateStatus(S, r, Failed) EXCEPT !.req[r].conclude = Failed], r)

ReceiverOverdueOnceTransferring(S, r) ==
    S.status[r] = Transferring /\ S.req[r].sent /\ r \in S.overdue

ReceiverOverdue(S, r) ==
    S.status[r] = WaitingForInput /\ S.req[r].sent /\ r \in S.overdue

ReceiverPoll(S, r) ==
    IF S.req[r].conclude # Nil THEN S.req[r].conclude
    ELSE IF ReceiverOverdue(S, r) THEN Failed ELSE S.status[r]

ReceiverPolled(S, r) ==
    IF S.req[r].conclude # Nil THEN S
    ELSE IF ReceiverOverdue(S, r) THEN NotifyAbort(UpdateStatus(S, r, Failed), r)
    ELSE IF S.status[r] \in {Success, Failed} THEN [S EXCEPT !.req[r].conclude = S.status[r]]
    ELSE S

ClearReceiver(S, r) == [S EXCEPT !.status[r] = Absent]

ReceiverFailure(S, r) ==
    ClearReceiver([S EXCEPT !.req[r].conclude = IF @ = Nil THEN Failed ELSE @], r)

(* CommonKVReceiver.init and _setup_bootstrap_infos. *)
InitReceiver(S, r) ==
    LET T == [S EXCEPT !.req[r].connected = S.req[r].link # "down", !.pending = @ \ {r}]
    IN IF S.req[r].link \in {"down", "unregistered"}
       THEN [UpdateStatus(T, r, Failed) EXCEPT !.req[r].conclude = Failed]
       ELSE IF S.req[r].conclude = Failed THEN T
       ELSE UpdateStatus(T, r, WaitingForInput)

-----------------------------------------------------------------------------
(* DecodePreallocQueue.add: resolved is the fast path of a prefill rank    *)
(* that is already known.                                                  *)
DecodeReceive(S, r, resolved) ==
    LET T == [UpdateStatus(S, r, Bootstrapping)
                EXCEPT !.req[r].arrived = TRUE, !.queue = Append(@, r)]
    IN IF S.req[r].len > NumPages * PageSize
       THEN Answer([S EXCEPT !.req[r].arrived = TRUE, !.req[r].aborted = TRUE], r)
       ELSE IF resolved THEN InitReceiver(T, r)
       ELSE [T EXCEPT !.pending = @ \union {r}]

(* release_kv_cache: the pages beyond the prefix go back to the pool. *)
ReleasePages(S, r) ==
    [S EXCEPT !.free = @ \union Range(S.req[r].pages), !.req[r].pages = <<>>]

(* abort_request on a decode instance.  A running request ends with its    *)
(* next step, which nothing here tells from now.                           *)
DecodeAbort(S, r) ==
    IF r \in Range(S.queue) \union Range(S.transfer) THEN AbortReceiver(S, r)
    ELSE IF r \in S.running
    THEN Answer(ReleasePages([S EXCEPT !.running = @ \ {r}], r), r)
    ELSE S

(* The running request ends. *)
DecodeFinish(S, r) == Answer(ReleasePages([S EXCEPT !.running = @ \ {r}], r), r)

-----------------------------------------------------------------------------
(* _resolve_pending_reqs and _ensure_prefill_info: the prefill instance    *)
(* answers, or the attempt fails, and after the last one the receivers are *)
(* aborted.  Every pass is an attempt: the interval between attempts is    *)
(* left out.                                                               *)
ResolvePending(S, reachable) ==
    LET attempted == [S EXCEPT !.retries = @ + 1]
        settled   == [S EXCEPT !.retries = 0]
        abort(T, r) == [AbortReceiver(T, r) EXCEPT !.pending = @ \ {r}]
    IN IF S.pending = {} THEN S
       ELSE IF reachable THEN FoldLeft(InitReceiver, settled, SetToSeq(S.pending))
       ELSE IF attempted.retries < MaxEnsureRetries THEN attempted
       ELSE FoldLeft(abort, settled, SetToSeq(S.pending))

(* _update_handshake_waiters. *)
HandshakeOne(S, r) ==
    LET poll == ReceiverPoll(S, r)
        T    == ReceiverPolled(S, r)
    IN CASE poll = WaitingForInput -> [T EXCEPT !.req[r].waiting_for_input = TRUE]
         [] poll = Failed -> [ReceiverFailure(T, r) EXCEPT !.req[r].aborted = TRUE]
         [] OTHER -> T

UpdateHandshakeWaiters(S) ==
    IF \A r \in Range(S.queue) : S.req[r].waiting_for_input /\ S.req[r].conclude # Failed
    THEN S ELSE FoldLeft(HandshakeOne, S, S.queue)

RemoveFailedStillPending(S) ==
    FoldLeft(LAMBDA T, r : IF ~T.req[r].aborted THEN T
                           ELSE Answer([ClearReceiver(T, r) EXCEPT !.queue = Removed(@, r)], r),
             S, S.queue)

RemoveFailed(S) ==
    FoldLeft(LAMBDA T, r : IF ~T.req[r].aborted THEN T
                           ELSE Answer([ClearReceiver(T, r) EXCEPT
                                          !.queue = Removed(@, r), !.pending = @ \ {r}], r),
             S, S.queue)

(* _allocatable_token_budgets, for requests whose max_new_tokens are at    *)
(* most num_reserved_decode_tokens: the terms about a single running       *)
(* request are then smaller than the reserve.                              *)
Allocatable(S) ==
    PageSize * Cardinality(S.free)
        - ReservedDecodeTokens * (Len(S.transfer) + Cardinality(S.running) + S.published)

(* _pre_alloc and send_metadata: the pages and the buffer the prefill      *)
(* instance will write, and the message that tells it.  The order in which *)
(* the pool gives its pages is the allocator's affair: here it is some     *)
(* fixed one.                                                              *)
Preallocate(S, r) ==
    LET need  == PagesOf(S.req[r].len) - (S.req[r].prefix \div PageSize)
        pages == SubSeq(SetToSeq(S.free), 1, need)
        T     == [TakeBuffer(S, r) EXCEPT !.free = @ \ Range(pages), !.req[r].pages = pages,
                                          !.published = @ + 1]
    IN IF S.req[r].link = "unsent"
       THEN [UpdateStatus(T, r, Failed) EXCEPT !.req[r].conclude = Failed]
       ELSE [T EXCEPT !.req[r].sent = TRUE,
                      !.outbox = Append(@, [type |-> "METADATA", room |-> r,
                                    info |-> [pages |-> pages, buffer |-> T.req[r].buffer,
                                              decode_prefix |-> S.req[r].prefix]])]

(* With the radix cache the need is counted in whole pages. *)
Fits(S, r) ==
    LET new  == S.req[r].len - S.req[r].prefix
        need == IF S.req[r].radix THEN PageSize * PagesOf(new) ELSE new
    IN need + ReservedDecodeTokens <= Allocatable(S)

(* pop_preallocated, one entry: the first that does not fit ends the scan. *)
PreallocOne(A, r) ==
    LET S == A.S IN
    IF A.stop \/ ~S.req[r].waiting_for_input THEN A
    ELSE IF S.free_buffers = <<>> \/ ~Fits(S, r) THEN [A EXCEPT !.stop = TRUE]
    ELSE [A EXCEPT !.S = [Preallocate(S, r) EXCEPT !.queue = Removed(@, r)],
                   !.popped = Append(@, r)]

(* pop_preallocated, and the transfer queue's extend. *)
PopPreallocated(S, reachable) ==
    LET T == RemoveFailed(UpdateHandshakeWaiters(ResolvePending(S, reachable)))
        A == FoldLeft(PreallocOne, [S |-> T, stop |-> FALSE, popped |-> <<>>], T.queue)
    IN [A.S EXCEPT !.transfer = @ \o A.popped,
                   !.published = Max({0, @ - Len(A.popped)})]

-----------------------------------------------------------------------------
(* pop_transferred, one entry.  A transfer that is done is still           *)
(* Transferring until its metadata has landed (_apply_metadata_gate), and  *)
(* metadata of another room aborts the request (_commit_transfer_to_req).  *)
FreeBuffer(S, r) ==
    ReleaseBuffer([S EXCEPT !.landed[S.req[r].buffer] = Nil], r)

Drop(S, r) ==
    FreeBuffer(Answer(ReleasePages([S EXCEPT !.req[r].aborted = TRUE], r), r), r)

TransferredOne(S, r) ==
    LET poll == ReceiverPoll(S, r)
        T    == ReceiverPolled(S, r)
        gone == [T EXCEPT !.transfer = Removed(@, r)]
        room == S.landed[S.req[r].buffer]
    IN CASE poll = Failed -> Drop(ReceiverFailure(gone, r), r)
         [] poll = Success /\ room = r ->
               FreeBuffer([ClearReceiver(gone, r) EXCEPT !.running = @ \union {r}], r)
         [] poll = Success /\ room \notin {r, Nil} -> Drop(ClearReceiver(gone, r), r)
         [] OTHER -> T

PopTransferred(S) == FoldLeft(TransferredOne, S, S.transfer)
===============================================================================
