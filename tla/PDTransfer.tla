------------------------------ MODULE PDTransfer ------------------------------
(***************************************************************************)
(* Prefill/decode disaggregation with the mooncake backend: the scheduler  *)
(* threads of the two instances (PDPrefill, PDDecode) and the threads      *)
(* between them (disaggregation/mooncake/conn.py): the prefill instance's  *)
(* bootstrap_thread and transfer_worker, the decode instance's             *)
(* decode_thread.  A client sends each request to both instances; the      *)
(* decode instance allocates pages and publishes them, the prefill         *)
(* instance writes the KV into them by RDMA, chunk by chunk, then the      *)
(* metadata, and reports the end over zmq.                                 *)
(*                                                                         *)
(* The threads share request_status and transfer_infos without a lock.     *)
(* Single dictionary operations are atomic; a test `room in                *)
(* request_status` or `room in transfer_infos` that a lookup of the room   *)
(* follows is two steps here, and a lookup that no longer finds the room   *)
(* raises and ends its thread.                                             *)
(***************************************************************************)
EXTENDS PDPrefill, PDDecode

CONSTANTS
    Configs,        \* server arguments, prompts and what goes wrong
    MaxFaults       \* bound: transfers that fail

(* overlap: event_loop_overlap_disagg_prefill; max_attempts:               *)
(* optimistic_prefill_attempts; len, prefix: tokens of each prompt, and of *)
(* it in the decode instance's radix cache; buffers: metadata buffers of   *)
(* the decode instance; reqs: the requests, in the order in which each     *)
(* instance receives them; then what may happen to which of them; radix:   *)
(* disaggregation_decode_enable_radix_cache; link: see PDDecode.           *)
Config ==
    [overlap : BOOLEAN, max_attempts : Nat, len : [Request -> Nat \ {0}],
     prefix : [Request -> Nat], buffers : Nat \ {0}, reqs : Seq(Request),
     abort_prefill : SUBSET Request, abort_decode : SUBSET Request,
     timeouts : SUBSET Request, transfer_fails : BOOLEAN, unresolved : BOOLEAN,
     radix : BOOLEAN, link : [Request -> Link]]

ASSUME ConfigsAssumption ==
    /\ Configs \subseteq Config
    /\ MaxFaults \in Nat
    /\ \A c \in Configs : \A r \in Request :
          /\ c.prefix[r] <= c.len[r] /\ c.prefix[r] % PageSize = 0
          /\ ~c.radix => c.prefix[r] = 0

VARIABLES
    config,             \* never changes
    pre, dec,           \* the two instances
    phase,              \* where each scheduler thread is in its loop
    worker,             \* transfer_worker: what it does and its chunk
    bootstrap_thread,   \* the message it is handling, and how far it is
    decode_thread,      \* room whose Success it is handling, "idle" or "dead"
    to_decode,          \* zmq messages to the decode instance
    kv,                 \* per page of the decode pool, whose KV it holds
    metadata_wire,      \* metadata written by RDMA, in order, not visible yet
    session_failed,     \* the decode session is in failed_sessions
    faults

vars == <<config, pre, dec, phase, worker, bootstrap_thread, decode_thread, to_decode,
          kv, metadata_wire, session_failed, faults>>

NoChunk == [pc |-> "idle"]

NoMessage == [pc |-> "idle"]

(* KV of no prompt: what was in a page before, or a torn copy. *)
Junk == <<>>

Init ==
    /\ config \in Configs
    /\ pre = PrefillInit(config)
    /\ dec = DecodeInit(config)
    /\ phase = [prefill |-> "recv", decode |-> "recv"]
    /\ worker = NoChunk
    /\ bootstrap_thread = NoMessage
    /\ decode_thread = "idle"
    /\ to_decode = <<>>
    /\ kv = [p \in Page |-> Junk]
    /\ metadata_wire = <<>>
    /\ session_failed = FALSE
    /\ faults = 0

-----------------------------------------------------------------------------
(* The prefill scheduler's loop: requests and aborts are received, then    *)
(* pop_bootstrapped, the next batch is planned and launched, a result is   *)
(* processed and the inflight queue polled.                                *)
others == <<config, dec, worker, bootstrap_thread, decode_thread, to_decode, kv,
            metadata_wire, session_failed, faults>>

Turn(S, r) ==
    \E i \in DOMAIN config.reqs :
        /\ config.reqs[i] = r /\ ~S.req[r].arrived
        /\ \A j \in 1 .. i - 1 : S.req[config.reqs[j]].arrived

PrefillArrives(r) ==
    /\ phase.prefill = "recv"
    /\ Turn(pre, r)
    /\ pre' = PrefillReceive(pre, r)
    /\ UNCHANGED <<phase, others>>

PrefillAborts(r) ==
    /\ phase.prefill = "recv"
    /\ r \in config.abort_prefill
    /\ pre.req[r].arrived /\ ~pre.req[r].abort_asked
    /\ pre' = PrefillAbort(pre, r)
    /\ UNCHANGED <<phase, others>>

PrefillPop ==
    /\ phase.prefill = "recv"
    /\ pre' = PopBootstrapped(pre, config.max_attempts)
    /\ phase' = [phase EXCEPT !.prefill = "plan"]
    /\ UNCHANGED others

PrefillPlan ==
    /\ phase.prefill = "plan"
    /\ pre' = NextPrefillBatch(pre, config)
    /\ phase' = [phase EXCEPT !.prefill = "result"]
    /\ UNCHANGED others

PrefillResult ==
    /\ phase.prefill = "result"
    /\ LET batch == IF config.overlap THEN pre.last_batch ELSE pre.batch
       IN pre' = [ProcessInflightQueue(ProcessBatchResult(pre, batch, config))
                     EXCEPT !.last_batch = pre.batch, !.batch = <<>>]
    /\ phase' = [phase EXCEPT !.prefill = "recv"]
    /\ UNCHANGED others

(* SGLANG_DISAGGREGATION_BOOTSTRAP_TIMEOUT passes since the sender exists. *)
BootstrapTimeout(r) ==
    /\ r \in config.timeouts \ pre.overdue
    /\ pre.req[r].arrived /\ pre.status[r] = Bootstrapping
    /\ pre' = [pre EXCEPT !.overdue = @ \union {r}]
    /\ UNCHANGED <<phase, others>>

-----------------------------------------------------------------------------
(* bootstrap_thread.  Metadata: the room gets an entry in transfer_infos,  *)
(* the entry is looked up to store the destinations in it, looked up again *)
(* for the prefix length, and the room is ready.  Each lookup fails when   *)
(* the scheduler thread has cleared the room since.                        *)
ReceiveMetadata ==
    /\ bootstrap_thread.pc = "idle"
    /\ dec.outbox # <<>> /\ Head(dec.outbox).type = "METADATA"
    /\ LET msg == Head(dec.outbox) IN
       /\ pre' = [pre EXCEPT !.infos[msg.room] = IF @ = NoInfo THEN EmptyInfo ELSE @]
       /\ bootstrap_thread' = [pc |-> "store", room |-> msg.room, info |-> msg.info]
    /\ dec' = [dec EXCEPT !.outbox = Tail(@)]
    /\ UNCHANGED <<config, phase, worker, decode_thread, to_decode, kv,
                   metadata_wire, session_failed, faults>>

StoreMetadata ==
    /\ bootstrap_thread.pc = "store"
    /\ LET room == bootstrap_thread.room
           gone == pre.infos[room] = NoInfo
       IN /\ bootstrap_thread' = IF gone THEN [pc |-> "dead"]
                                 ELSE [bootstrap_thread EXCEPT !.pc = "look"]
          /\ pre' = IF gone THEN pre ELSE [pre EXCEPT !.infos[room] = bootstrap_thread.info]
    /\ UNCHANGED <<config, phase, dec, worker, decode_thread, to_decode, kv,
                   metadata_wire, session_failed, faults>>

LookAtMetadata ==
    /\ bootstrap_thread.pc = "look"
    /\ bootstrap_thread' = IF pre.infos[bootstrap_thread.room] = NoInfo THEN [pc |-> "dead"]
                           ELSE [bootstrap_thread EXCEPT !.pc = "ready"]
    /\ UNCHANGED <<config, phase, pre, dec, worker, decode_thread, to_decode, kv,
                   metadata_wire, session_failed, faults>>

RoomReady ==
    /\ bootstrap_thread.pc = "ready"
    /\ LET room == bootstrap_thread.room IN
       pre' = UpdateStatus([pre EXCEPT !.prefix_len[room] = bootstrap_thread.info.decode_prefix],
                           room, WaitingForInput)
    /\ bootstrap_thread' = NoMessage
    /\ UNCHANGED <<config, phase, dec, worker, decode_thread, to_decode, kv,
                   metadata_wire, session_failed, faults>>

(* ABORT: the room is looked for, its status checked, and set to Failed. *)
ReceiveAbort ==
    /\ bootstrap_thread.pc = "idle"
    /\ dec.outbox # <<>> /\ Head(dec.outbox).type = "ABORT"
    /\ LET room == Head(dec.outbox).room IN
       bootstrap_thread' = IF pre.status[room] = Absent THEN NoMessage
                           ELSE [pc |-> "abort", room |-> room]
    /\ dec' = [dec EXCEPT !.outbox = Tail(@)]
    /\ UNCHANGED <<config, pre, phase, worker, decode_thread, to_decode, kv,
                   metadata_wire, session_failed, faults>>

CheckAbort ==
    /\ bootstrap_thread.pc = "abort"
    /\ LET status == pre.status[bootstrap_thread.room] IN
       bootstrap_thread' = CASE status = Absent -> [pc |-> "dead"]
                             [] status = Success -> NoMessage
                             [] OTHER -> [bootstrap_thread EXCEPT !.pc = "fail"]
    /\ UNCHANGED <<config, phase, pre, dec, worker, decode_thread, to_decode, kv,
                   metadata_wire, session_failed, faults>>

HandleAbort ==
    /\ bootstrap_thread.pc = "fail"
    /\ pre' = UpdateStatus(pre, bootstrap_thread.room, Failed)
    /\ bootstrap_thread' = NoMessage
    /\ UNCHANGED <<phase, config, dec, worker, decode_thread, to_decode, kv,
                   metadata_wire, session_failed, faults>>

-----------------------------------------------------------------------------
(* transfer_worker.  The chunk is dropped when its room is gone or failed; *)
(* otherwise it is counted, the destinations are read and the RDMA write   *)
(* starts.                                                                 *)
WorkerTakes ==
    /\ worker.pc = "idle"
    /\ pre.transfers # <<>>
    /\ LET c == Head(pre.transfers)
           gone == pre.status[c.room] = Absent
       IN /\ worker' = IF gone THEN NoChunk ELSE [pc |-> "check", chunk |-> c]
          /\ pre' = [pre EXCEPT !.transfers = Tail(@),
                                !.outstanding[c.room] = IF gone THEN 0 ELSE @]
    /\ UNCHANGED <<phase, config, dec, bootstrap_thread, decode_thread, to_decode, kv,
                   metadata_wire, session_failed, faults>>

WorkerChecks ==
    /\ worker.pc = "check"
    /\ LET room == worker.chunk.room
           status == pre.status[room]
       IN /\ worker' = CASE status = Absent -> [pc |-> "dead"]
                         [] status = Failed -> NoChunk
                         [] OTHER -> [pc |-> "look", chunk |-> worker.chunk]
          /\ pre' = CASE status = Absent -> pre
                      [] status = Failed -> [pre EXCEPT !.outstanding[room] = 0]
                      [] OTHER -> [pre EXCEPT !.outstanding[room] = @ + 1]
    /\ UNCHANGED <<phase, config, dec, bootstrap_thread, decode_thread, to_decode, kv,
                   metadata_wire, session_failed, faults>>

(* When transfer_infos was cleared before there is nobody to send to. *)
WorkerLooks ==
    /\ worker.pc = "look"
    /\ worker' = [worker EXCEPT !.pc = IF pre.infos[worker.chunk.room] = NoInfo THEN "done" ELSE "read"]
    /\ UNCHANGED <<phase, config, pre, dec, bootstrap_thread, decode_thread, to_decode, kv,
                   metadata_wire, session_failed, faults>>

WorkerReads ==
    /\ worker.pc = "read"
    /\ LET info == pre.infos[worker.chunk.room] IN
       worker' = CASE info = NoInfo -> [pc |-> "dead"]
                   [] info = EmptyInfo -> [worker EXCEPT !.pc = "done"]
                   [] OTHER -> [pc |-> "write", chunk |-> worker.chunk, info |-> info]
    /\ UNCHANGED <<phase, config, pre, dec, bootstrap_thread, decode_thread, to_decode, kv,
                   metadata_wire, session_failed, faults>>

(* The KV of the chunk's page i is what the prefill pool holds: the        *)
(* prompt's if the forward pass has computed it and the request still owns *)
(* its memory, otherwise perhaps something else.                           *)
Intact(room, i) ==
    /\ pre.req[room].kv
    /\ pre.req[room].computed >= Min({(i + 1) * PageSize, pre.req[room].len})

(* What the decode pool may hold once the chunk's pages in written have    *)
(* been copied to their destinations; a chunk longer than its destinations *)
(* is cut.                                                                 *)
Copies(c, info, written) ==
    LET source(j) == c.first + j - 1
        dest   == {j \in written : c.at + j <= Len(info.pages)}
        target == {info.pages[c.at + j] : j \in dest}
        which(p) == CHOOSE j \in dest : info.pages[c.at + j] = p
    IN {[p \in Page |-> IF p \notin target THEN kv[p]
                        ELSE IF which(p) \in torn THEN Junk ELSE <<c.room, source(which(p))>>] :
           torn \in SUBSET {j \in dest : ~Intact(c.room, source(j))}}

Report(room, status) == Append(to_decode, [room |-> room, status |-> status])

(* The transfer succeeds; the last chunk also writes the metadata buffer,  *)
(* as the prefill instance's own buffer reads now, and reports Success.    *)
WorkerWrites ==
    /\ worker.pc = "write" /\ ~session_failed
    /\ LET c == worker.chunk
           info == worker.info
       IN /\ kv' \in Copies(c, info, 1 .. c.pages)
          /\ IF c.last
             THEN /\ metadata_wire' = Append(metadata_wire,
                        [buffer |-> info.buffer, room |-> pre.metadata[c.buffer]])
                  /\ pre' = UpdateStatus(pre, c.room, Success)
                  /\ to_decode' = Report(c.room, Success)
             ELSE UNCHANGED <<metadata_wire, pre, to_decode>>
    /\ worker' = [pc |-> "done", chunk |-> worker.chunk]
    /\ UNCHANGED <<phase, config, dec, bootstrap_thread, decode_thread, session_failed, faults>>

(* The session has failed before, or the transfer fails after some of the  *)
(* pages, or send_aux does; both ends of the room fail.                    *)
WorkerFails ==
    /\ worker.pc = "write"
    /\ \/ /\ session_failed
          /\ UNCHANGED <<kv, session_failed, faults>>
       \/ /\ ~session_failed /\ config.transfer_fails /\ faults < MaxFaults
          /\ \E written \in SUBSET (1 .. worker.chunk.pages) :
                kv' \in Copies(worker.chunk, worker.info, written)
          /\ session_failed' = TRUE
          /\ faults' = faults + 1
       \/ /\ ~session_failed /\ config.transfer_fails /\ faults < MaxFaults
          /\ worker.chunk.last
          /\ kv' \in Copies(worker.chunk, worker.info, 1 .. worker.chunk.pages)
          /\ faults' = faults + 1
          /\ UNCHANGED session_failed
    /\ LET room == worker.chunk.room IN
       /\ pre' = UpdateStatus(pre, room, Failed)
       /\ to_decode' = Report(room, Failed)
    /\ worker' = [pc |-> "done", chunk |-> worker.chunk]
    /\ UNCHANGED <<phase, config, dec, bootstrap_thread, decode_thread, metadata_wire>>

(* After the chunk: the room is torn down once it has concluded, for which *)
(* its entry of transfer_infos is looked for and then popped.              *)
WorkerCounts ==
    /\ worker.pc = "done"
    /\ LET room == worker.chunk.room
           S    == [pre EXCEPT !.outstanding[room] = @ - 1]
       IN /\ pre' = S
          /\ worker' = CASE S.outstanding[room] > 0 -> NoChunk
                         [] pre.status[room] = Absent -> [worker EXCEPT !.pc = "teardown"]
                         [] OTHER -> [worker EXCEPT !.pc = "conclude"]
    /\ UNCHANGED <<phase, config, dec, bootstrap_thread, decode_thread, to_decode, kv,
                   metadata_wire, session_failed, faults>>

WorkerConcludes ==
    /\ worker.pc = "conclude"
    /\ LET c == worker.chunk
           status == pre.status[c.room]
           concluded == status = Success \/ (c.last /\ status = Failed)
       IN worker' = CASE status = Absent -> [pc |-> "dead"]
                      [] concluded -> [worker EXCEPT !.pc = "teardown"]
                      [] OTHER -> NoChunk
    /\ UNCHANGED <<phase, config, pre, dec, bootstrap_thread, decode_thread, to_decode, kv,
                   metadata_wire, session_failed, faults>>

WorkerTearsDown ==
    /\ worker.pc = "teardown"
    /\ LET room == worker.chunk.room
           S    == [pre EXCEPT !.outstanding[room] = 0]
           gone == pre.infos[room] = NoInfo
       IN /\ pre' = IF gone THEN [S EXCEPT !.prefix_len[room] = 0] ELSE S
          /\ worker' = IF gone THEN NoChunk ELSE [worker EXCEPT !.pc = "pop"]
    /\ UNCHANGED <<phase, config, dec, bootstrap_thread, decode_thread, to_decode, kv,
                   metadata_wire, session_failed, faults>>

WorkerPops ==
    /\ worker.pc = "pop"
    /\ LET room == worker.chunk.room
           gone == pre.infos[room] = NoInfo
       IN /\ pre' = IF gone THEN pre
                    ELSE [pre EXCEPT !.infos[room] = NoInfo, !.prefix_len[room] = 0]
          /\ worker' = IF gone THEN [pc |-> "dead"] ELSE NoChunk
    /\ UNCHANGED <<phase, config, dec, bootstrap_thread, decode_thread, to_decode, kv,
                   metadata_wire, session_failed, faults>>

(* _run_one_probe_pass: the session is alive again. *)
ProbeSucceeds ==
    /\ session_failed
    /\ session_failed' = FALSE
    /\ UNCHANGED <<phase, config, pre, dec, worker, bootstrap_thread, decode_thread, to_decode,
                   kv, metadata_wire, faults>>

-----------------------------------------------------------------------------
(* The decode scheduler's loop, and the time-out of its receivers. *)
elsewhere == <<config, pre, worker, bootstrap_thread, decode_thread, to_decode, kv,
               metadata_wire, session_failed, faults>>

DecodeArrives(r) ==
    /\ phase.decode = "recv"
    /\ Turn(dec, r)
    /\ \E resolved \in {TRUE, ~config.unresolved} :
          dec' = DecodeReceive(dec, r, resolved)
    /\ UNCHANGED <<phase, elsewhere>>

DecodeAborts(r) ==
    /\ phase.decode = "recv"
    /\ r \in config.abort_decode
    /\ r \in Range(dec.queue) \union Range(dec.transfer) \union dec.running
    /\ dec.req[r].conclude # Failed
    /\ dec' = DecodeAbort(dec, r)
    /\ UNCHANGED <<phase, elsewhere>>

DecodeEnds(r) ==
    /\ phase.decode = "recv"
    /\ r \in dec.running
    /\ dec' = DecodeFinish(dec, r)
    /\ UNCHANGED <<phase, elsewhere>>

DecodePrealloc ==
    /\ phase.decode = "recv"
    /\ \E reachable \in BOOLEAN : dec' = PopPreallocated(dec, reachable)
    /\ phase' = [phase EXCEPT !.decode = "transferred"]
    /\ UNCHANGED elsewhere

DecodeTransferred ==
    /\ phase.decode = "transferred"
    /\ dec' = PopTransferred(dec)
    /\ phase' = [phase EXCEPT !.decode = "recv"]
    /\ UNCHANGED elsewhere

(* SGLANG_DISAGGREGATION_WAITING_TIMEOUT passes since send_metadata. *)
WaitingTimeout(r) ==
    /\ r \in config.timeouts \ dec.overdue
    /\ dec.req[r].sent /\ dec.status[r] = WaitingForInput
    /\ dec' = [dec EXCEPT !.overdue = @ \union {r}]
    /\ UNCHANGED <<phase, elsewhere>>

(* decode_thread: a Success is two steps, required_prefill_response_num_   *)
(* table being cleared together with request_status.                       *)
ReceiveStatus ==
    /\ decode_thread = "idle"
    /\ to_decode # <<>>
    /\ LET msg == Head(to_decode) IN
       /\ decode_thread' = IF msg.status = Success /\ dec.status[msg.room] # Absent
                           THEN msg.room ELSE "idle"
       /\ dec' = IF msg.status = Failed THEN UpdateStatus(dec, msg.room, Failed) ELSE dec
    /\ to_decode' = Tail(to_decode)
    /\ UNCHANGED <<phase, config, pre, worker, bootstrap_thread, kv, metadata_wire,
                   session_failed, faults>>

HandleSuccess ==
    /\ decode_thread \notin {"idle", "dead"}
    /\ LET room == decode_thread IN
       /\ decode_thread' = IF dec.status[room] = Absent THEN "dead" ELSE "idle"
       /\ dec' = IF dec.status[room] = Absent THEN dec ELSE UpdateStatus(dec, room, Success)
    /\ UNCHANGED <<phase, config, pre, worker, bootstrap_thread, to_decode, kv, metadata_wire,
                   session_failed, faults>>

(* The metadata that RDMA wrote becomes visible to the decode instance. *)
MetadataLands ==
    /\ metadata_wire # <<>>
    /\ LET m == Head(metadata_wire) IN dec' = [dec EXCEPT !.landed[m.buffer] = m.room]
    /\ metadata_wire' = Tail(metadata_wire)
    /\ UNCHANGED <<phase, config, pre, worker, bootstrap_thread, decode_thread, to_decode, kv,
                   session_failed, faults>>

-----------------------------------------------------------------------------
PrefillLoop == PrefillPop \/ PrefillPlan \/ PrefillResult

DecodeLoop == DecodePrealloc \/ DecodeTransferred

BootstrapThread ==
    \/ ReceiveMetadata \/ StoreMetadata \/ LookAtMetadata \/ RoomReady
    \/ ReceiveAbort \/ CheckAbort \/ HandleAbort

TransferWorker ==
    \/ WorkerTakes \/ WorkerChecks \/ WorkerLooks \/ WorkerReads
    \/ WorkerWrites \/ WorkerFails
    \/ WorkerCounts \/ WorkerConcludes \/ WorkerTearsDown \/ WorkerPops

DecodeThread == ReceiveStatus \/ HandleSuccess

Next ==
    \/ \E r \in Request :
          \/ PrefillArrives(r) \/ PrefillAborts(r) \/ BootstrapTimeout(r)
          \/ DecodeArrives(r) \/ DecodeAborts(r) \/ DecodeEnds(r) \/ WaitingTimeout(r)
    \/ PrefillLoop \/ DecodeLoop
    \/ BootstrapThread \/ TransferWorker \/ DecodeThread
    \/ MetadataLands \/ ProbeSucceeds

Spec == Init /\ [][Next]_vars

(* Every thread keeps running while it is alive, the clocks advance, RDMA  *)
(* writes complete, and a running request ends.  A scheduler's loop never  *)
(* waits, so that weak fairness of it is that it moves on again and again. *)
Fairness ==
    /\ []<><<phase'.prefill # phase.prefill>>_vars
    /\ []<><<phase'.decode # phase.decode>>_vars
    /\ WF_vars(BootstrapThread) /\ WF_vars(TransferWorker) /\ WF_vars(DecodeThread)
    /\ WF_vars(MetadataLands)
    /\ \A r \in Request :
          WF_vars(BootstrapTimeout(r)) /\ WF_vars(WaitingTimeout(r)) /\ SF_vars(DecodeEnds(r))

FairSpec == Spec /\ Fairness

-----------------------------------------------------------------------------
(* The type invariant. *)
TypeOK ==
    /\ \A q \in {pre.bootstrap, pre.waiting, pre.inflight, dec.queue, dec.transfer} :
          q \in Seq(Request) /\ IsInjective(q)
    /\ \A S \in {pre, dec} : S.status \in [Request -> KVPoll \union {Absent}]
    /\ dec.pending \subseteq Range(dec.queue) /\ dec.running \subseteq Request
    /\ dec.free \subseteq Page /\ dec.published = 0
    /\ \A p \in Page : kv[p] = Junk \/ kv[p][1] \in Request
    /\ worker.pc \in {"idle", "check", "look", "read", "write", "done", "conclude",
                     "teardown", "pop", "dead"}
    /\ bootstrap_thread.pc \in {"idle", "store", "look", "ready", "abort", "fail", "dead"}

(* A request decodes only KV of its own prompt: every page it was given    *)
(* holds, from the moment pop_transferred commits it to its end, the page  *)
(* of its prompt that belongs there.  No chunk is sent before its forward  *)
(* pass, to the wrong place or not at all, and no late write of a request  *)
(* that failed lands in pages that were given to another.  (A request      *)
(* aborted on the prefill instance alone is not covered, see the README.)  *)
DecodesOwnKV ==
    \A r \in dec.running : ~pre.req[r].abort_asked =>
        \A i \in DOMAIN dec.req[r].pages :
            kv[dec.req[r].pages[i]] = <<r, (dec.req[r].prefix \div PageSize) + i - 1>>

(* Buffers neither leak nor are given twice: the free metadata buffers of  *)
(* each instance and those its requests hold are all the buffers, once,    *)
(* and so are the pages of the decode pool.                                *)
ExactlyOnce(free, held, all) ==
    /\ IsInjective(free) /\ Range(free) \intersect held = {}
    /\ Range(free) \union held = all

BuffersExact ==
    LET holders(S) == {r \in Request : S.req[r].buffer # Nil}
        held(S)    == {S.req[r].buffer : r \in holders(S)}
        pages(r)   == Range(dec.req[r].pages)
    IN /\ ExactlyOnce(pre.free_buffers, held(pre), 1 .. PrefillBuffers)
       /\ ExactlyOnce(dec.free_buffers, held(dec), 1 .. config.buffers)
       /\ \A S \in {pre, dec} : Cardinality(holders(S)) = Cardinality(held(S))
       /\ dec.free \union UNION {pages(r) : r \in Request} = Page
       /\ \A r \in Request : pages(r) \intersect dec.free = {}
       /\ \A r, q \in Request : r # q => pages(r) \intersect pages(q) = {}

(* Launched on the prefill instance with a result still to be processed. *)
Computing ==
    {b.req : b \in Range(pre.batch)}
        \union (IF config.overlap THEN {b.req : b \in Range(pre.last_batch)} ELSE {})
        \union ({pre.chunked} \ {Nil})

(* No request is lost or answered twice: on each instance a request that   *)
(* has no answer is in exactly one place, and one that has been answered   *)
(* was answered once, is in no queue and holds no memory.                  *)
Places(r, sets) == Cardinality({i \in DOMAIN sets : r \in sets[i]})

RequestsKept ==
    \A r \in Request :
        /\ pre.req[r].arrived =>
             LET n == Places(r, <<Range(pre.bootstrap), Range(pre.waiting),
                                       Range(pre.inflight), Computing>>)
             IN IF pre.req[r].answers = 0 THEN n = 1
                ELSE /\ pre.req[r].answers = 1 /\ ~pre.req[r].kv /\ pre.req[r].buffer = Nil
                     /\ r \notin Range(pre.bootstrap) \union Range(pre.waiting)
                                     \union Range(pre.inflight) \union {pre.chunked}
        /\ dec.req[r].arrived =>
             LET n == Places(r, <<Range(dec.queue), Range(dec.transfer), dec.running>>)
             IN IF dec.req[r].answers = 0 THEN n = 1
                ELSE n = 0 /\ dec.req[r].answers = 1 /\ dec.req[r].pages = <<>>

(* What may happen to a request itself, or to the session of all of them.  *)
Disturbed(r) ==
    \/ r \in config.abort_prefill \union config.abort_decode \union config.timeouts
    \/ config.transfer_fails \/ config.unresolved \/ config.link[r] # "ok"
    \/ config.len[r] > NumPages * PageSize

(* A request that waits for its transfer to end has handed over all of its *)
(* pages, so that the sender marked the last chunk, the one that carries   *)
(* the metadata and ends the transfer; and none was handed over twice.     *)
InflightIsSent ==
    \A r \in Request :
        /\ pre.req[r].sent <= pre.req[r].to_send
        /\ r \in Range(pre.inflight) /\ ~pre.req[r].pending_bootstrap =>
              pre.req[r].sent = pre.req[r].to_send

(* No poll meets the prefill scheduler at a place where the code raises    *)
(* ("Unexpected poll state") or finds no room: a request that is still     *)
(* bootstrapping, in the bootstrap queue, waiting, chunked or parked, has  *)
(* not begun its transfer, and one that waits for its transfer is past its *)
(* bootstrap, whatever the other threads do to its room meanwhile.         *)
PollsExpected ==
    LET parked(r) == pre.req[r].pending_bootstrap
        unsent    == Range(pre.bootstrap) \union
                        {r \in Range(pre.waiting) \union Range(pre.inflight)
                                 \union ({pre.chunked} \ {Nil}) : parked(r)}
    IN /\ \A r \in unsent : PollValue(pre, r) \in {Failed, Bootstrapping, WaitingForInput}
       /\ \A r \in Range(pre.waiting) : PollValue(pre, r) # Absent
       /\ \A r \in Range(pre.inflight) : ~parked(r) =>
             PollValue(pre, r) \in {WaitingForInput, Transferring, Success, Failed}

(* Nobody is left who could end the request on the prefill instance: the   *)
(* worker is dead, and so is the thread that would hear of the decode      *)
(* instance's timeout, or there is no timeout; or the metadata cannot      *)
(* arrive any more and the bootstrap has no timeout.                       *)
Helpless(r) ==
    LET clock == r \in config.timeouts
        deaf  == bootstrap_thread.pc = "dead"
    IN \/ worker.pc = "dead" /\ (deaf \/ ~clock)
       \/ deaf /\ ~clock /\ pre.status[r] = Bootstrapping

(* Again and again nobody waits for an answer in vain.  A request has its  *)
(* answer for good, so that everyone who waits is answered in the end:     *)
(*  - on the decode instance whenever the request's clocks run, whichever  *)
(*    threads have died on the way, over this request or another, its own  *)
(*    decode_thread included: what no message tells it, the waiting        *)
(*    timeout does;                                                        *)
(*  - on the prefill instance as long as somebody can end the request.     *)
(*    The death of one of its threads over one request does not strand     *)
(*    another whose clocks run: the worker ends the transfer, or the       *)
(*    decode instance gives up and bootstrap_thread hears of it, or the    *)
(*    bootstrap times out.  (A request in WaitingForInput has no timeout   *)
(*    of its own on this side: once both threads are dead nothing ends it.)*)
NobodyStranded ==
    []<>(\A r \in Request :
            /\ dec.req[r].arrived /\ r \in config.timeouts => dec.req[r].answers = 1
            /\ pre.req[r].arrived /\ (dec.req[r].arrived \/ r \in config.timeouts) =>
                  pre.req[r].answers = 1 \/ Helpless(r))

(* What happens to one request does not abort another; in particular the   *)
(* room of a freed metadata buffer is reset so that its next owner is not  *)
(* taken for a victim of corruption ("avoiding a false-positive mismatch", *)
(* pop_transferred).                                                       *)
BystandersUnharmed ==
    \A r \in Request : ~Disturbed(r) => ~pre.req[r].aborted /\ ~dec.req[r].aborted

(* unified_memory_disagg_move_gate is open only when no transfer can be in *)
(* flight, so that compaction never moves a page the RDMA engine is        *)
(* reading or writing: while the worker writes, neither instance's gate is *)
(* open.                                                                   *)
MoveGate ==
    worker.pc = "write" =>
        /\ pre.inflight # <<>> \/ pre.pending_chunks # {}
        /\ dec.transfer # <<>> \/ dec.published > 0

(* The gate is shut for the whole transfer of a request that nothing       *)
(* happens to, also between its last chunk leaving chunked_req and the     *)
(* result that puts it in the inflight queue.                              *)
MoveGateUndisturbed == (\A r \in Request : ~Disturbed(r)) => MoveGate
===============================================================================
