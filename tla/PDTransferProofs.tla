--------------------------- MODULE PDTransferProofs ---------------------------
(***************************************************************************)
(* Prefill/decode disaggregation, for any number of requests, any pool,    *)
(* any number of buffers and every set of server arguments: no metadata    *)
(* buffer and no page is lost or given twice, and no request is lost or    *)
(* answered twice on either instance.  First the batches of the prefill    *)
(* instance, then the whole system.                                        *)
(***************************************************************************)
EXTENDS PDInstanceProofs

LEMMA NoEntries == \A r, len : ~WholeIn({}, r, len) /\ ~PartIn({}, r, len)
BY SMTT(60) DEF WholeIn, PartIn

(* process_pending_chunked_abort leaves no chunked request to abort. *)
NoneToAbort(S) == S.chunked # Nil => S.abort_chunked # S.chunked

LEMMA ChunkedAbortLeaves ==
  ASSUME NEW S, NEW c, NEW a, PreInv(S, c, a, {}, "open"), NEW r \in Request, S.chunked = r,
         S.abort_chunked = r
  PROVE  LET T == Answer([ReleaseBuffer(AbortSender(S, r), r) EXCEPT
                             !.pending_chunks = @ \ {r}, !.req[r].pending_bootstrap = FALSE,
                             !.req[r].aborted = TRUE, !.req[r].kv = FALSE,
                             !.chunked = Nil, !.abort_chunked = Nil], r)
         IN  /\ PreInv(T, c, a, {}, "open") /\ NoneToAbort(T)
             /\ T.batch = S.batch /\ T.last_batch = S.last_batch
<1> DEFINE A == AbortSender(S, r)
           R == ReleaseBuffer(A, r)
           I == [R EXCEPT !.pending_chunks = @ \ {r}, !.req[r].pending_bootstrap = FALSE,
                          !.req[r].aborted = TRUE, !.req[r].kv = FALSE]
           J == [I EXCEPT !.chunked = Nil, !.abort_chunked = Nil]
           K == [R EXCEPT !.pending_chunks = @ \ {r}, !.req[r].pending_bootstrap = FALSE,
                          !.req[r].aborted = TRUE, !.req[r].kv = FALSE,
                          !.chunked = Nil, !.abort_chunked = Nil]
           T == Answer(K, r)
<1>0. PreShape(S) /\ Nil \notin Request
  BY PDAssumption DEF PreInv
<1>1. Still(S, A)
  BY <1>0, StillAbortSender
<1> HIDE DEF A
<1>2. /\ PreShape(R) /\ Gave(A, R, r)
      /\ R.bootstrap = A.bootstrap /\ R.waiting = A.waiting /\ R.inflight = A.inflight
      /\ R.chunked = A.chunked /\ R.abort_chunked = A.abort_chunked
      /\ R.batch = A.batch /\ R.last_batch = A.last_batch /\ R.status = A.status
      /\ R.transfers = A.transfers
      /\ R.req[r].arrived = A.req[r].arrived /\ R.req[r].len = A.req[r].len
      /\ R.req[r].kv = A.req[r].kv /\ R.req[r].end = A.req[r].end
      /\ R.req[r].chunks = A.req[r].chunks
      /\ R.req[r].pending_bootstrap = A.req[r].pending_bootstrap
      /\ R.req[r].aborted = A.req[r].aborted /\ R.req[r].conclude = A.req[r].conclude
      /\ R.req[r].answers = A.req[r].answers
      /\ \A q \in Request \ {r} : R.req[q] = A.req[q]
  BY <1>1, StillShape, ReleaseBufferEffect
<1> HIDE DEF R
<1>3. J = K
  BY SMTT(60)
<1>4. /\ PreShape(I)
      /\ I.bootstrap = R.bootstrap /\ I.waiting = R.waiting /\ I.inflight = R.inflight
      /\ I.chunked = R.chunked /\ I.abort_chunked = R.abort_chunked
      /\ I.batch = R.batch /\ I.last_batch = R.last_batch
      /\ I.free_buffers = R.free_buffers /\ I.status = R.status
      /\ I.transfers = R.transfers
      /\ I.req = [R.req EXCEPT ![r] = [R.req[r] EXCEPT !.pending_bootstrap = FALSE,
                                           !.aborted = TRUE, !.kv = FALSE]]
  BY ZenonT(60), <1>2 DEF PreShape, PreFields, PreReqFields
<1> HIDE DEF I
<1>5. /\ I.req[r].pending_bootstrap = FALSE /\ I.req[r].aborted = TRUE /\ I.req[r].kv = FALSE
      /\ I.req[r].arrived = R.req[r].arrived /\ I.req[r].len = R.req[r].len
      /\ I.req[r].end = R.req[r].end /\ I.req[r].chunks = R.req[r].chunks
      /\ I.req[r].buffer = R.req[r].buffer /\ I.req[r].conclude = R.req[r].conclude
      /\ I.req[r].answers = R.req[r].answers
      /\ \A q \in Request \ {r} : I.req[q] = R.req[q]
  BY <1>2, <1>4 DEF PreShape, PreReqFields
<1>6. /\ PreShape(J) /\ J.req = I.req /\ J.chunked = Nil /\ J.abort_chunked = Nil
      /\ J.bootstrap = I.bootstrap /\ J.waiting = I.waiting /\ J.inflight = I.inflight
      /\ J.batch = I.batch /\ J.last_batch = I.last_batch
      /\ J.free_buffers = I.free_buffers /\ J.status = I.status
      /\ J.transfers = I.transfers
  BY ZenonT(60), <1>4 DEF PreShape, PreFields
<1> HIDE DEF J, K
<1>7. PreShape(K)
  BY <1>3, <1>6
<1>8. T.req[r].answers = K.req[r].answers + 1
  BY <1>7, PreAnswerEffect
<1>9. /\ PreShape(T)
      /\ T.bootstrap = K.bootstrap /\ T.waiting = K.waiting /\ T.inflight = K.inflight
      /\ T.chunked = K.chunked /\ T.abort_chunked = K.abort_chunked
      /\ T.batch = K.batch /\ T.last_batch = K.last_batch
      /\ T.free_buffers = K.free_buffers /\ T.status = K.status
      /\ T.transfers = K.transfers
      /\ T.req[r].arrived = K.req[r].arrived /\ T.req[r].len = K.req[r].len
      /\ T.req[r].kv = K.req[r].kv /\ T.req[r].end = K.req[r].end
      /\ T.req[r].chunks = K.req[r].chunks
      /\ T.req[r].pending_bootstrap = K.req[r].pending_bootstrap
      /\ T.req[r].aborted = K.req[r].aborted /\ T.req[r].buffer = K.req[r].buffer
      /\ T.req[r].conclude = K.req[r].conclude
      /\ \A q \in Request \ {r} : T.req[q] = K.req[q]
  BY <1>7, PreAnswerEffect
<1> HIDE DEF T
<1>10. /\ SamePlaces(S, A) /\ (PreTyped(S) => PreTyped(A)) /\ A.free_buffers = S.free_buffers
       /\ \A q \in Request : SamePreReq(S.req[q], A.req[q])
  BY <1>1 DEF Still
<1>11. PreTyped(T)
  BY <1>2, <1>3, <1>4, <1>6, <1>9, <1>10 DEF PreTyped, PreInv
<1>12. /\ T.bootstrap = S.bootstrap /\ T.waiting = S.waiting /\ T.inflight = S.inflight
       /\ T.batch = S.batch /\ T.last_batch = S.last_batch
       /\ T.chunked = Nil /\ T.abort_chunked = Nil
  BY <1>2, <1>3, <1>4, <1>6, <1>9, <1>10 DEF SamePlaces
<1>13. Gave(S, T, r)
  <2>1. T.free_buffers = R.free_buffers /\ T.req[r].buffer = R.req[r].buffer
    BY ZenonT(60), <1>3, <1>4, <1>5, <1>6, <1>9
  <2>2. \A q \in Request \ {r} : T.req[q].buffer = R.req[q].buffer
    BY <1>3, <1>5, <1>6, <1>9
  <2>3. \A q \in Request : A.req[q].buffer = S.req[q].buffer
    BY SMTT(60), <1>10 DEF SamePreReq
  <2> QED
    BY <1>2, <1>10, <2>1, <2>2, <2>3 DEF Gave
<1>14. T.req[r].answers = S.req[r].answers + 1
  BY <1>2, <1>3, <1>5, <1>6, <1>8, <1>10 DEF SamePreReq
<1>15. /\ T.req[r].arrived = S.req[r].arrived /\ T.req[r].len = S.req[r].len
       /\ T.req[r].end = S.req[r].end /\ T.req[r].chunks = S.req[r].chunks
       /\ T.req[r].kv = FALSE /\ T.req[r].pending_bootstrap = FALSE /\ T.req[r].aborted = TRUE
  BY <1>2, <1>3, <1>5, <1>6, <1>9, <1>10 DEF SamePreReq
<1>16. \A q \in Request \ {r} : SamePreReq(S.req[q], T.req[q])
  BY <1>2, <1>3, <1>5, <1>6, <1>9, <1>10
<1>17. PreReqAt(S, c, a, {}, "open", r)
  BY SMTT(60) DEF PreInv
<1>18. r \notin Range(S.bootstrap) /\ r \notin Range(S.waiting) /\ r \notin Range(S.inflight)
  BY <1>17 DEF PreReqAt, PreReqOK
<1>19. /\ Left(S.bootstrap, T.bootstrap, r) /\ Left(S.waiting, T.waiting, r)
       /\ Left(S.inflight, T.inflight, r)
  BY <1>12, <1>18, LeftSame DEF PreInv, PreQueues
<1>20. Leaves(S, T, r)
  BY ZenonT(60), <1>9, <1>11, <1>12, <1>13, <1>14, <1>15, <1>16, <1>19 DEF Leaves
<1>21. PreInv(T, c, a, {}, "open")
  BY <1>20, NoEntries, LeavesKeeps
<1> QED
  BY <1>12, <1>21 DEF NoneToAbort, T, K, R, A

LEMMA ChunkedAbortKeeps ==
  ASSUME NEW S, NEW c, NEW a, PreInv(S, c, a, {}, "open")
  PROVE  LET T == ProcessPendingChunkedAbort(S)
         IN  /\ PreInv(T, c, a, {}, "open") /\ NoneToAbort(T)
             /\ T.batch = S.batch /\ T.last_batch = S.last_batch
<1> DEFINE r == S.abort_chunked
           T == ProcessPendingChunkedAbort(S)
<1>0. r \in Request \union {Nil} /\ PreShape(S) /\ Nil \notin Request
  BY PDAssumption DEF PreInv, PreQueues
<1>1. CASE r = Nil
  BY <1>1 DEF ProcessPendingChunkedAbort, NoneToAbort
<1>2. CASE r # Nil /\ S.chunked # r
  <2> DEFINE v == IF S.req[r].answers > 0 \/ ~S.req[r].kv THEN Nil ELSE S.abort_chunked
  <2>1. T = [S EXCEPT !.abort_chunked = v] /\ v \in {Nil, r}
    BY <1>2 DEF ProcessPendingChunkedAbort
  <2> HIDE DEF v
  <2>2. /\ PreShape(T) /\ T.abort_chunked = v /\ T.req = S.req
        /\ T.bootstrap = S.bootstrap /\ T.waiting = S.waiting
        /\ T.inflight = S.inflight /\ T.chunked = S.chunked /\ T.batch = S.batch
        /\ T.last_batch = S.last_batch /\ T.free_buffers = S.free_buffers
        /\ T.status = S.status /\ T.transfers = S.transfers
    BY <1>0, <2>1 DEF PreShape, PreFields
  <2> HIDE DEF T
  <2>3. r \in Request
    BY <1>0, <1>2
  <2>4. PreTyped(T) /\ PreQueues(T) /\ SameBuffers(S, T)
    BY <1>0, <2>1, <2>2 DEF PreInv, PreTyped, PreQueues, SameBuffers
  <2>5. Elsewhere(S, T, r)
    BY <1>0, <2>1, <2>2 DEF Elsewhere, SamePreReq
  <2>6. FreeBuffers(T, PrefillBuffers)
    BY SMTT(60), <2>4, SameBuffersKeep DEF PreInv
  <2>7. PreReqAt(T, c, a, {}, "open", r)
    <3>1. PreReqAt(S, c, a, {}, "open", r)
      BY <2>3 DEF PreInv
    <3> QED
      BY <1>2, <2>2, <3>1 DEF PreReqAt, PreReqOK
  <2>8. PreInv(T, c, a, {}, "open")
    <3> HIDE DEF r
    <3> QED
      BY <2>2, <2>3, <2>4, <2>5, <2>6, <2>7, OneMoves, EntriesSame
  <2>9. NoneToAbort(T)
    BY <1>2, <2>1, <2>2 DEF NoneToAbort
  <2> QED
    BY <2>2, <2>8, <2>9 DEF T
<1>3. CASE r # Nil /\ S.chunked = r
  <2>1. r \in Request /\ S.chunked = r /\ S.abort_chunked = r
    BY <1>0, <1>3
  <2>2. T = Answer([ReleaseBuffer(AbortSender(S, r), r) EXCEPT
                             !.pending_chunks = @ \ {r}, !.req[r].pending_bootstrap = FALSE,
                             !.req[r].aborted = TRUE, !.req[r].kv = FALSE,
                             !.chunked = Nil, !.abort_chunked = Nil], r)
    BY SMTT(60), <1>3 DEF ProcessPendingChunkedAbort
  <2> HIDE DEF r, T
  <2>3. /\ PreInv(T, c, a, {}, "open") /\ NoneToAbort(T)
        /\ T.batch = S.batch /\ T.last_batch = S.last_batch
    BY ZenonT(60), <2>1, <2>2, ChunkedAbortLeaves
  <2> QED
    BY <2>3 DEF T
<1> QED
  BY <1>1, <1>2, <1>3

(* finalize_bootstrap of a request that stays where it is. *)
LEMMA FinalizeKeeps ==
  ASSUME NEW S, NEW c, NEW a, NEW b, NEW stage, PreInv(S, c, a, b, stage), NEW r \in Request,
         r \in Range(S.waiting) \union Range(S.inflight) \/ S.chunked = r
  PROVE  LET T == FinalizeBootstrap(S, r)
         IN  /\ PreInv(T, c, a, b, stage) /\ SamePlaces(S, T)
             /\ T.req[r].pending_bootstrap = FALSE
<1> DEFINE T == FinalizeBootstrap(S, r)
<1>1. PreReqAt(S, c, a, b, stage, r) /\ PreShape(S)
  BY SMTT(60) DEF PreInv
<1>2. S.req[r].buffer # Nil
  BY <1>1 DEF PreReqAt, PreReqOK
<1>3. BufferAvailable(S, r)
  BY <1>2 DEF BufferAvailable
<1>4. /\ PreShape(T) /\ Held(S, T, r)
      /\ T.bootstrap = S.bootstrap /\ T.waiting = S.waiting /\ T.inflight = S.inflight
      /\ T.chunked = S.chunked /\ T.abort_chunked = S.abort_chunked
      /\ T.batch = S.batch /\ T.last_batch = S.last_batch /\ T.status = S.status
      /\ T.transfers = S.transfers
      /\ T.req[r].pending_bootstrap = FALSE
      /\ T.req[r].arrived = S.req[r].arrived /\ T.req[r].len = S.req[r].len
      /\ T.req[r].kv = S.req[r].kv /\ T.req[r].end = S.req[r].end
      /\ T.req[r].chunks = S.req[r].chunks /\ T.req[r].aborted = S.req[r].aborted
      /\ T.req[r].conclude = S.req[r].conclude /\ T.req[r].answers = S.req[r].answers
      /\ \A q \in Request \ {r} : T.req[q] = S.req[q]
  BY ZenonT(60), <1>1, <1>3, FinalizeEffect
<1> HIDE DEF T
<1>5. FreeBuffers(T, PrefillBuffers) /\ T.req[r].buffer # Nil
  BY <1>4, HeldKeeps DEF PreInv
<1>6. T.req[r].buffer = S.req[r].buffer
  BY <1>2, <1>4 DEF Held, Took, SameBuffers
<1>7. SamePlaces(S, T) /\ PreTyped(T) /\ PreQueues(T) /\ Elsewhere(S, T, r)
  BY <1>4 DEF SamePlaces, PreInv, PreTyped, PreQueues, Elsewhere, SamePreReq
<1>8. PreReqAt(T, c, a, b, stage, r)
  BY ZenonT(60), <1>1, <1>4, <1>6 DEF PreReqAt, PreReqOK
<1>9. PreInv(T, c, a, b, stage)
  BY <1>4, <1>5, <1>7, <1>8, OneMoves, EntriesSame
<1> QED
  BY <1>4, <1>7, <1>9 DEF T

(* resolve_waiting_queue_bootstrap, one entry. *)
LEMMA ResolveOneKeeps ==
  ASSUME NEW S, NEW c, NEW a, NEW b, NEW stage, PreInv(S, c, a, b, stage), NoneToAbort(S),
         NEW r \in Range(S.waiting)
  PROVE  LET T == ResolveOne(S, r)
         IN  /\ PreInv(T, c, a, b, stage) /\ Range(S.waiting) \ {r} \subseteq Range(T.waiting)
             /\ T.batch = S.batch /\ T.last_batch = S.last_batch /\ NoneToAbort(T)
<1> DEFINE U == Polled(S, r)
           G == [U EXCEPT !.waiting = Without(@, r)]
           H == HandleBootstrapFailure(G, r)
           F == FinalizeBootstrap(U, r)
           T == ResolveOne(S, r)
<1>1. r \in Request /\ PreShape(S)
  BY InSomeQueueFacts DEF PreInv, InSomeQueue
<1>2. Still(S, U)
  BY <1>1, StillPolled
<1>3. PreInv(U, c, a, b, stage)
  BY <1>2, PreInvStill
<1>4. T = S \/ T = U \/ T = H \/ T = F
  BY DEF ResolveOne
<1>5. SamePlaces(S, U)
  BY <1>2 DEF Still
<1> HIDE DEF U, T
<1>6. r \in Range(U.waiting) /\ InSomeQueue(U, r)
  BY <1>5 DEF SamePlaces, InSomeQueue
<1>7. Removal(U, G, r)
  BY ZenonT(60), <1>3, <1>6, RemovalEffect
<1> HIDE DEF G
<1>8. CASE T = S
  BY <1>8 DEF T
<1>9. CASE T = U
  BY <1>3, <1>5, <1>9 DEF SamePlaces, T, NoneToAbort
<1>10. CASE T = H
  <2>1. PreInv(H, c, a, b, stage) /\ SamePlaces(G, H)
    BY <1>3, <1>6, <1>7, FailedKeeps
  <2> HIDE DEF H
  <2> QED
    BY <1>5, <1>7, <1>10, <2>1 DEF Removal, SamePlaces, Left, T, NoneToAbort
<1>11. CASE T = F
  <2>1. PreInv(F, c, a, b, stage) /\ SamePlaces(U, F)
    BY ZenonT(60), <1>1, <1>3, <1>6, FinalizeKeeps
  <2> HIDE DEF F
  <2> QED
    BY <1>5, <1>11, <2>1 DEF SamePlaces, T, NoneToAbort
<1> QED
  BY <1>4, <1>8, <1>9, <1>10, <1>11

LEMMA ResolveLoop ==
  ASSUME NEW S, NEW c, NEW a, NEW b, NEW stage, PreInv(S, c, a, b, stage), NoneToAbort(S),
         NEW n \in Nat, NEW q, DOMAIN q = 1..n, IsInjective(q), Ahead(q, 0, n, S.waiting)
  PROVE  LET T == Resolve!Result(S, q)
         IN  /\ PreInv(T, c, a, b, stage)
             /\ T.batch = S.batch /\ T.last_batch = S.last_batch /\ NoneToAbort(T)
<1> DEFINE g == Resolve!States(S, q, n)
<1>2. /\ g[0] = S
      /\ \A k \in 1..n : g[k] = ResolveOne(g[k-1], q[k])
      /\ Resolve!Result(S, q) = g[n]
  BY Resolve!Loop
<1> HIDE DEF g
<1> DEFINE Q == {k \in 0..n : /\ PreInv(g[k], c, a, b, stage) /\ NoneToAbort(g[k])
                              /\ g[k].batch = S.batch /\ g[k].last_batch = S.last_batch
                              /\ Ahead(q, k, n, g[k].waiting)}
<1>3. 0 \in Q
  BY <1>2
<1>4. ASSUME NEW k \in 1..n, k - 1 \in Q PROVE k \in Q
  <2>1. /\ PreInv(g[k-1], c, a, b, stage) /\ Ahead(q, k-1, n, g[k-1].waiting)
        /\ g[k-1].batch = S.batch /\ g[k-1].last_batch = S.last_batch /\ NoneToAbort(g[k-1])
    BY <1>4
  <2>2. q[k] \in Range(g[k-1].waiting)
    BY <2>1, AheadNext
  <2>3. /\ PreInv(g[k], c, a, b, stage) /\ NoneToAbort(g[k])
        /\ g[k].batch = g[k-1].batch /\ g[k].last_batch = g[k-1].last_batch
        /\ Range(g[k-1].waiting) \ {q[k]} \subseteq Range(g[k].waiting)
    BY <1>2, <2>1, <2>2, ResolveOneKeeps
  <2>4. Ahead(q, k, n, g[k].waiting)
    BY <2>1, <2>3, AheadStep
  <2> QED
    BY <2>1, <2>3, <2>4
<1> HIDE DEF Q
<1>5. n \in Q
  <2>1. \A k \in 0..n : k \in Q
    BY ZenonT(60), <1>3, <1>4, Connect!UpTo
  <2> QED
    BY <2>1
<1> QED
  BY <1>2, <1>5 DEF Q

LEMMA ResolveKeeps ==
  ASSUME NEW S, NEW c, NEW a, NEW b, NEW stage, PreInv(S, c, a, b, stage), NoneToAbort(S)
  PROVE  LET T == ResolveWaitingQueueBootstrap(S)
         IN  /\ PreInv(T, c, a, b, stage)
             /\ T.batch = S.batch /\ T.last_batch = S.last_batch /\ NoneToAbort(T)
<1> DEFINE q == S.waiting
<1>1. /\ Len(q) \in Nat /\ DOMAIN q = 1..Len(q) /\ IsInjective(q) /\ Ahead(q, 0, Len(q), q)
  BY AheadStart DEF PreInv, PreQueues
<1>2. LET T == Resolve!Result(S, q)
      IN  /\ PreInv(T, c, a, b, stage)
          /\ T.batch = S.batch /\ T.last_batch = S.last_batch /\ NoneToAbort(T)
  BY <1>1, ResolveLoop
<1>3. ResolveWaitingQueueBootstrap(S) = Resolve!Result(S, q)
  BY DEF ResolveWaitingQueueBootstrap, FoldLeft, MapThenFoldSet, Resolve!Result,
         Resolve!FoldLeft, Resolve!MapThenFoldSet, Resolve!Max, Max
<1> QED
  BY <1>2, <1>3

LEMMA PlanOpens ==
  ASSUME NEW S, NEW c, NEW a, NEW b, PreInv(S, c, a, b, "open")
  PROVE  PreInv(S, c, a, b, "plan")
<1>1. ASSUME NEW r \in Request PROVE PreReqAt(S, c, a, b, "plan", r)
  <2>1. PreReqAt(S, c, a, b, "open", r)
    BY DEF PreInv
  <2> QED
    BY <2>1 DEF PreReqAt, PreReqOK
<1> QED
  BY SMTT(60), <1>1 DEF PreInv

(* The chunked request steps back. *)
Dropped(S) == [S EXCEPT !.chunked = Nil]

LEMMA DroppedEffect ==
  ASSUME NEW S, PreShape(S)
  PROVE  LET T == Dropped(S)
         IN  /\ PreShape(T) /\ T.req = S.req /\ T.chunked = Nil
             /\ T.bootstrap = S.bootstrap /\ T.waiting = S.waiting
             /\ T.inflight = S.inflight /\ T.abort_chunked = S.abort_chunked
             /\ T.batch = S.batch /\ T.last_batch = S.last_batch
             /\ T.free_buffers = S.free_buffers /\ T.status = S.status
             /\ T.transfers = S.transfers
BY SMTT(60) DEF Dropped, PreShape, PreFields

LEMMA ChunkedFacts ==
  ASSUME NEW S, NEW c, NEW a, NEW b, NEW stage, PreInv(S, c, a, b, stage),
         S.chunked # Nil, NEW r, r = S.chunked
  PROVE  /\ r \in Request /\ PreShape(S) /\ PreReqAt(S, c, a, b, stage, r)
         /\ r \notin Range(S.bootstrap) /\ r \notin Range(S.waiting)
         /\ r \notin Range(S.inflight) /\ S.req[r].arrived /\ S.req[r].answers = 0
<1>1. r \in Request /\ PreShape(S)
  BY DEF PreInv, PreQueues
<1>2. PreReqAt(S, c, a, b, stage, r)
  BY <1>1 DEF PreInv
<1> QED
  BY <1>1, <1>2 DEF PreReqAt, PreReqOK

(* Its bootstrap has failed. *)
LEMMA ChunkedFails ==
  ASSUME NEW S, NEW c, NEW a, PreInv(S, c, a, {}, "plan"), S.chunked # Nil,
         NEW r, r = S.chunked, NEW H, H = HandleBootstrapFailure(S, r)
  PROVE  LET T == Dropped(H)
         IN  /\ PreInv(T, c, a, {}, "plan")
             /\ T.batch = S.batch /\ T.last_batch = S.last_batch
             /\ H.req[r].aborted
<1> DEFINE T == Dropped(H)
<1>1. /\ r \in Request /\ PreShape(S)
      /\ r \notin Range(S.bootstrap) /\ r \notin Range(S.waiting) /\ r \notin Range(S.inflight)
  BY ChunkedFacts
<1>2. BootstrapFailed(S, H, r)
  BY <1>1, BootstrapFailureEffect
<1>3. /\ PreShape(T) /\ T.req = H.req /\ T.chunked = Nil
      /\ T.bootstrap = H.bootstrap /\ T.waiting = H.waiting /\ T.inflight = H.inflight
      /\ T.abort_chunked = H.abort_chunked /\ T.batch = H.batch
      /\ T.last_batch = H.last_batch /\ T.free_buffers = H.free_buffers
      /\ T.status = H.status /\ T.transfers = H.transfers
  BY SMTT(60), <1>2, DroppedEffect DEF BootstrapFailed
<1> HIDE DEF T
<1>4. PreTyped(T)
  BY SMTT(60), <1>2, <1>3 DEF BootstrapFailed, PreInv, PreTyped
<1>5. Gave(S, T, r)
  BY SMTT(60), <1>2, <1>3 DEF BootstrapFailed, Gave
<1>6. T.req[r].answers = S.req[r].answers + 1
  BY SMTT(60), <1>2, <1>3 DEF BootstrapFailed
<1>7. /\ Left(S.bootstrap, T.bootstrap, r) /\ Left(S.waiting, T.waiting, r)
      /\ Left(S.inflight, T.inflight, r)
  BY <1>1, <1>2, <1>3, LeftSame DEF PreInv, PreQueues, BootstrapFailed, SamePlaces
<1>8. Leaves(S, T, r)
  BY ZenonT(60), <1>2, <1>3, <1>4, <1>5, <1>6, <1>7 DEF Leaves, BootstrapFailed, SamePlaces
<1>9. PreInv(T, c, a, {}, "plan")
  BY <1>1, <1>8, NoEntries, LeavesKeeps
<1> QED
  BY <1>2, <1>3, <1>9 DEF T, BootstrapFailed, SamePlaces

(* It yields to a request that is not bootstrapping: in the overlapped     *)
(* loop the result of its last chunk brings it back, otherwise it goes     *)
(* back at once.                                                           *)
LEMMA ChunkedYields ==
  ASSUME NEW S, NEW c, NEW a, PreInv(S, c, a, {}, "plan"), S.chunked # Nil,
         NEW r, r = S.chunked, ~S.req[r].aborted, S.req[r].pending_bootstrap, c.overlap
  PROVE  LET T == Dropped(S)
         IN  /\ PreInv(T, c, a, {}, "plan")
             /\ T.batch = S.batch /\ T.last_batch = S.last_batch
<1> DEFINE T == Dropped(S)
<1>1. /\ r \in Request /\ PreShape(S) /\ PreReqAt(S, c, a, {}, "plan", r)
      /\ S.req[r].answers = 0
  BY ChunkedFacts
<1>2. Nil \notin Request
  BY PDAssumption
<1>3. /\ PreShape(T) /\ T.req = S.req /\ T.chunked = Nil
      /\ T.bootstrap = S.bootstrap /\ T.waiting = S.waiting /\ T.inflight = S.inflight
      /\ T.abort_chunked = S.abort_chunked /\ T.batch = S.batch
      /\ T.last_batch = S.last_batch /\ T.free_buffers = S.free_buffers
      /\ T.status = S.status /\ T.transfers = S.transfers
  BY <1>1, DroppedEffect
<1> HIDE DEF T
<1>4. PreTyped(T) /\ PreQueues(T) /\ SameBuffers(S, T) /\ Elsewhere(S, T, r)
  BY <1>2, <1>3 DEF PreInv, PreTyped, PreQueues, SameBuffers, Elsewhere, SamePreReq
<1>5. FreeBuffers(T, PrefillBuffers)
  BY SMTT(60), <1>4, SameBuffersKeep DEF PreInv
<1>6. PreReqAt(T, c, a, {}, "plan", r)
  BY ZenonT(60), <1>1, <1>2, <1>3, NoEntries DEF PreReqAt, PreReqOK
<1>7. PreInv(T, c, a, {}, "plan")
  BY <1>1, <1>3, <1>4, <1>5, <1>6, OneMoves, EntriesSame
<1> QED
  BY <1>3, <1>7 DEF T

LEMMA ChunkedReturns ==
  ASSUME NEW S, NEW c \in Configs, PreInv(S, c, {}, {}, "plan"), S.chunked # Nil,
         NEW r, r = S.chunked, ~S.req[r].aborted, ~c.overlap, NEW max_attempts,
         NEW D, D = Dropped(S)
  PROVE  LET T == ReleaseAndRequeue(D, r, max_attempts)
         IN  /\ PreInv(T, c, {}, {}, "plan")
             /\ T.batch = S.batch /\ T.last_batch = S.last_batch
<1> DEFINE T == ReleaseAndRequeue(D, r, max_attempts)
<1>1. /\ r \in Request /\ PreShape(S) /\ PreReqAt(S, c, {}, {}, "plan", r)
      /\ r \notin Range(S.bootstrap) /\ r \notin Range(S.waiting)
      /\ r \notin Range(S.inflight) /\ S.req[r].arrived /\ S.req[r].answers = 0
  BY ChunkedFacts
<1>2. Nil \notin Request
  BY PDAssumption
<1>3. /\ PreShape(D) /\ D.req = S.req /\ D.chunked = Nil
      /\ D.bootstrap = S.bootstrap /\ D.waiting = S.waiting /\ D.inflight = S.inflight
      /\ D.abort_chunked = S.abort_chunked /\ D.batch = S.batch
      /\ D.last_batch = S.last_batch /\ D.free_buffers = S.free_buffers
      /\ D.status = S.status /\ D.transfers = S.transfers
  BY <1>1, DroppedEffect
<1>4. Requeued(D, T, r)
  BY <1>1, <1>3, RequeueEffect
<1> HIDE DEF T
<1>5. PreShape(T) /\ PreTyped(T)
  BY <1>3, <1>4 DEF Requeued, PreInv, PreTyped
<1>6. \/ Entered(S.bootstrap, T.bootstrap, r) /\ T.waiting = S.waiting
      \/ Entered(S.waiting, T.waiting, r) /\ T.bootstrap = S.bootstrap
  <2>1. /\ Distinct(S.bootstrap, Request) /\ Distinct(S.waiting, Request)
        /\ \/ T.bootstrap = Append(S.bootstrap, r) /\ T.waiting = S.waiting
           \/ T.waiting = AtHead(r, S.waiting) /\ T.bootstrap = S.bootstrap
    BY <1>3, <1>4 DEF Requeued, PreInv, PreQueues
  <2>2. /\ Entered(S.bootstrap, Append(S.bootstrap, r), r)
        /\ Entered(S.waiting, AtHead(r, S.waiting), r)
    BY <1>1, <2>1, EnteredQueue
  <2> QED
    BY ZenonT(60), <2>1, <2>2
<1>7. PreQueues(T)
  BY <1>3, <1>4, <1>6 DEF Requeued, PreInv, PreQueues, Entered
<1>8. FreeBuffers(T, PrefillBuffers)
  <2>1. SameBuffers(S, T)
    BY <1>3, <1>4 DEF Requeued, SameBuffers, SamePreReq
  <2> QED
    BY SMTT(60), <2>1, SameBuffersKeep DEF PreInv
<1>9. Elsewhere(S, T, r)
  BY <1>2, <1>3, <1>4, <1>6 DEF Elsewhere, Requeued, Entered
<1>10. PreReqAt(T, c, {}, {}, "plan", r)
  <2>1. /\ \/ r \in Range(T.bootstrap) /\ r \notin Range(T.waiting)
           \/ r \in Range(T.waiting) /\ r \notin Range(T.bootstrap)
        /\ r \notin Range(T.inflight) /\ T.chunked # r
    BY <1>1, <1>2, <1>3, <1>4, <1>6 DEF Entered, Requeued
  <2>2. /\ T.req[r].kv = FALSE /\ T.req[r].end = 0 /\ T.req[r].pending_bootstrap = TRUE
        /\ T.req[r].arrived = S.req[r].arrived /\ T.req[r].len = S.req[r].len
        /\ T.req[r].chunks = S.req[r].chunks /\ T.req[r].aborted = S.req[r].aborted
        /\ T.req[r].buffer = S.req[r].buffer /\ T.req[r].answers = S.req[r].answers
    BY <1>3, <1>4 DEF Requeued
  <2>3. 0 \in 0 .. c.len[r]
    BY <1>1, ConfigFacts
  <2> QED
    BY ZenonT(60), <1>1, <2>1, <2>2, <2>3, NoEntries DEF PreReqAt, PreReqOK
<1>11. PreInv(T, c, {}, {}, "plan")
  BY <1>1, <1>5, <1>7, <1>8, <1>9, <1>10, OneMoves, EntriesSame
<1> QED
  BY <1>3, <1>4, <1>11 DEF T, Requeued

(* process_prefill_chunk. *)
LEMMA ChunkPlanKeeps ==
  ASSUME NEW S, NEW c \in Configs, NEW a, PreInv(S, c, a, {}, "open"), NoneToAbort(S),
         ~c.overlap => a = {}
  PROVE  LET T == ProcessPrefillChunk(S, c)
         IN  /\ PreInv(T, c, a, {}, "plan")
             /\ T.batch = S.batch /\ T.last_batch = S.last_batch
<1> DEFINE r == S.chunked
           poll == PollValue(S, r)
           pend == S.req[r].pending_bootstrap
           U == Polled(S, r)
           F == FinalizeBootstrap(U, r)
           H == HandleBootstrapFailure(U, r)
           T == ProcessPrefillChunk(S, c)
           m == c.max_attempts
           OK(V) == /\ PreInv(V, c, a, {}, "plan")
                    /\ V.batch = S.batch /\ V.last_batch = S.last_batch
           upto(V) == Min({V.req[r].end, V.req[r].len})
<1>0. PreInv(S, c, a, {}, "plan")
  BY PlanOpens
<1>1. CASE r = Nil
  BY <1>0, <1>1 DEF ProcessPrefillChunk
<1>2. CASE r # Nil
  <2>1. /\ r \in Request /\ PreShape(S) /\ PreReqAt(S, c, a, {}, "plan", r)
        /\ S.req[r].answers = 0 /\ S.req[r].arrived
        /\ r \notin Range(S.bootstrap) /\ r \notin Range(S.waiting)
        /\ r \notin Range(S.inflight)
    <3> HIDE DEF r
    <3>1. r = S.chunked /\ S.chunked # Nil
      BY <1>2 DEF r
    <3> QED
      BY <1>0, <3>1, ChunkedFacts
  <2>2. ~S.req[r].aborted /\ pend \in BOOLEAN
    BY <1>2, <2>1 DEF PreReqAt, PreReqOK, NoneToAbort
  <2>3. Still(S, U)
    BY <2>1, StillPolled
  <2>4. OK(U) /\ U.chunked = r /\ U.req[r].aborted = S.req[r].aborted
        /\ U.req[r].pending_bootstrap = pend /\ PreShape(U)
    <3>1. PreInv(U, c, a, {}, "plan")
      BY <1>0, <2>3, PreInvStill
    <3> QED
      BY <2>1, <2>3, <3>1 DEF Still, SamePlaces, SamePreReq
  <2>5. ASSUME NEW V, OK(V), V.chunked = r
        PROVE  /\ OK([V EXCEPT !.req[r].send_to = upto(V)])
               /\ OK(SendKVChunk(V, r, FALSE, upto(V)))
    <3> DEFINE u == upto(V)
               W == [V EXCEPT !.req[r].send_to = u]
               X == SendKVChunk(V, r, FALSE, u)
    <3> HIDE DEF u
    <3>1. PreShape(V)
      BY <2>5 DEF PreInv
    <3>2. Still(V, W)
      BY ZenonT(60), <2>1, <3>1, StillField
    <3>3. Still(V, X)
      BY ZenonT(60), <2>1, <3>1, StillSendKVChunk
    <3> HIDE DEF W, X
    <3>4. PreInv(W, c, a, {}, "plan") /\ PreInv(X, c, a, {}, "plan")
      BY <2>5, <3>2, <3>3, PreInvStill
    <3>5. OK(W) /\ OK(X)
      BY <2>5, <3>2, <3>3, <3>4 DEF Still, SamePlaces
    <3> QED
      BY ZenonT(60), <3>5 DEF W, X, u
  <2>6. OK(F) /\ F.chunked = r
    <3> HIDE DEF U
    <3>1. PreInv(F, c, a, {}, "plan") /\ SamePlaces(U, F)
      BY ZenonT(60), <2>1, <2>4, FinalizeKeeps
    <3> QED
      BY <2>4, <3>1 DEF SamePlaces
  <2>7. OK(Dropped(H)) /\ H.req[r].aborted
    <3> DEFINE L == Dropped(H)
    <3> HIDE DEF U
    <3>1. PreInv(U, c, a, {}, "plan") /\ U.chunked # Nil /\ r = U.chunked
      BY <1>2, <2>4
    <3> HIDE DEF r, H
    <3>2. H = HandleBootstrapFailure(U, r)
      BY DEF H
    <3>3. /\ PreInv(L, c, a, {}, "plan")
          /\ L.batch = U.batch /\ L.last_batch = U.last_batch
          /\ H.req[r].aborted
      BY <3>1, <3>2, ChunkedFails
    <3> HIDE DEF L
    <3>4. OK(L)
      BY <2>4, <3>3
    <3> QED
      BY <3>3, <3>4 DEF L
  <2>8. ASSUME pend, c.overlap PROVE OK(Dropped(U))
    <3> DEFINE L == Dropped(U)
    <3> HIDE DEF U
    <3>1. /\ PreInv(U, c, a, {}, "plan") /\ U.chunked # Nil /\ r = U.chunked
          /\ ~U.req[r].aborted /\ U.req[r].pending_bootstrap
      BY <1>2, <2>2, <2>4, <2>8
    <3> HIDE DEF r
    <3>2. /\ PreInv(L, c, a, {}, "plan")
          /\ L.batch = U.batch /\ L.last_batch = U.last_batch
      BY <2>8, <3>1, ChunkedYields
    <3> HIDE DEF L
    <3>3. OK(L)
      BY <2>4, <3>2
    <3> QED
      BY <3>3 DEF L
  <2>9. ASSUME ~c.overlap PROVE OK(ReleaseAndRequeue(Dropped(U), r, m))
    <3> DEFINE D == Dropped(U)
               L == ReleaseAndRequeue(D, r, m)
    <3>0. D = Dropped(U) /\ a = {}
      BY <2>9
    <3> HIDE DEF U, D, m
    <3>1. /\ PreInv(U, c, {}, {}, "plan") /\ U.chunked # Nil /\ r = U.chunked
          /\ ~U.req[r].aborted
      BY <1>2, <2>2, <2>4, <3>0
    <3> HIDE DEF r
    <3>2. /\ PreInv(L, c, {}, {}, "plan")
          /\ L.batch = U.batch /\ L.last_batch = U.last_batch
      BY <2>9, <3>0, <3>1, ChunkedReturns
    <3> HIDE DEF L
    <3>3. OK(L)
      BY <2>4, <3>0, <3>2
    <3> QED
      BY <3>3 DEF L, D
  <2>10. \/ T = [S EXCEPT !.req[r].send_to = upto(S)]
         \/ T = SendKVChunk(S, r, FALSE, upto(S))
         \/ T = [F EXCEPT !.req[r].send_to = upto(F)]
         \/ T = SendKVChunk(F, r, FALSE, upto(F))
         \/ T = Dropped(H)
         \/ T = U
         \/ pend /\ c.overlap /\ T = Dropped(U)
         \/ ~c.overlap /\ T = ReleaseAndRequeue(Dropped(U), r, m)
    <3> DEFINE V == IF pend THEN HandlePendingBootstrap(U, r, poll) ELSE S
               ready == ~pend \/ poll = WaitingForInput
               none == Dropped(V)
    <3>1. T = IF ready /\ c.overlap THEN [V EXCEPT !.req[r].send_to = upto(V)]
              ELSE IF ready THEN SendKVChunk(V, r, FALSE, upto(V))
              ELSE IF V.req[r].aborted THEN none
              ELSE IF ~HasBootstrappedWaitingReq(V) THEN V
              ELSE IF c.overlap THEN none
              ELSE ReleaseAndRequeue(none, r, m)
      BY <1>2 DEF ProcessPrefillChunk, Dropped
    <3>2. \/ ready /\ V = S
          \/ ready /\ V = F
          \/ ~ready /\ V = H
          \/ ~ready /\ V = U /\ pend
      BY PollsApart DEF HandlePendingBootstrap
    <3>3. ~U.req[r].aborted
      BY <2>2, <2>4
    <3> HIDE DEF V, T, ready, F, H, U, pend, m, r, upto
    <3> QED
      BY ZenonT(60), <3>1, <3>2, <3>3, <2>7
  <2>11. OK(S) /\ S.chunked = r
    BY <1>0
  <2> HIDE DEF F, H, U, T, pend, m, r, OK, upto
  <2>12. OK(T)
    BY ZenonT(60), <2>4, <2>5, <2>6, <2>7, <2>8, <2>9, <2>10, <2>11
  <2> QED
    BY <2>12 DEF OK, T
<1> QED
  BY <1>1, <1>2

(* The entries of a batch: a request and how far the batch computes it.    *)
Entry == [req : Request, end : Nat]

Once(q) == Distinct(q, Entry) /\ \A x, y \in Range(q) : x.req = y.req => x = y

LEMMA OnceEmpty == Once(<<>>) /\ Range(<<>>) = {}
BY DistinctEmpty DEF Once

LEMMA OnceAppend ==
  ASSUME NEW q, Once(q), NEW x \in Entry, \A y \in Range(q) : y.req # x.req
  PROVE  Once(Append(q, x)) /\ Range(Append(q, x)) = Range(q) \union {x}
<1>1. Distinct(q, Entry) /\ x \notin Range(q)
  BY DEF Once
<1>2. Distinct(Append(q, x), Entry) /\ Range(Append(q, x)) = Range(q) \union {x}
  BY <1>1, DistinctAppend
<1>3. \A y, z \in Range(q) \union {x} : y.req = z.req => y = z
  BY DEF Once
<1> QED
  BY <1>2, <1>3 DEF Once

LEMMA PlanMakes ==
  ASSUME NEW S, NEW c, NEW a, NEW b, PreInv(S, c, a, b, "plan"),
         S.chunked # Nil => PartIn(b, S.chunked, c.len[S.chunked])
  PROVE  PreInv(S, c, a, b, "made")
<1>1. ASSUME NEW r \in Request PROVE PreReqAt(S, c, a, b, "made", r)
  <2>1. PreReqAt(S, c, a, b, "plan", r) /\ Nil \notin Request
    BY PDAssumption DEF PreInv
  <2> QED
    BY <2>1 DEF PreReqAt, PreReqOK
<1> QED
  BY SMTT(60), <1>1 DEF PreInv

(* A request joins the batch with n more tokens of its prompt. *)
Whole(S, r, n) == n = S.req[r].len - S.req[r].end

Joins(S, r, n) ==
    [S EXCEPT !.req[r].kv = TRUE, !.req[r].end = @ + n,
              !.req[r].chunks = IF Whole(S, r, n) THEN @ ELSE @ + 1,
              !.waiting = Without(@, r),
              !.batch = Append(@, [req |-> r, end |-> S.req[r].end + n]),
              !.chunked = IF Whole(S, r, n) THEN Nil ELSE r]

HasJoined(S, T, r, n) ==
    /\ PreShape(T) /\ T.waiting = Without(S.waiting, r)
    /\ T.batch = Append(S.batch, [req |-> r, end |-> S.req[r].end + n])
    /\ T.chunked = IF Whole(S, r, n) THEN Nil ELSE r
    /\ T.bootstrap = S.bootstrap /\ T.inflight = S.inflight
    /\ T.abort_chunked = S.abort_chunked /\ T.last_batch = S.last_batch
    /\ T.free_buffers = S.free_buffers /\ T.status = S.status
    /\ T.transfers = S.transfers
    /\ T.req[r].kv = TRUE /\ T.req[r].end = S.req[r].end + n
    /\ T.req[r].chunks = IF Whole(S, r, n) THEN S.req[r].chunks ELSE S.req[r].chunks + 1
    /\ T.req[r].arrived = S.req[r].arrived /\ T.req[r].len = S.req[r].len
    /\ T.req[r].pending_bootstrap = S.req[r].pending_bootstrap
    /\ T.req[r].aborted = S.req[r].aborted /\ T.req[r].buffer = S.req[r].buffer
    /\ T.req[r].conclude = S.req[r].conclude /\ T.req[r].answers = S.req[r].answers
    /\ \A q \in Request \ {r} : T.req[q] = S.req[q]

LEMMA JoinsEffect ==
  ASSUME NEW S, PreShape(S), NEW r \in Request, NEW n
  PROVE  HasJoined(S, Joins(S, r, n), r, n)
<1> DEFINE e == S.req[r].end + n
           h == IF Whole(S, r, n) THEN S.req[r].chunks ELSE S.req[r].chunks + 1
           w == Without(S.waiting, r)
           x == Append(S.batch, [req |-> r, end |-> S.req[r].end + n])
           y == IF Whole(S, r, n) THEN Nil ELSE r
           U == [S EXCEPT !.req[r].kv = TRUE, !.req[r].end = e, !.req[r].chunks = h]
           T == [U EXCEPT !.waiting = w, !.batch = x, !.chunked = y]
<1>1. Joins(S, r, n) = T
  <2> DEFINE V == [S EXCEPT !.req[r].kv = TRUE, !.req[r].end = @ + n,
                    !.req[r].chunks = IF Whole(S, r, n) THEN @ ELSE @ + 1]
  <2>2. V.waiting = S.waiting /\ V.batch = S.batch
    BY SMTT(60) DEF PreShape, PreFields, PreReqFields
  <2>3. Joins(S, r, n) = [V EXCEPT !.waiting = Without(@, r),
              !.batch = Append(@, [req |-> r, end |-> S.req[r].end + n]),
              !.chunked = IF Whole(S, r, n) THEN Nil ELSE r]
    BY DEF Joins
  <2>4. V = U
    <3>1. V.req = U.req
      BY DEF PreShape, PreReqFields, PreFields
    <3> QED
      BY <3>1 DEF PreShape, PreReqFields, PreFields
  <2> HIDE DEF V, U
  <2> QED
    BY <2>2, <2>3, <2>4
<1> HIDE DEF e, h, w, x, y
<1>2. /\ PreShape(U)
      /\ U.bootstrap = S.bootstrap /\ U.waiting = S.waiting /\ U.inflight = S.inflight
      /\ U.chunked = S.chunked /\ U.abort_chunked = S.abort_chunked
      /\ U.batch = S.batch /\ U.last_batch = S.last_batch
      /\ U.free_buffers = S.free_buffers /\ U.status = S.status
      /\ U.transfers = S.transfers
      /\ U.req = [S.req EXCEPT ![r] = [S.req[r] EXCEPT !.kv = TRUE, !.end = e, !.chunks = h]]
  BY ZenonT(60) DEF PreShape, PreFields, PreReqFields
<1> HIDE DEF U
<1>3. /\ U.req[r].kv = TRUE /\ U.req[r].end = e /\ U.req[r].chunks = h
      /\ U.req[r].arrived = S.req[r].arrived /\ U.req[r].len = S.req[r].len
      /\ U.req[r].pending_bootstrap = S.req[r].pending_bootstrap
      /\ U.req[r].aborted = S.req[r].aborted /\ U.req[r].buffer = S.req[r].buffer
      /\ U.req[r].conclude = S.req[r].conclude /\ U.req[r].answers = S.req[r].answers
      /\ \A q \in Request \ {r} : U.req[q] = S.req[q]
  BY <1>2 DEF PreShape, PreReqFields
<1>4. /\ PreShape(T) /\ T.req = U.req /\ T.waiting = w /\ T.batch = x /\ T.chunked = y
      /\ T.bootstrap = U.bootstrap /\ T.inflight = U.inflight
      /\ T.abort_chunked = U.abort_chunked /\ T.last_batch = U.last_batch
      /\ T.free_buffers = U.free_buffers /\ T.status = U.status
      /\ T.transfers = U.transfers
  BY ZenonT(60), <1>2 DEF PreShape, PreFields
<1> HIDE DEF T
<1> QED
  BY <1>1, <1>2, <1>3, <1>4 DEF e, h, w, x, y, HasJoined

(* The chunked request joins first, then those of the waiting queue. *)
MayJoin(S, r, stage) ==
    \/ stage = "made" /\ r \in Range(S.waiting) /\ S.chunked = Nil
    \/ stage = "plan" /\ S.chunked = r /\ S.batch = <<>>

CanJoin(S, c, a, stage, r, n) ==
    /\ PreInv(S, c, a, Range(S.batch), stage) /\ Once(S.batch) /\ MayJoin(S, r, stage)
    /\ n \in Nat /\ n > 0 /\ n <= S.req[r].len - S.req[r].end

Keeps(S, T, c, a, stage, r, n) ==
    /\ PreInv(T, c, a, Range(T.batch), stage) /\ Once(T.batch)
    /\ T.last_batch = S.last_batch /\ Range(T.waiting) = Range(S.waiting) \ {r}
    /\ Whole(S, r, n) => T.chunked = Nil
    /\ T.chunked # Nil => PartIn(Range(T.batch), T.chunked, c.len[T.chunked])

LEMMA JoinsKeeps ==
  ASSUME NEW S, NEW c \in Configs, NEW a, NEW stage, NEW r \in Request, NEW n,
         CanJoin(S, c, a, stage, r, n)
  PROVE  Keeps(S, Joins(S, r, n), c, a, stage, r, n)
<1> DEFINE T == Joins(S, r, n)
           x == [req |-> r, end |-> S.req[r].end + n]
           b == Range(S.batch)
           d == Range(T.batch)
           len == c.len[r]
<1>0. /\ PreInv(S, c, a, Range(S.batch), stage) /\ Once(S.batch) /\ MayJoin(S, r, stage)
      /\ n \in Nat /\ n > 0 /\ n <= S.req[r].len - S.req[r].end
  BY SMTT(60) DEF CanJoin
<1>1. PreShape(S) /\ PreReqAt(S, c, a, b, stage, r) /\ Nil \notin Request
  BY <1>0, PDAssumption DEF PreInv
<1>16. HasJoined(S, T, r, n)
  BY <1>1, JoinsEffect
<1> HIDE DEF T
<1>2. /\ PreShape(T) /\ T.waiting = Without(S.waiting, r)
      /\ T.batch = Append(S.batch, x)
      /\ T.chunked = IF Whole(S, r, n) THEN Nil ELSE r
      /\ T.bootstrap = S.bootstrap /\ T.inflight = S.inflight
      /\ T.abort_chunked = S.abort_chunked /\ T.last_batch = S.last_batch
      /\ T.free_buffers = S.free_buffers /\ T.status = S.status
      /\ T.transfers = S.transfers
      /\ T.req[r].kv = TRUE /\ T.req[r].end = S.req[r].end + n
      /\ T.req[r].chunks = IF Whole(S, r, n) THEN S.req[r].chunks ELSE S.req[r].chunks + 1
      /\ T.req[r].arrived = S.req[r].arrived /\ T.req[r].len = S.req[r].len
      /\ T.req[r].pending_bootstrap = S.req[r].pending_bootstrap
      /\ T.req[r].aborted = S.req[r].aborted /\ T.req[r].buffer = S.req[r].buffer
      /\ T.req[r].conclude = S.req[r].conclude /\ T.req[r].answers = S.req[r].answers
      /\ \A q \in Request \ {r} : T.req[q] = S.req[q]
  BY <1>0, <1>16 DEF HasJoined
<1>3. /\ S.req[r].len = len /\ len \in Nat /\ S.req[r].end \in 0..len
      /\ x \in Entry /\ x.req = r /\ x.end = S.req[r].end + n
  <2>1. S.req[r].len = len /\ S.req[r].end \in 0..len /\ len \in Nat
    BY <1>0, <1>1, ConfigFacts DEF PreReqAt, PreReqOK
  <2>2. S.req[r].end + n \in Nat
    BY <1>0, <2>1
  <2> QED
    BY <1>0, <2>1, <2>2 DEF Entry
<1>4. Whole(S, r, n) <=> x.end = len
  BY <1>0, <1>3 DEF Whole
<1>5. ~WholeIn(b, r, len) /\ ~PartIn(b, r, len)
  <2>1. CASE r \in Range(S.waiting)
    BY <1>0, <1>1, <2>1 DEF PreReqAt, PreReqOK
  <2>2. CASE S.batch = <<>>
    BY ZenonT(60), <1>0, <2>2, OnceEmpty, NoEntries
  <2> QED
    BY SMTT(60), <1>0, <2>1, <2>2 DEF MayJoin
<1>6. \A y \in b : y.req # x.req
  BY <1>0, <1>3, <1>5 DEF WholeIn, PartIn
<1>7. Once(T.batch) /\ d = b \union {x}
  BY <1>0, <1>2, <1>3, <1>6, OnceAppend
<1> HIDE DEF x, b, d
<1>8. /\ SameEntries(b, d, r, c)
      /\ WholeIn(d, r, len) <=> WholeIn(b, r, len) \/ x.end = len
      /\ PartIn(d, r, len) <=> PartIn(b, r, len) \/ x.end # len
  BY ZenonT(60), <1>0, <1>3, <1>7, EntryAdded
<1>9. Left(S.waiting, T.waiting, r)
  BY <1>0, <1>2, LeftWithout DEF PreInv, PreQueues
<1>10. PreTyped(T) /\ PreQueues(T)
  BY <1>0, <1>2, <1>9 DEF PreInv, PreTyped, PreQueues, Left
<1>11. FreeBuffers(T, PrefillBuffers)
  <2>1. SameBuffers(S, T)
    BY <1>0, <1>2 DEF SameBuffers
  <2> QED
    BY <1>0, <2>1, SameBuffersKeep DEF PreInv
<1>12. Elsewhere(S, T, r)
  BY <1>0, <1>1, <1>2, <1>9 DEF Elsewhere, SamePreReq, Left, MayJoin
<1>13. PreReqAt(T, c, a, d, stage, r)
  <2>1. /\ r \notin Range(T.waiting) /\ r \notin Range(T.inflight)
        /\ r \notin Range(T.bootstrap)
    BY <1>0, <1>1, <1>2, <1>9 DEF Left, MayJoin, PreReqAt, PreReqOK
  <2>2. T.req[r].end \in 0..len /\ (Whole(S, r, n) => T.req[r].end = len)
        /\ (~Whole(S, r, n) => T.req[r].end < len)
    BY SMTT(60), <1>0, <1>2, <1>3 DEF Whole
  <2>3. S.req[r].arrived /\ S.req[r].answers = 0 /\ S.req[r].buffer # Nil
    BY <1>0, <1>1 DEF MayJoin, PreReqAt, PreReqOK
  <2>4. ~WholeIn(a, r, len)
    BY SMTT(60), <1>0, <1>1 DEF MayJoin, PreReqAt, PreReqOK
  <2>5. /\ T.req[r].len = len
        /\ T.req[r].arrived \in BOOLEAN /\ T.req[r].kv \in BOOLEAN
        /\ T.req[r].aborted \in BOOLEAN /\ T.req[r].pending_bootstrap \in BOOLEAN
        /\ T.req[r].arrived /\ T.req[r].answers = 0 /\ T.req[r].buffer # Nil
    BY ZenonT(60), <1>0, <1>1, <1>2, <1>3, <2>3 DEF PreReqAt, PreReqOK
  <2>6. CASE Whole(S, r, n)
    <3>1. /\ WholeIn(d, r, len) /\ ~PartIn(d, r, len) /\ T.chunked # r
          /\ T.req[r].chunks = S.req[r].chunks
      BY <1>0, <1>1, <1>2, <1>4, <1>5, <1>8, <2>6
    <3>2. /\ ~PartIn(a, r, len) => S.req[r].chunks = 0
          /\ PartIn(a, r, len) => S.req[r].chunks = 1
      BY <1>0, <1>1, <1>5 DEF PreReqAt, PreReqOK
    <3> QED
      BY <1>0, <2>1, <2>2, <2>4, <2>5, <2>6, <3>1, <3>2 DEF PreReqAt, PreReqOK
  <2>7. CASE ~Whole(S, r, n)
    <3>1. /\ ~WholeIn(d, r, len) /\ PartIn(d, r, len) /\ T.chunked = r
          /\ T.req[r].chunks = S.req[r].chunks + 1
      BY <1>0, <1>1, <1>2, <1>4, <1>5, <1>8, <2>7
    <3>2. /\ ~PartIn(a, r, len) => S.req[r].chunks = 0
          /\ PartIn(a, r, len) => S.req[r].chunks = 1
      BY <1>0, <1>1, <1>5 DEF PreReqAt, PreReqOK
    <3>3. /\ ~PartIn(a, r, len) => T.req[r].chunks = 1
          /\ PartIn(a, r, len) => T.req[r].chunks = 2
      BY <1>0, <3>1, <3>2
    <3>4. c.overlap /\ stage # "made" => PartIn(a, r, len)
      BY SMTT(60), <1>0, <1>1 DEF PreReqAt, PreReqOK, MayJoin
    <3>5. T.req[r].aborted => S.chunked = r /\ S.abort_chunked = r /\ T.abort_chunked = r
      BY <1>0, <1>1, <1>2, <1>5, <2>3, <2>4 DEF PreReqAt, PreReqOK, MayJoin
    <3> QED
      BY <1>0, <2>1, <2>2, <2>4, <2>5, <2>7, <3>1, <3>3, <3>4, <3>5 DEF PreReqAt, PreReqOK
  <2> QED
    BY <1>0, <2>6, <2>7
<1>14. PreInv(T, c, a, d, stage)
  <2>1. PreInv(S, c, a, b, stage)
    BY <1>0 DEF b
  <2> QED
    BY <1>0, <1>2, <1>8, <1>10, <1>11, <1>12, <1>13, <2>1, OneMoves, EntriesSame
<1>15. T.chunked # Nil => PartIn(d, T.chunked, c.len[T.chunked])
  BY <1>0, <1>2, <1>4, <1>8
<1> QED
  BY <1>0, <1>2, <1>7, <1>9, <1>14, <1>15 DEF T, d, Left, Keeps

(* How many tokens the budget leaves to a request. *)
Share(left, budget) == IF left <= budget THEN left ELSE (budget \div PageSize) * PageSize

LEMMA ShareBounds ==
  ASSUME NEW left \in Nat, NEW budget \in Nat
  PROVE  /\ Share(left, budget) \in Nat /\ Share(left, budget) <= left
         /\ budget - Share(left, budget) \in Nat
         /\ left > 0 /\ budget >= PageSize => Share(left, budget) > 0
<1> DEFINE k == budget \div PageSize
           o == budget % PageSize
           m == k * PageSize
<1>1. /\ k \in Nat /\ o \in 0..(PageSize - 1) /\ budget = PageSize * k + o
      /\ PageSize \in Nat /\ PageSize > 0
  BY Quotient, Sizes
<1>2. m = PageSize * k /\ m \in Nat
  BY <1>1
<1>3. Share(left, budget) = IF left <= budget THEN left ELSE m
  BY DEF Share
<1> HIDE DEF k, o
<1>4. m <= budget
  <2> HIDE DEF m
  <2> QED
    BY <1>1, <1>2
<1>5. budget >= PageSize => m > 0
  <2>1. budget >= PageSize => k # 0
    BY <1>1
  <2>2. k # 0 => PageSize * k > 0
    BY <1>1
  <2> QED
    BY <1>2, <2>1, <2>2
<1> HIDE DEF m
<1> QED
  BY <1>2, <1>3, <1>4, <1>5

(* get_new_batch_prefill, while it goes through the queue. *)
Filling(A, c, a, last) ==
    /\ DOMAIN A = {"budget", "stop", "S"} /\ A.budget \in Nat /\ A.stop \in BOOLEAN
    /\ PreInv(A.S, c, a, Range(A.S.batch), "made") /\ Once(A.S.batch)
    /\ A.S.last_batch = last
    /\ ~A.stop => A.S.chunked = Nil

LEMMA AddToBatchCases ==
  ASSUME NEW A, NEW r, NEW n, n = Share(A.S.req[r].len - A.S.req[r].end, A.budget)
  PROVE  AddToBatch(A, r) =
            IF n = 0 \/ A.stop THEN [A EXCEPT !.stop = TRUE]
            ELSE [budget |-> A.budget - n, stop |-> ~Whole(A.S, r, n), S |-> Joins(A.S, r, n)]
BY DEF AddToBatch, Share, Whole, Joins

LEMMA LeftToCompute ==
  ASSUME NEW S, NEW c \in Configs, NEW a, NEW b, NEW stage, PreInv(S, c, a, b, stage),
         NEW r \in Request
  PROVE  /\ S.req[r].len - S.req[r].end \in Nat
         /\ r \in Range(S.waiting) \/ S.chunked = r => S.req[r].len - S.req[r].end > 0
<1>1. PreReqAt(S, c, a, b, stage, r) /\ c.len[r] \in Nat \ {0}
  BY ConfigFacts DEF PreInv
<1>2. S.req[r].len = c.len[r] /\ S.req[r].end \in 0 .. c.len[r]
  BY <1>1 DEF PreReqAt, PreReqOK
<1>3. r \in Range(S.waiting) \/ S.chunked = r => S.req[r].end < c.len[r]
  BY <1>1 DEF PreReqAt, PreReqOK
<1> QED
  BY <1>1, <1>2, <1>3

LEMMA AddToBatchKeeps ==
  ASSUME NEW A, NEW c \in Configs, NEW a, NEW last, Filling(A, c, a, last),
         NEW r, r \in Range(A.S.waiting)
  PROVE  LET B == AddToBatch(A, r)
         IN  /\ Filling(B, c, a, last)
             /\ Range(A.S.waiting) \ {r} \subseteq Range(B.S.waiting)
<1> DEFINE B == AddToBatch(A, r)
           S == A.S
           left == S.req[r].len - S.req[r].end
           n == Share(left, A.budget)
           J == Joins(S, r, n)
           w == Whole(S, r, n)
<1>1. PreInv(S, c, a, Range(S.batch), "made") /\ Once(S.batch) /\ A.budget \in Nat
  BY DEF Filling
<1>2. r \in Request
  BY <1>1, DistinctRange DEF PreInv, PreQueues
<1>3. B = IF n = 0 \/ A.stop THEN [A EXCEPT !.stop = TRUE]
          ELSE [budget |-> A.budget - n, stop |-> ~w, S |-> J]
  BY AddToBatchCases
<1> HIDE DEF B, S
<1>4. left \in Nat
  BY ZenonT(60), <1>1, <1>2, LeftToCompute
<1>5. n \in Nat /\ n <= left /\ A.budget - n \in Nat
  <2> HIDE DEF left
  <2> QED
    BY ZenonT(60), <1>1, <1>4, ShareBounds
<1> HIDE DEF n
<1>6. CASE n = 0 \/ A.stop
  <2>1. B = [A EXCEPT !.stop = TRUE]
    BY <1>3, <1>6
  <2>2. /\ DOMAIN B = {"budget", "stop", "S"} /\ B.budget = A.budget /\ B.S = A.S
        /\ B.stop = TRUE
    BY <2>1 DEF Filling
  <2>3. Filling(B, c, a, last)
    BY ZenonT(60), <2>2 DEF Filling
  <2> QED
    BY <2>2, <2>3 DEF B, S
<1>7. CASE ~(n = 0 \/ A.stop)
  <2>1. S.chunked = Nil /\ n > 0
    BY <1>5, <1>7 DEF Filling, S
  <2>2. MayJoin(S, r, "made")
    BY <2>1 DEF MayJoin, S
  <2>3. n <= S.req[r].len - S.req[r].end
    BY <1>5
  <2>10. CanJoin(S, c, a, "made", r, n)
    BY <1>1, <1>5, <2>1, <2>2, <2>3 DEF CanJoin
  <2>11. Keeps(S, J, c, a, "made", r, n)
    BY <1>2, <2>10, JoinsKeeps
  <2>4. /\ PreInv(J, c, a, Range(J.batch), "made") /\ Once(J.batch)
        /\ J.last_batch = S.last_batch /\ Range(J.waiting) = Range(S.waiting) \ {r}
        /\ w => J.chunked = Nil
    BY <2>11 DEF Keeps
  <2> HIDE DEF J, w
  <2>5. B = [budget |-> A.budget - n, stop |-> ~w, S |-> J]
    BY <1>3, <1>7
  <2>6. /\ DOMAIN B = {"budget", "stop", "S"} /\ B.budget = A.budget - n /\ B.S = J
    BY <2>5
  <2>7. B.stop \in BOOLEAN /\ (~B.stop => w)
    BY <2>5, ZenonT(60)
  <2>8. B.budget \in Nat
    BY <1>5, <2>6
  <2>9. Filling(B, c, a, last)
    BY <2>4, <2>6, <2>7, <2>8 DEF Filling, S
  <2> QED
    BY <2>4, <2>6, <2>9 DEF B, S
<1> QED
  BY <1>6, <1>7

(* The chunked request is the first, and the budget is enough for a page   *)
(* of it.                                                                  *)
LEMMA AddChunkedKeeps ==
  ASSUME NEW A, NEW c \in Configs, NEW a, NEW r, NEW S,
         DOMAIN A = {"budget", "stop", "S"}, A.budget = ChunkedPrefillSize, A.stop = FALSE,
         A.S = S, PreInv(S, c, a, {}, "plan"), S.batch = <<>>, S.chunked = r, r # Nil
  PROVE  LET B == AddToBatch(A, r)
         IN  /\ Filling(B, c, a, S.last_batch)
             /\ Range(S.waiting) \subseteq Range(B.S.waiting)
<1> DEFINE B == AddToBatch(A, r)
           left == S.req[r].len - S.req[r].end
           budget == ChunkedPrefillSize
           n == Share(left, budget)
           J == Joins(S, r, n)
           w == Whole(S, r, n)
<1>1. /\ PreInv(S, c, a, Range(S.batch), "plan") /\ Once(S.batch)
  BY OnceEmpty
<1>2. r \in Request /\ r \notin Range(S.waiting)
  BY ChunkedFacts
<1>3. B = IF n = 0 \/ A.stop THEN [A EXCEPT !.stop = TRUE]
          ELSE [budget |-> budget - n, stop |-> ~w, S |-> J]
  BY AddToBatchCases
<1> HIDE DEF B
<1>4. left \in Nat /\ left > 0
  BY ZenonT(60), <1>1, <1>2, LeftToCompute
<1>5. n \in Nat /\ n <= left /\ budget - n \in Nat /\ n > 0
  <2>1. budget \in Nat /\ budget >= PageSize
    BY Sizes
  <2> HIDE DEF left, budget
  <2> QED
    BY <1>4, <2>1, ShareBounds
<1> HIDE DEF n
<1>6. MayJoin(S, r, "plan")
  BY DEF MayJoin
<1>7. n <= S.req[r].len - S.req[r].end
  BY <1>5
<1>8. /\ PreInv(J, c, a, Range(J.batch), "plan") /\ Once(J.batch)
      /\ J.last_batch = S.last_batch /\ Range(J.waiting) = Range(S.waiting) \ {r}
      /\ w => J.chunked = Nil
      /\ J.chunked # Nil => PartIn(Range(J.batch), J.chunked, c.len[J.chunked])
  <2>1. CanJoin(S, c, a, "plan", r, n)
    BY <1>1, <1>5, <1>6, <1>7 DEF CanJoin
  <2>2. Keeps(S, J, c, a, "plan", r, n)
    BY <1>2, <2>1, JoinsKeeps
  <2> QED
    BY <2>2 DEF Keeps
<1> HIDE DEF J, w
<1>9. PreInv(J, c, a, Range(J.batch), "made")
  BY <1>8, PlanMakes
<1>10. n # 0 /\ ~A.stop
  BY <1>5
<1>11. B = [budget |-> budget - n, stop |-> ~w, S |-> J]
  BY <1>3, <1>10
<1>12. /\ DOMAIN B = {"budget", "stop", "S"} /\ B.budget = budget - n /\ B.S = J
  BY <1>11
<1>13. B.stop \in BOOLEAN /\ (~B.stop => w)
  BY <1>11, ZenonT(60)
<1>14. B.budget \in Nat
  BY <1>5, <1>12
<1>15. Filling(B, c, a, S.last_batch)
  BY <1>8, <1>9, <1>12, <1>13, <1>14 DEF Filling
<1> QED
  BY <1>2, <1>8, <1>12, <1>15 DEF B

(* The queue that is gone through: a chunked request, then those waiting. *)
LEMMA BatchLoop ==
  ASSUME NEW A, NEW c \in Configs, NEW a, NEW last, NEW S, S = A.S,
         NEW n \in Nat, NEW q, DOMAIN q = 1..n, IsInjective(q),
         \/ Filling(A, c, a, last) /\ Ahead(q, 0, n, S.waiting)
         \/ /\ n > 0 /\ Filling(AddToBatch(A, q[1]), c, a, last)
            /\ Ahead(q, 1, n, AddToBatch(A, q[1]).S.waiting)
  PROVE  LET B == Batch!Result(A, q) IN Filling(B, c, a, last)
<1> DEFINE g == Batch!States(A, q, n)
<1>2. /\ g[0] = A
      /\ \A k \in 1..n : g[k] = AddToBatch(g[k-1], q[k])
      /\ Batch!Result(A, q) = g[n]
  BY Batch!Loop
<1> HIDE DEF g
<1> DEFINE later == n > 0 /\ Filling(AddToBatch(A, q[1]), c, a, last)
                    /\ Ahead(q, 1, n, AddToBatch(A, q[1]).S.waiting)
           Q == {k \in 0..n : \/ k = 0 /\ later
                              \/ Filling(g[k], c, a, last) /\ Ahead(q, k, n, g[k].S.waiting)}
<1>3. 0 \in Q
  BY <1>2
<1>4. ASSUME NEW k \in 1..n, k - 1 \in Q PROVE k \in Q
  <2>1. CASE k = 1 /\ later
    <3>1. g[1] = AddToBatch(A, q[1])
      BY <1>2, <2>1
    <3> QED
      BY <2>1, <3>1
  <2>2. CASE Filling(g[k-1], c, a, last) /\ Ahead(q, k-1, n, g[k-1].S.waiting)
    <3>1. q[k] \in Range(g[k-1].S.waiting)
      BY <2>2, AheadNext
    <3>2. /\ Filling(g[k], c, a, last)
          /\ Range(g[k-1].S.waiting) \ {q[k]} \subseteq Range(g[k].S.waiting)
      BY ZenonT(60), <1>2, <2>2, <3>1, AddToBatchKeeps
    <3>3. Ahead(q, k, n, g[k].S.waiting)
      BY SMTT(60), <2>2, <3>2, AheadStep
    <3> QED
      BY <3>2, <3>3
  <2>3. k - 1 = 0 => k = 1
    OBVIOUS
  <2>4. \/ k - 1 = 0 /\ later
        \/ Filling(g[k-1], c, a, last) /\ Ahead(q, k-1, n, g[k-1].S.waiting)
    BY <1>4
  <2> HIDE DEF Q, later
  <2> QED
    BY <2>1, <2>2, <2>3, <2>4
<1> HIDE DEF Q
<1>5. n \in Q
  <2>1. \A k \in 0..n : k \in Q
    BY ZenonT(60), <1>3, <1>4, Connect!UpTo
  <2> QED
    BY <2>1
<1> USE DEF Q
<1>6. CASE n = 0 /\ later
  BY <1>6
<1>7. CASE Filling(g[n], c, a, last)
  BY <1>2, <1>7
<1> QED
  BY <1>5, <1>6, <1>7

EmptyBatch(S) == [S EXCEPT !.batch = <<>>]

(* get_new_batch_prefill. *)
LEMMA NewBatchKeeps ==
  ASSUME NEW S, NEW c \in Configs, NEW a, PreInv(S, c, a, {}, "plan")
  PROVE  LET T == GetNewBatchPrefill(S)
         IN  /\ PreInv(T, c, a, Range(T.batch), "made") /\ Once(T.batch)
             /\ T.last_batch = S.last_batch
<1> DEFINE E == EmptyBatch(S)
           A == [budget |-> ChunkedPrefillSize, stop |-> FALSE, S |-> E]
           r == S.chunked
           q == IF r = Nil THEN S.waiting ELSE <<r>> \o S.waiting
<1>1. PreShape(S) /\ Distinct(S.waiting, Request) /\ S.waiting \in Seq(Request)
  BY DEF PreInv, PreQueues, Distinct
<1>2. /\ PreShape(E) /\ E.req = S.req /\ E.batch = <<>>
      /\ E.bootstrap = S.bootstrap /\ E.waiting = S.waiting /\ E.inflight = S.inflight
      /\ E.chunked = S.chunked /\ E.abort_chunked = S.abort_chunked
      /\ E.last_batch = S.last_batch /\ E.free_buffers = S.free_buffers
      /\ E.status = S.status /\ E.transfers = S.transfers
  BY <1>1 DEF PreShape, PreFields, EmptyBatch
<1>3. GetNewBatchPrefill(S) = Batch!Result(A, q).S
  <2> DEFINE chunk == IF r = Nil THEN <<>> ELSE <<r>>
  <2>1. chunk \o S.waiting = q
    <3>1. <<>> \o S.waiting = S.waiting
      BY <1>1
    <3> QED
      BY ZenonT(60), <3>1
  <2>2. GetNewBatchPrefill(S) = FoldLeft(AddToBatch, A, chunk \o S.waiting).S
    BY DEF GetNewBatchPrefill, EmptyBatch
  <2> HIDE DEF q, A, chunk
  <2> QED
    BY <2>1, <2>2 DEF FoldLeft, MapThenFoldSet, Batch!Result,
         Batch!FoldLeft, Batch!MapThenFoldSet, Batch!Max, Max
<1>4. /\ DOMAIN A = {"budget", "stop", "S"} /\ A.budget = ChunkedPrefillSize
      /\ A.stop = FALSE /\ A.S = E
  OBVIOUS
<1> HIDE DEF E, A
<1>5. PreInv(E, c, a, {}, "plan")
  <2>1. PreTyped(E) /\ PreQueues(E) /\ SameBuffers(S, E)
    BY <1>2 DEF PreInv, PreTyped, PreQueues, SameBuffers
  <2>2. FreeBuffers(E, PrefillBuffers)
    BY <2>1, SameBuffersKeep DEF PreInv
  <2>3. ASSUME NEW x \in Request PROVE PreReqAt(E, c, a, {}, "plan", x)
    <3>1. PreReqAt(S, c, a, {}, "plan", x)
      BY DEF PreInv
    <3> QED
      BY <1>2, <3>1 DEF PreReqAt
  <2> QED
    BY <1>2, <2>1, <2>2, <2>3 DEF PreInv
<1>6. /\ Distinct(q, Request)
      /\ r # Nil => Range(q) = Range(S.waiting) \union {r}
  <2>1. CASE r = Nil
    BY <1>1, <2>1
  <2>2. CASE r # Nil
    <3>1. r \in Request /\ r \notin Range(S.waiting)
      BY <2>2, ChunkedFacts
    <3> QED
      BY <1>1, <2>2, <3>1, DistinctCons
  <2> QED
    BY <2>1, <2>2
<1>7. /\ Distinct(q, Request) /\ Len(q) \in Nat /\ DOMAIN q = 1..Len(q) /\ IsInjective(q)
      /\ Ahead(q, 0, Len(q), q)
  <2> HIDE DEF q, r
  <2> QED
    BY <1>6, AheadStart
<1> DEFINE n == Len(q)
<1>8. LET B == Batch!Result(A, q) IN Filling(B, c, a, S.last_batch)
  <2>1. CASE r = Nil
    <3>1. PreInv(E, c, a, {}, "made")
      BY <1>2, <1>5, <2>1, PlanMakes
    <3>2. Filling(A, c, a, S.last_batch)
      BY ZenonT(60), <1>2, <1>4, <2>1, <3>1, OnceEmpty, Sizes DEF Filling
    <3>3. Ahead(q, 0, n, E.waiting)
      BY <1>2, <1>7, <2>1
    <3> HIDE DEF q
    <3> QED
      BY <1>4, <1>7, <3>2, <3>3, BatchLoop
  <2>2. CASE r # Nil
    <3> DEFINE F == AddToBatch(A, r)
    <3>1. E.chunked = r /\ E.last_batch = S.last_batch /\ E.waiting = S.waiting
      BY <1>2
    <3>2. n > 0 /\ q[1] = r
      BY <1>1, <2>2
    <3>6. Range(q) = Range(S.waiting) \union {r}
      BY <1>6, <2>2
    <3> HIDE DEF q
    <3>3. Filling(F, c, a, S.last_batch) /\ Range(S.waiting) \subseteq Range(F.S.waiting)
      <4> HIDE DEF r
      <4> QED
        BY ZenonT(60), <1>2, <1>4, <1>5, <2>2, <3>1, AddChunkedKeeps
    <3> HIDE DEF F
    <3>4. ASSUME NEW m \in (1 + 1)..n PROVE q[m] \in Range(F.S.waiting)
      <4>1. m \in DOMAIN q /\ 1 \in DOMAIN q /\ m # 1
        BY <1>7, <3>2
      <4>2. q[m] # q[1]
        BY <1>7, <4>1 DEF IsInjective
      <4>3. q[m] \in Range(q)
        BY <4>1 DEF Range
      <4> QED
        BY <3>2, <3>3, <3>6, <4>2, <4>3
    <3>5. Ahead(q, 1, n, F.S.waiting)
      BY <3>4 DEF Ahead
    <3> HIDE DEF r
    <3>7. F = AddToBatch(A, q[1])
      BY <3>2 DEF F
    <3> QED
      BY ZenonT(60), <1>4, <1>7, <3>2, <3>3, <3>5, <3>7, BatchLoop
  <2> QED
    BY <2>1, <2>2
<1> HIDE DEF q
<1> QED
  BY <1>3, <1>8 DEF Filling

(* get_next_disagg_prefill_batch_to_run. *)
LEMMA NextBatchKeeps ==
  ASSUME NEW S, NEW c \in Configs, NEW a, PreInv(S, c, a, {}, "open"), ~c.overlap => a = {}
  PROVE  LET T == NextPrefillBatch(S, c)
         IN  /\ PreInv(T, c, a, Range(T.batch), "made") /\ Once(T.batch)
             /\ T.last_batch = S.last_batch
<1> DEFINE A == ProcessPendingChunkedAbort(S)
           B == ResolveWaitingQueueBootstrap(A)
           C == ProcessPrefillChunk(B, c)
           D == GetNewBatchPrefill(C)
<1>1. PreInv(A, c, a, {}, "open") /\ NoneToAbort(A) /\ A.last_batch = S.last_batch
  BY ChunkedAbortKeeps
<1> HIDE DEF A
<1>2. PreInv(B, c, a, {}, "open") /\ NoneToAbort(B) /\ B.last_batch = S.last_batch
  BY <1>1, ResolveKeeps
<1> HIDE DEF B
<1>3. PreInv(C, c, a, {}, "plan") /\ C.last_batch = S.last_batch
  BY <1>2, ChunkPlanKeeps
<1> HIDE DEF C
<1>4. /\ PreInv(D, c, a, Range(D.batch), "made") /\ Once(D.batch)
      /\ D.last_batch = S.last_batch
  BY <1>3, NewBatchKeeps
<1>5. NextPrefillBatch(S, c) = D
  BY DEF NextPrefillBatch, A, B, C
<1> QED
  BY <1>4, <1>5

(* The entry x of the older batch is the next one; r is its request. *)
NextEntry(a, x, r) == x \in a /\ x \in Entry /\ x.req = r /\ \A y \in a : y.req = r => y = x

LEMMA EntryDone ==
  ASSUME NEW a, NEW x, NEW r, NextEntry(a, x, r), NEW c, NEW d, d = a \ {x}
  PROVE  /\ SameEntries(a, d, r, c)
         /\ ~WholeIn(d, r, c.len[r]) /\ ~PartIn(d, r, c.len[r])
         /\ WholeIn(a, r, c.len[r]) <=> x.end = c.len[r]
         /\ PartIn(a, r, c.len[r]) <=> x.end # c.len[r]
BY DEF NextEntry, SameEntries, WholeIn, PartIn

(* A request whose whole prompt is computed enters the inflight queue. *)
IntoInflight(S, r) == [S EXCEPT !.inflight = Append(@, r)]

LEMMA WholeDone ==
  ASSUME NEW S, NEW c, NEW a, NEW b, PreInv(S, c, a, b, "made"), NEW r \in Request,
         WholeIn(a, r, c.len[r]), NEW d, SameEntries(a, d, r, c),
         ~WholeIn(d, r, c.len[r]), ~PartIn(d, r, c.len[r])
  PROVE  LET T == IntoInflight(S, r)
         IN  /\ PreInv(T, c, d, b, "made")
             /\ T.batch = S.batch /\ T.last_batch = S.last_batch
<1> DEFINE T == IntoInflight(S, r)
<1>1. PreShape(S) /\ PreReqAt(S, c, a, b, "made", r)
  BY DEF PreInv
<1>2. /\ PreShape(T) /\ T.req = S.req /\ T.inflight = Append(S.inflight, r)
      /\ T.bootstrap = S.bootstrap /\ T.waiting = S.waiting /\ T.chunked = S.chunked
      /\ T.abort_chunked = S.abort_chunked /\ T.batch = S.batch
      /\ T.last_batch = S.last_batch /\ T.free_buffers = S.free_buffers
      /\ T.status = S.status /\ T.transfers = S.transfers
  BY <1>1 DEF PreShape, PreFields, IntoInflight
<1> HIDE DEF T
<1>3. /\ r \notin Range(S.bootstrap) /\ r \notin Range(S.waiting) /\ r \notin Range(S.inflight)
      /\ S.chunked # r /\ S.req[r].arrived /\ S.req[r].answers = 0
      /\ ~WholeIn(b, r, c.len[r]) /\ ~PartIn(b, r, c.len[r]) /\ ~PartIn(a, r, c.len[r])
  BY <1>1 DEF PreReqAt, PreReqOK
<1>4. Entered(S.inflight, T.inflight, r)
  BY <1>2, <1>3, EnteredQueue DEF PreInv, PreQueues
<1>5. PreTyped(T) /\ PreQueues(T) /\ SameBuffers(S, T)
  BY <1>2, <1>4 DEF PreInv, PreTyped, PreQueues, SameBuffers, Entered
<1>6. FreeBuffers(T, PrefillBuffers)
  BY <1>5, SameBuffersKeep DEF PreInv
<1>7. Elsewhere(S, T, r)
  BY SMTT(60), <1>2, <1>4 DEF Elsewhere, Entered, SamePreReq
<1>8. PreReqAt(T, c, d, b, "made", r)
  <2>1. /\ r \in Range(T.inflight) /\ r \notin Range(T.bootstrap) /\ r \notin Range(T.waiting)
        /\ T.chunked # r
    BY <1>2, <1>3, <1>4 DEF Entered
  <2> QED
    BY <1>1, <1>2, <1>3, <2>1 DEF PreReqAt, PreReqOK
<1>9. PreInv(T, c, d, b, "made")
  BY <1>2, <1>5, <1>6, <1>7, <1>8, OneMoves, EntriesSame
<1> QED
  BY <1>2, <1>9 DEF T

(* One chunk of a request is computed. *)
OneChunkLess(S, r) == [S EXCEPT !.req[r].chunks = @ - 1]

LEMMA OneChunkLessEffect ==
  ASSUME NEW S, PreShape(S), NEW r \in Request
  PROVE  LET T == OneChunkLess(S, r)
         IN  /\ PreShape(T)
             /\ T.bootstrap = S.bootstrap /\ T.waiting = S.waiting
             /\ T.inflight = S.inflight /\ T.chunked = S.chunked
             /\ T.abort_chunked = S.abort_chunked /\ T.batch = S.batch
             /\ T.last_batch = S.last_batch /\ T.free_buffers = S.free_buffers
             /\ T.status = S.status /\ T.transfers = S.transfers
             /\ T.req[r].chunks = S.req[r].chunks - 1
             /\ T.req[r].arrived = S.req[r].arrived /\ T.req[r].len = S.req[r].len
             /\ T.req[r].kv = S.req[r].kv /\ T.req[r].end = S.req[r].end
             /\ T.req[r].pending_bootstrap = S.req[r].pending_bootstrap
             /\ T.req[r].aborted = S.req[r].aborted
             /\ T.req[r].buffer = S.req[r].buffer
             /\ T.req[r].conclude = S.req[r].conclude
             /\ T.req[r].answers = S.req[r].answers
             /\ \A q \in Request \ {r} : T.req[q] = S.req[q]
<1> DEFINE T == OneChunkLess(S, r)
<1>3. /\ PreShape(T)
      /\ T.bootstrap = S.bootstrap /\ T.waiting = S.waiting /\ T.inflight = S.inflight
      /\ T.chunked = S.chunked /\ T.abort_chunked = S.abort_chunked
      /\ T.batch = S.batch /\ T.last_batch = S.last_batch
      /\ T.free_buffers = S.free_buffers /\ T.status = S.status
      /\ T.transfers = S.transfers
      /\ T.req = [S.req EXCEPT ![r] = [S.req[r] EXCEPT !.chunks = S.req[r].chunks - 1]]
  BY DEF PreShape, PreFields, PreReqFields, OneChunkLess
<1> HIDE DEF T
<1>4. T.req[r].chunks = S.req[r].chunks - 1
  BY <1>3 DEF PreShape, PreReqFields
<1>5. /\ \A q \in Request \ {r} : T.req[q] = S.req[q]
      /\ T.req[r].arrived = S.req[r].arrived /\ T.req[r].len = S.req[r].len
      /\ T.req[r].kv = S.req[r].kv /\ T.req[r].end = S.req[r].end
      /\ T.req[r].pending_bootstrap = S.req[r].pending_bootstrap
      /\ T.req[r].aborted = S.req[r].aborted /\ T.req[r].buffer = S.req[r].buffer
      /\ T.req[r].conclude = S.req[r].conclude /\ T.req[r].answers = S.req[r].answers
  BY <1>3 DEF PreShape, PreReqFields
<1> QED
  BY <1>3, <1>4, <1>5 DEF T

LEMMA ChunkCounts ==
  ASSUME NEW S, NEW c, NEW a, NEW b, PreInv(S, c, a, b, "made"), NEW r \in Request,
         PartIn(a, r, c.len[r]), NEW T, T = OneChunkLess(S, r)
  PROVE  /\ ~PartIn(b, r, c.len[r]) => T.req[r].chunks = 0
         /\ PartIn(b, r, c.len[r]) => T.req[r].chunks = 1
<1>1. PreShape(S) /\ PreReqAt(S, c, a, b, "made", r)
  BY DEF PreInv
<1>2. T.req[r].chunks = S.req[r].chunks - 1
  <2>1. PreShape(S)
    BY <1>1
  <2> QED
    BY <2>1, OneChunkLessEffect
<1>3. /\ ~PartIn(b, r, c.len[r]) => S.req[r].chunks = 1
      /\ PartIn(b, r, c.len[r]) => S.req[r].chunks = 2
  BY <1>1 DEF PreReqAt, PreReqOK
<1> QED
  BY <1>2, <1>3

(* The request goes on, is computed to its end, or has been answered. *)
LEMMA PartDone ==
  ASSUME NEW S, NEW c \in Configs, NEW a, NEW b, PreInv(S, c, a, b, "made"),
         NEW r \in Request,
         PartIn(a, r, c.len[r]), NEW d, SameEntries(a, d, r, c),
         ~WholeIn(d, r, c.len[r]), ~PartIn(d, r, c.len[r]),
         ~S.req[r].pending_bootstrap \/ S.chunked = r \/ S.req[r].end >= S.req[r].len
  PROVE  LET T == OneChunkLess(S, r)
         IN  /\ PreInv(T, c, d, b, "made")
             /\ T.batch = S.batch /\ T.last_batch = S.last_batch
<1> DEFINE T == OneChunkLess(S, r)
<1>1. PreShape(S) /\ PreReqAt(S, c, a, b, "made", r)
  BY DEF PreInv
<1>2. /\ PreShape(T)
      /\ T.bootstrap = S.bootstrap /\ T.waiting = S.waiting /\ T.inflight = S.inflight
      /\ T.chunked = S.chunked /\ T.abort_chunked = S.abort_chunked
      /\ T.batch = S.batch /\ T.last_batch = S.last_batch
      /\ T.free_buffers = S.free_buffers /\ T.status = S.status
      /\ T.transfers = S.transfers
      /\ T.req[r].arrived = S.req[r].arrived /\ T.req[r].len = S.req[r].len
      /\ T.req[r].kv = S.req[r].kv /\ T.req[r].end = S.req[r].end
      /\ T.req[r].pending_bootstrap = S.req[r].pending_bootstrap
      /\ T.req[r].aborted = S.req[r].aborted /\ T.req[r].buffer = S.req[r].buffer
      /\ T.req[r].conclude = S.req[r].conclude /\ T.req[r].answers = S.req[r].answers
      /\ \A q \in Request \ {r} : T.req[q] = S.req[q]
  <2>1. PreShape(S)
    BY <1>1
  <2> QED
    BY <2>1, OneChunkLessEffect
<1>3. /\ ~PartIn(b, r, c.len[r]) => T.req[r].chunks = 0
      /\ PartIn(b, r, c.len[r]) => T.req[r].chunks = 1
  BY SMTT(60), ChunkCounts
<1> HIDE DEF T
<1>4. PreTyped(T) /\ PreQueues(T) /\ SameBuffers(S, T) /\ Elsewhere(S, T, r)
  BY <1>2 DEF PreInv, PreTyped, PreQueues, SameBuffers, Elsewhere, SamePreReq
<1>5. FreeBuffers(T, PrefillBuffers)
  BY SMTT(60), <1>4, SameBuffersKeep DEF PreInv
<1>6. PreReqAt(T, c, d, b, "made", r)
  <2>1. S.req[r].answers = 0 => S.chunked = r \/ WholeIn(b, r, c.len[r])
    <3>1. S.req[r].len = c.len[r] /\ S.req[r].end \in 0 .. c.len[r] /\ c.len[r] \in Nat
      BY <1>1, ConfigFacts DEF PreReqAt, PreReqOK
    <3>2. S.req[r].end >= S.req[r].len => ~(S.req[r].end < c.len[r])
      BY <3>1
    <3> QED
      BY SMTT(60), <1>1, <3>2 DEF PreReqAt, PreReqOK
  <2> QED
    BY <1>1, <1>2, <1>3, <2>1 DEF PreReqAt, PreReqOK
<1>7. PreInv(T, c, d, b, "made")
  BY <1>2, <1>4, <1>5, <1>6, OneMoves, EntriesSame
<1> QED
  BY <1>2, <1>7 DEF T

(* The request was dropped while this chunk was computed. *)
LEMMA DroppedReturns ==
  ASSUME NEW S, NEW c \in Configs, NEW a, NEW b, PreInv(S, c, a, b, "made"),
         NEW r \in Request,
         PartIn(a, r, c.len[r]), NEW d, SameEntries(a, d, r, c),
         ~WholeIn(d, r, c.len[r]), ~PartIn(d, r, c.len[r]),
         S.req[r].pending_bootstrap, S.chunked # r, ~(S.req[r].end >= S.req[r].len),
         NEW U, U = OneChunkLess(S, r), NEW max_attempts
  PROVE  LET T == ReleaseAndRequeue(U, r, max_attempts)
         IN  /\ PreInv(T, c, d, b, "made")
             /\ T.batch = S.batch /\ T.last_batch = S.last_batch
<1> DEFINE T == ReleaseAndRequeue(U, r, max_attempts)
<1>1. PreShape(S) /\ PreReqAt(S, c, a, b, "made", r)
  BY SMTT(60) DEF PreInv
<1>2. /\ PreShape(U)
      /\ U.bootstrap = S.bootstrap /\ U.waiting = S.waiting /\ U.inflight = S.inflight
      /\ U.chunked = S.chunked /\ U.abort_chunked = S.abort_chunked
      /\ U.batch = S.batch /\ U.last_batch = S.last_batch
      /\ U.free_buffers = S.free_buffers /\ U.status = S.status
      /\ U.transfers = S.transfers
      /\ U.req[r].arrived = S.req[r].arrived /\ U.req[r].len = S.req[r].len
      /\ U.req[r].kv = S.req[r].kv /\ U.req[r].end = S.req[r].end
      /\ U.req[r].pending_bootstrap = S.req[r].pending_bootstrap
      /\ U.req[r].aborted = S.req[r].aborted /\ U.req[r].buffer = S.req[r].buffer
      /\ U.req[r].conclude = S.req[r].conclude /\ U.req[r].answers = S.req[r].answers
      /\ \A q \in Request \ {r} : U.req[q] = S.req[q]
  <2>1. PreShape(S)
    BY <1>1
  <2> QED
    BY ZenonT(60), <2>1, OneChunkLessEffect
<1>3. /\ S.req[r].answers = 0 /\ ~S.req[r].aborted /\ S.req[r].arrived
      /\ ~WholeIn(b, r, c.len[r]) /\ ~PartIn(b, r, c.len[r]) /\ S.req[r].buffer # Nil
      /\ r \notin Range(S.bootstrap) /\ r \notin Range(S.waiting) /\ r \notin Range(S.inflight)
  <2>1. S.req[r].len = c.len[r] /\ S.req[r].end \in 0 .. c.len[r] /\ c.len[r] \in Nat
    BY SMTT(60), <1>1, ConfigFacts DEF PreReqAt, PreReqOK
  <2>2. S.req[r].end # c.len[r]
    BY <2>1
  <2> QED
    BY <1>1, <2>2 DEF PreReqAt, PreReqOK
<1>4. U.req[r].chunks = 0
  BY <1>3, ChunkCounts
<1>5. Requeued(U, T, r)
  BY <1>2, RequeueEffect
<1> HIDE DEF T
<1>6. PreShape(T) /\ PreTyped(T)
  BY SMTT(60), <1>2, <1>5 DEF Requeued, PreInv, PreTyped
<1>7. \/ Entered(S.bootstrap, T.bootstrap, r) /\ T.waiting = S.waiting
      \/ Entered(S.waiting, T.waiting, r) /\ T.bootstrap = S.bootstrap
  <2>1. /\ Distinct(S.bootstrap, Request) /\ Distinct(S.waiting, Request)
        /\ \/ T.bootstrap = Append(S.bootstrap, r) /\ T.waiting = S.waiting
           \/ T.waiting = AtHead(r, S.waiting) /\ T.bootstrap = S.bootstrap
    BY <1>2, <1>5 DEF Requeued, PreInv, PreQueues
  <2>2. /\ Entered(S.bootstrap, Append(S.bootstrap, r), r)
        /\ Entered(S.waiting, AtHead(r, S.waiting), r)
    BY <1>3, <2>1, EnteredQueue
  <2> QED
    BY ZenonT(60), <2>1, <2>2
<1>8. PreQueues(T)
  BY <1>2, <1>5, <1>7 DEF Requeued, PreInv, PreQueues, Entered
<1>9. FreeBuffers(T, PrefillBuffers)
  <2>1. SameBuffers(S, T)
    BY <1>2, <1>5 DEF Requeued, SameBuffers, SamePreReq
  <2> QED
    BY SMTT(60), <2>1, SameBuffersKeep DEF PreInv
<1>10. Elsewhere(S, T, r)
  BY <1>2, <1>5, <1>7 DEF Elsewhere, Requeued, Entered
<1>11. PreReqAt(T, c, d, b, "made", r)
  <2>1. /\ \/ r \in Range(T.bootstrap) /\ r \notin Range(T.waiting)
           \/ r \in Range(T.waiting) /\ r \notin Range(T.bootstrap)
        /\ r \notin Range(T.inflight) /\ T.chunked # r
    BY <1>2, <1>3, <1>5, <1>7 DEF Entered, Requeued
  <2>2. /\ T.req[r].kv = FALSE /\ T.req[r].end = 0 /\ T.req[r].pending_bootstrap = TRUE
        /\ T.req[r].arrived = S.req[r].arrived /\ T.req[r].len = S.req[r].len
        /\ T.req[r].chunks = 0 /\ T.req[r].aborted = S.req[r].aborted
        /\ T.req[r].buffer = S.req[r].buffer /\ T.req[r].answers = S.req[r].answers
    BY <1>2, <1>4, <1>5 DEF Requeued
  <2>3. 0 \in 0 .. c.len[r]
    BY ConfigFacts
  <2> QED
    BY ZenonT(60), <1>1, <1>3, <2>1, <2>2, <2>3 DEF PreReqAt, PreReqOK
<1>12. PreInv(T, c, d, b, "made")
  BY <1>6, <1>8, <1>9, <1>10, <1>11, OneMoves, EntriesSame
<1> QED
  BY <1>2, <1>5, <1>12 DEF T, Requeued

(* process_batch_result_disagg_prefill, one entry. *)
LEMMA ResultOneKeeps ==
  ASSUME NEW S, NEW c \in Configs, NEW a, NEW b, PreInv(S, c, a, b, "made"), NEW x,
         NEW r, NextEntry(a, x, r), NEW d, d = a \ {x}
  PROVE  LET T == ResultOne(S, x, c)
         IN  /\ PreInv(T, c, d, b, "made")
             /\ T.batch = S.batch /\ T.last_batch = S.last_batch
<1> DEFINE e == x.end
           len == c.len[r]
           D == [S EXCEPT !.req[r].computed = e]
           L == IntoInflight(D, r)
           O == OneChunkLess(D, r)
           m == c.max_attempts
           R == ReleaseAndRequeue(O, r, m)
           p == O.pending_chunks \ {r}
           P == [O EXCEPT !.pending_chunks = p]
           pend == S.req[r].pending_bootstrap
           still == S.chunked = r \/ S.req[r].end >= S.req[r].len
           T == ResultOne(S, x, c)
           OK(V) == /\ PreInv(V, c, d, b, "made")
                    /\ V.batch = S.batch /\ V.last_batch = S.last_batch
<1>1. r \in Request /\ x.req = r
  BY DEF NextEntry, Entry
<1>2. PreShape(S) /\ PreReqAt(S, c, a, b, "made", r)
  BY <1>1 DEF PreInv
<1>3. Still(S, D)
  <2> HIDE DEF e
  <2> QED
    BY ZenonT(60), <1>1, <1>2, StillField
<1>4. /\ PreInv(D, c, a, b, "made") /\ D.batch = S.batch /\ D.last_batch = S.last_batch
      /\ D.chunked = S.chunked /\ D.req[r].pending_bootstrap = pend
      /\ D.req[r].end = S.req[r].end /\ D.req[r].len = S.req[r].len
  <2>1. PreInv(D, c, a, b, "made")
    BY <1>3, PreInvStill
  <2> QED
    BY <1>1, <1>3, <2>1 DEF Still, SamePlaces, SamePreReq
<1>5. /\ SameEntries(a, d, r, c) /\ ~WholeIn(d, r, len) /\ ~PartIn(d, r, len)
      /\ WholeIn(a, r, len) <=> x.end = len
      /\ PartIn(a, r, len) <=> x.end # len
  BY EntryDone
<1>6. \/ S.req[r].chunks <= 0 /\ WholeIn(a, r, len)
      \/ ~(S.req[r].chunks <= 0) /\ PartIn(a, r, len)
  BY <1>2, <1>5 DEF PreReqAt, PreReqOK
<1>7. \/ S.req[r].chunks <= 0 /\ T \in {L, SendKVChunk(L, r, TRUE, S.req[r].len)}
      \/ ~(S.req[r].chunks <= 0) /\ pend /\ ~still /\ T = R
      \/ /\ ~(S.req[r].chunks <= 0) /\ ~(pend /\ ~still)
         /\ T \in {O, P, SendKVChunk(O, r, FALSE, S.req[r].send_to)}
  BY ZenonT(60), <1>1 DEF ResultOne, IntoInflight, OneChunkLess
<1> HIDE DEF D, T
<1>8. ASSUME NEW V, OK(V), NEW last \in BOOLEAN, NEW u PROVE OK(SendKVChunk(V, r, last, u))
  <2> DEFINE W == SendKVChunk(V, r, last, u)
  <2>1. PreShape(V)
    BY <1>8 DEF PreInv
  <2>2. Still(V, W)
    BY <1>1, <2>1, StillSendKVChunk
  <2> HIDE DEF W
  <2>3. PreInv(W, c, d, b, "made")
    BY <1>8, <2>2, PreInvStill
  <2>4. OK(W)
    BY <1>8, <2>2, <2>3 DEF Still, SamePlaces
  <2> QED
    BY <2>4 DEF W
<1>9. ASSUME WholeIn(a, r, len) PROVE OK(L)
  <2>1. /\ PreInv(L, c, d, b, "made") /\ L.batch = D.batch /\ L.last_batch = D.last_batch
    BY <1>1, <1>4, <1>5, <1>9, WholeDone
  <2> HIDE DEF L
  <2> QED
    BY <1>4, <2>1
<1>10. ASSUME PartIn(a, r, len), ~(pend /\ ~still) PROVE OK(O) /\ OK(P)
  <2>1. ~D.req[r].pending_bootstrap \/ D.chunked = r \/ D.req[r].end >= D.req[r].len
    BY <1>4, <1>10
  <2>2. /\ PreInv(O, c, d, b, "made") /\ O.batch = D.batch /\ O.last_batch = D.last_batch
    BY <1>1, <1>4, <1>5, <1>10, <2>1, PartDone
  <2> HIDE DEF O
  <2>3. OK(O) /\ PreShape(O)
    BY <1>4, <2>2 DEF PreInv
  <2> HIDE DEF p
  <2>4. Still(O, P)
    BY ZenonT(60), <2>3, StillTable
  <2> HIDE DEF P
  <2>5. PreInv(P, c, d, b, "made")
    BY <2>2, <2>4, PreInvStill
  <2> QED
    BY <2>3, <2>4, <2>5 DEF Still, SamePlaces
<1>11. ASSUME PartIn(a, r, len), pend, ~still PROVE OK(R)
  <2>1. /\ D.req[r].pending_bootstrap /\ D.chunked # r
        /\ ~(D.req[r].end >= D.req[r].len)
    BY <1>4, <1>11
  <2>2. O = OneChunkLess(D, r)
    OBVIOUS
  <2> HIDE DEF O, m
  <2>3. /\ PreInv(R, c, d, b, "made") /\ R.batch = D.batch /\ R.last_batch = D.last_batch
    BY <1>1, <1>4, <1>5, <1>11, <2>1, <2>2, DroppedReturns
  <2> HIDE DEF R
  <2> QED
    BY <1>4, <2>3
<1> HIDE DEF L, O, P, R, OK, pend, still, len
<1>12. OK(T)
  BY ZenonT(60), <1>6, <1>7, <1>8, <1>9, <1>10, <1>11
<1> QED
  BY <1>12 DEF OK, T

(* The entries of a batch after the first k. *)
Rest(q, k, n) == {q[m] : m \in (k + 1)..n}

LEMMA RestEnds ==
  ASSUME NEW n \in Nat, NEW q, DOMAIN q = 1..n
  PROVE  Rest(q, 0, n) = Range(q) /\ Rest(q, n, n) = {}
BY DEF Rest, Range

LEMMA RestNext ==
  ASSUME NEW n \in Nat, NEW q, DOMAIN q = 1..n, Once(q), NEW k \in 1..n
  PROVE  /\ NextEntry(Rest(q, k - 1, n), q[k], q[k].req)
         /\ Rest(q, k, n) = Rest(q, k - 1, n) \ {q[k]}
<1> DEFINE a == Rest(q, k - 1, n)
<1>1. /\ \A m \in 1..n : q[m] \in Range(q)
      /\ Range(q) \subseteq Entry /\ IsInjective(q)
  BY DistinctRange DEF Range, Once, Distinct
<1>2. q[k] \in a
  <2>1. k \in ((k - 1) + 1)..n
    OBVIOUS
  <2> QED
    BY <2>1 DEF Rest
<1>3. a \subseteq Range(q)
  <2>1. \A m \in ((k - 1) + 1)..n : m \in 1..n
    OBVIOUS
  <2> QED
    BY <1>1, <2>1 DEF Rest
<1>4. NextEntry(a, q[k], q[k].req)
  BY <1>1, <1>2, <1>3 DEF NextEntry, Once
<1>5. ASSUME NEW y \in Rest(q, k, n) PROVE y \in a \ {q[k]}
  <2>1. PICK m \in (k + 1)..n : y = q[m]
    BY DEF Rest
  <2>2. m \in ((k - 1) + 1)..n /\ m \in DOMAIN q /\ k \in DOMAIN q /\ m # k
    BY <2>1
  <2> QED
    BY <1>1, <2>1, <2>2 DEF Rest, IsInjective
<1>6. ASSUME NEW y \in a \ {q[k]} PROVE y \in Rest(q, k, n)
  <2>1. PICK m \in ((k - 1) + 1)..n : y = q[m]
    BY DEF Rest
  <2>2. m # k
    BY <2>1
  <2>3. m \in (k + 1)..n
    BY <2>1, <2>2
  <2> QED
    BY <2>1, <2>3 DEF Rest
<1> QED
  BY <1>4, <1>5, <1>6

LEMMA ResultsLoop ==
  ASSUME NEW S, config \in Configs, NEW b, NEW n \in Nat, NEW q, DOMAIN q = 1..n, Once(q),
         PreInv(S, config, Range(q), b, "made")
  PROVE  LET T == Results!Result(S, q)
         IN  /\ PreInv(T, config, {}, b, "made")
             /\ T.batch = S.batch /\ T.last_batch = S.last_batch
<1> DEFINE g == Results!States(S, q, n)
<1>2. /\ g[0] = S
      /\ \A k \in 1..n : g[k] = ProcessResultOne(g[k-1], q[k])
      /\ Results!Result(S, q) = g[n]
  BY Results!Loop
<1> HIDE DEF g
<1> DEFINE Q == {k \in 0..n : /\ PreInv(g[k], config, Rest(q, k, n), b, "made")
                              /\ g[k].batch = S.batch /\ g[k].last_batch = S.last_batch}
<1>3. 0 \in Q
  BY <1>2, RestEnds
<1>4. ASSUME NEW k \in 1..n, k - 1 \in Q PROVE k \in Q
  <2> DEFINE P == g[k-1]
             x == q[k]
             r == q[k].req
             a == Rest(q, k - 1, n)
             d == Rest(q, k, n)
             c == config
  <2>1. PreInv(P, c, a, b, "made") /\ P.batch = S.batch /\ P.last_batch = S.last_batch
    BY <1>4
  <2>2. NextEntry(a, x, r) /\ d = a \ {x}
    BY RestNext
  <2>3. g[k] = ResultOne(P, x, c) /\ c \in Configs
    BY <1>2 DEF ProcessResultOne
  <2> HIDE DEF P, x, r, a, d, c
  <2>4. PreInv(g[k], c, d, b, "made") /\ g[k].batch = P.batch /\ g[k].last_batch = P.last_batch
    BY <2>1, <2>2, <2>3, ResultOneKeeps
  <2> QED
    BY <2>1, <2>4 DEF d, c
<1> HIDE DEF Q
<1>5. n \in Q
  <2>1. \A k \in 0..n : k \in Q
    BY ZenonT(60), <1>3, <1>4, Connect!UpTo
  <2> QED
    BY <2>1
<1> QED
  BY ZenonT(60), <1>2, <1>5, RestEnds DEF Q

(* process_batch_result_disagg_prefill. *)
LEMMA BatchResultKeeps ==
  ASSUME NEW S, config \in Configs, NEW b, NEW q, Once(q),
         PreInv(S, config, Range(q), b, "made")
  PROVE  LET T == ProcessBatchResult(S, q, config)
         IN  /\ PreInv(T, config, {}, b, "made")
             /\ T.batch = S.batch /\ T.last_batch = S.last_batch
<1>1. Len(q) \in Nat /\ DOMAIN q = 1..Len(q)
  BY DEF Once, Distinct
<1>2. LET T == Results!Result(S, q)
      IN  /\ PreInv(T, config, {}, b, "made")
          /\ T.batch = S.batch /\ T.last_batch = S.last_batch
  BY <1>1, ResultsLoop
<1>3. ProcessBatchResult(S, q, config) = Results!Result(S, q)
  BY SMTT(60) DEF ProcessBatchResult, FoldLeft, MapThenFoldSet, Results!Result, Results!FoldLeft,
         Results!MapThenFoldSet, Results!Max, Max, ProcessResultOne
<1> QED
  BY <1>2, <1>3

(* Without overlap the batch whose results come is the one just launched. *)
LEMMA ResultsAtOnce ==
  ASSUME NEW S, NEW c, ~c.overlap, NEW b, PreInv(S, c, {}, b, "made")
  PROVE  PreInv(S, c, b, {}, "made")
<1>1. ASSUME NEW r \in Request PROVE PreReqAt(S, c, b, {}, "made", r)
  <2>1. PreReqAt(S, c, {}, b, "made", r)
    BY DEF PreInv
  <2> QED
    BY <2>1, NoEntries DEF PreReqAt, PreReqOK
<1> QED
  BY SMTT(60), <1>1 DEF PreInv

(* process_disagg_prefill_inflight_queue, one entry whose transfer ended. *)
Release(U, r) == ReleaseBuffer(Answer([U EXCEPT !.req[r].kv = FALSE], r), r)

LEMMA ReleaseKeeps ==
  ASSUME NEW S, NEW c, NEW a, NEW b, NEW stage, PreInv(S, c, a, b, stage), NEW r,
         r \in Range(S.inflight), NEW G, Removal(S, G, r), NEW U, PreShape(U),
         PreTyped(G) => PreTyped(U), SamePlaces(G, U), SameBuffers(G, U),
         U.req[r].arrived = G.req[r].arrived, U.req[r].len = G.req[r].len,
         U.req[r].end = G.req[r].end, U.req[r].chunks = G.req[r].chunks,
         U.req[r].answers = G.req[r].answers,
         U.req[r].pending_bootstrap = G.req[r].pending_bootstrap,
         U.req[r].aborted \in BOOLEAN,
         \A q \in Request \ {r} : SamePreReq(G.req[q], U.req[q])
  PROVE  LET T == Release(U, r)
         IN  PreInv(T, c, a, b, stage) /\ SamePlaces(G, T)
<1> DEFINE K == [U EXCEPT !.req[r].kv = FALSE]
           N == Answer(K, r)
           T == ReleaseBuffer(N, r)
<1>0. Release(U, r) = T
  BY SMTT(60) DEF Release
<1>1. /\ r \in Request /\ S.chunked # r /\ ~PartIn(b, r, c.len[r]) /\ InSomeQueue(S, r)
      /\ S.req[r].pending_bootstrap \in BOOLEAN
  <2>1. InSomeQueue(S, r)
    BY DEF InSomeQueue
  <2>2. /\ r \in Request /\ S.chunked # r /\ ~PartIn(b, r, c.len[r])
        /\ PreReqAt(S, c, a, b, stage, r)
    BY <2>1, InSomeQueueFacts
  <2> QED
    BY <2>1, <2>2 DEF PreReqAt, PreReqOK
<1>2. /\ PreShape(K)
      /\ K.bootstrap = U.bootstrap /\ K.waiting = U.waiting /\ K.inflight = U.inflight
      /\ K.chunked = U.chunked /\ K.abort_chunked = U.abort_chunked
      /\ K.batch = U.batch /\ K.last_batch = U.last_batch
      /\ K.free_buffers = U.free_buffers /\ K.status = U.status
      /\ K.transfers = U.transfers
      /\ K.req = [U.req EXCEPT ![r] = [U.req[r] EXCEPT !.kv = FALSE]]
  BY <1>1 DEF PreShape, PreFields, PreReqFields
<1> HIDE DEF K
<1>3. /\ K.req[r].kv = FALSE
      /\ K.req[r].arrived = U.req[r].arrived /\ K.req[r].len = U.req[r].len
      /\ K.req[r].end = U.req[r].end /\ K.req[r].chunks = U.req[r].chunks
      /\ K.req[r].pending_bootstrap = U.req[r].pending_bootstrap
      /\ K.req[r].aborted = U.req[r].aborted /\ K.req[r].buffer = U.req[r].buffer
      /\ K.req[r].conclude = U.req[r].conclude /\ K.req[r].answers = U.req[r].answers
      /\ \A q \in Request \ {r} : K.req[q] = U.req[q]
  BY <1>1, <1>2 DEF PreShape, PreReqFields
<1>4. PreShape(K)
  BY <1>2
<1>5. N.req[r].answers = K.req[r].answers + 1
  BY <1>1, <1>4, PreAnswerEffect
<1>6. /\ PreShape(N)
      /\ N.bootstrap = K.bootstrap /\ N.waiting = K.waiting /\ N.inflight = K.inflight
      /\ N.chunked = K.chunked /\ N.abort_chunked = K.abort_chunked
      /\ N.batch = K.batch /\ N.last_batch = K.last_batch
      /\ N.free_buffers = K.free_buffers /\ N.status = K.status
      /\ N.transfers = K.transfers
      /\ N.req[r].arrived = K.req[r].arrived /\ N.req[r].len = K.req[r].len
      /\ N.req[r].kv = K.req[r].kv /\ N.req[r].end = K.req[r].end
      /\ N.req[r].chunks = K.req[r].chunks
      /\ N.req[r].pending_bootstrap = K.req[r].pending_bootstrap
      /\ N.req[r].aborted = K.req[r].aborted /\ N.req[r].buffer = K.req[r].buffer
      /\ N.req[r].conclude = K.req[r].conclude
      /\ \A q \in Request \ {r} : N.req[q] = K.req[q]
  BY <1>1, <1>4, PreAnswerEffect
<1> HIDE DEF N
<1>7. /\ PreShape(T) /\ Gave(N, T, r)
      /\ T.bootstrap = N.bootstrap /\ T.waiting = N.waiting /\ T.inflight = N.inflight
      /\ T.chunked = N.chunked /\ T.abort_chunked = N.abort_chunked
      /\ T.batch = N.batch /\ T.last_batch = N.last_batch /\ T.status = N.status
      /\ T.transfers = N.transfers
      /\ T.req[r].arrived = N.req[r].arrived /\ T.req[r].len = N.req[r].len
      /\ T.req[r].kv = N.req[r].kv /\ T.req[r].end = N.req[r].end
      /\ T.req[r].chunks = N.req[r].chunks
      /\ T.req[r].pending_bootstrap = N.req[r].pending_bootstrap
      /\ T.req[r].aborted = N.req[r].aborted /\ T.req[r].conclude = N.req[r].conclude
      /\ T.req[r].answers = N.req[r].answers
      /\ \A q \in Request \ {r} : T.req[q] = N.req[q]
  BY <1>1, <1>6, ReleaseBufferEffect
<1> HIDE DEF T
<1>8. T.req[r].answers = S.req[r].answers + 1
  BY <1>3, <1>5, <1>7 DEF Removal
<1>9. PreTyped(T)
  BY <1>2, <1>6, <1>7 DEF PreTyped, Removal, PreInv
<1>10. SamePlaces(G, T)
  BY <1>2, <1>6, <1>7 DEF SamePlaces
<1>11. Gave(S, T, r)
  <2>1. SameBuffers(S, N)
    <3>1. N.free_buffers = S.free_buffers
      BY <1>2, <1>6 DEF SameBuffers, Removal
    <3>2. N.req[r].buffer = S.req[r].buffer
      BY <1>1, <1>3, <1>6 DEF SameBuffers, Removal
    <3>3. \A q \in Request \ {r} : N.req[q].buffer = S.req[q].buffer
      BY SMTT(60), <1>3, <1>6 DEF SameBuffers, Removal
    <3> QED
      BY <3>1, <3>2, <3>3 DEF SameBuffers
  <2> QED
    BY <1>1, <1>7, <2>1 DEF Gave, SameBuffers
<1>12. /\ T.req[r].arrived = S.req[r].arrived /\ T.req[r].len = S.req[r].len
       /\ T.req[r].end = S.req[r].end /\ T.req[r].chunks = S.req[r].chunks
       /\ T.req[r].kv = FALSE /\ T.req[r].pending_bootstrap \in BOOLEAN
       /\ T.req[r].aborted \in BOOLEAN
  BY <1>1, <1>3, <1>6, <1>7 DEF Removal
<1>13. \A q \in Request \ {r} : SamePreReq(S.req[q], T.req[q])
  BY <1>3, <1>6, <1>7 DEF Removal
<1>14. Leaves(S, T, r)
  BY <1>1, <1>7, <1>8, <1>9, <1>10, <1>11, <1>12, <1>13 DEF Leaves, Removal, SamePlaces
<1>15. PreInv(T, c, a, b, stage)
  BY <1>1, <1>14, LeavesKeeps DEF InSomeQueue
<1> QED
  BY <1>0, <1>10, <1>15

LEMMA InflightOneKeeps ==
  ASSUME NEW S, NEW c, NEW a, NEW b, NEW stage, PreInv(S, c, a, b, stage),
         NEW r \in Range(S.inflight)
  PROVE  LET T == InflightOne(S, r)
         IN  /\ PreInv(T, c, a, b, stage) /\ Range(S.inflight) \ {r} \subseteq Range(T.inflight)
             /\ T.batch = S.batch /\ T.last_batch = S.last_batch
<1> DEFINE U == Polled(S, r)
           G == [U EXCEPT !.inflight = Without(@, r)]
           H == HandleBootstrapFailure(G, r)
           F == FinalizeBootstrap(U, r)
           len == S.req[r].len
           C == SendKVChunk(F, r, TRUE, len)
           V == ClearRoom(G, r)
           X == FailureException(G, r)
           Y == [X EXCEPT !.req[r].aborted = TRUE]
           T == InflightOne(S, r)
<1>1. r \in Request /\ PreShape(S)
  BY ZenonT(60), InSomeQueueFacts DEF PreInv, InSomeQueue
<1>2. Still(S, U)
  BY <1>1, StillPolled
<1>3. PreInv(U, c, a, b, stage)
  BY <1>2, PreInvStill
<1>4. T \in {U, H, C, Release(V, r), Release(Y, r)}
  BY DEF InflightOne, Release
<1>5. SamePlaces(S, U)
  BY <1>2 DEF Still
<1> HIDE DEF U, T
<1>6. r \in Range(U.inflight) /\ InSomeQueue(U, r)
  BY <1>5 DEF SamePlaces, InSomeQueue
<1>7. Removal(U, G, r)
  BY ZenonT(60), <1>3, <1>6, RemovalEffect
<1> HIDE DEF G
<1>16. PreShape(G) /\ G.req[r].aborted \in BOOLEAN
  <2>1. PreReqAt(U, c, a, b, stage, r)
    BY <1>1, <1>3 DEF PreInv
  <2> QED
    BY <1>7, <2>1 DEF Removal, PreReqAt, PreReqOK
<1>8. CASE T = U
  BY <1>3, <1>5, <1>8 DEF SamePlaces, T
<1>9. CASE T = H
  <2>1. PreInv(H, c, a, b, stage) /\ SamePlaces(G, H)
    BY <1>3, <1>6, <1>7, FailedKeeps
  <2> HIDE DEF H
  <2> QED
    BY <1>5, <1>7, <1>9, <2>1 DEF Removal, SamePlaces, Left, T
<1>10. CASE T = C
  <2>1. PreInv(F, c, a, b, stage) /\ SamePlaces(U, F)
    BY ZenonT(60), <1>1, <1>3, <1>6, FinalizeKeeps
  <2> HIDE DEF F, len
  <2>2. Still(F, C)
    BY ZenonT(60), <1>1, <2>1, StillSendKVChunk DEF PreInv
  <2> HIDE DEF C
  <2>3. PreInv(C, c, a, b, stage) /\ SamePlaces(F, C)
    BY <2>1, <2>2, PreInvStill DEF Still
  <2> QED
    BY <1>5, <1>10, <2>1, <2>3 DEF SamePlaces, T
<1>11. ASSUME NEW Z, T = Z, PreInv(Z, c, a, b, stage), SamePlaces(G, Z)
       PROVE  /\ PreInv(T, c, a, b, stage) /\ Range(S.inflight) \ {r} \subseteq Range(T.inflight)
              /\ T.batch = S.batch /\ T.last_batch = S.last_batch
  BY <1>5, <1>7, <1>11 DEF Removal, SamePlaces, Left
<1>12. CASE T = Release(V, r)
  <2> DEFINE Z == Release(V, r)
  <2>1. Still(G, V)
    BY <1>1, <1>16, StillClearRoom
  <2> HIDE DEF V
  <2>2. /\ PreShape(V) /\ (PreTyped(G) => PreTyped(V)) /\ SamePlaces(G, V)
        /\ \A q \in Request : SamePreReq(G.req[q], V.req[q])
    BY <2>1 DEF Still
  <2>6. SameBuffers(G, V)
    BY <2>1 DEF Still, SameBuffers, SamePreReq
  <2>3. /\ V.req[r].arrived = G.req[r].arrived /\ V.req[r].len = G.req[r].len
        /\ V.req[r].end = G.req[r].end /\ V.req[r].chunks = G.req[r].chunks
        /\ V.req[r].answers = G.req[r].answers
        /\ V.req[r].pending_bootstrap = G.req[r].pending_bootstrap
        /\ V.req[r].aborted \in BOOLEAN
    BY <1>1, <1>16, <2>2 DEF SamePreReq
  <2>4. \A q \in Request \ {r} : SamePreReq(G.req[q], V.req[q])
    BY <2>2
  <2>5. PreInv(Z, c, a, b, stage) /\ SamePlaces(G, Z)
    BY <1>3, <1>6, <1>7, <2>2, <2>3, <2>4, <2>6, ReleaseKeeps
  <2> HIDE DEF Z
  <2>7. T = Z
    BY <1>12 DEF Z
  <2> QED
    BY <1>11, <2>5, <2>7 DEF T
<1>13. CASE T = Release(Y, r)
  <2> DEFINE Z == Release(Y, r)
  <2>1. Still(G, X)
    BY <1>1, <1>16, StillFailureException
  <2> HIDE DEF X
  <2>8. /\ PreShape(X) /\ (PreTyped(G) => PreTyped(X)) /\ SamePlaces(G, X)
        /\ \A q \in Request : SamePreReq(G.req[q], X.req[q])
    BY <2>1 DEF Still
  <2>9. SameBuffers(G, X)
    BY <2>1 DEF Still, SameBuffers, SamePreReq
  <2>10. /\ PreShape(Y)
         /\ Y.bootstrap = X.bootstrap /\ Y.waiting = X.waiting
         /\ Y.inflight = X.inflight /\ Y.chunked = X.chunked
         /\ Y.abort_chunked = X.abort_chunked /\ Y.batch = X.batch
         /\ Y.last_batch = X.last_batch /\ Y.free_buffers = X.free_buffers
         /\ Y.status = X.status /\ Y.transfers = X.transfers
         /\ Y.req = [X.req EXCEPT ![r] = [X.req[r] EXCEPT !.aborted = TRUE]]
    BY <2>8 DEF PreShape, PreFields, PreReqFields
  <2> HIDE DEF Y
  <2>11. /\ Y.req[r].aborted = TRUE
         /\ Y.req[r].arrived = X.req[r].arrived /\ Y.req[r].len = X.req[r].len
         /\ Y.req[r].kv = X.req[r].kv /\ Y.req[r].end = X.req[r].end
         /\ Y.req[r].chunks = X.req[r].chunks
         /\ Y.req[r].pending_bootstrap = X.req[r].pending_bootstrap
         /\ Y.req[r].buffer = X.req[r].buffer /\ Y.req[r].conclude = X.req[r].conclude
         /\ Y.req[r].answers = X.req[r].answers
         /\ \A q \in Request \ {r} : Y.req[q] = X.req[q]
    BY <1>1, <2>8, <2>10 DEF PreShape, PreReqFields
  <2>2. PreShape(Y) /\ (PreTyped(G) => PreTyped(Y)) /\ SamePlaces(G, Y)
    BY <2>8, <2>10 DEF PreTyped, SamePlaces
  <2>6. SameBuffers(G, Y)
    BY <2>9, <2>10, <2>11 DEF SameBuffers
  <2>3. /\ Y.req[r].arrived = G.req[r].arrived /\ Y.req[r].len = G.req[r].len
        /\ Y.req[r].end = G.req[r].end /\ Y.req[r].chunks = G.req[r].chunks
        /\ Y.req[r].answers = G.req[r].answers
        /\ Y.req[r].pending_bootstrap = G.req[r].pending_bootstrap
        /\ Y.req[r].aborted \in BOOLEAN
    BY ZenonT(60), <1>1, <2>8, <2>11 DEF SamePreReq
  <2>4. \A q \in Request \ {r} : SamePreReq(G.req[q], Y.req[q])
    BY <2>8, <2>11
  <2>5. PreInv(Z, c, a, b, stage) /\ SamePlaces(G, Z)
    BY <1>3, <1>6, <1>7, <2>2, <2>3, <2>4, <2>6, ReleaseKeeps
  <2> HIDE DEF Z
  <2>7. T = Z
    BY <1>13 DEF Z
  <2> QED
    BY <1>11, <2>5, <2>7 DEF T
<1> HIDE DEF H, C, V, Y
<1> QED
  BY <1>4, <1>8, <1>9, <1>10, <1>12, <1>13

LEMMA InflightLoop ==
  ASSUME NEW S, NEW c, NEW a, NEW b, NEW stage, PreInv(S, c, a, b, stage),
         NEW n \in Nat, NEW q, DOMAIN q = 1..n, IsInjective(q), Ahead(q, 0, n, S.inflight)
  PROVE  LET T == Inflight!Result(S, q)
         IN  /\ PreInv(T, c, a, b, stage)
             /\ T.batch = S.batch /\ T.last_batch = S.last_batch
<1> DEFINE g == Inflight!States(S, q, n)
<1>2. /\ g[0] = S
      /\ \A k \in 1..n : g[k] = InflightOne(g[k-1], q[k])
      /\ Inflight!Result(S, q) = g[n]
  BY Inflight!Loop
<1> HIDE DEF g
<1> DEFINE Q == {k \in 0..n : /\ PreInv(g[k], c, a, b, stage)
                              /\ g[k].batch = S.batch /\ g[k].last_batch = S.last_batch
                              /\ Ahead(q, k, n, g[k].inflight)}
<1>3. 0 \in Q
  BY <1>2
<1>4. ASSUME NEW k \in 1..n, k - 1 \in Q PROVE k \in Q
  <2>1. /\ PreInv(g[k-1], c, a, b, stage) /\ Ahead(q, k-1, n, g[k-1].inflight)
        /\ g[k-1].batch = S.batch /\ g[k-1].last_batch = S.last_batch
    BY <1>4
  <2>2. q[k] \in Range(g[k-1].inflight)
    BY ZenonT(60), <2>1, AheadNext
  <2>3. /\ PreInv(g[k], c, a, b, stage)
        /\ g[k].batch = g[k-1].batch /\ g[k].last_batch = g[k-1].last_batch
        /\ Range(g[k-1].inflight) \ {q[k]} \subseteq Range(g[k].inflight)
    BY <1>2, <2>1, <2>2, InflightOneKeeps
  <2>4. Ahead(q, k, n, g[k].inflight)
    BY ZenonT(60), <2>1, <2>3, AheadStep
  <2> QED
    BY <2>1, <2>3, <2>4
<1> HIDE DEF Q
<1>5. n \in Q
  <2>1. \A k \in 0..n : k \in Q
    BY ZenonT(60), <1>3, <1>4, Connect!UpTo
  <2> QED
    BY <2>1
<1> QED
  BY <1>2, <1>5 DEF Q

LEMMA InflightKeeps ==
  ASSUME NEW S, NEW c, NEW a, NEW b, NEW stage, PreInv(S, c, a, b, stage)
  PROVE  LET T == ProcessInflightQueue(S)
         IN  /\ PreInv(T, c, a, b, stage)
             /\ T.batch = S.batch /\ T.last_batch = S.last_batch
<1> DEFINE q == S.inflight
<1>1. /\ Len(q) \in Nat /\ DOMAIN q = 1..Len(q) /\ IsInjective(q) /\ Ahead(q, 0, Len(q), q)
  BY AheadStart DEF PreInv, PreQueues
<1>2. LET T == Inflight!Result(S, q)
      IN  /\ PreInv(T, c, a, b, stage)
          /\ T.batch = S.batch /\ T.last_batch = S.last_batch
  BY <1>1, InflightLoop
<1>3. ProcessInflightQueue(S) = Inflight!Result(S, q)
  BY DEF ProcessInflightQueue, FoldLeft, MapThenFoldSet, Inflight!Result,
         Inflight!FoldLeft, Inflight!MapThenFoldSet, Inflight!Max, Max
<1> QED
  BY <1>2, <1>3

(* The batch just launched becomes the one before; its results come in the *)
(* next round, or have come already without overlap.                       *)
Shifted(S, batch) == [S EXCEPT !.last_batch = batch, !.batch = <<>>]

LEMMA ShiftKeeps ==
  ASSUME NEW S, NEW c, NEW batch, NEW b, PreInv(S, c, {}, b, "made")
  PROVE  LET T == Shifted(S, batch)
         IN  /\ PreInv(T, c, b, {}, "open")
             /\ T.last_batch = batch /\ T.batch = <<>>
<1> DEFINE T == Shifted(S, batch)
<1>1. PreShape(S)
  BY DEF PreInv
<1>2. /\ PreShape(T) /\ T.req = S.req /\ T.last_batch = batch /\ T.batch = <<>>
      /\ T.bootstrap = S.bootstrap /\ T.waiting = S.waiting /\ T.inflight = S.inflight
      /\ T.chunked = S.chunked /\ T.abort_chunked = S.abort_chunked
      /\ T.free_buffers = S.free_buffers /\ T.status = S.status
      /\ T.transfers = S.transfers
  BY <1>1 DEF PreShape, PreFields, Shifted
<1> HIDE DEF T
<1>3. PreTyped(T) /\ PreQueues(T) /\ SameBuffers(S, T)
  BY <1>2 DEF PreInv, PreTyped, PreQueues, SameBuffers
<1>4. FreeBuffers(T, PrefillBuffers)
  BY <1>3, SameBuffersKeep DEF PreInv
<1>5. ASSUME NEW r \in Request PROVE PreReqAt(T, c, b, {}, "open", r)
  <2>1. PreReqAt(S, c, {}, b, "made", r)
    BY SMTT(60) DEF PreInv
  <2>2. PreReqAt(S, c, b, {}, "open", r)
    BY <2>1, NoEntries DEF PreReqAt, PreReqOK
  <2> QED
    BY <1>2, <2>2 DEF PreReqAt
<1>6. PreInv(T, c, b, {}, "open")
  BY <1>2, <1>3, <1>4, <1>5 DEF PreInv
<1> QED
  BY <1>2, <1>6 DEF T

-----------------------------------------------------------------------------
(* The prefill instance between two steps of its scheduler: in the         *)
(* overlapped loop the results of the batch before are still to come.      *)
Older(S, c) == IF c.overlap THEN Range(S.last_batch) ELSE {}

Stage(p) == IF p = "result" THEN "made" ELSE "open"

PreSide(S, c, p) ==
    /\ PreInv(S, c, Older(S, c), Range(S.batch), Stage(p))
    /\ Once(S.batch) /\ (c.overlap => Once(S.last_batch))
    /\ p # "result" => S.batch = <<>>

LEMMA PreSideStill ==
  ASSUME NEW S, NEW T, NEW c, NEW p, PreSide(S, c, p), Still(S, T)
  PROVE  PreSide(T, c, p)
<1> DEFINE a == Older(S, c)
           b == Range(S.batch)
           s == Stage(p)
<1>1. PreInv(S, c, a, b, s) /\ T.batch = S.batch /\ T.last_batch = S.last_batch
  BY SMTT(60) DEF PreSide, Still, SamePlaces
<1>2. Older(T, c) = a /\ Range(T.batch) = b
  BY <1>1 DEF Older
<1> HIDE DEF a, b, s
<1>3. PreInv(T, c, a, b, s)
  BY <1>1, PreInvStill
<1> QED
  BY <1>1, <1>2, <1>3 DEF PreSide, s

LEMMA PreSideInit ==
  ASSUME NEW c \in Configs
  PROVE  PreSide(PrefillInit(c), c, "recv")
<1> DEFINE S == PrefillInit(c)
<1>1. /\ DOMAIN S = PreFields /\ S.bootstrap = <<>> /\ S.waiting = <<>> /\ S.inflight = <<>>
      /\ S.chunked = Nil /\ S.abort_chunked = Nil /\ S.batch = <<>> /\ S.last_batch = <<>>
      /\ S.free_buffers = [i \in 1 .. PrefillBuffers |-> i]
      /\ S.status = [r \in Request |-> Absent] /\ S.transfers = <<>>
      /\ S.req = [r \in Request |-> NewPrefillReq(c.len[r])]
  BY DEF PrefillInit, PreFields
<1> HIDE DEF S
<1>2. ASSUME NEW r \in Request
      PROVE  /\ DOMAIN S.req[r] = PreReqFields /\ S.req[r].arrived = FALSE
             /\ S.req[r].len = c.len[r] /\ S.req[r].kv = FALSE /\ S.req[r].end = 0
             /\ S.req[r].chunks = 0 /\ S.req[r].pending_bootstrap = FALSE
             /\ S.req[r].aborted = FALSE /\ S.req[r].buffer = Nil /\ S.req[r].answers = 0
  <2>1. S.req[r] = NewPrefillReq(c.len[r])
    BY <1>1
  <2> QED
    BY <2>1 DEF NewPrefillReq, PreReqFields
<1>3. PreShape(S)
  BY ZenonT(60), <1>1, <1>2 DEF PreShape
<1>4. PreTyped(S)
  BY <1>1, RoomsEmpty DEF PreTyped, Status
<1>5. PreQueues(S)
  BY <1>1, DistinctEmpty DEF PreQueues
<1>6. FreeBuffers(S, PrefillBuffers)
  <2> DEFINE n == PrefillBuffers
  <2>1. n \in Nat /\ S.free_buffers = [i \in 1 .. n |-> i]
    BY <1>1, Sizes
  <2>2. \A r \in Request : S.req[r].buffer = Nil
    BY ZenonT(60), <1>2
  <2> HIDE DEF n
  <2>3. FreeBuffers(S, n)
    BY <2>1, <2>2, FreshBuffers
  <2> QED
    BY <2>3 DEF n
<1>7. ASSUME NEW r \in Request PROVE PreReqAt(S, c, {}, {}, "open", r)
  <2>1. /\ r \notin Range(S.bootstrap) /\ r \notin Range(S.waiting) /\ r \notin Range(S.inflight)
        /\ S.chunked # r
    BY <1>1, DistinctEmpty, PDAssumption
  <2>2. 0 \in 0 .. c.len[r]
    BY ConfigFacts
  <2> QED
    BY ZenonT(60), <1>2, <2>1, <2>2, NoEntries DEF PreReqAt, PreReqOK
<1>8. PreInv(S, c, {}, {}, "open")
  BY <1>3, <1>4, <1>5, <1>6, <1>7 DEF PreInv
<1>9. Older(S, c) = {} /\ Range(S.batch) = {} /\ Stage("recv") = "open"
  BY <1>1, OnceEmpty DEF Older, Stage
<1>10. PreSide(S, c, "recv")
  BY ZenonT(60), <1>1, <1>8, <1>9, OnceEmpty DEF PreSide
<1> QED
  BY <1>10 DEF S

(* The steps of the prefill scheduler. *)
LEMMA OpenSide ==
  ASSUME NEW S, NEW T, NEW c, NEW p, PreSide(S, c, p), p # "result",
         PreInv(T, c, Older(S, c), {}, "open"), T.batch = S.batch, T.last_batch = S.last_batch,
         NEW t, t # "result"
  PROVE  PreSide(T, c, t)
<1>1. T.batch = <<>> /\ Older(T, c) = Older(S, c) /\ Stage(t) = "open"
  BY DEF PreSide, Older, Stage
<1>2. Range(T.batch) = {}
  BY <1>1, OnceEmpty
<1> QED
  BY ZenonT(60), <1>1, <1>2 DEF PreSide

LEMMA SideOpen ==
  ASSUME NEW S, NEW c, NEW p, PreSide(S, c, p), p # "result"
  PROVE  PreInv(S, c, Older(S, c), {}, "open") /\ (~c.overlap => Older(S, c) = {})
<1>1. Range(S.batch) = {} /\ Stage(p) = "open"
  BY OnceEmpty DEF PreSide, Stage
<1> QED
  BY <1>1 DEF PreSide, Older

LEMMA ReceiveSide ==
  ASSUME NEW S, NEW c, PreSide(S, c, "recv"), NEW r \in Request, ~S.req[r].arrived
  PROVE  PreSide(PrefillReceive(S, r), c, "recv")
<1> DEFINE T == PrefillReceive(S, r)
           a == Older(S, c)
<1>1. PreInv(S, c, a, {}, "open")
  BY SideOpen
<1> HIDE DEF a
<1>2. PreInv(T, c, a, {}, "open") /\ T.batch = S.batch /\ T.last_batch = S.last_batch
  BY <1>1, PrefillReceiveKeeps
<1> HIDE DEF T
<1>3. PreSide(T, c, "recv")
  BY <1>2, OpenSide DEF a
<1> QED
  BY <1>3 DEF T

LEMMA AbortSide ==
  ASSUME NEW S, NEW c, PreSide(S, c, "recv"), NEW r \in Request, S.req[r].arrived
  PROVE  PreSide(PrefillAbort(S, r), c, "recv")
<1> DEFINE T == PrefillAbort(S, r)
           a == Older(S, c)
<1>1. PreInv(S, c, a, {}, "open")
  BY SideOpen
<1>2. PreInv(T, c, a, {}, "open") /\ T.batch = S.batch /\ T.last_batch = S.last_batch
  BY <1>1, PrefillAbortKeeps
<1> HIDE DEF T
<1>3. PreSide(T, c, "recv")
  BY <1>2, OpenSide DEF a
<1> QED
  BY <1>3 DEF T

LEMMA PopSide ==
  ASSUME NEW S, PreSide(S, config, "recv")
  PROVE  PreSide(PopBootstrapped(S, config.max_attempts), config, "plan")
<1> DEFINE T == PopBootstrapped(S, config.max_attempts)
           a == Older(S, config)
<1>1. PreInv(S, config, a, {}, "open")
  BY SideOpen
<1> HIDE DEF a
<1>2. PreInv(T, config, a, {}, "open") /\ T.batch = S.batch /\ T.last_batch = S.last_batch
  BY <1>1, PopBootstrappedKeeps
<1> HIDE DEF T
<1>3. PreSide(T, config, "plan")
  BY <1>2, OpenSide DEF a
<1> QED
  BY <1>3 DEF T

LEMMA PlanSide ==
  ASSUME NEW S, NEW c \in Configs, PreSide(S, c, "plan")
  PROVE  PreSide(NextPrefillBatch(S, c), c, "result")
<1> DEFINE T == NextPrefillBatch(S, c)
           a == Older(S, c)
<1>1. PreInv(S, c, a, {}, "open") /\ (~c.overlap => a = {})
  BY SideOpen
<1> HIDE DEF a
<1>2. /\ PreInv(T, c, a, Range(T.batch), "made") /\ Once(T.batch)
      /\ T.last_batch = S.last_batch
  BY <1>1, NextBatchKeeps
<1> HIDE DEF T
<1>3. Older(T, c) = a /\ Stage("result") = "made"
  BY <1>2 DEF Older, Stage, a
<1>4. PreSide(T, c, "result")
  BY <1>2, <1>3 DEF PreSide
<1> QED
  BY <1>4 DEF T

LEMMA ResultSide ==
  ASSUME NEW S, config \in Configs, PreSide(S, config, "result")
  PROVE  LET batch == IF config.overlap THEN S.last_batch ELSE S.batch
             T == [ProcessInflightQueue(ProcessBatchResult(S, batch, config))
                      EXCEPT !.last_batch = S.batch, !.batch = <<>>]
         IN  PreSide(T, config, "recv")
<1> DEFINE c == config
           batch == IF c.overlap THEN S.last_batch ELSE S.batch
           later == IF c.overlap THEN Range(S.batch) ELSE {}
           B == ProcessBatchResult(S, batch, config)
           I == ProcessInflightQueue(B)
           T == Shifted(I, S.batch)
<1>1. /\ PreInv(S, c, Older(S, c), Range(S.batch), "made")
      /\ Once(S.batch) /\ (c.overlap => Once(S.last_batch))
  BY DEF PreSide, Stage
<1>2. PreInv(S, c, Range(batch), later, "made") /\ Once(batch)
  <2>1. CASE c.overlap
    BY <1>1, <2>1 DEF Older
  <2>2. CASE ~c.overlap
    <3>1. Older(S, c) = {} /\ batch = S.batch /\ later = {}
      BY <2>2 DEF Older
    <3>2. PreInv(S, c, {}, Range(S.batch), "made")
      BY <1>1, <3>1
    <3> DEFINE b == Range(S.batch)
    <3> HIDE DEF b, c
    <3>3. PreInv(S, c, b, {}, "made")
      BY <2>2, <3>2, ResultsAtOnce DEF b
    <3> QED
      BY <1>1, <3>1, <3>3 DEF b
  <2> QED
    BY <2>1, <2>2
<1> HIDE DEF batch, later
<1>3. PreInv(B, c, {}, later, "made") /\ B.batch = S.batch /\ B.last_batch = S.last_batch
  BY <1>2, BatchResultKeeps
<1> HIDE DEF B
<1>4. PreInv(I, c, {}, later, "made") /\ I.batch = S.batch
  BY <1>3, InflightKeeps
<1> HIDE DEF I
<1>5. PreInv(T, c, later, {}, "open") /\ T.last_batch = S.batch /\ T.batch = <<>>
  BY <1>4, ShiftKeeps
<1> HIDE DEF T
<1>6. Older(T, c) = later /\ Stage("recv") = "open" /\ Range(T.batch) = {}
  BY <1>5, OnceEmpty DEF Older, Stage, later
<1>7. PreSide(T, c, "recv")
  BY ZenonT(60), <1>1, <1>5, <1>6, OnceEmpty DEF PreSide
<1> QED
  BY <1>7 DEF T, I, B, batch, Shifted

-----------------------------------------------------------------------------
(* The inductive invariant of the whole system. *)
PhaseOK(p) ==
    /\ DOMAIN p = {"prefill", "decode"}
    /\ p.prefill \in {"recv", "plan", "result"} /\ p.decode \in {"recv", "transferred"}

Alive(w) == w.pc \in {"check", "look", "read", "write", "done", "conclude", "teardown", "pop"}

WorkerOK(w) ==
    /\ w.pc \in {"idle", "dead"} \/ Alive(w)
    /\ Alive(w) => {"pc", "chunk"} \subseteq DOMAIN w /\ w.chunk.room \in Request

Handling(t) == t.pc \in {"store", "look", "ready", "abort", "fail"}

MessageOK(t) ==
    /\ t.pc \in {"idle", "dead"} \/ Handling(t)
    /\ Handling(t) => {"pc", "room"} \subseteq DOMAIN t /\ t.room \in Request

ThreadOK(t) == t \in Request \union {"idle", "dead"}

PoolOK(k) == \A p \in Page : k[p] = Junk \/ k[p][1] \in Request

ThreadsOK ==
    /\ WorkerOK(worker) /\ MessageOK(bootstrap_thread) /\ ThreadOK(decode_thread)
    /\ Rooms(to_decode) /\ PoolOK(kv)

Inv ==
    /\ config \in Configs /\ PhaseOK(phase)
    /\ PreSide(pre, config, phase.prefill)
    /\ DecInv(dec, config) /\ dec.published = 0
    /\ ThreadsOK

LEMMA InvInit == Init => Inv
<1> SUFFICES ASSUME Init PROVE Inv
  BY SMTT(60)
<1>1. config \in Configs /\ PhaseOK(phase) /\ phase.prefill = "recv"
  BY DEF Init, PhaseOK
<1>2. PreSide(pre, config, "recv")
  BY <1>1, PreSideInit DEF Init
<1>3. DecInv(dec, config) /\ dec.published = 0
  BY <1>1, DecInitInv DEF Init
<1>4. ThreadsOK
  <2>1. WorkerOK(worker) /\ MessageOK(bootstrap_thread) /\ ThreadOK(decode_thread)
    BY DEF Init, NoChunk, NoMessage, WorkerOK, Alive, MessageOK, Handling, ThreadOK
  <2>2. Rooms(to_decode) /\ PoolOK(kv)
    BY RoomsEmpty DEF Init, PoolOK
  <2> QED
    BY <2>1, <2>2 DEF ThreadsOK
<1> QED
  BY <1>1, <1>2, <1>3, <1>4 DEF Inv

(* The parts that a step of one scheduler leaves alone. *)
LEMMA PrefillStep ==
  ASSUME Inv, UNCHANGED others, PhaseOK(phase)', PreSide(pre', config, phase'.prefill)
  PROVE  Inv'
BY DEF Inv, others, ThreadsOK, WorkerOK, MessageOK, ThreadOK, PoolOK, Alive, Handling

LEMMA DecodeStep ==
  ASSUME Inv, UNCHANGED elsewhere, PhaseOK(phase)', phase'.prefill = phase.prefill,
         DecInv(dec', config), dec'.published = 0
  PROVE  Inv'
BY DEF Inv, elsewhere, ThreadsOK, WorkerOK, MessageOK, ThreadOK, PoolOK, Alive, Handling

(* A step of a thread: the schedulers are where they were. *)
LEMMA ThreadStep ==
  ASSUME Inv, UNCHANGED <<config, phase>>,
         Still(pre, pre') \/ pre' = pre, Quiet(dec, dec') \/ dec' = dec, ThreadsOK'
  PROVE  Inv'
<1>1. PreSide(pre', config, phase.prefill)
  BY PreSideStill DEF Inv
<1>2. DecInv(dec', config) /\ dec'.published = 0
  BY DecInvQuiet DEF Inv, Quiet
<1>3. Inv'
  BY <1>1, <1>2 DEF Inv
<1> QED
  BY <1>3

LEMMA PrefillArrivesInv == ASSUME Inv, NEW r \in Request, PrefillArrives(r) PROVE Inv'
<1>1. ~pre.req[r].arrived /\ pre' = PrefillReceive(pre, r) /\ phase' = phase
      /\ phase.prefill = "recv" /\ UNCHANGED others
  BY SMTT(60) DEF PrefillArrives, Turn
<1>2. PreSide(pre, config, "recv")
  BY <1>1 DEF Inv
<1>3. PreSide(pre', config, "recv")
  BY <1>1, <1>2, ReceiveSide
<1>4. PhaseOK(phase)'
  BY <1>1 DEF Inv
<1> QED
  BY <1>1, <1>3, <1>4, PrefillStep

LEMMA PrefillAbortsInv == ASSUME Inv, NEW r \in Request, PrefillAborts(r) PROVE Inv'
<1>1. pre.req[r].arrived /\ pre' = PrefillAbort(pre, r) /\ phase' = phase
      /\ phase.prefill = "recv" /\ UNCHANGED others
  BY SMTT(60) DEF PrefillAborts
<1>2. PreSide(pre, config, "recv")
  BY <1>1 DEF Inv
<1>3. PreSide(pre', config, "recv")
  BY <1>1, <1>2, AbortSide
<1>4. PhaseOK(phase)'
  BY <1>1 DEF Inv
<1> QED
  BY <1>1, <1>3, <1>4, PrefillStep

LEMMA PrefillPopInv == ASSUME Inv, PrefillPop PROVE Inv'
<1>1. pre' = PopBootstrapped(pre, config.max_attempts) /\ phase.prefill = "recv"
      /\ phase' = [phase EXCEPT !.prefill = "plan"] /\ UNCHANGED others
  BY SMTT(60) DEF PrefillPop
<1>2. PreSide(pre, config, "recv")
  BY <1>1 DEF Inv
<1>3. PreSide(pre', config, "plan")
  BY <1>1, <1>2, PopSide
<1>4. PhaseOK(phase)' /\ phase'.prefill = "plan"
  BY <1>1 DEF Inv, PhaseOK
<1> QED
  BY <1>1, <1>3, <1>4, PrefillStep

LEMMA PrefillPlanInv == ASSUME Inv, PrefillPlan PROVE Inv'
<1>1. pre' = NextPrefillBatch(pre, config) /\ phase.prefill = "plan"
      /\ phase' = [phase EXCEPT !.prefill = "result"] /\ UNCHANGED others
  BY DEF PrefillPlan
<1>2. PreSide(pre, config, "plan") /\ config \in Configs
  BY <1>1 DEF Inv
<1>3. PreSide(pre', config, "result")
  BY <1>1, <1>2, PlanSide
<1>4. PhaseOK(phase)' /\ phase'.prefill = "result"
  BY <1>1 DEF Inv, PhaseOK
<1> QED
  BY <1>1, <1>3, <1>4, PrefillStep

LEMMA PrefillResultInv == ASSUME Inv, PrefillResult PROVE Inv'
<1> DEFINE batch == IF config.overlap THEN pre.last_batch ELSE pre.batch
           T == [ProcessInflightQueue(ProcessBatchResult(pre, batch, config))
                    EXCEPT !.last_batch = pre.batch, !.batch = <<>>]
<1>1. pre' = T /\ phase.prefill = "result"
      /\ phase' = [phase EXCEPT !.prefill = "recv"] /\ UNCHANGED others
  BY SMTT(60) DEF PrefillResult
<1>2. PreSide(pre, config, "result") /\ config \in Configs
  BY <1>1 DEF Inv
<1>3. PreSide(T, config, "recv")
  BY ZenonT(60), <1>2, ResultSide
<1> HIDE DEF T
<1>4. PhaseOK(phase)' /\ phase'.prefill = "recv"
  BY <1>1 DEF Inv, PhaseOK
<1> QED
  BY <1>1, <1>3, <1>4, PrefillStep

LEMMA DecodeArrivesInv == ASSUME Inv, NEW r \in Request, DecodeArrives(r) PROVE Inv'
<1>1. PICK resolved \in {TRUE, ~config.unresolved} : dec' = DecodeReceive(dec, r, resolved)
  BY ZenonT(60) DEF DecodeArrives
<1>2. ~dec.req[r].arrived /\ UNCHANGED <<phase, elsewhere>>
  BY DEF DecodeArrives, Turn
<1>3. config \in Configs /\ DecInv(dec, config)
  BY DEF Inv
<1>4. DecInv(dec', config) /\ dec'.published = dec.published
  BY <1>1, <1>2, <1>3, DecodeReceiveKeeps
<1>5. PhaseOK(phase)' /\ phase'.prefill = phase.prefill /\ UNCHANGED elsewhere
      /\ dec.published = 0
  BY <1>2 DEF Inv
<1> QED
  BY <1>4, <1>5, DecodeStep

LEMMA DecodeAbortsInv == ASSUME Inv, NEW r \in Request, DecodeAborts(r) PROVE Inv'
<1>1. dec' = DecodeAbort(dec, r) /\ UNCHANGED <<phase, elsewhere>>
  BY SMTT(60) DEF DecodeAborts
<1>2. config \in Configs /\ DecInv(dec, config)
  BY DEF Inv
<1>3. DecInv(dec', config) /\ dec'.published = dec.published
  BY <1>1, <1>2, DecodeAbortKeeps
<1>4. PhaseOK(phase)' /\ phase'.prefill = phase.prefill /\ UNCHANGED elsewhere
      /\ dec.published = 0
  BY <1>1 DEF Inv
<1> QED
  BY <1>3, <1>4, DecodeStep

LEMMA DecodeEndsInv == ASSUME Inv, NEW r \in Request, DecodeEnds(r) PROVE Inv'
<1>1. dec' = DecodeFinish(dec, r) /\ r \in dec.running /\ UNCHANGED <<phase, elsewhere>>
  BY DEF DecodeEnds
<1>2. config \in Configs /\ DecInv(dec, config)
  BY DEF Inv
<1>3. DecInv(dec', config) /\ dec'.published = dec.published
  BY <1>1, <1>2, FinishGone
<1>4. PhaseOK(phase)' /\ phase'.prefill = phase.prefill /\ UNCHANGED elsewhere
      /\ dec.published = 0
  BY <1>1 DEF Inv
<1> QED
  BY <1>3, <1>4, DecodeStep

LEMMA DecodePreallocInv == ASSUME Inv, DecodePrealloc PROVE Inv'
<1>1. PICK reachable \in BOOLEAN : dec' = PopPreallocated(dec, reachable)
  BY SMTT(60) DEF DecodePrealloc
<1>2. phase' = [phase EXCEPT !.decode = "transferred"] /\ UNCHANGED elsewhere
  BY DEF DecodePrealloc
<1>3. config \in Configs /\ DecInv(dec, config) /\ dec.published = 0
  BY DEF Inv
<1>4. DecInv(dec', config) /\ dec'.published = 0
  BY <1>1, <1>3, PopPreallocatedKeeps
<1>5. PhaseOK(phase)' /\ phase'.prefill = phase.prefill
  BY <1>2 DEF Inv, PhaseOK
<1> QED
  BY <1>2, <1>4, <1>5, DecodeStep

LEMMA DecodeTransferredInv == ASSUME Inv, DecodeTransferred PROVE Inv'
<1>1. /\ dec' = PopTransferred(dec)
      /\ phase' = [phase EXCEPT !.decode = "recv"] /\ UNCHANGED elsewhere
  BY SMTT(60) DEF DecodeTransferred
<1>2. config \in Configs /\ DecInv(dec, config) /\ dec.published = 0
  BY DEF Inv
<1>3. DecInv(dec', config) /\ dec'.published = 0
  BY <1>1, <1>2, PopTransferredKeeps
<1>4. PhaseOK(phase)' /\ phase'.prefill = phase.prefill
  BY <1>1 DEF Inv, PhaseOK
<1> QED
  BY <1>1, <1>3, <1>4, DecodeStep

(* What the threads rely on. *)
LEMMA Shapes ==
  ASSUME Inv
  PROVE  /\ PreShape(pre) /\ DecShape(dec) /\ Rooms(pre.transfers)
         /\ dec.outbox \in Seq(Message)
         /\ WorkerOK(worker) /\ MessageOK(bootstrap_thread) /\ ThreadOK(decode_thread)
         /\ Rooms(to_decode) /\ PoolOK(kv)
BY DEF Inv, PreSide, PreInv, PreTyped, DecInv, DecTyped, ThreadsOK

LEMMA Polls == Failed \in KVPoll /\ WaitingForInput \in KVPoll /\ Success \in KVPoll
               /\ Failed # WaitingForInput /\ Success # WaitingForInput
BY DEF KVPoll, Failed, WaitingForInput, Success

LEMMA BootstrapTimeoutInv == ASSUME Inv, NEW r \in Request, BootstrapTimeout(r) PROVE Inv'
<1> DEFINE v == pre.overdue \union {r}
<1>1. pre' = [pre EXCEPT !.overdue = v] /\ UNCHANGED <<phase, others>>
  BY DEF BootstrapTimeout
<1> HIDE DEF v
<1>2. Still(pre, pre')
  BY ZenonT(60), <1>1, Shapes, StillTable
<1>3. ThreadsOK'
  BY <1>1 DEF Inv, others, ThreadsOK, WorkerOK, MessageOK, ThreadOK, PoolOK, Alive, Handling
<1> QED
  BY <1>1, <1>2, <1>3, ThreadStep DEF others

LEMMA WaitingTimeoutInv == ASSUME Inv, NEW r \in Request, WaitingTimeout(r) PROVE Inv'
<1> DEFINE v == dec.overdue \union {r}
<1>1. dec' = [dec EXCEPT !.overdue = v] /\ UNCHANGED <<phase, elsewhere>>
  BY DEF WaitingTimeout
<1> HIDE DEF v
<1>2. Quiet(dec, dec')
  BY ZenonT(60), <1>1, Shapes, QuietThreads
<1>3. ThreadsOK'
  BY <1>1 DEF Inv, elsewhere, ThreadsOK, WorkerOK, MessageOK, ThreadOK, PoolOK, Alive, Handling
<1> QED
  BY <1>1, <1>2, <1>3, ThreadStep DEF elsewhere

LEMMA StillInfos ==
  ASSUME NEW S, PreShape(S), NEW room, NEW v
  PROVE  Still(S, [S EXCEPT !.infos[room] = v])
<1> DEFINE i == [S.infos EXCEPT ![room] = v]
<1>1. [S EXCEPT !.infos[room] = v] = [S EXCEPT !.infos = i]
  OBVIOUS
<1> HIDE DEF i
<1> QED
  BY ZenonT(60), <1>1, StillTable

LEMMA StillPrefixLen ==
  ASSUME NEW S, PreShape(S), NEW room, NEW v
  PROVE  Still(S, [S EXCEPT !.prefix_len[room] = v])
<1> DEFINE l == [S.prefix_len EXCEPT ![room] = v]
<1>1. [S EXCEPT !.prefix_len[room] = v] = [S EXCEPT !.prefix_len = l]
  OBVIOUS
<1> HIDE DEF l
<1> QED
  BY ZenonT(60), <1>1, StillTable

LEMMA ReceiveMetadataInv == ASSUME Inv, ReceiveMetadata PROVE Inv'
<1> DEFINE msg == Head(dec.outbox)
           room == msg.room
           v == IF pre.infos[room] = NoInfo THEN EmptyInfo ELSE pre.infos[room]
<1>1. /\ dec.outbox # <<>> /\ pre' = [pre EXCEPT !.infos[room] = v]
      /\ bootstrap_thread' = [pc |-> "store", room |-> room, info |-> msg.info]
      /\ dec' = [dec EXCEPT !.outbox = Tail(@)]
      /\ UNCHANGED <<config, phase, worker, decode_thread, to_decode, kv>>
  BY SMTT(60) DEF ReceiveMetadata
<1>2. PreShape(pre) /\ DecShape(dec) /\ room \in Request
  <2>1. dec.outbox \in Seq(Message) /\ PreShape(pre) /\ DecShape(dec)
    BY Shapes
  <2>2. msg \in Message
    BY <1>1, <2>1
  <2> HIDE DEF msg
  <2> QED
    BY <2>1, <2>2 DEF Message
<1> HIDE DEF room, msg, v
<1>3. Still(pre, pre')
  BY <1>1, <1>2, StillInfos
<1>4. Quiet(dec, dec')
  BY <1>1, <1>2, QuietTail
<1>5. MessageOK(bootstrap_thread')
  BY <1>1, <1>2 DEF MessageOK, Handling
<1>6. ThreadsOK'
  BY <1>1, <1>5 DEF Inv, ThreadsOK, WorkerOK, MessageOK, Handling, ThreadOK, PoolOK, Alive
<1> QED
  BY <1>1, <1>3, <1>4, <1>6, ThreadStep

LEMMA StoreMetadataInv == ASSUME Inv, StoreMetadata PROVE Inv'
<1> DEFINE t == bootstrap_thread
           v == t.info
<1>1. /\ t.pc = "store"
      /\ bootstrap_thread' \in {[pc |-> "dead"], [t EXCEPT !.pc = "look"]}
      /\ pre' \in {pre, [pre EXCEPT !.infos[t.room] = v]}
      /\ UNCHANGED <<config, dec, phase, worker, decode_thread, to_decode, kv>>
  BY SMTT(60) DEF StoreMetadata
<1>2. PreShape(pre) /\ MessageOK(t)
  BY Shapes
<1>3. MessageOK(bootstrap_thread')
  BY <1>1, <1>2 DEF MessageOK, Handling
<1> HIDE DEF v
<1>4. Still(pre, pre') \/ pre' = pre
  BY <1>1, <1>2, StillInfos
<1>5. ThreadsOK'
  BY <1>1, <1>3 DEF Inv, ThreadsOK, WorkerOK, MessageOK, Handling, ThreadOK, PoolOK, Alive
<1> QED
  BY <1>1, <1>4, <1>5, ThreadStep

LEMMA LookAtMetadataInv == ASSUME Inv, LookAtMetadata PROVE Inv'
<1> DEFINE t == bootstrap_thread
<1>1. /\ t.pc = "look"
      /\ bootstrap_thread' \in {[pc |-> "dead"], [t EXCEPT !.pc = "ready"]}
      /\ UNCHANGED <<config, pre, dec, phase, worker, decode_thread, to_decode, kv>>
  BY SMTT(60) DEF LookAtMetadata
<1>2. MessageOK(bootstrap_thread')
  BY <1>1, Shapes DEF MessageOK, Handling
<1>3. ThreadsOK'
  BY <1>1, <1>2 DEF Inv, ThreadsOK, WorkerOK, MessageOK, Handling, ThreadOK, PoolOK, Alive
<1> QED
  BY <1>1, <1>3, ThreadStep

LEMMA RoomReadyInv == ASSUME Inv, RoomReady PROVE Inv'
<1> DEFINE room == bootstrap_thread.room
           v == bootstrap_thread.info.decode_prefix
           A == [pre EXCEPT !.prefix_len[room] = v]
<1>1. /\ bootstrap_thread.pc = "ready" /\ bootstrap_thread' = NoMessage
      /\ pre' = UpdateStatus(A, room, WaitingForInput)
      /\ UNCHANGED <<config, dec, phase, worker, decode_thread, to_decode, kv>>
  BY SMTT(60) DEF RoomReady
<1>2. PreShape(pre) /\ room \in Request
  BY <1>1, Shapes DEF MessageOK, Handling
<1> HIDE DEF room, v
<1>3. Still(pre, A) /\ PreShape(A)
  BY <1>2, StillPrefixLen, StillShape
<1> HIDE DEF A
<1>4. Still(pre, pre')
  <2>1. Still(A, pre')
    BY <1>1, <1>2, <1>3, Polls, StillStatus
  <2> QED
    BY <1>3, <2>1, StillTrans
<1>5. ThreadsOK'
  BY <1>1 DEF Inv, ThreadsOK, WorkerOK, MessageOK, Handling, NoMessage, ThreadOK, PoolOK, Alive
<1> QED
  BY <1>1, <1>4, <1>5, ThreadStep

LEMMA ReceiveAbortInv == ASSUME Inv, ReceiveAbort PROVE Inv'
<1> DEFINE room == Head(dec.outbox).room
<1>1. /\ dec.outbox # <<>>
      /\ bootstrap_thread' \in {NoMessage, [pc |-> "abort", room |-> room]}
      /\ dec' = [dec EXCEPT !.outbox = Tail(@)]
      /\ UNCHANGED <<config, pre, phase, worker, decode_thread, to_decode, kv>>
  BY SMTT(60) DEF ReceiveAbort
<1>2. DecShape(dec) /\ room \in Request
  <2> DEFINE msg == Head(dec.outbox)
  <2>1. dec.outbox \in Seq(Message) /\ DecShape(dec)
    BY Shapes
  <2>2. msg \in Message
    BY <1>1, <2>1
  <2> HIDE DEF msg
  <2>3. msg.room \in Request
    BY <2>2 DEF Message
  <2> QED
    BY <2>1, <2>3 DEF msg
<1> HIDE DEF room
<1>3. Quiet(dec, dec')
  BY <1>1, <1>2, QuietTail
<1>4. MessageOK(bootstrap_thread')
  BY <1>1, <1>2 DEF MessageOK, Handling, NoMessage
<1>5. ThreadsOK'
  BY <1>1, <1>4 DEF Inv, ThreadsOK, WorkerOK, MessageOK, Handling, ThreadOK, PoolOK, Alive
<1> QED
  BY <1>1, <1>3, <1>5, ThreadStep

LEMMA CheckAbortInv == ASSUME Inv, CheckAbort PROVE Inv'
<1> DEFINE t == bootstrap_thread
<1>1. /\ t.pc = "abort"
      /\ bootstrap_thread' \in {[pc |-> "dead"], NoMessage, [t EXCEPT !.pc = "fail"]}
      /\ UNCHANGED <<config, pre, dec, phase, worker, decode_thread, to_decode, kv>>
  BY SMTT(60) DEF CheckAbort
<1>2. MessageOK(bootstrap_thread')
  BY <1>1, Shapes DEF MessageOK, Handling, NoMessage
<1>3. ThreadsOK'
  BY <1>1, <1>2 DEF Inv, ThreadsOK, WorkerOK, MessageOK, Handling, ThreadOK, PoolOK, Alive
<1> QED
  BY <1>1, <1>3, ThreadStep

LEMMA HandleAbortInv == ASSUME Inv, HandleAbort PROVE Inv'
<1> DEFINE room == bootstrap_thread.room
<1>1. /\ bootstrap_thread.pc = "fail" /\ bootstrap_thread' = NoMessage
      /\ pre' = UpdateStatus(pre, room, Failed)
      /\ UNCHANGED <<config, dec, phase, worker, decode_thread, to_decode, kv>>
  BY SMTT(60) DEF HandleAbort
<1>2. PreShape(pre) /\ room \in Request
  BY <1>1, Shapes DEF MessageOK, Handling
<1> HIDE DEF room
<1>3. Still(pre, pre')
  BY <1>1, <1>2, Polls, StillStatus
<1>4. ThreadsOK'
  BY <1>1 DEF Inv, ThreadsOK, WorkerOK, MessageOK, Handling, NoMessage, ThreadOK, PoolOK, Alive
<1> QED
  BY <1>1, <1>3, <1>4, ThreadStep

(* The worker keeps its tables and tells the decode instance. *)
LEMMA StillOutstanding ==
  ASSUME NEW S, PreShape(S), NEW room, NEW v
  PROVE  Still(S, [S EXCEPT !.outstanding[room] = v])
<1> DEFINE o == [S.outstanding EXCEPT ![room] = v]
<1>1. [S EXCEPT !.outstanding[room] = v] = [S EXCEPT !.outstanding = o]
  OBVIOUS
<1> HIDE DEF o
<1> QED
  BY ZenonT(60), <1>1, StillTable

LEMMA ReportRooms ==
  ASSUME Inv, NEW room \in Request, NEW status
  PROVE  Rooms(Report(room, status))
<1> DEFINE m == [room |-> room, status |-> status]
<1>1. m.room \in Request /\ Rooms(to_decode)
  BY Shapes
<1> HIDE DEF m
<1>2. Rooms(Append(to_decode, m))
  BY <1>1, RoomsAppend
<1> QED
  BY <1>2 DEF Report, m

(* A copy puts KV of the chunk's request, or junk, into pages. *)
LEMMA CopiesPool ==
  ASSUME PoolOK(kv), NEW c, NEW info, NEW written, c.room \in Request,
         NEW k \in Copies(c, info, written)
  PROVE  PoolOK(k)
<1>1. ASSUME NEW p \in Page
      PROVE  k[p] = kv[p] \/ k[p] = Junk \/ \E i : k[p] = <<c.room, i>>
  BY DEF Copies
<1> QED
  BY <1>1 DEF PoolOK

LEMMA WorkerTakesInv == ASSUME Inv, WorkerTakes PROVE Inv'
<1> DEFINE c == Head(pre.transfers)
           t == Tail(pre.transfers)
           A == [pre EXCEPT !.transfers = t]
           v == IF pre.status[c.room] = Absent THEN 0 ELSE pre.outstanding[c.room]
<1>1. /\ pre.transfers # <<>> /\ worker' \in {NoChunk, [pc |-> "check", chunk |-> c]}
      /\ pre' = [pre EXCEPT !.transfers = t, !.outstanding[c.room] = v]
      /\ UNCHANGED <<phase, config, dec, bootstrap_thread, decode_thread, to_decode, kv>>
  BY SMTT(60) DEF WorkerTakes
<1>2. PreShape(pre) /\ Rooms(t) /\ c.room \in Request
  BY <1>1, Shapes, RoomsTail
<1>3. pre' = [A EXCEPT !.outstanding[c.room] = v]
  BY <1>1
<1> HIDE DEF c, t, v
<1>4. Still(pre, A) /\ PreShape(A)
  BY <1>2, StillTransfers, StillShape
<1> HIDE DEF A
<1>5. Still(pre, pre')
  BY <1>3, <1>4, StillOutstanding, StillTrans
<1>6. WorkerOK(worker)'
  BY <1>1, <1>2 DEF WorkerOK, Alive, NoChunk
<1>7. ThreadsOK'
  BY <1>1, <1>6 DEF Inv, ThreadsOK, MessageOK, Handling, ThreadOK, PoolOK
<1> QED
  BY <1>1, <1>5, <1>7, ThreadStep

LEMMA WorkerChecksInv == ASSUME Inv, WorkerChecks PROVE Inv'
<1> DEFINE room == worker.chunk.room
           v == pre.outstanding[room] + 1
<1>1. /\ worker.pc = "check"
      /\ worker' \in {[pc |-> "dead"], NoChunk, [pc |-> "look", chunk |-> worker.chunk]}
      /\ pre' \in {pre, [pre EXCEPT !.outstanding[room] = 0], [pre EXCEPT !.outstanding[room] = v]}
      /\ UNCHANGED <<phase, config, dec, bootstrap_thread, decode_thread, to_decode, kv>>
  BY SMTT(60) DEF WorkerChecks
<1>2. PreShape(pre) /\ room \in Request
  BY <1>1, Shapes DEF WorkerOK, Alive
<1>3. WorkerOK(worker)'
  BY <1>1, <1>2 DEF WorkerOK, Alive, NoChunk
<1> HIDE DEF room, v
<1>4. Still(pre, pre') \/ pre' = pre
  BY <1>1, <1>2, StillOutstanding
<1>5. ThreadsOK'
  BY <1>1, <1>3 DEF Inv, ThreadsOK, MessageOK, Handling, ThreadOK, PoolOK
<1> QED
  BY <1>1, <1>4, <1>5, ThreadStep

LEMMA WorkerLooksInv == ASSUME Inv, WorkerLooks PROVE Inv'
<1>1. /\ worker.pc = "look"
      /\ worker' \in {[worker EXCEPT !.pc = "done"], [worker EXCEPT !.pc = "read"]}
      /\ UNCHANGED <<phase, config, pre, dec, bootstrap_thread, decode_thread, to_decode, kv>>
  BY SMTT(60) DEF WorkerLooks
<1>2. WorkerOK(worker)'
  BY <1>1, Shapes DEF WorkerOK, Alive
<1>3. ThreadsOK'
  BY <1>1, <1>2 DEF Inv, ThreadsOK, MessageOK, Handling, ThreadOK, PoolOK
<1> QED
  BY <1>1, <1>3, ThreadStep

LEMMA WorkerReadsInv == ASSUME Inv, WorkerReads PROVE Inv'
<1> DEFINE info == pre.infos[worker.chunk.room]
<1>1. /\ worker.pc = "read"
      /\ worker' \in {[pc |-> "dead"], [worker EXCEPT !.pc = "done"],
                      [pc |-> "write", chunk |-> worker.chunk, info |-> info]}
      /\ UNCHANGED <<phase, config, pre, dec, bootstrap_thread, decode_thread, to_decode, kv>>
  BY SMTT(60) DEF WorkerReads
<1>2. WorkerOK(worker)'
  BY <1>1, Shapes DEF WorkerOK, Alive
<1>3. ThreadsOK'
  BY <1>1, <1>2 DEF Inv, ThreadsOK, MessageOK, Handling, ThreadOK, PoolOK
<1> QED
  BY <1>1, <1>3, ThreadStep

LEMMA WorkerWritesInv == ASSUME Inv, WorkerWrites PROVE Inv'
<1> DEFINE c == worker.chunk
           room == worker.chunk.room
<1>1. /\ worker.pc = "write" /\ kv' \in Copies(c, worker.info, 1 .. c.pages)
      /\ \/ pre' = UpdateStatus(pre, room, Success) /\ to_decode' = Report(room, Success)
         \/ pre' = pre /\ to_decode' = to_decode
      /\ worker' = [pc |-> "done", chunk |-> c]
      /\ UNCHANGED <<phase, config, dec, bootstrap_thread, decode_thread>>
  BY SMTT(60) DEF WorkerWrites
<1>2. /\ PreShape(pre) /\ room \in Request /\ c.room \in Request /\ PoolOK(kv)
      /\ Rooms(to_decode)
  BY <1>1, Shapes DEF WorkerOK, Alive
<1>3. WorkerOK(worker)'
  BY <1>1, <1>2 DEF WorkerOK, Alive
<1> HIDE DEF c, room
<1>4. PoolOK(kv')
  BY <1>1, <1>2, CopiesPool
<1>5. Rooms(to_decode')
  BY <1>1, <1>2, ReportRooms
<1>6. Still(pre, pre') \/ pre' = pre
  BY <1>1, <1>2, Polls, StillStatus
<1>7. ThreadsOK'
  BY <1>1, <1>3, <1>4, <1>5 DEF Inv, ThreadsOK, MessageOK, Handling, ThreadOK, PoolOK, Rooms
<1> QED
  BY <1>1, <1>6, <1>7, ThreadStep

LEMMA WorkerFailsInv == ASSUME Inv, WorkerFails PROVE Inv'
<1> DEFINE c == worker.chunk
           room == worker.chunk.room
<1>1. /\ worker.pc = "write"
      /\ kv' = kv \/ \E written : kv' \in Copies(c, worker.info, written)
      /\ pre' = UpdateStatus(pre, room, Failed) /\ to_decode' = Report(room, Failed)
      /\ worker' = [pc |-> "done", chunk |-> c]
      /\ UNCHANGED <<phase, config, dec, bootstrap_thread, decode_thread>>
  BY SMTT(60) DEF WorkerFails
<1>2. /\ PreShape(pre) /\ room \in Request /\ c.room \in Request /\ PoolOK(kv)
  BY <1>1, Shapes DEF WorkerOK, Alive
<1>3. WorkerOK(worker)'
  BY <1>1, <1>2 DEF WorkerOK, Alive
<1> HIDE DEF c, room
<1>4. PoolOK(kv')
  BY <1>1, <1>2, CopiesPool
<1>5. Rooms(to_decode')
  BY <1>1, <1>2, ReportRooms
<1>6. Still(pre, pre')
  BY <1>1, <1>2, Polls, StillStatus
<1>7. ThreadsOK'
  BY <1>1, <1>3, <1>4, <1>5 DEF Inv, ThreadsOK, MessageOK, Handling, ThreadOK, PoolOK, Rooms
<1> QED
  BY <1>1, <1>6, <1>7, ThreadStep

LEMMA WorkerCountsInv == ASSUME Inv, WorkerCounts PROVE Inv'
<1> DEFINE room == worker.chunk.room
           v == pre.outstanding[room] - 1
<1>1. /\ worker.pc = "done"
      /\ worker' \in {NoChunk, [worker EXCEPT !.pc = "teardown"],
                      [worker EXCEPT !.pc = "conclude"]}
      /\ pre' = [pre EXCEPT !.outstanding[room] = v]
      /\ UNCHANGED <<phase, config, dec, bootstrap_thread, decode_thread, to_decode, kv>>
  BY SMTT(60) DEF WorkerCounts
<1>2. PreShape(pre) /\ WorkerOK(worker)
  BY Shapes
<1>3. WorkerOK(worker)'
  BY <1>1, <1>2 DEF WorkerOK, Alive, NoChunk
<1> HIDE DEF room, v
<1>4. Still(pre, pre')
  BY <1>1, <1>2, StillOutstanding
<1>5. ThreadsOK'
  BY <1>1, <1>3 DEF Inv, ThreadsOK, MessageOK, Handling, ThreadOK, PoolOK
<1> QED
  BY <1>1, <1>4, <1>5, ThreadStep

LEMMA WorkerConcludesInv == ASSUME Inv, WorkerConcludes PROVE Inv'
<1>1. /\ worker.pc = "conclude"
      /\ worker' \in {[pc |-> "dead"], [worker EXCEPT !.pc = "teardown"], NoChunk}
      /\ UNCHANGED <<phase, config, pre, dec, bootstrap_thread, decode_thread, to_decode, kv>>
  BY SMTT(60) DEF WorkerConcludes
<1>2. WorkerOK(worker)'
  BY <1>1, Shapes DEF WorkerOK, Alive, NoChunk
<1>3. ThreadsOK'
  BY <1>1, <1>2 DEF Inv, ThreadsOK, MessageOK, Handling, ThreadOK, PoolOK
<1> QED
  BY <1>1, <1>3, ThreadStep

LEMMA WorkerTearsDownInv == ASSUME Inv, WorkerTearsDown PROVE Inv'
<1> DEFINE room == worker.chunk.room
           S == [pre EXCEPT !.outstanding[room] = 0]
<1>1. /\ worker.pc = "teardown" /\ worker' \in {NoChunk, [worker EXCEPT !.pc = "pop"]}
      /\ pre' \in {[S EXCEPT !.prefix_len[room] = 0], S}
      /\ UNCHANGED <<phase, config, dec, bootstrap_thread, decode_thread, to_decode, kv>>
  BY SMTT(60) DEF WorkerTearsDown
<1>2. PreShape(pre) /\ WorkerOK(worker)
  BY Shapes
<1>3. WorkerOK(worker)'
  BY <1>1, <1>2 DEF WorkerOK, Alive, NoChunk
<1> HIDE DEF room
<1>4. Still(pre, S) /\ PreShape(S)
  BY <1>2, StillOutstanding, StillShape
<1> HIDE DEF S
<1>5. Still(pre, pre')
  BY <1>1, <1>4, StillPrefixLen, StillTrans
<1>6. ThreadsOK'
  BY <1>1, <1>3 DEF Inv, ThreadsOK, MessageOK, Handling, ThreadOK, PoolOK
<1> QED
  BY <1>1, <1>5, <1>6, ThreadStep

LEMMA WorkerPopsInv == ASSUME Inv, WorkerPops PROVE Inv'
<1> DEFINE room == worker.chunk.room
           A == [pre EXCEPT !.infos[room] = NoInfo]
           B == [A EXCEPT !.prefix_len[room] = 0]
<1>1. /\ worker' \in {NoChunk, [pc |-> "dead"]}
      /\ pre' \in {pre, [pre EXCEPT !.infos[room] = NoInfo, !.prefix_len[room] = 0]}
      /\ UNCHANGED <<phase, config, dec, bootstrap_thread, decode_thread, to_decode, kv>>
  BY SMTT(60) DEF WorkerPops
<1>2. PreShape(pre) /\ WorkerOK(worker)'
  BY <1>1, Shapes DEF WorkerOK, Alive, NoChunk
<1> HIDE DEF room
<1>3. pre' \in {pre, B}
  BY <1>1
<1>4. Still(pre, A) /\ PreShape(A)
  BY <1>2, StillInfos, StillShape
<1> HIDE DEF A
<1>5. Still(A, B)
  BY <1>4, StillPrefixLen
<1> HIDE DEF B
<1>6. Still(pre, pre') \/ pre' = pre
  BY <1>3, <1>4, <1>5, StillTrans
<1>7. ThreadsOK'
  BY <1>1, <1>2 DEF Inv, ThreadsOK, MessageOK, Handling, ThreadOK, PoolOK
<1> QED
  BY <1>1, <1>6, <1>7, ThreadStep

LEMMA ProbeSucceedsInv == ASSUME Inv, ProbeSucceeds PROVE Inv'
<1>1. UNCHANGED <<phase, config, pre, dec, worker, bootstrap_thread, decode_thread,
                  to_decode, kv>>
  BY SMTT(60) DEF ProbeSucceeds
<1>2. ThreadsOK'
  BY <1>1 DEF Inv, ThreadsOK, WorkerOK, MessageOK, ThreadOK, PoolOK, Alive, Handling
<1> QED
  BY <1>1, <1>2, ThreadStep

(* The decode instance's thread, and the metadata. *)
LEMMA ReceiveStatusInv == ASSUME Inv, ReceiveStatus PROVE Inv'
<1> DEFINE room == Head(to_decode).room
<1>1. /\ to_decode # <<>> /\ decode_thread' \in {room, "idle"}
      /\ dec' \in {dec, UpdateStatus(dec, room, Failed)} /\ to_decode' = Tail(to_decode)
      /\ UNCHANGED <<phase, config, pre, worker, bootstrap_thread, kv>>
  BY SMTT(60) DEF ReceiveStatus
<1>2. DecShape(dec) /\ room \in Request /\ Rooms(Tail(to_decode))
  BY <1>1, Shapes, RoomsTail
<1> HIDE DEF room
<1>3. Quiet(dec, dec') \/ dec' = dec
  BY <1>1, <1>2, Polls, QuietStatus
<1>4. Rooms(to_decode') /\ ThreadOK(decode_thread')
  BY <1>1, <1>2 DEF ThreadOK
<1>5. ThreadsOK'
  BY <1>1, <1>4 DEF Inv, ThreadsOK, WorkerOK, MessageOK, ThreadOK, PoolOK, Alive, Handling, Rooms
<1> QED
  BY <1>1, <1>3, <1>5, ThreadStep

LEMMA HandleSuccessInv == ASSUME Inv, HandleSuccess PROVE Inv'
<1> DEFINE room == decode_thread
<1>1. /\ decode_thread \notin {"idle", "dead"} /\ decode_thread' \in {"dead", "idle"}
      /\ dec' \in {dec, UpdateStatus(dec, room, Success)}
      /\ UNCHANGED <<phase, config, pre, worker, bootstrap_thread, to_decode, kv>>
  BY SMTT(60) DEF HandleSuccess
<1>2. DecShape(dec) /\ room \in Request
  BY <1>1, Shapes DEF ThreadOK
<1> HIDE DEF room
<1>3. Quiet(dec, dec') \/ dec' = dec
  BY <1>1, <1>2, Polls, QuietStatus
<1>4. ThreadsOK'
  BY <1>1 DEF Inv, ThreadsOK, WorkerOK, MessageOK, ThreadOK, PoolOK, Alive, Handling
<1> QED
  BY <1>1, <1>3, <1>4, ThreadStep

LEMMA MetadataLandsInv == ASSUME Inv, MetadataLands PROVE Inv'
<1> DEFINE m == Head(metadata_wire)
           b == m.buffer
           v == m.room
<1>1. /\ dec' = [dec EXCEPT !.landed[b] = v]
      /\ UNCHANGED <<phase, config, pre, worker, bootstrap_thread, decode_thread,
                     to_decode, kv>>
  BY DEF MetadataLands
<1> HIDE DEF m, b, v
<1>2. Quiet(dec, dec')
  BY ZenonT(60), <1>1, Shapes, QuietThreads
<1>3. ThreadsOK'
  BY <1>1 DEF Inv, ThreadsOK, WorkerOK, MessageOK, ThreadOK, PoolOK, Alive, Handling
<1> QED
  BY <1>1, <1>2, <1>3, ThreadStep

(* Every action preserves the invariant. *)
LEMMA InvNext == Inv /\ [Next]_vars => Inv'
<1> SUFFICES ASSUME Inv, [Next]_vars PROVE Inv'
  BY SMTT(60)
<1>1. CASE UNCHANGED vars
  BY <1>1 DEF vars, Inv, ThreadsOK, WorkerOK, MessageOK, ThreadOK, PoolOK, Alive, Handling
<1>2. ASSUME NEW r \in Request,
             \/ PrefillArrives(r) \/ PrefillAborts(r) \/ BootstrapTimeout(r)
             \/ DecodeArrives(r) \/ DecodeAborts(r) \/ DecodeEnds(r) \/ WaitingTimeout(r)
      PROVE  Inv'
  BY <1>2, PrefillArrivesInv, PrefillAbortsInv, BootstrapTimeoutInv, DecodeArrivesInv,
     DecodeAbortsInv, DecodeEndsInv, WaitingTimeoutInv
<1>3. CASE PrefillLoop
  BY <1>3, PrefillPopInv, PrefillPlanInv, PrefillResultInv DEF PrefillLoop
<1>4. CASE DecodeLoop
  BY <1>4, DecodePreallocInv, DecodeTransferredInv DEF DecodeLoop
<1>5. CASE BootstrapThread
  BY <1>5, ReceiveMetadataInv, StoreMetadataInv, LookAtMetadataInv, RoomReadyInv,
     ReceiveAbortInv, CheckAbortInv, HandleAbortInv DEF BootstrapThread
<1>6. CASE TransferWorker
  BY <1>6, WorkerTakesInv, WorkerChecksInv, WorkerLooksInv, WorkerReadsInv, WorkerWritesInv,
     WorkerFailsInv, WorkerCountsInv, WorkerConcludesInv, WorkerTearsDownInv, WorkerPopsInv
     DEF TransferWorker
<1>7. CASE DecodeThread
  BY <1>7, ReceiveStatusInv, HandleSuccessInv DEF DecodeThread
<1>8. CASE MetadataLands
  BY <1>8, MetadataLandsInv
<1>9. CASE ProbeSucceeds
  BY <1>9, ProbeSucceedsInv
<1> QED
  BY <1>1, <1>2, <1>3, <1>4, <1>5, <1>6, <1>7, <1>8, <1>9 DEF Next

LEMMA InvAlways == Spec => []Inv
<1>1. Init => Inv
  BY InvInit
<1>2. Inv /\ [Next]_vars => Inv'
  BY InvNext
<1> QED
  BY <1>1, <1>2, PTL DEF Spec

-----------------------------------------------------------------------------
(* What the invariant says. *)
LEMMA InvTypeOK == Inv => TypeOK
<1> SUFFICES ASSUME Inv PROVE TypeOK
  BY SMTT(60)
<1>1. /\ PreTyped(pre) /\ PreQueues(pre) /\ DecTyped(dec) /\ DecQueues(dec)
      /\ DecPages(dec) /\ dec.published = 0 /\ WorkerOK(worker) /\ PoolOK(kv)
      /\ MessageOK(bootstrap_thread)
  BY DEF Inv, PreSide, PreInv, DecInv, ThreadsOK
<1>2. \A q \in {pre.bootstrap, pre.waiting, pre.inflight, dec.queue, dec.transfer} :
         q \in Seq(Request) /\ IsInjective(q)
  BY <1>1 DEF PreQueues, DecQueues, Distinct
<1>3. \A S \in {pre, dec} : S.status \in [Request -> KVPoll \union {Absent}]
  BY <1>1 DEF PreTyped, DecTyped, Status
<1>4. dec.pending \subseteq Range(dec.queue) /\ dec.running \subseteq Request
      /\ dec.free \subseteq Page
  BY <1>1 DEF DecQueues, DecPages
<1>5. /\ worker.pc \in {"idle", "check", "look", "read", "write", "done", "conclude",
                        "teardown", "pop", "dead"}
      /\ bootstrap_thread.pc \in {"idle", "store", "look", "ready", "abort", "fail", "dead"}
  BY <1>1 DEF WorkerOK, Alive, MessageOK, Handling
<1> QED
  BY <1>1, <1>2, <1>3, <1>4, <1>5 DEF TypeOK, PoolOK

LEMMA InvBuffersExact == Inv => BuffersExact
<1> SUFFICES ASSUME Inv PROVE BuffersExact
  OBVIOUS
<1> DEFINE holders(S) == {r \in Request : S.req[r].buffer # Nil}
           held(S)    == {S.req[r].buffer : r \in holders(S)}
           pages(r)   == Range(dec.req[r].pages)
<1>1. ExactlyOnce(pre.free_buffers, held(pre), 1 .. PrefillBuffers)
      /\ Cardinality(holders(pre)) = Cardinality(held(pre))
  <2>1. FreeBuffers(pre, PrefillBuffers) /\ PrefillBuffers \in Nat
    BY PDAssumption DEF Inv, PreSide, PreInv
  <2> QED
    BY SMTT(60), <2>1, BuffersOnce
<1>2. ExactlyOnce(dec.free_buffers, held(dec), 1 .. config.buffers)
      /\ Cardinality(holders(dec)) = Cardinality(held(dec))
  <2>1. FreeBuffers(dec, config.buffers) /\ config.buffers \in Nat
    BY ConfigFacts DEF Inv, DecInv
  <2> QED
    BY ZenonT(60), <2>1, BuffersOnce
<1>3. /\ dec.free \union UNION {pages(r) : r \in Request} = Page
      /\ \A r \in Request : pages(r) \intersect dec.free = {}
      /\ \A r, q \in Request : r # q => pages(r) \intersect pages(q) = {}
  <2>1. DecPages(dec) /\ DecPlaced(dec, config)
    BY SMTT(60) DEF Inv, DecInv
  <2>2. \A r \in Request : pages(r) \subseteq Page
    <3> SUFFICES ASSUME NEW r \in Request PROVE pages(r) \subseteq Page
      OBVIOUS
    <3>1. dec.req[r].pages \in Seq(Page)
      BY <2>1 DEF DecPlaced, DecReqOK
    <3> QED
      BY <3>1 DEF Range
  <2>3. /\ dec.free \subseteq Page
        /\ \A p \in Page : p \in dec.free \/ \E r \in Request : p \in pages(r)
        /\ \A r \in Request : pages(r) \intersect dec.free = {}
        /\ \A r, q \in Request : r # q => pages(r) \intersect pages(q) = {}
    BY <2>1 DEF DecPages
  <2> HIDE DEF pages
  <2> QED
    BY <2>2, <2>3
<1> HIDE DEF holders, held, pages
<1>4. \A S \in {pre, dec} : Cardinality(holders(S)) = Cardinality(held(S))
  BY <1>1, <1>2
<1> QED
  BY <1>1, <1>2, <1>3, <1>4 DEF BuffersExact, holders, held, pages

(* In how many of some sets something is. *)
LEMMA OneOfFour ==
  ASSUME NEW r, NEW A, NEW B, NEW C, NEW D,
         r \in A \/ r \in B \/ r \in C \/ r \in D,
         ~(r \in A /\ r \in B), ~(r \in A /\ r \in C), ~(r \in A /\ r \in D),
         ~(r \in B /\ r \in C), ~(r \in B /\ r \in D), ~(r \in C /\ r \in D)
  PROVE  Places(r, <<A, B, C, D>>) = 1
<1> DEFINE sets == <<A, B, C, D>>
           I == {i \in DOMAIN sets : r \in sets[i]}
<1>1. DOMAIN sets = 1 .. 4 /\ sets[1] = A /\ sets[2] = B /\ sets[3] = C /\ sets[4] = D
  OBVIOUS
<1>2. \E k : I = {k}
  <2> HIDE DEF sets
  <2>1. CASE r \in A
    <3>1. I = {1}
      BY <1>1, <2>1
    <3> QED
      BY <3>1
  <2>2. CASE r \in B
    <3>1. I = {2}
      BY <1>1, <2>2
    <3> QED
      BY <3>1
  <2>3. CASE r \in C
    <3>1. I = {3}
      BY <1>1, <2>3
    <3> QED
      BY <3>1
  <2>4. CASE r \in D
    <3>1. I = {4}
      BY <1>1, <2>4
    <3> QED
      BY <3>1
  <2> QED
    BY ZenonT(60), <2>1, <2>2, <2>3, <2>4
<1> HIDE DEF I
<1>3. Cardinality(I) = 1
  BY <1>2, FS_Singleton
<1> QED
  BY <1>3 DEF Places, I

LEMMA OneOfThree ==
  ASSUME NEW r, NEW A, NEW B, NEW C, r \in A \/ r \in B \/ r \in C,
         ~(r \in A /\ r \in B), ~(r \in A /\ r \in C), ~(r \in B /\ r \in C)
  PROVE  Places(r, <<A, B, C>>) = 1
<1> DEFINE sets == <<A, B, C>>
           I == {i \in DOMAIN sets : r \in sets[i]}
<1>1. DOMAIN sets = 1 .. 3 /\ sets[1] = A /\ sets[2] = B /\ sets[3] = C
  OBVIOUS
<1>2. \E k : I = {k}
  <2> HIDE DEF sets
  <2>1. CASE r \in A
    <3>1. I = {1}
      BY <1>1, <2>1
    <3> QED
      BY <3>1
  <2>2. CASE r \in B
    <3>1. I = {2}
      BY <1>1, <2>2
    <3> QED
      BY <3>1
  <2>3. CASE r \in C
    <3>1. I = {3}
      BY <1>1, <2>3
    <3> QED
      BY <3>1
  <2> QED
    BY ZenonT(60), <2>1, <2>2, <2>3
<1> HIDE DEF I
<1>3. Cardinality(I) = 1
  BY ZenonT(60), <1>2, FS_Singleton
<1> QED
  BY <1>3 DEF Places, I

LEMMA NoneOfThree ==
  ASSUME NEW r, NEW A, NEW B, NEW C, r \notin A, r \notin B, r \notin C
  PROVE  Places(r, <<A, B, C>>) = 0
<1> DEFINE sets == <<A, B, C>>
           I == {i \in DOMAIN sets : r \in sets[i]}
<1>1. DOMAIN sets = 1 .. 3 /\ sets[1] = A /\ sets[2] = B /\ sets[3] = C
  OBVIOUS
<1>2. I = {}
  <2> HIDE DEF sets
  <2> QED
    BY SMTT(60), <1>1
<1> HIDE DEF I
<1>3. Cardinality(I) = 0
  BY <1>2, FS_EmptySet
<1> QED
  BY <1>3 DEF Places, I

(* Who is being computed, by its entries. *)
LEMMA ComputingEntries ==
  ASSUME Inv, NEW r \in Request
  PROVE  LET a == Older(pre, config)
             b == Range(pre.batch)
             n == config.len[r]
         IN  r \in Computing <=>
                \/ WholeIn(a, r, n) \/ PartIn(a, r, n) \/ WholeIn(b, r, n) \/ PartIn(b, r, n)
                \/ pre.chunked = r
<1> DEFINE a == Older(pre, config)
           b == Range(pre.batch)
           n == config.len[r]
<1>1. r # Nil
  BY PDAssumption
<1>2. r \in Computing <=> \/ \E x \in b : x.req = r
                          \/ \E x \in a : x.req = r
                          \/ pre.chunked = r
  BY <1>1 DEF Computing, Older
<1>3. (\E x \in a : x.req = r) <=> WholeIn(a, r, n) \/ PartIn(a, r, n)
  BY DEF WholeIn, PartIn
<1>4. (\E x \in b : x.req = r) <=> WholeIn(b, r, n) \/ PartIn(b, r, n)
  BY DEF WholeIn, PartIn
<1> QED
  BY <1>2, <1>3, <1>4

LEMMA InvRequestsKept == Inv => RequestsKept
<1> SUFFICES ASSUME Inv, NEW r \in Request
             PROVE  /\ pre.req[r].arrived =>
                        LET k == Places(r, <<Range(pre.bootstrap), Range(pre.waiting),
                                             Range(pre.inflight), Computing>>)
                        IN IF pre.req[r].answers = 0 THEN k = 1
                           ELSE /\ pre.req[r].answers = 1 /\ ~pre.req[r].kv
                                /\ pre.req[r].buffer = Nil
                                /\ r \notin Range(pre.bootstrap) \union Range(pre.waiting)
                                              \union Range(pre.inflight) \union {pre.chunked}
                    /\ dec.req[r].arrived =>
                        LET k == Places(r, <<Range(dec.queue), Range(dec.transfer), dec.running>>)
                        IN IF dec.req[r].answers = 0 THEN k = 1
                           ELSE k = 0 /\ dec.req[r].answers = 1 /\ dec.req[r].pages = <<>>
  BY SMTT(60) DEF RequestsKept
<1> DEFINE a == Older(pre, config)
           b == Range(pre.batch)
           n == config.len[r]
           stage == Stage(phase.prefill)
<1>1. PreReqAt(pre, config, a, b, stage, r)
  BY DEF Inv, PreSide, PreInv
<1>2. r \in Computing <=>
        \/ WholeIn(a, r, n) \/ PartIn(a, r, n) \/ WholeIn(b, r, n) \/ PartIn(b, r, n)
        \/ pre.chunked = r
  BY SMTT(60), ComputingEntries
<1> HIDE DEF a, b, n, stage
<1>3. /\ pre.req[r].answers # 0 =>
            /\ pre.req[r].answers = 1 /\ ~pre.req[r].kv /\ pre.req[r].buffer = Nil
            /\ r \notin Range(pre.bootstrap) \union Range(pre.waiting)
                          \union Range(pre.inflight) \union {pre.chunked}
      /\ pre.req[r].arrived /\ pre.req[r].answers = 0 =>
            /\ \/ r \in Range(pre.bootstrap) \/ r \in Range(pre.waiting)
               \/ r \in Range(pre.inflight) \/ r \in Computing
            /\ ~(r \in Range(pre.bootstrap) /\ r \in Range(pre.waiting))
            /\ ~(r \in Range(pre.bootstrap) /\ r \in Range(pre.inflight))
            /\ ~(r \in Range(pre.bootstrap) /\ r \in Computing)
            /\ ~(r \in Range(pre.waiting) /\ r \in Range(pre.inflight))
            /\ ~(r \in Range(pre.waiting) /\ r \in Computing)
            /\ ~(r \in Range(pre.inflight) /\ r \in Computing)
  BY <1>1, <1>2 DEF PreReqAt, PreReqOK, n
<1>4. pre.req[r].arrived /\ pre.req[r].answers = 0 =>
        Places(r, <<Range(pre.bootstrap), Range(pre.waiting),
                    Range(pre.inflight), Computing>>) = 1
  BY SMTT(60), <1>3, OneOfFour
<1>5. DecReqOK(dec.req[r], r \in Range(dec.queue), r \in Range(dec.transfer),
               r \in dec.running, config.len[r], config.prefix[r])
  BY DEF Inv, DecInv, DecPlaced
<1>6. dec.req[r].arrived /\ dec.req[r].answers = 0 =>
        Places(r, <<Range(dec.queue), Range(dec.transfer), dec.running>>) = 1
  <2> SUFFICES ASSUME dec.req[r].arrived, dec.req[r].answers = 0
               PROVE  Places(r, <<Range(dec.queue), Range(dec.transfer), dec.running>>) = 1
    OBVIOUS
  <2>1. /\ r \in Range(dec.queue) \/ r \in Range(dec.transfer) \/ r \in dec.running
        /\ ~(r \in Range(dec.queue) /\ r \in Range(dec.transfer))
        /\ ~(r \in Range(dec.queue) /\ r \in dec.running)
        /\ ~(r \in Range(dec.transfer) /\ r \in dec.running)
    BY <1>5 DEF DecReqOK
  <2> QED
    BY <2>1, OneOfThree
<1>7. dec.req[r].answers # 0 =>
        /\ Places(r, <<Range(dec.queue), Range(dec.transfer), dec.running>>) = 0
        /\ dec.req[r].answers = 1 /\ dec.req[r].pages = <<>>
  <2> SUFFICES ASSUME dec.req[r].answers # 0
               PROVE  /\ Places(r, <<Range(dec.queue), Range(dec.transfer), dec.running>>) = 0
                      /\ dec.req[r].answers = 1 /\ dec.req[r].pages = <<>>
    BY SMTT(60)
  <2>1. /\ r \notin Range(dec.queue) /\ r \notin Range(dec.transfer) /\ r \notin dec.running
        /\ dec.req[r].answers = 1 /\ dec.req[r].pages = <<>>
    BY <1>5 DEF DecReqOK
  <2> QED
    BY <2>1, NoneOfThree
<1> QED
  BY <1>3, <1>4, <1>6, <1>7

-----------------------------------------------------------------------------
(* The type invariant holds whatever the number of requests, pages and     *)
(* buffers: no queue of either scheduler has a request twice and every     *)
(* room's status is one of KVPoll or absent, whatever the threads of       *)
(* mooncake/conn.py do between the schedulers' steps.                      *)
THEOREM TypeOKAlways == Spec => []TypeOK
<1>1. Inv => TypeOK
  BY InvTypeOK
<1> QED
  BY <1>1, InvAlways, PTL

(* Metadata buffers and decode pages are accounted for exactly: on every   *)
(* path of an abort, a time-out, a failed transfer or a normal end each    *)
(* one is either free or of one request (ReqToMetadataIdxAllocator,        *)
(* _pre_alloc, release_kv_cache).                                          *)
THEOREM BuffersExactAlways == Spec => []BuffersExact
<1>1. Inv => BuffersExact
  BY InvBuffersExact
<1> QED
  BY <1>1, InvAlways, PTL

(* No request is lost or answered twice on either instance: while it has   *)
(* no answer it is in exactly one of the instance's places, and once it    *)
(* has one it was answered once and holds nothing.                         *)
THEOREM RequestsKeptAlways == Spec => []RequestsKept
<1>1. Inv => RequestsKept
  BY InvRequestsKept
<1> QED
  BY <1>1, InvAlways, PTL
===============================================================================
