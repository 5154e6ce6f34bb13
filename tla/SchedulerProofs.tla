--------------------------- MODULE SchedulerProofs ---------------------------
(***************************************************************************)
(* The scheduler, for any number of requests, any pool and every setup:    *)
(* where a request is and that it is answered once, then the lengths kept  *)
(* for its row, that the row covers every KV write, and the prefill budget *)
(* that leaves room for one unfinished chunk.                              *)
(***************************************************************************)
EXTENDS Scheduler, TLAPS, FiniteSetTheorems, SequenceTheorems

-----------------------------------------------------------------------------
(* What the operators on a memory leave of a request's flags. *)

ReqFields ==
    {"fill", "out", "finished", "to_finish", "is_retracted", "inflight", "last_node", "prot",
     "pre", "end", "com", "alo", "row"}

Shape(mem) ==
    /\ DOMAIN mem = {"is_eagle", "tree", "free", "req"}
    /\ DOMAIN mem.req = Request
    /\ \A r \in Request : DOMAIN mem.req[r] = ReqFields

SameFlags(q, p) ==
    q.finished = p.finished /\ q.is_retracted = p.is_retracted /\ q.inflight = p.inflight

(* new differs from mem in other things than the requests' flags. *)
FlagsKept(mem, new) == Shape(new) /\ \A r \in Request : SameFlags(new.req[r], mem.req[r])

LEMMA FreeRowKeeps ==
    ASSUME NEW mem, Shape(mem), NEW r, NEW a, NEW b
    PROVE  Shape(FreeRow(mem, r, a, b)) /\ FreeRow(mem, r, a, b).req = mem.req
BY SMTT(60) DEF Shape, FreeRow

LEMMA EvictKeeps ==
    ASSUME NEW mem, Shape(mem), NEW E
    PROVE  Shape(Evict(mem, E)) /\ Evict(mem, E).req = mem.req
BY DEF Shape, Evict

LEMMA CacheFinishedKeeps ==
    ASSUME NEW mem, Shape(mem), NEW r \in Request, NEW is_insert
    PROVE  LET done == CacheFinished(mem, r, is_insert) IN Shape(done) /\ done.req = mem.req
<1> DEFINE key == Key(mem, r, Min({mem.req[r].com, TotalLen(mem, r)}))
           ins == IF is_insert THEN Insert(mem.tree, key, mem.req[r].row)
                               ELSE [tree |-> mem.tree, prefix_len |-> Len(key)]
           duplicate == FreeRow(mem, r, mem.req[r].prot + 1, ins.prefix_len)
           tail == FreeRow(duplicate, r, Len(key) + 1,
                           CeilPages(Min({mem.req[r].com, TotalLen(mem, r)})))
<1>1. CacheFinished(mem, r, is_insert) =
        [tail EXCEPT !.tree = DecLockRef(ins.tree, mem.req[r].last_node)]
  BY SMTT(60) DEF CacheFinished
<1> HIDE DEF key, ins
<1>2. Shape(tail) /\ tail.req = mem.req
  BY FreeRowKeeps
<1> HIDE DEF tail
<1> QED
  BY SMTT(60), <1>1, <1>2 DEF Shape

LEMMA ReleaseKVKeeps ==
    ASSUME NEW mem, Shape(mem), NEW r \in Request, NEW is_insert
    PROVE  FlagsKept(mem, ReleaseKV(mem, r, is_insert))
<1> DEFINE done == CacheFinished(mem, r, is_insert)
           over == FreeRow(done, r, CeilPages(mem.req[r].com) + 1, CeilPages(mem.req[r].alo))
<1>1. Shape(over) /\ over.req = mem.req
  BY SMTT(60), CacheFinishedKeeps, FreeRowKeeps
<1>2. ReleaseKV(mem, r, is_insert) =
        [over EXCEPT !.req[r].row = <<>>, !.req[r].prot = 0, !.req[r].com = 0, !.req[r].alo = 0,
                     !.req[r].pre = 0, !.req[r].end = 0, !.req[r].last_node = Root]
  BY ZenonT(60) DEF ReleaseKV
<1> HIDE DEF over
<1> DEFINE a == [over EXCEPT !.req[r].row = <<>>, !.req[r].prot = 0, !.req[r].com = 0]
           b == [a EXCEPT !.req[r].alo = 0, !.req[r].pre = 0]
           c == [b EXCEPT !.req[r].end = 0, !.req[r].last_node = Root]
<1>3. ReleaseKV(mem, r, is_insert) = c
  BY <1>2
<1>4. FlagsKept(over, a)
  BY <1>1 DEF Shape, FlagsKept, SameFlags, ReqFields
<1> HIDE DEF a
<1>5. FlagsKept(a, b)
  BY SMTT(60), <1>4 DEF Shape, FlagsKept, SameFlags, ReqFields
<1> HIDE DEF b
<1>6. FlagsKept(b, c)
  BY <1>5 DEF Shape, FlagsKept, SameFlags, ReqFields
<1> HIDE DEF c
<1> QED
  BY <1>1, <1>3, <1>4, <1>5, <1>6 DEF FlagsKept, SameFlags

LEMMA CacheUnfinishedKeeps ==
    ASSUME NEW mem, Shape(mem), NEW r \in Request
    PROVE  FlagsKept(mem, CacheUnfinished(mem, r))
<1> DEFINE q     == mem.req[r]
           key   == Key(mem, r, q.end)
           ins   == Insert(mem.tree, key, q.row)
           freed == FreeRow(mem, r, q.prot + 1, ins.prefix_len)
           row   == [i \in 1..Len(q.row) |->
                        IF i \in (q.prot + 1)..Len(key)
                        THEN ins.tree.value[SubSeq(key, 1, i)] ELSE q.row[i]]
           tree  == IncLockRef(DecLockRef(ins.tree, q.last_node), key)
<1>1. CacheUnfinished(mem, r) =
        [freed EXCEPT !.tree = tree, !.req[r].row = row, !.req[r].prot = Len(key),
                      !.req[r].pre = q.end, !.req[r].last_node = key]
  BY DEF CacheUnfinished
<1> HIDE DEF key, ins, row, tree
<1>2. Shape(freed) /\ freed.req = mem.req
  BY FreeRowKeeps
<1> HIDE DEF freed
<1> DEFINE a == [freed EXCEPT !.tree = tree, !.req[r].row = row, !.req[r].prot = Len(key)]
           b == [a EXCEPT !.req[r].pre = q.end, !.req[r].last_node = key]
<1>3. CacheUnfinished(mem, r) = b
  BY <1>1
<1> HIDE DEF q
<1>4. FlagsKept(freed, a)
  BY <1>2 DEF Shape, FlagsKept, SameFlags, ReqFields
<1> HIDE DEF a
<1>5. FlagsKept(a, b)
  BY <1>4 DEF Shape, FlagsKept, SameFlags, ReqFields
<1> HIDE DEF b
<1> QED
  BY <1>2, <1>3, <1>4, <1>5 DEF FlagsKept, SameFlags

LEMMA GrowRowsKeeps ==
    ASSUME NEW mem, Shape(mem), NEW S \in SUBSET Request, NEW need
    PROVE  FlagsKept(mem, GrowRows(mem, S, need))
BY DEF GrowRows, Shape, FlagsKept, SameFlags, ReqFields

-----------------------------------------------------------------------------
(* The inductive invariant. *)

Batch == [extend : BOOLEAN, reqs : SUBSET Request, chunked_req : Request \cup {NoReq}]

AdderFields ==
    {"can_run_list", "preempt_list", "new_chunked_req", "total", "cur", "chunk", "ratio",
     "target", "victims"}

ControlTypes ==
    /\ Shape(m)
    /\ \A r \in Request : m.req[r].inflight \in Int
    /\ setup \in Setup
    /\ fresh \in SUBSET Request /\ waiting_queue \in SUBSET Request
    /\ running_batch \in SUBSET Request
    /\ last_batch \in [reqs : SUBSET Request, chunked_req : Request \cup {NoReq}]
    /\ chunked_req \in Request \cup {NoReq}
    /\ result_queue \in Seq(Batch)
    /\ DOMAIN adder = AdderFields
    /\ adder.can_run_list \in SUBSET Request /\ adder.preempt_list \in SUBSET Request
    /\ adder.victims \in SUBSET Request
    /\ adder.new_chunked_req \in Request \cup {NoReq}
    /\ answers \in [Request -> Nat]
    /\ pc \in PcStates /\ paused \in {"no", "retracting", "yes"}

(* How many results are pending in each phase; chunks come before the rest *)
(* of a request's results.                                                 *)
QueueLens ==
    /\ Len(result_queue) <= 2
    /\ pc \notin {"result", "crashed"} =>
           Len(result_queue) <= 1 /\ (~setup.overlap => Len(result_queue) = 0)
    /\ pc = "result" =>
           /\ Len(result_queue) >= 1
           /\ ~setup.overlap \/ paused = "retracting" => Len(result_queue) = 1
    /\ pc = "pause" => Len(result_queue) = 0 /\ paused = "retracting"
    /\ paused = "retracting" => pc \in {"result", "pause"}

ChunksFirst ==
    /\ \A i \in 1..Len(result_queue) :
           ~result_queue[i].extend => result_queue[i].chunked_req = NoReq
    /\ \A i, j \in 1..Len(result_queue) : \A r \in Request :
           i < j /\ r = result_queue[j].chunked_req
                 /\ r \in result_queue[j].reqs /\ r \in result_queue[i].reqs
               => result_queue[i].chunked_req = r

QueueInv == QueueLens /\ ChunksFirst

Collecting == pc \in {"prefill", "preempt", "batch"}

(* What an iteration has set and reset in each of its phases. *)
PhaseInv ==
    /\ ~Collecting => adder = NoAdder
    /\ pc # "preempt" => adder.victims = {}
    /\ pc \notin {"idle", "result", "pause", "crashed"} => last_batch = NoBatch
    /\ Collecting /\ chunked_req # NoReq => chunked_req \in adder.can_run_list
    /\ adder.new_chunked_req # NoReq =>
           adder.new_chunked_req \in adder.can_run_list \cap waiting_queue
    /\ pc \in {"retract", "launch"} => \A r \in running_batch : ~m.req[r].finished
    /\ \A r \in adder.victims : r \in running_batch /\ ~m.req[r].finished
    /\ ~setup.preemption => pc # "preempt" /\ adder.preempt_list = {}

Away(r) == r \notin running_batch /\ r \notin last_batch.reqs /\ r # chunked_req

InFresh(r) ==
    r \in fresh =>
        /\ answers[r] = 0 /\ ~m.req[r].finished /\ Away(r)
        /\ r \notin waiting_queue /\ r \notin adder.can_run_list /\ r \notin adder.preempt_list
        /\ \A i \in 1..Len(result_queue) : r \notin result_queue[i].reqs

(* A request that was retracted waits while its last result is pending. *)
InQueue(r) ==
    r \in waiting_queue =>
        /\ answers[r] = 0 /\ ~m.req[r].finished /\ Away(r)
        /\ r \notin adder.preempt_list
        /\ \A i \in 1..Len(result_queue) : r \in result_queue[i].reqs =>
               /\ i = 1 /\ m.req[r].is_retracted
               /\ pc \in {"decode", "launch", "retract", "result", "crashed"}

InPreemptList(r) ==
    r \in adder.preempt_list =>
        /\ answers[r] = 0 /\ ~m.req[r].finished /\ m.req[r].is_retracted /\ Away(r)
        /\ r \notin adder.can_run_list

InBatch(r) == r \in running_batch \cup last_batch.reqs /\ ~m.req[r].finished => answers[r] = 0

(* All results of a request that is being chunked are those of chunks. *)
InChunks(r) ==
    r = chunked_req /\ pc # "crashed" =>
        /\ answers[r] = 0 /\ ~m.req[r].finished /\ ~m.req[r].is_retracted
        /\ r \notin running_batch
        /\ \A i \in 1..Len(result_queue) :
               r \in result_queue[i].reqs => result_queue[i].chunked_req = r

InAdder(r) ==
    r \in adder.can_run_list =>
        /\ answers[r] = 0 /\ ~m.req[r].finished /\ r \notin running_batch
        /\ r \in waiting_queue \/ ~m.req[r].is_retracted

InResults(r) ==
    \A i \in 1..Len(result_queue) :
        r \in result_queue[i].reqs /\ ~m.req[r].finished /\ ~m.req[r].is_retracted
            => answers[r] = 0

FlagsInv(r) ==
    /\ m.req[r].is_retracted => m.req[r].inflight = 0
    /\ m.req[r].finished => answers[r] = 1
    /\ answers[r] <= 1

PlaceInv ==
    \A r \in Request :
        /\ InFresh(r) /\ InQueue(r) /\ InPreemptList(r) /\ InBatch(r) /\ InChunks(r)
        /\ InAdder(r) /\ InResults(r) /\ FlagsInv(r)

ControlInv == ControlTypes /\ QueueInv /\ PhaseInv /\ PlaceInv /\ ChunksCounted

-----------------------------------------------------------------------------
Chunks(r) ==
    {i \in 1..Len(result_queue) :
        result_queue[i].chunked_req = r /\ r \in result_queue[i].reqs}

LEMMA QueueEmpty ==
    ASSUME result_queue \in Seq(Batch)
    PROVE  /\ Len(result_queue) \in Nat
           /\ result_queue = <<>> => Len(result_queue) = 0
           /\ result_queue # <<>> => Len(result_queue) >= 1
BY EmptySeq

LEMMA ChunksFinite ==
    ASSUME result_queue \in Seq(Batch), NEW r
    PROVE  IsFiniteSet(Chunks(r)) /\ Cardinality(Chunks(r)) \in Nat
<1>1. IsFiniteSet(1..Len(result_queue))
  BY FS_Interval, LenProperties
<1> QED
  BY <1>1, FS_Subset, FS_CardinalityType DEF Chunks

(* The initial state. *)
LEMMA InitControl == Init => ControlInv
<1> SUFFICES ASSUME Init PROVE ControlInv
  OBVIOUS
<1> USE SchedulerAssumption DEF Init
<1>1. ControlTypes
  <2>1. Shape(m)
    BY DEF Shape, ReqFields, NewReq
  <2>2. \A r \in Request : m.req[r].inflight = 0
    BY DEF NewReq
  <2>3. setup \in Setup /\ fresh \in SUBSET Request
    BY DEF Setup
  <2>4. /\ DOMAIN adder = AdderFields /\ adder.can_run_list = {} /\ adder.preempt_list = {}
        /\ adder.victims = {} /\ adder.new_chunked_req = NoReq
    BY DEF NoAdder, AdderFields
  <2>5. last_batch \in [reqs : SUBSET Request, chunked_req : Request \cup {NoReq}]
    BY DEF NoBatch
  <2>6. result_queue \in Seq(Batch)
    OBVIOUS
  <2> QED
    BY <2>1, <2>2, <2>3, <2>4, <2>5, <2>6 DEF ControlTypes, PcStates
<1>2. QueueInv /\ PhaseInv
  BY DEF QueueInv, QueueLens, ChunksFirst, PhaseInv, Collecting, NoAdder
<1>3. PlaceInv
  BY DEF PlaceInv, InFresh, InQueue, InPreemptList, InBatch, InChunks, InAdder, InResults,
         FlagsInv, Away, NoBatch, NoAdder, NewReq
<1>4. ChunksCounted
  BY FS_EmptySet DEF ChunksCounted, NewReq
<1> QED
  BY <1>1, <1>2, <1>3, <1>4 DEF ControlInv

-----------------------------------------------------------------------------
(* Steps that leave the results and the flags alone. *)

Quiet == FlagsKept(m, m') /\ result_queue' = result_queue /\ setup' = setup

LEMMA QuietChunks ==
    ASSUME ControlInv, Quiet
    PROVE  ChunksCounted' /\ Shape(m)' /\ \A r \in Request : m'.req[r].inflight \in Int
BY ZenonT(60) DEF ControlInv, ControlTypes, ChunksCounted, Quiet, FlagsKept, SameFlags

LEMMA HandleGenerateStep ==
    ASSUME ControlInv, NEW r \in Request, HandleGenerate(r)
    PROVE  ControlInv'
<1> USE DEF ControlInv, ControlTypes
<1>1. Quiet
  BY DEF HandleGenerate, Quiet, FlagsKept, SameFlags
<1>2. PICK A \in SUBSET (waiting_queue \cup {r}) :
        /\ waiting_queue' = (waiting_queue \cup {r}) \ A
        /\ answers' = [x \in Request |-> IF x \in A THEN answers[x] + 1 ELSE answers[x]]
  BY ZenonT(60) DEF HandleGenerate, AddRequestsToQueue, Rejections, Answer
<1>3. ControlTypes'
  BY <1>1, <1>2, QuietChunks DEF HandleGenerate, Quiet
<1>4. QueueInv'
  BY <1>1 DEF HandleGenerate, Quiet, QueueInv, QueueLens, ChunksFirst
<1>5. PhaseInv'
  BY <1>1, <1>2 DEF HandleGenerate, PhaseInv, Collecting, NoAdder
<1>6. PlaceInv'
  BY <1>1, <1>2 DEF HandleGenerate, PhaseInv, Collecting, NoAdder, PlaceInv, InFresh, InQueue,
       InPreemptList, InBatch, InChunks, InAdder, InResults, FlagsInv, Away
<1> QED
  BY <1>1, <1>3, <1>4, <1>5, <1>6, QuietChunks

LEMMA AbortRequestStep ==
    ASSUME ControlInv, NEW r \in Request, AbortRequest(r)
    PROVE  ControlInv'
<1> USE DEF ControlInv, ControlTypes, AbortRequest, Answer
<1>1. Quiet
  BY DEF Quiet, FlagsKept, SameFlags, Shape, ReqFields
<1>2. Shape(m)' /\ (\A x \in Request : m'.req[x].inflight \in Int) /\ ChunksCounted'
  BY <1>1, QuietChunks
<1>3. ControlTypes'
  BY <1>1, <1>2 DEF Quiet, PcStates
<1>4. QueueInv'
  BY <1>1 DEF Quiet, QueueInv, QueueLens, ChunksFirst
<1>5. PhaseInv'
  BY SMTT(60), <1>1 DEF Quiet, FlagsKept, SameFlags, PhaseInv, PlaceInv, InAdder, Collecting, NoAdder, NoBatch
<1>6. PlaceInv'
  BY <1>1 DEF Quiet, FlagsKept, SameFlags, PhaseInv, Collecting, NoAdder, NoBatch, PlaceInv,
       InFresh, InQueue, InPreemptList, InBatch, InChunks, InAdder, InResults, FlagsInv, Away
<1> QED
  BY <1>2, <1>3, <1>4, <1>5, <1>6

LEMMA FlushCacheStep ==
    ASSUME ControlInv, FlushCache
    PROVE  ControlInv'
<1> USE DEF ControlInv, ControlTypes, FlushCache, batches
<1>1. Quiet
  BY DEF Quiet, FlagsKept, SameFlags, Shape
<1>2. Shape(m)' /\ (\A x \in Request : m'.req[x].inflight \in Int) /\ ChunksCounted'
  BY <1>1, QuietChunks
<1>3. ControlTypes'
  BY <1>1, <1>2 DEF Quiet, PcStates
<1>4. QueueInv'
  BY <1>1 DEF Quiet, QueueInv, QueueLens, ChunksFirst
<1>5. PhaseInv'
  BY <1>1 DEF Quiet, FlagsKept, SameFlags, PhaseInv, PlaceInv, InAdder, Collecting, NoAdder, NoBatch
<1>6. PlaceInv'
  BY <1>1 DEF Quiet, FlagsKept, SameFlags, PhaseInv, Collecting, NoAdder, NoBatch, PlaceInv,
       InFresh, InQueue, InPreemptList, InBatch, InChunks, InAdder, InResults, FlagsInv, Away
<1> QED
  BY <1>2, <1>3, <1>4, <1>5, <1>6

LEMMA SkipPrefillStep ==
    ASSUME ControlInv, SkipPrefill
    PROVE  ControlInv'
<1> USE DEF ControlInv, ControlTypes, SkipPrefill
<1>1. Quiet
  BY DEF Quiet, FlagsKept, SameFlags
<1>2. Shape(m)' /\ (\A x \in Request : m'.req[x].inflight \in Int) /\ ChunksCounted'
  BY <1>1, QuietChunks
<1>3. ControlTypes'
  BY <1>1, <1>2 DEF Quiet, PcStates
<1>4. QueueInv'
  BY <1>1 DEF Quiet, QueueInv, QueueLens, ChunksFirst
<1>5. PhaseInv'
  BY <1>1 DEF Quiet, FlagsKept, SameFlags, PhaseInv, PlaceInv, InAdder, Collecting, NoAdder, NoBatch
<1>6. PlaceInv'
  BY <1>1 DEF Quiet, FlagsKept, SameFlags, PhaseInv, Collecting, NoAdder, NoBatch, PlaceInv,
       InFresh, InQueue, InPreemptList, InBatch, InChunks, InAdder, InResults, FlagsInv, Away
<1> QED
  BY <1>2, <1>3, <1>4, <1>5, <1>6

LEMMA PreemptToScheduleStep ==
    ASSUME ControlInv, NEW r \in Request, PreemptToSchedule(r)
    PROVE  ControlInv'
<1> USE DEF ControlInv, ControlTypes, PreemptToSchedule, VictimSets
<1>1. Quiet
  BY DEF Quiet, FlagsKept, SameFlags
<1>2. Shape(m)' /\ (\A x \in Request : m'.req[x].inflight \in Int) /\ ChunksCounted'
  BY <1>1, QuietChunks
<1>3. ControlTypes'
  BY <1>1, <1>2 DEF Quiet, PcStates, AdderFields
<1>4. QueueInv'
  BY <1>1 DEF Quiet, QueueInv, QueueLens, ChunksFirst
<1>5. PhaseInv'
  BY <1>1 DEF Quiet, FlagsKept, SameFlags, PhaseInv, PlaceInv, InAdder, Collecting, NoAdder, NoBatch
<1>6. PlaceInv'
  BY <1>1 DEF Quiet, FlagsKept, SameFlags, PhaseInv, Collecting, NoAdder, NoBatch, PlaceInv,
       InFresh, InQueue, InPreemptList, InBatch, InChunks, InAdder, InResults, FlagsInv, Away
<1> QED
  BY <1>2, <1>3, <1>4, <1>5, <1>6

LEMMA StopAddingStep ==
    ASSUME ControlInv, StopAdding
    PROVE  ControlInv'
<1> USE DEF ControlInv, ControlTypes, StopAdding
<1>1. Quiet
  BY DEF Quiet, FlagsKept, SameFlags
<1>2. Shape(m)' /\ (\A x \in Request : m'.req[x].inflight \in Int) /\ ChunksCounted'
  BY <1>1, QuietChunks
<1>3. ControlTypes'
  BY <1>1, <1>2 DEF Quiet, PcStates
<1>4. QueueInv'
  BY <1>1 DEF Quiet, QueueInv, QueueLens, ChunksFirst
<1>5. PhaseInv'
  BY <1>1 DEF Quiet, FlagsKept, SameFlags, PhaseInv, PlaceInv, InAdder, Collecting, NoAdder, NoBatch
<1>6. PlaceInv'
  BY <1>1 DEF Quiet, FlagsKept, SameFlags, PhaseInv, Collecting, NoAdder, NoBatch, PlaceInv,
       InFresh, InQueue, InPreemptList, InBatch, InChunks, InAdder, InResults, FlagsInv, Away
<1> QED
  BY <1>2, <1>3, <1>4, <1>5, <1>6

LEMMA NoPrefillStep ==
    ASSUME ControlInv, NoPrefill
    PROVE  ControlInv'
<1> USE DEF ControlInv, ControlTypes, NoPrefill, batches
<1>1. Quiet
  BY DEF Quiet, FlagsKept, SameFlags
<1>2. Shape(m)' /\ (\A x \in Request : m'.req[x].inflight \in Int) /\ ChunksCounted'
  BY <1>1, QuietChunks
<1>3. ControlTypes'
  BY <1>1, <1>2 DEF Quiet, PcStates, NoAdder, AdderFields
<1>4. QueueInv'
  BY <1>1 DEF Quiet, QueueInv, QueueLens, ChunksFirst
<1>5. PhaseInv'
  BY <1>1 DEF Quiet, FlagsKept, SameFlags, PhaseInv, PlaceInv, InAdder, Collecting, NoAdder, NoBatch
<1>6. PlaceInv'
  BY <1>1 DEF Quiet, FlagsKept, SameFlags, PhaseInv, Collecting, NoAdder, NoBatch, PlaceInv,
       InFresh, InQueue, InPreemptList, InBatch, InChunks, InAdder, InResults, FlagsInv, Away
<1> QED
  BY <1>2, <1>3, <1>4, <1>5, <1>6

LEMMA NoDecodeStep ==
    ASSUME ControlInv, NoDecode
    PROVE  ControlInv'
<1> USE DEF ControlInv, ControlTypes, NoDecode, Alive
<1>1. Quiet
  BY DEF Quiet, FlagsKept, SameFlags
<1>2. Shape(m)' /\ (\A x \in Request : m'.req[x].inflight \in Int) /\ ChunksCounted'
  BY <1>1, QuietChunks
<1>3. ControlTypes'
  BY <1>1, <1>2 DEF Quiet, PcStates
<1>4. QueueInv'
  BY <1>1 DEF Quiet, QueueInv, QueueLens, ChunksFirst
<1>5. PhaseInv'
  BY <1>1 DEF Quiet, FlagsKept, SameFlags, PhaseInv, PlaceInv, InAdder, Collecting, NoAdder, NoBatch
<1>6. PlaceInv'
  BY <1>1 DEF Quiet, FlagsKept, SameFlags, PhaseInv, Collecting, NoAdder, NoBatch, PlaceInv,
       InFresh, InQueue, InPreemptList, InBatch, InChunks, InAdder, InResults, FlagsInv, Away
<1> QED
  BY <1>2, <1>3, <1>4, <1>5, <1>6

LEMMA CheckDecodeMemStep ==
    ASSUME ControlInv, NEW E, CheckDecodeMem(E)
    PROVE  ControlInv'
<1> USE DEF ControlInv, ControlTypes, CheckDecodeMem, Alive
<1>1. Quiet
  BY EvictKeeps DEF Quiet, FlagsKept, SameFlags
<1>2. Shape(m)' /\ (\A x \in Request : m'.req[x].inflight \in Int) /\ ChunksCounted'
  BY <1>1, QuietChunks
<1>3. ControlTypes'
  BY <1>1, <1>2 DEF Quiet, PcStates
<1>4. QueueInv'
  BY <1>1 DEF Quiet, QueueInv, QueueLens, ChunksFirst
<1>5. PhaseInv'
  BY SMTT(60), <1>1 DEF Quiet, FlagsKept, SameFlags, PhaseInv, PlaceInv, InAdder, Collecting, NoAdder, NoBatch
<1>6. PlaceInv'
  BY <1>1 DEF Quiet, FlagsKept, SameFlags, PhaseInv, Collecting, NoAdder, NoBatch, PlaceInv,
       InFresh, InQueue, InPreemptList, InBatch, InChunks, InAdder, InResults, FlagsInv, Away
<1> QED
  BY <1>2, <1>3, <1>4, <1>5, <1>6

LEMMA PauseGenerationStep ==
    ASSUME ControlInv, NEW mode, PauseGeneration(mode)
    PROVE  ControlInv'
<1> USE DEF ControlInv, ControlTypes, PauseGeneration, batches
<1>1. Quiet
  BY DEF Quiet, FlagsKept, SameFlags
<1>2. Shape(m)' /\ (\A x \in Request : m'.req[x].inflight \in Int) /\ ChunksCounted'
  BY <1>1, QuietChunks
<1>3. ControlTypes'
  BY <1>1, <1>2 DEF Quiet, PcStates
<1>4. QueueInv'
  <2>2. ChunksFirst'
    BY <1>1 DEF Quiet, QueueInv, ChunksFirst
  <2>3. CASE mode = "in_place"
    BY <1>1, <2>2, <2>3 DEF Quiet, QueueInv, QueueLens
  <2>4. CASE mode # "in_place"
    <3>1. CASE result_queue = <<>>
      BY <1>1, <2>2, <2>4, <3>1, QueueEmpty DEF Quiet, QueueInv, QueueLens
    <3>2. CASE result_queue # <<>>
      <4>1. pc = "idle" /\ pc' = "result" /\ paused' = "retracting"
        BY <2>4, <3>2
      <4>a. Len(result_queue) \in Nat
        BY QueueEmpty
      <4>b. Len(result_queue) >= 1
        BY <3>2, QueueEmpty
      <4>c. Len(result_queue) <= 1
        BY <4>1 DEF QueueInv, QueueLens
      <4> HIDE DEF ControlInv, ControlTypes, PauseGeneration, batches
      <4>2. Len(result_queue) = 1
        BY <4>a, <4>b, <4>c
      <4> QED
        BY <1>1, <2>2, <4>1, <4>2 DEF Quiet, QueueInv, QueueLens
    <3> QED
      BY <3>1, <3>2
  <2> QED
    BY <2>3, <2>4
<1>5. PhaseInv'
  BY <1>1 DEF Quiet, FlagsKept, SameFlags, PhaseInv, PlaceInv, InAdder, Collecting, NoAdder, NoBatch
<1>6. PlaceInv'
  BY <1>1 DEF Quiet, FlagsKept, SameFlags, PhaseInv, Collecting, NoAdder, NoBatch, PlaceInv,
       InFresh, InQueue, InPreemptList, InBatch, InChunks, InAdder, InResults, FlagsInv, Away
<1> QED
  BY <1>2, <1>3, <1>4, <1>5, <1>6

LEMMA ContinueGenerationStep ==
    ASSUME ControlInv, ContinueGeneration
    PROVE  ControlInv'
<1> USE DEF ControlInv, ControlTypes, ContinueGeneration, batches
<1>1. Quiet
  BY DEF Quiet, FlagsKept, SameFlags
<1>2. Shape(m)' /\ (\A x \in Request : m'.req[x].inflight \in Int) /\ ChunksCounted'
  BY <1>1, QuietChunks
<1>3. ControlTypes'
  BY <1>1, <1>2 DEF Quiet, PcStates
<1>4. QueueInv'
  BY <1>1 DEF Quiet, QueueInv, QueueLens, ChunksFirst
<1>5. PhaseInv'
  BY <1>1 DEF Quiet, FlagsKept, SameFlags, PhaseInv, PlaceInv, InAdder, Collecting, NoAdder, NoBatch
<1>6. PlaceInv'
  BY <1>1 DEF Quiet, FlagsKept, SameFlags, PhaseInv, Collecting, NoAdder, NoBatch, PlaceInv,
       InFresh, InQueue, InPreemptList, InBatch, InChunks, InAdder, InResults, FlagsInv, Away
<1> QED
  BY <1>2, <1>3, <1>4, <1>5, <1>6

LEMMA EndPauseStep ==
    ASSUME ControlInv, EndPause
    PROVE  ControlInv'
<1> USE DEF ControlInv, ControlTypes, EndPause, ToRetract
<1>1. Quiet
  BY DEF Quiet, FlagsKept, SameFlags
<1>2. Shape(m)' /\ (\A x \in Request : m'.req[x].inflight \in Int) /\ ChunksCounted'
  BY <1>1, QuietChunks
<1>3. ControlTypes'
  BY <1>1, <1>2 DEF Quiet, PcStates, NoBatch
<1>4. QueueInv'
  BY <1>1 DEF Quiet, QueueInv, QueueLens, ChunksFirst
<1>5. PhaseInv'
  BY <1>1 DEF Quiet, FlagsKept, SameFlags, PhaseInv, PlaceInv, InAdder, Collecting, NoAdder, NoBatch
<1>6. PlaceInv'
  BY <1>1 DEF Quiet, FlagsKept, SameFlags, PhaseInv, Collecting, NoAdder, NoBatch, PlaceInv,
       InFresh, InQueue, InPreemptList, InBatch, InChunks, InAdder, InResults, FlagsInv, Away
<1> QED
  BY <1>2, <1>3, <1>4, <1>5, <1>6

(* add_chunked_req and add_one_req change the lengths of one request. *)
LEMMA AddChunkedReqFacts ==
    ASSUME Shape(m), chunked_req \in Request, NEW new, DOMAIN new = AdderFields, AddChunkedReq(new)
    PROVE  /\ FlagsKept(m, m')
           /\ chunked_req' \in {chunked_req, NoReq}
           /\ DOMAIN adder' = AdderFields /\ adder'.can_run_list = {chunked_req}
           /\ adder'.preempt_list = new.preempt_list /\ adder'.victims = new.victims
           /\ adder'.new_chunked_req = new.new_chunked_req
<1> DEFINE room == LET rem == Min({new.chunk, rem_total_tokens(m, new)})
                   IN  IF rem <= 0 THEN new.chunk ELSE rem
           cand == TotalLen(m, chunked_req) - m.req[chunked_req].pre
           fill == TotalLen(m, chunked_req)
           end  == m.req[chunked_req].pre + Min({cand, room})
           len  == Min({cand, room})
           mnew == IF cand > room THEN 0 ELSE MaxNew(chunked_req)
<1>1. /\ m' = [m EXCEPT !.req[chunked_req].fill = fill, !.req[chunked_req].end = end]
      /\ adder' = [UpdatePrefillBudget(new, len, mnew) EXCEPT !.can_run_list = {chunked_req}]
      /\ chunked_req' \in {chunked_req, NoReq}
  BY DEF AddChunkedReq
<1> HIDE DEF fill, end, len, mnew
<1>2. FlagsKept(m, m')
  BY <1>1 DEF FlagsKept, SameFlags, Shape, ReqFields
<1> QED
  BY <1>1, <1>2 DEF UpdatePrefillBudget, AdderFields

LEMMA StartAdderStep ==
    ASSUME ControlInv, StartAdder
    PROVE  ControlInv'
<1> USE DEF ControlInv, ControlTypes
<1>1. /\ pc = "admit" /\ pc' = "prefill" /\ result_queue' = result_queue
      /\ UNCHANGED <<setup, fresh, waiting_queue, running_batch, last_batch, paused, answers>>
  BY DEF StartAdder
<1>a. PICK ratio \in Ratio :
        IF chunked_req = NoReq
        THEN adder' = NewAdder(ratio) /\ UNCHANGED <<m, chunked_req>>
        ELSE AddChunkedReq(NewAdder(ratio))
  BY DEF StartAdder
<1> DEFINE new == NewAdder(ratio)
<1>b. /\ DOMAIN new = AdderFields /\ new.preempt_list = {} /\ new.victims = {}
      /\ new.new_chunked_req = NoReq /\ new.can_run_list = {}
  BY DEF NewAdder, NoAdder, AdderFields
<1> HIDE DEF new
<1>2. /\ chunked_req' \in {chunked_req, NoReq}
      /\ DOMAIN adder' = AdderFields /\ adder'.preempt_list = {} /\ adder'.victims = {}
      /\ adder'.new_chunked_req = NoReq
      /\ adder'.can_run_list = {chunked_req} \ {NoReq}
  <2>1. CASE chunked_req = NoReq
    BY <1>a, <1>b, <2>1 DEF new
  <2>2. CASE chunked_req # NoReq
    BY <1>a, <1>b, <2>2, AddChunkedReqFacts DEF new
  <2> QED
    BY <2>1, <2>2
<1>3. FlagsKept(m, m')
  <2>1. CASE chunked_req = NoReq
    BY <1>a, <2>1 DEF FlagsKept, SameFlags
  <2>2. CASE chunked_req # NoReq
    BY <1>a, <1>b, <2>2, AddChunkedReqFacts DEF new
  <2> QED
    BY <2>1, <2>2
<1>4. Quiet
  BY <1>1, <1>3 DEF Quiet
<1>5. Shape(m)' /\ (\A x \in Request : m'.req[x].inflight \in Int) /\ ChunksCounted'
  BY <1>4, QuietChunks
<1>6. ControlTypes'
  BY <1>1, <1>2, <1>5 DEF PcStates
<1>7. QueueInv'
  BY <1>1 DEF QueueInv, QueueLens, ChunksFirst
<1>8. PhaseInv'
  BY <1>1, <1>2 DEF PhaseInv, Collecting
<1>9. PlaceInv'
  <2> SUFFICES ASSUME NEW x \in Request
               PROVE  /\ InFresh(x)' /\ InQueue(x)' /\ InPreemptList(x)' /\ InBatch(x)'
                      /\ InChunks(x)' /\ InAdder(x)' /\ InResults(x)' /\ FlagsInv(x)'
    BY DEF PlaceInv
  <2>0. SameFlags(m'.req[x], m.req[x])
    BY <1>3 DEF FlagsKept
  <2> USE DEF SameFlags, PlaceInv, Away
  <2>1. InFresh(x)' /\ InQueue(x)'
    BY SMTT(60), <1>1, <1>2, <2>0, SchedulerAssumption DEF InFresh, InQueue
  <2>2. InPreemptList(x)' /\ InBatch(x)' /\ InResults(x)' /\ FlagsInv(x)'
    BY <1>1, <1>2, <2>0 DEF InPreemptList, InBatch, InResults, FlagsInv
  <2>3. InChunks(x)' /\ InAdder(x)'
    BY SMTT(60), <1>1, <1>2, <2>0, SchedulerAssumption DEF InChunks, InAdder
  <2> QED
    BY <2>1, <2>2, <2>3
<1> QED
  BY ZenonT(60), <1>5, <1>6, <1>7, <1>8, <1>9

LEMMA AddOneReqAdder ==
    ASSUME DOMAIN adder = AdderFields, NEW r, AddOneReq(r)
    PROVE  /\ DOMAIN adder' = AdderFields /\ adder'.preempt_list = adder.preempt_list
           /\ adder'.victims = adder.victims
           /\ \/ adder' = adder
              \/ /\ adder'.new_chunked_req \in {adder.new_chunked_req, r}
                 /\ adder'.can_run_list = adder.can_run_list \cup {r}
BY ZenonT(60) DEF AddOneReq, AdderFields, UpdatePrefillBudget

LEMMA AddOneReqStep ==
    ASSUME ControlInv, NEW r \in Request, AddOneReq(r)
    PROVE  ControlInv'
<1> USE DEF ControlInv, ControlTypes
<1>1. /\ pc = "prefill" /\ pc' \in {"prefill", "batch"} /\ result_queue' = result_queue
      /\ r \in waiting_queue
      /\ UNCHANGED <<setup, fresh, waiting_queue, running_batch, last_batch, chunked_req, paused,
                     answers>>
  BY DEF AddOneReq
<1>2. /\ DOMAIN adder' = AdderFields /\ adder'.preempt_list = adder.preempt_list
      /\ adder'.victims = adder.victims
      /\ \/ adder' = adder
         \/ /\ adder'.new_chunked_req \in {adder.new_chunked_req, r}
            /\ adder'.can_run_list = adder.can_run_list \cup {r}
  BY AddOneReqAdder
<1>3. FlagsKept(m, m')
  <2> DEFINE before == InitNextRoundInput(r)
             locked == [before EXCEPT !.tree = IncLockRef(@, before.req[r].last_node)]
             pre    == before.req[r].pre
             cand   == before.req[r].fill - pre
             whole  == PageSize * CeilPages(cand) <= adder.chunk
             extend == IF whole THEN cand ELSE PageSize * (adder.chunk \div PageSize)
             added  == [locked EXCEPT !.req[r].end = pre + extend]
  <2>1. m' \in {before, added}
    BY DEF AddOneReq
  <2>2. FlagsKept(m, before)
    <3> DEFINE len   == TotalLen(m, r)
               match == MatchPrefix(m.tree, Key(m, r, len - 1))
               node  == match.last_node
               tree  == match.tree
               known == PageSize * Len(node)
               prot  == Len(node)
    <3>1. before = [m EXCEPT !.tree = tree, !.req[r].fill = len, !.req[r].pre = known,
                             !.req[r].prot = prot, !.req[r].last_node = node]
      BY DEF InitNextRoundInput
    <3>2. Shape(m)
      OBVIOUS
    <3> HIDE DEF len, match, node, tree, known, prot, before, ControlInv, ControlTypes
    <3> DEFINE a == [m EXCEPT !.tree = tree, !.req[r].fill = len, !.req[r].pre = known]
               b == [a EXCEPT !.req[r].prot = prot, !.req[r].last_node = node]
    <3>3. before = b
      BY <3>1
    <3>4. FlagsKept(m, a)
      BY <3>2 DEF FlagsKept, SameFlags, Shape, ReqFields
    <3> HIDE DEF a
    <3>5. FlagsKept(a, b)
      BY <3>4 DEF FlagsKept, SameFlags, Shape, ReqFields
    <3> HIDE DEF b
    <3> QED
      BY SMTT(60), <3>3, <3>4, <3>5 DEF FlagsKept, SameFlags
  <2> HIDE DEF before, extend, pre
  <2>3. Shape(locked) /\ locked.req = before.req
    BY <2>2 DEF FlagsKept, Shape
  <2> HIDE DEF locked
  <2>4. FlagsKept(m, added)
    BY <2>2, <2>3 DEF FlagsKept, SameFlags, Shape, ReqFields
  <2> QED
    BY ZenonT(60), <2>1, <2>2, <2>4
<1>4. Quiet
  BY <1>1, <1>3 DEF Quiet
<1>5. Shape(m)' /\ (\A x \in Request : m'.req[x].inflight \in Int) /\ ChunksCounted'
  BY <1>4, QuietChunks
<1>6. ControlTypes'
  BY <1>1, <1>2, <1>5 DEF PcStates
<1>7. QueueInv'
  BY <1>1 DEF QueueInv, QueueLens, ChunksFirst
<1>8. PhaseInv'
  BY <1>1, <1>2, <1>3 DEF PhaseInv, Collecting, FlagsKept, SameFlags
<1>9. PlaceInv'
  BY <1>1, <1>2, <1>3 DEF FlagsKept, SameFlags, PlaceInv, PhaseInv, Collecting, InFresh,
       InQueue, InPreemptList, InBatch, InChunks, InAdder, InResults, FlagsInv, Away
<1> QED
  BY ZenonT(60), <1>5, <1>6, <1>7, <1>8, <1>9

(* process_pending_chunked_abort answers the request that was chunked. *)
LEMMA PrepareStepStep ==
    ASSUME ControlInv, NEW W \in SUBSET Request, NEW T \in SUBSET Request, PrepareStep(W, T)
    PROVE  ControlInv'
<1> USE DEF ControlInv, ControlTypes
<1> DEFINE p0 == ProcessPendingChunkedAbort
           p1 == MarkTimedOut(p0, T)
           ch == IF AbortedChunk THEN NoReq ELSE chunked_req
           p2 == StashChunkedRequest(p1, ch)
<1>1. /\ AbortedChunk => chunked_req \in Request /\ pending_chunked_abort = chunked_req
      /\ Shape(p0)
      /\ \A x \in Request :
             /\ p0.req[x].is_retracted = m.req[x].is_retracted
             /\ p0.req[x].inflight = m.req[x].inflight
             /\ p0.req[x].finished <=> m.req[x].finished \/ (AbortedChunk /\ x = chunked_req)
  <2>1. AbortedChunk => chunked_req \in Request /\ pending_chunked_abort = chunked_req
    BY DEF AbortedChunk
  <2>2. CASE AbortedChunk
    <3> DEFINE mem == ReleaseKV(m, chunked_req, FALSE)
    <3>1. FlagsKept(m, mem)
      BY ZenonT(60), <2>1, <2>2, ReleaseKVKeeps
    <3>2. p0 = [mem EXCEPT !.req[chunked_req].finished = TRUE, !.req[chunked_req].to_finish = FALSE]
      BY <2>2 DEF ProcessPendingChunkedAbort
    <3> HIDE DEF mem, p0, ControlInv, ControlTypes
    <3>3. /\ Shape(p0)
          /\ \A x \in Request :
                 /\ p0.req[x].is_retracted = mem.req[x].is_retracted
                 /\ p0.req[x].inflight = mem.req[x].inflight
                 /\ p0.req[x].finished <=> mem.req[x].finished \/ x = chunked_req
      BY <2>1, <2>2, <3>1, <3>2 DEF FlagsKept, Shape, ReqFields
    <3> QED
      BY <2>1, <2>2, <3>1, <3>3 DEF FlagsKept, SameFlags
  <2>3. CASE ~AbortedChunk
    BY <2>3 DEF ProcessPendingChunkedAbort
  <2> QED
    BY <2>1, <2>2, <2>3
<1>2. FlagsKept(p0, p1)
  <2> HIDE DEF p0
  <2> QED
    BY <1>1 DEF MarkTimedOut, FlagsKept, SameFlags, Shape, ReqFields
<1>3. FlagsKept(p1, p2)
  <2>1. Shape(p1)
    BY <1>2 DEF FlagsKept
  <2>2. ch \in Request \cup {NoReq}
    OBVIOUS
  <2> HIDE DEF p1, ch, ControlInv, ControlTypes
  <2>3. CASE ch \in Request /\ p1.req[ch].end > p1.req[ch].pre
    BY <2>1, <2>3, CacheUnfinishedKeeps, SchedulerAssumption DEF StashChunkedRequest
  <2>4. CASE ~(ch \in Request /\ p1.req[ch].end > p1.req[ch].pre)
    BY <2>1, <2>2, <2>4 DEF StashChunkedRequest, FlagsKept, SameFlags
  <2> QED
    BY <2>3, <2>4
<1>4. /\ m' = p2 /\ chunked_req' = ch
      /\ pc = "idle" /\ pc' = "admit" /\ paused = "no"
      /\ W \subseteq waiting_queue /\ waiting_queue' = waiting_queue \ W
      /\ answers' = [x \in Request |-> IF x \in W \/ (AbortedChunk /\ x = chunked_req)
                                       THEN answers[x] + 1 ELSE answers[x]]
      /\ last_batch' = NoBatch
      /\ UNCHANGED <<setup, fresh, result_queue, adder, paused>>
  BY <1>1 DEF PrepareStep, Answer
<1>5. /\ running_batch' \in SUBSET (running_batch \cup last_batch.reqs)
      /\ ch \notin running_batch' \ running_batch
  BY DEF PrepareStep
<1>6. /\ Shape(m')
      /\ \A x \in Request :
             /\ m'.req[x].is_retracted = m.req[x].is_retracted
             /\ m'.req[x].inflight = m.req[x].inflight
             /\ m'.req[x].finished <=> m.req[x].finished \/ (AbortedChunk /\ x = chunked_req)
  <2> HIDE DEF p0, p1, p2, ControlInv, ControlTypes
  <2> QED
    BY <1>1, <1>2, <1>3, <1>4 DEF FlagsKept, SameFlags
<1> HIDE DEF p0, p1, p2
<1>0. /\ ch \in {chunked_req, NoReq} /\ (AbortedChunk => ch = NoReq)
      /\ ~AbortedChunk => ch = chunked_req
  OBVIOUS
<1> HIDE DEF ch
<1>7. ControlTypes'
  <2>1. answers' \in [Request -> Nat]
    BY <1>4
  <2>2. last_batch' \in [reqs : SUBSET Request, chunked_req : Request \cup {NoReq}]
    BY <1>4 DEF NoBatch
  <2>3. running_batch' \in SUBSET Request /\ waiting_queue' \in SUBSET Request
        /\ chunked_req' \in Request \cup {NoReq}
    BY <1>0, <1>4, <1>5
  <2>4. \A x \in Request : m'.req[x].inflight \in Int
    BY <1>6
  <2> QED
    BY <1>4, <1>6, <2>1, <2>2, <2>3, <2>4 DEF PcStates
<1>8. QueueInv'
  BY <1>4 DEF QueueInv, QueueLens, ChunksFirst
<1>9. PhaseInv'
  BY <1>4 DEF PhaseInv, Collecting, NoAdder
<1>10. PlaceInv'
  <2> SUFFICES ASSUME NEW x \in Request
               PROVE  /\ InFresh(x)' /\ InQueue(x)' /\ InPreemptList(x)' /\ InBatch(x)'
                      /\ InChunks(x)' /\ InAdder(x)' /\ InResults(x)' /\ FlagsInv(x)'
    BY DEF PlaceInv
  <2>0. /\ answers'[x] = IF x \in W \/ (AbortedChunk /\ x = chunked_req)
                         THEN answers[x] + 1 ELSE answers[x]
        /\ last_batch'.reqs = {}
    BY <1>4 DEF NoBatch
  <2>a. /\ Away(x) => Away(x)'
        /\ x \in running_batch' => x \in running_batch \cup last_batch.reqs
        /\ x = chunked_req' => x = chunked_req /\ ~AbortedChunk
    BY ZenonT(60), <1>0, <1>4, <1>5, <2>0, SchedulerAssumption DEF Away
  <2> USE DEF PlaceInv
  <2>1. InFresh(x)'
    BY ZenonT(60), <1>4, <1>6, <2>0, <2>a DEF InFresh, Away, PhaseInv, Collecting, NoAdder
  <2>b. InQueue(x)'
    BY <1>4, <1>6, <2>0, <2>a DEF InQueue, Away
  <2>2. InPreemptList(x)' /\ InAdder(x)'
    BY <1>4 DEF InPreemptList, InAdder, PhaseInv, Collecting, NoAdder
  <2>3. InBatch(x)'
    BY ZenonT(60), <1>4, <1>6, <2>0, <2>a DEF InBatch, InQueue, Away
  <2>c. InChunks(x)'
    <3> SUFFICES ASSUME x = chunked_req'
                 PROVE  /\ answers'[x] = 0 /\ ~m'.req[x].finished /\ ~m'.req[x].is_retracted
                        /\ x \notin running_batch'
                        /\ \A i \in 1..Len(result_queue') :
                               x \in result_queue'[i].reqs => result_queue'[i].chunked_req = x
      BY DEF InChunks
    <3>1. x = chunked_req /\ ~AbortedChunk /\ x = ch
      BY <1>4, <2>a
    <3>2. /\ answers[x] = 0 /\ ~m.req[x].finished /\ ~m.req[x].is_retracted
          /\ x \notin running_batch
          /\ \A i \in 1..Len(result_queue) :
                 x \in result_queue[i].reqs => result_queue[i].chunked_req = x
      BY <1>4, <3>1 DEF InChunks
    <3>3. x \notin W
      BY <1>4, <3>1 DEF InQueue, Away
    <3> HIDE DEF ControlInv, ControlTypes, PlaceInv
    <3>4. answers'[x] = 0 /\ ~m'.req[x].finished /\ ~m'.req[x].is_retracted
      BY <1>6, <2>0, <3>1, <3>2, <3>3
    <3> QED
      BY <1>4, <1>5, <3>1, <3>2, <3>4
  <2>4. InResults(x)' /\ FlagsInv(x)'
    BY SMTT(60), <1>0, <1>1, <1>4, <1>6, <2>0 DEF InResults, FlagsInv, InQueue, InChunks
  <2> QED
    BY <2>1, <2>b, <2>2, <2>3, <2>c, <2>4
<1>11. ChunksCounted'
  BY SMTT(60), <1>4, <1>6 DEF ChunksCounted
<1> QED
  BY ZenonT(60), <1>7, <1>8, <1>9, <1>10, <1>11

-----------------------------------------------------------------------------
(* Steps that retract a request. *)

GoneBack(r, new) ==
    /\ Shape(new)
    /\ \A x \in Request : new.req[x].finished = m.req[x].finished
    /\ \A x \in Request : x # r => SameFlags(new.req[x], m.req[x])
    /\ new.req[r].is_retracted /\ new.req[r].inflight = 0

LEMMA RetractedFlags ==
    ASSUME Shape(m), NEW r \in Request
    PROVE  GoneBack(r, Retracted(r))
<1> DEFINE mem == ReleaseKV(m, r, FALSE)
<1>1. FlagsKept(m, mem)
  BY ZenonT(60), ReleaseKVKeeps
<1> HIDE DEF mem
<1>2. Retracted(r) = [mem EXCEPT !.req[r].is_retracted = TRUE, !.req[r].inflight = 0]
  BY DEF Retracted, mem
<1> QED
  BY <1>1, <1>2 DEF GoneBack, FlagsKept, SameFlags, Shape, ReqFields

LEMMA ReleaseReqFlags ==
    ASSUME Shape(m), NEW r \in Request, NEW num, NEW E, ReleaseReq(r, num, E)
    PROVE  GoneBack(r, m')
<1>1. GoneBack(r, Retracted(r))
  BY RetractedFlags
<1> QED
  BY <1>1, EvictKeeps DEF ReleaseReq, GoneBack

LEMMA GoneBackChunks ==
    ASSUME ControlInv, NEW r \in Request, GoneBack(r, m'), result_queue' = result_queue
    PROVE  ChunksCounted' /\ Shape(m)' /\ \A x \in Request : m'.req[x].inflight \in Int
<1>1. ASSUME NEW x \in Request
      PROVE  /\ m'.req[x].inflight \in Int
             /\ ~m'.req[x].is_retracted => SameFlags(m'.req[x], m.req[x])
  BY DEF GoneBack, SameFlags, ControlInv, ControlTypes
<1> QED
  BY <1>1 DEF ControlInv, ChunksCounted, SameFlags, GoneBack

LEMMA ReleaseVictimStep ==
    ASSUME ControlInv, NEW r \in Request, NEW E, ReleaseVictim(r, E)
    PROVE  ControlInv'
<1> USE DEF ControlInv, ControlTypes
<1>1. GoneBack(r, m')
  BY ReleaseReqFlags DEF ReleaseVictim
<1>2. /\ pc = "preempt" /\ r \in adder.victims /\ running_batch' = running_batch \ {r}
      /\ pc' = IF adder.victims = {r} THEN "prefill" ELSE "preempt"
      /\ UNCHANGED <<setup, fresh, waiting_queue, last_batch, chunked_req, result_queue, paused,
                     answers>>
  BY DEF ReleaseVictim
<1>3. /\ DOMAIN adder' = AdderFields /\ adder'.can_run_list = adder.can_run_list
      /\ adder'.new_chunked_req = adder.new_chunked_req
      /\ adder'.victims = adder.victims \ {r} /\ adder'.preempt_list = adder.preempt_list \cup {r}
  BY DEF ReleaseVictim, AdderFields
<1>4. Shape(m)' /\ (\A x \in Request : m'.req[x].inflight \in Int) /\ ChunksCounted'
  BY <1>1, <1>2, GoneBackChunks
<1>5. ControlTypes'
  BY <1>2, <1>3, <1>4 DEF PcStates
<1>6. QueueInv'
  BY <1>2 DEF QueueInv, QueueLens, ChunksFirst
<1>7. PhaseInv'
  BY ZenonT(60), <1>1, <1>2, <1>3 DEF PhaseInv, Collecting, GoneBack
<1>8. PlaceInv'
  <2> SUFFICES ASSUME NEW x \in Request
               PROVE  /\ InFresh(x)' /\ InQueue(x)' /\ InPreemptList(x)' /\ InBatch(x)'
                      /\ InChunks(x)' /\ InAdder(x)' /\ InResults(x)' /\ FlagsInv(x)'
    BY DEF PlaceInv
  <2>0. /\ m'.req[x].finished = m.req[x].finished
        /\ x # r => SameFlags(m'.req[x], m.req[x])
        /\ x = r => m'.req[x].is_retracted /\ m'.req[x].inflight = 0 /\ ~m'.req[x].finished
        /\ r \in running_batch /\ last_batch = NoBatch
    BY <1>1, <1>2 DEF GoneBack, PhaseInv
  <2> USE DEF PlaceInv, SameFlags, Away
  <2>1. InFresh(x)' /\ InQueue(x)'
    BY <1>2, <1>3, <2>0 DEF InFresh, InQueue
  <2>2. InPreemptList(x)' /\ InAdder(x)'
    BY <1>2, <1>3, <2>0 DEF InPreemptList, InAdder, InBatch, InChunks, NoBatch
  <2>3. InBatch(x)' /\ InChunks(x)'
    BY <1>2, <2>0 DEF InBatch, InChunks
  <2>4. InResults(x)' /\ FlagsInv(x)'
    BY <1>2, <2>0 DEF InResults, FlagsInv
  <2> QED
    BY <2>1, <2>2, <2>3, <2>4
<1> QED
  BY ZenonT(60), <1>4, <1>5, <1>6, <1>7, <1>8

(* r goes back to the queue, or it or another one is rejected. *)
LEMMA RetractDecodeStep ==
    ASSUME ControlInv, NEW r \in Request, NEW E, RetractDecode(r, E)
    PROVE  ControlInv'
<1> USE DEF ControlInv, ControlTypes
<1>1. GoneBack(r, m')
  BY ReleaseReqFlags DEF RetractDecode
<1>2. /\ pc = "retract" /\ pc' = "decode" /\ r \in running_batch
      /\ running_batch' = running_batch \ {r}
      /\ UNCHANGED <<setup, fresh, last_batch, chunked_req, result_queue, adder, paused>>
  BY DEF RetractDecode
<1>3. PICK A \in SUBSET (waiting_queue \cup {r}) :
        /\ waiting_queue' = (waiting_queue \cup {r}) \ A
        /\ answers' = [x \in Request |-> IF x \in A THEN answers[x] + 1 ELSE answers[x]]
  BY ZenonT(60) DEF RetractDecode, AddRequestsToQueue, Rejections, Answer
<1>4. Shape(m)' /\ (\A x \in Request : m'.req[x].inflight \in Int) /\ ChunksCounted'
  BY <1>1, <1>2, GoneBackChunks
<1>5. ControlTypes'
  BY <1>2, <1>3, <1>4 DEF PcStates
<1>6. QueueInv'
  BY <1>2 DEF QueueInv, QueueLens, ChunksFirst
<1>7. PhaseInv'
  BY <1>2 DEF PhaseInv, Collecting, NoAdder
<1>8. PlaceInv'
  <2> SUFFICES ASSUME NEW x \in Request
               PROVE  /\ InFresh(x)' /\ InQueue(x)' /\ InPreemptList(x)' /\ InBatch(x)'
                      /\ InChunks(x)' /\ InAdder(x)' /\ InResults(x)' /\ FlagsInv(x)'
    BY DEF PlaceInv
  <2>0. /\ m'.req[x].finished = m.req[x].finished
        /\ x # r => SameFlags(m'.req[x], m.req[x])
        /\ x = r => m'.req[x].is_retracted /\ m'.req[x].inflight = 0 /\ ~m'.req[x].finished
        /\ last_batch = NoBatch /\ adder = NoAdder /\ Len(result_queue) <= 1
    BY <1>1, <1>2 DEF GoneBack, PhaseInv, Collecting, QueueInv, QueueLens
  <2>a. answers'[x] = IF x \in A THEN answers[x] + 1 ELSE answers[x]
    BY <1>3
  <2> USE DEF PlaceInv, SameFlags, Away, NoBatch, NoAdder
  <2>1. InFresh(x)'
    BY <1>2, <1>3, <2>0, <2>a DEF InFresh
  <2>b. InQueue(x)'
    <3>1. CASE x = r
      BY <1>2, <1>3, <2>0, <2>a, <3>1, QueueEmpty DEF InQueue, InBatch, InChunks
    <3>2. CASE x # r
      BY <1>2, <1>3, <2>0, <2>a, <3>2 DEF InQueue
    <3> QED
      BY <3>1, <3>2
  <2>2. InPreemptList(x)' /\ InAdder(x)'
    BY <1>2, <2>0 DEF InPreemptList, InAdder
  <2>3. InBatch(x)' /\ InChunks(x)'
    BY <1>2, <1>3, <2>0, <2>a DEF InBatch, InChunks, InQueue
  <2>4. InResults(x)' /\ FlagsInv(x)'
    BY <1>2, <1>3, <2>0, <2>a DEF InResults, FlagsInv, InQueue, InBatch
  <2> QED
    BY <2>1, <2>b, <2>2, <2>3, <2>4
<1> QED
  BY ZenonT(60), <1>4, <1>5, <1>6, <1>7, <1>8

(* The last request does not fit: it is answered. *)
LEMMA AbortLastStep ==
    ASSUME ControlInv, NEW r \in Request, AbortLast(r)
    PROVE  ControlInv'
<1> USE DEF ControlInv, ControlTypes
<1>1. GoneBack(r, m')
  <2> DEFINE mem == Retracted(r)
  <2>1. GoneBack(r, mem)
    BY RetractedFlags
  <2>2. m' = [mem EXCEPT !.req[r].to_finish = TRUE]
    BY DEF AbortLast
  <2> HIDE DEF mem
  <2> QED
    BY <2>1, <2>2 DEF GoneBack, SameFlags, Shape, ReqFields
<1>2. /\ pc = "retract" /\ running_batch = {r} /\ running_batch' = {}
      /\ pc' = IF result_queue = <<>> THEN "idle" ELSE "result"
      /\ answers' = [x \in Request |-> IF x = r THEN answers[x] + 1 ELSE answers[x]]
      /\ UNCHANGED <<setup, fresh, waiting_queue, last_batch, chunked_req, result_queue, adder,
                     paused>>
  BY DEF AbortLast, Answer
<1>4. Shape(m)' /\ (\A x \in Request : m'.req[x].inflight \in Int) /\ ChunksCounted'
  BY <1>1, <1>2, GoneBackChunks
<1>5. ControlTypes'
  BY <1>2, <1>4 DEF PcStates
<1>6. QueueInv'
  BY <1>2, QueueEmpty DEF QueueInv, QueueLens, ChunksFirst
<1>7. PhaseInv'
  BY <1>2 DEF PhaseInv, Collecting, NoAdder
<1>8. PlaceInv'
  <2> SUFFICES ASSUME NEW x \in Request
               PROVE  /\ InFresh(x)' /\ InQueue(x)' /\ InPreemptList(x)' /\ InBatch(x)'
                      /\ InChunks(x)' /\ InAdder(x)' /\ InResults(x)' /\ FlagsInv(x)'
    BY DEF PlaceInv
  <2>0. /\ m'.req[x].finished = m.req[x].finished
        /\ x # r => SameFlags(m'.req[x], m.req[x]) /\ answers'[x] = answers[x]
        /\ x = r => /\ m'.req[x].is_retracted /\ m'.req[x].inflight = 0 /\ ~m'.req[x].finished
                    /\ answers'[x] = answers[x] + 1
        /\ last_batch = NoBatch /\ adder = NoAdder
    BY <1>1, <1>2 DEF GoneBack, PhaseInv, Collecting, QueueInv, QueueLens
  <2> USE DEF PlaceInv, SameFlags, Away, NoBatch, NoAdder
  <2>1. InFresh(x)'
    BY <1>2, <2>0 DEF InFresh
  <2>b. InQueue(x)'
    BY <1>2, <2>0, QueueEmpty DEF InQueue
  <2>2. InPreemptList(x)' /\ InAdder(x)'
    BY <1>2, <2>0 DEF InPreemptList, InAdder
  <2>3. InBatch(x)' /\ InChunks(x)'
    BY <1>2, <2>0 DEF InBatch, InChunks
  <2>4. InResults(x)' /\ FlagsInv(x)'
    BY <1>2, <2>0 DEF InResults, FlagsInv, InBatch
  <2> QED
    BY <2>1, <2>b, <2>2, <2>3, <2>4
<1> QED
  BY ZenonT(60), <1>4, <1>5, <1>6, <1>7, <1>8

(* pause_generation in its retracting mode. *)
LEMMA RetractAllStep ==
    ASSUME ControlInv, NEW r \in Request, NEW E, RetractAll(r, E)
    PROVE  ControlInv'
<1> USE DEF ControlInv, ControlTypes
<1>1. GoneBack(r, m')
  BY ReleaseReqFlags DEF RetractAll
<1>2. /\ pc = "pause" /\ pc' = "pause" /\ r \in ToRetract
      /\ running_batch' = running_batch \ {r}
      /\ last_batch' = [last_batch EXCEPT !.reqs = @ \ {r}]
      /\ chunked_req' = IF chunked_req = r THEN NoReq ELSE chunked_req
      /\ UNCHANGED <<setup, fresh, result_queue, adder, paused>>
  BY DEF RetractAll
<1>3. PICK A \in SUBSET (waiting_queue \cup {r}) :
        /\ waiting_queue' = (waiting_queue \cup {r}) \ A
        /\ answers' = [x \in Request |-> IF x \in A THEN answers[x] + 1 ELSE answers[x]]
  BY ZenonT(60) DEF RetractAll, AddRequestsToQueue, Rejections, Answer
<1>4. Shape(m)' /\ (\A x \in Request : m'.req[x].inflight \in Int) /\ ChunksCounted'
  BY <1>1, <1>2, GoneBackChunks
<1>5. ControlTypes'
  <2>1. last_batch' \in [reqs : SUBSET Request, chunked_req : Request \cup {NoReq}]
    BY <1>2
  <2>2. chunked_req' \in Request \cup {NoReq} /\ running_batch' \in SUBSET Request
    BY <1>2
  <2>3. waiting_queue' \in SUBSET Request /\ answers' \in [Request -> Nat]
    BY <1>3
  <2> QED
    BY ZenonT(60), <1>2, <1>4, <2>1, <2>2, <2>3
<1>6. QueueInv'
  BY <1>2 DEF QueueInv, QueueLens, ChunksFirst
<1>7. PhaseInv'
  BY <1>2 DEF PhaseInv, Collecting, NoAdder
<1>8. PlaceInv'
  <2> SUFFICES ASSUME NEW x \in Request
               PROVE  /\ InFresh(x)' /\ InQueue(x)' /\ InPreemptList(x)' /\ InBatch(x)'
                      /\ InChunks(x)' /\ InAdder(x)' /\ InResults(x)' /\ FlagsInv(x)'
    BY DEF PlaceInv
  <2>0. /\ m'.req[x].finished = m.req[x].finished
        /\ x # r => SameFlags(m'.req[x], m.req[x])
        /\ x = r => m'.req[x].is_retracted /\ m'.req[x].inflight = 0 /\ ~m'.req[x].finished
        /\ adder = NoAdder /\ Len(result_queue) = 0
        /\ last_batch'.reqs = last_batch.reqs \ {r}
        /\ answers[r] = 0
    BY <1>1, <1>2 DEF GoneBack, PhaseInv, Collecting, QueueInv, QueueLens, ToRetract, PlaceInv,
       InBatch, InChunks
  <2>a. answers'[x] = IF x \in A THEN answers[x] + 1 ELSE answers[x]
    BY <1>3
  <2>c. /\ Away(x) \/ x = r => Away(x)'
        /\ r \in running_batch \cup last_batch.reqs \/ r = chunked_req
    BY <1>2, <2>0, SchedulerAssumption DEF Away, ToRetract
  <2>d. 1..Len(result_queue) = {} /\ result_queue' = result_queue
    BY <1>2, <2>0
  <2> USE DEF PlaceInv, SameFlags
  <2>1. InFresh(x)'
    BY <1>2, <1>3, <2>0, <2>a, <2>c, <2>d DEF InFresh, Away
  <2>b. InQueue(x)'
    BY <1>2, <1>3, <2>0, <2>a, <2>c, <2>d DEF InQueue, NoAdder
  <2>2. InPreemptList(x)' /\ InAdder(x)'
    BY <1>2, <2>0 DEF InPreemptList, InAdder, NoAdder
  <2>3. InBatch(x)' /\ InChunks(x)'
    BY ZenonT(60), <1>2, <1>3, <2>0, <2>a, <2>d, SchedulerAssumption DEF InBatch, InChunks, InQueue, Away
  <2>4. InResults(x)' /\ FlagsInv(x)'
    BY <1>2, <1>3, <2>0, <2>a, <2>d DEF InResults, FlagsInv, InQueue
  <2> QED
    BY <2>1, <2>b, <2>2, <2>3, <2>4
<1> QED
  BY ZenonT(60), <1>4, <1>5, <1>6, <1>7, <1>8

-----------------------------------------------------------------------------
(* Results. *)

LEMMA SettleFacts ==
    ASSUME result_queue \in Seq(Batch), Len(result_queue) >= 1, NEW r \in Request, Settle(r)
    PROVE  /\ result_queue' \in Seq(Batch) /\ Len(result_queue') = Len(result_queue)
           /\ \A i \in 1..Len(result_queue) :
                  /\ result_queue'[i].extend = result_queue[i].extend
                  /\ result_queue'[i].chunked_req = result_queue[i].chunked_req
                  /\ i # 1 => result_queue'[i].reqs = result_queue[i].reqs
           /\ result_queue'[1].reqs = result_queue[1].reqs \ {r}
<1>1. Len(result_queue) \in Nat /\ DOMAIN result_queue = 1..Len(result_queue)
      /\ 1 \in 1..Len(result_queue)
  BY LenProperties
<1>2. \A i \in 1..Len(result_queue) : result_queue[i] \in Batch
  BY ElementOfSeq
<1> DEFINE b == [result_queue[1] EXCEPT !.reqs = @ \ {r}]
<1>3. result_queue' = [result_queue EXCEPT ![1] = b]
  BY DEF Settle
<1>4. /\ b \in Batch /\ b.extend = result_queue[1].extend
      /\ b.chunked_req = result_queue[1].chunked_req /\ b.reqs = result_queue[1].reqs \ {r}
  BY <1>1, <1>2 DEF Batch
<1> HIDE DEF b
<1>5. result_queue' \in Seq(Batch) /\ Len(result_queue') = Len(result_queue)
  BY <1>1, <1>3, <1>4, ExceptSeq
<1> QED
  BY <1>1, <1>3, <1>4, <1>5

(* One request of the first result is settled: what is left to show of the *)
(* queue of results.                                                       *)
LEMMA SettleQueue ==
    ASSUME ControlInv, NEW r \in Request, Settle(r), pc = "result",
           UNCHANGED <<setup, pc, paused>>
    PROVE  /\ QueueInv'
           /\ result_queue' \in Seq(Batch)
           /\ \A x \in Request : Chunks(x)' = IF x = r THEN Chunks(x) \ {1} ELSE Chunks(x)
           /\ \A x \in Request : \A i \in 1..Len(result_queue') :
                  x \in result_queue'[i].reqs =>
                      /\ i \in 1..Len(result_queue) /\ x \in result_queue[i].reqs
                      /\ result_queue'[i].chunked_req = result_queue[i].chunked_req
<1>1. result_queue \in Seq(Batch) /\ Len(result_queue) >= 1
  BY DEF ControlInv, ControlTypes, QueueInv, QueueLens
<1>2. /\ result_queue' \in Seq(Batch) /\ Len(result_queue') = Len(result_queue)
      /\ \A i \in 1..Len(result_queue) :
             /\ result_queue'[i].extend = result_queue[i].extend
             /\ result_queue'[i].chunked_req = result_queue[i].chunked_req
             /\ i # 1 => result_queue'[i].reqs = result_queue[i].reqs
      /\ result_queue'[1].reqs = result_queue[1].reqs \ {r}
  BY <1>1, SettleFacts
<1>3. QueueLens'
  BY <1>2 DEF ControlInv, QueueInv, QueueLens
<1>4. \A x \in Request : \A i \in 1..Len(result_queue') :
          x \in result_queue'[i].reqs <=> x \in result_queue[i].reqs /\ ~(i = 1 /\ x = r)
  BY <1>2
<1>5. ChunksFirst'
  BY <1>2, <1>4 DEF ControlInv, QueueInv, ChunksFirst
<1>6. \A x \in Request : Chunks(x)' = IF x = r THEN Chunks(x) \ {1} ELSE Chunks(x)
  BY <1>2, <1>4 DEF Chunks
<1> QED
  BY <1>2, <1>3, <1>4, <1>5, <1>6 DEF QueueInv

(* Where the requests are after r's share of a result: r may have finished *)
(* with it.                                                                *)
LEMMA ResultPlace ==
    ASSUME ControlInv, NEW r \in Request, pc = "result",
           UNCHANGED <<fresh, waiting_queue, running_batch, last_batch, chunked_req, adder, pc>>,
           \A x \in Request : \A i \in 1..Len(result_queue') :
               x \in result_queue'[i].reqs =>
                   /\ i \in 1..Len(result_queue) /\ x \in result_queue[i].reqs
                   /\ result_queue'[i].chunked_req = result_queue[i].chunked_req,
           \A x \in Request :
               /\ m'.req[x].is_retracted = m.req[x].is_retracted
               /\ m.req[x].is_retracted => m'.req[x].inflight = m.req[x].inflight,
           \A x \in Request :
               \/ m'.req[x].finished = m.req[x].finished /\ answers'[x] = answers[x]
               \/ /\ x \notin fresh /\ x \notin waiting_queue /\ x # chunked_req
                  /\ m'.req[x].finished => answers'[x] = 1
                  /\ ~m'.req[x].finished => answers'[x] = 0
                  /\ answers'[x] <= 1
    PROVE  PlaceInv'
<1> SUFFICES ASSUME NEW x \in Request
             PROVE  /\ InFresh(x)' /\ InQueue(x)' /\ InPreemptList(x)' /\ InBatch(x)'
                    /\ InChunks(x)' /\ InAdder(x)' /\ InResults(x)' /\ FlagsInv(x)'
  BY DEF PlaceInv
<1> USE DEF ControlInv, PlaceInv
<1>1. adder = NoAdder
  BY DEF PhaseInv, Collecting
<1>2. Away(x)' <=> Away(x)
  BY DEF Away
<1>3. InFresh(x)' /\ InQueue(x)'
  BY <1>1, <1>2 DEF InFresh, InQueue
<1>4. InPreemptList(x)' /\ InAdder(x)'
  BY <1>1 DEF InPreemptList, InAdder, NoAdder
<1>5. InBatch(x)'
  BY DEF InBatch
<1>6. InChunks(x)'
  BY DEF InChunks
<1>7. InResults(x)'
  BY DEF InResults
<1>8. FlagsInv(x)'
  BY DEF FlagsInv
<1> QED
  BY <1>3, <1>4, <1>5, <1>6, <1>7, <1>8

LEMMA DropResultStep ==
    ASSUME ControlInv, NEW r \in Request, DropResult(r)
    PROVE  ControlInv'
<1> USE DEF ControlInv, ControlTypes
<1>1. /\ pc = "result" /\ r \in result_queue[1].reqs /\ Settle(r)
      /\ Dropped(m.req[r], result_queue[1].extend)
      /\ UNCHANGED <<setup, m, fresh, waiting_queue, running_batch, last_batch, chunked_req,
                     adder, pc, paused, answers>>
  BY DEF DropResult, batches
<1>2. /\ QueueInv' /\ result_queue' \in Seq(Batch)
      /\ \A x \in Request : Chunks(x)' = IF x = r THEN Chunks(x) \ {1} ELSE Chunks(x)
      /\ \A x \in Request : \A i \in 1..Len(result_queue') :
             x \in result_queue'[i].reqs =>
                 /\ i \in 1..Len(result_queue) /\ x \in result_queue[i].reqs
                 /\ result_queue'[i].chunked_req = result_queue[i].chunked_req
  BY <1>1, SettleQueue
<1>3. ControlTypes'
  BY <1>1, <1>2
<1>4. PhaseInv'
  BY <1>1 DEF PhaseInv, Collecting
<1>5. PlaceInv'
  BY <1>1, <1>2, ResultPlace
<1>6. ~m.req[r].is_retracted => 1 \notin Chunks(r)
  <2> SUFFICES ASSUME ~m.req[r].is_retracted, 1 \in Chunks(r) PROVE FALSE
    OBVIOUS
  <2>1. result_queue[1].chunked_req = r /\ 1 \in 1..Len(result_queue)
    BY DEF Chunks
  <2>2. result_queue[1].extend
    BY ZenonT(60), <2>1, SchedulerAssumption DEF QueueInv, ChunksFirst
  <2>3. m.req[r].inflight <= 0
    BY <1>1, <2>2 DEF Dropped
  <2>4. m.req[r].inflight = Cardinality(Chunks(r))
    BY DEF ChunksCounted, Chunks
  <2>5. Chunks(r) = {}
    <3>1. IsFiniteSet(Chunks(r)) /\ Cardinality(Chunks(r)) \in Nat
      BY ChunksFinite
    <3>2. Cardinality(Chunks(r)) = 0
      BY <2>3, <2>4, <3>1
    <3> QED
      BY <3>1, <3>2, FS_EmptySet
  <2> QED
    BY <2>5
<1>7. ChunksCounted'
  <2> SUFFICES ASSUME NEW x \in Request, ~m'.req[x].is_retracted
               PROVE  m'.req[x].inflight = Cardinality(Chunks(x)')
    BY DEF ChunksCounted, Chunks
  <2>1. m.req[x].inflight = Cardinality(Chunks(x)) /\ m' = m
    BY <1>1 DEF ChunksCounted, Chunks
  <2>2. Chunks(x)' = Chunks(x)
    BY ZenonT(60), <1>1, <1>2, <1>6
  <2> QED
    BY <2>1, <2>2
<1> QED
  BY ZenonT(60), <1>2, <1>3, <1>4, <1>5, <1>7

(* The result of a chunk counts the chunk off. *)
LEMMA ChunkResultStep ==
    ASSUME ControlInv, NEW r \in Request, ChunkResult(r)
    PROVE  ControlInv'
<1> USE DEF ControlInv, ControlTypes
<1>1. /\ pc = "result" /\ r \in result_queue[1].reqs /\ Settle(r)
      /\ ~m.req[r].is_retracted /\ m.req[r].inflight > 0
      /\ m' = [m EXCEPT !.req[r].inflight = @ - 1]
      /\ UNCHANGED <<setup, fresh, waiting_queue, running_batch, last_batch, chunked_req,
                     adder, pc, paused, answers>>
  BY DEF ChunkResult, batches, Dropped
<1>2. /\ QueueInv' /\ result_queue' \in Seq(Batch)
      /\ \A x \in Request : Chunks(x)' = IF x = r THEN Chunks(x) \ {1} ELSE Chunks(x)
      /\ \A x \in Request : \A i \in 1..Len(result_queue') :
             x \in result_queue'[i].reqs =>
                 /\ i \in 1..Len(result_queue) /\ x \in result_queue[i].reqs
                 /\ result_queue'[i].chunked_req = result_queue[i].chunked_req
  BY <1>1, SettleQueue
<1>3. /\ Shape(m')
      /\ \A x \in Request :
             /\ m'.req[x].finished = m.req[x].finished
             /\ m'.req[x].is_retracted = m.req[x].is_retracted
             /\ m'.req[x].inflight = IF x = r THEN m.req[x].inflight - 1 ELSE m.req[x].inflight
  BY SMTT(60), <1>1 DEF Shape, ReqFields
<1>4. ControlTypes'
  BY <1>1, <1>2, <1>3
<1>5. PhaseInv'
  BY <1>1 DEF PhaseInv, Collecting, NoAdder
<1>6. PlaceInv'
  BY ZenonT(60), <1>1, <1>2, <1>3, ResultPlace
<1>7. IsFiniteSet(Chunks(r)) /\ m.req[r].inflight = Cardinality(Chunks(r))
  BY ZenonT(60), <1>1, ChunksFinite DEF ChunksCounted, Chunks
<1>8. 1 \in Chunks(r)
  <2>1. Chunks(r) # {}
    BY <1>1, <1>7, FS_EmptySet
  <2>2. PICK i \in Chunks(r) : TRUE
    BY <2>1
  <2>3. i \in 1..Len(result_queue) /\ result_queue[i].chunked_req = r /\ r \in result_queue[i].reqs
    BY <2>2 DEF Chunks
  <2>4. Len(result_queue) \in Nat /\ Len(result_queue) >= 1
    BY <1>1, QueueEmpty DEF QueueInv, QueueLens
  <2>5. i # 1 => result_queue[1].chunked_req = r
    <3>1. \A i1, j1 \in 1..Len(result_queue) : \A y \in Request :
            i1 < j1 /\ y = result_queue[j1].chunked_req
                    /\ y \in result_queue[j1].reqs /\ y \in result_queue[i1].reqs
                => result_queue[i1].chunked_req = y
      BY DEF QueueInv, ChunksFirst
    <3> HIDE DEF ControlInv, ControlTypes
    <3>2. 1 \in 1..Len(result_queue) /\ (i # 1 => 1 < i)
      BY <2>3, <2>4
    <3> QED
      BY <1>1, <2>3, <3>1, <3>2
  <2> QED
    BY <1>1, <2>3, <2>4, <2>5 DEF Chunks
<1>9. ChunksCounted'
  <2> SUFFICES ASSUME NEW x \in Request, ~m'.req[x].is_retracted
               PROVE  m'.req[x].inflight = Cardinality(Chunks(x)')
    BY DEF ChunksCounted, Chunks
  <2>1. CASE x = r
    <3>1. Cardinality(Chunks(r) \ {1}) = Cardinality(Chunks(r)) - 1
      <4> HIDE DEF ControlInv, ControlTypes
      <4> QED
        BY <1>7, <1>8, FS_RemoveElement, ZenonT(60)
    <3> QED
      BY ZenonT(60), <1>2, <1>3, <1>7, <2>1, <3>1
  <2>2. CASE x # r
    <3>1. m.req[x].inflight = Cardinality(Chunks(x))
      BY ZenonT(60), <1>3 DEF ChunksCounted, Chunks
    <3> QED
      BY <1>2, <1>3, <2>2, <3>1
  <2> QED
    BY <2>1, <2>2
<1> QED
  BY ZenonT(60), <1>2, <1>4, <1>5, <1>6, <1>9

(* A token, or more, for r, which may finish with it. *)
LEMMA OutputStep ==
    ASSUME ControlInv, NEW r \in Request, pc = "result", r \in result_queue[1].reqs,
           ~m.req[r].finished, ~m.req[r].is_retracted,
           1 \notin Chunks(r),
           Settle(r), Shape(m'),
           \A x \in Request :
               /\ m'.req[x].is_retracted = m.req[x].is_retracted
               /\ m'.req[x].inflight = m.req[x].inflight
               /\ x # r => m'.req[x].finished = m.req[x].finished,
           answers' = [x \in Request |-> IF x = r /\ m'.req[r].finished
                                         THEN answers[x] + 1 ELSE answers[x]],
           UNCHANGED <<setup, fresh, waiting_queue, running_batch, last_batch, chunked_req, adder,
                       pc, paused>>
    PROVE  ControlInv'
<1> USE DEF ControlInv, ControlTypes
<1>1. /\ QueueInv' /\ result_queue' \in Seq(Batch)
      /\ \A x \in Request : Chunks(x)' = IF x = r THEN Chunks(x) \ {1} ELSE Chunks(x)
      /\ \A x \in Request : \A i \in 1..Len(result_queue') :
             x \in result_queue'[i].reqs =>
                 /\ i \in 1..Len(result_queue) /\ x \in result_queue[i].reqs
                 /\ result_queue'[i].chunked_req = result_queue[i].chunked_req
  BY ZenonT(60), SettleQueue
<1>2. 1 \in 1..Len(result_queue)
  BY QueueEmpty DEF QueueInv, QueueLens
<1>3. r \notin fresh /\ r \notin waiting_queue /\ r # chunked_req /\ answers[r] = 0
  <2>1. r \notin fresh /\ r \notin waiting_queue
    BY <1>2 DEF PlaceInv, InFresh, InQueue
  <2>2. r # chunked_req
    BY <1>2 DEF PlaceInv, InChunks, Chunks
  <2>3. answers[r] = 0
    BY <1>2 DEF PlaceInv, InResults
  <2> QED
    BY <2>1, <2>2, <2>3
<1>4. ControlTypes'
  <2>1. answers' \in [Request -> Nat]
    OBVIOUS
  <2>2. \A x \in Request : m'.req[x].inflight \in Int
    BY ZenonT(60)
  <2> QED
    BY <1>1, <2>1, <2>2
<1>5. PhaseInv'
  BY DEF PhaseInv, Collecting, NoAdder
<1>6. PlaceInv'
  <2>1. \A x \in Request :
               \/ m'.req[x].finished = m.req[x].finished /\ answers'[x] = answers[x]
               \/ /\ x \notin fresh /\ x \notin waiting_queue /\ x # chunked_req
                  /\ m'.req[x].finished => answers'[x] = 1
                  /\ ~m'.req[x].finished => answers'[x] = 0
                  /\ answers'[x] <= 1
    BY <1>3
  <2> QED
    BY <1>1, <2>1, ResultPlace
<1>7. ChunksCounted'
  <2> SUFFICES ASSUME NEW x \in Request, ~m'.req[x].is_retracted
               PROVE  m'.req[x].inflight = Cardinality(Chunks(x)')
    BY DEF ChunksCounted, Chunks
  <2>1. m.req[x].inflight = Cardinality(Chunks(x)) /\ m'.req[x].inflight = m.req[x].inflight
    BY ZenonT(60) DEF ChunksCounted, Chunks
  <2>2. Chunks(x)' = Chunks(x)
    BY ZenonT(60), <1>1
  <2> QED
    BY <2>1, <2>2
<1> QED
  BY <1>1, <1>4, <1>5, <1>6, <1>7

LEMMA OutputFlags ==
    ASSUME NEW mem, Shape(mem), NEW r \in Request, NEW k, NEW stop
    PROVE  LET o == Output(mem, r, k, stop)
           IN  /\ Shape(o)
               /\ \A x \in Request :
                      /\ o.req[x].is_retracted = mem.req[x].is_retracted
                      /\ o.req[x].inflight = mem.req[x].inflight
                      /\ x # r => o.req[x].finished = mem.req[x].finished
<1> DEFINE out == mem.req[r].out + k
           fin == mem.req[r].to_finish \/ stop \/ mem.req[r].out + k >= MaxNew(r)
<1>1. Output(mem, r, k, stop) =
        [mem EXCEPT !.req[r].out = out, !.req[r].finished = fin, !.req[r].to_finish = FALSE]
  BY DEF Output, Shape, ReqFields
<1> HIDE DEF out, fin
<1> QED
  BY <1>1 DEF Shape, ReqFields

LEMMA PrefillResultStep ==
    ASSUME ControlInv, NEW r \in Request, NEW stop, PrefillResult(r, stop)
    PROVE  ControlInv'
<1> DEFINE o == Output(m, r, 1, stop)
<1>1. /\ pc = "result" /\ r \in result_queue[1].reqs /\ Settle(r)
      /\ ~m.req[r].is_retracted /\ ~m.req[r].finished /\ m.req[r].inflight <= 0
      /\ m' = IF o.req[r].finished THEN ReleaseKV(o, r, TRUE) ELSE CacheUnfinished(o, r)
      /\ Answer({x \in {r} : o.req[r].finished})
      /\ UNCHANGED <<setup, fresh, waiting_queue, running_batch, last_batch, chunked_req,
                     adder, pc, paused>>
  BY DEF PrefillResult, Dropped, batches
<1>2. /\ Shape(o)
      /\ \A x \in Request :
             /\ o.req[x].is_retracted = m.req[x].is_retracted
             /\ o.req[x].inflight = m.req[x].inflight
             /\ x # r => o.req[x].finished = m.req[x].finished
  BY OutputFlags DEF ControlInv, ControlTypes
<1> HIDE DEF o
<1>3. FlagsKept(o, m')
  BY ZenonT(60), <1>1, <1>2, ReleaseKVKeeps, CacheUnfinishedKeeps
<1>4. /\ Shape(m')
      /\ m'.req[r].finished = o.req[r].finished
      /\ \A x \in Request :
             /\ m'.req[x].is_retracted = m.req[x].is_retracted
             /\ m'.req[x].inflight = m.req[x].inflight
             /\ x # r => m'.req[x].finished = m.req[x].finished
  BY <1>2, <1>3 DEF FlagsKept, SameFlags
<1>5. answers' = [x \in Request |-> IF x = r /\ m'.req[r].finished
                                    THEN answers[x] + 1 ELSE answers[x]]
  BY ZenonT(60), <1>1, <1>4 DEF Answer
<1>6. 1 \notin Chunks(r)
  <2>1. m.req[r].inflight = Cardinality(Chunks(r))
    BY <1>1 DEF ControlInv, ChunksCounted, Chunks
  <2>2. IsFiniteSet(Chunks(r)) /\ Cardinality(Chunks(r)) \in Nat
    BY ChunksFinite DEF ControlInv, ControlTypes
  <2>3. Cardinality(Chunks(r)) = 0
    BY <1>1, <2>1, <2>2
  <2> QED
    BY <2>2, <2>3, FS_EmptySet
<1> QED
  BY ZenonT(60), <1>1, <1>4, <1>5, <1>6, OutputStep

LEMMA DecodeResultStep ==
    ASSUME ControlInv, NEW r \in Request, NEW k, NEW stop, DecodeResult(r, k, stop)
    PROVE  ControlInv'
<1> DEFINE c == IF setup.draft = 0 THEN m ELSE [m EXCEPT !.req[r].com = @ + k]
           o == Output(c, r, k, stop)
<1>0. Shape(m)
  BY SMTT(60) DEF ControlInv, ControlTypes
<1>1. /\ pc = "result" /\ r \in result_queue[1].reqs /\ Settle(r)
      /\ ~m.req[r].is_retracted /\ ~m.req[r].finished /\ ~result_queue[1].extend
      /\ m' = IF o.req[r].finished THEN ReleaseKV(o, r, TRUE) ELSE o
      /\ Answer({x \in {r} : o.req[r].finished})
      /\ UNCHANGED <<setup, fresh, waiting_queue, running_batch, last_batch, chunked_req,
                     adder, pc, paused>>
  BY DEF DecodeResult, Dropped, batches
<1>a. FlagsKept(m, c)
  BY <1>0 DEF FlagsKept, SameFlags, Shape, ReqFields
<1> HIDE DEF c
<1>2. /\ Shape(o)
      /\ \A x \in Request :
             /\ o.req[x].is_retracted = c.req[x].is_retracted
             /\ o.req[x].inflight = c.req[x].inflight
             /\ x # r => o.req[x].finished = c.req[x].finished
  BY <1>a, OutputFlags DEF FlagsKept
<1> HIDE DEF o
<1>3. FlagsKept(o, m')
  <2>1. CASE o.req[r].finished
    BY ZenonT(60), <1>1, <1>2, <2>1, ReleaseKVKeeps
  <2>2. CASE ~o.req[r].finished
    BY <1>1, <1>2, <2>2 DEF FlagsKept, SameFlags
  <2> QED
    BY <2>1, <2>2
<1>4. /\ Shape(m')
      /\ m'.req[r].finished = o.req[r].finished
      /\ \A x \in Request :
             /\ m'.req[x].is_retracted = m.req[x].is_retracted
             /\ m'.req[x].inflight = m.req[x].inflight
             /\ x # r => m'.req[x].finished = m.req[x].finished
  BY <1>a, <1>2, <1>3 DEF FlagsKept, SameFlags
<1>5. answers' = [x \in Request |-> IF x = r /\ m'.req[r].finished
                                    THEN answers[x] + 1 ELSE answers[x]]
  BY ZenonT(60), <1>1, <1>4 DEF Answer
<1>6. 1 \notin Chunks(r)
  BY <1>1, SchedulerAssumption DEF ControlInv, QueueInv, ChunksFirst, Chunks
<1> QED
  BY ZenonT(60), <1>1, <1>4, <1>5, <1>6, OutputStep

(* The rest of a result: the next one is the first. *)
LEMMA EndResultStep ==
    ASSUME ControlInv, EndResult
    PROVE  ControlInv'
<1> USE DEF ControlInv, ControlTypes
<1>1. /\ pc = "result" /\ result_queue[1].reqs = {} /\ result_queue' = Tail(result_queue)
      /\ pc' = IF paused = "retracting" THEN "pause" ELSE "idle"
      /\ UNCHANGED <<setup, m, fresh, waiting_queue, running_batch, last_batch, chunked_req,
                     adder, paused, answers>>
  BY DEF EndResult, batches
<1>2. Len(result_queue) = 1 \/ Len(result_queue) = 2
  <2>1. Len(result_queue) \in Nat
    BY QueueEmpty
  <2>2. Len(result_queue) >= 1 /\ Len(result_queue) <= 2
    BY <1>1 DEF QueueInv, QueueLens
  <2>3. \A n \in Nat : n >= 1 /\ n <= 2 => n = 1 \/ n = 2
    OBVIOUS
  <2> HIDE DEF ControlInv, ControlTypes
  <2> QED
    BY <2>1, <2>2, <2>3, ZenonT(60)
<1>3. /\ result_queue' \in Seq(Batch) /\ Len(result_queue') = Len(result_queue) - 1
      /\ \A i \in 1..Len(result_queue') : result_queue'[i] = result_queue[i + 1]
  <2>1. Len(<<>>) = 0
    OBVIOUS
  <2>2. result_queue # <<>>
    <3> HIDE DEF ControlInv, ControlTypes
    <3> QED
      BY <1>2, <2>1
  <2> QED
    BY <1>1, <2>2, HeadTailProperties
<1>4. \A i \in 1..Len(result_queue') : i = 1 /\ 2 \in 1..Len(result_queue)
                                       /\ result_queue'[i] = result_queue[2]
  <2> HIDE DEF ControlInv, ControlTypes
  <2>1. CASE Len(result_queue) = 1
    BY <1>3, <2>1
  <2>2. CASE Len(result_queue) = 2
    BY <1>3, <2>2
  <2> QED
    BY <1>2, <2>1, <2>2
<1>5. ControlTypes'
  BY <1>1, <1>3 DEF PcStates
<1>6. QueueInv'
  <2>1. QueueLens'
    BY <1>1, <1>2, <1>3 DEF QueueInv, QueueLens
  <2>2. ChunksFirst'
    BY <1>4 DEF QueueInv, ChunksFirst
  <2> QED
    BY <2>1, <2>2 DEF QueueInv
<1>7. PhaseInv'
  BY <1>1 DEF PhaseInv, Collecting, NoAdder
<1>8. PlaceInv'
  <2> SUFFICES ASSUME NEW x \in Request
               PROVE  /\ InFresh(x)' /\ InQueue(x)' /\ InPreemptList(x)' /\ InBatch(x)'
                      /\ InChunks(x)' /\ InAdder(x)' /\ InResults(x)' /\ FlagsInv(x)'
    BY DEF PlaceInv
  <2> USE DEF PlaceInv
  <2>1. InFresh(x)' /\ InQueue(x)'
    BY <1>1, <1>4 DEF InFresh, InQueue, Away
  <2>2. InPreemptList(x)' /\ InAdder(x)' /\ InBatch(x)' /\ FlagsInv(x)'
    BY <1>1 DEF InPreemptList, InAdder, InBatch, FlagsInv, Away
  <2>3. InChunks(x)'
    BY <1>1, <1>4 DEF InChunks
  <2>4. InResults(x)'
    BY <1>1, <1>4 DEF InResults
  <2> QED
    BY <2>1, <2>2, <2>3, <2>4
<1>9. ChunksCounted'
  <2> SUFFICES ASSUME NEW x \in Request, ~m'.req[x].is_retracted
               PROVE  m'.req[x].inflight = Cardinality(Chunks(x)')
    BY DEF ChunksCounted, Chunks
  <2>1. m'.req[x].inflight = Cardinality(Chunks(x))
    BY <1>1 DEF ChunksCounted, Chunks
  <2>2. CASE 2 \in Chunks(x)
    <3>1. Chunks(x) = {2}
      BY <1>1, <1>2, <2>2 DEF Chunks
    <3>a. /\ 2 \in 1..Len(result_queue)
          /\ result_queue[2].chunked_req = x /\ x \in result_queue[2].reqs
      BY <2>2 DEF Chunks
    <3>b. Len(result_queue') = 1 /\ result_queue'[1] = result_queue[2]
      BY <1>2, <1>3, <3>a
    <3>2. Chunks(x)' = {1}
      BY <3>a, <3>b DEF Chunks
    <3> QED
      BY ZenonT(60), <2>1, <3>1, <3>2, FS_Singleton
  <2>3. CASE 2 \notin Chunks(x)
    <3>1. Chunks(x) = {}
      BY <1>1, <1>2, <2>3 DEF Chunks
    <3>2. Chunks(x)' = {}
      BY <1>4, <2>3 DEF Chunks
    <3> QED
      BY <2>1, <3>1, <3>2
  <2> QED
    BY <2>2, <2>3
<1> QED
  BY ZenonT(60), <1>5, <1>6, <1>7, <1>8, <1>9

-----------------------------------------------------------------------------
(* Launching a batch. *)

LEMMA LaunchFacts ==
    ASSUME result_queue \in Seq(Batch), NEW b \in Batch, result_queue' = Append(result_queue, b)
    PROVE  /\ result_queue' \in Seq(Batch) /\ Len(result_queue') = Len(result_queue) + 1
           /\ Len(result_queue) + 1 \in 1..Len(result_queue')
           /\ result_queue'[Len(result_queue) + 1] = b
           /\ \A i \in 1..Len(result_queue) :
                  i \in 1..Len(result_queue') /\ result_queue'[i] = result_queue[i]
           /\ \A i \in 1..Len(result_queue') :
                  \/ i \in 1..Len(result_queue) /\ result_queue'[i] = result_queue[i]
                  \/ i = Len(result_queue) + 1 /\ result_queue'[i] = b
<1>1. Len(result_queue) \in Nat
  BY LenProperties
<1>2. /\ result_queue' \in Seq(Batch) /\ Len(result_queue') = Len(result_queue) + 1
      /\ \A i \in 1..Len(result_queue) : result_queue'[i] = result_queue[i]
      /\ result_queue'[Len(result_queue) + 1] = b
  BY AppendProperties
<1> QED
  BY <1>1, <1>2

(* A launched batch adds a chunk to the request it chunks, if there is one.*)
LEMMA LaunchChunks ==
    ASSUME result_queue \in Seq(Batch), NEW b \in Batch, result_queue' = Append(result_queue, b),
           NEW x
    PROVE  /\ ~(b.chunked_req = x /\ x \in b.reqs) => Chunks(x)' = Chunks(x)
           /\ b.chunked_req = x /\ x \in b.reqs =>
                  Cardinality(Chunks(x)') = Cardinality(Chunks(x)) + 1
<1> DEFINE n == Len(result_queue) + 1
<1>1. /\ n \in 1..Len(result_queue') /\ result_queue'[n] = b
      /\ \A i \in 1..Len(result_queue) :
             i \in 1..Len(result_queue') /\ result_queue'[i] = result_queue[i]
      /\ \A i \in 1..Len(result_queue') :
             \/ i \in 1..Len(result_queue) /\ result_queue'[i] = result_queue[i]
             \/ i = n /\ result_queue'[i] = b
  BY LaunchFacts
<1>2. n \notin Chunks(x)
  BY LenProperties DEF Chunks
<1> HIDE DEF n
<1>3. ~(b.chunked_req = x /\ x \in b.reqs) => Chunks(x)' = Chunks(x)
  BY <1>1 DEF Chunks
<1>4. b.chunked_req = x /\ x \in b.reqs => Chunks(x)' = Chunks(x) \cup {n}
  BY <1>1 DEF Chunks
<1>5. Cardinality(Chunks(x) \cup {n}) = Cardinality(Chunks(x)) + 1
  BY <1>2, ChunksFinite, FS_AddElement, ZenonT(60)
<1> QED
  BY ZenonT(60), <1>3, <1>4, <1>5

LEMMA LaunchQueue ==
    ASSUME ControlInv, pc \in {"batch", "launch"}, NEW b \in Batch, Launch(b),
           UNCHANGED <<setup, paused>>
    PROVE  /\ QueueLens' /\ pc' \in {"idle", "result"}
           /\ \A i \in 1..Len(result_queue) : i = 1 /\ pc' = "result"
<1>1. result_queue \in Seq(Batch)
  BY DEF ControlInv, ControlTypes
<1>2. /\ Len(result_queue) \in Nat
      /\ result_queue = <<>> => Len(result_queue) = 0
      /\ result_queue # <<>> => Len(result_queue) >= 1
  BY <1>1, QueueEmpty
<1>3. /\ Len(result_queue) <= 1 /\ (~setup.overlap => Len(result_queue) = 0)
      /\ paused # "retracting"
  BY DEF ControlInv, QueueInv, QueueLens
<1>4. Len(result_queue') = Len(result_queue) + 1
  BY <1>1, LaunchFacts DEF Launch
<1>5. pc' = IF setup.overlap /\ result_queue = <<>> THEN "idle" ELSE "result"
  BY DEF Launch
<1>6. \A i \in 1..Len(result_queue) : i = 1 /\ pc' = "result"
  BY <1>2, <1>3, <1>5
<1>7. QueueLens'
  <2>1. CASE result_queue = <<>>
    BY <1>2, <1>3, <1>4, <1>5, <2>1 DEF QueueLens
  <2>2. CASE result_queue # <<>>
    BY <1>2, <1>3, <1>4, <1>5, <2>2 DEF QueueLens
  <2> QED
    BY <2>1, <2>2
<1> QED
  BY <1>5, <1>6, <1>7

LEMMA LaunchDecodeStep ==
    ASSUME ControlInv, NEW E, LaunchDecode(E)
    PROVE  ControlInv'
<1> USE DEF ControlInv, ControlTypes
<1>1. /\ pc = "launch"
      /\ UNCHANGED <<setup, fresh, waiting_queue, running_batch, last_batch, chunked_req, adder,
                     paused, answers>>
  BY DEF LaunchDecode, batches
<1>2. CASE pc' = "crashed" /\ UNCHANGED <<m, result_queue>>
  <2>1. ControlTypes' /\ ChunksCounted'
    BY <1>1, <1>2 DEF PcStates, ChunksCounted
  <2>2. QueueInv' /\ PhaseInv'
    BY <1>1, <1>2 DEF QueueInv, QueueLens, ChunksFirst, PhaseInv, Collecting
  <2>3. PlaceInv'
    BY <1>1, <1>2 DEF PlaceInv, InFresh, InQueue, InPreemptList, InBatch, InChunks, InAdder,
       InResults, FlagsInv, Away
  <2> QED
    BY ZenonT(60), <2>1, <2>2, <2>3
<1>3. CASE /\ Launch([extend |-> FALSE, reqs |-> running_batch, chunked_req |-> NoReq])
           /\ m' = GrowRows(PrepareForDecode(Evict(m, E), running_batch), running_batch,
                            [r \in running_batch |-> DecodePages({r})])
  <2> DEFINE b == [extend |-> FALSE, reqs |-> running_batch, chunked_req |-> NoReq]
             e == Evict(m, E)
             d == PrepareForDecode(e, running_batch)
             need == [r \in running_batch |-> DecodePages({r})]
  <2>1. b \in Batch /\ ~b.extend /\ b.reqs = running_batch /\ b.chunked_req = NoReq
    BY DEF Batch
  <2>2. FlagsKept(m, m')
    <3>1. Shape(e) /\ e.req = m.req
      BY EvictKeeps
    <3> HIDE DEF e
    <3>2. FlagsKept(e, d)
      BY <3>1 DEF PrepareForDecode, FlagsKept, SameFlags, Shape, ReqFields
    <3>3. m' = GrowRows(d, running_batch, need)
      BY <1>3 DEF e
    <3> HIDE DEF d, need
    <3>4. FlagsKept(d, m')
      BY <3>2, <3>3, GrowRowsKeeps DEF FlagsKept
    <3> QED
      BY <3>1, <3>2, <3>4 DEF FlagsKept, SameFlags
  <2> HIDE DEF b, e, d, need
  <2>3. Launch(b)
    BY <1>3 DEF b
  <2>4. /\ QueueLens' /\ pc' \in {"idle", "result"}
        /\ \A i \in 1..Len(result_queue) : i = 1 /\ pc' = "result"
    BY <1>1, <2>1, <2>3, LaunchQueue
  <2>5. /\ result_queue' \in Seq(Batch)
        /\ \A i \in 1..Len(result_queue') :
               \/ i \in 1..Len(result_queue) /\ result_queue'[i] = result_queue[i]
               \/ i = Len(result_queue) + 1 /\ result_queue'[i] = b
    BY <2>1, <2>3, LaunchFacts DEF Launch
  <2>6. \A x \in Request : /\ Chunks(x)' = Chunks(x)
                            /\ SameFlags(m'.req[x], m.req[x])
    BY <2>1, <2>2, <2>3, LaunchChunks, SchedulerAssumption DEF Launch, FlagsKept
  <2>7. ControlTypes'
    <3>1. \A x \in Request : m'.req[x].inflight \in Int
      BY <2>6 DEF SameFlags
    <3> QED
      BY <1>1, <2>2, <2>4, <2>5, <3>1 DEF FlagsKept, PcStates
  <2>8. QueueInv'
    <3>0. Len(result_queue) \in Nat
      BY QueueEmpty
    <3>1. ChunksFirst'
      <4>1. \A i \in 1..Len(result_queue') :
                ~result_queue'[i].extend => result_queue'[i].chunked_req = NoReq
        BY <2>1, <2>5 DEF QueueInv, ChunksFirst
      <4>2. ASSUME NEW i \in 1..Len(result_queue'), NEW j \in 1..Len(result_queue'),
                   NEW r \in Request, i < j, r = result_queue'[j].chunked_req,
                   r \in result_queue'[j].reqs, r \in result_queue'[i].reqs
            PROVE  result_queue'[i].chunked_req = r
        <5>1. j \in 1..Len(result_queue) /\ result_queue'[j] = result_queue[j]
          BY ZenonT(60), <2>1, <2>5, <4>2, SchedulerAssumption
        <5>2. i \in 1..Len(result_queue) /\ result_queue'[i] = result_queue[i]
          BY <2>5, <3>0, <4>2, <5>1
        <5> QED
          BY <4>2, <5>1, <5>2 DEF QueueInv, ChunksFirst
      <4> QED
        BY <4>1, <4>2 DEF ChunksFirst
    <3> QED
      BY <2>4, <3>1 DEF QueueInv
  <2>9. PhaseInv'
    BY <1>1, <2>4 DEF PhaseInv, Collecting, NoAdder
  <2>10. PlaceInv'
    <3> SUFFICES ASSUME NEW x \in Request
                 PROVE  /\ InFresh(x)' /\ InQueue(x)' /\ InPreemptList(x)' /\ InBatch(x)'
                        /\ InChunks(x)' /\ InAdder(x)' /\ InResults(x)' /\ FlagsInv(x)'
      BY DEF PlaceInv
    <3>0. SameFlags(m'.req[x], m.req[x])
      BY <2>6
    <3> USE DEF PlaceInv, SameFlags
    <3>1. InFresh(x)'
      BY <1>1, <2>1, <2>5, <3>0 DEF InFresh, Away
    <3>2. InQueue(x)'
      BY <1>1, <2>1, <2>4, <2>5, <3>0 DEF InQueue, Away
    <3>3. InPreemptList(x)' /\ InAdder(x)' /\ InBatch(x)' /\ FlagsInv(x)'
      BY <1>1, <3>0 DEF InPreemptList, InAdder, InBatch, FlagsInv, Away
    <3>4. InChunks(x)'
      BY ZenonT(60), <1>1, <2>1, <2>5, <3>0 DEF InChunks
    <3>5. InResults(x)'
      BY ZenonT(60), <1>1, <2>1, <2>5, <3>0 DEF InResults, InBatch
    <3> QED
      BY <3>1, <3>2, <3>3, <3>4, <3>5
  <2>11. ChunksCounted'
    <3> SUFFICES ASSUME NEW x \in Request, ~m'.req[x].is_retracted
                 PROVE  m'.req[x].inflight = Cardinality(Chunks(x)')
      BY DEF ChunksCounted, Chunks
    <3>1. SameFlags(m'.req[x], m.req[x]) /\ Chunks(x)' = Chunks(x)
      BY <2>6
    <3>2. m.req[x].inflight = Cardinality(Chunks(x))
      BY <3>1 DEF ChunksCounted, Chunks, SameFlags
    <3> QED
      BY <3>1, <3>2 DEF SameFlags
  <2> QED
    BY ZenonT(60), <2>7, <2>8, <2>9, <2>10, <2>11
<1> QED
  BY <1>2, <1>3 DEF LaunchDecode

(* The requests that go to a prefill batch leave the queue, the preempted  *)
(* ones are queued, or rejected as those that wait.                        *)
LEMMA LaunchPrefillStep ==
    ASSUME ControlInv, NEW E, LaunchPrefill(E)
    PROVE  ControlInv'
<1> USE DEF ControlInv, ControlTypes
<1> DEFINE S  == adder.can_run_list
           ch == IF adder.new_chunked_req # NoReq THEN adder.new_chunked_req ELSE chunked_req
           e  == Evict(m, E)
           b  == [extend |-> TRUE, reqs |-> S, chunked_req |-> ch]
<1>1. /\ pc = "batch" /\ chunked_req' = ch /\ adder' = NoAdder
      /\ UNCHANGED <<setup, fresh, running_batch, paused>>
  BY DEF LaunchPrefill
<1>2. PICK A \in SUBSET ((waiting_queue \ S) \cup adder.preempt_list) :
        /\ waiting_queue' = ((waiting_queue \ S) \cup adder.preempt_list) \ A
        /\ answers' = [x \in Request |-> IF x \in A THEN answers[x] + 1 ELSE answers[x]]
  BY ZenonT(60) DEF LaunchPrefill, AddRequestsToQueue, Rejections, Answer
<1>3. \/ pc' = "crashed" /\ UNCHANGED <<m, last_batch, result_queue>>
      \/ /\ m' = CountChunk(AllocForExtend(e, S), ch)
         /\ last_batch' = [reqs |-> S, chunked_req |-> ch]
         /\ Launch(b)
  BY DEF LaunchPrefill
<1>4. /\ S \in SUBSET Request /\ ch \in Request \cup {NoReq}
      /\ ch = NoReq \/ ch \in S
      /\ ch \in {chunked_req} \cup waiting_queue
      /\ last_batch = NoBatch
  BY <1>1 DEF PhaseInv, Collecting
<1>5. /\ DOMAIN NoAdder = AdderFields /\ NoAdder.can_run_list = {} /\ NoAdder.preempt_list = {}
      /\ NoAdder.victims = {} /\ NoAdder.new_chunked_req = NoReq
  BY DEF NoAdder, AdderFields
<1>6. \A x \in Request : \A i \in 1..Len(result_queue) :
          x \in waiting_queue => x \notin result_queue[i].reqs
  BY <1>1 DEF PlaceInv, InQueue
<1> HIDE DEF S, ch
(* The parts that do not depend on whether the allocation succeeds. *)
<1>7. /\ waiting_queue' \in SUBSET Request /\ answers' \in [Request -> Nat]
      /\ chunked_req' \in Request \cup {NoReq}
  BY <1>1, <1>2, <1>4
<1>8. \A x \in Request :
          /\ answers'[x] = IF x \in A THEN answers[x] + 1 ELSE answers[x]
          /\ x \in A \cup waiting_queue' =>
                 /\ answers[x] = 0 /\ ~m.req[x].finished /\ x \notin S /\ x \notin running_batch
                 /\ x \notin fresh
          /\ x \in A \cup waiting_queue' => x \in waiting_queue \/ m.req[x].is_retracted
          /\ x \in S => /\ answers[x] = 0 /\ ~m.req[x].finished
                        /\ x \notin running_batch /\ x \notin fresh
          /\ x \in S /\ m.req[x].is_retracted => x \in waiting_queue
  <2> SUFFICES ASSUME NEW x \in Request
               PROVE  /\ answers'[x] = IF x \in A THEN answers[x] + 1 ELSE answers[x]
                      /\ x \in A \cup waiting_queue' =>
                             /\ answers[x] = 0 /\ ~m.req[x].finished /\ x \notin S
                             /\ x \notin running_batch /\ x \notin fresh
                      /\ x \in A \cup waiting_queue' => x \in waiting_queue \/ m.req[x].is_retracted
                      /\ x \in S => /\ answers[x] = 0 /\ ~m.req[x].finished
                                    /\ x \notin running_batch /\ x \notin fresh
                      /\ x \in S /\ m.req[x].is_retracted => x \in waiting_queue
    OBVIOUS
  <2>1. answers'[x] = IF x \in A THEN answers[x] + 1 ELSE answers[x]
    BY <1>2
  <2>2. x \in A \cup waiting_queue' =>
          (x \in waiting_queue /\ x \notin S) \/ x \in adder.preempt_list
    BY <1>2
  <2> USE DEF PlaceInv
  <2>3. x \in waiting_queue =>
          /\ answers[x] = 0 /\ ~m.req[x].finished /\ x \notin running_batch /\ x \notin fresh
    BY DEF InQueue, InFresh, Away
  <2>4. x \in adder.preempt_list =>
          /\ answers[x] = 0 /\ ~m.req[x].finished /\ x \notin running_batch /\ x \notin fresh
          /\ m.req[x].is_retracted /\ x \notin S
    BY DEF InPreemptList, InFresh, Away, S
  <2>5. /\ x \in S => /\ answers[x] = 0 /\ ~m.req[x].finished
                      /\ x \notin running_batch /\ x \notin fresh
        /\ x \in S /\ m.req[x].is_retracted => x \in waiting_queue
    BY DEF InAdder, InFresh, S
  <2> QED
    BY <2>1, <2>2, <2>3, <2>4, <2>5
<1> HIDE DEF e, b
<1>10. CASE pc' = "crashed" /\ UNCHANGED <<m, last_batch, result_queue>>
  <2>1. ControlTypes' /\ ChunksCounted'
    BY <1>1, <1>5, <1>7, <1>10 DEF PcStates, ChunksCounted
  <2>2. QueueInv'
    BY <1>1, <1>10 DEF QueueInv, QueueLens, ChunksFirst
  <2>3. PhaseInv'
    BY <1>1, <1>5, <1>10 DEF PhaseInv, Collecting
  <2>4. PlaceInv'
    <3> SUFFICES ASSUME NEW x \in Request
                 PROVE  /\ InFresh(x)' /\ InQueue(x)' /\ InPreemptList(x)' /\ InBatch(x)'
                        /\ InChunks(x)' /\ InAdder(x)' /\ InResults(x)' /\ FlagsInv(x)'
      BY DEF PlaceInv
    <3>0. /\ last_batch'.reqs = {} /\ last_batch.reqs = {}
          /\ \A i \in 1..Len(result_queue) : i = 1
      <4>1. Len(result_queue) <= 1 /\ Len(result_queue) \in Nat
        BY <1>1, QueueEmpty DEF QueueInv, QueueLens
      <4> QED
        BY <1>4, <1>10, <4>1 DEF NoBatch
    <3> USE DEF PlaceInv
    <3>1. InFresh(x)'
      BY <1>1, <1>4, <1>5, <1>8, <1>10, <3>0, SchedulerAssumption DEF InFresh, Away
    <3>a. x \in waiting_queue' => Away(x)'
      BY <1>1, <1>4, <1>8, <3>0, SchedulerAssumption DEF Away
    <3>b. x \in waiting_queue' => answers'[x] = 0 /\ ~m'.req[x].finished
      BY <1>2, <1>8, <1>10
    <3>c. x \in waiting_queue' => \A i \in 1..Len(result_queue') :
             x \in result_queue'[i].reqs => i = 1 /\ m'.req[x].is_retracted
      BY <1>6, <1>8, <1>10, <3>0
    <3>2. InQueue(x)'
      BY <1>1, <1>5, <1>10, <3>a, <3>b, <3>c DEF InQueue
    <3>3. InPreemptList(x)' /\ InAdder(x)' /\ InChunks(x)'
      BY <1>1, <1>5, <1>10 DEF InPreemptList, InAdder, InChunks
    <3>4. InBatch(x)' /\ FlagsInv(x)'
      BY <1>1, <1>8, <1>10, <3>0 DEF InBatch, FlagsInv
    <3>5. InResults(x)'
      BY <1>6, <1>8, <1>10 DEF InResults
    <3> QED
      BY <3>1, <3>2, <3>3, <3>4, <3>5
  <2> QED
    BY ZenonT(60), <2>1, <2>2, <2>3, <2>4
<1>11. CASE /\ m' = CountChunk(AllocForExtend(e, S), ch)
            /\ last_batch' = [reqs |-> S, chunked_req |-> ch]
            /\ Launch(b)
  <2>1. b \in Batch /\ b.extend /\ b.reqs = S /\ b.chunked_req = ch
    BY <1>4 DEF Batch, b
  <2>2. /\ Shape(m')
        /\ \A x \in Request :
               /\ m'.req[x].finished = m.req[x].finished
               /\ m'.req[x].is_retracted <=> m.req[x].is_retracted /\ x \notin S
               /\ m'.req[x].inflight = IF x = ch THEN m.req[x].inflight + 1 ELSE m.req[x].inflight
    <3> DEFINE p    == PrepareForExtend(e, S)
               need == [r \in S |-> ExtendPages(e, r)]
               g    == GrowRows(p, S, need)
    <3>1. Shape(e) /\ e.req = m.req
      BY EvictKeeps DEF e
    <3>2. /\ Shape(p)
          /\ \A x \in Request :
                 /\ p.req[x].finished = m.req[x].finished /\ p.req[x].inflight = m.req[x].inflight
                 /\ p.req[x].is_retracted <=> m.req[x].is_retracted /\ x \notin S
      <4> HIDE DEF ControlInv, ControlTypes
      <4> QED
        BY <3>1, ZenonT(60) DEF PrepareForExtend, Shape, ReqFields
    <3>3. m' = CountChunk(g, ch)
      BY <1>11 DEF AllocForExtend
    <3> HIDE DEF p, need
    <3>4. FlagsKept(p, g)
      BY <1>4, <3>2, GrowRowsKeeps
    <3> HIDE DEF g
    <3>5. /\ Shape(m')
          /\ \A x \in Request :
                 /\ m'.req[x].finished = g.req[x].finished
                 /\ m'.req[x].is_retracted = g.req[x].is_retracted
                 /\ m'.req[x].inflight = IF x = ch THEN g.req[x].inflight + 1 ELSE g.req[x].inflight
      <4>0. Shape(g)
        BY <3>4 DEF FlagsKept
      <4>1. CASE ch = NoReq
        BY <3>3, <4>0, <4>1, SchedulerAssumption DEF CountChunk
      <4>2. CASE ch # NoReq
        <5>1. ch \in Request /\ m' = [g EXCEPT !.req[ch].inflight = @ + 1]
          BY <1>4, <3>3, <4>2 DEF CountChunk
        <5> HIDE DEF ControlInv, ControlTypes
        <5> QED
          BY <4>0, <5>1 DEF Shape, ReqFields
      <4> QED
        BY <4>1, <4>2
    <3> QED
      BY <3>2, <3>4, <3>5 DEF FlagsKept, SameFlags
  <2>4. /\ QueueLens' /\ pc' \in {"idle", "result"}
        /\ \A i \in 1..Len(result_queue) : i = 1 /\ pc' = "result"
    BY <1>1, <1>11, <2>1, LaunchQueue
  <2>5. /\ result_queue' \in Seq(Batch)
        /\ \A i \in 1..Len(result_queue') :
               \/ i \in 1..Len(result_queue) /\ result_queue'[i] = result_queue[i]
               \/ i = Len(result_queue) + 1 /\ result_queue'[i] = b
    BY <1>11, <2>1, LaunchFacts DEF Launch
  <2>6. \A x \in Request :
          /\ x # ch => Chunks(x)' = Chunks(x)
          /\ x = ch => Cardinality(Chunks(x)') = Cardinality(Chunks(x)) + 1
    BY ZenonT(60), <1>4, <1>11, <2>1, LaunchChunks, SchedulerAssumption DEF Launch
  <2>7. ControlTypes'
    <3>1. \A x \in Request : m'.req[x].inflight \in Int
      BY <2>2
    <3>2. last_batch' \in [reqs : SUBSET Request, chunked_req : Request \cup {NoReq}]
      BY <1>4, <1>11
    <3> QED
      BY ZenonT(60), <1>1, <1>5, <1>7, <2>2, <2>4, <2>5, <3>1, <3>2 DEF PcStates
  <2>a. \A i \in 1..Len(result_queue) :
          ch \in result_queue[i].reqs /\ ch \in Request => result_queue[i].chunked_req = ch
    BY <1>1, <1>4, <1>6 DEF PlaceInv, InChunks
  <2>8. QueueInv'
    <3>0. Len(result_queue) \in Nat
      BY QueueEmpty
    <3>1. ChunksFirst'
      <4>1. \A i \in 1..Len(result_queue') :
                ~result_queue'[i].extend => result_queue'[i].chunked_req = NoReq
        BY <2>1, <2>5 DEF QueueInv, ChunksFirst
      <4>2. ASSUME NEW i \in 1..Len(result_queue'), NEW j \in 1..Len(result_queue'),
                   NEW r \in Request, i < j, r = result_queue'[j].chunked_req,
                   r \in result_queue'[j].reqs, r \in result_queue'[i].reqs
            PROVE  result_queue'[i].chunked_req = r
        <5>1. i \in 1..Len(result_queue) /\ result_queue'[i] = result_queue[i]
          BY <2>5, <3>0, <4>2
        <5>2. CASE result_queue'[j] = b
          BY <2>1, <2>a, <4>2, <5>1, <5>2
        <5>3. CASE j \in 1..Len(result_queue) /\ result_queue'[j] = result_queue[j]
          BY <4>2, <5>1, <5>3 DEF QueueInv, ChunksFirst
        <5> QED
          BY <2>5, <5>2, <5>3
      <4> QED
        BY <4>1, <4>2 DEF ChunksFirst
    <3> QED
      BY <2>4, <3>1 DEF QueueInv
  <2>9. PhaseInv'
    BY <1>1, <1>5, <2>4 DEF PhaseInv, Collecting
  <2>10. PlaceInv'
    <3> SUFFICES ASSUME NEW x \in Request
                 PROVE  /\ InFresh(x)' /\ InQueue(x)' /\ InPreemptList(x)' /\ InBatch(x)'
                        /\ InChunks(x)' /\ InAdder(x)' /\ InResults(x)' /\ FlagsInv(x)'
      BY DEF PlaceInv
    <3>0. last_batch'.reqs = S
      BY <1>11
    <3>a. x \in waiting_queue' => Away(x)'
      BY <1>1, <1>4, <1>8, <3>0, SchedulerAssumption DEF Away
    <3>b. /\ m'.req[x].finished = m.req[x].finished
          /\ m'.req[x].is_retracted <=> m.req[x].is_retracted /\ x \notin S
          /\ m'.req[x].inflight = IF x = ch THEN m.req[x].inflight + 1 ELSE m.req[x].inflight
      BY <2>2
    <3>c. /\ x \in waiting_queue' \cup S \cup fresh => answers'[x] = 0 /\ ~m.req[x].finished
          /\ x \in A => answers'[x] = 1 /\ ~m.req[x].finished
          /\ x \notin A => answers'[x] = answers[x]
      BY <1>2, <1>8 DEF PlaceInv, InFresh
    <3>d. \A i \in 1..Len(result_queue') :
             x \in result_queue'[i].reqs =>
                 \/ x \in S /\ result_queue'[i].chunked_req = ch
                 \/ /\ i \in 1..Len(result_queue) /\ x \in result_queue[i].reqs
                    /\ result_queue'[i].chunked_req = result_queue[i].chunked_req
      BY <2>1, <2>5
    <3> USE DEF PlaceInv
    <3>1. InFresh(x)'
      <4> SUFFICES ASSUME x \in fresh
                   PROVE  /\ Away(x)' /\ x \notin waiting_queue'
                          /\ \A i \in 1..Len(result_queue') : x \notin result_queue'[i].reqs
        BY <1>1, <1>5, <3>b, <3>c DEF InFresh
      <4>1. x \notin S /\ x \notin waiting_queue' /\ x \notin running_batch
        BY <1>8 DEF InFresh, Away
      <4>2. Away(x)'
        BY <1>1, <1>4, <3>0, <4>1, SchedulerAssumption DEF Away
      <4>3. \A i \in 1..Len(result_queue') : x \notin result_queue'[i].reqs
        BY <3>d, <4>1 DEF InFresh
      <4> QED
        BY <4>1, <4>2, <4>3
    <3>2. InQueue(x)'
      <4> SUFFICES ASSUME x \in waiting_queue'
                   PROVE  \A i \in 1..Len(result_queue') : x \in result_queue'[i].reqs =>
                             i = 1 /\ m'.req[x].is_retracted /\ pc' = "result"
        BY <1>1, <1>5, <3>a, <3>b, <3>c DEF InQueue
      <4>1. x \notin S /\ (x \in waiting_queue \/ m.req[x].is_retracted)
        BY <1>8
      <4> QED
        BY <1>6, <2>4, <3>b, <3>d, <4>1
    <3>3. InPreemptList(x)' /\ InAdder(x)'
      BY <1>1, <1>5 DEF InPreemptList, InAdder
    <3>4. InBatch(x)'
      BY <1>1, <1>8, <2>2, <3>0 DEF InBatch
    <3>5. FlagsInv(x)'
      <4>1. m'.req[x].is_retracted => m'.req[x].inflight = 0
        BY <1>4, <3>b, SchedulerAssumption DEF FlagsInv
      <4> QED
        BY <3>b, <3>c, <4>1 DEF FlagsInv
    <3>6. InChunks(x)'
      <4> SUFFICES ASSUME x = ch
                   PROVE  /\ answers'[x] = 0 /\ ~m'.req[x].finished /\ ~m'.req[x].is_retracted
                          /\ x \notin running_batch
                          /\ \A i \in 1..Len(result_queue') :
                                 x \in result_queue'[i].reqs => result_queue'[i].chunked_req = x
        BY <1>1 DEF InChunks
      <4>1. x \in S
        BY <1>4, SchedulerAssumption
      <4> QED
        BY ZenonT(60), <1>8, <2>a, <3>b, <3>c, <3>d, <4>1
    <3>7. InResults(x)'
      BY ZenonT(60), <1>6, <1>8, <2>1, <2>2, <2>5 DEF InResults
    <3> QED
      BY <3>1, <3>2, <3>3, <3>4, <3>5, <3>6, <3>7
  <2>11. ChunksCounted'
    <3> SUFFICES ASSUME NEW x \in Request, ~m'.req[x].is_retracted
                 PROVE  m'.req[x].inflight = Cardinality(Chunks(x)')
      BY DEF ChunksCounted, Chunks
    <3>1. m.req[x].inflight = Cardinality(Chunks(x))
      <4>1. CASE m.req[x].is_retracted
        <5>1. m.req[x].inflight = 0 /\ x \in waiting_queue
          BY <1>8, <2>2, <4>1 DEF PlaceInv, FlagsInv
        <5>2. Chunks(x) = {}
          BY <1>6, <5>1 DEF Chunks
        <5> QED
          BY <5>1, <5>2, FS_EmptySet
      <4>2. CASE ~m.req[x].is_retracted
        BY <4>2 DEF ChunksCounted, Chunks
      <4> QED
        BY <4>1, <4>2
    <3> QED
      BY SMTT(60), <2>2, <2>6, <3>1
  <2> QED
    BY ZenonT(60), <2>7, <2>8, <2>9, <2>10, <2>11
<1> QED
  BY ZenonT(60), <1>3, <1>10, <1>11

-----------------------------------------------------------------------------
LEMMA ControlNext == ControlInv /\ [Next]_vars => ControlInv'
<1> SUFFICES ASSUME ControlInv, [Next]_vars PROVE ControlInv'
  OBVIOUS
<1>1. CASE Client
  <2>1. ASSUME NEW r \in Request, HandleGenerate(r) \/ AbortRequest(r) PROVE ControlInv'
    BY <2>1, HandleGenerateStep, AbortRequestStep
  <2>2. ASSUME NEW mode, PauseGeneration(mode) PROVE ControlInv'
    BY <2>2, PauseGenerationStep
  <2>3. CASE ContinueGeneration \/ FlushCache
    BY <2>3, ContinueGenerationStep, FlushCacheStep
  <2> QED
    BY <1>1, <2>1, <2>2, <2>3 DEF Client
<1>2. CASE Loop
  <2>1. ASSUME NEW W \in SUBSET Request, NEW T \in SUBSET Request, PrepareStep(W, T)
        PROVE  ControlInv'
    BY <2>1, PrepareStepStep
  <2>2. CASE SkipPrefill \/ StartAdder \/ StopAdding \/ NoPrefill \/ NoDecode
    BY <2>2, SkipPrefillStep, StartAdderStep, StopAddingStep, NoPrefillStep, NoDecodeStep
  <2>3. CASE EndResult \/ EndPause
    BY <2>3, EndResultStep, EndPauseStep
  <2>4. ASSUME NEW r \in Request, AddOneReq(r) \/ PreemptToSchedule(r) PROVE ControlInv'
    BY <2>4, AddOneReqStep, PreemptToScheduleStep
  <2>5. ASSUME NEW E, LaunchPrefill(E) \/ CheckDecodeMem(E) \/ LaunchDecode(E) PROVE ControlInv'
    BY <2>5, LaunchPrefillStep, CheckDecodeMemStep, LaunchDecodeStep
  <2>6. ASSUME NEW r \in Request, NEW E,
               ReleaseVictim(r, E) \/ RetractDecode(r, E) \/ RetractAll(r, E)
        PROVE  ControlInv'
    BY <2>6, ReleaseVictimStep, RetractDecodeStep, RetractAllStep
  <2>7. ASSUME NEW r \in Request, AbortLast(r) \/ DropResult(r) \/ ChunkResult(r)
        PROVE  ControlInv'
    BY <2>7, AbortLastStep, DropResultStep, ChunkResultStep
  <2>8. ASSUME NEW r \in Request, NEW stop, PrefillResult(r, stop) PROVE ControlInv'
    BY <2>8, PrefillResultStep
  <2>9. ASSUME NEW r \in Request, NEW stop, NEW k, DecodeResult(r, k, stop) PROVE ControlInv'
    BY <2>9, DecodeResultStep
  <2> QED
    BY <1>2, <2>1, <2>2, <2>3, <2>4, <2>5, <2>6, <2>7, <2>8, <2>9 DEF Loop
<1>3. CASE UNCHANGED vars
  <2> USE <1>3 DEF vars, batches, ControlInv
  <2>1. ControlTypes' /\ ChunksCounted'
    BY DEF ControlTypes, Shape, ChunksCounted
  <2>2. QueueInv' /\ PhaseInv'
    BY DEF QueueInv, QueueLens, ChunksFirst, PhaseInv, Collecting
  <2>3. PlaceInv'
    BY DEF PlaceInv, InFresh, InQueue, InPreemptList, InBatch, InChunks, InAdder, InResults,
       FlagsInv, Away
  <2> QED
    BY <2>1, <2>2, <2>3
<1> QED
  BY <1>1, <1>2, <1>3 DEF Next

LEMMA ControlAlways == Spec => []ControlInv
BY InitControl, ControlNext, PTL DEF Spec

(* inflight_middle_chunks counts, for a request that was not retracted,    *)
(* exactly the chunk results that are still in the result queue, so that   *)
(* the last chunk and no other ends the prefill.                           *)
THEOREM ChunksCountedAlways == Spec => []ChunksCounted
<1>1. ControlInv => ChunksCounted
  BY DEF ControlInv
<1> QED
  BY <1>1, ControlAlways, PTL

(* No request gets two final messages, whichever of its results, an abort, *)
(* a time-out, a rejection by the queue limit, a retraction and a          *)
(* preemption come together.                                               *)
THEOREM AnsweredOnceAlways == Spec => []AnsweredOnce
<1>1. ControlInv => AnsweredOnce
  BY DEF ControlInv, PlaceInv, FlagsInv, AnsweredOnce
<1> QED
  BY <1>1, ControlAlways, PTL

-----------------------------------------------------------------------------
(* No request is lost.  The chunked request of the last batch is the one   *)
(* the scheduler still chunks, or it was answered; this is why the merge   *)
(* of the last batch may leave it out.                                     *)

LastChunk ==
    pc # "crashed" /\ last_batch.chunked_req \in last_batch.reqs =>
        \/ last_batch.chunked_req = chunked_req
        \/ answers[last_batch.chunked_req] = 1

Placed(r) ==
    \/ r \in waiting_queue \/ r \in running_batch \/ r \in last_batch.reqs
    \/ r \in adder.can_run_list \/ r \in adder.preempt_list
    \/ r = chunked_req

AllPlaced ==
    ~setup.preemption /\ pc # "crashed" =>
        \A r \in Request : r \in setup.reqs /\ r \notin fresh /\ answers[r] = 0 => Placed(r)

KeptInv == LastChunk /\ AllPlaced

LEMMA InitKept == Init => KeptInv
BY DEF Init, KeptInv, LastChunk, AllPlaced, NoBatch

(* Answers are never taken back. *)
Growing == \A r \in Request : answers'[r] # answers[r] => answers'[r] = answers[r] + 1

LEMMA AnsweredStays ==
    ASSUME ControlInv, ControlInv', Growing, NEW r \in Request
    PROVE  /\ answers[r] = 0 \/ answers[r] = 1
           /\ answers'[r] = 0 \/ answers'[r] = 1
           /\ answers[r] = 1 => answers'[r] = 1
<1>1. answers[r] \in Nat /\ answers'[r] \in Nat /\ answers[r] <= 1 /\ answers'[r] <= 1
  BY DEF ControlInv, ControlTypes, PlaceInv, FlagsInv
<1> QED
  BY <1>1 DEF Growing

(* Steps that move nothing. *)
LEMMA KeptUnmoved ==
    ASSUME ControlInv, ControlInv', KeptInv, Growing, pc # "crashed",
           UNCHANGED <<setup, fresh, waiting_queue, running_batch, last_batch, chunked_req, adder>>
    PROVE  KeptInv'
<1>1. ASSUME NEW r \in Request PROVE answers'[r] = 0 => answers[r] = 0
  BY AnsweredStays
<1>2. last_batch.chunked_req \in last_batch.reqs => last_batch.chunked_req \in Request
  BY DEF ControlInv, ControlTypes
<1>3. LastChunk'
  BY <1>2, AnsweredStays DEF KeptInv, LastChunk
<1>4. AllPlaced'
  BY <1>1 DEF KeptInv, AllPlaced, Placed
<1> QED
  BY <1>3, <1>4 DEF KeptInv

LEMMA KeptClient ==
    ASSUME ControlInv, ControlInv', KeptInv, Client
    PROVE  KeptInv'
<1>1. CASE \E r \in Request : HandleGenerate(r) \/ AbortRequest(r)
  <2>1. PICK r \in Request : HandleGenerate(r) \/ AbortRequest(r)
    BY <1>1
  <2>2. /\ pc = "idle" /\ pc' = "idle"
        /\ UNCHANGED <<setup, running_batch, last_batch, chunked_req, adder>>
    BY <2>1 DEF HandleGenerate, AbortRequest
  <2>3. PICK A \in SUBSET Request :
           /\ answers' = [x \in Request |-> IF x \in A THEN answers[x] + 1 ELSE answers[x]]
           /\ \A x \in Request : x \notin fresh' /\ x \notin A =>
                  (x \notin fresh /\ x \notin waiting_queue) \/ x \in waiting_queue'
    <3>1. CASE HandleGenerate(r)
      <4>1. PICK A \in SUBSET (waiting_queue \cup {r}) :
              /\ waiting_queue' = (waiting_queue \cup {r}) \ A
              /\ answers' = [x \in Request |-> IF x \in A THEN answers[x] + 1 ELSE answers[x]]
        BY <3>1 DEF HandleGenerate, AddRequestsToQueue, Rejections, Answer
      <4>2. A \in SUBSET Request
        BY DEF ControlInv, ControlTypes
      <4>3. fresh' = fresh \ {r}
        BY <3>1 DEF HandleGenerate
      <4> QED
        BY <4>1, <4>2, <4>3
    <3>2. CASE AbortRequest(r)
      <4>1. /\ waiting_queue' = waiting_queue \ {r} /\ fresh' = fresh
            /\ answers' = [x \in Request |-> IF x \in {r} \cap waiting_queue
                                              THEN answers[x] + 1 ELSE answers[x]]
        BY <3>2 DEF AbortRequest, Answer
      <4> QED
        BY ZenonT(60), <4>1
    <3> QED
      BY <2>1, <3>1, <3>2
  <2>4. Growing
    BY <2>3 DEF Growing
  <2>5. LastChunk'
    <3>1. last_batch.chunked_req \in last_batch.reqs => last_batch.chunked_req \in Request
      BY DEF ControlInv, ControlTypes
    <3> QED
      BY <2>2, <2>4, <3>1, AnsweredStays DEF KeptInv, LastChunk
  <2>6. AllPlaced'
    <3> SUFFICES ASSUME ~setup.preemption, NEW x \in Request, x \in setup.reqs, x \notin fresh',
                        answers'[x] = 0
                 PROVE  Placed(x)'
      BY <2>2 DEF AllPlaced
    <3>1. answers[x] = 0 /\ x \notin A
      <4>1. answers[x] = 0
        BY <2>4, AnsweredStays
      <4> QED
        BY <2>3, <4>1
    <3> QED
      BY <2>2, <2>3, <3>1 DEF KeptInv, AllPlaced, Placed
  <2> QED
    BY <2>5, <2>6 DEF KeptInv
<1>2. CASE \/ \E mode \in {"in_place", "retract"} : PauseGeneration(mode)
           \/ ContinueGeneration \/ FlushCache
  <2>1. /\ pc # "crashed" /\ answers' = answers
        /\ UNCHANGED <<setup, fresh, waiting_queue, running_batch, last_batch, chunked_req, adder>>
    BY <1>2 DEF PauseGeneration, ContinueGeneration, FlushCache, batches
  <2> QED
    BY <2>1, KeptUnmoved DEF Growing
<1> QED
  BY <1>1, <1>2 DEF Client

LEMMA KeptPrepareStep ==
    ASSUME ControlInv, ControlInv', KeptInv, NEW W \in SUBSET Request, NEW T \in SUBSET Request,
           PrepareStep(W, T)
    PROVE  KeptInv'
<1> DEFINE ch == IF AbortedChunk THEN NoReq ELSE chunked_req
<1>1. /\ pc = "idle" /\ chunked_req' = ch /\ waiting_queue' = waiting_queue \ W
      /\ running_batch' = running_batch \cup {x \in last_batch.reqs :
             ~m'.req[x].finished /\ x \notin {ch, last_batch.chunked_req}}
      /\ answers' = [x \in Request |-> IF x \in W \/ (AbortedChunk /\ x = chunked_req)
                                       THEN answers[x] + 1 ELSE answers[x]]
      /\ last_batch' = NoBatch /\ UNCHANGED <<setup, fresh, adder>>
  BY DEF PrepareStep, Answer, AbortedChunk
<1>2. Growing
  BY <1>1 DEF Growing
<1>3. LastChunk'
  BY <1>1 DEF LastChunk, NoBatch
<1>4. AllPlaced'
  <2> SUFFICES ASSUME ~setup.preemption, NEW x \in Request, x \in setup.reqs, x \notin fresh,
                      answers'[x] = 0
               PROVE  Placed(x)'
    BY <1>1 DEF AllPlaced
  <2>1. answers[x] = 0 /\ ~m'.req[x].finished
    BY <1>2, AnsweredStays DEF ControlInv, PlaceInv, FlagsInv
  <2>2. x \notin W /\ ~(AbortedChunk /\ x = chunked_req)
    BY <1>1, <2>1
  <2>3. x = chunked_req => x = chunked_req'
    BY <1>1, <2>2
  <2>4. x = last_batch.chunked_req /\ x \in last_batch.reqs => x = chunked_req
    BY <1>1, <2>1 DEF KeptInv, LastChunk
  <2>5. Placed(x)
    BY <1>1, <2>1 DEF KeptInv, AllPlaced
  <2> QED
    BY <1>1, <2>1, <2>2, <2>3, <2>4, <2>5 DEF Placed
<1> QED
  BY <1>3, <1>4 DEF KeptInv

(* Steps of the loop between two batches: the queue, the running batch and *)
(* the adder exchange requests, and what a batch drops is finished.        *)
LEMMA KeptCollect ==
    ASSUME ControlInv, ControlInv', KeptInv, pc # "crashed", pc' # "crashed",
           UNCHANGED <<setup, fresh, answers>>,
           last_batch' = NoBatch \/ (last_batch' = last_batch /\ chunked_req' = chunked_req),
           ~setup.preemption => \A x \in Request :
               Placed(x) /\ answers[x] = 0 /\ ~m.req[x].finished => Placed(x)'
    PROVE  KeptInv'
<1>1. LastChunk'
  BY DEF KeptInv, LastChunk, NoBatch
<1>2. AllPlaced'
  BY DEF KeptInv, AllPlaced, ControlInv, PlaceInv, FlagsInv
<1> QED
  BY <1>1, <1>2 DEF KeptInv

LEMMA KeptAdmit ==
    ASSUME ControlInv, ControlInv', KeptInv,
           \/ SkipPrefill \/ StartAdder \/ StopAdding \/ NoPrefill \/ NoDecode \/ EndPause
           \/ \E r \in Request : AddOneReq(r) \/ PreemptToSchedule(r)
           \/ \E E : CheckDecodeMem(E) \/ LaunchDecode(E)
           \/ \E r \in Request : \E E : ReleaseVictim(r, E)
    PROVE  KeptInv'
<1> USE DEF ControlInv, ControlTypes
<1>1. CASE SkipPrefill \/ StopAdding
  <2>1. /\ pc # "crashed" /\ pc' # "crashed" /\ answers' = answers
        /\ UNCHANGED <<setup, fresh, waiting_queue, running_batch, last_batch, chunked_req, adder>>
    BY <1>1 DEF SkipPrefill, StopAdding
  <2> QED
    BY <2>1, KeptUnmoved DEF Growing
<1>2. CASE StartAdder
  <2>1. /\ pc = "admit" /\ pc' = "prefill" /\ adder = NoAdder
        /\ UNCHANGED <<setup, fresh, waiting_queue, running_batch, last_batch, answers>>
    BY <1>2 DEF StartAdder, PhaseInv, Collecting
  <2>2. last_batch' = NoBatch
    BY <2>1 DEF PhaseInv
  <2>3. \A x \in Request : x = chunked_req => x \in adder'.can_run_list
    <3>1. PICK ratio \in Ratio :
            IF chunked_req = NoReq
            THEN adder' = NewAdder(ratio) /\ UNCHANGED <<m, chunked_req>>
            ELSE AddChunkedReq(NewAdder(ratio))
      BY <1>2 DEF StartAdder
    <3>2. DOMAIN NewAdder(ratio) = AdderFields
      BY DEF NewAdder, NoAdder, AdderFields
    <3>3. chunked_req # NoReq => adder'.can_run_list = {chunked_req}
      BY <3>1, <3>2, AddChunkedReqFacts
    <3> QED
      BY ZenonT(60), <3>3, SchedulerAssumption
  <2>4. \A x \in Request : Placed(x) => Placed(x)'
    BY <2>1, <2>3 DEF Placed, NoAdder
  <2> HIDE DEF ControlInv, ControlTypes
  <2> QED
    BY <2>1, <2>2, <2>4, KeptCollect
<1>3. CASE NoPrefill
  <2>1. /\ pc = "batch" /\ pc' = "decode" /\ adder.can_run_list = {}
        /\ UNCHANGED <<setup, fresh, waiting_queue, running_batch, last_batch, chunked_req,
                       answers>>
    BY <1>3 DEF NoPrefill, batches
  <2>2. ~setup.preemption => \A x \in Request : Placed(x) => Placed(x)'
    BY <2>1 DEF Placed, PhaseInv
  <2> HIDE DEF ControlInv, ControlTypes
  <2> QED
    BY <2>1, <2>2, KeptCollect
<1>4. CASE NoDecode \/ \E E : CheckDecodeMem(E)
  <2>1. /\ pc = "decode" /\ pc' # "crashed" /\ running_batch' = Alive
        /\ UNCHANGED <<setup, fresh, waiting_queue, last_batch, chunked_req, adder, answers>>
    BY ZenonT(60), <1>4 DEF NoDecode, CheckDecodeMem
  <2>2. \A x \in Request : Placed(x) /\ ~m.req[x].finished => Placed(x)'
    BY <2>1 DEF Placed, Alive
  <2> HIDE DEF ControlInv, ControlTypes
  <2> QED
    BY <2>1, <2>2, KeptCollect
<1>5. CASE EndPause
  <2>1. /\ pc = "pause" /\ pc' = "idle" /\ last_batch' = NoBatch /\ ToRetract = {}
        /\ UNCHANGED <<setup, fresh, waiting_queue, adder, answers>>
    BY <1>5 DEF EndPause
  <2>2. \A x \in Request : Placed(x) /\ ~m.req[x].finished => Placed(x)'
    BY <2>1, SchedulerAssumption DEF Placed, ToRetract
  <2> HIDE DEF ControlInv, ControlTypes
  <2> QED
    BY <2>1, <2>2, KeptCollect
<1>6. CASE \E r \in Request : AddOneReq(r)
  <2>1. PICK r \in Request : AddOneReq(r)
    BY SMTT(60), <1>6
  <2>2. /\ pc # "crashed" /\ pc' # "crashed"
        /\ UNCHANGED <<setup, fresh, waiting_queue, running_batch, last_batch, chunked_req,
                       answers>>
    BY ZenonT(60), <2>1 DEF AddOneReq
  <2>3. /\ adder'.preempt_list = adder.preempt_list
        /\ adder.can_run_list \subseteq adder'.can_run_list
    BY ZenonT(60), <2>1, AddOneReqAdder
  <2>4. \A x \in Request : Placed(x) => Placed(x)'
    BY <2>2, <2>3 DEF Placed
  <2> HIDE DEF ControlInv, ControlTypes
  <2> QED
    BY <2>2, <2>4, KeptCollect
<1>7. CASE \/ \E r \in Request : PreemptToSchedule(r)
           \/ \E r \in Request : \E E : ReleaseVictim(r, E)
  <2>1. /\ setup.preemption /\ pc # "crashed" /\ pc' # "crashed"
        /\ UNCHANGED <<setup, fresh, last_batch, chunked_req, answers>>
    BY ZenonT(60), <1>7 DEF PreemptToSchedule, ReleaseVictim, PhaseInv
  <2> HIDE DEF ControlInv, ControlTypes
  <2> QED
    BY SMTT(60), <2>1, KeptCollect
<1>8. CASE \E E : LaunchDecode(E)
  <2>1. /\ pc # "crashed" /\ answers' = answers
        /\ UNCHANGED <<setup, fresh, waiting_queue, running_batch, last_batch, chunked_req, adder>>
    BY <1>8 DEF LaunchDecode, batches
  <2> QED
    BY <2>1, KeptUnmoved DEF Growing
<1> QED
  BY <1>1, <1>2, <1>3, <1>4, <1>5, <1>6, <1>7, <1>8

LEMMA KeptLaunchPrefill ==
    ASSUME ControlInv, ControlInv', KeptInv, NEW E, LaunchPrefill(E)
    PROVE  KeptInv'
<1> USE DEF ControlInv, ControlTypes
<1> DEFINE S  == adder.can_run_list
           ch == IF adder.new_chunked_req # NoReq THEN adder.new_chunked_req ELSE chunked_req
<1>1. /\ pc = "batch" /\ chunked_req' = ch
      /\ UNCHANGED <<setup, fresh, running_batch>>
      /\ pc' # "crashed" => last_batch' = [reqs |-> S, chunked_req |-> ch]
  BY DEF LaunchPrefill
<1>2. PICK A \in SUBSET ((waiting_queue \ S) \cup adder.preempt_list) :
        /\ waiting_queue' = ((waiting_queue \ S) \cup adder.preempt_list) \ A
        /\ answers' = [x \in Request |-> IF x \in A THEN answers[x] + 1 ELSE answers[x]]
  BY ZenonT(60) DEF LaunchPrefill, AddRequestsToQueue, Rejections, Answer
<1>3. LastChunk'
  BY <1>1 DEF LastChunk
<1>4. AllPlaced'
  <2> SUFFICES ASSUME ~setup.preemption, pc' # "crashed", NEW x \in Request, x \in setup.reqs,
                      x \notin fresh, answers'[x] = 0
               PROVE  Placed(x)'
    BY <1>1 DEF AllPlaced
  <2>1. answers[x] = 0 /\ x \notin A
    <3>1. answers[x] = 0
      BY <1>2, AnsweredStays DEF Growing
    <3> QED
      BY <1>2, <3>1
  <2>2. Placed(x) /\ last_batch = NoBatch /\ (x = chunked_req => x \in S)
    BY <1>1, <2>1, SchedulerAssumption DEF KeptInv, AllPlaced, PhaseInv, Collecting
  <2>3. last_batch'.reqs = S
    BY <1>1
  <2> HIDE DEF ch
  <2> QED
    BY <1>1, <1>2, <2>1, <2>2, <2>3 DEF Placed, NoBatch
<1> QED
  BY <1>3, <1>4 DEF KeptInv

(* A retracted request is queued or answered. *)
LEMMA KeptRetract ==
    ASSUME ControlInv, ControlInv', KeptInv, NEW r \in Request,
           \/ AbortLast(r)
           \/ \E E : RetractDecode(r, E) \/ RetractAll(r, E)
    PROVE  KeptInv'
<1> USE DEF ControlInv, ControlTypes
<1>1. /\ pc # "crashed" /\ running_batch' = running_batch \ {r}
      /\ UNCHANGED <<setup, fresh, adder>>
      /\ last_batch'.chunked_req = last_batch.chunked_req
      /\ \/ last_batch' = last_batch /\ chunked_req' = chunked_req
         \/ /\ last_batch'.reqs = last_batch.reqs \ {r}
            /\ chunked_req' = IF chunked_req = r THEN NoReq ELSE chunked_req
  BY DEF AbortLast, RetractDecode, RetractAll
<1>2. PICK A \in SUBSET Request :
        /\ answers' = [x \in Request |-> IF x \in A THEN answers[x] + 1 ELSE answers[x]]
        /\ \A x \in Request : x \notin A /\ x \in waiting_queue \cup {r} => x \in waiting_queue'
  <2>1. CASE AbortLast(r)
    <3>1. /\ waiting_queue' = waiting_queue
          /\ answers' = [x \in Request |-> IF x \in {r} THEN answers[x] + 1 ELSE answers[x]]
      BY <2>1 DEF AbortLast, Answer
    <3> QED
      BY ZenonT(60), <3>1
  <2>2. CASE \E E : RetractDecode(r, E) \/ RetractAll(r, E)
    <3>1. PICK A \in SUBSET (waiting_queue \cup {r}) :
            /\ waiting_queue' = (waiting_queue \cup {r}) \ A
            /\ answers' = [x \in Request |-> IF x \in A THEN answers[x] + 1 ELSE answers[x]]
      BY ZenonT(60), <2>2 DEF RetractDecode, RetractAll, AddRequestsToQueue, Rejections, Answer
    <3> QED
      BY ZenonT(60), <3>1
  <2> QED
    BY ZenonT(60), <2>1, <2>2
<1>3. Growing
  BY <1>2 DEF Growing
<1>4. LastChunk'
  <2> SUFFICES ASSUME last_batch'.chunked_req \in last_batch'.reqs
               PROVE  \/ last_batch'.chunked_req = chunked_req'
                      \/ answers'[last_batch'.chunked_req] = 1
    BY DEF LastChunk
  <2>1. last_batch.chunked_req \in last_batch.reqs /\ last_batch.chunked_req \in Request
    BY <1>1
  <2>2. \/ last_batch.chunked_req = chunked_req
        \/ answers[last_batch.chunked_req] = 1
    BY <1>1, <2>1 DEF KeptInv, LastChunk
  <2> QED
    BY <1>1, <1>3, <2>1, <2>2, AnsweredStays
<1>5. AllPlaced'
  <2> SUFFICES ASSUME ~setup.preemption, NEW x \in Request, x \in setup.reqs, x \notin fresh,
                      answers'[x] = 0
               PROVE  Placed(x)'
    BY <1>1 DEF AllPlaced
  <2>1. answers[x] = 0 /\ x \notin A
    <3>1. answers[x] = 0
      BY ZenonT(60), <1>3, AnsweredStays
    <3> QED
      BY <1>2, <3>1
  <2>2. Placed(x)
    BY <1>1, <2>1 DEF KeptInv, AllPlaced
  <2> QED
    BY <1>1, <1>2, <2>1, <2>2 DEF Placed
<1> QED
  BY <1>4, <1>5 DEF KeptInv

LEMMA KeptResult ==
    ASSUME ControlInv, ControlInv', KeptInv,
           \/ EndResult
           \/ \E r \in Request : DropResult(r) \/ ChunkResult(r)
           \/ \E r \in Request : \E stop : PrefillResult(r, stop)
           \/ \E r \in Request : \E k, stop : DecodeResult(r, k, stop)
    PROVE  KeptInv'
<1>1. /\ pc = "result"
      /\ UNCHANGED <<setup, fresh, waiting_queue, running_batch, last_batch, chunked_req, adder>>
  BY ZenonT(60) DEF EndResult, DropResult, ChunkResult, PrefillResult, DecodeResult, batches
<1>2. Growing
  <2>1. CASE EndResult \/ \E r \in Request : DropResult(r) \/ ChunkResult(r)
    BY ZenonT(60), <2>1 DEF EndResult, DropResult, ChunkResult, Growing
  <2>2. CASE \E r \in Request : \E stop : PrefillResult(r, stop)
    BY <2>2 DEF PrefillResult, Answer, Growing
  <2>3. CASE \E r \in Request : \E k, stop : DecodeResult(r, k, stop)
    BY ZenonT(60), <2>3 DEF DecodeResult, Answer, Growing
  <2> QED
    BY <2>1, <2>2, <2>3
<1> QED
  BY SMTT(60), <1>1, <1>2, KeptUnmoved

LEMMA KeptNext == ControlInv /\ ControlInv' /\ KeptInv /\ [Next]_vars => KeptInv'
<1> SUFFICES ASSUME ControlInv, ControlInv', KeptInv, [Next]_vars PROVE KeptInv'
  OBVIOUS
<1>1. CASE Client
  BY <1>1, KeptClient
<1>2. CASE Loop
  <2>1. ASSUME NEW W \in SUBSET Request, NEW T \in SUBSET Request, PrepareStep(W, T)
        PROVE  KeptInv'
    BY <2>1, KeptPrepareStep
  <2>2. CASE \/ SkipPrefill \/ StartAdder \/ StopAdding \/ NoPrefill \/ NoDecode \/ EndPause
             \/ \E r \in Request : AddOneReq(r) \/ PreemptToSchedule(r)
             \/ \E E : CheckDecodeMem(E) \/ LaunchDecode(E)
             \/ \E r \in Request : \E E : ReleaseVictim(r, E)
    BY <2>2, KeptAdmit
  <2>3. ASSUME NEW E, LaunchPrefill(E) PROVE KeptInv'
    BY <2>3, KeptLaunchPrefill
  <2>4. ASSUME NEW r \in Request,
               AbortLast(r) \/ \E E : RetractDecode(r, E) \/ RetractAll(r, E)
        PROVE  KeptInv'
    BY <2>4, KeptRetract
  <2>5. CASE \/ EndResult
             \/ \E r \in Request : DropResult(r) \/ ChunkResult(r)
             \/ \E r \in Request : \E stop : PrefillResult(r, stop)
             \/ \E r \in Request : \E k, stop : DecodeResult(r, k, stop)
    BY <2>5, KeptResult
  <2> QED
    BY <1>2, <2>1, <2>2, <2>3, <2>4, <2>5, ZenonT(60) DEF Loop
<1>3. CASE UNCHANGED vars
  BY <1>3 DEF vars, batches, KeptInv, LastChunk, AllPlaced, Placed
<1> QED
  BY <1>1, <1>2, <1>3 DEF Next

(* Without priority preemption a request that was received and not yet     *)
(* answered is in the queue, in a batch, in the adder or being chunked,    *)
(* through retractions, time-outs, rejections and pauses, as long as no    *)
(* allocation fails (which ends the scheduler).                            *)
THEOREM RequestsKeptAlways == Spec => [](NeverOutOfMemory => RequestsKept)
<1>1. ControlInv /\ KeptInv => (NeverOutOfMemory => RequestsKept)
  <2> SUFFICES ASSUME ControlInv, KeptInv, NeverOutOfMemory, ~setup.preemption,
                      NEW r \in setup.reqs \ fresh, answers[r] = 0
               PROVE  Placed(r)
    BY DEF RequestsKept, NoRequestLost, Placed
  <2>1. r \in Request
    BY DEF ControlInv, ControlTypes, Setup
  <2> QED
    BY <2>1 DEF KeptInv, AllPlaced, NeverOutOfMemory
<1>2. ControlInv /\ KeptInv /\ ControlInv' /\ [Next]_vars => KeptInv'
  BY KeptNext
<1> QED
  BY <1>1, <1>2, InitKept, ControlAlways, PTL DEF Spec

-----------------------------------------------------------------------------

TreeFields == {"value", "lock_ref", "evictable_leaves", "evictable_size_", "protected_size_"}

GoodTree(t) ==
    DOMAIN t = TreeFields /\ IsFiniteSet(DOMAIN t.value) /\ t.evictable_size_ \in Int

IsRow(s) == Len(s) \in Nat /\ s = [i \in 1..Len(s) |-> s[i]]

Lengths(q) ==
    /\ q.out \in Nat /\ q.pre \in Nat /\ q.end \in Nat /\ q.com \in Nat /\ q.alo \in Nat
    /\ IsRow(q.row)

AdderTypes ==
    /\ adder.chunk \in Int /\ adder.total \in Int /\ adder.ratio \in Int
    /\ IsFiniteSet(adder.can_run_list) /\ IsFiniteSet(adder.preempt_list)
    /\ adder.new_chunked_req # NoReq => adder.chunk < PageSize

FiniteBatches ==
    IsFiniteSet(waiting_queue) /\ IsFiniteSet(running_batch) /\ IsFiniteSet(last_batch.reqs)

LengthTypes ==
    /\ GoodTree(m.tree)
    /\ \A r \in Request : Lengths(m.req[r])
    /\ AdderTypes
    /\ FiniteBatches

(* The results of r in the queue q, of prefills, of decodes, or of both. *)
Hits(q, r, A) == {i \in 1..Len(q) : q[i].extend \in A /\ r \in q[i].reqs}

Unlaunched(r) ==
    (\/ r \in fresh \cup waiting_queue \cup adder.preempt_list
     \/ m.req[r].finished
     \/ m.req[r].is_retracted) => m.req[r].row = <<>>

Launched(r) ==
    r \in running_batch \cup last_batch.reqs /\ ~m.req[r].finished => m.req[r].row # <<>>

Covered(r) ==
    LET q == m.req[r]
    IN  q.row # <<>> =>
           /\ Len(q.row) = CeilPages(q.alo)
           /\ setup.draft = 0 => q.com = q.alo
           /\ q.com + Cardinality(Hits(result_queue, r, {FALSE})) * setup.draft <= q.alo

Committed(r) ==
    LET q == m.req[r]
        A == IF setup.draft = 0 THEN BOOLEAN ELSE {TRUE}
    IN  ~setup.preemption /\ q.row # <<>> /\ r \notin adder.can_run_list /\ r # chunked_req =>
           q.com = TotalLen(m, r) - 1 + Cardinality(Hits(result_queue, r, A)) - q.inflight

(* Between two chunks what was launched is what is committed; stashing it  *)
(* moves the start of the next chunk there.                                *)
Chunked(r) ==
    LET q == m.req[r]
    IN  r = chunked_req =>
           /\ q.row # <<>> /\ q.com = q.alo
           /\ ~Collecting => q.end = q.com /\ q.pre <= q.end /\ q.end < TotalLen(m, r)
           /\ pc = "admit" => q.pre = q.end

(* A request in the new batch starts where its row ends, or at the end of  *)
(* the cached prefix, and all of it is launched unless it is chunked.      *)
Admitted(r) ==
    LET q == m.req[r]
    IN  r \in adder.can_run_list =>
           /\ q.pre < q.end
           /\ IF q.row = <<>> THEN Len(q.last_node) \in Nat /\ q.pre = PageSize * Len(q.last_node)
                              ELSE q.pre = q.alo /\ q.com = q.alo
           /\ IF r \in {chunked_req, adder.new_chunked_req}
              THEN q.end < TotalLen(m, r) ELSE q.end = TotalLen(m, r)
           /\ \A i \in 1..Len(result_queue) :
                  r \in result_queue[i].reqs => result_queue[i].chunked_req = r

Good(r) == Unlaunched(r) /\ Launched(r) /\ Covered(r) /\ Committed(r) /\ Chunked(r) /\ Admitted(r)

LengthInv == LengthTypes /\ (pc # "crashed" => \A r \in Request : Good(r))

(* The chunked request took the rest of the chunk or of the whole budget.  *)
ChunkBudget ==
    ~setup.preemption =>
        /\ OneChunkedReq
        /\ pc = "prefill" /\ chunked_req # NoReq =>
               adder.chunk <= 0 \/ rem_total_tokens(m, adder) <= 0

-----------------------------------------------------------------------------
(* Sequences and pages. *)

LEMMA RowFacts ==
    /\ IsRow(<<>>) /\ Len(<<>>) = 0
    /\ \A s : IsRow(s) => (s = <<>> <=> Len(s) = 0)
<1>1. IsRow(<<>>) /\ Len(<<>>) = 0
  BY DEF IsRow
<1>2. ASSUME NEW s, IsRow(s), Len(s) = 0 PROVE s = <<>>
  <2>1. s \in Seq({s[i] : i \in 1..Len(s)})
    BY <1>2 DEF IsRow
  <2> QED
    BY <2>1, <1>2
<1> QED
  BY <1>1, <1>2

LEMMA RowJoin ==
    ASSUME NEW s, IsRow(s), NEW t, IsRow(t)
    PROVE  IsRow(s \o t) /\ Len(s \o t) = Len(s) + Len(t)
<1> DEFINE n == Len(s)
           k == Len(t)
<1>1. n \in Nat /\ k \in Nat /\ s = [i \in 1..n |-> s[i]] /\ t = [i \in 1..k |-> t[i]]
  BY DEF IsRow
<1> HIDE DEF n, k
<1>2. Len(s \o t) = n + k
  BY <1>1
<1>3. s \o t = [i \in 1..(n + k) |-> (s \o t)[i]]
  BY <1>1
<1> QED
  BY <1>1, <1>2, <1>3 DEF IsRow, n, k

LEMMA PrefixLen ==
    ASSUME NEW s, NEW n \in Nat
    PROVE  IsRow(SubSeq(s, 1, n)) /\ Len(SubSeq(s, 1, n)) = n
<1>1. Len(SubSeq(s, 1, n)) = n
  OBVIOUS
<1>2. SubSeq(s, 1, n) = [i \in 1..n |-> SubSeq(s, 1, n)[i]]
  OBVIOUS
<1> QED
  BY <1>1, <1>2 DEF IsRow

LEMMA DivFacts ==
    ASSUME NEW n \in Int
    PROVE  /\ n \div PageSize \in Int
           /\ PageSize * (n \div PageSize) <= n
           /\ n < PageSize * (n \div PageSize) + PageSize
BY ReqKVAssumption

LEMMA CeilFacts ==
    ASSUME NEW n \in Int
    PROVE  /\ CeilPages(n) \in Int
           /\ n <= PageSize * CeilPages(n)
           /\ PageSize * CeilPages(n) < n + PageSize
<1>1. n + PageSize - 1 \in Int /\ PageSize \in Nat
  BY ReqKVAssumption
<1> DEFINE k == (n + PageSize - 1) \div PageSize
<1>2. k \in Int /\ PageSize * k <= n + PageSize - 1 /\ n + PageSize - 1 < PageSize * k + PageSize
  BY <1>1, DivFacts
<1> HIDE DEF k
<1>3. PageSize * k \in Int
  BY <1>1, <1>2
<1>4. CeilPages(n) = k
  BY DEF CeilPages, k
<1> QED
  BY <1>1, <1>2, <1>3, <1>4

LEMMA Times ==
    ASSUME NEW a \in Int, NEW b \in Int, PageSize * a < PageSize * b + PageSize
    PROVE  a <= b
<1> SUFFICES ASSUME a >= b + 1 PROVE FALSE
  OBVIOUS
<1>1. PageSize \in Nat
  BY ReqKVAssumption
<1>2. PICK d \in Nat : a = b + 1 + d
  <2>1. a - b - 1 \in Nat /\ a = b + 1 + (a - b - 1)
    OBVIOUS
  <2> QED
    BY <2>1
<1>3. PageSize * a = PageSize * b + PageSize + PageSize * d
  BY <1>1, <1>2
<1>4. PageSize * d \in Nat /\ PageSize * b \in Int
  BY <1>1
<1> QED
  BY <1>1, <1>3, <1>4

LEMMA CeilMono ==
    ASSUME NEW a \in Int, NEW b \in Int, a <= b
    PROVE  CeilPages(a) <= CeilPages(b)
<1> DEFINE x == CeilPages(a)
           y == CeilPages(b)
<1>1. /\ x \in Int /\ PageSize * x < a + PageSize
      /\ y \in Int /\ b <= PageSize * y /\ PageSize \in Nat
  BY CeilFacts, ReqKVAssumption
<1> HIDE DEF x, y
<1>2. PageSize * x \in Int /\ PageSize * y \in Int
  BY <1>1
<1>3. PageSize * x < PageSize * y + PageSize
  BY <1>1, <1>2
<1> QED
  BY <1>1, <1>3, Times DEF x, y

LEMMA CeilExact ==
    ASSUME NEW n \in Int
    PROVE  CeilPages(PageSize * n) = n
<1>0. PageSize \in Nat /\ PageSize * n \in Int
  BY ReqKVAssumption
<1> DEFINE x == CeilPages(PageSize * n)
<1>1. x \in Int /\ PageSize * n <= PageSize * x /\ PageSize * x < PageSize * n + PageSize
  BY <1>0, CeilFacts
<1> HIDE DEF x
<1>2. PageSize * x \in Int /\ PageSize > 0
  BY <1>0, <1>1, ReqKVAssumption
<1>3. x <= n
  BY <1>1, Times
<1>4. PageSize * n < PageSize * x + PageSize
  BY <1>0, <1>1, <1>2
<1>5. n <= x
  BY <1>1, <1>4, Times
<1> QED
  BY <1>1, <1>3, <1>5 DEF x

LEMMA CeilPositive ==
    ASSUME NEW n \in Nat
    PROVE  CeilPages(n) \in Nat /\ (n > 0 => CeilPages(n) > 0)
<1> DEFINE x == CeilPages(n)
<1>1. x \in Int /\ n <= PageSize * x /\ PageSize * x < n + PageSize /\ PageSize \in Nat
  BY CeilFacts, ReqKVAssumption
<1>2. CeilPages(0) <= x /\ CeilPages(PageSize * 0) = 0
  BY CeilMono, CeilExact
<1>3. PageSize * 0 = 0
  BY <1>1
<1> HIDE DEF x
<1>4. x = 0 => n <= 0
  BY <1>1, <1>3
<1> QED
  BY <1>1, <1>2, <1>3, <1>4 DEF x

(* A chunk that ends before the text does. *)
LEMMA TruncatedShort ==
    ASSUME NEW c \in Int, NEW n \in Int, ~(PageSize * CeilPages(n) <= c)
    PROVE  PageSize * (c \div PageSize) < n
<1> DEFINE k == c \div PageSize
           x == CeilPages(n)
<1>1. /\ k \in Int /\ PageSize * k <= c /\ PageSize \in Nat \ {0}
      /\ x \in Int /\ PageSize * x < n + PageSize
  BY DivFacts, CeilFacts, ReqKVAssumption
<1>2. c < PageSize * x
  BY <1>1
<1> HIDE DEF k, x
<1>3. PageSize * k \in Int /\ PageSize * x \in Int
  BY <1>1
<1>4. PageSize * (k + 1) = PageSize * k + PageSize
  BY <1>1
<1>5. PageSize * (k + 1) < PageSize * x + PageSize
  BY <1>1, <1>2, <1>3, <1>4
<1>6. k + 1 <= x
  BY <1>1, <1>5, Times
<1>7. PICK d \in Nat : x = k + 1 + d
  <2>1. x - k - 1 \in Nat /\ x = k + 1 + (x - k - 1)
    BY <1>1, <1>6
  <2> QED
    BY <2>1
<1>8. PageSize * x = PageSize * k + PageSize + PageSize * d /\ PageSize * d \in Nat
  BY <1>1, <1>7
<1> QED
  BY <1>1, <1>3, <1>8 DEF k

LEMMA MinMax ==
    ASSUME NEW a \in Int, NEW b \in Int
    PROVE  /\ Min({a, b}) = IF a <= b THEN a ELSE b
           /\ Max({a, b}) = IF a <= b THEN b ELSE a
BY DEF Min, Max

-----------------------------------------------------------------------------
(* Least elements, and the sums of the prefill adder. *)

(* Every non-empty set of naturals has a least element. *)
LEMMA Least ==
  ASSUME NEW T \in SUBSET Nat, T # {}
  PROVE  \E n \in T : \A k \in T : n <= k
<1> DEFINE U == {0..n : n \in T}
<1>1. U \subseteq FiniteSubsetsOf(Nat)
  <2>1. \A n \in T : 0..n \subseteq Nat /\ IsFiniteSet(0..n)
    BY FS_Interval
  <2> QED
    BY <2>1 DEF FiniteSubsetsOf
<1>2. U # {}
  BY ZenonT(60)
<1> HIDE DEF U
<1>3. PICK I \in U : \A J \in U : ~ (<<J, I>> \in StrictSubsetOrdering(Nat))
  BY <1>1, <1>2, WFMin, FS_StrictSubsetOrderingWellFounded
<1>4. \A J \in U : J \subseteq I => J = I
  BY ZenonT(60), <1>1, <1>3 DEF StrictSubsetOrdering, FiniteSubsetsOf
<1> USE DEF U
<1>5. PICK n \in T : I = 0..n
  OBVIOUS
<1>6. ASSUME NEW k \in T, k < n PROVE FALSE
  <2>1. n \in Nat /\ k \in Nat
    OBVIOUS
  <2>2. 0..k \subseteq 0..n /\ n \notin 0..k /\ n \in 0..n
    BY <2>1, <1>6
  <2>3. 0..k \in U
    OBVIOUS
  <2> QED
    BY ZenonT(60), <2>2, <2>3, <1>4, <1>5
<1>7. \A k \in T : n <= k
  <2>1. T \subseteq Nat
    OBVIOUS
  <2> QED
    BY <2>1, <1>6
<1> QED
  BY <1>7

(* Induction for a set Q of naturals. *)
LEMMA UpTo ==
  ASSUME NEW n \in Nat, NEW Q, 0 \in Q,
         \A k \in 1..n : k - 1 \in Q => k \in Q
  PROVE  \A k \in 0..n : k \in Q
<1> DEFINE T == {k \in 0..n : k \notin Q}
<1>1. SUFFICES ASSUME T # {} PROVE FALSE
  OBVIOUS
<1>2. PICK k \in T : \A j \in T : k <= j
  <2>1. T \in SUBSET Nat
    OBVIOUS
  <2> HIDE DEF T
  <2> QED
    BY <1>1, <2>1, Least
<1>3. k # 0 /\ k - 1 \in 0..n /\ k - 1 \notin T
  BY <1>2
<1> QED
  BY <1>2, <1>3

(* Of a family of subsets of a finite set one has no other inside. *)
LEMMA SmallestSet ==
    ASSUME NEW S, IsFiniteSet(S), NEW B \in SUBSET (SUBSET S), B # {}
    PROVE  \E T \in B : \A U \in B : U \subseteq T => U = T
<1>1. B \subseteq FiniteSubsetsOf(S)
  BY FS_Subset DEF FiniteSubsetsOf
<1>2. PICK T \in B : \A U \in B : ~ (<<U, T>> \in StrictSubsetOrdering(S))
  BY <1>1, WFMin, FS_StrictSubsetOrderingWellFounded
<1>3. \A U \in B : U \subseteq T => U = T
  BY ZenonT(60), <1>1, <1>2 DEF StrictSubsetOrdering, FiniteSubsetsOf
<1> QED
  BY <1>3

LEMMA Greatest ==
    ASSUME NEW n \in Nat, NEW s \in SUBSET (0..n), s # {}
    PROVE  Max(s) \in s /\ \A j \in s : j <= Max(s)
<1>1. \E x \in s : \A y \in s : x >= y
  <2> DEFINE T == {n - x : x \in s}
  <2>1. T \in SUBSET Nat /\ T # {}
    <3>1. \A x \in s : n - x \in Nat
      OBVIOUS
    <3>2. T \in SUBSET Nat
      BY <3>1
    <3>3. PICK x \in s : TRUE
      BY ZenonT(60)
    <3>4. n - x \in T
      OBVIOUS
    <3> QED
      BY <3>2, <3>4
  <2>2. PICK k \in T : \A j \in T : k <= j
    <3> HIDE DEF T
    <3> QED
      BY <2>1, Least
  <2>3. PICK x \in s : k = n - x
    OBVIOUS
  <2>4. ASSUME NEW y \in s PROVE x >= y
    <3>1. n - y \in T
      OBVIOUS
    <3>2. n - x <= n - y
      BY ZenonT(60), <2>2, <2>3, <3>1
    <3> QED
      BY <3>2
  <2> QED
    BY ZenonT(60), <2>4
<1>2. Max(s) \in s /\ \A y \in s : Max(s) >= y
  BY ZenonT(60), <1>1 DEF Max
<1> DEFINE k == Max(s)
<1>3. k \in s /\ \A y \in s : k >= y
  BY <1>2
<1> HIDE DEF k
<1>4. \A y \in s : y \in Int
  OBVIOUS
<1>5. \A j \in s : j <= k
  BY <1>3, <1>4
<1> QED
  BY <1>3, <1>5 DEF k

(* What one pass of the adder sets aside for each subset of the requests D.*)
OffsetSum(f, mem, ratio, D) ==
    f = [s \in D |-> IF s = {} THEN 0
                     ELSE RunningOffset(mem, ratio, CHOOSE x \in s : TRUE)
                            + f[s \ {CHOOSE x \in s : TRUE}]]

LEMMA OffsetSumExists ==
    ASSUME NEW mem, NEW ratio, NEW S, IsFiniteSet(S)
    PROVE  \E f : OffsetSum(f, mem, ratio, SUBSET S)
<1> DEFINE n == Cardinality(S)
           D(k) == {s \in SUBSET S : Cardinality(s) <= k}
           Q == {k \in 0..n : \E f : OffsetSum(f, mem, ratio, D(k))}
           F(x) == RunningOffset(mem, ratio, x)
           c(s) == CHOOSE x \in s : TRUE
<1>1. n \in Nat
  BY FS_CardinalityType
<1>2. \A s \in SUBSET S : IsFiniteSet(s) /\ Cardinality(s) \in Nat /\ Cardinality(s) <= n
  BY FS_Subset, FS_CardinalityType
<1>3. 0 \in Q
  <2> DEFINE f == [s \in D(0) |-> 0]
  <2>1. \A s \in D(0) : s = {}
    BY <1>2, FS_EmptySet
  <2>2. OffsetSum(f, mem, ratio, D(0))
    BY <2>1 DEF OffsetSum
  <2> HIDE DEF f, D
  <2>3. \E h : OffsetSum(h, mem, ratio, D(0))
    BY <2>2
  <2> QED
    BY <1>1, <2>3
<1>4. ASSUME NEW k \in 1..n, k - 1 \in Q PROVE k \in Q
  <2>1. PICK f : OffsetSum(f, mem, ratio, D(k - 1))
    BY <1>4
  <2> DEFINE g == [s \in D(k) |-> IF Cardinality(s) <= k - 1 THEN f[s]
                                  ELSE F(c(s)) + f[s \ {c(s)}]]
  <2>2. ASSUME NEW s \in D(k)
        PROVE  g[s] = IF s = {} THEN 0 ELSE F(c(s)) + g[s \ {c(s)}]
    <3>1. CASE s = {}
      <4>1. s \in D(k - 1) /\ Cardinality(s) <= k - 1
        BY <3>1, FS_EmptySet, <1>1
      <4>2. f[s] = 0
        BY <3>1, <4>1, <2>1 DEF OffsetSum
      <4> QED
        BY <3>1, <4>1, <4>2
    <3>2. CASE s # {}
      <4>1. c(s) \in s
        BY <3>2
      <4> DEFINE t == s \ {c(s)}
      <4>2. t \in SUBSET S /\ Cardinality(t) = Cardinality(s) - 1
        BY ZenonT(60), <4>1, <1>2, FS_RemoveElement
      <4>3. Cardinality(t) <= k - 1 /\ t \in D(k - 1) /\ t \in D(k)
        BY <4>2, <1>1, <1>2
      <4>4. g[t] = f[t]
        BY <4>3
      <4>5. CASE Cardinality(s) <= k - 1
        <5>1. s \in D(k - 1)
          BY <4>5
        <5>2. f[s] = F(c(s)) + f[t]
          BY ZenonT(60), <5>1, <3>2, <2>1 DEF OffsetSum
        <5> QED
          BY <4>5, <3>2, <4>4, <5>2
      <4>6. CASE ~(Cardinality(s) <= k - 1)
        BY <4>6, <3>2, <4>4
      <4> QED
        BY <4>5, <4>6
    <3> QED
      BY <3>1, <3>2
  <2>3. OffsetSum(g, mem, ratio, D(k))
    <3> DEFINE h == [s \in D(k) |-> IF s = {} THEN 0 ELSE F(c(s)) + g[s \ {c(s)}]]
    <3>1. g = h
      <4>1. \A s \in D(k) : g[s] = h[s]
        BY ZenonT(60), <2>2
      <4> QED
        BY ZenonT(60), <4>1
    <3> HIDE DEF g
    <3> QED
      BY ZenonT(60), <3>1 DEF OffsetSum
  <2> HIDE DEF g, D
  <2>4. \E h : OffsetSum(h, mem, ratio, D(k))
    BY <2>3
  <2>5. k \in 0..n
    BY <1>1
  <2> QED
    BY <2>4, <2>5
<1>5. n \in Q
  <2> HIDE DEF Q
  <2> QED
    BY <1>1, <1>3, <1>4, UpTo
<1>6. D(n) = SUBSET S
  BY <1>2
<1> QED
  BY ZenonT(60), <1>5, <1>6

LEMMA OffsetsInt ==
    ASSUME NEW mem, NEW ratio, NEW S, IsFiniteSet(S),
           \A r \in S : RunningOffset(mem, ratio, r) \in Int
    PROVE  (CHOOSE f : OffsetSum(f, mem, ratio, SUBSET S))[S] \in Int
<1> DEFINE f == CHOOSE f : OffsetSum(f, mem, ratio, SUBSET S)
<1>1. OffsetSum(f, mem, ratio, SUBSET S)
  BY ZenonT(60), OffsetSumExists
<1> HIDE DEF f
<1> DEFINE B == {s \in SUBSET S : f[s] \notin Int}
<1>2. B = {}
  <2> SUFFICES ASSUME B # {} PROVE FALSE
    OBVIOUS
  <2>1. PICK T \in B : \A U \in B : U \subseteq T => U = T
    <3>1. B \in SUBSET (SUBSET S)
      OBVIOUS
    <3> HIDE DEF B
    <3> QED
      BY <3>1, SmallestSet
  <2> DEFINE x == CHOOSE x \in T : TRUE
  <2>2. f[T] = IF T = {} THEN 0 ELSE RunningOffset(mem, ratio, x) + f[T \ {x}]
    BY ZenonT(60), <1>1 DEF OffsetSum
  <2>3. T # {}
    BY <2>2
  <2>4. x \in T
    BY <2>3
  <2> HIDE DEF x
  <2>5. T \ {x} \notin B
    BY <2>1, <2>4
  <2>6. f[T \ {x}] \in Int /\ RunningOffset(mem, ratio, x) \in Int
    BY <2>4, <2>5
  <2> QED
    BY <2>2, <2>3, <2>6
<1> QED
  BY ZenonT(60), <1>2 DEF f

-----------------------------------------------------------------------------
(* The tree stays finite and its budget a number. *)

LEMMA KeyLensNat ==
    ASSUME NEW t, GoodTree(t), NEW N
    PROVE  KeyLens(t, N) \in Nat
<1>1. Cells(t, N) \subseteq DOMAIN t.value
  BY DEF Cells, Paths
<1> QED
  BY <1>1, FS_Subset, FS_CardinalityType DEF KeyLens, GoodTree

LEMMA LeafStatusGood ==
    ASSUME NEW t, GoodTree(t), NEW N
    PROVE  GoodTree(UpdateLeafStatus(t, N))
BY DEF GoodTree, TreeFields, UpdateLeafStatus

LEMMA LockRefGood ==
    ASSUME NEW t, GoodTree(t), NEW n, NEW d \in {1, -1}
    PROVE  GoodTree(AddLockRef(t, n, d))
<1> DEFINE up    == PathToRoot(t, n)
           edge  == {k \in up : t.lock_ref[k] = IF d = 1 THEN 0 ELSE 1}
           moved == d * KeyLens(t, edge)
           lr    == [k \in Nodes(t) |-> IF k \in up THEN t.lock_ref[k] + d ELSE t.lock_ref[k]]
           u     == [t EXCEPT !.lock_ref = lr,
                              !.evictable_size_ = @ - moved,
                              !.protected_size_ = @ + moved]
<1>1. moved \in Int
  <2>1. KeyLens(t, edge) \in Nat
    BY KeyLensNat
  <2> HIDE DEF edge
  <2> QED
    BY <2>1
<1>2. AddLockRef(t, n, d) = UpdateLeafStatus(u, up)
  BY DEF AddLockRef
<1> HIDE DEF moved, lr, up
<1>3. GoodTree(u)
  BY <1>1 DEF GoodTree, TreeFields
<1> HIDE DEF u
<1> QED
  BY <1>2, <1>3, LeafStatusGood

LEMMA IncDecGood ==
    ASSUME NEW t, GoodTree(t), NEW n
    PROVE  GoodTree(IncLockRef(t, n)) /\ GoodTree(DecLockRef(t, n))
BY LockRefGood DEF IncLockRef, DecLockRef

LEMMA SplitGood ==
    ASSUME NEW t, GoodTree(t), NEW p
    PROVE  /\ GoodTree(SplitNode(t, p)) /\ SplitNode(t, p).value = t.value
           /\ SplitNode(t, p).evictable_size_ = t.evictable_size_
BY DEF SplitNode, GoodTree, TreeFields

LEMMA MatchedLen ==
    ASSUME NEW t, NEW key, Len(key) \in Nat
    PROVE  LET p == MatchedPath(t, key)
           IN  Len(p) \in Nat /\ Len(p) <= Len(key) /\ p = SubSeq(key, 1, Len(p))
<1> DEFINE n == Len(key)
           cached == {i \in 0..n : \A j \in 1..i : SubSeq(key, 1, j) \in Paths(t)}
<1>1. 0 \in cached /\ cached \in SUBSET (0..n)
  OBVIOUS
<1>2. MatchedPath(t, key) = SubSeq(key, 1, Max(cached))
  BY DEF MatchedPath
<1> HIDE DEF cached
<1>3. Max(cached) \in 0..n
  BY ZenonT(60), <1>1, Greatest
<1>4. Len(SubSeq(key, 1, Max(cached))) = Max(cached)
  BY <1>3, PrefixLen
<1> QED
  BY <1>2, <1>3, <1>4

LEMMA InsertGood ==
    ASSUME NEW t, GoodTree(t), NEW key, Len(key) \in Nat, NEW pages
    PROVE  GoodTree(Insert(t, key, pages).tree)
<1> DEFINE p    == MatchedPath(t, key)
           s    == SplitNode(t, p)
           J    == (Len(p) + 1)..Len(key)
           new  == {SubSeq(key, 1, i) : i \in J}
           val  == [q \in Paths(s) \cup new |-> IF q \in new THEN pages[Len(q)] ELSE s.value[q]]
           lr   == [k \in Nodes(s) \cup {key} |-> IF k = key THEN 0 ELSE s.lock_ref[k]]
           leaf == [s EXCEPT !.value = val, !.lock_ref = lr,
                             !.evictable_size_ = @ + Cardinality(new)]
<1>1. GoodTree(s)
  BY SplitGood
<1>2. Insert(t, key, pages).tree = IF new = {} THEN s ELSE UpdateLeafStatus(leaf, {p, key})
  BY DEF Insert
<1>3. IsFiniteSet(new)
  <2>1. IsFiniteSet(J)
    BY MatchedLen, FS_Interval
  <2> HIDE DEF J
  <2> DEFINE f == [i \in J |-> SubSeq(key, 1, i)]
  <2>2. f \in Surjection(J, new)
    BY ZenonT(60) DEF Surjection
  <2> HIDE DEF f, new
  <2> QED
    BY <2>1, <2>2, FS_Surjection
<1> HIDE DEF p, s, new, lr
<1>4. GoodTree(leaf)
  <2>1. Cardinality(new) \in Nat
    BY <1>3, FS_CardinalityType
  <2>2. IsFiniteSet(Paths(s) \cup new)
    BY ZenonT(60), <1>1, <1>3, FS_Union DEF GoodTree, Paths
  <2>3. DOMAIN val = Paths(s) \cup new
    OBVIOUS
  <2> HIDE DEF val
  <2> QED
    BY <1>1, <2>1, <2>2, <2>3 DEF GoodTree, TreeFields
<1> HIDE DEF leaf
<1> QED
  BY <1>1, <1>2, <1>4, LeafStatusGood

LEMMA EvictGood ==
    ASSUME NEW t, GoodTree(t), NEW E
    PROVE  GoodTree(EvictNodes(t, E))
<1> DEFINE rest == Nodes(t) \ E
           parents == {k \in rest : Children(t, k) \cap E # {}}
           val == Restrict(t.value, Paths(t) \ Cells(t, E))
           lr  == Restrict(t.lock_ref, rest)
           u   == [t EXCEPT !.value = val, !.lock_ref = lr,
                            !.evictable_size_ = @ - KeyLens(t, E),
                            !.evictable_leaves = @ \ E]
<1>1. EvictNodes(t, E) = UpdateLeafStatus(u, parents)
  BY DEF EvictNodes
<1>2. IsFiniteSet(DOMAIN val)
  <2>1. DOMAIN val \subseteq DOMAIN t.value
    BY DEF Restrict, Paths
  <2> HIDE DEF val
  <2> QED
    BY <2>1, FS_Subset DEF GoodTree
<1>3. KeyLens(t, E) \in Nat
  BY KeyLensNat
<1> HIDE DEF val, lr, parents
<1>4. GoodTree(u)
  BY <1>2, <1>3 DEF GoodTree, TreeFields
<1> HIDE DEF u
<1> QED
  BY <1>1, <1>4, LeafStatusGood

LEMMA EmptyGood == GoodTree(EmptyTree)
BY FS_EmptySet DEF GoodTree, TreeFields, EmptyTree
-----------------------------------------------------------------------------
(* What the operators on a memory do to the lengths of a request. *)

LEMMA DivNat ==
    ASSUME NEW n \in Nat
    PROVE  n \div PageSize \in Nat
BY ReqKVAssumption

LEMMA KeyLen ==
    ASSUME NEW mem, NEW r, NEW n \in Nat
    PROVE  Len(Key(mem, r, n)) \in Nat
<1>1. KeyPages(mem, n) \in Nat
  <2>1. CASE mem.is_eagle /\ n > 0
    <3>1. n - 1 \in Nat
      BY <2>1
    <3> QED
      BY <2>1, <3>1, DivNat DEF KeyPages
  <2>2. CASE ~(mem.is_eagle /\ n > 0)
    BY <2>2, DivNat DEF KeyPages
  <2> QED
    BY <2>1, <2>2
<1> QED
  BY <1>1, PrefixLen DEF Key

LEMMA TotalNat ==
    ASSUME NEW mem, NEW r \in Request, mem.req[r].out \in Nat
    PROVE  TotalLen(mem, r) \in Nat /\ TotalLen(mem, r) > 0
BY ReqKVAssumption DEF TotalLen

LEMMA EvictLens ==
    ASSUME NEW mem, Shape(mem), GoodTree(mem.tree), NEW E
    PROVE  GoodTree(Evict(mem, E).tree)
<1>1. Evict(mem, E).tree = EvictNodes(mem.tree, E)
  BY DEF Evict, Shape
<1> QED
  BY <1>1, EvictGood

LEMMA CacheFinishedTree ==
    ASSUME NEW mem, Shape(mem), GoodTree(mem.tree), NEW r \in Request, Lengths(mem.req[r]),
           NEW is_insert
    PROVE  GoodTree(CacheFinished(mem, r, is_insert).tree)
<1> DEFINE n   == Min({mem.req[r].com, TotalLen(mem, r)})
           key == Key(mem, r, n)
           ins == IF is_insert THEN Insert(mem.tree, key, mem.req[r].row)
                               ELSE [tree |-> mem.tree, prefix_len |-> Len(key)]
           duplicate == FreeRow(mem, r, mem.req[r].prot + 1, ins.prefix_len)
           tail == FreeRow(duplicate, r, Len(key) + 1, CeilPages(n))
<1>1. CacheFinished(mem, r, is_insert) =
        [tail EXCEPT !.tree = DecLockRef(ins.tree, mem.req[r].last_node)]
  BY DEF CacheFinished
<1>2. n \in Nat
  BY TotalNat, MinMax DEF Lengths
<1> HIDE DEF n
<1>3. Len(key) \in Nat
  BY <1>2, KeyLen
<1> HIDE DEF key
<1>4. GoodTree(ins.tree)
  BY <1>3, InsertGood
<1> HIDE DEF ins
<1>5. Shape(tail)
  BY FreeRowKeeps
<1> HIDE DEF tail
<1>6. CacheFinished(mem, r, is_insert).tree = DecLockRef(ins.tree, mem.req[r].last_node)
  BY <1>1, <1>5 DEF Shape
<1> QED
  BY SMTT(60), <1>4, <1>6, IncDecGood

IsReleased(new, mem, r) ==
    /\ GoodTree(new.tree)
    /\ \A x \in Request \ {r} : new.req[x] = mem.req[x]
    /\ new.req[r].row = <<>> /\ new.req[r].out = mem.req[r].out
    /\ new.req[r].com = 0 /\ new.req[r].alo = 0
    /\ new.req[r].pre = 0 /\ new.req[r].end = 0

LEMMA ReleaseKVLens ==
    ASSUME NEW mem, Shape(mem), GoodTree(mem.tree), NEW r \in Request, Lengths(mem.req[r]),
           NEW is_insert
    PROVE  IsReleased(ReleaseKV(mem, r, is_insert), mem, r)
<1> DEFINE done == CacheFinished(mem, r, is_insert)
           over == FreeRow(done, r, CeilPages(mem.req[r].com) + 1, CeilPages(mem.req[r].alo))
<1>1. Shape(over) /\ over.req = mem.req
  BY CacheFinishedKeeps, FreeRowKeeps
<1>2. GoodTree(over.tree)
  <2>1. over.tree = done.tree
    <3>1. Shape(done)
      BY SMTT(60), CacheFinishedKeeps
    <3> HIDE DEF done
    <3> QED
      BY <3>1 DEF FreeRow, Shape
  <2> QED
    BY <2>1, CacheFinishedTree
<1>3. ReleaseKV(mem, r, is_insert) =
        [over EXCEPT !.req[r].row = <<>>, !.req[r].prot = 0, !.req[r].com = 0, !.req[r].alo = 0,
                     !.req[r].pre = 0, !.req[r].end = 0, !.req[r].last_node = Root]
  BY ZenonT(60) DEF ReleaseKV
<1> HIDE DEF over
<1> DEFINE a == [over EXCEPT !.req[r].row = <<>>, !.req[r].prot = 0, !.req[r].com = 0]
           b == [a EXCEPT !.req[r].alo = 0, !.req[r].pre = 0]
           c == [b EXCEPT !.req[r].end = 0, !.req[r].last_node = Root]
<1>4. ReleaseKV(mem, r, is_insert) = c
  BY <1>3
<1>5. /\ Shape(a) /\ a.tree = over.tree /\ a.req[r].row = <<>> /\ a.req[r].com = 0
      /\ a.req[r].out = mem.req[r].out /\ \A x \in Request \ {r} : a.req[x] = mem.req[x]
  BY <1>1 DEF Shape, ReqFields
<1> HIDE DEF a
<1>6. /\ Shape(b) /\ b.tree = over.tree /\ b.req[r].row = <<>> /\ b.req[r].com = 0
      /\ b.req[r].alo = 0 /\ b.req[r].pre = 0
      /\ b.req[r].out = mem.req[r].out /\ \A x \in Request \ {r} : b.req[x] = mem.req[x]
  BY <1>5 DEF Shape, ReqFields
<1> HIDE DEF b
<1>7. /\ c.tree = over.tree /\ c.req[r].row = <<>> /\ c.req[r].com = 0
      /\ c.req[r].alo = 0 /\ c.req[r].pre = 0 /\ c.req[r].end = 0
      /\ c.req[r].out = mem.req[r].out /\ \A x \in Request \ {r} : c.req[x] = mem.req[x]
  BY SMTT(60), <1>6 DEF Shape, ReqFields
<1> HIDE DEF c
<1> QED
  BY <1>2, <1>4, <1>7 DEF IsReleased

IsStashed(new, mem, r) ==
    /\ GoodTree(new.tree)
    /\ \A x \in Request \ {r} : new.req[x] = mem.req[x]
    /\ IsRow(new.req[r].row) /\ Len(new.req[r].row) = Len(mem.req[r].row)
    /\ new.req[r].pre = mem.req[r].end /\ new.req[r].end = mem.req[r].end
    /\ new.req[r].out = mem.req[r].out
    /\ new.req[r].com = mem.req[r].com /\ new.req[r].alo = mem.req[r].alo

LEMMA CacheUnfinishedLens ==
    ASSUME NEW mem, Shape(mem), GoodTree(mem.tree), NEW r \in Request, Lengths(mem.req[r])
    PROVE  IsStashed(CacheUnfinished(mem, r), mem, r)
<1> DEFINE q     == mem.req[r]
           key   == Key(mem, r, q.end)
           ins   == Insert(mem.tree, key, q.row)
           freed == FreeRow(mem, r, q.prot + 1, ins.prefix_len)
           row   == [i \in 1..Len(q.row) |->
                        IF i \in (q.prot + 1)..Len(key)
                        THEN ins.tree.value[SubSeq(key, 1, i)] ELSE q.row[i]]
           tree  == IncLockRef(DecLockRef(ins.tree, q.last_node), key)
<1>1. CacheUnfinished(mem, r) =
        [freed EXCEPT !.tree = tree, !.req[r].row = row, !.req[r].prot = Len(key),
                      !.req[r].pre = q.end, !.req[r].last_node = key]
  BY DEF CacheUnfinished
<1>2. Len(key) \in Nat
  BY KeyLen DEF Lengths
<1> HIDE DEF key
<1>3. GoodTree(tree)
  BY <1>2, InsertGood, IncDecGood
<1>4. IsRow(row) /\ Len(row) = Len(q.row)
  <2>1. Len(q.row) \in Nat
    BY DEF Lengths, IsRow
  <2> HIDE DEF ins, q
  <2>2. Len(row) = Len(q.row)
    BY <2>1
  <2>3. row = [i \in 1..Len(row) |-> row[i]]
    BY <2>1, <2>2
  <2> QED
    BY <2>1, <2>2, <2>3 DEF IsRow
<1> HIDE DEF ins, row, tree
<1>5. Shape(freed) /\ freed.req = mem.req
  BY FreeRowKeeps
<1> HIDE DEF freed
<1> DEFINE a == [freed EXCEPT !.tree = tree, !.req[r].row = row, !.req[r].prot = Len(key)]
           b == [a EXCEPT !.req[r].pre = q.end, !.req[r].last_node = key]
<1>6. CacheUnfinished(mem, r) = b
  BY <1>1
<1> HIDE DEF q
<1>7. /\ Shape(a) /\ a.tree = tree /\ a.req[r].row = row
      /\ \A x \in Request \ {r} : a.req[x] = mem.req[x]
      /\ a.req[r].out = q.out /\ a.req[r].end = q.end
      /\ a.req[r].com = q.com /\ a.req[r].alo = q.alo
  BY <1>5 DEF Shape, ReqFields, q
<1> HIDE DEF a
<1>8. /\ b.tree = tree /\ b.req[r].row = row /\ b.req[r].pre = q.end
      /\ \A x \in Request \ {r} : b.req[x] = mem.req[x]
      /\ b.req[r].out = q.out /\ b.req[r].end = q.end
      /\ b.req[r].com = q.com /\ b.req[r].alo = q.alo
  BY <1>7 DEF Shape, ReqFields
<1> HIDE DEF b
<1> QED
  BY <1>3, <1>4, <1>6, <1>8 DEF q, IsStashed

IsGrown(new, mem, S, need) ==
    /\ new.tree = mem.tree
    /\ \A r \in Request \ S : new.req[r] = mem.req[r]
    /\ \A r \in S : LET p == new.req[r]
                        q == mem.req[r]
                    IN  /\ IsRow(p.row) /\ Len(p.row) = Len(q.row) + need[r]
                        /\ p.out = q.out /\ p.pre = q.pre /\ p.end = q.end
                        /\ p.com = q.com /\ p.alo = q.alo

LEMMA GrowRowsLens ==
    ASSUME NEW mem, Shape(mem), NEW S \in SUBSET Request, NEW need,
           \A r \in S : need[r] \in Nat /\ IsRow(mem.req[r].row)
    PROVE  IsGrown(GrowRows(mem, S, need), mem, S, need)
<1> DEFINE avail    == {p \in Page : mem.free[p] > 0}
           rank(p)  == Cardinality({x \in avail : x < p})
           sum(R)   == MapThenSumSet(LAMBDA x : need[x], R)
           order    == SetToSeq(S)
           start(r) == sum({order[j] : j \in 1..(SelectInSeq(order, LAMBDA x : x = r) - 1)})
           pages(r) == [i \in 1..need[r] |-> CHOOSE p \in avail : rank(p) = start(r) + i - 1]
           free     == [p \in Page |-> IF p \in avail /\ rank(p) < sum(S)
                                       THEN mem.free[p] - 1 ELSE mem.free[p]]
           req      == [r \in Request |->
                          IF r \in S THEN [mem.req[r] EXCEPT !.row = @ \o pages(r)] ELSE mem.req[r]]
<1>1. GrowRows(mem, S, need) = [mem EXCEPT !.free = free, !.req = req]
  BY DEF GrowRows
<1>2. ASSUME NEW r \in S PROVE IsRow(pages(r)) /\ Len(pages(r)) = need[r]
  <2> DEFINE P == pages(r)
  <2>1. need[r] \in Nat
    OBVIOUS
  <2>2. Len(P) = need[r] /\ P = [i \in 1..need[r] |-> P[i]]
    <3> HIDE DEF start, rank, avail
    <3> QED
      BY <2>1
  <2> HIDE DEF P
  <2>3. IsRow(P) /\ Len(P) = need[r]
    BY <2>1, <2>2 DEF IsRow
  <2> QED
    BY <2>3 DEF P
<1> HIDE DEF pages, free
<1>3. ASSUME NEW r \in S
      PROVE  /\ req[r].row = mem.req[r].row \o pages(r)
             /\ req[r].out = mem.req[r].out /\ req[r].pre = mem.req[r].pre
             /\ req[r].end = mem.req[r].end /\ req[r].com = mem.req[r].com
             /\ req[r].alo = mem.req[r].alo
  BY DEF Shape, ReqFields
<1>4. \A r \in Request \ S : req[r] = mem.req[r]
  OBVIOUS
<1>5. ASSUME NEW r \in S
      PROVE  IsRow(req[r].row) /\ Len(req[r].row) = Len(mem.req[r].row) + need[r]
  <2>1. IsRow(mem.req[r].row) /\ IsRow(pages(r)) /\ Len(pages(r)) = need[r]
    BY SMTT(60), <1>2
  <2>2. req[r].row = mem.req[r].row \o pages(r)
    BY <1>3
  <2> HIDE DEF req
  <2> QED
    BY ZenonT(60), <2>1, <2>2, RowJoin
<1> HIDE DEF req
<1>6. GrowRows(mem, S, need).tree = mem.tree /\ GrowRows(mem, S, need).req = req
  BY <1>1 DEF Shape
<1> QED
  BY <1>3, <1>4, <1>5, <1>6 DEF IsGrown
-----------------------------------------------------------------------------
(* Counting the results of a request; there are two batches at most. *)

Hit(q, r, A, i) == IF i <= Len(q) /\ q[i].extend \in A /\ r \in q[i].reqs THEN 1 ELSE 0

LEMMA HitsCount ==
    ASSUME NEW q, Len(q) \in Nat, Len(q) <= 2, NEW r, NEW A
    PROVE  Cardinality(Hits(q, r, A)) = Hit(q, r, A, 1) + Hit(q, r, A, 2)
<1> DEFINE H == Hits(q, r, A)
<1>1. H \subseteq {1, 2} /\ \A i \in {1, 2} : i \in H <=> Hit(q, r, A, i) = 1
  BY DEF Hits, Hit
<1>2. \A i \in {1, 2} : Hit(q, r, A, i) \in {0, 1}
  BY DEF Hit
<1> HIDE DEF H
<1>3. H = {} \/ H = {1} \/ H = {2} \/ H = {1} \cup {2}
  BY ZenonT(60), <1>1
<1>4. /\ Cardinality({1}) = 1 /\ Cardinality({2}) = 1
      /\ Cardinality({1} \cup {2}) = 2
  <2>1. IsFiniteSet({1}) /\ Cardinality({1}) = 1 /\ Cardinality({2}) = 1
    BY ZenonT(60), FS_Singleton
  <2>2. 2 \notin {1}
    OBVIOUS
  <2>3. Cardinality({1} \cup {2}) = Cardinality({1}) + 1
    BY <2>1, <2>2, FS_AddElement
  <2>4. 1 + 1 = 2
    OBVIOUS
  <2> QED
    BY ZenonT(60), <2>1, <2>3, <2>4
<1>5. Cardinality(H) = Hit(q, r, A, 1) + Hit(q, r, A, 2)
  <2>1. CASE H = {}
    BY <2>1, <1>1, <1>2, FS_EmptySet
  <2>2. CASE H = {1}
    BY <2>2, <1>1, <1>2, <1>4
  <2>3. CASE H = {2}
    BY <2>3, <1>1, <1>2, <1>4
  <2>4. CASE H = {1} \cup {2}
    <3>1. Cardinality(H) = 2
      BY ZenonT(60), <2>4, <1>4
    <3>2. 1 \in H /\ 2 \in H
      BY <2>4
    <3> QED
      BY <3>1, <3>2, <1>1
  <2> QED
    BY <1>3, <2>1, <2>2, <2>3, <2>4
<1> QED
  BY <1>5 DEF H

LEMMA HitsNat ==
    ASSUME NEW q, Len(q) \in Nat, Len(q) <= 2, NEW r, NEW A
    PROVE  Cardinality(Hits(q, r, A)) \in 0..2
<1>1. Hit(q, r, A, 1) \in {0, 1} /\ Hit(q, r, A, 2) \in {0, 1}
  BY DEF Hit
<1> QED
  BY <1>1, HitsCount

LEMMA AppendHits ==
    ASSUME NEW q \in Seq(Batch), Len(q) <= 1, NEW b \in Batch, NEW r, NEW A
    PROVE  /\ Len(Append(q, b)) = Len(q) + 1
           /\ Cardinality(Hits(Append(q, b), r, A)) =
                  Cardinality(Hits(q, r, A)) + IF b.extend \in A /\ r \in b.reqs THEN 1 ELSE 0
<1> DEFINE p == Append(q, b)
<1>1. Len(q) \in Nat /\ Len(p) = Len(q) + 1 /\ p[Len(q) + 1] = b /\ \A i \in 1..Len(q) : p[i] = q[i]
  BY LenProperties, AppendProperties
<1> HIDE DEF p
<1>2. Cardinality(Hits(p, r, A)) = Hit(p, r, A, 1) + Hit(p, r, A, 2)
  BY <1>1, HitsCount
<1>3. Cardinality(Hits(q, r, A)) = Hit(q, r, A, 1) + Hit(q, r, A, 2)
  BY <1>1, HitsCount
<1>4. CASE Len(q) = 0
  BY <1>1, <1>2, <1>3, <1>4 DEF Hit, p
<1>5. CASE Len(q) = 1
  BY <1>1, <1>2, <1>3, <1>5 DEF Hit, p
<1>6. Len(q) = 0 \/ Len(q) = 1
  <2> DEFINE n == Len(q)
  <2>1. n \in Nat /\ n <= 1
    BY LenProperties
  <2> HIDE DEF n
  <2>2. n = 0 \/ n = 1
    BY <2>1
  <2> QED
    BY <2>2 DEF n
<1> QED
  BY <1>1, <1>4, <1>5, <1>6 DEF p

LEMMA SettleHits ==
    ASSUME NEW q, Len(q) \in Nat, Len(q) >= 1, Len(q) <= 2, NEW x \in q[1].reqs, NEW r, NEW A,
           NEW p, Len(p) = Len(q), p[1].extend = q[1].extend, p[1].reqs = q[1].reqs \ {x},
           Len(q) = 2 => p[2] = q[2]
    PROVE  Cardinality(Hits(p, r, A)) =
               Cardinality(Hits(q, r, A)) - IF r = x /\ q[1].extend \in A THEN 1 ELSE 0
<1>1. Cardinality(Hits(p, r, A)) = Hit(p, r, A, 1) + Hit(p, r, A, 2)
  BY HitsCount
<1>2. Cardinality(Hits(q, r, A)) = Hit(q, r, A, 1) + Hit(q, r, A, 2)
  BY HitsCount
<1>3. Hit(p, r, A, 2) = Hit(q, r, A, 2) /\ Hit(q, r, A, 2) \in {0, 1}
  BY DEF Hit
<1>4. Hit(p, r, A, 1) = Hit(q, r, A, 1) - IF r = x /\ q[1].extend \in A THEN 1 ELSE 0
  BY DEF Hit
<1>5. Hit(q, r, A, 1) \in {0, 1}
  BY DEF Hit
<1> QED
  BY <1>1, <1>2, <1>3, <1>4, <1>5

LEMMA TailHits ==
    ASSUME NEW q \in Seq(Batch), Len(q) >= 1, Len(q) <= 2, q[1].reqs = {}, NEW r, NEW A
    PROVE  Cardinality(Hits(Tail(q), r, A)) = Cardinality(Hits(q, r, A))
<1> DEFINE p == Tail(q)
<1>1. Len(q) \in Nat /\ Len(p) = Len(q) - 1 /\ (Len(q) = 2 => p[1] = q[2])
  BY LenProperties
<1> HIDE DEF p
<1>2. Cardinality(Hits(p, r, A)) = Hit(p, r, A, 1) + Hit(p, r, A, 2)
  BY <1>1, HitsCount
<1>3. Cardinality(Hits(q, r, A)) = Hit(q, r, A, 1) + Hit(q, r, A, 2)
  BY <1>1, HitsCount
<1>4. Hit(p, r, A, 2) = 0 /\ Hit(q, r, A, 1) = 0
  BY <1>1 DEF Hit
<1>5. Hit(p, r, A, 1) = Hit(q, r, A, 2) /\ Hit(p, r, A, 1) \in {0, 1}
  BY <1>1 DEF Hit
<1> QED
  BY <1>2, <1>3, <1>4, <1>5 DEF p

-----------------------------------------------------------------------------
(* A request that a step does not touch. *)

SameLens(p, q) ==
    /\ p.finished = q.finished /\ p.is_retracted = q.is_retracted /\ p.inflight = q.inflight
    /\ p.out = q.out /\ p.pre = q.pre /\ p.end = q.end /\ p.com = q.com /\ p.alo = q.alo
    /\ p.row = q.row /\ p.last_node = q.last_node

SameHits(r) ==
    \A A \in {{TRUE}, {FALSE}, BOOLEAN} :
        Cardinality(Hits(result_queue', r, A)) = Cardinality(Hits(result_queue, r, A))

(* It stays where it is: in no batch it was not in, and in the new batch   *)
(* or the one being chunked if it was.                                     *)
SamePlace(r) ==
    /\ r \in fresh' \cup waiting_queue' \cup adder'.preempt_list =>
           r \in fresh \cup waiting_queue \cup adder.preempt_list
    /\ r \in running_batch' \cup last_batch'.reqs => r \in running_batch \cup last_batch.reqs
    /\ r \in adder'.can_run_list <=> r \in adder.can_run_list
    /\ r = chunked_req' <=> r = chunked_req
    /\ r \in adder.can_run_list =>
           (r = adder'.new_chunked_req <=> r = adder.new_chunked_req) /\ result_queue' = result_queue
    /\ r = chunked_req => (Collecting => Collecting') /\ (pc' = "admit" => pc = "admit")

LEMMA Untouched ==
    ASSUME NEW r \in Request, Good(r), SameLens(m'.req[r], m.req[r]), SamePlace(r),
           setup' = setup, m.req[r].row # <<>> => SameHits(r)
    PROVE  Good(r)'
<1>1. TotalLen(m, r)' = TotalLen(m, r)
  BY DEF TotalLen, SameLens
<1>2. Unlaunched(r)'
  <2> DEFINE W == r \in fresh \cup waiting_queue \cup adder.preempt_list
  <2>1. W' => W
    BY DEF SamePlace
  <2>2. W \/ m.req[r].finished \/ m.req[r].is_retracted => m.req[r].row = <<>>
    BY DEF Good, Unlaunched
  <2>3. /\ m'.req[r].finished => m.req[r].finished
        /\ m'.req[r].is_retracted => m.req[r].is_retracted
        /\ m'.req[r].row = m.req[r].row
    BY DEF SameLens
  <2> QED
    BY <2>1, <2>2, <2>3 DEF Unlaunched
<1>3. Launched(r)'
  BY DEF Good, Launched, SameLens, SamePlace
<1>4. Covered(r)'
  BY DEF Good, Covered, SameLens, SameHits
<1>5. Committed(r)'
  BY <1>1 DEF Good, Committed, SameLens, SamePlace, SameHits
<1>6. Chunked(r)'
  BY <1>1 DEF Good, Chunked, SameLens, SamePlace
<1>7. Admitted(r)'
  BY <1>1 DEF Good, Admitted, SameLens, SamePlace
<1> QED
  BY <1>2, <1>3, <1>4, <1>5, <1>6, <1>7 DEF Good

Still ==
    /\ setup' = setup /\ pc # "crashed"
    /\ GoodTree(m'.tree)
    /\ \A r \in Request :
           /\ SameLens(m'.req[r], m.req[r]) /\ SamePlace(r)
           /\ m.req[r].row # <<>> => SameHits(r)

LEMMA StillKeeps ==
    ASSUME LengthInv, Still, AdderTypes', FiniteBatches'
    PROVE  LengthInv'
<1>1. \A r \in Request : Good(r)'
  BY Untouched DEF LengthInv, Still
<1>2. \A r \in Request : Lengths(m.req[r])'
  BY DEF LengthInv, LengthTypes, Lengths, Still, SameLens
<1> QED
  BY <1>1, <1>2 DEF LengthInv, LengthTypes, Still

LEMMA SameQueue ==
    ASSUME result_queue' = result_queue, NEW r
    PROVE  SameHits(r)
BY DEF SameHits

LEMMA LensEqual ==
    \A q : SameLens(q, q)
BY DEF SameLens

LEMMA QueueFinite ==
    ASSUME NEW queue, NEW S, IsFiniteSet(queue), IsFiniteSet(S), AddRequestsToQueue(queue, S)
    PROVE  IsFiniteSet(waiting_queue') /\ waiting_queue' \subseteq queue \cup S
<1>1. waiting_queue' \subseteq queue \cup S
  BY DEF AddRequestsToQueue
<1> QED
  BY ZenonT(60), <1>1, FS_Union, FS_Subset

LEMMA NoAdderTypes ==
    ASSUME adder = NoAdder
    PROVE  AdderTypes
BY FS_EmptySet DEF AdderTypes, NoAdder

-----------------------------------------------------------------------------
(* Steps that touch no request's memory. *)

LEMMA HandleGenerateLens ==
    ASSUME LengthInv, NEW r \in Request, HandleGenerate(r)
    PROVE  LengthInv'
<1>0. FiniteBatches /\ AdderTypes /\ GoodTree(m.tree)
  BY DEF LengthInv, LengthTypes
<1>1. IsFiniteSet(waiting_queue') /\ waiting_queue' \subseteq waiting_queue \cup {r}
  BY ZenonT(60), <1>0, QueueFinite, FS_Singleton DEF HandleGenerate, FiniteBatches
<1>2. Still
  BY <1>0, <1>1, SameQueue, LensEqual DEF HandleGenerate, Still, SamePlace, Collecting
<1>3. AdderTypes' /\ FiniteBatches'
  BY <1>0, <1>1 DEF HandleGenerate, AdderTypes, FiniteBatches
<1> QED
  BY <1>2, <1>3, StillKeeps

LEMMA AbortRequestLens ==
    ASSUME ControlInv, LengthInv, NEW r \in Request, AbortRequest(r)
    PROVE  LengthInv'
<1>0. FiniteBatches /\ AdderTypes /\ GoodTree(m.tree) /\ Shape(m)
  BY DEF LengthInv, LengthTypes, ControlInv, ControlTypes
<1>1. IsFiniteSet(waiting_queue') /\ waiting_queue' \subseteq waiting_queue
  <2>1. waiting_queue' \subseteq waiting_queue
    BY DEF AbortRequest
  <2> QED
    BY <2>1, <1>0, FS_Subset DEF FiniteBatches
<1>2. m'.tree = m.tree /\ \A x \in Request : SameLens(m'.req[x], m.req[x])
  BY <1>0 DEF AbortRequest, Shape, ReqFields, SameLens
<1>3. Still
  BY <1>0, <1>1, <1>2, SameQueue DEF AbortRequest, Still, SamePlace, Collecting
<1>4. AdderTypes' /\ FiniteBatches'
  BY <1>0, <1>1 DEF AbortRequest, AdderTypes, FiniteBatches
<1> QED
  BY <1>3, <1>4, StillKeeps

LEMMA FlushCacheLens ==
    ASSUME ControlInv, LengthInv, FlushCache
    PROVE  LengthInv'
<1>0. FiniteBatches /\ AdderTypes /\ Shape(m)
  BY DEF LengthInv, LengthTypes, ControlInv, ControlTypes
<1>1. m'.tree = EmptyTree /\ m'.req = m.req
  BY <1>0 DEF FlushCache, Shape
<1>2. Still
  BY <1>1, SameQueue, LensEqual, EmptyGood DEF FlushCache, Still, SamePlace, Collecting, batches
<1>3. AdderTypes' /\ FiniteBatches'
  BY ZenonT(60), <1>0 DEF FlushCache, AdderTypes, FiniteBatches, batches
<1> QED
  BY <1>2, <1>3, StillKeeps

LEMMA SkipPrefillLens ==
    ASSUME LengthInv, SkipPrefill
    PROVE  LengthInv'
<1>0. FiniteBatches /\ AdderTypes /\ GoodTree(m.tree)
  BY DEF LengthInv, LengthTypes
<1>1. chunked_req \notin Request
  BY SchedulerAssumption DEF SkipPrefill
<1>2. Still
  BY <1>0, <1>1, SameQueue, LensEqual DEF SkipPrefill, Still, SamePlace
<1>3. AdderTypes' /\ FiniteBatches'
  BY <1>0 DEF SkipPrefill, AdderTypes, FiniteBatches
<1> QED
  BY <1>2, <1>3, StillKeeps

LEMMA PreemptToScheduleLens ==
    ASSUME ControlInv, LengthInv, NEW r \in Request, PreemptToSchedule(r)
    PROVE  LengthInv'
<1>0. FiniteBatches /\ AdderTypes /\ GoodTree(m.tree) /\ DOMAIN adder = AdderFields
  BY DEF LengthInv, LengthTypes, ControlInv, ControlTypes
<1>1. /\ adder'.can_run_list = adder.can_run_list /\ adder'.preempt_list = adder.preempt_list
      /\ adder'.new_chunked_req = adder.new_chunked_req /\ adder'.chunk = adder.chunk
      /\ adder'.total = adder.total /\ adder'.ratio = adder.ratio
  BY <1>0 DEF PreemptToSchedule, AdderFields
<1>2. Still
  BY <1>0, <1>1, SameQueue, LensEqual DEF PreemptToSchedule, Still, SamePlace, Collecting
<1>3. AdderTypes' /\ FiniteBatches'
  BY <1>0, <1>1 DEF PreemptToSchedule, AdderTypes, FiniteBatches
<1> QED
  BY <1>2, <1>3, StillKeeps

LEMMA StopAddingLens ==
    ASSUME LengthInv, StopAdding
    PROVE  LengthInv'
<1>0. FiniteBatches /\ AdderTypes /\ GoodTree(m.tree)
  BY DEF LengthInv, LengthTypes
<1>1. Still
  BY <1>0, SameQueue, LensEqual DEF StopAdding, Still, SamePlace, Collecting
<1>2. AdderTypes' /\ FiniteBatches'
  BY <1>0 DEF StopAdding, AdderTypes, FiniteBatches
<1> QED
  BY <1>1, <1>2, StillKeeps

LEMMA NoPrefillLens ==
    ASSUME ControlInv, LengthInv, NoPrefill
    PROVE  LengthInv'
<1>0. FiniteBatches /\ AdderTypes /\ GoodTree(m.tree)
  BY DEF LengthInv, LengthTypes
<1>1. chunked_req \notin Request
  BY SchedulerAssumption DEF NoPrefill, ControlInv, PhaseInv, Collecting
<1>2. adder.can_run_list = {} /\ adder'.can_run_list = {} /\ adder'.preempt_list = {}
  BY DEF NoPrefill, NoAdder
<1>3. Still
  BY <1>0, <1>1, <1>2, SameQueue, LensEqual DEF NoPrefill, Still, SamePlace, batches
<1>4. AdderTypes' /\ FiniteBatches'
  BY <1>0, FS_EmptySet DEF NoPrefill, AdderTypes, NoAdder, FiniteBatches, batches
<1> QED
  BY <1>3, <1>4, StillKeeps

LEMMA NoDecodeLens ==
    ASSUME LengthInv, NoDecode
    PROVE  LengthInv'
<1>0. FiniteBatches /\ AdderTypes /\ GoodTree(m.tree)
  BY DEF LengthInv, LengthTypes
<1>1. Still
  BY <1>0, SameQueue, LensEqual DEF NoDecode, Still, SamePlace, Collecting
<1>2. AdderTypes' /\ FiniteBatches'
  BY <1>0, FS_EmptySet DEF NoDecode, AdderTypes, FiniteBatches
<1> QED
  BY <1>1, <1>2, StillKeeps

LEMMA CheckDecodeMemLens ==
    ASSUME ControlInv, LengthInv, NEW E, CheckDecodeMem(E)
    PROVE  LengthInv'
<1>0. FiniteBatches /\ AdderTypes /\ GoodTree(m.tree) /\ Shape(m)
  BY DEF LengthInv, LengthTypes, ControlInv, ControlTypes
<1>1. GoodTree(m'.tree) /\ m'.req = m.req
  BY <1>0, EvictLens, EvictKeeps DEF CheckDecodeMem
<1>2. Alive \subseteq running_batch /\ IsFiniteSet(Alive)
  <2>1. Alive \subseteq running_batch
    BY DEF Alive
  <2> QED
    BY <2>1, <1>0, FS_Subset DEF FiniteBatches
<1>3. Still
  <2> HIDE DEF Alive
  <2> QED
    BY <1>1, <1>2, SameQueue, LensEqual DEF CheckDecodeMem, Still, SamePlace, Collecting
<1>4. AdderTypes' /\ FiniteBatches'
  BY <1>0, <1>2 DEF CheckDecodeMem, AdderTypes, FiniteBatches
<1> QED
  BY <1>3, <1>4, StillKeeps

LEMMA PauseGenerationLens ==
    ASSUME LengthInv, NEW mode, PauseGeneration(mode)
    PROVE  LengthInv'
<1>0. FiniteBatches /\ AdderTypes /\ GoodTree(m.tree)
  BY DEF LengthInv, LengthTypes
<1>1. pc = "idle" /\ pc' \in {"idle", "pause", "result"}
  BY DEF PauseGeneration
<1>2. Still
  BY <1>0, <1>1, SameQueue, LensEqual DEF PauseGeneration, Still, SamePlace, Collecting, batches
<1>3. AdderTypes' /\ FiniteBatches'
  BY <1>0 DEF PauseGeneration, AdderTypes, FiniteBatches, batches
<1> QED
  BY <1>2, <1>3, StillKeeps

LEMMA ContinueGenerationLens ==
    ASSUME LengthInv, ContinueGeneration
    PROVE  LengthInv'
<1>0. FiniteBatches /\ AdderTypes /\ GoodTree(m.tree)
  BY DEF LengthInv, LengthTypes
<1>1. Still
  BY <1>0, SameQueue, LensEqual DEF ContinueGeneration, Still, SamePlace, Collecting, batches
<1>2. AdderTypes' /\ FiniteBatches'
  BY <1>0 DEF ContinueGeneration, AdderTypes, FiniteBatches, batches
<1> QED
  BY <1>1, <1>2, StillKeeps

LEMMA EndPauseLens ==
    ASSUME ControlInv, LengthInv, EndPause
    PROVE  LengthInv'
<1>0. FiniteBatches /\ AdderTypes /\ GoodTree(m.tree)
  BY DEF LengthInv, LengthTypes
<1>1. chunked_req = NoReq
  <2>1. chunked_req \in Request \cup {NoReq}
    BY DEF ControlInv, ControlTypes
  <2>2. ASSUME chunked_req \in Request PROVE FALSE
    <3>1. ~m.req[chunked_req].finished
      BY <2>2 DEF ControlInv, PlaceInv, InChunks, EndPause
    <3>2. chunked_req \in ToRetract
      BY <2>2, <3>1, SchedulerAssumption DEF ToRetract
    <3> QED
      BY <3>2 DEF EndPause
  <2> QED
    BY <2>1, <2>2
<1>2. last_batch'.reqs = {}
  BY DEF EndPause, NoBatch
<1>3. Still
  BY <1>0, <1>1, <1>2, SameQueue, LensEqual, SchedulerAssumption
     DEF EndPause, Still, SamePlace, Collecting
<1>4. AdderTypes' /\ FiniteBatches'
  BY <1>0, <1>2, FS_EmptySet DEF EndPause, AdderTypes, FiniteBatches
<1> QED
  BY <1>3, <1>4, StillKeeps

LEMMA InitLens == Init => LengthInv
<1> SUFFICES ASSUME Init PROVE LengthInv
  OBVIOUS
<1>1. \A r \in Request : m.req[r] = NewReq
  BY DEF Init
<1>2. GoodTree(m.tree)
  BY EmptyGood DEF Init
<1>3. Lengths(NewReq)
  BY RowFacts DEF Lengths, NewReq
<1>4. AdderTypes
  BY NoAdderTypes DEF Init
<1>5. FiniteBatches
  BY FS_EmptySet DEF Init, FiniteBatches, NoBatch
<1>6. ASSUME NEW r \in Request PROVE Good(r)
  <2>1. m.req[r].row = <<>>
    BY <1>1 DEF NewReq
  <2>2. /\ r \notin running_batch \cup last_batch.reqs /\ r # chunked_req
        /\ r \notin adder.can_run_list
    BY SchedulerAssumption DEF Init, NoBatch, NoAdder
  <2> QED
    BY <2>1, <2>2 DEF Good, Unlaunched, Launched, Covered, Committed, Chunked, Admitted
<1> QED
  BY <1>1, <1>2, <1>3, <1>4, <1>5, <1>6 DEF LengthInv, LengthTypes

-----------------------------------------------------------------------------
(* Steps that release the memory of one request, or apply one result. *)

LEMMA TouchOne ==
    ASSUME LengthInv, NEW r \in Request, pc # "crashed", setup' = setup,
           GoodTree(m'.tree), Lengths(m'.req[r]), Good(r)',
           \A x \in Request \ {r} :
               /\ SameLens(m'.req[x], m.req[x]) /\ SamePlace(x)
               /\ m.req[x].row # <<>> => SameHits(x),
           AdderTypes', FiniteBatches'
    PROVE  LengthInv'
<1>1. \A x \in Request \ {r} : Good(x)'
  BY Untouched DEF LengthInv
<1>2. \A x \in Request : Lengths(m.req[x])'
  BY ZenonT(60) DEF LengthInv, LengthTypes, Lengths, SameLens
<1> QED
  BY <1>1, <1>2 DEF LengthInv, LengthTypes

LEMMA Released ==
    ASSUME NEW r \in Request, m'.req[r].row = <<>>, r \notin adder'.can_run_list, r # chunked_req',
           r \notin running_batch' \cup last_batch'.reqs \/ m'.req[r].finished
    PROVE  Good(r)'
BY DEF Good, Unlaunched, Launched, Covered, Committed, Chunked, Admitted

LEMMA MaxNewNat ==
    ASSUME NEW r \in Request
    PROVE  MaxNew(r) \in Nat
<1> DEFINE a == ReqNew[r]
           b == MaxReqLen - InputLen[r] - 1
           c == PoolTokens - PageSize * CeilPages(InputLen[r]) - PageSize - 1
<1>1. a \in Int /\ b \in Int /\ c \in Int
  <2>1. InputLen[r] \in Nat /\ PageSize \in Nat /\ NumPages \in Nat
    BY ReqKVAssumption
  <2>2. PageSize * CeilPages(InputLen[r]) \in Int
    BY <2>1, CeilFacts
  <2>3. PoolTokens \in Int /\ MaxReqLen \in Int
    BY <2>1 DEF PoolTokens, MaxReqLen
  <2> QED
    BY <2>1, <2>2, <2>3, SchedulerAssumption
<1> HIDE DEF a, b, c
<1>2. Min({a, b, c}) \in Int
  <2>1. \E x \in {a, b, c} : \A y \in {a, b, c} : x <= y
    BY <1>1
  <2> QED
    BY <1>1, <2>1 DEF Min
<1> DEFINE k == Min({a, b, c})
<1>3. k \in Int
  BY <1>2
<1> HIDE DEF k
<1>4. Max({0, k}) \in Nat
  <2>1. 0 \in Int
    OBVIOUS
  <2>2. Max({0, k}) = IF 0 <= k THEN k ELSE 0
    BY <1>3, <2>1, MinMax
  <2> DEFINE x == Max({0, k})
  <2>3. x = IF 0 <= k THEN k ELSE 0
    BY <2>2
  <2> HIDE DEF x
  <2>4. x \in Nat
    BY <1>3, <2>3
  <2> QED
    BY <2>4 DEF x
<1> QED
  BY <1>4 DEF MaxNew, a, b, c, k

LEMMA OffsetInt ==
    ASSUME NEW r \in Request, NEW mem, mem.req[r].out \in Nat, NEW ratio \in Int
    PROVE  RunningOffset(mem, ratio, r) \in Int
BY MaxNewNat DEF RunningOffset

LEMMA RetractedLens ==
    ASSUME ControlInv, LengthInv, NEW r \in Request
    PROVE  LET new == Retracted(r)
           IN  /\ Shape(new) /\ GoodTree(new.tree)
               /\ new.req[r].row = <<>> /\ Lengths(new.req[r])
               /\ \A x \in Request \ {r} : new.req[x] = m.req[x]
<1>1. Shape(m) /\ GoodTree(m.tree) /\ Lengths(m.req[r])
  BY DEF ControlInv, ControlTypes, LengthInv, LengthTypes
<1> DEFINE k == ReleaseKV(m, r, FALSE)
<1>2. Shape(k)
  BY ZenonT(60), <1>1, ReleaseKVKeeps DEF FlagsKept
<1>3. /\ GoodTree(k.tree) /\ \A x \in Request \ {r} : k.req[x] = m.req[x]
      /\ k.req[r].row = <<>> /\ k.req[r].out = m.req[r].out
      /\ k.req[r].com = 0 /\ k.req[r].alo = 0 /\ k.req[r].pre = 0 /\ k.req[r].end = 0
  <2>1. IsReleased(k, m, r)
    BY ZenonT(60), <1>1, ReleaseKVLens
  <2> HIDE DEF k
  <2> QED
    BY <2>1 DEF IsReleased
<1>4. Retracted(r) = [k EXCEPT !.req[r].is_retracted = TRUE, !.req[r].inflight = 0]
  BY DEF Retracted
<1> HIDE DEF k
<1> DEFINE c == [k EXCEPT !.req[r].is_retracted = TRUE, !.req[r].inflight = 0]
<1>5. /\ Shape(c) /\ c.tree = k.tree /\ \A x \in Request \ {r} : c.req[x] = m.req[x]
      /\ c.req[r].row = <<>> /\ c.req[r].out = m.req[r].out
      /\ c.req[r].com = 0 /\ c.req[r].alo = 0 /\ c.req[r].pre = 0 /\ c.req[r].end = 0
  BY <1>2, <1>3 DEF Shape, ReqFields
<1> HIDE DEF c
<1>6. Lengths(c.req[r])
  BY <1>1, <1>5, RowFacts DEF Lengths
<1> QED
  BY ZenonT(60), <1>3, <1>4, <1>5, <1>6 DEF c

LEMMA ReleaseReqLens ==
    ASSUME ControlInv, LengthInv, NEW r \in Request, NEW num, NEW E, ReleaseReq(r, num, E)
    PROVE  /\ GoodTree(m'.tree) /\ m'.req[r].row = <<>> /\ Lengths(m'.req[r])
           /\ \A x \in Request \ {r} : SameLens(m'.req[x], m.req[x])
<1> DEFINE k == Retracted(r)
<1>1. /\ Shape(k) /\ GoodTree(k.tree) /\ k.req[r].row = <<>> /\ Lengths(k.req[r])
      /\ \A x \in Request \ {r} : k.req[x] = m.req[x]
  BY RetractedLens
<1>2. m' = Evict(k, E)
  BY DEF ReleaseReq
<1> HIDE DEF k
<1>3. m'.req = k.req /\ GoodTree(m'.tree)
  BY <1>1, <1>2, EvictKeeps, EvictLens
<1> QED
  BY <1>1, <1>3, LensEqual

LEMMA ReleaseVictimLens ==
    ASSUME ControlInv, LengthInv, NEW v \in Request, NEW E, ReleaseVictim(v, E)
    PROVE  LengthInv'
<1>0. /\ FiniteBatches /\ AdderTypes /\ DOMAIN adder = AdderFields
      /\ Lengths(m.req[v]) /\ last_batch = NoBatch
  BY DEF LengthInv, LengthTypes, ControlInv, ControlTypes, PhaseInv, ReleaseVictim
<1>1. /\ GoodTree(m'.tree) /\ m'.req[v].row = <<>> /\ Lengths(m'.req[v])
      /\ \A x \in Request \ {v} : SameLens(m'.req[x], m.req[x])
  BY ReleaseReqLens DEF ReleaseVictim
<1>2. v \in running_batch /\ v \notin adder.can_run_list /\ v # chunked_req
  BY DEF ControlInv, PhaseInv, PlaceInv, InAdder, InChunks, ReleaseVictim
<1>3. /\ adder'.can_run_list = adder.can_run_list
      /\ adder'.preempt_list = adder.preempt_list \cup {v}
      /\ adder'.new_chunked_req = adder.new_chunked_req /\ adder'.chunk = adder.chunk
      /\ adder'.total = adder.total - RunningOffset(m, adder.ratio, v)
      /\ adder'.ratio = adder.ratio
  BY <1>0 DEF ReleaseVictim, AdderFields
<1>4. RunningOffset(m, adder.ratio, v) \in Int
  BY <1>0, OffsetInt DEF Lengths, AdderTypes
<1>5. AdderTypes' /\ FiniteBatches'
  <2>1. AdderTypes'
    BY <1>0, <1>3, <1>4, FS_AddElement DEF AdderTypes
  <2>2. FiniteBatches'
    BY <1>0, FS_RemoveElement DEF FiniteBatches, ReleaseVictim
  <2> QED
    BY <2>1, <2>2
<1>6. Good(v)'
  BY <1>0, <1>1, <1>2, <1>3, Released DEF ReleaseVictim, NoBatch
<1>7. ASSUME NEW x \in Request \ {v} PROVE SamePlace(x) /\ SameHits(x)
  BY <1>3, SameQueue DEF ReleaseVictim, SamePlace, Collecting
<1> QED
  BY <1>1, <1>5, <1>6, <1>7, TouchOne DEF ReleaseVictim

LEMMA RetractDecodeLens ==
    ASSUME ControlInv, LengthInv, NEW r \in Request, NEW E, RetractDecode(r, E)
    PROVE  LengthInv'
<1>0. FiniteBatches /\ AdderTypes /\ last_batch = NoBatch /\ adder = NoAdder
  BY DEF LengthInv, LengthTypes, ControlInv, PhaseInv, Collecting, RetractDecode
<1>1. /\ GoodTree(m'.tree) /\ m'.req[r].row = <<>> /\ Lengths(m'.req[r])
      /\ \A x \in Request \ {r} : SameLens(m'.req[x], m.req[x])
  BY ReleaseReqLens DEF RetractDecode
<1>2. r # chunked_req
  BY DEF ControlInv, PlaceInv, InChunks, RetractDecode
<1>3. IsFiniteSet(waiting_queue') /\ waiting_queue' \subseteq waiting_queue \cup {r}
  BY ZenonT(60), <1>0, QueueFinite, FS_Singleton DEF RetractDecode, FiniteBatches
<1>4. AdderTypes' /\ FiniteBatches'
  BY <1>0, <1>3, FS_RemoveElement DEF AdderTypes, FiniteBatches, RetractDecode
<1>5. Good(r)'
  BY <1>0, <1>1, <1>2, Released DEF RetractDecode, NoBatch, NoAdder
<1>6. ASSUME NEW x \in Request \ {r} PROVE SamePlace(x) /\ SameHits(x)
  BY <1>3, SameQueue DEF RetractDecode, SamePlace, Collecting
<1> QED
  BY <1>1, <1>4, <1>5, <1>6, TouchOne DEF RetractDecode

LEMMA AbortLastLens ==
    ASSUME ControlInv, LengthInv, NEW r \in Request, AbortLast(r)
    PROVE  LengthInv'
<1>0. FiniteBatches /\ AdderTypes /\ last_batch = NoBatch /\ adder = NoAdder
  BY DEF LengthInv, LengthTypes, ControlInv, PhaseInv, Collecting, AbortLast
<1> DEFINE k == Retracted(r)
<1>1. /\ Shape(k) /\ GoodTree(k.tree) /\ k.req[r].row = <<>> /\ Lengths(k.req[r])
      /\ \A x \in Request \ {r} : k.req[x] = m.req[x]
  BY RetractedLens
<1>2. m' = [k EXCEPT !.req[r].to_finish = TRUE]
  BY DEF AbortLast
<1> HIDE DEF k
<1>3. /\ m'.tree = k.tree /\ m'.req[r].row = <<>> /\ Lengths(m'.req[r])
      /\ \A x \in Request \ {r} : SameLens(m'.req[x], m.req[x])
  <2>1. m'.tree = k.tree /\ \A x \in Request \ {r} : m'.req[x] = m.req[x]
    BY <1>1, <1>2 DEF Shape
  <2>2. m'.req[r].row = <<>> /\ Lengths(m'.req[r])
    BY <1>1, <1>2 DEF Shape, ReqFields, Lengths
  <2> QED
    BY <2>1, <2>2, LensEqual
<1>4. r # chunked_req
  BY DEF ControlInv, PlaceInv, InChunks, AbortLast
<1>5. AdderTypes' /\ FiniteBatches'
  BY <1>0, FS_EmptySet DEF AdderTypes, FiniteBatches, AbortLast
<1>6. Good(r)'
  BY <1>0, <1>3, <1>4, Released DEF AbortLast, NoBatch, NoAdder
<1>7. ASSUME NEW x \in Request \ {r} PROVE SamePlace(x) /\ SameHits(x)
  BY SameQueue DEF AbortLast, SamePlace, Collecting
<1> QED
  BY ZenonT(60), <1>1, <1>3, <1>5, <1>6, <1>7, TouchOne DEF AbortLast

LEMMA RetractAllLens ==
    ASSUME ControlInv, LengthInv, NEW r \in Request, NEW E, RetractAll(r, E)
    PROVE  LengthInv'
<1>0. /\ FiniteBatches /\ AdderTypes /\ adder = NoAdder
      /\ last_batch \in [reqs : SUBSET Request, chunked_req : Request \cup {NoReq}]
  BY DEF LengthInv, LengthTypes, ControlInv, ControlTypes, PhaseInv, Collecting, RetractAll
<1>1. /\ GoodTree(m'.tree) /\ m'.req[r].row = <<>> /\ Lengths(m'.req[r])
      /\ \A x \in Request \ {r} : SameLens(m'.req[x], m.req[x])
  BY ReleaseReqLens DEF RetractAll
<1>2. last_batch'.reqs = last_batch.reqs \ {r}
  BY <1>0 DEF RetractAll
<1>3. IsFiniteSet(waiting_queue') /\ waiting_queue' \subseteq waiting_queue \cup {r}
  BY ZenonT(60), <1>0, QueueFinite, FS_Singleton DEF RetractAll, FiniteBatches
<1>4. AdderTypes' /\ FiniteBatches'
  BY ZenonT(60), <1>0, <1>2, <1>3, FS_RemoveElement DEF AdderTypes, FiniteBatches, RetractAll
<1>5. Good(r)'
  <2>1. r # chunked_req'
    BY SchedulerAssumption DEF RetractAll
  <2> QED
    BY <1>0, <1>1, <1>2, <2>1, Released DEF RetractAll, NoAdder
<1>6. ASSUME NEW x \in Request \ {r} PROVE SamePlace(x) /\ SameHits(x)
  <2>1. x = chunked_req' <=> x = chunked_req
    BY SchedulerAssumption DEF RetractAll
  <2> QED
    BY <1>2, <1>3, <2>1, SameQueue DEF RetractAll, SamePlace, Collecting
<1> QED
  BY <1>1, <1>4, <1>5, <1>6, TouchOne DEF RetractAll


-----------------------------------------------------------------------------
(* Results. *)

LEMMA ResultPhase ==
    ASSUME ControlInv, LengthInv, pc = "result"
    PROVE  /\ adder.can_run_list = {} /\ FiniteBatches /\ AdderTypes /\ GoodTree(m.tree) /\ Shape(m)
           /\ result_queue \in Seq(Batch) /\ Len(result_queue) >= 1 /\ Len(result_queue) <= 2
           /\ result_queue[1] \in Batch
           /\ \A r \in Request : Good(r) /\ Lengths(m.req[r])
<1>1. adder = NoAdder
  BY DEF ControlInv, PhaseInv, Collecting
<1>2. result_queue \in Seq(Batch) /\ Len(result_queue) >= 1 /\ Len(result_queue) <= 2
  BY DEF ControlInv, ControlTypes, QueueInv, QueueLens
<1>3. result_queue[1] \in Batch
  BY <1>2
<1> QED
  BY <1>1, <1>2, <1>3 DEF NoAdder, LengthInv, LengthTypes, ControlInv, ControlTypes

(* What the settled result of r leaves to come. *)
LEMMA Settled ==
    ASSUME ControlInv, LengthInv, pc = "result", NEW r \in Request, r \in result_queue[1].reqs,
           Settle(r)
    PROVE  /\ \A x \in Request \ {r} : SameHits(x)
           /\ \A A \in {{TRUE}, {FALSE}, BOOLEAN} :
                  /\ Cardinality(Hits(result_queue, r, A)) \in Nat
                  /\ Cardinality(Hits(result_queue', r, A)) =
                        Cardinality(Hits(result_queue, r, A))
                            - IF result_queue[1].extend \in A THEN 1 ELSE 0
<1>1. result_queue \in Seq(Batch) /\ Len(result_queue) >= 1 /\ Len(result_queue) <= 2
  BY ResultPhase
<1>2. /\ Len(result_queue) \in Nat /\ Len(result_queue') = Len(result_queue)
      /\ result_queue'[1].extend = result_queue[1].extend
      /\ result_queue'[1].reqs = result_queue[1].reqs \ {r}
      /\ Len(result_queue) = 2 => result_queue'[2] = result_queue[2]
  BY <1>1, LenProperties DEF Settle, Batch
<1>3. ASSUME NEW x, NEW A
      PROVE  /\ Cardinality(Hits(result_queue, x, A)) \in Nat
             /\ Cardinality(Hits(result_queue', x, A)) =
                    Cardinality(Hits(result_queue, x, A))
                        - IF x = r /\ result_queue[1].extend \in A THEN 1 ELSE 0
  <2>1. Cardinality(Hits(result_queue, x, A)) \in Nat
    BY <1>1, HitsNat
  <2>2. Cardinality(Hits(result_queue', x, A)) =
            Cardinality(Hits(result_queue, x, A))
                - IF x = r /\ result_queue[1].extend \in A THEN 1 ELSE 0
    BY <1>1, <1>2, SettleHits
  <2> QED
    BY <2>1, <2>2
<1>4. ASSUME NEW x \in Request \ {r} PROVE SameHits(x)
  BY <1>3 DEF SameHits
<1> QED
  BY ZenonT(60), <1>3, <1>4

LEMMA DropResultLens ==
    ASSUME ControlInv, LengthInv, NEW r \in Request, DropResult(r)
    PROVE  LengthInv'
<1>0. /\ adder.can_run_list = {} /\ FiniteBatches /\ AdderTypes /\ GoodTree(m.tree)
      /\ Good(r)
  BY ResultPhase DEF DropResult
<1>1. \A x \in Request \ {r} : SameHits(x)
  BY ZenonT(60), Settled DEF DropResult
<1>2. m.req[r].row = <<>>
  BY <1>0 DEF DropResult, Dropped, Good, Unlaunched
<1>3. Still
  BY <1>0, <1>1, <1>2, LensEqual DEF DropResult, Still, SamePlace, Collecting, batches
<1>4. AdderTypes' /\ FiniteBatches'
  BY <1>0 DEF DropResult, AdderTypes, FiniteBatches, batches
<1> QED
  BY <1>3, <1>4, StillKeeps

LEMMA EndResultLens ==
    ASSUME ControlInv, LengthInv, EndResult
    PROVE  LengthInv'
<1>0. /\ adder.can_run_list = {} /\ FiniteBatches /\ AdderTypes /\ GoodTree(m.tree)
      /\ result_queue \in Seq(Batch) /\ Len(result_queue) >= 1 /\ Len(result_queue) <= 2
  BY ResultPhase DEF EndResult
<1>1. \A x \in Request : SameHits(x)
  BY <1>0, TailHits DEF EndResult, SameHits
<1>2. pc = "result" /\ pc' \in {"pause", "idle"}
  BY DEF EndResult
<1>3. Still
  BY <1>0, <1>1, <1>2, LensEqual DEF EndResult, Still, SamePlace, Collecting, batches
<1>4. AdderTypes' /\ FiniteBatches'
  BY <1>0 DEF EndResult, AdderTypes, FiniteBatches, batches
<1> QED
  BY <1>3, <1>4, StillKeeps

LEMMA ChunkResultLens ==
    ASSUME ControlInv, LengthInv, NEW r \in Request, ChunkResult(r)
    PROVE  LengthInv'
<1>0. /\ adder.can_run_list = {} /\ FiniteBatches /\ AdderTypes /\ GoodTree(m.tree) /\ Shape(m)
      /\ Good(r) /\ Lengths(m.req[r]) /\ setup \in Setup /\ m.req[r].inflight \in Int
  BY ResultPhase DEF ChunkResult, ControlInv, ControlTypes
<1>1. /\ \A x \in Request \ {r} : SameHits(x)
      /\ \A A \in {{TRUE}, {FALSE}, BOOLEAN} :
            /\ Cardinality(Hits(result_queue, r, A)) \in Nat
            /\ Cardinality(Hits(result_queue', r, A)) =
                  Cardinality(Hits(result_queue, r, A)) - IF TRUE \in A THEN 1 ELSE 0
  BY Settled DEF ChunkResult
<1>2. /\ m'.tree = m.tree /\ \A x \in Request \ {r} : m'.req[x] = m.req[x]
      /\ m'.req[r] = [m.req[r] EXCEPT !.inflight = @ - 1]
  BY <1>0 DEF ChunkResult, Shape
<1> DEFINE p == m'.req[r]
           q == m.req[r]
<1>3. /\ p.inflight = q.inflight - 1 /\ p.finished = q.finished /\ p.is_retracted = q.is_retracted
      /\ p.out = q.out /\ p.pre = q.pre /\ p.end = q.end /\ p.com = q.com /\ p.alo = q.alo
      /\ p.row = q.row /\ p.last_node = q.last_node
  BY <1>0, <1>2 DEF Shape, ReqFields
<1>4. TotalLen(m, r)' = TotalLen(m, r) /\ TotalLen(m, r) \in Nat
  BY <1>0, <1>3, TotalNat DEF TotalLen, Lengths
<1>5. setup' = setup /\ pc = "result"
      /\ UNCHANGED <<batches, pending_chunked_abort, adder, pc, paused, answers>>
  BY DEF ChunkResult
<1> HIDE DEF p, q
<1>6. Unlaunched(r)' /\ Launched(r)'
  BY <1>0, <1>3, <1>5 DEF Good, Unlaunched, Launched, p, q, batches
<1>7. Covered(r)'
  <2>1. Cardinality(Hits(result_queue', r, {FALSE})) = Cardinality(Hits(result_queue, r, {FALSE}))
    <3>1. TRUE \notin {FALSE}
      OBVIOUS
    <3> QED
      BY <1>1, <3>1
  <2> QED
    BY <1>0, <1>3, <1>5, <2>1 DEF Good, Covered, p, q
<1>8. Committed(r)'
  <2> DEFINE A == IF setup.draft = 0 THEN BOOLEAN ELSE {TRUE}
             h == Cardinality(Hits(result_queue, r, A))
  <2>1. A \in {{TRUE}, {FALSE}, BOOLEAN} /\ TRUE \in A
    BY ZenonT(60)
  <2>2. h \in Nat /\ Cardinality(Hits(result_queue', r, A)) = h - 1
    BY <1>1, <2>1
  <2> HIDE DEF h
  <2>3. ~setup.preemption /\ r # chunked_req /\ q.row # <<>> => q.com = TotalLen(m, r) - 1 + h - q.inflight
    BY <1>0 DEF Good, Committed, h, q
  <2>4. TotalLen(m, r) - 1 + h - q.inflight = TotalLen(m, r) - 1 + (h - 1) - (q.inflight - 1)
    BY <1>0, <1>4, <2>2 DEF q
  <2> QED
    BY <1>3, <1>4, <1>5, <2>2, <2>3, <2>4 DEF Committed, p, batches
<1>9. Chunked(r)' /\ Admitted(r)'
  BY <1>0, <1>3, <1>4, <1>5 DEF Good, Chunked, Admitted, Collecting, p, q, batches
<1>10. Lengths(m'.req[r])
  BY <1>0, <1>3 DEF Lengths, p, q
<1>11. \A x \in Request \ {r} : SameLens(m'.req[x], m.req[x]) /\ SamePlace(x)
  BY <1>0, <1>2, <1>5, LensEqual DEF SamePlace, Collecting, batches
<1>12. AdderTypes' /\ FiniteBatches'
  BY <1>0, <1>5 DEF AdderTypes, FiniteBatches, batches
<1>13. Good(r)'
  BY <1>6, <1>7, <1>8, <1>9 DEF Good
<1> QED
  BY ZenonT(60), <1>0, <1>1, <1>2, <1>5, <1>10, <1>11, <1>12, <1>13, TouchOne

(* The result adds k tokens to the text of r and commits c of them, or it  *)
(* was the last one and the memory of r was released.                      *)
LEMMA ResultApplied ==
    ASSUME ControlInv, LengthInv, NEW r \in Request, pc = "result", r \in result_queue[1].reqs,
           Settle(r), r # chunked_req, ~m.req[r].is_retracted, ~m.req[r].finished,
           UNCHANGED <<setup, fresh, waiting_queue, running_batch, last_batch, chunked_req,
                       adder, pc>>,
           GoodTree(m'.tree), Lengths(m'.req[r]),
           \A x \in Request \ {r} : SameLens(m'.req[x], m.req[x]),
           NEW k \in Nat, NEW c \in Nat,
           result_queue[1].extend \/ setup.draft = 0 => k = 1 /\ c = 0,
           ~result_queue[1].extend /\ setup.draft # 0 => c = k /\ k <= setup.draft,
           \/ m'.req[r].row = <<>> /\ m'.req[r].finished
           \/ /\ ~m'.req[r].finished /\ ~m'.req[r].is_retracted
              /\ m'.req[r].inflight = m.req[r].inflight
              /\ Len(m'.req[r].row) = Len(m.req[r].row) /\ m'.req[r].alo = m.req[r].alo
              /\ m'.req[r].out = m.req[r].out + k /\ m'.req[r].com = m.req[r].com + c
    PROVE  LengthInv'
<1>0. /\ adder.can_run_list = {} /\ FiniteBatches /\ AdderTypes
      /\ Good(r) /\ Lengths(m.req[r]) /\ setup.draft \in Nat /\ m.req[r].inflight \in Int
      /\ result_queue[1].extend \in BOOLEAN
  <2>1. setup.draft \in Nat /\ m.req[r].inflight \in Int
    BY DEF ControlInv, ControlTypes, Setup
  <2> QED
    BY <2>1, ResultPhase DEF Batch
<1>1. /\ \A x \in Request \ {r} : SameHits(x)
      /\ \A A \in {{TRUE}, {FALSE}, BOOLEAN} :
            /\ Cardinality(Hits(result_queue, r, A)) \in Nat
            /\ Cardinality(Hits(result_queue', r, A)) =
                  Cardinality(Hits(result_queue, r, A)) - IF result_queue[1].extend \in A THEN 1 ELSE 0
  BY ZenonT(60), Settled
<1>2. AdderTypes' /\ FiniteBatches'
  BY <1>0 DEF AdderTypes, FiniteBatches
<1>3. \A x \in Request \ {r} : SamePlace(x)
  BY <1>0 DEF SamePlace, Collecting
<1>4. CASE m'.req[r].row = <<>> /\ m'.req[r].finished
  <2>1. Good(r)'
    BY <1>0, <1>4, Released
  <2> QED
    BY <1>1, <1>2, <1>3, <2>1, TouchOne
<1>5. CASE ~(m'.req[r].row = <<>> /\ m'.req[r].finished)
  <2> DEFINE p == m'.req[r]
             q == m.req[r]
  <2>1. /\ ~p.finished /\ ~p.is_retracted /\ p.inflight = q.inflight
        /\ Len(p.row) = Len(q.row) /\ p.alo = q.alo
        /\ p.out = q.out + k /\ p.com = q.com + c
        /\ p.row = <<>> <=> q.row = <<>>
    BY ZenonT(60), <1>0, <1>5, RowFacts DEF Lengths
  <2>2. /\ TotalLen(m, r)' = TotalLen(m, r) + k /\ TotalLen(m, r) \in Nat
        /\ q.com \in Nat /\ q.alo \in Nat
    <3>1. TotalLen(m, r) \in Nat /\ q.com \in Nat /\ q.alo \in Nat
      BY <1>0, TotalNat DEF Lengths
    <3>2. InputLen[r] \in Nat /\ q.out \in Nat
      BY <1>0, ReqKVAssumption DEF Lengths
    <3>3. TotalLen(m, r)' = TotalLen(m, r) + k
      BY <2>1, <3>2 DEF TotalLen
    <3> QED
      BY <3>1, <3>3
  <2> HIDE DEF p, q
  <2>3. Unlaunched(r)' /\ Launched(r)'
    BY <1>0, <2>1 DEF Good, Unlaunched, Launched, p, q
  <2>4. Covered(r)'
    <3> DEFINE h == Cardinality(Hits(result_queue, r, {FALSE}))
               d == setup.draft
    <3>1. /\ h \in Nat /\ d \in Nat
          /\ Cardinality(Hits(result_queue', r, {FALSE}))
                = h - IF result_queue[1].extend \in {FALSE} THEN 1 ELSE 0
      BY ZenonT(60), <1>0, <1>1
    <3> DEFINE g == Cardinality(Hits(result_queue', r, {FALSE}))
    <3>2. g = IF result_queue[1].extend THEN h ELSE h - 1
      <4>1. CASE result_queue[1].extend
        <5>1. result_queue[1].extend \notin {FALSE}
          BY <4>1
        <5>2. g = h - 0
          BY <3>1, <5>1
        <5> HIDE DEF g, h
        <5> QED
          BY <3>1, <4>1, <5>2
      <4>2. CASE ~result_queue[1].extend
        <5>1. result_queue[1].extend \in {FALSE}
          BY ZenonT(60), <1>0, <4>2
        <5> QED
          BY <3>1, <4>2, <5>1
      <4> QED
        BY <4>1, <4>2
    <3>3. q.row # <<>> => Len(q.row) = CeilPages(q.alo)
      BY <1>0 DEF Good, Covered, q
    <3>7. q.row # <<>> /\ d = 0 => q.com = q.alo
      BY <1>0 DEF Good, Covered, q
    <3>4. q.row # <<>> => q.com + h * d <= q.alo
      BY <1>0 DEF Good, Covered, q
    <3> HIDE DEF h, g
    <3>5. q.row # <<>> => p.com + g * d <= q.alo
      <4>1. CASE result_queue[1].extend
        BY <2>1, <2>2, <3>2, <3>4, <4>1
      <4>2. CASE ~result_queue[1].extend /\ d = 0
        BY <2>1, <2>2, <3>1, <3>2, <3>4, <4>2
      <4>3. CASE ~result_queue[1].extend /\ d # 0
        <5>1. g = h - 1 /\ c <= d /\ p.com = q.com + c
          BY <2>1, <3>2, <4>3
        <5> HIDE DEF d
        <5>2. (h - 1) * d = h * d - d /\ h * d \in Nat
          BY <3>1
        <5> QED
          BY <2>2, <3>1, <3>4, <5>1, <5>2
      <4> QED
        BY <4>1, <4>2, <4>3
    <3>6. d = 0 /\ q.row # <<>> => p.com = q.alo
      BY <2>1, <2>2, <3>7
    <3>8. g * d \in Int
      BY <3>1, <3>2
    <3> QED
      BY <2>1, <3>3, <3>5, <3>6 DEF Covered, p, g
  <2>5. Committed(r)'
    <3> DEFINE A == IF setup.draft = 0 THEN BOOLEAN ELSE {TRUE}
               h == Cardinality(Hits(result_queue, r, A))
               g == Cardinality(Hits(result_queue', r, A))
    <3>1. A \in {{TRUE}, {FALSE}, BOOLEAN}
          /\ (result_queue[1].extend \in A <=> result_queue[1].extend \/ setup.draft = 0)
      BY ZenonT(60), <1>0
    <3>2. h \in Nat /\ g = h - IF result_queue[1].extend \/ setup.draft = 0 THEN 1 ELSE 0
      <4> HIDE DEF A
      <4> QED
        BY ZenonT(60), <1>1, <3>1
    <3>3. ~setup.preemption /\ q.row # <<>> => q.com = TotalLen(m, r) - 1 + h - q.inflight
      BY <1>0 DEF Good, Committed, q
    <3> HIDE DEF h, g, A
    <3>4. ~setup.preemption /\ q.row # <<>> => p.com = (TotalLen(m, r) + k) - 1 + g - q.inflight
      <4>1. q.inflight \in Int
        BY <1>0 DEF q
      <4>2. k + g = c + h
        BY <1>0, <3>2
      <4>3. g \in Int
        BY <3>2
      <4> DEFINE t == TotalLen(m, r)
      <4>4. t \in Nat /\ p.com = q.com + c /\ q.com \in Nat
        BY <2>1, <2>2
      <4>5. ~setup.preemption /\ q.row # <<>> => q.com = t - 1 + h - q.inflight
        BY <3>3
      <4> HIDE DEF t
      <4>6. ASSUME ~setup.preemption /\ q.row # <<>> PROVE p.com = (t + k) - 1 + g - q.inflight
        <5> DEFINE i == q.inflight
                   x == q.com
        <5>1. x = t - 1 + h - i /\ i \in Int /\ x \in Nat
          BY <4>1, <4>4, <4>5, <4>6
        <5> HIDE DEF i, x
        <5>2. x + c = (t + k) - 1 + g - i
          BY <3>2, <4>2, <4>3, <4>4, <5>1
        <5> QED
          BY <4>4, <5>2 DEF i, x
      <4> QED
        BY <4>6 DEF t
    <3> QED
      BY <2>1, <2>2, <3>4 DEF Committed, p, g, A
  <2>6. Chunked(r)' /\ Admitted(r)'
    BY <1>0 DEF Chunked, Admitted
  <2>7. Good(r)'
    BY <2>3, <2>4, <2>5, <2>6 DEF Good
  <2> QED
    BY <1>1, <1>2, <1>3, <2>7, TouchOne
<1> QED
  BY <1>4, <1>5

IsOutput(new, mem, r, k) ==
    /\ Shape(new) /\ new.tree = mem.tree
    /\ \A x \in Request \ {r} : new.req[x] = mem.req[x]
    /\ new.req[r].row = mem.req[r].row /\ new.req[r].out = mem.req[r].out + k
    /\ new.req[r].pre = mem.req[r].pre /\ new.req[r].end = mem.req[r].end
    /\ new.req[r].com = mem.req[r].com /\ new.req[r].alo = mem.req[r].alo
    /\ new.req[r].inflight = mem.req[r].inflight
    /\ new.req[r].is_retracted = mem.req[r].is_retracted

LEMMA OutputLens ==
    ASSUME NEW mem, Shape(mem), NEW r \in Request, NEW k, NEW stop
    PROVE  IsOutput(Output(mem, r, k, stop), mem, r, k)
<1> DEFINE out == mem.req[r].out + k
           fin == mem.req[r].to_finish \/ stop \/ mem.req[r].out + k >= MaxNew(r)
<1>1. Output(mem, r, k, stop) =
        [mem EXCEPT !.req[r].out = out, !.req[r].finished = fin, !.req[r].to_finish = FALSE]
  BY DEF Output, Shape, ReqFields
<1> HIDE DEF fin
<1> DEFINE n == [mem EXCEPT !.req[r].out = out, !.req[r].finished = fin, !.req[r].to_finish = FALSE]
<1>2. IsOutput(n, mem, r, k)
  BY DEF Shape, ReqFields, IsOutput
<1> QED
  BY <1>1, <1>2

LEMMA PrefillResultLens ==
    ASSUME ControlInv, LengthInv, NEW r \in Request, NEW stop, PrefillResult(r, stop)
    PROVE  LengthInv'
<1> DEFINE o == Output(m, r, 1, stop)
<1>1. /\ pc = "result" /\ r \in result_queue[1].reqs /\ Settle(r) /\ result_queue[1].extend
      /\ ~m.req[r].is_retracted /\ ~m.req[r].finished /\ m.req[r].inflight <= 0
      /\ m' = IF o.req[r].finished THEN ReleaseKV(o, r, TRUE) ELSE CacheUnfinished(o, r)
      /\ UNCHANGED <<setup, fresh, waiting_queue, running_batch, last_batch, chunked_req,
                     adder, pc>>
  BY DEF PrefillResult, Dropped, batches
<1>2. Shape(m) /\ GoodTree(m.tree) /\ Lengths(m.req[r])
  BY <1>1, ResultPhase
<1>3. IsOutput(o, m, r, 1)
  BY <1>2, OutputLens
<1> HIDE DEF o
<1>4. r # chunked_req
  <2>1. SUFFICES ASSUME r = chunked_req PROVE FALSE
    OBVIOUS
  <2>2. m.req[r].inflight = Cardinality(Chunks(r))
    BY <1>1 DEF ControlInv, ChunksCounted, Chunks
  <2>3. IsFiniteSet(Chunks(r)) /\ Cardinality(Chunks(r)) \in Nat
    BY ChunksFinite DEF ControlInv, ControlTypes
  <2>4. Cardinality(Chunks(r)) = 0
    BY <1>1, <2>2, <2>3
  <2>5. 1 \notin Chunks(r)
    BY <2>3, <2>4, FS_EmptySet
  <2>6. 1 \in 1..Len(result_queue)
    BY <1>1, ResultPhase, QueueEmpty
  <2> QED
    BY <1>1, <2>1, <2>5, <2>6 DEF Chunks, ControlInv, PlaceInv, InChunks
<1>5. Shape(o) /\ GoodTree(o.tree) /\ Lengths(o.req[r])
  BY <1>2, <1>3 DEF IsOutput, Lengths
<1>6. FlagsKept(o, m')
  BY ZenonT(60), <1>1, <1>5, ReleaseKVKeeps, CacheUnfinishedKeeps
<1>7. CASE o.req[r].finished
  <2>1. IsReleased(m', o, r)
    BY ZenonT(60), <1>1, <1>5, <1>7, ReleaseKVLens
  <2>2. /\ GoodTree(m'.tree) /\ m'.req[r].row = <<>> /\ m'.req[r].finished
        /\ \A x \in Request \ {r} : SameLens(m'.req[x], m.req[x])
    BY <1>3, <1>6, <1>7, <2>1, LensEqual DEF IsReleased, IsOutput, FlagsKept, SameFlags
  <2>3. Lengths(m'.req[r])
    BY SMTT(60), <1>5, <2>1, RowFacts DEF IsReleased, Lengths
  <2> QED
    BY ZenonT(60), <1>1, <1>4, <2>2, <2>3, ResultApplied
<1>8. CASE ~o.req[r].finished
  <2>1. IsStashed(m', o, r)
    BY <1>1, <1>5, <1>8, CacheUnfinishedLens
  <2>2. /\ GoodTree(m'.tree)
        /\ \A x \in Request \ {r} : SameLens(m'.req[x], m.req[x])
    BY <1>3, <2>1, LensEqual DEF IsStashed, IsOutput
  <2>3. Lengths(m'.req[r])
    BY <1>5, <2>1 DEF IsStashed, Lengths
  <2>4. /\ ~m'.req[r].finished /\ ~m'.req[r].is_retracted
        /\ m'.req[r].inflight = m.req[r].inflight
    BY <1>1, <1>3, <1>6, <1>8 DEF IsOutput, FlagsKept, SameFlags
  <2>5. /\ Len(m'.req[r].row) = Len(m.req[r].row) /\ m'.req[r].alo = m.req[r].alo
        /\ m'.req[r].out = m.req[r].out + 1 /\ m'.req[r].com = m.req[r].com + 0
    BY <1>2, <1>3, <2>1 DEF IsOutput, IsStashed, Lengths
  <2> QED
    BY ZenonT(60), <1>1, <1>4, <2>2, <2>3, <2>4, <2>5, ResultApplied
<1> QED
  BY <1>7, <1>8

LEMMA DecodeResultLens ==
    ASSUME ControlInv, LengthInv, NEW r \in Request, NEW k \in 1..Max({1, setup.draft}), NEW stop,
           DecodeResult(r, k, stop)
    PROVE  LengthInv'
<1> DEFINE b == IF setup.draft = 0 THEN m ELSE [m EXCEPT !.req[r].com = @ + k]
           o == Output(b, r, k, stop)
           c == IF setup.draft = 0 THEN 0 ELSE k
<1>1. /\ pc = "result" /\ r \in result_queue[1].reqs /\ Settle(r) /\ ~result_queue[1].extend
      /\ ~m.req[r].is_retracted /\ ~m.req[r].finished
      /\ m' = IF o.req[r].finished THEN ReleaseKV(o, r, TRUE) ELSE o
      /\ UNCHANGED <<setup, fresh, waiting_queue, running_batch, last_batch, chunked_req,
                     adder, pc>>
  BY DEF DecodeResult, Dropped, batches
<1>2. Shape(m) /\ GoodTree(m.tree) /\ Lengths(m.req[r]) /\ setup.draft \in Nat
  BY <1>1, ResultPhase DEF ControlInv, ControlTypes, Setup
<1>3. k \in Nat /\ c \in Nat /\ (setup.draft = 0 => k = 1) /\ (setup.draft # 0 => k <= setup.draft)
  <2> DEFINE d == setup.draft
             n == Max({1, d})
  <2>1. 1 \in Int /\ d \in Int
    BY <1>2
  <2>2. n = IF 1 <= d THEN d ELSE 1
    BY ZenonT(60), <2>1, MinMax
  <2>3. k \in 1..n
    OBVIOUS
  <2> HIDE DEF n
  <2> QED
    BY <1>2, <2>2, <2>3
<1>4. /\ Shape(b) /\ b.tree = m.tree /\ \A x \in Request \ {r} : b.req[x] = m.req[x]
      /\ b.req[r].row = m.req[r].row /\ b.req[r].out = m.req[r].out
      /\ b.req[r].pre = m.req[r].pre /\ b.req[r].end = m.req[r].end
      /\ b.req[r].com = m.req[r].com + c /\ b.req[r].alo = m.req[r].alo
      /\ b.req[r].inflight = m.req[r].inflight /\ b.req[r].is_retracted = m.req[r].is_retracted
  <2>1. CASE setup.draft = 0
    BY <1>2, <2>1 DEF Lengths
  <2>2. CASE setup.draft # 0
    BY <1>2, <2>2 DEF Shape, ReqFields
  <2> QED
    BY <2>1, <2>2
<1> HIDE DEF b
<1>5. IsOutput(o, b, r, k)
  BY <1>4, OutputLens
<1> HIDE DEF o
<1>6. r # chunked_req
  <2>1. 1 \in 1..Len(result_queue)
    BY <1>1, ResultPhase, QueueEmpty
  <2>2. result_queue[1].chunked_req # r
    BY <1>1, <2>1, SchedulerAssumption DEF ControlInv, QueueInv, ChunksFirst
  <2> QED
    BY <1>1, <2>1, <2>2 DEF ControlInv, PlaceInv, InChunks
<1>7. Shape(o) /\ GoodTree(o.tree) /\ Lengths(o.req[r])
  <2>1. m.req[r].out + k \in Nat /\ m.req[r].com + c \in Nat
    BY <1>2, <1>3 DEF Lengths
  <2> QED
    BY <1>2, <1>4, <1>5, <2>1 DEF IsOutput, Lengths
<1> HIDE DEF c
<1>8. CASE o.req[r].finished
  <2>1. IsReleased(m', o, r) /\ FlagsKept(o, m')
    BY ZenonT(60), <1>1, <1>7, <1>8, ReleaseKVLens, ReleaseKVKeeps
  <2>2. /\ GoodTree(m'.tree) /\ m'.req[r].row = <<>> /\ m'.req[r].finished
        /\ \A x \in Request \ {r} : SameLens(m'.req[x], m.req[x])
    BY <1>4, <1>5, <1>8, <2>1, LensEqual DEF IsReleased, IsOutput, FlagsKept, SameFlags
  <2>3. Lengths(m'.req[r])
    BY <1>7, <2>1, RowFacts DEF IsReleased, Lengths
  <2>4. setup.draft = 0 => k = 1 /\ c = 0
    BY <1>3 DEF c
  <2>5. setup.draft # 0 => c = k /\ k <= setup.draft
    BY SMTT(60), <1>3 DEF c
  <2> QED
    BY ZenonT(60), <1>1, <1>3, <1>6, <2>2, <2>3, <2>4, <2>5, ResultApplied
<1>9. CASE ~o.req[r].finished
  <2>1. m' = o
    BY <1>1, <1>9
  <2>2. /\ GoodTree(m'.tree) /\ Lengths(m'.req[r])
        /\ \A x \in Request \ {r} : SameLens(m'.req[x], m.req[x])
    BY <1>4, <1>5, <1>7, <2>1, LensEqual DEF IsOutput
  <2>3. /\ ~m'.req[r].finished /\ ~m'.req[r].is_retracted
        /\ m'.req[r].inflight = m.req[r].inflight
        /\ Len(m'.req[r].row) = Len(m.req[r].row) /\ m'.req[r].alo = m.req[r].alo
        /\ m'.req[r].out = m.req[r].out + k /\ m'.req[r].com = m.req[r].com + c
    BY <1>1, <1>4, <1>5, <1>9, <2>1 DEF IsOutput
  <2>4. setup.draft = 0 => k = 1 /\ c = 0
    BY <1>3 DEF c
  <2>5. setup.draft # 0 => c = k /\ k <= setup.draft
    BY <1>3 DEF c
  <2> QED
    BY ZenonT(60), <1>1, <1>3, <1>6, <2>2, <2>3, <2>4, <2>5, ResultApplied
<1> QED
  BY SMTT(60), <1>8, <1>9

-----------------------------------------------------------------------------
(* The prefill adder. *)

LEMMA RemInt ==
    ASSUME NEW mem, GoodTree(mem.tree), NEW a, a.total \in Int
    PROVE  rem_total_tokens(mem, a) \in Int /\ available_size(mem) \in Nat
<1>1. available_size(mem) \in Nat
  <2>1. IsFiniteSet(Page)
    BY FS_Interval, ReqKVAssumption DEF Page
  <2>2. IsFiniteSet({p \in Page : mem.free[p] > 0})
    BY <2>1, FS_Subset
  <2> QED
    BY <2>2, FS_CardinalityType DEF available_size
<1>2. mem.tree.evictable_size_ \in Int /\ PageSize \in Int
  BY ReqKVAssumption DEF GoodTree
<1> DEFINE v == available_size(mem)
<1>3. v \in Nat
  BY <1>1
<1> HIDE DEF v
<1>4. PageSize * (v + mem.tree.evictable_size_) \in Int
  BY <1>2, <1>3
<1> QED
  BY <1>1, <1>4 DEF rem_total_tokens, v

LEMMA NewAdderTypes ==
    ASSUME ControlInv, LengthInv, NEW ratio \in Ratio
    PROVE  /\ NewAdder(ratio).total \in Int /\ NewAdder(ratio).ratio \in Int
           /\ NewAdder(ratio).chunk = ChunkedPrefillSize
           /\ NewAdder(ratio).can_run_list = {} /\ NewAdder(ratio).preempt_list = {}
           /\ NewAdder(ratio).new_chunked_req = NoReq /\ DOMAIN NewAdder(ratio) = AdderFields
<1>1. ratio \in Int
  BY SchedulerAssumption
<1>2. IsFiniteSet(running_batch) /\ running_batch \subseteq Request
  BY DEF LengthInv, LengthTypes, FiniteBatches, ControlInv, ControlTypes
<1>3. \A r \in running_batch : RunningOffset(m, ratio, r) \in Int
  BY <1>1, <1>2, OffsetInt DEF LengthInv, LengthTypes, Lengths
<1> DEFINE t == MapThenSumSet(LAMBDA r : RunningOffset(m, ratio, r), running_batch)
<1>4. t \in Int
  <2>1. t = (CHOOSE f : OffsetSum(f, m, ratio, SUBSET running_batch))[running_batch]
    BY DEF MapThenSumSet, MapThenFoldSet, OffsetSum
  <2> HIDE DEF t
  <2> QED
    BY <1>2, <1>3, <2>1, OffsetsInt
<1>5. NewAdder(ratio) = [NoAdder EXCEPT !.ratio = ratio, !.chunk = ChunkedPrefillSize, !.total = t]
  BY DEF NewAdder
<1> HIDE DEF t
<1> QED
  BY <1>1, <1>4, <1>5 DEF NoAdder, AdderFields

IsCharged(b, a, extend, max_new) ==
    /\ DOMAIN b = AdderFields
    /\ b.total = a.total + PageSize * CeilPages(extend) + max_new + PageSize
    /\ b.chunk = a.chunk - PageSize * CeilPages(extend)
    /\ b.ratio = a.ratio /\ b.can_run_list = a.can_run_list /\ b.preempt_list = a.preempt_list
    /\ b.new_chunked_req = a.new_chunked_req

LEMMA BudgetFacts ==
    ASSUME NEW a, DOMAIN a = AdderFields, NEW extend, NEW max_new
    PROVE  IsCharged(UpdatePrefillBudget(a, extend, max_new), a, extend, max_new)
<1> DEFINE x == PageSize * CeilPages(extend)
<1>1. UpdatePrefillBudget(a, extend, max_new) =
        [a EXCEPT !.total = a.total + x + max_new + PageSize, !.cur = a.cur + x + PageSize,
                  !.chunk = a.chunk - x]
  BY DEF UpdatePrefillBudget, AdderFields
<1> HIDE DEF x
<1>2. LET b == [a EXCEPT !.total = a.total + x + max_new + PageSize, !.cur = a.cur + x + PageSize,
                         !.chunk = a.chunk - x]
      IN  /\ DOMAIN b = AdderFields /\ b.total = a.total + x + max_new + PageSize
          /\ b.chunk = a.chunk - x
          /\ b.ratio = a.ratio /\ b.can_run_list = a.can_run_list
          /\ b.preempt_list = a.preempt_list /\ b.new_chunked_req = a.new_chunked_req
  BY DEF AdderFields
<1> QED
  BY <1>1, <1>2 DEF IsCharged, x

LEMMA CeilTimes ==
    ASSUME NEW n \in Int
    PROVE  PageSize * CeilPages(n) \in Int /\ n <= PageSize * CeilPages(n)
BY CeilFacts, ReqKVAssumption

(* add_chunked_req of the request r that is being chunked. *)
LEMMA AddChunkedReqLens ==
    ASSUME ControlInv, LengthInv, pc = "admit", NEW r \in Request, r = chunked_req,
           NEW new, DOMAIN new = AdderFields, new.total \in Int, new.chunk \in Nat \ {0},
           AddChunkedReq(new)
    PROVE  /\ m'.tree = m.tree /\ m'.free = m.free
           /\ \A x \in Request \ {r} : m'.req[x] = m.req[x]
           /\ SameFlags(m'.req[r], m.req[r]) /\ m'.req[r].row = m.req[r].row
           /\ m'.req[r].out = m.req[r].out /\ m'.req[r].pre = m.req[r].pre
           /\ m'.req[r].com = m.req[r].com /\ m'.req[r].alo = m.req[r].alo
           /\ m'.req[r].end \in Nat /\ m'.req[r].pre < m'.req[r].end
           /\ chunked_req' \in {r, NoReq}
           /\ IF chunked_req' = r THEN m'.req[r].end < TotalLen(m, r)
                                  ELSE m'.req[r].end = TotalLen(m, r)
           /\ DOMAIN adder' = AdderFields /\ adder'.can_run_list = {r}
           /\ adder'.preempt_list = new.preempt_list /\ adder'.ratio = new.ratio
           /\ adder'.new_chunked_req = new.new_chunked_req
           /\ adder'.chunk \in Int /\ adder'.total \in Int
           /\ chunked_req' = r => adder'.chunk <= 0 \/ rem_total_tokens(m, adder') <= 0
<1>1. Shape(m) /\ GoodTree(m.tree) /\ Lengths(m.req[r]) /\ Good(r)
  BY DEF ControlInv, ControlTypes, LengthInv, LengthTypes
<1> DEFINE q    == m.req[r]
           tot  == TotalLen(m, r)
           lim  == rem_total_tokens(m, new)
           rem  == Min({new.chunk, lim})
           room == IF rem <= 0 THEN new.chunk ELSE rem
           cand == tot - q.pre
           ext  == Min({cand, room})
           more == IF cand > room THEN 0 ELSE MaxNew(r)
           bud  == UpdatePrefillBudget(new, ext, more)
<1>2. /\ m' = [m EXCEPT !.req[r].fill = tot, !.req[r].end = q.pre + ext]
      /\ adder' = [bud EXCEPT !.can_run_list = {r}]
      /\ chunked_req' = IF cand > room THEN r ELSE NoReq
  BY ZenonT(30) DEF AddChunkedReq
<1>3. IsCharged(bud, new, ext, more)
  BY BudgetFacts
<1>4. /\ tot \in Nat /\ q.pre \in Nat /\ q.pre = q.end /\ q.end < tot
      /\ q.com = q.alo
  <2>1. pc = "admit" /\ ~Collecting
    BY DEF Collecting
  <2>2. q.pre = q.end /\ q.end < tot /\ q.com = q.alo
    BY <1>1, <2>1 DEF Good, Chunked
  <2> QED
    BY <1>1, <2>2, TotalNat DEF Lengths
<1>5. lim \in Int
  BY <1>1, RemInt
<1> HIDE DEF q, tot, lim
<1>6. rem = IF new.chunk <= lim THEN new.chunk ELSE lim
  BY <1>5, MinMax
<1> HIDE DEF rem
<1>7. room \in Nat \ {0} /\ cand \in Nat \ {0} /\ (room = new.chunk \/ room = lim)
  BY <1>4, <1>5, <1>6
<1>8. ext = IF cand <= room THEN cand ELSE room
  BY <1>7, MinMax
<1> HIDE DEF ext, bud
<1>9. q.pre + ext \in Nat /\ q.pre < q.pre + ext
  BY <1>4, <1>7, <1>8
<1>10. IF cand > room THEN q.pre + ext < tot ELSE q.pre + ext = tot
  BY <1>4, <1>7, <1>8
<1>11. more \in Nat
  BY MaxNewNat
<1> DEFINE w == PageSize * CeilPages(ext)
<1>12. ext \in Nat /\ w \in Int /\ ext <= w /\ PageSize \in Nat
  BY <1>7, <1>8, CeilTimes, ReqKVAssumption
<1>13. /\ DOMAIN adder' = AdderFields /\ adder'.can_run_list = {r}
       /\ adder'.preempt_list = new.preempt_list /\ adder'.ratio = new.ratio
       /\ adder'.new_chunked_req = new.new_chunked_req
       /\ adder'.chunk = new.chunk - w /\ adder'.total = new.total + w + more + PageSize
  BY <1>2, <1>3 DEF IsCharged, AdderFields
<1> HIDE DEF w, more
<1>14. adder'.chunk \in Int /\ adder'.total \in Int
  BY <1>11, <1>12, <1>13
<1>15. ASSUME cand > room PROVE adder'.chunk <= 0 \/ rem_total_tokens(m, adder') <= 0
  <2>1. ext = room
    BY <1>7, <1>8, <1>15
  <2>2. CASE room = new.chunk
    BY <1>12, <1>13, <2>1, <2>2
  <2>3. CASE room = lim
    <3> DEFINE u == PageSize * (available_size(m) + m.tree.evictable_size_)
    <3>1. u \in Int /\ lim = u - new.total
      <4>1. available_size(m) \in Nat /\ m.tree.evictable_size_ \in Int
        BY <1>1, RemInt DEF GoodTree
      <4> QED
        BY <1>12, <4>1 DEF lim, rem_total_tokens
    <3>2. rem_total_tokens(m, adder') = u - adder'.total
      BY DEF rem_total_tokens
    <3> HIDE DEF u
    <3>3. u - adder'.total <= 0
      BY <1>11, <1>12, <1>13, <2>1, <2>3, <3>1
    <3> QED
      BY <3>2, <3>3
  <2> QED
    BY <1>7, <2>2, <2>3
<1> HIDE DEF room, cand
<1>16. /\ m'.tree = m.tree /\ m'.free = m.free
       /\ \A x \in Request \ {r} : m'.req[x] = m.req[x]
       /\ SameFlags(m'.req[r], q) /\ m'.req[r].row = q.row
       /\ m'.req[r].out = q.out /\ m'.req[r].pre = q.pre
       /\ m'.req[r].com = q.com /\ m'.req[r].alo = q.alo
       /\ m'.req[r].end = q.pre + ext
  BY <1>1, <1>2 DEF Shape, ReqFields, SameFlags, q
<1>17. chunked_req' = r <=> cand > room
  BY <1>2, SchedulerAssumption
<1>18. chunked_req' \in {r, NoReq}
  BY <1>2
<1>19. m'.req[r].end \in Nat /\ m'.req[r].pre < m'.req[r].end
  BY <1>9, <1>16
<1>20. IF chunked_req' = r THEN m'.req[r].end < tot ELSE m'.req[r].end = tot
  BY <1>10, <1>16, <1>17
<1> QED
  BY <1>13, <1>14, <1>15, <1>16, <1>17, <1>18, <1>19, <1>20 DEF q, tot

LEMMA StartAdderLens ==
    ASSUME ControlInv, LengthInv, StartAdder
    PROVE  LengthInv'
<1>0. /\ FiniteBatches /\ AdderTypes /\ adder = NoAdder /\ last_batch = NoBatch /\ GoodTree(m.tree)
      /\ pc = "admit" /\ pc' = "prefill" /\ chunked_req \in Request \cup {NoReq}
      /\ UNCHANGED <<setup, fresh, waiting_queue, running_batch, last_batch,
                     pending_chunked_abort, result_queue, paused, answers>>
  BY DEF LengthInv, LengthTypes, ControlInv, ControlTypes, PhaseInv, Collecting, StartAdder
<1>1. FiniteBatches'
  BY <1>0 DEF FiniteBatches
<1>2. PICK ratio \in Ratio :
        IF chunked_req = NoReq
        THEN adder' = NewAdder(ratio) /\ UNCHANGED <<m, chunked_req>>
        ELSE AddChunkedReq(NewAdder(ratio))
  BY DEF StartAdder
<1> DEFINE new == NewAdder(ratio)
<1>3. /\ new.total \in Int /\ new.ratio \in Int /\ new.chunk = ChunkedPrefillSize
      /\ new.can_run_list = {} /\ new.preempt_list = {}
      /\ new.new_chunked_req = NoReq /\ DOMAIN new = AdderFields
  BY NewAdderTypes
<1>4. ChunkedPrefillSize \in Nat \ {0}
  BY SchedulerAssumption
<1> HIDE DEF new
<1>5. CASE chunked_req = NoReq
  <2>1. adder' = new /\ UNCHANGED <<m, chunked_req>>
    BY <1>2, <1>5 DEF new
  <2>2. Still
    BY <1>0, <1>3, <1>5, <2>1, SameQueue, LensEqual, SchedulerAssumption
       DEF Still, SamePlace, Collecting, NoAdder
  <2>3. AdderTypes'
    BY <1>3, <1>4, <2>1, FS_EmptySet DEF AdderTypes
  <2> QED
    BY <1>1, <2>2, <2>3, StillKeeps
<1>6. CASE chunked_req # NoReq
  <2>0. PICK r \in Request : r = chunked_req
    BY <1>0, <1>6
  <2>1. AddChunkedReq(new)
    BY <1>2, <1>6 DEF new
  <2>2. /\ m'.tree = m.tree
        /\ \A x \in Request \ {r} : m'.req[x] = m.req[x]
        /\ SameFlags(m'.req[r], m.req[r]) /\ m'.req[r].row = m.req[r].row
        /\ m'.req[r].out = m.req[r].out /\ m'.req[r].pre = m.req[r].pre
        /\ m'.req[r].com = m.req[r].com /\ m'.req[r].alo = m.req[r].alo
        /\ m'.req[r].end \in Nat /\ m'.req[r].pre < m'.req[r].end
        /\ chunked_req' \in {r, NoReq}
        /\ IF chunked_req' = r THEN m'.req[r].end < TotalLen(m, r)
                               ELSE m'.req[r].end = TotalLen(m, r)
        /\ DOMAIN adder' = AdderFields /\ adder'.can_run_list = {r}
        /\ adder'.preempt_list = new.preempt_list /\ adder'.ratio = new.ratio
        /\ adder'.new_chunked_req = new.new_chunked_req
        /\ adder'.chunk \in Int /\ adder'.total \in Int
    BY <1>0, <1>3, <1>4, <2>0, <2>1, AddChunkedReqLens
  <2>3. AdderTypes'
    <3>1. IsFiniteSet({r}) /\ IsFiniteSet({})
      BY FS_Singleton, FS_EmptySet
    <3>2. IsFiniteSet(adder'.can_run_list) /\ IsFiniteSet(adder'.preempt_list)
      BY <1>3, <2>2, <3>1
    <3> QED
      BY <1>3, <2>2, <3>2 DEF AdderTypes
  <2>4. Good(r) /\ Lengths(m.req[r])
    BY <1>0 DEF LengthInv, LengthTypes
  <2>5. TotalLen(m, r)' = TotalLen(m, r)
    BY <2>2 DEF TotalLen
  <2>6. /\ m.req[r].row # <<>> /\ m.req[r].com = m.req[r].alo
        /\ m.req[r].pre = m.req[r].end /\ m.req[r].end = m.req[r].com
    BY <1>0, <2>0, <2>4 DEF Good, Chunked, Collecting
  <2>7. Good(r)'
    <3>1. Unlaunched(r)'
      <4>1. /\ r \notin fresh \cup waiting_queue /\ adder'.preempt_list = {}
            /\ ~m.req[r].finished /\ ~m.req[r].is_retracted
        BY <1>0, <1>3, <2>0, <2>2
           DEF ControlInv, PlaceInv, InFresh, InQueue, InChunks, Away
      <4> QED
        BY <1>0, <2>2, <4>1 DEF Unlaunched, SameFlags
    <3>2. Launched(r)'
      BY <2>2, <2>6 DEF Launched
    <3>3. Covered(r)'
      BY <1>0, <2>2, <2>4 DEF Good, Covered
    <3>4. Committed(r)' /\ Chunked(r)'
      BY <1>0, <2>2, <2>6 DEF Committed, Chunked, Collecting
    <3>5. Admitted(r)'
      <4>1. \A i \in 1..Len(result_queue) :
               r \in result_queue[i].reqs => result_queue[i].chunked_req = r
        BY <1>0, <2>0 DEF ControlInv, PlaceInv, InChunks
      <4>2. r # adder'.new_chunked_req
        BY <1>3, <1>6, <2>0, <2>2
      <4> QED
        BY <1>0, <2>2, <2>5, <2>6, <4>1, <4>2 DEF Admitted
    <3> QED
      BY <3>1, <3>2, <3>3, <3>4, <3>5 DEF Good
  <2>8. Lengths(m'.req[r])
    BY <2>2, <2>4 DEF Lengths
  <2>9. \A x \in Request \ {r} :
           SameLens(m'.req[x], m.req[x]) /\ SamePlace(x) /\ SameHits(x)
    <3>1. adder.can_run_list = {} /\ adder.preempt_list = {}
      BY <1>0 DEF NoAdder
    <3> QED
      BY <1>0, <1>3, <2>0, <2>2, <3>1, SameQueue, LensEqual, SchedulerAssumption
         DEF SamePlace, Collecting
  <2> QED
    BY <1>0, <1>1, <2>2, <2>3, <2>7, <2>8, <2>9, TouchOne
<1> QED
  BY <1>5, <1>6

(* The cached prefix of all tokens but the last leaves one to compute. *)
LEMMA PrefixShort ==
    ASSUME NEW r, NEW n \in Nat \ {0}, GoodTree(m.tree)
    PROVE  LET node == MatchPrefix(m.tree, Key(m, r, n - 1)).last_node
           IN  Len(node) \in Nat /\ PageSize * Len(node) \in Nat /\ PageSize * Len(node) < n
<1> DEFINE k == IF m.is_eagle /\ n - 1 > 0 THEN n - 2 ELSE n - 1
           u == k \div PageSize
           key == Key(m, r, n - 1)
           p == MatchedPath(m.tree, key)
<1>1. k \in Nat /\ k < n
  OBVIOUS
<1>2. KeyPages(m, n - 1) = u
  BY DEF KeyPages
<1> HIDE DEF k
<1>3. u \in Nat /\ PageSize * u <= k /\ PageSize \in Nat
  BY <1>1, DivFacts, DivNat, ReqKVAssumption
<1>4. Len(key) = u
  BY <1>2, <1>3, PrefixLen DEF Key
<1> HIDE DEF key, u
<1>5. Len(p) \in Nat /\ Len(p) <= u
  BY <1>3, <1>4, MatchedLen
<1> DEFINE w == Len(p)
<1>6. w \in Nat /\ w <= u
  BY <1>5
<1>7. MatchPrefix(m.tree, key).last_node = p
  BY DEF MatchPrefix
<1> HIDE DEF w
<1>8. PICK d \in Nat : u = w + d
  BY <1>3, <1>6
<1>9. PageSize * u = PageSize * w + PageSize * d /\ PageSize * d \in Nat /\ PageSize * w \in Nat
  BY <1>3, <1>6, <1>8
<1>10. PageSize * w < n
  BY <1>1, <1>3, <1>9
<1> QED
  BY <1>6, <1>7, <1>9, <1>10 DEF w, key

IsMatched(new, r) ==
    /\ Shape(new) /\ GoodTree(new.tree) /\ new.free = m.free
    /\ new.tree.evictable_size_ = m.tree.evictable_size_
    /\ \A x \in Request \ {r} : new.req[x] = m.req[x]
    /\ new.req[r].row = m.req[r].row /\ new.req[r].out = m.req[r].out
    /\ new.req[r].end = m.req[r].end /\ new.req[r].com = m.req[r].com
    /\ new.req[r].alo = m.req[r].alo /\ new.req[r].fill = TotalLen(m, r)
    /\ Len(new.req[r].last_node) \in Nat
    /\ new.req[r].pre = PageSize * Len(new.req[r].last_node)
    /\ new.req[r].pre \in Nat /\ new.req[r].pre < TotalLen(m, r)

LEMMA InitNextRoundLens ==
    ASSUME ControlInv, LengthInv, NEW r \in Request
    PROVE  IsMatched(InitNextRoundInput(r), r)
<1>1. Shape(m) /\ GoodTree(m.tree) /\ Lengths(m.req[r])
  BY DEF ControlInv, ControlTypes, LengthInv, LengthTypes
<1> DEFINE len   == TotalLen(m, r)
           match == MatchPrefix(m.tree, Key(m, r, len - 1))
           node  == match.last_node
           new   == [m EXCEPT !.tree = match.tree, !.req[r].fill = len,
                              !.req[r].pre = PageSize * Len(node), !.req[r].prot = Len(node),
                              !.req[r].last_node = node]
<1>2. InitNextRoundInput(r) = new
  BY DEF InitNextRoundInput
<1>3. len \in Nat \ {0}
  BY <1>1, TotalNat DEF Lengths
<1> HIDE DEF len
<1>4. Len(node) \in Nat /\ PageSize * Len(node) \in Nat /\ PageSize * Len(node) < len
  BY <1>1, <1>3, PrefixShort
<1>5. GoodTree(match.tree) /\ match.tree.evictable_size_ = m.tree.evictable_size_
  BY <1>1, SplitGood DEF MatchPrefix
<1> HIDE DEF match
<1> DEFINE l == Len(node)
           w == PageSize * Len(node)
<1> HIDE DEF l, w, node
<1>6. new = [m EXCEPT !.tree = match.tree, !.req[r].fill = len,
                      !.req[r].pre = w, !.req[r].prot = l, !.req[r].last_node = node]
  BY DEF l, w
<1> HIDE DEF new
<1>7. /\ Shape(new) /\ new.tree = match.tree /\ new.free = m.free
      /\ \A x \in Request \ {r} : new.req[x] = m.req[x]
      /\ new.req[r].row = m.req[r].row /\ new.req[r].out = m.req[r].out
      /\ new.req[r].end = m.req[r].end /\ new.req[r].com = m.req[r].com
      /\ new.req[r].alo = m.req[r].alo /\ new.req[r].fill = len
      /\ new.req[r].last_node = node /\ new.req[r].pre = w
  BY <1>1, <1>6 DEF Shape, ReqFields
<1>8. Len(node) \in Nat /\ w \in Nat /\ w < len /\ w = PageSize * Len(node)
  BY <1>4 DEF w, node
<1> QED
  BY SMTT(60), <1>2, <1>5, <1>7, <1>8 DEF IsMatched, len

(* What a request that is admitted adds to the batch: all of it, or the    *)
(* whole pages of what is left of the chunk, which is then used up.        *)
IsAdded(r) ==
    /\ GoodTree(m'.tree)
    /\ \A x \in Request \ {r} : m'.req[x] = m.req[x]
    /\ m'.req[r].row = m.req[r].row /\ Lengths(m'.req[r])
    /\ Len(m'.req[r].last_node) \in Nat
    /\ m'.req[r].pre = PageSize * Len(m'.req[r].last_node)
    /\ m'.req[r].pre < m'.req[r].end
    /\ TotalLen(m, r)' = TotalLen(m, r)
    /\ adder'.chunk \in Int /\ adder'.chunk <= adder.chunk /\ adder'.total \in Int
    /\ adder'.ratio = adder.ratio
    /\ adder'.can_run_list = adder.can_run_list \cup {r}
    /\ adder'.preempt_list = adder.preempt_list
    /\ \/ /\ adder'.new_chunked_req = adder.new_chunked_req
          /\ m'.req[r].end = TotalLen(m, r)
       \/ /\ adder'.new_chunked_req = r /\ adder.new_chunked_req = NoReq
          /\ adder'.chunk < PageSize
          /\ m'.req[r].end < TotalLen(m, r)

LEMMA AddOneReqFacts ==
    ASSUME ControlInv, LengthInv, NEW r \in Request, AddOneReq(r)
    PROVE  /\ pc = "prefill" /\ pc' \in {"prefill", "batch"}
           /\ UNCHANGED <<setup, fresh, waiting_queue, running_batch, last_batch, chunked_req,
                          result_queue>>
           /\ r \in waiting_queue \ adder.can_run_list
           /\ \/ /\ m' = InitNextRoundInput(r) /\ adder' = adder /\ pc' = "batch"
              \/ /\ adder.chunk > 0 /\ rem_total_tokens(m, adder) > 0
                 /\ IsAdded(r)
<1> DEFINE before  == InitNextRoundInput(r)
           pre     == before.req[r].pre
           cand    == before.req[r].fill - pre
           locked  == [before EXCEPT !.tree = IncLockRef(@, before.req[r].last_node)]
           extra   == Max({MaxNew(r) - m.req[r].out, 0})
           tokens  == cand + extra + PageSize
           fits    == FitsBudget(before, locked, tokens)
           whole   == PageSize * CeilPages(cand) <= adder.chunk
           trunc   == PageSize * (adder.chunk \div PageSize)
           extend  == IF whole THEN cand ELSE trunc
           added   == [locked EXCEPT !.req[r].end = pre + extend]
           more    == IF whole THEN MaxNew(r) ELSE 0
           bud     == UpdatePrefillBudget(adder, extend, more)
           charged == [bud EXCEPT !.can_run_list = @ \cup {r}, !.target = NoReq,
                                  !.new_chunked_req = IF whole THEN @ ELSE r]
<1>1. /\ pc = "prefill" /\ pc' \in {"prefill", "batch"}
      /\ UNCHANGED <<setup, fresh, waiting_queue, running_batch, last_batch, chunked_req,
                     result_queue>>
      /\ r \in waiting_queue \ adder.can_run_list
      /\ \/ m' = before /\ adder' = adder /\ pc' = "batch"
         \/ fits /\ extend > 0 /\ m' = added /\ adder' = charged
  <2> HIDE DEF before
  <2> QED
    BY ZenonT(60) DEF AddOneReq, before
<1> SUFFICES ASSUME fits, extend > 0, m' = added, adder' = charged
             PROVE  adder.chunk > 0 /\ rem_total_tokens(m, adder) > 0 /\ IsAdded(r)
  BY <1>1
<1>2. IsMatched(before, r)
  BY SMTT(60), InitNextRoundLens
<1>3. /\ GoodTree(m.tree) /\ Lengths(m.req[r]) /\ AdderTypes /\ DOMAIN adder = AdderFields
      /\ TotalLen(m, r) \in Nat /\ PageSize \in Nat \ {0}
  BY TotalNat, ReqKVAssumption DEF ControlInv, ControlTypes, LengthInv, LengthTypes, Lengths
<1> HIDE DEF before
<1>4. pre \in Nat /\ cand = TotalLen(m, r) - pre /\ cand \in Nat \ {0}
  <2> DEFINE t == TotalLen(m, r)
  <2>1. pre \in Nat /\ pre < t /\ before.req[r].fill = t /\ t \in Nat
    BY <1>2, <1>3 DEF IsMatched
  <2> HIDE DEF pre, t
  <2> QED
    BY SMTT(60), <2>1 DEF t
<1>5. extra \in Nat
  <2>1. MaxNew(r) - m.req[r].out \in Int /\ 0 \in Int
    BY <1>3, MaxNewNat DEF Lengths
  <2> DEFINE z == MaxNew(r) - m.req[r].out
  <2> HIDE DEF z
  <2>2. extra = IF z <= 0 THEN 0 ELSE z
    BY ZenonT(60), <2>1, MinMax DEF z
  <2> HIDE DEF extra
  <2> QED
    BY SMTT(60), <2>1, <2>2 DEF z
<1> HIDE DEF extra
<1>6. rem_total_tokens(m, adder) > 0
  <2>1. tokens < rem_total_tokens(before, adder)
    BY DEF FitsBudget
  <2>2. rem_total_tokens(before, adder) = rem_total_tokens(m, adder)
    BY <1>2 DEF IsMatched, rem_total_tokens, available_size
  <2>3. rem_total_tokens(m, adder) \in Int
    BY SMTT(60), <1>3, RemInt DEF AdderTypes
  <2>4. tokens \in Nat
    BY <1>3, <1>4, <1>5
  <2> DEFINE z == rem_total_tokens(m, adder)
  <2> HIDE DEF tokens, z
  <2> QED
    BY <2>1, <2>2, <2>3, <2>4 DEF z
<1> DEFINE c == adder.chunk
           v == PageSize * CeilPages(cand)
<1>7. /\ c \in Int /\ v \in Int /\ cand <= v
      /\ trunc \in Int /\ trunc <= c /\ c < trunc + PageSize
      /\ ~whole => trunc < cand
  <2>1. c \in Int /\ cand \in Int
    BY <1>3, <1>4 DEF AdderTypes
  <2> HIDE DEF cand, c
  <2>2. v \in Int /\ cand <= v
    BY <2>1, CeilTimes
  <2>3. /\ c \div PageSize \in Int /\ PageSize * (c \div PageSize) <= c
        /\ c < PageSize * (c \div PageSize) + PageSize
    BY <2>1, DivFacts
  <2>4. PageSize * (c \div PageSize) \in Int
    BY <1>3, <2>3
  <2>5. ~(v <= c) => PageSize * (c \div PageSize) < cand
    BY SMTT(60), <2>1, TruncatedShort
  <2> QED
    BY SMTT(60), <2>1, <2>2, <2>3, <2>4, <2>5 DEF c
<1> DEFINE x == PageSize * CeilPages(extend)
<1>8. x = IF whole THEN v ELSE trunc
  <2>1. CASE whole
    BY <2>1
  <2>2. CASE ~whole
    <3>1. extend = trunc
      BY <2>2
    <3>2. adder.chunk \div PageSize \in Int
      BY <1>7, DivFacts
    <3>3. CeilPages(trunc) = adder.chunk \div PageSize
      BY SMTT(60), <3>2, CeilExact
    <3> HIDE DEF whole
    <3> QED
      BY <2>2, <3>1, <3>3
  <2> QED
    BY <2>1, <2>2
<1>9. IsCharged(bud, adder, extend, more)
  BY <1>3, BudgetFacts
<1>10. more \in Nat
  BY MaxNewNat
<1> HIDE DEF bud, more
<1>11. /\ adder'.chunk = c - x /\ adder'.total = adder.total + x + more + PageSize
       /\ adder'.ratio = adder.ratio /\ adder'.can_run_list = adder.can_run_list \cup {r}
       /\ adder'.preempt_list = adder.preempt_list
       /\ adder'.new_chunked_req = IF whole THEN adder.new_chunked_req ELSE r
  <2> HIDE DEF whole, extend, x
  <2> QED
    BY <1>9 DEF IsCharged, AdderFields, x
<1> HIDE DEF x, v, trunc
<1>12. adder'.chunk \in Int /\ adder'.chunk <= c /\ adder'.total \in Int /\ c > 0
  <2>1. adder.total \in Int
    BY <1>3 DEF AdderTypes
  <2>2. x \in Int /\ x > 0 /\ x <= c
    <3> HIDE DEF cand, c
    <3>1. CASE whole
      BY <1>4, <1>7, <1>8, <3>1 DEF v, c, cand
    <3>2. CASE ~whole
      BY <1>7, <1>8, <3>2
    <3> QED
      BY <3>1, <3>2
  <2> HIDE DEF c
  <2> QED
    BY <1>3, <1>7, <1>10, <1>11, <2>1, <2>2
<1>13. ~whole => adder'.chunk < PageSize /\ adder.new_chunked_req = NoReq
  <2> SUFFICES ASSUME ~whole PROVE adder'.chunk < PageSize /\ adder.new_chunked_req = NoReq
    OBVIOUS
  <2>1. x = trunc /\ extend = trunc
    BY <1>8
  <2> HIDE DEF whole, extend, c
  <2>2. adder'.chunk < PageSize
    BY <1>3, <1>7, <1>11, <2>1
  <2>3. c >= PageSize
    <3> DEFINE k == adder.chunk \div PageSize
    <3>1. k \in Int /\ trunc = PageSize * k
      BY <1>7, DivFacts DEF trunc, c
    <3> HIDE DEF k
    <3>2. k > 0
      <4>1. SUFFICES ASSUME k <= 0 PROVE FALSE
        BY <3>1
      <4>2. PICK j \in Nat : k = 0 - j
        <5>1. 0 - k \in Nat /\ k = 0 - (0 - k)
          BY <3>1, <4>1
        <5> QED
          BY <5>1
      <4>3. PageSize * k = 0 - PageSize * j /\ PageSize * j \in Nat
        BY <1>3, <4>2
      <4> QED
        BY <2>1, <3>1, <4>3
    <3>3. PICK j \in Nat : k = j + 1
      <4>1. k - 1 \in Nat /\ k = (k - 1) + 1
        BY <3>1, <3>2
      <4> QED
        BY <4>1
    <3>4. PageSize * k = PageSize * j + PageSize /\ PageSize * j \in Nat
      BY <1>3, <3>3
    <3> QED
      BY <1>3, <1>7, <3>1, <3>4
  <2>4. adder.new_chunked_req = NoReq
    BY <1>3, <1>7, <2>3 DEF AdderTypes, c
  <2> QED
    BY <2>2, <2>4
<1>14. pre + extend \in Nat /\ pre < pre + extend
       /\ IF whole THEN pre + extend = TotalLen(m, r) ELSE pre + extend < TotalLen(m, r)
  <2>1. extend \in Int
    BY <1>4, <1>7
  <2>2. CASE whole
    BY <1>3, <1>4, <2>2
  <2>3. CASE ~whole
    <3>1. extend = trunc /\ trunc < cand
      BY <1>7, <2>3
    <3> HIDE DEF extend, whole
    <3> QED
      BY <1>3, <1>4, <1>7, <2>1, <2>3, <3>1
  <2> QED
    BY <2>2, <2>3
<1> HIDE DEF cand, whole, extend
<1>15. /\ Shape(locked) /\ GoodTree(locked.tree) /\ locked.req = before.req
  <2>1. GoodTree(IncLockRef(before.tree, before.req[r].last_node)) /\ Shape(before)
    BY <1>2, IncDecGood DEF IsMatched
  <2> QED
    BY <2>1 DEF Shape
<1> HIDE DEF locked
<1> DEFINE en == pre + extend
<1>16. /\ m'.tree = locked.tree /\ \A y \in Request \ {r} : m'.req[y] = m.req[y]
       /\ m'.req[r].row = m.req[r].row /\ m'.req[r].out = m.req[r].out
       /\ m'.req[r].com = m.req[r].com /\ m'.req[r].alo = m.req[r].alo
       /\ m'.req[r].last_node = before.req[r].last_node
       /\ m'.req[r].pre = pre /\ m'.req[r].end = en
  <2> HIDE DEF en
  <2>1. m' = [locked EXCEPT !.req[r].end = en]
    BY DEF en
  <2> QED
    BY <1>2, <1>15, <2>1 DEF Shape, ReqFields, IsMatched
<1>17. /\ Len(m'.req[r].last_node) \in Nat
       /\ m'.req[r].pre = PageSize * Len(m'.req[r].last_node)
  BY <1>2, <1>16 DEF IsMatched
<1>18. TotalLen(m, r)' = TotalLen(m, r)
  BY <1>16 DEF TotalLen
<1> HIDE DEF pre, en
<1>19. Lengths(m'.req[r])
  BY <1>3, <1>4, <1>14, <1>16 DEF Lengths, en
<1>20. /\ m'.req[r].pre < m'.req[r].end
       /\ IF whole THEN m'.req[r].end = TotalLen(m, r) ELSE m'.req[r].end < TotalLen(m, r)
  BY <1>14, <1>16 DEF en
<1>21. IsAdded(r)
  BY <1>11, <1>12, <1>13, <1>15, <1>16, <1>17, <1>18, <1>19, <1>20 DEF IsAdded, c
<1> QED
  BY <1>6, <1>12, <1>21 DEF c

LEMMA AddOneReqLens ==
    ASSUME ControlInv, LengthInv, NEW r \in Request, AddOneReq(r)
    PROVE  LengthInv'
<1>0. /\ FiniteBatches /\ AdderTypes /\ DOMAIN adder = AdderFields
      /\ Lengths(m.req[r]) /\ Good(r) /\ pc = "prefill"
      /\ adder.new_chunked_req # NoReq => adder.new_chunked_req \in adder.can_run_list
  BY AddOneReqFacts DEF LengthInv, LengthTypes, ControlInv, ControlTypes, PhaseInv
<1>1. /\ pc = "prefill" /\ pc' \in {"prefill", "batch"}
      /\ UNCHANGED <<setup, fresh, waiting_queue, running_batch, last_batch, chunked_req,
                     result_queue>>
      /\ r \in waiting_queue /\ r \notin adder.can_run_list
  BY AddOneReqFacts
<1>2. /\ r \notin running_batch /\ r \notin last_batch.reqs /\ r # chunked_req
      /\ \A i \in 1..Len(result_queue) : r \notin result_queue[i].reqs
      /\ m.req[r].row = <<>>
  BY <1>0, <1>1 DEF ControlInv, PlaceInv, InQueue, Away, Good, Unlaunched
<1>3. FiniteBatches' /\ pc # "crashed"
  BY <1>0, <1>1 DEF FiniteBatches
<1>4. CASE m' = InitNextRoundInput(r) /\ adder' = adder
  <2>1. IsMatched(m', r)
    BY <1>4, InitNextRoundLens
  <2>2. Good(r)'
    BY <1>1, <1>2, <1>4, <2>1, Released DEF IsMatched
  <2>3. Lengths(m'.req[r])
    BY <1>0, <2>1 DEF IsMatched, Lengths
  <2>4. \A x \in Request \ {r} : SameLens(m'.req[x], m.req[x]) /\ SamePlace(x) /\ SameHits(x)
    BY <1>1, <1>4, <2>1, SameQueue, LensEqual DEF IsMatched, SamePlace, Collecting
  <2>5. AdderTypes'
    BY <1>0, <1>4 DEF AdderTypes
  <2>6. GoodTree(m'.tree)
    BY <2>1 DEF IsMatched
  <2> QED
    BY <1>1, <1>3, <2>2, <2>3, <2>4, <2>5, <2>6, TouchOne
<1>5. CASE IsAdded(r)
  <2>1. AdderTypes'
    <3>1. IsFiniteSet(adder'.can_run_list) /\ IsFiniteSet(adder'.preempt_list)
      BY SMTT(60), <1>0, <1>5, FS_AddElement DEF IsAdded, AdderTypes
    <3>2. adder'.new_chunked_req # NoReq => adder'.chunk < PageSize
      BY <1>0, <1>5, ReqKVAssumption DEF IsAdded, AdderTypes
    <3> QED
      BY <1>0, <1>5, <3>1, <3>2 DEF IsAdded, AdderTypes
  <2>2. Good(r)'
    <3>1. m'.req[r].row = <<>>
      BY <1>2, <1>5 DEF IsAdded
    <3>2. Unlaunched(r)' /\ Launched(r)' /\ Covered(r)' /\ Committed(r)' /\ Chunked(r)'
      BY <1>1, <1>2, <3>1 DEF Unlaunched, Launched, Covered, Committed, Chunked
    <3>3. Admitted(r)'
      <4>1. r # adder.new_chunked_req
        BY <1>0, <1>1, SchedulerAssumption
      <4>2. IF r \in {chunked_req', adder'.new_chunked_req}
            THEN m'.req[r].end < TotalLen(m, r)' ELSE m'.req[r].end = TotalLen(m, r)'
        BY <1>1, <1>2, <1>5, <4>1 DEF IsAdded
      <4> QED
        BY <1>1, <1>2, <1>5, <3>1, <4>2 DEF Admitted, IsAdded
    <3> QED
      BY <3>2, <3>3 DEF Good
  <2>3. ASSUME NEW x \in Request \ {r}
        PROVE  SameLens(m'.req[x], m.req[x]) /\ SamePlace(x) /\ SameHits(x)
    <3>1. SameLens(m'.req[x], m.req[x])
      BY <1>5, LensEqual DEF IsAdded
    <3>2. x = adder'.new_chunked_req <=> x = adder.new_chunked_req
      BY <1>5, SchedulerAssumption DEF IsAdded
    <3>3. SamePlace(x)
      BY <1>1, <1>5, <3>2 DEF IsAdded, SamePlace, Collecting
    <3> QED
      BY <1>1, <3>1, <3>3, SameQueue
  <2>4. GoodTree(m'.tree) /\ Lengths(m'.req[r])
    BY <1>5 DEF IsAdded
  <2> QED
    BY <1>1, <1>3, <2>1, <2>2, <2>3, <2>4, TouchOne
<1> QED
  BY <1>4, <1>5, AddOneReqFacts

-----------------------------------------------------------------------------
(* The start of an iteration. *)

IsMarked(new, mem) ==
    /\ Shape(new) /\ new.tree = mem.tree
    /\ \A x \in Request : SameLens(new.req[x], mem.req[x])

LEMMA MarkLens ==
    ASSUME NEW mem, Shape(mem), NEW T
    PROVE  IsMarked(MarkTimedOut(mem, T), mem)
<1>1. Shape(MarkTimedOut(mem, T)) /\ MarkTimedOut(mem, T).tree = mem.tree
  BY DEF MarkTimedOut, Shape, ReqFields
<1>2. ASSUME NEW x \in Request PROVE SameLens(MarkTimedOut(mem, T).req[x], mem.req[x])
  BY DEF MarkTimedOut, Shape, ReqFields, SameLens
<1> QED
  BY <1>1, <1>2 DEF IsMarked

LEMMA PrepareStepLens ==
    ASSUME ControlInv, LengthInv, NEW W, NEW T, PrepareStep(W, T)
    PROVE  LengthInv'
<1> DEFINE p0 == ProcessPendingChunkedAbort
           p1 == MarkTimedOut(p0, T)
           ch == IF AbortedChunk THEN NoReq ELSE chunked_req
           p2 == StashChunkedRequest(p1, ch)
<1>0. /\ m' = p2 /\ chunked_req' = ch /\ pc = "idle" /\ pc' = "admit"
      /\ waiting_queue' \subseteq waiting_queue
      /\ running_batch' \subseteq running_batch \cup last_batch.reqs
      /\ last_batch' = NoBatch
      /\ UNCHANGED <<setup, fresh, result_queue, adder>>
  BY DEF PrepareStep
<1>1. /\ FiniteBatches /\ AdderTypes /\ adder = NoAdder /\ Shape(m) /\ GoodTree(m.tree)
      /\ \A x \in Request : Lengths(m.req[x]) /\ Good(x)
      /\ chunked_req \in Request \cup {NoReq}
  BY <1>0 DEF LengthInv, LengthTypes, ControlInv, ControlTypes, PhaseInv, Collecting
<1>2. AdderTypes' /\ FiniteBatches'
  <2>1. AdderTypes'
    BY <1>0, <1>1 DEF AdderTypes
  <2>2. IsFiniteSet(waiting_queue') /\ IsFiniteSet(running_batch')
    BY ZenonT(60), <1>0, <1>1, FS_Subset, FS_Union DEF FiniteBatches
  <2>3. IsFiniteSet(last_batch'.reqs)
    BY <1>0, FS_EmptySet DEF NoBatch
  <2> QED
    BY <2>1, <2>2, <2>3 DEF FiniteBatches
<1>3. adder.can_run_list = {} /\ last_batch'.reqs = {}
  BY <1>0, <1>1 DEF NoAdder, NoBatch
<1> HIDE DEF p2, ch
<1>4. ASSUME NEW x \in Request, x = chunked_req' <=> x = chunked_req PROVE SamePlace(x) \/ x = chunked_req
  BY <1>0, <1>3, <1>4 DEF SamePlace, Collecting
<1>5. CASE chunked_req = NoReq
  <2>1. p0 = m /\ ch = NoReq
    BY <1>5 DEF ProcessPendingChunkedAbort, AbortedChunk, ch
  <2>2. IsMarked(p1, m)
    BY <1>1, <2>1, MarkLens
  <2>3. m' = p1
    BY <1>0, <2>1 DEF p2, StashChunkedRequest
  <2>4. \A x \in Request : SamePlace(x)
    BY <1>0, <1>4, <1>5, <2>1, SchedulerAssumption
  <2>5. Still
    BY <1>0, <1>1, <2>2, <2>3, <2>4, SameQueue DEF Still, IsMarked
  <2> QED
    BY <1>2, <2>5, StillKeeps
<1>6. CASE AbortedChunk
  <2>1. PICK r \in Request : r = chunked_req
    BY <1>1, <1>6 DEF AbortedChunk
  <2> DEFINE mem == ReleaseKV(m, r, FALSE)
  <2>2. IsReleased(mem, m, r) /\ Shape(mem)
    BY ZenonT(60), <1>1, ReleaseKVLens, ReleaseKVKeeps DEF FlagsKept
  <2>3. p0 = [mem EXCEPT !.req[r].finished = TRUE, !.req[r].to_finish = FALSE]
    BY <1>6, <2>1 DEF ProcessPendingChunkedAbort
  <2> HIDE DEF mem, p0
  <2>4. /\ Shape(p0) /\ p0.tree = mem.tree /\ p0.req[r].finished
        /\ \A x \in Request \ {r} : p0.req[x] = mem.req[x]
        /\ p0.req[r].row = mem.req[r].row /\ p0.req[r].out = mem.req[r].out
        /\ p0.req[r].pre = mem.req[r].pre /\ p0.req[r].end = mem.req[r].end
        /\ p0.req[r].com = mem.req[r].com /\ p0.req[r].alo = mem.req[r].alo
    BY <2>2, <2>3 DEF Shape, ReqFields
  <2>5. IsMarked(p1, p0)
    BY <2>4, MarkLens
  <2> HIDE DEF p1
  <2>6. m' = p1 /\ chunked_req' = NoReq
    BY <1>0, <1>6 DEF p2, ch, StashChunkedRequest
  <2>7. /\ GoodTree(m'.tree) /\ m'.req[r].row = <<>> /\ m'.req[r].finished
        /\ \A x \in Request \ {r} : SameLens(m'.req[x], m.req[x])
    BY <2>2, <2>4, <2>5, <2>6 DEF IsReleased, IsMarked, SameLens
  <2>8. Lengths(m'.req[r])
    BY <1>1, <2>2, <2>4, <2>5, <2>6, RowFacts DEF IsReleased, IsMarked, SameLens, Lengths
  <2>9. Good(r)'
    BY <1>0, <1>3, <2>6, <2>7, Released, SchedulerAssumption
  <2>10. \A x \in Request \ {r} : SamePlace(x) /\ SameHits(x)
    BY <1>0, <1>4, <2>1, <2>6, SameQueue, SchedulerAssumption
  <2> QED
    BY <1>0, <1>2, <2>7, <2>8, <2>9, <2>10, TouchOne
<1>7. CASE ~AbortedChunk /\ chunked_req # NoReq
  <2>1. PICK r \in Request : r = chunked_req
    BY <1>1, <1>7
  <2>2. p0 = m /\ ch = r
    BY <1>7, <2>1 DEF ProcessPendingChunkedAbort, ch
  <2>3. IsMarked(p1, m)
    BY <1>1, <2>2, MarkLens
  <2> HIDE DEF p0, p1
  <2> DEFINE q == m.req[r]
  <2>4. m' = IF p1.req[r].end > p1.req[r].pre THEN CacheUnfinished(p1, r) ELSE p1
    BY <1>0, <2>2, SchedulerAssumption DEF p2, StashChunkedRequest
  <2>5. /\ q.row # <<>> /\ q.com = q.alo /\ q.end = q.com /\ q.pre <= q.end
        /\ q.end < TotalLen(m, r) /\ Lengths(q) /\ Good(r)
    BY <1>0, <1>1, <2>1 DEF Good, Chunked, Collecting
  <2>6. /\ Shape(p1) /\ GoodTree(p1.tree) /\ SameLens(p1.req[r], q)
        /\ \A x \in Request \ {r} : SameLens(p1.req[x], m.req[x])
        /\ Lengths(p1.req[r])
    BY <1>1, <2>3, <2>5 DEF IsMarked, SameLens, Lengths
  <2> DEFINE p == m'.req[r]
  <2>7. /\ GoodTree(m'.tree) /\ \A x \in Request \ {r} : SameLens(m'.req[x], m.req[x])
        /\ SameFlags(p, q) /\ IsRow(p.row) /\ Len(p.row) = Len(q.row)
        /\ p.pre = q.end /\ p.end = q.end /\ p.out = q.out /\ p.com = q.com /\ p.alo = q.alo
    <3>1. CASE p1.req[r].end > p1.req[r].pre
      <4>1. IsStashed(m', p1, r) /\ FlagsKept(p1, m')
        BY SMTT(60), <2>4, <2>6, <3>1, CacheUnfinishedLens, CacheUnfinishedKeeps
      <4> QED
        BY SMTT(60), <2>6, <4>1 DEF IsStashed, FlagsKept, SameFlags, SameLens
    <3>2. CASE ~(p1.req[r].end > p1.req[r].pre)
      <4>1. m' = p1
        BY <2>4, <3>2
      <4>2. p.pre = q.end
        BY <2>5, <2>6, <3>2, <4>1 DEF SameLens, Lengths
      <4> QED
        BY <2>5, <2>6, <4>1, <4>2 DEF SameLens, SameFlags, Lengths
    <3> QED
      BY SMTT(60), <3>1, <3>2
  <2>8. Lengths(p) /\ p.row # <<>> /\ TotalLen(m, r)' = TotalLen(m, r)
    <3>1. Lengths(p)
      BY <2>5, <2>7 DEF Lengths
    <3>2. p.row # <<>>
      BY <2>5, <2>7, RowFacts DEF Lengths
    <3>3. TotalLen(m, r)' = TotalLen(m, r)
      BY <2>7 DEF TotalLen
    <3> QED
      BY <3>1, <3>2, <3>3
  <2>9. Good(r)'
    <3>1. Unlaunched(r)'
      <4>1. /\ r \notin fresh \cup waiting_queue /\ adder'.preempt_list = {}
            /\ ~q.finished /\ ~q.is_retracted
        BY <1>0, <1>1, <2>1
           DEF ControlInv, PlaceInv, InFresh, InQueue, InChunks, Away, NoAdder
      <4> QED
        BY <1>0, <2>7, <4>1 DEF Unlaunched, SameFlags
    <3>2. Launched(r)' /\ Committed(r)' /\ Admitted(r)'
      BY <1>0, <1>3, <2>2, <2>8 DEF Launched, Committed, Admitted
    <3>3. Covered(r)'
      BY <1>0, <2>5, <2>7 DEF Good, Covered
    <3>4. Chunked(r)'
      BY <2>5, <2>7, <2>8 DEF Chunked, Lengths
    <3> QED
      BY <3>1, <3>2, <3>3, <3>4 DEF Good
  <2>10. \A x \in Request \ {r} : SamePlace(x) /\ SameHits(x)
    BY <1>0, <1>4, <2>1, <2>2, SameQueue
  <2> QED
    BY <1>0, <1>2, <2>7, <2>8, <2>9, <2>10, TouchOne
<1> QED
  BY <1>1, <1>5, <1>6, <1>7

-----------------------------------------------------------------------------
(* Launching a batch. *)

LEMMA NextAllocatedLens ==
    ASSUME setup.draft \in Nat, NEW q, q.com \in Nat, q.alo \in Nat
    PROVE  LET n == NextAllocated(q)
           IN  /\ n \in Nat /\ n >= q.alo
               /\ setup.draft = 0 => n = q.alo + 1
               /\ setup.draft # 0 => n >= q.com + 2 * setup.draft
<1>1. CASE setup.draft = 0
  BY <1>1 DEF NextAllocated
<1>2. CASE setup.draft # 0
  <2> DEFINE k == q.com + 2 * setup.draft
             w == PageSize * CeilPages(k)
             a == q.alo
  <2>1. k \in Nat
    OBVIOUS
  <2> HIDE DEF k
  <2>2. w \in Int /\ k <= w
    BY <2>1, CeilTimes
  <2>3. NextAllocated(q) = Max({a, w})
    BY <1>2 DEF NextAllocated, k
  <2> HIDE DEF w, a
  <2>4. a \in Nat
    BY DEF a
  <2>5. Max({a, w}) = IF a <= w THEN w ELSE a
    BY <2>2, <2>4, MinMax
  <2> DEFINE n == NextAllocated(q)
  <2>6. n = IF a <= w THEN w ELSE a
    BY <2>3, <2>5
  <2> HIDE DEF n
  <2>7. n \in Nat /\ n >= a /\ n >= k
    BY <2>1, <2>2, <2>4, <2>6
  <2> QED
    BY <1>2, <2>7 DEF n, a, k
<1> QED
  BY <1>1, <1>2

GrowPages(r) == CeilPages(NextAllocated(m.req[r])) - CeilPages(m.req[r].alo)

(* The sum over the one request r. *)
LEMMA DecodePagesOne ==
    ASSUME NEW r, GrowPages(r) \in Int
    PROVE  DecodePages({r}) = GrowPages(r)
<1> DEFINE c(s) == CHOOSE x \in s : TRUE
           IsSum(g) == g = [s \in SUBSET {r} |-> IF s = {} THEN 0
                                                 ELSE GrowPages(c(s)) + g[s \ {c(s)}]]
           f == CHOOSE g : IsSum(g)
<1>1. DecodePages({r}) = f[{r}]
  BY DEF DecodePages, GrowPages, MapThenSumSet, MapThenFoldSet
<1>2. c({r}) = r /\ {r} \ {r} = {} /\ {r} # {}
  OBVIOUS
<1>3. \E g : IsSum(g)
  <2> DEFINE h == [s \in SUBSET {r} |-> IF s = {} THEN 0 ELSE GrowPages(r) + 0]
  <2>1. ASSUME NEW s \in SUBSET {r}
        PROVE  h[s] = IF s = {} THEN 0 ELSE GrowPages(c(s)) + h[s \ {c(s)}]
    <3>1. CASE s = {}
      BY <3>1
    <3>2. CASE s = {r}
      <4>1. h[{}] = 0 /\ c(s) = r /\ s \ {c(s)} = {}
        BY <3>2
      <4> HIDE DEF c
      <4> QED
        BY ZenonT(60), <3>2, <4>1
    <3> QED
      BY <3>1, <3>2
  <2>2. h = [s \in SUBSET {r} |-> h[s]]
    OBVIOUS
  <2> HIDE DEF h, c
  <2>3. h = [s \in SUBSET {r} |-> IF s = {} THEN 0 ELSE GrowPages(c(s)) + h[s \ {c(s)}]]
    BY ZenonT(60), <2>1, <2>2
  <2> QED
    BY <2>3
<1>4. IsSum(f)
  BY ZenonT(60), <1>3
<1> HIDE DEF f, c
<1>5. f[{}] = 0
  BY <1>4
<1>6. f[{r}] = GrowPages(r) + f[{}]
  BY ZenonT(60), <1>2, <1>4
<1> QED
  BY <1>1, <1>5, <1>6

LEMMA LaunchDecodeLens ==
    ASSUME ControlInv, LengthInv, NEW E, LaunchDecode(E)
    PROVE  LengthInv'
<1> DEFINE S == running_batch
           e == Evict(m, E)
           d == PrepareForDecode(e, S)
           need == [r \in S |-> DecodePages({r})]
           b == [extend |-> FALSE, reqs |-> S, chunked_req |-> NoReq]
<1>0. /\ Shape(m) /\ GoodTree(m.tree) /\ FiniteBatches /\ AdderTypes /\ adder = NoAdder
      /\ last_batch = NoBatch /\ pc = "launch" /\ S \in SUBSET Request /\ setup.draft \in Nat
      /\ \A r \in Request : Lengths(m.req[r]) /\ Good(r)
      /\ result_queue \in Seq(Batch) /\ Len(result_queue) <= 1
      /\ \A r \in S : ~m.req[r].finished
      /\ UNCHANGED <<setup, fresh, waiting_queue, running_batch, last_batch, chunked_req, adder>>
  BY DEF LaunchDecode, LengthInv, LengthTypes, ControlInv, ControlTypes, PhaseInv, Collecting,
         QueueInv, QueueLens, Setup, batches
<1>1. AdderTypes' /\ FiniteBatches'
  BY <1>0 DEF AdderTypes, FiniteBatches
<1>2. CASE pc' = "crashed" /\ UNCHANGED m
  BY <1>0, <1>1, <1>2 DEF LengthInv, LengthTypes
<1>3. CASE m' = GrowRows(d, S, need) /\ Launch(b)
  <2>1. e.req = m.req /\ Shape(e) /\ GoodTree(e.tree)
    BY <1>0, EvictKeeps, EvictLens
  <2> HIDE DEF e
  <2>2. /\ Shape(d) /\ d.tree = e.tree /\ \A r \in Request \ S : d.req[r] = m.req[r]
        /\ \A r \in S : /\ SameFlags(d.req[r], m.req[r]) /\ d.req[r].row = m.req[r].row
                        /\ d.req[r].out = m.req[r].out /\ d.req[r].pre = m.req[r].pre
                        /\ d.req[r].end = m.req[r].end
                        /\ d.req[r].alo = NextAllocated(m.req[r])
                        /\ d.req[r].com = IF setup.draft = 0 THEN m.req[r].com + 1 ELSE m.req[r].com
    <3>1. Shape(d) /\ d.tree = e.tree /\ \A r \in Request \ S : d.req[r] = m.req[r]
      BY <1>0, <2>1 DEF PrepareForDecode, Shape, ReqFields
    <3>2. ASSUME NEW r \in S
          PROVE  d.req[r] = [m.req[r] EXCEPT !.alo = NextAllocated(m.req[r]),
                                !.com = IF setup.draft = 0 THEN m.req[r].com + 1 ELSE m.req[r].com]
      BY ZenonT(60), <1>0, <2>1 DEF PrepareForDecode, Shape, ReqFields
    <3>3. ASSUME NEW r \in S
          PROVE  /\ SameFlags(d.req[r], m.req[r]) /\ d.req[r].row = m.req[r].row
                 /\ d.req[r].out = m.req[r].out /\ d.req[r].pre = m.req[r].pre
                 /\ d.req[r].end = m.req[r].end
                 /\ d.req[r].alo = NextAllocated(m.req[r])
                 /\ d.req[r].com = IF setup.draft = 0 THEN m.req[r].com + 1 ELSE m.req[r].com
      <4> DEFINE q == m.req[r]
                 a == NextAllocated(q)
                 c == IF setup.draft = 0 THEN q.com + 1 ELSE q.com
      <4>1. d.req[r] = [q EXCEPT !.alo = a, !.com = c] /\ DOMAIN q = ReqFields
        BY ZenonT(60), <1>0, <3>2 DEF Shape
      <4> HIDE DEF d, a, c, q
      <4>2. /\ SameFlags(d.req[r], q) /\ d.req[r].row = q.row
            /\ d.req[r].out = q.out /\ d.req[r].pre = q.pre /\ d.req[r].end = q.end
            /\ d.req[r].alo = a /\ d.req[r].com = c
        BY <4>1 DEF ReqFields, SameFlags
      <4> QED
        BY <4>2 DEF a, c, q
    <3> QED
      BY <3>1, <3>3
  <2> HIDE DEF d
  <2>3. ASSUME NEW r \in S
        PROVE  /\ NextAllocated(m.req[r]) \in Nat /\ NextAllocated(m.req[r]) >= m.req[r].alo
               /\ setup.draft = 0 => NextAllocated(m.req[r]) = m.req[r].alo + 1
               /\ setup.draft # 0 => NextAllocated(m.req[r]) >= m.req[r].com + 2 * setup.draft
               /\ need[r] \in Nat
               /\ need[r] = CeilPages(NextAllocated(m.req[r])) - CeilPages(m.req[r].alo)
               /\ CeilPages(m.req[r].alo) \in Nat /\ CeilPages(NextAllocated(m.req[r])) \in Nat
    <3>1. m.req[r].com \in Nat /\ m.req[r].alo \in Nat
      BY <1>0 DEF Lengths
    <3>2. /\ NextAllocated(m.req[r]) \in Nat /\ NextAllocated(m.req[r]) >= m.req[r].alo
          /\ setup.draft = 0 => NextAllocated(m.req[r]) = m.req[r].alo + 1
          /\ setup.draft # 0 => NextAllocated(m.req[r]) >= m.req[r].com + 2 * setup.draft
      BY <1>0, <3>1, NextAllocatedLens
    <3> DEFINE x == CeilPages(m.req[r].alo)
               y == CeilPages(NextAllocated(m.req[r]))
    <3>3. x \in Nat /\ y \in Nat /\ x <= y
      BY <3>1, <3>2, CeilMono, CeilPositive
    <3>4. GrowPages(r) = y - x
      BY DEF GrowPages
    <3>5. need[r] = GrowPages(r)
      BY <3>3, <3>4, DecodePagesOne
    <3> HIDE DEF x, y, need
    <3>6. need[r] \in Nat /\ need[r] = y - x
      BY <3>3, <3>4, <3>5
    <3> QED
      BY <3>2, <3>3, <3>6 DEF x, y
  <2> HIDE DEF need
  <2>4. FlagsKept(d, m')
    BY <1>0, <1>3, <2>2, GrowRowsKeeps
  <2>5. /\ m'.tree = d.tree /\ \A r \in Request \ S : m'.req[r] = d.req[r]
        /\ \A r \in S : /\ IsRow(m'.req[r].row)
                        /\ Len(m'.req[r].row) = Len(d.req[r].row) + need[r]
                        /\ m'.req[r].out = d.req[r].out /\ m'.req[r].pre = d.req[r].pre
                        /\ m'.req[r].end = d.req[r].end
                        /\ m'.req[r].com = d.req[r].com /\ m'.req[r].alo = d.req[r].alo
    <3>1. \A r \in S : need[r] \in Nat /\ IsRow(d.req[r].row)
      BY <1>0, <2>2, <2>3 DEF Lengths
    <3>2. IsGrown(GrowRows(d, S, need), d, S, need)
      BY <1>0, <2>2, <3>1, GrowRowsLens
    <3>3. IsGrown(m', d, S, need)
      BY <1>3, <3>2
    <3> QED
      BY <3>3 DEF IsGrown
  <2>6. b \in Batch /\ b.extend = FALSE /\ b.reqs = S /\ result_queue' = Append(result_queue, b)
    BY <1>0, <1>3 DEF Batch, Launch
  <2>7. pc' \in {"idle", "result"}
    BY <1>3 DEF Launch
  <2>8. ASSUME NEW r, NEW A
        PROVE  Cardinality(Hits(result_queue', r, A)) = Cardinality(Hits(result_queue, r, A))
                   + IF FALSE \in A /\ r \in S THEN 1 ELSE 0
    <3> HIDE DEF b
    <3>1. Cardinality(Hits(Append(result_queue, b), r, A)) = Cardinality(Hits(result_queue, r, A))
              + IF b.extend \in A /\ r \in b.reqs THEN 1 ELSE 0
      BY <1>0, <2>6, AppendHits
    <3> QED
      BY ZenonT(60), <2>6, <3>1
  <2> HIDE DEF b
  <2>9. ASSUME NEW r \in Request \ S PROVE Good(r)' /\ Lengths(m'.req[r])
    <3>1. m'.req[r] = m.req[r]
      BY <2>2, <2>5
    <3>2. SameHits(r)
      <4>1. ASSUME NEW A
            PROVE  Cardinality(Hits(result_queue', r, A)) = Cardinality(Hits(result_queue, r, A))
        <5> DEFINE h == Cardinality(Hits(result_queue, r, A))
        <5>1. Len(result_queue) \in Nat /\ Len(result_queue) <= 2
          BY <1>0
        <5>2. h \in 0..2
          BY <5>1, HitsNat
        <5>3. Cardinality(Hits(result_queue', r, A)) = h + 0
          BY ZenonT(60), <2>8
        <5> HIDE DEF h
        <5>4. h + 0 = h
          BY <5>2
        <5> QED
          BY <5>3, <5>4 DEF h
      <4> QED
        BY <4>1 DEF SameHits
    <3>3. SamePlace(r)
      <4>1. adder.can_run_list = {}
        BY <1>0 DEF NoAdder
      <4> QED
        BY <1>0, <2>7, <4>1 DEF SamePlace, Collecting
    <3> QED
      BY <1>0, <3>1, <3>2, <3>3, LensEqual, Untouched
  <2>10. ASSUME NEW r \in S PROVE Good(r)' /\ Lengths(m'.req[r])
    <3> DEFINE q == m.req[r]
               p == m'.req[r]
               n == NextAllocated(q)
    <3>0. r \in Request /\ Good(r) /\ Lengths(q)
      BY <1>0
    <3>1. /\ SameFlags(p, q) /\ IsRow(p.row) /\ Len(p.row) = Len(q.row) + need[r]
          /\ p.out = q.out /\ p.pre = q.pre /\ p.end = q.end /\ p.alo = n
          /\ p.com = IF setup.draft = 0 THEN q.com + 1 ELSE q.com
      BY <3>0, <2>2, <2>4, <2>5 DEF FlagsKept, SameFlags
    <3>2. q.row # <<>> /\ Len(q.row) \in Nat /\ Len(q.row) # 0
      BY <1>0, <3>0, RowFacts DEF Good, Launched, Lengths, IsRow
    <3>3. p.row # <<>>
      <4>1. need[r] \in Nat
        BY <2>3
      <4>2. Len(p.row) # 0
        BY <3>1, <3>2, <4>1
      <4> QED
        BY <3>1, <4>2, RowFacts
    <3>4. TotalLen(m, r)' = TotalLen(m, r) /\ TotalLen(m, r) \in Nat
      BY <3>0, <3>1, TotalNat DEF TotalLen, Lengths
    <3>5. /\ n \in Nat /\ n >= q.alo /\ (setup.draft = 0 => n = q.alo + 1)
          /\ setup.draft # 0 => n >= q.com + 2 * setup.draft
      BY <2>3
    <3>6. q.com \in Nat /\ q.alo \in Nat /\ q.inflight \in Int
      BY <3>0 DEF Lengths, ControlInv, ControlTypes
    <3>7. Lengths(p)
      BY SMTT(60), <3>0, <3>1, <3>5, <3>6 DEF Lengths
    <3>8. /\ r # chunked_req /\ r \notin adder.can_run_list
          /\ r \notin fresh \cup waiting_queue \cup adder.preempt_list
          /\ ~q.finished /\ ~q.is_retracted
      <4>1. r # chunked_req /\ r \notin fresh \cup waiting_queue
        BY <1>0, <3>0 DEF ControlInv, PlaceInv, InChunks, InFresh, InQueue, Away
      <4> QED
        BY <1>0, <3>0, <3>2, <4>1 DEF NoAdder, Good, Unlaunched
    <3>9. Unlaunched(r)' /\ Launched(r)' /\ Chunked(r)' /\ Admitted(r)'
      BY <1>0, <3>1, <3>3, <3>8 DEF Unlaunched, Launched, Chunked, Admitted, SameFlags
    <3>10. Covered(r)'
      <4> DEFINE h == Cardinality(Hits(result_queue, r, {FALSE}))
                 g == Cardinality(Hits(result_queue', r, {FALSE}))
      <4>1. h \in Nat /\ h <= 1
        <5>1. Len(result_queue) \in Nat
          BY <1>0
        <5>2. h = Hit(result_queue, r, {FALSE}, 1) + Hit(result_queue, r, {FALSE}, 2)
          BY <1>0, <5>1, HitsCount
        <5>3. Hit(result_queue, r, {FALSE}, 1) \in {0, 1}
          BY DEF Hit
        <5>4. ~(2 <= Len(result_queue))
          BY <1>0, <5>1
        <5>5. Hit(result_queue, r, {FALSE}, 2) = 0
          BY <5>4 DEF Hit
        <5> HIDE DEF h
        <5> QED
          BY <5>2, <5>3, <5>5
      <4>2. g = h + 1
        BY ZenonT(60), <2>8
      <4>3. Len(q.row) = CeilPages(q.alo) /\ (setup.draft = 0 => q.com = q.alo)
        BY <3>0, <3>2 DEF Good, Covered
      <4>4. Len(p.row) = CeilPages(n)
        <5> DEFINE x == CeilPages(q.alo)
                   y == CeilPages(n)
        <5>1. need[r] = y - x /\ x \in Nat /\ y \in Nat
          BY <2>3
        <5>2. Len(p.row) = x + need[r]
          BY <3>1, <4>3
        <5> HIDE DEF x, y, p
        <5>3. Len(p.row) = y
          BY <5>1, <5>2
        <5> QED
          BY <5>3 DEF y
      <4> HIDE DEF h, g
      <4>5. setup.draft = 0 => p.com = p.alo
        BY <3>1, <3>5, <3>6, <4>3
      <4>6. p.com + g * setup.draft <= p.alo
        <5>1. CASE setup.draft = 0
          BY <3>1, <3>5, <3>6, <4>1, <4>2, <4>3, <5>1
        <5>2. CASE setup.draft # 0
          <6> DEFINE k == setup.draft
          <6>1. k \in Nat /\ (h = 0 \/ h = 1)
            BY <1>0, <4>1
          <6>2. g * k <= 2 * k /\ g * k \in Nat
            BY <4>2, <6>1
          <6>3. n >= q.com + 2 * k /\ p.com = q.com /\ p.alo = n
            BY <3>1, <3>5, <5>2
          <6> HIDE DEF k, n, p, q
          <6>4. p.com + g * k <= p.alo
            BY <3>5, <3>6, <6>1, <6>2, <6>3
          <6> QED
            BY <6>4 DEF k
        <5> QED
          BY <5>1, <5>2
      <4> QED
        BY <1>0, <3>1, <4>4, <4>5, <4>6 DEF Covered, g
    <3>11. Committed(r)'
      <4> DEFINE A == IF setup.draft = 0 THEN BOOLEAN ELSE {TRUE}
                 h == Cardinality(Hits(result_queue, r, A))
                 g == Cardinality(Hits(result_queue', r, A))
                 t == TotalLen(m, r)
      <4>1. FALSE \in A <=> setup.draft = 0
        BY ZenonT(60)
      <4>2. g = h + IF setup.draft = 0 THEN 1 ELSE 0
        <5> HIDE DEF A
        <5> QED
          BY ZenonT(60), <2>8, <4>1
      <4>3. h \in Nat
        <5>1. h \in 0..2
          BY <1>0, HitsNat
        <5> QED
          BY <5>1
      <4>4. ~setup.preemption => q.com = t - 1 + h - q.inflight
        BY <3>0, <3>2, <3>8 DEF Good, Committed
      <4> HIDE DEF h, g, A
      <4>5. ~setup.preemption => p.com = t - 1 + g - q.inflight
        <5> DEFINE i == q.inflight
                   x == q.com
        <5>1. t \in Nat /\ i \in Int /\ x \in Nat /\ (~setup.preemption => x = t - 1 + h - i)
          BY <3>4, <3>6, <4>4
        <5>2. p.com = IF setup.draft = 0 THEN x + 1 ELSE x
          BY <3>1
        <5> HIDE DEF t, i, x
        <5>3. ~setup.preemption => p.com = t - 1 + g - i
          <6> HIDE DEF p
          <6> QED
            BY <4>2, <4>3, <5>1, <5>2
        <5> QED
          BY <5>3 DEF i
      <4> QED
        BY <1>0, <3>1, <3>4, <4>5 DEF Committed, SameFlags, g, A
    <3> QED
      BY <3>7, <3>9, <3>10, <3>11 DEF Good
  <2>11. GoodTree(m'.tree)
    BY <2>1, <2>2, <2>5
  <2>12. \A r \in Request : Good(r)' /\ Lengths(m'.req[r])
    BY <2>9, <2>10
  <2> QED
    BY <1>1, <2>11, <2>12 DEF LengthInv, LengthTypes
<1> QED
  <2>1. (pc' = "crashed" /\ UNCHANGED m) \/ (m' = GrowRows(d, S, need) /\ Launch(b))
    BY ZenonT(30) DEF LaunchDecode
  <2> QED
    BY <1>2, <1>3, <2>1

(* The memory after alloc_for_extend. *)
IsExtended(new, mem, S) ==
    /\ Shape(new) /\ new.tree = mem.tree
    /\ \A r \in Request \ S : new.req[r] = mem.req[r]
    /\ \A r \in S : LET p == new.req[r]
                        q == mem.req[r]
                    IN  /\ p.finished = q.finished /\ p.inflight = q.inflight
                        /\ p.is_retracted = FALSE
                        /\ p.out = q.out /\ p.pre = q.pre /\ p.end = q.end
                        /\ p.com = q.end /\ p.alo = q.end
                        /\ IsRow(p.row) /\ Len(p.row) = CeilPages(q.end)

LEMMA ExtendLens ==
    ASSUME NEW e, Shape(e), NEW S \in SUBSET Request,
           \A r \in S : LET q == e.req[r]
                        IN  /\ q.pre \in Nat /\ q.end \in Nat /\ q.pre < q.end /\ IsRow(q.row)
                            /\ IF q.row = <<>>
                               THEN Len(q.last_node) \in Nat /\ q.pre = PageSize * Len(q.last_node)
                               ELSE Len(q.row) = CeilPages(q.pre)
    PROVE  IsExtended(AllocForExtend(e, S), e, S)
<1> DEFINE p    == PrepareForExtend(e, S)
           need == [r \in S |-> ExtendPages(e, r)]
           g    == GrowRows(p, S, need)
<1>1. AllocForExtend(e, S) = g
  BY DEF AllocForExtend
<1>2. Shape(p) /\ p.tree = e.tree /\ \A r \in Request \ S : p.req[r] = e.req[r]
  BY DEF PrepareForExtend, Shape, ReqFields
<1>3. ASSUME NEW r \in S
      PROVE  /\ p.req[r].finished = e.req[r].finished /\ p.req[r].inflight = e.req[r].inflight
             /\ p.req[r].is_retracted = FALSE /\ p.req[r].out = e.req[r].out
             /\ p.req[r].pre = e.req[r].pre /\ p.req[r].end = e.req[r].end
             /\ p.req[r].com = e.req[r].end /\ p.req[r].alo = e.req[r].end
             /\ p.req[r].row = IF e.req[r].row = <<>> THEN PagesOf(e.tree, e.req[r].last_node)
                               ELSE e.req[r].row
  <2> DEFINE q == e.req[r]
             w == IF q.row = <<>> THEN PagesOf(e.tree, q.last_node) ELSE q.row
  <2>1. p.req[r] = [q EXCEPT !.row = w, !.com = q.end, !.alo = q.end, !.is_retracted = FALSE]
    <3> DEFINE f == [x \in Request |->
                       IF x \in S
                       THEN [e.req[x] EXCEPT
                                !.row = IF e.req[x].row = <<>> THEN PagesOf(e.tree, e.req[x].last_node)
                                        ELSE e.req[x].row,
                                !.com = e.req[x].end,
                                !.alo = e.req[x].end,
                                !.is_retracted = FALSE]
                       ELSE e.req[x]]
    <3>1. p = [e EXCEPT !.req = f]
      BY ZenonT(60) DEF PrepareForExtend
    <3>2. f[r] = [q EXCEPT !.row = w, !.com = q.end, !.alo = q.end, !.is_retracted = FALSE]
      BY ZenonT(60)
    <3> HIDE DEF f, p
    <3>3. p.req = f
      BY <3>1 DEF Shape
    <3> QED
      BY <3>2, <3>3
  <2>2. DOMAIN q = ReqFields
    BY DEF Shape
  <2> DEFINE n == q.end
  <2>3. p.req[r] = [q EXCEPT !.row = w, !.com = n, !.alo = n, !.is_retracted = FALSE]
    BY <2>1
  <2> HIDE DEF p, w, q, n
  <2>4. /\ p.req[r].finished = q.finished /\ p.req[r].inflight = q.inflight
        /\ p.req[r].is_retracted = FALSE /\ p.req[r].out = q.out
        /\ p.req[r].pre = q.pre /\ p.req[r].end = q.end
        /\ p.req[r].com = n /\ p.req[r].alo = n /\ p.req[r].row = w
    BY <2>2, <2>3 DEF ReqFields
  <2> QED
    BY <2>4 DEF w, q, n
<1>4. ASSUME NEW r \in S
      PROVE  /\ IsRow(p.req[r].row) /\ need[r] \in Nat
             /\ Len(p.req[r].row) + need[r] = CeilPages(e.req[r].end)
  <2> DEFINE q == e.req[r]
             x == CeilPages(q.pre)
             y == CeilPages(q.end)
             k == Len(q.last_node)
             w == PagesOf(e.tree, q.last_node)
  <2>0. /\ q.pre \in Nat /\ q.end \in Nat /\ q.pre < q.end /\ IsRow(q.row)
        /\ q.row = <<>> => k \in Nat /\ q.pre = PageSize * k
        /\ q.row # <<>> => Len(q.row) = x
    OBVIOUS
  <2>1. need[r] = y - x
    BY DEF ExtendPages
  <2>2. x \in Nat /\ y \in Nat /\ x <= y
    <3>1. x \in Nat /\ y \in Nat
      BY ZenonT(60), <2>0, CeilPositive
    <3>2. q.pre \in Int /\ q.end \in Int /\ q.pre <= q.end
      BY <2>0
    <3>3. x <= y
      BY <3>2, CeilMono
    <3> QED
      BY <3>1, <3>3
  <2>3. q.row = <<>> => IsRow(w) /\ Len(w) = x
    <3> SUFFICES ASSUME q.row = <<>> PROVE IsRow(w) /\ Len(w) = x
      OBVIOUS
    <3>1. k \in Nat /\ x = k
      BY <2>0, CeilExact
    <3>2. w = [i \in 1..k |-> e.tree.value[SubSeq(q.last_node, 1, i)]]
      BY DEF PagesOf
    <3> HIDE DEF k
    <3>3. Len(w) = k /\ w = [i \in 1..k |-> w[i]]
      BY <3>1, <3>2
    <3> HIDE DEF w
    <3> QED
      BY <3>1, <3>3 DEF IsRow
  <2>4. IsRow(p.req[r].row) /\ Len(p.req[r].row) = x
    <3>1. p.req[r].row = IF q.row = <<>> THEN w ELSE q.row
      BY ZenonT(60), <1>3
    <3> HIDE DEF p, w, x
    <3> QED
      BY <2>0, <2>3, <3>1
  <2> HIDE DEF need, x, y, p
  <2>5. need[r] \in Nat /\ Len(p.req[r].row) + need[r] = y
    BY <2>1, <2>2, <2>4
  <2> QED
    BY <2>4, <2>5 DEF y
<1> HIDE DEF p, need
<1>5. IsGrown(g, p, S, need)
  BY <1>2, <1>4, GrowRowsLens
<1>6. FlagsKept(p, g)
  BY <1>2, GrowRowsKeeps
<1> HIDE DEF g
<1>7. Shape(g) /\ g.tree = e.tree /\ \A r \in Request \ S : g.req[r] = e.req[r]
  BY <1>2, <1>5, <1>6 DEF IsGrown, FlagsKept
<1>8. ASSUME NEW r \in S
      PROVE  /\ g.req[r].finished = e.req[r].finished /\ g.req[r].inflight = e.req[r].inflight
             /\ g.req[r].is_retracted = FALSE /\ g.req[r].out = e.req[r].out
             /\ g.req[r].pre = e.req[r].pre /\ g.req[r].end = e.req[r].end
             /\ g.req[r].com = e.req[r].end /\ g.req[r].alo = e.req[r].end
             /\ IsRow(g.req[r].row) /\ Len(g.req[r].row) = CeilPages(e.req[r].end)
  <2>1. SameFlags(g.req[r], p.req[r])
    BY <1>6 DEF FlagsKept
  <2>2. /\ IsRow(g.req[r].row) /\ Len(g.req[r].row) = Len(p.req[r].row) + need[r]
        /\ g.req[r].out = p.req[r].out /\ g.req[r].pre = p.req[r].pre
        /\ g.req[r].end = p.req[r].end
        /\ g.req[r].com = p.req[r].com /\ g.req[r].alo = p.req[r].alo
    BY <1>5 DEF IsGrown
  <2> QED
    BY ZenonT(60), <1>3, <1>4, <2>1, <2>2 DEF SameFlags
<1> QED
  BY ZenonT(60), <1>1, <1>7, <1>8 DEF IsExtended

(* All results of a request that is admitted are those of its chunks. *)
LEMMA AdmittedHits ==
    ASSUME ControlInv, pc = "batch", NEW r \in adder.can_run_list, Admitted(r)
    PROVE  /\ Hits(result_queue, r, {FALSE}) = {}
           /\ \A A \in {{TRUE}, BOOLEAN} : Hits(result_queue, r, A) = Chunks(r)
           /\ m.req[r].inflight = Cardinality(Chunks(r))
<1>0. /\ r \in Request /\ result_queue \in Seq(Batch) /\ ChunksFirst /\ ChunksCounted
      /\ InQueue(r) /\ InAdder(r) /\ FlagsInv(r)
  BY DEF ControlInv, ControlTypes, QueueInv, PlaceInv
<1>1. ASSUME NEW i \in 1..Len(result_queue), r \in result_queue[i].reqs
      PROVE  result_queue[i].chunked_req = r /\ result_queue[i].extend = TRUE
  <2>1. result_queue[i] \in Batch
    BY <1>0
  <2>2. result_queue[i].chunked_req = r
    BY <1>1 DEF Admitted
  <2>3. result_queue[i].extend
    BY <1>0, <2>2, SchedulerAssumption DEF ChunksFirst
  <2> QED
    BY <2>1, <2>2, <2>3 DEF Batch
<1>2. Hits(result_queue, r, {FALSE}) = {}
  BY ZenonT(60), <1>1 DEF Hits
<1>3. \A A \in {{TRUE}, BOOLEAN} : Hits(result_queue, r, A) = Chunks(r)
  BY ZenonT(60), <1>1 DEF Hits, Chunks
<1>4. ~m.req[r].is_retracted => m.req[r].inflight = Cardinality(Chunks(r))
  BY <1>0 DEF ChunksCounted, Chunks
<1>5. ASSUME m.req[r].is_retracted PROVE m.req[r].inflight = Cardinality(Chunks(r))
  <2>1. r \in waiting_queue
    BY <1>0, <1>5 DEF InAdder
  <2>2. Chunks(r) = {}
    BY <1>0, <2>1 DEF InQueue, Chunks
  <2>3. m.req[r].inflight = 0
    BY <1>0, <1>5 DEF FlagsInv
  <2> QED
    BY <2>2, <2>3, FS_EmptySet
<1> QED
  BY <1>2, <1>3, <1>4, <1>5

LEMMA LaunchPrefillLens ==
    ASSUME ControlInv, LengthInv, ChunkBudget, NEW E, LaunchPrefill(E)
    PROVE  LengthInv'
<1> DEFINE S  == adder.can_run_list
           ch == IF adder.new_chunked_req # NoReq THEN adder.new_chunked_req ELSE chunked_req
           e  == Evict(m, E)
           b  == [extend |-> TRUE, reqs |-> S, chunked_req |-> ch]
<1>0. /\ Shape(m) /\ GoodTree(m.tree) /\ FiniteBatches /\ AdderTypes
      /\ pc = "batch" /\ last_batch = NoBatch /\ setup.draft \in Nat
      /\ S \in SUBSET Request /\ ch \in Request \cup {NoReq} /\ (ch = NoReq \/ ch \in S)
      /\ \A r \in Request : Lengths(m.req[r]) /\ Good(r) /\ m.req[r].inflight \in Int
      /\ result_queue \in Seq(Batch) /\ Len(result_queue) \in Nat /\ Len(result_queue) <= 1
      /\ chunked_req' = ch /\ adder' = NoAdder
      /\ UNCHANGED <<setup, fresh, running_batch>>
  <2>1. pc = "batch" /\ chunked_req' = ch /\ adder' = NoAdder /\ UNCHANGED <<setup, fresh, running_batch>>
    BY DEF LaunchPrefill
  <2>2. ch \in Request \cup {NoReq} /\ (ch = NoReq \/ ch \in S) /\ last_batch = NoBatch
    BY <2>1 DEF ControlInv, ControlTypes, PhaseInv, Collecting
  <2> HIDE DEF ch
  <2>3. result_queue \in Seq(Batch) /\ Len(result_queue) \in Nat /\ Len(result_queue) <= 1
    BY <2>1 DEF ControlInv, ControlTypes, QueueInv, QueueLens
  <2> QED
    BY <2>1, <2>2, <2>3 DEF LengthInv, LengthTypes, ControlInv, ControlTypes, Setup
<1>a. /\ IsFiniteSet(waiting_queue')
      /\ waiting_queue' \subseteq (waiting_queue \ S) \cup adder.preempt_list
  <2>1. IsFiniteSet(waiting_queue \ S) /\ IsFiniteSet(adder.preempt_list)
    BY ZenonT(60), <1>0, FS_Difference DEF FiniteBatches, AdderTypes
  <2>2. AddRequestsToQueue(waiting_queue \ S, adder.preempt_list)
    BY DEF LaunchPrefill
  <2> QED
    BY <2>1, <2>2, QueueFinite
<1>b. AdderTypes'
  BY <1>0, FS_EmptySet DEF AdderTypes, NoAdder
<1>c. IsFiniteSet(S) /\ IsFiniteSet(running_batch')
  BY <1>0 DEF AdderTypes, FiniteBatches
<1> HIDE DEF ch
<1>1. CASE pc' = "crashed" /\ UNCHANGED <<m, last_batch, result_queue>>
  <2>1. FiniteBatches'
    BY <1>0, <1>1, <1>a DEF FiniteBatches
  <2> QED
    BY <1>0, <1>1, <1>b, <2>1 DEF LengthInv, LengthTypes
<1>2. CASE /\ m' = CountChunk(AllocForExtend(e, S), ch)
           /\ last_batch' = [reqs |-> S, chunked_req |-> ch]
           /\ Launch(b)
  <2> DEFINE g == AllocForExtend(e, S)
  <2>1. e.req = m.req /\ Shape(e) /\ GoodTree(e.tree)
    BY <1>0, EvictKeeps, EvictLens
  <2> HIDE DEF e
  <2>2. IsExtended(g, e, S)
    <3>1. ASSUME NEW r \in S
          PROVE  /\ m.req[r].pre \in Nat /\ m.req[r].end \in Nat /\ m.req[r].pre < m.req[r].end
                 /\ IsRow(m.req[r].row)
                 /\ IF m.req[r].row = <<>>
                    THEN Len(m.req[r].last_node) \in Nat
                         /\ m.req[r].pre = PageSize * Len(m.req[r].last_node)
                    ELSE Len(m.req[r].row) = CeilPages(m.req[r].pre)
      <4>1. r \in Request /\ Lengths(m.req[r]) /\ Admitted(r) /\ Covered(r)
        BY <1>0 DEF Good
      <4> QED
        BY <4>1 DEF Lengths, Admitted, Covered
    <3> QED
      BY <1>0, <2>1, <3>1, ExtendLens
  <2> HIDE DEF g
  <2>3. Shape(g) /\ g.tree = e.tree
    BY <2>2 DEF IsExtended
  <2>4. /\ m'.tree = g.tree
        /\ \A r \in Request : r # ch => m'.req[r] = g.req[r]
        /\ ch # NoReq => m'.req[ch] = [g.req[ch] EXCEPT !.inflight = g.req[ch].inflight + 1]
    <3>1. m' = CountChunk(g, ch)
      BY <1>2 DEF g
    <3>2. CASE ch = NoReq
      BY <3>1, <3>2 DEF CountChunk
    <3>3. CASE ch # NoReq
      <4>1. ch \in Request
        BY <1>0, <3>3
      <4>2. m' = [g EXCEPT !.req[ch].inflight = @ + 1]
        BY <3>1, <3>3 DEF CountChunk
      <4> QED
        BY <2>3, <4>1, <4>2 DEF Shape, ReqFields
    <3> QED
      BY <3>2, <3>3
  <2>5. ASSUME NEW r \in S
        PROVE  LET p == m'.req[r]
                   q == m.req[r]
               IN  /\ p.finished = q.finished /\ p.is_retracted = FALSE
                   /\ r # ch => p.inflight = q.inflight
                   /\ p.out = q.out /\ p.pre = q.pre /\ p.end = q.end
                   /\ p.com = q.end /\ p.alo = q.end
                   /\ IsRow(p.row) /\ Len(p.row) = CeilPages(q.end)
    <3> DEFINE p == g.req[r]
               q == m.req[r]
    <3>0. r \in Request
      BY <1>0
    <3>1. /\ p.finished = q.finished /\ p.inflight = q.inflight /\ p.is_retracted = FALSE
          /\ p.out = q.out /\ p.pre = q.pre /\ p.end = q.end /\ p.com = q.end /\ p.alo = q.end
          /\ IsRow(p.row) /\ Len(p.row) = CeilPages(q.end)
      BY <2>1, <2>2 DEF IsExtended
    <3>2. CASE r # ch
      <4>1. m'.req[r] = p
        BY <2>4, <3>0, <3>2
      <4> QED
        BY <3>1, <4>1
    <3>3. CASE r = ch
      <4> DEFINE n == p.inflight + 1
      <4>1. m'.req[r] = [p EXCEPT !.inflight = n] /\ DOMAIN p = ReqFields
        BY <2>3, <2>4, <3>0, <3>3, SchedulerAssumption DEF Shape
      <4> HIDE DEF n, p
      <4>2. /\ m'.req[r].finished = p.finished /\ m'.req[r].is_retracted = p.is_retracted
            /\ m'.req[r].out = p.out /\ m'.req[r].pre = p.pre /\ m'.req[r].end = p.end
            /\ m'.req[r].com = p.com /\ m'.req[r].alo = p.alo /\ m'.req[r].row = p.row
        BY <4>1 DEF ReqFields
      <4> QED
        BY <3>1, <3>3, <4>2
    <3> QED
      BY ZenonT(60), <3>2, <3>3
  <2>6. b \in Batch /\ b.extend = TRUE /\ b.reqs = S /\ result_queue' = Append(result_queue, b)
    BY <1>0, <1>2 DEF Batch, Launch
  <2>7. pc' \in {"idle", "result"}
    BY <1>2 DEF Launch
  <2>8. ASSUME NEW r, NEW A
        PROVE  Cardinality(Hits(result_queue', r, A)) = Cardinality(Hits(result_queue, r, A))
                   + IF TRUE \in A /\ r \in S THEN 1 ELSE 0
    <3> HIDE DEF b
    <3>1. Cardinality(Hits(Append(result_queue, b), r, A)) = Cardinality(Hits(result_queue, r, A))
              + IF b.extend \in A /\ r \in b.reqs THEN 1 ELSE 0
      BY <1>0, <2>6, AppendHits
    <3> QED
      BY ZenonT(60), <2>6, <3>1
  <2> HIDE DEF b
  <2>c. last_batch'.reqs = S /\ last_batch.reqs = {}
    BY <1>0, <1>2 DEF NoBatch
  <2>d. adder'.can_run_list = {} /\ adder'.preempt_list = {}
    BY <1>0 DEF NoAdder
  <2>9. ASSUME NEW r \in Request \ S PROVE Good(r)' /\ Lengths(m'.req[r])
    <3>1. m'.req[r] = m.req[r]
      <4>1. r # ch
        BY <1>0, SchedulerAssumption
      <4> QED
        BY <2>1, <2>2, <2>4, <4>1 DEF IsExtended
    <3>2. SameHits(r)
      <4>1. ASSUME NEW A
            PROVE  Cardinality(Hits(result_queue', r, A)) = Cardinality(Hits(result_queue, r, A))
        <5> DEFINE h == Cardinality(Hits(result_queue, r, A))
        <5>1. Len(result_queue) \in Nat /\ Len(result_queue) <= 2
          BY <1>0
        <5>2. h \in 0..2
          BY <5>1, HitsNat
        <5>3. Cardinality(Hits(result_queue', r, A)) = h + 0
          BY ZenonT(60), <2>8
        <5> HIDE DEF h
        <5>4. h + 0 = h
          BY <5>2
        <5> QED
          BY <5>3, <5>4 DEF h
      <4> QED
        BY <4>1 DEF SameHits
    <3>3. SamePlace(r)
      <4>1. r # chunked_req /\ r # chunked_req'
        BY <1>0, SchedulerAssumption DEF ControlInv, PhaseInv, Collecting
      <4> QED
        BY <1>0, <1>a, <2>c, <2>d, <4>1 DEF SamePlace
    <3> QED
      BY <1>0, <3>1, <3>2, <3>3, LensEqual, Untouched
  <2>10. ASSUME NEW r \in S PROVE Good(r)' /\ Lengths(m'.req[r])
    <3> DEFINE q == m.req[r]
               p == m'.req[r]
    <3>0. /\ r \in Request /\ Good(r) /\ Lengths(q) /\ Admitted(r)
          /\ q.pre \in Nat /\ q.end \in Nat /\ q.out \in Nat /\ q.pre < q.end
      BY <1>0 DEF Good, Lengths, Admitted
    <3>1. /\ p.finished = q.finished /\ p.is_retracted = FALSE
          /\ r # ch => p.inflight = q.inflight
          /\ p.out = q.out /\ p.pre = q.pre /\ p.end = q.end /\ p.com = q.end /\ p.alo = q.end
          /\ IsRow(p.row) /\ Len(p.row) = CeilPages(q.end)
      BY ZenonT(60), <2>5
    <3>2. p.row # <<>>
      <4>1. q.end > 0
        BY <3>0
      <4>2. CeilPages(q.end) > 0 /\ CeilPages(q.end) \in Nat
        BY <3>0, <4>1, CeilPositive
      <4>3. Len(p.row) # 0
        <5> HIDE DEF p, q
        <5> QED
          BY <3>1, <4>2
      <4> QED
        BY <3>1, <4>3, RowFacts
    <3>3. TotalLen(m, r)' = TotalLen(m, r) /\ TotalLen(m, r) \in Nat
      BY <3>0, <3>1, TotalNat DEF TotalLen, Lengths
    <3>4. Lengths(p)
      BY <3>0, <3>1 DEF Lengths
    <3>5. Unlaunched(r)'
      <4>1. r \notin fresh /\ r \notin adder.preempt_list /\ ~q.finished
        BY <3>0 DEF ControlInv, PlaceInv, InFresh, InPreemptList, InAdder
      <4> QED
        BY <1>0, <1>a, <2>d, <3>1, <4>1 DEF Unlaunched
    <3>6. Launched(r)' /\ Admitted(r)'
      BY <2>d, <3>2 DEF Launched, Admitted
    <3>7. Chunked(r)'
      <4> SUFFICES ASSUME r = ch PROVE Chunked(r)'
        BY <1>0 DEF Chunked
      <4>1. r \in {chunked_req, adder.new_chunked_req}
        BY DEF ch
      <4>2. q.end < TotalLen(m, r)
        BY <3>0, <4>1 DEF Admitted
      <4>3. q.pre <= q.end
        BY <3>0
      <4> QED
        BY <2>7, <3>1, <3>2, <3>3, <4>2, <4>3 DEF Chunked
    <3>8. /\ Hits(result_queue, r, {FALSE}) = {}
          /\ \A A \in {{TRUE}, BOOLEAN} : Hits(result_queue, r, A) = Chunks(r)
          /\ q.inflight = Cardinality(Chunks(r))
      BY <1>0, <3>0, AdmittedHits
    <3>9. Covered(r)'
      <4> DEFINE h == Cardinality(Hits(result_queue', r, {FALSE}))
      <4>1. h = 0
        <5>1. Cardinality(Hits(result_queue, r, {FALSE})) = 0
          BY <3>8, FS_EmptySet
        <5>2. h = Cardinality(Hits(result_queue, r, {FALSE})) + 0
          BY ZenonT(60), <2>8
        <5> QED
          BY <5>1, <5>2
      <4> HIDE DEF h
      <4>2. p.com + h * setup.draft <= p.alo
        <5>1. q.end + 0 * setup.draft <= q.end
          BY <1>0, <3>0
        <5> QED
          BY <3>1, <4>1, <5>1
      <4> QED
        BY <1>0, <3>1, <4>2 DEF Covered, h
    <3>10. Committed(r)'
      <4> SUFFICES ASSUME ~setup.preemption, r # ch PROVE Committed(r)'
        BY <1>0 DEF Committed
      <4> DEFINE A == IF setup.draft = 0 THEN BOOLEAN ELSE {TRUE}
                 h == Cardinality(Hits(result_queue, r, A))
                 t == TotalLen(m, r)
      <4>1. q.end = t
        <5>1. OneChunkedReq
          BY DEF ChunkBudget
        <5>2. r \notin {chunked_req, adder.new_chunked_req}
          BY <3>0, <5>1, SchedulerAssumption DEF OneChunkedReq, ch
        <5> QED
          BY <3>0, <5>2 DEF Admitted
      <4>2. A \in {{TRUE}, BOOLEAN} /\ TRUE \in A
        BY ZenonT(60)
      <4> HIDE DEF A
      <4>3. h = q.inflight
        BY ZenonT(60), <3>8, <4>2
      <4>4. Cardinality(Hits(result_queue', r, A)) = h + 1
        BY ZenonT(60), <2>8, <4>2
      <4> DEFINE i == q.inflight
      <4>5. h = i /\ i \in Int /\ t \in Nat
        BY <1>0, <3>0, <3>3, <4>3
      <4> HIDE DEF h, i, t
      <4>6. t = t - 1 + (h + 1) - i
        BY <4>5
      <4>7. p.com = t /\ p.inflight = i
        BY <3>1, <4>1 DEF i
      <4> QED
        BY <1>0, <3>3, <4>4, <4>6, <4>7 DEF Committed, A, t
    <3> QED
      BY <3>4, <3>5, <3>6, <3>7, <3>9, <3>10 DEF Good
  <2>11. GoodTree(m'.tree)
    BY <2>1, <2>3, <2>4
  <2>12. \A r \in Request : Good(r)' /\ Lengths(m'.req[r])
    BY <2>9, <2>10
  <2>13. FiniteBatches'
    BY <1>a, <1>c, <2>c DEF FiniteBatches
  <2> QED
    BY <1>b, <2>11, <2>12, <2>13 DEF LengthInv, LengthTypes
<1> QED
  <2>1. \/ pc' = "crashed" /\ UNCHANGED <<m, last_batch, result_queue>>
        \/ /\ m' = CountChunk(AllocForExtend(e, S), ch)
           /\ last_batch' = [reqs |-> S, chunked_req |-> ch]
           /\ Launch(b)
    BY ZenonT(30) DEF LaunchPrefill, ch
  <2> QED
    BY <1>1, <1>2, <2>1

-----------------------------------------------------------------------------
(* One chunked request: the one that is continued leaves no budget. *)

LEMMA BudgetQuiet ==
    ASSUME ChunkBudget, setup' = setup,
           \/ adder' = NoAdder
           \/ adder' = adder /\ chunked_req' = chunked_req /\ pc' # "prefill"
    PROVE  ChunkBudget'
<1>1. CASE adder' = NoAdder
  BY <1>1 DEF ChunkBudget, OneChunkedReq, NoAdder
<1>2. CASE adder' = adder /\ chunked_req' = chunked_req /\ pc' # "prefill"
  BY <1>2 DEF ChunkBudget, OneChunkedReq
<1> QED
  BY <1>1, <1>2

(* Outside the loop that collects a batch there is no adder. *)
LEMMA BudgetOutside ==
    ASSUME ControlInv, ChunkBudget, ~Collecting, UNCHANGED <<setup, adder>>
    PROVE  ChunkBudget'
<1>1. adder' = NoAdder
  BY DEF ControlInv, PhaseInv
<1> QED
  BY <1>1, BudgetQuiet

LEMMA ClientBudget ==
    ASSUME ControlInv, ChunkBudget, Client
    PROVE  ChunkBudget'
<1> USE DEF Collecting
<1>1. ASSUME NEW r \in Request, HandleGenerate(r) \/ AbortRequest(r) PROVE ChunkBudget'
  BY <1>1, BudgetOutside DEF HandleGenerate, AbortRequest
<1>2. ASSUME NEW mode, PauseGeneration(mode) PROVE ChunkBudget'
  BY <1>2, BudgetOutside DEF PauseGeneration
<1>3. CASE ContinueGeneration \/ FlushCache
  BY <1>3, BudgetOutside DEF ContinueGeneration, FlushCache
<1> QED
  BY <1>1, <1>2, <1>3 DEF Client

LEMMA StartAdderBudget ==
    ASSUME ControlInv, LengthInv, StartAdder
    PROVE  ChunkBudget'
<1>0. pc = "admit" /\ chunked_req \in Request \cup {NoReq}
  BY DEF ControlInv, ControlTypes, StartAdder
<1>1. PICK ratio \in Ratio :
        IF chunked_req = NoReq
        THEN adder' = NewAdder(ratio) /\ UNCHANGED <<m, chunked_req>>
        ELSE AddChunkedReq(NewAdder(ratio))
  BY DEF StartAdder
<1> DEFINE new == NewAdder(ratio)
<1>2. /\ new.total \in Int /\ new.chunk = ChunkedPrefillSize
      /\ new.new_chunked_req = NoReq /\ DOMAIN new = AdderFields
  BY NewAdderTypes
<1>3. ChunkedPrefillSize \in Nat \ {0}
  BY SchedulerAssumption
<1> HIDE DEF new
<1>4. CASE chunked_req = NoReq
  BY <1>1, <1>2, <1>4 DEF ChunkBudget, OneChunkedReq, new
<1>5. CASE chunked_req # NoReq
  <2>0. PICK r \in Request : r = chunked_req
    BY <1>0, <1>5
  <2>1. AddChunkedReq(new)
    BY <1>1, <1>5 DEF new
  <2>2. /\ m'.tree = m.tree /\ m'.free = m.free
        /\ chunked_req' \in {r, NoReq} /\ adder'.new_chunked_req = new.new_chunked_req
        /\ chunked_req' = r => adder'.chunk <= 0 \/ rem_total_tokens(m, adder') <= 0
    BY <1>0, <1>2, <1>3, <2>0, <2>1, AddChunkedReqLens
  <2>3. rem_total_tokens(m, adder)' = rem_total_tokens(m, adder')
    BY <2>2 DEF rem_total_tokens, available_size
  <2> QED
    BY <1>2, <2>2, <2>3 DEF ChunkBudget, OneChunkedReq
<1> QED
  BY <1>4, <1>5

LEMMA AddOneReqBudget ==
    ASSUME ControlInv, LengthInv, ChunkBudget, NEW r \in Request, AddOneReq(r)
    PROVE  ChunkBudget'
<1>1. /\ pc = "prefill" /\ UNCHANGED <<setup, chunked_req>>
      /\ \/ adder' = adder /\ pc' = "batch"
         \/ adder.chunk > 0 /\ rem_total_tokens(m, adder) > 0
  BY AddOneReqFacts
<1>2. CASE adder' = adder /\ pc' = "batch"
  BY <1>1, <1>2, BudgetQuiet
<1>3. CASE adder.chunk > 0 /\ rem_total_tokens(m, adder) > 0
  <2> SUFFICES ASSUME ~setup.preemption PROVE chunked_req = NoReq
    BY <1>1 DEF ChunkBudget, OneChunkedReq
  <2>1. adder.chunk \in Int /\ rem_total_tokens(m, adder) \in Int
    BY RemInt DEF LengthInv, LengthTypes, AdderTypes
  <2> DEFINE c == adder.chunk
             n == rem_total_tokens(m, adder)
  <2>2. ~(c <= 0) /\ ~(n <= 0)
    <3>1. c \in Int /\ n \in Int /\ c > 0 /\ n > 0
      BY <1>3, <2>1
    <3> HIDE DEF c, n
    <3> QED
      BY <3>1
  <2> QED
    BY <1>1, <2>2 DEF ChunkBudget
<1> QED
  BY <1>1, <1>2, <1>3

LEMMA LoopBudget ==
    ASSUME ControlInv, LengthInv, ChunkBudget, Loop
    PROVE  ChunkBudget'
<1> USE DEF Collecting
<1>1. ASSUME NEW W, NEW T, PrepareStep(W, T) PROVE ChunkBudget'
  BY <1>1, BudgetOutside DEF PrepareStep
<1>2. CASE SkipPrefill \/ NoDecode \/ EndResult \/ EndPause
  BY <1>2, BudgetOutside DEF SkipPrefill, NoDecode, EndResult, EndPause
<1>3. CASE StartAdder
  BY <1>3, StartAdderBudget
<1>4. CASE StopAdding
  BY <1>4, BudgetQuiet DEF StopAdding
<1>5. CASE NoPrefill
  BY <1>5, BudgetQuiet DEF NoPrefill
<1>6. ASSUME NEW r \in Request, AddOneReq(r) PROVE ChunkBudget'
  BY <1>6, AddOneReqBudget
<1>7. ASSUME NEW r \in Request, PreemptToSchedule(r) PROVE ChunkBudget'
  BY <1>7 DEF PreemptToSchedule, ChunkBudget
<1>8. ASSUME NEW E, LaunchPrefill(E) PROVE ChunkBudget'
  BY <1>8, BudgetQuiet DEF LaunchPrefill
<1>9. ASSUME NEW E, CheckDecodeMem(E) PROVE ChunkBudget'
  BY <1>9, BudgetOutside DEF CheckDecodeMem
<1>10. ASSUME NEW E, LaunchDecode(E) PROVE ChunkBudget'
  BY <1>10, BudgetOutside DEF LaunchDecode
<1>11. ASSUME NEW r, NEW E, ReleaseVictim(r, E) PROVE ChunkBudget'
  BY <1>11 DEF ReleaseVictim, ControlInv, PhaseInv, ChunkBudget
<1>12. ASSUME NEW r, NEW E, RetractDecode(r, E) PROVE ChunkBudget'
  BY <1>12, BudgetOutside DEF RetractDecode
<1>13. ASSUME NEW r, NEW E, RetractAll(r, E) PROVE ChunkBudget'
  BY <1>13, BudgetOutside DEF RetractAll
<1>14. ASSUME NEW r, AbortLast(r) \/ DropResult(r) \/ ChunkResult(r) PROVE ChunkBudget'
  BY ZenonT(60), <1>14, BudgetOutside DEF AbortLast, DropResult, ChunkResult
<1>15. ASSUME NEW r, NEW stop, PrefillResult(r, stop) PROVE ChunkBudget'
  BY SMTT(60), <1>15, BudgetOutside DEF PrefillResult
<1>16. ASSUME NEW r, NEW k, NEW stop, DecodeResult(r, k, stop) PROVE ChunkBudget'
  BY <1>16, BudgetOutside DEF DecodeResult
<1> QED
  BY <1>1, <1>2, <1>3, <1>4, <1>5, <1>6, <1>7, <1>8, <1>9, <1>10, <1>11, <1>12, <1>13, <1>14,
     <1>15, <1>16 DEF Loop

-----------------------------------------------------------------------------
LEMMA LengthNext ==
    ControlInv /\ LengthInv /\ ChunkBudget /\ [Next]_vars => LengthInv' /\ ChunkBudget'
<1> SUFFICES ASSUME ControlInv, LengthInv, ChunkBudget, [Next]_vars
             PROVE  LengthInv' /\ ChunkBudget'
  OBVIOUS
<1>1. CASE Client
  <2>1. ASSUME NEW r \in Request, HandleGenerate(r) \/ AbortRequest(r) PROVE LengthInv'
    BY <2>1, HandleGenerateLens, AbortRequestLens
  <2>2. ASSUME NEW mode, PauseGeneration(mode) PROVE LengthInv'
    BY <2>2, PauseGenerationLens
  <2>3. CASE ContinueGeneration \/ FlushCache
    BY <1>1, <2>3, ContinueGenerationLens, FlushCacheLens, ClientBudget
  <2> QED
    BY <1>1, <2>1, <2>2, <2>3, ClientBudget DEF Client
<1>2. CASE Loop
  <2>0. ChunkBudget'
    BY <1>2, LoopBudget
  <2>1. ASSUME NEW W, NEW T, PrepareStep(W, T) PROVE LengthInv'
    BY <2>1, PrepareStepLens
  <2>2. CASE SkipPrefill \/ StartAdder \/ StopAdding \/ NoPrefill \/ NoDecode
    BY <2>0, <2>2, SkipPrefillLens, StartAdderLens, StopAddingLens, NoPrefillLens, NoDecodeLens
  <2>3. CASE EndResult \/ EndPause
    BY <2>0, <2>3, EndResultLens, EndPauseLens
  <2>4. ASSUME NEW r \in Request, AddOneReq(r) \/ PreemptToSchedule(r) PROVE LengthInv'
    BY <2>4, AddOneReqLens, PreemptToScheduleLens
  <2>5. ASSUME NEW E, LaunchPrefill(E) \/ CheckDecodeMem(E) \/ LaunchDecode(E) PROVE LengthInv'
    BY <2>5, LaunchPrefillLens, CheckDecodeMemLens, LaunchDecodeLens
  <2>6. ASSUME NEW r \in Request, NEW E,
               ReleaseVictim(r, E) \/ RetractDecode(r, E) \/ RetractAll(r, E)
        PROVE  LengthInv'
    BY <2>6, ReleaseVictimLens, RetractDecodeLens, RetractAllLens
  <2>7. ASSUME NEW r \in Request, AbortLast(r) \/ DropResult(r) \/ ChunkResult(r)
        PROVE  LengthInv'
    BY <2>7, AbortLastLens, DropResultLens, ChunkResultLens
  <2>8. ASSUME NEW r \in Request, NEW stop, PrefillResult(r, stop) PROVE LengthInv'
    BY <2>8, PrefillResultLens
  <2>9. ASSUME NEW r \in Request, NEW stop, NEW k \in 1..Max({1, setup.draft}),
               DecodeResult(r, k, stop)
        PROVE  LengthInv'
    BY <2>9, DecodeResultLens
  <2> QED
    BY <1>2, <2>0, <2>1, <2>2, <2>3, <2>4, <2>5, <2>6, <2>7, <2>8, <2>9 DEF Loop
<1>3. CASE UNCHANGED vars
  <2>1. UNCHANGED <<setup, m, fresh, waiting_queue, running_batch, last_batch, chunked_req,
                    result_queue, adder, pc>>
    BY <1>3 DEF vars, batches
  <2>2. CASE pc = "crashed"
    BY <2>1, <2>2 DEF LengthInv, LengthTypes, AdderTypes, FiniteBatches, ChunkBudget,
       OneChunkedReq, rem_total_tokens, available_size
  <2>3. CASE pc # "crashed"
    <3>1. Still
      BY <2>1, <2>3, SameQueue, LensEqual DEF Still, SamePlace, Collecting, LengthInv, LengthTypes
    <3>2. AdderTypes' /\ FiniteBatches'
      BY <2>1 DEF LengthInv, LengthTypes, AdderTypes, FiniteBatches
    <3>3. ChunkBudget'
      BY <2>1 DEF ChunkBudget, OneChunkedReq, rem_total_tokens, available_size
    <3> QED
      BY <3>1, <3>2, <3>3, StillKeeps
  <2> QED
    BY <2>2, <2>3
<1> QED
  BY <1>1, <1>2, <1>3 DEF Next

LEMMA InitBudget == Init => ChunkBudget
BY DEF Init, ChunkBudget, OneChunkedReq, NoAdder

LEMMA LengthAlways == Spec => [](LengthInv /\ ChunkBudget)
BY InitLens, InitBudget, LengthNext, ControlAlways, PTL DEF Spec

-----------------------------------------------------------------------------
(* A failed allocation stops the scheduler and changes no row. *)
LEMMA CrashKeeps ==
    ASSUME ControlInv, [Next]_vars, pc' = "crashed"
    PROVE  UNCHANGED <<setup, m, result_queue>>
<1>1. ASSUME Client PROVE FALSE
  <2>1. ASSUME NEW r, HandleGenerate(r) \/ AbortRequest(r) PROVE FALSE
    BY <2>1 DEF HandleGenerate, AbortRequest
  <2>2. ASSUME NEW mode, PauseGeneration(mode) PROVE FALSE
    BY <2>2 DEF PauseGeneration
  <2>3. ASSUME ContinueGeneration \/ FlushCache PROVE FALSE
    BY <2>3 DEF ContinueGeneration, FlushCache
  <2> QED
    BY <1>1, <2>1, <2>2, <2>3 DEF Client
<1>2. CASE Loop
  <2>1. ASSUME NEW W, NEW T, PrepareStep(W, T) PROVE FALSE
    BY <2>1 DEF PrepareStep
  <2>2. ASSUME SkipPrefill \/ StartAdder \/ StopAdding \/ NoPrefill \/ NoDecode PROVE FALSE
    BY <2>2 DEF SkipPrefill, StartAdder, StopAdding, NoPrefill, NoDecode
  <2>3. ASSUME EndResult \/ EndPause PROVE FALSE
    BY <2>3 DEF EndResult, EndPause
  <2>4. ASSUME NEW r \in Request, AddOneReq(r) \/ PreemptToSchedule(r) PROVE FALSE
    <3>1. ASSUME AddOneReq(r) PROVE FALSE
      BY <3>1, ZenonT(30) DEF AddOneReq
    <3> QED
      BY <2>4, <3>1 DEF PreemptToSchedule
  <2>5. ASSUME NEW E, LaunchPrefill(E) PROVE UNCHANGED <<setup, m, result_queue>>
    BY <2>5, ZenonT(30) DEF LaunchPrefill, Launch
  <2>6. ASSUME NEW E, LaunchDecode(E) PROVE UNCHANGED <<setup, m, result_queue>>
    BY <2>6, ZenonT(30) DEF LaunchDecode, Launch
  <2>7. ASSUME NEW E, CheckDecodeMem(E) PROVE FALSE
    BY <2>7 DEF CheckDecodeMem
  <2>8. ASSUME NEW r, NEW E, ReleaseVictim(r, E) \/ RetractDecode(r, E) \/ RetractAll(r, E)
        PROVE  FALSE
    BY <2>8 DEF ReleaseVictim, RetractDecode, RetractAll
  <2>9. ASSUME NEW r, AbortLast(r) \/ DropResult(r) \/ ChunkResult(r) PROVE FALSE
    BY ZenonT(60), <2>9 DEF AbortLast, DropResult, ChunkResult
  <2>10. ASSUME NEW r, NEW stop, PrefillResult(r, stop) PROVE FALSE
    BY <2>10 DEF PrefillResult
  <2>11. ASSUME NEW r, NEW stop, NEW k, DecodeResult(r, k, stop) PROVE FALSE
    BY <2>11 DEF DecodeResult
  <2> QED
    BY <1>2, <2>1, <2>2, <2>3, <2>4, <2>5, <2>6, <2>7, <2>8, <2>9, <2>10, <2>11 DEF Loop
<1>3. CASE UNCHANGED vars
  BY <1>3 DEF vars
<1> QED
  BY <1>1, <1>2, <1>3 DEF Next

(* The results that RowsCoverWrites and CommittedMatchesText count. *)
LEMMA HitsAre ==
    ASSUME ControlInv, NEW r
    PROVE  /\ Hits(result_queue, r, {FALSE}) =
                  {i \in 1..Len(result_queue) : ~result_queue[i].extend /\ r \in result_queue[i].reqs}
           /\ Hits(result_queue, r, {TRUE}) =
                  {i \in 1..Len(result_queue) : result_queue[i].extend /\ r \in result_queue[i].reqs}
           /\ Hits(result_queue, r, BOOLEAN) =
                  {i \in 1..Len(result_queue) : r \in result_queue[i].reqs}
<1>1. \A i \in 1..Len(result_queue) : result_queue[i].extend \in BOOLEAN
  <2>1. result_queue \in Seq(Batch)
    BY DEF ControlInv, ControlTypes
  <2>2. \A i \in 1..Len(result_queue) : result_queue[i] \in Batch
    BY <2>1
  <2> QED
    BY <2>2 DEF Batch
<1> QED
  BY ZenonT(60), <1>1 DEF Hits

RowsCovered == \A r \in Request : Covered(r)

(* A request's row always has the pages of the tokens allocated for it;    *)
(* without speculation nothing is allocated beyond the committed tokens,   *)
(* with it every verify step in flight has room for its drafts: through    *)
(* chunks, retraction, preemption, aborts and results that come after the  *)
(* next batch was launched, for any pool, page size and number of drafts.  *)
THEOREM RowsCoverWritesAlways == Spec => []RowsCoverWrites
<1>1. Init => RowsCovered
  BY DEF Init, RowsCovered, Covered, NewReq
<1>2. ControlInv /\ LengthInv' /\ RowsCovered /\ [Next]_vars => RowsCovered'
  <2> SUFFICES ASSUME ControlInv, LengthInv', RowsCovered, [Next]_vars PROVE RowsCovered'
    OBVIOUS
  <2>1. CASE pc' # "crashed"
    BY <2>1 DEF LengthInv, Good, RowsCovered
  <2>2. CASE pc' = "crashed"
    BY <2>2, CrashKeeps DEF RowsCovered, Covered
  <2> QED
    BY <2>1, <2>2
<1>3. ControlInv /\ RowsCovered => RowsCoverWrites
  <2> SUFFICES ASSUME ControlInv, RowsCovered, NEW r \in Request, Slotted(r)
               PROVE  LET q == m.req[r]
                          verifies == Cardinality({i \in 1..Len(result_queue) :
                                          ~result_queue[i].extend /\ r \in result_queue[i].reqs})
                      IN  /\ Len(q.row) = CeilPages(q.alo)
                          /\ setup.draft = 0 => q.com = q.alo
                          /\ q.com + verifies * setup.draft <= q.alo
    BY DEF RowsCoverWrites
  <2>1. Covered(r) /\ m.req[r].row # <<>>
    BY DEF RowsCovered, Slotted
  <2> QED
    BY ZenonT(60), <2>1, HitsAre DEF Covered
<1> QED
  BY <1>1, <1>2, <1>3, ControlAlways, LengthAlways, PTL DEF Spec

(* Without preemption, as long as no allocation failed, the KV length and  *)
(* the text of a request differ by exactly the results still pending for   *)
(* it: no result is applied twice, to a request it was not launched for,   *)
(* or lost.                                                                *)
THEOREM CommittedMatchesTextAlways ==
    Spec => [](NeverOutOfMemory /\ ~setup.preemption => CommittedMatchesText)
<1>1. ControlInv /\ LengthInv /\ NeverOutOfMemory /\ ~setup.preemption => CommittedMatchesText
  <2> SUFFICES ASSUME ControlInv, LengthInv, NeverOutOfMemory, ~setup.preemption, NEW r \in Request,
                      Slotted(r), r \notin adder.can_run_list, r # chunked_req
               PROVE  m.req[r].com = TotalLen(m, r) - 1
                + IF setup.draft = 0
                  THEN Pending(r) - m.req[r].inflight
                  ELSE Cardinality({i \in 1..Len(result_queue) :
                           result_queue[i].extend /\ r \in result_queue[i].reqs}) - m.req[r].inflight
    BY ZenonT(60) DEF CommittedMatchesText
  <2> DEFINE A == IF setup.draft = 0 THEN BOOLEAN ELSE {TRUE}
             h == Cardinality(Hits(result_queue, r, A))
             i == m.req[r].inflight
             t == TotalLen(m, r)
  <2>1. Good(r) /\ Lengths(m.req[r]) /\ i \in Int
    BY DEF LengthInv, LengthTypes, NeverOutOfMemory, ControlInv, ControlTypes
  <2>2. m.req[r].com = t - 1 + h - i
    BY <2>1 DEF Good, Committed, Slotted
  <2>3. h = IF setup.draft = 0 THEN Pending(r)
            ELSE Cardinality({j \in 1..Len(result_queue) :
                     result_queue[j].extend /\ r \in result_queue[j].reqs})
    BY ZenonT(60), HitsAre DEF Pending
  <2>4. h \in Nat /\ t \in Nat
    <3>1. Len(result_queue) \in Nat /\ Len(result_queue) <= 2
      BY DEF ControlInv, ControlTypes, QueueInv, QueueLens
    <3>2. h \in 0..2
      BY <3>1, HitsNat
    <3>3. t \in Nat
      BY <2>1, TotalNat DEF Lengths
    <3> HIDE DEF h
    <3> QED
      BY <3>2, <3>3
  <2> HIDE DEF h, i, t, A
  <2>5. t - 1 + h - i = t - 1 + (h - i)
    BY <2>1, <2>4
  <2>6. m.req[r].com = t - 1 + (h - i)
    BY <2>2, <2>5
  <2> QED
    BY <2>3, <2>6 DEF i, t
<1> QED
  BY <1>1, ControlAlways, LengthAlways, PTL

(* Without preemption the assertion on new_chunked_req never fails: a      *)
(* request that is still being chunked uses up the chunk or the budget, so *)
(* no other request of its batch is cut.                                   *)
THEOREM OneChunkedReqAlways == Spec => [](~setup.preemption => OneChunkedReq)
<1>1. ChunkBudget => (~setup.preemption => OneChunkedReq)
  BY DEF ChunkBudget
<1> QED
  BY <1>1, LengthAlways, PTL
=============================================================================
