-------------------------- MODULE TokenizerManager --------------------------
(***************************************************************************)
(* The front end: TokenizerManager (managers/tokenizer_manager.py and      *)
(* tokenizer_control_mixin.py), its RWLock and LoRARegistry, and the       *)
(* messages it exchanges with the scheduler process.                       *)
(*                                                                         *)
(* The front end is one thread of coroutines.  An action is what one       *)
(* coroutine does between two awaits that really suspend it: no coroutine  *)
(* is suspended while it holds RWLock._lock, a counter's condition or the  *)
(* registry lock, so awaiting those never suspends.  The locks that are    *)
(* held across suspensions are the program counters of their holders:      *)
(* model_update_lock, is_pause_cond and lora_update_lock.                  *)
(***************************************************************************)
EXTENDS Integers, Sequences, FiniteSets, SequencesExt, Functions

CONSTANTS
    Request,    \* requests, each sent once
    Adapter,    \* LoRA names
    NoLora,     \* lora_path of a request without adapter
    Operator,   \* the coroutine of load_lora_adapter / unload_lora_adapter calls
    Nobody,     \* lora_update_lock is free
    Setups,     \* the environments to consider
    MaxLoads    \* bound: loads started, each makes a new lora_id

Task == Request \cup {Operator}

Faults   == {"invalid", "disconnect", "cancel", "load"}
Outcomes == {"stop", "bad_request", "error", "rejected"}

(* An environment: the adapters and the shape of the requests, what may go *)
(* wrong with them, and the control calls that are made meanwhile.         *)
Setup ==
    [lora : [Request -> Adapter \cup {NoLora}], batch : SUBSET Request,
     faults : SUBSET Faults, outcomes : SUBSET Outcomes,
     pause_mode : {"none", "abort", "retract"},
     updates : Nat, from_disk : BOOLEAN, abort_all_requests : BOOLEAN,
     calls : Seq({"load", "unload"} \X Adapter),
     lora_paths : SUBSET Adapter, max_loaded_loras : Nat]

ASSUME FrontEndAssumption ==
    /\ IsFiniteSet(Request) /\ IsFiniteSet(Adapter)
    /\ MaxLoads \in Nat
    /\ NoLora \notin Adapter
    /\ Operator \notin Request
    /\ Nobody \notin Task
    /\ Setups \subseteq Setup
    /\ \A s \in Setups : Cardinality(s.lora_paths) <= s.max_loaded_loras

VARIABLES
    setup,            \* chosen in the initial state, never changed
    pc,               \* where each coroutine is suspended
    lora_id,          \* obj.lora_id of each request, as <<name, number>>
    rid_to_state,     \* the requests with an entry
    out,              \* the final output appended to state.out_list
    releases,         \* tasks created to release the requests' adapters
    abort_tasks,      \* background tasks of create_abort_task
    client,           \* what the client got
    lora,             \* LoRARegistry and lora_ref_cache
    loads,            \* ids created so far
    lora_update_lock, \* its holder
    target,           \* the id the holder loads or unloads
    call,             \* calls of the operator made so far
    is_pause,
    pausing,          \* pause_generation: "no", "aborting", "done", "over"
    updating,         \* "no", "writer_wait", "locked", "paused", "paused_held"
    updates,          \* weight updates started
    to_scheduler,     \* the socket to the scheduler
    from_scheduler,   \* messages back, straight or past the detokenizer
    queued, running, to_finish, loaded, stopped, mixed   \* the scheduler

request_vars == <<pc, lora_id, rid_to_state, out, client>>
tasks        == <<releases, abort_tasks>>
lora_vars    == <<lora, loads, lora_update_lock, target, call>>
control_vars == <<is_pause, pausing, updating, updates>>
sched_vars   == <<queued, running, to_finish, loaded, stopped, mixed>>
channels     == <<to_scheduler, from_scheduler>>
vars == <<setup, request_vars, tasks, lora_vars, control_vars, sched_vars, channels>>

Send(msg) == to_scheduler' = Append(to_scheduler, msg)

-----------------------------------------------------------------------------
(* RWLock as model_update_lock: generate_request reads, a weight update    *)
(* writes.  A reader that waits for the lock is not counted in _readers.   *)
InSection == {"lock_wait", "loading", "draining", "unloading", "incrementing",
              "tokenize", "waiting"}

readers == {r \in Request : pc[r] \in InSection}

CanRead == updating \notin {"writer_wait", "locked"}

(* a weight update does not wait for the requests *)
MutReadersIgnored == updating # "locked"

CanWrite == updating # "locked" /\ readers = {}

is_locked == updating = "locked" \/ readers # {}

(* is_pause_cond is an asyncio.Condition; these hold it across an await. *)
PauseCondHeld == pausing = "aborting" \/ updating = "paused_held"

-----------------------------------------------------------------------------
(* LoRARegistry: L.registry holds the ids in LRU order, L.counters the     *)
(* ongoing requests of each id until wait_for_unload deletes the counter.  *)
Registered(L, name) == \E i \in DOMAIN L.registry : L.registry[i][1] = name

IdOf(L, name) == CHOOSE id \in ToSet(L.registry) : id[1] = name

(* An id that is in the ordered registry is there once. *)
Unlist(registry, id) == RemoveAt(registry, CHOOSE i \in DOMAIN registry : registry[i] = id)

LookUp(L, name) ==
    [L EXCEPT !.registry = Append(Unlist(@, IdOf(L, name)), IdOf(L, name))]

Register(L, id) ==
    [registry |-> Append(L.registry, id),
     counters |-> [i \in DOMAIN L.counters \cup {id} |-> IF i = id THEN 0 ELSE L.counters[i]],
     cache    |-> L.cache \cup {id[1]}]

(* A counter that has been deleted is an orphan for who still refers to it *)
(* (increment), or a KeyError that ends the task (release).                *)
Count(L, id, n) ==
    IF id \in DOMAIN L.counters THEN [L EXCEPT !.counters[id] = @ + n] ELSE L

DropCounter(L, id) == [L EXCEPT !.counters = Restrict(@, DOMAIN @ \ {id})]

(* the rid_to_state entry survives the exception *)
MutNoDiscard(r) ==
    /\ pc' = [pc EXCEPT ![r] = "done"]
    /\ rid_to_state' = rid_to_state
    /\ client' = [client EXCEPT ![r] = "exception"]

(* An exception ends the request: _discard_pending_req_states. *)
Fail(r) ==
    /\ pc' = [pc EXCEPT ![r] = "done"]
    /\ rid_to_state' = rid_to_state \ {r}
    /\ client' = [client EXCEPT ![r] = "exception"]

(* acquire: the counter is raised at once for a single request; for a list *)
(* asyncio.gather raises it in another task.                               *)
Acquire(r, L) ==
    LET name == setup.lora[r]
        id   == IdOf(L, name)
    IN  IF Registered(L, name)
        THEN /\ lora_id' = [lora_id EXCEPT ![r] = id]
             /\ IF r \in setup.batch
                THEN /\ pc' = [pc EXCEPT ![r] = "incrementing"]
                     /\ lora' = LookUp(L, name)
                ELSE /\ pc' = [pc EXCEPT ![r] = "tokenize"]
                     /\ lora' = Count(LookUp(L, name), id, 1)
             /\ UNCHANGED <<rid_to_state, client>>
        ELSE Fail(r) /\ lora' = L /\ UNCHANGED lora_id

Increment(r) ==
    /\ pc[r] = "incrementing"
    /\ pc' = [pc EXCEPT ![r] = "tokenize"]
    /\ lora' = Count(lora, lora_id[r], 1)
    /\ UNCHANGED <<setup, lora_id, rid_to_state, out, client, tasks, loads, lora_update_lock,
                   target, call, control_vars, sched_vars, channels>>

-----------------------------------------------------------------------------
(* generate_request *)

(* _resolve_lora_path, once the reader lock is held. *)
ResolveLora(r) ==
    LET name == setup.lora[r]
    IN  \/ /\ name = NoLora
           /\ pc' = [pc EXCEPT ![r] = "tokenize"]
           /\ UNCHANGED <<rid_to_state, client, lora_id, lora>>
        \/ /\ name # NoLora /\ (Registered(lora, name) \/ name \notin lora.cache)
           /\ Acquire(r, lora)
        \/ /\ name # NoLora /\ ~Registered(lora, name) /\ name \in lora.cache
           /\ pc' = [pc EXCEPT ![r] = "lock_wait"]
           /\ UNCHANGED <<rid_to_state, client, lora_id, lora>>

GenerateRequest(r) ==
    /\ pc[r] = "new"
    /\ rid_to_state' = rid_to_state \cup {r}
    /\ pc' = [pc EXCEPT ![r] = "pause_wait"]
    /\ UNCHANGED <<setup, lora_id, out, client, tasks, lora_vars, control_vars, sched_vars,
                   channels>>

(* Past the pause; on into the section unless a writer is there or waits. *)
PassPause(r) ==
    /\ pc[r] = "pause_wait"
    /\ ~is_pause /\ ~PauseCondHeld
    /\ IF CanRead
       THEN ResolveLora(r)
       ELSE /\ pc' = [pc EXCEPT ![r] = "reader_wait"]
            /\ UNCHANGED <<rid_to_state, client, lora_id, lora>>
    /\ UNCHANGED <<setup, out, tasks, loads, lora_update_lock, target, call, control_vars,
                   sched_vars, channels>>

AcquireReader(r) ==
    /\ pc[r] = "reader_wait"
    /\ CanRead
    /\ ResolveLora(r)
    /\ UNCHANGED <<setup, out, tasks, loads, lora_update_lock, target, call, control_vars,
                   sched_vars, channels>>

(* _tokenize_one_request and _send_one_request. *)
TokenizeAndSend(r) ==
    /\ pc[r] = "tokenize"
    /\ pc' = [pc EXCEPT ![r] = "waiting"]
    /\ Send([type |-> "generate", of |-> r])
    /\ UNCHANGED <<setup, lora_id, rid_to_state, out, client, tasks, lora_vars, control_vars,
                   sched_vars, from_scheduler>>

(* ... or the prompt is refused, for example because it is too long. *)
TokenizeFails(r) ==
    /\ "invalid" \in setup.faults
    /\ pc[r] = "tokenize"
    /\ Fail(r)
    /\ UNCHANGED <<setup, lora_id, out, tasks, lora_vars, control_vars, sched_vars, channels>>

(* _wait_one_response with _handle_abort_finish_reason: an abort with      *)
(* status 500 or 503 is released here.                                     *)
Respond(r) ==
    /\ pc[r] = "waiting" /\ out[r] # "none"
    /\ pc' = [pc EXCEPT ![r] = "done"]
    /\ client' = [client EXCEPT ![r] = out[r]]
    /\ rid_to_state' = rid_to_state \ {r}
    /\ lora' = IF out[r] \in {"error", "rejected"} /\ setup.lora[r] # NoLora
               THEN Count(lora, lora_id[r], -1)
               ELSE lora
    /\ UNCHANGED <<setup, lora_id, out, tasks, loads, lora_update_lock, target, call,
                   control_vars, sched_vars, channels>>

(* abort_request of one rid *)
Abort(r) ==
    IF r \in rid_to_state
    THEN Send([type |-> "abort", of |-> r])
    ELSE UNCHANGED to_scheduler

(* A non-streaming client went away: abort, raise, discard. *)
Disconnect(r) ==
    /\ "disconnect" \in setup.faults
    /\ pc[r] = "waiting" /\ out[r] = "none"
    /\ Abort(r)
    /\ Fail(r)
    /\ UNCHANGED <<setup, lora_id, out, tasks, lora_vars, control_vars, sched_vars,
                   from_scheduler>>

(* A streaming client went away: the coroutine is cancelled where it is    *)
(* suspended, discards its state, and leaves the background task of        *)
(* create_abort_task.  A request that itself reloads an adapter is not     *)
(* cancelled in between.                                                   *)
CancelStream(r) ==
    /\ "cancel" \in setup.faults
    /\ pc[r] \in {"pause_wait", "reader_wait", "lock_wait", "tokenize", "waiting"}
    /\ out[r] = "none"
    /\ Fail(r)
    /\ abort_tasks' = abort_tasks \cup {r}
    /\ UNCHANGED <<setup, lora_id, out, releases, lora_vars, control_vars, sched_vars, channels>>

AbortTask(r) ==
    /\ r \in abort_tasks
    /\ abort_tasks' = abort_tasks \ {r}
    /\ Abort(r)
    /\ UNCHANGED <<setup, request_vars, releases, lora_vars, control_vars, sched_vars,
                   from_scheduler>>

-----------------------------------------------------------------------------
(* load_lora_adapter and unload_lora_adapter, called by the operator or by *)
(* a request whose adapter was evicted.  lora_update_lock is held from the *)
(* first step to the last.                                                 *)
Name(t) == IF t = Operator THEN setup.calls[call][2] ELSE setup.lora[t]

IsLoad(t) == t \in Request \/ setup.calls[call][1] = "load"

CallLora ==
    /\ pc[Operator] = "new"
    /\ call < Len(setup.calls)
    /\ call' = call + 1
    /\ pc' = [pc EXCEPT ![Operator] = "lock_wait"]
    /\ UNCHANGED <<setup, lora_id, rid_to_state, out, client, tasks, lora, loads,
                   lora_update_lock, target, control_vars, sched_vars, channels>>

StartLoad(t) ==
    LET id == <<Name(t), loads + 1>>
    IN  /\ pc[t] = "lock_wait" /\ IsLoad(t)
        /\ lora_update_lock = Nobody
        /\ loads < MaxLoads
        /\ loads' = loads + 1
        /\ lora_update_lock' = t
        /\ target' = id
        /\ pc' = [pc EXCEPT ![t] = "loading"]
        /\ Send([type |-> "load", of |-> id])
        /\ UNCHANGED <<setup, lora_id, rid_to_state, out, client, tasks, lora, call,
                       control_vars, sched_vars, from_scheduler>>

(* the backend is told before the requests of the adapter have ended *)
MutNoDrain(t, L, id) ==
    /\ target' = id
    /\ pc' = [pc EXCEPT ![t] = "unloading"]
    /\ lora' = DropCounter([L EXCEPT !.registry = Unlist(@, id)], id)
    /\ Send([type |-> "unload", of |-> id])
    /\ UNCHANGED <<rid_to_state, client, lora_id>>

(* obj.lora_id is not set: the backend gets the name *)
MutUnloadByName(t) ==
    /\ pc[t] = "draining"
    /\ lora.counters[target] = 0
    /\ lora' = DropCounter(lora, target)
    /\ pc' = [pc EXCEPT ![t] = "unloading"]
    /\ Send([type |-> "unload", of |-> target[1]])
    /\ UNCHANGED <<setup, lora_id, rid_to_state, out, client, tasks, loads, lora_update_lock,
                   target, call, control_vars, sched_vars, from_scheduler>>

(* _unload_lora_adapter_locked: unregister, then wait_for_unload, which    *)
(* does not suspend when the counter is zero.                              *)
Unregister(t, L, id) ==
    LET gone == [L EXCEPT !.registry = Unlist(@, id)]
    IN  /\ target' = id
        /\ IF L.counters[id] = 0
           THEN /\ pc' = [pc EXCEPT ![t] = "unloading"]
                /\ lora' = DropCounter(gone, id)
                /\ Send([type |-> "unload", of |-> id])
           ELSE /\ pc' = [pc EXCEPT ![t] = "draining"]
                /\ lora' = gone
                /\ UNCHANGED to_scheduler
        /\ UNCHANGED <<rid_to_state, client, lora_id>>

(* The lock is given back; a request goes on to acquire its adapter. *)
EndLora(t, L) ==
    /\ lora_update_lock' = Nobody
    /\ UNCHANGED <<target, to_scheduler>>
    /\ IF t = Operator
       THEN /\ pc' = [pc EXCEPT ![t] = "new"]
            /\ lora' = L
            /\ UNCHANGED <<rid_to_state, client, lora_id>>
       ELSE Acquire(t, L)

Unload ==
    /\ pc[Operator] = "lock_wait" /\ ~IsLoad(Operator)
    /\ lora_update_lock = Nobody
    /\ IF Registered(lora, Name(Operator))
       THEN /\ lora_update_lock' = Operator
            /\ Unregister(Operator, lora, IdOf(lora, Name(Operator)))
       ELSE EndLora(Operator, lora)
    /\ UNCHANGED <<setup, out, tasks, loads, call, control_vars, sched_vars, from_scheduler>>

WaitForUnload(t) ==
    /\ pc[t] = "draining"
    /\ lora.counters[target] = 0
    /\ lora' = DropCounter(lora, target)
    /\ pc' = [pc EXCEPT ![t] = "unloading"]
    /\ Send([type |-> "unload", of |-> target])
    /\ UNCHANGED <<setup, lora_id, rid_to_state, out, client, tasks, loads, lora_update_lock,
                   target, call, control_vars, sched_vars, from_scheduler>>

(* The while loop of load_lora_adapter: evict the least recently used. *)
EvictOrEnd(t, L) ==
    IF Len(L.registry) > setup.max_loaded_loras
    THEN Unregister(t, L, Head(L.registry)) /\ UNCHANGED lora_update_lock
    ELSE EndLora(t, L)

(* a failed load is registered as well *)
MutRegisterFailed(t, ok) ==
    LET msg == [type |-> "load", of |-> target, ok |-> ok]
    IN  /\ pc[t] = "loading"
        /\ msg \in from_scheduler
        /\ from_scheduler' = from_scheduler \ {msg}
        /\ EvictOrEnd(t, Register(lora, target))
        /\ UNCHANGED <<setup, out, tasks, loads, call, control_vars, sched_vars>>

(* The backend's answers; ok is FALSE for a name that is loaded already,   *)
(* which an implicit load takes for success.                               *)
LoadAnswered(t, ok) ==
    LET msg == [type |-> "load", of |-> target, ok |-> ok]
    IN  /\ pc[t] = "loading"
        /\ msg \in from_scheduler
        /\ from_scheduler' = from_scheduler \ {msg}
        /\ EvictOrEnd(t, IF ok THEN Register(lora, target) ELSE lora)
        /\ UNCHANGED <<setup, out, tasks, loads, call, control_vars, sched_vars>>

(* Any other error ends the call, and with it the request whose adapter    *)
(* was to be reloaded.  Nothing was registered since the last eviction, so *)
(* the loop of load_lora_adapter finds nothing to evict.                   *)
LoadFailed(t) ==
    LET msg == [type |-> "load_error", of |-> target]
    IN  /\ pc[t] = "loading"
        /\ msg \in from_scheduler
        /\ from_scheduler' = from_scheduler \ {msg}
        /\ lora_update_lock' = Nobody
        /\ IF t = Operator
           THEN pc' = [pc EXCEPT ![t] = "new"] /\ UNCHANGED <<rid_to_state, client>>
           ELSE Fail(t)
        /\ UNCHANGED <<setup, lora_id, out, tasks, lora, loads, target, call, control_vars,
                       sched_vars, to_scheduler>>

UnloadAnswered(t) ==
    LET msg == [type |-> "unload", of |-> target]
    IN  /\ pc[t] = "unloading"
        /\ msg \in from_scheduler
        /\ from_scheduler' = from_scheduler \ {msg}
        /\ IF IsLoad(t) THEN EvictOrEnd(t, lora) ELSE EndLora(t, lora)
        /\ UNCHANGED <<setup, out, tasks, loads, call, control_vars, sched_vars>>

-----------------------------------------------------------------------------
(* handle_loop *)

(* _handle_batch_output: the final output of a request. *)
HandleBatchOutput(r) ==
    \E msg \in from_scheduler :
        /\ msg.type = "output" /\ msg.of = r
        /\ from_scheduler' = from_scheduler \ {msg}
        /\ IF r \in rid_to_state
           THEN /\ rid_to_state' = rid_to_state \ {r}
                /\ out' = [out EXCEPT ![r] = msg.outcome]
                /\ releases' = IF setup.lora[r] # NoLora THEN releases \cup {r} ELSE releases
           ELSE UNCHANGED <<rid_to_state, out, releases>>
        /\ UNCHANGED <<setup, pc, lora_id, client, abort_tasks, lora_vars, control_vars,
                       sched_vars, to_scheduler>>

(* the entry goes, but nobody wakes the request *)
MutAbortNotSignalled(r) ==
    \E msg \in from_scheduler :
        /\ msg.type = "abort" /\ msg.of = r
        /\ from_scheduler' = from_scheduler \ {msg}
        /\ rid_to_state' = rid_to_state \ {r}
        /\ UNCHANGED <<setup, pc, lora_id, out, client, tasks, lora_vars, control_vars,
                       sched_vars, to_scheduler>>

(* _handle_abort_req: the scheduler gave the request up in its queue. *)
HandleAbortReq(r) ==
    \E msg \in from_scheduler :
        /\ msg.type = "abort" /\ msg.of = r
        /\ from_scheduler' = from_scheduler \ {msg}
        /\ IF r \in rid_to_state
           THEN /\ rid_to_state' = rid_to_state \ {r}
                /\ out' = [out EXCEPT ![r] = msg.outcome]
           ELSE UNCHANGED <<rid_to_state, out>>
        /\ UNCHANGED <<setup, pc, lora_id, client, tasks, lora_vars, control_vars, sched_vars,
                       to_scheduler>>

ReleaseTask(r) ==
    /\ r \in releases
    /\ releases' = releases \ {r}
    /\ lora' = Count(lora, lora_id[r], -1)
    /\ UNCHANGED <<setup, request_vars, abort_tasks, loads, lora_update_lock, target, call,
                   control_vars, sched_vars, channels>>

-----------------------------------------------------------------------------
(* pause_generation, continue_generation and the weight updates. *)
AbortAll == [type |-> "abort_all"]

(* Bound: one abort_all in the socket; the loop sleeps a second between    *)
(* two of them.                                                            *)
PauseGeneration ==
    /\ setup.pause_mode # "none"
    /\ pausing = "no" /\ ~PauseCondHeld
    /\ is_pause' = TRUE
    /\ IF setup.pause_mode = "abort"
       THEN pausing' = "aborting" /\ UNCHANGED to_scheduler
       ELSE pausing' = "done" /\ Send([type |-> "pause"])
    /\ UNCHANGED <<setup, request_vars, tasks, lora_vars, updating, updates, sched_vars,
                   from_scheduler>>

(* the loop ends whether or not requests are still in the section *)
MutNotLockedCheck ==
    /\ pausing = "aborting"
    /\ ~Contains(to_scheduler, AbortAll)
    /\ Send(AbortAll)
    /\ pausing' = "done"
    /\ UNCHANGED <<setup, request_vars, tasks, lora_vars, is_pause, updating, updates,
                   sched_vars, from_scheduler>>

AbortLoop ==
    /\ pausing = "aborting"
    /\ ~Contains(to_scheduler, AbortAll)
    /\ Send(AbortAll)
    /\ pausing' = IF is_locked THEN "aborting" ELSE "done"
    /\ UNCHANGED <<setup, request_vars, tasks, lora_vars, is_pause, updating, updates,
                   sched_vars, from_scheduler>>

ContinueGeneration ==
    /\ pausing = "done" /\ ~PauseCondHeld
    /\ is_pause' = FALSE
    /\ pausing' = "over"
    /\ Send([type |-> "continue"])
    /\ UNCHANGED <<setup, request_vars, tasks, lora_vars, updating, updates, sched_vars,
                   from_scheduler>>

Update == [type |-> "update"]

(* update_weights_from_disk, _distributed, _tensor and _ipc, called while  *)
(* is_pause_cond is free, up to the first await: a paused engine is        *)
(* updated without the writer lock, except from disk with is_pause_cond    *)
(* held.                                                                   *)
UpdateWeights ==
    LET first == IF setup.abort_all_requests THEN <<AbortAll>> ELSE <<>>
    IN  /\ updates < setup.updates
        /\ updating = "no" /\ ~PauseCondHeld
        /\ updates' = updates + 1
        /\ IF is_pause \/ CanWrite
           THEN to_scheduler' = to_scheduler \o first \o <<Update>>
           ELSE to_scheduler' = to_scheduler \o first
        /\ updating' = CASE is_pause /\ setup.from_disk  -> "paused"
                         [] is_pause /\ ~setup.from_disk -> "paused_held"
                         [] ~is_pause /\ CanWrite        -> "locked"
                         [] OTHER                        -> "writer_wait"
        /\ UNCHANGED <<setup, request_vars, tasks, lora_vars, is_pause, pausing, sched_vars,
                       from_scheduler>>

AcquireWriter ==
    /\ updating = "writer_wait" /\ CanWrite
    /\ updating' = "locked"
    /\ Send(Update)
    /\ UNCHANGED <<setup, request_vars, tasks, lora_vars, is_pause, pausing, updates,
                   sched_vars, from_scheduler>>

UpdateAnswered ==
    /\ Update \in from_scheduler
    /\ from_scheduler' = from_scheduler \ {Update}
    /\ updating' = "no"
    /\ UNCHANGED <<setup, request_vars, tasks, lora_vars, is_pause, pausing, updates,
                   sched_vars, to_scheduler>>

-----------------------------------------------------------------------------
(* The scheduler, as far as the front end sees it (Scheduler.tla has the   *)
(* rest): it takes messages in order, gives up requests in its queue and   *)
(* finishes the ones it runs.                                              *)
Reply(msgs) == from_scheduler' = from_scheduler \cup msgs

SchedulerReceive ==
    LET msg == Head(to_scheduler)
    IN  /\ to_scheduler # <<>>
        /\ to_scheduler' = Tail(to_scheduler)
        /\ \/ /\ msg.type = "generate"
              /\ queued' = queued \cup {msg.of}
              /\ UNCHANGED <<running, to_finish, loaded, stopped, mixed, from_scheduler>>
           \/ /\ msg.type \in {"abort", "abort_all"}
              /\ LET hit == IF msg.type = "abort" THEN {msg.of} ELSE Request
                 IN  /\ Reply({[type |-> "abort", of |-> r, outcome |-> "aborted"] :
                                   r \in hit \cap queued})
                     /\ queued' = queued \ hit
                     /\ to_finish' = to_finish \cup (hit \cap running)
              /\ UNCHANGED <<running, loaded, stopped, mixed>>
           \/ /\ msg.type = "load"
              /\ LET ok == \A id \in loaded : id[1] # msg.of[1]
                 IN  /\ loaded' = IF ok THEN loaded \cup {msg.of} ELSE loaded
                     /\ Reply({[type |-> "load", of |-> msg.of, ok |-> ok]})
              /\ UNCHANGED <<queued, running, to_finish, stopped, mixed>>
           \/ /\ msg.type = "load" /\ "load" \in setup.faults
              /\ Reply({[type |-> "load_error", of |-> msg.of]})
              /\ UNCHANGED <<queued, running, to_finish, loaded, stopped, mixed>>
           \/ /\ msg.type = "unload"
              /\ loaded' = loaded \ {msg.of}
              /\ Reply({msg})
              /\ UNCHANGED <<queued, running, to_finish, stopped, mixed>>
           \/ /\ msg.type = "update"
              /\ mixed' = mixed \cup running
              /\ Reply({msg})
              /\ UNCHANGED <<queued, running, to_finish, loaded, stopped>>
           \/ /\ msg.type = "pause"
              /\ stopped' = TRUE
              /\ queued' = queued \cup running
              /\ running' = {}
              /\ mixed' = mixed \cup running
              /\ UNCHANGED <<to_finish, loaded, from_scheduler>>
           \/ /\ msg.type = "continue"
              /\ stopped' = FALSE
              /\ UNCHANGED <<queued, running, to_finish, loaded, mixed, from_scheduler>>
        /\ UNCHANGED <<setup, request_vars, tasks, lora_vars, control_vars>>

(* A full queue or a waiting timeout: an AbortReq with status 503. *)
SchedulerReject(r) ==
    /\ "rejected" \in setup.outcomes
    /\ r \in queued
    /\ queued' = queued \ {r}
    /\ Reply({[type |-> "abort", of |-> r, outcome |-> "rejected"]})
    /\ UNCHANGED <<setup, request_vars, tasks, lora_vars, control_vars, running, to_finish,
                   loaded, stopped, mixed, to_scheduler>>

SchedulerRun(r) ==
    /\ ~stopped /\ r \in queued
    /\ queued' = queued \ {r}
    /\ running' = running \cup {r}
    /\ UNCHANGED <<setup, request_vars, tasks, lora_vars, control_vars, to_finish, loaded,
                   stopped, mixed, channels>>

(* "error" is FINISH_ABORT with status 500 or 503, as after a running      *)
(* timeout; "aborted" is FINISH_ABORT without a status.                    *)
SchedulerFinish(r) ==
    /\ ~stopped /\ r \in running
    /\ running' = running \ {r}
    /\ \E o \in IF r \in to_finish THEN {"aborted"} ELSE setup.outcomes \ {"rejected"} :
           Reply({[type |-> "output", of |-> r, outcome |-> o]})
    /\ UNCHANGED <<setup, request_vars, tasks, lora_vars, control_vars, queued, to_finish,
                   loaded, stopped, mixed, to_scheduler>>

-----------------------------------------------------------------------------
Init ==
    /\ setup \in Setups
    /\ pc = [t \in Task |-> "new"]
    /\ lora_id = [r \in Request |-> <<NoLora, 0>>]
    /\ rid_to_state = {}
    /\ out = [r \in Request |-> "none"]
    /\ releases = {}
    /\ abort_tasks = {}
    /\ client = [r \in Request |-> "none"]
    /\ lora = [registry |-> SetToSeq(setup.lora_paths \X {0}),
               counters |-> [id \in setup.lora_paths \X {0} |-> 0],
               cache    |-> setup.lora_paths]
    /\ loads = 0
    /\ lora_update_lock = Nobody
    /\ target = <<NoLora, 0>>
    /\ call = 0
    /\ is_pause = FALSE
    /\ pausing = "no"
    /\ updating = "no"
    /\ updates = 0
    /\ to_scheduler = <<>>
    /\ from_scheduler = {}
    /\ queued = {} /\ running = {} /\ to_finish = {}
    /\ loaded = setup.lora_paths \X {0}
    /\ stopped = FALSE
    /\ mixed = {}

(* What the event loop and the scheduler do by themselves. *)
RequestStep(r) ==
    \/ PassPause(r) \/ AcquireReader(r) \/ Increment(r)
    \/ TokenizeAndSend(r) \/ Respond(r)
    \/ AbortTask(r) \/ ReleaseTask(r) \/ HandleBatchOutput(r) \/ HandleAbortReq(r)

LoraStep(t) ==
    \/ StartLoad(t) \/ WaitForUnload(t) \/ UnloadAnswered(t) \/ LoadFailed(t)
    \/ \E ok \in BOOLEAN : LoadAnswered(t, ok)

SchedulerStep(r) == SchedulerRun(r) \/ SchedulerFinish(r)

ControlStep == Unload \/ AbortLoop \/ AcquireWriter \/ UpdateAnswered

(* What clients and operators may or may not do. *)
ClientStep(r) ==
    GenerateRequest(r) \/ TokenizeFails(r) \/ Disconnect(r) \/ CancelStream(r)
      \/ SchedulerReject(r)

OperatorStep == CallLora \/ PauseGeneration \/ ContinueGeneration \/ UpdateWeights

Next ==
    \/ \E r \in Request : RequestStep(r) \/ SchedulerStep(r) \/ ClientStep(r)
    \/ \E t \in Task : LoraStep(t)
    \/ ControlStep
    \/ OperatorStep
    \/ SchedulerReceive

Spec == Init /\ [][Next]_vars

(* The event loop runs every coroutine that can run, and so does the       *)
(* scheduler's loop with its messages and requests.                        *)
FairSpec ==
    /\ Spec
    /\ \A r \in Request : WF_vars(RequestStep(r)) /\ WF_vars(SchedulerStep(r))
    /\ \A t \in Task : WF_vars(LoraStep(t))
    /\ WF_vars(ControlStep) /\ WF_vars(SchedulerReceive)

-----------------------------------------------------------------------------
Id == Adapter \X (0..MaxLoads)

AnyId == Id \cup {<<NoLora, 0>>}

Message ==
    [type : {"generate", "abort"}, of : Request]
      \cup [type : {"abort_all", "update", "pause", "continue"}]
      \cup [type : {"load", "unload"}, of : Id]

Answers ==
    [type : {"output", "abort"}, of : Request, outcome : Outcomes \cup {"aborted"}]
      \cup [type : {"load"}, of : Id, ok : BOOLEAN]
      \cup [type : {"unload", "load_error"}, of : Id] \cup {Update}

(* The type invariant; an id that is loaded or unloaded is one that was    *)
(* created.                                                                *)
TypeOK ==
    /\ setup \in Setups
    /\ pc \in [Task -> InSection \cup {"new", "pause_wait", "reader_wait", "done"}]
    /\ lora_id \in [Request -> AnyId]
    /\ rid_to_state \subseteq Request
    /\ out \in [Request -> Outcomes \cup {"none", "aborted"}]
    /\ releases \subseteq Request /\ abort_tasks \subseteq Request
    /\ client \in [Request -> Outcomes \cup {"none", "aborted", "exception"}]
    /\ lora.registry \in Seq(Id) /\ lora.cache \subseteq Adapter
    /\ DOMAIN lora.counters \subseteq Id /\ \A id \in DOMAIN lora.counters : lora.counters[id] \in Int
    /\ loads \in 0..MaxLoads
    /\ lora_update_lock \in Task \cup {Nobody}
    /\ target \in AnyId
    /\ call \in 0..Len(setup.calls)
    /\ is_pause \in BOOLEAN
    /\ pausing \in {"no", "aborting", "done", "over"}
    /\ updating \in {"no", "writer_wait", "locked", "paused", "paused_held"}
    /\ updates \in 0..setup.updates
    /\ to_scheduler \in Seq(Message)
    /\ from_scheduler \subseteq Answers
    /\ queued \subseteq Request /\ running \subseteq Request /\ to_finish \subseteq Request
    /\ loaded \subseteq Id
    /\ stopped \in BOOLEAN
    /\ mixed \subseteq Request

InScheduler(r) ==
    \/ r \in queued \cup running
    \/ Contains(to_scheduler, [type |-> "generate", of |-> r])

(* A request that is on its way to the scheduler or in it finds the        *)
(* adapter it acquired loaded there, whatever loads, unloads and evictions *)
(* happen meanwhile: unloading waits for the ongoing requests.             *)
AdapterLoadedWhileUsed ==
    \A r \in Request :
        InScheduler(r) /\ setup.lora[r] # NoLora =>
            /\ lora_id[r] \in loaded
            /\ ~Contains(to_scheduler, [type |-> "unload", of |-> lora_id[r]])

(* The registry names only adapters the backend has, one id per name, and  *)
(* each has its counter.                                                   *)
RegistryBacked ==
    /\ \A i, j \in DOMAIN lora.registry :
           lora.registry[i][1] = lora.registry[j][1] => i = j
    /\ ToSet(lora.registry) \subseteq loaded \cap DOMAIN lora.counters

(* No weight update falls into a request that is answered normally, unless *)
(* the engine was paused in a mode that keeps requests.                    *)
OneWeightVersion ==
    \A r \in Request :
        client[r] = "stop" /\ setup.pause_mode # "retract" => r \notin mixed

(* After pause_generation in mode "abort" has returned, nothing a client   *)
(* waits for is in the scheduler or can get there before continue.         *)
PausedMeansIdle ==
    pausing = "done" /\ setup.pause_mode = "abort" =>
        \A r \in Request : pc[r] \notin InSection /\ (InScheduler(r) => r \notin rid_to_state)

(* A request that ended leaves no entry in rid_to_state behind. *)
NoStateLeft ==
    \A r \in Request : pc[r] = "done" => r \notin rid_to_state

(* Every request ends and every control call returns, unless the engine    *)
(* stays paused: no lock is held forever and no wake-up is missed.         *)
EverythingEnds ==
    /\ \A r \in Request : (pc[r] # "new") ~> (pc[r] = "done" \/ is_pause)
    /\ (pausing = "aborting") ~> (pausing # "aborting")
    /\ (updating # "no") ~> (updating = "no" \/ is_pause)
    /\ (pc[Operator] # "new") ~> (pc[Operator] = "new" \/ is_pause)

(* An unload that has begun is carried out: the usage counter reaches zero *)
(* when the requests that use the adapter have ended.                      *)
UnloadEnds == (pc[Operator] = "draining") ~> (pc[Operator] # "draining")
=============================================================================
