----------------------- MODULE TokenizerManagerProofs -----------------------
(***************************************************************************)
(* The safety invariants of the front end, for any number of requests,     *)
(* adapters and loads and for every environment.                           *)
(***************************************************************************)
EXTENDS TokenizerManager, TLAPS, FiniteSetTheorems, SequenceTheorems

USE DEF request_vars, tasks, lora_vars, control_vars, sched_vars, channels

-----------------------------------------------------------------------------
(* The parts of the inductive invariants. *)

LoraState ==
    [registry : Seq(Id), counters : UNION {[S -> Int] : S \in SUBSET Id},
     cache : SUBSET Adapter]

HoldsLock(t) == pc[t] \in {"loading", "draining", "unloading"}

(* The type invariant, the shape of the LoRA registry, and what a program  *)
(* counter says of the coroutine's adapter or call.                        *)
TypeInv ==
    /\ TypeOK
    /\ lora \in LoraState
    /\ pc[Operator] \in {"new", "lock_wait", "loading", "draining", "unloading"}
    /\ pc[Operator] # "new" => call >= 1
    /\ \A r \in Request :
           pc[r] \in {"lock_wait", "loading", "draining", "unloading"} => setup.lora[r] # NoLora
    /\ \A t \in Task : HoldsLock(t) => target \in Id

-----------------------------------------------------------------------------
Generate(r) == [type |-> "generate", of |-> r]

IsAnswer(msg, r) == msg.type \in {"output", "abort"} /\ msg.of = r

Answered(r) == \E msg \in from_scheduler : IsAnswer(msg, r)

(* A request is in one place: not yet sent, in the socket, in the queue,   *)
(* in the batch, answered, or with its output delivered.                   *)
Placed(r) ==
    /\ InScheduler(r) \/ Answered(r) \/ out[r] # "none" => pc[r] \in {"waiting", "done"}
    /\ InScheduler(r) => ~Answered(r) /\ out[r] = "none"
    /\ Answered(r) => out[r] = "none"
    /\ Contains(to_scheduler, Generate(r)) => r \notin queued \cup running
    /\ \A i, j \in 1..Len(to_scheduler) :
           to_scheduler[i] = Generate(r) /\ to_scheduler[j] = Generate(r) => i = j
    /\ ~(r \in queued /\ r \in running)
    /\ \A m, n \in from_scheduler : IsAnswer(m, r) /\ IsAnswer(n, r) => m = n

(* What the client got is what was delivered, or an exception. *)
Ended(r) ==
    /\ client[r] # "none" => pc[r] = "done"
    /\ client[r] \in {"none", "exception", out[r]}
    /\ r \in rid_to_state => pc[r] \notin {"new", "done"}

FlowInv == \A r \in Request : Placed(r) /\ Ended(r)

-----------------------------------------------------------------------------
(* An aborting pause beside at most one weight update. *)
FewUpdates == setup.pause_mode = "abort" => setup.updates <= 1

PauseInv ==
    /\ is_pause <=> pausing \in {"aborting", "done"}
    /\ pausing # "no" => setup.pause_mode # "none"
    /\ pausing = "aborting" => setup.pause_mode = "abort"
    /\ updates = 0 => updating = "no" /\ \A r \in Request : pc[r] # "reader_wait"
    /\ updates = 0 /\ pausing = "done" /\ setup.pause_mode = "abort" => readers = {}
    /\ \A i \in 1..Len(to_scheduler) :
           to_scheduler[i] = [type |-> "pause"] => setup.pause_mode = "retract"

(* What is in the scheduler, or ahead of it in the socket, when an update  *)
(* gets there was given up by its client.                                  *)
UpdateAlone ==
    \A i \in 1..Len(to_scheduler) : to_scheduler[i] = Update =>
        \A r \in Request :
            r \in queued \cup running \/ (\E j \in 1..(i-1) : to_scheduler[j] = Generate(r))
                => pc[r] = "done"

MixedEnded == \A r \in mixed : pc[r] = "done" /\ client[r] # "stop"

UpdateInv == FewUpdates /\ setup.pause_mode # "retract" => UpdateAlone /\ MixedEnded

-----------------------------------------------------------------------------
(* The registry as a sequence without repetitions. *)

Distinct(s) == \A i, j \in DOMAIN s : s[i] = s[j] => i = j

LEMMA RemoveAtFacts ==
    ASSUME NEW S, NEW s \in Seq(S), NEW i \in 1..Len(s)
    PROVE  /\ RemoveAt(s, i) \in Seq(S)
           /\ Len(RemoveAt(s, i)) = Len(s) - 1
           /\ \A j \in 1..(Len(s) - 1) : RemoveAt(s, i)[j] = IF j < i THEN s[j] ELSE s[j + 1]
<1> DEFINE a == SubSeq(s, 1, i - 1)
           b == SubSeq(s, i + 1, Len(s))
<1>1. a \in Seq(S) /\ Len(a) = i - 1 /\ \A j \in 1..(i - 1) : a[j] = s[j]
  OBVIOUS
<1>2. /\ b \in Seq(S) /\ Len(b) = Len(s) - i
      /\ \A j \in 1..(Len(s) - i) : b[j] = s[i + j]
  OBVIOUS
<1>3. RemoveAt(s, i) = a \o b
  BY DEF RemoveAt
<1> HIDE DEF a, b
<1>4. /\ a \o b \in Seq(S) /\ Len(a \o b) = Len(a) + Len(b)
      /\ \A j \in 1..(Len(a) + Len(b)) :
             (a \o b)[j] = IF j <= Len(a) THEN a[j] ELSE b[j - Len(a)]
  BY <1>1, <1>2, ConcatProperties
<1> QED
  BY SMTT(60), <1>1, <1>2, <1>3, <1>4

(* unregister: the id goes, the others stay in their order. *)
LEMMA UnlistFacts ==
    ASSUME NEW S, NEW s \in Seq(S), Distinct(s), NEW id \in ToSet(s)
    PROVE  /\ Unlist(s, id) \in Seq(S)
           /\ ToSet(Unlist(s, id)) = ToSet(s) \ {id}
           /\ Distinct(Unlist(s, id))
<1>1. PICK i \in DOMAIN s : s[i] = id /\ Unlist(s, id) = RemoveAt(s, i)
  <2>1. \E i \in DOMAIN s : s[i] = id
    BY DEF ToSet
  <2> QED
    BY <2>1 DEF Unlist
<1>2. i \in 1..Len(s) /\ DOMAIN s = 1..Len(s)
  OBVIOUS
<1> DEFINE t == RemoveAt(s, i)
<1>3. /\ t \in Seq(S) /\ Len(t) = Len(s) - 1 /\ DOMAIN t = 1..(Len(s) - 1)
      /\ \A j \in 1..(Len(s) - 1) : t[j] = IF j < i THEN s[j] ELSE s[j + 1]
  BY ZenonT(60), <1>2, RemoveAtFacts, LenProperties
<1> HIDE DEF t
<1>4. Distinct(t)
  <2> SUFFICES ASSUME NEW j \in 1..(Len(s) - 1), NEW k \in 1..(Len(s) - 1), t[j] = t[k]
               PROVE  j = k
    BY <1>3 DEF Distinct
  <2>1. PICK a \in 1..Len(s) : t[j] = s[a] /\ a = IF j < i THEN j ELSE j + 1
    BY <1>2, <1>3
  <2>2. PICK b \in 1..Len(s) : t[k] = s[b] /\ b = IF k < i THEN k ELSE k + 1
    BY <1>2, <1>3
  <2>3. a = b
    BY <1>2, <2>1, <2>2 DEF Distinct
  <2> QED
    BY <1>2, <2>1, <2>2, <2>3
<1>5. ASSUME NEW x \in ToSet(t) PROVE x \in ToSet(s) /\ x # id
  <2>1. PICK j \in 1..(Len(s) - 1) : x = t[j]
    BY <1>3 DEF ToSet
  <2> QED
    BY <2>1, <1>1, <1>2, <1>3 DEF ToSet, Distinct
<1>6. ASSUME NEW x \in ToSet(s), x # id PROVE x \in ToSet(t)
  <2>1. PICK j \in 1..Len(s) : x = s[j]
    BY <1>2 DEF ToSet
  <2>2. CASE j < i
    BY <2>1, <2>2, <1>2, <1>3 DEF ToSet
  <2>3. CASE j > i
    <3>1. t[j - 1] = x /\ j - 1 \in DOMAIN t
      BY <2>1, <2>3, <1>2, <1>3
    <3> QED
      BY <3>1 DEF ToSet
  <2> QED
    BY <2>1, <2>2, <2>3, <1>1, <1>2, <1>6
<1> QED
  BY <1>1, <1>3, <1>4, <1>5, <1>6 DEF t

(* A new id at the end. *)
LEMMA AppendFacts ==
    ASSUME NEW S, NEW s \in Seq(S), NEW id \in S
    PROVE  /\ Append(s, id) \in Seq(S)
           /\ ToSet(Append(s, id)) = ToSet(s) \cup {id}
           /\ Distinct(s) /\ id \notin ToSet(s) => Distinct(Append(s, id))
<1> DEFINE t == Append(s, id)
<1>1. /\ t \in Seq(S) /\ DOMAIN s = 1..Len(s) /\ DOMAIN t = 1..(Len(s) + 1)
      /\ \A j \in 1..Len(s) : t[j] = s[j]
      /\ t[Len(s) + 1] = id /\ Len(s) \in Nat
  OBVIOUS
<1> HIDE DEF t
<1>2. ToSet(t) \subseteq ToSet(s) \cup {id}
  BY <1>1 DEF ToSet
<1>3. ToSet(s) \cup {id} \subseteq ToSet(t)
  <2>1. ASSUME NEW x \in ToSet(s) PROVE x \in ToSet(t)
    BY <1>1 DEF ToSet
  <2>2. id \in ToSet(t)
    <3>1. Len(s) + 1 \in DOMAIN t
      BY <1>1
    <3> QED
      BY <3>1, <1>1 DEF ToSet
  <2> QED
    BY <2>1, <2>2
<1>4. Distinct(s) /\ id \notin ToSet(s) => Distinct(t)
  BY <1>1 DEF Distinct, ToSet
<1> QED
  BY <1>1, <1>2, <1>3, <1>4 DEF t

LEMMA UnlistType ==
    ASSUME NEW S, NEW s \in Seq(S), NEW id \in ToSet(s)
    PROVE  Unlist(s, id) \in Seq(S)
<1>1. \E i \in DOMAIN s : s[i] = id
  BY DEF ToSet
<1>2. PICK i \in DOMAIN s : Unlist(s, id) = RemoveAt(s, i)
  BY <1>1 DEF Unlist
<1> QED
  BY <1>2, RemoveAtFacts, LenProperties

(* The id of a registered name. *)
LEMMA IdOfFacts ==
    ASSUME NEW L \in LoraState, NEW name, Registered(L, name)
    PROVE  IdOf(L, name) \in ToSet(L.registry) /\ IdOf(L, name)[1] = name /\ IdOf(L, name) \in Id
<1>1. \E id \in ToSet(L.registry) : id[1] = name
  BY DEF Registered, ToSet
<1>2. ToSet(L.registry) \subseteq Id
  BY DEF LoraState, ToSet
<1> QED
  BY <1>1, <1>2 DEF IdOf

(* Looking an adapter up moves its id to the end. *)
LEMMA LookUpFacts ==
    ASSUME NEW L \in LoraState, NEW name, Registered(L, name)
    PROVE  /\ LookUp(L, name) \in LoraState
           /\ LookUp(L, name).counters = L.counters
           /\ LookUp(L, name).cache = L.cache
           /\ Distinct(L.registry) =>
                  /\ ToSet(LookUp(L, name).registry) = ToSet(L.registry)
                  /\ Distinct(LookUp(L, name).registry)
<1> DEFINE id == IdOf(L, name)
           reg == Append(Unlist(L.registry, id), id)
<1>1. id \in ToSet(L.registry) /\ id \in Id
  BY IdOfFacts
<1>2. L.registry \in Seq(Id)
  BY DEF LoraState
<1>3. Unlist(L.registry, id) \in Seq(Id)
  BY <1>1, <1>2, UnlistType
<1>4. reg \in Seq(Id)
  BY <1>1, <1>3, AppendFacts
<1>5. Distinct(L.registry) => ToSet(reg) = ToSet(L.registry) /\ Distinct(reg)
  <2> SUFFICES ASSUME Distinct(L.registry) PROVE ToSet(reg) = ToSet(L.registry) /\ Distinct(reg)
    OBVIOUS
  <2>1. /\ ToSet(Unlist(L.registry, id)) = ToSet(L.registry) \ {id}
        /\ Distinct(Unlist(L.registry, id))
    BY <1>1, <1>2, UnlistFacts
  <2> QED
    BY <1>1, <1>3, <2>1, AppendFacts
<1>6. LookUp(L, name) = [L EXCEPT !.registry = reg]
  BY DEF LookUp
<1> HIDE DEF reg
<1> QED
  BY <1>4, <1>5, <1>6 DEF LoraState

LEMMA CountFacts ==
    ASSUME NEW L \in LoraState, NEW id, NEW n \in Int
    PROVE  /\ Count(L, id, n) \in LoraState
           /\ Count(L, id, n).registry = L.registry /\ Count(L, id, n).cache = L.cache
           /\ DOMAIN Count(L, id, n).counters = DOMAIN L.counters
           /\ \A x \in DOMAIN L.counters :
                  /\ L.counters[x] \in Int
                  /\ Count(L, id, n).counters[x] = L.counters[x] + IF x = id THEN n ELSE 0
<1>1. PICK S \in SUBSET Id : L.counters \in [S -> Int]
  BY DEF LoraState
<1>2. CASE id \in S
  <2> DEFINE c == [L.counters EXCEPT ![id] = @ + n]
  <2>1. c \in [S -> Int] /\ \A x \in S : c[x] = L.counters[x] + IF x = id THEN n ELSE 0
    BY <1>1, <1>2
  <2>2. Count(L, id, n) = [L EXCEPT !.counters = c]
    BY <1>1, <1>2 DEF Count, LoraState
  <2> HIDE DEF c
  <2> QED
    BY <1>1, <2>1, <2>2 DEF LoraState
<1>3. CASE id \notin S
  BY <1>1, <1>3 DEF Count
<1> QED
  BY <1>2, <1>3

LEMMA RegisterFacts ==
    ASSUME NEW L \in LoraState, NEW id \in Id
    PROVE  /\ Register(L, id) \in LoraState
           /\ Register(L, id).registry = Append(L.registry, id)
           /\ DOMAIN Register(L, id).counters = DOMAIN L.counters \cup {id}
           /\ Register(L, id).counters[id] = 0
           /\ \A x \in DOMAIN L.counters : x # id => Register(L, id).counters[x] = L.counters[x]
<1>1. PICK S \in SUBSET Id : L.counters \in [S -> Int]
  BY DEF LoraState
<1> DEFINE c == [i \in S \cup {id} |-> IF i = id THEN 0 ELSE L.counters[i]]
           reg == Append(L.registry, id)
<1>2. c \in [S \cup {id} -> Int] /\ S \cup {id} \in SUBSET Id
  BY <1>1
<1>3. reg \in Seq(Id) /\ L.cache \cup {id[1]} \subseteq Adapter
  BY DEF LoraState, Id
<1>4. Register(L, id) = [registry |-> reg, counters |-> c, cache |-> L.cache \cup {id[1]}]
  BY <1>1 DEF Register
<1>5. c \in UNION {[T -> Int] : T \in SUBSET Id}
  BY <1>2
<1>6. DOMAIN c = DOMAIN L.counters \cup {id} /\ c[id] = 0 /\ \A x \in S : x # id => c[x] = L.counters[x]
  BY <1>1
<1> HIDE DEF c, reg
<1>7. Register(L, id) \in LoraState
  BY <1>3, <1>4, <1>5 DEF LoraState
<1>8. Register(L, id).registry = reg /\ Register(L, id).counters = c
  BY <1>4
<1> QED
  BY <1>1, <1>6, <1>7, <1>8 DEF reg

LEMMA UnlistedFacts ==
    ASSUME NEW L \in LoraState, NEW id \in ToSet(L.registry)
    PROVE  /\ [L EXCEPT !.registry = Unlist(@, id)] \in LoraState
           /\ [L EXCEPT !.registry = Unlist(@, id)].registry = Unlist(L.registry, id)
           /\ [L EXCEPT !.registry = Unlist(@, id)].counters = L.counters
           /\ [L EXCEPT !.registry = Unlist(@, id)].cache = L.cache
<1>1. Unlist(L.registry, id) \in Seq(Id)
  BY UnlistType DEF LoraState
<1> QED
  BY <1>1 DEF LoraState

LEMMA DropCounterFacts ==
    ASSUME NEW L \in LoraState, NEW id
    PROVE  /\ DropCounter(L, id) \in LoraState
           /\ DropCounter(L, id).registry = L.registry
           /\ DOMAIN DropCounter(L, id).counters = DOMAIN L.counters \ {id}
           /\ \A x \in DOMAIN L.counters : x # id => DropCounter(L, id).counters[x] = L.counters[x]
<1>1. PICK S \in SUBSET Id : L.counters \in [S -> Int]
  BY DEF LoraState
<1> DEFINE c == Restrict(L.counters, DOMAIN L.counters \ {id})
<1>2. c \in [S \ {id} -> Int] /\ \A x \in S : x # id => c[x] = L.counters[x]
  BY <1>1 DEF Restrict
<1>3. DropCounter(L, id) = [L EXCEPT !.counters = c]
  BY DEF DropCounter
<1> HIDE DEF c
<1>4. c \in UNION {[T -> Int] : T \in SUBSET Id} /\ DOMAIN c = DOMAIN L.counters \ {id}
  BY <1>1, <1>2
<1> QED
  BY <1>1, <1>2, <1>3, <1>4 DEF LoraState

(* What a message carries. *)
LEMMA MessageFacts ==
    ASSUME NEW msg \in Message
    PROVE  /\ msg.type \in {"generate", "abort"} => msg.of \in Request
           /\ msg.type \in {"load", "unload"} => msg.of \in Id
           /\ msg.type = "unload" => msg = [type |-> "unload", of |-> msg.of]
           /\ msg.type = "update" => msg = Update
BY DEF Message, Update

LEMMA SetupFacts ==
    ASSUME TypeOK
    PROVE  /\ setup.lora \in [Request -> Adapter \cup {NoLora}]
           /\ setup.outcomes \subseteq Outcomes
           /\ setup.updates \in Nat
           /\ setup.calls \in Seq({"load", "unload"} \X Adapter)
           /\ setup.lora_paths \subseteq Adapter
           /\ setup.max_loaded_loras \in Nat
           /\ setup.pause_mode \in {"none", "abort", "retract"}
BY FrontEndAssumption DEF TypeOK, Setup

LEMMA MessageTypes ==
    /\ \A r \in Request : [type |-> "generate", of |-> r] \in Message
    /\ \A r \in Request : [type |-> "abort", of |-> r] \in Message
    /\ \A id \in Id : [type |-> "load", of |-> id] \in Message
    /\ \A id \in Id : [type |-> "unload", of |-> id] \in Message
    /\ AbortAll \in Message /\ Update \in Message
    /\ [type |-> "pause"] \in Message /\ [type |-> "continue"] \in Message
BY DEF Message, AbortAll, Update

(* The messages of a weight update, one by one. *)
LEMMA UpdateWeightsSends ==
    ASSUME TypeInv, UpdateWeights
    PROVE  \E s \in {to_scheduler, Append(to_scheduler, AbortAll)} :
               /\ s \in Seq(Message)
               /\ to_scheduler' = IF is_pause \/ CanWrite THEN Append(s, Update) ELSE s
<1>1. to_scheduler \in Seq(Message) /\ AbortAll \in Message /\ Update \in Message
  BY MessageTypes DEF TypeInv, TypeOK
<1>2. /\ to_scheduler \o <<>> = to_scheduler
      /\ to_scheduler \o <<AbortAll>> = Append(to_scheduler, AbortAll)
      /\ \A s \in Seq(Message) : s \o <<Update>> = Append(s, Update)
  BY <1>1, AppendIsConcat, ConcatEmptySeq
<1>3. Append(to_scheduler, AbortAll) \in Seq(Message)
  BY <1>1
<1> QED
  BY <1>1, <1>2, <1>3 DEF UpdateWeights

(* Acquiring an adapter leaves the request with an id or with an exception.*)
LEMMA AcquireTypes ==
    ASSUME TypeInv, NEW r \in Request, NEW L \in LoraState, Acquire(r, L)
    PROVE  /\ lora' \in LoraState /\ lora_id' \in [Request -> AnyId]
           /\ \/ /\ \E p \in {"incrementing", "tokenize"} : pc' = [pc EXCEPT ![r] = p]
                 /\ UNCHANGED <<rid_to_state, client>>
              \/ Fail(r)
<1>1. CASE Registered(L, setup.lora[r])
  <2>1. IdOf(L, setup.lora[r]) \in Id /\ LookUp(L, setup.lora[r]) \in LoraState
    BY <1>1, IdOfFacts, LookUpFacts
  <2>2. Count(LookUp(L, setup.lora[r]), IdOf(L, setup.lora[r]), 1) \in LoraState
    BY <2>1, CountFacts
  <2>3. lora_id' \in [Request -> AnyId]
    BY <1>1, <2>1 DEF Acquire, TypeInv, TypeOK, AnyId
  <2> QED
    BY <1>1, <2>1, <2>2, <2>3 DEF Acquire
<1>2. CASE ~Registered(L, setup.lora[r])
  BY <1>2 DEF Acquire, TypeInv, TypeOK
<1> QED
  BY <1>1, <1>2

LEMMA ResolveLoraTypes ==
    ASSUME TypeInv, NEW r \in Request, ResolveLora(r)
    PROVE  /\ lora' \in LoraState /\ lora_id' \in [Request -> AnyId]
           /\ \/ /\ \E p \in {"incrementing", "tokenize"} : pc' = [pc EXCEPT ![r] = p]
                 /\ UNCHANGED <<rid_to_state, client>>
              \/ /\ setup.lora[r] # NoLora /\ pc' = [pc EXCEPT ![r] = "lock_wait"]
                 /\ UNCHANGED <<rid_to_state, client>>
              \/ Fail(r)
<1>1. lora \in LoraState /\ lora_id \in [Request -> AnyId]
  BY DEF TypeInv, TypeOK
<1> QED
  BY <1>1, AcquireTypes DEF ResolveLora

LEMMA UnregisterTypes ==
    ASSUME TypeInv, NEW t \in Task, NEW L \in LoraState, NEW id \in ToSet(L.registry),
           Unregister(t, L, id)
    PROVE  /\ lora' \in LoraState /\ target' = id /\ id \in Id
           /\ \E p \in {"draining", "unloading"} : pc' = [pc EXCEPT ![t] = p]
           /\ to_scheduler' \in Seq(Message)
           /\ UNCHANGED <<rid_to_state, client, lora_id>>
<1>1. id \in Id
  BY DEF LoraState, ToSet
<1> DEFINE gone == [L EXCEPT !.registry = Unlist(@, id)]
<1>2. gone \in LoraState
  BY UnlistedFacts
<1>3. DropCounter(gone, id) \in LoraState
  BY <1>2, DropCounterFacts
<1>4. to_scheduler \in Seq(Message) /\ [type |-> "unload", of |-> id] \in Message
  BY <1>1, MessageTypes DEF TypeInv, TypeOK
<1>5. Append(to_scheduler, [type |-> "unload", of |-> id]) \in Seq(Message)
  BY <1>4, AppendFacts
<1> HIDE DEF gone
<1> QED
  BY <1>1, <1>2, <1>3, <1>4, <1>5 DEF Unregister, Send, gone

(* How a load or an unload goes on: with an eviction or to its end. *)
LEMMA EndLoraTypes ==
    ASSUME TypeInv, NEW t \in Task, NEW L \in LoraState, EndLora(t, L)
    PROVE  /\ lora' \in LoraState /\ lora_id' \in [Request -> AnyId]
           /\ lora_update_lock' = Nobody
           /\ target' = target /\ to_scheduler' = to_scheduler
           /\ \/ /\ t = Operator /\ pc' = [pc EXCEPT ![t] = "new"]
                 /\ UNCHANGED <<rid_to_state, client>>
              \/ /\ t \in Request
                 /\ \E p \in {"incrementing", "tokenize"} : pc' = [pc EXCEPT ![t] = p]
                 /\ UNCHANGED <<rid_to_state, client>>
              \/ t \in Request /\ Fail(t)
<1>1. CASE t = Operator
  BY <1>1 DEF EndLora, TypeInv, TypeOK
<1>2. CASE t # Operator
  <2>1. t \in Request /\ Acquire(t, L)
    BY <1>2 DEF EndLora, Task
  <2> QED
    BY <1>2, <2>1, AcquireTypes DEF EndLora
<1> QED
  BY <1>1, <1>2

LEMMA EvictOrEndCases ==
    ASSUME TypeInv, NEW t \in Task, NEW L \in LoraState, EvictOrEnd(t, L)
    PROVE  \/ /\ Len(L.registry) > setup.max_loaded_loras
              /\ Head(L.registry) \in ToSet(L.registry)
              /\ Unregister(t, L, Head(L.registry)) /\ lora_update_lock' = lora_update_lock
           \/ EndLora(t, L)
<1>1. setup.max_loaded_loras \in Nat
  BY SetupFacts DEF TypeInv
<1>2. L.registry \in Seq(Id)
  BY DEF LoraState
<1>3. Len(L.registry) > setup.max_loaded_loras => Head(L.registry) \in ToSet(L.registry)
  BY <1>1, <1>2 DEF ToSet
<1> QED
  BY <1>3 DEF EvictOrEnd

(* A finite set listed as a sequence. *)
LEMMA SetToSeqFacts ==
    ASSUME NEW S, IsFiniteSet(S)
    PROVE  SetToSeq(S) \in Seq(S) /\ Distinct(SetToSeq(S)) /\ ToSet(SetToSeq(S)) = S
<1>1. Cardinality(S) \in Nat /\ ExistsBijection(1..Cardinality(S), S)
  BY FS_CardinalityType
<1>2. PICK f \in [1..Cardinality(S) -> S] : IsInjective(f)
  BY <1>1 DEF ExistsBijection, Bijection, Injection, IsInjective
<1> DEFINE q == SetToSeq(S)
<1>3. q \in [1..Cardinality(S) -> S] /\ IsInjective(q)
  BY <1>2 DEF SetToSeq
<1> HIDE DEF q
<1>4. q \in Seq(S) /\ Distinct(q)
  BY <1>1, <1>3 DEF IsInjective, Distinct
<1>5. q \in Injection(1..Cardinality(S), S)
  BY <1>3 DEF Injection, IsInjective
<1>6. IsFiniteSet(1..Cardinality(S)) /\ Cardinality(1..Cardinality(S)) = Cardinality(S)
  BY <1>1, FS_Interval
<1>7. q \in Surjection(1..Cardinality(S), S)
  BY <1>5, <1>6, FS_Injection
<1>8. ToSet(q) = S
  BY <1>3, <1>7 DEF Surjection, ToSet
<1> QED
  BY <1>4, <1>8 DEF q

LEMMA InitialRegistry ==
    ASSUME Init
    PROVE  /\ lora \in LoraState
           /\ Distinct(lora.registry) /\ ToSet(lora.registry) = setup.lora_paths \X {0}
           /\ DOMAIN lora.counters = setup.lora_paths \X {0}
           /\ setup.lora_paths \subseteq Adapter
<1>1. setup.lora_paths \subseteq Adapter
  BY FrontEndAssumption DEF Init, Setup
<1> DEFINE ids == setup.lora_paths \X {0}
<1>2. IsFiniteSet(ids)
  BY <1>1, FrontEndAssumption, FS_Subset, FS_Singleton, FS_Product
<1>3. ids \in SUBSET Id
  BY <1>1, FrontEndAssumption DEF Id
<1>4. SetToSeq(ids) \in Seq(Id) /\ Distinct(SetToSeq(ids)) /\ ToSet(SetToSeq(ids)) = ids
  BY <1>2, <1>3, SetToSeqFacts, SeqMonotonic
<1> DEFINE c == [id \in ids |-> 0]
<1>5. c \in UNION {[T -> Int] : T \in SUBSET Id} /\ DOMAIN c = ids
  <2>1. c \in [ids -> Int]
    OBVIOUS
  <2> QED
    BY <1>3, <2>1
<1>6. lora = [registry |-> SetToSeq(ids), counters |-> c, cache |-> setup.lora_paths]
  BY DEF Init
<1> HIDE DEF ids, c
<1> QED
  BY <1>1, <1>4, <1>5, <1>6 DEF LoraState, ids

LEMMA InitTypes == Init => TypeInv
<1> SUFFICES ASSUME Init PROVE TypeInv
  OBVIOUS
<1>1. lora \in LoraState
  BY InitialRegistry
<1>2. DOMAIN lora.counters \subseteq Id /\ \A id \in DOMAIN lora.counters : lora.counters[id] \in Int
  BY <1>1 DEF LoraState
<1>3. lora.registry \in Seq(Id) /\ lora.cache \subseteq Adapter
  BY <1>1 DEF LoraState
<1>4. setup \in Setup /\ setup \in Setups
  BY FrontEndAssumption DEF Init
<1>5. setup.updates \in Nat /\ Len(setup.calls) \in Nat
  BY <1>4 DEF Setup
<1>6. setup.lora_paths \X {0} \subseteq Id
  BY <1>4, FrontEndAssumption DEF Setup, Id
<1>7. /\ pc \in [Task -> InSection \cup {"new", "pause_wait", "reader_wait", "done"}]
      /\ lora_id \in [Request -> AnyId] /\ target \in AnyId
      /\ out \in [Request -> Outcomes \cup {"none", "aborted"}]
      /\ client \in [Request -> Outcomes \cup {"none", "aborted", "exception"}]
  BY DEF Init, AnyId
<1>8. /\ loads \in 0..MaxLoads /\ call \in 0..Len(setup.calls) /\ updates \in 0..setup.updates
      /\ to_scheduler \in Seq(Message) /\ from_scheduler \subseteq Answers
  BY <1>5, FrontEndAssumption DEF Init
<1>9. TypeOK
  BY <1>2, <1>3, <1>4, <1>6, <1>7, <1>8 DEF Init, TypeOK
<1> QED
  BY <1>1, <1>9 DEF Init, TypeInv, HoldsLock, Task



LEMMA LoraStateFacts ==
    ASSUME NEW L \in LoraState
    PROVE  /\ L.registry \in Seq(Id) /\ L.cache \subseteq Adapter
           /\ DOMAIN L.counters \subseteq Id /\ \A id \in DOMAIN L.counters : L.counters[id] \in Int
BY DEF LoraState

(* The answer to a load or an unload ends it ... *)
LEMMA EndLoraStep ==
    ASSUME TypeInv, NEW t \in Task, NEW L \in LoraState, EndLora(t, L),
           from_scheduler' \subseteq from_scheduler,
           UNCHANGED <<setup, out, tasks, loads, call, control_vars, sched_vars>>
    PROVE  TypeInv'
<1> USE FrontEndAssumption DEF TypeInv, TypeOK, HoldsLock, Task
<1>1. /\ lora' \in LoraState /\ lora_id' \in [Request -> AnyId]
      /\ lora_update_lock' = Nobody
      /\ target' = target /\ to_scheduler' = to_scheduler
  BY EndLoraTypes
<1>2. CASE t \in Request /\ Fail(t)
  BY <1>1, <1>2, LoraStateFacts DEF Fail
<1>3. CASE /\ t = Operator /\ pc' = [pc EXCEPT ![t] = "new"]
           /\ UNCHANGED <<rid_to_state, client>>
  BY <1>1, <1>3, LoraStateFacts
<1>4. CASE /\ t \in Request
           /\ \E p \in {"incrementing", "tokenize"} : pc' = [pc EXCEPT ![t] = p]
           /\ UNCHANGED <<rid_to_state, client>>
  BY <1>1, <1>4, LoraStateFacts DEF InSection
<1> QED
  BY <1>2, <1>3, <1>4, EndLoraTypes

(* ... or an adapter is unregistered. *)
LEMMA UnregisterStep ==
    ASSUME TypeInv, NEW t \in Task, NEW L \in LoraState, NEW id \in ToSet(L.registry),
           Unregister(t, L, id), lora_update_lock' \in {lora_update_lock, t},
           pc[t] \in {"lock_wait", "loading", "draining", "unloading"},
           from_scheduler' \subseteq from_scheduler,
           UNCHANGED <<setup, out, tasks, loads, call, control_vars, sched_vars>>
    PROVE  TypeInv'
<1> USE FrontEndAssumption DEF TypeInv, TypeOK, HoldsLock, Task
<1>1. /\ lora' \in LoraState /\ target' \in Id /\ to_scheduler' \in Seq(Message)
      /\ UNCHANGED <<rid_to_state, client, lora_id>>
  BY UnregisterTypes
<1>2. target' \in AnyId
  BY <1>1 DEF AnyId
<1>3. PICK p \in {"draining", "unloading"} : pc' = [pc EXCEPT ![t] = p]
  BY UnregisterTypes
<1> QED
  BY <1>1, <1>2, <1>3, LoraStateFacts DEF InSection

LEMMA TypeStep == TypeInv /\ [Next]_vars => TypeInv'
<1> SUFFICES ASSUME TypeInv PROVE [Next]_vars => TypeInv'
  OBVIOUS
<1> USE FrontEndAssumption DEF TypeInv, TypeOK, HoldsLock, Task
<1>1. ASSUME NEW r \in Request, GenerateRequest(r) PROVE TypeInv'
  BY <1>1 DEF GenerateRequest
<1>2. ASSUME NEW r \in Request, TokenizeAndSend(r) PROVE TypeInv'
  <2>0. [type |-> "generate", of |-> r] \in Message
    BY MessageTypes
  <2>1. to_scheduler' \in Seq(Message)
    BY <1>2, <2>0, AppendFacts DEF TokenizeAndSend, Send
  <2> QED
    BY <1>2, <2>1
    DEF TokenizeAndSend, InSection
<1>3. ASSUME NEW r \in Request, Increment(r) PROVE TypeInv'
  <2>1. lora' \in LoraState
    BY <1>3, CountFacts DEF Increment
  <2> QED
    BY <1>3, <2>1, LoraStateFacts DEF Increment, InSection
<1>4. ASSUME NEW r \in Request, Respond(r) PROVE TypeInv'
  BY <1>4, CountFacts, LoraStateFacts
  DEF Respond
<1>5. ASSUME NEW r \in Request, ReleaseTask(r) PROVE TypeInv'
  BY <1>5, CountFacts, LoraStateFacts
  DEF ReleaseTask
<1>6. ASSUME NEW r \in Request, AbortTask(r) PROVE TypeInv'
  <2>0. [type |-> "abort", of |-> r] \in Message
    BY MessageTypes
  <2>1. to_scheduler' \in Seq(Message)
    <3>1. to_scheduler' \in {to_scheduler, Append(to_scheduler, [type |-> "abort", of |-> r])}
      BY <1>6 DEF AbortTask, Abort, Send
    <3> QED
      BY SMTT(60), <2>0, <3>1, AppendFacts
  <2> QED
    BY <1>6, <2>1
    DEF AbortTask
<1>7. ASSUME NEW r \in Request, TokenizeFails(r) PROVE TypeInv'
  BY <1>7 DEF TokenizeFails, Fail
<1>8. ASSUME NEW r \in Request, Disconnect(r) PROVE TypeInv'
  <2>0. [type |-> "abort", of |-> r] \in Message
    BY MessageTypes
  <2>1. to_scheduler' \in Seq(Message)
    <3>1. Append(to_scheduler, [type |-> "abort", of |-> r]) \in Seq(Message)
      BY <2>0, AppendFacts
    <3> QED
      BY <1>8, <3>1 DEF Disconnect, Abort, Send
  <2> QED
    BY <1>8, <2>1
    DEF Disconnect, Fail
<1>9. ASSUME NEW r \in Request, CancelStream(r) PROVE TypeInv'
  BY <1>9 DEF CancelStream, Fail
<1>10. ASSUME NEW r \in Request, HandleBatchOutput(r) PROVE TypeInv'
  BY <1>10 DEF HandleBatchOutput, Answers, Update
<1>11. ASSUME NEW r \in Request, HandleAbortReq(r) PROVE TypeInv'
  <2>1. PICK msg \in from_scheduler :
           /\ msg.type = "abort" /\ from_scheduler' = from_scheduler \ {msg}
           /\ rid_to_state' \subseteq rid_to_state
           /\ out' = out \/ out' = [out EXCEPT ![r] = msg.outcome]
    BY <1>11 DEF HandleAbortReq
  <2>2. msg.outcome \in Outcomes \cup {"aborted"}
    BY <2>1 DEF Answers, Update
  <2> QED
    BY <1>11, <2>1, <2>2 DEF HandleAbortReq
<1>12. ASSUME NEW r \in Request, SchedulerRun(r) PROVE TypeInv'
  BY <1>12 DEF SchedulerRun
<1>13. ASSUME NEW r \in Request, SchedulerReject(r) PROVE TypeInv'
  <2>1. [type |-> "abort", of |-> r, outcome |-> "rejected"] \in Answers
    BY DEF Answers, Outcomes
  <2> QED
    BY <1>13, <2>1 DEF SchedulerReject, Reply
<1>14. ASSUME NEW r \in Request, SchedulerFinish(r) PROVE TypeInv'
  BY <1>14, SetupFacts
  DEF SchedulerFinish, Reply, Answers
<1>15. ASSUME CallLora PROVE TypeInv'
  <2>1. call' \in 0..Len(setup.calls) /\ call' >= 1
    BY <1>15, SetupFacts DEF CallLora
  <2> QED
    BY <1>15, <2>1 DEF CallLora, InSection
<1>16. ASSUME AbortLoop PROVE TypeInv'
  <2>0. AbortAll \in Message
    BY MessageTypes
  <2>1. to_scheduler' \in Seq(Message)
    BY <1>16, <2>0, AppendFacts DEF AbortLoop, Send
  <2> QED
    BY <1>16, <2>1
    DEF AbortLoop
<1>17. ASSUME AcquireWriter PROVE TypeInv'
  <2>0. Update \in Message
    BY MessageTypes
  <2>1. to_scheduler' \in Seq(Message)
    BY <1>17, <2>0, AppendFacts DEF AcquireWriter, Send
  <2> QED
    BY <1>17, <2>1
    DEF AcquireWriter
<1>18. ASSUME UpdateAnswered PROVE TypeInv'
  BY <1>18 DEF UpdateAnswered
<1>19. ASSUME PauseGeneration PROVE TypeInv'
  <2>0. [type |-> "pause"] \in Message
    BY MessageTypes
  <2>1. to_scheduler' \in Seq(Message)
    <3>1. Append(to_scheduler, [type |-> "pause"]) \in Seq(Message)
      BY <2>0, AppendFacts
    <3> QED
      BY <1>19, <3>1 DEF PauseGeneration, Send
  <2> QED
    BY <1>19, <2>1
    DEF PauseGeneration
<1>20. ASSUME ContinueGeneration PROVE TypeInv'
  <2>0. [type |-> "continue"] \in Message
    BY MessageTypes
  <2>1. to_scheduler' \in Seq(Message)
    BY <1>20, <2>0, AppendFacts DEF ContinueGeneration, Send
  <2> QED
    BY <1>20, <2>1
    DEF ContinueGeneration
<1>21. ASSUME UpdateWeights PROVE TypeInv'
  <2>1. to_scheduler' \in Seq(Message)
    <3>1. to_scheduler \o <<AbortAll>> \in Seq(Message) /\ to_scheduler \o <<>> = to_scheduler
      BY MessageTypes
    <3>2. \A s \in Seq(Message) : s \o <<Update>> \in Seq(Message)
      BY MessageTypes
    <3> QED
      BY <1>21, <3>1, <3>2 DEF UpdateWeights
  <2>2. updates' \in 0..setup.updates
    BY SMTT(60), <1>21, SetupFacts DEF UpdateWeights
  <2>3. updating' \in {"no", "writer_wait", "locked", "paused", "paused_held"}
    BY <1>21 DEF UpdateWeights
  <2> QED
    BY <1>21, <2>1, <2>2, <2>3 DEF UpdateWeights
<1>22. ASSUME NEW r \in Request, PassPause(r) PROVE TypeInv'
  <2>1. CASE CanRead
    <3>1. ResolveLora(r)
      BY <1>22, <2>1 DEF PassPause
    <3> HIDE DEF TypeInv, TypeOK
    <3>2. lora' \in LoraState /\ lora_id' \in [Request -> AnyId]
      BY <3>1, ResolveLoraTypes
    <3> USE DEF TypeInv, TypeOK
    <3>3. CASE Fail(r)
      BY <1>22, <3>2, <3>3, LoraStateFacts DEF PassPause, Fail
    <3>4. CASE /\ \E p \in {"incrementing", "tokenize"} : pc' = [pc EXCEPT ![r] = p]
               /\ UNCHANGED <<rid_to_state, client>>
      BY <1>22, <3>2, <3>4, LoraStateFacts DEF PassPause, InSection
    <3>5. CASE /\ setup.lora[r] # NoLora /\ pc' = [pc EXCEPT ![r] = "lock_wait"]
               /\ UNCHANGED <<rid_to_state, client>>
      BY <1>22, <3>2, <3>5, LoraStateFacts DEF PassPause, InSection
    <3> QED
      BY <3>1, <3>3, <3>4, <3>5, ResolveLoraTypes
  <2>2. CASE ~CanRead
    BY SMTT(60), <1>22, <2>2 DEF PassPause
  <2> QED
    BY <2>1, <2>2
<1>23. ASSUME NEW r \in Request, AcquireReader(r) PROVE TypeInv'
  <2>1. ResolveLora(r)
    BY <1>23 DEF AcquireReader
  <2>2. lora' \in LoraState /\ lora_id' \in [Request -> AnyId]
    BY <2>1, ResolveLoraTypes
  <2>3. CASE Fail(r)
    BY <1>23, <2>2, <2>3, LoraStateFacts DEF AcquireReader, Fail
  <2>4. CASE /\ \E p \in {"incrementing", "tokenize"} : pc' = [pc EXCEPT ![r] = p]
             /\ UNCHANGED <<rid_to_state, client>>
    BY <1>23, <2>2, <2>4, LoraStateFacts DEF AcquireReader, InSection
  <2>5. CASE /\ setup.lora[r] # NoLora /\ pc' = [pc EXCEPT ![r] = "lock_wait"]
             /\ UNCHANGED <<rid_to_state, client>>
    BY <1>23, <2>2, <2>5, LoraStateFacts DEF AcquireReader, InSection
  <2> QED
    BY <2>1, <2>3, <2>4, <2>5, ResolveLoraTypes
<1>24. ASSUME NEW t \in Task, StartLoad(t) PROVE TypeInv'
  <2>1. Name(t) \in Adapter
    <3>1. CASE t = Operator
      BY <1>24, <3>1, SetupFacts DEF StartLoad, Name
    <3>2. CASE t # Operator
      BY <1>24, <3>2, SetupFacts DEF StartLoad, Name
    <3> QED
      BY <3>1, <3>2
  <2>2. target' \in Id /\ loads' \in 0..MaxLoads
    BY <1>24, <2>1 DEF StartLoad, Id
  <2>3. to_scheduler' \in Seq(Message)
    <3>1. [type |-> "load", of |-> target'] \in Message
      BY <2>2, MessageTypes
    <3> QED
      BY <1>24, <3>1, AppendFacts DEF StartLoad, Send
  <2>4. target' \in AnyId
    BY <2>2 DEF AnyId
  <2> QED
    BY ZenonT(60), <1>24, <2>2, <2>3, <2>4 DEF StartLoad, InSection
<1>25. ASSUME NEW t \in Task, WaitForUnload(t) PROVE TypeInv'
  <2>1. lora' \in LoraState
    BY <1>25, DropCounterFacts DEF WaitForUnload
  <2>2. to_scheduler' \in Seq(Message)
    <3>1. [type |-> "unload", of |-> target] \in Message
      BY <1>25, MessageTypes DEF WaitForUnload
    <3> QED
      BY <1>25, <3>1, AppendFacts DEF WaitForUnload, Send
  <2> QED
    BY <1>25, <2>1, <2>2, LoraStateFacts DEF WaitForUnload, InSection
<1>26. ASSUME NEW t \in Task, NEW ok \in BOOLEAN, LoadAnswered(t, ok) PROVE TypeInv'
  <2> DEFINE L == IF ok THEN Register(lora, target) ELSE lora
  <2>1. L \in LoraState
    BY <1>26, RegisterFacts DEF LoadAnswered
  <2>2. EvictOrEnd(t, L) /\ from_scheduler' \subseteq from_scheduler /\ pc[t] = "loading"
    BY <1>26 DEF LoadAnswered
  <2>3. UNCHANGED <<setup, out, tasks, loads, call, control_vars, sched_vars>>
    BY <1>26 DEF LoadAnswered
  <2> HIDE DEF L, TypeInv, TypeOK
  <2> QED
    BY <2>1, <2>2, <2>3, EvictOrEndCases, EndLoraStep, UnregisterStep
<1>27. ASSUME NEW t \in Task, UnloadAnswered(t) PROVE TypeInv'
  <2>1. from_scheduler' \subseteq from_scheduler /\ pc[t] = "unloading" /\ lora \in LoraState
    BY <1>27 DEF UnloadAnswered
  <2>2. UNCHANGED <<setup, out, tasks, loads, call, control_vars, sched_vars>>
    BY <1>27 DEF UnloadAnswered
  <2>3. EvictOrEnd(t, lora) \/ EndLora(t, lora)
    BY <1>27 DEF UnloadAnswered
  <2> HIDE DEF TypeInv, TypeOK
  <2> QED
    BY <2>1, <2>2, <2>3, EvictOrEndCases, EndLoraStep, UnregisterStep
<1>28. ASSUME Unload PROVE TypeInv'
  <2>1. from_scheduler' \subseteq from_scheduler /\ pc[Operator] = "lock_wait" /\ lora \in LoraState
    BY <1>28 DEF Unload
  <2>2. UNCHANGED <<setup, out, tasks, loads, call, control_vars, sched_vars>>
    BY <1>28 DEF Unload
  <2>3. CASE Registered(lora, Name(Operator))
    <3>1. /\ IdOf(lora, Name(Operator)) \in ToSet(lora.registry) /\ lora_update_lock' = Operator
          /\ Unregister(Operator, lora, IdOf(lora, Name(Operator)))
      BY <1>28, <2>1, <2>3, IdOfFacts DEF Unload
    <3> HIDE DEF TypeInv, TypeOK
    <3> QED
      BY <2>1, <2>2, <3>1, UnregisterStep
  <2>4. CASE ~Registered(lora, Name(Operator))
    <3>1. EndLora(Operator, lora)
      BY <1>28, <2>4 DEF Unload
    <3> HIDE DEF TypeInv, TypeOK
    <3> QED
      BY <2>1, <2>2, <3>1, EndLoraStep
  <2> QED
    BY <2>3, <2>4
<1>29. ASSUME SchedulerReceive PROVE TypeInv'
  <2> DEFINE msg == Head(to_scheduler)
  <2>1. msg \in Message /\ to_scheduler' \in Seq(Message)
    BY <1>29, HeadTailProperties DEF SchedulerReceive
  <2>2. /\ msg.type \in {"generate", "abort"} => msg.of \in Request
        /\ msg.type \in {"load", "unload"} => msg.of \in Id
        /\ msg.type = "unload" => msg = [type |-> "unload", of |-> msg.of]
        /\ msg.type = "update" => msg = Update
    BY <2>1, MessageFacts
  <2>3. /\ queued' \subseteq Request /\ running' \subseteq Request /\ to_finish' \subseteq Request
        /\ loaded' \subseteq Id /\ stopped' \in BOOLEAN /\ mixed' \subseteq Request
    BY <1>29, <2>2 DEF SchedulerReceive
  <2>4. from_scheduler' \subseteq Answers
    <3>1. \A r \in Request : [type |-> "abort", of |-> r, outcome |-> "aborted"] \in Answers
      BY DEF Answers
    <3>2. \A id \in Id, ok \in BOOLEAN : [type |-> "load", of |-> id, ok |-> ok] \in Answers
      BY DEF Answers
    <3>3. \A id \in Id : [type |-> "unload", of |-> id] \in Answers
      BY DEF Answers
    <3>4. Update \in Answers /\ \A id \in Id : [type |-> "load_error", of |-> id] \in Answers
      BY DEF Answers
    <3> HIDE DEF msg
    <3>5. CASE msg.type = "load"
      <4> DEFINE ok == \A id \in loaded : id[1] # msg.of[1]
      <4>1. \/ from_scheduler' = from_scheduler \cup {[type |-> "load", of |-> msg.of, ok |-> ok]}
            \/ from_scheduler' = from_scheduler \cup {[type |-> "load_error", of |-> msg.of]}
        BY <1>29, <3>5 DEF SchedulerReceive, Reply, msg
      <4>2. ok \in BOOLEAN
        OBVIOUS
      <4> HIDE DEF ok
      <4>3. /\ [type |-> "load", of |-> msg.of, ok |-> ok] \in Answers
            /\ [type |-> "load_error", of |-> msg.of] \in Answers
        BY <2>2, <3>2, <3>4, <3>5, <4>2
      <4>4. from_scheduler \subseteq Answers
        OBVIOUS
      <4> HIDE DEF TypeInv, TypeOK
      <4> QED
        BY <4>1, <4>3, <4>4
    <3>6. CASE msg.type \in {"abort", "abort_all"}
      <4>1. from_scheduler' \subseteq
              from_scheduler \cup {[type |-> "abort", of |-> r, outcome |-> "aborted"] : r \in Request}
        BY <1>29, <3>6 DEF SchedulerReceive, Reply, msg
      <4> QED
        BY <3>1, <4>1
    <3>7. CASE msg.type \in {"unload", "update"}
      <4>1. from_scheduler' = from_scheduler \cup {msg}
        BY <1>29, <3>7 DEF SchedulerReceive, Reply, msg
      <4>2. msg \in Answers
        BY <2>2, <3>3, <3>4, <3>7
      <4> QED
        BY <4>1, <4>2
    <3>8. CASE msg.type \in {"generate", "pause", "continue"}
      BY <1>29, <3>8 DEF SchedulerReceive, msg
    <3> QED
      BY <1>29, <3>5, <3>6, <3>7, <3>8 DEF SchedulerReceive, msg
  <2> QED
    BY <1>29, <2>1, <2>3, <2>4 DEF SchedulerReceive
<1>30. ASSUME UNCHANGED vars PROVE TypeInv'
  BY <1>30 DEF vars
<1>31. ASSUME NEW t \in Task, LoadFailed(t) PROVE TypeInv'
  BY <1>31 DEF LoadFailed, Fail
<1> HIDE DEF TypeInv, TypeOK
<1> QED
  BY <1>1, <1>2, <1>3, <1>4, <1>5, <1>6, <1>7, <1>8, <1>9, <1>10, <1>11, <1>12, <1>13, <1>14,
     <1>15, <1>16, <1>17, <1>18, <1>19, <1>20, <1>21, <1>22, <1>23, <1>24, <1>25, <1>26, <1>27,
     <1>28, <1>29, <1>30, <1>31
  DEF Next, RequestStep, LoraStep, SchedulerStep, ControlStep, ClientStep, OperatorStep

(* The front end keeps its types, in every environment; in particular what *)
(* the registry, its counters, the backend and LoRA messages name is an id *)
(* and never the placeholder of a request or lock without an adapter.      *)
THEOREM TypeCorrect == Spec => []TypeOK
<1>1. TypeInv => TypeOK
  BY DEF TypeInv
<1> QED
  BY <1>1, InitTypes, TypeStep, PTL DEF Spec

-----------------------------------------------------------------------------
(* A step that does not move request r forward. *)
FlowShrinks(r, k) ==
    /\ out'[r] = out[r]
    /\ pc[r] \in {"waiting", "done"} => pc'[r] \in {"waiting", "done"}
    /\ (r \in queued' => r \in queued) /\ (r \in running' => r \in running)
    /\ Len(to_scheduler') \in Nat
    /\ \A i \in 1..Len(to_scheduler') : to_scheduler'[i] = Generate(r) =>
           i + k \in 1..Len(to_scheduler) /\ to_scheduler[i + k] = Generate(r)
    /\ \A msg \in from_scheduler' : IsAnswer(msg, r) => msg \in from_scheduler

LEMMA FlowFrame ==
    ASSUME TypeInv, NEW r \in Request, Placed(r), NEW k \in Nat, FlowShrinks(r, k)
    PROVE  Placed(r)'
<1> USE DEF FlowShrinks
<1>1. Contains(to_scheduler, Generate(r))' => Contains(to_scheduler, Generate(r))
  BY DEF Contains, Generate
<1>2. Answered(r)' => Answered(r)
  BY DEF Answered, IsAnswer
<1>3. InScheduler(r)' => InScheduler(r)
  BY <1>1 DEF InScheduler, Generate
<1>4. \A i, j \in 1..Len(to_scheduler') :
          to_scheduler'[i] = Generate(r) /\ to_scheduler'[j] = Generate(r) => i = j
  BY DEF Placed
<1>5. \A m, n \in from_scheduler' : IsAnswer(m, r) /\ IsAnswer(n, r) => m = n
  BY DEF Placed
<1>6. Generate(r)' = Generate(r) /\ \A m : IsAnswer(m, r)' = IsAnswer(m, r)
  BY DEF Generate, IsAnswer
<1> QED
  BY <1>1, <1>2, <1>3, <1>4, <1>5, <1>6 DEF Placed

LEMMA GenerateFacts ==
    /\ \A r : Generate(r).type = "generate" /\ Generate(r).of = r
    /\ \A r, q : Generate(r) # [type |-> "abort", of |-> q]
    /\ \A r, q : Generate(r) # [type |-> "load", of |-> q]
    /\ \A r, q : Generate(r) # [type |-> "unload", of |-> q]
    /\ \A r : Generate(r) # AbortAll /\ Generate(r) # Update
    /\ \A r : Generate(r) # [type |-> "pause"] /\ Generate(r) # [type |-> "continue"]
BY DEF Generate, AbortAll, Update

LEMMA SocketKept ==
    ASSUME TypeInv, to_scheduler' = to_scheduler, NEW m
    PROVE  /\ Len(to_scheduler') \in Nat
           /\ \A i \in 1..Len(to_scheduler') : to_scheduler'[i] = m =>
                  i + 0 \in 1..Len(to_scheduler) /\ to_scheduler[i + 0] = m
BY DEF TypeInv, TypeOK

LEMMA SocketAppended ==
    ASSUME TypeInv, NEW msg, to_scheduler' = Append(to_scheduler, msg), NEW m, m # msg
    PROVE  /\ Len(to_scheduler') \in Nat
           /\ \A i \in 1..Len(to_scheduler') : to_scheduler'[i] = m =>
                  i + 0 \in 1..Len(to_scheduler) /\ to_scheduler[i + 0] = m
BY DEF TypeInv, TypeOK

LEMMA FlowStep == TypeInv /\ FlowInv /\ [Next]_vars => FlowInv'
<1> SUFFICES ASSUME TypeInv, FlowInv, [Next]_vars, NEW q \in Request PROVE Placed(q)' /\ Ended(q)'
  BY DEF FlowInv
<1>0. /\ Placed(q) /\ Ended(q)
      /\ pc \in [Task -> InSection \cup {"new", "pause_wait", "reader_wait", "done"}]
      /\ client \in [Request -> Outcomes \cup {"none", "aborted", "exception"}]
      /\ out \in [Request -> Outcomes \cup {"none", "aborted"}]
      /\ Request \subseteq Task
  BY DEF FlowInv, TypeInv, TypeOK, Task
<1>1. ASSUME NEW r \in Request, GenerateRequest(r) PROVE Placed(q)' /\ Ended(q)'
  <2>1. FlowShrinks(q, 0)
    BY <1>1, <1>0, GenerateFacts, SocketKept
    DEF GenerateRequest, FlowShrinks, Send
  <2>2. Ended(q)'
    BY <1>1, <1>0 DEF GenerateRequest, Ended
  <2> QED
    BY <1>0, <2>1, <2>2, FlowFrame
<1>2. ASSUME NEW r \in Request, PassPause(r) PROVE Placed(q)' /\ Ended(q)'
  <2>1. FlowShrinks(q, 0)
    BY <1>2, <1>0, GenerateFacts, SocketKept
    DEF PassPause, ResolveLora, Acquire, Fail, FlowShrinks, Send
  <2>2. Ended(q)'
    BY <1>2, <1>0 DEF PassPause, ResolveLora, Acquire, Fail, Ended
  <2> QED
    BY <1>0, <2>1, <2>2, FlowFrame
<1>3. ASSUME NEW r \in Request, AcquireReader(r) PROVE Placed(q)' /\ Ended(q)'
  <2>1. FlowShrinks(q, 0)
    BY <1>3, <1>0, GenerateFacts, SocketKept
    DEF AcquireReader, ResolveLora, Acquire, Fail, FlowShrinks, Send
  <2>2. Ended(q)'
    BY <1>3, <1>0 DEF AcquireReader, ResolveLora, Acquire, Fail, Ended
  <2> QED
    BY <1>0, <2>1, <2>2, FlowFrame
<1>4. ASSUME NEW r \in Request, Increment(r) PROVE Placed(q)' /\ Ended(q)'
  <2>1. FlowShrinks(q, 0)
    BY <1>4, <1>0, GenerateFacts, SocketKept
    DEF Increment, FlowShrinks, Send
  <2>2. Ended(q)'
    BY <1>4, <1>0 DEF Increment, Ended
  <2> QED
    BY <1>0, <2>1, <2>2, FlowFrame
<1>5. ASSUME NEW r \in Request, TokenizeFails(r) PROVE Placed(q)' /\ Ended(q)'
  <2>1. FlowShrinks(q, 0)
    BY <1>5, <1>0, GenerateFacts, SocketKept
    DEF TokenizeFails, Fail, FlowShrinks, Send
  <2>2. Ended(q)'
    BY <1>5, <1>0 DEF TokenizeFails, Fail, Ended
  <2> QED
    BY <1>0, <2>1, <2>2, FlowFrame
<1>6. ASSUME NEW r \in Request, Respond(r) PROVE Placed(q)' /\ Ended(q)'
  <2>1. FlowShrinks(q, 0)
    BY <1>6, <1>0, GenerateFacts, SocketKept
    DEF Respond, FlowShrinks, Send
  <2>2. Ended(q)'
    BY <1>6, <1>0 DEF Respond, Ended
  <2> QED
    BY <1>0, <2>1, <2>2, FlowFrame
<1>7. ASSUME NEW r \in Request, Disconnect(r) PROVE Placed(q)' /\ Ended(q)'
  <2>1. FlowShrinks(q, 0)
    BY <1>7, <1>0, GenerateFacts, SocketKept, SocketAppended
    DEF Disconnect, Fail, Abort, FlowShrinks, Send
  <2>2. Ended(q)'
    BY <1>7, <1>0 DEF Disconnect, Fail, Abort, Ended
  <2> QED
    BY <1>0, <2>1, <2>2, FlowFrame
<1>8. ASSUME NEW r \in Request, CancelStream(r) PROVE Placed(q)' /\ Ended(q)'
  <2>1. FlowShrinks(q, 0)
    BY <1>8, <1>0, GenerateFacts, SocketKept
    DEF CancelStream, Fail, FlowShrinks, Send
  <2>2. Ended(q)'
    BY <1>8, <1>0 DEF CancelStream, Fail, Ended
  <2> QED
    BY <1>0, <2>1, <2>2, FlowFrame
<1>9. ASSUME NEW r \in Request, AbortTask(r) PROVE Placed(q)' /\ Ended(q)'
  <2>1. FlowShrinks(q, 0)
    BY <1>9, <1>0, GenerateFacts, SocketKept, SocketAppended
    DEF AbortTask, Abort, FlowShrinks, Send
  <2>2. Ended(q)'
    BY <1>9, <1>0 DEF AbortTask, Abort, Ended
  <2> QED
    BY <1>0, <2>1, <2>2, FlowFrame
<1>10. ASSUME NEW r \in Request, ReleaseTask(r) PROVE Placed(q)' /\ Ended(q)'
  <2>1. FlowShrinks(q, 0)
    BY <1>10, <1>0, GenerateFacts, SocketKept
    DEF ReleaseTask, FlowShrinks, Send
  <2>2. Ended(q)'
    BY <1>10, <1>0 DEF ReleaseTask, Ended
  <2> QED
    BY <1>0, <2>1, <2>2, FlowFrame
<1>11. ASSUME NEW t \in Task, StartLoad(t) PROVE Placed(q)' /\ Ended(q)'
  <2>1. FlowShrinks(q, 0)
    BY <1>11, <1>0, GenerateFacts, SocketAppended
    DEF StartLoad, FlowShrinks, Send
  <2>2. Ended(q)'
    BY <1>11, <1>0 DEF StartLoad, Ended
  <2> QED
    BY <1>0, <2>1, <2>2, FlowFrame
<1>12. ASSUME NEW t \in Task, WaitForUnload(t) PROVE Placed(q)' /\ Ended(q)'
  <2>1. FlowShrinks(q, 0)
    BY <1>12, <1>0, GenerateFacts, SocketAppended
    DEF WaitForUnload, FlowShrinks, Send
  <2>2. Ended(q)'
    BY <1>12, <1>0 DEF WaitForUnload, Ended
  <2> QED
    BY <1>0, <2>1, <2>2, FlowFrame
<1>13. ASSUME NEW t \in Task, UnloadAnswered(t) PROVE Placed(q)' /\ Ended(q)'
  <2>1. FlowShrinks(q, 0)
    BY <1>13, <1>0, GenerateFacts, SocketKept, SocketAppended
    DEF UnloadAnswered, EvictOrEnd, Unregister, EndLora, Acquire, Fail, FlowShrinks, Send
  <2>2. Ended(q)'
    BY <1>13, <1>0, FrontEndAssumption DEF UnloadAnswered, EvictOrEnd, Unregister, EndLora, Acquire, Fail, Ended
  <2> QED
    BY <1>0, <2>1, <2>2, FlowFrame
<1>14. ASSUME NEW t \in Task, NEW ok \in BOOLEAN, LoadAnswered(t, ok) PROVE Placed(q)' /\ Ended(q)'
  <2>1. FlowShrinks(q, 0)
    BY <1>14, <1>0, GenerateFacts, SocketKept, SocketAppended
    DEF LoadAnswered, EvictOrEnd, Unregister, EndLora, Acquire, Fail, FlowShrinks, Send
  <2>2. Ended(q)'
    BY <1>14, <1>0, FrontEndAssumption DEF LoadAnswered, EvictOrEnd, Unregister, EndLora, Acquire, Fail, Ended
  <2> QED
    BY <1>0, <2>1, <2>2, FlowFrame
<1>15. ASSUME Unload PROVE Placed(q)' /\ Ended(q)'
  <2>1. FlowShrinks(q, 0)
    BY <1>15, <1>0, GenerateFacts, SocketKept, SocketAppended
    DEF Unload, Unregister, EndLora, Acquire, Fail, FlowShrinks, Send
  <2>2. Ended(q)'
    BY <1>15, <1>0, FrontEndAssumption DEF Unload, Unregister, EndLora, Acquire, Fail, Ended
  <2> QED
    BY <1>0, <2>1, <2>2, FlowFrame
<1>16. ASSUME CallLora PROVE Placed(q)' /\ Ended(q)'
  <2>1. FlowShrinks(q, 0)
    BY <1>16, <1>0, GenerateFacts, SocketKept
    DEF CallLora, FlowShrinks, Send
  <2>2. Ended(q)'
    BY <1>16, <1>0 DEF CallLora, Ended
  <2> QED
    BY <1>0, <2>1, <2>2, FlowFrame
<1>17. ASSUME AbortLoop PROVE Placed(q)' /\ Ended(q)'
  <2>1. FlowShrinks(q, 0)
    BY <1>17, <1>0, GenerateFacts, SocketAppended
    DEF AbortLoop, FlowShrinks, Send
  <2>2. Ended(q)'
    BY <1>17, <1>0 DEF AbortLoop, Ended
  <2> QED
    BY <1>0, <2>1, <2>2, FlowFrame
<1>18. ASSUME AcquireWriter PROVE Placed(q)' /\ Ended(q)'
  <2>1. FlowShrinks(q, 0)
    BY <1>18, <1>0, GenerateFacts, SocketAppended
    DEF AcquireWriter, FlowShrinks, Send
  <2>2. Ended(q)'
    BY <1>18, <1>0 DEF AcquireWriter, Ended
  <2> QED
    BY <1>0, <2>1, <2>2, FlowFrame
<1>19. ASSUME UpdateAnswered PROVE Placed(q)' /\ Ended(q)'
  <2>1. FlowShrinks(q, 0)
    BY <1>19, <1>0, GenerateFacts, SocketKept
    DEF UpdateAnswered, FlowShrinks, Send
  <2>2. Ended(q)'
    BY <1>19, <1>0 DEF UpdateAnswered, Ended
  <2> QED
    BY <1>0, <2>1, <2>2, FlowFrame
<1>20. ASSUME PauseGeneration PROVE Placed(q)' /\ Ended(q)'
  <2>1. FlowShrinks(q, 0)
    BY <1>20, <1>0, GenerateFacts, SocketKept, SocketAppended
    DEF PauseGeneration, FlowShrinks, Send
  <2>2. Ended(q)'
    BY <1>20, <1>0 DEF PauseGeneration, Ended
  <2> QED
    BY <1>0, <2>1, <2>2, FlowFrame
<1>21. ASSUME ContinueGeneration PROVE Placed(q)' /\ Ended(q)'
  <2>1. FlowShrinks(q, 0)
    BY <1>21, <1>0, GenerateFacts, SocketAppended
    DEF ContinueGeneration, FlowShrinks, Send
  <2>2. Ended(q)'
    BY <1>21, <1>0 DEF ContinueGeneration, Ended
  <2> QED
    BY <1>0, <2>1, <2>2, FlowFrame
<1>22. ASSUME NEW r \in Request, TokenizeAndSend(r) PROVE Placed(q)' /\ Ended(q)'
  <2>1. /\ to_scheduler \in Seq(Message) /\ to_scheduler' = Append(to_scheduler, Generate(r))
        /\ pc[r] = "tokenize" /\ pc' = [pc EXCEPT ![r] = "waiting"]
        /\ UNCHANGED <<out, client, rid_to_state, queued, running, from_scheduler>>
    BY <1>22 DEF TokenizeAndSend, Send, Generate, TypeInv, TypeOK
  <2>2. Ended(q)'
    BY <1>0, <2>1 DEF Ended
  <2>3. CASE q # r
    <3>1. Generate(q) # Generate(r)
      BY <2>3, GenerateFacts
    <3>2. FlowShrinks(q, 0)
      BY <1>0, <2>1, <2>3, <3>1, SocketAppended DEF FlowShrinks
    <3> QED
      BY <1>0, <2>2, <3>2, FlowFrame
  <2>4. CASE q = r
    <3>1. ~InScheduler(r) /\ ~Answered(r) /\ out[r] = "none"
      BY <1>0, <2>1, <2>4 DEF Placed
    <3>2. ~Answered(r)' /\ out'[r] = "none" /\ pc'[r] = "waiting" /\ r \notin queued' \cup running'
      BY <1>0, <2>1, <3>1 DEF Answered, InScheduler
    <3>3. \A i \in 1..Len(to_scheduler) : to_scheduler[i] # Generate(r)
      BY <3>1 DEF InScheduler, Contains, Generate
    <3>4. \A i, j \in 1..Len(to_scheduler') :
              to_scheduler'[i] = Generate(r) /\ to_scheduler'[j] = Generate(r) => i = j
      BY <2>1, <3>3
    <3>5. Placed(r)'
      BY <3>2, <3>4 DEF Placed, Answered
    <3> QED
      BY <2>2, <2>4, <3>5
  <2> QED
    BY <2>3, <2>4
<1>23. ASSUME NEW r \in Request, HandleBatchOutput(r) \/ HandleAbortReq(r)
       PROVE  Placed(q)' /\ Ended(q)'
  <2>1. PICK msg \in from_scheduler :
          /\ IsAnswer(msg, r) /\ from_scheduler' = from_scheduler \ {msg}
          /\ \/ r \in rid_to_state /\ rid_to_state' = rid_to_state \ {r}
                /\ out' = [out EXCEPT ![r] = msg.outcome]
             \/ UNCHANGED <<rid_to_state, out>>
          /\ UNCHANGED <<pc, client, queued, running, to_scheduler>>
    BY <1>23 DEF HandleBatchOutput, HandleAbortReq, IsAnswer
  <2>2. \A r1 \in Request : r1 # r => out'[r1] = out[r1]
    BY <1>0, <2>1
  <2>3. CASE q # r
    <3>1. FlowShrinks(q, 0)
      BY <2>1, <2>2, <2>3, SocketKept DEF FlowShrinks
    <3>2. Ended(q)'
      BY <1>0, <2>1, <2>2, <2>3 DEF Ended
    <3> QED
      BY <1>0, <3>1, <3>2, FlowFrame
  <2>4. CASE q = r
    <3>1. Answered(r) /\ out[r] = "none" /\ ~InScheduler(r) /\ pc[r] \in {"waiting", "done"}
      BY <1>0, <2>1, <2>4 DEF Placed, Answered
    <3>2. ~Answered(r)'
      BY <1>0, <2>1, <2>4 DEF Placed, Answered, IsAnswer
    <3>3. ~InScheduler(r)'
      BY <2>1, <3>1 DEF InScheduler
    <3>4. Placed(r)'
      <4>1. ~Contains(to_scheduler, Generate(r))' /\ r \notin queued' \cup running'
        BY <3>3 DEF InScheduler, Generate
      <4>2. \A i, j \in 1..Len(to_scheduler') :
                to_scheduler'[i] = Generate(r) /\ to_scheduler'[j] = Generate(r) => i = j
        BY <1>0, <2>1, <2>4 DEF Placed
      <4>3. \A m, n \in from_scheduler' : IsAnswer(m, r) /\ IsAnswer(n, r) => m = n
        BY <1>0, <2>1, <2>4 DEF Placed
      <4> QED
        BY <2>1, <3>1, <3>2, <3>3, <4>1, <4>2, <4>3 DEF Placed, IsAnswer
    <3>5. Ended(r)'
      BY <1>0, <2>1, <2>4, <3>1 DEF Ended
    <3> QED
      BY <2>4, <3>4, <3>5
  <2> QED
    BY <2>3, <2>4
<1>24. ASSUME NEW r \in Request, SchedulerRun(r) PROVE Placed(q)' /\ Ended(q)'
  <2>1. /\ r \in queued /\ queued' = queued \ {r} /\ running' = running \cup {r}
        /\ UNCHANGED <<pc, out, client, rid_to_state, to_scheduler, from_scheduler>>
    BY <1>24 DEF SchedulerRun
  <2>2. Ended(q)'
    BY <1>0, <2>1 DEF Ended
  <2>3. /\ InScheduler(q)' <=> InScheduler(q)
        /\ Answered(q)' <=> Answered(q)
    BY <2>1 DEF InScheduler, Answered
  <2> QED
    BY <1>0, <2>1, <2>2, <2>3 DEF Placed, Generate, IsAnswer, Contains
<1>25. ASSUME NEW r \in Request, SchedulerReject(r) \/ SchedulerFinish(r)
       PROVE  Placed(q)' /\ Ended(q)'
  <2>1. PICK msg :
        /\ IsAnswer(msg, r) /\ from_scheduler' = from_scheduler \cup {msg}
        /\ \/ r \in queued /\ queued' = queued \ {r} /\ running' = running
           \/ r \in running /\ running' = running \ {r} /\ queued' = queued
        /\ UNCHANGED <<pc, out, client, rid_to_state, to_scheduler>>
    BY <1>25 DEF SchedulerReject, SchedulerFinish, Reply, IsAnswer
  <2>2. Ended(q)'
    BY <1>0, <2>1 DEF Ended
  <2>3. CASE q # r
    <3>1. ~IsAnswer(msg, q)
      BY <2>1, <2>3 DEF IsAnswer
    <3>2. FlowShrinks(q, 0)
      BY <2>1, <2>3, <3>1, SocketKept DEF FlowShrinks
    <3> QED
      BY <1>0, <2>2, <3>2, FlowFrame
  <2>4. CASE q = r
    <3>1. /\ InScheduler(r) /\ ~Answered(r) /\ out[r] = "none" /\ pc[r] \in {"waiting", "done"}
          /\ ~Contains(to_scheduler, Generate(r))
      BY <1>0, <2>1, <2>4 DEF Placed, InScheduler
    <3>2. ~InScheduler(r)' /\ r \notin queued' \cup running' /\ ~Contains(to_scheduler, Generate(r))'
      BY <1>0, <2>1, <2>4, <3>1 DEF Placed, InScheduler, Generate
    <3>3. \A m, n \in from_scheduler' : IsAnswer(m, r) /\ IsAnswer(n, r) => m = n
      BY <2>1, <3>1 DEF Answered
    <3>4. \A i, j \in 1..Len(to_scheduler') :
              to_scheduler'[i] = Generate(r) /\ to_scheduler'[j] = Generate(r) => i = j
      BY <1>0, <2>1, <2>4 DEF Placed
    <3>5. Placed(r)'
      BY <2>1, <3>1, <3>2, <3>3, <3>4 DEF Placed, IsAnswer
    <3> QED
      BY <2>2, <2>4, <3>5
  <2> QED
    BY <2>3, <2>4
<1>26. ASSUME UpdateWeights PROVE Placed(q)' /\ Ended(q)'
  <2>1. PICK s \in {to_scheduler, Append(to_scheduler, AbortAll)} :
          s \in Seq(Message) /\ to_scheduler' \in {s, Append(s, Update)}
    BY <1>26, UpdateWeightsSends
  <2>2. /\ to_scheduler \in Seq(Message) /\ AbortAll \in Message /\ Update \in Message
        /\ Generate(q) # AbortAll /\ Generate(q) # Update
    BY GenerateFacts, MessageTypes DEF TypeInv, TypeOK
  <2>3. \A i \in 1..Len(s) : s[i] = Generate(q) => i \in 1..Len(to_scheduler) /\ to_scheduler[i] = Generate(q)
    BY <2>1, <2>2
  <2>4. /\ Len(to_scheduler') \in Nat
        /\ \A i \in 1..Len(to_scheduler') :
               to_scheduler'[i] = Generate(q) => i \in 1..Len(s) /\ s[i] = Generate(q)
    BY <2>1, <2>2
  <2>5. FlowShrinks(q, 0)
    BY <1>26, <2>1, <2>3, <2>4 DEF UpdateWeights, FlowShrinks
  <2>6. Ended(q)'
    BY <1>26, <1>0 DEF UpdateWeights, Ended
  <2> QED
    BY <1>0, <2>5, <2>6, FlowFrame
<1>27. ASSUME SchedulerReceive PROVE Placed(q)' /\ Ended(q)'
  <2> DEFINE msg == Head(to_scheduler)
  <2>1. /\ to_scheduler \in Seq(Message) /\ to_scheduler # <<>> /\ msg = to_scheduler[1]
        /\ 1 \in 1..Len(to_scheduler) /\ msg \in Message
        /\ UNCHANGED <<pc, out, client, rid_to_state>>
    BY <1>27 DEF SchedulerReceive, TypeInv, TypeOK
  <2>2. /\ Len(to_scheduler') \in Nat /\ Len(to_scheduler) = Len(to_scheduler') + 1
        /\ \A i \in 1..Len(to_scheduler') : to_scheduler'[i] = to_scheduler[i + 1]
    <3>1. to_scheduler' = Tail(to_scheduler)
      BY <1>27 DEF SchedulerReceive
    <3> QED
      BY <2>1, <3>1
  <2>3. Ended(q)'
    BY <1>0, <2>1 DEF Ended
  <2>4. \A i \in 1..Len(to_scheduler') : to_scheduler'[i] = Generate(q) =>
            i + 1 \in 1..Len(to_scheduler) /\ to_scheduler[i + 1] = Generate(q)
    BY <2>2
  <2>5. ASSUME queued' \cap {q} \subseteq queued, running' \cap {q} \subseteq running,
               \A m \in from_scheduler' : IsAnswer(m, q) => m \in from_scheduler
        PROVE  Placed(q)'
    <3>1. FlowShrinks(q, 1)
      BY <2>1, <2>2, <2>4, <2>5 DEF FlowShrinks
    <3> QED
      BY <1>0, <3>1, FlowFrame
  <2>6. ASSUME InScheduler(q), ~Contains(to_scheduler, Generate(q))', from_scheduler' = from_scheduler,
               ~(q \in queued' /\ q \in running')
        PROVE  Placed(q)'
    <3>1. Answered(q)' = Answered(q)
      BY <2>6 DEF Answered
    <3> QED
      BY <1>0, <2>1, <2>4, <2>6, <3>1 DEF Placed, Generate, IsAnswer, Contains
  <2>7. CASE msg.type = "generate"
    <3>1. queued' = queued \cup {msg.of} /\ UNCHANGED <<running, from_scheduler>>
      BY <1>27, <2>7 DEF SchedulerReceive
    <3>2. CASE msg.of = q
      <4>1. msg = Generate(q)
        BY <2>1, <2>7, <3>2 DEF Message, Generate
      <4>2. InScheduler(q) /\ q \notin running
        BY <1>0, <2>1, <4>1 DEF Placed, InScheduler, Contains, Generate
      <4>3. ~Contains(to_scheduler, Generate(q))'
        BY <1>0, <2>1, <2>2, <2>4, <4>1 DEF Placed, Contains, Generate
      <4> QED
        BY <2>3, <2>6, <3>1, <4>2, <4>3
    <3>3. CASE msg.of # q
      BY <2>3, <2>5, <3>1, <3>3
    <3> QED
      BY <3>2, <3>3
  <2>8. CASE msg.type \in {"abort", "abort_all"}
    <3> DEFINE hit == IF msg.type = "abort" THEN {msg.of} ELSE Request
               ans == [type |-> "abort", of |-> q, outcome |-> "aborted"]
    <3>1. /\ queued' = queued \ hit /\ running' = running
          /\ from_scheduler' = from_scheduler \cup
                 {[type |-> "abort", of |-> r, outcome |-> "aborted"] : r \in hit \cap queued}
      BY <1>27, <2>8 DEF SchedulerReceive, Reply
    <3> HIDE DEF hit, msg
    <3>2. CASE q \notin hit \cap queued
      <4>1. \A m \in from_scheduler' : IsAnswer(m, q) => m \in from_scheduler
        BY <3>1, <3>2 DEF IsAnswer
      <4> QED
        BY <2>3, <2>5, <3>1, <4>1
    <3>3. CASE q \in hit \cap queued
      <4>1. \A m \in from_scheduler' : IsAnswer(m, q) => m \in from_scheduler \/ m = ans
        BY <3>1 DEF IsAnswer
      <4>2. /\ InScheduler(q) /\ ~Answered(q) /\ out[q] = "none" /\ pc[q] \in {"waiting", "done"}
            /\ ~Contains(to_scheduler, Generate(q)) /\ q \notin running
        BY <1>0, <3>3 DEF Placed, InScheduler
      <4>3. \A i \in 1..Len(to_scheduler') : to_scheduler'[i] # Generate(q)
        BY <2>4, <4>2 DEF Contains
      <4>4. q \notin queued' \cup running' /\ ~InScheduler(q)'
        BY <3>1, <3>3, <4>2, <4>3 DEF InScheduler, Contains, Generate
      <4>5. \A m, n \in from_scheduler' : IsAnswer(m, q) /\ IsAnswer(n, q) => m = n
        BY <4>1, <4>2 DEF Answered
      <4> QED
        BY <2>1, <2>3, <4>2, <4>3, <4>4, <4>5 DEF Placed, IsAnswer, Contains, Generate
    <3> QED
      BY <3>2, <3>3
  <2>9. CASE msg.type = "pause"
    <3>1. /\ queued' = queued \cup running /\ running' = {} /\ from_scheduler' = from_scheduler
      BY <1>27, <2>9 DEF SchedulerReceive
    <3>2. CASE q \in queued \cup running
      <4>1. InScheduler(q) /\ ~Contains(to_scheduler, Generate(q))
        BY <1>0, <3>2 DEF Placed, InScheduler
      <4>2. ~Contains(to_scheduler, Generate(q))'
        BY <2>4, <4>1 DEF Contains, Generate
      <4> QED
        BY <2>3, <2>6, <3>1, <4>1, <4>2
    <3>3. CASE q \notin queued \cup running
      BY <2>3, <2>5, <3>1, <3>3
    <3> QED
      BY <3>2, <3>3
  <2>10. CASE msg.type \in {"load", "unload", "update", "continue"}
    <3>1. /\ UNCHANGED <<queued, running>>
          /\ \A m \in from_scheduler' : IsAnswer(m, q) => m \in from_scheduler
      BY <1>27, <2>10 DEF SchedulerReceive, Reply, IsAnswer
    <3> QED
      BY <2>3, <2>5, <3>1
  <2> QED
    BY <1>27, <2>7, <2>8, <2>9, <2>10 DEF SchedulerReceive
<1>28. ASSUME UNCHANGED vars PROVE Placed(q)' /\ Ended(q)'
  <2>1. FlowShrinks(q, 0)
    BY <1>28, SocketKept DEF FlowShrinks, vars
  <2>2. Ended(q)'
    BY <1>28, <1>0 DEF Ended, vars
  <2> QED
    BY <1>0, <2>1, <2>2, FlowFrame
<1>29. ASSUME NEW t \in Task, LoadFailed(t) PROVE Placed(q)' /\ Ended(q)'
  <2>1. FlowShrinks(q, 0)
    BY <1>29, <1>0, GenerateFacts, SocketKept DEF LoadFailed, Fail, FlowShrinks
  <2>2. Ended(q)'
    BY <1>29, <1>0, FrontEndAssumption DEF LoadFailed, Fail, Ended, Task
  <2> QED
    BY <1>0, <2>1, <2>2, FlowFrame
<1> QED
  BY <1>1, <1>2, <1>3, <1>4, <1>5, <1>6, <1>7, <1>8, <1>9, <1>10, <1>11, <1>12, <1>13, <1>14,
     <1>15, <1>16, <1>17, <1>18, <1>19, <1>20, <1>21, <1>22, <1>23, <1>24, <1>25, <1>26, <1>27,
     <1>28, <1>29
  DEF Next, RequestStep, LoraStep, SchedulerStep, ControlStep, ClientStep, OperatorStep

LEMMA InitFlow == Init => FlowInv
BY DEF Init, FlowInv, Placed, Ended, Answered, InScheduler, Contains

(* A request that ended leaves no entry in rid_to_state behind, whichever  *)
(* way it ended: answered, refused, aborted, disconnected or cancelled.    *)
THEOREM NoStateLeftAlways == Spec => []NoStateLeft
<1>1. FlowInv => NoStateLeft
  BY DEF FlowInv, Ended, NoStateLeft
<1> QED
  BY <1>1, InitTypes, TypeStep, InitFlow, FlowStep, PTL DEF Spec

-----------------------------------------------------------------------------
(* A step without part in pauses and updates. *)
PauseUntouched ==
    /\ UNCHANGED <<setup, control_vars>>
    /\ \A r \in Request : pc'[r] = "reader_wait" => pc[r] = "reader_wait"
    /\ \A r \in Request : pc'[r] \in InSection => pc[r] \in InSection \cup {"reader_wait"}
    /\ \A i \in 1..Len(to_scheduler') : to_scheduler'[i] = [type |-> "pause"] =>
           \E j \in 1..Len(to_scheduler) : to_scheduler[j] = [type |-> "pause"]

LEMMA PauseFrame ==
    ASSUME TypeInv, PauseInv, PauseUntouched
    PROVE  PauseInv'
BY DEF PauseUntouched, PauseInv, control_vars, readers

LEMMA PauseKept ==
    ASSUME TypeInv, to_scheduler' = to_scheduler
    PROVE  \A i \in 1..Len(to_scheduler') : to_scheduler'[i] = [type |-> "pause"] =>
               \E j \in 1..Len(to_scheduler) : to_scheduler[j] = [type |-> "pause"]
BY DEF TypeInv, TypeOK

LEMMA PauseAppended ==
    ASSUME TypeInv, NEW msg, to_scheduler' = Append(to_scheduler, msg), msg.type # "pause"
    PROVE  \A i \in 1..Len(to_scheduler') : to_scheduler'[i] = [type |-> "pause"] =>
               \E j \in 1..Len(to_scheduler) : to_scheduler[j] = [type |-> "pause"]
BY DEF TypeInv, TypeOK

LEMMA PauseStep == TypeInv /\ PauseInv /\ [Next]_vars => PauseInv'
<1> SUFFICES ASSUME TypeInv, PauseInv PROVE [Next]_vars => PauseInv'
  OBVIOUS
<1>0. /\ pc \in [Task -> InSection \cup {"new", "pause_wait", "reader_wait", "done"}]
      /\ Request \subseteq Task /\ updates \in Nat /\ to_scheduler \in Seq(Message)
      /\ pausing \in {"no", "aborting", "done", "over"} /\ is_pause \in BOOLEAN
      /\ setup.pause_mode \in {"none", "abort", "retract"}
  BY SetupFacts DEF TypeInv, TypeOK, Task
<1>1. ASSUME NEW r \in Request, GenerateRequest(r) PROVE PauseInv'
  <2>1. PauseUntouched
    BY <1>1, <1>0, PauseKept, FrontEndAssumption
    DEF GenerateRequest, PauseUntouched, InSection, Send
  <2> QED
    BY <2>1, PauseFrame
<1>2. ASSUME NEW r \in Request, AcquireReader(r) PROVE PauseInv'
  <2>1. PauseUntouched
    BY <1>2, <1>0, PauseKept, FrontEndAssumption
    DEF AcquireReader, ResolveLora, Acquire, Fail, PauseUntouched, InSection, Send
  <2> QED
    BY <2>1, PauseFrame
<1>3. ASSUME NEW r \in Request, Increment(r) PROVE PauseInv'
  <2>1. PauseUntouched
    BY <1>3, <1>0, PauseKept, FrontEndAssumption
    DEF Increment, PauseUntouched, InSection, Send
  <2> QED
    BY <2>1, PauseFrame
<1>4. ASSUME NEW r \in Request, TokenizeAndSend(r) PROVE PauseInv'
  <2>1. PauseUntouched
    BY <1>4, <1>0, PauseAppended, FrontEndAssumption
    DEF TokenizeAndSend, PauseUntouched, InSection, Send
  <2> QED
    BY <2>1, PauseFrame
<1>5. ASSUME NEW r \in Request, TokenizeFails(r) PROVE PauseInv'
  <2>1. PauseUntouched
    BY <1>5, <1>0, PauseKept, FrontEndAssumption
    DEF TokenizeFails, Fail, PauseUntouched, InSection, Send
  <2> QED
    BY <2>1, PauseFrame
<1>6. ASSUME NEW r \in Request, Respond(r) PROVE PauseInv'
  <2>1. PauseUntouched
    BY <1>6, <1>0, PauseKept, FrontEndAssumption
    DEF Respond, PauseUntouched, InSection, Send
  <2> QED
    BY <2>1, PauseFrame
<1>7. ASSUME NEW r \in Request, Disconnect(r) PROVE PauseInv'
  <2>1. PauseUntouched
    BY <1>7, <1>0, PauseKept, PauseAppended, FrontEndAssumption
    DEF Disconnect, Fail, Abort, PauseUntouched, InSection, Send
  <2> QED
    BY <2>1, PauseFrame
<1>8. ASSUME NEW r \in Request, CancelStream(r) PROVE PauseInv'
  <2>1. PauseUntouched
    BY <1>8, <1>0, PauseKept, FrontEndAssumption
    DEF CancelStream, Fail, PauseUntouched, InSection, Send
  <2> QED
    BY <2>1, PauseFrame
<1>9. ASSUME NEW r \in Request, AbortTask(r) PROVE PauseInv'
  <2>1. PauseUntouched
    BY <1>9, <1>0, PauseKept, PauseAppended, FrontEndAssumption
    DEF AbortTask, Abort, PauseUntouched, InSection, Send
  <2> QED
    BY <2>1, PauseFrame
<1>10. ASSUME NEW r \in Request, ReleaseTask(r) PROVE PauseInv'
  <2>1. PauseUntouched
    BY <1>10, <1>0, PauseKept, FrontEndAssumption
    DEF ReleaseTask, PauseUntouched, InSection, Send
  <2> QED
    BY <2>1, PauseFrame
<1>11. ASSUME NEW r \in Request, HandleBatchOutput(r) PROVE PauseInv'
  <2>1. PauseUntouched
    BY <1>11, <1>0, PauseKept, FrontEndAssumption
    DEF HandleBatchOutput, PauseUntouched, InSection, Send
  <2> QED
    BY <2>1, PauseFrame
<1>12. ASSUME NEW r \in Request, HandleAbortReq(r) PROVE PauseInv'
  <2>1. PauseUntouched
    BY <1>12, <1>0, PauseKept, FrontEndAssumption
    DEF HandleAbortReq, PauseUntouched, InSection, Send
  <2> QED
    BY <2>1, PauseFrame
<1>13. ASSUME NEW r \in Request, SchedulerRun(r) PROVE PauseInv'
  <2>1. PauseUntouched
    BY <1>13, <1>0, PauseKept, FrontEndAssumption
    DEF SchedulerRun, PauseUntouched, InSection, Send
  <2> QED
    BY <2>1, PauseFrame
<1>14. ASSUME NEW r \in Request, SchedulerReject(r) PROVE PauseInv'
  <2>1. PauseUntouched
    BY <1>14, <1>0, PauseKept, FrontEndAssumption
    DEF SchedulerReject, PauseUntouched, InSection, Send
  <2> QED
    BY <2>1, PauseFrame
<1>15. ASSUME NEW r \in Request, SchedulerFinish(r) PROVE PauseInv'
  <2>1. PauseUntouched
    BY <1>15, <1>0, PauseKept, FrontEndAssumption
    DEF SchedulerFinish, PauseUntouched, InSection, Send
  <2> QED
    BY <2>1, PauseFrame
<1>16. ASSUME NEW t \in Task, StartLoad(t) PROVE PauseInv'
  <2>1. PauseUntouched
    BY <1>16, <1>0, PauseAppended, FrontEndAssumption
    DEF StartLoad, PauseUntouched, InSection, Send
  <2> QED
    BY <2>1, PauseFrame
<1>17. ASSUME NEW t \in Task, WaitForUnload(t) PROVE PauseInv'
  <2>1. PauseUntouched
    BY <1>17, <1>0, PauseAppended, FrontEndAssumption
    DEF WaitForUnload, PauseUntouched, InSection, Send
  <2> QED
    BY <2>1, PauseFrame
<1>18. ASSUME NEW t \in Task, UnloadAnswered(t) PROVE PauseInv'
  <2>1. PauseUntouched
    BY <1>18, <1>0, PauseKept, PauseAppended, FrontEndAssumption
    DEF UnloadAnswered, EvictOrEnd, Unregister, EndLora, Acquire, Fail, PauseUntouched, InSection, Send
  <2> QED
    BY <2>1, PauseFrame
<1>19. ASSUME NEW t \in Task, NEW ok \in BOOLEAN, LoadAnswered(t, ok) PROVE PauseInv'
  <2>1. PauseUntouched
    BY <1>19, <1>0, PauseKept, PauseAppended, FrontEndAssumption
    DEF LoadAnswered, EvictOrEnd, Unregister, EndLora, Acquire, Fail, PauseUntouched, InSection, Send
  <2> QED
    BY <2>1, PauseFrame
<1>20. ASSUME Unload PROVE PauseInv'
  <2>1. PauseUntouched
    BY <1>20, <1>0, PauseKept, PauseAppended, FrontEndAssumption
    DEF Unload, Unregister, EndLora, Acquire, Fail, PauseUntouched, InSection, Send
  <2> QED
    BY <2>1, PauseFrame
<1>21. ASSUME CallLora PROVE PauseInv'
  <2>1. PauseUntouched
    BY <1>21, <1>0, PauseKept, FrontEndAssumption
    DEF CallLora, PauseUntouched, InSection, Send
  <2> QED
    BY <2>1, PauseFrame
<1>22. ASSUME NEW r \in Request, PassPause(r) PROVE PauseInv'
  <2>1. /\ ~is_pause /\ UNCHANGED <<setup, control_vars, to_scheduler>>
        /\ \A q \in Request : q # r => pc'[q] = pc[q]
        /\ pc'[r] = "reader_wait" => updating \in {"writer_wait", "locked"}
    BY <1>22, <1>0 DEF PassPause, ResolveLora, Acquire, Fail, CanRead
  <2>2. pausing # "done"
    BY <1>0, <2>1 DEF PauseInv
  <2> QED
    BY <1>0, <2>1, <2>2 DEF PauseInv, control_vars
<1>23. ASSUME AbortLoop PROVE PauseInv'
  <2>1. \A i \in 1..Len(to_scheduler') : to_scheduler'[i] = [type |-> "pause"] =>
            \E j \in 1..Len(to_scheduler) : to_scheduler[j] = [type |-> "pause"]
    BY <1>23, PauseAppended DEF AbortLoop, Send, AbortAll
  <2>2. readers' = readers /\ (pausing' = "done" => readers = {}) /\ pausing' \in {"aborting", "done"}
    BY <1>23 DEF AbortLoop, readers, is_locked
  <2> QED
    BY <1>23, <1>0, <2>1, <2>2 DEF AbortLoop, PauseInv
<1>24. ASSUME PauseGeneration PROVE PauseInv'
  <2>1. readers' = readers
    BY <1>24 DEF PauseGeneration, readers
  <2>2. CASE setup.pause_mode = "abort"
    BY <1>24, <1>0, <2>1, <2>2 DEF PauseGeneration, PauseInv
  <2>3. CASE setup.pause_mode = "retract"
    BY <1>24, <1>0, <2>1, <2>3 DEF PauseGeneration, PauseInv, Send
  <2> QED
    BY <1>24, <1>0, <2>2, <2>3 DEF PauseGeneration
<1>25. ASSUME ContinueGeneration PROVE PauseInv'
  <2>1. \A i \in 1..Len(to_scheduler') : to_scheduler'[i] = [type |-> "pause"] =>
            \E j \in 1..Len(to_scheduler) : to_scheduler[j] = [type |-> "pause"]
    BY <1>25, PauseAppended DEF ContinueGeneration, Send
  <2> QED
    BY <1>25, <1>0, <2>1 DEF ContinueGeneration, PauseInv
<1>26. ASSUME UpdateWeights PROVE PauseInv'
  <2>1. PICK s \in {to_scheduler, Append(to_scheduler, AbortAll)} :
          s \in Seq(Message) /\ to_scheduler' \in {s, Append(s, Update)}
    BY <1>26, UpdateWeightsSends
  <2>2. AbortAll # [type |-> "pause"] /\ Update # [type |-> "pause"]
    BY DEF AbortAll, Update
  <2>3. \A i \in 1..Len(s) : s[i] = [type |-> "pause"] =>
            \E j \in 1..Len(to_scheduler) : to_scheduler[j] = [type |-> "pause"]
    BY <1>0, <2>1, <2>2
  <2>4. \A i \in 1..Len(to_scheduler') : to_scheduler'[i] = [type |-> "pause"] =>
            \E j \in 1..Len(s) : s[j] = [type |-> "pause"]
    BY <2>1, <2>2
  <2>5. \A i \in 1..Len(to_scheduler') :
            to_scheduler'[i] = [type |-> "pause"] => setup'.pause_mode = "retract"
    BY <1>26, <2>3, <2>4 DEF PauseInv, UpdateWeights
  <2> QED
    BY <1>26, <1>0, <2>5 DEF UpdateWeights, PauseInv
<1>27. ASSUME AcquireWriter PROVE PauseInv'
  <2>1. \A i \in 1..Len(to_scheduler') : to_scheduler'[i] = [type |-> "pause"] =>
            \E j \in 1..Len(to_scheduler) : to_scheduler[j] = [type |-> "pause"]
    BY <1>27, PauseAppended DEF AcquireWriter, Send, Update
  <2> QED
    BY <1>27, <1>0, <2>1 DEF AcquireWriter, PauseInv, readers
<1>28. ASSUME UpdateAnswered PROVE PauseInv'
  BY <1>28, <1>0 DEF UpdateAnswered, PauseInv, readers
<1>29. ASSUME SchedulerReceive PROVE PauseInv'
  <2>1. \A i \in 1..Len(to_scheduler') : to_scheduler'[i] = [type |-> "pause"] =>
            \E j \in 1..Len(to_scheduler) : to_scheduler[j] = [type |-> "pause"]
    <3>1. to_scheduler' = Tail(to_scheduler) /\ to_scheduler # <<>>
      BY <1>29 DEF SchedulerReceive
    <3>2. \A i \in 1..Len(to_scheduler') :
              i + 1 \in 1..Len(to_scheduler) /\ to_scheduler'[i] = to_scheduler[i + 1]
      BY <1>0, <3>1
    <3> QED
      BY <3>2
  <2>2. PauseUntouched
    BY <1>29, <2>1 DEF SchedulerReceive, PauseUntouched
  <2> QED
    BY <2>2, PauseFrame
<1>30. ASSUME UNCHANGED vars PROVE PauseInv'
  <2>1. PauseUntouched
    BY <1>30, PauseKept DEF PauseUntouched, vars
  <2> QED
    BY <2>1, PauseFrame
<1>31. ASSUME NEW t \in Task, LoadFailed(t) PROVE PauseInv'
  <2>1. PauseUntouched
    BY <1>31, <1>0, PauseKept, FrontEndAssumption DEF LoadFailed, Fail, PauseUntouched, InSection
  <2> QED
    BY <2>1, PauseFrame
<1> QED
  BY <1>1, <1>2, <1>3, <1>4, <1>5, <1>6, <1>7, <1>8, <1>9, <1>10, <1>11, <1>12, <1>13, <1>14,
     <1>15, <1>16, <1>17, <1>18, <1>19, <1>20, <1>21, <1>22, <1>23, <1>24, <1>25, <1>26, <1>27,
     <1>28, <1>29, <1>30, <1>31
  DEF Next, RequestStep, LoraStep, SchedulerStep, ControlStep, ClientStep, OperatorStep

LEMMA InitPause == Init => PauseInv
BY DEF Init, PauseInv, readers, InSection, Task

(* Without weight updates beside it, an aborting pause leaves the engine   *)
(* idle once it has returned: no request is in the section, and what the   *)
(* scheduler still has is nobody's.  With an update beside it this is      *)
(* false: a request that waited for the update enters after the pause.     *)
THEOREM PausedMeansIdleAlways == Spec => [](setup.updates = 0 => PausedMeansIdle)
<1>1. TypeInv /\ FlowInv /\ PauseInv => (setup.updates = 0 => PausedMeansIdle)
  <2> SUFFICES ASSUME TypeInv, FlowInv, PauseInv, setup.updates = 0, pausing = "done",
                      setup.pause_mode = "abort", NEW r \in Request
               PROVE  pc[r] \notin InSection /\ (InScheduler(r) => r \notin rid_to_state)
    BY DEF PausedMeansIdle
  <2>1. updates = 0
    BY DEF TypeInv, TypeOK
  <2>2. pc[r] \notin InSection
    BY <2>1 DEF PauseInv, readers
  <2>3. InScheduler(r) => pc[r] = "done"
    BY <2>2 DEF FlowInv, Placed, InSection
  <2> QED
    BY <2>2, <2>3 DEF FlowInv, Ended
<1> QED
  BY <1>1, InitTypes, TypeStep, InitFlow, FlowStep, InitPause, PauseStep, PTL DEF Spec

-----------------------------------------------------------------------------
(* A step that sends no update: what an update met, it still meets. *)
UpdateUntouched(k) ==
    /\ setup' = setup /\ mixed' = mixed
    /\ \A r \in Request : pc[r] = "done" => pc'[r] = "done" /\ client'[r] = client[r]
    /\ queued' \cup running' \subseteq queued \cup running
    /\ \A i \in 1..Len(to_scheduler') : to_scheduler'[i] = Update =>
           /\ i + k \in 1..Len(to_scheduler) /\ to_scheduler[i + k] = Update
           /\ \A j \in 1..(i-1) : to_scheduler'[j] = to_scheduler[j + k]

LEMMA UpdateFrame ==
    ASSUME TypeInv, UpdateInv, NEW k \in Nat, UpdateUntouched(k)
    PROVE  UpdateInv'
<1> SUFFICES ASSUME FewUpdates, setup.pause_mode # "retract" PROVE UpdateAlone' /\ MixedEnded'
  BY DEF UpdateInv, FewUpdates, UpdateUntouched
<1>1. UpdateAlone /\ MixedEnded
  BY DEF UpdateInv
<1>2. MixedEnded'
  BY <1>1 DEF UpdateUntouched, MixedEnded, TypeInv, TypeOK
<1>3. UpdateAlone'
  <2> SUFFICES ASSUME NEW i \in 1..Len(to_scheduler'), to_scheduler'[i] = Update,
                      NEW r \in Request,
                      r \in queued' \cup running' \/ \E j \in 1..(i-1) : to_scheduler'[j] = Generate(r)
               PROVE  pc'[r] = "done"
    BY DEF UpdateAlone, Update, Generate
  <2>1. /\ i + k \in 1..Len(to_scheduler) /\ to_scheduler[i + k] = Update
        /\ \A j \in 1..(i-1) : to_scheduler'[j] = to_scheduler[j + k] /\ j + k \in 1..(i + k - 1)
    BY DEF UpdateUntouched
  <2>2. pc[r] = "done"
    <3>1. CASE r \in queued' \cup running'
      BY <1>1, <2>1, <3>1 DEF UpdateAlone, UpdateUntouched
    <3>2. CASE \E j \in 1..(i-1) : to_scheduler'[j] = Generate(r)
      <4>1. PICK j \in 1..(i-1) : to_scheduler'[j] = Generate(r)
        BY <3>2
      <4>2. j + k \in 1..(i + k - 1) /\ to_scheduler[j + k] = Generate(r)
        BY <2>1, <4>1
      <4> QED
        BY <1>1, <2>1, <4>2 DEF UpdateAlone
    <3> QED
      BY <3>1, <3>2
  <2> QED
    BY <2>2 DEF UpdateUntouched
<1> QED
  BY <1>2, <1>3

LEMMA UpdatesKept ==
    ASSUME TypeInv, to_scheduler' = to_scheduler
    PROVE  \A i \in 1..Len(to_scheduler') : to_scheduler'[i] = Update =>
               /\ i + 0 \in 1..Len(to_scheduler) /\ to_scheduler[i + 0] = Update
               /\ \A j \in 1..(i-1) : to_scheduler'[j] = to_scheduler[j + 0]
BY DEF TypeInv, TypeOK

LEMMA UpdatesAppended ==
    ASSUME TypeInv, NEW msg, to_scheduler' = Append(to_scheduler, msg), msg # Update
    PROVE  \A i \in 1..Len(to_scheduler') : to_scheduler'[i] = Update =>
               /\ i + 0 \in 1..Len(to_scheduler) /\ to_scheduler[i + 0] = Update
               /\ \A j \in 1..(i-1) : to_scheduler'[j] = to_scheduler[j + 0]
BY DEF TypeInv, TypeOK

LEMMA OtherThanUpdate ==
    /\ \A x : [type |-> "generate", of |-> x] # Update /\ [type |-> "abort", of |-> x] # Update
    /\ \A x : [type |-> "load", of |-> x] # Update /\ [type |-> "unload", of |-> x] # Update
    /\ AbortAll # Update /\ [type |-> "pause"] # Update /\ [type |-> "continue"] # Update
BY DEF Update, AbortAll

(* An update is sent when no request is in the section, so whoever is in   *)
(* the scheduler has ended.                                                *)
LEMMA UpdateSent ==
    ASSUME TypeInv, FlowInv, UpdateInv, readers = {}, NEW s \in Seq(Message),
           s \in {to_scheduler, Append(to_scheduler, AbortAll)}, to_scheduler' = Append(s, Update),
           UNCHANGED <<setup, pc, client, mixed, queued, running>>
    PROVE  UpdateInv'
<1>1. \A r \in Request : InScheduler(r) => pc[r] = "done"
  BY DEF FlowInv, Placed, readers, InSection
<1>2. to_scheduler \in Seq(Message)
  BY DEF TypeInv, TypeOK
<1>3. \A r \in Request : \A j \in 1..Len(s) : s[j] = Generate(r) => pc[r] = "done"
  <2> SUFFICES ASSUME NEW r \in Request, NEW j \in 1..Len(s), s[j] = Generate(r)
               PROVE  pc[r] = "done"
    OBVIOUS
  <2>1. Generate(r) # AbortAll
    BY GenerateFacts
  <2>2. j \in 1..Len(to_scheduler) /\ to_scheduler[j] = Generate(r)
    BY SMTT(60), <1>2, <2>1
  <2> QED
    BY <1>1, <2>2 DEF InScheduler, Contains, Generate
<1>4. UpdateAlone'
  <2> SUFFICES ASSUME NEW i \in 1..Len(to_scheduler'), NEW r \in Request,
                      r \in queued' \cup running' \/ \E j \in 1..(i-1) : to_scheduler'[j] = Generate(r)
               PROVE  pc'[r] = "done"
    BY DEF UpdateAlone, Update, Generate
  <2>1. CASE r \in queued' \cup running'
    BY <1>1, <2>1 DEF InScheduler
  <2>2. CASE \E j \in 1..(i-1) : to_scheduler'[j] = Generate(r)
    BY <1>3, <2>2
  <2> QED
    BY <2>1, <2>2
<1> QED
  BY <1>4 DEF UpdateInv, FewUpdates, MixedEnded

LEMMA UpdateStep == TypeInv /\ FlowInv /\ PauseInv /\ UpdateInv /\ [Next]_vars => UpdateInv'
<1> SUFFICES ASSUME TypeInv, FlowInv, PauseInv, UpdateInv PROVE [Next]_vars => UpdateInv'
  OBVIOUS
<1>0. /\ pc \in [Task -> InSection \cup {"new", "pause_wait", "reader_wait", "done"}]
      /\ client \in [Request -> Outcomes \cup {"none", "aborted", "exception"}]
      /\ Request \subseteq Task /\ to_scheduler \in Seq(Message)
  BY DEF TypeInv, TypeOK, Task
<1>1. ASSUME NEW r \in Request, GenerateRequest(r) PROVE UpdateInv'
  <2>1. UpdateUntouched(0)
    BY <1>1, <1>0, UpdatesKept, OtherThanUpdate
    DEF GenerateRequest, UpdateUntouched, Send
  <2> QED
    BY <2>1, UpdateFrame
<1>2. ASSUME NEW r \in Request, PassPause(r) PROVE UpdateInv'
  <2>1. UpdateUntouched(0)
    BY <1>2, <1>0, UpdatesKept, OtherThanUpdate
    DEF PassPause, ResolveLora, Acquire, Fail, UpdateUntouched, Send
  <2> QED
    BY <2>1, UpdateFrame
<1>3. ASSUME NEW r \in Request, AcquireReader(r) PROVE UpdateInv'
  <2>1. UpdateUntouched(0)
    BY <1>3, <1>0, UpdatesKept, OtherThanUpdate
    DEF AcquireReader, ResolveLora, Acquire, Fail, UpdateUntouched, Send
  <2> QED
    BY <2>1, UpdateFrame
<1>4. ASSUME NEW r \in Request, Increment(r) PROVE UpdateInv'
  <2>1. UpdateUntouched(0)
    BY <1>4, <1>0, UpdatesKept, OtherThanUpdate
    DEF Increment, UpdateUntouched, Send
  <2> QED
    BY <2>1, UpdateFrame
<1>5. ASSUME NEW r \in Request, TokenizeAndSend(r) PROVE UpdateInv'
  <2>1. UpdateUntouched(0)
    BY <1>5, <1>0, UpdatesAppended, OtherThanUpdate
    DEF TokenizeAndSend, UpdateUntouched, Send
  <2> QED
    BY <2>1, UpdateFrame
<1>6. ASSUME NEW r \in Request, TokenizeFails(r) PROVE UpdateInv'
  <2>1. UpdateUntouched(0)
    BY <1>6, <1>0, UpdatesKept, OtherThanUpdate
    DEF TokenizeFails, Fail, UpdateUntouched, Send
  <2> QED
    BY <2>1, UpdateFrame
<1>7. ASSUME NEW r \in Request, Respond(r) PROVE UpdateInv'
  <2>1. UpdateUntouched(0)
    BY <1>7, <1>0, UpdatesKept, OtherThanUpdate
    DEF Respond, UpdateUntouched, Send
  <2> QED
    BY <2>1, UpdateFrame
<1>8. ASSUME NEW r \in Request, Disconnect(r) PROVE UpdateInv'
  <2>1. UpdateUntouched(0)
    BY <1>8, <1>0, UpdatesKept, UpdatesAppended, OtherThanUpdate
    DEF Disconnect, Fail, Abort, UpdateUntouched, Send
  <2> QED
    BY <2>1, UpdateFrame
<1>9. ASSUME NEW r \in Request, CancelStream(r) PROVE UpdateInv'
  <2>1. UpdateUntouched(0)
    BY <1>9, <1>0, UpdatesKept, OtherThanUpdate
    DEF CancelStream, Fail, UpdateUntouched, Send
  <2> QED
    BY <2>1, UpdateFrame
<1>10. ASSUME NEW r \in Request, AbortTask(r) PROVE UpdateInv'
  <2>1. UpdateUntouched(0)
    BY <1>10, <1>0, UpdatesKept, UpdatesAppended, OtherThanUpdate
    DEF AbortTask, Abort, UpdateUntouched, Send
  <2> QED
    BY <2>1, UpdateFrame
<1>11. ASSUME NEW r \in Request, ReleaseTask(r) PROVE UpdateInv'
  <2>1. UpdateUntouched(0)
    BY <1>11, <1>0, UpdatesKept, OtherThanUpdate
    DEF ReleaseTask, UpdateUntouched, Send
  <2> QED
    BY <2>1, UpdateFrame
<1>12. ASSUME NEW r \in Request, HandleBatchOutput(r) PROVE UpdateInv'
  <2>1. UpdateUntouched(0)
    BY <1>12, <1>0, UpdatesKept, OtherThanUpdate
    DEF HandleBatchOutput, UpdateUntouched, Send
  <2> QED
    BY <2>1, UpdateFrame
<1>13. ASSUME NEW r \in Request, HandleAbortReq(r) PROVE UpdateInv'
  <2>1. UpdateUntouched(0)
    BY <1>13, <1>0, UpdatesKept, OtherThanUpdate
    DEF HandleAbortReq, UpdateUntouched, Send
  <2> QED
    BY <2>1, UpdateFrame
<1>14. ASSUME NEW r \in Request, SchedulerRun(r) PROVE UpdateInv'
  <2>1. UpdateUntouched(0)
    BY <1>14, <1>0, UpdatesKept, OtherThanUpdate
    DEF SchedulerRun, UpdateUntouched, Send
  <2> QED
    BY <2>1, UpdateFrame
<1>15. ASSUME NEW r \in Request, SchedulerReject(r) PROVE UpdateInv'
  <2>1. UpdateUntouched(0)
    BY <1>15, <1>0, UpdatesKept, OtherThanUpdate
    DEF SchedulerReject, UpdateUntouched, Send
  <2> QED
    BY <2>1, UpdateFrame
<1>16. ASSUME NEW r \in Request, SchedulerFinish(r) PROVE UpdateInv'
  <2>1. UpdateUntouched(0)
    BY <1>16, <1>0, UpdatesKept, OtherThanUpdate
    DEF SchedulerFinish, UpdateUntouched, Send
  <2> QED
    BY <2>1, UpdateFrame
<1>17. ASSUME NEW t \in Task, StartLoad(t) PROVE UpdateInv'
  <2>1. UpdateUntouched(0)
    BY <1>17, <1>0, UpdatesAppended, OtherThanUpdate
    DEF StartLoad, UpdateUntouched, Send
  <2> QED
    BY <2>1, UpdateFrame
<1>18. ASSUME NEW t \in Task, WaitForUnload(t) PROVE UpdateInv'
  <2>1. UpdateUntouched(0)
    BY <1>18, <1>0, UpdatesAppended, OtherThanUpdate
    DEF WaitForUnload, UpdateUntouched, Send
  <2> QED
    BY <2>1, UpdateFrame
<1>19. ASSUME NEW t \in Task, UnloadAnswered(t) PROVE UpdateInv'
  <2>1. UpdateUntouched(0)
    BY <1>19, <1>0, UpdatesKept, UpdatesAppended, OtherThanUpdate, FrontEndAssumption
    DEF UnloadAnswered, EvictOrEnd, Unregister, EndLora, Acquire, Fail, UpdateUntouched, Send
  <2> QED
    BY <2>1, UpdateFrame
<1>20. ASSUME NEW t \in Task, NEW ok \in BOOLEAN, LoadAnswered(t, ok) PROVE UpdateInv'
  <2>1. UpdateUntouched(0)
    BY <1>20, <1>0, UpdatesKept, UpdatesAppended, OtherThanUpdate, FrontEndAssumption
    DEF LoadAnswered, EvictOrEnd, Unregister, EndLora, Acquire, Fail, UpdateUntouched, Send
  <2> QED
    BY <2>1, UpdateFrame
<1>21. ASSUME Unload PROVE UpdateInv'
  <2>1. UpdateUntouched(0)
    BY <1>21, <1>0, UpdatesKept, UpdatesAppended, OtherThanUpdate, FrontEndAssumption
    DEF Unload, Unregister, EndLora, Acquire, Fail, UpdateUntouched, Send
  <2> QED
    BY <2>1, UpdateFrame
<1>22. ASSUME CallLora PROVE UpdateInv'
  <2>1. UpdateUntouched(0)
    BY <1>22, <1>0, UpdatesKept, OtherThanUpdate
    DEF CallLora, UpdateUntouched, Send
  <2> QED
    BY <2>1, UpdateFrame
<1>23. ASSUME AbortLoop PROVE UpdateInv'
  <2>1. UpdateUntouched(0)
    BY <1>23, <1>0, UpdatesAppended, OtherThanUpdate
    DEF AbortLoop, UpdateUntouched, Send
  <2> QED
    BY <2>1, UpdateFrame
<1>24. ASSUME PauseGeneration PROVE UpdateInv'
  <2>1. UpdateUntouched(0)
    BY <1>24, <1>0, UpdatesKept, UpdatesAppended, OtherThanUpdate
    DEF PauseGeneration, UpdateUntouched, Send
  <2> QED
    BY <2>1, UpdateFrame
<1>25. ASSUME ContinueGeneration PROVE UpdateInv'
  <2>1. UpdateUntouched(0)
    BY <1>25, <1>0, UpdatesAppended, OtherThanUpdate
    DEF ContinueGeneration, UpdateUntouched, Send
  <2> QED
    BY <2>1, UpdateFrame
<1>26. ASSUME UpdateAnswered PROVE UpdateInv'
  <2>1. UpdateUntouched(0)
    BY <1>26, <1>0, UpdatesKept, OtherThanUpdate
    DEF UpdateAnswered, UpdateUntouched, Send
  <2> QED
    BY <2>1, UpdateFrame
<1>27. ASSUME AcquireWriter PROVE UpdateInv'
  BY <1>27, <1>0, UpdateSent DEF AcquireWriter, Send, CanWrite
<1>28. ASSUME UpdateWeights PROVE UpdateInv'
  <2>1. PICK s \in {to_scheduler, Append(to_scheduler, AbortAll)} :
          /\ s \in Seq(Message)
          /\ to_scheduler' = IF is_pause \/ CanWrite THEN Append(s, Update) ELSE s
    BY <1>28, UpdateWeightsSends
  <2>2. UNCHANGED <<setup, pc, client, mixed, queued, running>>
    BY <1>28 DEF UpdateWeights
  <2>3. CASE ~(FewUpdates /\ setup.pause_mode # "retract")
    BY <2>2, <2>3 DEF UpdateInv, FewUpdates
  <2>4. CASE ~is_pause /\ ~CanWrite
    <3>1. UpdateUntouched(0)
      BY <1>0, <2>1, <2>2, <2>4, UpdatesKept, UpdatesAppended, OtherThanUpdate DEF UpdateUntouched
    <3> QED
      BY <3>1, UpdateFrame
  <2>5. CASE CanWrite
    BY <2>1, <2>2, <2>5, UpdateSent DEF CanWrite
  <2>6. CASE FewUpdates /\ setup.pause_mode # "retract" /\ is_pause
    <3>1. pausing = "done" /\ setup.pause_mode = "abort"
      BY <1>28, <2>6, SetupFacts DEF UpdateWeights, PauseInv, PauseCondHeld, TypeInv, TypeOK
    <3>2. updates = 0
      BY <1>28, <2>6, <3>1, SetupFacts DEF UpdateWeights, FewUpdates, TypeInv, TypeOK
    <3>3. readers = {}
      BY <3>1, <3>2 DEF PauseInv
    <3> QED
      BY <2>1, <2>2, <2>6, <3>3, UpdateSent
  <2> QED
    BY <2>3, <2>4, <2>5, <2>6
<1>29. ASSUME SchedulerReceive PROVE UpdateInv'
  <2> DEFINE msg == Head(to_scheduler)
  <2>1. /\ to_scheduler # <<>> /\ msg = to_scheduler[1] /\ 1 \in 1..Len(to_scheduler) /\ msg \in Message
        /\ UNCHANGED <<setup, pc, client>>
    BY <1>29, <1>0 DEF SchedulerReceive
  <2>2. /\ Len(to_scheduler') \in Nat /\ Len(to_scheduler) = Len(to_scheduler') + 1
        /\ \A i \in 1..Len(to_scheduler') : to_scheduler'[i] = to_scheduler[i + 1]
    <3>1. to_scheduler' = Tail(to_scheduler)
      BY <1>29 DEF SchedulerReceive
    <3> QED
      BY <1>0, <2>1, <3>1
  <2>3. \A i \in 1..Len(to_scheduler') : to_scheduler'[i] = Update =>
            /\ i + 1 \in 1..Len(to_scheduler) /\ to_scheduler[i + 1] = Update
            /\ \A j \in 1..(i-1) : to_scheduler'[j] = to_scheduler[j + 1]
    BY <2>2
  <2>4. CASE msg.type \in {"abort", "abort_all", "load", "unload", "continue"}
    <3>1. mixed' = mixed /\ queued' \cup running' \subseteq queued \cup running
      BY <1>29, <2>4 DEF SchedulerReceive
    <3>2. UpdateUntouched(1)
      BY <2>1, <2>3, <3>1 DEF UpdateUntouched
    <3> QED
      BY <3>2, UpdateFrame
  <2> SUFFICES ASSUME FewUpdates, setup.pause_mode # "retract",
                      msg.type \in {"generate", "update", "pause"}
               PROVE  UpdateAlone' /\ MixedEnded'
    BY <1>29, <2>1, <2>4 DEF SchedulerReceive, UpdateInv, FewUpdates
  <2>5. UpdateAlone /\ MixedEnded
    BY DEF UpdateInv
  <2>6. ASSUME queued' \cup running' \subseteq queued \cup running PROVE UpdateAlone'
    <3> SUFFICES ASSUME NEW i \in 1..Len(to_scheduler'), to_scheduler'[i] = Update,
                        NEW r \in Request,
                        r \in queued' \cup running' \/ \E j \in 1..(i-1) : to_scheduler'[j] = Generate(r)
                 PROVE  pc'[r] = "done"
      BY DEF UpdateAlone, Update, Generate
    <3>1. i + 1 \in 1..Len(to_scheduler) /\ to_scheduler[i + 1] = Update
      BY <2>3
    <3>2. CASE r \in queued' \cup running'
      BY <2>1, <2>5, <2>6, <3>1, <3>2 DEF UpdateAlone
    <3>3. CASE \E j \in 1..(i-1) : to_scheduler'[j] = Generate(r)
      <4>1. PICK j \in 1..(i-1) : to_scheduler'[j] = Generate(r)
        BY <3>3
      <4>2. j + 1 \in 1..((i + 1) - 1) /\ to_scheduler[j + 1] = Generate(r)
        BY <2>2, <4>1
      <4> QED
        BY <2>1, <2>5, <3>1, <4>2 DEF UpdateAlone
    <3> QED
      BY <3>2, <3>3
  <2>7. CASE msg.type = "generate"
    <3>1. queued' = queued \cup {msg.of} /\ UNCHANGED <<running, mixed>>
      BY <1>29, <2>7 DEF SchedulerReceive
    <3>2. msg = Generate(msg.of)
      BY <2>1, <2>7 DEF Message, Generate
    <3>3. UpdateAlone'
      <4> SUFFICES ASSUME NEW i \in 1..Len(to_scheduler'), to_scheduler'[i] = Update,
                          NEW r \in Request,
                          r \in queued' \cup running' \/ \E j \in 1..(i-1) : to_scheduler'[j] = Generate(r)
                   PROVE  pc'[r] = "done"
        BY DEF UpdateAlone, Update, Generate
      <4>1. i + 1 \in 1..Len(to_scheduler) /\ to_scheduler[i + 1] = Update
        BY <2>3
      <4>2. CASE r \in queued \cup running
        BY <2>1, <2>5, <4>1, <4>2 DEF UpdateAlone
      <4>3. CASE r = msg.of
        <5>1. 1 \in 1..((i + 1) - 1) /\ to_scheduler[1] = Generate(r)
          BY <2>1, <3>2, <4>3
        <5> QED
          BY <2>1, <2>5, <4>1, <5>1 DEF UpdateAlone
      <4>4. CASE \E j \in 1..(i-1) : to_scheduler'[j] = Generate(r)
        <5>1. PICK j \in 1..(i-1) : to_scheduler'[j] = Generate(r)
          BY <4>4
        <5>2. j + 1 \in 1..((i + 1) - 1) /\ to_scheduler[j + 1] = Generate(r)
          BY <2>2, <5>1
        <5> QED
          BY <2>1, <2>5, <4>1, <5>2 DEF UpdateAlone
      <4> QED
        BY <3>1, <4>2, <4>3, <4>4
    <3> QED
      BY <2>1, <2>5, <3>1, <3>3 DEF MixedEnded
  <2>8. CASE msg.type = "update"
    <3>1. mixed' = mixed \cup running /\ UNCHANGED <<queued, running>> /\ running \subseteq Request
      BY <1>29, <2>8 DEF SchedulerReceive, TypeInv, TypeOK
    <3>2. msg = Update
      BY <2>1, <2>8, MessageFacts
    <3>3. \A r \in running : pc[r] = "done"
      BY <2>1, <2>5, <3>1, <3>2 DEF UpdateAlone
    <3>4. \A r \in running : client[r] # "stop"
      BY <3>1 DEF FlowInv, Placed, Ended, InScheduler
    <3>5. MixedEnded'
      BY <2>1, <2>5, <3>1, <3>3, <3>4 DEF MixedEnded
    <3> QED
      BY <2>6, <3>1, <3>5
  <2>9. CASE msg.type = "pause"
    <3>1. msg = [type |-> "pause"]
      BY <2>1, <2>9 DEF Message
    <3> QED
      BY <2>1, <3>1 DEF PauseInv
  <2> QED
    BY <2>7, <2>8, <2>9
<1>30. ASSUME UNCHANGED vars PROVE UpdateInv'
  <2>1. UpdateUntouched(0)
    BY <1>30, <1>0, UpdatesKept DEF UpdateUntouched, vars
  <2> QED
    BY <2>1, UpdateFrame
<1>31. ASSUME NEW t \in Task, LoadFailed(t) PROVE UpdateInv'
  <2>1. UpdateUntouched(0)
    BY <1>31, <1>0, UpdatesKept, OtherThanUpdate, FrontEndAssumption
    DEF LoadFailed, Fail, UpdateUntouched, Task
  <2> QED
    BY <2>1, UpdateFrame
<1> QED
  BY <1>1, <1>2, <1>3, <1>4, <1>5, <1>6, <1>7, <1>8, <1>9, <1>10, <1>11, <1>12, <1>13, <1>14,
     <1>15, <1>16, <1>17, <1>18, <1>19, <1>20, <1>21, <1>22, <1>23, <1>24, <1>25, <1>26, <1>27,
     <1>28, <1>29, <1>30, <1>31
  DEF Next, RequestStep, LoraStep, SchedulerStep, ControlStep, ClientStep, OperatorStep

LEMMA InitUpdate == Init => UpdateInv
BY DEF Init, UpdateInv, UpdateAlone, MixedEnded

(* No weight update falls into a request that is answered normally, unless *)
(* an aborting pause meets several updates: then a request that waited for *)
(* one update enters the paused engine, and the next update, which takes   *)
(* no lock because the engine is paused, changes the weights under it.     *)
THEOREM OneWeightVersionAlways == Spec => [](FewUpdates => OneWeightVersion)
<1>1. TypeInv /\ UpdateInv => (FewUpdates => OneWeightVersion)
  BY DEF UpdateInv, MixedEnded, OneWeightVersion
<1> QED
  BY <1>1, InitTypes, TypeStep, InitFlow, FlowStep, InitPause, PauseStep, InitUpdate, UpdateStep,
     PTL DEF Spec

-----------------------------------------------------------------------------
(* LoRA adapters: the registry names only what the backend has, and an     *)
(* adapter is not unloaded while single requests use it, for any number of *)
(* requests, adapters and loads.                                           *)

(* How far the load or unload in progress has come. *)
Phase == IF lora_update_lock = Nobody THEN "free" ELSE pc[lora_update_lock]

(* lora_update_lock is held by the coroutine that loads or unloads. *)
OneHolder == \A t \in Task : HoldsLock(t) <=> lora_update_lock = t

IsLora(msg) == msg.type \in {"load", "unload", "load_error"}

(* At most one load or unload is in flight, that of the holder's target. *)
OneLoraMessage ==
    /\ \A i \in DOMAIN to_scheduler :
           IsLora(to_scheduler[i]) =>
               /\ to_scheduler[i].of = target
               /\ to_scheduler[i].type \in {"load", "load_error"} => Phase = "loading"
               /\ to_scheduler[i].type = "unload" => Phase = "unloading"
               /\ \A j \in DOMAIN to_scheduler : IsLora(to_scheduler[j]) => i = j
               /\ \A msg \in from_scheduler : ~IsLora(msg)
    /\ \A msg \in from_scheduler :
           IsLora(msg) =>
               /\ msg.of = target
               /\ msg.type = "load" => Phase = "loading" /\ (msg.ok => target \in loaded)
               /\ msg.type = "load_error" => Phase = "loading"
               /\ msg.type = "unload" => Phase = "unloading"
               /\ \A other \in from_scheduler : IsLora(other) => other = msg

(* What the registry L is between two loads: its ids are loaded and        *)
(* counted, none twice; ids are not created twice and the backend has one  *)
(* adapter of a name.                                                      *)
Backed(L) ==
    /\ Distinct(L.registry) /\ ToSet(L.registry) \subseteq loaded \cap DOMAIN L.counters
    /\ \A id \in loaded \cup DOMAIN L.counters : id[2] <= loads
    /\ \A x, y \in loaded : x[1] = y[1] => x = y

(* Where the target is in each phase. *)
TargetPlaced ==
    /\ Phase # "free" => target \notin ToSet(lora.registry)
    /\ Phase \in {"loading", "unloading"} => target \notin DOMAIN lora.counters
    /\ Phase = "draining" => target \in DOMAIN lora.counters
    /\ Phase = "loading" => target[2] <= loads

LoraInv == OneHolder /\ OneLoraMessage /\ TargetPlaced /\ Backed(lora)

NoLoraMessage(msgs) == \A msg \in msgs : ~IsLora(msg)

-----------------------------------------------------------------------------
LEMMA BackedNames ==
    ASSUME TypeInv, Backed(lora)
    PROVE  RegistryBacked
BY DEF Backed, RegistryBacked, Distinct, ToSet, TypeInv, LoraState

LEMMA InitLora == Init => LoraInv
<1> SUFFICES ASSUME Init PROVE LoraInv
  OBVIOUS
<1>1. Backed(lora)
  <2>1. /\ \A id \in setup.lora_paths \X {0} : id[2] <= 0
        /\ \A x, y \in setup.lora_paths \X {0} : x[1] = y[1] => x = y
    OBVIOUS
  <2>2. loaded = setup.lora_paths \X {0} /\ loads = 0
    BY DEF Init
  <2> QED
    BY <2>1, <2>2, InitialRegistry DEF Backed
<1>2. OneHolder /\ Phase = "free"
  BY FrontEndAssumption DEF Init, OneHolder, HoldsLock, Phase
<1> QED
  BY <1>1, <1>2 DEF Init, LoraInv, OneLoraMessage, TargetPlaced

(* A step that is not about loads keeps what is in flight, up to its       *)
(* position in the socket, and the registry up to its order.               *)
LoraUntouched(k) ==
    /\ UNCHANGED <<loads, lora_update_lock, target, loaded>>
    /\ \A t \in Task : HoldsLock(t)' <=> HoldsLock(t)
    /\ \A t \in Task : HoldsLock(t) => pc'[t] = pc[t]
    /\ \A i \in DOMAIN to_scheduler' : IsLora(to_scheduler'[i]) =>
           i + k \in DOMAIN to_scheduler /\ to_scheduler'[i] = to_scheduler[i + k]
    /\ DOMAIN to_scheduler' \subseteq Nat
    /\ \A msg \in from_scheduler' : IsLora(msg) => msg \in from_scheduler
    /\ Distinct(lora'.registry) /\ ToSet(lora'.registry) = ToSet(lora.registry)
    /\ DOMAIN lora'.counters = DOMAIN lora.counters

LEMMA LoraFrame ==
    ASSUME TypeInv, LoraInv, NEW k \in Nat, LoraUntouched(k)
    PROVE  LoraInv'
<1> USE DEF LoraUntouched
<1>1. OneHolder'
  BY DEF LoraInv, OneHolder
<1>2. Phase' = Phase
  <2>1. lora_update_lock \in Task \cup {Nobody}
    BY DEF TypeInv, TypeOK
  <2> QED
    BY <2>1 DEF Phase, LoraInv, OneHolder
<1>3. Backed(lora)'
  BY DEF LoraInv, Backed
<1>4. TargetPlaced'
  BY <1>2 DEF LoraInv, TargetPlaced
<1>5. OneLoraMessage'
  BY <1>2 DEF LoraInv, OneLoraMessage
<1> QED
  BY <1>1, <1>3, <1>4, <1>5 DEF LoraInv

(* The lock is given back. *)
LEMMA EndLoraKeeps ==
    ASSUME TypeInv, LoraInv, NEW t \in Task, NEW L \in LoraState, EndLora(t, L), Backed(L),
           lora_update_lock \in {t, Nobody},
           NoLoraMessage(ToSet(to_scheduler)), NoLoraMessage(from_scheduler'),
           UNCHANGED <<setup, loads, loaded>>
    PROVE  LoraInv'
<1>1. /\ lora_update_lock' = Nobody /\ to_scheduler' = to_scheduler
      /\ \E p \in {"new", "incrementing", "tokenize", "done"} : pc' = [pc EXCEPT ![t] = p]
  BY EndLoraTypes DEF Fail
<1>2. OneHolder' /\ Phase' = "free"
  BY <1>1, FrontEndAssumption DEF OneHolder, LoraInv, Phase, HoldsLock, TypeInv, TypeOK
<1>3. Distinct(lora'.registry) /\ ToSet(lora'.registry) = ToSet(L.registry)
         /\ DOMAIN lora'.counters = DOMAIN L.counters
  <2>1. CASE lora' = L
    BY <2>1 DEF Backed
  <2>2. CASE lora' # L
    <3>1. t \in Request /\ Registered(L, setup.lora[t])
      BY <2>2 DEF EndLora, Acquire, Task
    <3>2. LookUp(L, setup.lora[t]) \in LoraState
      BY <3>1, LookUpFacts
    <3>3. \/ lora' = LookUp(L, setup.lora[t])
          \/ lora' = Count(LookUp(L, setup.lora[t]), IdOf(L, setup.lora[t]), 1)
      BY <2>2 DEF EndLora, Acquire
    <3> QED
      BY <3>1, <3>2, <3>3, LookUpFacts, CountFacts DEF Backed
  <2> QED
    BY <2>1, <2>2
<1>4. Backed(lora)'
  BY <1>3 DEF Backed
<1> QED
  BY <1>1, <1>2, <1>4 DEF LoraInv, TargetPlaced, OneLoraMessage, NoLoraMessage, ToSet

(* An adapter is taken out of the registry; the backend is told when its   *)
(* counter is zero.                                                        *)
LEMMA UnregisterKeeps ==
    ASSUME TypeInv, LoraInv, NEW t \in Task, NEW L \in LoraState, NEW id \in ToSet(L.registry),
           Unregister(t, L, id), Backed(L), lora_update_lock' = t, lora_update_lock \in {t, Nobody},
           NoLoraMessage(ToSet(to_scheduler)), NoLoraMessage(from_scheduler'),
           UNCHANGED <<loads, loaded>>
    PROVE  LoraInv'
<1> DEFINE gone == [L EXCEPT !.registry = Unlist(@, id)]
<1>1. /\ gone \in LoraState /\ gone.registry = Unlist(L.registry, id) /\ gone.counters = L.counters
  BY UnlistedFacts
<1>2. /\ ToSet(gone.registry) = ToSet(L.registry) \ {id} /\ Distinct(gone.registry)
  BY <1>1, UnlistFacts DEF Backed, LoraState
<1>3. target' = id /\ \E p \in {"draining", "unloading"} : pc' = [pc EXCEPT ![t] = p]
  BY DEF Unregister
<1>4. OneHolder' /\ Phase' = pc'[t] /\ pc'[t] \in {"draining", "unloading"}
  BY <1>3, FrontEndAssumption DEF OneHolder, LoraInv, Phase, HoldsLock, TypeInv, TypeOK
<1> HIDE DEF gone
<1>5. \/ /\ pc'[t] = "unloading" /\ lora' = DropCounter(gone, id)
         /\ to_scheduler' = Append(to_scheduler, [type |-> "unload", of |-> id])
      \/ pc'[t] = "draining" /\ lora' = gone /\ to_scheduler' = to_scheduler
  BY DEF Unregister, Send, gone, TypeInv, TypeOK
<1>6. /\ lora'.registry = gone.registry
      /\ DOMAIN lora'.counters = IF pc'[t] = "unloading" THEN DOMAIN L.counters \ {id}
                                                         ELSE DOMAIN L.counters
  <2>1. /\ DropCounter(gone, id).registry = gone.registry
        /\ DOMAIN DropCounter(gone, id).counters = DOMAIN gone.counters \ {id}
    BY <1>1, DropCounterFacts
  <2> QED
    BY <1>1, <1>5, <2>1
<1>7. TargetPlaced'
  BY <1>2, <1>3, <1>4, <1>6 DEF TargetPlaced, Backed
<1>8. Backed(lora)'
  BY <1>2, <1>6 DEF Backed
<1>9. OneLoraMessage'
  <2>1. to_scheduler \in Seq(Message)
    BY DEF TypeInv, TypeOK
  <2>2. CASE to_scheduler' = to_scheduler
    BY <2>2 DEF NoLoraMessage, ToSet, OneLoraMessage
  <2>3. CASE /\ pc'[t] = "unloading"
             /\ to_scheduler' = Append(to_scheduler, [type |-> "unload", of |-> id])
    <3>1. \A i \in DOMAIN to_scheduler' : IsLora(to_scheduler'[i]) =>
              i = Len(to_scheduler) + 1 /\ to_scheduler'[i] = [type |-> "unload", of |-> id]
      BY <2>1, <2>3 DEF NoLoraMessage, ToSet
    <3> QED
      BY <3>1, <2>3, <1>3, <1>4 DEF NoLoraMessage, OneLoraMessage
  <2> QED
    BY <2>2, <2>3, <1>5
<1> QED
  BY <1>4, <1>7, <1>8, <1>9 DEF LoraInv

LEMMA EvictOrEndKeeps ==
    ASSUME TypeInv, LoraInv, NEW t \in Task, NEW L \in LoraState, EvictOrEnd(t, L), Backed(L),
           lora_update_lock = t,
           NoLoraMessage(ToSet(to_scheduler)), NoLoraMessage(from_scheduler'),
           UNCHANGED <<setup, loads, loaded>>
    PROVE  LoraInv'
BY EvictOrEndCases, EndLoraKeeps, UnregisterKeeps

-----------------------------------------------------------------------------
(* Messages that are not about adapters. *)
LEMMA OtherMessages ==
    /\ \A r : ~IsLora([type |-> "generate", of |-> r]) /\ ~IsLora([type |-> "abort", of |-> r])
    /\ ~IsLora(AbortAll) /\ ~IsLora(Update)
    /\ ~IsLora([type |-> "pause"]) /\ ~IsLora([type |-> "continue"])
BY DEF IsLora, AbortAll, Update

LEMMA LookedUp ==
    ASSUME TypeInv, LoraInv, NEW r \in Request, Acquire(r, lora)
    PROVE  /\ Distinct(lora'.registry) /\ ToSet(lora'.registry) = ToSet(lora.registry)
           /\ DOMAIN lora'.counters = DOMAIN lora.counters
<1>1. lora \in LoraState /\ Distinct(lora.registry)
  BY DEF TypeInv, LoraInv, Backed
<1>2. CASE lora' = lora
  BY <1>1, <1>2
<1>3. CASE lora' # lora
  <2>1. Registered(lora, setup.lora[r])
    BY <1>3 DEF Acquire
  <2>2. LookUp(lora, setup.lora[r]) \in LoraState
    BY <1>1, <2>1, LookUpFacts
  <2>3. \/ lora' = LookUp(lora, setup.lora[r])
        \/ lora' = Count(LookUp(lora, setup.lora[r]), IdOf(lora, setup.lora[r]), 1)
    BY <1>3 DEF Acquire
  <2> QED
    BY <1>1, <2>1, <2>2, <2>3, LookUpFacts, CountFacts
<1> QED
  BY <1>2, <1>3

(* Sending or receiving something else keeps the positions up to a shift.  *)
LEMMA Appended ==
    ASSUME TypeInv, NEW msg, to_scheduler' = Append(to_scheduler, msg), ~IsLora(msg)
    PROVE  /\ \A i \in DOMAIN to_scheduler' : IsLora(to_scheduler'[i]) =>
                  i + 0 \in DOMAIN to_scheduler /\ to_scheduler'[i] = to_scheduler[i + 0]
           /\ DOMAIN to_scheduler' \subseteq Nat
BY DEF TypeInv, TypeOK

LEMMA Kept ==
    ASSUME TypeInv, to_scheduler' = to_scheduler
    PROVE  /\ \A i \in DOMAIN to_scheduler' : IsLora(to_scheduler'[i]) =>
                  i + 0 \in DOMAIN to_scheduler /\ to_scheduler'[i] = to_scheduler[i + 0]
           /\ DOMAIN to_scheduler' \subseteq Nat
BY DEF TypeInv, TypeOK

LEMMA LoraStepKeeps == TypeInv /\ LoraInv /\ [Next]_vars => LoraInv'
<1> SUFFICES ASSUME TypeInv, LoraInv PROVE [Next]_vars => LoraInv'
  OBVIOUS
<1>0. /\ lora \in LoraState /\ Distinct(lora.registry)
      /\ pc \in [Task -> InSection \cup {"new", "pause_wait", "reader_wait", "done"}]
      /\ Request \subseteq Task /\ Operator \in Task
  BY DEF TypeInv, TypeOK, LoraInv, Backed, Task
<1>1. ASSUME NEW r \in Request, GenerateRequest(r) PROVE LoraInv'
  <2>1. LoraUntouched(0)
    BY <1>1, <1>0, OtherMessages, Kept
    DEF GenerateRequest, LoraUntouched, HoldsLock, Send
  <2> QED
    BY <2>1, LoraFrame
<1>2. ASSUME NEW r \in Request, PassPause(r) PROVE LoraInv'
  <2>1. LoraUntouched(0)
    BY <1>2, <1>0, OtherMessages, Kept, LookedUp
    DEF PassPause, ResolveLora, Acquire, Fail, LoraUntouched, HoldsLock, Send
  <2> QED
    BY <2>1, LoraFrame
<1>3. ASSUME NEW r \in Request, AcquireReader(r) PROVE LoraInv'
  <2>1. LoraUntouched(0)
    BY <1>3, <1>0, OtherMessages, Kept, LookedUp
    DEF AcquireReader, ResolveLora, Acquire, Fail, LoraUntouched, HoldsLock, Send
  <2> QED
    BY <2>1, LoraFrame
<1>4. ASSUME NEW r \in Request, Increment(r) PROVE LoraInv'
  <2>1. LoraUntouched(0)
    BY <1>4, <1>0, OtherMessages, Kept, CountFacts
    DEF Increment, LoraUntouched, HoldsLock, Send
  <2> QED
    BY <2>1, LoraFrame
<1>5. ASSUME NEW r \in Request, TokenizeAndSend(r) PROVE LoraInv'
  <2>1. LoraUntouched(0)
    BY <1>5, <1>0, OtherMessages, Appended
    DEF TokenizeAndSend, LoraUntouched, HoldsLock, Send
  <2> QED
    BY <2>1, LoraFrame
<1>6. ASSUME NEW r \in Request, TokenizeFails(r) PROVE LoraInv'
  <2>1. LoraUntouched(0)
    BY <1>6, <1>0, OtherMessages, Kept
    DEF TokenizeFails, Fail, LoraUntouched, HoldsLock, Send
  <2> QED
    BY <2>1, LoraFrame
<1>7. ASSUME NEW r \in Request, Respond(r) PROVE LoraInv'
  <2>1. LoraUntouched(0)
    BY <1>7, <1>0, OtherMessages, Kept, CountFacts
    DEF Respond, LoraUntouched, HoldsLock, Send
  <2> QED
    BY <2>1, LoraFrame
<1>8. ASSUME NEW r \in Request, Disconnect(r) PROVE LoraInv'
  <2>1. LoraUntouched(0)
    BY <1>8, <1>0, OtherMessages, Kept, Appended
    DEF Disconnect, Fail, Abort, LoraUntouched, HoldsLock, Send
  <2> QED
    BY <2>1, LoraFrame
<1>9. ASSUME NEW r \in Request, CancelStream(r) PROVE LoraInv'
  <2>1. LoraUntouched(0)
    BY <1>9, <1>0, OtherMessages, Kept
    DEF CancelStream, Fail, LoraUntouched, HoldsLock, Send
  <2> QED
    BY <2>1, LoraFrame
<1>10. ASSUME NEW r \in Request, AbortTask(r) PROVE LoraInv'
  <2>1. LoraUntouched(0)
    BY <1>10, <1>0, OtherMessages, Kept, Appended
    DEF AbortTask, Abort, LoraUntouched, HoldsLock, Send
  <2> QED
    BY <2>1, LoraFrame
<1>11. ASSUME NEW r \in Request, ReleaseTask(r) PROVE LoraInv'
  <2>1. LoraUntouched(0)
    BY <1>11, <1>0, OtherMessages, Kept, CountFacts
    DEF ReleaseTask, LoraUntouched, HoldsLock, Send
  <2> QED
    BY <2>1, LoraFrame
<1>12. ASSUME NEW r \in Request, HandleBatchOutput(r) PROVE LoraInv'
  <2>1. LoraUntouched(0)
    BY <1>12, <1>0, OtherMessages, Kept
    DEF HandleBatchOutput, LoraUntouched, HoldsLock, Send
  <2> QED
    BY <2>1, LoraFrame
<1>13. ASSUME NEW r \in Request, HandleAbortReq(r) PROVE LoraInv'
  <2>1. LoraUntouched(0)
    BY <1>13, <1>0, OtherMessages, Kept
    DEF HandleAbortReq, LoraUntouched, HoldsLock, Send
  <2> QED
    BY <2>1, LoraFrame
<1>14. ASSUME NEW r \in Request, SchedulerRun(r) PROVE LoraInv'
  <2>1. LoraUntouched(0)
    BY <1>14, <1>0, OtherMessages, Kept
    DEF SchedulerRun, LoraUntouched, HoldsLock, Send
  <2> QED
    BY <2>1, LoraFrame
<1>15. ASSUME NEW r \in Request, SchedulerReject(r) PROVE LoraInv'
  <2>1. LoraUntouched(0)
    BY <1>15, <1>0, OtherMessages, Kept
    DEF SchedulerReject, Reply, IsLora, LoraUntouched, HoldsLock, Send
  <2> QED
    BY <2>1, LoraFrame
<1>16. ASSUME NEW r \in Request, SchedulerFinish(r) PROVE LoraInv'
  <2>1. LoraUntouched(0)
    BY <1>16, <1>0, OtherMessages, Kept
    DEF SchedulerFinish, Reply, IsLora, LoraUntouched, HoldsLock, Send
  <2> QED
    BY <2>1, LoraFrame
<1>17. ASSUME CallLora PROVE LoraInv'
  <2>1. LoraUntouched(0)
    BY <1>17, <1>0, OtherMessages, Kept
    DEF CallLora, LoraUntouched, HoldsLock, Send
  <2> QED
    BY <2>1, LoraFrame
<1>18. ASSUME AbortLoop PROVE LoraInv'
  <2>1. LoraUntouched(0)
    BY <1>18, <1>0, OtherMessages, Appended
    DEF AbortLoop, LoraUntouched, HoldsLock, Send
  <2> QED
    BY <2>1, LoraFrame
<1>19. ASSUME AcquireWriter PROVE LoraInv'
  <2>1. LoraUntouched(0)
    BY <1>19, <1>0, OtherMessages, Appended
    DEF AcquireWriter, LoraUntouched, HoldsLock, Send
  <2> QED
    BY <2>1, LoraFrame
<1>20. ASSUME UpdateAnswered PROVE LoraInv'
  <2>1. LoraUntouched(0)
    BY <1>20, <1>0, OtherMessages, Kept
    DEF UpdateAnswered, LoraUntouched, HoldsLock, Send
  <2> QED
    BY <2>1, LoraFrame
<1>21. ASSUME PauseGeneration PROVE LoraInv'
  <2>1. LoraUntouched(0)
    BY <1>21, <1>0, OtherMessages, Kept, Appended
    DEF PauseGeneration, LoraUntouched, HoldsLock, Send
  <2> QED
    BY <2>1, LoraFrame
<1>22. ASSUME ContinueGeneration PROVE LoraInv'
  <2>1. LoraUntouched(0)
    BY <1>22, <1>0, OtherMessages, Appended
    DEF ContinueGeneration, LoraUntouched, HoldsLock, Send
  <2> QED
    BY <2>1, LoraFrame
<1>23. ASSUME UpdateWeights PROVE LoraInv'
  <2>1. PICK s \in {to_scheduler, Append(to_scheduler, AbortAll)} :
          /\ s \in Seq(Message)
          /\ to_scheduler' \in {s, Append(s, Update)}
    BY <1>23, UpdateWeightsSends
  <2>2. /\ to_scheduler \in Seq(Message) /\ ~IsLora(AbortAll) /\ ~IsLora(Update)
        /\ AbortAll \in Message /\ Update \in Message
    BY OtherMessages, MessageTypes DEF TypeInv, TypeOK
  <2>3. \A i \in DOMAIN s : IsLora(s[i]) => i \in DOMAIN to_scheduler /\ s[i] = to_scheduler[i]
    BY <2>1, <2>2
  <2>4. \A i \in DOMAIN to_scheduler' :
            IsLora(to_scheduler'[i]) => i \in DOMAIN s /\ to_scheduler'[i] = s[i]
    BY <2>1, <2>2
  <2>5. /\ \A i \in DOMAIN to_scheduler' : IsLora(to_scheduler'[i]) =>
               i + 0 \in DOMAIN to_scheduler /\ to_scheduler'[i] = to_scheduler[i + 0]
        /\ DOMAIN to_scheduler' \subseteq Nat
    BY <2>1, <2>2, <2>3, <2>4
  <2>6. LoraUntouched(0)
    BY <1>23, <1>0, <2>5 DEF UpdateWeights, LoraUntouched, HoldsLock
  <2> QED
    BY <2>6, LoraFrame
<1>24. ASSUME NEW t \in Task, StartLoad(t) PROVE LoraInv'
  <2>1. /\ lora_update_lock = Nobody /\ lora_update_lock' = t /\ target' = <<Name(t), loads + 1>>
        /\ pc' = [pc EXCEPT ![t] = "loading"] /\ UNCHANGED <<lora, loaded, from_scheduler>>
        /\ to_scheduler' = Append(to_scheduler, [type |-> "load", of |-> target'])
        /\ loads' = loads + 1 /\ loads \in Nat
    BY <1>24 DEF StartLoad, Send, TypeInv, TypeOK
  <2>2. OneHolder' /\ Phase = "free" /\ Phase' = "loading"
    BY <1>0, <2>1, FrontEndAssumption DEF LoraInv, OneHolder, HoldsLock, Phase
  <2>3. Backed(lora)'
    BY <2>1 DEF LoraInv, Backed, TypeInv, TypeOK, Id
  <2>4. target' \notin loaded \cup DOMAIN lora.counters
    BY <2>1 DEF LoraInv, Backed
  <2>5. TargetPlaced'
    BY <2>1, <2>2, <2>4 DEF TargetPlaced, LoraInv, Backed
  <2>6. OneLoraMessage'
    <3>1. NoLoraMessage(ToSet(to_scheduler)) /\ NoLoraMessage(from_scheduler)
      BY <2>2 DEF LoraInv, OneLoraMessage, NoLoraMessage, IsLora, ToSet
    <3>2. \A i \in DOMAIN to_scheduler' : IsLora(to_scheduler'[i]) =>
              i = Len(to_scheduler) + 1 /\ to_scheduler'[i] = [type |-> "load", of |-> target']
      BY <2>1, <3>1 DEF NoLoraMessage, ToSet, TypeInv, TypeOK
    <3> QED
      BY <2>1, <2>2, <3>1, <3>2 DEF NoLoraMessage, OneLoraMessage
  <2> QED
    BY <2>2, <2>3, <2>5, <2>6 DEF LoraInv
<1>25. ASSUME NEW t \in Task, WaitForUnload(t) PROVE LoraInv'
  <2>1. /\ lora_update_lock = t /\ pc[t] = "draining"
        /\ pc' = [pc EXCEPT ![t] = "unloading"] /\ lora' = DropCounter(lora, target)
        /\ UNCHANGED <<lora_update_lock, target, loads, loaded, from_scheduler>>
        /\ to_scheduler' = Append(to_scheduler, [type |-> "unload", of |-> target])
    BY <1>25 DEF WaitForUnload, Send, LoraInv, OneHolder, HoldsLock
  <2>2. OneHolder' /\ Phase = "draining" /\ Phase' = "unloading"
    BY <1>0, <2>1, FrontEndAssumption DEF LoraInv, OneHolder, HoldsLock, Phase
  <2>3. /\ lora'.registry = lora.registry
        /\ DOMAIN lora'.counters = DOMAIN lora.counters \ {target}
    BY <1>0, <2>1, DropCounterFacts
  <2>4. TargetPlaced' /\ Backed(lora)'
    BY <2>1, <2>2, <2>3 DEF TargetPlaced, LoraInv, Backed
  <2>5. OneLoraMessage'
    <3>1. NoLoraMessage(ToSet(to_scheduler)) /\ NoLoraMessage(from_scheduler)
      BY <2>2 DEF LoraInv, OneLoraMessage, NoLoraMessage, IsLora, ToSet
    <3>2. \A i \in DOMAIN to_scheduler' : IsLora(to_scheduler'[i]) =>
              i = Len(to_scheduler) + 1 /\ to_scheduler'[i] = [type |-> "unload", of |-> target]
      BY <2>1, <3>1 DEF NoLoraMessage, ToSet, TypeInv, TypeOK
    <3> QED
      BY <2>1, <2>2, <3>1, <3>2 DEF NoLoraMessage, OneLoraMessage
  <2> QED
    BY <2>2, <2>4, <2>5 DEF LoraInv
<1>26. ASSUME NEW t \in Task, NEW ok \in BOOLEAN, LoadAnswered(t, ok) PROVE LoraInv'
  <2> DEFINE L == IF ok THEN Register(lora, target) ELSE lora
             msg == [type |-> "load", of |-> target, ok |-> ok]
  <2>1. /\ pc[t] = "loading" /\ msg \in from_scheduler
        /\ from_scheduler' = from_scheduler \ {msg} /\ EvictOrEnd(t, L)
        /\ UNCHANGED <<setup, loads, loaded>>
    BY <1>26 DEF LoadAnswered
  <2>2. lora_update_lock = t /\ Phase = "loading" /\ target \in Id
    BY <2>1, FrontEndAssumption DEF LoraInv, OneHolder, HoldsLock, Phase, TypeInv
  <2>3. NoLoraMessage(from_scheduler') /\ NoLoraMessage(ToSet(to_scheduler)) /\ (ok => target \in loaded)
    BY <2>1 DEF LoraInv, OneLoraMessage, NoLoraMessage, IsLora, ToSet
  <2>4. L \in LoraState /\ Backed(L)
    <3>1. CASE ok
      <4>1. /\ Register(lora, target) \in LoraState
            /\ Register(lora, target).registry = Append(lora.registry, target)
            /\ DOMAIN Register(lora, target).counters = DOMAIN lora.counters \cup {target}
        BY <1>0, <2>2, RegisterFacts
      <4>2. /\ ToSet(Append(lora.registry, target)) = ToSet(lora.registry) \cup {target}
            /\ Distinct(Append(lora.registry, target))
        BY <1>0, <2>2, AppendFacts DEF LoraInv, TargetPlaced, LoraState
      <4> QED
        BY <3>1, <2>3, <4>1, <4>2 DEF LoraInv, Backed
    <3>2. CASE ~ok
      BY <1>0, <3>2 DEF LoraInv
    <3> QED
      BY <3>1, <3>2
  <2> HIDE DEF L
  <2> QED
    BY <2>1, <2>2, <2>3, <2>4, EvictOrEndKeeps
<1>27. ASSUME NEW t \in Task, UnloadAnswered(t) PROVE LoraInv'
  <2> DEFINE msg == [type |-> "unload", of |-> target]
  <2>1. /\ pc[t] = "unloading" /\ msg \in from_scheduler
        /\ from_scheduler' = from_scheduler \ {msg}
        /\ EvictOrEnd(t, lora) \/ EndLora(t, lora)
        /\ UNCHANGED <<setup, loads, loaded>>
    BY <1>27 DEF UnloadAnswered
  <2>2. lora_update_lock = t /\ Backed(lora)
    BY <2>1 DEF LoraInv, OneHolder, HoldsLock
  <2>3. NoLoraMessage(from_scheduler') /\ NoLoraMessage(ToSet(to_scheduler))
    BY <2>1 DEF LoraInv, OneLoraMessage, NoLoraMessage, IsLora, ToSet
  <2> QED
    BY <1>0, <2>1, <2>2, <2>3, EvictOrEndKeeps, EndLoraKeeps
<1>28. ASSUME Unload PROVE LoraInv'
  <2>1. /\ lora_update_lock = Nobody /\ UNCHANGED <<setup, loads, loaded, from_scheduler>>
        /\ Phase = "free" /\ Backed(lora)
    BY <1>28 DEF Unload, Phase, LoraInv
  <2>2. NoLoraMessage(from_scheduler') /\ NoLoraMessage(ToSet(to_scheduler))
    BY <2>1 DEF LoraInv, OneLoraMessage, NoLoraMessage, IsLora, ToSet
  <2>3. CASE Registered(lora, Name(Operator))
    <3>1. /\ IdOf(lora, Name(Operator)) \in ToSet(lora.registry) /\ lora_update_lock' = Operator
          /\ Unregister(Operator, lora, IdOf(lora, Name(Operator)))
      BY <1>28, <1>0, <2>3, IdOfFacts DEF Unload
    <3> QED
      BY <1>0, <2>1, <2>2, <3>1, UnregisterKeeps
  <2>4. CASE ~Registered(lora, Name(Operator))
    <3>1. EndLora(Operator, lora)
      BY <1>28, <2>4 DEF Unload
    <3> QED
      BY <1>0, <2>1, <2>2, <3>1, EndLoraKeeps
  <2> QED
    BY <2>3, <2>4
<1>29. ASSUME SchedulerReceive PROVE LoraInv'
  <2> DEFINE msg == Head(to_scheduler)
  <2>1. /\ to_scheduler \in Seq(Message) /\ to_scheduler # <<>> /\ msg = to_scheduler[1]
        /\ UNCHANGED <<setup, pc, lora, loads, lora_update_lock, target>>
        /\ 1 \in DOMAIN to_scheduler
    BY <1>29 DEF SchedulerReceive, TypeInv, TypeOK
  <2>2. /\ \A i \in DOMAIN to_scheduler' :
               i + 1 \in DOMAIN to_scheduler /\ to_scheduler'[i] = to_scheduler[i + 1]
        /\ DOMAIN to_scheduler' \subseteq Nat \ {0}
    <3>1. to_scheduler' = Tail(to_scheduler)
      BY <1>29 DEF SchedulerReceive
    <3> QED
      BY <2>1, <3>1
  <2>3. OneHolder' /\ Phase' = Phase
    BY <2>1 DEF LoraInv, OneHolder, HoldsLock, Phase
  <2>4. CASE ~IsLora(msg)
    <3>1. loaded' = loaded
      BY <1>29, <2>4 DEF SchedulerReceive, IsLora
    <3>2. \A m \in from_scheduler' : IsLora(m) => m \in from_scheduler
      BY <1>29, <2>4 DEF SchedulerReceive, Reply, IsLora
    <3>3. LoraUntouched(1)
      BY <1>0, <2>1, <2>2, <3>1, <3>2 DEF LoraUntouched, HoldsLock
    <3> QED
      BY <3>3, LoraFrame
  <2>5. ASSUME IsLora(msg)
        PROVE  /\ msg.of = target /\ (msg.type = "load" => Phase = "loading")
               /\ (msg.type = "unload" => Phase = "unloading") /\ NoLoraMessage(from_scheduler)
               /\ msg.type # "load_error"
               /\ \A i \in DOMAIN to_scheduler' : ~IsLora(to_scheduler'[i])
    <3>1. msg.type # "load_error"
      BY <2>1 DEF Message, AbortAll, Update
    <3> QED
      BY <2>1, <2>2, <2>5, <3>1 DEF LoraInv, OneLoraMessage, NoLoraMessage
  <2>6. CASE msg.type = "load"
    <3> DEFINE ok  == \A id \in loaded : id[1] # msg.of[1]
               ans == [type |-> "load", of |-> msg.of, ok |-> ok]
               err == [type |-> "load_error", of |-> msg.of]
    <3>1. \/ /\ loaded' = (IF ok THEN loaded \cup {msg.of} ELSE loaded)
             /\ from_scheduler' = from_scheduler \cup {ans}
          \/ loaded' = loaded /\ from_scheduler' = from_scheduler \cup {err}
      BY <1>29, <2>6 DEF SchedulerReceive, Reply
    <3>2. IsLora(msg) /\ target \in Id
      BY <2>6, <2>5 DEF IsLora, LoraInv, OneHolder, HoldsLock, Phase, TypeInv, TypeOK
    <3>3. /\ msg.of = target /\ Phase = "loading" /\ NoLoraMessage(from_scheduler)
          /\ \A i \in DOMAIN to_scheduler' : ~IsLora(to_scheduler'[i])
      BY <2>5, <2>6, <3>2
    <3>4. target[2] <= loads'
      BY <2>1, <3>3 DEF LoraInv, TargetPlaced
    <3>5. Backed(lora)'
      BY <2>1, <3>1, <3>3, <3>4 DEF LoraInv, Backed
    <3>6. PICK reply \in {ans, err} :
             /\ from_scheduler' = from_scheduler \cup {reply}
             /\ reply.type = "load" => (reply.ok => target \in loaded')
      <4>1. (ok => loaded' = loaded \cup {msg.of}) => (ans.ok => target \in loaded')
        BY <3>3
      <4>2. err.type # "load"
        OBVIOUS
      <4> QED
        BY <3>1, <4>1, <4>2
    <3>7. reply.of = target /\ reply.type \in {"load", "load_error"}
      BY <3>3
    <3> HIDE DEF ans, err, ok, msg
    <3>8. OneLoraMessage'
      BY <2>1, <2>3, <3>3, <3>6, <3>7 DEF NoLoraMessage, OneLoraMessage
    <3>9. TargetPlaced'
      BY <2>1, <2>3 DEF LoraInv, TargetPlaced
    <3> QED
      BY <2>3, <3>5, <3>8, <3>9 DEF LoraInv
  <2>7. CASE msg.type = "unload"
    <3>1. loaded' = loaded \ {msg.of} /\ from_scheduler' = from_scheduler \cup {msg}
      BY <1>29, <2>7 DEF SchedulerReceive, Reply
    <3>2. /\ msg.of = target /\ Phase = "unloading" /\ NoLoraMessage(from_scheduler)
          /\ \A i \in DOMAIN to_scheduler' : ~IsLora(to_scheduler'[i])
      BY <2>5, <2>7 DEF IsLora
    <3>3. Backed(lora)' /\ TargetPlaced'
      BY <2>1, <2>3, <3>1, <3>2 DEF LoraInv, Backed, TargetPlaced
    <3> HIDE DEF msg
    <3>4. OneLoraMessage'
      BY <2>1, <2>3, <2>7, <3>1, <3>2 DEF NoLoraMessage, OneLoraMessage
    <3> QED
      BY <2>3, <3>3, <3>4 DEF LoraInv
  <2> QED
    BY <2>4, <2>5, <2>6, <2>7 DEF IsLora
<1>30. ASSUME UNCHANGED vars PROVE LoraInv'
  <2>1. LoraUntouched(0)
    BY <1>30, <1>0, Kept DEF LoraUntouched, HoldsLock, vars
  <2> QED
    BY <2>1, LoraFrame
<1>31. ASSUME NEW t \in Task, LoadFailed(t) PROVE LoraInv'
  <2> DEFINE msg == [type |-> "load_error", of |-> target]
  <2>1. /\ pc[t] = "loading" /\ msg \in from_scheduler /\ from_scheduler' = from_scheduler \ {msg}
        /\ lora_update_lock' = Nobody
        /\ UNCHANGED <<loads, loaded, lora, target, to_scheduler>>
        /\ \E p \in {"new", "done"} : pc' = [pc EXCEPT ![t] = p]
    BY <1>31 DEF LoadFailed, Fail
  <2>2. NoLoraMessage(from_scheduler') /\ NoLoraMessage(ToSet(to_scheduler))
    BY <2>1 DEF LoraInv, OneLoraMessage, NoLoraMessage, IsLora, ToSet
  <2>3. lora_update_lock = t
    BY <2>1 DEF LoraInv, OneHolder, HoldsLock
  <2>4. OneHolder' /\ Phase' = "free"
    BY <1>0, <2>1, <2>3, FrontEndAssumption DEF OneHolder, LoraInv, Phase, HoldsLock
  <2>5. TargetPlaced' /\ Backed(lora)'
    BY <2>1, <2>4 DEF LoraInv, TargetPlaced, Backed
  <2> QED
    BY <2>1, <2>2, <2>4, <2>5 DEF LoraInv, OneLoraMessage, NoLoraMessage, ToSet
<1> QED
  BY <1>1, <1>2, <1>3, <1>4, <1>5, <1>6, <1>7, <1>8, <1>9, <1>10, <1>11, <1>12, <1>13, <1>14,
     <1>15, <1>16, <1>17, <1>18, <1>19, <1>20, <1>21, <1>22, <1>23, <1>24, <1>25, <1>26, <1>27,
     <1>28, <1>29, <1>30, <1>31
  DEF Next, RequestStep, LoraStep, SchedulerStep, ControlStep, ClientStep, OperatorStep

(* The registry names only adapters the backend has, one id per name, and  *)
(* each has its counter, however loads, unloads, evictions and failed      *)
(* loads of the operator and of requests interleave.                       *)
THEOREM RegistryBackedAlways == Spec => []RegistryBacked
<1>1. TypeInv /\ LoraInv => RegistryBacked
  BY BackedNames DEF LoraInv
<1> QED
  BY <1>1, InitTypes, TypeStep, InitLora, LoraStepKeeps, PTL DEF Spec

-----------------------------------------------------------------------------
(* Requests sent one by one and not ended by an output with status 500 or  *)
(* 503: the usage counters are not decremented behind a request's back.    *)
CountsKept == setup.batch = {} /\ "error" \notin setup.outcomes

InFlight(r) == InScheduler(r) \/ Answered(r)

(* The request has raised its adapter's counter and not lowered it. *)
Holding(r) ==
    /\ setup.lora[r] # NoLora
    /\ \/ pc[r] = "tokenize" \/ InFlight(r) \/ r \in releases
       \/ pc[r] = "waiting" /\ out[r] = "rejected"

Holders(id) == {r \in Request : Holding(r) /\ lora_id[r] = id}

(* A counter is lowered once for a request: by the release task of an      *)
(* output, or by the response to a rejection.                              *)
ReleasesOnce ==
    /\ \A r \in Request : pc[r] # "incrementing" /\ out[r] # "error"
    /\ \A r \in releases : out[r] \notin {"none", "rejected"} /\ setup.lora[r] # NoLora
    /\ \A msg \in from_scheduler :
           /\ msg.type = "output" => msg.outcome \notin {"none", "error", "rejected"}
           /\ msg.type = "abort" => msg.outcome # "error"

(* Each counter of L is at least the number of its adapter's holders, and  *)
(* what is held is loaded and counted.                                     *)
Counted(L) ==
    /\ \A id \in DOMAIN L.counters : Cardinality(Holders(id)) <= L.counters[id]
    /\ \A r \in Request : Holding(r) => lora_id[r] \in loaded \cap DOMAIN L.counters

CountInv == CountsKept => ReleasesOnce /\ Counted(lora)

LEMMA InitCounts == Init => CountInv
<1> SUFFICES ASSUME Init PROVE ReleasesOnce /\ Counted(lora)
  BY DEF CountInv
<1>1. \A r \in Request : ~Holding(r) /\ pc[r] = "new" /\ out[r] = "none"
  BY DEF Init, Holding, InFlight, InScheduler, Answered, Contains, Task
<1>2. \A id : Holders(id) = {}
  BY <1>1 DEF Holders
<1>3. ReleasesOnce
  BY <1>1 DEF Init, ReleasesOnce
<1>4. \A id \in DOMAIN lora.counters : lora.counters[id] = 0
  BY DEF Init
<1>5. \A id : Cardinality(Holders(id)) = 0
  BY <1>2, FS_EmptySet
<1> QED
  BY <1>1, <1>3, <1>4, <1>5 DEF Counted

-----------------------------------------------------------------------------
(* Only sending a request puts it in flight. *)
LEMMA FlightFrame ==
    ASSUME NEW q \in Request, q \in queued' \cup running' => q \in queued \cup running,
           \A i \in 1..Len(to_scheduler') : to_scheduler'[i] = Generate(q) =>
               \E j \in 1..Len(to_scheduler) : to_scheduler[j] = Generate(q),
           \A msg \in from_scheduler' : IsAnswer(msg, q) => msg \in from_scheduler
    PROVE  InFlight(q)' => InFlight(q)
<1>1. Contains(to_scheduler, Generate(q))' => Contains(to_scheduler, Generate(q))
  BY DEF Contains, Generate
<1>2. Answered(q)' => Answered(q)
  BY DEF Answered, IsAnswer
<1> QED
  BY <1>1, <1>2 DEF InFlight, InScheduler, Generate

LEMMA FlightAppended ==
    ASSUME TypeInv, NEW msg, to_scheduler' = Append(to_scheduler, msg), NEW q, Generate(q) # msg
    PROVE  \A i \in 1..Len(to_scheduler') : to_scheduler'[i] = Generate(q) =>
               \E j \in 1..Len(to_scheduler) : to_scheduler[j] = Generate(q)
BY DEF TypeInv, TypeOK

LEMMA InFlightStep ==
    ASSUME TypeInv, [Next]_vars, NEW q \in Request
    PROVE  InFlight(q)' => InFlight(q) \/ pc[q] = "tokenize"
<1> SUFFICES ASSUME InFlight(q)', pc[q] # "tokenize" PROVE InFlight(q)
  OBVIOUS
<1>1. ASSUME NEW r \in Request, GenerateRequest(r) PROVE InFlight(q)
  BY <1>1, FlightFrame DEF GenerateRequest
<1>2. ASSUME NEW r \in Request, PassPause(r) PROVE InFlight(q)
  BY <1>2, FlightFrame DEF PassPause
<1>3. ASSUME NEW r \in Request, AcquireReader(r) PROVE InFlight(q)
  BY <1>3, FlightFrame DEF AcquireReader
<1>4. ASSUME NEW r \in Request, Increment(r) PROVE InFlight(q)
  BY <1>4, FlightFrame DEF Increment
<1>5. ASSUME NEW r \in Request, TokenizeFails(r) PROVE InFlight(q)
  BY <1>5, FlightFrame DEF TokenizeFails
<1>6. ASSUME NEW r \in Request, Respond(r) PROVE InFlight(q)
  BY <1>6, FlightFrame DEF Respond
<1>7. ASSUME NEW r \in Request, CancelStream(r) PROVE InFlight(q)
  BY <1>7, FlightFrame DEF CancelStream
<1>8. ASSUME NEW r \in Request, ReleaseTask(r) PROVE InFlight(q)
  BY <1>8, FlightFrame DEF ReleaseTask
<1>9. ASSUME NEW r \in Request, HandleBatchOutput(r) PROVE InFlight(q)
  BY <1>9, FlightFrame DEF HandleBatchOutput
<1>10. ASSUME NEW r \in Request, HandleAbortReq(r) PROVE InFlight(q)
  BY <1>10, FlightFrame DEF HandleAbortReq
<1>11. ASSUME NEW r \in Request, SchedulerRun(r) PROVE InFlight(q)
  BY <1>11, FlightFrame DEF SchedulerRun
<1>12. ASSUME NEW r \in Request, Disconnect(r) PROVE InFlight(q)
  BY <1>12, FlightFrame, FlightAppended, GenerateFacts DEF Disconnect, Abort, Send
<1>13. ASSUME NEW r \in Request, AbortTask(r) PROVE InFlight(q)
  BY <1>13, FlightFrame, FlightAppended, GenerateFacts DEF AbortTask, Abort, Send
<1>14. ASSUME NEW r \in Request, TokenizeAndSend(r) PROVE InFlight(q)
  <2>1. CASE q = r
    BY <1>14, <2>1 DEF TokenizeAndSend
  <2>2. CASE q # r
    <3>1. to_scheduler' = Append(to_scheduler, Generate(r)) /\ Generate(q) # Generate(r)
      BY <1>14, <2>2, GenerateFacts DEF TokenizeAndSend, Send, Generate
    <3> QED
      BY <1>14, <3>1, FlightFrame, FlightAppended DEF TokenizeAndSend
  <2> QED
    BY <2>1, <2>2
<1>15. ASSUME NEW r \in Request, SchedulerReject(r) PROVE InFlight(q)
  <2>1. CASE q = r
    BY <1>15, <2>1 DEF SchedulerReject, InFlight, InScheduler
  <2>2. CASE q # r
    BY <1>15, <2>2, FlightFrame DEF SchedulerReject, Reply, IsAnswer
  <2> QED
    BY <2>1, <2>2
<1>16. ASSUME NEW r \in Request, SchedulerFinish(r) PROVE InFlight(q)
  <2>1. CASE q = r
    BY <1>16, <2>1 DEF SchedulerFinish, InFlight, InScheduler
  <2>2. CASE q # r
    BY <1>16, <2>2, FlightFrame DEF SchedulerFinish, Reply, IsAnswer
  <2> QED
    BY <2>1, <2>2
<1>17. ASSUME CallLora PROVE InFlight(q)
  BY <1>17, FlightFrame DEF CallLora
<1>18. ASSUME UpdateAnswered PROVE InFlight(q)
  BY <1>18, FlightFrame DEF UpdateAnswered
<1>19. ASSUME AbortLoop PROVE InFlight(q)
  BY <1>19, FlightFrame, FlightAppended, GenerateFacts DEF AbortLoop, Send
<1>20. ASSUME AcquireWriter PROVE InFlight(q)
  BY <1>20, FlightFrame, FlightAppended, GenerateFacts DEF AcquireWriter, Send
<1>21. ASSUME PauseGeneration PROVE InFlight(q)
  BY <1>21, FlightFrame, FlightAppended, GenerateFacts DEF PauseGeneration, Send
<1>22. ASSUME ContinueGeneration PROVE InFlight(q)
  BY <1>22, FlightFrame, FlightAppended, GenerateFacts DEF ContinueGeneration, Send
<1>23. ASSUME UpdateWeights PROVE InFlight(q)
  <2>1. PICK s \in {to_scheduler, Append(to_scheduler, AbortAll)} :
          s \in Seq(Message) /\ to_scheduler' \in {s, Append(s, Update)}
    BY <1>23, UpdateWeightsSends
  <2>2. /\ to_scheduler \in Seq(Message) /\ Generate(q) # AbortAll /\ Generate(q) # Update
    BY GenerateFacts DEF TypeInv, TypeOK
  <2>3. \A i \in 1..Len(s) : s[i] = Generate(q) =>
            \E j \in 1..Len(to_scheduler) : to_scheduler[j] = Generate(q)
    BY <2>1, <2>2
  <2>4. \A i \in 1..Len(to_scheduler') : to_scheduler'[i] = Generate(q) =>
            \E j \in 1..Len(s) : s[j] = Generate(q)
    BY <2>1, <2>2
  <2> QED
    BY <1>23, <2>3, <2>4, FlightFrame DEF UpdateWeights
<1>24. ASSUME NEW t \in Task, StartLoad(t) PROVE InFlight(q)
  BY <1>24, FlightFrame, FlightAppended, GenerateFacts DEF StartLoad, Send
<1>25. ASSUME NEW t \in Task, WaitForUnload(t) PROVE InFlight(q)
  BY <1>25, FlightFrame, FlightAppended, GenerateFacts DEF WaitForUnload, Send
<1>26. ASSUME NEW t \in Task, NEW ok \in BOOLEAN, LoadAnswered(t, ok) PROVE InFlight(q)
  BY <1>26, FlightFrame, FlightAppended, GenerateFacts
  DEF LoadAnswered, EvictOrEnd, EndLora, Unregister, Send
<1>27. ASSUME NEW t \in Task, UnloadAnswered(t) PROVE InFlight(q)
  BY <1>27, FlightFrame, FlightAppended, GenerateFacts
  DEF UnloadAnswered, EvictOrEnd, EndLora, Unregister, Send
<1>28. ASSUME Unload PROVE InFlight(q)
  BY <1>28, FlightFrame, FlightAppended, GenerateFacts DEF Unload, EndLora, Unregister, Send
<1>29. ASSUME SchedulerReceive PROVE InFlight(q)
  <2> DEFINE msg == Head(to_scheduler)
  <2>1. /\ to_scheduler \in Seq(Message) /\ to_scheduler # <<>> /\ msg = to_scheduler[1]
        /\ 1 \in 1..Len(to_scheduler) /\ msg \in Message /\ to_scheduler' = Tail(to_scheduler)
    BY <1>29 DEF SchedulerReceive, TypeInv, TypeOK
  <2>2. \A i \in 1..Len(to_scheduler') : to_scheduler'[i] = Generate(q) =>
            \E j \in 1..Len(to_scheduler) : to_scheduler[j] = Generate(q)
    BY <2>1
  <2>3. CASE msg.type = "generate"
    <3>1. queued' = queued \cup {msg.of} /\ UNCHANGED <<running, from_scheduler>>
      BY <1>29, <2>3 DEF SchedulerReceive
    <3>2. CASE msg.of = q
      BY <2>1, <2>3, <3>2 DEF Message, InFlight, InScheduler, Contains
    <3>3. CASE msg.of # q
      BY <2>2, <3>1, <3>3, FlightFrame
    <3> QED
      BY <3>2, <3>3
  <2>4. CASE msg.type \in {"abort", "abort_all"}
    <3> DEFINE hit == IF msg.type = "abort" THEN {msg.of} ELSE Request
    <3>1. /\ queued' = queued \ hit /\ running' = running
          /\ from_scheduler' = from_scheduler \cup
                 {[type |-> "abort", of |-> r, outcome |-> "aborted"] : r \in hit \cap queued}
      BY <1>29, <2>4 DEF SchedulerReceive, Reply
    <3> HIDE DEF hit, msg
    <3>2. CASE q \in queued
      BY <3>2 DEF InFlight, InScheduler
    <3>3. CASE q \notin queued
      <4>1. \A m \in from_scheduler' : IsAnswer(m, q) => m \in from_scheduler
        BY <3>1, <3>3 DEF IsAnswer
      <4> QED
        BY <2>2, <3>1, <4>1, FlightFrame
    <3> QED
      BY <3>2, <3>3
  <2>5. CASE msg.type = "pause"
    BY <1>29, <2>2, <2>5, FlightFrame DEF SchedulerReceive
  <2>6. CASE msg.type \in {"load", "unload", "update", "continue"}
    <3>1. /\ UNCHANGED <<queued, running>>
          /\ \A m \in from_scheduler' : IsAnswer(m, q) => m \in from_scheduler
      BY <1>29, <2>6 DEF SchedulerReceive, Reply, IsAnswer
    <3> QED
      BY <2>2, <3>1, FlightFrame
  <2> QED
    BY <1>29, <2>3, <2>4, <2>5, <2>6 DEF SchedulerReceive
<1>30. ASSUME UNCHANGED vars PROVE InFlight(q)
  BY <1>30, FlightFrame DEF vars
<1>31. ASSUME NEW t \in Task, LoadFailed(t) PROVE InFlight(q)
  BY <1>31, FlightFrame DEF LoadFailed
<1> QED
  BY <1>1, <1>2, <1>3, <1>4, <1>5, <1>6, <1>7, <1>8, <1>9, <1>10, <1>11, <1>12, <1>13, <1>14,
     <1>15, <1>16, <1>17, <1>18, <1>19, <1>20, <1>21, <1>22, <1>23, <1>24, <1>25, <1>26, <1>27, <1>28,
     <1>29, <1>30, <1>31
  DEF Next, RequestStep, LoraStep, SchedulerStep, ControlStep, ClientStep, OperatorStep

-----------------------------------------------------------------------------
(* Counting holders. *)
LEMMA HoldersFinite ==
    ASSUME NEW id
    PROVE  IsFiniteSet(Holders(id)) /\ Cardinality(Holders(id)) \in Nat
BY FrontEndAssumption, FS_Subset, FS_CardinalityType DEF Holders

LEMMA HoldersFinitePrimed ==
    ASSUME NEW id
    PROVE  IsFiniteSet(Holders(id)') /\ Cardinality(Holders(id)') \in Nat
<1>1. Holders(id)' \subseteq Request
  BY DEF Holders
<1> QED
  BY <1>1, FrontEndAssumption, FS_Subset, FS_CardinalityType

(* Holders may leave; who stays finds its adapter. *)
LEMMA HoldersShrink ==
    ASSUME NEW L \in LoraState, Counted(L),
           \A q \in Request : Holding(q)' => Holding(q) /\ lora_id'[q] = lora_id[q],
           \A id \in DOMAIN lora'.counters :
               id \in DOMAIN L.counters /\ lora'.counters[id] = L.counters[id],
           \A q \in Request : Holding(q)' => lora_id'[q] \in loaded' \cap DOMAIN lora'.counters
    PROVE  Counted(lora)'
<1> SUFFICES ASSUME NEW id \in DOMAIN lora'.counters
             PROVE  Cardinality(Holders(id)') <= lora'.counters[id]
  BY DEF Counted
<1>1. Holders(id)' \subseteq Holders(id)
  BY DEF Holders
<1>2. Cardinality(Holders(id)') <= Cardinality(Holders(id))
  BY <1>1, HoldersFinite, FS_Subset
<1>3. /\ Cardinality(Holders(id)) <= L.counters[id] /\ lora'.counters[id] = L.counters[id]
      /\ L.counters[id] \in Int
  BY DEF Counted, LoraState
<1> QED
  BY <1>2, <1>3, HoldersFinite, HoldersFinitePrimed

LEMMA OneHolderMore ==
    ASSUME NEW L \in LoraState, Counted(L), NEW r \in Request, NEW id \in loaded \cap DOMAIN L.counters,
           \A q \in Request : q # r /\ Holding(q)' => Holding(q) /\ lora_id'[q] = lora_id[q],
           lora_id'[r] = id, loaded' = loaded, DOMAIN lora'.counters = DOMAIN L.counters,
           \A x \in DOMAIN L.counters :
               lora'.counters[x] = L.counters[x] + IF x = id THEN 1 ELSE 0
    PROVE  Counted(lora)'
<1>1. \A q \in Request : Holding(q)' => lora_id'[q] \in loaded' \cap DOMAIN lora'.counters
  BY DEF Counted
<1>2. ASSUME NEW x \in DOMAIN L.counters
      PROVE  Cardinality(Holders(x)') <= lora'.counters[x]
  <2>1. Cardinality(Holders(x)) <= L.counters[x] /\ L.counters[x] \in Int
    BY DEF Counted, LoraState
  <2>2. CASE x = id
    <3>1. Holders(x)' \subseteq Holders(x) \cup {r}
      BY DEF Holders
    <3>2. /\ IsFiniteSet(Holders(x) \cup {r})
          /\ Cardinality(Holders(x) \cup {r}) <= Cardinality(Holders(x)) + 1
      <4>1. IsFiniteSet(Holders(x)) /\ Cardinality(Holders(x)) \in Nat
        BY HoldersFinite
      <4>2. /\ IsFiniteSet(Holders(x) \cup {r})
            /\ Cardinality(Holders(x) \cup {r}) =
                   IF r \in Holders(x) THEN Cardinality(Holders(x)) ELSE Cardinality(Holders(x)) + 1
        BY <4>1, FS_AddElement
      <4> QED
        BY <4>1, <4>2
    <3>3. Cardinality(Holders(x)') <= Cardinality(Holders(x) \cup {r})
      BY <3>1, <3>2, FS_Subset
    <3>4. Cardinality(Holders(x) \cup {r}) \in Nat
      BY <3>2, FS_CardinalityType
    <3> QED
      BY <2>1, <2>2, <3>2, <3>3, <3>4, HoldersFinite, HoldersFinitePrimed
  <2>3. CASE x # id
    <3>1. Holders(x)' \subseteq Holders(x)
      BY <2>3 DEF Holders
    <3>2. Cardinality(Holders(x)') <= Cardinality(Holders(x))
      BY <3>1, HoldersFinite, FS_Subset
    <3> QED
      BY <2>1, <2>3, <3>2, HoldersFinite, HoldersFinitePrimed
  <2> QED
    BY <2>2, <2>3
<1> QED
  BY <1>1, <1>2 DEF Counted

LEMMA OneHolderLess ==
    ASSUME TypeInv, Counted(lora), NEW r \in Request, Holding(r), ~Holding(r)',
           \A q \in Request : Holding(q)' => Holding(q), lora_id' = lora_id, loaded' = loaded,
           lora' = Count(lora, lora_id[r], -1)
    PROVE  Counted(lora)'
<1>1. /\ DOMAIN lora'.counters = DOMAIN lora.counters
      /\ \A x \in DOMAIN lora.counters :
             /\ lora.counters[x] \in Int
             /\ lora'.counters[x] = lora.counters[x] + IF x = lora_id[r] THEN -1 ELSE 0
  BY CountFacts DEF TypeInv
<1>2. ASSUME NEW x \in DOMAIN lora.counters
      PROVE  Cardinality(Holders(x)') <= lora'.counters[x]
  <2>1. Cardinality(Holders(x)) <= lora.counters[x]
    BY DEF Counted
  <2>2. CASE x = lora_id[r]
    <3>1. Holders(x)' \subseteq Holders(x) \ {r} /\ r \in Holders(x)
      BY <2>2 DEF Holders
    <3>2. /\ IsFiniteSet(Holders(x) \ {r})
          /\ Cardinality(Holders(x) \ {r}) = Cardinality(Holders(x)) - 1
      BY <3>1, HoldersFinite, FS_RemoveElement
    <3>3. Cardinality(Holders(x)') <= Cardinality(Holders(x) \ {r})
      BY <3>1, <3>2, FS_Subset
    <3> QED
      BY <1>1, <2>1, <2>2, <3>2, <3>3, HoldersFinite, HoldersFinitePrimed
  <2>3. CASE x # lora_id[r]
    <3>1. Holders(x)' \subseteq Holders(x)
      BY DEF Holders
    <3>2. Cardinality(Holders(x)') <= Cardinality(Holders(x))
      BY <3>1, HoldersFinite, FS_Subset
    <3> QED
      BY <1>1, <2>1, <2>3, <3>2, HoldersFinite, HoldersFinitePrimed
  <2> QED
    BY <2>2, <2>3
<1>3. \A q \in Request : Holding(q)' => lora_id'[q] \in loaded' \cap DOMAIN lora'.counters
  BY <1>1 DEF Counted
<1> QED
  BY <1>1, <1>2, <1>3 DEF Counted

(* A request that acquires its adapter held none; it finds its counter. *)
LEMMA AcquireCounts ==
    ASSUME TypeInv, ReleasesOnce, FlowInv, CountsKept, NEW L \in LoraState, Backed(L), Counted(L),
           NEW r \in Request, Acquire(r, L), pc[r] \notin {"tokenize", "waiting", "done"},
           \A q \in Request : InFlight(q)' => InFlight(q) \/ pc[q] = "tokenize",
           UNCHANGED <<setup, out, releases, loaded>>
    PROVE  Counted(lora)'
<1>1. \A q \in Request : q # r => pc'[q] = pc[q] /\ lora_id'[q] = lora_id[q]
  BY DEF Acquire, Fail, TypeInv, TypeOK, Task
<1>2. \A q \in Request : q # r /\ Holding(q)' => Holding(q) /\ lora_id'[q] = lora_id[q]
  BY <1>1 DEF Holding
<1>3. CASE Registered(L, setup.lora[r])
  <2> DEFINE name == setup.lora[r]
             id == IdOf(L, name)
             found == LookUp(L, name)
  <2>1. /\ id \in ToSet(L.registry) /\ found \in LoraState /\ found.counters = L.counters
        /\ id \in loaded \cap DOMAIN L.counters
    BY <1>3, IdOfFacts, LookUpFacts DEF Backed
  <2>2. lora' = Count(found, id, 1) /\ lora_id'[r] = id
    BY <1>3 DEF Acquire, CountsKept, TypeInv, TypeOK
  <2> HIDE DEF id, found
  <2>3. /\ DOMAIN lora'.counters = DOMAIN L.counters
        /\ \A x \in DOMAIN L.counters :
               lora'.counters[x] = L.counters[x] + IF x = id THEN 1 ELSE 0
    BY <2>1, <2>2, CountFacts
  <2> QED
    BY <1>2, <2>1, <2>2, <2>3, OneHolderMore
<1>4. CASE ~Registered(L, setup.lora[r])
  <2>1. lora' = L /\ lora_id' = lora_id /\ pc'[r] = "done"
    BY <1>4 DEF Acquire, Fail, TypeInv, TypeOK, Task
  <2>2. ~InFlight(r) /\ out[r] = "none"
    BY DEF FlowInv, Placed, InFlight
  <2>3. ~Holding(r)'
    BY <2>1, <2>2 DEF Holding, ReleasesOnce
  <2>4. \A q \in Request : Holding(q)' => Holding(q)
    BY <1>2, <2>3
  <2> QED
    BY <2>1, <2>4, HoldersShrink DEF Counted
<1> QED
  BY <1>3, <1>4

(* An adapter's counter is given up when it has no holders. *)
LEMMA UnregisterCounts ==
    ASSUME TypeInv, NEW t \in Task, NEW L \in LoraState, Counted(L), NEW id \in ToSet(L.registry),
           Unregister(t, L, id), Backed(L),
           \A q \in Request : InFlight(q)' => InFlight(q) \/ pc[q] = "tokenize",
           UNCHANGED <<setup, out, releases, loaded>>
    PROVE  Counted(lora)'
<1> DEFINE gone == [L EXCEPT !.registry = Unlist(@, id)]
<1>1. gone \in LoraState /\ gone.counters = L.counters
  BY UnlistedFacts
<1>2. \A q \in Request : Holding(q)' => Holding(q) /\ lora_id'[q] = lora_id[q]
  BY DEF Unregister, Holding, TypeInv, TypeOK, Task
<1>3. CASE L.counters[id] = 0
  <2>1. lora' = DropCounter(gone, id)
    BY <1>3 DEF Unregister
  <2> HIDE DEF gone
  <2>2. /\ DOMAIN lora'.counters = DOMAIN L.counters \ {id}
        /\ \A x \in DOMAIN L.counters : x # id => lora'.counters[x] = L.counters[x]
    BY <1>1, <2>1, DropCounterFacts
  <2>3. id \in DOMAIN L.counters
    BY DEF Backed
  <2>4. Cardinality(Holders(id)) = 0
    BY <1>3, <2>3, HoldersFinite DEF Counted
  <2>5. Holders(id) = {}
    BY <2>4, HoldersFinite, FS_EmptySet
  <2>6. \A q \in Request : Holding(q) => lora_id[q] # id
    BY <2>5 DEF Holders
  <2> QED
    BY <1>2, <2>2, <2>6, HoldersShrink DEF Counted
<1>4. CASE L.counters[id] # 0
  <2>1. lora' = gone
    BY <1>4 DEF Unregister
  <2> HIDE DEF gone
  <2> QED
    BY <1>1, <1>2, <2>1, HoldersShrink DEF Counted
<1> QED
  BY <1>3, <1>4

LEMMA EndLoraCounts ==
    ASSUME TypeInv, ReleasesOnce, FlowInv, CountsKept, NEW t \in Task, NEW L \in LoraState, Backed(L),
           Counted(L), EndLora(t, L), pc[t] \notin {"tokenize", "waiting", "done"},
           \A q \in Request : InFlight(q)' => InFlight(q) \/ pc[q] = "tokenize",
           UNCHANGED <<setup, out, releases, loaded>>
    PROVE  Counted(lora)'
<1>1. CASE t = Operator
  <2>1. lora' = L /\ lora_id' = lora_id /\ \A q \in Request : pc'[q] = pc[q]
    BY <1>1, FrontEndAssumption DEF EndLora, TypeInv, TypeOK, Task
  <2>2. \A q \in Request : Holding(q)' => Holding(q)
    BY <2>1 DEF Holding
  <2> QED
    BY <2>1, <2>2, HoldersShrink DEF Counted
<1>2. CASE t # Operator
  <2>1. t \in Request /\ Acquire(t, L)
    BY <1>2 DEF EndLora, Task
  <2> QED
    BY <2>1, AcquireCounts
<1> QED
  BY <1>1, <1>2

LEMMA EvictOrEndCounts ==
    ASSUME TypeInv, ReleasesOnce, FlowInv, CountsKept, NEW t \in Task, NEW L \in LoraState, Backed(L),
           Counted(L), EvictOrEnd(t, L), pc[t] \notin {"tokenize", "waiting", "done"},
           \A q \in Request : InFlight(q)' => InFlight(q) \/ pc[q] = "tokenize",
           UNCHANGED <<setup, out, releases, loaded>>
    PROVE  Counted(lora)'
BY EvictOrEndCases, EndLoraCounts, UnregisterCounts

(* The steps of the front end and of the scheduler keep the counters. *)
LEMMA CountStep == TypeInv /\ FlowInv /\ LoraInv /\ CountInv /\ [Next]_vars => CountInv'
<1> SUFFICES ASSUME TypeInv, FlowInv, LoraInv, CountInv, [Next]_vars, CountsKept, setup' = setup
             PROVE  ReleasesOnce' /\ Counted(lora)'
  <2>1. ASSUME NEW r \in Request, RequestStep(r) PROVE setup' = setup
    BY <2>1 DEF RequestStep, PassPause, AcquireReader, Increment, TokenizeAndSend, Respond,
       AbortTask, ReleaseTask, HandleBatchOutput, HandleAbortReq
  <2>2. ASSUME NEW r \in Request, SchedulerStep(r) \/ ClientStep(r) PROVE setup' = setup
    BY <2>2 DEF SchedulerStep, ClientStep, SchedulerRun, SchedulerFinish, GenerateRequest,
       TokenizeFails, Disconnect, CancelStream, SchedulerReject
  <2>3. ASSUME NEW t \in Task, LoraStep(t) PROVE setup' = setup
    BY <2>3 DEF LoraStep, StartLoad, WaitForUnload, UnloadAnswered, LoadAnswered, LoadFailed
  <2>4. ControlStep \/ OperatorStep \/ SchedulerReceive => setup' = setup
    BY DEF ControlStep, OperatorStep, Unload, AbortLoop, AcquireWriter, UpdateAnswered, CallLora,
       PauseGeneration, ContinueGeneration, UpdateWeights, SchedulerReceive
  <2>5. [Next]_vars => setup' = setup
    BY <2>1, <2>2, <2>3, <2>4 DEF Next, vars
  <2> QED
    BY <2>5 DEF CountInv, CountsKept
<1>a. ReleasesOnce /\ Counted(lora) /\ lora \in LoraState /\ Backed(lora)
  BY DEF CountInv, TypeInv, LoraInv
<1>b. \A q \in Request : InFlight(q)' => InFlight(q) \/ pc[q] = "tokenize"
  BY InFlightStep
<1>c. /\ pc \in [Task -> InSection \cup {"new", "pause_wait", "reader_wait", "done"}]
      /\ out \in [Request -> Outcomes \cup {"none", "aborted"}]
      /\ lora_id \in [Request -> AnyId] /\ Request \subseteq Task /\ Operator \notin Request
  BY FrontEndAssumption DEF TypeInv, TypeOK, Task
<1>d. ASSUME \A q \in Request : Holding(q)' => Holding(q), UNCHANGED <<lora, lora_id, loaded>>
      PROVE  Counted(lora)'
  BY <1>a, <1>d, HoldersShrink DEF Counted
<1>1. ASSUME NEW r \in Request, GenerateRequest(r) PROVE ReleasesOnce' /\ Counted(lora)'
  <2>1. ReleasesOnce'
    BY <1>1, <1>a, <1>c DEF GenerateRequest, ReleasesOnce
  <2>2. \A q \in Request : Holding(q)' => Holding(q)
    BY <1>1, <1>b, <1>c DEF GenerateRequest, Holding
  <2> QED
    BY <1>1, <1>d, <2>1, <2>2 DEF GenerateRequest
<1>2. ASSUME NEW r \in Request, PassPause(r) PROVE ReleasesOnce' /\ Counted(lora)'
  <2>1. ReleasesOnce'
    BY <1>2, <1>a, <1>c DEF PassPause, ResolveLora, Acquire, Fail, CountsKept, ReleasesOnce
  <2>2. CASE Acquire(r, lora)
    BY <1>2, <1>a, <1>b, <2>1, <2>2, AcquireCounts DEF PassPause
  <2>3. CASE ~Acquire(r, lora)
    <3>1. /\ UNCHANGED <<lora, lora_id, out, releases, loaded>>
          /\ \A q \in Request : q # r => pc'[q] = pc[q]
          /\ setup.lora[r] # NoLora => pc'[r] # "tokenize" /\ pc'[r] # "waiting"
      BY <1>2, <1>c, <2>3 DEF PassPause, ResolveLora
    <3>2. \A q \in Request : Holding(q)' => Holding(q)
      BY <1>b, <1>c, <3>1 DEF Holding
    <3> QED
      BY <1>d, <2>1, <3>1, <3>2
  <2> QED
    BY <2>2, <2>3
<1>3. ASSUME NEW r \in Request, AcquireReader(r) PROVE ReleasesOnce' /\ Counted(lora)'
  <2>1. ReleasesOnce'
    BY <1>3, <1>a, <1>c DEF AcquireReader, ResolveLora, Acquire, Fail, CountsKept, ReleasesOnce
  <2>2. CASE Acquire(r, lora)
    BY <1>3, <1>a, <1>b, <2>1, <2>2, AcquireCounts DEF AcquireReader
  <2>3. CASE ~Acquire(r, lora)
    <3>1. /\ UNCHANGED <<lora, lora_id, out, releases, loaded>>
          /\ \A q \in Request : q # r => pc'[q] = pc[q]
          /\ setup.lora[r] # NoLora => pc'[r] # "tokenize" /\ pc'[r] # "waiting"
      BY <1>3, <1>c, <2>3 DEF AcquireReader, ResolveLora
    <3>2. \A q \in Request : Holding(q)' => Holding(q)
      BY <1>b, <1>c, <3>1 DEF Holding
    <3> QED
      BY <1>d, <2>1, <3>1, <3>2
  <2> QED
    BY <2>2, <2>3
<1>4. ASSUME NEW r \in Request, Increment(r) PROVE ReleasesOnce' /\ Counted(lora)'
  BY <1>4, <1>a DEF Increment, ReleasesOnce
<1>5. ASSUME NEW r \in Request, TokenizeAndSend(r) PROVE ReleasesOnce' /\ Counted(lora)'
  <2>1. ReleasesOnce'
    BY <1>5, <1>a, <1>c DEF TokenizeAndSend, ReleasesOnce
  <2>2. \A q \in Request : Holding(q)' => Holding(q)
    BY <1>5, <1>b, <1>c DEF TokenizeAndSend, Holding
  <2> QED
    BY <1>5, <1>d, <2>1, <2>2 DEF TokenizeAndSend
<1>6. ASSUME NEW r \in Request, TokenizeFails(r) PROVE ReleasesOnce' /\ Counted(lora)'
  <2>1. ReleasesOnce'
    BY <1>6, <1>a, <1>c DEF TokenizeFails, Fail, ReleasesOnce
  <2>2. \A q \in Request : Holding(q)' => Holding(q)
    BY <1>6, <1>b, <1>c DEF TokenizeFails, Fail, Holding
  <2> QED
    BY <1>6, <1>d, <2>1, <2>2 DEF TokenizeFails, Fail
<1>7. ASSUME NEW r \in Request, Disconnect(r) PROVE ReleasesOnce' /\ Counted(lora)'
  <2>1. ReleasesOnce'
    BY <1>7, <1>a, <1>c DEF Disconnect, Fail, ReleasesOnce
  <2>2. \A q \in Request : Holding(q)' => Holding(q)
    BY <1>7, <1>b, <1>c DEF Disconnect, Fail, Holding
  <2> QED
    BY <1>7, <1>d, <2>1, <2>2 DEF Disconnect, Fail
<1>8. ASSUME NEW r \in Request, CancelStream(r) PROVE ReleasesOnce' /\ Counted(lora)'
  <2>1. ReleasesOnce'
    BY <1>8, <1>a, <1>c DEF CancelStream, Fail, ReleasesOnce
  <2>2. \A q \in Request : Holding(q)' => Holding(q)
    BY <1>8, <1>b, <1>c DEF CancelStream, Fail, Holding
  <2> QED
    BY <1>8, <1>d, <2>1, <2>2 DEF CancelStream, Fail
<1>9. ASSUME NEW r \in Request, AbortTask(r) PROVE ReleasesOnce' /\ Counted(lora)'
  <2>1. ReleasesOnce'
    BY <1>9, <1>a, <1>c DEF AbortTask, ReleasesOnce
  <2>2. \A q \in Request : Holding(q)' => Holding(q)
    BY <1>9, <1>b, <1>c DEF AbortTask, Holding
  <2> QED
    BY <1>9, <1>d, <2>1, <2>2 DEF AbortTask
<1>10. ASSUME NEW r \in Request, Respond(r) PROVE ReleasesOnce' /\ Counted(lora)'
  <2>1. ReleasesOnce'
    BY <1>10, <1>a, <1>c DEF Respond, ReleasesOnce
  <2>2. \A q \in Request : Holding(q)' => Holding(q)
    BY <1>10, <1>b, <1>c DEF Respond, Holding
  <2>3. CASE out[r] = "rejected" /\ setup.lora[r] # NoLora
    <3>1. ~InFlight(r) /\ r \notin releases /\ pc'[r] = "done" /\ pc[r] = "waiting"
      BY <1>10, <1>a, <1>c, <2>3 DEF Respond, FlowInv, Placed, InFlight, ReleasesOnce
    <3>2. Holding(r) /\ ~Holding(r)'
      BY <1>10, <1>b, <2>3, <3>1 DEF Respond, Holding
    <3> QED
      BY <1>10, <1>a, <2>1, <2>2, <2>3, <3>2, OneHolderLess DEF Respond
  <2>4. CASE ~(out[r] = "rejected" /\ setup.lora[r] # NoLora)
    <3>1. UNCHANGED <<lora, lora_id, loaded>>
      BY <1>10, <1>a, <2>4 DEF Respond, ReleasesOnce
    <3> QED
      BY <1>d, <2>1, <2>2, <3>1
  <2> QED
    BY <2>3, <2>4
<1>11. ASSUME NEW r \in Request, ReleaseTask(r) PROVE ReleasesOnce' /\ Counted(lora)'
  <2>1. ReleasesOnce'
    BY <1>11, <1>a, <1>c DEF ReleaseTask, ReleasesOnce
  <2>2. \A q \in Request : Holding(q)' => Holding(q)
    BY <1>11, <1>b, <1>c DEF ReleaseTask, Holding
  <2>3. out[r] \notin {"none", "rejected"} /\ setup.lora[r] # NoLora
    BY <1>11, <1>a DEF ReleaseTask, ReleasesOnce
  <2>4. ~InFlight(r) /\ pc[r] # "tokenize"
    BY <2>3 DEF FlowInv, Placed, InFlight
  <2>5. Holding(r) /\ ~Holding(r)'
    BY <1>11, <1>b, <2>3, <2>4 DEF ReleaseTask, Holding
  <2> QED
    BY <1>11, <1>a, <2>1, <2>2, <2>5, OneHolderLess DEF ReleaseTask
<1>12. ASSUME NEW r \in Request, HandleBatchOutput(r) PROVE ReleasesOnce' /\ Counted(lora)'
  <2>1. PICK msg \in from_scheduler : msg.type = "output" /\ msg.of = r /\ HandleBatchOutput(r)!(msg)
    BY <1>12 DEF HandleBatchOutput
  <2>2. msg.outcome \notin {"none", "error", "rejected"} /\ Answered(r) /\ out[r] = "none"
    BY <1>a, <2>1 DEF ReleasesOnce, FlowInv, Placed, Answered, IsAnswer
  <2>3. ReleasesOnce'
    <3>1. /\ UNCHANGED <<setup, pc>> /\ from_scheduler' \subseteq from_scheduler
          /\ \/ UNCHANGED <<out, releases>>
             \/ /\ out' = [out EXCEPT ![r] = msg.outcome]
                /\ releases' = IF setup.lora[r] # NoLora THEN releases \cup {r} ELSE releases
      BY <2>1
    <3>2. \A q \in Request : q # r => out'[q] = out[q]
      BY <1>c, <3>1
    <3>3. r \notin releases
      BY <1>a, <2>2 DEF ReleasesOnce
    <3>4. CASE UNCHANGED <<out, releases>>
      BY <1>a, <3>1, <3>4 DEF ReleasesOnce
    <3>5. CASE out'[r] = msg.outcome /\ releases' = IF setup.lora[r] # NoLora THEN releases \cup {r} ELSE releases
      BY <1>a, <2>2, <3>1, <3>2, <3>3, <3>5 DEF ReleasesOnce, TypeInv, TypeOK
    <3> QED
      BY <1>c, <3>1, <3>4, <3>5
  <2>4. \A q \in Request : Holding(q)' => Holding(q)
    BY <1>b, <1>c, <2>1, <2>2 DEF Holding, InFlight
  <2> QED
    BY <1>d, <2>1, <2>3, <2>4
<1>13. ASSUME NEW r \in Request, HandleAbortReq(r) PROVE ReleasesOnce' /\ Counted(lora)'
  <2>1. PICK msg \in from_scheduler : msg.type = "abort" /\ msg.of = r /\ HandleAbortReq(r)!(msg)
    BY <1>13 DEF HandleAbortReq
  <2>2. msg.outcome # "error" /\ Answered(r) /\ out[r] = "none"
    BY <1>a, <2>1 DEF ReleasesOnce, FlowInv, Placed, Answered, IsAnswer
  <2>3. ReleasesOnce'
    <3>1. /\ UNCHANGED <<setup, pc>> /\ from_scheduler' \subseteq from_scheduler
          /\ \/ UNCHANGED <<out, releases>>
             \/ /\ out' = [out EXCEPT ![r] = msg.outcome]
                /\ releases' = releases
      BY <2>1
    <3>2. \A q \in Request : q # r => out'[q] = out[q]
      BY <1>c, <3>1
    <3>3. r \notin releases
      BY <1>a, <2>2 DEF ReleasesOnce
    <3>4. CASE UNCHANGED <<out, releases>>
      BY <1>a, <3>1, <3>4 DEF ReleasesOnce
    <3>5. CASE out'[r] = msg.outcome /\ releases' = releases
      BY <1>a, <2>2, <3>1, <3>2, <3>3, <3>5 DEF ReleasesOnce, TypeInv, TypeOK
    <3> QED
      BY <1>c, <3>1, <3>4, <3>5
  <2>4. \A q \in Request : Holding(q)' => Holding(q)
    BY <1>b, <1>c, <2>1, <2>2 DEF Holding, InFlight
  <2> QED
    BY <1>d, <2>1, <2>3, <2>4
<1>14. ASSUME NEW r \in Request, SchedulerRun(r) PROVE ReleasesOnce' /\ Counted(lora)'
  <2>1. ReleasesOnce'
    BY <1>14, <1>a, <1>c DEF SchedulerRun, ReleasesOnce
  <2>2. \A q \in Request : Holding(q)' => Holding(q)
    BY <1>14, <1>b, <1>c DEF SchedulerRun, Holding
  <2> QED
    BY <1>14, <1>d, <2>1, <2>2 DEF SchedulerRun
<1>15. ASSUME NEW r \in Request, SchedulerReject(r) PROVE ReleasesOnce' /\ Counted(lora)'
  <2>1. ReleasesOnce'
    BY <1>15, <1>a, <1>c DEF SchedulerReject, Reply, ReleasesOnce
  <2>2. \A q \in Request : Holding(q)' => Holding(q)
    BY <1>15, <1>b, <1>c DEF SchedulerReject, Reply, Holding
  <2> QED
    BY <1>15, <1>d, <2>1, <2>2 DEF SchedulerReject, Reply
<1>16. ASSUME NEW r \in Request, SchedulerFinish(r) PROVE ReleasesOnce' /\ Counted(lora)'
  <2>1. PICK o : /\ from_scheduler' = from_scheduler \cup {[type |-> "output", of |-> r, outcome |-> o]}
                 /\ o \in {"aborted"} \cup (setup.outcomes \ {"rejected"})
    BY <1>16 DEF SchedulerFinish, Reply
  <2>2. o \notin {"none", "error", "rejected"}
    BY <2>1, SetupFacts DEF CountsKept, TypeInv, Outcomes
  <2>3. ReleasesOnce'
    BY <1>16, <1>a, <2>1, <2>2 DEF SchedulerFinish, ReleasesOnce
  <2>4. \A q \in Request : Holding(q)' => Holding(q)
    BY <1>16, <1>b, <1>c DEF SchedulerFinish, Holding
  <2> QED
    BY <1>16, <1>d, <2>3, <2>4 DEF SchedulerFinish
<1>17. ASSUME CallLora PROVE ReleasesOnce' /\ Counted(lora)'
  <2>1. ReleasesOnce'
    BY <1>17, <1>a, <1>c DEF CallLora, ReleasesOnce
  <2>2. \A q \in Request : Holding(q)' => Holding(q)
    BY <1>17, <1>b, <1>c DEF CallLora, Holding
  <2> QED
    BY <1>17, <1>d, <2>1, <2>2 DEF CallLora
<1>18. ASSUME AbortLoop PROVE ReleasesOnce' /\ Counted(lora)'
  <2>1. ReleasesOnce'
    BY <1>18, <1>a, <1>c DEF AbortLoop, ReleasesOnce
  <2>2. \A q \in Request : Holding(q)' => Holding(q)
    BY <1>18, <1>b, <1>c DEF AbortLoop, Holding
  <2> QED
    BY <1>18, <1>d, <2>1, <2>2 DEF AbortLoop
<1>19. ASSUME AcquireWriter PROVE ReleasesOnce' /\ Counted(lora)'
  <2>1. ReleasesOnce'
    BY <1>19, <1>a, <1>c DEF AcquireWriter, ReleasesOnce
  <2>2. \A q \in Request : Holding(q)' => Holding(q)
    BY <1>19, <1>b, <1>c DEF AcquireWriter, Holding
  <2> QED
    BY <1>19, <1>d, <2>1, <2>2 DEF AcquireWriter
<1>20. ASSUME UpdateAnswered PROVE ReleasesOnce' /\ Counted(lora)'
  <2>1. ReleasesOnce'
    BY <1>20, <1>a, <1>c DEF UpdateAnswered, ReleasesOnce
  <2>2. \A q \in Request : Holding(q)' => Holding(q)
    BY <1>20, <1>b, <1>c DEF UpdateAnswered, Holding
  <2> QED
    BY <1>20, <1>d, <2>1, <2>2 DEF UpdateAnswered
<1>21. ASSUME PauseGeneration PROVE ReleasesOnce' /\ Counted(lora)'
  <2>1. ReleasesOnce'
    BY <1>21, <1>a, <1>c DEF PauseGeneration, ReleasesOnce
  <2>2. \A q \in Request : Holding(q)' => Holding(q)
    BY <1>21, <1>b, <1>c DEF PauseGeneration, Holding
  <2> QED
    BY <1>21, <1>d, <2>1, <2>2 DEF PauseGeneration
<1>22. ASSUME ContinueGeneration PROVE ReleasesOnce' /\ Counted(lora)'
  <2>1. ReleasesOnce'
    BY <1>22, <1>a, <1>c DEF ContinueGeneration, ReleasesOnce
  <2>2. \A q \in Request : Holding(q)' => Holding(q)
    BY <1>22, <1>b, <1>c DEF ContinueGeneration, Holding
  <2> QED
    BY <1>22, <1>d, <2>1, <2>2 DEF ContinueGeneration
<1>23. ASSUME UpdateWeights PROVE ReleasesOnce' /\ Counted(lora)'
  <2>1. ReleasesOnce'
    BY <1>23, <1>a, <1>c DEF UpdateWeights, ReleasesOnce
  <2>2. \A q \in Request : Holding(q)' => Holding(q)
    BY <1>23, <1>b, <1>c DEF UpdateWeights, Holding
  <2> QED
    BY <1>23, <1>d, <2>1, <2>2 DEF UpdateWeights
<1>24. ASSUME NEW t \in Task, StartLoad(t) PROVE ReleasesOnce' /\ Counted(lora)'
  <2>1. ReleasesOnce'
    BY <1>24, <1>a, <1>c DEF StartLoad, ReleasesOnce
  <2>2. \A q \in Request : Holding(q)' => Holding(q)
    BY <1>24, <1>b, <1>c DEF StartLoad, Holding
  <2> QED
    BY <1>24, <1>d, <2>1, <2>2 DEF StartLoad
<1>25. ASSUME NEW t \in Task, WaitForUnload(t) PROVE ReleasesOnce' /\ Counted(lora)'
  <2>1. ReleasesOnce'
    BY <1>25, <1>a, <1>c DEF WaitForUnload, ReleasesOnce
  <2>2. \A q \in Request : Holding(q)' => Holding(q)
    BY <1>25, <1>b, <1>c DEF WaitForUnload, Holding
  <2>3. /\ DOMAIN lora'.counters = DOMAIN lora.counters \ {target}
        /\ \A x \in DOMAIN lora.counters : x # target => lora'.counters[x] = lora.counters[x]
    BY <1>25, <1>a, DropCounterFacts DEF WaitForUnload
  <2>4. target \in DOMAIN lora.counters /\ lora.counters[target] = 0
    BY <1>25, FrontEndAssumption DEF WaitForUnload, LoraInv, OneHolder, HoldsLock, TargetPlaced, Phase
  <2>5. Holders(target) = {}
    <3>1. Cardinality(Holders(target)) = 0
      BY <1>a, <2>4, HoldersFinite DEF Counted
    <3> QED
      BY <3>1, HoldersFinite, FS_EmptySet
  <2>6. \A q \in Request : Holding(q) => lora_id[q] # target
    BY <2>5 DEF Holders
  <2>7. UNCHANGED <<lora_id, loaded>>
    BY <1>25 DEF WaitForUnload
  <2> QED
    BY <1>a, <2>1, <2>2, <2>3, <2>6, <2>7, HoldersShrink DEF Counted
<1>26. ASSUME NEW t \in Task, NEW ok \in BOOLEAN, LoadAnswered(t, ok) PROVE ReleasesOnce' /\ Counted(lora)'
  <2> DEFINE L == IF ok THEN Register(lora, target) ELSE lora
             msg == [type |-> "load", of |-> target, ok |-> ok]
  <2>1. /\ pc[t] = "loading" /\ msg \in from_scheduler /\ EvictOrEnd(t, L)
        /\ from_scheduler' \subseteq from_scheduler /\ UNCHANGED <<setup, out, releases, loaded>>
    BY <1>26 DEF LoadAnswered
  <2>2. /\ Phase = "loading" /\ target \in Id /\ (ok => target \in loaded)
        /\ target \notin DOMAIN lora.counters /\ target \notin ToSet(lora.registry)
    BY <2>1, FrontEndAssumption
    DEF LoraInv, OneHolder, OneLoraMessage, TargetPlaced, HoldsLock, Phase, TypeInv, IsLora
  <2>3. L \in LoraState /\ Backed(L) /\ Counted(L)
    <3>1. CASE ok
      <4>1. /\ Register(lora, target) \in LoraState
            /\ Register(lora, target).registry = Append(lora.registry, target)
            /\ DOMAIN Register(lora, target).counters = DOMAIN lora.counters \cup {target}
            /\ Register(lora, target).counters[target] = 0
            /\ \A x \in DOMAIN lora.counters : Register(lora, target).counters[x] = lora.counters[x]
        BY <1>a, <2>2, RegisterFacts
      <4>2. /\ ToSet(Append(lora.registry, target)) = ToSet(lora.registry) \cup {target}
            /\ Distinct(Append(lora.registry, target))
        BY <1>a, <2>2, AppendFacts DEF Backed, LoraState
      <4>3. Backed(Register(lora, target))
        BY <1>a, <2>2, <3>1, <4>1, <4>2 DEF Backed
      <4>4. Holders(target) = {}
        BY <1>a, <2>2 DEF Counted, Holders
      <4>5. Cardinality(Holders(target)) = 0
        BY <4>4, FS_EmptySet
      <4>6. Counted(Register(lora, target))
        BY <1>a, <4>1, <4>5 DEF Counted
      <4> QED
        BY <3>1, <4>1, <4>3, <4>6
    <3>2. CASE ~ok
      BY <1>a, <3>2
    <3> QED
      BY <3>1, <3>2
  <2> HIDE DEF L
  <2>4. \A q \in Request : pc'[q] # "incrementing"
    BY <1>a, <1>c, <2>1 DEF EvictOrEnd, Unregister, EndLora, Acquire, Fail, CountsKept, ReleasesOnce
  <2>5. ReleasesOnce'
    BY <1>a, <2>1, <2>4 DEF ReleasesOnce
  <2> QED
    BY <1>a, <1>b, <2>1, <2>3, <2>5, EvictOrEndCounts
<1>27. ASSUME NEW t \in Task, UnloadAnswered(t) PROVE ReleasesOnce' /\ Counted(lora)'
  <2>1. /\ pc[t] = "unloading" /\ (EvictOrEnd(t, lora) \/ EndLora(t, lora))
        /\ from_scheduler' \subseteq from_scheduler /\ UNCHANGED <<setup, out, releases, loaded>>
    BY <1>27 DEF UnloadAnswered
  <2>2. \A q \in Request : pc'[q] # "incrementing"
    BY <1>a, <1>c, <2>1 DEF EvictOrEnd, Unregister, EndLora, Acquire, Fail, CountsKept, ReleasesOnce
  <2>3. ReleasesOnce'
    BY <1>a, <2>1, <2>2 DEF ReleasesOnce
  <2> QED
    <3>1. CASE EvictOrEnd(t, lora)
      BY <1>a, <1>b, <2>1, <2>3, <3>1, EvictOrEndCounts
    <3>2. CASE EndLora(t, lora)
      BY <1>a, <1>b, <2>1, <2>3, <3>2, EndLoraCounts
    <3> QED
      BY <2>1, <3>1, <3>2
<1>28. ASSUME Unload PROVE ReleasesOnce' /\ Counted(lora)'
  <2>1. /\ pc[Operator] = "lock_wait" /\ from_scheduler' = from_scheduler
        /\ UNCHANGED <<setup, out, releases, loaded>> /\ Operator \in Task
    BY <1>28 DEF Unload, Task
  <2>2. ReleasesOnce'
    BY <1>28, <1>a, <1>c, <2>1 DEF Unload, Unregister, EndLora, ReleasesOnce
  <2>3. CASE Registered(lora, Name(Operator))
    <3>1. /\ IdOf(lora, Name(Operator)) \in ToSet(lora.registry)
          /\ Unregister(Operator, lora, IdOf(lora, Name(Operator)))
      BY <1>28, <1>a, <2>3, IdOfFacts DEF Unload
    <3> QED
      BY <1>a, <1>b, <2>1, <2>2, <3>1, UnregisterCounts
  <2>4. CASE ~Registered(lora, Name(Operator))
    <3>1. EndLora(Operator, lora)
      BY <1>28, <2>4 DEF Unload
    <3> QED
      BY <1>a, <1>b, <2>1, <2>2, <3>1, EndLoraCounts
  <2> QED
    BY <2>3, <2>4
<1>29. ASSUME SchedulerReceive PROVE ReleasesOnce' /\ Counted(lora)'
  <2> DEFINE msg == Head(to_scheduler)
  <2>1. /\ to_scheduler \in Seq(Message) /\ to_scheduler # <<>> /\ msg = to_scheduler[1]
        /\ 1 \in DOMAIN to_scheduler /\ UNCHANGED <<pc, out, releases, lora, lora_id>>
    BY <1>29 DEF SchedulerReceive, TypeInv, TypeOK
  <2>2. \A q \in Request : Holding(q)' => Holding(q)
    BY <1>b, <2>1 DEF Holding
  <2>3. \A m \in from_scheduler' :
            m \in from_scheduler \/ m.type \notin {"output", "abort"} \/ (m.type = "abort" /\ m.outcome = "aborted")
    BY <1>29 DEF SchedulerReceive, Reply
  <2>4. ReleasesOnce'
    BY <1>a, <2>1, <2>3 DEF ReleasesOnce
  <2>5. \A q \in Request : Holding(q) => lora_id[q] \in loaded'
    <3>1. CASE msg.type = "unload"
      <4>1. msg.of \notin DOMAIN lora.counters
        BY <2>1, <3>1 DEF LoraInv, OneLoraMessage, TargetPlaced, IsLora
      <4>2. loaded' = loaded \ {msg.of}
        BY <1>29, <3>1 DEF SchedulerReceive
      <4> QED
        BY <1>a, <4>1, <4>2 DEF Counted
    <3>2. CASE msg.type # "unload"
      <4>1. loaded \subseteq loaded'
        BY <1>29, <3>2 DEF SchedulerReceive
      <4> QED
        BY <1>a, <4>1 DEF Counted
    <3> QED
      BY <3>1, <3>2
  <2>6. Counted(lora)'
    BY <1>a, <2>1, <2>2, <2>5, HoldersShrink DEF Counted
  <2> QED
    BY <2>4, <2>6
<1>30. ASSUME UNCHANGED vars PROVE ReleasesOnce' /\ Counted(lora)'
  <2>1. ReleasesOnce'
    BY <1>30, <1>a, <1>c DEF vars, ReleasesOnce
  <2>2. \A q \in Request : Holding(q)' => Holding(q)
    BY <1>30, <1>b, <1>c DEF vars, Holding
  <2> QED
    BY <1>30, <1>d, <2>1, <2>2 DEF vars
<1>31. ASSUME NEW t \in Task, LoadFailed(t) PROVE ReleasesOnce' /\ Counted(lora)'
  <2>1. ReleasesOnce'
    BY <1>31, <1>a, <1>c DEF LoadFailed, Fail, ReleasesOnce
  <2>2. \A q \in Request : Holding(q)' => Holding(q)
    BY <1>31, <1>b, <1>c DEF LoadFailed, Fail, Holding
  <2> QED
    BY <1>31, <1>d, <2>1, <2>2 DEF LoadFailed
<1> QED
  BY <1>1, <1>2, <1>3, <1>4, <1>5, <1>6, <1>7, <1>8, <1>9, <1>10, <1>11, <1>12, <1>13, <1>14,
     <1>15, <1>16, <1>17, <1>18, <1>19, <1>20, <1>21, <1>22, <1>23, <1>24, <1>25, <1>26, <1>27, <1>28,
     <1>29, <1>30, <1>31
  DEF Next, RequestStep, LoraStep, SchedulerStep, ControlStep, ClientStep, OperatorStep

(* A single request that is on its way to the scheduler or in it finds its *)
(* adapter loaded, and no unload of it on the way, whatever loads, unloads *)
(* and evictions happen meanwhile: the counter that unloading waits for    *)
(* counts it.  Batches, and outputs with status 500 or 503, are excepted:  *)
(* there the counter is raised late or lowered twice.                      *)
THEOREM AdapterLoadedAlways == Spec => [](CountsKept => AdapterLoadedWhileUsed)
<1>1. TypeInv /\ LoraInv /\ CountInv => (CountsKept => AdapterLoadedWhileUsed)
  <2> SUFFICES ASSUME TypeInv, LoraInv, CountInv, CountsKept, NEW r \in Request, InScheduler(r),
                      setup.lora[r] # NoLora
               PROVE  /\ lora_id[r] \in loaded
                      /\ ~Contains(to_scheduler, [type |-> "unload", of |-> lora_id[r]])
    BY DEF AdapterLoadedWhileUsed
  <2>1. lora_id[r] \in loaded \cap DOMAIN lora.counters
    BY DEF CountInv, Counted, Holding, InFlight
  <2>2. \A i \in DOMAIN to_scheduler :
            to_scheduler[i] # [type |-> "unload", of |-> lora_id[r]]
    BY <2>1 DEF LoraInv, OneLoraMessage, TargetPlaced, IsLora
  <2>3. DOMAIN to_scheduler = 1..Len(to_scheduler)
    BY DEF TypeInv, TypeOK
  <2> QED
    BY <2>1, <2>2, <2>3 DEF Contains
<1> QED
  BY <1>1, InitTypes, TypeStep, InitFlow, FlowStep, InitLora, LoraStepKeeps, InitCounts, CountStep,
     PTL DEF Spec

(* A usage counter does not go below zero, so that the wait for it to be   *)
(* zero cannot miss that value, when requests are sent one by one and none *)
(* is answered with an error status: no request lowers its adapter's       *)
(* counter more often than it has raised it, however it ends.  With error  *)
(* answers this is false, as the run lora_released_twice shows.            *)
THEOREM CountersStayNatural ==
    Spec => [](CountsKept => \A id \in DOMAIN lora.counters : lora.counters[id] \in Nat)
<1>1. TypeInv /\ CountInv =>
          (CountsKept => \A id \in DOMAIN lora.counters : lora.counters[id] \in Nat)
  <2> SUFFICES ASSUME TypeInv, CountInv, CountsKept, NEW id \in DOMAIN lora.counters
               PROVE  lora.counters[id] \in Nat
    OBVIOUS
  <2>1. Cardinality(Holders(id)) \in Nat /\ Cardinality(Holders(id)) <= lora.counters[id]
    BY HoldersFinite DEF CountInv, Counted
  <2>2. lora.counters[id] \in Int
    BY DEF TypeInv, LoraState
  <2> QED
    BY <2>1, <2>2
<1> QED
  BY <1>1, InitTypes, TypeStep, InitFlow, FlowStep, InitLora, LoraStepKeeps, InitCounts, CountStep,
     PTL DEF Spec
=============================================================================
