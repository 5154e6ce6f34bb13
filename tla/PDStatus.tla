------------------------------- MODULE PDStatus -------------------------------
(***************************************************************************)
(* What the two halves of prefill/decode disaggregation have in common:    *)
(* the requests, the KVPoll states a bootstrap room goes through, and the  *)
(* table request_status of CommonKVManager (disaggregation/common/conn.py).*)
(* Every request has a bootstrap room of its own, so a request names its   *)
(* room.  One prefill instance and one decode instance, each of one rank,  *)
(* exchange KV through the mooncake backend.                               *)
(***************************************************************************)
EXTENDS Integers, Sequences, FiniteSets, SequencesExt, FiniteSetsExt

CONSTANTS
    Request,
    PageSize,               \* tokens of a page, the same on both instances
    ChunkedPrefillSize,     \* tokens one prefill batch computes
    NumPages,               \* pages of the decode instance's pool
    ReservedDecodeTokens,   \* num_reserved_decode_tokens
    PrefillBuffers,         \* metadata buffers of the prefill instance
    MaxEnsureRetries        \* _max_ensure_retries of the decode instance

(* No value: an index, a conclude_state or a request that is None. *)
Nil == -1

ASSUME PDAssumption ==
    /\ IsFiniteSet(Request)
    /\ {PageSize, ChunkedPrefillSize, NumPages, PrefillBuffers,
        MaxEnsureRetries} \subseteq Nat \ {0}
    /\ ChunkedPrefillSize >= PageSize
    /\ ReservedDecodeTokens \in Nat
    /\ Nil \notin Request

Page == 1 .. NumPages

(* KVPoll, in its order; Absent is a room that is not in request_status. *)
Absent == -1
Failed == 0
Bootstrapping == 1
WaitingForInput == 2
Transferring == 3
Success == 4

KVPoll == Failed .. Success

(* kv_to_page_num. *)
PagesOf(n) == (n + PageSize - 1) \div PageSize

(* update_status of one entry: a cleared room is not resurrected by a      *)
(* failure, a failure overwrites, anything else never goes back.           *)
Updated(old, new) ==
    IF new = Failed
    THEN IF old = Absent THEN Absent ELSE Failed
    ELSE Max({old, new})

(* On either instance's record: the room's entry changes. *)
UpdateStatus(S, r, new) == [S EXCEPT !.status[r] = Updated(@, new)]

(* The deque of ReqToMetadataIdxAllocator; a request without a buffer has  *)
(* index Nil.  maybe_release_metadata_buffer appends the freed index.      *)
ReleaseBufferKeepsIndex(S, r) ==
    IF S.req[r].buffer = Nil THEN S
    ELSE [S EXCEPT !.free_buffers = Append(@, S.req[r].buffer)]

ReleaseBuffer(S, r) ==
    IF S.req[r].buffer = Nil THEN S
    ELSE [S EXCEPT !.free_buffers = Append(@, S.req[r].buffer),
                   !.req[r].buffer = Nil]

TakeBuffer(S, r) ==
    [S EXCEPT !.free_buffers = Tail(@), !.req[r].buffer = Head(S.free_buffers)]

(* An answer to the client of the request. *)
Answer(S, r) == [S EXCEPT !.req[r].answers = @ + 1]
===============================================================================
