---------------------------- MODULE MCScheduler ----------------------------
(* Scheduler for TLC: prompts that share their first page, and then        *)
(* diverge.  Two requests meet in every way two can; the third keeps the   *)
(* queue non-empty.                                                        *)
EXTENDS Scheduler, TLC

CONSTANTS r1, r2, r3

MCText == Restrict(
    r1 :> <<"a", "b", "c", "d", "e", "f", "g", "h", "i", "j", "k", "l">>
    @@ r2 :> <<"a", "A", "B", "C", "D", "E", "F", "G", "H", "I", "J", "K">>
    @@ r3 :> <<"a", "b", "Q", "R", "S", "T", "U", "V", "W", "X", "Y", "Z">>, Request)

MCInputLen == Restrict(r1 :> 2 @@ r2 :> 3 @@ r3 :> 5, Request)

MCReqNew == Restrict(r1 :> 7 @@ r2 :> 4 @@ r3 :> 2, Request)

MCPriority == Restrict(r1 :> 0 @@ r2 :> 1 @@ r3 :> 1, Request)

(* Two long prompts with three pages in common, against one that decodes. *)
MCPrefixText == Restrict(
    r1 :> <<"A", "B", "C", "D", "E", "F", "G", "H">>
    @@ r2 :> <<"a", "b", "c", "d", "e", "f", "g", "h">>
    @@ r3 :> <<"a", "b", "c", "S", "T", "U", "V", "W">>, Request)

MCPrefixInputLen == Restrict(r1 :> 2 @@ r2 :> 7 @@ r3 :> 7, Request)

MCPrefixReqNew == Restrict(r1 :> 9 @@ r2 :> 4 @@ r3 :> 1, Request)

(* The loops and features, each with the client messages that matter to    *)
(* it, and a queue of one request with time-outs.                          *)
Plain ==
    [overlap |-> TRUE, draft |-> 0, preemption |-> FALSE, max_queued |-> 3,
     timeouts |-> FALSE, clients |-> {}, reqs |-> Request]

MCSetups ==
    {[Plain EXCEPT !.clients = {"abort"}],
     [Plain EXCEPT !.clients = {"abort", "pause", "flush"}, !.reqs = {r1, r3}],
     [Plain EXCEPT !.clients = {"abort", "pause"}, !.reqs = {r1, r3}, !.overlap = FALSE],
     [Plain EXCEPT !.clients = {"abort"}, !.draft = 3],
     [Plain EXCEPT !.preemption = TRUE, !.max_queued = 1],
     [Plain EXCEPT !.timeouts = TRUE, !.max_queued = 1]}

(* For the budget and liveness: both loops, and queue limits and time-outs. *)
MCLoops == {Plain, [Plain EXCEPT !.overlap = FALSE], [Plain EXCEPT !.timeouts = TRUE, !.max_queued = 1]}

MCPlain == {Plain}

MCPreemption == {[Plain EXCEPT !.preemption = TRUE]}

(* One request of 17 tokens for a pool of three pages of eight. *)
MCLongInputLen == Restrict(r1 :> 17, Request)
=============================================================================
