---------------------------- MODULE MCPDTransfer ----------------------------
(* PDTransfer for TLC, with pages and prefill batches of two tokens: a     *)
(* prompt of three is two chunks and two pages, the second one partial.    *)
EXTENDS PDTransfer, TLC

CONSTANTS r1, r2

Lens(a, b) == [r \in Request |-> IF r = r1 THEN a ELSE b]

(* Two requests, and nothing happens to them. *)
Plain ==
    [overlap |-> TRUE, max_attempts |-> 1, len |-> Lens(3, 2), prefix |-> Lens(0, 0),
     buffers |-> 2, reqs |-> <<r1, r2>>, abort_prefill |-> {}, abort_decode |-> {}, timeouts |-> {},
     transfer_fails |-> FALSE, unresolved |-> FALSE, radix |-> FALSE,
     link |-> [r \in Request |-> "ok"]]

Loops(c) == {[c EXCEPT !.overlap = o] : o \in BOOLEAN}

(* The pool has three pages: prompts of three and two tokens fit together, *)
(* of three and three one after the other, one of seven never.             *)
MCConfigs ==
    UNION {Loops(Plain),
           Loops([Plain EXCEPT !.len = Lens(5, 3), !.max_attempts = 2]),
           Loops([Plain EXCEPT !.abort_prefill = {r1}]),
           Loops([Plain EXCEPT !.len = Lens(3, 3), !.transfer_fails = TRUE])}
    \union
    {[Plain EXCEPT !.len = Lens(3, 3), !.max_attempts = 0, !.abort_decode = {r1},
                   !.timeouts = {r1}],
     [Plain EXCEPT !.len = Lens(3, 3), !.prefix = Lens(0, 2), !.radix = TRUE, !.max_attempts = 0,
                   !.unresolved = TRUE, !.abort_decode = {r2}],
     [Plain EXCEPT !.len = Lens(3, 7), !.timeouts = {r2}]}
    \union
    {[Plain EXCEPT !.max_attempts = 0, !.link = Lens(l, "ok")] : l \in Link \ {"ok"}}

(* One request, whose clocks run. *)
Alone == [Plain EXCEPT !.reqs = <<r1>>, !.timeouts = {r1}]

Solo ==
    {[Alone EXCEPT !.max_attempts = 0, !.abort_prefill = {r1}],
     [Alone EXCEPT !.len = Lens(2, 2), !.max_attempts = 0, !.abort_decode = {r1}],
     [Alone EXCEPT !.overlap = FALSE, !.transfer_fails = TRUE, !.unresolved = TRUE]}
    \union {[Alone EXCEPT !.link = [r \in Request |-> l]] : l \in Link \ {"ok"}}

(* Two short prompts, with the clocks of either running. *)
Clocks ==
    {[Plain EXCEPT !.len = Lens(2, 2), !.max_attempts = 0, !.overlap = FALSE,
                   !.timeouts = {r}] : r \in {r1, r2}}

MCClocks == Solo \union Clocks

(* The decode instance has one metadata buffer, and the first request,     *)
(* which holds it, may time out.                                           *)
MCOneBuffer ==
    {[Plain EXCEPT !.len = Lens(2, 2), !.max_attempts = 0, !.buffers = 1, !.timeouts = {r1}]}
=============================================================================
