------------------------- MODULE MCTokenizerManager -------------------------
(* TokenizerManager for TLC: a few environments, each small enough to be    *)
(* explored with all the interleavings of its requests and control calls.   *)
EXTENDS TokenizerManager, TLC

CONSTANTS r1, r2, a, b

Quiet ==
    [lora |-> [r \in Request |-> NoLora], batch |-> {}, faults |-> {}, outcomes |-> {"stop"},
     pause_mode |-> "none", updates |-> 0, from_disk |-> TRUE, abort_all_requests |-> FALSE,
     calls |-> <<>>, lora_paths |-> {}, max_loaded_loras |-> 1]

OnAdapters(f) == [Quiet EXCEPT !.lora = f, !.lora_paths = {a}]

(* Loads and unloads while requests use the adapters: an explicit unload   *)
(* and reload, and an eviction by a load of another name.                  *)
LoraSetups ==
    {[OnAdapters([r \in Request |-> a]) EXCEPT !.calls = <<<<"unload", a>>, <<"load", a>> >>,
                                               !.outcomes = {"stop", "bad_request"}],
     [OnAdapters(r1 :> a @@ r2 :> b) EXCEPT !.calls = <<<<"load", b>> >>,
                                            !.outcomes = {"stop", "rejected"},
                                            !.faults = {"load"}],
     [OnAdapters(r1 :> a @@ r2 :> a) EXCEPT !.calls = <<<<"load", b>>, <<"unload", b>> >>]}

(* A batch on an adapter that stays loaded, with a pause or an update. *)
BatchSetups ==
    {[OnAdapters([r \in Request |-> a]) EXCEPT !.batch = {r1}, !.pause_mode = p, !.updates = n,
                                               !.faults = {"cancel"}] :
        <<p, n>> \in {<<"abort", 0>>, <<"none", 1>>}}

(* Clients that leave or send invalid prompts while weights are updated. *)
UpdateSetups ==
    {[Quiet EXCEPT !.updates = 2, !.from_disk = d, !.abort_all_requests = x,
                   !.faults = Faults, !.outcomes = Outcomes] : d, x \in BOOLEAN}

(* One weight update and a pause of either kind. *)
PauseSetups ==
    {[Quiet EXCEPT !.pause_mode = p] : p \in {"abort", "retract"}} \cup
    {[Quiet EXCEPT !.pause_mode = "retract", !.updates = 1, !.from_disk = d,
                   !.faults = {"disconnect"}] : d \in BOOLEAN}

MCSetups == LoraSetups \cup BatchSetups \cup UpdateSetups \cup PauseSetups

MCErrors == {[OnAdapters([r \in Request |-> a]) EXCEPT !.calls = <<<<"unload", a>> >>,
                                                       !.outcomes = {"stop", "error"}]}

MCInvalid == {[OnAdapters([r \in Request |-> a]) EXCEPT !.calls = <<<<"unload", a>> >>,
                                                        !.faults = {"invalid"}]}
=============================================================================
