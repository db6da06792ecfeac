-------------------------- MODULE MCProactiveDispatch --------------------------
(* One old paper and two new ones, two processes.                              *)
EXTENDS ProactiveDispatch, TLC

CONSTANTS p1, p2

(* Nights cross midnight: of the three ticks of a day only the second is not   *)
(* quiet; who wants nothing has other hours, which are quiet then.             *)
Willing == [enabled |-> TRUE, start |-> 2, end |-> 1, budget |-> 1, minimum |-> 1]
Unwilling == [Willing EXCEPT !.enabled = FALSE, !.start = 1, !.end = 0]
MCPreferences == {Willing, Unwilling}

Idle(p) == dispatcher[p].step = "idle"
AtRest ==
    /\ published > 0 /\ \A p \in Process : Idle(p)
    /\ FailExhausted(Reconciled(event)) = event /\ Candidates(event) = {}
    /\ \A e \in Paper : ~event[e].leaseValid /\ run[e] # "open"
TimePasses ==
    \/ (\E e \in Paper : event[e].wait > 0) /\ \A p \in Process : dispatcher[p].phase # "ranking"
    \/ \E p \in Process : dispatcher[p].step \in {"decided", "created"} /\ dispatcher[p].paper = 2 /\ clock > 0
    \/ AtRest

(* The first paper is out before the first poll, the others come together, and *)
(* nothing is polled once all are stored.  Time passes where somebody waits    *)
(* for it, over the dispatch of paper 2, and when all is done.  Idle processes *)
(* are alike: the first of them takes what there is.  Only paper 2 is ever     *)
(* acknowledged, or has a run that fails.  After a second fault only paper 2 is *)
(* followed.                                                                   *)
Bound ==
    /\ published' \in {1, Papers}
    /\ published' = Papers => sub.baseline
    /\ sub'.due /\ ~sub.due => \E e \in 1 .. published : event[e].state = "none"
    /\ TimePasses \/ clock' = clock
    /\ collector[p1].step = "idle" => collector'[p2].step # "claimed" \/ UNCHANGED collector
    /\ Idle(p1) /\ Idle(p2) => dispatcher'[p2].step = "idle"
    /\ event[3].state # "acknowledged" => event'[3].state # "acknowledged"
    /\ run'[3] # "failed"
    /\ paused' /\ ~paused => event[2].state = "ranking"
    /\ preference' # preference => event[2].state = "ranked"
    /\ faults' = 2 => preference' = Willing /\ ~paused' /\ sub' = sub /\ sub.enabled /\ event'[3].state = "pending"
===============================================================================
