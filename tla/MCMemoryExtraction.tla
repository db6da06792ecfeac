-------------------------- MODULE MCMemoryExtraction --------------------------
(* A member's two runs find the same fact, a group's run another.              *)
EXTENDS MemoryExtraction, TLC

CONSTANTS a, b, g, k1, k2, w1, w2, v1, v2, r1

MCExtractedOf == (a :> {<<k1, k2>>}) @@ (b :> {<<k1>>}) @@ (g :> {<<k1>>})
MCReadsOf == r1 :> {Personal, Group}

Busy == \E w \in Worker : worker[w] # Idle
Unread == reader = [r \in Run |-> NotRunning]

(* Either the member's runs are delivered or the group's; the second when the  *)
(* first is being recorded.  Those that are alike take turns in one order.  A  *)
(* rebuild starts when nothing else is under way, an erasure when there is     *)
(* something to erase; runs are answered when the jobs are done, and after     *)
(* that only lose what they were given.                                        *)
Began == \E s \in Stream : rebuild'[s].running /\ ~rebuild[s].running
BeganLate == \A s \in Stream : rebuild'[s].running /\ ~rebuild[s].running => Len(events[s]) > 1
Rebuilding == \E s \in Stream : rebuild[s].running
Bound ==
    /\ delivered' \in {{}, {g}, {a}, {a, b}}
    /\ b \in delivered' => job[a].state \notin {"none", "pending", "extracting"}
    /\ faults' = 2 => b \notin delivered' /\ UNCHANGED <<delivered, deletion, rebuild>> /\ Unread
    /\ worker[w1] = Idle => worker'[w2] = Idle \/ UNCHANGED worker
    /\ reviewer[v1] = Away => reviewer'[v2] = Away \/ UNCHANGED reviewer
    /\ Began => /\ BeganLate /\ ~Busy /\ \A v \in Reviewer : reviewer[v] = Away
                /\ \A d \in Deletion : ~deletion[d].reading
                /\ Unread /\ faults = 0
    /\ Rebuilding => events' = events /\ UNCHANGED <<deletion, delivered, reader>>
    /\ events'[Group] # events[Group] => reviewer' # reviewer \/ events[Group] # <<>> \/ g \in delivered
    /\ reader # reader' /\ Unread => faults = 0 /\ \A j \in delivered : job[j].state \in Ended
    /\ actionFailed' # actionFailed => job[g].state \in {"none", "pending"}
    /\ feedback' = feedback \/ (reader[r1].step = "answered" /\ feedback' = {<<r1, <<Personal, k1>>>>})
    /\ Unread \/ (UNCHANGED <<delivered, deletion, rebuild>> /\ events[Group] = events'[Group])
===============================================================================
