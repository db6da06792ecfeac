-------------------------- MODULE ConversationQueue --------------------------
(***************************************************************************)
(* What the platform promises of one conversation, with nothing said about *)
(* leases, attempts, workers or databases: the turns of a conversation are *)
(* served one at a time, in the order in which they were accepted, and a   *)
(* turn that has been served never comes back.  The `seq` of a lane row    *)
(* (agent.conversation_lanes) is hidden here: only the order it induces is *)
(* promised.  AgentRuns implements this specification.                     *)
(***************************************************************************)
EXTENDS Sequences

CONSTANTS
    Turn,
    Lane,
    LaneOf   \* the lane of each turn

VARIABLES
    backlog,   \* backlog[l]: the accepted, unserved turns of lane l, oldest first
    serving,   \* serving[l]: work on the oldest turn of l has begun
    served     \* the turns that have had their answer, or their failure

vars == <<backlog, serving, served>>

Waiting(t) == \E i \in DOMAIN backlog[LaneOf[t]] : backlog[LaneOf[t]][i] = t

Init ==
    /\ backlog = [l \in Lane |-> <<>>]
    /\ serving = [l \in Lane |-> FALSE]
    /\ served = {}

Accept(t) ==
    /\ t \notin served
    /\ ~Waiting(t)
    /\ backlog' = [backlog EXCEPT ![LaneOf[t]] = Append(@, t)]
    /\ UNCHANGED <<serving, served>>

Begin(l) ==
    /\ backlog[l] # <<>>
    /\ ~serving[l]
    /\ serving' = [serving EXCEPT ![l] = TRUE]
    /\ UNCHANGED <<backlog, served>>

Finish(l) ==
    /\ serving[l]
    /\ served' = served \cup {Head(backlog[l])}
    /\ backlog' = [backlog EXCEPT ![l] = Tail(@)]
    /\ serving' = [serving EXCEPT ![l] = FALSE]

Next ==
    \/ \E t \in Turn : Accept(t)
    \/ \E l \in Lane : Begin(l) \/ Finish(l)

Spec == Init /\ [][Next]_vars
===============================================================================
