---------------------------- MODULE RuntimeControl ----------------------------
(***************************************************************************)
(* The runtime control of one component of a tenant: a row of              *)
(* platform_meta.runtime_controls (internal/runtimecontrol/store.go), that *)
(* administrators read with its revision and then set, giving the revision *)
(* they have read, so that nobody overwrites a change he has not seen.     *)
(***************************************************************************)
EXTENDS Naturals

CONSTANTS
    Admin,    \* active members with the role platform_admin
    NotRead   \* instead of a revision

VARIABLES
    revision,   \* of the row, 0 without one
    paused,     \* of the row
    read,       \* admin: the revision it has read and not used yet, if it has
    answer      \* admin: what its last Set returned

controlVars == <<revision, paused, read, answer>>

ControlInit ==
    /\ revision = 0
    /\ paused = FALSE
    /\ read = [a \in Admin |-> NotRead]
    /\ answer = [a \in Admin |-> "none"]

(* Operations: a component without a row is shown as running, at revision 0.   *)
ReadControl(a) ==
    /\ read' = [read EXCEPT ![a] = revision]
    /\ answer' = [answer EXCEPT ![a] = "none"]
    /\ UNCHANGED <<revision, paused>>

(* INSERT ... SELECT ... WHERE expected = 0 ON CONFLICT DO UPDATE ... WHERE    *)
(* revision = expected: the SELECT proposes a row only when a new control is   *)
(* expected, and without a proposed row there is no conflict to update on.     *)
Proposed(expected) == expected = 0
Accepted(expected) == Proposed(expected) /\ (revision > 0 => revision = expected)

Set(a, setting) ==
    /\ read[a] # NotRead
    /\ read' = [read EXCEPT ![a] = NotRead]
    /\ IF Accepted(read[a])
       THEN /\ revision' = revision + 1
            /\ paused' = setting
            /\ answer' = [answer EXCEPT ![a] = "set"]
       ELSE /\ answer' = [answer EXCEPT ![a] = "conflict"]
            /\ UNCHANGED <<revision, paused>>

ControlNext == \E a \in Admin : ReadControl(a) \/ \E setting \in BOOLEAN : Set(a, setting)

ControlSpec == ControlInit /\ [][ControlNext]_controlVars

(* cmd/runtime-control-admin/main.go: the flag -expected-revision is the       *)
(* current revision, or zero when creating the control, and -paused pauses or  *)
(* resumes.  Whoever gives the current revision is then not told of a conflict.*)
ConflictMeansStale ==
    [][\A a \in Admin : answer[a] = "none" /\ answer'[a] = "conflict" =>
          read[a] # revision]_controlVars
===============================================================================
