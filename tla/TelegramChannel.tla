--------------------------- MODULE TelegramChannel ---------------------------
(***************************************************************************)
(* The Telegram channel: the poller that takes updates from the Bot API,   *)
(* and the tables by which it knows whose they are (internal/telegram/     *)
(* poller.go, store.go, link.go; accepted messages go on as the events of  *)
(* MessageIngestion).  A member asks for a challenge and sends its code    *)
(* from a private chat; an operator may bind an account directly.          *)
(*                                                                         *)
(* Update IDs are the positions of the updates in what has been sent to the*)
(* Bot.  A poller is a process; while one is replaced by another both run. *)
(* External: the Bot API gives out, in order, what no request has asked to *)
(* be beyond.  There is one tenant.                                        *)
(***************************************************************************)
EXTENDS Naturals, Sequences, FiniteSets, FiniteSetsExt

CONSTANTS
    User,          \* Telegram accounts; a private chat is named like its account
    Group,         \* a group chat
    Member,        \* members of the tenant
    NoMember,      \* whom an account without a binding stands for
    Poller,        \* telegram-ingress processes
    MaxUpdates,    \* bound: updates sent to the Bot
    MaxChallenges, \* bound: challenges issued
    MaxFaults      \* bound: processes that die, members that are suspended or restored

Chat == User \cup {Group}

ASSUME ChatType == Group \notin User /\ NoMember \notin Member
ASSUME BoundType == MaxUpdates \in Nat /\ MaxChallenges \in Nat /\ MaxFaults \in Nat

VARIABLES
    sent,       \* the updates of the Bot, in the order of their IDs
    confirmed,  \* the first update that the Bot API still gives out
    offset,     \* telegram_offsets: next_update_id
    poller,     \* poller: where it is in its batch
    inbox,      \* accepted messages in the order of their insertion, with their member
    refused,    \* updates with an ingress_rejections row
    linked,     \* updates that consumed a challenge
    challenge,  \* telegram_link_challenges in the order of their creation
    cooling,    \* members with a challenge created within the cooldown
    principal,  \* account: the member of its telegram_principals row
    chats,      \* telegram_chats
    active,     \* members that are active
    faults

updateVars == <<sent, confirmed>>
outcomeVars == <<inbox, refused, linked>>
bindingVars == <<principal, chats>>
memberVars == <<active, faults>>
linkVars == <<challenge, cooling>>
vars == <<updateVars, offset, poller, outcomeVars, linkVars, bindingVars, memberVars>>

Kinds == {"text", "link", "other"}
Updates == [user : User, chat : Chat, kind : Kinds, code : 0 .. MaxChallenges]
Accepted == [update : 1 .. MaxUpdates, member : Member]
Challenges == [member : Member, state : {"pending", "consumed", "revoked"}, expired : BOOLEAN]
Steps == {"down", "poll", "next", "resolved", "done"}
Down == [step |-> "down", at |-> 1, upto |-> 0, member |-> NoMember]

ChannelTypeOK ==
    /\ sent \in Seq(Updates) /\ Len(sent) <= MaxUpdates
    /\ confirmed \in 1 .. MaxUpdates + 1
    /\ offset \in 1 .. MaxUpdates + 1
    /\ poller \in [Poller -> [step : Steps, at : 1 .. MaxUpdates + 1, upto : 0 .. MaxUpdates,
                              member : Member \cup {NoMember}]]
    /\ inbox \in Seq(Accepted)
    /\ refused \subseteq 1 .. MaxUpdates
    /\ linked \subseteq 1 .. MaxUpdates
    /\ challenge \in Seq(Challenges) /\ Len(challenge) <= MaxChallenges
    /\ cooling \subseteq Member
    /\ principal \in [User -> Member \cup {NoMember}]
    /\ chats \subseteq Chat
    /\ active \subseteq Member
    /\ faults \in 0 .. MaxFaults

Init ==
    /\ sent = <<>> /\ confirmed = 1 /\ offset = 1
    /\ poller = [p \in Poller |-> Down]
    /\ inbox = <<>> /\ refused = {} /\ linked = {}
    /\ challenge = <<>> /\ cooling = {}
    /\ principal = [u \in User |-> NoMember]
    /\ chats = {}
    /\ active = Member
    /\ faults = 0

Fault == faults < MaxFaults /\ faults' = faults + 1

(* An operator whose comment begins with "Fault:" is a plausible mistake in the *)
(* code the operator below it models; no specification uses it, it is there to  *)
(* show that the properties would notice.                                       *)

-------------------------------------------------------------------------------
(* Challenges and bindings                                                    *)

IsBound(m) == \E u \in User : principal[u] = m
Pending(i) == challenge[i].state = "pending"

EarlierRevoked(m) ==
    [i \in DOMAIN challenge |->
        IF challenge[i].member = m /\ Pending(i)
        THEN [challenge[i] EXCEPT !.state = "revoked"] ELSE challenge[i]]

(* CreateLinkChallenge, one serializable transaction.                          *)
Issue(m) ==
    /\ Len(challenge) < MaxChallenges
    /\ m \in active
    /\ ~IsBound(m)
    /\ m \notin cooling
    /\ challenge' = Append(EarlierRevoked(m), [member |-> m, state |-> "pending", expired |-> FALSE])
    /\ cooling' = cooling \cup {m}
    /\ UNCHANGED <<updateVars, offset, poller, outcomeVars, bindingVars, memberVars>>

CooldownEnds(m) ==
    /\ m \in cooling
    /\ cooling' = cooling \ {m}
    /\ UNCHANGED <<updateVars, offset, poller, outcomeVars, challenge, bindingVars, memberVars>>

ChallengeExpires(i) ==
    /\ Pending(i) /\ ~challenge[i].expired
    /\ challenge' = [challenge EXCEPT ![i].expired = TRUE]
    /\ UNCHANGED <<updateVars, offset, poller, outcomeVars, cooling, bindingVars, memberVars>>

(* Bind, by an operator: a row that says the same is touched, one that says    *)
(* something else refuses the transaction.                                     *)
MayBind(u, m) ==
    /\ principal[u] \in {NoMember, m}
    /\ \A v \in User \ {u} : principal[v] # m
Bind(u, m, c) ==
    /\ m \in active
    /\ MayBind(u, m)
    /\ c \in {u, Group}
    /\ <<principal[u], c>> # <<m, c>> \/ c \notin chats
    /\ principal' = [principal EXCEPT ![u] = m]
    /\ chats' = chats \cup {c}
    /\ UNCHANGED <<updateVars, offset, poller, outcomeVars, linkVars, memberVars>>

SwitchMember(m) ==
    /\ Fault
    /\ active' = IF m \in active THEN active \ {m} ELSE active \cup {m}
    /\ UNCHANGED <<updateVars, offset, poller, outcomeVars, linkVars, bindingVars>>

-------------------------------------------------------------------------------
(* The poller                                                                 *)

SendUpdate(update) ==
    /\ Len(sent) < MaxUpdates
    /\ update.kind = "link" => update.code \in 0 .. Len(challenge)
    /\ update.kind # "link" => update.code = 0
    /\ update.chat \in {update.user, Group}
    /\ sent' = Append(sent, update)
    /\ UNCHANGED <<confirmed, offset, poller, outcomeVars, linkVars, bindingVars, memberVars>>

(* Run begins with LoadOffset.                                                 *)
LoadOffset(p) ==
    /\ poller[p].step = "down"
    /\ poller' = [poller EXCEPT ![p] = [Down EXCEPT !.step = "poll", !.at = offset]]
    /\ UNCHANGED <<updateVars, offset, outcomeVars, linkVars, bindingVars, memberVars>>

(* GetUpdates with the offset in memory, which confirms what lies before it.   *)
(* What another process has confirmed is not given out again.                  *)
GetUpdates(p) ==
    LET from == Max({poller[p].at, confirmed}) IN
    /\ poller[p].step = "poll"
    /\ \E upto \in from .. Len(sent) :
          poller' = [poller EXCEPT ![p] = [@ EXCEPT !.step = "next", !.at = from, !.upto = upto]]
    /\ confirmed' = from
    /\ UNCHANGED <<sent, offset, outcomeVars, linkVars, bindingVars, memberVars>>

At(p) == sent[poller[p].at]
Processed(p) == poller' = [poller EXCEPT ![p].step = "done"]

Reject(p) ==
    /\ refused' = refused \cup {poller[p].at}
    /\ Processed(p)
    /\ UNCHANGED <<inbox, linked, bindingVars, linkVars>>

(* The code names a challenge that is still good, of an active member.         *)
Good(i) ==
    /\ i \in DOMAIN challenge
    /\ Pending(i) /\ ~challenge[i].expired
    /\ challenge[i].member \in active

(* Neither row is there: ConsumeLinkChallenge inserts both or nothing.         *)
Unbound(u, m) == principal[u] = NoMember /\ ~IsBound(m) /\ u \notin chats

ConsumeLinkChallenge(p) ==
    LET i == At(p).code
        u == At(p).user
    IN  IF Good(i) /\ Unbound(u, challenge[i].member)
        THEN /\ principal' = [principal EXCEPT ![u] = challenge[i].member]
             /\ chats' = chats \cup {u}
             /\ challenge' = [challenge EXCEPT ![i].state = "consumed"]
             /\ linked' = linked \cup {poller[p].at}
             /\ Processed(p)
             /\ UNCHANGED <<inbox, refused, cooling>>
        ELSE Reject(p)

(* ResolveBinding: the account, the chat, and an active member.                *)
Binds(update) ==
    principal[update.user] \in active /\ update.chat \in chats

(* An update that will not become a message, in its own way each.  Fault: an   *)
(* account that is not bound is an error.                                      *)
UnboundFails(p) == At(p).kind = "other"
Refusable(p) ==
    \/ At(p).kind = "other"
    \/ At(p).kind = "link" /\ At(p).chat = Group
    \/ At(p).kind = "text" /\ ~Binds(At(p))

ProcessNext(p) ==
    /\ poller[p].step = "next"
    /\ \/ Refusable(p) /\ Reject(p)
       \/ /\ At(p).kind = "link" /\ At(p).chat # Group
          /\ ConsumeLinkChallenge(p)
       \/ /\ At(p).kind = "text" /\ Binds(At(p))
          /\ poller' = [poller EXCEPT ![p] = [@ EXCEPT !.step = "resolved",
                                                       !.member = principal[At(p).user]]]
          /\ UNCHANGED <<outcomeVars, bindingVars, linkVars>>
    /\ UNCHANGED <<updateVars, offset, memberVars>>

(* ON CONFLICT DO NOTHING on the message ID.  Fault: it is inserted again.     *)
Never(i) == FALSE
IsAccepted(i) == \E x \in DOMAIN inbox : inbox[x].update = i

(* IngestBound, for the member that was resolved, if he is active still; if he *)
(* is not, process returns the error and the process ends.                     *)
IngestBound(p) ==
    LET i == poller[p].at
        m == poller[p].member
    IN  /\ poller[p].step = "resolved"
        /\ IF m \in active
           THEN /\ inbox' = IF IsAccepted(i) THEN inbox
                            ELSE Append(inbox, [update |-> i, member |-> m])
                /\ Processed(p)
           ELSE /\ poller' = [poller EXCEPT ![p] = Down]
                /\ UNCHANGED inbox
        /\ UNCHANGED <<updateVars, offset, refused, linked, linkVars, bindingVars, memberVars>>

(* SaveOffset with GREATEST, and on to the next update of the batch or the next*)
(* batch.  Fault: the offset is the end of the batch.                          *)
BatchEnd(p) == poller[p].upto + 1
NextOffset(p) == poller[p].at + 1
SaveOffset(p) ==
    /\ poller[p].step = "done"
    /\ offset' = Max({offset, NextOffset(p)})
    /\ poller' = [poller EXCEPT ![p] =
                    [@ EXCEPT !.step = IF poller[p].at = poller[p].upto THEN "poll" ELSE "next",
                              !.at = poller[p].at + 1, !.member = NoMember]]
    /\ UNCHANGED <<updateVars, outcomeVars, linkVars, bindingVars, memberVars>>

PollerDies(p) ==
    /\ Fault
    /\ poller[p].step # "down"
    /\ poller' = [poller EXCEPT ![p] = Down]
    /\ UNCHANGED <<updateVars, offset, outcomeVars, linkVars, bindingVars, active>>

PollerStep(p) ==
    LoadOffset(p) \/ GetUpdates(p) \/ ProcessNext(p) \/ IngestBound(p) \/ SaveOffset(p)

Next ==
    \/ \E m \in Member : Issue(m) \/ CooldownEnds(m) \/ SwitchMember(m)
    \/ \E i \in DOMAIN challenge : ChallengeExpires(i)
    \/ \E u \in User, m \in Member, c \in Chat : Bind(u, m, c)
    \/ \E update \in Updates : SendUpdate(update)
    \/ \E p \in Poller : PollerStep(p) \/ PollerDies(p)

(* Each process is restarted when it ends, and its loop goes on.               *)
Fairness == \A p \in Poller : WF_vars(PollerStep(p))

Spec == Init /\ [][Next]_vars /\ Fairness

-------------------------------------------------------------------------------
(* Properties                                                                 *)

Handled(i) == i \in refused \/ i \in linked \/ IsAccepted(i)

(* The Bot API forgets what is before the offset of a request: whatever is     *)
(* forgotten, or passed over at the next start, has been accepted, refused or  *)
(* used to link an account, whenever a process died.                           *)
NothingLost == \A i \in DOMAIN sent : i < offset \/ i < confirmed => Handled(i)

(* A message is attributed to the member its account is bound to, now and later*)
(* (the binding is resolved in one transaction and used in another).           *)
AttributedToBound ==
    \A x \in DOMAIN inbox : principal[sent[inbox[x].update].user] = inbox[x].member

(* telegram-identity-linking.md, State model and Invariants: at most one live  *)
(* challenge per member; an account stands for one member and a member for one *)
(* account; a challenge is consumed together with the binding it makes.        *)
LinkingInv ==
    /\ \A i, j \in DOMAIN challenge :
          i # j /\ Pending(i) /\ Pending(j) => challenge[i].member # challenge[j].member
    /\ \A u, v \in User : principal[u] = principal[v] /\ principal[u] # NoMember => u = v
    /\ Cardinality({i \in DOMAIN challenge : challenge[i].state = "consumed"}) = Cardinality(linked)
    /\ \A i \in DOMAIN challenge : challenge[i].state = "consumed" => IsBound(challenge[i].member)
    /\ \A i \in linked : principal[sent[i].user] = challenge[sent[i].code].member

(* Updates, messages and bindings agree whenever a poller dies or is replaced  *)
(* (telegram/poller.go Run, process; telegram/store.go ConsumeLinkChallenge).  *)
ChannelInv == ChannelTypeOK /\ NothingLost /\ AttributedToBound /\ LinkingInv

(* Messages are accepted once and in the order of their updates.  The exception*)
(* is one that was refused before: when its update is processed again, because *)
(* its process died or is being replaced, its account may have been bound.     *)
InOrderUnlessRefused ==
    \A x, y \in DOMAIN inbox :
        x < y => inbox[x].update < inbox[y].update \/ inbox[y].update \in refused

(* Every update is handled in the end: none of them can stop the poller.       *)
EveryUpdateHandled == \A i \in 1 .. MaxUpdates : i \in DOMAIN sent ~> Handled(i)
===============================================================================
