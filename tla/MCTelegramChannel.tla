--------------------------- MODULE MCTelegramChannel ---------------------------
(* Two accounts: the first is linked by its member with a challenge, and writes*)
(* in its private chat; the second is bound by an operator, to either member,  *)
(* and writes in the group, but may try a code too.  The second poller replaces*)
(* the first.                                                                  *)
EXTENDS TelegramChannel

CONSTANTS u1, u2, m1, m2, p1, p2

Sent(update, i) ==
    /\ i = 1 => update.user = u1
    /\ i = 2 => update.kind = "text" \/ (update.code > 0 /\ (sent[1].kind = "link" => update.user = u2))
    /\ i = 2 => sent[1].kind # "other" /\ (sent[1].kind = "link" => sent[1].code > 0)
    /\ update.chat = IF update.user = u2 /\ update.kind # "link" THEN Group ELSE update.user

(* Updates come before the first process starts: a batch is any part of what is*)
(* there, so that an update may still be met late.  A process dies, or a member*)
(* is suspended, where that makes a difference.                                *)
Early == sent' # sent => \A p \in Poller : poller[p].step = "down"
Midway(p) == poller[p].step \in {"resolved", "done"}

Bound ==
    /\ Early
    /\ faults' # faults => \E p \in Poller : Midway(p) /\ (poller' # poller => poller'[p] # poller[p])
    /\ sent' # sent => Sent(sent'[Len(sent')], Len(sent'))
    /\ \A i \in DOMAIN challenge' : challenge'[i].member = m1
    /\ (\E i \in DOMAIN challenge' : challenge'[i].expired) => Len(challenge') = 1
    /\ m2 \in active'
    /\ principal'[u1] # m2 /\ u2 \notin chats' /\ (principal' # principal /\ poller' = poller => Group \in chats')
    /\ poller[p2].step = "down" /\ poller[p1].step \in {"down", "poll"} => poller'[p2].step = "down"
===============================================================================
