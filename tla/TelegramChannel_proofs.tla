------------------------ MODULE TelegramChannel_proofs ------------------------
(***************************************************************************)
(* Proofs about TelegramChannel, for any accounts, members and pollers and *)
(* any number of updates, challenges and failures.                         *)
(*                                                                         *)
(* Everything rests on where the pollers are: each of them, whichever dies *)
(* or is replaced, has only updates behind it that are handled             *)
(* (PositionsOK).  A message is accepted at such a place, which is why the *)
(* accepted ones are in order, and of the account that was resolved there, *)
(* whose binding is never changed (Grows).                                 *)
(***************************************************************************)
EXTENDS TelegramChannel, SequenceTheorems, FiniteSetTheorems, TLAPS

-------------------------------------------------------------------------------
(* The invariant                                                              *)

PosOf(p) ==
    /\ poller[p].step # "down" =>
          /\ poller[p].at <= Len(sent) + 1
          /\ \A i \in DOMAIN sent : i < poller[p].at => Handled(i)
    /\ poller[p].step \in {"next", "resolved", "done"} =>
          poller[p].at <= poller[p].upto /\ poller[p].upto <= Len(sent)
    /\ poller[p].step = "done" => Handled(poller[p].at)
    /\ poller[p].step = "resolved" =>
          /\ At(p).kind = "text"
          /\ poller[p].member \in Member
          /\ principal[At(p).user] = poller[p].member

PositionsOK ==
    /\ offset <= Len(sent) + 1 /\ confirmed <= Len(sent) + 1
    /\ \A p \in Poller : PosOf(p)

(* Whatever lies before an accepted message is handled.                        *)
AcceptedInTurn ==
    \A x \in DOMAIN inbox :
        /\ inbox[x].update \in DOMAIN sent
        /\ \A i \in DOMAIN sent : i <= inbox[x].update => Handled(i)

LinkedOK ==
    \A i \in linked :
        /\ i \in DOMAIN sent /\ sent[i].kind = "link"
        /\ sent[i].code \in DOMAIN challenge /\ challenge[sent[i].code].state = "consumed"

(* The parts of LinkingInv.                                                    *)
Consumed == {i \in DOMAIN challenge : challenge[i].state = "consumed"}
OnePending ==
    \A i, j \in DOMAIN challenge :
        i # j /\ Pending(i) /\ Pending(j) => challenge[i].member # challenge[j].member
OneAccount == \A u, v \in User : principal[u] = principal[v] /\ principal[u] # NoMember => u = v
ConsumedCounted == Cardinality(Consumed) = Cardinality(linked)
ConsumedBound == \A i \in DOMAIN challenge : challenge[i].state = "consumed" => IsBound(challenge[i].member)
LinkedAccount == \A i \in linked : principal[sent[i].user] = challenge[sent[i].code].member

ChannelIInv ==
    /\ ChannelInv /\ InOrderUnlessRefused
    /\ PositionsOK /\ AcceptedInTurn /\ LinkedOK

LEMMA LinkingParts == LinkingInv <=> OnePending /\ OneAccount /\ ConsumedCounted /\ ConsumedBound /\ LinkedAccount
BY DEF LinkingInv, OnePending, OneAccount, ConsumedCounted, Consumed, ConsumedBound, LinkedAccount

-------------------------------------------------------------------------------
(* Helpers                                                                    *)

LEMMA MaxOfTwo == ASSUME NEW a \in Nat, NEW b \in Nat PROVE Max({a, b}) = IF a >= b THEN a ELSE b
<1> DEFINE m == IF a >= b THEN a ELSE b
<1>1. m \in {a, b} /\ \A y \in {a, b} : m >= y
  OBVIOUS
<1>2. \A x \in {a, b} : (\A y \in {a, b} : x >= y) => x = m
  OBVIOUS
<1> QED BY <1>1, <1>2 DEF Max

LEMMA LengthOf == ASSUME NEW S, NEW s \in Seq(S) PROVE Len(s) \in Nat /\ DOMAIN s = 1 .. Len(s)
OBVIOUS

LEMMA ElementOf == ASSUME NEW S, NEW s \in Seq(S), NEW i \in DOMAIN s PROVE s[i] \in S
OBVIOUS

LEMMA Elements ==
    ASSUME ChannelTypeOK
    PROVE  /\ \A i \in DOMAIN sent : /\ sent[i] \in Updates /\ sent[i].user \in User
                                     /\ sent[i].kind \in Kinds /\ sent[i].code \in 0 .. MaxChallenges
           /\ \A x \in DOMAIN inbox : /\ inbox[x] \in Accepted /\ inbox[x].member \in Member
                                      /\ inbox[x].member # NoMember /\ inbox[x].update \in Nat
           /\ \A i \in DOMAIN challenge : /\ challenge[i] \in Challenges /\ challenge[i].member \in Member
                                          /\ challenge[i].member # NoMember
<1>1. \A i \in DOMAIN sent : sent[i] \in Updates
  BY ElementOf DEF ChannelTypeOK
<1>2. \A x \in DOMAIN inbox : inbox[x] \in Accepted
  BY ElementOf DEF ChannelTypeOK
<1>3. \A i \in DOMAIN challenge : challenge[i] \in Challenges
  BY ElementOf DEF ChannelTypeOK
<1> QED BY <1>1, <1>2, <1>3, ChatType DEF Updates, Accepted, Challenges

(* What no step ever takes back.                                               *)
Grows ==
    /\ Len(sent) <= Len(sent') /\ \A i \in DOMAIN sent : i \in DOMAIN sent' /\ sent'[i] = sent[i]
    /\ refused \subseteq refused' /\ linked \subseteq linked'
    /\ \A x \in DOMAIN inbox : x \in DOMAIN inbox' /\ inbox'[x] = inbox[x]
    /\ \A u \in User : principal[u] # NoMember => principal'[u] = principal[u]
    /\ \A i \in DOMAIN challenge :
          /\ i \in DOMAIN challenge' /\ challenge'[i].member = challenge[i].member
          /\ challenge[i].state = "consumed" => challenge'[i].state = "consumed"
          /\ challenge'[i].state = "pending" => challenge[i].state = "pending"

LEMMA HandledStays == ASSUME Grows, NEW i, Handled(i) PROVE Handled(i)'
BY DEF Grows, Handled, IsAccepted

LEMMA BoundStays ==
    ASSUME ChannelTypeOK, Grows, NEW m \in Member, IsBound(m)
    PROVE  IsBound(m)'
BY ChatType DEF Grows, IsBound, ChannelTypeOK

(* The places of a poller, of the offset and of the Bot API are numbers.       *)
LEMMA Places ==
    ASSUME ChannelTypeOK
    PROVE  /\ sent \in Seq(Updates) /\ Len(sent) \in Nat /\ DOMAIN sent = 1 .. Len(sent)
           /\ MaxUpdates \in Nat /\ offset \in Nat \ {0} /\ confirmed \in Nat \ {0}
           /\ \A p \in Poller : poller[p].at \in Nat \ {0} /\ poller[p].upto \in Nat
BY BoundType DEF ChannelTypeOK

LEMMA PosStays ==
    ASSUME ChannelTypeOK, ChannelTypeOK', Grows, NEW p \in Poller, PosOf(p), poller'[p] = poller[p]
    PROVE  PosOf(p)'
<1>1. /\ Len(sent) \in Nat /\ DOMAIN sent = 1 .. Len(sent)
      /\ Len(sent') \in Nat /\ DOMAIN sent' = 1 .. Len(sent')
      /\ poller[p].at \in Nat \ {0} /\ poller[p].upto \in Nat
      /\ Len(sent) <= Len(sent')
  <2>1. sent' \in Seq(Updates)
    BY DEF ChannelTypeOK
  <2> QED BY <2>1, Places, LengthOf DEF Grows
<1>2. ASSUME poller[p].step # "down"
      PROVE  /\ poller[p].at <= Len(sent') + 1
             /\ \A i \in DOMAIN sent' : i < poller[p].at => Handled(i)'
  <2>1. poller[p].at <= Len(sent) + 1 /\ \A i \in DOMAIN sent : i < poller[p].at => Handled(i)
    BY <1>2 DEF PosOf
  <2> QED BY <1>1, <2>1, HandledStays
<1>3. ASSUME poller[p].step \in {"next", "resolved", "done"}
      PROVE  /\ poller[p].at <= poller[p].upto /\ poller[p].upto <= Len(sent')
             /\ poller[p].at \in DOMAIN sent /\ sent'[poller[p].at] = sent[poller[p].at]
  BY <1>1, <1>3 DEF PosOf, Grows
<1>4. poller[p].step = "done" => Handled(poller[p].at)'
  <2> PICK at : at = poller[p].at
    OBVIOUS
  <2>1. poller[p].step = "done" => Handled(at)
    BY DEF PosOf
  <2>2. poller[p].step = "done" => Handled(at)'
    BY <2>1, HandledStays
  <2>3. at = poller'[p].at
    OBVIOUS
  <2> QED BY <2>2, <2>3 DEF Handled, IsAccepted
<1>5. ASSUME poller[p].step = "resolved"
      PROVE  /\ sent'[poller[p].at].kind = "text" /\ poller[p].member \in Member
             /\ principal'[sent'[poller[p].at].user] = poller[p].member
  <2>1. /\ sent[poller[p].at].kind = "text" /\ poller[p].member \in Member
        /\ principal[sent[poller[p].at].user] = poller[p].member
    BY <1>5 DEF PosOf, At
  <2>2. sent[poller[p].at].user \in User /\ poller[p].member # NoMember
    BY <1>3, <1>5, <2>1, ChatType, Elements
  <2> QED BY <1>3, <1>5, <2>1, <2>2 DEF Grows
<1> QED
  BY <1>2, <1>3, <1>4, <1>5 DEF PosOf, At, Handled, IsAccepted

LEMMA BehindStays ==
    ASSUME ChannelTypeOK, ChannelTypeOK', Grows, NEW n \in Nat, n <= Len(sent) + 1,
           \A i \in DOMAIN sent : i < n => Handled(i)
    PROVE  n <= Len(sent') + 1 /\ \A i \in DOMAIN sent' : i < n => Handled(i)'
<1>1. /\ Len(sent) \in Nat /\ DOMAIN sent = 1 .. Len(sent)
      /\ Len(sent') \in Nat /\ DOMAIN sent' = 1 .. Len(sent')
      /\ Len(sent) <= Len(sent')
  <2>1. sent' \in Seq(Updates)
    BY DEF ChannelTypeOK
  <2> QED BY <2>1, Places, LengthOf DEF Grows
<1> QED BY <1>1, HandledStays

(* A step that only adds messages, updates or bindings.                        *)
LEMMA StandStill ==
    ASSUME ChannelIInv, ChannelTypeOK', Grows, UNCHANGED <<offset, confirmed, poller>>
    PROVE  NothingLost' /\ PositionsOK'
<1>1. /\ ChannelTypeOK /\ offset \in Nat /\ confirmed \in Nat
      /\ offset <= Len(sent) + 1 /\ confirmed <= Len(sent) + 1
      /\ \A i \in DOMAIN sent : i < offset => Handled(i)
      /\ \A i \in DOMAIN sent : i < confirmed => Handled(i)
      /\ \A p \in Poller : PosOf(p)
  BY Places DEF ChannelIInv, ChannelInv, NothingLost, PositionsOK
<1>2. offset <= Len(sent') + 1 /\ \A i \in DOMAIN sent' : i < offset => Handled(i)'
  BY <1>1, BehindStays
<1>3. confirmed <= Len(sent') + 1 /\ \A i \in DOMAIN sent' : i < confirmed => Handled(i)'
  BY <1>1, BehindStays
<1>4. \A p \in Poller : PosOf(p)'
  BY <1>1, PosStays
<1> QED BY <1>2, <1>3, <1>4 DEF NothingLost, PositionsOK

LEMMA InboxStays ==
    ASSUME ChannelIInv, ChannelTypeOK', Grows, UNCHANGED inbox
    PROVE  AttributedToBound' /\ InOrderUnlessRefused' /\ AcceptedInTurn'
<1>1. /\ ChannelTypeOK /\ AttributedToBound /\ InOrderUnlessRefused /\ AcceptedInTurn
  BY DEF ChannelIInv, ChannelInv
<1>2. /\ Len(sent) \in Nat /\ DOMAIN sent = 1 .. Len(sent)
      /\ Len(sent') \in Nat /\ DOMAIN sent' = 1 .. Len(sent')
      /\ Len(sent) <= Len(sent') /\ sent \in Seq(Updates)
  <2>1. sent' \in Seq(Updates)
    BY DEF ChannelTypeOK
  <2> QED BY <1>1, <2>1, Places, LengthOf DEF Grows
<1>3. ASSUME NEW x \in DOMAIN inbox
      PROVE  /\ inbox[x].update \in DOMAIN sent /\ inbox[x].member \in Member
             /\ sent'[inbox[x].update] = sent[inbox[x].update]
             /\ sent[inbox[x].update].user \in User
  <2>1. inbox[x].update \in DOMAIN sent
    BY <1>1 DEF AcceptedInTurn
  <2> QED BY <1>1, <2>1, Elements DEF Grows
<1>4. AttributedToBound'
  BY <1>1, <1>3, ChatType DEF AttributedToBound, Grows
<1>5. InOrderUnlessRefused'
  BY <1>1 DEF InOrderUnlessRefused, Grows
<1>6. AcceptedInTurn'
  <2> SUFFICES ASSUME NEW x \in DOMAIN inbox
               PROVE  /\ inbox[x].update \in DOMAIN sent'
                      /\ \A i \in DOMAIN sent' : i <= inbox[x].update => Handled(i)'
    BY DEF AcceptedInTurn
  <2>1. /\ inbox[x].update \in DOMAIN sent
        /\ \A i \in DOMAIN sent : i <= inbox[x].update => Handled(i)
    BY <1>1 DEF AcceptedInTurn
  <2> QED BY <1>2, <2>1, HandledStays
<1> QED BY <1>4, <1>5, <1>6

LEMMA LinksStay ==
    ASSUME ChannelIInv, ChannelTypeOK', Grows, UNCHANGED linked, UNCHANGED Consumed
    PROVE  ConsumedCounted' /\ ConsumedBound' /\ LinkedAccount' /\ LinkedOK'
<1>1. ChannelTypeOK /\ ConsumedCounted /\ ConsumedBound /\ LinkedAccount /\ LinkedOK
  BY LinkingParts DEF ChannelIInv, ChannelInv
<1>2. ConsumedCounted'
  BY <1>1 DEF ConsumedCounted
<1>3. ConsumedBound'
  <2> SUFFICES ASSUME NEW i \in Consumed PROVE IsBound(challenge[i].member)' /\ i \in DOMAIN challenge'
    BY DEF ConsumedBound, Consumed, Grows
  <2>1. IsBound(challenge[i].member) /\ challenge[i].member \in Member /\ i \in DOMAIN challenge
    BY <1>1, Elements DEF ConsumedBound, Consumed
  <2> PICK m : m = challenge[i].member
    OBVIOUS
  <2>2. IsBound(m)'
    BY <1>1, <2>1, BoundStays
  <2> QED BY <2>1, <2>2 DEF Grows, IsBound
<1>4. LinkedOK' /\ LinkedAccount'
  <2> SUFFICES ASSUME NEW i \in linked
               PROVE  /\ i \in DOMAIN sent' /\ sent'[i].kind = "link"
                      /\ sent'[i].code \in DOMAIN challenge' /\ challenge'[sent'[i].code].state = "consumed"
                      /\ principal'[sent'[i].user] = challenge'[sent'[i].code].member
    BY DEF LinkedOK, LinkedAccount
  <2>1. /\ i \in DOMAIN sent /\ sent[i].kind = "link"
        /\ sent[i].code \in DOMAIN challenge /\ challenge[sent[i].code].state = "consumed"
        /\ principal[sent[i].user] = challenge[sent[i].code].member
    BY <1>1 DEF LinkedOK, LinkedAccount
  <2>2. sent[i].user \in User /\ challenge[sent[i].code].member # NoMember
    BY <1>1, <2>1, Elements
  <2> QED BY <2>1, <2>2 DEF Grows
<1> QED BY <1>2, <1>3, <1>4

(* A step of one poller, which may move the offset or the Bot API with it.     *)
LEMMA PollerMoves ==
    ASSUME ChannelIInv, ChannelTypeOK', Grows, NEW p \in Poller, PosOf(p)',
           \A q \in Poller \ {p} : poller'[q] = poller[q],
           offset' <= Len(sent) + 1, \A i \in DOMAIN sent : i < offset' => Handled(i)',
           confirmed' <= Len(sent) + 1, \A i \in DOMAIN sent : i < confirmed' => Handled(i)'
    PROVE  NothingLost' /\ PositionsOK'
<1>1. /\ Len(sent) \in Nat /\ DOMAIN sent = 1 .. Len(sent)
      /\ Len(sent') \in Nat /\ DOMAIN sent' = 1 .. Len(sent')
      /\ Len(sent) <= Len(sent') /\ offset' \in Nat /\ confirmed' \in Nat
      /\ ChannelTypeOK
  <2>1. sent' \in Seq(Updates) /\ offset' \in Nat /\ confirmed' \in Nat
    BY BoundType DEF ChannelTypeOK
  <2> QED BY <2>1, Places, LengthOf DEF ChannelIInv, ChannelInv, Grows
<1>2. \A q \in Poller : PosOf(q)'
  BY <1>1, PosStays DEF ChannelIInv, PositionsOK
<1>3. NothingLost' /\ offset' <= Len(sent') + 1 /\ confirmed' <= Len(sent') + 1
  BY <1>1 DEF NothingLost
<1> QED BY <1>2, <1>3 DEF PositionsOK

LEMMA OnePendingStays ==
    ASSUME ChannelIInv, Grows, DOMAIN challenge' = DOMAIN challenge
    PROVE  OnePending'
BY LinkingParts DEF ChannelIInv, ChannelInv, Grows, OnePending, Pending

LEMMA OneAccountStays == ASSUME ChannelIInv, UNCHANGED principal PROVE OneAccount'
BY LinkingParts DEF ChannelIInv, ChannelInv, OneAccount

LEMMA Together ==
    ASSUME ChannelTypeOK', NothingLost', PositionsOK',
           AttributedToBound', InOrderUnlessRefused', AcceptedInTurn',
           OnePending', OneAccount', ConsumedCounted', ConsumedBound', LinkedAccount', LinkedOK'
    PROVE  ChannelIInv'
<1>1. LinkingInv'
  BY DEF LinkingInv, OnePending, OneAccount, ConsumedCounted, Consumed, ConsumedBound, LinkedAccount
<1> QED BY <1>1 DEF ChannelIInv, ChannelInv

-------------------------------------------------------------------------------
(* Challenges, bindings, members and the users                                *)

LEMMA InitChannel == Init => ChannelIInv
<1> SUFFICES ASSUME Init PROVE ChannelIInv
  OBVIOUS
<1>1. Down \in [step : Steps, at : 1 .. MaxUpdates + 1, upto : 0 .. MaxUpdates, member : Member \cup {NoMember}]
  BY BoundType DEF Down, Steps
<1>2. <<>> \in Seq(Updates) /\ <<>> \in Seq(Accepted) /\ <<>> \in Seq(Challenges) /\ Len(<<>>) = 0
  OBVIOUS
<1>3. ChannelTypeOK
  BY <1>1, <1>2, BoundType DEF Init, ChannelTypeOK
<1>4. NothingLost /\ AttributedToBound /\ InOrderUnlessRefused /\ AcceptedInTurn /\ LinkedOK
  BY DEF Init, NothingLost, AttributedToBound, InOrderUnlessRefused, AcceptedInTurn, LinkedOK
<1>5. PositionsOK
  BY <1>2 DEF Init, PositionsOK, PosOf, Down
<1>6. OnePending /\ OneAccount /\ ConsumedBound /\ LinkedAccount
  BY DEF Init, OnePending, OneAccount, ConsumedBound, LinkedAccount
<1>7. ConsumedCounted
  <2>1. Consumed = {} /\ linked = {}
    BY DEF Init, Consumed
  <2> QED BY <2>1 DEF ConsumedCounted
<1> QED BY <1>3, <1>4, <1>5, <1>6, <1>7, LinkingParts DEF ChannelIInv, ChannelInv

(* A step that changes challenges but consumes none.                           *)
LEMMA ChallengeStep ==
    ASSUME ChannelIInv, ChannelTypeOK', Grows, OnePending', UNCHANGED Consumed,
           UNCHANGED <<updateVars, offset, poller, outcomeVars, principal>>
    PROVE  ChannelIInv'
BY StandStill, InboxStays, LinksStay, OneAccountStays, Together DEF updateVars, outcomeVars

LEMMA IssueStep == ASSUME ChannelIInv, NEW m \in Member, Issue(m) PROVE ChannelIInv'
<1> DEFINE earlier == EarlierRevoked(m)
           new == [member |-> m, state |-> "pending", expired |-> FALSE]
<1>1. /\ ChannelTypeOK /\ OnePending /\ challenge \in Seq(Challenges) /\ Len(challenge) \in Nat
      /\ DOMAIN challenge = 1 .. Len(challenge) /\ Len(challenge) < MaxChallenges
      /\ MaxChallenges \in Nat /\ challenge' = Append(earlier, new)
  BY LinkingParts, LengthOf, BoundType DEF ChannelIInv, ChannelInv, ChannelTypeOK, Issue
<1>2. new \in Challenges /\ new.member = m /\ new.state = "pending"
  BY DEF Challenges
<1>3. \A i \in DOMAIN challenge :
         /\ earlier[i] \in Challenges /\ earlier[i].member = challenge[i].member
         /\ earlier[i].state = IF challenge[i].member = m /\ challenge[i].state = "pending"
                               THEN "revoked" ELSE challenge[i].state
  <2>1. \A i \in DOMAIN challenge : challenge[i] \in Challenges
    BY <1>1, Elements
  <2> QED BY <2>1 DEF EarlierRevoked, Pending, Challenges
<1>4. earlier \in Seq(Challenges) /\ Len(earlier) = Len(challenge)
  BY <1>1, <1>3 DEF EarlierRevoked
<1> HIDE DEF earlier, new
<1>5. /\ challenge' \in Seq(Challenges) /\ Len(challenge') = Len(challenge) + 1
      /\ \A i \in 1 .. Len(challenge) : challenge'[i] = earlier[i]
      /\ challenge'[Len(challenge) + 1] = new
  BY <1>1, <1>2, <1>4, AppendProperties
<1>6. DOMAIN challenge' = 1 .. Len(challenge) + 1
  BY <1>5, LengthOf
<1>7. ChannelTypeOK'
  BY <1>1, <1>5 DEF Issue, ChannelTypeOK, updateVars, outcomeVars, bindingVars, memberVars
<1>8. Grows
  <2>1. \A i \in DOMAIN challenge :
          /\ i \in DOMAIN challenge' /\ challenge'[i].member = challenge[i].member
          /\ challenge[i].state = "consumed" => challenge'[i].state = "consumed"
          /\ challenge'[i].state = "pending" => challenge[i].state = "pending"
    BY <1>1, <1>3, <1>5, <1>6
  <2>2. Len(sent) \in Nat
    BY <1>1, Places
  <2> QED BY <2>1, <2>2 DEF Issue, Grows, updateVars, outcomeVars, bindingVars
<1>9. OnePending'
  <2> SUFFICES ASSUME NEW i \in 1 .. Len(challenge) + 1, NEW j \in 1 .. Len(challenge) + 1, i # j,
                      challenge'[i].state = "pending", challenge'[j].state = "pending"
               PROVE  challenge'[i].member # challenge'[j].member
    BY <1>6 DEF OnePending, Pending
  <2>1. \A k \in 1 .. Len(challenge) :
           challenge'[k].state = "pending" =>
              challenge[k].state = "pending" /\ challenge'[k].member = challenge[k].member
                                             /\ challenge'[k].member # m
    BY <1>1, <1>3, <1>5
  <2>2. CASE i \in 1 .. Len(challenge) /\ j \in 1 .. Len(challenge)
    BY <1>1, <2>1, <2>2 DEF OnePending, Pending
  <2>3. CASE i = Len(challenge) + 1
    <3>1. j \in 1 .. Len(challenge)
      BY <1>1, <2>3
    <3> QED BY <1>2, <1>5, <2>1, <2>3, <3>1
  <2>4. CASE j = Len(challenge) + 1
    <3>1. i \in 1 .. Len(challenge)
      BY <1>1, <2>4
    <3> QED BY <1>2, <1>5, <2>1, <2>4, <3>1
  <2>5. \A k \in 1 .. Len(challenge) + 1 : k = Len(challenge) + 1 \/ k \in 1 .. Len(challenge)
    BY <1>1
  <2> QED BY <2>2, <2>3, <2>4, <2>5
<1>10. Consumed' = Consumed
  <2>1. \A i \in 1 .. Len(challenge) : challenge'[i].state = "consumed" <=> challenge[i].state = "consumed"
    BY <1>1, <1>3, <1>5
  <2>2. challenge'[Len(challenge) + 1].state # "consumed"
    BY <1>2, <1>5
  <2> QED BY <1>1, <1>6, <2>1, <2>2 DEF Consumed
<1> QED BY <1>7, <1>8, <1>9, <1>10, ChallengeStep DEF Issue, bindingVars

LEMMA CooldownStep == ASSUME ChannelIInv, NEW m \in Member, CooldownEnds(m) PROVE ChannelIInv'
<1>1. ChannelTypeOK
  BY DEF ChannelIInv, ChannelInv
<1>2. ChannelTypeOK'
  BY <1>1 DEF CooldownEnds, ChannelTypeOK, updateVars, outcomeVars, bindingVars, memberVars
<1>3. Grows
  BY <1>1, Places DEF CooldownEnds, Grows, updateVars, outcomeVars, bindingVars
<1>4. OnePending' /\ Consumed' = Consumed
  BY <1>3, OnePendingStays DEF CooldownEnds, Consumed
<1> QED BY <1>2, <1>3, <1>4, ChallengeStep DEF CooldownEnds, bindingVars

LEMMA ExpiryStep == ASSUME ChannelIInv, NEW i \in DOMAIN challenge, ChallengeExpires(i) PROVE ChannelIInv'
<1>1. /\ ChannelTypeOK /\ challenge \in Seq(Challenges) /\ Len(challenge) \in Nat
      /\ DOMAIN challenge = 1 .. Len(challenge)
      /\ \A j \in DOMAIN challenge : challenge[j] \in Challenges
  BY LengthOf, Elements DEF ChannelIInv, ChannelInv, ChannelTypeOK
<1> DEFINE expired == [challenge[i] EXCEPT !.expired = TRUE]
<1>2. /\ expired \in Challenges /\ expired.member = challenge[i].member
      /\ expired.state = challenge[i].state
  BY <1>1 DEF Challenges
<1>3. challenge' = [challenge EXCEPT ![i] = expired]
  BY DEF ChallengeExpires
<1> HIDE DEF expired
<1>4. /\ challenge' \in Seq(Challenges) /\ Len(challenge') = Len(challenge)
      /\ \A j \in 1 .. Len(challenge) : challenge'[j] = IF j = i THEN expired ELSE challenge[j]
  BY <1>1, <1>2, <1>3, ExceptSeq
<1>5. DOMAIN challenge' = DOMAIN challenge
  BY <1>1, <1>4, LengthOf
<1>6. ChannelTypeOK'
  BY <1>1, <1>4 DEF ChallengeExpires, ChannelTypeOK, updateVars, outcomeVars, bindingVars, memberVars
<1>7. \A j \in DOMAIN challenge : challenge'[j].member = challenge[j].member /\ challenge'[j].state = challenge[j].state
  BY <1>1, <1>2, <1>4
<1>8. Grows
  <2>1. Len(sent) \in Nat
    BY <1>1, Places
  <2> QED BY <1>5, <1>7, <2>1 DEF ChallengeExpires, Grows, updateVars, outcomeVars, bindingVars
<1>9. OnePending' /\ Consumed' = Consumed
  BY <1>5, <1>7, <1>8, OnePendingStays DEF Consumed
<1> QED BY <1>6, <1>8, <1>9, ChallengeStep DEF ChallengeExpires, bindingVars

LEMMA BindStep ==
    ASSUME ChannelIInv, NEW u \in User, NEW m \in Member, NEW c \in Chat, Bind(u, m, c)
    PROVE  ChannelIInv'
<1>1. ChannelTypeOK /\ OneAccount /\ principal \in [User -> Member \cup {NoMember}]
  BY LinkingParts DEF ChannelIInv, ChannelInv, ChannelTypeOK
<1>2. ChannelTypeOK'
  BY <1>1 DEF Bind, ChannelTypeOK, updateVars, outcomeVars, linkVars, memberVars
<1>3. Grows
  <2>1. Len(sent) \in Nat
    BY <1>1, Places
  <2>2. \A v \in User : principal[v] # NoMember => principal'[v] = principal[v]
    BY <1>1 DEF Bind, MayBind
  <2> QED BY <2>1, <2>2 DEF Bind, Grows, updateVars, outcomeVars, linkVars
<1>4. OneAccount'
  BY <1>1 DEF Bind, MayBind, OneAccount
<1>5. OnePending' /\ Consumed' = Consumed
  BY <1>3, OnePendingStays DEF Bind, Consumed, linkVars
<1> QED BY <1>2, <1>3, <1>4, <1>5, StandStill, InboxStays, LinksStay, Together DEF Bind, updateVars, outcomeVars

LEMMA SwitchStep == ASSUME ChannelIInv, NEW m \in Member, SwitchMember(m) PROVE ChannelIInv'
<1>1. ChannelTypeOK
  BY DEF ChannelIInv, ChannelInv
<1>2. ChannelTypeOK'
  BY <1>1, BoundType DEF SwitchMember, Fault, ChannelTypeOK, updateVars, outcomeVars, bindingVars, linkVars
<1>3. Grows
  BY <1>1, Places DEF SwitchMember, Grows, updateVars, outcomeVars, bindingVars, linkVars
<1>4. OnePending' /\ Consumed' = Consumed
  BY <1>3, OnePendingStays DEF SwitchMember, Consumed, linkVars
<1> QED BY <1>2, <1>3, <1>4, ChallengeStep DEF SwitchMember, bindingVars

LEMMA SendStep == ASSUME ChannelIInv, NEW update \in Updates, SendUpdate(update) PROVE ChannelIInv'
<1>1. /\ ChannelTypeOK /\ sent \in Seq(Updates) /\ Len(sent) \in Nat /\ DOMAIN sent = 1 .. Len(sent)
      /\ MaxUpdates \in Nat
  BY Places DEF ChannelIInv, ChannelInv
<1>2. /\ sent' \in Seq(Updates) /\ Len(sent') = Len(sent) + 1
      /\ \A i \in 1 .. Len(sent) : sent'[i] = sent[i]
  BY <1>1, AppendProperties DEF SendUpdate
<1>3. DOMAIN sent' = 1 .. Len(sent) + 1
  BY <1>2, LengthOf
<1>4. ChannelTypeOK'
  BY <1>1, <1>2 DEF SendUpdate, ChannelTypeOK, outcomeVars, linkVars, bindingVars, memberVars
<1>5. Grows
  BY <1>1, <1>2, <1>3 DEF SendUpdate, Grows, outcomeVars, linkVars, bindingVars
<1>6. OnePending' /\ OneAccount' /\ Consumed' = Consumed
  BY <1>5, OnePendingStays, OneAccountStays DEF SendUpdate, Consumed, linkVars, bindingVars
<1> QED BY <1>4, <1>5, <1>6, StandStill, InboxStays, LinksStay, Together DEF SendUpdate, outcomeVars

-------------------------------------------------------------------------------
(* The pollers                                                                *)

PollerAt == [step : Steps, at : 1 .. MaxUpdates + 1, upto : 0 .. MaxUpdates, member : Member \cup {NoMember}]

LEMMA DownOK == Down \in PollerAt /\ Down.step = "down"
BY BoundType DEF Down, PollerAt, Steps

(* A step that moves one poller and leaves updates, outcomes and bindings.     *)
LEMMA MovesOnly ==
    ASSUME ChannelIInv, NEW p \in Poller, NEW next \in PollerAt, poller' = [poller EXCEPT ![p] = next],
           offset' \in 1 .. Len(sent) + 1, \A i \in DOMAIN sent : i < offset' => Handled(i),
           confirmed' \in 1 .. Len(sent) + 1, \A i \in DOMAIN sent : i < confirmed' => Handled(i),
           faults' \in 0 .. MaxFaults, PosOf(p)',
           UNCHANGED <<sent, active, outcomeVars, linkVars, bindingVars>>
    PROVE  ChannelIInv'
<1>1. /\ ChannelTypeOK /\ sent \in Seq(Updates) /\ Len(sent) \in Nat /\ DOMAIN sent = 1 .. Len(sent)
      /\ MaxUpdates \in Nat /\ Len(sent) <= MaxUpdates
  BY Places DEF ChannelIInv, ChannelInv, ChannelTypeOK
<1>2. ChannelTypeOK'
  <2>1. poller' \in [Poller -> PollerAt]
    BY <1>1 DEF ChannelTypeOK, PollerAt
  <2>2. offset' \in 1 .. MaxUpdates + 1 /\ confirmed' \in 1 .. MaxUpdates + 1
    BY <1>1
  <2> QED BY <1>1, <2>1, <2>2 DEF ChannelTypeOK, PollerAt, outcomeVars, linkVars, bindingVars
<1>3. Grows
  BY <1>1 DEF Grows, outcomeVars, linkVars, bindingVars
<1>4. NothingLost' /\ PositionsOK'
  <2>1. \A q \in Poller \ {p} : poller'[q] = poller[q]
    BY <1>1 DEF ChannelTypeOK
  <2>2. /\ \A i \in DOMAIN sent : i < offset' => Handled(i)'
        /\ \A i \in DOMAIN sent : i < confirmed' => Handled(i)'
    BY <1>3, HandledStays
  <2>3. offset' <= Len(sent) + 1 /\ confirmed' <= Len(sent) + 1
    BY <1>1
  <2> QED BY <1>2, <1>3, <2>1, <2>2, <2>3, PollerMoves
<1>5. OnePending' /\ OneAccount' /\ Consumed' = Consumed
  BY <1>3, OnePendingStays, OneAccountStays DEF Consumed, linkVars, bindingVars
<1> QED BY <1>2, <1>3, <1>4, <1>5, InboxStays, LinksStay, Together DEF outcomeVars

(* What the pollers and the Bot API have behind them.                          *)
LEMMA Behind ==
    ASSUME ChannelIInv
    PROVE  /\ ChannelTypeOK /\ sent \in Seq(Updates) /\ Len(sent) \in Nat /\ DOMAIN sent = 1 .. Len(sent)
           /\ MaxUpdates \in Nat /\ Len(sent) <= MaxUpdates
           /\ poller \in [Poller -> PollerAt] /\ faults \in 0 .. MaxFaults /\ MaxFaults \in Nat
           /\ offset \in 1 .. Len(sent) + 1 /\ \A i \in DOMAIN sent : i < offset => Handled(i)
           /\ confirmed \in 1 .. Len(sent) + 1 /\ \A i \in DOMAIN sent : i < confirmed => Handled(i)
           /\ \A p \in Poller : PosOf(p)
<1>1. ChannelTypeOK /\ NothingLost /\ PositionsOK
  BY DEF ChannelIInv, ChannelInv
<1>2. /\ sent \in Seq(Updates) /\ Len(sent) \in Nat /\ DOMAIN sent = 1 .. Len(sent)
      /\ MaxUpdates \in Nat /\ offset \in Nat \ {0} /\ confirmed \in Nat \ {0}
  BY <1>1, Places
<1> QED BY <1>1, <1>2, BoundType DEF ChannelTypeOK, PollerAt, NothingLost, PositionsOK

LEMMA DownStep ==
    ASSUME ChannelIInv, NEW p \in Poller, poller' = [poller EXCEPT ![p] = Down],
           UNCHANGED <<updateVars, offset, active, outcomeVars, linkVars, bindingVars>>,
           faults' \in 0 .. MaxFaults
    PROVE  ChannelIInv'
<1>1. PosOf(p)'
  BY Behind, DownOK DEF PosOf
<1> QED BY <1>1, Behind, DownOK, MovesOnly DEF updateVars

LEMMA DiesStep == ASSUME ChannelIInv, NEW p \in Poller, PollerDies(p) PROVE ChannelIInv'
<1>1. faults' \in 0 .. MaxFaults
  BY Behind DEF PollerDies, Fault
<1> QED BY <1>1, DownStep DEF PollerDies

LEMMA LoadStep == ASSUME ChannelIInv, NEW p \in Poller, LoadOffset(p) PROVE ChannelIInv'
<1> DEFINE next == [Down EXCEPT !.step = "poll", !.at = offset]
<1>1. offset \in 1 .. MaxUpdates + 1
  BY Behind
<1>2. next \in PollerAt /\ next.step = "poll" /\ next.at = offset
  BY <1>1, DownOK DEF PollerAt, Steps
<1> HIDE DEF next
<1>3. poller' = [poller EXCEPT ![p] = next] /\ poller'[p] = next
  BY Behind DEF LoadOffset, next
<1>4. \A i : Handled(i)' <=> Handled(i)
  BY DEF LoadOffset, Handled, IsAccepted, outcomeVars
<1>5. PosOf(p)'
  BY <1>2, <1>3, <1>4, Behind DEF LoadOffset, PosOf, updateVars
<1> QED BY <1>2, <1>3, <1>5, Behind, MovesOnly DEF LoadOffset, updateVars, memberVars

LEMMA GetStep == ASSUME ChannelIInv, NEW p \in Poller, GetUpdates(p) PROVE ChannelIInv'
<1> PICK from : from = Max({poller[p].at, confirmed})
  OBVIOUS
<1> PICK upto \in from .. Len(sent) :
       poller' = [poller EXCEPT ![p] = [@ EXCEPT !.step = "next", !.at = from, !.upto = upto]]
  BY DEF GetUpdates
<1> DEFINE next == [poller[p] EXCEPT !.step = "next", !.at = from, !.upto = upto]
<1>1. poller[p] \in PollerAt /\ poller[p].at \in Nat \ {0} /\ confirmed \in Nat \ {0}
  BY Behind DEF PollerAt
<1>2. from = IF poller[p].at >= confirmed THEN poller[p].at ELSE confirmed
  BY <1>1, MaxOfTwo
<1>3. from \in 1 .. Len(sent) /\ \A i \in DOMAIN sent : i < from => Handled(i)
  <2>1. poller[p].at <= Len(sent) + 1 /\ \A i \in DOMAIN sent : i < poller[p].at => Handled(i)
    BY Behind DEF GetUpdates, PosOf
  <2>2. from \in Nat \ {0}
    BY <1>1, <1>2
  <2>3. Len(sent) \in Nat
    BY Behind
  <2>4. from <= Len(sent)
    BY <2>2, <2>3
  <2>5. from \in 1 .. Len(sent)
    BY <2>2, <2>3, <2>4
  <2>6. \A i \in DOMAIN sent : i < confirmed => Handled(i)
    BY Behind
  <2>7. from = poller[p].at \/ from = confirmed
    BY <1>2
  <2> QED BY <2>1, <2>5, <2>6, <2>7
<1>4. upto \in Nat /\ from <= upto /\ upto <= Len(sent) /\ upto \in 0 .. MaxUpdates /\ from \in 1 .. MaxUpdates + 1
  BY <1>3, Behind
<1>5. next \in PollerAt /\ next.step = "next" /\ next.at = from /\ next.upto = upto
  BY <1>1, <1>4 DEF PollerAt, Steps
<1>6. poller' = [poller EXCEPT ![p] = next] /\ poller'[p] = next
  BY Behind
<1> HIDE DEF next
<1>7. \A i : Handled(i)' <=> Handled(i)
  BY DEF GetUpdates, Handled, IsAccepted, outcomeVars
<1>8. PosOf(p)'
  <2>1. from <= Len(sent) + 1
    BY <1>3, Behind
  <2>2. UNCHANGED sent
    BY DEF GetUpdates
  <2> QED BY <1>3, <1>4, <1>5, <1>6, <1>7, <2>1, <2>2 DEF PosOf
<1>9. confirmed' \in 1 .. Len(sent) + 1 /\ \A i \in DOMAIN sent : i < confirmed' => Handled(i)
  <2>1. confirmed' = from
    BY DEF GetUpdates
  <2>2. from \in 1 .. Len(sent) + 1
    BY <1>3, Behind
  <2> QED BY <1>3, <2>1, <2>2
<1>10. /\ UNCHANGED <<sent, active, outcomeVars, linkVars, bindingVars>>
       /\ faults' \in 0 .. MaxFaults
       /\ offset' \in 1 .. Len(sent) + 1 /\ \A i \in DOMAIN sent : i < offset' => Handled(i)
  BY Behind DEF GetUpdates, memberVars
<1> QED BY <1>5, <1>6, <1>8, <1>9, <1>10, MovesOnly

LEMMA SaveStep == ASSUME ChannelIInv, NEW p \in Poller, SaveOffset(p) PROVE ChannelIInv'
<1> PICK at, upto : at = poller[p].at /\ upto = poller[p].upto
  OBVIOUS
<1> PICK step : step = IF at = upto THEN "poll" ELSE "next"
  OBVIOUS
<1> DEFINE next == [poller[p] EXCEPT !.step = step, !.at = at + 1, !.member = NoMember]
<1>1. /\ poller[p] \in PollerAt /\ at \in Nat \ {0} /\ upto \in Nat
      /\ at <= upto /\ upto <= Len(sent) /\ at \in DOMAIN sent
      /\ \A i \in DOMAIN sent : i < at => Handled(i)
  BY Behind DEF PollerAt, SaveOffset, PosOf
<1>2. Handled(at)
  BY Behind DEF SaveOffset, PosOf
<1>3. /\ at + 1 \in 1 .. Len(sent) + 1 /\ at + 1 \in 1 .. MaxUpdates + 1
      /\ \A i \in DOMAIN sent : i < at + 1 => Handled(i)
  <2>1. \A i \in DOMAIN sent : i < at + 1 => i < at \/ i = at
    BY <1>1, Behind
  <2>2. at + 1 \in 1 .. Len(sent) + 1 /\ at + 1 \in 1 .. MaxUpdates + 1
    BY <1>1, Behind
  <2> QED BY <1>1, <1>2, <2>1, <2>2
<1>4. next \in PollerAt /\ next.step = step /\ next.at = at + 1 /\ next.upto = upto
  BY <1>1, <1>3 DEF PollerAt, Steps
<1>5. poller' = [poller EXCEPT ![p] = next] /\ poller'[p] = next
  BY Behind DEF SaveOffset
<1> HIDE DEF next
<1>6. \A i : Handled(i)' <=> Handled(i)
  BY DEF SaveOffset, Handled, IsAccepted, outcomeVars
<1>7. step = "next" => at + 1 <= upto
  BY <1>1
<1>8. PosOf(p)'
  <2>1. at + 1 <= Len(sent) + 1
    BY <1>1, Behind
  <2>2. step \in {"next", "poll"} /\ UNCHANGED sent
    BY DEF SaveOffset, updateVars
  <2> QED BY <1>1, <1>3, <1>4, <1>5, <1>6, <1>7, <2>1, <2>2 DEF PosOf
<1>9. offset' \in 1 .. Len(sent) + 1 /\ \A i \in DOMAIN sent : i < offset' => Handled(i)
  <2>1. offset \in Nat /\ at + 1 \in Nat
    BY <1>1, Behind
  <2>2. offset' = IF offset >= at + 1 THEN offset ELSE at + 1
    BY <2>1, MaxOfTwo DEF SaveOffset, NextOffset
  <2> QED BY <1>3, <2>2, Behind
<1> QED BY <1>4, <1>5, <1>8, <1>9, Behind, MovesOnly DEF SaveOffset, updateVars, memberVars

(* The update a poller is at, before it is handled.                            *)
LEMMA AtUpdate ==
    ASSUME ChannelIInv, NEW p \in Poller, poller[p].step \in {"next", "resolved", "done"}
    PROVE  /\ poller[p] \in PollerAt /\ poller[p].at \in DOMAIN sent /\ poller[p].at \in 1 .. MaxUpdates
           /\ poller[p].at \in Nat \ {0} /\ poller[p].at <= poller[p].upto /\ poller[p].upto <= Len(sent)
           /\ At(p) \in Updates /\ At(p) = sent[poller[p].at] /\ At(p).user \in User
           /\ \A i \in DOMAIN sent : i < poller[p].at => Handled(i)
<1>1. /\ poller[p] \in PollerAt /\ poller[p].at \in Nat \ {0} /\ poller[p].upto \in Nat
      /\ poller[p].at <= poller[p].upto /\ poller[p].upto <= Len(sent)
      /\ \A i \in DOMAIN sent : i < poller[p].at => Handled(i)
      /\ Len(sent) \in Nat /\ DOMAIN sent = 1 .. Len(sent) /\ MaxUpdates \in Nat /\ Len(sent) <= MaxUpdates
  BY Behind DEF PollerAt, PosOf
<1>2. poller[p].at \in DOMAIN sent /\ poller[p].at \in 1 .. MaxUpdates
  BY <1>1
<1> QED BY <1>1, <1>2, Elements DEF ChannelIInv, ChannelInv, At

(* An update is handled, and the poller that was at it done with it.           *)
LEMMA HandlesOne ==
    ASSUME ChannelIInv, NEW p \in Poller, poller[p].step \in {"next", "resolved"}, Processed(p),
           ChannelTypeOK', Grows, UNCHANGED <<updateVars, offset>>,
           NEW at, at = poller[p].at, Handled(at)'
    PROVE  NothingLost' /\ PositionsOK'
<1> PICK upto : upto = poller[p].upto
  OBVIOUS
<1> DEFINE next == [poller[p] EXCEPT !.step = "done"]
<1>1. next.step = "done" /\ next.at = at /\ next.upto = upto
  BY AtUpdate DEF PollerAt
<1>2. poller' = [poller EXCEPT ![p] = next] /\ poller'[p] = next
  BY Behind DEF Processed
<1> HIDE DEF next
<1>3. at <= upto /\ upto <= Len(sent) /\ at <= Len(sent) + 1 /\ \A i \in DOMAIN sent : i < at => Handled(i)'
  <2>1. at \in 1 .. Len(sent) /\ Len(sent) \in Nat
    BY AtUpdate, Behind
  <2>2. at <= upto /\ upto <= Len(sent) /\ \A i \in DOMAIN sent : i < at => Handled(i)
    BY AtUpdate
  <2> QED BY <2>1, <2>2, HandledStays
<1>4. PosOf(p)'
  BY <1>1, <1>2, <1>3 DEF PosOf, updateVars
<1>5. /\ offset' <= Len(sent) + 1 /\ \A i \in DOMAIN sent : i < offset' => Handled(i)'
      /\ confirmed' <= Len(sent) + 1 /\ \A i \in DOMAIN sent : i < confirmed' => Handled(i)'
  BY Behind, HandledStays DEF updateVars
<1>6. \A q \in Poller \ {p} : poller'[q] = poller[q]
  BY <1>2, Behind
<1> QED BY <1>4, <1>5, <1>6, PollerMoves

LEMMA ProcessedType ==
    ASSUME ChannelIInv, NEW p \in Poller, poller[p].step \in {"next", "resolved"}, Processed(p)
    PROVE  poller' \in [Poller -> PollerAt]
<1>1. [poller[p] EXCEPT !.step = "done"] \in PollerAt
  BY AtUpdate DEF PollerAt, Steps
<1> QED BY <1>1, Behind DEF Processed

LEMMA RejectStep ==
    ASSUME ChannelIInv, NEW p \in Poller, poller[p].step = "next", Reject(p),
           UNCHANGED <<updateVars, offset, memberVars>>
    PROVE  ChannelIInv'
<1> PICK at : at = poller[p].at
  OBVIOUS
<1>1. refused' \subseteq 1 .. MaxUpdates /\ at \in refused'
  BY AtUpdate DEF Reject, ChannelIInv, ChannelInv, ChannelTypeOK
<1>2. ChannelTypeOK'
  BY <1>1, ProcessedType
     DEF Reject, ChannelIInv, ChannelInv, ChannelTypeOK, PollerAt, updateVars, memberVars, bindingVars, linkVars
<1>3. Grows
  BY Behind DEF Reject, Grows, updateVars, bindingVars, linkVars
<1>4. NothingLost' /\ PositionsOK'
  BY <1>1, <1>2, <1>3, HandlesOne DEF Handled, Reject
<1>5. OnePending' /\ OneAccount' /\ Consumed' = Consumed
  BY <1>3, OnePendingStays, OneAccountStays DEF Reject, Consumed, linkVars, bindingVars
<1> QED BY <1>2, <1>3, <1>4, <1>5, InboxStays, LinksStay, Together DEF Reject

LEMMA ResolveStep ==
    ASSUME ChannelIInv, NEW p \in Poller, poller[p].step = "next", At(p).kind = "text", Binds(At(p)),
           poller' = [poller EXCEPT ![p] = [@ EXCEPT !.step = "resolved", !.member = principal[At(p).user]]],
           UNCHANGED <<outcomeVars, bindingVars, linkVars, updateVars, offset, memberVars>>
    PROVE  ChannelIInv'
<1> PICK at, upto, m : at = poller[p].at /\ upto = poller[p].upto /\ m = principal[At(p).user]
  OBVIOUS
<1> DEFINE next == [poller[p] EXCEPT !.step = "resolved", !.member = m]
<1>1. m \in Member
  BY DEF Binds, ChannelIInv, ChannelInv, ChannelTypeOK
<1>2. next \in PollerAt /\ next.step = "resolved" /\ next.at = at /\ next.upto = upto /\ next.member = m
  BY <1>1, AtUpdate DEF PollerAt, Steps
<1>3. poller' = [poller EXCEPT ![p] = next] /\ poller'[p] = next
  BY Behind
<1> HIDE DEF next
<1>4. \A i : Handled(i)' <=> Handled(i)
  BY DEF Handled, IsAccepted, outcomeVars
<1>5. at <= upto /\ upto <= Len(sent) /\ at <= Len(sent) + 1 /\ \A i \in DOMAIN sent : i < at => Handled(i)
  <2>1. at \in 1 .. Len(sent) /\ Len(sent) \in Nat
    BY AtUpdate, Behind
  <2> QED BY <2>1, AtUpdate
<1>6. sent[at].kind = "text" /\ principal[sent[at].user] = m
  BY DEF At
<1>7. PosOf(p)'
  BY <1>1, <1>2, <1>3, <1>4, <1>5, <1>6 DEF PosOf, At, updateVars, bindingVars
<1> QED BY <1>2, <1>3, <1>7, Behind, MovesOnly DEF updateVars, memberVars

(* A challenge is consumed by an update that was not used before.              *)
LEMMA ConsumeStep ==
    ASSUME ChannelIInv, NEW p \in Poller, poller[p].step = "next", At(p).kind = "link",
           ConsumeLinkChallenge(p), UNCHANGED <<updateVars, offset, memberVars>>,
           Good(At(p).code) /\ Unbound(At(p).user, challenge[At(p).code].member)
    PROVE  ChannelIInv'
<1> PICK at, i, u, m : at = poller[p].at /\ i = At(p).code /\ u = At(p).user /\ m = challenge[i].member
  OBVIOUS
<1>1. /\ ChannelTypeOK /\ OnePending /\ OneAccount /\ ConsumedCounted /\ ConsumedBound /\ LinkedAccount /\ LinkedOK
      /\ challenge \in Seq(Challenges) /\ Len(challenge) \in Nat /\ DOMAIN challenge = 1 .. Len(challenge)
      /\ principal \in [User -> Member \cup {NoMember}] /\ linked \subseteq 1 .. MaxUpdates
  BY LinkingParts, LengthOf DEF ChannelIInv, ChannelInv, ChannelTypeOK
<1>2. /\ at \in DOMAIN sent /\ at \in 1 .. MaxUpdates /\ sent[at].user = u /\ sent[at].code = i
      /\ sent[at].kind = "link" /\ u \in User /\ u \in Chat
  BY AtUpdate DEF Chat
<1>3. /\ i \in DOMAIN challenge /\ challenge[i].state = "pending" /\ challenge[i] \in Challenges
      /\ m \in Member /\ m # NoMember /\ principal[u] = NoMember /\ \A v \in User : principal[v] # m
  BY <1>1, Elements DEF Good, Pending, Unbound, IsBound
<1>4. /\ principal' = [principal EXCEPT ![u] = m] /\ chats' = chats \cup {u}
      /\ challenge' = [challenge EXCEPT ![i].state = "consumed"]
      /\ linked' = linked \cup {at} /\ Processed(p)
      /\ UNCHANGED <<inbox, refused, cooling>>
  BY DEF ConsumeLinkChallenge
<1> DEFINE used == [challenge[i] EXCEPT !.state = "consumed"]
<1>5. used \in Challenges /\ used.member = m /\ used.state = "consumed"
  BY <1>3 DEF Challenges
<1>6. challenge' = [challenge EXCEPT ![i] = used]
  BY <1>4
<1> HIDE DEF used
<1>7. /\ challenge' \in Seq(Challenges) /\ Len(challenge') = Len(challenge)
      /\ \A j \in 1 .. Len(challenge) : challenge'[j] = IF j = i THEN used ELSE challenge[j]
  BY <1>1, <1>3, <1>5, <1>6, ExceptSeq
<1>8. DOMAIN challenge' = DOMAIN challenge
  BY <1>1, <1>7, LengthOf
<1>9. /\ \A v \in User : principal'[v] = IF v = u THEN m ELSE principal[v]
      /\ principal' \in [User -> Member \cup {NoMember}]
  BY <1>1, <1>2, <1>3, <1>4
<1>10. ChannelTypeOK'
  <2>1. linked' \subseteq 1 .. MaxUpdates /\ chats' \subseteq Chat
    BY <1>1, <1>2, <1>4 DEF ChannelTypeOK
  <2>2. poller' \in [Poller -> PollerAt]
    BY <1>4, ProcessedType
  <2> QED BY <1>1, <1>4, <1>7, <1>9, <2>1, <2>2 DEF ChannelTypeOK, PollerAt, updateVars, memberVars
<1>11. Grows
  <2>1. \A j \in DOMAIN challenge :
          /\ j \in DOMAIN challenge' /\ challenge'[j].member = challenge[j].member
          /\ challenge[j].state = "consumed" => challenge'[j].state = "consumed"
          /\ challenge'[j].state = "pending" => challenge[j].state = "pending"
    BY <1>1, <1>3, <1>5, <1>7, <1>8
  <2>2. \A v \in User : principal[v] # NoMember => principal'[v] = principal[v]
    BY <1>3, <1>9
  <2>3. linked \subseteq linked' /\ UNCHANGED <<inbox, refused, sent>>
    BY <1>4 DEF updateVars
  <2> QED BY <2>1, <2>2, <2>3, Behind DEF Grows
<1>12. NothingLost' /\ PositionsOK'
  <2>1. Handled(at)'
    BY <1>4 DEF Handled
  <2> QED BY <1>4, <1>10, <1>11, <2>1, HandlesOne
<1>13. AttributedToBound' /\ InOrderUnlessRefused' /\ AcceptedInTurn'
  BY <1>4, <1>10, <1>11, InboxStays
<1>14. OnePending' /\ OneAccount'
  BY <1>1, <1>3, <1>8, <1>9, <1>11, OnePendingStays DEF OneAccount
<1>15. Consumed' = Consumed \cup {i} /\ i \notin Consumed
  BY <1>1, <1>3, <1>5, <1>7, <1>8 DEF Consumed
<1>16. at \notin linked
  BY <1>1, <1>2, <1>3 DEF LinkedOK
<1>17. ConsumedCounted'
  <2>1. IsFiniteSet(1 .. Len(challenge)) /\ IsFiniteSet(1 .. MaxUpdates)
    <3>1. Len(challenge) \in Int /\ MaxUpdates \in Int /\ 1 \in Int
      BY <1>1, BoundType
    <3> QED BY <3>1, FS_Interval
  <2>2. IsFiniteSet(Consumed) /\ IsFiniteSet(linked)
    <3>1. Consumed \subseteq 1 .. Len(challenge)
      BY <1>1 DEF Consumed
    <3> QED BY <1>1, <2>1, <3>1, FS_Subset
  <2>3. Cardinality(Consumed \cup {i}) = Cardinality(Consumed) + 1
    BY <1>15, <2>2, FS_AddElement
  <2>4. Cardinality(linked \cup {at}) = Cardinality(linked) + 1
    BY <1>16, <2>2, FS_AddElement
  <2> QED BY <1>1, <1>4, <1>15, <2>3, <2>4 DEF ConsumedCounted
<1>18. ConsumedBound'
  <2> SUFFICES ASSUME NEW j \in DOMAIN challenge, challenge'[j].state = "consumed"
               PROVE  \E v \in User : principal'[v] = challenge'[j].member
    BY <1>8 DEF ConsumedBound, IsBound
  <2>1. CASE j = i
    BY <1>1, <1>2, <1>5, <1>7, <1>9, <2>1
  <2>2. CASE j # i
    <3>1. challenge'[j] = challenge[j]
      BY <1>1, <1>7, <2>2
    <3>2. PICK v \in User : principal[v] = challenge[j].member
      BY <1>1, <3>1 DEF ConsumedBound, IsBound
    <3>3. v # u /\ principal'[v] = principal[v]
      BY <1>1, <1>3, <1>9, <3>2, Elements
    <3> QED BY <3>1, <3>2, <3>3
  <2> QED BY <2>1, <2>2
<1>19. LinkedOK' /\ LinkedAccount'
  <2> SUFFICES ASSUME NEW k \in linked \cup {at}
               PROVE  /\ k \in DOMAIN sent /\ sent[k].kind = "link"
                      /\ sent[k].code \in DOMAIN challenge' /\ challenge'[sent[k].code].state = "consumed"
                      /\ principal'[sent[k].user] = challenge'[sent[k].code].member
    BY <1>4 DEF LinkedOK, LinkedAccount, updateVars
  <2>1. CASE k = at
    BY <1>1, <1>2, <1>3, <1>5, <1>7, <1>8, <1>9, <2>1
  <2>2. CASE k \in linked
    <3>1. /\ k \in DOMAIN sent /\ sent[k].kind = "link"
          /\ sent[k].code \in DOMAIN challenge /\ challenge[sent[k].code].state = "consumed"
          /\ principal[sent[k].user] = challenge[sent[k].code].member
      BY <1>1, <2>2 DEF LinkedOK, LinkedAccount
    <3>2. sent[k].user \in User /\ challenge[sent[k].code].member # NoMember
      BY <1>1, <3>1, Elements
    <3> QED BY <1>11, <3>1, <3>2 DEF Grows
  <2> QED BY <2>1, <2>2
<1> QED BY <1>10, <1>12, <1>13, <1>14, <1>17, <1>18, <1>19, Together

LEMMA ProcessStep == ASSUME ChannelIInv, NEW p \in Poller, ProcessNext(p) PROVE ChannelIInv'
BY RejectStep, ResolveStep, ConsumeStep DEF ProcessNext, ConsumeLinkChallenge

(* A message is accepted, for the first time, where everything before it is    *)
(* handled; and the others that are later have been accepted past a refusal.   *)
LEMMA AppendStep ==
    ASSUME ChannelIInv, NEW p \in Poller, IngestBound(p), poller[p].member \in active, ~IsAccepted(poller[p].at)
    PROVE  ChannelIInv'
<1> PICK at, m, last : at = poller[p].at /\ m = poller[p].member /\ last = Len(inbox) + 1
  OBVIOUS
<1> PICK new : new = [update |-> at, member |-> m]
  OBVIOUS
<1>1. /\ ChannelTypeOK /\ AttributedToBound /\ InOrderUnlessRefused /\ AcceptedInTurn /\ LinkedOK
      /\ inbox \in Seq(Accepted) /\ Len(inbox) \in Nat /\ DOMAIN inbox = 1 .. Len(inbox)
  BY LengthOf DEF ChannelIInv, ChannelInv, ChannelTypeOK
<1>2. /\ poller[p].step = "resolved" /\ Processed(p) /\ inbox' = Append(inbox, new)
      /\ UNCHANGED <<updateVars, offset, refused, linked, linkVars, bindingVars, memberVars>>
  BY DEF IngestBound
<1>3. /\ at \in DOMAIN sent /\ at \in 1 .. MaxUpdates /\ at \in Nat /\ sent[at].kind = "text"
      /\ m \in Member /\ principal[sent[at].user] = m
      /\ \A i \in DOMAIN sent : i < at => Handled(i)
  BY <1>2, AtUpdate, Behind DEF PosOf, At
<1>4. new \in Accepted /\ new.update = at /\ new.member = m
  BY <1>3 DEF Accepted
<1>5. /\ inbox' \in Seq(Accepted) /\ Len(inbox') = last
      /\ \A x \in 1 .. Len(inbox) : inbox'[x] = inbox[x]
      /\ inbox'[last] = new
  BY <1>1, <1>2, <1>4, AppendProperties
<1>6. DOMAIN inbox' = 1 .. last /\ last \in DOMAIN inbox' /\ last \notin DOMAIN inbox
      /\ \A x \in 1 .. last : x = last \/ x \in DOMAIN inbox
  BY <1>1, <1>5, LengthOf
<1>7. ChannelTypeOK'
  BY <1>1, <1>2, <1>5, ProcessedType
     DEF ChannelTypeOK, PollerAt, updateVars, memberVars, bindingVars, linkVars
<1>8. Grows
  BY <1>1, <1>2, <1>5, <1>6, Behind DEF Grows, updateVars, bindingVars, linkVars
<1>9. Handled(at)'
  BY <1>4, <1>5, <1>6 DEF Handled, IsAccepted
<1>10. NothingLost' /\ PositionsOK'
  BY <1>2, <1>7, <1>8, <1>9, HandlesOne
<1>11. AttributedToBound'
  BY <1>1, <1>2, <1>3, <1>4, <1>5, <1>6 DEF AttributedToBound, updateVars, bindingVars
<1>12. InOrderUnlessRefused'
  <2>1. ASSUME NEW x \in DOMAIN inbox PROVE inbox[x].update < at \/ at \in refused
    <3>1. inbox[x].update \in Nat /\ inbox[x].update # at
      BY <1>1, Elements DEF IsAccepted
    <3>2. CASE at <= inbox[x].update
      <4>1. Handled(at)
        BY <1>1, <1>3, <3>2 DEF AcceptedInTurn
      <4>2. at \notin linked
        BY <1>1, <1>3 DEF LinkedOK
      <4> QED BY <4>1, <4>2 DEF Handled
    <3> QED BY <1>3, <3>1, <3>2
  <2> SUFFICES ASSUME NEW x \in 1 .. last, NEW y \in 1 .. last, x < y
               PROVE  inbox'[x].update < inbox'[y].update \/ inbox'[y].update \in refused
    BY <1>2, <1>6 DEF InOrderUnlessRefused
  <2>2. x \in DOMAIN inbox /\ inbox'[x] = inbox[x]
    BY <1>1, <1>5, <1>6
  <2>3. CASE y = last
    BY <1>4, <1>5, <2>1, <2>2, <2>3
  <2>4. CASE y \in DOMAIN inbox
    BY <1>1, <1>5, <2>2, <2>4 DEF InOrderUnlessRefused
  <2> QED BY <1>6, <2>3, <2>4
<1>13. AcceptedInTurn'
  <2> SUFFICES ASSUME NEW x \in 1 .. last
               PROVE  /\ inbox'[x].update \in DOMAIN sent
                      /\ \A i \in DOMAIN sent : i <= inbox'[x].update => Handled(i)'
    BY <1>2, <1>6 DEF AcceptedInTurn, updateVars
  <2>1. CASE x = last
    <3>1. \A i \in DOMAIN sent : i <= at => i < at \/ i = at
      BY <1>3, Behind
    <3> QED BY <1>3, <1>4, <1>5, <1>8, <1>9, <2>1, <3>1, HandledStays
  <2>2. CASE x \in DOMAIN inbox
    BY <1>1, <1>5, <1>8, <2>2, HandledStays DEF AcceptedInTurn
  <2> QED BY <1>6, <2>1, <2>2
<1>14. OnePending' /\ OneAccount' /\ Consumed' = Consumed
  BY <1>2, <1>8, OnePendingStays, OneAccountStays DEF Consumed, linkVars, bindingVars
<1> QED BY <1>2, <1>7, <1>8, <1>10, <1>11, <1>12, <1>13, <1>14, LinksStay, Together

LEMMA IngestStep == ASSUME ChannelIInv, NEW p \in Poller, IngestBound(p) PROVE ChannelIInv'
<1>1. CASE poller[p].member \notin active
  BY <1>1, Behind, DownStep DEF IngestBound, memberVars, outcomeVars
<1>2. CASE poller[p].member \in active /\ IsAccepted(poller[p].at)
  <2> PICK at : at = poller[p].at
    OBVIOUS
  <2>1. /\ poller[p].step = "resolved" /\ Processed(p)
        /\ UNCHANGED <<inbox, updateVars, offset, refused, linked, linkVars, bindingVars, memberVars>>
    BY <1>2 DEF IngestBound
  <2>2. ChannelTypeOK'
    BY <2>1, ProcessedType
       DEF ChannelIInv, ChannelInv, ChannelTypeOK, PollerAt, updateVars, memberVars, bindingVars, linkVars
  <2>3. Grows
    BY <2>1, Behind DEF Grows, updateVars, bindingVars, linkVars
  <2>4. IsAccepted(at)'
    BY <1>2, <2>1 DEF IsAccepted
  <2>5. NothingLost' /\ PositionsOK'
    BY <2>1, <2>2, <2>3, <2>4, HandlesOne DEF Handled
  <2>6. OnePending' /\ OneAccount' /\ Consumed' = Consumed
    BY <2>1, <2>3, OnePendingStays, OneAccountStays DEF Consumed, linkVars, bindingVars
  <2> QED BY <2>1, <2>2, <2>3, <2>5, <2>6, InboxStays, LinksStay, Together
<1> QED BY <1>1, <1>2, AppendStep

LEMMA ChannelStep == ChannelIInv /\ [Next]_vars => ChannelIInv'
<1> SUFFICES ASSUME ChannelIInv, [Next]_vars PROVE ChannelIInv'
  OBVIOUS
<1>1. CASE UNCHANGED vars
  <2>1. ChannelTypeOK'
    BY <1>1 DEF ChannelIInv, ChannelInv, ChannelTypeOK, vars, updateVars, outcomeVars, linkVars, bindingVars, memberVars
  <2>2. Grows
    BY <1>1, Behind DEF Grows, vars, updateVars, outcomeVars, linkVars, bindingVars
  <2>3. OnePending' /\ Consumed' = Consumed
    BY <1>1, <2>2, OnePendingStays DEF Consumed, vars, linkVars
  <2> QED BY <1>1, <2>1, <2>2, <2>3, ChallengeStep DEF vars, bindingVars
<1>2. CASE \E m \in Member : Issue(m) \/ CooldownEnds(m) \/ SwitchMember(m)
  BY <1>2, IssueStep, CooldownStep, SwitchStep
<1>3. CASE \E i \in DOMAIN challenge : ChallengeExpires(i)
  BY <1>3, ExpiryStep
<1>4. CASE \E u \in User, m \in Member, c \in Chat : Bind(u, m, c)
  BY <1>4, BindStep
<1>5. CASE \E update \in Updates : SendUpdate(update)
  BY <1>5, SendStep
<1>6. CASE \E p \in Poller : PollerStep(p) \/ PollerDies(p)
  BY <1>6, LoadStep, GetStep, ProcessStep, IngestStep, SaveStep, DiesStep DEF PollerStep
<1> QED BY <1>1, <1>2, <1>3, <1>4, <1>5, <1>6 DEF Next

-------------------------------------------------------------------------------
(* The results                                                                *)

(* Whenever a poller dies or is replaced: what is confirmed to the Bot API or  *)
(* skipped by the saved offset has been handled, a message stands for the      *)
(* member its account is bound to, and bindings and challenges agree           *)
(* (telegram/poller.go Run, process; telegram/store.go ConsumeLinkChallenge).  *)
THEOREM ChannelCorrect == Spec => []ChannelInv
<1>1. ChannelIInv => ChannelInv
  BY DEF ChannelIInv
<1> QED BY <1>1, InitChannel, ChannelStep, PTL DEF Spec

(* Messages are accepted in the order of their updates, whichever poller       *)
(* accepts them, unless one was refused before (telegram/poller.go process).   *)
THEOREM ChannelInOrder == Spec => []InOrderUnlessRefused
<1>1. ChannelIInv => InOrderUnlessRefused
  BY DEF ChannelIInv
<1> QED BY <1>1, InitChannel, ChannelStep, PTL DEF Spec
===============================================================================
