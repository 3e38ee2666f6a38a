------------------------- MODULE SendInvitesProofs -------------------------
(***************************************************************************)
(* Claims and invites, for any number of users, handles, senders and       *)
(* invites.                                                                *)
(***************************************************************************)
EXTENDS SendInvites, TLAPS

(* A step that rewrites the fields of invites leaves senders, targets and  *)
(* the order of creation, and never takes a mark back.                     *)
Kept(new) ==
  /\ new \in Seq(Invites) /\ Len(new) = Len(invites)
  /\ \A i \in DOMAIN invites :
       /\ new[i].sender = invites[i].sender /\ new[i].target = invites[i].target
       /\ invites[i].consumed => new[i].consumed
       /\ invites[i].expired => new[i].expired

LEMMA NotifyKeeps ==
  ASSUME TypeOK, NEW u, NEW n, NEW marks \in BOOLEAN, NEW fate \in Fates,
         Notify(u, n, marks, fate)
  PROVE  /\ Kept(invites')
         /\ \A i \in DOMAIN invites : invites'[i].consumed = invites[i].consumed
<1> DEFINE marked(i) == [invites[i] EXCEPT !.notified = @ \/ marks,
                                           !.told = IF @ = "sent" THEN @ ELSE fate]
<1> DEFINE batch(i) == i \in Unnotified(u, n)
<1>1. /\ invites \in Seq(Invites) /\ DOMAIN invites = 1..Len(invites)
      /\ Len(invites) \in Nat
      /\ \A i \in DOMAIN invites : invites[i] \in Invites
  BY DEF TypeOK
<1>2. invites' = [i \in DOMAIN invites |-> IF batch(i) THEN marked(i) ELSE invites[i]]
  BY DEF Notify
<1>3. ASSUME NEW i \in DOMAIN invites
      PROVE  /\ marked(i) \in Invites
             /\ marked(i).sender = invites[i].sender /\ marked(i).target = invites[i].target
             /\ marked(i).consumed = invites[i].consumed
             /\ marked(i).expired = invites[i].expired
  BY <1>1 DEF Invites
<1> HIDE DEF marked, batch
<1>4. ASSUME NEW i \in DOMAIN invites
      PROVE  invites'[i] = IF batch(i) THEN marked(i) ELSE invites[i]
  BY <1>2
<1>5. invites' \in Seq(Invites) /\ Len(invites') = Len(invites)
  BY <1>1, <1>2, <1>3
<1> QED BY <1>3, <1>4, <1>5 DEF Kept

(* What a step does to the table of invites.                               *)
Added ==
  \E l \in Lookups, x \in Invites :
    /\ looking[l] \in Requests
    /\ x.sender = looking[l].sender /\ x.target = looking[l].target
    /\ ~x.consumed
    /\ invites' = Append(invites, x)
    /\ looking' = [looking EXCEPT ![l] = None]
    /\ Len(invites) < MaxInvites
    /\ UNCHANGED claim

AcceptKept(u, i) ==
  /\ i \in DOMAIN invites
  /\ invites' = [invites EXCEPT ![i].consumed = TRUE]
  /\ claim[invites[i].target] \in {None, u} /\ username[u] = invites[i].target
  /\ claim' = [claim EXCEPT ![invites[i].target] = u]

LEMMA OneFieldKeeps ==
  ASSUME TypeOK, NEW i \in DOMAIN invites,
         \/ invites' = [invites EXCEPT ![i].consumed = TRUE]
         \/ invites' = [invites EXCEPT ![i].expired = TRUE]
  PROVE  Kept(invites')
<1>1. /\ invites \in Seq(Invites) /\ DOMAIN invites = 1..Len(invites)
      /\ Len(invites) \in Nat
      /\ \A j \in DOMAIN invites : invites[j] \in Invites
  BY DEF TypeOK
<1>2. PICK r \in Invites :
        /\ invites' = [invites EXCEPT ![i] = r]
        /\ r.sender = invites[i].sender /\ r.target = invites[i].target
        /\ invites[i].consumed => r.consumed
        /\ invites[i].expired => r.expired
  <2>1. CASE invites' = [invites EXCEPT ![i].consumed = TRUE]
    <3>1. [invites[i] EXCEPT !.consumed = TRUE] \in Invites
      BY <1>1 DEF Invites
    <3> WITNESS [invites[i] EXCEPT !.consumed = TRUE] \in Invites
    <3> QED BY <2>1, <1>1 DEF Invites
  <2>2. CASE invites' = [invites EXCEPT ![i].expired = TRUE]
    <3>1. [invites[i] EXCEPT !.expired = TRUE] \in Invites
      BY <1>1 DEF Invites
    <3> WITNESS [invites[i] EXCEPT !.expired = TRUE] \in Invites
    <3> QED BY <2>2, <1>1 DEF Invites
  <2> QED BY <2>1, <2>2
<1>3. invites' \in Seq(Invites) /\ Len(invites') = Len(invites)
  BY <1>1, <1>2
<1>4. ASSUME NEW j \in DOMAIN invites
      PROVE  invites'[j] = IF j = i THEN r ELSE invites[j]
  BY <1>1, <1>2
<1> QED BY <1>2, <1>3, <1>4 DEF Kept

(* What a step may do to invites, claims and lookups.                      *)
LookingStep ==
  \/ looking' = looking
  \/ /\ UNCHANGED invites
     /\ \E l \in Lookups : \/ looking' = [looking EXCEPT ![l] = None]
                           \/ \E r \in Requests : /\ Existing(r) = {}
                                                  /\ looking' = [looking EXCEPT ![l] = r]

ClaimStep ==
  \/ UNCHANGED claim /\ \A i \in DOMAIN invites : invites'[i].consumed = invites[i].consumed
  \/ \E u \in Users, i \in DOMAIN invites : AcceptKept(u, i)

Rewritten == Kept(invites') /\ LookingStep /\ ClaimStep

LEMMA SameInvites ==
  ASSUME TypeOK, UNCHANGED <<invites, claim>>, LookingStep
  PROVE  Rewritten
BY DEF TypeOK, Rewritten, Kept, ClaimStep

LEMMA NotifyRewrites ==
  ASSUME TypeOK, UNCHANGED <<claim, looking>>,
         NEW u, NEW n, NEW marks \in BOOLEAN, NEW fate \in Fates,
         Notify(u, n, marks, fate)
  PROVE  Rewritten
BY NotifyKeeps DEF Rewritten, LookingStep, ClaimStep

LEMMA RefreshRewrites ==
  ASSUME TypeOK, UNCHANGED <<claim, looking>>, NEW u, NEW n,
         Refresh(u, n) \/ RefreshRolledBack(u, n)
  PROVE  Rewritten
<1>1. UNCHANGED invites \/ \E marks \in BOOLEAN : Notify(u, n, marks, "sent")
  BY DEF Refresh, NotifyIfReady, RefreshRolledBack
<1>2. CASE UNCHANGED invites
  BY <1>2, SameInvites DEF LookingStep
<1>3. ASSUME NEW marks \in BOOLEAN, Notify(u, n, marks, "sent") PROVE Rewritten
  BY <1>3, NotifyRewrites DEF Fates
<1> QED BY <1>1, <1>2, <1>3

LEMMA StepCases == TypeOK /\ [Next]_vars => Added \/ Rewritten
<1> SUFFICES ASSUME TypeOK, [Next]_vars PROVE Added \/ Rewritten
  OBVIOUS
<1>1. ASSUME NEW l \in Lookups, LookupHostedRecipient(l) PROVE Rewritten
  BY <1>1, SameInvites DEF LookupHostedRecipient, LookingStep
<1>2. ASSUME NEW l \in Lookups, CreateInvite(l) PROVE Added
  <2>1. looking[l] \in Requests
    <3>1. looking[l] \in Requests \cup {None} /\ looking[l] # None
      BY <1>2 DEF CreateInvite, TypeOK
    <3> QED BY <3>1
  <2> DEFINE x == [sender |-> looking[l].sender, target |-> looking[l].target,
                   expired |-> FALSE, consumed |-> FALSE, notified |-> FALSE,
                   told |-> "no"]
  <2>2. x \in Invites
    BY <2>1 DEF Invites, Requests, Fates
  <2>3. x.sender = looking[l].sender /\ x.target = looking[l].target
        /\ ~x.consumed
    OBVIOUS
  <2>4. /\ invites' = Append(invites, x) /\ Len(invites) < MaxInvites
        /\ looking' = [looking EXCEPT ![l] = None] /\ UNCHANGED claim
    BY <1>2 DEF CreateInvite
  <2> HIDE DEF x
  <2> QED BY <2>1, <2>2, <2>3, <2>4 DEF Added
<1>3. ASSUME NEW l \in Lookups, LookupFails(l) PROVE Rewritten
  BY <1>3, SameInvites DEF LookupFails, LookingStep
<1>4. ASSUME NEW u \in Users, NEW i \in 1..MaxInvites, OpenInvite(u, i) PROVE Rewritten
  <2>1. CASE OpenInviteInVain(u, i)
    BY <2>1, SameInvites DEF OpenInviteInVain, LookingStep
  <2>2. CASE AcceptInvite(u, i)
    <3>1. AcceptKept(u, i) /\ looking' = looking
      BY <2>2 DEF AcceptInvite, AcceptKept
    <3>2. Kept(invites')
      BY <3>1, OneFieldKeeps DEF AcceptKept
    <3>3. ClaimStep
      BY <3>1 DEF ClaimStep, AcceptKept
    <3> QED BY <3>1, <3>2, <3>3 DEF Rewritten, LookingStep
  <2> QED BY <1>4, <2>1, <2>2 DEF OpenInvite
<1>5. ASSUME NEW u \in Users, Start(u) PROVE Rewritten
  <2>1. UNCHANGED <<claim, looking>>
    BY <1>5 DEF Start
  <2>2. CASE UNCHANGED invites
    BY <2>1, <2>2, SameInvites DEF LookingStep
  <2>3. CASE Refresh(u, NameAtStart(u)) \/ RefreshRolledBack(u, NameAtStart(u))
    BY <2>1, <2>3, RefreshRewrites
  <2> QED BY <1>5, <2>2, <2>3 DEF Start
<1>6. ASSUME NEW u \in Users, Message(u) \/ MessageRolledBack(u) PROVE Rewritten
  BY <1>6, RefreshRewrites DEF Message, MessageRolledBack
<1>7. ASSUME NEW u \in Users, HostedSyncWallet(u) PROVE Rewritten
  BY <1>7, SameInvites DEF HostedSyncWallet, LookingStep
<1>8. ASSUME NEW u \in Users, BackfillOverHttp(u) PROVE Rewritten
  BY <1>8, NotifyRewrites DEF BackfillOverHttp, Fates
<1>9. ASSUME NEW u \in Users, ChangeUsername(u) PROVE Rewritten
  BY <1>9, SameInvites DEF ChangeUsername, LookingStep
<1>10. ASSUME NEW i \in 1..MaxInvites, InviteExpires(i) PROVE Rewritten
  <2>1. /\ i \in DOMAIN invites /\ invites' = [invites EXCEPT ![i].expired = TRUE]
        /\ UNCHANGED <<claim, looking>>
    BY <1>10 DEF InviteExpires
  <2>2. Kept(invites')
    BY <2>1, OneFieldKeeps
  <2>3. \A j \in DOMAIN invites : invites'[j].consumed = invites[j].consumed
    BY <2>1 DEF TypeOK, Invites
  <2> QED BY <2>1, <2>2, <2>3 DEF Rewritten, LookingStep, ClaimStep
<1>11. CASE UNCHANGED vars
  BY <1>11, SameInvites DEF vars, LookingStep
<1> QED
  BY <1>1, <1>2, <1>3, <1>4, <1>5, <1>6, <1>7, <1>8, <1>9, <1>10, <1>11 DEF Next

-----------------------------------------------------------------------------
LEMMA InitTypeOK == Init => TypeOK
BY InvitesAssumption DEF Init, TypeOK, Stages

LEMMA NextTypeOK == TypeOK /\ [Next]_vars => TypeOK'
<1> SUFFICES ASSUME TypeOK, [Next]_vars PROVE TypeOK'
  OBVIOUS
<1>1. invites' \in Seq(Invites) /\ Len(invites') <= MaxInvites
  <2>1. CASE Added
    <3>1. PICK x \in Invites : invites' = Append(invites, x) /\ Len(invites) < MaxInvites
      BY <2>1 DEF Added
    <3> QED BY <3>1, InvitesAssumption DEF TypeOK
  <2>2. CASE Rewritten
    BY <2>2 DEF Rewritten, Kept, TypeOK
  <2> QED BY <2>1, <2>2, StepCases
<1>2. looking' \in [Lookups -> Requests \cup {None}]
  <2>1. CASE Added
    BY <2>1 DEF Added, TypeOK
  <2>2. CASE Rewritten
    BY <2>2 DEF Rewritten, LookingStep, TypeOK
  <2> QED BY <2>1, <2>2, StepCases
<1>3. claim' \in [Handles -> Users \cup {None}]
  <2>1. CASE Added
    BY <2>1 DEF Added, TypeOK
  <2>2. CASE Rewritten
    BY <2>2 DEF Rewritten, ClaimStep, AcceptKept, TypeOK
  <2> QED BY <2>1, <2>2, StepCases
<1>4. /\ username' \in [Users -> Handles \cup {None}]
      /\ name' \in [Users -> Handles \cup {None}]
      /\ stage' \in [Users -> Stages] /\ wallet' \in [Users -> BOOLEAN]
      /\ starting' \in Users \cup {None}
  <2> USE DEF TypeOK, Stages
  <2>1. ASSUME NEW l \in Lookups, LookupHostedRecipient(l) \/ CreateInvite(l) \/ LookupFails(l)
        PROVE  UNCHANGED <<username, name, stage, wallet, starting>>
    BY <2>1 DEF LookupHostedRecipient, CreateInvite, LookupFails
  <2>2. ASSUME NEW u \in Users, NEW i \in 1..MaxInvites, OpenInvite(u, i)
        PROVE  UNCHANGED <<username, name, stage, wallet>> /\ starting' = u
    BY <2>2 DEF OpenInvite, OpenInviteInVain, AcceptInvite
  <2>3. ASSUME NEW u \in Users, Start(u)
        PROVE  /\ UNCHANGED <<username>> /\ starting' = None
               /\ name' \in [Users -> Handles \cup {None}]
               /\ stage' \in [Users -> Stages] /\ wallet' \in [Users -> BOOLEAN]
    BY <2>3 DEF Start, NameAtStart, Refresh, RefreshRolledBack
  <2>4. ASSUME NEW u \in Users, Message(u) \/ MessageRolledBack(u)
        PROVE  /\ UNCHANGED <<username, name, stage, starting>>
               /\ wallet' \in [Users -> BOOLEAN]
    BY <2>4 DEF Message, MessageRolledBack, Refresh, RefreshRolledBack
  <2>5. ASSUME NEW u \in Users, HostedSyncWallet(u) \/ BackfillOverHttp(u)
        PROVE  /\ UNCHANGED <<username, name, stage, starting>>
               /\ wallet' \in [Users -> BOOLEAN]
    BY <2>5 DEF HostedSyncWallet, BackfillOverHttp
  <2>6. ASSUME NEW u \in Users, ChangeUsername(u)
        PROVE  /\ UNCHANGED <<name, stage, wallet, starting>>
               /\ username' \in [Users -> Handles \cup {None}]
    BY <2>6 DEF ChangeUsername
  <2>7. ASSUME NEW i \in 1..MaxInvites, InviteExpires(i)
        PROVE  UNCHANGED <<username, name, stage, wallet, starting>>
    BY <2>7 DEF InviteExpires
  <2>8. CASE UNCHANGED vars
    BY <2>8 DEF vars
  <2> QED BY <2>1, <2>2, <2>3, <2>4, <2>5, <2>6, <2>7, <2>8 DEF Next
<1> QED BY <1>1, <1>2, <1>3, <1>4 DEF TypeOK

(* Every reachable state is well-typed.                                    *)
THEOREM TypeCorrect == Spec => []TypeOK
BY InitTypeOK, NextTypeOK, PTL DEF Spec

-----------------------------------------------------------------------------
LEMMA NextConsumed ==
  ASSUME TypeOK, ConsumedMeansClaimed, [Next]_vars
  PROVE  ConsumedMeansClaimed'
<1> SUFFICES ASSUME NEW i \in DOMAIN invites', invites'[i].consumed
             PROVE  claim'[invites'[i].target] # None
  BY DEF ConsumedMeansClaimed
<1>1. /\ invites \in Seq(Invites) /\ DOMAIN invites = 1..Len(invites)
      /\ Len(invites) \in Nat
      /\ \A j \in DOMAIN invites : invites[j] \in Invites
  BY DEF TypeOK
<1>11. \A j \in DOMAIN invites : invites[j].target \in Handles
  BY <1>1 DEF Invites
<1>2. CASE Added
  <2>1. PICK x : /\ invites' = Append(invites, x) /\ ~x.consumed
                 /\ UNCHANGED claim
    BY <1>2 DEF Added
  <2>2. i \in DOMAIN invites /\ invites'[i] = invites[i]
    BY <2>1, <1>1
  <2> QED BY <2>1, <2>2 DEF ConsumedMeansClaimed
<1>3. CASE Rewritten
  <2>1. /\ i \in DOMAIN invites /\ invites'[i].target = invites[i].target
        /\ invites[i].target \in Handles
    BY <1>1, <1>11, <1>3 DEF Rewritten, Kept
  <2>2. CASE UNCHANGED claim /\ \A j \in DOMAIN invites : invites'[j].consumed = invites[j].consumed
    BY <2>1, <2>2 DEF ConsumedMeansClaimed
  <2>3. ASSUME NEW u \in Users, NEW j \in DOMAIN invites, AcceptKept(u, j)
        PROVE  claim'[invites'[i].target] # None
    <3>1. claim \in [Handles -> Users \cup {None}] /\ u # None
      BY InvitesAssumption DEF TypeOK
    <3>2. i # j => invites'[i] = invites[i]
      BY <2>1, <2>3, <1>1 DEF AcceptKept
    <3>3. claim' = [claim EXCEPT ![invites[j].target] = u]
      BY <2>3 DEF AcceptKept
    <3> QED BY <2>1, <3>1, <3>2, <3>3, <1>11 DEF ConsumedMeansClaimed
  <2> QED BY <1>3, <2>2, <2>3 DEF Rewritten, ClaimStep
<1> QED BY <1>2, <1>3, StepCases

(* A consumed invite has left a claim, although both are committed by one  *)
(* of several transactions that open the same link.                        *)
THEOREM ConsumedClaimed == Spec => []ConsumedMeansClaimed
<1>1. Init => ConsumedMeansClaimed
  BY DEF Init, ConsumedMeansClaimed
<1> QED BY <1>1, InitTypeOK, NextTypeOK, NextConsumed, PTL DEF Spec

(* No claim ever moves, however often usernames do, and only the holder of *)
(* a username claims it.                                                   *)
THEOREM ClaimsForGood == Spec => ClaimsStay
<1>1. TypeOK /\ [Next]_vars =>
        [\A h \in Handles : claim'[h] # claim[h] =>
           claim[h] = None /\ username[claim'[h]] = h]_vars
  <2> SUFFICES ASSUME TypeOK, [Next]_vars, NEW h \in Handles, claim'[h] # claim[h]
               PROVE  claim[h] = None /\ username[claim'[h]] = h
    OBVIOUS
  <2>1. PICK u \in Users, i \in DOMAIN invites : AcceptKept(u, i)
    BY StepCases DEF Added, Rewritten, ClaimStep
  <2>2. claim' = [claim EXCEPT ![invites[i].target] = u]
    BY <2>1 DEF AcceptKept
  <2>3. claim \in [Handles -> Users \cup {None}]
    BY DEF TypeOK
  <2>4. h = invites[i].target /\ claim'[h] = u
    BY <2>2, <2>3
  <2> QED BY <2>1, <2>4 DEF AcceptKept
<1> QED BY <1>1, InitTypeOK, NextTypeOK, PTL DEF Spec, ClaimsStay

=============================================================================
