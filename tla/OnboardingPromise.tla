------------------------- MODULE OnboardingPromise -------------------------
(***************************************************************************)
(* What hosted onboarding promises, whatever fails inside it: an account   *)
(* at the Platform is opened for a user at the inbox his code was sent to  *)
(* (or, when no inbox is required, at an address of his own), for nobody   *)
(* else and for good, and he is let in once that account is claimed.       *)
(*                                                                         *)
(* Rows, transactions, retries, links and connections do not appear here;  *)
(* HostedOnboarding is shown to implement this specification.              *)
(***************************************************************************)
CONSTANTS Users, Inboxes, None, InboxRequired

VARIABLES
  stage,    \* [Users -> {"outside", "code", "waiting", "ready"}]
  code,     \* [Users -> Inboxes or None]: where an open code was sent
  account,  \* [Users -> account or None]
  claimed   \* accounts whose owner accepted the claim

vars == <<stage, code, account, claimed>>

Accounts == Users \cup Inboxes

Init ==
  /\ stage = [u \in Users |-> "outside"]
  /\ code = [u \in Users |-> None]
  /\ account = [u \in Users |-> None]
  /\ claimed = {}

Free(a) == \A v \in Users : account[v] # a

SendCode(u, e) ==
  /\ InboxRequired /\ stage[u] = "outside" /\ Free(e)
  /\ stage' = [stage EXCEPT ![u] = "code"]
  /\ code' = [code EXCEPT ![u] = e]
  /\ UNCHANGED <<account, claimed>>

GiveUp(u) ==
  /\ stage[u] = "code"
  /\ stage' = [stage EXCEPT ![u] = "outside"]
  /\ code' = [code EXCEPT ![u] = None]
  /\ UNCHANGED <<account, claimed>>

(* Account a is opened for u and claimed at some time before or after.     *)
Open(u, a, s) ==
  /\ IF InboxRequired THEN stage[u] = "code" /\ a = code[u]
                      ELSE stage[u] = "outside" /\ a = u
  /\ Free(a)
  /\ s = "ready" => a \in claimed
  /\ stage' = [stage EXCEPT ![u] = s]
  /\ code' = [code EXCEPT ![u] = None]
  /\ account' = [account EXCEPT ![u] = a]
  /\ UNCHANGED claimed

LetIn(u) ==
  /\ stage[u] = "waiting" /\ account[u] \in claimed
  /\ stage' = [stage EXCEPT ![u] = "ready"]
  /\ UNCHANGED <<code, account, claimed>>

Claim(a) ==
  /\ claimed' = claimed \cup {a}
  /\ UNCHANGED <<stage, code, account>>

Next ==
  \/ \E u \in Users :
       \/ \E e \in Inboxes : SendCode(u, e)
       \/ GiveUp(u)
       \/ \E a \in Accounts, s \in {"waiting", "ready"} : Open(u, a, s)
       \/ LetIn(u)
  \/ \E a \in Accounts : Claim(a)

Spec == Init /\ [][Next]_vars

=============================================================================
