------------------------- MODULE AgentTokensProofs -------------------------
(***************************************************************************)
(* While nobody fetches a token outside the lock, every request leaves     *)
(* with a token of its own, and a retry with another one, for any number   *)
(* of threads, agents and keys.                                            *)
(***************************************************************************)
EXTENDS AgentTokens, TLAPS

(* The attributes agree with each other.                                   *)
Describes(c) == c.token # None => c.agent = c.token[1] /\ c.key = c.token[2]

(* Thread t was refused a token and has dropped it from the cache.         *)
PastDrop(t) ==
  /\ retried[t]
  /\ \/ pc[t] \in {"enter", "read", "fetch", "return"}
     \/ pc[t] \in {"clear", "write"} /\ after[t] # "enter"

ReadInv(t) ==
  pc[t] = "read" =>
    /\ at[t] # "token" => cache.token # None
    /\ at[t] \in {"key", "expired"} => cache.agent = job[t].agent
    /\ at[t] = "expired" => cache.key = job[t].key

(* What t assigns: the token it fetched, which nobody else has, or nothing. *)
WriteInv(t) ==
  pc[t] = "write" =>
    IF after[t] = "return"
    THEN /\ new[t].token # None /\ new[t].token[3] = issued
         /\ new[t].token[1] = job[t].agent /\ new[t].token[2] = job[t].key
         /\ new[t].agent = job[t].agent /\ new[t].key = job[t].key
         /\ \A u \in Threads : bearer[u] # new[t].token /\ rejected[u] # new[t].token
         /\ at[t] # "token" => cache.token = new[t].token
         /\ at[t] \in {"key", "expired"} => cache.agent = job[t].agent
         /\ at[t] = "expired" => cache.key = job[t].key
    ELSE /\ after[t] \in {"fetch", "enter"} /\ new[t] = Empty
         /\ at[t] # "token" => cache.token = None

BearerInv(t) ==
  /\ pc[t] = "return" =>
       cache.token # None /\ cache.token[1] = job[t].agent /\ cache.token[2] = job[t].key
  /\ pc[t] = "send" =>
       bearer[t] # None /\ bearer[t][1] = job[t].agent /\ bearer[t][2] = job[t].key
  /\ bearer[t] # None => bearer[t][3] <= issued

RetryInv(t) ==
  /\ retried[t] => rejected[t] # None /\ rejected[t][1] = job[t].agent
  /\ rejected[t] # None => rejected[t][3] <= issued
  /\ PastDrop(t) => cache.token # rejected[t]
  /\ pc[t] = "send" /\ retried[t] => bearer[t] # rejected[t]

PlaceInv(t) ==
  /\ lock = t <=> pc[t] \in Inside
  /\ pc[t] \notin {"read", "write"} => at[t] = "token"
  /\ pc[t] = "idle" => ~retried[t]
  /\ pc[t] = "clear" => after[t] \in {"fetch", "enter"}

CacheInv ==
  /\ (\A t \in Threads : pc[t] # "write") => Describes(cache)
  /\ cache.token # None => cache.token[3] <= issued

ThreadInv(t) ==
  PlaceInv(t) /\ ReadInv(t) /\ WriteInv(t) /\ BearerInv(t) /\ RetryInv(t)

(* Well-typed, and a thread with a request knows its agent and its key.    *)
TInv ==
  /\ TypeOK
  /\ \A t \in Threads : pc[t] # "idle" => job[t] \in [agent: Agents, key: Keys]

IInv == TInv /\ CacheInv /\ \A t \in Threads : ThreadInv(t)

-----------------------------------------------------------------------------
(* Types, with any threads outside the lock.                               *)
LEMMA EmptyType == Empty \in Caches /\ NoJob \in [agent: Agents \cup {None}, key: Keys \cup {None}]
BY DEF Empty, Caches, NoJob

LEMMA InitTInv == Init => TInv
<1> SUFFICES ASSUME Init PROVE TInv
  OBVIOUS
<1>1. TypeOK
  BY EmptyType, TokensAssumption DEF Init, TypeOK, Places, Fields
<1> QED BY <1>1 DEF TInv, Init

LEMMA WriteType ==
  ASSUME NEW c \in Caches, NEW n \in Caches, NEW f \in Fields
  PROVE  [c EXCEPT ![f] = n[f]] \in Caches
<1>1. CASE f = "token"  BY <1>1 DEF Caches
<1>2. CASE f = "agent"  BY <1>2 DEF Caches
<1>3. CASE f = "key"  BY <1>3 DEF Caches
<1>4. CASE f = "expired"  BY <1>4 DEF Caches
<1> QED BY <1>1, <1>2, <1>3, <1>4 DEF Fields

LEMMA NextFieldIs ==
  /\ NextField["token"] = "agent" /\ NextField["agent"] = "key" /\ NextField["key"] = "expired"
BY DEF NextField

LEMMA NextFieldType ==
  ASSUME NEW f \in Fields, f # "expired"
  PROVE  NextField[f] \in Fields
BY NextFieldIs DEF Fields

(* The cases of a read and of an assignment.                               *)
ReadCases(t) ==
  \/ /\ at[t] = "token" /\ cache.token # None
     /\ at' = [at EXCEPT ![t] = "agent"] /\ UNCHANGED <<pc, lock, after>>
  \/ /\ at[t] = "agent" /\ cache.agent = job[t].agent
     /\ at' = [at EXCEPT ![t] = "key"] /\ UNCHANGED <<pc, lock, after>>
  \/ /\ at[t] = "key" /\ cache.key = job[t].key
     /\ at' = [at EXCEPT ![t] = "expired"] /\ UNCHANGED <<pc, lock, after>>
  \/ /\ at[t] = "expired" /\ Goto(t, "return")
     /\ at' = [at EXCEPT ![t] = "token"] /\ UNCHANGED after
  \/ /\ Goto(t, "fetch")
     /\ at' = [at EXCEPT ![t] = "token"] /\ UNCHANGED after
  \/ /\ at[t] = "expired" /\ Goto(t, "clear")
     /\ at' = [at EXCEPT ![t] = "token"]
     /\ after' = [after EXCEPT ![t] = "fetch"]

LEMMA ReadFieldCases ==
  ASSUME TInv, NEW t \in Threads, ReadField(t)
  PROVE  ReadCases(t)
<1>1. at[t] \in Fields
  BY DEF TInv, TypeOK
<1>2. CASE at[t] = "token"
  BY <1>2, NextFieldIs DEF ReadCases, ReadField, Fits
<1>3. CASE at[t] = "agent"
  BY <1>3, NextFieldIs DEF ReadCases, ReadField, Fits
<1>4. CASE at[t] = "key"
  BY <1>4, NextFieldIs DEF ReadCases, ReadField, Fits
<1>5. CASE at[t] = "expired"
  BY <1>5, NextFieldIs DEF ReadCases, ReadField, Fits
<1> QED BY <1>1, <1>2, <1>3, <1>4, <1>5 DEF Fields, ReadCases

WriteCases(t) ==
  /\ cache' \in Caches
  /\ \/ /\ at[t] = "token" /\ at' = [at EXCEPT ![t] = "agent"]
        /\ cache'.token = new[t].token
        /\ cache'.agent = cache.agent /\ cache'.key = cache.key
        /\ UNCHANGED <<pc, lock, new>>
     \/ /\ at[t] = "agent" /\ at' = [at EXCEPT ![t] = "key"]
        /\ cache'.agent = new[t].agent
        /\ cache'.token = cache.token /\ cache'.key = cache.key
        /\ UNCHANGED <<pc, lock, new>>
     \/ /\ at[t] = "key" /\ at' = [at EXCEPT ![t] = "expired"]
        /\ cache'.key = new[t].key
        /\ cache'.token = cache.token /\ cache'.agent = cache.agent
        /\ UNCHANGED <<pc, lock, new>>
     \/ /\ at[t] = "expired" /\ at' = [at EXCEPT ![t] = "token"]
        /\ cache'.token = cache.token /\ cache'.agent = cache.agent
        /\ cache'.key = cache.key
        /\ Goto(t, after[t]) /\ new' = [new EXCEPT ![t] = Empty]

LEMMA WriteFieldCases ==
  ASSUME TInv, NEW t \in Threads, WriteField(t)
  PROVE  WriteCases(t)
<1>1. at[t] \in Fields /\ cache \in Caches /\ new[t] \in Caches
  BY DEF TInv, TypeOK
<1>2. cache' \in Caches
  BY <1>1, WriteType DEF WriteCases, WriteField
<1>3. CASE at[t] = "token"
  BY <1>1, <1>3, NextFieldIs DEF WriteCases, WriteField, Caches
<1>4. CASE at[t] = "agent"
  BY <1>1, <1>4, NextFieldIs DEF WriteCases, WriteField, Caches
<1>5. CASE at[t] = "key"
  BY <1>1, <1>5, NextFieldIs DEF WriteCases, WriteField, Caches
<1>6. CASE at[t] = "expired"
  BY <1>1, <1>6, NextFieldIs DEF WriteCases, WriteField, Caches
<1> QED BY <1>1, <1>2, <1>3, <1>4, <1>5, <1>6 DEF Fields, WriteCases

LEMMA NextTInv == TInv /\ [Next]_vars => TInv'
<1> SUFFICES ASSUME TInv, [Next]_vars PROVE TInv'
  OBVIOUS
<1>4. ASSUME NEW t \in Threads, ReadField(t) PROVE TInv'
  <2>1. pc[t] = "read" /\ UNCHANGED <<cache, job, new, bearer, retried, rejected, issued>>
    BY <1>4 DEF ReadField
  <2>2. ReadCases(t)
    BY <1>4, ReadFieldCases
  <2>3. /\ pc' \in [Threads -> Places] /\ lock' \in Threads \cup {None}
        /\ \A u \in Threads : pc'[u] # "idle" => pc[u] # "idle"
    BY <2>1, <2>2 DEF TInv, TypeOK, Places, Waiting, Inside, Goto, ReadCases
  <2>4. at' \in [Threads -> Fields] /\ after' \in [Threads -> Places]
    BY <2>2 DEF TInv, TypeOK, Places, Waiting, Inside, ReadCases, Fields
  <2> QED BY <2>1, <2>3, <2>4 DEF TInv, TypeOK
<1>5. ASSUME NEW t \in Threads, WriteField(t) PROVE TInv'
  <2>1. pc[t] = "write" /\ UNCHANGED <<job, after, bearer, retried, rejected, issued>>
    BY <1>5 DEF WriteField
  <2>2. WriteCases(t)
    BY <1>5, WriteFieldCases
  <2>3. /\ pc' \in [Threads -> Places] /\ lock' \in Threads \cup {None}
        /\ \A u \in Threads : pc'[u] # "idle" => pc[u] # "idle"
    BY <2>1, <2>2 DEF TInv, TypeOK, Goto, WriteCases
  <2>4. at' \in [Threads -> Fields]
    BY <2>2 DEF TInv, TypeOK, WriteCases, Fields
  <2>5. new' = new \/ new' = [new EXCEPT ![t] = Empty]
    BY <2>2 DEF WriteCases
  <2>6. new' \in [Threads -> Caches]
    BY <2>5, EmptyType DEF TInv, TypeOK
  <2>7. cache' \in Caches
    BY <2>2 DEF WriteCases
  <2> QED BY <2>1, <2>3, <2>4, <2>6, <2>7 DEF TInv, TypeOK
<1> USE TokensAssumption DEF TInv, TypeOK, Places, Waiting, Inside, Goto, Forget
<1>1. ASSUME NEW t \in Threads, Request(t) PROVE TInv'
  BY <1>1 DEF Request, FirstPlace
<1>2. ASSUME NEW t \in Threads, EnterBearerForAgent(t) PROVE TInv'
  BY <1>2 DEF EnterBearerForAgent
<1>3. ASSUME NEW t \in Threads, EnterInvalidate(t) PROVE TInv'
  BY <1>3 DEF EnterInvalidate
<1>6. ASSUME NEW t \in Threads, FetchAccessToken(t) PROVE TInv'
  <2> DEFINE tok == <<job[t].agent, job[t].key, issued'>>
  <2>1. job[t] \in [agent: Agents, key: Keys] /\ issued' \in 1..MaxTokens
    BY <1>6 DEF FetchAccessToken
  <2>2. [token |-> tok, agent |-> job[t].agent, key |-> job[t].key, expired |-> FALSE] \in Caches
    BY <2>1 DEF Caches, Tokens
  <2> QED BY <1>6, <2>1, <2>2 DEF FetchAccessToken, StartWriting
<1>7. ASSUME NEW t \in Threads, SecretStoreUnavailable(t) PROVE TInv'
  BY <1>7, EmptyType DEF SecretStoreUnavailable
<1>8. ASSUME NEW t \in Threads, ReturnAccessToken(t) PROVE TInv'
  BY <1>8 DEF ReturnAccessToken, Caches
<1>9. ASSUME NEW t \in Threads, InvalidateAccessToken(t) PROVE TInv'
  BY <1>9, EmptyType DEF InvalidateAccessToken, StartWriting
<1>10. ASSUME NEW t \in Threads, Finish(t) PROVE TInv'
  BY <1>10, EmptyType DEF Finish
<1>11. ASSUME NEW t \in Threads, Unauthorized(t) PROVE TInv'
  BY <1>11 DEF Unauthorized
<1>12. CASE ExpiryPasses
  BY <1>12 DEF ExpiryPasses, Caches
<1>13. CASE UNCHANGED vars
  BY <1>13 DEF vars
<1> QED
  BY <1>1, <1>2, <1>3, <1>4, <1>5, <1>6, <1>7, <1>8, <1>9, <1>10, <1>11, <1>12, <1>13
  DEF Next, Acquire, Proceed

(* Every reachable state is well-typed, whoever fetches where.             *)
THEOREM TypeCorrect == Spec => []TypeOK
<1>1. Spec => []TInv
  BY InitTInv, NextTInv, PTL DEF Spec
<1>2. TInv => TypeOK
  BY DEF TInv
<1> QED BY <1>1, <1>2, PTL

-----------------------------------------------------------------------------
(* The invariant, when nobody fetches outside the lock.                    *)
LEMMA InitIInv == Init => IInv
<1> SUFFICES ASSUME Init PROVE IInv
  OBVIOUS
<1>1. CacheInv
  BY DEF Init, CacheInv, Describes, Empty
<1>2. ASSUME NEW t \in Threads PROVE ThreadInv(t)
  BY TokensAssumption DEF Init, ThreadInv, PlaceInv, ReadInv, WriteInv, BearerInv, RetryInv, PastDrop, Inside
<1> QED BY <1>1, <1>2, InitTInv DEF IInv

LEMMA RequestKeeps ==
  ASSUME IInv, TInv', SigningKeysCallers = {}, NEW t \in Threads, Request(t)
  PROVE  CacheInv' /\ \A u \in Threads : ThreadInv(u)'
<1> USE TokensAssumption DEF IInv, TInv, TypeOK, Inside, Goto, Forget, ThreadInv, Request, FirstPlace
<1>1. CacheInv'
  BY DEF CacheInv, Describes, PlaceInv, WriteInv
<1>2. ASSUME NEW u \in Threads PROVE PlaceInv(u)'
  BY DEF PlaceInv
<1>3. ASSUME NEW u \in Threads PROVE ReadInv(u)'
  BY DEF ReadInv, PlaceInv
<1>4. ASSUME NEW u \in Threads PROVE WriteInv(u)'
  BY DEF WriteInv, PlaceInv
<1>5. ASSUME NEW u \in Threads PROVE BearerInv(u)'
  BY DEF BearerInv, PlaceInv
<1>6. ASSUME NEW u \in Threads PROVE RetryInv(u)'
  BY DEF RetryInv, PastDrop, PlaceInv
<1> QED BY <1>1, <1>2, <1>3, <1>4, <1>5, <1>6

LEMMA EnterBearerForAgentKeeps ==
  ASSUME IInv, TInv', SigningKeysCallers = {}, NEW t \in Threads, EnterBearerForAgent(t)
  PROVE  CacheInv' /\ \A u \in Threads : ThreadInv(u)'
<1> USE TokensAssumption DEF IInv, TInv, TypeOK, Inside, Goto, Forget, ThreadInv, EnterBearerForAgent
<1>1. CacheInv'
  BY DEF CacheInv, Describes, PlaceInv, WriteInv
<1>2. ASSUME NEW u \in Threads PROVE PlaceInv(u)'
  BY DEF PlaceInv
<1>3. ASSUME NEW u \in Threads PROVE ReadInv(u)'
  BY DEF ReadInv, PlaceInv
<1>4. ASSUME NEW u \in Threads PROVE WriteInv(u)'
  BY DEF WriteInv, PlaceInv
<1>5. ASSUME NEW u \in Threads PROVE BearerInv(u)'
  BY DEF BearerInv, PlaceInv
<1>6. ASSUME NEW u \in Threads PROVE RetryInv(u)'
  BY DEF RetryInv, PastDrop, PlaceInv
<1> QED BY <1>1, <1>2, <1>3, <1>4, <1>5, <1>6

LEMMA EnterInvalidateKeeps ==
  ASSUME IInv, TInv', SigningKeysCallers = {}, NEW t \in Threads, EnterInvalidate(t)
  PROVE  CacheInv' /\ \A u \in Threads : ThreadInv(u)'
<1> USE TokensAssumption DEF IInv, TInv, TypeOK, Inside, Goto, Forget, ThreadInv, EnterInvalidate
<1>1. CacheInv'
  BY DEF CacheInv, Describes, PlaceInv, WriteInv
<1>2. ASSUME NEW u \in Threads PROVE PlaceInv(u)'
  BY DEF PlaceInv
<1>3. ASSUME NEW u \in Threads PROVE ReadInv(u)'
  BY DEF ReadInv, PlaceInv
<1>4. ASSUME NEW u \in Threads PROVE WriteInv(u)'
  BY DEF WriteInv, PlaceInv
<1>5. ASSUME NEW u \in Threads PROVE BearerInv(u)'
  BY DEF BearerInv, PlaceInv
<1>6. ASSUME NEW u \in Threads PROVE RetryInv(u)'
  BY DEF RetryInv, PastDrop, PlaceInv
<1> QED BY <1>1, <1>2, <1>3, <1>4, <1>5, <1>6

LEMMA ReadFieldKeeps ==
  ASSUME IInv, TInv', SigningKeysCallers = {}, NEW t \in Threads, ReadField(t)
  PROVE  CacheInv' /\ \A u \in Threads : ThreadInv(u)'
<1>0. pc[t] = "read" /\ UNCHANGED <<cache, job, new, bearer, retried, rejected, issued>>
  BY DEF ReadField
<1>00. ReadCases(t)
  BY ReadFieldCases DEF IInv
<1> USE TokensAssumption DEF ReadCases, IInv, TInv, TypeOK, Inside, Goto, ThreadInv, Empty
<1>1. CacheInv'
  BY <1>0, <1>00 DEF CacheInv, Describes, PlaceInv, WriteInv
<1>2. ASSUME NEW u \in Threads PROVE PlaceInv(u)'
  BY <1>0, <1>00 DEF PlaceInv
<1>3. ASSUME NEW u \in Threads PROVE ReadInv(u)'
  BY <1>0, <1>00 DEF ReadInv, PlaceInv
<1>4. ASSUME NEW u \in Threads PROVE WriteInv(u)'
  BY <1>0, <1>00 DEF WriteInv, PlaceInv
<1>5. ASSUME NEW u \in Threads PROVE BearerInv(u)'
  BY <1>0, <1>00 DEF BearerInv, PlaceInv, ReadInv, CacheInv, Describes
<1>6. ASSUME NEW u \in Threads PROVE RetryInv(u)'
  BY <1>0, <1>00 DEF RetryInv, PastDrop, PlaceInv
<1> QED BY <1>1, <1>2, <1>3, <1>4, <1>5, <1>6

LEMMA WriteFieldKeeps ==
  ASSUME IInv, TInv', SigningKeysCallers = {}, NEW t \in Threads, WriteField(t)
  PROVE  CacheInv' /\ \A u \in Threads : ThreadInv(u)'
<1>0. pc[t] = "write" /\ UNCHANGED <<job, after, bearer, retried, rejected, issued>>
  BY DEF WriteField
<1>00. WriteCases(t)
  BY WriteFieldCases DEF IInv
<1> USE TokensAssumption DEF WriteCases, IInv, TInv, TypeOK, Inside, Goto, ThreadInv, Empty
<1>1. CacheInv'
  BY <1>0, <1>00 DEF CacheInv, Describes, PlaceInv, WriteInv
<1>2. ASSUME NEW u \in Threads PROVE PlaceInv(u)'
  BY <1>0, <1>00 DEF PlaceInv, WriteInv
<1>3. ASSUME NEW u \in Threads PROVE ReadInv(u)'
  BY <1>0, <1>00 DEF ReadInv, PlaceInv
<1>4. ASSUME NEW u \in Threads PROVE WriteInv(u)'
  BY <1>0, <1>00 DEF WriteInv, PlaceInv
<1>5. ASSUME NEW u \in Threads PROVE BearerInv(u)'
  BY <1>0, <1>00 DEF BearerInv, PlaceInv, WriteInv, CacheInv
<1>6. ASSUME NEW u \in Threads PROVE RetryInv(u)'
  BY <1>0, <1>00 DEF RetryInv, PastDrop, PlaceInv, WriteInv
<1> QED BY <1>1, <1>2, <1>3, <1>4, <1>5, <1>6

LEMMA FetchAccessTokenKeeps ==
  ASSUME IInv, TInv', SigningKeysCallers = {}, NEW t \in Threads, FetchAccessToken(t)
  PROVE  CacheInv' /\ \A u \in Threads : ThreadInv(u)'
<1> USE TokensAssumption DEF IInv, TInv, TypeOK, Inside, Goto, Forget, ThreadInv, FetchAccessToken, StartWriting
<1>1. CacheInv'
  BY DEF CacheInv, Describes, PlaceInv, Caches, Tokens
<1>2. ASSUME NEW u \in Threads PROVE PlaceInv(u)'
  BY DEF PlaceInv
<1>3. ASSUME NEW u \in Threads PROVE ReadInv(u)'
  BY DEF ReadInv, PlaceInv
<1>4. ASSUME NEW u \in Threads PROVE WriteInv(u)'
  <2>1. CASE u = t
    <3> DEFINE tok == <<job[t].agent, job[t].key, issued + 1>>
    <3>1. pc'[t] = "write" /\ after'[t] = "return" /\ new'[t].token = tok
      BY DEF PlaceInv
    <3>2. issued' = issued + 1 /\ issued \in Nat
      OBVIOUS
    <3>3. tok # None
      BY <3>1, <3>2 DEF Caches, Tokens
    <3>4. ASSUME NEW v \in Threads PROVE bearer[v] # tok /\ rejected[v] # tok
      <4>1. tok[3] = issued + 1
        OBVIOUS
      <4>2. /\ bearer[v] # None => bearer[v][3] <= issued
            /\ rejected[v] # None => rejected[v][3] <= issued
        BY DEF BearerInv, RetryInv
      <4> HIDE DEF tok
      <4> QED BY <3>2, <3>3, <4>1, <4>2
    <3>5. at[t] = "token" /\ pc[t] = "fetch" /\ UNCHANGED <<at, job, bearer, rejected>>
      BY DEF PlaceInv
    <3>6. /\ new'[t].token[3] = issued' /\ new'[t].token[1] = job[t].agent
          /\ new'[t].token[2] = job[t].key
          /\ new'[t].agent = job[t].agent /\ new'[t].key = job[t].key
      BY DEF PlaceInv
    <3> HIDE DEF tok, IInv, TInv, TypeOK, Inside, Goto, Forget, ThreadInv, FetchAccessToken, StartWriting
    <3> QED BY <2>1, <3>1, <3>3, <3>4, <3>5, <3>6 DEF WriteInv
  <2>2. CASE u # t
    BY <2>2 DEF WriteInv, PlaceInv
  <2> QED BY <2>1, <2>2
<1>5. ASSUME NEW u \in Threads PROVE BearerInv(u)'
  BY DEF BearerInv, PlaceInv, Tokens
<1>6. ASSUME NEW u \in Threads PROVE RetryInv(u)'
  BY DEF RetryInv, PastDrop, PlaceInv, Tokens
<1> QED BY <1>1, <1>2, <1>3, <1>4, <1>5, <1>6

LEMMA SecretStoreUnavailableKeeps ==
  ASSUME IInv, TInv', SigningKeysCallers = {}, NEW t \in Threads, SecretStoreUnavailable(t)
  PROVE  CacheInv' /\ \A u \in Threads : ThreadInv(u)'
<1> USE TokensAssumption DEF IInv, TInv, TypeOK, Inside, Goto, Forget, ThreadInv, SecretStoreUnavailable
<1>1. CacheInv'
  BY DEF CacheInv, Describes, PlaceInv, WriteInv
<1>2. ASSUME NEW u \in Threads PROVE PlaceInv(u)'
  BY DEF PlaceInv
<1>3. ASSUME NEW u \in Threads PROVE ReadInv(u)'
  BY DEF ReadInv, PlaceInv
<1>4. ASSUME NEW u \in Threads PROVE WriteInv(u)'
  BY DEF WriteInv, PlaceInv
<1>5. ASSUME NEW u \in Threads PROVE BearerInv(u)'
  BY DEF BearerInv, PlaceInv
<1>6. ASSUME NEW u \in Threads PROVE RetryInv(u)'
  BY DEF RetryInv, PastDrop, PlaceInv
<1> QED BY <1>1, <1>2, <1>3, <1>4, <1>5, <1>6

LEMMA ReturnAccessTokenKeeps ==
  ASSUME IInv, TInv', SigningKeysCallers = {}, NEW t \in Threads, ReturnAccessToken(t)
  PROVE  CacheInv' /\ \A u \in Threads : ThreadInv(u)'
<1> USE TokensAssumption DEF IInv, TInv, TypeOK, Inside, Goto, Forget, ThreadInv, ReturnAccessToken
<1>1. CacheInv'
  BY DEF CacheInv, Describes, PlaceInv, WriteInv
<1>2. ASSUME NEW u \in Threads PROVE PlaceInv(u)'
  BY DEF PlaceInv
<1>3. ASSUME NEW u \in Threads PROVE ReadInv(u)'
  BY DEF ReadInv, PlaceInv
<1>4. ASSUME NEW u \in Threads PROVE WriteInv(u)'
  BY DEF WriteInv, PlaceInv
<1>5. ASSUME NEW u \in Threads PROVE BearerInv(u)'
  BY DEF BearerInv, PlaceInv, CacheInv
<1>6. ASSUME NEW u \in Threads PROVE RetryInv(u)'
  BY DEF RetryInv, PastDrop, PlaceInv
<1> QED BY <1>1, <1>2, <1>3, <1>4, <1>5, <1>6

LEMMA InvalidateAccessTokenKeeps ==
  ASSUME IInv, TInv', SigningKeysCallers = {}, NEW t \in Threads, InvalidateAccessToken(t)
  PROVE  CacheInv' /\ \A u \in Threads : ThreadInv(u)'
<1> USE TokensAssumption DEF IInv, TInv, TypeOK, Inside, Goto, Forget, ThreadInv, InvalidateAccessToken, StartWriting, Empty
<1>1. CacheInv'
  BY DEF CacheInv, Describes, PlaceInv, WriteInv
<1>2. ASSUME NEW u \in Threads PROVE PlaceInv(u)'
  BY DEF PlaceInv
<1>3. ASSUME NEW u \in Threads PROVE ReadInv(u)'
  BY DEF ReadInv, PlaceInv
<1>4. ASSUME NEW u \in Threads PROVE WriteInv(u)'
  BY DEF WriteInv, PlaceInv
<1>5. ASSUME NEW u \in Threads PROVE BearerInv(u)'
  BY DEF BearerInv, PlaceInv
<1>6. ASSUME NEW u \in Threads PROVE RetryInv(u)'
  BY DEF RetryInv, PastDrop, PlaceInv, CacheInv, Describes, BearerInv
<1> QED BY <1>1, <1>2, <1>3, <1>4, <1>5, <1>6

LEMMA FinishKeeps ==
  ASSUME IInv, TInv', SigningKeysCallers = {}, NEW t \in Threads, Finish(t)
  PROVE  CacheInv' /\ \A u \in Threads : ThreadInv(u)'
<1> USE TokensAssumption DEF IInv, TInv, TypeOK, Inside, Goto, Forget, ThreadInv, Finish
<1>1. CacheInv'
  BY DEF CacheInv, Describes, PlaceInv, WriteInv
<1>2. ASSUME NEW u \in Threads PROVE PlaceInv(u)'
  BY DEF PlaceInv
<1>3. ASSUME NEW u \in Threads PROVE ReadInv(u)'
  BY DEF ReadInv, PlaceInv
<1>4. ASSUME NEW u \in Threads PROVE WriteInv(u)'
  BY DEF WriteInv, PlaceInv
<1>5. ASSUME NEW u \in Threads PROVE BearerInv(u)'
  BY DEF BearerInv, PlaceInv
<1>6. ASSUME NEW u \in Threads PROVE RetryInv(u)'
  BY DEF RetryInv, PastDrop, PlaceInv
<1> QED BY <1>1, <1>2, <1>3, <1>4, <1>5, <1>6

LEMMA UnauthorizedKeeps ==
  ASSUME IInv, TInv', SigningKeysCallers = {}, NEW t \in Threads, Unauthorized(t)
  PROVE  CacheInv' /\ \A u \in Threads : ThreadInv(u)'
<1> USE TokensAssumption DEF IInv, TInv, TypeOK, Inside, Goto, Forget, ThreadInv, Unauthorized
<1>1. CacheInv'
  BY DEF CacheInv, Describes, PlaceInv, WriteInv
<1>2. ASSUME NEW u \in Threads PROVE PlaceInv(u)'
  BY DEF PlaceInv
<1>3. ASSUME NEW u \in Threads PROVE ReadInv(u)'
  BY DEF ReadInv, PlaceInv
<1>4. ASSUME NEW u \in Threads PROVE WriteInv(u)'
  BY DEF WriteInv, PlaceInv
<1>5. ASSUME NEW u \in Threads PROVE BearerInv(u)'
  BY DEF BearerInv, PlaceInv
<1>6. ASSUME NEW u \in Threads PROVE RetryInv(u)'
  BY DEF RetryInv, PastDrop, PlaceInv, BearerInv
<1> QED BY <1>1, <1>2, <1>3, <1>4, <1>5, <1>6

LEMMA NextIInv == IInv /\ SigningKeysCallers = {} /\ [Next]_vars => IInv'
<1> SUFFICES ASSUME IInv, SigningKeysCallers = {}, [Next]_vars
             PROVE  IInv'
  OBVIOUS
<1>1. TInv'
  BY NextTInv DEF IInv
<1> SUFFICES CacheInv' /\ \A u \in Threads : ThreadInv(u)'
  BY <1>1 DEF IInv
<1>2. ASSUME NEW t \in Threads, Request(t) \/ Acquire(t) \/ Proceed(t)
      PROVE  CacheInv' /\ \A u \in Threads : ThreadInv(u)'
  BY <1>1, <1>2, RequestKeeps, EnterBearerForAgentKeeps, EnterInvalidateKeeps,
     ReadFieldKeeps, WriteFieldKeeps, FetchAccessTokenKeeps,
     SecretStoreUnavailableKeeps, ReturnAccessTokenKeeps,
     InvalidateAccessTokenKeeps, FinishKeeps, UnauthorizedKeeps
  DEF Acquire, Proceed
<1>3. CASE ExpiryPasses
  <2>1. /\ cache'.token = cache.token /\ cache'.agent = cache.agent
        /\ cache'.key = cache.key
        /\ UNCHANGED <<lock, pc, at, job, new, after, bearer, retried, rejected, issued>>
    BY <1>3 DEF ExpiryPasses, IInv, TInv, TypeOK, Caches
  <2>2. CacheInv'
    BY <2>1 DEF IInv, CacheInv, Describes
  <2>3. ASSUME NEW u \in Threads PROVE ThreadInv(u)'
    BY <2>1 DEF IInv, ThreadInv, PlaceInv, ReadInv, WriteInv, BearerInv, RetryInv, PastDrop
  <2> QED BY <2>2, <2>3
<1>4. CASE UNCHANGED vars
  BY <1>4 DEF vars, IInv, CacheInv, Describes, ThreadInv, PlaceInv, ReadInv, WriteInv,
              BearerInv, RetryInv, PastDrop
<1> QED BY <1>2, <1>3, <1>4 DEF Next

LEMMA Invariant == SigningKeysCallers = {} /\ Spec => []IInv
<1>1. SigningKeysCallers = {} => (Spec => []IInv)
  <2> SUFFICES ASSUME SigningKeysCallers = {} PROVE Spec => []IInv
    OBVIOUS
  <2>1. IInv /\ [Next]_vars => IInv'
    BY NextIInv
  <2> QED BY InitIInv, <2>1, PTL DEF Spec
<1> QED BY <1>1

(* When no thread fetches a token outside the lock (all but GET            *)
(* signing-keys go through _bearer_for_agent), every request leaves with a *)
(* token of its own agent and API key.                                     *)
THEOREM BearerOfRequest == SigningKeysCallers = {} => (Spec => []BearerMatchesRequest)
<1> SUFFICES ASSUME SigningKeysCallers = {} PROVE Spec => []BearerMatchesRequest
  OBVIOUS
<1>1. Spec => []IInv
  BY Invariant
<1>2. IInv => BearerMatchesRequest
  BY DEF IInv, ThreadInv, BearerInv, BearerMatchesRequest
<1> QED BY <1>1, <1>2, PTL

(* When no thread fetches a token outside the lock, the retry after a 401  *)
(* never presents the token that was just refused.                         *)
THEOREM RetryNeverRepeats == SigningKeysCallers = {} => (Spec => []RetryWithAnotherToken)
<1> SUFFICES ASSUME SigningKeysCallers = {} PROVE Spec => []RetryWithAnotherToken
  OBVIOUS
<1>1. Spec => []IInv
  BY Invariant
<1>2. IInv => RetryWithAnotherToken
  BY DEF IInv, ThreadInv, RetryInv, RetryWithAnotherToken
<1> QED BY <1>1, <1>2, PTL

=============================================================================
