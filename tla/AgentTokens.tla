---------------------------- MODULE AgentTokens ----------------------------
(***************************************************************************)
(* The agent JWT that OneClawHttpClient caches for the whole process       *)
(* (custody/secret_store.py): four attributes, one lock, and threads that  *)
(* sign or read secrets with the cached token while others fetch tokens of *)
(* their own for GET signing-keys.                                         *)
(*                                                                         *)
(* The attributes are read and assigned one at a time, so every read and   *)
(* every assignment is a step. Tokens carry the agent and the API key they *)
(* were issued for; the server may stop accepting one at any time.         *)
(***************************************************************************)
EXTENDS Naturals

CONSTANTS
  Threads,             \* threads of the process
  SigningKeysCallers,  \* those that call get_agent_signing_keys_json
  Agents, Keys,        \* agent ids, API keys
  None,                \* Python's None
  MaxTokens            \* bound: tokens the server issues

Tokens == Agents \X Keys \X (1..MaxTokens)

ASSUME TokensAssumption ==
  /\ SigningKeysCallers \subseteq Threads
  /\ MaxTokens \in Nat
  /\ None \notin Threads \cup Agents \cup Keys \cup Tokens

(* The attributes _access_token, _access_token_agent,                      *)
(* _access_token_api_key_fp and _access_token_expires_at (here: whether    *)
(* the time has passed), in the order they are read and assigned.          *)
Fields == {"token", "agent", "key", "expired"}
NextField == [token |-> "agent", agent |-> "key", key |-> "expired"]

Caches == [token: Tokens \cup {None}, agent: Agents \cup {None},
           key: Keys \cup {None}, expired: BOOLEAN]
NoJob == [agent |-> None, key |-> None]
Empty == [token |-> None, agent |-> None, key |-> None, expired |-> FALSE]

(* Where a thread is:                                                      *)
(*   enter, enter401  waiting for the lock, to get a bearer or to drop one *)
(*   read, write      at the attribute at[t]                               *)
(*   clear            _invalidate_access_token, before its test            *)
(*   fetch            POST agent-token                                     *)
(*   return           about to return self._access_token                   *)
(*   send             about to send the request with its bearer            *)
Waiting == {"enter", "enter401"}
Inside == {"read", "write", "clear", "fetch", "return"}
Places == {"idle", "send"} \cup Waiting \cup Inside

VARIABLES
  cache,     \* the four attributes
  lock,      \* owner of _agent_jwt_lock
  pc, at,    \* where each thread is
  job,       \* agent and API key of its request
  new,       \* what it is assigning to the attributes
  after,     \* where it goes when it has assigned them
  bearer,    \* the bearer it sends
  retried,   \* has its request been answered 401?
  rejected,  \* the bearer of that request
  issued     \* number of tokens issued so far

vars == <<cache, lock, pc, at, job, new, after, bearer, retried, rejected, issued>>

Init ==
  /\ cache = Empty /\ lock = None
  /\ pc = [t \in Threads |-> "idle"]
  /\ at = [t \in Threads |-> "token"]
  /\ job = [t \in Threads |-> NoJob]
  /\ new = [t \in Threads |-> Empty]
  /\ after = [t \in Threads |-> "idle"]
  /\ bearer = [t \in Threads |-> None]
  /\ retried = [t \in Threads |-> FALSE]
  /\ rejected = [t \in Threads |-> None]
  /\ issued = 0

-----------------------------------------------------------------------------
(* Leaving the with block, normally or by an exception, releases the lock. *)
(* Seeded bug: an exception does not.                                      *)
Goto_KeepsLockOnError(t, place) ==
  /\ pc' = [pc EXCEPT ![t] = place]
  /\ lock' = IF lock = t /\ place \notin Inside \cup {"idle"} THEN None ELSE lock

Goto(t, place) ==
  /\ pc' = [pc EXCEPT ![t] = place]
  /\ lock' = IF lock = t /\ place \notin Inside THEN None ELSE lock

(* The variables of a request go out of scope when it ends.                *)
Forget(t) ==
  /\ job' = [job EXCEPT ![t] = NoJob]
  /\ bearer' = [bearer EXCEPT ![t] = None]
  /\ retried' = [retried EXCEPT ![t] = FALSE]
  /\ rejected' = [rejected EXCEPT ![t] = None]

(* A caller wants to use agent a.  The four ways to sign (transaction,     *)
(* message, typed data, intent) go through the cached token; a read of     *)
(* signing keys fetches a token for itself.                                *)
FirstPlace(t) == IF t \in SigningKeysCallers THEN "fetch" ELSE "enter"

Request(t) ==
  /\ pc[t] = "idle"
  /\ \E a \in Agents, k \in Keys : job' = [job EXCEPT ![t] = [agent |-> a, key |-> k]]
  /\ Goto(t, FirstPlace(t))
  /\ UNCHANGED <<cache, at, new, after, bearer, retried, rejected, issued>>

(* _bearer_for_agent: take the lock, resolve the API key the agent has     *)
(* now, compare the attributes.                                            *)
EnterBearerForAgent(t) ==
  /\ pc[t] = "enter" /\ lock = None
  /\ lock' = t
  /\ pc' = [pc EXCEPT ![t] = "read"]
  /\ \E k \in Keys : job' = [job EXCEPT ![t].key = k]
  /\ UNCHANGED <<cache, at, new, after, bearer, retried, rejected, issued>>

(* Seeded bug: the agent of the cached token is not compared.              *)
Fits_AnyAgent(t, field) ==
  CASE field = "token" -> cache.token # None
    [] field = "agent" -> TRUE
    [] field = "key"   -> cache.key = job[t].key
    [] field = "expired" -> ~cache.expired

Fits(t, field) ==
  CASE field = "token" -> cache.token # None
    [] field = "agent" -> cache.agent = job[t].agent
    [] field = "key"   -> cache.key = job[t].key
    [] field = "expired" -> ~cache.expired

ReadField(t) ==
  /\ pc[t] = "read"
  /\ \/ /\ Fits(t, at[t]) /\ at[t] # "expired"
        /\ at' = [at EXCEPT ![t] = NextField[at[t]]]
        /\ UNCHANGED <<pc, lock, after>>
     \/ /\ Fits(t, at[t]) /\ at[t] = "expired"
        /\ Goto(t, "return")
        /\ at' = [at EXCEPT ![t] = "token"] /\ UNCHANGED after
     \/ /\ ~Fits(t, at[t]) /\ at[t] # "expired"
        /\ Goto(t, "fetch")
        /\ at' = [at EXCEPT ![t] = "token"] /\ UNCHANGED after
     \/ /\ ~Fits(t, at[t]) /\ at[t] = "expired"
        /\ Goto(t, "clear")
        /\ at' = [at EXCEPT ![t] = "token"]
        /\ after' = [after EXCEPT ![t] = "fetch"]
  /\ UNCHANGED <<cache, job, new, bearer, retried, rejected, issued>>

(* Assign the attributes of c one by one, then go to place.                *)
StartWriting(t, c, place) ==
  /\ Goto(t, "write")
  /\ new' = [new EXCEPT ![t] = c]
  /\ after' = [after EXCEPT ![t] = place]

WriteField(t) ==
  /\ pc[t] = "write"
  /\ cache' = [cache EXCEPT ![at[t]] = new[t][at[t]]]
  /\ IF at[t] = "expired"
     THEN /\ Goto(t, after[t])
          /\ at' = [at EXCEPT ![t] = "token"]
          /\ new' = [new EXCEPT ![t] = Empty]
     ELSE /\ at' = [at EXCEPT ![t] = NextField[at[t]]]
          /\ UNCHANGED <<pc, lock, new>>
  /\ UNCHANGED <<job, after, bearer, retried, rejected, issued>>

(* _fetch_access_token: the server issues a token.                         *)
FetchAccessToken(t) ==
  /\ pc[t] = "fetch" /\ issued < MaxTokens
  /\ issued' = issued + 1
  /\ StartWriting(t, [token |-> <<job[t].agent, job[t].key, issued'>>,
                      agent |-> job[t].agent, key |-> job[t].key,
                      expired |-> FALSE], "return")
  /\ UNCHANGED <<cache, at, job, bearer, retried, rejected>>

(* The API key cannot be resolved, or the token cannot be fetched.         *)
SecretStoreUnavailable(t) ==
  /\ pc[t] = "fetch" \/ (pc[t] = "read" /\ at[t] = "token")
  /\ Goto(t, "idle")
  /\ Forget(t)
  /\ after' = [after EXCEPT ![t] = "idle"]
  /\ UNCHANGED <<cache, at, new, issued>>

(* return self._access_token, which is read once more.                     *)
ReturnAccessToken(t) ==
  /\ pc[t] = "return"
  /\ bearer' = [bearer EXCEPT ![t] = cache.token]
  /\ Goto(t, "send")
  /\ after' = [after EXCEPT ![t] = "idle"]
  /\ UNCHANGED <<cache, at, job, new, retried, rejected, issued>>

(* _invalidate_access_token.                                               *)
InvalidateAccessToken(t) ==
  /\ pc[t] = "clear"
  /\ IF cache.agent = job[t].agent
     THEN StartWriting(t, Empty, after[t])
     ELSE Goto(t, after[t]) /\ UNCHANGED <<new, after>>
  /\ UNCHANGED <<cache, at, job, bearer, retried, rejected, issued>>

-----------------------------------------------------------------------------
(* The answer to the request itself: the server may refuse any token, and  *)
(* an error that is not retried ends the request as an answer does (any    *)
(* but 401, a second 401, and every error of GET signing-keys).            *)
Finish(t) ==
  /\ pc[t] = "send"
  /\ Goto(t, "idle")
  /\ Forget(t)
  /\ UNCHANGED <<cache, at, new, after, issued>>

Unauthorized(t) ==
  /\ pc[t] = "send" /\ t \notin SigningKeysCallers /\ ~retried[t]
  /\ retried' = [retried EXCEPT ![t] = TRUE]
  /\ rejected' = [rejected EXCEPT ![t] = bearer[t]]
  /\ Goto(t, "enter401")
  /\ UNCHANGED <<cache, at, job, new, after, bearer, issued>>

(* Seeded bug: the retry does not drop the cached token.                   *)
EnterInvalidate_Skips(t) ==
  /\ pc[t] = "enter401" /\ lock = None
  /\ Goto(t, "enter")
  /\ UNCHANGED <<cache, at, job, new, after, bearer, retried, rejected, issued>>

EnterInvalidate(t) ==
  /\ pc[t] = "enter401" /\ lock = None
  /\ lock' = t
  /\ pc' = [pc EXCEPT ![t] = "clear"]
  /\ after' = [after EXCEPT ![t] = "enter"]
  /\ UNCHANGED <<cache, at, job, new, bearer, retried, rejected, issued>>

(* Environment: the time in _access_token_expires_at passes.               *)
ExpiryPasses ==
  /\ cache.token # None /\ ~cache.expired
  /\ cache' = [cache EXCEPT !.expired = TRUE]
  /\ UNCHANGED <<lock, pc, at, job, new, after, bearer, retried, rejected, issued>>

Acquire(t) == EnterBearerForAgent(t) \/ EnterInvalidate(t)

Proceed(t) ==
  \/ ReadField(t)
  \/ WriteField(t)
  \/ FetchAccessToken(t)
  \/ SecretStoreUnavailable(t)
  \/ ReturnAccessToken(t)
  \/ InvalidateAccessToken(t)
  \/ Finish(t)
  \/ Unauthorized(t)

Next ==
  \/ \E t \in Threads : Request(t) \/ Acquire(t) \/ Proceed(t)
  \/ ExpiryPasses

Spec == Init /\ [][Next]_vars

(* A thread that runs goes on; one that waits for the lock gets it if it   *)
(* is free again and again.                                                *)
FairSpec ==
  /\ Spec
  /\ \A t \in Threads : WF_vars(Proceed(t)) /\ SF_vars(Acquire(t))

-----------------------------------------------------------------------------
(* Type invariant.                                                         *)
TypeOK ==
  /\ cache \in Caches /\ lock \in Threads \cup {None}
  /\ pc \in [Threads -> Places] /\ at \in [Threads -> Fields]
  /\ job \in [Threads -> [agent: Agents \cup {None}, key: Keys \cup {None}]]
  /\ new \in [Threads -> Caches] /\ after \in [Threads -> Places]
  /\ bearer \in [Threads -> Tokens \cup {None}]
  /\ retried \in [Threads -> BOOLEAN]
  /\ rejected \in [Threads -> Tokens \cup {None}]
  /\ issued \in 0..MaxTokens

(* Every request leaves with a token issued for its own agent and its own  *)
(* API key, whatever other threads fetch, drop or let expire meanwhile     *)
(* ("JWT cache must not mix tokens across agent_ids under concurrent       *)
(* refresh").                                                              *)
BearerMatchesRequest ==
  \A t \in Threads :
    pc[t] = "send" => /\ bearer[t] # None
                      /\ bearer[t][1] = job[t].agent /\ bearer[t][2] = job[t].key

(* The retry after a 401 never presents the token that was just refused.   *)
RetryWithAnotherToken ==
  \A t \in Threads : pc[t] = "send" /\ retried[t] => bearer[t] # rejected[t]

(* Every request ends, whichever call fails inside the lock.               *)
RequestEnds == \A t \in Threads : pc[t] # "idle" ~> pc[t] = "idle"

=============================================================================
