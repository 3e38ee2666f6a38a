---------------------------- MODULE HostedCredentials ----------------------------
(***************************************************************************)
(* The ocv_ keys of the hosted users' agents: shown once by a bootstrap,   *)
(* written to the operator's vault and to the user's row, resolved for     *)
(* every turn (vault, ciphertext, plaintext) and held by the compiled      *)
(* graphs that a process keeps for its lifetime.                           *)
(*                                                                         *)
(* An agent <<u, n>> is the n-th agent the Platform made for user u; a key *)
(* is named by its agent.  A column holds a key or None.  One provisioning *)
(* session per user at a time: what two of them do to each other is the    *)
(* subject of HostedOnboarding.  The settings are those of one deployment: *)
(* a restart keeps them.                                                   *)
(***************************************************************************)
EXTENDS Naturals

CONSTANTS
    Users,
    Workers,       \* threads: turns and signing-keys reads
    AgentsOf,      \* [Users -> Nat \ {0}]: bound, agents the Platform makes
    None           \* an empty column, and the user of an operator's turn

Agents == UNION {{u} \X (1 .. AgentsOf[u]) : u \in Users}

ASSUME ConstantsAssumption ==
    /\ AgentsOf \in [Users -> Nat \ {0}]
    /\ None \notin Users \cup Agents

Operator == <<None, 0>>        \* the operator's agent and its key
Keys == Agents \cup {Operator}
Column == Agents \cup {None}

(* The vault id is not among them: the service does not start without one. *)
Settings == [human : BOOLEAN,    \* a Human API token is set
             cipher : BOOLEAN,   \* a valid Fernet master key is set
             shroud : BOOLEAN]   \* llm_proxy

Row == [agent : Column, ct : Column, plain : Column, ready : BOOLEAN]
Context == [user : Users, agent : Agents, ct : Column, plain : Column]
NoContext == [user |-> None]

VARIABLES
    settings,
    cur,        \* the Platform: which agent a user has now
    shown,      \* the Platform: agents whose key has been shown
    vault,      \* the operator's vault: agent -> key
    row,        \* hosted_platform_users, as committed
    session,    \* the provisioning session of a user
    kept,       \* history: agents whose key was stored by a commit
    graphs,     \* compiled graphs: cache key -> the agent and key inside
    work        \* per thread: a turn or a read of signing keys

vars == <<settings, cur, shown, vault, row, session, kept, graphs, work>>

NoSession == [pc |-> "none"]
Idle == [pc |-> "idle"]

Init ==
    /\ settings \in Settings
    /\ cur = [u \in Users |-> 1]
    /\ shown = {}
    /\ vault = [a \in Agents |-> None]
    /\ row = [u \in Users |->
                [agent |-> None, ct |-> None, plain |-> None, ready |-> FALSE]]
    /\ session = [u \in Users |-> NoSession]
    /\ kept = {}
    /\ graphs = [k \in {} |-> Operator]
    /\ work = [w \in Workers |-> Idle]

--------------------------------------------------------------------------------
(* A read of the vault, which may always come back with nothing.           *)
(* Seeded bug: the vault path names the user, not the agent.               *)
VaultRead_ByUser(agent) ==
    {None} \cup {vault[a] : a \in {b \in Agents : b[1] = agent[1]}}

VaultRead(agent) == {None, vault[agent]}

(* What the columns of a context give: the ciphertext when the process has *)
(* the key it was made with, else the plaintext.                           *)
StoredKey(c) == IF settings.cipher /\ c.ct # None THEN c.ct ELSE c.plain

(* resolve_hosted_ocv_for_signing: every key one call may come back with.  *)
ResolveHostedOcv(c) ==
    {IF v # None THEN v ELSE StoredKey(c) : v \in VaultRead(c.agent)}

(* persist_hosted_agent_ocv_credentials: what a row becomes.               *)
(* Seeded bug: no ciphertext once the vault has the key.                   *)
PersistOcv_VaultIsEnough(r, key, written) ==
    IF written THEN [r EXCEPT !.plain = None]
    ELSE IF settings.cipher THEN [r EXCEPT !.ct = key, !.plain = None]
    ELSE [r EXCEPT !.plain = key]

PersistOcv(r, key, written) ==
    IF settings.cipher THEN [r EXCEPT !.ct = key, !.plain = None]
    ELSE IF written THEN [r EXCEPT !.plain = None]
    ELSE [r EXCEPT !.plain = key]

--------------------------------------------------------------------------------
(* Provisioning.  The Platform replaces an unclaimed connection: the user  *)
(* has a new agent.                                                        *)
Recreate(u) ==
    /\ ~row[u].ready /\ session[u] = NoSession
    /\ cur[u] < AgentsOf[u]
    /\ cur' = [cur EXCEPT ![u] = @ + 1]
    /\ UNCHANGED <<settings, shown, vault, row, session, kept, graphs, work>>

(* _persist_hosted_ocv_after_bootstrap, with the reply about agent a in    *)
(* row r.  A key is shown once; without an agent id to file it under it    *)
(* goes to the plaintext column.                                           *)
AfterBootstrap(r, a) ==
    CASE a \in shown -> [pc |-> "commit", row |-> r, key |-> None]
      [] a \notin shown /\ r.agent = None ->
            [pc |-> "commit", row |-> [r EXCEPT !.plain = a], key |-> a]
      [] OTHER -> [pc |-> "persist", row |-> r, key |-> a]

(* The bootstrap of a user who is not ready.  A reply leaves the agent out *)
(* only for a row without one.                                             *)
Bootstrap(u) ==
    LET a == <<u, cur[u]>>
    IN  /\ session[u] = NoSession /\ ~row[u].ready
        /\ shown' = shown \cup {a}
        /\ \E agent \in IF row[u].agent = None THEN {a, None} ELSE {a} :
             session' = [session EXCEPT ![u] =
               AfterBootstrap([row[u] EXCEPT !.agent = agent], a)]
        /\ UNCHANGED <<settings, cur, vault, row, kept, graphs, work>>

(* The vault PUT, when it is configured; it may fail, and a failed one may *)
(* have been carried out.  Then the columns.                               *)
Persist(u) ==
    LET s == session[u]
    IN  /\ s.pc = "persist"
        /\ \E arrives \in IF settings.human THEN BOOLEAN ELSE {FALSE} :
             /\ vault' = IF arrives THEN [vault EXCEPT ![s.row.agent] = s.key] ELSE vault
             /\ \E written \in IF arrives THEN BOOLEAN ELSE {FALSE} :
                  session' = [session EXCEPT ![u] =
                    [pc |-> "commit", row |-> PersistOcv(s.row, s.key, written),
                     key |-> s.key]]
        /\ UNCHANGED <<settings, cur, shown, row, kept, graphs, work>>

CommitSession(u) ==
    /\ session[u].pc = "commit"
    /\ row' = [row EXCEPT ![u] = session[u].row]
    /\ kept' = kept \cup ({session[u].key} \ {None})
    /\ session' = [session EXCEPT ![u] = NoSession]
    /\ UNCHANGED <<settings, cur, shown, vault, graphs, work>>

(* Any later step of the handler raises: what it staged is gone.           *)
RollbackSession(u) ==
    /\ session[u] # NoSession
    /\ session' = [session EXCEPT ![u] = NoSession]
    /\ UNCHANGED <<settings, cur, shown, vault, row, kept, graphs, work>>

(* A poll names the agent the Platform has and may find it claimed.        *)
Poll(u) ==
    /\ session[u] = NoSession /\ ~row[u].ready
    /\ <<u, cur[u]>> \in shown
    /\ \E claimed \in BOOLEAN :
         row' = [row EXCEPT ![u].agent = <<u, cur[u]>>, ![u].ready = claimed]
    /\ UNCHANGED <<settings, cur, shown, vault, session, kept, graphs, work>>

--------------------------------------------------------------------------------
(* Turns.  handle_telegram_text gives a user who is ready a context; an    *)
(* operator's turn (HTTP) has none.                                        *)
ContextOf(u) == [user |-> u, agent |-> row[u].agent, ct |-> row[u].ct,
                 plain |-> row[u].plain]

BeginTurn(w, u) ==
    /\ work[w] = Idle
    /\ IF u = None THEN TRUE ELSE row[u].ready
    /\ LET c == IF u = None THEN NoContext ELSE ContextOf(u)
       IN  work' = [work EXCEPT ![w] =
             [pc |-> IF settings.shroud /\ u # None THEN "check" ELSE "graph", ctx |-> c]]
    /\ UNCHANGED <<settings, cur, shown, vault, row, session, kept, graphs>>

(* hosted_shroud_llm_credentials_ready: the turn ends without a key.       *)
CheckCredentials(w) ==
    /\ work[w].pc = "check"
    /\ \E key \in ResolveHostedOcv(work[w].ctx) :
         work' = [work EXCEPT ![w] = IF key = None THEN Idle ELSE [@ EXCEPT !.pc = "graph"]]
    /\ UNCHANGED <<settings, cur, shown, vault, row, session, kept, graphs>>

(* deep_agent_graph_cache_key.  Seeded bug: one graph for hosted users.    *)
Direct == <<None, 1>>
Hosted == <<None, 2>>

GraphCacheKey_OneHosted(c) ==
    IF ~settings.shroud THEN Direct
    ELSE IF c = NoContext THEN Operator ELSE Hosted

GraphCacheKey(c) ==
    IF ~settings.shroud THEN Direct
    ELSE IF c = NoContext THEN Operator ELSE c.agent

(* resolve_llm_chat_model_for_graph: the agent and the key in the headers  *)
(* of the model that a graph is compiled with, None when there is no key.  *)
LlmCredentials(c) ==
    IF ~settings.shroud \/ c = NoContext THEN {[agent |-> Operator, key |-> Operator]}
    ELSE {[agent |-> c.agent, key |-> k] : k \in ResolveHostedOcv(c)}

(* get_or_create_graph, one thread at a time under the state's lock.  A    *)
(* compilation that finds no key raises, and the turn ends.                *)
GetOrCreateGraph(w) ==
    LET c == work[w].ctx
        gk == GraphCacheKey(c)
        Enter(g) == work' = [work EXCEPT ![w] = [pc |-> "run", ctx |-> c, llm |-> g,
                                                token |-> [agent |-> None, key |-> None]]]
    IN  /\ work[w].pc = "graph"
        /\ \/ /\ gk \in DOMAIN graphs
              /\ Enter(graphs[gk])
              /\ UNCHANGED graphs
           \/ /\ gk \notin DOMAIN graphs
              /\ \E g \in LlmCredentials(c) :
                   IF g.key = None
                   THEN work' = [work EXCEPT ![w] = Idle] /\ UNCHANGED graphs
                   ELSE /\ graphs' = [k \in DOMAIN graphs \cup {gk} |->
                                        IF k = gk THEN g ELSE graphs[k]]
                        /\ Enter(g)
        /\ UNCHANGED <<settings, cur, shown, vault, row, session, kept>>

(* _resolve_agent_token_api_key, for a request that signs as the context's *)
(* agent: the operator's key is the last resort.                           *)
ExchangeAgentToken(w) ==
    LET c == work[w].ctx
    IN  /\ work[w].pc = "run" /\ c # NoContext
        /\ \E key \in ResolveHostedOcv(c) :
             work' = [work EXCEPT ![w].token =
               [agent |-> c.agent, key |-> IF key = None THEN Operator ELSE key]]
        /\ UNCHANGED <<settings, cur, shown, vault, row, session, kept, graphs>>

EndWork(w) ==
    /\ work[w].pc \in {"run", "read"}
    /\ work' = [work EXCEPT ![w] = Idle]
    /\ UNCHANGED <<settings, cur, shown, vault, row, session, kept, graphs>>

(* fetch_agent_signing_keys_payload: the Platform refuses its own key and  *)
(* the user's agent asks, when a key is found for it.                      *)
ReadSigningKeys(w, u) ==
    /\ work[w] = Idle /\ row[u].agent # None
    /\ \E key \in ResolveHostedOcv(ContextOf(u)) \ {None} :
         work' = [work EXCEPT ![w] =
           [pc |-> "read", ctx |-> ContextOf(u),
            token |-> [agent |-> row[u].agent, key |-> key]]]
    /\ UNCHANGED <<settings, cur, shown, vault, row, session, kept, graphs>>

(* The process stops: sessions roll back, turns and graphs are gone.       *)
Restart ==
    /\ session' = [u \in Users |-> NoSession]
    /\ graphs' = [k \in {} |-> Operator]
    /\ work' = [w \in Workers |-> Idle]
    /\ UNCHANGED <<settings, cur, shown, vault, row, kept>>

--------------------------------------------------------------------------------
Next ==
    \/ \E u \in Users : \/ Recreate(u) \/ Bootstrap(u) \/ Persist(u)
                        \/ CommitSession(u) \/ RollbackSession(u) \/ Poll(u)
    \/ \E w \in Workers : \/ \E u \in Users \cup {None} : BeginTurn(w, u)
                          \/ CheckCredentials(w) \/ GetOrCreateGraph(w)
                          \/ ExchangeAgentToken(w) \/ EndWork(w)
                          \/ \E u \in Users : ReadSigningKeys(w, u)
    \/ Restart

Spec == Init /\ [][Next]_vars

--------------------------------------------------------------------------------
Credential == [agent : Keys, key : Keys]
Token == [agent : Column, key : Keys \cup {None}]
Contexts == {NoContext} \cup Context
Session == [pc : {"persist", "commit"}, row : Row, key : Column]
Started == [pc : {"check", "graph"}, ctx : Contexts]
Running == [pc : {"run"}, ctx : Contexts, llm : Credential, token : Token]
Reading == [pc : {"read"}, ctx : Context, token : Token]

(* Every variable has its type.                                            *)
TypeOK ==
    /\ settings \in Settings
    /\ cur \in [Users -> Nat] /\ \A u \in Users : cur[u] \in 1 .. AgentsOf[u]
    /\ shown \subseteq Agents /\ kept \subseteq Agents
    /\ vault \in [Agents -> Column]
    /\ row \in [Users -> Row]
    /\ session \in [Users -> {NoSession} \cup Session]
    /\ DOMAIN graphs \subseteq {Direct, Operator} \cup Agents
    /\ \A k \in DOMAIN graphs : graphs[k] \in Credential
    /\ work \in [Workers -> {Idle} \cup Started \cup Running \cup Reading]

(* The requests a thread is making: the model's headers and the token      *)
(* exchange, each an agent and the key it presents.                        *)
Requests(w) ==
    (IF work[w].pc = "run" THEN {work[w].llm} ELSE {})
    \cup (IF work[w].pc \in {"run", "read"} /\ work[w].token.agent # None
          THEN {work[w].token} ELSE {})

(* Whatever was restored, recreated or cached, a turn never presents the   *)
(* agent or the key of another user, and with Shroud the model is never    *)
(* called for a hosted user on the operator's account                      *)
(* (state.py:20-38, shroud_llm.py:212-241).                                *)
KeysStayWithTheirUser ==
    \A w \in Workers : \A r \in Requests(w) :
        IF work[w].ctx = NoContext THEN r.key = Operator
        ELSE /\ r.agent \in {work[w].ctx.agent, Operator}
             /\ r.key[1] \in {work[w].ctx.user, None}
             /\ work[w].pc = "run" /\ settings.shroud => work[w].llm.key # Operator

(* Once a commit has stored the key of an agent, a request that names the  *)
(* agent presents that key or falls back to the operator's: never what is  *)
(* left of an agent the user had before (hosted_credentials.py:95-120).    *)
StoredKeyIsPresented ==
    \A w \in Workers : \A r \in Requests(w) :
        r.agent \in kept => r.key \in {r.agent, Operator}

(* The columns of a row: with a master key set they alone give the stored  *)
(* key back, so that turns survive an outage of the vault, and no          *)
(* plaintext key stays beside a ciphertext, through every replacement of   *)
(* an agent (hosted_credentials.py:158-161).                               *)
RowServesAlone ==
    \A u \in Users :
        /\ settings.cipher /\ row[u].agent \in kept => StoredKey(row[u]) = row[u].agent
        /\ row[u].plain # None => row[u].ct = None

================================================================================
