----------------------- MODULE HostedCredentialsProofs -----------------------
(***************************************************************************)
(* The key of a hosted user's agent reaches the vault, the row, the graphs *)
(* and the requests of that user only, and once stored it is the one that  *)
(* is presented, for any number of users, agents and threads.              *)
(***************************************************************************)
EXTENDS HostedCredentials, TLAPS

Current(u) == <<u, cur[u]>>

(* The agent's key has been shown, and no open session is still to store   *)
(* it: whether it is in kept will not change any more.                     *)
Settled(a) ==
    a \in shown /\ \A u \in Users : session[u] # NoSession => session[u].key # a

(* What the columns c of a row or a context hold.                          *)
Own(c, u) == \A a \in {c.agent, c.ct, c.plain} \ {None} : a[1] = u

Shape(c) ==
    /\ c.ct # None => settings.cipher /\ c.agent # None
    /\ c.plain # None => c.ct = None

Only(c, a) == c.ct \in {None, a} /\ c.plain \in {None, a}
Gives(c, a) == Only(c, a) /\ (settings.cipher => StoredKey(c) = a)

RowInv(u) ==
    LET r == row[u]
    IN  /\ Own(r, u) /\ Shape(r)
        /\ r.agent # None => Settled(r.agent)
        /\ r.ready => session[u] = NoSession /\ r.agent # None
        /\ \A a \in {r.agent, Current(u)} \cap kept : Gives(r, a)

SessionInv(u) ==
    LET s == session[u]
        a == Current(u)
    IN  s # NoSession =>
          /\ Own(s.row, u) /\ Shape(s.row) /\ ~s.row.ready
          /\ s.row.agent \in {None, a} /\ s.key \in {None, a} /\ a \in shown
          /\ s.pc = "persist" => s.row.agent = a /\ s.key = a
          /\ s.pc = "commit" /\ a \in kept \cup {s.key} => Gives(s.row, a)

PlatformInv ==
    /\ kept \subseteq shown
    /\ \A a \in shown : a[2] <= cur[a[1]]
    /\ \A a \in Agents : vault[a] \in {None, a}

ProvisionInv == PlatformInv /\ \A u \in Users : RowInv(u) /\ SessionInv(u)

(* A context, and a request r made in it.                                  *)
ContextInv(c) ==
    c # NoContext => /\ Own(c, c.user) /\ c.agent # None /\ Settled(c.agent)
                     /\ c.agent \in kept => Only(c, c.agent)

RequestInv(c, r) ==
    IF c = NoContext THEN r = [agent |-> Operator, key |-> Operator]
    ELSE /\ r.agent \in {c.agent, Operator}
         /\ r.key \in Keys /\ r.key[1] \in {c.user, None}
         /\ r.agent \in kept => r.key \in {r.agent, Operator}

GraphInv(k) ==
    IF k \in {Direct, Operator}
    THEN graphs[k] = [agent |-> Operator, key |-> Operator]
    ELSE /\ graphs[k].agent = k /\ Settled(k)
         /\ graphs[k].key \in Agents /\ graphs[k].key[1] = k[1]
         /\ k \in kept => graphs[k].key = k

WorkInv(w) ==
    work[w] # Idle =>
      /\ ContextInv(work[w].ctx)
      /\ work[w].pc = "run" =>
           /\ RequestInv(work[w].ctx, work[w].llm)
           /\ settings.shroud /\ work[w].ctx # NoContext => work[w].llm.key # Operator
      /\ work[w].pc \in {"run", "read"} /\ work[w].token.agent # None =>
           work[w].ctx # NoContext /\ RequestInv(work[w].ctx, work[w].token)

TurnInv == (\A k \in DOMAIN graphs : GraphInv(k)) /\ \A w \in Workers : WorkInv(w)

IInv == TypeOK /\ ProvisionInv /\ TurnInv

-----------------------------------------------------------------------------
(* Agents, and what is none.                                               *)
LEMMA AgentFacts ==
    /\ \A a \in Agents : a[1] \in Users /\ a[2] \in Nat /\ a = <<a[1], a[2]>>
    /\ \A u \in Users, n \in Nat : n \in 1 .. AgentsOf[u] => <<u, n>> \in Agents
    /\ Operator \notin Agents /\ Direct \notin Agents /\ Direct # Operator
    /\ Operator[1] = None
<1>1. ASSUME NEW a \in Agents
      PROVE  a[1] \in Users /\ a[2] \in Nat /\ a = <<a[1], a[2]>>
  <2>1. PICK u \in Users : a \in {u} \X (1 .. AgentsOf[u])
    BY DEF Agents
  <2> QED BY <2>1, ConstantsAssumption
<1>2. ASSUME NEW u \in Users, NEW n \in 1 .. AgentsOf[u] PROVE <<u, n>> \in Agents
  BY DEF Agents
<1>3. None \notin Users
  BY ConstantsAssumption
<1>4. Operator \notin Agents /\ Direct \notin Agents
  BY <1>1, <1>3 DEF Operator, Direct
<1>5. Direct # Operator /\ Operator[1] = None
  BY DEF Operator, Direct
<1> QED BY <1>1, <1>2, <1>4, <1>5

LEMMA CurrentAgent ==
    ASSUME TypeOK, NEW u \in Users
    PROVE  /\ Current(u) \in Agents /\ cur[u] \in Nat
           /\ Current(u)[1] = u /\ Current(u)[2] = cur[u]
BY AgentFacts DEF TypeOK, Current

-----------------------------------------------------------------------------
(* Types.                                                                  *)
LEMMA InitType == Init => TypeOK
<1> SUFFICES ASSUME Init PROVE TypeOK
  OBVIOUS
<1>1. cur \in [Users -> Nat] /\ \A u \in Users : cur[u] \in 1 .. AgentsOf[u]
  BY ConstantsAssumption DEF Init
<1>2. row \in [Users -> Row]
  BY DEF Init, Row, Column
<1> QED BY <1>1, <1>2 DEF Init, TypeOK, Column

(* Every key a call may come back with is one of the columns' kind.        *)
LEMMA ResolvedType ==
    ASSUME TypeOK, NEW c \in Context, NEW key \in ResolveHostedOcv(c)
    PROVE  key \in Column /\ (key = vault[c.agent] \/ key = StoredKey(c))
           /\ (key = None => StoredKey(c) = None)
<1>1. c.agent \in Agents /\ c.ct \in Column /\ c.plain \in Column
  BY DEF Context
<1>2. vault[c.agent] \in Column
  BY <1>1 DEF TypeOK
<1>3. StoredKey(c) \in Column
  BY <1>1 DEF StoredKey
<1>4. PICK v \in {None, vault[c.agent]} : key = IF v # None THEN v ELSE StoredKey(c)
  BY DEF ResolveHostedOcv, VaultRead
<1> QED BY <1>2, <1>3, <1>4

LEMMA ContextType ==
    ASSUME TypeOK, NEW u \in Users, row[u].agent # None
    PROVE  ContextOf(u) \in Context /\ ContextOf(u) # NoContext
<1>1. row[u] \in Row
  BY DEF TypeOK
<1>2. ContextOf(u) \in Context
  BY <1>1 DEF ContextOf, Context, Row, Column
<1>3. ContextOf(u).user = u /\ NoContext.user = None
  BY DEF ContextOf, NoContext
<1> QED BY <1>2, <1>3, ConstantsAssumption

LEMMA PersistType ==
    ASSUME NEW r \in Row, NEW key \in Column, NEW written \in BOOLEAN
    PROVE  /\ PersistOcv(r, key, written) \in Row
           /\ PersistOcv(r, key, written).agent = r.agent
           /\ PersistOcv(r, key, written).ready = r.ready
BY DEF PersistOcv, Row, Column

LEMMA BootstrapType ==
    ASSUME NEW r \in Row, NEW a \in Agents
    PROVE  AfterBootstrap(r, a) \in Session
<1>1. [r EXCEPT !.plain = a] \in Row
  BY DEF Row, Column
<1> QED BY <1>1 DEF AfterBootstrap, Session, Column

LEMMA CommitPcType ==
    ASSUME NEW r \in Row, NEW key \in Column
    PROVE  [pc |-> "commit", row |-> r, key |-> key] \in Session
BY DEF Session

LEMMA LlmType ==
    ASSUME TypeOK, NEW c \in Contexts, NEW g \in LlmCredentials(c),
           settings.shroud /\ c # NoContext => c.agent # None,
           g.key # None
    PROVE  g \in Credential
<1>1. CASE ~settings.shroud \/ c = NoContext
  <2>1. g = [agent |-> Operator, key |-> Operator]
    BY <1>1 DEF LlmCredentials
  <2> QED BY <2>1 DEF Credential, Keys
<1>2. CASE settings.shroud /\ c # NoContext
  <2>1. c \in Context
    BY <1>2 DEF Contexts
  <2>2. PICK key \in ResolveHostedOcv(c) : g = [agent |-> c.agent, key |-> key]
    BY <1>2 DEF LlmCredentials
  <2>3. key \in Column
    BY <2>1, ResolvedType
  <2>4. c.agent \in Agents /\ key \in Agents
    BY <2>1, <2>2, <2>3 DEF Context, Column
  <2> QED BY <2>2, <2>4 DEF Credential, Keys
<1> QED BY <1>1, <1>2 DEF TypeOK, Settings

-----------------------------------------------------------------------------
(* What the actions of a turn do, and that they keep the types.            *)
Turn(w) ==
    \/ \E u \in Users \cup {None} : BeginTurn(w, u)
    \/ CheckCredentials(w) \/ GetOrCreateGraph(w) \/ ExchangeAgentToken(w)
    \/ EndWork(w) \/ \E u \in Users : ReadSigningKeys(w, u)

Provision(u) ==
    \/ Recreate(u) \/ Bootstrap(u) \/ Persist(u)
    \/ CommitSession(u) \/ RollbackSession(u) \/ Poll(u)

LEMMA ProvisionType ==
    ASSUME TypeOK, NEW u \in Users, Provision(u)
    PROVE  TypeOK'
<1>1. row[u] \in Row /\ session[u] \in {NoSession} \cup Session /\ Current(u) \in Agents
  BY CurrentAgent DEF TypeOK
<1>2. CASE Recreate(u)
  <2>1. cur' \in [Users -> Nat] /\ \A v \in Users : cur'[v] \in 1 .. AgentsOf[v]
    <3>1. cur[u] \in Nat /\ AgentsOf[u] \in Nat /\ cur[u] \in 1 .. AgentsOf[u]
      BY ConstantsAssumption DEF TypeOK
    <3>2. cur[u] + 1 \in Nat /\ cur[u] + 1 \in 1 .. AgentsOf[u]
      BY <1>2, <3>1 DEF Recreate
    <3> QED BY <1>2, <3>2 DEF Recreate, TypeOK
  <2> QED BY <1>2, <2>1 DEF Recreate, TypeOK
<1>3. CASE Bootstrap(u)
  <2>1. PICK agent \in {Current(u), None} :
          session' = [session EXCEPT ![u] =
            AfterBootstrap([row[u] EXCEPT !.agent = agent], Current(u))]
    BY <1>3 DEF Bootstrap, Current
  <2>2. [row[u] EXCEPT !.agent = agent] \in Row
    BY <1>1 DEF Row, Column
  <2>3. session' \in [Users -> {NoSession} \cup Session]
    BY <1>1, <2>1, <2>2, BootstrapType DEF TypeOK
  <2>4. shown' \subseteq Agents
    BY <1>1, <1>3 DEF Bootstrap, TypeOK, Current
  <2> QED BY <1>3, <2>3, <2>4 DEF Bootstrap, TypeOK
<1>4. CASE Persist(u)
  <2>1. session[u] \in Session /\ session[u].row \in Row /\ session[u].key \in Column
    BY <1>1, <1>4 DEF Persist, NoSession, Session
  <2>2. PICK arrives \in BOOLEAN, written \in BOOLEAN :
          /\ vault' = IF arrives
                      THEN [vault EXCEPT ![session[u].row.agent] = session[u].key]
                      ELSE vault
          /\ session' = [session EXCEPT ![u] =
               [pc |-> "commit", row |-> PersistOcv(session[u].row, session[u].key, written),
                key |-> session[u].key]]
    BY <1>4 DEF Persist
  <2>3. vault' \in [Agents -> Column]
    BY <2>1, <2>2 DEF TypeOK
  <2>4. session' \in [Users -> {NoSession} \cup Session]
    BY <2>1, <2>2, PersistType, CommitPcType DEF TypeOK
  <2> QED BY <1>4, <2>3, <2>4 DEF Persist, TypeOK
<1>5. CASE CommitSession(u)
  <2>1. session[u].row \in Row /\ session[u].key \in Column
    BY <1>1, <1>5 DEF CommitSession, NoSession, Session
  <2> QED BY <1>5, <2>1 DEF CommitSession, TypeOK, Column
<1>6. CASE RollbackSession(u)
  BY <1>6 DEF RollbackSession, TypeOK
<1>7. CASE Poll(u)
  <2>1. PICK claimed \in BOOLEAN :
          row' = [row EXCEPT ![u] =
                    [[@ EXCEPT !.agent = Current(u)] EXCEPT !.ready = claimed]]
    BY <1>7 DEF Poll, Current, TypeOK
  <2>2. row' \in [Users -> Row]
    BY <1>1, <2>1 DEF TypeOK, Row, Column
  <2> QED BY <1>7, <2>2 DEF Poll, TypeOK
<1> QED BY <1>2, <1>3, <1>4, <1>5, <1>6, <1>7 DEF Provision

(* A turn's step changes what its thread does, and one entry of graphs.    *)

LEMMA TurnType ==
    ASSUME TypeOK, ProvisionInv, TurnInv, NEW w \in Workers, Turn(w)
    PROVE  TypeOK'
<1> DEFINE Works == {Idle} \cup Started \cup Running \cup Reading
<1>1. work[w] \in Works
  BY DEF TypeOK
<1>a. Column \subseteq Keys \cup {None} /\ None \in Column
  BY DEF Column, Keys
<1>2. ASSUME NEW u \in Users \cup {None}, BeginTurn(w, u) PROVE TypeOK'
  <2>1. (IF u = None THEN NoContext ELSE ContextOf(u)) \in Contexts
    <3>1. u # None => row[u].agent # None
      BY <1>2, ConstantsAssumption DEF BeginTurn, ProvisionInv, RowInv
    <3> QED BY <3>1, ContextType DEF Contexts
  <2>2. PICK c \in Contexts, place \in {"check", "graph"} :
          work' = [work EXCEPT ![w] = [pc |-> place, ctx |-> c]]
    BY <1>2, <2>1 DEF BeginTurn
  <2>3. [pc |-> place, ctx |-> c] \in Started
    BY DEF Started
  <2> QED BY <1>2, <2>2, <2>3 DEF BeginTurn, TypeOK
<1>3. CASE CheckCredentials(w)
  <2>1. work[w] \in Started
    BY <1>1, <1>3 DEF CheckCredentials, Idle, Started, Running, Reading
  <2>2. [work[w] EXCEPT !.pc = "graph"] \in Started
    BY <2>1 DEF Started
  <2> QED BY <1>3, <2>2 DEF CheckCredentials, TypeOK
<1>4. CASE GetOrCreateGraph(w)
  <2> DEFINE c == work[w].ctx
             Entered(g) == [pc |-> "run", ctx |-> c, llm |-> g,
                            token |-> [agent |-> None, key |-> None]]
  <2>1. work[w] \in Started /\ c \in Contexts
    BY <1>1, <1>4 DEF GetOrCreateGraph, Idle, Started, Running, Reading
  <2>2. c # NoContext => c \in Context /\ c.agent \in Agents /\ c.agent # None
    BY <2>1 DEF Contexts, Context, TurnInv, WorkInv, ContextInv, Started, Idle
  <2>3. ASSUME NEW g \in Credential PROVE Entered(g) \in Running
    BY <1>a, <2>1, <2>3 DEF Running, Token
  <2>4. GraphCacheKey(c) \in {Direct, Operator} \cup Agents
    BY <2>2 DEF GraphCacheKey
  <2>5. CASE /\ GraphCacheKey(c) \in DOMAIN graphs
             /\ work' = [work EXCEPT ![w] = Entered(graphs[GraphCacheKey(c)])]
             /\ UNCHANGED graphs
    BY <1>4, <2>3, <2>5 DEF GetOrCreateGraph, TypeOK
  <2>6. ASSUME NEW g \in LlmCredentials(c), g.key # None,
               graphs' = [k \in DOMAIN graphs \cup {GraphCacheKey(c)} |->
                            IF k = GraphCacheKey(c) THEN g ELSE graphs[k]],
               work' = [work EXCEPT ![w] = Entered(g)]
        PROVE  TypeOK'
    <3>1. g \in Credential
      BY <2>1, <2>2, <2>6, LlmType
    <3>2. /\ DOMAIN graphs' \subseteq {Direct, Operator} \cup Agents
          /\ \A k \in DOMAIN graphs' : graphs'[k] \in Credential
      BY <2>4, <2>6, <3>1 DEF TypeOK
    <3>3. work' \in [Workers -> Works]
      BY <2>3, <2>6, <3>1 DEF TypeOK
    <3> QED BY <1>4, <3>2, <3>3 DEF GetOrCreateGraph, TypeOK
  <2>7. CASE work' = [work EXCEPT ![w] = Idle] /\ UNCHANGED graphs
    BY <1>4, <2>7 DEF GetOrCreateGraph, TypeOK
  <2> QED BY <1>4, <2>5, <2>6, <2>7 DEF GetOrCreateGraph
<1>5. CASE ExchangeAgentToken(w)
  <2> DEFINE c == work[w].ctx
  <2>1. work[w] \in Running /\ c \in Context
    BY <1>1, <1>5 DEF ExchangeAgentToken, Idle, Started, Running, Reading, Contexts
  <2>2. PICK key \in ResolveHostedOcv(c) :
          work' = [work EXCEPT ![w] = [@ EXCEPT !.token =
            [agent |-> c.agent, key |-> IF key = None THEN Operator ELSE key]]]
    BY <1>5 DEF ExchangeAgentToken
  <2>3. [agent |-> c.agent, key |-> IF key = None THEN Operator ELSE key] \in Token
    BY <1>a, <2>1, ResolvedType DEF Token, Context, Column, Keys
  <2>4. ASSUME NEW t \in Token PROVE [work[w] EXCEPT !.token = t] \in Running
    BY <2>1 DEF Running
  <2> QED BY <1>5, <2>2, <2>3, <2>4 DEF ExchangeAgentToken, TypeOK
<1>6. CASE EndWork(w)
  BY <1>6 DEF EndWork, TypeOK
<1>7. ASSUME NEW u \in Users, ReadSigningKeys(w, u) PROVE TypeOK'
  <2>1. row[u].agent \in Column /\ ContextOf(u) \in Context
    BY <1>7, ContextType DEF ReadSigningKeys, TypeOK, Row
  <2>2. PICK key \in ResolveHostedOcv(ContextOf(u)) :
          work' = [work EXCEPT ![w] =
            [pc |-> "read", ctx |-> ContextOf(u),
             token |-> [agent |-> row[u].agent, key |-> key]]]
    BY <1>7 DEF ReadSigningKeys
  <2>3. key \in Column
    BY <2>1, ResolvedType
  <2>4. [pc |-> "read", ctx |-> ContextOf(u),
         token |-> [agent |-> row[u].agent, key |-> key]] \in Reading
    BY <1>a, <2>1, <2>3 DEF Reading, Token
  <2> QED BY <1>7, <2>2, <2>4 DEF ReadSigningKeys, TypeOK
<1> QED BY <1>2, <1>3, <1>4, <1>5, <1>6, <1>7 DEF Turn

-----------------------------------------------------------------------------
(* A key found for a context is of its user and, once one was stored, the  *)
(* key of its agent.                                                       *)
LEMMA ResolvedKey ==
    ASSUME TypeOK, PlatformInv, NEW c \in Context, ContextInv(c),
           NEW key \in ResolveHostedOcv(c), key # None
    PROVE  /\ key \in Agents /\ key[1] = c.user
           /\ c.agent \in kept => key = c.agent
<1>1. c # NoContext
  BY ConstantsAssumption DEF Context, NoContext
<1>2. key \in Agents /\ (key = vault[c.agent] \/ key = StoredKey(c))
  BY ResolvedType DEF Column
<1>3. c.agent \in Agents /\ c.agent # None /\ c.agent[1] = c.user
  BY <1>1 DEF Context, ContextInv, Own
<1>4. CASE key = vault[c.agent]
  BY <1>2, <1>3, <1>4 DEF PlatformInv
<1>5. CASE key = StoredKey(c)
  <2>1. key \in {c.ct, c.plain}
    BY <1>5 DEF StoredKey
  <2> QED BY <1>1, <1>2, <2>1 DEF ContextInv, Own, Only
<1> QED BY <1>2, <1>4, <1>5

(* What a graph is compiled with, and what a turn takes from the cache.    *)
Serves(k, g) ==
    IF k \in {Direct, Operator}
    THEN g = [agent |-> Operator, key |-> Operator]
    ELSE /\ g.agent = k /\ Settled(k)
         /\ g.key \in Agents /\ g.key[1] = k[1]
         /\ k \in kept => g.key = k

LEMMA CompiledServes ==
    ASSUME TypeOK, PlatformInv, NEW c \in Contexts, ContextInv(c),
           NEW g \in LlmCredentials(c), g.key # None
    PROVE  Serves(GraphCacheKey(c), g)
<1>1. CASE ~settings.shroud
  BY <1>1 DEF GraphCacheKey, LlmCredentials, Serves
<1>2. CASE settings.shroud /\ c = NoContext
  BY <1>2 DEF GraphCacheKey, LlmCredentials, Serves
<1>3. CASE settings.shroud /\ c # NoContext
  <2>1. c \in Context /\ c.agent \in Agents
    BY <1>3 DEF Contexts, Context, ContextInv
  <2>2. PICK key \in ResolveHostedOcv(c) : g = [agent |-> c.agent, key |-> key]
    BY <1>3 DEF LlmCredentials
  <2>3. GraphCacheKey(c) = c.agent /\ c.agent \notin {Direct, Operator}
    BY <1>3, <2>1, AgentFacts DEF GraphCacheKey
  <2>4. g.agent = c.agent /\ g.key = key /\ key # None
    BY <2>2
  <2>5. key \in Agents /\ key[1] = c.user /\ (c.agent \in kept => key = c.agent)
    BY <2>1, <2>4, ResolvedKey
  <2>6. c.agent[1] = c.user /\ Settled(c.agent)
    BY <1>3, <2>1 DEF ContextInv, Own
  <2> QED BY <2>3, <2>4, <2>5, <2>6 DEF Serves
<1> QED BY <1>1, <1>2, <1>3 DEF TypeOK, Settings

LEMMA ServedRequest ==
    ASSUME TypeOK, PlatformInv, NEW c \in Contexts, ContextInv(c),
           NEW g, Serves(GraphCacheKey(c), g)
    PROVE  /\ RequestInv(c, g)
           /\ settings.shroud /\ c # NoContext => g.key # Operator
<1>1. kept \subseteq Agents
  BY DEF TypeOK
<1>2. CASE GraphCacheKey(c) \in {Direct, Operator}
  <2>1. g = [agent |-> Operator, key |-> Operator]
    BY <1>2 DEF Serves
  <2>2. ~settings.shroud \/ c = NoContext
    BY <1>2, AgentFacts DEF GraphCacheKey, ContextInv, Contexts, Context, Column
  <2>3. Operator \in Keys /\ Operator[1] = None
    BY AgentFacts DEF Keys
  <2> QED BY <2>1, <2>2, <2>3 DEF RequestInv
<1>3. CASE GraphCacheKey(c) \notin {Direct, Operator}
  <2>1. settings.shroud /\ c # NoContext /\ GraphCacheKey(c) = c.agent
    BY <1>3 DEF GraphCacheKey
  <2>2. c.agent[1] = c.user
    BY <2>1 DEF ContextInv, Own
  <2>3. g.agent = c.agent /\ g.key \in Agents /\ g.key[1] = c.user
        /\ (c.agent \in kept => g.key = c.agent)
    BY <1>3, <2>1, <2>2 DEF Serves
  <2> QED BY <2>1, <2>3, AgentFacts DEF RequestInv, Keys
<1> QED BY <1>2, <1>3

(* A row gives a context with what a context is to have.                   *)
LEMMA RowContext ==
    ASSUME TypeOK, NEW u \in Users, RowInv(u), row[u].agent # None
    PROVE  ContextInv(ContextOf(u))
BY DEF RowInv, ContextInv, ContextOf, Own, Gives, Only

(* A turn's step leaves provisioning alone and keeps TurnInv.              *)
LEMMA TurnKeeps ==
    ASSUME TypeOK, ProvisionInv, TurnInv, NEW w \in Workers, Turn(w)
    PROVE  ProvisionInv' /\ TurnInv'
<1>1. UNCHANGED <<settings, cur, shown, vault, row, session, kept>>
  BY DEF Turn, BeginTurn, CheckCredentials, GetOrCreateGraph, ExchangeAgentToken,
         EndWork, ReadSigningKeys
<1>2. ProvisionInv'
  BY <1>1 DEF ProvisionInv, PlatformInv, RowInv, SessionInv, Settled, Current,
              Shape, Gives, Only, StoredKey, Own
<1>3. \A a : Settled(a)' <=> Settled(a)
  BY <1>1 DEF Settled
<1>4. \A c : ContextInv(c)' <=> ContextInv(c)
  BY <1>1, <1>3 DEF ContextInv, Own, Only
<1>5. \A c, r : RequestInv(c, r)' <=> RequestInv(c, r)
  BY <1>1 DEF RequestInv
<1> DEFINE WorkOf(x) ==
      x # Idle =>
        /\ ContextInv(x.ctx)
        /\ x.pc = "run" =>
             /\ RequestInv(x.ctx, x.llm)
             /\ settings.shroud /\ x.ctx # NoContext => x.llm.key # Operator
        /\ x.pc \in {"run", "read"} /\ x.token.agent # None =>
             x.ctx # NoContext /\ RequestInv(x.ctx, x.token)
<1>6. \A v \in Workers : WorkOf(work[v])
  BY DEF TurnInv, WorkInv
<1>7. ASSUME NEW x, WorkOf(x), work' = [work EXCEPT ![w] = x]
      PROVE  \A v \in Workers : WorkInv(v)'
  <2>1. \A v \in Workers : WorkOf(work'[v])
    BY <1>6, <1>7 DEF TypeOK
  <2> QED BY <1>1, <1>4, <1>5, <2>1 DEF WorkInv
<1>8. (\A k \in DOMAIN graphs' : Serves(k, graphs'[k])) =>
      \A k \in DOMAIN graphs' : GraphInv(k)'
  BY <1>1, <1>3 DEF GraphInv, Serves
<1>9. \A k \in DOMAIN graphs : Serves(k, graphs[k])
  BY DEF TurnInv, GraphInv, Serves
<1>10. WorkOf(Idle)
  OBVIOUS
<1> DEFINE Does(x) == work' = [work EXCEPT ![w] = x] /\ UNCHANGED graphs
<1>11. ASSUME NEW x, WorkOf(x), Does(x) PROVE TurnInv'
  <2>1. \A v \in Workers : WorkInv(v)'
    BY <1>7, <1>11
  <2>2. \A k \in DOMAIN graphs' : Serves(k, graphs'[k])
    BY <1>9, <1>11
  <2> QED BY <1>8, <2>1, <2>2 DEF TurnInv
<1> HIDE DEF WorkOf, Does
<1>12. work[w] \in {Idle} \cup Started \cup Running \cup Reading
  BY DEF TypeOK
<1>13. ASSUME NEW u \in Users \cup {None}, BeginTurn(w, u) PROVE TurnInv'
  <2>1. PICK place \in {"check", "graph"} :
          work' = [work EXCEPT ![w] =
            [pc |-> place, ctx |-> IF u = None THEN NoContext ELSE ContextOf(u)]]
    BY <1>13 DEF BeginTurn
  <2>2. ContextInv(IF u = None THEN NoContext ELSE ContextOf(u))
    <3>1. CASE u = None
      BY <3>1 DEF ContextInv
    <3>2. CASE u # None
      <4>1. RowInv(u) /\ row[u].agent # None
        BY <1>13, <3>2 DEF BeginTurn, ProvisionInv, RowInv
      <4> QED BY <3>2, <4>1, RowContext
    <3> QED BY <3>1, <3>2
  <2>3. WorkOf([pc |-> place, ctx |-> IF u = None THEN NoContext ELSE ContextOf(u)])
    BY <2>2 DEF WorkOf
  <2>4. UNCHANGED graphs
    BY <1>13 DEF BeginTurn
  <2> QED BY <1>2, <1>11, <2>1, <2>3, <2>4 DEF Does
<1>14. CASE CheckCredentials(w)
  <2>1. work[w] \in Started
    BY <1>12, <1>14 DEF CheckCredentials, Idle, Started, Running, Reading
  <2>2. work[w] # Idle /\ ContextInv(work[w].ctx)
    BY <1>6, <2>1 DEF Started, Idle, WorkOf
  <2>3. WorkOf([work[w] EXCEPT !.pc = "graph"])
    BY <2>1, <2>2 DEF Started, WorkOf
  <2>4. work' = [work EXCEPT ![w] = Idle] \/
        work' = [work EXCEPT ![w] = [work[w] EXCEPT !.pc = "graph"]]
    BY <1>14 DEF CheckCredentials
  <2>5. UNCHANGED graphs
    BY <1>14 DEF CheckCredentials
  <2>6. Does(Idle) \/ Does([work[w] EXCEPT !.pc = "graph"])
    BY <2>4, <2>5 DEF Does
  <2> QED BY <1>2, <1>10, <1>11, <2>3, <2>6
<1>15. CASE GetOrCreateGraph(w)
  <2> DEFINE c == work[w].ctx
             k == GraphCacheKey(c)
             Entered(g) == [pc |-> "run", ctx |-> c, llm |-> g,
                            token |-> [agent |-> None, key |-> None]]
  <2>1. work[w] \in Started
    BY <1>12, <1>15 DEF GetOrCreateGraph, Idle, Started, Running, Reading
  <2>2. c \in Contexts /\ ContextInv(c)
    BY <1>6, <2>1 DEF Started, Idle, WorkOf
  <2>3. ASSUME NEW g, Serves(k, g) PROVE WorkOf(Entered(g))
    <3>1. RequestInv(c, g) /\ (settings.shroud /\ c # NoContext => g.key # Operator)
      BY <2>2, <2>3, ServedRequest DEF ProvisionInv
    <3> QED BY <2>2, <3>1 DEF WorkOf
  <2>4. CASE k \in DOMAIN graphs /\ work' = [work EXCEPT ![w] = Entered(graphs[k])]
             /\ UNCHANGED graphs
    <3>1. WorkOf(Entered(graphs[k]))
      BY <1>9, <2>3, <2>4
    <3>2. Does(Entered(graphs[k]))
      BY <2>4 DEF Does
    <3> QED BY <1>2, <1>11, <3>1, <3>2
  <2>5. ASSUME NEW g \in LlmCredentials(c), g.key # None,
               graphs' = [l \in DOMAIN graphs \cup {k} |->
                            IF l = k THEN g ELSE graphs[l]],
               work' = [work EXCEPT ![w] = Entered(g)]
        PROVE  TurnInv'
    <3>1. Serves(k, g)
      BY <2>2, <2>5, CompiledServes DEF ProvisionInv
    <3>2. \A l \in DOMAIN graphs' : Serves(l, graphs'[l])
      BY <1>9, <2>5, <3>1
    <3>3. WorkOf(Entered(g))
      BY <2>3, <3>1
    <3> QED BY <1>7, <1>8, <2>5, <3>2, <3>3 DEF TurnInv
  <2>6. CASE work' = [work EXCEPT ![w] = Idle] /\ UNCHANGED graphs
    <3>1. Does(Idle)
      BY <2>6 DEF Does
    <3> QED BY <1>2, <1>10, <1>11, <3>1
  <2> QED BY <1>2, <1>15, <2>4, <2>5, <2>6 DEF GetOrCreateGraph
<1>16. CASE ExchangeAgentToken(w)
  <2> DEFINE c == work[w].ctx
  <2>1. work[w] \in Running /\ c \in Context /\ c # NoContext
    BY <1>12, <1>16 DEF ExchangeAgentToken, Idle, Started, Running, Reading, Contexts
  <2>2. ContextInv(c) /\ WorkOf(work[w]) /\ work[w] # Idle
    BY <1>6, <2>1 DEF Running, Idle, WorkOf
  <2>3. PICK key \in ResolveHostedOcv(c) :
          work' = [work EXCEPT ![w] = [work[w] EXCEPT !.token =
            [agent |-> c.agent, key |-> IF key = None THEN Operator ELSE key]]]
    BY <1>16 DEF ExchangeAgentToken
  <2> DEFINE t == [agent |-> c.agent, key |-> IF key = None THEN Operator ELSE key]
  <2>4. RequestInv(c, t)
    BY <2>1, <2>2, ResolvedKey, AgentFacts DEF RequestInv, ProvisionInv, Keys
  <2>5. /\ [work[w] EXCEPT !.token = t].ctx = c
        /\ [work[w] EXCEPT !.token = t].pc = "run"
        /\ [work[w] EXCEPT !.token = t].llm = work[w].llm
        /\ [work[w] EXCEPT !.token = t].token = t
    BY <2>1 DEF Running
  <2>6. WorkOf([work[w] EXCEPT !.token = t])
    BY <2>1, <2>2, <2>4, <2>5 DEF Running, WorkOf
  <2>7. UNCHANGED graphs
    BY <1>16 DEF ExchangeAgentToken
  <2> QED BY <1>2, <1>11, <2>3, <2>6, <2>7 DEF Does
<1>17. CASE EndWork(w)
  <2>1. Does(Idle)
    BY <1>17 DEF EndWork, Does
  <2> QED BY <1>2, <1>10, <1>11, <2>1
<1>18. ASSUME NEW u \in Users, ReadSigningKeys(w, u) PROVE TurnInv'
  <2>1. RowInv(u) /\ row[u].agent # None
    BY <1>18 DEF ReadSigningKeys, ProvisionInv
  <2>2. /\ ContextOf(u) \in Context /\ ContextOf(u) # NoContext
        /\ ContextInv(ContextOf(u)) /\ ContextOf(u).agent = row[u].agent
    BY <2>1, ContextType, RowContext DEF ContextOf
  <2>3. PICK key \in ResolveHostedOcv(ContextOf(u)) \ {None} :
          work' = [work EXCEPT ![w] =
            [pc |-> "read", ctx |-> ContextOf(u),
             token |-> [agent |-> row[u].agent, key |-> key]]]
    BY <1>18 DEF ReadSigningKeys
  <2>4. RequestInv(ContextOf(u), [agent |-> row[u].agent, key |-> key])
    BY <2>2, ResolvedKey, AgentFacts DEF RequestInv, ProvisionInv, Keys
  <2>5. WorkOf([pc |-> "read", ctx |-> ContextOf(u),
                token |-> [agent |-> row[u].agent, key |-> key]])
    BY <2>2, <2>4 DEF WorkOf
  <2>6. UNCHANGED graphs
    BY <1>18 DEF ReadSigningKeys
  <2> QED BY <1>2, <1>11, <2>3, <2>5, <2>6 DEF Does
<1> QED BY <1>2, <1>13, <1>14, <1>15, <1>16, <1>17, <1>18 DEF Turn

-----------------------------------------------------------------------------
(* A provisioning step of u changes nothing that a turn or another user    *)
(* relies on: what is settled stays so, and only keys of u are stored.     *)
Undisturbed(u) ==
    /\ UNCHANGED settings
    /\ \A v \in Users \ {u} : cur'[v] = cur[v] /\ row'[v] = row[v] /\ session'[v] = session[v]
    /\ shown \subseteq shown' /\ kept \subseteq kept'
    /\ \A a \in kept' \ kept : a[1] = u /\ ~Settled(a)
    /\ \A a : Settled(a) => Settled(a)'

LEMMA OthersKept ==
    ASSUME TypeOK, ProvisionInv, NEW u \in Users, Undisturbed(u), kept' \subseteq Agents
    PROVE  \A v \in Users \ {u} : RowInv(v)' /\ SessionInv(v)'
<1> SUFFICES ASSUME NEW v \in Users, v # u PROVE RowInv(v)' /\ SessionInv(v)'
  OBVIOUS
<1>1. RowInv(v) /\ SessionInv(v) /\ UNCHANGED settings
  BY DEF ProvisionInv, Undisturbed
<1>2. row'[v] = row[v] /\ session'[v] = session[v] /\ Current(v)' = Current(v)
  BY DEF Undisturbed, Current
<1>3. Current(v)[1] = v
  BY DEF Current
<1>4. row[v].agent # None => row[v].agent[1] = v
  BY <1>1 DEF RowInv, Own
<1>5. \A a \in {row[v].agent, Current(v)} \cap kept' : a \in kept
  <2>1. None \notin kept'
    BY ConstantsAssumption
  <2> QED BY <1>3, <1>4, <2>1 DEF Undisturbed
<1>6. RowInv(v)'
  BY <1>1, <1>2, <1>5 DEF RowInv, Undisturbed, Own, Shape, Gives, Only, StoredKey
<1>7. SessionInv(v)'
  BY <1>1, <1>2, <1>5 DEF SessionInv, Undisturbed, Own, Shape, Gives, Only, StoredKey
<1> QED BY <1>6, <1>7

LEMMA TurnsKept ==
    ASSUME TypeOK, ProvisionInv, TurnInv, NEW u \in Users, Undisturbed(u),
           UNCHANGED <<graphs, work>>, kept' \subseteq Agents
    PROVE  TurnInv'
<1>1. UNCHANGED settings /\ kept \subseteq kept'
  BY DEF Undisturbed
<1>2. \A a : Settled(a) => Settled(a)' /\ (a \in kept' => a \in kept)
  BY DEF Undisturbed
<1>3. \A k \in DOMAIN graphs' : GraphInv(k)'
  BY <1>1, <1>2 DEF TurnInv, GraphInv
<1>4. \A c : ContextInv(c) => ContextInv(c)'
  BY <1>1, <1>2 DEF ContextInv, Own, Only
<1>5. ASSUME NEW c, NEW r, ContextInv(c), RequestInv(c, r) PROVE RequestInv(c, r)'
  <2>1. Operator \notin kept'
    BY AgentFacts
  <2> QED BY <1>2, <1>5, <2>1 DEF RequestInv, ContextInv
<1>6. \A w \in Workers : WorkInv(w)'
  BY <1>1, <1>4, <1>5 DEF TurnInv, WorkInv
<1> QED BY <1>3, <1>6 DEF TurnInv

(* What is stored for the agent a in row r gives a's key back.             *)
LEMMA PersistGives ==
    ASSUME TypeOK, NEW u \in Users, NEW r \in Row, NEW a \in Agents, NEW written \in BOOLEAN,
           r.agent = a, a[1] = u, Own(r, u), Shape(r)
    PROVE  LET p == PersistOcv(r, a, written)
           IN  p \in Row /\ p.agent = a /\ p.ready = r.ready
               /\ Own(p, u) /\ Shape(p) /\ Gives(p, a)
<1> DEFINE p == PersistOcv(r, a, written)
<1>1. a \in Column /\ a # None
  BY ConstantsAssumption DEF Column
<1>2. p \in Row /\ p.agent = a /\ p.ready = r.ready
  BY <1>1, PersistType
<1>3. CASE settings.cipher
  <2>1. p.ct = a /\ p.plain = None
    BY <1>3 DEF PersistOcv, Row
  <2> QED BY <1>1, <1>2, <1>3, <2>1 DEF Own, Shape, Gives, Only, StoredKey
<1>4. CASE ~settings.cipher
  <2>1. p.ct = None /\ p.plain \in {None, a}
    BY <1>4 DEF PersistOcv, Row, Shape
  <2> QED BY <1>1, <1>2, <1>4, <2>1 DEF Own, Shape, Gives, Only
<1> QED BY <1>3, <1>4

(* A provisioning step keeps the invariant of its user and of the Platform *)
(* and disturbs nobody.                                                    *)
Keeps(u) == Undisturbed(u) /\ PlatformInv' /\ RowInv(u)' /\ SessionInv(u)'

LEMMA RecreateKeeps ==
    ASSUME TypeOK, ProvisionInv, NEW u \in Users, Recreate(u)
    PROVE  Keeps(u)
<1>1. PlatformInv /\ RowInv(u) /\ session[u] = NoSession /\ cur[u] \in Nat
  BY DEF ProvisionInv, Recreate, TypeOK
<1>2. UNCHANGED <<settings, shown, vault, row, session, kept, graphs, work>>
      /\ cur' = [cur EXCEPT ![u] = cur[u] + 1]
  BY DEF Recreate
<1>3. Undisturbed(u)
  BY <1>2 DEF Undisturbed, Settled, TypeOK
<1>4. PlatformInv'
  <2>1. ASSUME NEW a \in shown PROVE a[2] <= cur'[a[1]]
    <3>1. a \in Agents /\ a[1] \in Users /\ a[2] \in Nat /\ a[2] <= cur[a[1]]
      BY <1>1, AgentFacts DEF PlatformInv, TypeOK
    <3>2. cur[a[1]] \in Nat /\ cur'[a[1]] \in {cur[a[1]], cur[a[1]] + 1}
      BY <1>2, <3>1 DEF TypeOK
    <3> QED BY <3>1, <3>2
  <2> QED BY <1>1, <1>2, <2>1 DEF PlatformInv
<1>5. Current(u)' \notin kept
  <2>1. Current(u)'[1] = u /\ Current(u)'[2] = cur[u] + 1
    BY <1>2 DEF Current, TypeOK
  <2> QED BY <1>1, <2>1 DEF PlatformInv
<1>6. RowInv(u)'
  BY <1>1, <1>2, <1>5 DEF RowInv, Settled, Own, Shape, Gives, Only, StoredKey
<1>7. SessionInv(u)'
  BY <1>1, <1>2 DEF SessionInv
<1> QED BY <1>3, <1>4, <1>6, <1>7 DEF Keeps

LEMMA BootstrapKeeps ==
    ASSUME TypeOK, ProvisionInv, NEW u \in Users, Bootstrap(u)
    PROVE  Keeps(u)
<1> DEFINE a == Current(u)
<1>1. /\ PlatformInv /\ RowInv(u) /\ session[u] = NoSession /\ ~row[u].ready
      /\ row[u] \in Row /\ a \in Agents /\ a[1] = u /\ a[2] = cur[u] /\ cur[u] \in Nat
      /\ a # None /\ Current(u)' = a
  BY CurrentAgent, ConstantsAssumption DEF ProvisionInv, Bootstrap, TypeOK, Current
<1>2. /\ UNCHANGED <<settings, cur, vault, row, kept, graphs, work>>
      /\ shown' = shown \cup {a}
  BY DEF Bootstrap, Current
<1>3. PICK agent \in IF row[u].agent = None THEN {a, None} ELSE {a} :
        session' = [session EXCEPT ![u] =
          AfterBootstrap([row[u] EXCEPT !.agent = agent], a)]
  BY DEF Bootstrap, Current
<1> DEFINE r == [row[u] EXCEPT !.agent = agent]
           s == AfterBootstrap(r, a)
<1>4. /\ session'[u] = s /\ \A v \in Users \ {u} : session'[v] = session[v]
      /\ r \in Row /\ r.agent = agent /\ r.ct = row[u].ct /\ r.plain = row[u].plain
      /\ r.ready = FALSE /\ agent \in {a, None}
  BY <1>1, <1>3 DEF TypeOK, Row, Column
<1>5. \/ a \in shown /\ s = [pc |-> "commit", row |-> r, key |-> None]
      \/ /\ a \notin shown /\ agent = None
         /\ s = [pc |-> "commit", row |-> [r EXCEPT !.plain = a], key |-> a]
      \/ a \notin shown /\ agent = a /\ s = [pc |-> "persist", row |-> r, key |-> a]
  BY <1>1, <1>4 DEF AfterBootstrap
<1> HIDE DEF a, r, s
<1>6. s # NoSession /\ s.key \in {a, None} /\ (s.key = a => a \notin shown)
  BY <1>1, <1>5 DEF NoSession
<1>7. \A b : Settled(b) => Settled(b)'
  BY <1>1, <1>2, <1>4, <1>6, ConstantsAssumption DEF Settled, TypeOK
<1>8. Undisturbed(u)
  BY <1>2, <1>4, <1>7 DEF Undisturbed
<1>9. PlatformInv'
  BY <1>1, <1>2 DEF PlatformInv
<1>10. RowInv(u)'
  BY <1>1, <1>2, <1>7 DEF a, RowInv, Own, Shape, Gives, Only, StoredKey
<1>11. Own(r, u) /\ Shape(r)
  BY <1>1, <1>4 DEF RowInv, Own, Shape
<1>12. a \in kept => Gives(r, a)
  BY <1>1, <1>4 DEF a, RowInv, Gives, Only, StoredKey
<1>13. /\ Own(s.row, u) /\ Shape(s.row) /\ ~s.row.ready /\ s.row.agent \in {None, a}
       /\ s.pc = "persist" => s.row.agent = a /\ s.key = a
       /\ s.pc = "commit" /\ a \in kept \cup {s.key} => Gives(s.row, a)
  <2>1. CASE a \in shown /\ s = [pc |-> "commit", row |-> r, key |-> None]
    <3>1. s.pc = "commit" /\ s.row = r /\ s.key = None
      BY <2>1
    <3> QED BY <1>1, <1>4, <1>11, <1>12, <3>1
  <2>2. CASE /\ a \notin shown /\ agent = None
             /\ s = [pc |-> "commit", row |-> [r EXCEPT !.plain = a], key |-> a]
    <3> DEFINE q == [r EXCEPT !.plain = a]
    <3>1. q.agent = None /\ q.ct = None /\ q.plain = a /\ q.ready = FALSE
      BY <1>1, <1>4, <1>11, <2>2 DEF Row, RowInv, Shape
    <3>2. Own(q, u) /\ Shape(q) /\ Gives(q, a)
      BY <1>1, <3>1 DEF Own, Shape, Gives, Only, StoredKey
    <3>3. s.pc = "commit" /\ s.row = q /\ s.key = a
      BY <2>2
    <3> QED BY <1>1, <3>1, <3>2, <3>3
  <2>3. CASE a \notin shown /\ agent = a /\ s = [pc |-> "persist", row |-> r, key |-> a]
    <3>1. s.pc = "persist" /\ s.row = r /\ s.key = a
      BY <2>3
    <3> QED BY <1>1, <1>4, <1>11, <2>3, <3>1
  <2> QED BY <1>5, <2>1, <2>2, <2>3
<1>14. \A c, b : (Shape(c)' <=> Shape(c)) /\ (Gives(c, b)' <=> Gives(c, b))
  BY <1>1, <1>2 DEF Shape, Gives, Only, StoredKey
<1>15. SessionInv(u)'
  <2>1. Current(u)' = a /\ session'[u] = s /\ a \in shown' /\ kept' = kept
    BY <1>1, <1>2, <1>4
  <2> QED BY <1>6, <1>13, <1>14, <2>1 DEF SessionInv, Own
<1> QED BY <1>8, <1>9, <1>10, <1>15 DEF Keeps

LEMMA PersistKeeps ==
    ASSUME TypeOK, ProvisionInv, NEW u \in Users, Persist(u)
    PROVE  Keeps(u)
<1> DEFINE a == Current(u)
           s == session[u]
<1>1. /\ PlatformInv /\ RowInv(u) /\ SessionInv(u) /\ s # NoSession /\ s.pc = "persist"
      /\ s \in Session /\ s.row \in Row /\ a \in Agents /\ a[1] = u /\ a # None
      /\ Current(u)' = a
  BY CurrentAgent, ConstantsAssumption
     DEF ProvisionInv, Persist, TypeOK, Current, NoSession, Session
<1>2. /\ s.row.agent = a /\ s.key = a /\ a \in shown /\ Own(s.row, u) /\ Shape(s.row)
      /\ ~s.row.ready
  BY <1>1 DEF SessionInv
<1>3. UNCHANGED <<settings, cur, shown, row, kept, graphs, work>>
  BY DEF Persist
<1>4. PICK arrives \in BOOLEAN, written \in BOOLEAN :
        /\ vault' = IF arrives THEN [vault EXCEPT ![a] = a] ELSE vault
        /\ session' = [session EXCEPT ![u] =
             [pc |-> "commit", row |-> PersistOcv(s.row, a, written), key |-> a]]
  BY <1>2 DEF Persist
<1> DEFINE p == PersistOcv(s.row, a, written)
<1>5. p.agent = a /\ p.ready = s.row.ready /\ Own(p, u) /\ Shape(p) /\ Gives(p, a)
  BY <1>1, <1>2, PersistGives
<1>6. /\ session'[u] = [pc |-> "commit", row |-> p, key |-> a]
      /\ \A v \in Users \ {u} : session'[v] = session[v]
  BY <1>4 DEF TypeOK
<1>7. \A b : Settled(b) => Settled(b)'
  BY <1>1, <1>2, <1>3, <1>6 DEF Settled
<1>8. Undisturbed(u)
  BY <1>3, <1>6, <1>7 DEF Undisturbed
<1>9. PlatformInv'
  BY <1>1, <1>3, <1>4 DEF PlatformInv, TypeOK
<1>10. RowInv(u)'
  BY <1>1, <1>3, <1>7 DEF RowInv, Own, Shape, Gives, Only, StoredKey
<1>11. SessionInv(u)'
  BY <1>1, <1>2, <1>3, <1>5, <1>6 DEF SessionInv, Own, Shape, Gives, Only, StoredKey
<1> QED BY <1>8, <1>9, <1>10, <1>11 DEF Keeps

(* A key that u's own session is not to store is none that another's is.   *)
LEMMA SettledCurrent ==
    ASSUME TypeOK, ProvisionInv, NEW u \in Users, Current(u) \in shown
    PROVE  /\ \A v \in Users \ {u} :
                session[v] # NoSession => session[v].key # Current(u)
           /\ session[u] = NoSession => Settled(Current(u))
<1>1. Current(u)[1] = u /\ Current(u) # None
  BY CurrentAgent, ConstantsAssumption
<1>2. \A v \in Users : session[v] # NoSession =>
        session[v].key = None \/ session[v].key[1] = v
  <2> SUFFICES ASSUME NEW v \in Users, session[v] # NoSession
               PROVE  session[v].key = None \/ session[v].key[1] = v
    OBVIOUS
  <2>1. session[v].key \in {None, Current(v)} /\ Current(v)[1] = v
    BY CurrentAgent DEF ProvisionInv, SessionInv
  <2> QED BY <2>1
<1> QED BY <1>1, <1>2 DEF Settled

LEMMA CommitKeeps ==
    ASSUME TypeOK, ProvisionInv, NEW u \in Users, CommitSession(u)
    PROVE  Keeps(u)
<1> DEFINE a == Current(u)
           s == session[u]
<1>1. /\ PlatformInv /\ SessionInv(u) /\ s # NoSession /\ s.pc = "commit"
      /\ a \in Agents /\ a[1] = u /\ a # None /\ Current(u)' = a
  BY CurrentAgent, ConstantsAssumption
     DEF ProvisionInv, CommitSession, TypeOK, Current, NoSession
<1>2. /\ s.row.agent \in {None, a} /\ s.key \in {None, a} /\ a \in shown
      /\ Own(s.row, u) /\ Shape(s.row) /\ ~s.row.ready
      /\ a \in kept \cup {s.key} => Gives(s.row, a)
  BY <1>1 DEF SessionInv
<1>3. /\ UNCHANGED <<settings, cur, shown, vault, graphs, work>>
      /\ row'[u] = s.row /\ session'[u] = NoSession
      /\ \A v \in Users \ {u} : row'[v] = row[v] /\ session'[v] = session[v]
      /\ kept' = kept \cup ({s.key} \ {None})
  BY DEF CommitSession, TypeOK
<1>4. \A b : Settled(b) => Settled(b)'
  BY <1>3 DEF Settled
<1>5. \A b : b = a => Settled(b)'
  BY <1>2, <1>3, SettledCurrent DEF Settled
<1>6. Undisturbed(u)
  BY <1>1, <1>2, <1>3, <1>4 DEF Undisturbed, Settled
<1>7. PlatformInv'
  BY <1>1, <1>2, <1>3 DEF PlatformInv
<1>8. \A c, b : (Shape(c)' <=> Shape(c)) /\ (Gives(c, b)' <=> Gives(c, b))
  BY <1>3 DEF Shape, Gives, Only, StoredKey
<1>9. \A b \in {s.row.agent, a} \cap kept' : Gives(s.row, b)
  <2>1. None \notin kept'
    BY <1>3, ConstantsAssumption DEF TypeOK
  <2>2. ASSUME NEW b \in {s.row.agent, a} \cap kept' PROVE b = a /\ a \in kept \cup {s.key}
    BY <1>2, <1>3, <2>1
  <2> QED BY <1>2, <2>2
<1>10. RowInv(u)'
  <2> HIDE DEF a, s
  <2>1. row'[u] = s.row /\ Current(u)' = a
    BY <1>1, <1>3 DEF a, s
  <2> QED BY <1>2, <1>3, <1>5, <1>8, <1>9, <2>1 DEF RowInv, Own
<1>11. SessionInv(u)'
  BY <1>3 DEF SessionInv
<1> QED BY <1>6, <1>7, <1>10, <1>11 DEF Keeps

LEMMA RollbackKeeps ==
    ASSUME TypeOK, ProvisionInv, NEW u \in Users, RollbackSession(u)
    PROVE  Keeps(u)
<1>1. PlatformInv /\ RowInv(u)
  BY DEF ProvisionInv
<1>2. /\ UNCHANGED <<settings, cur, shown, vault, row, kept, graphs, work>>
      /\ session'[u] = NoSession
      /\ \A v \in Users \ {u} : session'[v] = session[v]
  BY DEF RollbackSession, TypeOK
<1>3. \A b : Settled(b) => Settled(b)'
  BY <1>2 DEF Settled
<1>4. Undisturbed(u)
  BY <1>2, <1>3 DEF Undisturbed
<1>5. PlatformInv'
  BY <1>1, <1>2 DEF PlatformInv
<1>6. RowInv(u)'
  BY <1>1, <1>2, <1>3 DEF RowInv, Current, Own, Shape, Gives, Only, StoredKey
<1>7. SessionInv(u)'
  BY <1>2 DEF SessionInv
<1> QED BY <1>4, <1>5, <1>6, <1>7 DEF Keeps

LEMMA PollKeeps ==
    ASSUME TypeOK, ProvisionInv, NEW u \in Users, Poll(u)
    PROVE  Keeps(u)
<1> DEFINE a == Current(u)
<1>1. /\ PlatformInv /\ RowInv(u) /\ session[u] = NoSession /\ row[u] \in Row
      /\ a \in Agents /\ a[1] = u /\ a # None /\ a \in shown /\ Current(u)' = a
  BY CurrentAgent, ConstantsAssumption DEF ProvisionInv, Poll, TypeOK, Current
<1>2. PICK claimed \in BOOLEAN :
        row' = [row EXCEPT ![u] = [[row[u] EXCEPT !.agent = a] EXCEPT !.ready = claimed]]
  BY DEF Poll, Current, TypeOK
<1>3. /\ UNCHANGED <<settings, cur, shown, vault, session, kept, graphs, work>>
      /\ row'[u].agent = a /\ row'[u].ready = claimed
      /\ row'[u].ct = row[u].ct /\ row'[u].plain = row[u].plain
      /\ \A v \in Users \ {u} : row'[v] = row[v]
  BY <1>1, <1>2 DEF Poll, TypeOK, Row
<1>4. \A b : Settled(b) <=> Settled(b)'
  BY <1>3 DEF Settled
<1>5. Settled(a)
  BY <1>1, SettledCurrent
<1>6. Undisturbed(u)
  BY <1>3, <1>4 DEF Undisturbed
<1>7. PlatformInv'
  BY <1>1, <1>3 DEF PlatformInv
<1>8. RowInv(u)'
  BY <1>1, <1>3, <1>4, <1>5 DEF RowInv, Own, Shape, Gives, Only, StoredKey
<1>9. SessionInv(u)'
  BY <1>1, <1>3 DEF SessionInv
<1> QED BY <1>6, <1>7, <1>8, <1>9 DEF Keeps

LEMMA ProvisionKeeps ==
    ASSUME TypeOK, TypeOK', ProvisionInv, TurnInv, NEW u \in Users, Provision(u)
    PROVE  ProvisionInv' /\ TurnInv'
<1>1. Keeps(u)
  BY RecreateKeeps, BootstrapKeeps, PersistKeeps, CommitKeeps, RollbackKeeps, PollKeeps
     DEF Provision
<1>2. UNCHANGED <<graphs, work>> /\ kept' \subseteq Agents
  BY DEF Provision, Recreate, Bootstrap, Persist, CommitSession, RollbackSession, Poll, TypeOK
<1>3. TurnInv'
  BY <1>1, <1>2, TurnsKept DEF Keeps
<1>4. \A v \in Users : RowInv(v)' /\ SessionInv(v)'
  BY <1>1, <1>2, OthersKept DEF Keeps
<1> QED BY <1>1, <1>3, <1>4 DEF ProvisionInv, Keeps

LEMMA RestartKeeps ==
    ASSUME TypeOK, ProvisionInv, Restart
    PROVE  TypeOK' /\ ProvisionInv' /\ TurnInv'
<1>1. /\ UNCHANGED <<settings, cur, shown, vault, row, kept>>
      /\ session' = [u \in Users |-> NoSession]
      /\ graphs' = [k \in {} |-> Operator] /\ work' = [w \in Workers |-> Idle]
  BY DEF Restart
<1>2. TypeOK'
  BY <1>1 DEF TypeOK
<1>3. \A b : Settled(b) => Settled(b)'
  BY <1>1 DEF Settled
<1>4. ASSUME NEW u \in Users PROVE RowInv(u)' /\ SessionInv(u)'
  <2>1. RowInv(u) /\ session'[u] = NoSession /\ Current(u)' = Current(u)
    BY <1>1 DEF ProvisionInv, Current
  <2>2. RowInv(u)'
    BY <1>1, <1>3, <2>1 DEF RowInv, Own, Shape, Gives, Only, StoredKey
  <2> QED BY <2>1, <2>2 DEF SessionInv
<1>5. ProvisionInv'
  BY <1>1, <1>4 DEF ProvisionInv, PlatformInv
<1>6. TurnInv'
  BY <1>1 DEF TurnInv, WorkInv
<1> QED BY <1>2, <1>5, <1>6

-----------------------------------------------------------------------------
LEMMA InitInv == Init => IInv
<1> SUFFICES ASSUME Init PROVE IInv
  OBVIOUS
<1>1. TypeOK
  BY InitType
<1>2. ASSUME NEW u \in Users PROVE RowInv(u) /\ SessionInv(u)
  BY DEF Init, RowInv, SessionInv, Own, Shape
<1>3. PlatformInv
  BY DEF Init, PlatformInv
<1>4. TurnInv
  BY DEF Init, TurnInv, WorkInv
<1> QED BY <1>1, <1>2, <1>3, <1>4 DEF IInv, ProvisionInv

LEMMA StepInv == IInv /\ [Next]_vars => IInv'
<1> SUFFICES ASSUME IInv, [Next]_vars PROVE IInv'
  OBVIOUS
<1> USE DEF IInv
<1>1. ASSUME NEW u \in Users, Provision(u) PROVE IInv'
  <2>1. TypeOK'
    BY <1>1, ProvisionType
  <2> QED BY <1>1, <2>1, ProvisionKeeps
<1>2. ASSUME NEW w \in Workers, Turn(w) PROVE IInv'
  BY <1>2, TurnType, TurnKeeps
<1>3. CASE Restart
  BY <1>3, RestartKeeps
<1>4. CASE UNCHANGED vars
  <2>1. TypeOK' /\ PlatformInv'
    BY <1>4 DEF vars, TypeOK, ProvisionInv, PlatformInv
  <2>2. \A a : Settled(a)' <=> Settled(a)
    BY <1>4 DEF vars, Settled
  <2>3. ASSUME NEW u \in Users PROVE RowInv(u)' /\ SessionInv(u)'
    <3>1. RowInv(u) /\ SessionInv(u)
      BY DEF ProvisionInv
    <3>2. RowInv(u)'
      BY <1>4, <2>2, <3>1 DEF vars, RowInv, Current, Own, Shape, Gives, Only, StoredKey
    <3>3. SessionInv(u)'
      BY <1>4, <3>1 DEF vars, SessionInv, Current, Own, Shape, Gives, Only, StoredKey
    <3> QED BY <3>2, <3>3
  <2>4. \A c, r : (ContextInv(c)' <=> ContextInv(c)) /\ (RequestInv(c, r)' <=> RequestInv(c, r))
    BY <1>4, <2>2 DEF vars, ContextInv, RequestInv, Own, Only
  <2>5. TurnInv'
    BY <1>4, <2>2, <2>4 DEF vars, TurnInv, GraphInv, WorkInv
  <2> QED BY <2>1, <2>3, <2>5 DEF ProvisionInv
<1> QED BY <1>1, <1>2, <1>3, <1>4 DEF Next, Provision, Turn

LEMMA Invariant == Spec => []IInv
<1> QED BY InitInv, StepInv, PTL DEF Spec

(* Every variable of the credentials model keeps its type.                 *)
THEOREM TypeCorrect == Spec => []TypeOK
<1>1. IInv => TypeOK
  BY DEF IInv
<1> QED BY <1>1, Invariant, PTL

LEMMA RequestsKept ==
    ASSUME IInv, NEW w \in Workers, NEW r \in Requests(w)
    PROVE  /\ work[w] # Idle /\ work[w].ctx \in Contexts
           /\ ContextInv(work[w].ctx) /\ RequestInv(work[w].ctx, r)
           /\ work[w].pc = "run" /\ settings.shroud /\ work[w].ctx # NoContext =>
                work[w].llm.key # Operator
<1>1. work[w] \in {Idle} \cup Started \cup Running \cup Reading /\ WorkInv(w)
  BY DEF IInv, TypeOK, TurnInv
<1>2. work[w].pc \in {"run", "read"}
  BY DEF Requests
<1>3. work[w] # Idle /\ work[w].ctx \in Contexts
  BY <1>1, <1>2 DEF Idle, Started, Running, Reading, Contexts
<1>4. CASE work[w].pc = "run" /\ r = work[w].llm
  BY <1>1, <1>3, <1>4 DEF WorkInv
<1>5. CASE r = work[w].token /\ work[w].token.agent # None
  BY <1>1, <1>2, <1>3, <1>5 DEF WorkInv
<1> QED BY <1>3, <1>4, <1>5 DEF Requests

(* A turn presents agents and keys of its own user or the operator's, and  *)
(* with Shroud never the operator's to the model (state.py:20-38,          *)
(* shroud_llm.py:212-241).                                                 *)
THEOREM KeysSeparate == Spec => []KeysStayWithTheirUser
<1>1. ASSUME IInv PROVE KeysStayWithTheirUser
  <2> SUFFICES ASSUME NEW w \in Workers, NEW r \in Requests(w)
               PROVE  IF work[w].ctx = NoContext THEN r.key = Operator
                      ELSE /\ r.agent \in {work[w].ctx.agent, Operator}
                           /\ r.key[1] \in {work[w].ctx.user, None}
                           /\ work[w].pc = "run" /\ settings.shroud =>
                                work[w].llm.key # Operator
    BY DEF KeysStayWithTheirUser
  <2> QED BY <1>1, RequestsKept DEF RequestInv
<1> QED BY <1>1, Invariant, PTL

(* A key that a commit has stored is the one presented for its agent       *)
(* (hosted_credentials.py:95-120).                                         *)
THEOREM StoredKeyServes == Spec => []StoredKeyIsPresented
<1>1. ASSUME IInv PROVE StoredKeyIsPresented
  <2> SUFFICES ASSUME NEW w \in Workers, NEW r \in Requests(w), r.agent \in kept
               PROVE  r.key \in {r.agent, Operator}
    BY DEF StoredKeyIsPresented
  <2>1. RequestInv(work[w].ctx, r)
    BY <1>1, RequestsKept
  <2> QED BY <2>1 DEF RequestInv
<1> QED BY <1>1, Invariant, PTL

(* With a master key the row alone gives a stored key back, and it never   *)
(* holds a plaintext beside a ciphertext (hosted_credentials.py:158-161).  *)
THEOREM RowsServe == Spec => []RowServesAlone
<1>1. ASSUME IInv PROVE RowServesAlone
  <2> SUFFICES ASSUME NEW u \in Users
               PROVE  /\ settings.cipher /\ row[u].agent \in kept =>
                           StoredKey(row[u]) = row[u].agent
                      /\ row[u].plain # None => row[u].ct = None
    BY DEF RowServesAlone
  <2>1. RowInv(u)
    BY <1>1 DEF IInv, ProvisionInv
  <2> QED BY <2>1 DEF RowInv, Gives, Shape
<1> QED BY <1>1, Invariant, PTL

=============================================================================
