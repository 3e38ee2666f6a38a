--------------------------- MODULE TokenRegistryProofs ---------------------------
(***************************************************************************)
(* Safety of TokenRegistry for any contracts, symbols, curated files,      *)
(* answers of LI.FI and CoinGecko, and any number of requests.             *)
(*                                                                         *)
(* Shape is inductive with any number of jobs: a contract always has a     *)
(* primary key left, because a process holds at most one of its keys.      *)
(* The other theorems assume one job at a time, as the model's run does:   *)
(* with two jobs TrustNeverFalls does not hold.                            *)
(***************************************************************************)
EXTENDS TokenRegistry, FiniteSetTheorems, TLAPS

Processes == Jobs \cup Finders
Txs == [token : Tokens, entry : Entry, loaded : Row \cup {NoRow}]
JobRecords ==
  [kind : {"none", "seed", "catalog", "support", "import", "allowlist"},
   pc : {"idle", "rows", "commit", "tail", "tailcommit", "done", "failed"},
   todo : SUBSET Entry, later : SUBSET Entry, snap : SUBSET Tokens,
   chains : SUBSET Chains, held : SUBSET (Tokens \X Ids)]
AskRecords ==
  [pc : {"idle", "verify", "guard", "select", "commit"}, token : Tokens \cup {"none"},
   symbol : Symbols]

(* A process holds the key of one row of a contract at most: a job between *)
(* select and commit the row it loaded, a job in its tail one key of each  *)
(* contract it is to prune or flag.                                        *)
Shape ==
  /\ rows \in [Tokens -> Row \cup {NoRow}]
  /\ runs \in 0 .. MaxRuns
  /\ seeded \in BOOLEAN
  /\ job \in [Jobs -> JobRecords]
  /\ tx \in [Processes -> Txs \cup {NoTx}]
  /\ finder \in [Finders -> AskRecords]
  /\ \A p \in Processes : tx[p] # NoTx => tx[p] \in Txs /\ tx[p].entry.token = tx[p].token
  /\ \A j \in Jobs : /\ tx[j] # NoTx <=> job[j].pc = "commit"
                     /\ job[j].held # {} => job[j].pc = "tailcommit"
                     /\ \A g, h \in job[j].held : g[1] = h[1] => g[2] = h[2]
  /\ \A f \in Finders : /\ tx[f] # NoTx <=> finder[f].pc = "commit"
                        /\ finder[f].pc # "idle" => finder[f].token \in Tokens

LEMMA ShapeType == Shape /\ overtaken \subseteq Tokens => TypeOK
BY ConstantsAssumption DEF Shape, TypeOK, Processes, Txs, JobRecords, AskRecords

LEMMA NoRowIsNone == \A r \in Row : r # NoRow /\ r.id # 0 /\ r.id \in Ids
BY FS_CardinalityType, ConstantsAssumption DEF Row, NoRow, Ids

(* The key a process holds of a contract, 0 for none.                      *)
KeyOf(p, t) ==
  IF tx[p] # NoTx THEN IF tx[p].token = t THEN tx[p].loaded.id ELSE 0
  ELSE IF p \in Jobs /\ \E h \in job[p].held : h[1] = t
       THEN (CHOOSE h \in job[p].held : h[1] = t)[2] ELSE 0

(* A contract without a row has a key that no process holds: each process  *)
(* but the one that inserts holds one key of it at most.                   *)
LEMMA KeyLeft ==
  ASSUME Shape, NEW t \in Tokens, rows[t] = NoRow
  PROVE  \E i \in Ids :
           /\ i # rows[t].id
           /\ \A p \in Jobs \cup Finders : tx[p].token = t => tx[p].loaded.id # i
           /\ \A j \in Jobs : <<t, i>> \notin job[j].held
<1> DEFINE keys == {KeyOf(p, t) : p \in Processes}
<1> DEFINE f == [p \in Processes |-> KeyOf(p, t)]
<1>1. IsFiniteSet(Processes) /\ Cardinality(Processes) \in Nat
      /\ Cardinality(Processes) = Cardinality(Jobs) + Cardinality(Finders)
      /\ Cardinality(Jobs) \in Nat /\ Cardinality(Finders) \in Nat
  <2>1. IsFiniteSet(Jobs) /\ IsFiniteSet(Finders) /\ Jobs \cap Finders = {}
    BY ConstantsAssumption
  <2>2. Cardinality(Jobs) \in Nat /\ Cardinality(Finders) \in Nat
    BY <2>1, FS_CardinalityType
  <2>3. Cardinality(Jobs \cap Finders) = 0
    BY <2>1, FS_EmptySet
  <2>4. IsFiniteSet(Jobs \cup Finders)
        /\ Cardinality(Jobs \cup Finders)
             = Cardinality(Jobs) + Cardinality(Finders) - Cardinality(Jobs \cap Finders)
    BY <2>1, FS_Union
  <2> QED BY <2>2, <2>3, <2>4 DEF Processes
<1>2. IsFiniteSet(keys) /\ Cardinality(keys) <= Cardinality(Processes) /\ Cardinality(keys) \in Nat
  <2>1. f \in Surjection(Processes, keys)
    BY DEF Surjection
  <2> HIDE DEF f, keys
  <2> QED BY <2>1, <1>1, FS_Surjection, FS_CardinalityType
<1>3. IsFiniteSet(Ids) /\ Cardinality(Ids) = Cardinality(Jobs) + Cardinality(Finders) + 1
  <2>1. PICK m \in Nat \ {0} : m = Cardinality(Jobs) + Cardinality(Finders) + 1
    BY <1>1
  <2>2. IsFiniteSet(1 .. m) /\ Cardinality(1 .. m) = m
    BY <2>1, FS_Interval
  <2> QED BY <2>1, <2>2 DEF Ids
<1>4. PICK i \in Ids : i \notin keys
  <2> HIDE DEF keys
  <2> SUFFICES ASSUME Ids \subseteq keys PROVE FALSE
    OBVIOUS
  <2>1. Cardinality(Ids) <= Cardinality(keys)
    BY <1>2, FS_Subset
  <2> QED BY <2>1, <1>1, <1>2, <1>3
<1>5. i # 0 /\ rows[t].id = 0
  BY <1>1 DEF Ids, NoRow
<1>6. ASSUME NEW p \in Jobs \cup Finders, tx[p].token = t PROVE tx[p].loaded.id # i
  <2>1. tx[p] # NoTx
    BY <1>6, ConstantsAssumption DEF NoTx
  <2> QED BY <2>1, <1>4, <1>6 DEF KeyOf, Processes
<1>7. ASSUME NEW j \in Jobs, <<t, i>> \in job[j].held PROVE FALSE
  <2>1. tx[j] = NoTx
    BY <1>7 DEF Shape
  <2>2. PICK h \in job[j].held : h = (CHOOSE g \in job[j].held : g[1] = t) /\ h[1] = t
    BY <1>7
  <2>3. h[2] = i
    BY <1>7, <2>2 DEF Shape
  <2>4. KeyOf(j, t) = i
    BY <2>1, <2>2, <2>3 DEF KeyOf
  <2> QED BY <2>4, <1>4 DEF Processes
<1> QED BY <1>4, <1>5, <1>6, <1>7

LEMMA FreshIdFree ==
  ASSUME Shape, NEW t \in Tokens, rows[t] = NoRow
  PROVE  /\ FreshId(t) \in Ids
         /\ \A p \in Jobs \cup Finders : tx[p].token = t => tx[p].loaded.id # FreshId(t)
         /\ \A j \in Jobs : <<t, FreshId(t)>> \notin job[j].held
<1> DEFINE free(i) == /\ i # rows[t].id
                      /\ \A p \in Jobs \cup Finders : tx[p].token = t => tx[p].loaded.id # i
                      /\ \A j \in Jobs : <<t, i>> \notin job[j].held
<1>1. \E i \in Ids : free(i)
  BY KeyLeft
<1>2. FreshId(t) = CHOOSE i \in Ids : free(i)
  BY DEF FreshId
<1>3. FreshId(t) \in Ids /\ free(FreshId(t))
  <2> HIDE DEF free
  <2> QED BY <1>1, <1>2
<1> QED BY <1>3

-----------------------------------------------------------------------------
(* What a commit that succeeds makes of the row.                           *)
NewRow(t, e) == [id |-> FreshId(t), tier |-> e.tier, source |-> e.source,
                 symbol |-> e.symbol, lifi |-> e.lifi]

Inserted(p) ==
  /\ tx[p].loaded = NoRow /\ rows[tx[p].token] = NoRow
  /\ rows' = [rows EXCEPT ![tx[p].token] = NewRow(tx[p].token, tx[p].entry)]

Updated(p) ==
  /\ tx[p].loaded # NoRow /\ rows[tx[p].token].id = tx[p].loaded.id
  /\ rows' = [rows EXCEPT ![tx[p].token] =
                Flushed(@, tx[p].loaded, Assigned(tx[p].loaded, tx[p].entry))]

LEMMA CommitJob ==
  ASSUME NEW j \in Jobs, CommitEntry(j)
  PROVE  /\ job[j].pc = "commit"
         /\ tx' = [tx EXCEPT ![j] = NoTx]
         /\ \/ (Inserted(j) \/ Updated(j)) /\ job' = [job EXCEPT ![j].pc = "rows"]
            \/ rows' = rows /\ job' = [job EXCEPT ![j].pc = "failed"]
         /\ UNCHANGED <<runs, seeded, finder>>
BY DEF CommitEntry, Commit, Inserted, Updated, NewRow

LEMMA CommitFinder ==
  ASSUME NEW f \in Finders, CommitDiscovered(f)
  PROVE  /\ finder[f].pc = "commit"
         /\ tx' = [tx EXCEPT ![f] = NoTx]
         /\ Inserted(f) \/ Updated(f) \/ rows' = rows
         /\ finder' = [finder EXCEPT ![f] = NoAsk]
         /\ UNCHANGED <<runs, seeded, job>>
BY DEF CommitDiscovered, Commit, Inserted, Updated, NewRow, Answers

LEMMA NewRowType ==
  ASSUME Shape, NEW t \in Tokens, NEW e \in Entry, rows[t] = NoRow
  PROVE  NewRow(t, e) \in Row
<1>1. /\ FreshId(t) \in Ids /\ e.tier \in Tiers /\ e.source \in Sources
      /\ e.symbol \in Symbols /\ e.lifi \in BOOLEAN
  BY FreshIdFree DEF Entry
<1> QED BY <1>1 DEF NewRow, Row

LEMMA AssignedType ==
  ASSUME NEW r \in Row, NEW e \in Entry
  PROVE  /\ Assigned(r, e) \in Row
         /\ Assigned(r, e).id = r.id
         /\ Assigned(r, e).symbol = e.symbol
         /\ Assigned(r, e).lifi = (e.lifi \/ r.lifi)
         /\ Assigned(r, e).tier = IF r.tier # "curated" \/ e.tier = "curated"
                                  THEN e.tier ELSE r.tier
         /\ Assigned(r, e).source = IF r.tier # "curated" \/ e.tier = "curated"
                                    THEN e.source ELSE r.source
<1>1. /\ e.tier \in Tiers /\ e.source \in Sources /\ e.lifi \in BOOLEAN /\ e.token \in Tokens
      /\ r.tier \in Tiers /\ r.source \in Sources /\ r.lifi \in BOOLEAN /\ r.id \in Ids
      /\ r = [id |-> r.id, tier |-> r.tier, source |-> r.source, symbol |-> r.symbol,
              lifi |-> r.lifi]
  BY DEF Entry, Row
<1>2. e.symbol \in Symbols
  BY DEF Entry
<1>3. Assigned(r, e) =
        [id |-> r.id,
         tier |-> IF r.tier # "curated" \/ e.tier = "curated" THEN e.tier ELSE r.tier,
         source |-> IF r.tier # "curated" \/ e.tier = "curated" THEN e.source ELSE r.source,
         symbol |-> e.symbol,
         lifi |-> e.lifi \/ r.lifi]
  <2> DEFINE l == e.lifi \/ r.lifi
             b == r.tier # "curated" \/ e.tier = "curated"
             y == e.symbol
             t == IF b THEN e.tier ELSE r.tier
             o == IF b THEN e.source ELSE r.source
  <2>1. Assigned(r, e) = [r EXCEPT !.symbol = y, !.lifi = l, !.tier = t, !.source = o]
    BY <1>1 DEF Assigned
  <2> HIDE DEF l, y, t, o
  <2>2. Assigned(r, e) = [id |-> r.id, tier |-> t, source |-> o, symbol |-> y, lifi |-> l]
    BY <1>1, <2>1
  <2> QED BY <2>2 DEF l, y, t, o
<1>4. (e.lifi \/ r.lifi) \in BOOLEAN
  OBVIOUS
<1> QED BY <1>1, <1>2, <1>3, <1>4 DEF Row

(* Two rows that differ in the symbol at most.                             *)
Alike(r, q) == r.id = q.id /\ r.tier = q.tier /\ r.source = q.source /\ r.lifi = q.lifi

LEMMA FlushedType ==
  ASSUME NEW now \in Row, NEW loaded \in Row, NEW new \in Row
  PROVE  /\ Flushed(now, loaded, new) \in Row
         /\ now = loaded => Flushed(now, loaded, new) = new
         /\ Alike(now, loaded) => Alike(Flushed(now, loaded, new), new)
<1>1. DOMAIN now = {"id", "tier", "source", "symbol", "lifi"}
  BY DEF Row
<1>2. Flushed(now, loaded, new) =
        [c \in {"id", "tier", "source", "symbol", "lifi"} |->
           IF new[c] = loaded[c] THEN now[c] ELSE new[c]]
  BY <1>1 DEF Flushed
<1>3. Flushed(now, loaded, new) \in Row /\ (now = loaded => Flushed(now, loaded, new) = new)
  BY <1>1 DEF Row, Flushed
<1>4. ASSUME NEW c \in {"id", "tier", "source", "lifi"}, now[c] = loaded[c]
      PROVE  Flushed(now, loaded, new)[c] = new[c]
  BY <1>2, <1>4
<1>5. ASSUME Alike(now, loaded) PROVE Alike(Flushed(now, loaded, new), new)
  BY <1>4, <1>5 DEF Alike
<1> QED BY <1>3, <1>5

(* A commit keeps the table well-formed.                                   *)
LEMMA WrittenType ==
  ASSUME Shape, NEW p \in Processes, tx[p] # NoTx, Inserted(p) \/ Updated(p)
  PROVE  rows' \in [Tokens -> Row \cup {NoRow}]
<1>1. /\ tx[p].token \in Tokens /\ tx[p].entry \in Entry
      /\ tx[p].loaded \in Row \cup {NoRow}
      /\ rows[tx[p].token] \in Row \cup {NoRow}
  BY DEF Shape, Txs
<1>2. CASE Inserted(p)
  BY <1>1, <1>2, NewRowType DEF Inserted, Shape
<1>3. CASE Updated(p)
  <2>1. tx[p].loaded \in Row /\ rows[tx[p].token] \in Row
    BY <1>1, <1>3, NoRowIsNone DEF Updated, NoRow
  <2>2. Flushed(rows[tx[p].token], tx[p].loaded, Assigned(tx[p].loaded, tx[p].entry)) \in Row
    BY <1>1, <2>1, AssignedType, FlushedType
  <2> QED BY <1>1, <1>3, <2>2 DEF Updated, Shape
<1> QED BY <1>2, <1>3

-----------------------------------------------------------------------------
LEMMA InitShape == Init => Shape
<1> SUFFICES ASSUME Init PROVE Shape
  OBVIOUS
<1>1. NoJob \in JobRecords /\ NoAsk \in AskRecords
  BY ConstantsAssumption DEF NoJob, NoAsk, JobRecords, AskRecords
<1>2. /\ rows \in [Tokens -> Row \cup {NoRow}] /\ runs \in 0 .. MaxRuns /\ seeded \in BOOLEAN
      /\ job \in [Jobs -> JobRecords] /\ finder \in [Finders -> AskRecords]
      /\ tx \in [Processes -> Txs \cup {NoTx}]
  <2>1. runs \in 0 .. MaxRuns /\ seeded \in BOOLEAN
    <3>1. MaxRuns \in Nat
      BY ConstantsAssumption
    <3>2. runs = 0
      BY DEF Init
    <3>3. seeded \in BOOLEAN
      BY DEF Init
    <3> QED BY <3>1, <3>2, <3>3
  <2>2. rows \in [Tokens -> Row \cup {NoRow}] /\ tx \in [Processes -> Txs \cup {NoTx}]
    BY DEF Init, Processes
  <2>3. job \in [Jobs -> JobRecords] /\ finder \in [Finders -> AskRecords]
    BY <1>1 DEF Init
  <2> QED BY <2>1, <2>2, <2>3
<1>3. \A p \in Processes : tx[p] = NoTx
  BY DEF Init, Processes
<1>4. \A j \in Jobs : job[j].pc = "idle" /\ job[j].held = {}
  BY DEF Init, NoJob
<1>5. \A f \in Finders : finder[f].pc = "idle"
  BY DEF Init, NoAsk
<1> QED BY <1>2, <1>3, <1>4, <1>5 DEF Shape, Processes

(* A job moves; the table stays a table.                                   *)
LEMMA JobMoves ==
  ASSUME Shape, NEW j \in Jobs, NEW q \in JobRecords, NEW x \in Txs \cup {NoTx},
         job' = [job EXCEPT ![j] = q], tx' = [tx EXCEPT ![j] = x],
         x # NoTx => x.entry.token = x.token,
         x # NoTx <=> q.pc = "commit",
         q.held # {} => q.pc = "tailcommit",
         \A g, h \in q.held : g[1] = h[1] => g[2] = h[2],
         rows' \in [Tokens -> Row \cup {NoRow}],
         runs' \in 0 .. MaxRuns, seeded' \in BOOLEAN, finder' = finder
  PROVE  Shape'
<1>1. /\ job' \in [Jobs -> JobRecords] /\ tx' \in [Processes -> Txs \cup {NoTx}]
      /\ job'[j] = q /\ tx'[j] = x
      /\ \A i \in Jobs \ {j} : job'[i] = job[i]
      /\ \A p \in Processes \ {j} : tx'[p] = tx[p]
  BY DEF Shape, Processes
<1>2. j \notin Finders
  BY ConstantsAssumption
<1>3. \A p \in Processes : tx'[p] # NoTx => tx'[p] \in Txs /\ tx'[p].entry.token = tx'[p].token
  BY <1>1 DEF Shape
<1>4. \A i \in Jobs : /\ tx'[i] # NoTx <=> job'[i].pc = "commit"
                      /\ job'[i].held # {} => job'[i].pc = "tailcommit"
                      /\ \A g, h \in job'[i].held : g[1] = h[1] => g[2] = h[2]
  <2> SUFFICES ASSUME NEW i \in Jobs
               PROVE  /\ tx'[i] # NoTx <=> job'[i].pc = "commit"
                      /\ job'[i].held # {} => job'[i].pc = "tailcommit"
                      /\ \A g, h \in job'[i].held : g[1] = h[1] => g[2] = h[2]
    OBVIOUS
  <2>1. CASE i = j
    BY <1>1, <2>1
  <2>2. CASE i # j
    BY <1>1, <2>2 DEF Shape, Processes
  <2> QED BY <2>1, <2>2
<1>5. \A f \in Finders : /\ tx'[f] # NoTx <=> finder'[f].pc = "commit"
                         /\ finder'[f].pc # "idle" => finder'[f].token \in Tokens
  BY <1>1, <1>2 DEF Shape, Processes
<1> QED BY <1>1, <1>3, <1>4, <1>5 DEF Shape

(* A request moves; the table stays a table.                               *)
LEMMA FinderMoves ==
  ASSUME Shape, NEW f \in Finders, NEW q \in AskRecords, NEW x \in Txs \cup {NoTx},
         finder' = [finder EXCEPT ![f] = q], tx' = [tx EXCEPT ![f] = x],
         x # NoTx => x.entry.token = x.token,
         x # NoTx <=> q.pc = "commit",
         q.pc # "idle" => q.token \in Tokens,
         rows' \in [Tokens -> Row \cup {NoRow}],
         UNCHANGED <<runs, seeded, job>>
  PROVE  Shape'
<1>1. /\ finder' \in [Finders -> AskRecords] /\ tx' \in [Processes -> Txs \cup {NoTx}]
      /\ finder'[f] = q /\ tx'[f] = x
      /\ \A g \in Finders \ {f} : finder'[g] = finder[g]
      /\ \A p \in Processes \ {f} : tx'[p] = tx[p]
  BY DEF Shape, Processes
<1>2. f \notin Jobs
  BY ConstantsAssumption
<1>3. \A p \in Processes : tx'[p] # NoTx => tx'[p] \in Txs /\ tx'[p].entry.token = tx'[p].token
  BY <1>1 DEF Shape
<1>4. \A i \in Jobs : /\ tx'[i] # NoTx <=> job'[i].pc = "commit"
                      /\ job'[i].held # {} => job'[i].pc = "tailcommit"
                      /\ \A g, h \in job'[i].held : g[1] = h[1] => g[2] = h[2]
  BY <1>1, <1>2 DEF Shape, Processes
<1>5. \A g \in Finders : /\ tx'[g] # NoTx <=> finder'[g].pc = "commit"
                         /\ finder'[g].pc # "idle" => finder'[g].token \in Tokens
  BY <1>1 DEF Shape, Processes
<1> QED BY <1>1, <1>3, <1>4, <1>5 DEF Shape

LEMMA SelectTx ==
  ASSUME Shape, NEW p, NEW e \in Entry, Select(p, e)
  PROVE  \E x \in Txs : /\ tx' = [tx EXCEPT ![p] = x]
                        /\ x = [token |-> e.token, entry |-> e, loaded |-> rows[e.token]]
                        /\ x.entry.token = x.token /\ x # NoTx
<1> DEFINE x == [token |-> e.token, entry |-> e, loaded |-> rows[e.token]]
<1>1. e.token \in Tokens
  BY DEF Entry
<1>2. rows[e.token] \in Row \cup {NoRow}
  BY <1>1 DEF Shape
<1>3. x \in Txs
  BY <1>1, <1>2 DEF Txs
<1>4. x # NoTx
  BY <1>1, ConstantsAssumption DEF NoTx
<1>5. tx' = [tx EXCEPT ![p] = x] /\ x.entry.token = x.token
  BY DEF Select
<1> QED BY <1>3, <1>4, <1>5

(* What a job is to write are entries, and a curated one is a bundled one. *)
LEMMA EntriesType ==
  /\ SeedEntries \subseteq Entry /\ BundledEntries \subseteq Entry
  /\ \A got \in SUBSET Tokens : CatalogEntries(got) \subseteq Entry
  /\ \A file \in SUBSET Tokens : \A c : ImportEntries(file, c) \subseteq Entry
  /\ \A top \in SUBSET Tokens : MarketEntries(top) \subseteq Entry
<1>1. SeedEntries \subseteq Entry
  <2> SUFFICES ASSUME NEW t \in Tokens, SeedTier[t] # "none"
               PROVE  EntryOf(t, SeedTier[t],
                              IF SeedTier[t] = "curated" THEN "bundled" ELSE "market_cap",
                              FALSE) \in Entry
    BY DEF SeedEntries
  <2>1. SeedTier[t] \in Tiers
    BY ConstantsAssumption DEF Tiers, Allowlist
  <2>2. SymbolAt[t]["bundled"] \in Symbols /\ SymbolAt[t]["market_cap"] \in Symbols
    BY ConstantsAssumption DEF Sources
  <2> QED BY <2>1, <2>2 DEF Entry, EntryOf, Sources
<1>2. Bundled \subseteq Tokens
  BY ConstantsAssumption
<1>3. ASSUME NEW t \in Tokens, NEW tier \in Tiers, NEW source \in Sources, NEW l \in BOOLEAN
      PROVE  EntryOf(t, tier, source, l) \in Entry
  BY ConstantsAssumption DEF EntryOf, Entry
<1>4. "curated" \in Tiers /\ "indexed" \in Tiers /\ "bundled" \in Sources
      /\ "lifi_catalog" \in Sources /\ "market_cap" \in Sources
  BY DEF Tiers, Allowlist, Sources
<1>5. BundledEntries \subseteq Entry
  BY <1>2, <1>3, <1>4 DEF BundledEntries
<1>6. \A got \in SUBSET Tokens : CatalogEntries(got) \subseteq Entry
  BY <1>3, <1>4 DEF CatalogEntries
<1>7. \A file \in SUBSET Tokens : \A c : ImportEntries(file, c) \subseteq Entry
  BY <1>3, <1>4 DEF ImportEntries
<1>8. \A top \in SUBSET Tokens : MarketEntries(top) \subseteq Entry
  BY <1>3, <1>4 DEF MarketEntries
<1> QED BY <1>1, <1>5, <1>6, <1>7, <1>8

LEMMA StartShape ==
  ASSUME Shape, NEW j \in Jobs,
         NEW kind \in {"seed", "catalog", "support", "import", "allowlist"},
         NEW pc \in {"rows", "tail"}, NEW todo \in SUBSET Entry,
         NEW later \in SUBSET Entry, NEW snap \in SUBSET Tokens,
         NEW chains \in SUBSET Chains, Start(j, kind, pc, todo, later, snap, chains)
  PROVE  Shape'
<1> DEFINE q == [kind |-> kind, pc |-> pc, todo |-> todo, later |-> later, snap |-> snap,
                 chains |-> chains, held |-> {}]
<1>1. q \in JobRecords /\ q.pc = pc /\ q.held = {}
  BY DEF JobRecords
<1>2. tx[j] = NoTx
  BY DEF Start, Shape, Processes
<1>3. job' = [job EXCEPT ![j] = q]
  BY DEF Start
<1>4. tx' = [tx EXCEPT ![j] = NoTx]
  BY <1>2 DEF Start, Shape
<1>5. runs' \in 0 .. MaxRuns
  <2>1. MaxRuns \in Nat
    BY ConstantsAssumption
  <2> QED BY <2>1 DEF Start, Shape
<1>6. /\ rows' \in [Tokens -> Row \cup {NoRow}] /\ seeded' \in BOOLEAN
      /\ finder' = finder
  BY DEF Start, Shape
<1> HIDE DEF q
<1> QED BY <1>1, <1>3, <1>4, <1>5, <1>6, JobMoves

LEMMA StartsShape ==
  ASSUME Shape, NEW j \in Jobs,
         \/ StartSeed(j) \/ StartCatalog(j) \/ StartSupport(j) \/ StartImport(j)
         \/ StartAllowlist(j)
  PROVE  Shape'
<1>1. CASE StartSeed(j)
  BY <1>1, StartShape, EntriesType DEF StartSeed
<1>2. CASE StartCatalog(j)
  <2>1. PICK got \in CatalogAnswers \ {{}} :
          Start(j, "catalog", "rows", CatalogEntries(got), {}, got, Chains)
    BY <1>2 DEF StartCatalog
  <2>2. got \in SUBSET Tokens
    BY DEF CatalogAnswers
  <2> QED BY <2>1, <2>2, StartShape, EntriesType
<1>3. CASE StartSupport(j)
  BY <1>3, StartShape DEF StartSupport, SupportAnswers
<1>4. CASE StartImport(j)
  BY <1>4, StartShape, EntriesType DEF StartImport, SupportAnswers
<1>5. CASE StartAllowlist(j)
  BY <1>5, StartShape, EntriesType DEF StartAllowlist, SupportAnswers
<1> QED BY <1>1, <1>2, <1>3, <1>4, <1>5

LEMMA SelectEntryShape ==
  ASSUME Shape, NEW j \in Jobs, SelectEntry(j)
  PROVE  Shape'
<1>1. /\ job[j] \in JobRecords /\ job[j].pc = "rows" /\ job[j].held = {} /\ tx[j] = NoTx
  BY DEF SelectEntry, Shape, Processes
<1>2. PICK e \in job[j].todo :
        /\ job' = [job EXCEPT ![j].todo = @ \ {e},
                              ![j].pc = IF Guarded(rows[e.token], e) THEN "rows" ELSE "commit"]
        /\ IF Guarded(rows[e.token], e) THEN UNCHANGED tx ELSE Select(j, e)
  BY DEF SelectEntry
<1>3. e \in Entry /\ job[j].todo \subseteq Entry
  BY <1>1 DEF JobRecords
<1> DEFINE q == [job[j] EXCEPT !.todo = @ \ {e},
                               !.pc = IF Guarded(rows[e.token], e) THEN "rows" ELSE "commit"]
<1>4. q \in JobRecords /\ q.held = {}
      /\ q.pc = IF Guarded(rows[e.token], e) THEN "rows" ELSE "commit"
  BY <1>1, <1>3 DEF JobRecords
<1>5. job' = [job EXCEPT ![j] = q]
  BY <1>2 DEF Shape
<1>6. /\ rows' \in [Tokens -> Row \cup {NoRow}] /\ runs' \in 0 .. MaxRuns
      /\ seeded' \in BOOLEAN /\ finder' = finder
  BY DEF SelectEntry, Shape
<1> HIDE DEF q
<1>7. CASE Guarded(rows[e.token], e)
  <2>1. tx' = [tx EXCEPT ![j] = NoTx]
    BY <1>1, <1>2, <1>7 DEF Shape
  <2> QED BY <1>4, <1>5, <1>6, <1>7, <2>1, JobMoves
<1>8. CASE ~Guarded(rows[e.token], e)
  <2>1. PICK x \in Txs : tx' = [tx EXCEPT ![j] = x] /\ x.entry.token = x.token /\ x # NoTx
    BY <1>2, <1>3, <1>8, SelectTx
  <2> QED BY <1>4, <1>5, <1>6, <1>8, <2>1, JobMoves
<1> QED BY <1>7, <1>8

LEMMA CommitEntryShape ==
  ASSUME Shape, NEW j \in Jobs, CommitEntry(j)
  PROVE  Shape'
<1>1. /\ job[j] \in JobRecords /\ job[j].pc = "commit" /\ job[j].held = {} /\ tx[j] # NoTx
  BY CommitJob DEF Shape, Processes
<1>2. rows' \in [Tokens -> Row \cup {NoRow}]
  BY <1>1, CommitJob, WrittenType DEF Shape, Processes
<1>3. PICK pc \in {"rows", "failed"} : job' = [job EXCEPT ![j].pc = pc]
  BY CommitJob
<1> DEFINE q == [job[j] EXCEPT !.pc = pc]
<1>4. q \in JobRecords /\ q.held = {} /\ q.pc = pc
  BY <1>1 DEF JobRecords
<1>5. job' = [job EXCEPT ![j] = q]
  BY <1>3 DEF Shape
<1>6. /\ tx' = [tx EXCEPT ![j] = NoTx] /\ runs' \in 0 .. MaxRuns
      /\ seeded' \in BOOLEAN /\ finder' = finder
  BY CommitJob DEF Shape
<1> HIDE DEF q
<1> QED BY <1>2, <1>4, <1>5, <1>6, JobMoves

LEMMA ListDoneShape ==
  ASSUME Shape, NEW j \in Jobs, ListDone(j)
  PROVE  Shape'
<1>1. job[j] \in JobRecords /\ job[j].pc = "rows" /\ job[j].held = {} /\ tx[j] = NoTx
  BY DEF ListDone, Shape, Processes
<1>2. PICK pc \in {"rows", "done", "tail"} :
        job' = [job EXCEPT ![j].todo = job[j].later, ![j].later = {}, ![j].pc = pc]
  BY DEF ListDone
<1> DEFINE q == [job[j] EXCEPT !.todo = job[j].later, !.later = {}, !.pc = pc]
<1>3. q \in JobRecords /\ q.held = {} /\ q.pc = pc
  BY <1>1 DEF JobRecords
<1>4. job' = [job EXCEPT ![j] = q]
  BY <1>2 DEF Shape
<1>5. /\ tx' = [tx EXCEPT ![j] = NoTx]
      /\ rows' \in [Tokens -> Row \cup {NoRow}] /\ runs' \in 0 .. MaxRuns /\ finder' = finder
  BY <1>1 DEF ListDone, Shape
<1>6. seeded' \in BOOLEAN
  BY DEF ListDone
<1> HIDE DEF q
<1> QED BY <1>3, <1>4, <1>5, <1>6, JobMoves

LEMMA TailSelectShape ==
  ASSUME Shape, NEW j \in Jobs, TailSelect(j)
  PROVE  Shape'
<1>1. job[j] \in JobRecords /\ job[j].pc = "tail" /\ tx[j] = NoTx
  BY DEF TailSelect, Shape, Processes
<1> DEFINE hit == IF job[j].kind = "catalog" THEN Doomed(j) ELSE Misflagged(j)
           held == {<<t, rows[t].id>> : t \in hit}
           pc == IF hit = {} THEN "done" ELSE "tailcommit"
           q == [job[j] EXCEPT !.held = held, !.pc = pc]
<1>2. hit \subseteq Tokens /\ \A t \in hit : rows[t] \in Row
  BY DEF Doomed, Misflagged, Allowed, Shape
<1>3. held \subseteq Tokens \X Ids /\ (held # {} => pc = "tailcommit")
      /\ \A g, h \in held : g[1] = h[1] => g[2] = h[2]
  BY <1>2, NoRowIsNone
<1>4. job' = [job EXCEPT ![j].held = held, ![j].pc = pc]
  BY DEF TailSelect
<1>5. job' = [job EXCEPT ![j] = q]
  BY <1>4 DEF Shape
<1>6. pc \in {"done", "tailcommit"}
  OBVIOUS
<1> HIDE DEF hit, held, pc
<1>7. q \in JobRecords /\ q.held = held /\ q.pc = pc
  BY <1>1, <1>3, <1>6 DEF JobRecords
<1>8. /\ tx' = [tx EXCEPT ![j] = NoTx]
      /\ rows' \in [Tokens -> Row \cup {NoRow}] /\ runs' \in 0 .. MaxRuns
      /\ seeded' \in BOOLEAN /\ finder' = finder
  BY <1>1 DEF TailSelect, Shape
<1> HIDE DEF q
<1> QED BY <1>3, <1>5, <1>6, <1>7, <1>8, JobMoves

(* The end of a job, well or not, with the rows it leaves.                 *)
LEMMA EndShape ==
  ASSUME Shape, NEW j \in Jobs, NEW pc \in {"done", "failed"},
         job' = [job EXCEPT ![j].pc = pc, ![j].held = {}],
         tx' = [tx EXCEPT ![j] = NoTx],
         rows' \in [Tokens -> Row \cup {NoRow}], UNCHANGED <<runs, seeded, finder>>
  PROVE  Shape'
<1> DEFINE q == [job[j] EXCEPT !.pc = pc, !.held = {}]
<1>1. q \in JobRecords /\ q.held = {} /\ q.pc = pc
  <2>1. job[j] \in JobRecords
    BY DEF Shape
  <2> QED BY <2>1 DEF JobRecords
<1>2. job' = [job EXCEPT ![j] = q]
  BY DEF Shape
<1>3. runs' \in 0 .. MaxRuns /\ seeded' \in BOOLEAN /\ finder' = finder
  BY DEF Shape
<1> HIDE DEF q
<1> QED BY <1>1, <1>2, <1>3, JobMoves

LEMMA TailCommitTx ==
  ASSUME Shape, NEW j \in Jobs, job[j].pc = "tailcommit", tx' = tx
  PROVE  tx' = [tx EXCEPT ![j] = NoTx]
BY DEF Shape, Processes

LEMMA FlagType ==
  ASSUME NEW r \in Row, NEW b \in BOOLEAN
  PROVE  /\ [r EXCEPT !.lifi = b] \in Row
         /\ [r EXCEPT !.lifi = b].id = r.id
         /\ [r EXCEPT !.lifi = b].tier = r.tier
         /\ [r EXCEPT !.lifi = b].source = r.source
         /\ [r EXCEPT !.lifi = b].symbol = r.symbol
         /\ [r EXCEPT !.lifi = b].lifi = b
BY DEF Row

LEMMA HeldRow ==
  ASSUME Shape, NEW j \in Jobs, NEW t \in Tokens, Held(j, t)
  PROVE  rows[t] \in Row
<1>1. rows[t].id \in Ids
  BY DEF Held, Shape, JobRecords
<1>2. rows[t] # NoRow
  BY <1>1, FS_CardinalityType, ConstantsAssumption DEF Ids, NoRow
<1> QED BY <1>2 DEF Shape

LEMMA TailCommitShape ==
  ASSUME Shape, NEW j \in Jobs, PruneCommit(j) \/ FlagsCommit(j)
  PROVE  Shape'
<1>1. tx' = [tx EXCEPT ![j] = NoTx]
  BY TailCommitTx DEF PruneCommit, FlagsCommit
<1>2. rows' \in [Tokens -> Row \cup {NoRow}]
  <2>1. CASE PruneCommit(j)
    BY <2>1 DEF PruneCommit, Shape
  <2>2. CASE FlagsCommit(j) /\ \A h \in job[j].held : rows[h[1]].id = h[2]
    <3>1. rows' = [t \in Tokens |-> IF Held(j, t)
                     THEN [rows[t] EXCEPT !.lifi = t \in job[j].snap] ELSE rows[t]]
      BY <2>2 DEF FlagsCommit
    <3>2. \A t \in Tokens : Held(j, t)
             => [rows[t] EXCEPT !.lifi = t \in job[j].snap] \in Row
      <4> SUFFICES ASSUME NEW t \in Tokens, Held(j, t)
                   PROVE  [rows[t] EXCEPT !.lifi = t \in job[j].snap] \in Row
        OBVIOUS
      <4> DEFINE b == t \in job[j].snap
      <4>1. b \in BOOLEAN
        OBVIOUS
      <4>2. [rows[t] EXCEPT !.lifi = b] \in Row
        <5> HIDE DEF b
        <5> QED BY <4>1, HeldRow, FlagType
      <4> QED BY <4>2
    <3> QED BY <3>1, <3>2 DEF Shape
  <2>3. CASE FlagsCommit(j) /\ ~\A h \in job[j].held : rows[h[1]].id = h[2]
    BY <2>3 DEF FlagsCommit, Shape
  <2> QED BY <2>1, <2>2, <2>3
<1>3. \E pc \in {"done", "failed"} : job' = [job EXCEPT ![j].pc = pc, ![j].held = {}]
  BY DEF PruneCommit, FlagsCommit
<1>4. UNCHANGED <<runs, seeded, finder>>
  BY DEF PruneCommit, FlagsCommit
<1> QED BY <1>1, <1>2, <1>3, <1>4, EndShape

LEMMA JobDiesShape ==
  ASSUME Shape, NEW j \in Jobs, JobDies(j)
  PROVE  Shape'
BY EndShape DEF JobDies, Shape

(* What a request asks a session to write.                                 *)
Discovery(f) == [EntryOf(finder[f].token, "discovered", "on_demand", FALSE)
                   EXCEPT !.symbol = finder[f].symbol]

LEMMA DiscoveryEntry ==
  ASSUME Shape, NEW f \in Finders, finder[f].token \in Tokens
  PROVE  /\ Discovery(f) \in Entry
         /\ Discovery(f).token = finder[f].token /\ Discovery(f).tier = "discovered"
         /\ Discovery(f).source = "on_demand" /\ Discovery(f).lifi = FALSE
<1>1. finder[f].symbol \in Symbols
  BY DEF Shape, AskRecords
<1>2. Discovery(f) = [token |-> finder[f].token, tier |-> "discovered",
                      source |-> "on_demand", symbol |-> finder[f].symbol, lifi |-> FALSE]
  <2> DEFINE d == [token |-> finder[f].token, tier |-> "discovered", source |-> "on_demand",
                   symbol |-> SymbolAt[finder[f].token]["on_demand"], lifi |-> FALSE]
  <2>1. Discovery(f) = [d EXCEPT !.symbol = finder[f].symbol]
    BY DEF Discovery, EntryOf
  <2> QED BY <2>1
<1>3. "discovered" \in Tiers /\ "on_demand" \in Sources
  BY DEF Tiers, Sources
<1> QED BY <1>1, <1>2, <1>3 DEF Entry

LEMMA FinderShape ==
  ASSUME Shape, NEW f \in Finders, Ask(f) \/ FinderStep(f)
  PROVE  Shape'
<1> DEFINE e == Discovery(f)
<1>0. SelectDiscovered(f) =>
        \/ Answers(f) /\ tx' = tx
        \/ Goes(f, "commit") /\ Select(f, e)
  BY DEF SelectDiscovered, Discovery
<1>1. finder[f] \in AskRecords /\ NoAsk \in AskRecords /\ NoAsk.pc = "idle"
  BY ConstantsAssumption DEF Shape, AskRecords, NoAsk
<1>2. ASSUME NEW pc \in {"guard", "select", "commit"}
      PROVE  [finder[f] EXCEPT !.pc = pc] \in AskRecords
             /\ [finder[f] EXCEPT !.pc = pc].pc = pc
             /\ [finder[f] EXCEPT !.pc = pc].token = finder[f].token
  BY <1>1 DEF AskRecords
<1>3. ASSUME NEW pc, Goes(f, pc)
      PROVE  finder' = [finder EXCEPT ![f] = [finder[f] EXCEPT !.pc = pc]]
  BY <1>3 DEF Goes, Shape
<1>4. CASE finder[f].pc # "commit" /\ rows' = rows /\ tx' = tx
           /\ UNCHANGED <<runs, seeded, job>>
           /\ \/ Ask(f) \/ Verify(f) \/ GuardDiscovered(f)
              \/ SelectDiscovered(f) /\ Answers(f)
  <2>1. tx' = [tx EXCEPT ![f] = NoTx]
    BY <1>4 DEF Shape, Processes
  <2>2. rows' \in [Tokens -> Row \cup {NoRow}]
    BY <1>4 DEF Shape
  <2>3. CASE Ask(f)
    <3>1. PICK t \in Tokens : finder' =
            [finder EXCEPT ![f] = [NoAsk EXCEPT !.pc = "verify", !.token = t]]
      BY <2>3 DEF Ask
    <3> DEFINE q == [NoAsk EXCEPT !.pc = "verify", !.token = t]
    <3>2. q \in AskRecords /\ q.pc = "verify" /\ q.token = t
      BY <1>1 DEF AskRecords
    <3>3. finder' = [finder EXCEPT ![f] = q]
      BY <3>1
    <3> HIDE DEF q
    <3> QED BY <1>4, <2>1, <2>2, <3>2, <3>3, FinderMoves
  <2>4. CASE Answers(f)
    BY <1>1, <1>4, <2>1, <2>2, <2>4, FinderMoves DEF Answers
  <2>5. ASSUME NEW pc \in {"guard", "select"}, Goes(f, pc), finder[f].pc # "idle"
        PROVE  Shape'
    <3> DEFINE q == [finder[f] EXCEPT !.pc = pc]
    <3>1. q \in AskRecords /\ q.pc = pc /\ q.token \in Tokens
      BY <1>2, <2>5 DEF Shape
    <3>2. finder' = [finder EXCEPT ![f] = q]
      BY <1>3, <2>5
    <3> HIDE DEF q
    <3> QED BY <1>4, <2>1, <2>2, <3>1, <3>2, FinderMoves
  <2>6. CASE Verify(f)
    <3>1. finder[f].token \in Tokens
      BY <2>6 DEF Verify, Shape
    <3>2. SymbolAt[finder[f].token]["on_demand"] \in Symbols /\ Unknown \in Symbols
      BY <3>1, ConstantsAssumption DEF Sources
    <3>3. CASE ~Answers(f)
      <4>1. PICK y \in Symbols : finder' = [finder EXCEPT ![f].pc = "guard", ![f].symbol = y]
        BY <2>6, <3>2, <3>3 DEF Verify
      <4> DEFINE q == [finder[f] EXCEPT !.pc = "guard", !.symbol = y]
      <4>2. q \in AskRecords /\ q.pc = "guard" /\ q.token = finder[f].token
        BY <1>1 DEF AskRecords
      <4>3. finder' = [finder EXCEPT ![f] = q]
        BY <4>1 DEF Shape
      <4> HIDE DEF q
      <4> QED BY <1>4, <2>1, <2>2, <3>1, <4>2, <4>3, FinderMoves
    <3> QED BY <2>4, <3>3
  <2>7. CASE GuardDiscovered(f)
    BY <2>4, <2>5, <2>7 DEF GuardDiscovered
  <2>8. CASE SelectDiscovered(f) /\ Answers(f)
    BY <2>4, <2>8
  <2> QED BY <1>4, <2>3, <2>6, <2>7, <2>8
<1>5. CASE SelectDiscovered(f) /\ Goes(f, "commit") /\ Select(f, e)
  <2>1. finder[f].token \in Tokens
    BY <1>5 DEF SelectDiscovered, Shape
  <2>2. e \in Entry
    BY <2>1, DiscoveryEntry
  <2> HIDE DEF e
  <2>3. PICK x \in Txs : tx' = [tx EXCEPT ![f] = x] /\ x.entry.token = x.token /\ x # NoTx
    BY <2>2, <1>5, SelectTx
  <2>4. rows' \in [Tokens -> Row \cup {NoRow}] /\ UNCHANGED <<runs, seeded, job>>
    BY <1>5 DEF SelectDiscovered, Shape
  <2> DEFINE q == [finder[f] EXCEPT !.pc = "commit"]
  <2>5. q \in AskRecords /\ q.pc = "commit" /\ q.token \in Tokens
    BY <1>2, <2>1
  <2>6. finder' = [finder EXCEPT ![f] = q]
    BY <1>3, <1>5
  <2> HIDE DEF q
  <2> QED BY <2>3, <2>4, <2>5, <2>6, FinderMoves
<1>6. CASE CommitDiscovered(f)
  <2>1. tx[f] # NoTx
    BY <1>6, CommitFinder DEF Shape
  <2>2. rows' \in [Tokens -> Row \cup {NoRow}]
    BY <1>6, <2>1, CommitFinder, WrittenType DEF Shape, Processes
  <2> QED BY <1>1, <1>6, <2>2, CommitFinder, FinderMoves
<1>7. CASE Ask(f)
  BY <1>4, <1>7 DEF Ask
<1>8. CASE Verify(f)
  BY <1>4, <1>8 DEF Verify
<1>9. CASE GuardDiscovered(f)
  BY <1>4, <1>9 DEF GuardDiscovered
<1>10. CASE SelectDiscovered(f)
  BY <1>0, <1>4, <1>5, <1>10 DEF SelectDiscovered
<1> QED BY <1>6, <1>7, <1>8, <1>9, <1>10 DEF FinderStep

LEMMA NextShape == Shape /\ [Next]_vars => Shape'
<1> SUFFICES ASSUME Shape, [Next]_vars PROVE Shape'
  OBVIOUS
<1>1. ASSUME NEW j \in Jobs, \/ StartSeed(j) \/ StartCatalog(j) \/ StartSupport(j)
                             \/ StartImport(j) \/ StartAllowlist(j)
      PROVE  Shape'
  BY <1>1, StartsShape
<1>2. ASSUME NEW j \in Jobs, JobStep(j) PROVE Shape'
  BY <1>2, SelectEntryShape, CommitEntryShape, ListDoneShape, TailSelectShape, TailCommitShape
     DEF JobStep
<1>3. ASSUME NEW j \in Jobs, JobDies(j) PROVE Shape'
  BY <1>3, JobDiesShape
<1>4. ASSUME NEW f \in Finders, Ask(f) \/ FinderStep(f) PROVE Shape'
  BY <1>4, FinderShape
<1>5. CASE UNCHANGED vars
  BY <1>5 DEF vars, Shape
<1> QED BY <1>1, <1>2, <1>3, <1>4, <1>5 DEF Next

LEMMA InvariantShape == Spec => []Shape
BY InitShape, NextShape, PTL DEF Spec

(* Only a discovery adds to the history, and only the contract it writes.  *)
LEMMA OvertakenStep ==
  ASSUME Shape, [Next]_vars
  PROVE  \/ overtaken' \subseteq overtaken
         \/ \E f \in Finders : /\ CommitDiscovered(f) /\ tx[f].token \in Tokens
                             /\ overtaken' = overtaken \cup {tx[f].token}
<1>1. ASSUME NEW f \in Finders, CommitDiscovered(f) PROVE tx[f].token \in Tokens
  BY <1>1, CommitFinder DEF Shape, Txs, Processes
<1>2. ASSUME NEW f \in Finders, CommitDiscovered(f)
      PROVE  overtaken' = overtaken \/ overtaken' = overtaken \cup {tx[f].token}
  BY <1>2 DEF CommitDiscovered
<1>3. ASSUME NEW f \in Finders, Ask(f) \/ Verify(f) \/ GuardDiscovered(f) \/ SelectDiscovered(f)
      PROVE  overtaken' = overtaken
  BY <1>3 DEF Ask, Verify, GuardDiscovered, SelectDiscovered
<1>4. ASSUME NEW j \in Jobs, JobStep(j) PROVE overtaken' \subseteq overtaken
  BY <1>4 DEF JobStep, SelectEntry, CommitEntry, ListDone, TailSelect, PruneCommit, FlagsCommit
<1>5. ASSUME NEW j \in Jobs, \/ StartSeed(j) \/ StartCatalog(j) \/ StartSupport(j)
                             \/ StartImport(j) \/ StartAllowlist(j) \/ JobDies(j)
      PROVE  overtaken' = overtaken
  BY <1>5 DEF StartSeed, StartCatalog, StartSupport, StartImport, StartAllowlist, Start, JobDies
<1>6. CASE UNCHANGED vars
  BY <1>6 DEF vars
<1> QED BY <1>1, <1>2, <1>3, <1>4, <1>5, <1>6 DEF Next, FinderStep

LEMMA InvariantType == Spec => [](Shape /\ overtaken \subseteq Tokens)
<1>1. Init => Shape /\ overtaken \subseteq Tokens
  BY InitShape DEF Init
<1>2. Shape /\ overtaken \subseteq Tokens /\ [Next]_vars
        => (Shape /\ overtaken \subseteq Tokens)'
  BY NextShape, OvertakenStep
<1> QED BY <1>1, <1>2, PTL DEF Spec

(* The table, the sessions and the jobs are well-formed, for any number of *)
(* jobs and requests; in particular an insert always finds a primary key   *)
(* that no process still holds for its contract.                           *)
THEOREM TypeCorrect == Spec => []TypeOK
BY InvariantType, ShapeType, PTL

-----------------------------------------------------------------------------
(* One job at a time. Discoveries are alike but for their symbols, and     *)
(* curated rows are the bundled ones.                                      *)
RowSound(t, r) ==
  /\ r.tier = "discovered" => r.source = "on_demand" /\ r.lifi = FALSE
  /\ r.tier = "curated" => t \in Curated

EntrySound(e) ==
  /\ e.tier \in Allowlist
  /\ e.tier = "curated" =>
       e.token \in Curated /\ e.source = "bundled" /\ e.symbol = SymbolAt[e.token]["bundled"]

(* A contract is as LI.FI's answer wants it, or its entry is to come.      *)
Taken(t) == Allowed(t) /\ (rows[t].tier = "indexed" => rows[t].lifi = TRUE)
Pends(j, e) ==
  \/ job[j].pc \in {"rows", "commit"} /\ e \in job[j].todo \cup job[j].later
  \/ job[j].pc = "commit" /\ tx[j].entry = e
CatalogEntry(t) == EntryOf(t, "indexed", "lifi_catalog", TRUE)
CuratedEntry(t) == EntryOf(t, "curated", "bundled", FALSE)
IsCurated(t) == rows[t] # NoRow /\ rows[t].tier = "curated"
Hits(j) == IF job[j].kind = "catalog" THEN Doomed(j) ELSE Misflagged(j)

TodoSound(j) == \A e \in job[j].todo \cup job[j].later : EntrySound(e)

(* Nobody else writes the row a job has loaded, or those it is to prune or *)
(* flag, but for its symbol: a discovery only inserts, or renames.         *)
LoadedSound(j) ==
  job[j].pc = "commit" =>
    /\ EntrySound(tx[j].entry) /\ ~Guarded(tx[j].loaded, tx[j].entry)
    /\ tx[j].loaded # NoRow =>
         rows[tx[j].token] # NoRow /\ Alike(rows[tx[j].token], tx[j].loaded)
HeldSound(j) ==
  /\ \A h \in job[j].held : h[1] \in Hits(j) /\ rows[h[1]].id = h[2]
  /\ job[j].pc = "tailcommit" => \A t \in Hits(j) : <<t, rows[t].id>> \in job[j].held

(* How far the syncs and the seed are.                                     *)
CatalogSound(j) ==
  job[j].kind = "catalog" =>
    /\ job[j].chains = Chains
    /\ job[j].pc # "failed" => \A t \in job[j].snap : Taken(t) \/ Pends(j, CatalogEntry(t))
    /\ job[j].pc = "done" => CatalogReplaced(j)
FlagsSound(j) ==
  job[j].kind \in {"support", "import"} /\ job[j].pc = "done" => FlagsFollowLiFi(j)
SeedSound(j) ==
  job[j].kind = "seed" /\ job[j].pc \in {"rows", "commit"} =>
    \A t \in Curated : IsCurated(t) \/ Pends(j, CuratedEntry(t))

JobSound(j) ==
  /\ TodoSound(j) /\ LoadedSound(j) /\ HeldSound(j)
  /\ CatalogSound(j) /\ FlagsSound(j) /\ SeedSound(j)
  /\ job[j].pc # "idle" => Connected

FinderSound(f) ==
  tx[f] # NoTx => /\ tx[f].entry.tier = "discovered" /\ tx[f].entry.source = "on_demand"
                  /\ tx[f].entry.lifi = FALSE
                  /\ tx[f].loaded # NoRow =>
                       /\ tx[f].loaded.tier = "discovered"
                       /\ RowSound(tx[f].token, tx[f].loaded)

Sound ==
  /\ Shape
  /\ \A t \in Tokens : rows[t] # NoRow => RowSound(t, rows[t])
  /\ \A j \in Jobs : JobSound(j)
  /\ \A f \in Finders : FinderSound(f)
  /\ seeded => Connected /\ \A t \in Curated : IsCurated(t)

OneJob == \A i, j \in Jobs : i = j

LEMMA InitSound == Init => Sound
<1> SUFFICES ASSUME Init PROVE Sound
  OBVIOUS
<1>1. Shape
  BY InitShape
<1>2. ASSUME NEW j \in Jobs PROVE JobSound(j)
  <2>1. job[j] = NoJob
    BY DEF Init
  <2> QED
    BY <2>1 DEF JobSound, TodoSound, LoadedSound, HeldSound, CatalogSound, FlagsSound,
                SeedSound, NoJob
<1>3. ASSUME NEW f \in Finders PROVE FinderSound(f)
  BY DEF Init, FinderSound
<1>4. \A t \in Tokens : rows[t] = NoRow
  BY DEF Init
<1>5. seeded = FALSE
  BY DEF Init
<1> QED BY <1>1, <1>2, <1>3, <1>4, <1>5 DEF Sound

(* A job's step: it is the only job, and requests keep what they hold.     *)
LEMMA JobFrame ==
  ASSUME OneJob, Sound, Shape', NEW j \in Jobs, JobSound(j)',
         \A t \in Tokens : rows'[t] # NoRow => RowSound(t, rows'[t]),
         \A f \in Finders : tx'[f] = tx[f],
         seeded' => Connected /\ \A t \in Curated : IsCurated(t)'
  PROVE  Sound'
<1>1. \A i \in Jobs : JobSound(i)'
  BY DEF OneJob
<1>2. \A f \in Finders : FinderSound(f)'
  BY DEF Sound, FinderSound
<1> QED BY <1>1, <1>2 DEF Sound

(* A request's step: the table has at most gained discoveries, and a row a *)
(* new symbol.                                                             *)
Renamed(t) == rows[t] # NoRow /\ rows'[t] \in Row /\ Alike(rows'[t], rows[t])
Grows ==
  \A t \in Tokens :
    \/ rows'[t] = rows[t]
    \/ Renamed(t)
    \/ /\ rows[t] = NoRow
       /\ rows'[t] \in Row /\ rows'[t].tier = "discovered" /\ RowSound(t, rows'[t])

LEMMA GrowsKeeps ==
  ASSUME Grows, NEW t \in Tokens
  PROVE  /\ rows[t] # NoRow => rows'[t] # NoRow /\ Alike(rows'[t], rows[t])
         /\ Allowed(t)' <=> Allowed(t)
         /\ IsCurated(t)' <=> IsCurated(t)
         /\ Taken(t)' <=> Taken(t)
         /\ rows'[t] # NoRow /\ rows'[t].tier # "discovered" =>
              rows[t] # NoRow /\ Alike(rows'[t], rows[t])
<1>1. CASE rows'[t] = rows[t]
  BY <1>1 DEF Alike, Allowed, IsCurated, Taken
<1>2. CASE Renamed(t)
  BY <1>2, NoRowIsNone DEF Renamed, Alike, Allowed, IsCurated, Taken
<1>3. CASE /\ rows[t] = NoRow
           /\ rows'[t] \in Row /\ rows'[t].tier = "discovered" /\ RowSound(t, rows'[t])
  BY <1>3, NoRowIsNone DEF Allowed, IsCurated, Taken, Allowlist
<1> QED BY <1>1, <1>2, <1>3 DEF Grows

LEMMA GrowsHits ==
  ASSUME Grows, job' = job, NEW j \in Jobs
  PROVE  Hits(j)' = Hits(j)
<1>1. \A t \in Tokens : Allowed(t)' <=> Allowed(t)
  BY GrowsKeeps
<1>2. \A t \in Tokens : Allowed(t) => rows'[t].lifi = rows[t].lifi
  BY GrowsKeeps DEF Allowed, Alike
<1>3. Misflagged(j)' = Misflagged(j)
  BY <1>1, <1>2 DEF Misflagged
<1>4. \A t \in Tokens : rows[t] # NoRow =>
        rows'[t] # NoRow /\ rows'[t].tier = rows[t].tier /\ rows'[t].source = rows[t].source
  BY GrowsKeeps DEF Alike
<1>5. \A t \in Tokens : rows'[t] # NoRow /\ rows'[t].tier = "indexed" =>
        rows[t] # NoRow /\ rows'[t].tier = rows[t].tier /\ rows'[t].source = rows[t].source
  BY GrowsKeeps DEF Alike
<1>6. Doomed(j)' = Doomed(j)
  BY <1>4, <1>5 DEF Doomed
<1> QED BY <1>3, <1>6 DEF Hits

LEMMA GrowsJob ==
  ASSUME Sound, Grows, job' = job, NEW j \in Jobs, tx'[j] = tx[j]
  PROVE  JobSound(j)'
<1>1. JobSound(j) /\ job[j] \in JobRecords
  BY DEF Sound, Shape
<1>2. TodoSound(j)'
  BY <1>1 DEF JobSound, TodoSound
<1>3. LoadedSound(j)'
  <2> SUFFICES ASSUME job[j].pc = "commit"
               PROVE  /\ EntrySound(tx[j].entry) /\ ~Guarded(tx[j].loaded, tx[j].entry)
                      /\ tx[j].loaded # NoRow =>
                           rows'[tx[j].token] # NoRow /\ Alike(rows'[tx[j].token], tx[j].loaded)
    BY DEF LoadedSound
  <2>1. tx[j].token \in Tokens
    BY DEF Sound, Shape, Txs, Processes
  <2> QED BY <1>1, <2>1, GrowsKeeps DEF JobSound, LoadedSound, Alike
<1>4. HeldSound(j)'
  <2>1. \A t \in Hits(j) : t \in Tokens /\ rows[t] # NoRow
    BY DEF Hits, Doomed, Misflagged, Allowed
  <2>2. \A t \in Hits(j) : rows'[t].id = rows[t].id
    BY <2>1, GrowsKeeps DEF Alike
  <2> QED BY <1>1, <2>2, GrowsHits DEF JobSound, HeldSound
<1>5. \A t \in Tokens : Taken(t)' <=> Taken(t)
  BY GrowsKeeps
<1>6. \A e : Pends(j, e)' <=> Pends(j, e)
  BY DEF Pends
<1>7. \A t \in Tokens : Allowed(t)' <=> Allowed(t)
  BY GrowsKeeps
<1>8. \A t \in Tokens : Allowed(t) =>
        /\ rows'[t].tier = rows[t].tier /\ rows'[t].source = rows[t].source
        /\ rows'[t].lifi = rows[t].lifi
  BY GrowsKeeps DEF Allowed, Alike
<1>9. CatalogReplaced(j)' <=> CatalogReplaced(j)
  BY <1>7, <1>8 DEF CatalogReplaced
<1>10. FlagsFollowLiFi(j)' <=> FlagsFollowLiFi(j)
  BY <1>7, <1>8 DEF FlagsFollowLiFi
<1>11. CatalogSound(j)'
  BY <1>1, <1>5, <1>6, <1>9 DEF JobSound, CatalogSound, JobRecords
<1>12. FlagsSound(j)'
  BY <1>1, <1>10 DEF JobSound, FlagsSound
<1>13. SeedSound(j)'
  <2>1. \A t \in Curated : t \in Tokens
    BY ConstantsAssumption DEF Curated
  <2>2. \A t \in Curated : IsCurated(t)' <=> IsCurated(t)
    BY <2>1, GrowsKeeps
  <2> QED BY <1>1, <1>6, <2>2 DEF JobSound, SeedSound
<1> QED BY <1>1, <1>2, <1>3, <1>4, <1>11, <1>12, <1>13 DEF JobSound

(* What a request's commit does: an insert if nobody was faster; otherwise *)
(* the row it loaded was a discovery, of which it changes the symbol only. *)
LEMMA DiscoveryGrows ==
  ASSUME Sound, NEW f \in Finders, CommitDiscovered(f)
  PROVE  Grows
<1> DEFINE t == tx[f].token  e == tx[f].entry  loaded == tx[f].loaded
<1>1. tx[f] # NoTx /\ tx[f] \in Txs
  BY CommitFinder DEF Sound, Shape, Processes
<1>2. t \in Tokens /\ e \in Entry /\ loaded \in Row \cup {NoRow} /\ rows[t] \in Row \cup {NoRow}
  BY <1>1 DEF Txs, Sound, Shape
<1>3. /\ e.tier = "discovered" /\ e.source = "on_demand" /\ e.lifi = FALSE
      /\ loaded # NoRow => loaded.tier = "discovered" /\ RowSound(t, loaded)
  BY <1>1 DEF Sound, FinderSound
<1>5. rows \in [Tokens -> Row \cup {NoRow}]
  BY DEF Sound, Shape
<1> HIDE DEF t, e, loaded
<1>6. CASE Inserted(f)
  <2>1. rows[t] = NoRow /\ rows' = [rows EXCEPT ![t] = NewRow(t, e)]
    BY <1>6 DEF Inserted, t, e
  <2>2. NewRow(t, e) \in Row
    BY <1>2, <2>1, NewRowType DEF Sound
  <2>3. NewRow(t, e).tier = "discovered" /\ RowSound(t, NewRow(t, e))
    BY <1>3 DEF NewRow, RowSound
  <2>4. rows'[t] = NewRow(t, e) /\ \A u \in Tokens \ {t} : rows'[u] = rows[u]
    BY <1>2, <1>5, <2>1
  <2> QED BY <2>1, <2>2, <2>3, <2>4 DEF Grows
<1>7. CASE Updated(f)
  <2>1. /\ loaded # NoRow /\ rows[t].id = loaded.id
        /\ rows' = [rows EXCEPT ![t] = Flushed(rows[t], loaded, Assigned(loaded, e))]
    BY <1>7 DEF Updated, t, e, loaded
  <2>2. loaded \in Row /\ rows[t] \in Row
    BY <1>2, <2>1, NoRowIsNone DEF NoRow
  <2> DEFINE new == Assigned(loaded, e)
             flushed == Flushed(rows[t], loaded, new)
  <2>3. new \in Row /\ new.id = loaded.id /\ new.tier = loaded.tier /\ new.source = loaded.source
    <3>1. loaded.tier = "discovered" /\ loaded.source = "on_demand"
      BY <1>3, <2>1 DEF RowSound
    <3>2. /\ new \in Row /\ new.id = loaded.id
          /\ new.tier = IF loaded.tier # "curated" \/ e.tier = "curated" THEN e.tier
                        ELSE loaded.tier
          /\ new.source = IF loaded.tier # "curated" \/ e.tier = "curated" THEN e.source
                          ELSE loaded.source
      BY <1>2, <2>2, AssignedType
    <3> HIDE DEF new
    <3> QED BY <1>3, <3>1, <3>2
  <2>4. new.lifi = loaded.lifi
    <3>1. new.lifi = (e.lifi \/ loaded.lifi)
      BY <1>2, <2>2, AssignedType
    <3>2. loaded.lifi = FALSE
      BY <1>3, <2>1 DEF RowSound
    <3> HIDE DEF new
    <3> QED BY <1>3, <3>1, <3>2
  <2> HIDE DEF new
  <2>5. flushed \in Row /\ Alike(flushed, rows[t])
    <3>1. flushed \in Row /\ DOMAIN rows[t] = {"id", "tier", "source", "symbol", "lifi"}
      BY <2>2, <2>3, FlushedType DEF Row
    <3>2. \A c \in {"id", "tier", "source", "lifi"} : new[c] = loaded[c]
      BY <2>3, <2>4
    <3>3. \A c \in {"id", "tier", "source", "lifi"} : flushed[c] = rows[t][c]
      BY <3>1, <3>2 DEF Flushed
    <3> HIDE DEF flushed
    <3> QED BY <3>1, <3>3 DEF Alike
  <2>6. rows'[t] = flushed /\ \A u \in Tokens \ {t} : rows'[u] = rows[u]
    BY <1>2, <1>5, <2>1 DEF new
  <2> HIDE DEF flushed
  <2>7. Renamed(t)
    BY <2>2, <2>5, <2>6, NoRowIsNone DEF Renamed
  <2> QED BY <2>6, <2>7 DEF Grows
<1>8. CASE rows' = rows
  BY <1>8 DEF Grows
<1> QED BY <1>6, <1>7, <1>8, CommitFinder

LEMMA FinderKeepsSound ==
  ASSUME Sound, Shape', NEW f \in Finders, Ask(f) \/ FinderStep(f)
  PROVE  Sound'
<1> DEFINE e == Discovery(f)
<1>1. Grows /\ job' = job /\ seeded' = seeded
  <2>1. CASE CommitDiscovered(f)
    BY <2>1, DiscoveryGrows, CommitFinder
  <2>2. CASE Ask(f) \/ Verify(f) \/ GuardDiscovered(f) \/ SelectDiscovered(f)
    BY <2>2 DEF Grows, Ask, Verify, GuardDiscovered, SelectDiscovered
  <2> QED BY <2>1, <2>2 DEF FinderStep
<1>2. \/ tx' = tx
      \/ tx' = [tx EXCEPT ![f] = NoTx]
      \/ finder[f].pc = "select" /\ ~Guarded(rows[e.token], e) /\ Select(f, e)
  <2>1. CASE CommitDiscovered(f)
    BY <2>1, CommitFinder
  <2>2. CASE SelectDiscovered(f)
    BY <2>2 DEF SelectDiscovered, Discovery
  <2>3. CASE Ask(f) \/ Verify(f) \/ GuardDiscovered(f)
    BY <2>3 DEF Ask, Verify, GuardDiscovered
  <2> QED BY <2>1, <2>2, <2>3 DEF FinderStep
<1>3. \A p \in Processes \ {f} : tx'[p] = tx[p]
  BY <1>2 DEF Select, Sound, Shape
<1>4. \A j \in Jobs : JobSound(j)'
  <2>1. f \notin Jobs
    BY ConstantsAssumption
  <2> QED BY <1>1, <1>3, <2>1, GrowsJob DEF Processes
<1>5. \A t \in Tokens : rows'[t] # NoRow => RowSound(t, rows'[t])
  <2> SUFFICES ASSUME NEW t \in Tokens, rows'[t] # NoRow PROVE RowSound(t, rows'[t])
    OBVIOUS
  <2>1. CASE Renamed(t)
    BY <2>1 DEF Renamed, Alike, RowSound, Sound
  <2> QED BY <1>1, <2>1 DEF Grows, Sound
<1>6. FinderSound(f)'
  <2>1. CASE tx' = tx
    BY <2>1 DEF Sound, FinderSound
  <2>2. CASE tx' = [tx EXCEPT ![f] = NoTx]
    BY <2>2 DEF FinderSound, Sound, Shape, Processes
  <2>3. CASE finder[f].pc = "select" /\ ~Guarded(rows[e.token], e) /\ Select(f, e)
    <3>1. finder[f].token \in Tokens
      BY <2>3 DEF Sound, Shape
    <3>2. /\ e \in Entry /\ e.token = finder[f].token /\ e.tier = "discovered"
          /\ e.source = "on_demand" /\ e.lifi = FALSE
      BY <3>1, DiscoveryEntry DEF Sound
    <3> HIDE DEF e
    <3>3. tx'[f] = [token |-> e.token, entry |-> e, loaded |-> rows[e.token]]
      BY <2>3 DEF Select, Sound, Shape, Processes
    <3>4. rows[e.token] # NoRow => rows[e.token].tier = "discovered"
      <4> SUFFICES ASSUME rows[e.token] # NoRow PROVE rows[e.token].tier = "discovered"
        OBVIOUS
      <4>1. rows[e.token] \in Row
        BY <3>1, <3>2 DEF Sound, Shape
      <4>2. rows[e.token].tier \in Tiers
        BY <4>1 DEF Row
      <4>3. rows[e.token].tier \notin Allowlist
        BY <2>3, <3>2 DEF Guarded
      <4> QED BY <4>2, <4>3 DEF Tiers
    <3>5. rows[e.token] # NoRow => RowSound(e.token, rows[e.token])
      BY <3>1, <3>2 DEF Sound
    <3>6. tx'[f].token = e.token /\ tx'[f].entry = e /\ tx'[f].loaded = rows[e.token]
      BY <3>3
    <3> QED BY <3>2, <3>4, <3>5, <3>6 DEF FinderSound
  <2> QED BY <1>2, <2>1, <2>2, <2>3
<1>7. \A g \in Finders : FinderSound(g)'
  BY <1>3, <1>6 DEF Sound, FinderSound, Processes
<1>8. seeded' => Connected /\ \A t \in Curated : IsCurated(t)'
  <2>1. \A t \in Curated : t \in Tokens
    BY ConstantsAssumption DEF Curated
  <2> QED BY <1>1, <2>1, GrowsKeeps DEF Sound
<1> QED BY <1>4, <1>5, <1>7, <1>8 DEF Sound

(* What a job's commit does: the row is still the one it has loaded, but   *)
(* for its symbol, so it takes tier and source of the entry and keeps or   *)
(* gains the flag; undisturbed, it takes the symbol too.                   *)
Written(j, new) ==
  /\ rows' = [rows EXCEPT ![tx[j].token] = new]
  /\ new.tier = tx[j].entry.tier /\ new.source = tx[j].entry.source
  /\ rows[tx[j].token] = tx[j].loaded => new.symbol = tx[j].entry.symbol
  /\ tx[j].entry.lifi = TRUE => new.lifi = TRUE
  /\ rows[tx[j].token] # NoRow =>
       /\ rows[tx[j].token].tier # "curated" \/ tx[j].entry.tier = "curated"
       /\ rows[tx[j].token].lifi = TRUE => new.lifi = TRUE

LEMMA JobWrites ==
  ASSUME Sound, NEW j \in Jobs, job[j].pc = "commit", Inserted(j) \/ Updated(j)
  PROVE  \E new \in Row : Written(j, new)
<1> DEFINE t == tx[j].token  e == tx[j].entry  loaded == tx[j].loaded
<1>1. tx[j] # NoTx /\ tx[j] \in Txs /\ e.token = t
  BY DEF Sound, Shape, Processes
<1>2. t \in Tokens /\ e \in Entry /\ loaded \in Row \cup {NoRow} /\ rows[t] \in Row \cup {NoRow}
  BY <1>1 DEF Txs, Sound, Shape
<1>3. ~Guarded(loaded, e) /\ (loaded # NoRow => rows[t] # NoRow /\ Alike(rows[t], loaded))
  BY DEF Sound, JobSound, LoadedSound
<1> HIDE DEF t, e, loaded
<1>4. CASE Inserted(j)
  <2>1. rows[t] = NoRow /\ rows' = [rows EXCEPT ![t] = NewRow(t, e)]
    BY <1>4 DEF Inserted, t, e
  <2>2. NewRow(t, e) \in Row
    BY <1>2, <2>1, NewRowType DEF Sound
  <2>3. /\ NewRow(t, e).tier = e.tier /\ NewRow(t, e).source = e.source
        /\ NewRow(t, e).symbol = e.symbol /\ NewRow(t, e).lifi = e.lifi
    BY DEF NewRow
  <2> QED BY <2>1, <2>2, <2>3 DEF Written, t, e
<1>5. CASE Updated(j)
  <2>1. /\ loaded # NoRow
        /\ rows' = [rows EXCEPT ![t] = Flushed(rows[t], loaded, Assigned(loaded, e))]
    BY <1>5 DEF Updated, t, e, loaded
  <2>2. loaded \in Row /\ rows[t] \in Row /\ Alike(rows[t], loaded)
    BY <1>2, <1>3, <2>1
  <2>3. loaded.tier # "curated" \/ e.tier = "curated"
    BY <1>3, <2>1 DEF Guarded
  <2> DEFINE assigned == Assigned(loaded, e)
             new == Flushed(rows[t], loaded, assigned)
  <2>4. /\ assigned \in Row /\ assigned.symbol = e.symbol
        /\ assigned.tier = IF loaded.tier # "curated" \/ e.tier = "curated" THEN e.tier
                           ELSE loaded.tier
        /\ assigned.source = IF loaded.tier # "curated" \/ e.tier = "curated" THEN e.source
                             ELSE loaded.source
    BY <1>2, <2>2, AssignedType
  <2>5. assigned.lifi = (e.lifi \/ loaded.lifi)
    BY <1>2, <2>2, AssignedType
  <2> HIDE DEF assigned
  <2>6. (e.lifi = TRUE => assigned.lifi = TRUE) /\ (loaded.lifi = TRUE => assigned.lifi = TRUE)
    BY <2>5
  <2>7. /\ new \in Row /\ Alike(new, assigned)
        /\ rows[t] = loaded => new = assigned
    BY <2>2, <2>4, FlushedType
  <2>8. rows' = [rows EXCEPT ![t] = new]
    BY <2>1 DEF assigned
  <2> HIDE DEF new
  <2>9. new.tier = e.tier /\ new.source = e.source
    BY <2>3, <2>4, <2>7 DEF Alike
  <2>10. (e.lifi = TRUE => new.lifi = TRUE) /\ (rows[t].lifi = TRUE => new.lifi = TRUE)
    BY <2>2, <2>6, <2>7 DEF Alike
  <2>11. rows[t] = loaded => new.symbol = e.symbol
    BY <2>4, <2>7
  <2>12. rows[t].tier # "curated" \/ e.tier = "curated"
    BY <2>2, <2>3 DEF Alike
  <2> QED BY <2>7, <2>8, <2>9, <2>10, <2>11, <2>12 DEF Written, t, e, loaded
<1> QED BY <1>4, <1>5

(* Writing a sound entry takes nothing back that was reached before.       *)
LEMMA WriteKeeps ==
  ASSUME Sound, NEW j \in Jobs, job[j].pc = "commit", NEW new \in Row, Written(j, new)
  PROVE  /\ \A t \in Tokens : rows'[t] # NoRow => RowSound(t, rows'[t])
         /\ \A t \in Tokens : Taken(t) \/ tx[j].entry = CatalogEntry(t) => Taken(t)'
         /\ \A t \in Curated : IsCurated(t) \/ tx[j].entry = CuratedEntry(t) => IsCurated(t)'
<1> DEFINE t == tx[j].token  e == tx[j].entry
<1>1. t \in Tokens /\ e \in Entry /\ e.token = t
  BY DEF Sound, Shape, Processes, Txs
<1>2. EntrySound(e)
  BY DEF Sound, JobSound, LoadedSound
<1>3. /\ rows \in [Tokens -> Row \cup {NoRow}]
      /\ rows' = [rows EXCEPT ![t] = new]
  BY DEF Written, Sound, Shape
<1>4. rows'[t] = new /\ new # NoRow /\ \A u \in Tokens \ {t} : rows'[u] = rows[u]
  BY <1>1, <1>3, NoRowIsNone
<1>5. /\ new.tier = e.tier /\ new.source = e.source
      /\ e.lifi = TRUE => new.lifi = TRUE
      /\ rows[t] # NoRow => /\ rows[t].tier # "curated" \/ e.tier = "curated"
                            /\ rows[t].lifi = TRUE => new.lifi = TRUE
  BY DEF Written
<1> HIDE DEF t, e
<1>6. RowSound(t, new)
  BY <1>1, <1>2, <1>5 DEF RowSound, EntrySound, Allowlist
<1>7. \A u \in Tokens : rows'[u] # NoRow => RowSound(u, rows'[u])
  BY <1>4, <1>6 DEF Sound
<1>8. ASSUME NEW u \in Tokens, Taken(u) \/ e = CatalogEntry(u) PROVE Taken(u)'
  <2>1. CASE u # t
    <3>1. e # CatalogEntry(u)
      BY <1>1, <2>1 DEF CatalogEntry, EntryOf
    <3> QED BY <1>4, <1>8, <2>1, <3>1 DEF Taken, Allowed
  <2>2. CASE u = t
    <3>1. new.tier \in Allowlist
      BY <1>2, <1>5 DEF EntrySound
    <3>2. new.tier = "indexed" => new.lifi = TRUE
      <4>1. CASE e = CatalogEntry(u)
        BY <1>5, <4>1 DEF CatalogEntry, EntryOf
      <4>2. CASE Taken(t)
        BY <1>5, <4>2 DEF Taken, Allowed, Allowlist
      <4> QED BY <1>8, <2>2, <4>1, <4>2
    <3> QED BY <1>4, <2>2, <3>1, <3>2 DEF Taken, Allowed
  <2> QED BY <2>1, <2>2
<1>9. ASSUME NEW u \in Curated, IsCurated(u) \/ e = CuratedEntry(u) PROVE IsCurated(u)'
  <2>1. u \in Tokens
    BY ConstantsAssumption DEF Curated
  <2>2. CASE u # t
    <3>1. e # CuratedEntry(u)
      BY <1>1, <2>2 DEF CuratedEntry, EntryOf
    <3> QED BY <1>4, <1>9, <2>1, <2>2, <3>1 DEF IsCurated
  <2>3. CASE u = t
    <3>1. new.tier = "curated"
      BY <1>5, <1>9, <2>3 DEF IsCurated, CuratedEntry, EntryOf
    <3> QED BY <1>4, <2>3, <3>1 DEF IsCurated
  <2> QED BY <2>2, <2>3
<1> QED BY <1>7, <1>8, <1>9 DEF e

LEMMA CommitKeepsSound ==
  ASSUME OneJob, Sound, Shape', NEW j \in Jobs, CommitEntry(j)
  PROVE  Sound'
<1>1. /\ JobSound(j) /\ job[j] \in JobRecords /\ job[j].pc = "commit" /\ job[j].held = {}
      /\ job \in [Jobs -> JobRecords] /\ tx \in [Processes -> Txs \cup {NoTx}]
  BY CommitJob DEF Sound, Shape
<1>2. \A f \in Finders : tx'[f] = tx[f]
  BY <1>1, CommitJob, ConstantsAssumption DEF Processes
<1>3. seeded' = seeded
  BY CommitJob
<1>4. CASE (Inserted(j) \/ Updated(j)) /\ job' = [job EXCEPT ![j].pc = "rows"]
  <2>1. PICK new \in Row : Written(j, new)
    BY <1>1, <1>4, JobWrites
  <2>2. /\ \A t \in Tokens : rows'[t] # NoRow => RowSound(t, rows'[t])
        /\ \A t \in Tokens : Taken(t) \/ tx[j].entry = CatalogEntry(t) => Taken(t)'
        /\ \A t \in Curated : IsCurated(t) \/ tx[j].entry = CuratedEntry(t) => IsCurated(t)'
    BY <1>1, <2>1, WriteKeeps
  <2>3. /\ job'[j].pc = "rows" /\ job'[j].todo = job[j].todo /\ job'[j].later = job[j].later
        /\ job'[j].held = {} /\ job'[j].kind = job[j].kind /\ job'[j].snap = job[j].snap
        /\ job'[j].chains = job[j].chains
    BY <1>1, <1>4 DEF JobRecords
  <2>4. \A e : Pends(j, e) => Pends(j, e)' \/ tx[j].entry = e
    BY <1>1, <2>3 DEF Pends
  <2>5. TodoSound(j)' /\ LoadedSound(j)' /\ HeldSound(j)' /\ FlagsSound(j)'
    BY <1>1, <2>3 DEF JobSound, TodoSound, LoadedSound, HeldSound, FlagsSound
  <2>6. CatalogSound(j)'
    BY <1>1, <2>2, <2>3, <2>4 DEF JobSound, CatalogSound, JobRecords
  <2>7. SeedSound(j)'
    BY <1>1, <2>2, <2>3, <2>4 DEF JobSound, SeedSound
  <2>8. JobSound(j)'
    BY <1>1, <2>3, <2>5, <2>6, <2>7 DEF JobSound
  <2>9. seeded' => Connected /\ \A t \in Curated : IsCurated(t)'
    BY <1>3, <2>2 DEF Sound
  <2> QED BY <1>2, <2>2, <2>8, <2>9, JobFrame
<1>5. CASE rows' = rows /\ job' = [job EXCEPT ![j].pc = "failed"]
  <2>1. /\ job'[j].pc = "failed" /\ job'[j].todo = job[j].todo /\ job'[j].later = job[j].later
        /\ job'[j].held = {} /\ job'[j].kind = job[j].kind /\ job'[j].chains = job[j].chains
    BY <1>1, <1>5 DEF JobRecords
  <2>2. JobSound(j)'
    BY <1>1, <2>1 DEF JobSound, TodoSound, LoadedSound, HeldSound, CatalogSound, FlagsSound,
                      SeedSound
  <2>3. \A t \in Tokens : rows'[t] # NoRow => RowSound(t, rows'[t])
    BY <1>5 DEF Sound
  <2>4. seeded' => Connected /\ \A t \in Curated : IsCurated(t)'
    BY <1>3, <1>5 DEF Sound, IsCurated
  <2> QED BY <1>2, <2>2, <2>3, <2>4, JobFrame
<1> QED BY <1>4, <1>5, CommitJob

(* A step of the job that leaves the table alone.                          *)
LEMMA QuietJob ==
  ASSUME OneJob, Sound, Shape', NEW j \in Jobs, JobSound(j)', rows' = rows,
         \A p \in Processes \ {j} : tx'[p] = tx[p], seeded' = seeded
  PROVE  Sound'
<1>1. j \notin Finders
  BY ConstantsAssumption
<1>2. \A f \in Finders : tx'[f] = tx[f]
  BY <1>1 DEF Processes
<1>3. \A t \in Tokens : rows'[t] # NoRow => RowSound(t, rows'[t])
  BY DEF Sound
<1>4. seeded' => Connected /\ \A t \in Curated : IsCurated(t)'
  BY DEF Sound, IsCurated
<1> QED BY <1>2, <1>3, <1>4, JobFrame

LEMMA EntriesSound ==
  /\ \A e \in SeedEntries \cup BundledEntries : EntrySound(e)
  /\ \A t \in Curated : CuratedEntry(t) \in SeedEntries \cup BundledEntries
  /\ \A got : \A e \in CatalogEntries(got) : EntrySound(e)
  /\ \A got : \A t \in got : CatalogEntry(t) \in CatalogEntries(got)
  /\ \A file, c : \A e \in ImportEntries(file, c) : EntrySound(e)
  /\ \A top : \A e \in MarketEntries(top) : EntrySound(e)
<1>1. ASSUME NEW e \in SeedEntries PROVE EntrySound(e)
  <2>1. PICK t \in Tokens :
          /\ SeedTier[t] # "none"
          /\ e = EntryOf(t, SeedTier[t],
                         IF SeedTier[t] = "curated" THEN "bundled" ELSE "market_cap", FALSE)
    BY DEF SeedEntries
  <2>2. SeedTier[t] \in Allowlist
    BY <2>1, ConstantsAssumption DEF Allowlist
  <2> QED BY <2>1, <2>2 DEF EntrySound, EntryOf, Curated
<1>2. ASSUME NEW e \in BundledEntries PROVE EntrySound(e)
  BY DEF BundledEntries, EntrySound, EntryOf, Curated, Allowlist
<1>3. ASSUME NEW t \in Curated PROVE CuratedEntry(t) \in SeedEntries \cup BundledEntries
  <2>1. CASE t \in Bundled
    BY <2>1 DEF BundledEntries, CuratedEntry
  <2>2. CASE t \in Tokens /\ SeedTier[t] = "curated"
    BY <2>2 DEF SeedEntries, CuratedEntry
  <2> QED BY <2>1, <2>2 DEF Curated
<1>4. \A got : \A e \in CatalogEntries(got) : EntrySound(e)
  BY DEF CatalogEntries, EntrySound, EntryOf, Allowlist
<1>5. \A got : \A t \in got : CatalogEntry(t) \in CatalogEntries(got)
  BY DEF CatalogEntries, CatalogEntry
<1>6. \A file, c : \A e \in ImportEntries(file, c) : EntrySound(e)
  BY DEF ImportEntries, EntrySound, EntryOf, Allowlist
<1>7. \A top : \A e \in MarketEntries(top) : EntrySound(e)
  BY DEF MarketEntries, EntrySound, EntryOf, Allowlist
<1> QED BY <1>1, <1>2, <1>3, <1>4, <1>5, <1>6, <1>7

LEMMA StartKeeps ==
  ASSUME OneJob, Sound, Shape', NEW j \in Jobs, NEW kind, NEW pc \in {"rows", "tail"},
         NEW todo, NEW later, NEW snap, NEW chains,
         Start(j, kind, pc, todo, later, snap, chains),
         \A e \in todo \cup later : EntrySound(e),
         kind = "catalog" => /\ pc = "rows" /\ chains = Chains
                             /\ \A t \in snap : CatalogEntry(t) \in todo,
         kind = "seed" => \A t \in Curated : CuratedEntry(t) \in todo \cup later
  PROVE  Sound'
<1>1. /\ Connected /\ rows' = rows /\ seeded' = seeded /\ tx' = tx
      /\ job'[j] = [kind |-> kind, pc |-> pc, todo |-> todo, later |-> later, snap |-> snap,
                    chains |-> chains, held |-> {}]
  BY DEF Start, Sound, Shape
<1>2. /\ job'[j].kind = kind /\ job'[j].pc = pc /\ job'[j].todo = todo /\ job'[j].later = later
      /\ job'[j].snap = snap /\ job'[j].chains = chains /\ job'[j].held = {}
  BY <1>1
<1>3. TodoSound(j)' /\ LoadedSound(j)' /\ HeldSound(j)' /\ FlagsSound(j)'
  BY <1>2 DEF TodoSound, LoadedSound, HeldSound, FlagsSound
<1>4. CatalogSound(j)'
  BY <1>2 DEF CatalogSound, Pends
<1>5. SeedSound(j)'
  BY <1>2 DEF SeedSound, Pends
<1>6. JobSound(j)'
  BY <1>1, <1>3, <1>4, <1>5 DEF JobSound
<1> QED BY <1>1, <1>6, QuietJob

LEMMA StartsKeepSound ==
  ASSUME OneJob, Sound, Shape', NEW j \in Jobs,
         \/ StartSeed(j) \/ StartCatalog(j) \/ StartSupport(j) \/ StartImport(j)
         \/ StartAllowlist(j)
  PROVE  Sound'
<1>1. CASE StartSeed(j)
  <2>1. Start(j, "seed", "rows", SeedEntries, BundledEntries, {}, {})
    BY <1>1 DEF StartSeed
  <2>2. /\ \A e \in SeedEntries \cup BundledEntries : EntrySound(e)
        /\ \A t \in Curated : CuratedEntry(t) \in SeedEntries \cup BundledEntries
    BY EntriesSound
  <2> QED BY <2>1, <2>2, StartKeeps
<1>2. CASE StartCatalog(j)
  <2>1. PICK got : Start(j, "catalog", "rows", CatalogEntries(got), {}, got, Chains)
    BY <1>2 DEF StartCatalog
  <2>2. /\ \A e \in CatalogEntries(got) \cup {} : EntrySound(e)
        /\ \A t \in got : CatalogEntry(t) \in CatalogEntries(got)
    BY EntriesSound
  <2> QED BY <2>1, <2>2, StartKeeps
<1>3. CASE StartSupport(j)
  <2>1. PICK got : Start(j, "support", "tail", {}, {}, got, Chains \ {"solana"})
    BY <1>3 DEF StartSupport
  <2>2. \A e \in {} \cup {} : EntrySound(e)
    OBVIOUS
  <2> QED BY <2>1, <2>2, StartKeeps
<1>4. CASE StartImport(j)
  <2>1. PICK c, file : Start(j, "import", "rows", ImportEntries(file, c), {}, file, {c})
    BY <1>4 DEF StartImport
  <2>2. \A e \in ImportEntries(file, c) \cup {} : EntrySound(e)
    BY EntriesSound
  <2> QED BY <2>1, <2>2, StartKeeps
<1>5. CASE StartAllowlist(j)
  <2>1. PICK top : Start(j, "allowlist", "rows", MarketEntries(top), {}, {}, {})
    BY <1>5 DEF StartAllowlist
  <2>2. \A e \in MarketEntries(top) \cup {} : EntrySound(e)
    BY EntriesSound
  <2> QED BY <2>1, <2>2, StartKeeps
<1> QED BY <1>1, <1>2, <1>3, <1>4, <1>5

(* An entry that a guard skips has nothing to add.                         *)
LEMMA SkippedIsTaken ==
  ASSUME NEW e, EntrySound(e), Guarded(rows[e.token], e)
  PROVE  /\ e.tier # "curated"
         /\ rows[e.token] # NoRow /\ rows[e.token].tier = "curated" /\ Taken(e.token)
BY DEF Guarded, EntrySound, Allowlist, Taken, Allowed

LEMMA SelectKeepsSound ==
  ASSUME OneJob, Sound, Shape', NEW j \in Jobs, SelectEntry(j)
  PROVE  Sound'
<1>1. /\ JobSound(j) /\ job[j] \in JobRecords /\ job[j].pc = "rows" /\ job[j].held = {}
      /\ job \in [Jobs -> JobRecords] /\ tx \in [Processes -> Txs \cup {NoTx}] /\ j \in Processes
  BY DEF SelectEntry, Sound, Shape, Processes
<1>2. PICK e \in job[j].todo :
        /\ job' = [job EXCEPT ![j].todo = @ \ {e},
                              ![j].pc = IF Guarded(rows[e.token], e) THEN "rows" ELSE "commit"]
        /\ IF Guarded(rows[e.token], e) THEN UNCHANGED tx ELSE Select(j, e)
  BY DEF SelectEntry
<1>3. /\ job'[j].pc = (IF Guarded(rows[e.token], e) THEN "rows" ELSE "commit")
      /\ job'[j].todo = job[j].todo \ {e} /\ job'[j].later = job[j].later
      /\ job'[j].held = {} /\ job'[j].kind = job[j].kind /\ job'[j].snap = job[j].snap
      /\ job'[j].chains = job[j].chains
  BY <1>1, <1>2 DEF JobRecords
<1>4. EntrySound(e) /\ rows' = rows /\ seeded' = seeded
  BY <1>1, <1>2 DEF SelectEntry, JobSound, TodoSound
<1>5. ~Guarded(rows[e.token], e) =>
        tx'[j] = [token |-> e.token, entry |-> e, loaded |-> rows[e.token]]
  BY <1>1, <1>2 DEF Select
<1>6. \A p \in Processes \ {j} : tx'[p] = tx[p]
  BY <1>1, <1>2 DEF Select
<1>7. TodoSound(j)' /\ HeldSound(j)' /\ FlagsSound(j)'
  BY <1>1, <1>3 DEF JobSound, TodoSound, HeldSound, FlagsSound
<1>8. LoadedSound(j)'
  BY <1>3, <1>4, <1>5 DEF LoadedSound, Alike
<1>9. \A d : Pends(j, d) => Pends(j, d)' \/ (d = e /\ Guarded(rows[e.token], e))
  BY <1>1, <1>3, <1>5 DEF Pends
<1>10. \A t : Taken(t)' <=> Taken(t)
  BY <1>4 DEF Taken, Allowed
<1>11. CatalogSound(j)'
  <2> SUFFICES ASSUME job[j].kind = "catalog", NEW t \in job[j].snap
               PROVE  Taken(t)' \/ Pends(j, CatalogEntry(t))'
    BY <1>1, <1>3 DEF CatalogSound, JobSound
  <2>1. Taken(t) \/ Pends(j, CatalogEntry(t))
    BY <1>1 DEF CatalogSound, JobSound
  <2>2. CASE CatalogEntry(t) = e /\ Guarded(rows[e.token], e)
    <3>1. e.token = t
      BY <2>2 DEF CatalogEntry, EntryOf
    <3> QED BY <1>4, <1>10, <2>2, <3>1, SkippedIsTaken
  <2> QED BY <1>9, <1>10, <2>1, <2>2
<1>12. SeedSound(j)'
  <2> SUFFICES ASSUME job[j].kind = "seed", NEW t \in Curated
               PROVE  IsCurated(t)' \/ Pends(j, CuratedEntry(t))'
    BY <1>3 DEF SeedSound
  <2>1. IsCurated(t) \/ Pends(j, CuratedEntry(t))
    BY <1>1 DEF SeedSound, JobSound
  <2>2. ~(CuratedEntry(t) = e /\ Guarded(rows[e.token], e))
    BY <1>4, SkippedIsTaken DEF CuratedEntry, EntryOf
  <2> QED BY <1>4, <1>9, <2>1, <2>2 DEF IsCurated
<1>13. JobSound(j)'
  BY <1>1, <1>7, <1>8, <1>11, <1>12 DEF JobSound
<1> QED BY <1>4, <1>6, <1>13, QuietJob

LEMMA ListDoneKeepsSound ==
  ASSUME OneJob, Sound, Shape', NEW j \in Jobs, ListDone(j)
  PROVE  Sound'
<1> DEFINE over == job[j].later = {} /\ job[j].kind \in {"seed", "allowlist"}
<1>1. /\ JobSound(j) /\ job[j] \in JobRecords /\ job[j].pc = "rows" /\ job[j].held = {}
      /\ job \in [Jobs -> JobRecords] /\ job[j].todo = {}
  BY DEF ListDone, Sound, Shape
<1>2. /\ job'[j].pc = (IF job[j].later # {} THEN "rows" ELSE IF over THEN "done" ELSE "tail")
      /\ job'[j].todo = job[j].later /\ job'[j].later = {}
      /\ job'[j].held = {} /\ job'[j].kind = job[j].kind /\ job'[j].snap = job[j].snap
      /\ job'[j].chains = job[j].chains
  BY <1>1 DEF ListDone, JobRecords
<1>3. rows' = rows /\ tx' = tx /\ seeded' = (seeded \/ (over /\ job[j].kind = "seed"))
  BY DEF ListDone
<1>4. TodoSound(j)' /\ LoadedSound(j)' /\ HeldSound(j)' /\ FlagsSound(j)'
  BY <1>1, <1>2 DEF JobSound, TodoSound, LoadedSound, HeldSound, FlagsSound
<1>5. \A d : Pends(j, d) => Pends(j, d)'
  BY <1>1, <1>2 DEF Pends
<1>6. \A t : (Taken(t)' <=> Taken(t)) /\ (IsCurated(t)' <=> IsCurated(t))
  BY <1>3 DEF Taken, Allowed, IsCurated
<1>7. CatalogSound(j)'
  BY <1>1, <1>2, <1>5, <1>6 DEF CatalogSound, JobSound
<1>8. SeedSound(j)'
  BY <1>1, <1>2, <1>5, <1>6 DEF SeedSound, JobSound
<1>9. JobSound(j)'
  BY <1>1, <1>4, <1>7, <1>8 DEF JobSound
<1>10. over /\ job[j].kind = "seed" => Connected /\ \A t \in Curated : IsCurated(t)
  BY <1>1 DEF JobSound, SeedSound, Pends
<1>11. seeded' => Connected /\ \A t \in Curated : IsCurated(t)'
  BY <1>3, <1>6, <1>10 DEF Sound
<1>12. \A t \in Tokens : rows'[t] # NoRow => RowSound(t, rows'[t])
  BY <1>3 DEF Sound
<1> QED BY <1>3, <1>9, <1>11, <1>12, JobFrame

LEMMA DiesKeepsSound ==
  ASSUME OneJob, Sound, Shape', NEW j \in Jobs, JobDies(j)
  PROVE  Sound'
<1>1. /\ JobSound(j) /\ job[j] \in JobRecords /\ job \in [Jobs -> JobRecords]
      /\ tx \in [Processes -> Txs \cup {NoTx}]
  BY DEF Sound, Shape
<1>2. /\ job'[j].pc = "failed" /\ job'[j].todo = job[j].todo /\ job'[j].later = job[j].later
      /\ job'[j].held = {} /\ job'[j].kind = job[j].kind /\ job'[j].chains = job[j].chains
  BY <1>1 DEF JobDies, JobRecords
<1>3. rows' = rows /\ seeded' = seeded /\ \A p \in Processes \ {j} : tx'[p] = tx[p]
  BY <1>1 DEF JobDies
<1>4. job[j].pc # "idle"
  BY DEF JobDies
<1>5. JobSound(j)'
  BY <1>1, <1>2, <1>4 DEF JobSound, TodoSound, LoadedSound, HeldSound, CatalogSound,
                          FlagsSound, SeedSound
<1> QED BY <1>3, <1>5, QuietJob

LEMMA TailSelectKeepsSound ==
  ASSUME OneJob, Sound, Shape', NEW j \in Jobs, TailSelect(j)
  PROVE  Sound'
<1>1. /\ JobSound(j) /\ job[j] \in JobRecords /\ job[j].pc = "tail"
      /\ job \in [Jobs -> JobRecords]
  BY DEF TailSelect, Sound, Shape
<1>2. /\ job'[j].pc = (IF Hits(j) = {} THEN "done" ELSE "tailcommit")
      /\ job'[j].held = {<<t, rows[t].id>> : t \in Hits(j)}
      /\ job'[j].todo = job[j].todo /\ job'[j].later = job[j].later
      /\ job'[j].kind = job[j].kind /\ job'[j].snap = job[j].snap
      /\ job'[j].chains = job[j].chains
  BY <1>1 DEF TailSelect, Hits, JobRecords
<1>3. rows' = rows /\ tx' = tx /\ seeded' = seeded
  BY DEF TailSelect
<1>4. Hits(j)' = Hits(j)
  BY <1>2, <1>3 DEF Hits, Doomed, Misflagged, Allowed
<1>5. TodoSound(j)' /\ LoadedSound(j)' /\ SeedSound(j)'
  BY <1>1, <1>2 DEF JobSound, TodoSound, LoadedSound, SeedSound
<1>6. HeldSound(j)'
  BY <1>2, <1>3, <1>4 DEF HeldSound
<1>7. FlagsSound(j)'
  <2> SUFFICES ASSUME job[j].kind \in {"support", "import"}, Hits(j) = {},
                      NEW t \in Tokens, Allowed(t), ChainOf[t] \in job[j].chains
               PROVE  rows[t].lifi <=> t \in job[j].snap
    BY <1>2, <1>3 DEF FlagsSound, FlagsFollowLiFi, Allowed
  <2>1. ~(rows[t].lifi # (t \in job[j].snap))
    BY DEF Hits, Misflagged
  <2>2. rows[t].lifi \in BOOLEAN
    BY DEF Allowed, Sound, Shape, Row
  <2> QED BY <2>1, <2>2
<1>8. CatalogSound(j)'
  <2> SUFFICES ASSUME job[j].kind = "catalog" PROVE CatalogSound(j)'
    BY <1>2 DEF CatalogSound
  <2>1. job[j].chains = Chains /\ \A t \in job[j].snap : Taken(t)
    BY <1>1 DEF JobSound, CatalogSound, Pends
  <2>2. \A t \in job[j].snap : Taken(t)'
    BY <1>3, <2>1 DEF Taken, Allowed
  <2>3. Hits(j) = {} => CatalogReplaced(j)
    BY <2>1, ConstantsAssumption DEF Hits, Doomed, CatalogReplaced, Taken, Allowed
  <2>4. job'[j].pc = "done" => CatalogReplaced(j)'
    BY <1>2, <1>3, <2>3 DEF CatalogReplaced, Allowed
  <2> QED BY <1>2, <2>1, <2>2, <2>4 DEF CatalogSound
<1>9. JobSound(j)'
  BY <1>1, <1>5, <1>6, <1>7, <1>8 DEF JobSound
<1> QED BY <1>3, <1>9, QuietJob

(* The keys a job holds are those of its hits.                             *)
LEMMA HeldAreHits ==
  ASSUME Sound, NEW j \in Jobs, job[j].pc = "tailcommit"
  PROVE  \A t \in Tokens : Held(j, t) <=> t \in Hits(j)
<1>1. HeldSound(j)
  BY DEF Sound, JobSound
<1>2. ASSUME NEW t \in Tokens, t \in Hits(j) PROVE Held(j, t)
  <2>1. <<t, rows[t].id>> \in job[j].held
    BY <1>1, <1>2 DEF HeldSound
  <2> QED BY <2>1 DEF Held
<1> QED BY <1>1, <1>2 DEF HeldSound, Held

LEMMA PruneKeepsSound ==
  ASSUME OneJob, Sound, Shape', NEW j \in Jobs, PruneCommit(j)
  PROVE  Sound'
<1>1. /\ JobSound(j) /\ job[j] \in JobRecords /\ job[j].pc = "tailcommit"
      /\ job[j].kind = "catalog" /\ job \in [Jobs -> JobRecords]
  BY DEF PruneCommit, Sound, Shape
<1>2. /\ job'[j].pc = "done" /\ job'[j].held = {}
      /\ job'[j].todo = job[j].todo /\ job'[j].later = job[j].later
      /\ job'[j].kind = job[j].kind /\ job'[j].snap = job[j].snap
      /\ job'[j].chains = job[j].chains
  BY <1>1 DEF PruneCommit, JobRecords
<1>3. \A t \in Tokens : rows'[t] = IF t \in Doomed(j) THEN NoRow ELSE rows[t]
  BY <1>1, HeldAreHits DEF PruneCommit, Hits
<1>4. \A t \in Tokens : rows'[t] # NoRow => RowSound(t, rows'[t])
  BY <1>3 DEF Sound
<1>5. TodoSound(j)' /\ LoadedSound(j)' /\ HeldSound(j)' /\ FlagsSound(j)' /\ SeedSound(j)'
  BY <1>1, <1>2 DEF JobSound, TodoSound, LoadedSound, HeldSound, FlagsSound, SeedSound
<1>6. job[j].chains = Chains /\ job[j].snap \subseteq Tokens
      /\ \A t \in job[j].snap : Taken(t)
  BY <1>1 DEF JobSound, CatalogSound, Pends, JobRecords
<1>7. \A t \in job[j].snap : rows'[t] = rows[t]
  BY <1>3, <1>6 DEF Doomed
<1>8. \A t \in job[j].snap : Taken(t)'
  BY <1>6, <1>7 DEF Taken, Allowed
<1>9. CatalogReplaced(j)'
  <2>1. ASSUME NEW t \in Tokens, t \notin job[j].snap, Allowed(t)',
               rows'[t].source = "lifi_catalog", rows'[t].tier = "indexed"
        PROVE  FALSE
    <3>1. t \notin Doomed(j) /\ rows'[t] = rows[t]
      BY <1>3, <2>1 DEF Allowed
    <3>2. ChainOf[t] \in Chains
      BY ConstantsAssumption
    <3> QED BY <1>6, <2>1, <3>1, <3>2 DEF Doomed, Allowed
  <2> QED BY <1>2, <1>6, <1>8, <2>1 DEF CatalogReplaced, Taken
<1>10. CatalogSound(j)'
  BY <1>2, <1>6, <1>8, <1>9 DEF CatalogSound
<1>11. JobSound(j)'
  BY <1>1, <1>5, <1>10 DEF JobSound
<1>12. seeded' => Connected /\ \A t \in Curated : IsCurated(t)'
  <2>1. \A t \in Curated : t \in Tokens
    BY ConstantsAssumption DEF Curated
  <2>2. \A t \in Curated : IsCurated(t) => IsCurated(t)'
    BY <1>3, <2>1 DEF IsCurated, Doomed
  <2> QED BY <2>2 DEF PruneCommit, Sound
<1>13. \A f \in Finders : tx'[f] = tx[f]
  BY DEF PruneCommit
<1> QED BY <1>4, <1>11, <1>12, <1>13, JobFrame

LEMMA FlagsKeepSound ==
  ASSUME OneJob, Sound, Shape', NEW j \in Jobs, FlagsCommit(j)
  PROVE  Sound'
<1>1. /\ JobSound(j) /\ job[j] \in JobRecords /\ job[j].pc = "tailcommit"
      /\ job[j].kind # "catalog" /\ job \in [Jobs -> JobRecords]
  BY DEF FlagsCommit, Sound, Shape
<1>2. \A h \in job[j].held : rows[h[1]].id = h[2]
  BY <1>1 DEF JobSound, HeldSound
<1>3. /\ job'[j].pc = "done" /\ job'[j].held = {}
      /\ job'[j].todo = job[j].todo /\ job'[j].later = job[j].later
      /\ job'[j].kind = job[j].kind /\ job'[j].snap = job[j].snap
      /\ job'[j].chains = job[j].chains
  BY <1>1, <1>2 DEF FlagsCommit, JobRecords
<1>4. \A t \in Tokens : rows'[t] = IF t \in Misflagged(j)
                                   THEN [rows[t] EXCEPT !.lifi = t \in job[j].snap]
                                   ELSE rows[t]
  BY <1>1, <1>2, HeldAreHits DEF FlagsCommit, Hits
<1>5. ASSUME NEW t \in Misflagged(j)
      PROVE  /\ rows[t] \in Row /\ t \in Tokens /\ Allowed(t)
             /\ rows'[t] # NoRow /\ rows'[t].tier = rows[t].tier
             /\ rows'[t].symbol = rows[t].symbol /\ rows'[t].source = rows[t].source
             /\ rows'[t].lifi = (t \in job[j].snap)
  <2>1. rows[t] \in Row /\ t \in Tokens /\ Allowed(t)
    BY DEF Misflagged, Allowed, Sound, Shape
  <2> DEFINE b == t \in job[j].snap
  <2>2. b \in BOOLEAN /\ rows'[t] = [rows[t] EXCEPT !.lifi = b]
    BY <1>4, <2>1
  <2>3. rows'[t] \in Row /\ rows'[t].tier = rows[t].tier /\ rows'[t].symbol = rows[t].symbol
        /\ rows'[t].source = rows[t].source /\ rows'[t].lifi = b
    <3> HIDE DEF b
    <3> QED BY <2>1, <2>2, FlagType
  <2> QED BY <2>1, <2>3, NoRowIsNone
<1>6. \A t \in Tokens : rows'[t] # NoRow => RowSound(t, rows'[t])
  <2> SUFFICES ASSUME NEW t \in Tokens, rows'[t] # NoRow PROVE RowSound(t, rows'[t])
    OBVIOUS
  <2>1. CASE t \in Misflagged(j)
    <3>1. RowSound(t, rows[t]) /\ rows[t].tier \in Allowlist
      BY <1>5, <2>1 DEF Sound, Allowed
    <3> QED BY <1>5, <2>1, <3>1 DEF RowSound, Allowlist
  <2>2. CASE t \notin Misflagged(j)
    BY <1>4, <2>2 DEF Sound
  <2> QED BY <2>1, <2>2
<1>7. TodoSound(j)' /\ LoadedSound(j)' /\ HeldSound(j)' /\ CatalogSound(j)' /\ SeedSound(j)'
  BY <1>1, <1>3 DEF JobSound, TodoSound, LoadedSound, HeldSound, CatalogSound, SeedSound
<1>8. FlagsFollowLiFi(j)'
  <2> SUFFICES ASSUME NEW t \in Tokens, Allowed(t)', ChainOf[t] \in job[j].chains
               PROVE  rows'[t].lifi <=> t \in job[j].snap
    BY <1>3 DEF FlagsFollowLiFi
  <2>1. CASE t \in Misflagged(j)
    BY <1>5, <2>1
  <2>2. CASE t \notin Misflagged(j)
    <3>1. rows'[t] = rows[t] /\ Allowed(t)
      BY <1>4, <2>2 DEF Allowed
    <3>2. ~(rows[t].lifi # (t \in job[j].snap))
      BY <2>2, <3>1 DEF Misflagged
    <3>3. rows[t].lifi \in BOOLEAN
      BY <3>1 DEF Allowed, Sound, Shape, Row
    <3> QED BY <3>1, <3>2, <3>3
  <2> QED BY <2>1, <2>2
<1>9. JobSound(j)'
  BY <1>1, <1>7, <1>8 DEF JobSound, FlagsSound
<1>10. seeded' => Connected /\ \A t \in Curated : IsCurated(t)'
  <2>1. \A t \in Curated : t \in Tokens
    BY ConstantsAssumption DEF Curated
  <2>2. \A t \in Curated : IsCurated(t) => IsCurated(t)'
    BY <1>4, <1>5, <2>1 DEF IsCurated
  <2> QED BY <2>2 DEF FlagsCommit, Sound
<1>11. \A f \in Finders : tx'[f] = tx[f]
  BY DEF FlagsCommit
<1> QED BY <1>6, <1>9, <1>10, <1>11, JobFrame

LEMMA NextSound == ASSUME OneJob, Sound, [Next]_vars PROVE Sound'
<1>1. Shape'
  BY NextShape DEF Sound
<1>2. ASSUME NEW j \in Jobs, \/ StartSeed(j) \/ StartCatalog(j) \/ StartSupport(j)
                             \/ StartImport(j) \/ StartAllowlist(j)
      PROVE  Sound'
  BY <1>1, <1>2, StartsKeepSound
<1>3. ASSUME NEW j \in Jobs, JobStep(j) PROVE Sound'
  BY <1>1, <1>3, SelectKeepsSound, CommitKeepsSound, ListDoneKeepsSound,
     TailSelectKeepsSound, PruneKeepsSound, FlagsKeepSound DEF JobStep
<1>4. ASSUME NEW j \in Jobs, JobDies(j) PROVE Sound'
  BY <1>1, <1>4, DiesKeepsSound
<1>5. ASSUME NEW f \in Finders, Ask(f) \/ FinderStep(f) PROVE Sound'
  BY <1>1, <1>5, FinderKeepsSound
<1>6. CASE UNCHANGED vars
  <2>1. \A j \in Jobs : JobSound(j)'
    BY <1>6, GrowsJob DEF vars, Grows, Sound
  <2> QED BY <1>1, <1>6, <2>1 DEF vars, Sound, FinderSound, IsCurated
<1> QED BY <1>2, <1>3, <1>4, <1>5, <1>6 DEF Next

LEMMA InvariantSound == OneJob => (Spec => []Sound)
<1> SUFFICES ASSUME OneJob PROVE Spec => []Sound
  OBVIOUS
<1>1. Sound /\ [Next]_vars => Sound'
  BY NextSound
<1> QED BY <1>1, InitSound, PTL DEF Spec

-----------------------------------------------------------------------------
(* A sync that ended well has taken effect, and its effect lasts until the *)
(* next job starts, whatever the service discovers meanwhile: what LI.FI   *)
(* answered is listed and flagged, and no other row of an earlier catalog  *)
(* is left (sync_lifi_token_catalog, apply_lifi_supported_flags).          *)
THEOREM SyncsEffective == OneJob => (Spec => []SyncsTakeEffect)
<1> SUFFICES ASSUME OneJob PROVE Spec => []SyncsTakeEffect
  OBVIOUS
<1>1. Sound => SyncsTakeEffect
  BY DEF Sound, JobSound, CatalogSound, FlagsSound, SyncsTakeEffect
<1> QED BY <1>1, InvariantSound, PTL

(* A step lowers the trust of a row only by pruning what the catalog owns. *)
LEMMA StepTrust ==
  ASSUME OneJob, Sound, [Next]_vars, NEW t \in Tokens, Rank(rows'[t]) < Rank(rows[t])
  PROVE  rows'[t] = NoRow /\ rows[t].tier = "indexed" /\ rows[t].source = "lifi_catalog"
<1>1. rows[t] \in Row \cup {NoRow}
  BY DEF Sound, Shape
<1>2. \A r \in Row : /\ r # NoRow /\ r.tier \in Tiers
                     /\ Rank(r) = CASE r.tier = "discovered" -> 1 [] r.tier = "indexed" -> 2
                                    [] OTHER -> 3
  BY NoRowIsNone DEF Row, Rank
<1>3. rows[t] \in Row /\ rows'[t] # rows[t]
  <2>1. Rank(NoRow) = 0
    BY DEF Rank
  <2>2. rows'[t] # rows[t]
    <3>1. Rank(rows[t]) \in Nat
      BY <1>1, <1>2, <2>1
    <3> QED BY <3>1
  <2>3. Rank(rows'[t]) \in {0, 1, 2, 3}
    BY DEF Rank
  <2> QED BY <1>1, <2>1, <2>2, <2>3
<1>4. ASSUME NEW j \in Jobs, CommitEntry(j) PROVE FALSE
  <2>1. PICK new \in Row : job[j].pc = "commit" /\ Written(j, new)
    BY <1>3, <1>4, CommitJob, JobWrites
  <2>2. EntrySound(tx[j].entry)
    BY <2>1 DEF Sound, JobSound, LoadedSound
  <2>3. tx[j].token = t /\ rows'[t] = new
    BY <1>3, <2>1 DEF Written, Sound, Shape
  <2>4. /\ new.tier \in Allowlist
        /\ rows[t].tier = "curated" => new.tier = "curated"
    BY <1>2, <1>3, <2>1, <2>2, <2>3 DEF Written, EntrySound
  <2>5. rows[t].tier \in Tiers /\ new.tier \in {"curated", "indexed"}
    BY <1>2, <1>3, <2>4 DEF Allowlist
  <2>6. ~(Rank(new) < Rank(rows[t]))
    BY <1>2, <1>3, <2>4, <2>5 DEF Tiers, Allowlist
  <2> QED BY <2>3, <2>6
<1>5. ASSUME NEW j \in Jobs, FlagsCommit(j) PROVE FALSE
  <2>1. Held(j, t) /\ rows'[t] = [rows[t] EXCEPT !.lifi = t \in job[j].snap]
    BY <1>3, <1>5 DEF FlagsCommit
  <2> DEFINE b == t \in job[j].snap
  <2>2. b \in BOOLEAN /\ rows'[t] = [rows[t] EXCEPT !.lifi = b]
    BY <2>1
  <2>3. rows'[t] \in Row /\ rows'[t].tier = rows[t].tier
    <3> HIDE DEF b
    <3> QED BY <1>3, <2>2, FlagType
  <2>4. Rank(rows'[t]) = Rank(rows[t])
    BY <1>2, <1>3, <2>3
  <2>5. Rank(rows[t]) \in Nat
    BY <1>2, <1>3
  <2> QED BY <2>4, <2>5
<1>6. ASSUME NEW j \in Jobs, PruneCommit(j)
      PROVE  rows'[t] = NoRow /\ rows[t].tier = "indexed" /\ rows[t].source = "lifi_catalog"
  <2>1. rows'[t] = NoRow /\ Held(j, t)
    BY <1>3, <1>6 DEF PruneCommit
  <2>2. t \in Doomed(j)
    BY <1>6, <2>1, HeldAreHits DEF PruneCommit, Hits
  <2> QED BY <2>1, <2>2 DEF Doomed
<1>7. ASSUME NEW f \in Finders, CommitDiscovered(f) PROVE FALSE
  <2>1. Renamed(t)
    BY <1>3, <1>7, DiscoveryGrows, NoRowIsNone DEF Grows
  <2>2. rows'[t] \in Row /\ rows'[t].tier = rows[t].tier
    BY <2>1 DEF Renamed, Alike
  <2>3. Rank(rows'[t]) = Rank(rows[t]) /\ Rank(rows[t]) \in Nat
    BY <1>2, <1>3, <2>2
  <2> QED BY <2>3
<1>8. CASE rows' = rows
  BY <1>3, <1>8
<1>9. ASSUME NEW j \in Jobs, JobStep(j)
      PROVE  rows'[t] = NoRow /\ rows[t].tier = "indexed" /\ rows[t].source = "lifi_catalog"
  BY <1>4, <1>5, <1>6, <1>8, <1>9 DEF JobStep, SelectEntry, ListDone, TailSelect
<1>10. ASSUME NEW f \in Finders, FinderStep(f)
       PROVE  rows' = rows
  BY <1>7, <1>10 DEF FinderStep, Verify, GuardDiscovered, SelectDiscovered
<1>11. ASSUME NEW j \in Jobs, \/ StartSeed(j) \/ StartCatalog(j) \/ StartSupport(j)
                              \/ StartImport(j) \/ StartAllowlist(j) \/ JobDies(j)
       PROVE  rows' = rows
  BY <1>11 DEF StartSeed, StartCatalog, StartSupport, StartImport, StartAllowlist, Start, JobDies
<1>12. ASSUME NEW f \in Finders, Ask(f) PROVE rows' = rows
  BY <1>12 DEF Ask
<1> QED BY <1>8, <1>9, <1>10, <1>11, <1>12 DEF Next, vars

(* While jobs run one at a time, no interleaving with discoveries lowers   *)
(* the trust of a row or loses it, except that the catalog sync prunes the *)
(* rows it owns (repository.py: _upsert and prune decide on rows loaded    *)
(* earlier), for any number of requests.                                   *)
THEOREM TrustKept == OneJob => (Spec => TrustNeverFalls)
<1> SUFFICES ASSUME OneJob PROVE Spec => TrustNeverFalls
  OBVIOUS
<1>1. Sound /\ [Next]_vars =>
        [\A t \in Tokens : Rank(rows'[t]) < Rank(rows[t])
           => /\ rows'[t] = NoRow
              /\ rows[t].tier = "indexed" /\ rows[t].source = "lifi_catalog"]_vars
  BY StepTrust
<1> QED BY <1>1, InvariantSound, PTL DEF Spec, TrustNeverFalls

(* A curated row bears its own symbol, and a job that has loaded a row     *)
(* finds it as it was, unless a discovery has overtaken the job.           *)
Named ==
  /\ \A t \in Tokens \ overtaken : IsCurated(t) => rows[t].symbol = SymbolAt[t]["bundled"]
  /\ \A j \in Jobs : tx[j] # NoTx /\ tx[j].loaded # NoRow /\ tx[j].token \notin overtaken
                    => rows[tx[j].token] = tx[j].loaded

LEMMA CommitNamed ==
  ASSUME OneJob, Sound, Named, NEW j \in Jobs, CommitEntry(j)
  PROVE  Named'
<1>0. PICK t \in Tokens : t = tx[j].token
  BY CommitJob DEF Sound, Shape, Txs, Processes
<1>1. /\ tx[j] # NoTx /\ t \in Tokens /\ job[j].pc = "commit" /\ tx[j].entry.token = t
      /\ tx[j].loaded \in Row \cup {NoRow} /\ rows \in [Tokens -> Row \cup {NoRow}]
  BY <1>0, CommitJob DEF Sound, Shape, Txs, Processes
<1>2. tx'[j] = NoTx
  BY CommitJob DEF Sound, Shape, Processes
<1>3. \A i \in Jobs : tx'[i] = NoTx
  BY <1>2 DEF OneJob
<1>4. overtaken' = IF rows[t] = tx[j].loaded THEN overtaken \ {t} ELSE overtaken
  BY <1>0 DEF CommitEntry
<1>5. CASE rows' = rows
  <2>1. CASE rows[t] = tx[j].loaded
    <3>1. \/ Inserted(j) \/ Updated(j)
      BY <1>0, <1>1, <2>1 DEF CommitEntry, Commit, Inserted, Updated, NewRow
    <3>2. PICK new \in Row : Written(j, new)
      BY <1>1, <3>1, JobWrites
    <3>3. /\ rows[t] = new /\ new.tier = tx[j].entry.tier /\ new.symbol = tx[j].entry.symbol
      BY <1>0, <1>1, <1>5, <2>1, <3>2 DEF Written
    <3>4. IsCurated(t) => rows[t].symbol = SymbolAt[t]["bundled"]
      BY <1>0, <1>1, <3>3 DEF IsCurated, Sound, JobSound, LoadedSound, EntrySound
    <3> QED BY <1>3, <1>4, <1>5, <3>4 DEF Named, IsCurated
  <2>2. CASE rows[t] # tx[j].loaded
    BY <1>3, <1>4, <1>5, <2>2 DEF Named, IsCurated
  <2> QED BY <2>1, <2>2
<1>6. CASE Inserted(j) \/ Updated(j)
  <2>1. PICK new \in Row : Written(j, new)
    BY <1>1, <1>6, JobWrites
  <2>2. /\ rows'[t] = new /\ new.tier = tx[j].entry.tier
        /\ \A u \in Tokens \ {t} : rows'[u] = rows[u]
    BY <1>0, <1>1, <2>1 DEF Written
  <2>3. ASSUME rows[t] = tx[j].loaded, IsCurated(t)' PROVE rows'[t].symbol = SymbolAt[t]["bundled"]
    <3>1. new.symbol = tx[j].entry.symbol /\ tx[j].entry.tier = "curated"
      BY <1>0, <2>1, <2>2, <2>3 DEF Written, IsCurated
    <3> QED BY <1>0, <1>1, <2>2, <3>1 DEF Sound, JobSound, LoadedSound, EntrySound
  <2>4. rows[t] # tx[j].loaded => t \in overtaken
    <3>1. tx[j].loaded = NoRow => rows[t] = NoRow
      BY <1>0, <1>1, <1>6, NoRowIsNone DEF Inserted, Updated
    <3> QED BY <1>0, <1>1, <3>1 DEF Named
  <2>5. ASSUME NEW u \in Tokens \ overtaken', IsCurated(u)'
        PROVE  rows'[u].symbol = SymbolAt[u]["bundled"]
    <3>1. CASE u = t
      BY <1>4, <2>3, <2>4, <2>5, <3>1
    <3>2. CASE u # t
      BY <1>4, <2>2, <2>5, <3>2 DEF Named, IsCurated
    <3> QED BY <3>1, <3>2
  <2> QED BY <1>3, <2>5 DEF Named
<1> QED BY <1>5, <1>6, CommitJob

LEMMA DiscoveryNamed ==
  ASSUME Sound, Named, NEW f \in Finders, CommitDiscovered(f)
  PROVE  Named'
<1> DEFINE t == tx[f].token
           written == Allowed(t) \/ \E j \in Jobs : tx[j].token = t
<1>1. Grows
  BY DiscoveryGrows
<1>2. overtaken' = IF rows[t] # NoRow /\ rows'[t] # rows[t] /\ written
                   THEN overtaken \cup {t} ELSE overtaken
  BY DEF CommitDiscovered
<1>3. f \notin Jobs /\ \A j \in Jobs : tx'[j] = tx[j]
  BY CommitFinder, ConstantsAssumption DEF Sound, Shape, Processes
<1>4. t \in Tokens /\ rows \in [Tokens -> Row \cup {NoRow}]
  BY CommitFinder DEF Sound, Shape, Txs, Processes
<1>5. \A u \in Tokens \ {t} : rows'[u] = rows[u]
  BY <1>4, CommitFinder DEF Inserted, Updated
<1> HIDE DEF t, written
<1>6. ASSUME NEW u \in Tokens \ overtaken', IsCurated(u)' PROVE rows'[u].symbol = SymbolAt[u]["bundled"]
  <2>1. IsCurated(u)
    BY <1>1, <1>6, GrowsKeeps
  <2>2. rows'[u] = rows[u]
    <3>1. CASE u = t
      <4>1. rows[t] # NoRow /\ Allowed(t)
        BY <2>1, <3>1 DEF IsCurated, Allowed, Allowlist
      <4> QED BY <1>2, <1>6, <3>1, <4>1 DEF written
    <3> QED BY <1>5, <3>1
  <2> QED BY <1>2, <1>6, <2>1, <2>2 DEF Named
<1>7. ASSUME NEW j \in Jobs, tx[j] # NoTx, tx[j].loaded # NoRow, tx[j].token \notin overtaken'
      PROVE  rows'[tx[j].token] = tx[j].loaded
  <2>1. tx[j].token \in Tokens
    BY <1>7 DEF Sound, Shape, Txs, Processes
  <2>2. rows[tx[j].token] = tx[j].loaded
    BY <1>2, <1>7 DEF Named
  <2>3. rows'[tx[j].token] = rows[tx[j].token]
    <3>1. CASE tx[j].token = t
      BY <1>2, <1>7, <2>2, <3>1 DEF written
    <3> QED BY <1>5, <2>1, <3>1
  <2> QED BY <2>2, <2>3
<1> QED BY <1>3, <1>6, <1>7 DEF Named

(* Pruning and flagging write no symbol, while no row is loaded.           *)
LEMMA TailNamed ==
  ASSUME OneJob, Sound, Named, NEW j \in Jobs, PruneCommit(j) \/ FlagsCommit(j)
  PROVE  Named'
<1>1. \A i \in Jobs : tx'[i] = NoTx
  BY DEF OneJob, PruneCommit, FlagsCommit, Sound, Shape, Processes
<1>2. overtaken' = overtaken
  BY DEF PruneCommit, FlagsCommit
<1>3. ASSUME NEW t \in Tokens, IsCurated(t)' PROVE IsCurated(t) /\ rows'[t].symbol = rows[t].symbol
  <2>1. CASE rows'[t] = rows[t]
    BY <1>3, <2>1 DEF IsCurated
  <2>2. CASE Held(j, t) /\ rows'[t] = [rows[t] EXCEPT !.lifi = t \in job[j].snap]
    <3> DEFINE b == t \in job[j].snap
    <3>1. b \in BOOLEAN /\ rows[t] \in Row /\ rows'[t] = [rows[t] EXCEPT !.lifi = b]
      BY <2>2, HeldRow DEF Sound
    <3> HIDE DEF b
    <3>2. rows'[t].tier = rows[t].tier /\ rows'[t].symbol = rows[t].symbol
      BY <3>1, FlagType
    <3> QED BY <1>3, <3>1, <3>2, NoRowIsNone DEF IsCurated
  <2>3. CASE PruneCommit(j)
    BY <1>3, <2>1, <2>3 DEF PruneCommit, IsCurated
  <2>4. CASE FlagsCommit(j)
    BY <1>3, <2>1, <2>2, <2>4 DEF FlagsCommit
  <2> QED BY <2>3, <2>4
<1> QED BY <1>1, <1>2, <1>3 DEF Named

(* A step that writes no row, and loads at most one as it is.              *)
LEMMA QuietNamed ==
  ASSUME Named, rows' = rows, overtaken' = overtaken,
         \A j \in Jobs : \/ tx'[j] = tx[j]
                        \/ tx'[j] = NoTx
                        \/ \E e : tx'[j] = [token |-> e.token, entry |-> e,
                                           loaded |-> rows[e.token]]
  PROVE  Named'
<1>1. \A t \in Tokens \ overtaken' : IsCurated(t)' => rows'[t].symbol = SymbolAt[t]["bundled"]
  BY DEF Named, IsCurated
<1>2. ASSUME NEW j \in Jobs, tx'[j] # NoTx, tx'[j].loaded # NoRow, tx'[j].token \notin overtaken'
      PROVE  rows'[tx'[j].token] = tx'[j].loaded
  <2>1. CASE tx'[j] = tx[j]
    BY <1>2, <2>1 DEF Named
  <2>2. CASE \E e : tx'[j] = [token |-> e.token, entry |-> e, loaded |-> rows[e.token]]
    BY <2>2
  <2> QED BY <1>2, <2>1, <2>2
<1> QED BY <1>1, <1>2 DEF Named

LEMMA NextNamed == ASSUME OneJob, Sound, Named, [Next]_vars PROVE Named'
<1>1. tx \in [Processes -> Txs \cup {NoTx}]
  BY DEF Sound, Shape
<1>2. ASSUME NEW j \in Jobs, SelectEntry(j) PROVE Named'
  <2>1. \A i \in Jobs : \/ tx'[i] = tx[i]
                       \/ \E e : tx'[i] = [token |-> e.token, entry |-> e, loaded |-> rows[e.token]]
    BY <1>1, <1>2 DEF SelectEntry, Select, Processes
  <2> QED BY <1>2, <2>1, QuietNamed DEF SelectEntry
<1>3. ASSUME NEW j \in Jobs, JobDies(j) PROVE Named'
  BY <1>1, <1>3, QuietNamed DEF JobDies, Processes
<1>4. ASSUME NEW j \in Jobs, ListDone(j) \/ TailSelect(j) PROVE Named'
  BY <1>4, QuietNamed DEF ListDone, TailSelect
<1>5. ASSUME NEW j \in Jobs, \/ StartSeed(j) \/ StartCatalog(j) \/ StartSupport(j)
                             \/ StartImport(j) \/ StartAllowlist(j)
      PROVE  Named'
  BY <1>5, QuietNamed
     DEF StartSeed, StartCatalog, StartSupport, StartImport, StartAllowlist, Start
<1>6. ASSUME NEW f \in Finders, Ask(f) \/ Verify(f) \/ GuardDiscovered(f) \/ SelectDiscovered(f)
      PROVE  Named'
  <2>1. f \notin Jobs
    BY ConstantsAssumption
  <2>2. \A j \in Jobs : tx'[j] = tx[j]
    BY <1>1, <1>6, <2>1
       DEF Ask, Verify, GuardDiscovered, SelectDiscovered, Select, Processes
  <2>3. rows' = rows /\ overtaken' = overtaken
    BY <1>6 DEF Ask, Verify, GuardDiscovered, SelectDiscovered
  <2> QED BY <2>2, <2>3, QuietNamed
<1>7. CASE UNCHANGED vars
  BY <1>7, QuietNamed DEF vars
<1> QED BY <1>2, <1>3, <1>4, <1>5, <1>6, <1>7, CommitNamed, DiscoveryNamed, TailNamed
        DEF Next, JobStep, FinderStep

LEMMA InvariantNamed == OneJob => (Spec => [](Sound /\ Named))
<1> SUFFICES ASSUME OneJob PROVE Spec => [](Sound /\ Named)
  OBVIOUS
<1>1. Init => Sound /\ Named
  <2> SUFFICES ASSUME Init PROVE Sound /\ Named
    OBVIOUS
  <2> QED BY InitSound DEF Init, Named, IsCurated
<1>2. Sound /\ Named /\ [Next]_vars => (Sound /\ Named)'
  BY NextSound, NextNamed
<1> QED BY <1>1, <1>2, PTL DEF Spec

(* The lookups, in a table whose curated rows are the bundled contracts.   *)
LEMMA CuratedFound ==
  ASSUME Sound, Named, seeded, NEW t \in Curated \ overtaken
  PROVE  /\ t \in RowsNamed(ChainOf[t], SymbolAt[t]["bundled"])
         /\ RowsNamed(ChainOf[t], SymbolAt[t]["bundled"]) \subseteq {t} \cup overtaken
         /\ t \in Resolutions(ChainOf[t], SymbolAt[t]["bundled"])
         /\ Resolutions(ChainOf[t], SymbolAt[t]["bundled"]) \subseteq {t} \cup overtaken
         /\ t \in ListedOn(ChainOf[t]) \cap Grouped(SymbolAt[t]["bundled"])
<1> DEFINE c == ChainOf[t]  s == SymbolAt[t]["bundled"]
           hits == {u \in Tokens : Allowed(u) /\ ChainOf[u] = c /\ rows[u].symbol = s}
<1>1. t \in Tokens /\ c \in Chains /\ Bundled \subseteq Curated
  BY ConstantsAssumption DEF Curated
<1>2. Connected /\ IsCurated(t)
  BY DEF Sound
<1>3. \A u \in Tokens \ overtaken :
        IsCurated(u) => u \in Curated /\ rows[u].symbol = SymbolAt[u]["bundled"]
  BY DEF Sound, Named, RowSound, IsCurated
<1>4. Allowed(t) /\ rows[t].symbol = s /\ rows[t].tier = "curated"
  BY <1>1, <1>2, <1>3 DEF IsCurated, Allowed, Allowlist
<1> DEFINE best == {u \in hits : rows[u].tier = "curated"}
<1>5. t \in best /\ best \subseteq {t} \cup overtaken
  <2>1. ASSUME NEW u \in best, u \notin overtaken PROVE u = t
    <3>1. IsCurated(u)
      BY <2>1 DEF IsCurated, Allowed
    <3> QED BY <1>3, <2>1, <3>1, CuratedTickersDiffer
  <2> QED BY <1>1, <1>4, <2>1
<1>6. RowsNamed(c, s) = best
  BY <1>5 DEF RowsNamed
<1>7. \A u \in Known(c, s) : u = t
  BY <1>1, CuratedTickersDiffer DEF Known
<1>8. t \in Resolutions(c, s) /\ Resolutions(c, s) \subseteq {t} \cup overtaken
  BY <1>2, <1>5, <1>6, <1>7 DEF Resolutions
<1>9. t \in ListedOn(c)
  BY <1>1, <1>2, <1>4 DEF ListedOn
<1>10. t \in Grouped(s)
  BY <1>1, <1>2, <1>4, <1>9 DEF Grouped
<1> QED BY <1>5, <1>6, <1>8, <1>9, <1>10

LEMMA BundledAnswered ==
  ASSUME Connected, NEW t \in Bundled
  PROVE  /\ TickerAnswer(ChainOf[t], SymbolAt[t]["bundled"]) = "token"
         /\ NameAnswer(ChainOf[t], SymbolAt[t]["bundled"]) = "token"
<1>1. t \in Known(ChainOf[t], SymbolAt[t]["bundled"])
  BY DEF Known
<1> QED BY <1>1 DEF TickerAnswer, NameAnswer, Resolutions

(* With a database, once it is seeded, the ticker of every curated         *)
(* contract finds that contract and no other, whatever LI.FI, CoinGecko or *)
(* an import call their own contracts and however often the jobs run,      *)
(* except while a discovery that loaded the row before a job wrote it has  *)
(* put its own name there; and the bundled file's tickers and names are    *)
(* always answered.                                                        *)
THEOREM TickersResolve ==
  ASSUME OneJob, Connected
  PROVE  Spec => []CuratedTickersResolve
<1>1. Sound /\ Named => CuratedTickersResolve
  BY CuratedFound, BundledAnswered DEF CuratedTickersResolve
<1> QED BY <1>1, InvariantNamed, PTL
=============================================================================
