------------------------------ MODULE TokenRegistry ------------------------------
(***************************************************************************)
(* The token registry: one table of ERC-20 and Solana tokens, written by   *)
(* maintenance jobs (seed, LI.FI catalog sync, LI.FI support sync, chain   *)
(* import, market-cap allowlist) and by the service, which caches what a   *)
(* user's contract address turns out to be.  Every write is a session that *)
(* selects a row, decides on what it loaded and commits later, so another  *)
(* process may write the row in between (read committed).                  *)
(*                                                                         *)
(* A contract stands for the unique key (chain_slug, address); "symbol"    *)
(* stands for the metadata a source gives it (symbol, name, decimals); the *)
(* source "on_demand" is CoinGecko, when it answers.                       *)
(***************************************************************************)
EXTENDS Naturals, FiniteSets

CONSTANTS
    Tokens,        \* contracts
    Chains,        \* chain slugs, "solana" among them
    ChainOf,       \* [Tokens -> Chains]
    Symbols,       \* tickers and names
    SymbolAt,      \* [Tokens -> [Sources -> Symbols]]: what each source calls it
    SeedTier,      \* [Tokens -> {"none", "indexed", "curated"}]: the seed file
    Bundled,       \* contracts of data/known_addresses.json
    Connected,     \* is DATABASE_URL set
    Jobs,          \* job processes that may be up at once
    Finders,       \* requests of the service that resolve an address
    MaxRuns        \* bound: job runs

Sources == {"bundled", "market_cap", "lifi_catalog", "on_demand"}
Allowlist == {"curated", "indexed"}
Tiers == Allowlist \cup {"discovered"}
Unknown == "UNKNOWN"
Solana == {t \in Tokens : ChainOf[t] = "solana"}
Curated == Bundled \cup {t \in Tokens : SeedTier[t] = "curated"}

ASSUME ConstantsAssumption ==
    /\ ChainOf \in [Tokens -> Chains]
    /\ SymbolAt \in [Tokens -> [Sources -> Symbols]]
    /\ Unknown \in Symbols
    /\ SeedTier \in [Tokens -> {"none", "indexed", "curated"}]
    /\ Bundled \subseteq Tokens \ Solana
    /\ Connected \in BOOLEAN
    /\ MaxRuns \in Nat
    /\ IsFiniteSet(Jobs) /\ IsFiniteSet(Finders) /\ Jobs \cap Finders = {}
    /\ "none" \notin Tokens

(* No two contracts of the curated files share a ticker on a chain.        *)
ASSUME CuratedTickersDiffer ==
    \A t, u \in Curated :
        ChainOf[t] = ChainOf[u] /\ SymbolAt[t]["bundled"] = SymbolAt[u]["bundled"]
            => t = u

(* A primary key matters only while a row has it or a process holds it.    *)
Ids == 1 .. Cardinality(Jobs) + Cardinality(Finders) + 1
NoRow == [id |-> 0]
Row == [id : Ids, tier : Tiers, source : Sources, symbol : Symbols,
        lifi : BOOLEAN]
Entry == [token : Tokens, tier : Tiers, source : Sources, symbol : Symbols,
          lifi : BOOLEAN]
NoTx == [token |-> "none"]

VARIABLES
    rows,      \* token_registry: [Tokens -> Row or NoRow]
    runs,      \* job runs started
    seeded,    \* has a seed job ended well
    job,       \* per job process: what it runs and how far it is
    tx,        \* per process: the entry and the row a session holds loaded
    finder,    \* per request: the contract asked for and its metadata
    overtaken  \* history: contracts whose row a discovery rewrote after, or
               \* while, a job wrote it; until a job writes it undisturbed

vars == <<rows, runs, seeded, job, tx, finder, overtaken>>

NoJob == [kind |-> "none", pc |-> "idle", todo |-> {}, later |-> {},
          snap |-> {}, chains |-> {}, held |-> {}]
NoAsk == [pc |-> "idle", token |-> "none", symbol |-> Unknown]

Init ==
    /\ rows = [t \in Tokens |-> NoRow]
    /\ runs = 0
    /\ seeded = FALSE
    /\ job = [j \in Jobs |-> NoJob]
    /\ tx = [p \in Jobs \cup Finders |-> NoTx]
    /\ finder = [f \in Finders |-> NoAsk]
    /\ overtaken = {}

--------------------------------------------------------------------------------
(* One guarded upsert: select, decide on the row loaded, commit.           *)

Allowed(t) == rows[t] # NoRow /\ rows[t].tier \in Allowlist

(* Seeded bug: curated rows may be rewritten by any later source.          *)
Guarded_CuratedOpen(row, e) ==
    row # NoRow /\ row.tier \in Allowlist /\ e.tier = "discovered"

(* The early returns of _upsert; overwrite_curated is tier = "curated".    *)
Guarded(row, e) ==
    /\ row # NoRow
    /\ \/ row.tier \in Allowlist /\ e.tier = "discovered"
       \/ row.tier = "curated" /\ e.tier # "curated"

(* The attributes _upsert assigns to the row it loaded.                    *)
Assigned(row, e) ==
    [row EXCEPT !.symbol = e.symbol,
                !.lifi = e.lifi \/ @,
                !.tier = IF @ # "curated" \/ e.tier = "curated" THEN e.tier ELSE @,
                !.source = IF row.tier # "curated" \/ e.tier = "curated"
                           THEN e.source ELSE @]

(* Seeded bug: the UPDATE writes every column back.                        *)
Flushed_AllColumns(now, loaded, assigned) == assigned

(* The UPDATE carries only the columns whose value differs from what was   *)
(* loaded; the others keep what another process has committed since.       *)
Flushed(now, loaded, assigned) ==
    [c \in DOMAIN now |-> IF assigned[c] = loaded[c] THEN now[c] ELSE assigned[c]]

Select(p, e) == tx' = [tx EXCEPT ![p] = [token |-> e.token, entry |-> e,
                                         loaded |-> rows[e.token]]]

FreshId(t) ==
    CHOOSE i \in Ids :
        /\ i # rows[t].id
        /\ \A p \in Jobs \cup Finders : tx[p].token = t => tx[p].loaded.id # i
        /\ \A j \in Jobs : <<t, i>> \notin job[j].held

(* Commit of what p holds, with what follows on success and on an error    *)
(* (a duplicate key, or an UPDATE that matches no row).                    *)
Commit(p, Then, Raised) ==
    LET t == tx[p].token
        e == tx[p].entry
        loaded == tx[p].loaded
    IN  /\ tx' = [tx EXCEPT ![p] = NoTx]
        /\ \/ /\ loaded = NoRow /\ rows[t] = NoRow
              /\ rows' = [rows EXCEPT ![t] =
                            [id |-> FreshId(t), tier |-> e.tier, source |-> e.source,
                             symbol |-> e.symbol, lifi |-> e.lifi]]
              /\ Then
           \/ /\ loaded # NoRow /\ rows[t].id = loaded.id
              /\ rows' = [rows EXCEPT ![t] = Flushed(@, loaded, Assigned(loaded, e))]
              /\ Then
           \/ /\ rows[t].id # loaded.id
              /\ UNCHANGED rows
              /\ Raised

--------------------------------------------------------------------------------
(* The jobs.                                                               *)

(* Seeded bug: tier and source change places.                              *)
EntryOf_Swapped(t, tier, source, lifi) ==
    [token |-> t, tier |-> source, source |-> tier, symbol |-> SymbolAt[t][source],
     lifi |-> lifi]

EntryOf(t, tier, source, lifi) ==
    [token |-> t, tier |-> tier, source |-> source, symbol |-> SymbolAt[t][source],
     lifi |-> lifi]

(* token_registry_seed.json, whose curated rows are the bundled ones.      *)
SeedEntries ==
    {EntryOf(t, SeedTier[t],
             IF SeedTier[t] = "curated" THEN "bundled" ELSE "market_cap", FALSE) :
        t \in {u \in Tokens : SeedTier[u] # "none"}}
(* known_addresses.json, which only knows EVM chains.                      *)
BundledEntries == {EntryOf(t, "curated", "bundled", FALSE) : t \in Bundled}
(* LI.FI's answer; an export of it, read back for one chain.               *)
CatalogEntries(got) == {EntryOf(t, "indexed", "lifi_catalog", TRUE) : t \in got}
ImportEntries(file, c) ==
    {EntryOf(t, "indexed", "lifi_catalog", FALSE) : t \in {u \in file : ChainOf[u] = c}}
(* The platforms CoinGecko gives for coins above the market-cap floor.     *)
MarketEntries(top) == {EntryOf(t, "indexed", "market_cap", FALSE) : t \in top}

Start(j, kind, pc, todo, later, snap, chains) ==
    /\ Connected
    /\ job[j].pc \in {"idle", "done", "failed"}
    /\ runs < MaxRuns
    /\ runs' = runs + 1
    /\ job' = [job EXCEPT ![j] = [kind |-> kind, pc |-> pc, todo |-> todo,
                                  later |-> later, snap |-> snap,
                                  chains |-> chains, held |-> {}]]
    /\ UNCHANGED <<rows, seeded, tx, finder, overtaken>>

StartSeed(j) == Start(j, "seed", "rows", SeedEntries, BundledEntries, {}, {})

(* LI.FI's list differs from one fetch to the next; its Solana part is a   *)
(* fetch of its own whose failure is swallowed, and no part is no token.   *)
CatalogAnswers == {all \ lost : all \in SUBSET Tokens, lost \in {{}, Solana}}
StartCatalog(j) ==
    \E got \in CatalogAnswers \ {{}} :
        Start(j, "catalog", "rows", CatalogEntries(got), {}, got, Chains)

(* build_lifi_address_set keeps the chains of CHAIN_INDEX, all of them EVM.*)
SupportAnswers == SUBSET (Tokens \ Solana)
StartSupport(j) ==
    \E got \in SupportAnswers :
        Start(j, "support", "tail", {}, {}, got, Chains \ {"solana"})

StartImport(j) ==
    \E c \in Chains \ {"solana"}, file \in SupportAnswers :
        /\ ImportEntries(file, c) # {}
        /\ Start(j, "import", "rows", ImportEntries(file, c), {}, file, {c})

StartAllowlist(j) ==
    \E top \in SupportAnswers \ {{}} :
        Start(j, "allowlist", "rows", MarketEntries(top), {}, {}, {})

(* One entry: skipped by a guard, or held loaded for the commit.           *)
SelectEntry(j) ==
    /\ job[j].pc = "rows"
    /\ \E e \in job[j].todo :
          /\ job' = [job EXCEPT ![j].todo = @ \ {e},
                                ![j].pc = IF Guarded(rows[e.token], e) THEN "rows"
                                          ELSE "commit"]
          /\ IF Guarded(rows[e.token], e) THEN UNCHANGED tx ELSE Select(j, e)
    /\ UNCHANGED <<rows, runs, seeded, finder, overtaken>>

CommitEntry(j) ==
    /\ job[j].pc = "commit"
    /\ Commit(j, job' = [job EXCEPT ![j].pc = "rows"],
                 job' = [job EXCEPT ![j].pc = "failed"])
    /\ overtaken' = IF rows[tx[j].token] = tx[j].loaded THEN overtaken \ {tx[j].token}
                    ELSE overtaken
    /\ UNCHANGED <<runs, seeded, finder>>

(* The list is through: the bundled list, the tail of the job, or its end. *)
ListDone(j) ==
    /\ job[j].pc = "rows" /\ job[j].todo = {}
    /\ LET over == job[j].later = {} /\ job[j].kind \in {"seed", "allowlist"}
       IN  /\ job' = [job EXCEPT
                ![j].todo = job[j].later,
                ![j].later = {},
                ![j].pc = IF job[j].later # {} THEN "rows"
                          ELSE IF over THEN "done" ELSE "tail"]
           /\ seeded' = (seeded \/ (over /\ job[j].kind = "seed"))
    /\ UNCHANGED <<rows, runs, tx, finder, overtaken>>

(* Seeded bug: the prune is given the EVM chains only.                     *)
Doomed_SparesSolana(j) ==
    {t \in Tokens \ job[j].snap :
        /\ rows[t] # NoRow /\ t \notin Solana
        /\ rows[t].source = "lifi_catalog" /\ rows[t].tier = "indexed"}

(* prune_lifi_catalog_rows: the primary keys to delete.                    *)
Doomed(j) == {t \in Tokens \ job[j].snap :
                 /\ rows[t] # NoRow
                 /\ rows[t].source = "lifi_catalog" /\ rows[t].tier = "indexed"
                 /\ ChainOf[t] \in job[j].chains}
(* apply_lifi_supported_flags: the rows whose flag is to change.           *)
Misflagged(j) == {t \in Tokens : /\ Allowed(t) /\ ChainOf[t] \in job[j].chains
                                 /\ rows[t].lifi # (t \in job[j].snap)}

TailSelect(j) ==
    /\ job[j].pc = "tail"
    /\ LET hit == IF job[j].kind = "catalog" THEN Doomed(j) ELSE Misflagged(j)
       IN  job' = [job EXCEPT ![j].held = {<<t, rows[t].id>> : t \in hit},
                              ![j].pc = IF hit = {} THEN "done" ELSE "tailcommit"]
    /\ UNCHANGED <<rows, runs, seeded, tx, finder, overtaken>>

Held(j, t) == \E h \in job[j].held : h[1] = t /\ h[2] = rows[t].id

PruneCommit(j) ==
    /\ job[j].pc = "tailcommit" /\ job[j].kind = "catalog"
    /\ rows' = [t \in Tokens |-> IF Held(j, t) THEN NoRow ELSE rows[t]]
    /\ job' = [job EXCEPT ![j].pc = "done", ![j].held = {}]
    /\ UNCHANGED <<runs, seeded, tx, finder, overtaken>>

FlagsCommit(j) ==
    /\ job[j].pc = "tailcommit" /\ job[j].kind # "catalog"
    /\ IF \A h \in job[j].held : rows[h[1]].id = h[2]
       THEN /\ rows' = [t \in Tokens |-> IF Held(j, t)
                            THEN [rows[t] EXCEPT !.lifi = t \in job[j].snap]
                            ELSE rows[t]]
            /\ job' = [job EXCEPT ![j].pc = "done", ![j].held = {}]
       ELSE /\ job' = [job EXCEPT ![j].pc = "failed", ![j].held = {}]
            /\ UNCHANGED rows
    /\ UNCHANGED <<runs, seeded, tx, finder, overtaken>>

(* A job dies on an error of the network or the database, or is killed.    *)
JobDies(j) ==
    /\ job[j].pc \in {"rows", "commit", "tail", "tailcommit"}
    /\ job' = [job EXCEPT ![j].pc = "failed", ![j].held = {}]
    /\ tx' = [tx EXCEPT ![j] = NoTx]
    /\ UNCHANGED <<rows, runs, seeded, finder, overtaken>>

--------------------------------------------------------------------------------
(* The service: resolve_address (a row already there is answered from the  *)
(* table, which changes nothing), then the lookups by ticker and by name.  *)

Goes(f, pc) == finder' = [finder EXCEPT ![f].pc = pc]
Answers(f) == finder' = [finder EXCEPT ![f] = NoAsk]

Ask(f) ==
    /\ Connected
    /\ finder[f].pc = "idle"
    /\ \E t \in Tokens \ Solana :
          /\ rows[t] = NoRow
          /\ finder' = [finder EXCEPT ![f] = [NoAsk EXCEPT !.pc = "verify", !.token = t]]
    /\ UNCHANGED <<rows, runs, seeded, job, tx, overtaken>>

(* decimals() on chain, without which there is no token, and the CoinGecko *)
(* record, without which the token is "UNKNOWN".                           *)
Verify(f) ==
    /\ finder[f].pc = "verify"
    /\ \/ \E symbol \in {Unknown, SymbolAt[finder[f].token]["on_demand"]} :
            finder' = [finder EXCEPT ![f].pc = "guard", ![f].symbol = symbol]
       \/ Answers(f)
    /\ UNCHANGED <<rows, runs, seeded, job, tx, overtaken>>

GuardDiscovered(f) ==
    /\ finder[f].pc = "guard"
    /\ IF Allowed(finder[f].token) THEN Answers(f) ELSE Goes(f, "select")
    /\ UNCHANGED <<rows, runs, seeded, job, tx, overtaken>>

SelectDiscovered(f) ==
    /\ finder[f].pc = "select"
    /\ LET e == [EntryOf(finder[f].token, "discovered", "on_demand", FALSE)
                    EXCEPT !.symbol = finder[f].symbol]
       IN  IF Guarded(rows[e.token], e)
           THEN Answers(f) /\ UNCHANGED tx
           ELSE Goes(f, "commit") /\ Select(f, e)
    /\ UNCHANGED <<rows, runs, seeded, job, overtaken>>

CommitDiscovered(f) ==
    /\ finder[f].pc = "commit"
    /\ Commit(f, Answers(f), Answers(f))
    /\ LET t == tx[f].token
           written == Allowed(t) \/ \E j \in Jobs : tx[j].token = t
       IN  overtaken' = IF rows[t] # NoRow /\ rows'[t] # rows[t] /\ written
                        THEN overtaken \cup {t} ELSE overtaken
    /\ UNCHANGED <<runs, seeded, job>>

Known(c, s) == {t \in Bundled : ChainOf[t] = c /\ SymbolAt[t]["bundled"] = s}

(* lookup_symbol and lookup_name: allowlisted rows, curated ones first.    *)
RowsNamed(c, s) ==
    LET hits == {t \in Tokens : Allowed(t) /\ ChainOf[t] = c /\ rows[t].symbol = s}
        best == {t \in hits : rows[t].tier = "curated"}
    IN  IF best # {} THEN best ELSE hits

(* What resolve_symbol and resolve_name may answer: the bundled file first.*)
Resolutions(c, s) == IF Known(c, s) # {} THEN Known(c, s)
                     ELSE IF Connected THEN RowsNamed(c, s) ELSE {}

(* The read graph's known_address: the bundled file again when the         *)
(* resolver is absent or has no answer.                                    *)
TickerAnswer(c, s) ==
    IF Resolutions(c, s) \cup Known(c, s) # {} THEN "token" ELSE "unknown"

(* The read graph's token_by_name.  Without a registry the bundled hit is  *)
(* found and then dropped: the answer is read from a resolver's None.      *)
NameAnswer(c, s) ==
    IF Connected /\ Resolutions(c, s) # {} THEN "token"
    ELSE IF Known(c, s) = {} THEN "unknown" ELSE "raised"

(* The allowlist the user is shown: per chain, or grouped by ticker.       *)
ListedOn(c) == IF Connected THEN {t \in Tokens : Allowed(t) /\ ChainOf[t] = c}
               ELSE {t \in Bundled : ChainOf[t] = c}
Grouped(s) ==
    {t \in UNION {ListedOn(c) : c \in Chains} :
        s = IF Connected THEN rows[t].symbol ELSE SymbolAt[t]["bundled"]}

--------------------------------------------------------------------------------
JobStep(j) == \/ SelectEntry(j) \/ CommitEntry(j) \/ ListDone(j)
              \/ TailSelect(j) \/ PruneCommit(j) \/ FlagsCommit(j)
FinderStep(f) == \/ Verify(f) \/ GuardDiscovered(f) \/ SelectDiscovered(f) \/ CommitDiscovered(f)

Next ==
    \/ \E j \in Jobs : \/ StartSeed(j) \/ StartCatalog(j) \/ StartSupport(j)
                       \/ StartImport(j) \/ StartAllowlist(j)
                       \/ JobStep(j) \/ JobDies(j)
    \/ \E f \in Finders : Ask(f) \/ FinderStep(f)

Spec == Init /\ [][Next]_vars

--------------------------------------------------------------------------------
(* PROPERTIES                                                              *)

(* The shape of the table, the sessions and the jobs.                      *)
TypeOK ==
    /\ rows \in [Tokens -> Row \cup {NoRow}]
    /\ runs \in 0 .. MaxRuns /\ seeded \in BOOLEAN
    /\ \A p \in Jobs \cup Finders :
          tx[p] # NoTx => /\ tx[p].entry \in Entry /\ tx[p].loaded \in Row \cup {NoRow}
                          /\ tx[p].token = tx[p].entry.token
    /\ \A j \in Jobs : /\ job[j].todo \cup job[j].later \subseteq Entry
                       /\ job[j].snap \subseteq Tokens /\ job[j].chains \subseteq Chains
    /\ \A f \in Finders : /\ finder[f].pc \in {"idle", "verify", "guard", "select", "commit"}
                          /\ finder[f].symbol \in Symbols
    /\ overtaken \subseteq Tokens

Rank(row) == IF row = NoRow THEN 0
             ELSE CASE row.tier = "discovered" -> 1 [] row.tier = "indexed" -> 2
                    [] OTHER -> 3

(* While jobs run one at a time, no interleaving with the service's own    *)
(* discoveries ever lowers the trust of a row or loses it, except that the *)
(* catalog sync prunes rows it owns (repository.py _upsert and prune: both *)
(* decide on rows loaded earlier).                                         *)
TrustNeverFalls ==
    [][\A t \in Tokens : Rank(rows'[t]) < Rank(rows[t])
          => /\ rows'[t] = NoRow
             /\ rows[t].tier = "indexed" /\ rows[t].source = "lifi_catalog"]_vars

(* Once seeded, the ticker of every curated contract finds that contract   *)
(* and no other in the table and in what the user is shown, whatever LI.FI,*)
(* CoinGecko or an import call their own contracts (lookup_symbol orders   *)
(* curated rows first; _upsert spares their metadata); and the read graph  *)
(* answers every ticker and name of the bundled file with a token.  Only a *)
(* discovery that loaded the row before a job curated it and commits after *)
(* can put CoinGecko's name, or UNKNOWN, on a curated row (repository.py   *)
(* _upsert: the guards saw the old tier), until the next seed repairs it.  *)
CuratedTickersResolve ==
    /\ seeded => \A t \in Curated \ overtaken :
         LET c == ChainOf[t]  s == SymbolAt[t]["bundled"]
         IN  /\ t \in RowsNamed(c, s) /\ RowsNamed(c, s) \subseteq {t} \cup overtaken
             /\ t \in Resolutions(c, s) /\ Resolutions(c, s) \subseteq {t} \cup overtaken
             /\ t \in ListedOn(c) \cap Grouped(s)
    /\ \A t \in Bundled : /\ TickerAnswer(ChainOf[t], SymbolAt[t]["bundled"]) = "token"
                          /\ NameAnswer(ChainOf[t], SymbolAt[t]["bundled"]) = "token"

(* A catalog sync that ended well has replaced the catalog: what LI.FI     *)
(* answered is on the allowlist, flagged unless curated, and no other row  *)
(* is left of an earlier catalog (sync_lifi_token_catalog: "Replace").  A  *)
(* support sync or an import that ended well has left every allowlisted    *)
(* row of its chains flagged as LI.FI's answer says, discoveries that      *)
(* committed meanwhile included.                                           *)
CatalogReplaced(j) ==
    \A t \in Tokens :
        /\ t \in job[j].snap =>
               /\ Allowed(t)
               /\ rows[t].tier = "indexed" => rows[t].lifi
        /\ (Allowed(t) /\ rows[t].source = "lifi_catalog" /\ rows[t].tier = "indexed")
               => t \in job[j].snap

FlagsFollowLiFi(j) ==
    \A t \in Tokens : Allowed(t) /\ ChainOf[t] \in job[j].chains
        => (rows[t].lifi <=> t \in job[j].snap)

SyncsTakeEffect ==
    \A j \in Jobs : job[j].pc = "done" =>
        /\ job[j].kind = "catalog" => CatalogReplaced(j)
        /\ job[j].kind \in {"support", "import"} => FlagsFollowLiFi(j)

================================================================================
