--------------------------- MODULE PortfolioSnapshot ---------------------------
(***************************************************************************)
(* aggregate_portfolio_snapshot: three jobs ask Zerion at once for the     *)
(* wallet's total and its distribution over chains, for its positions,     *)
(* page by page, and for its chart; each may fail, in any order, and the   *)
(* wallet moves meanwhile.  What arrived is merged into the snapshot that  *)
(* MiniApp caches and returns.  Amounts are whole dollars, 0 for a         *)
(* position without a price and below 0 for a debt; names, icons, balances *)
(* and the curated mark are left out.                                      *)
(***************************************************************************)
EXTENDS Integers, Sequences, FiniteSets, FiniteSetsExt, SequencesExt, Functions, TLC

CONSTANTS
    Position,       \* what Zerion says of position i; its listing is in order of i
    SlugOf,         \* Zerion's chain ids -> the slugs the code calls them
    Queried,        \* telegram_miniapp_default_chain_slugs
    MaxPages,       \* 32
    MaxTrades,      \* bound: moves of the wallet during one request
    NoChain

Ids == DOMAIN Position
ZChains == DOMAIN SlugOf
Slugs == {SlugOf[z] : z \in ZChains}

ASSUME ConstantsAssumption ==
    /\ Ids \subseteq Nat \ {0} /\ IsFiniteSet(Ids)
    /\ IsFiniteSet(ZChains) /\ IsFiniteSet(Queried)
    /\ NoChain \notin ZChains \cup Slugs
    /\ \A i \in Ids :
         /\ Position[i].usd \in Int
         /\ Position[i].type \in {"wallet", "deposit"}
         /\ Position[i].home \in ZChains    \* the chain it is on
         /\ Position[i].chain \in {Position[i].home, NoChain} \* as the row says
         /\ Position[i].implementations \subseteq ZChains
    /\ MaxPages \in Nat \ {0} /\ MaxTrades \in Nat

Jobs == {"portfolio", "positions", "chart"}
None == [is |-> "none"]

VARIABLES
    held,       \* positions of the wallet, as Zerion sees it now
    kept,       \* history: those held since the request began
    trades,
    jobs,       \* per job "runs", "done" or "failed"
    summary,    \* Zerion's total and distribution, once the portfolio job is done
    pages, cursor, items,   \* the positions job
    loops,      \* Zerion's next links lead back to the first page
    lost,       \* history: an item was unreadable or a next link refused
    errors,     \* number of PortfolioFetchErrors
    snapshot

vars == <<held, kept, trades, jobs, summary, pages, cursor, items, loops, lost, errors, snapshot>>

Sum(ids) == SumFunctionOnSet([i \in Ids |-> Position[i].usd], ids)

(* filter[chain_ids]: without chains in the settings Zerion answers for all.*)
Asked(ids) == {i \in ids : Queried = {} \/ SlugOf[Position[i].home] \in Queried}

(* Without AUREY_ZERION_API_KEY no job is started and the empty answer is  *)
(* there at once, with one error.                                          *)
NoKeySnapshot ==
    [is |-> "snapshot", total |-> 0, byChain |-> <<>>, tokens |-> <<>>,
     aggregated |-> <<>>, defi |-> <<>>, chart |-> FALSE, errors |-> 1]

Init ==
    /\ held \in SUBSET Ids /\ kept = held /\ trades = 0
    /\ summary = None
    /\ pages = 0 /\ cursor = 0 /\ items = <<>>
    /\ loops \in BOOLEAN /\ lost = FALSE
    /\ \/ jobs = [j \in Jobs |-> "runs"] /\ errors = 0 /\ snapshot = None
       \/ jobs = [j \in Jobs |-> "failed"] /\ errors = 1 /\ snapshot = NoKeySnapshot

--------------------------------------------------------------------------------
(* The chain of a position: its relationship, or its only implementation.  *)
Slug(p) ==
    IF p.chain # NoChain THEN SlugOf[p.chain]
    ELSE IF Cardinality(p.implementations) = 1
    THEN SlugOf[CHOOSE z \in p.implementations : TRUE]
    ELSE NoChain

(* What a row adds to a sum: a price above zero.                           *)
Priced(p) == IF p.usd > 0 THEN p.usd ELSE 0

Row(i) == [id |-> i, chain |-> Slug(Position[i]), symbol |-> Position[i].symbol,
           usd |-> Priced(Position[i])]

(* aggregate_tokens_by_symbol.  Seeded bug: a later leg replaces the sum.  *)
Legs(rows, symbol) == {n \in DOMAIN rows : rows[n].symbol = symbol}

Aggregated_LastLeg(rows) ==
    [s \in {rows[n].symbol : n \in DOMAIN rows} |-> rows[Max(Legs(rows, s))].usd]

Aggregated(rows) ==
    [s \in {rows[n].symbol : n \in DOMAIN rows} |->
        SumFunctionOnSet([n \in DOMAIN rows |-> rows[n].usd], Legs(rows, s))]

--------------------------------------------------------------------------------
(* The wallet parts with a position, receives one, or swaps two.           *)
Trade ==
    /\ snapshot = None /\ trades < MaxTrades
    /\ trades' = trades + 1
    /\ held' \in SUBSET Ids \ {held}
    /\ Cardinality(held \ held') <= 1 /\ Cardinality(held' \ held) <= 1
    /\ kept' = kept \cap held'
    /\ UNCHANGED <<jobs, summary, pages, cursor, items, loops, lost, errors, snapshot>>

(* A job's exception is caught in the job and becomes one error.           *)
(* Seeded bug: a page that fails only ends the list.                       *)
Fail_ShortList(j) ==
    /\ jobs[j] = "runs"
    /\ jobs' = [jobs EXCEPT ![j] = IF j = "positions" THEN "done" ELSE "failed"]
    /\ errors' = IF j = "positions" THEN errors ELSE errors + 1
    /\ UNCHANGED <<held, kept, trades, summary, pages, cursor, items, loops, lost, snapshot>>

Fail(j) ==
    /\ jobs[j] = "runs"
    /\ jobs' = [jobs EXCEPT ![j] = "failed"]
    /\ errors' = errors + 1
    /\ UNCHANGED <<held, kept, trades, summary, pages, cursor, items, loops, lost, snapshot>>

(* Zerion's own summary: a total and the worth per chain id, debts         *)
(* included; either may be missing, a total then reads as 0.               *)
FetchPortfolio ==
    /\ jobs["portfolio"] = "runs"
    /\ jobs' = [jobs EXCEPT !["portfolio"] = "done"]
    /\ \E total \in {Sum(Asked(held)), 0},
          chains \in SUBSET {Position[i].home : i \in Asked(held)} :
         /\ chains \in {{}, {Position[i].home : i \in Asked(held)}}
         /\ summary' = [is |-> "summary", total |-> total,
                        chains |-> [z \in chains |->
                            Sum({i \in Asked(held) : Position[i].home = z})]]
    /\ UNCHANGED <<held, kept, trades, pages, cursor, items, loops, lost, errors, snapshot>>

(* Whether the page read is the last: there is no next link, or it is not  *)
(* an https link of Zerion's API, or it is the 32nd.  Seeded bugs: one     *)
(* page more than the limit; next links without end.                       *)
LastPage_OneMore(read, more, own) == ~(more /\ own) \/ read > MaxPages

LastPage_Unbounded(read, more, own) == ~(more /\ own)

LastPage(read, more, own) == ~(more /\ own) \/ read = MaxPages

(* fetch_wallet_fungible_positions, one page of one position at a time;    *)
(* counting stops past the limit, where only a seeded bug gets.  A page or *)
(* an item that is not of the expected shape is passed over in silence.    *)
FetchPage ==
    LET rest == {i \in Asked(held) : i > cursor}
        more == loops \/ Cardinality(rest) > 1
    IN  /\ jobs["positions"] = "runs"
        /\ \E readable \in BOOLEAN, own \in BOOLEAN :
             LET page == IF rest = {} \/ ~readable THEN <<>> ELSE <<Min(rest)>>
             IN  /\ items' = IF pages <= MaxPages THEN items \o page ELSE items
                 /\ lost' = (lost \/ ~readable \/ ~own)
                 /\ jobs' = [jobs EXCEPT !["positions"] =
                      IF LastPage(pages + 1, more, own) THEN "done" ELSE @]
        /\ pages' = IF pages <= MaxPages THEN pages + 1 ELSE pages
        /\ cursor' = IF loops /\ Cardinality(rest) <= 1 THEN 0
                     ELSE IF rest = {} THEN cursor ELSE Min(rest)
        /\ UNCHANGED <<held, kept, trades, summary, loops, errors, snapshot>>

FetchChart ==
    /\ jobs["chart"] = "runs"
    /\ jobs' = [jobs EXCEPT !["chart"] = "done"]
    /\ UNCHANGED <<held, kept, trades, summary, pages, cursor, items, loops, lost, errors, snapshot>>

--------------------------------------------------------------------------------
(* The merge, when the three jobs have ended.  Pages read before a page    *)
(* failed are lost with it.                                                *)
Received == IF jobs["positions"] = "done" THEN items ELSE <<>>

(* Parts of the list, by the places they have in it.                       *)
Wallet == {n \in DOMAIN Received : Position[Received[n]].type = "wallet"}
DeFi == {n \in DOMAIN Received : Position[Received[n]].type # "wallet"}
On(s) == {n \in DOMAIN Received : Slug(Position[Received[n]]) = s}
SumRows(places) ==
    SumFunctionOnSet([n \in DOMAIN Received |-> Priced(Position[Received[n]])], places)

(* Per slug what is above zero: chain ids of one slug are added up.        *)
PortfolioByChain ==
    IF summary = None THEN <<>>
    ELSE LET above == {z \in DOMAIN summary.chains : summary.chains[z] > 0}
         IN  [s \in {SlugOf[z] : z \in above} |->
                SumFunctionOnSet(summary.chains, {z \in above : SlugOf[z] = s})]

PositionByChain ==
    [s \in {Slug(Position[i]) : i \in {k \in ToSet(Received) : Position[k].usd > 0}}
           \ {NoChain} |-> SumRows(On(s))]

(* Seeded bug: both sources at once.                                       *)
UsdByChain_Both ==
    LET zerions == PortfolioByChain  rolled == PositionByChain
    IN  [s \in DOMAIN zerions \cup DOMAIN rolled |->
            (IF s \in DOMAIN zerions THEN zerions[s] ELSE 0)
          + (IF s \in DOMAIN rolled THEN rolled[s] ELSE 0)]

UsdByChain ==
    LET zerions == PortfolioByChain
    IN  IF zerions # <<>> THEN zerions ELSE PositionByChain

Total ==
    IF summary # None /\ summary.total > 0 THEN summary.total
    ELSE SumRows(Wallet) + SumRows(DeFi)

Merge ==
    /\ snapshot = None
    /\ \A j \in Jobs : jobs[j] # "runs"
    /\ LET rows == [n \in Wallet |-> Row(Received[n])]
           usd == UsdByChain
           available == {Slug(Position[i]) : i \in ToSet(Received)} \ {NoChain}
       IN  snapshot' =
             [is |-> "snapshot", total |-> Total,
              byChain |-> [s \in Queried \cup DOMAIN usd \cup available |->
                             IF s \in DOMAIN usd THEN usd[s] ELSE 0],
              tokens |-> rows, aggregated |-> Aggregated(rows),
              defi |-> [n \in DeFi |-> Row(Received[n])], chart |-> jobs["chart"] = "done",
              errors |-> errors]
    /\ UNCHANGED <<held, kept, trades, jobs, summary, pages, cursor, items, loops, lost, errors>>

Progress == FetchPortfolio \/ FetchPage \/ FetchChart \/ Merge

Next == Trade \/ Progress \/ \E j \in Jobs : Fail(j)

(* Every call of Zerion ends: httpx has a timeout.                         *)
Spec == Init /\ [][Next]_vars /\ WF_vars(Progress)

--------------------------------------------------------------------------------
(* The answer's schema: what a chain, a row and a sum over chains hold.    *)
WellFormed(s) ==
    /\ s.total \in Nat
    /\ DOMAIN s.byChain \subseteq Slugs \cup Queried
    /\ \A c \in DOMAIN s.byChain : s.byChain[c] \in Nat
    /\ \A n \in DOMAIN s.tokens :
         /\ s.tokens[n].chain \in Slugs \cup {NoChain}
         /\ s.tokens[n].symbol \in DOMAIN s.aggregated
    /\ \A a \in DOMAIN s.aggregated : s.aggregated[a] \in Nat
    /\ \A n \in DOMAIN s.defi : s.defi[n].id \in Ids
    /\ s.errors \in 0 .. 3

(* Every variable has its type; no list of positions passes the page limit.*)
TypeOK ==
    /\ snapshot # None => WellFormed(snapshot)
    /\ held \subseteq Ids /\ kept \subseteq held
    /\ trades \in 0 .. MaxTrades
    /\ jobs \in [Jobs -> {"runs", "done", "failed"}]
    /\ pages \in 0 .. MaxPages /\ cursor \in Ids \cup {0}
    /\ items \in Seq(Ids) /\ Len(items) <= MaxPages
    /\ loops \in BOOLEAN /\ lost \in BOOLEAN
    /\ errors \in 0 .. 3

Ready == snapshot # None

(* Zerion's total is the sum of its own distribution, with no chain in     *)
(* debt; so too when it gave neither.                                      *)
SummaryAgrees ==
    summary # None =>
        /\ SumFunction(summary.chains) = summary.total
        /\ \A z \in DOMAIN summary.chains : summary.chains[z] >= 0

(* The chains' dollars never add up to more than the total, whichever of   *)
(* the parts arrived and however the wallet moved between them             *)
(* (portfolio.py:268, "never both (that doubled Base ~2x)"), unless        *)
(* Zerion's own summary contradicts itself: with one half of it missing,   *)
(* or a chain in debt, total and bars are of two sources.                  *)
BarsWithinTotal ==
    Ready /\ SummaryAgrees => SumFunction(snapshot.byChain) <= snapshot.total

(* All pages of the list were read and nothing in them was passed over.    *)
WholeList == jobs["positions"] = "done" /\ pages < MaxPages /\ ~lost

RowsTotal ==
    SumFunction(snapshot.aggregated)
  + SumFunction([n \in DOMAIN snapshot.defi |-> snapshot.defi[n].usd])

(* The assets and the DeFi rows add up to the total (schemas.py:25, "Sum   *)
(* of priced token + DeFi USD rows") where the total is theirs to give,    *)
(* whatever part of the list they are; and of a wallet that rests, without *)
(* debts, a whole list and Zerion's total agree with each other and with   *)
(* what the wallet is worth.                                               *)
RowsAddUp ==
    Ready =>
        /\ summary = None \/ summary.total <= 0 => snapshot.total = RowsTotal
        /\ /\ trades = 0 /\ WholeList
           /\ \A i \in Asked(held) : Position[i].usd >= 0
           => snapshot.total = RowsTotal /\ RowsTotal = Sum(Asked(held))

(* A snapshot without errors shows every position that the wallet held     *)
(* all along on the chains asked for: a failure in the middle of the list  *)
(* is never a short list (portfolio.py:156-170).  Three things do shorten  *)
(* it in silence, although zerion_client.py:189 says "(all pages)": the    *)
(* page limit, a refused next link, an item of another shape.              *)
CompleteOrReported ==
    Ready /\ snapshot.errors = 0 /\ pages < MaxPages /\ ~lost =>
        \A i \in Asked(kept) :
            \/ \E n \in DOMAIN snapshot.tokens : snapshot.tokens[n].id = i
            \/ \E n \in DOMAIN snapshot.defi : snapshot.defi[n].id = i

(* The request is answered, also when Zerion's pages lead in a circle      *)
(* (zerion_client.py:206).                                                 *)
Answered == <>Ready

================================================================================
