--------------------------- MODULE AgentTurnsProofs ---------------------------
(***************************************************************************)
(* Theorems about AgentTurns, for any set of users, any settings, any      *)
(* questions of the model and any bounds.                                  *)
(***************************************************************************)
EXTENDS AgentTurns, FiniteSetTheorems, WellFoundedInduction, TLAPS

(* A record under an id is what a prepare tool put there: an envelope for  *)
(* the wallet asked for, or a quote; an envelope made of a quote is for    *)
(* the wallet that the quote is for.                                       *)
RecordSound(rs, i) ==
  LET r == rs[i]
  IN  r.st # "absent" =>
        /\ r.kind = "execute_envelope" => r.body \in Envelopes /\ r.from = r.body.from
        /\ r.kind # "execute_envelope" => r.body \in LiFiRequests /\ r.src = 0
        /\ r.src # 0 => /\ rs[r.src].st # "absent"
                        /\ rs[r.src].kind = "lifi_prepared"
                        /\ rs[r.src].body.from \in {None, r.from}

(* Ids are given out in order.                                             *)
RecordsSound(rs) ==
  /\ \A i \in Puts : RecordSound(rs, i)
  /\ \A i, j \in Puts : i < j /\ rs[j].st # "absent" => rs[i].st # "absent"

(* What a call was told to run by id is what the id stands for.            *)
Instructed(e, rs) ==
  /\ e.id \in Puts /\ rs[e.id].st # "absent"
  /\ rs[e.id].kind = "execute_envelope" => e.env = rs[e.id].body
  /\ rs[e.id].kind # "execute_envelope" => e.env.from = rs[e.id].body.from

(* What is signed.                                                         *)
Signed(e) == e.env \in Envelopes /\ e.nonce \in Nat /\ e.signer \in Accounts

Truthful(e, blocks) ==
  /\ e.out = "ok" => e.sent
  /\ e.sent => e.out \in {"ok", "broadcast_failed", "raised"}
  /\ e.status = 1 => [tx |-> Tx(e), ok |-> TRUE] \in blocks

(* A call, by how far it is.                                               *)
CallSound(e, rs, blocks) ==
  /\ e.st = "absent" => e = NoExec
  /\ e.st = "closed" => ~e.sent
  /\ e.st \in {"nonce", "sign", "send", "receipt"} =>
       /\ e.env \in Envelopes /\ e.by \in Users /\ e.status = 0
  /\ e.st \in {"nonce", "sign", "send"} => ~e.sent
  /\ e.st \in {"sign", "send"} => e.nonce \in Nat
  /\ e.st = "receipt" => e.sent
  /\ e.st = "send" \/ e.sent => Signed(e)
  /\ e.st = "returned" => Truthful(e, blocks)
  /\ e.env # None /\ e.form # "envelope" => Instructed(e, rs)

CallsSound == \A n \in Execs : CallSound(ex[n], recs, mined)

(* Whom a message may go to has been resolved in this turn.                *)
TurnSound == {turn.pending, turn.bound} \subseteq turn.resolved \cup {None}

IInv ==
  /\ TypeOK
  /\ IsFiniteSet(pool) /\ IsFiniteSet(mined)
  /\ RecordsSound(recs)
  /\ CallsSound
  /\ TurnSound

-------------------------------------------------------------------------------
(* Checks.                                                                 *)

LEMMA Least ==
  ASSUME NEW S, S \subseteq Nat, S # {}
  PROVE  \E i \in S : \A j \in S : i <= j
<1>1. PICK x \in S : \A y \in S : ~(<<y, x>> \in OpToRel(<, Nat))
  BY NatLessThanWellFounded, WFMin
<1>2. \A y \in S : ~(y < x)
  BY <1>1 DEF OpToRel
<1> QED BY <1>2

(* Of up to six checks the answer is the code of one that holds, None only *)
(* if none does.                                                           *)
LEMMA SomeError ==
  ASSUME NEW n \in 1..6, NEW checks, DOMAIN checks = 1..n
  PROVE  IF \A i \in 1..n : ~checks[i][1] THEN FirstError(checks) = None
         ELSE \E i \in 1..n : checks[i][1] /\ FirstError(checks) = checks[i][2]
<1> DEFINE hit == {i \in 1..n : checks[i][1]}
<1>1. CASE hit = {}
  BY <1>1 DEF FirstError
<1>2. CASE hit # {}
  <2>1. hit \subseteq Nat
    OBVIOUS
  <2> DEFINE m == CHOOSE i \in hit : \A j \in hit : i <= j
  <2>2. m \in hit
    <3> HIDE DEF hit
    <3> QED BY <1>2, <2>1, Least
  <2>3. FirstError(checks) = checks[m][2]
    BY <1>2 DEF FirstError
  <2> QED BY <2>2, <2>3
<1> QED BY <1>1, <1>2

LEMMA NoError ==
  ASSUME NEW n \in 1..6, NEW checks,
         DOMAIN checks = 1..n,
         \A i \in 1..n : checks[i][1] => checks[i][2] # None,
         FirstError(checks) = None
  PROVE  \A i \in 1..n : ~checks[i][1]
BY SomeError

LEMMA PrepareChecked ==
  ASSUME NEW c \in Settings, NEW ctx, NEW in \in Prompts,
         TxPrepareError(c, ctx, in) = None
  PROVE  TxPrepareEnvelope(c, in) \in [kind : {in.kind}, from : Addresses \cup {Zero},
                                       pay : Addresses, mode : Modes, nonce : Nonces]
<1> DEFINE refused == EvmPrepareSigningSettingsError(c, ctx)
           targets == {in.to} \cup (IF in.kind = "native_transfer" THEN {} ELSE {in.token})
           checks == <<
             <<~in.known, "unsupported_chain">>,
             <<refused # None, refused>>,
             <<Malformed \in {in.from} \cup targets, "invalid_input">>,
             <<Zero \in targets, "invalid_input">> >>
<1> HIDE DEF refused
<1>1. FirstError(checks) = None
  BY DEF TxPrepareError, refused
<1>2. DOMAIN checks = 1..4
  OBVIOUS
<1>3. \A i \in 1..4 : checks[i][1] => checks[i][2] # None
  <2>1. checks[1][1] => checks[1][2] # None
    BY EnvelopesAssumption DEF Codes
  <2>2. checks[2][1] => checks[2][2] # None
    BY EnvelopesAssumption DEF Codes
  <2>3. checks[3][1] => checks[3][2] # None
    BY EnvelopesAssumption DEF Codes
  <2>4. checks[4][1] => checks[4][2] # None
    BY EnvelopesAssumption DEF Codes
  <2> HIDE DEF checks
  <2> QED BY <2>1, <2>2, <2>3, <2>4
<1>4. \A i \in 1..4 : ~checks[i][1]
  <2> HIDE DEF checks
  <2> QED BY <1>1, <1>2, <1>3, NoError
<1>5. ~checks[3][1] /\ ~checks[4][1]
  <2> HIDE DEF checks
  <2> QED BY <1>4
<1>6. in.from # Malformed /\ in.to # Malformed /\ in.to # Zero
  BY <1>5
<1> QED BY <1>6 DEF TxPrepareEnvelope, Prompts, Settings, Written, Nonces

LEMMA ExecuteChecked ==
  ASSUME NEW c \in Settings, NEW ctx, NEW env
  PROVE  TxExecuteError(c, ctx, env) \in (Outcomes \ {"ok"}) \cup {None}
<1> DEFINE intents == c.mode = "oneclaw_intents"
           checks == <<
             <<env.mode # c.mode, "policy_rejected">>,
             <<~intents /\ env.from # Operator, "policy_rejected">>,
             <<intents /\ ~c.signer, "secret_not_configured">>,
             <<intents /\ c.hosted /\ ctx = "none", "hosted_signing_context_required">>,
             <<intents /\ c.hosted /\ ctx = "unnamed", "secret_not_configured">>,
             <<intents /\ ~c.hosted /\ ~c.agentId, "secret_not_configured">> >>
<1>1. TxExecuteError(c, ctx, env) = FirstError(checks)
  BY DEF TxExecuteError
<1>2. DOMAIN checks = 1..6
  OBVIOUS
<1>3. \A i \in 1..6 : checks[i][2] \in Outcomes \ {"ok"} /\ checks[i][2] # None
  BY EnvelopesAssumption DEF Codes, Outcomes
<1>4. FirstError(checks) \in (Outcomes \ {"ok"}) \cup {None}
  <2> HIDE DEF checks
  <2>1. CASE \A i \in 1..6 : ~checks[i][1]
    BY <1>2, <2>1, SomeError
  <2>2. CASE ~(\A i \in 1..6 : ~checks[i][1])
    BY <1>2, <1>3, <2>2, SomeError
  <2> QED BY <2>1, <2>2
<1> QED BY <1>1, <1>4

LEMMA SwapChecked ==
  ASSUME NEW in \in Prompts, SwapPrepareError(in) = None
  PROVE  in.from \in Addresses \cup {Zero}
<1> DEFINE checks == <<
             <<~in.known, "unsupported_chain">>,
             <<Malformed \in {in.from, in.to}, "invalid_input">> >>
<1>1. FirstError(checks) = None
  BY DEF SwapPrepareError
<1>2. DOMAIN checks = 1..2
  OBVIOUS
<1>3. \A i \in 1..2 : checks[i][1] => checks[i][2] # None
  BY EnvelopesAssumption DEF Codes
<1>4. \A i \in 1..2 : ~checks[i][1]
  <2> HIDE DEF checks
  <2> QED BY <1>1, <1>2, <1>3, NoError
<1>5. ~checks[2][1]
  <2> HIDE DEF checks
  <2> QED BY <1>4
<1> QED BY <1>5 DEF Prompts, Written

LEMMA QuotesAreRequests ==
  ASSUME NEW in \in Prompts, SwapPrepareError(in) = None, NEW answers,
         answers \subseteq QuoteAnswers
  PROVE  SwapQuotes(in, answers) \subseteq LiFiRequests
<1>1. in.from \in Addresses \cup {Zero}
  BY SwapChecked
<1> SUFFICES ASSUME NEW a \in QuoteAnswers
             PROVE  [pay |-> Outsider, from |-> IF a.from = "own" THEN in.from ELSE a.from,
                     chainId |-> a.chainId, nonce |-> a.nonce] \in LiFiRequests
  BY DEF SwapQuotes
<1> QED BY <1>1 DEF QuoteAnswers, LiFiRequests, Addresses

(* A quote that converts is for the wallet it is converted for.            *)
LEMMA LiFiChecked ==
  ASSUME NEW c \in Settings, NEW ctx, NEW known, NEW from \in Written,
         NEW tr \in LiFiRequests, PrepareLiFiSucceeds(c, ctx, known, from, tr)
  PROVE  /\ LiFiEnvelope(c, from, tr) \in Envelopes
         /\ tr.from \in {None, from}
<1> DEFINE refused == EvmPrepareSigningSettingsError(c, ctx)
           checks == <<
             <<~known, "unsupported_chain">>,
             <<refused # None, refused>>,
             <<from = Malformed, "invalid_input">> >>
<1> HIDE DEF refused
<1>1. FirstError(checks) = None
  BY DEF PrepareLiFiSucceeds, TxPrepareLiFiError, refused
<1>2. DOMAIN checks = 1..3
  OBVIOUS
<1>3. \A i \in 1..3 : checks[i][1] => checks[i][2] # None
  <2>1. checks[1][1] => checks[1][2] # None
    BY EnvelopesAssumption DEF Codes
  <2>2. checks[2][1] => checks[2][2] # None
    BY EnvelopesAssumption DEF Codes
  <2>3. checks[3][1] => checks[3][2] # None
    BY EnvelopesAssumption DEF Codes
  <2> HIDE DEF checks
  <2> QED BY <2>1, <2>2, <2>3
<1>4. \A i \in 1..3 : ~checks[i][1]
  <2> HIDE DEF checks
  <2> QED BY <1>1, <1>2, <1>3, NoError
<1>5. ~checks[3][1]
  <2> HIDE DEF checks
  <2> QED BY <1>4
<1>6. from \in Addresses \cup {Zero}
  BY <1>5 DEF Written
<1> QED BY <1>6 DEF LiFiEnvelope, LiFiRequests, Envelopes, Kinds, Settings,
                    PrepareLiFiSucceeds, LiFiMismatch

LEMMA Coerced ==
  ASSUME NEW c \in Settings, NEW ctx, NEW tr \in LiFiRequests, CoercibleLiFi(c, ctx, tr)
  PROVE  LiFiEnvelope(c, tr.from, tr) \in Envelopes
BY DEF CoercibleLiFi, LiFiEnvelope, LiFiRequests, Envelopes, Kinds, Settings

-------------------------------------------------------------------------------
(* The store.                                                              *)

(* The store forgets records; it changes none and brings none back.        *)
Forgets(rs, ss) ==
  \A i \in Puts :
    /\ ss[i].kind = rs[i].kind /\ ss[i].body = rs[i].body /\ ss[i].by = rs[i].by
    /\ ss[i].born = rs[i].born /\ ss[i].src = rs[i].src /\ ss[i].from = rs[i].from
    /\ ss[i].st = rs[i].st \/ (rs[i].st = "live" /\ ss[i].st = "gone")

(* What is put beside the records there are changes none of them.          *)
Keeps(rs, ss) ==
  \A i \in Puts : rs[i].st # "absent" =>
    /\ ss[i].st # "absent"
    /\ ss[i].kind = rs[i].kind /\ ss[i].body = rs[i].body /\ ss[i].src = rs[i].src
    /\ ss[i].born = rs[i].born /\ ss[i].by = rs[i].by /\ ss[i].from = rs[i].from

(* Records lost between two states of the store, and why.                  *)
Losing(rs, ss, now) ==
  \A i \in Puts : rs[i].st # "gone" /\ ss[i].st = "gone" =>
    \/ now - ss[i].born > Ttl
    \/ Cardinality({j \in Puts : j > i /\ ss[j].st # "absent"}) >= MaxEntries

LEMMA Purging ==
  ASSUME NEW rs \in [Puts -> Records], NEW now \in Times
  PROVE  /\ Purged(rs, now) \in [Puts -> Records]
         /\ Forgets(rs, Purged(rs, now))
         /\ \A i \in Puts : Purged(rs, now)[i].st = "live"
              => rs[i].st = "live" /\ now - rs[i].born <= Ttl
         /\ \A i \in Puts : Purged(rs, now)[i].st # rs[i].st => now - rs[i].born > Ttl
<1> DEFINE ss == Purged(rs, now)
<1>1. ss = [i \in Puts |-> IF rs[i].st = "live" /\ now - rs[i].born > Ttl
                           THEN [rs[i] EXCEPT !.st = "gone"] ELSE rs[i]]
  BY DEF Purged
<1>2. ASSUME NEW i \in Puts
      PROVE  /\ ss[i] \in Records
             /\ ss[i].kind = rs[i].kind /\ ss[i].body = rs[i].body /\ ss[i].by = rs[i].by
             /\ ss[i].born = rs[i].born /\ ss[i].src = rs[i].src /\ ss[i].from = rs[i].from
             /\ ss[i].st = rs[i].st \/ (rs[i].st = "live" /\ ss[i].st = "gone")
             /\ ss[i].st = "live" => rs[i].st = "live" /\ ~(now - rs[i].born > Ttl)
             /\ ss[i].st # rs[i].st => now - rs[i].born > Ttl
  BY <1>1 DEF Records
<1>3. \A i \in Puts : now - rs[i].born \in Int /\ Ttl \in Int
  BY TurnsAssumption DEF Records, Times
<1> HIDE DEF ss
<1>4. ss \in [Puts -> Records]
  <2>1. DOMAIN ss = Puts
    BY <1>1
  <2> QED BY <1>1, <1>2, <2>1
<1>5. \A i \in Puts : ss[i].st = "live" => rs[i].st = "live" /\ now - rs[i].born <= Ttl
  BY <1>2, <1>3
<1> QED BY <1>2, <1>4, <1>5 DEF Forgets, ss

LEMMA PutsFinite == /\ Puts \subseteq Nat /\ IsFiniteSet(Puts)
                    /\ \A T \in SUBSET Puts : IsFiniteSet(T) /\ Cardinality(T) \in Nat
<1>1. Puts \subseteq Nat /\ IsFiniteSet(Puts)
  BY TurnsAssumption, FS_Interval DEF Puts
<1> QED BY <1>1, FS_Subset, FS_CardinalityType

LEMMA OldestIsLive ==
  ASSUME NEW rs \in [Puts -> Records], Cardinality(LiveIds(rs)) > MaxEntries
  PROVE  /\ Oldest(rs) \in Puts /\ rs[Oldest(rs)].st = "live"
         /\ \A j \in Puts : rs[j].st = "live" => Oldest(rs) <= j
<1>1. LiveIds(rs) # {}
  BY TurnsAssumption, FS_EmptySet
<1>2. LiveIds(rs) \subseteq Nat
  BY PutsFinite DEF LiveIds
<1>3. \E i \in LiveIds(rs) : \A j \in LiveIds(rs) : i <= j
  BY <1>1, <1>2, Least
<1>4. Oldest(rs) \in LiveIds(rs) /\ \A j \in LiveIds(rs) : Oldest(rs) <= j
  BY <1>3 DEF Oldest
<1> QED BY <1>4 DEF LiveIds

LEMMA Storing ==
  ASSUME NEW rs \in [Puts -> Records], NEW i \in Puts, NEW rec \in Records
  PROVE  LET in == [rs EXCEPT ![i] = rec]
             ss == Stored(rs, i, rec)
         IN  /\ ss \in [Puts -> Records] /\ Forgets(in, ss)
             /\ \A j \in Puts : ss[j].st # in[j].st =>
                  \/ rec.born - in[j].born > Ttl
                  \/ Cardinality({k \in Puts : k > j /\ in[k].st # "absent"}) >= MaxEntries
<1> DEFINE in == [rs EXCEPT ![i] = rec]
           out == Purged(in, rec.born)
           ss == Stored(rs, i, rec)
           o == Oldest(out)
<1>1. in \in [Puts -> Records]
  OBVIOUS
<1>2. /\ out \in [Puts -> Records] /\ Forgets(in, out)
      /\ \A j \in Puts : out[j].st # in[j].st => rec.born - in[j].born > Ttl
  BY <1>1, Purging DEF Records
<1>3. ss = IF Cardinality(LiveIds(out)) > MaxEntries
           THEN [out EXCEPT ![o].st = "gone"] ELSE out
  BY DEF Stored
<1> HIDE DEF in, out, ss, o
<1>4. CASE Cardinality(LiveIds(out)) > MaxEntries
  <2>1. /\ o \in Puts /\ out[o].st = "live"
        /\ \A j \in Puts : out[j].st = "live" => o <= j
    BY <1>2, <1>4, OldestIsLive DEF o
  <2>2. /\ \A j \in Puts : j # o => ss[j] = out[j]
        /\ ss[o] = [out[o] EXCEPT !.st = "gone"]
    BY <1>2, <1>3, <1>4, <2>1
  <2>3. ss \in [Puts -> Records]
    BY <1>2, <1>3, <1>4, <2>1 DEF Records
  <2>4. Cardinality({k \in Puts : k > o /\ in[k].st # "absent"}) >= MaxEntries
    <3> DEFINE later == {k \in Puts : k > o /\ in[k].st # "absent"}
    <3>1. LiveIds(out) \ {o} \subseteq later
      <4> SUFFICES ASSUME NEW k \in Puts, out[k].st = "live", k # o
                   PROVE  k > o /\ in[k].st # "absent"
        BY DEF LiveIds
      <4>1. k \in Nat /\ o \in Nat /\ o <= k
        BY <2>1, PutsFinite
      <4>2. in[k].st # "absent"
        BY <1>2 DEF Forgets
      <4> QED BY <4>1, <4>2
    <3>2. /\ IsFiniteSet(LiveIds(out)) /\ IsFiniteSet(later)
          /\ Cardinality(LiveIds(out)) \in Nat /\ Cardinality(later) \in Nat
      BY PutsFinite DEF LiveIds
    <3>3. Cardinality(LiveIds(out) \ {o}) = Cardinality(LiveIds(out)) - 1
      BY <2>1, <3>2, FS_RemoveElement DEF LiveIds
    <3>4. Cardinality(LiveIds(out) \ {o}) <= Cardinality(later)
      BY <3>1, <3>2, FS_Subset
    <3> HIDE DEF later
    <3>5. Cardinality(later) >= MaxEntries
      BY <1>4, <3>2, <3>3, <3>4, TurnsAssumption
    <3> QED BY <3>5 DEF later
  <2>5. Forgets(in, ss)
    BY <1>2, <2>1, <2>2 DEF Forgets, Records
  <2>6. \A j \in Puts : ss[j].st # in[j].st =>
           \/ rec.born - in[j].born > Ttl
           \/ Cardinality({k \in Puts : k > j /\ in[k].st # "absent"}) >= MaxEntries
    BY <1>2, <2>2, <2>4
  <2> QED BY <2>3, <2>5, <2>6 DEF in, ss
<1>5. CASE ~(Cardinality(LiveIds(out)) > MaxEntries)
  <2>1. ss = out
    BY <1>3, <1>5
  <2> QED BY <1>2, <2>1 DEF in, ss
<1> QED BY <1>4, <1>5

LEMMA SoundAfterForgetting ==
  ASSUME NEW rs, NEW ss, Forgets(rs, ss), RecordsSound(rs), rs \in [Puts -> Records]
  PROVE  RecordsSound(ss)
<1> SUFFICES ASSUME NEW i \in Puts, ss[i].st # "absent" PROVE RecordSound(ss, i)
  BY DEF RecordsSound, RecordSound, Forgets
<1>1. RecordSound(rs, i) /\ rs[i].st # "absent"
  BY DEF RecordsSound, Forgets
<1>2. rs[i].src # 0 => rs[i].src \in Puts
  BY DEF Records
<1> QED BY <1>1, <1>2 DEF RecordSound, Forgets

LEMMA PurgingLoses ==
  ASSUME NEW rs \in [Puts -> Records], NEW now \in Times
  PROVE  Losing(rs, Purged(rs, now), now)
BY Purging DEF Losing, Forgets

LEMMA StoringLoses ==
  ASSUME NEW rs \in [Puts -> Records], NEW i \in Puts, NEW rec \in Records, rec.st = "live"
  PROVE  Losing(rs, Stored(rs, i, rec), rec.born)
<1> DEFINE in == [rs EXCEPT ![i] = rec]
           ss == Stored(rs, i, rec)
<1>1. /\ Forgets(in, ss)
      /\ \A j \in Puts : ss[j].st # in[j].st =>
           \/ rec.born - in[j].born > Ttl
           \/ Cardinality({k \in Puts : k > j /\ in[k].st # "absent"}) >= MaxEntries
  BY Storing
<1>2. in[i] = rec /\ \A j \in Puts : j # i => in[j] = rs[j]
  OBVIOUS
<1> HIDE DEF in, ss
<1>3. SUFFICES ASSUME NEW j \in Puts, rs[j].st # "gone", ss[j].st = "gone"
               PROVE  \/ rec.born - ss[j].born > Ttl
                      \/ Cardinality({k \in Puts : k > j /\ ss[k].st # "absent"}) >= MaxEntries
  BY DEF Losing, ss
<1>4. in[j].st # "gone" /\ ss[j].born = in[j].born
  BY <1>1, <1>2, <1>3 DEF Forgets
<1>5. {k \in Puts : k > j /\ in[k].st # "absent"} = {k \in Puts : k > j /\ ss[k].st # "absent"}
  BY <1>1 DEF Forgets
<1> QED BY <1>1, <1>3, <1>4, <1>5

LEMMA LosingTwice ==
  ASSUME NEW rs, NEW ms, NEW ss, NEW now,
         Losing(rs, ms, now), Losing(ms, ss, now), Keeps(ms, ss)
  PROVE  Losing(rs, ss, now)
<1> SUFFICES ASSUME NEW i \in Puts, rs[i].st # "gone", ss[i].st = "gone"
             PROVE  \/ now - ss[i].born > Ttl
                    \/ Cardinality({j \in Puts : j > i /\ ss[j].st # "absent"}) >= MaxEntries
  BY DEF Losing
<1>1. CASE ms[i].st # "gone"
  BY <1>1 DEF Losing
<1>2. CASE ms[i].st = "gone"
  <2> DEFINE before == {j \in Puts : j > i /\ ms[j].st # "absent"}
             after == {j \in Puts : j > i /\ ss[j].st # "absent"}
  <2>1. now - ms[i].born > Ttl \/ Cardinality(before) >= MaxEntries
    BY <1>2 DEF Losing
  <2>2. ms[i].born = ss[i].born
    BY <1>2 DEF Keeps
  <2>3. before \subseteq after
    BY DEF Keeps
  <2>4. before \in SUBSET Puts /\ after \in SUBSET Puts
    OBVIOUS
  <2> HIDE DEF before, after
  <2>5. IsFiniteSet(after) /\ Cardinality(before) \in Nat /\ Cardinality(after) \in Nat
    BY <2>4, PutsFinite
  <2>6. Cardinality(before) <= Cardinality(after)
    BY <2>3, <2>5, FS_Subset
  <2>7. Cardinality(before) >= MaxEntries => Cardinality(after) >= MaxEntries
    BY <2>5, <2>6, TurnsAssumption
  <2> QED BY <2>1, <2>2, <2>7 DEF after
<1> QED BY <1>1, <1>2

(* A sound record under a new id leaves the store sound.                   *)
LEMMA SoundAfterStoring ==
  ASSUME NEW rs \in [Puts -> Records], RecordsSound(rs), NEW i \in Puts,
         rs[i].st = "absent", \A j \in 1..(i - 1) : rs[j].st # "absent", NEW rec \in Records, rec.st = "live",
         rec.kind = "execute_envelope" => rec.body \in Envelopes /\ rec.from = rec.body.from,
         rec.kind # "execute_envelope" => rec.body \in LiFiRequests /\ rec.src = 0,
         rec.src # 0 => /\ rec.src \in Puts /\ rs[rec.src].st # "absent"
                        /\ rs[rec.src].kind = "lifi_prepared"
                        /\ rs[rec.src].body.from \in {None, rec.from}
  PROVE  /\ Stored(rs, i, rec) \in [Puts -> Records]
         /\ RecordsSound(Stored(rs, i, rec))
         /\ Keeps(rs, Stored(rs, i, rec))
         /\ \A j \in Puts : j # i /\ rs[j].st = "absent"
              => Stored(rs, i, rec)[j].st = "absent"
         /\ Stored(rs, i, rec)[i].kind = rec.kind
         /\ Stored(rs, i, rec)[i].body = rec.body
         /\ Stored(rs, i, rec)[i].st # "absent"
<1> DEFINE in == [rs EXCEPT ![i] = rec]
           ss == Stored(rs, i, rec)
<1>1. in \in [Puts -> Records] /\ ss \in [Puts -> Records] /\ Forgets(in, ss)
  BY Storing
<1>2. RecordsSound(in)
  <2>0. ASSUME NEW j \in Puts, NEW k \in Puts, j < k, in[k].st # "absent"
        PROVE  in[j].st # "absent"
    <3>1. k = i => j \in 1..(i - 1)
      BY <2>0 DEF Puts
    <3> QED BY <2>0, <3>1 DEF RecordsSound
  <2> SUFFICES ASSUME NEW j \in Puts PROVE RecordSound(in, j)
    BY <2>0 DEF RecordsSound
  <2>1. CASE j = i
    <3>1. in[j] = rec
      BY <2>1
    <3>2. rec.src # 0 => in[rec.src] = rs[rec.src]
      OBVIOUS
    <3> HIDE DEF in
    <3> QED BY <3>1, <3>2 DEF RecordSound
  <2>2. CASE j # i
    <3>1. in[j] = rs[j]
      BY <2>2
    <3>2. RecordSound(rs, j)
      BY DEF RecordsSound
    <3>3. rs[j].st # "absent" /\ rs[j].src # 0 => rs[j].src \in Puts /\ rs[j].src # i
      BY <3>2 DEF RecordSound, Records
    <3>4. rs[j].st # "absent" /\ rs[j].src # 0 => in[rs[j].src] = rs[rs[j].src]
      BY <3>3
    <3> HIDE DEF in
    <3> QED BY <3>1, <3>2, <3>4 DEF RecordSound
  <2> QED BY <2>1, <2>2
<1>3. in[i] = rec /\ \A j \in Puts : j # i => in[j] = rs[j]
  OBVIOUS
<1> HIDE DEF in, ss
<1>4. RecordsSound(ss)
  BY <1>1, <1>2, SoundAfterForgetting
<1> QED BY <1>1, <1>3, <1>4 DEF Forgets, Keeps, ss

-------------------------------------------------------------------------------
(* Calls.                                                                  *)

LEMMA CallStays ==
  ASSUME NEW e, NEW rs, NEW ss, NEW b1, NEW b2,
         CallSound(e, rs, b1), Keeps(rs, ss), b1 \subseteq b2
  PROVE  CallSound(e, ss, b2)
<1>1. e.st = "returned" => Truthful(e, b2)
  BY DEF CallSound, Truthful
<1>2. e.env # None /\ e.form # "envelope" => Instructed(e, ss)
  BY DEF CallSound, Instructed, Keeps
<1> QED BY <1>1, <1>2 DEF CallSound

LEMMA OneCall ==
  ASSUME TypeOK, CallsSound, NEW n \in Execs, NEW e \in Calls,
         ex' = [ex EXCEPT ![n] = e], CallSound(e, recs', mined),
         Keeps(recs, recs'), UNCHANGED <<cfg, mined>>
  PROVE  ex' \in [Execs -> Calls] /\ CallsSound'
<1>1. ex' \in [Execs -> Calls]
  BY DEF TypeOK
<1>2. ASSUME NEW m \in Execs PROVE CallSound(ex'[m], recs', mined)
  <2>1. CASE m = n
    BY <2>1 DEF TypeOK
  <2>2. CASE m # n
    <3>1. ex'[m] = ex[m] /\ CallSound(ex[m], recs, mined)
      BY <2>2 DEF TypeOK, CallsSound
    <3> QED BY <3>1, CallStays
  <2> QED BY <2>1, <2>2
<1> QED BY <1>1, <1>2 DEF CallsSound

LEMMA NoCall ==
  ASSUME CallsSound, UNCHANGED <<cfg, ex>>, Keeps(recs, recs'), mined \subseteq mined'
  PROVE  CallsSound'
<1> SUFFICES ASSUME NEW n \in Execs PROVE CallSound(ex[n], recs', mined')
  BY DEF CallsSound
<1> QED BY CallStays DEF CallsSound

LEMMA KeepsItself == Keeps(recs, recs)
BY DEF Keeps

LEMMA ForgettingKeeps ==
  ASSUME NEW rs, NEW ss, Forgets(rs, ss)
  PROVE  Keeps(rs, ss)
BY DEF Forgets, Keeps

LEMMA Initially == Init => IInv
<1> SUFFICES ASSUME Init PROVE IInv
  OBVIOUS
<1>1. NoRecord \in Records
  BY TurnsAssumption DEF NoRecord, Records, Times
<1>2. NoExec \in Calls
  BY DEF NoExec, Calls, Nonces
<1>3. NoTurn \in Turns
  BY TurnsAssumption DEF NoTurn, Turns, Contexts
<1>4. TypeOK
  BY <1>1, <1>2, <1>3, TurnsAssumption DEF Init, TypeOK, Times
<1>5. RecordsSound(recs)
  BY DEF Init, RecordsSound, RecordSound, NoRecord
<1>6. CallsSound
  BY DEF Init, CallsSound, CallSound, NoExec
<1>7. TurnSound
  BY DEF Init, TurnSound, NoTurn
<1>8. IsFiniteSet(pool) /\ IsFiniteSet(mined)
  BY FS_EmptySet DEF Init
<1> QED BY <1>4, <1>5, <1>6, <1>7, <1>8 DEF IInv

-------------------------------------------------------------------------------
(* The prepare tools.                                                      *)

(* A step of the store alone.                                              *)
LEMMA StoreStep ==
  ASSUME IInv, recs' \in [Puts -> Records], RecordsSound(recs'), Keeps(recs, recs'),
         UNCHANGED <<cfg, clock, ex, chain, turn, turns, dms>>
  PROVE  IInv'
<1>1. CallsSound'
  BY NoCall DEF IInv, chain
<1>2. TypeOK' /\ TurnSound' /\ IsFiniteSet(pool)' /\ IsFiniteSet(mined)'
  BY DEF IInv, TypeOK, TurnSound, chain
<1>3. RecordsSound(recs)'
  OBVIOUS
<1> QED BY <1>1, <1>2, <1>3 DEF IInv

LEMMA TxPrepareStep ==
  ASSUME IInv, NEW i \in Puts, NEW in \in Asked, TxPrepare(i, in)
  PROVE  IInv' /\ Losing(recs, recs', clock)
<1> DEFINE env == TxPrepareEnvelope(cfg, in)
           rec == Record("execute_envelope", env, 0, in.from)
<1>0. in \in Prompts /\ cfg \in Settings /\ in.kind \in EvmKinds
  BY TurnsAssumption DEF IInv, TypeOK, TxPrepare
<1>1. env \in [kind : {in.kind}, from : Addresses \cup {Zero}, pay : Addresses,
               mode : Modes, nonce : Nonces]
  BY <1>0, PrepareChecked DEF TxPrepare
<1>2. env \in Envelopes /\ env.from = in.from
  BY <1>0, <1>1 DEF Envelopes, Kinds, TxPrepareEnvelope
<1>3. rec \in Records
  BY <1>0, <1>2 DEF Record, Records, IInv, TypeOK, Turns, Prompts
<1>4. /\ rec.st = "live" /\ rec.kind = "execute_envelope" /\ rec.body = env
      /\ rec.src = 0 /\ rec.from = in.from /\ rec.born = clock
  BY DEF Record
<1>5. recs \in [Puts -> Records] /\ RecordsSound(recs)
  BY DEF IInv, TypeOK
<1>6. recs[i].st = "absent" /\ \A j \in 1..(i - 1) : recs[j].st # "absent"
  BY DEF TxPrepare, Free, NextId
<1>7. recs' = Stored(recs, i, rec)
  BY DEF TxPrepare
<1> HIDE DEF rec, env
<1>8. recs' \in [Puts -> Records] /\ RecordsSound(recs') /\ Keeps(recs, recs')
  BY <1>2, <1>3, <1>4, <1>5, <1>6, <1>7, SoundAfterStoring
<1>9. Losing(recs, recs', clock)
  BY <1>3, <1>4, <1>5, <1>7, StoringLoses
<1> QED BY <1>8, <1>9, StoreStep DEF TxPrepare

LEMMA SwapStep ==
  ASSUME IInv, NEW i \in Puts, NEW in \in Asked, SwapPrepareWithPreparedStorage(i, in)
  PROVE  IInv' /\ Losing(recs, recs', clock)
<1>0. /\ in \in Prompts /\ cfg \in Settings /\ SwapPrepareError(in) = None
      /\ in.from \in Written
  BY TurnsAssumption DEF IInv, TypeOK, SwapPrepareWithPreparedStorage, Prompts
<1> PICK tr \in SwapQuotes(in, Quoted) :
      LET quoted == Stored(recs, i, Record("lifi_prepared", tr, 0, in.from))
      IN  IF PrepareLiFiSucceeds(cfg, turn.ctx, TRUE, in.from, tr)
          THEN /\ i < MaxPuts /\ Used + 1 < MaxUsed
               /\ recs' = Stored(quoted, i + 1, Record("execute_envelope",
                                                       LiFiEnvelope(cfg, in.from, tr),
                                                       i, in.from))
          ELSE recs' = quoted
  BY DEF SwapPrepareWithPreparedStorage
<1>1. tr \in LiFiRequests
  BY <1>0, QuotesAreRequests, TurnsAssumption
<1> DEFINE quote == Record("lifi_prepared", tr, 0, in.from)
           quoted == Stored(recs, i, quote)
<1>2. /\ quote \in Records /\ quote.st = "live" /\ quote.kind = "lifi_prepared"
      /\ quote.body = tr /\ quote.src = 0 /\ quote.born = clock
  BY <1>0, <1>1 DEF Record, Records, IInv, TypeOK, Turns
<1>3. recs \in [Puts -> Records] /\ RecordsSound(recs)
  BY DEF IInv, TypeOK
<1>4. recs[i].st = "absent" /\ \A j \in 1..(i - 1) : recs[j].st # "absent"
  BY DEF SwapPrepareWithPreparedStorage, Free, NextId
<1> HIDE DEF quote
<1>5. /\ quoted \in [Puts -> Records] /\ RecordsSound(quoted) /\ Keeps(recs, quoted)
      /\ \A j \in Puts : j # i /\ recs[j].st = "absent" => quoted[j].st = "absent"
      /\ quoted[i].kind = "lifi_prepared" /\ quoted[i].body = tr
      /\ quoted[i].st # "absent"
  BY <1>1, <1>2, <1>3, <1>4, SoundAfterStoring
<1>8. Losing(recs, quoted, clock)
  BY <1>2, <1>3, StoringLoses
<1>6. CASE ~PrepareLiFiSucceeds(cfg, turn.ctx, TRUE, in.from, tr)
  <2>1. recs' = quoted
    BY <1>6 DEF quote
  <2> QED BY <1>5, <1>8, <2>1, StoreStep DEF SwapPrepareWithPreparedStorage
<1>7. CASE PrepareLiFiSucceeds(cfg, turn.ctx, TRUE, in.from, tr)
  <2> DEFINE env == LiFiEnvelope(cfg, in.from, tr)
             rec == Record("execute_envelope", env, i, in.from)
  <2>1. i < MaxPuts /\ recs' = Stored(quoted, i + 1, rec)
    BY <1>7 DEF quote
  <2>2. env \in Envelopes /\ env.from = in.from /\ tr.from \in {None, in.from}
    BY <1>0, <1>1, <1>7, LiFiChecked DEF LiFiEnvelope
  <2>3. /\ rec \in Records /\ rec.st = "live" /\ rec.kind = "execute_envelope"
        /\ rec.body = env /\ rec.src = i /\ rec.from = in.from /\ rec.born = clock
    BY <1>0, <2>2 DEF Record, Records, IInv, TypeOK, Turns
  <2>4. i + 1 \in Puts /\ i + 1 # i /\ i < i + 1
    BY <2>1, TurnsAssumption DEF Puts
  <2>5. quoted[i + 1].st = "absent"
    <3>1. recs[i + 1].st = "absent"
      BY <1>3, <1>4, <2>4 DEF RecordsSound
    <3> QED BY <1>5, <2>4, <3>1
  <2>6. \A j \in 1..((i + 1) - 1) : quoted[j].st # "absent"
    <3> SUFFICES ASSUME NEW j \in 1..((i + 1) - 1) PROVE quoted[j].st # "absent"
      OBVIOUS
    <3>1. j \in Puts /\ (j = i \/ j \in 1..(i - 1))
      BY <2>4, TurnsAssumption DEF Puts
    <3> QED BY <1>4, <1>5, <3>1 DEF Keeps
  <2> HIDE DEF quoted, env, rec
  <2>7. /\ Stored(quoted, i + 1, rec) \in [Puts -> Records]
        /\ RecordsSound(Stored(quoted, i + 1, rec))
        /\ Keeps(quoted, Stored(quoted, i + 1, rec))
    BY <1>5, <2>2, <2>3, <2>4, <2>5, <2>6, SoundAfterStoring
  <2>8. Keeps(recs, recs')
    BY <1>5, <2>1, <2>7 DEF Keeps
  <2>9. Losing(recs, recs', clock)
    BY <1>5, <1>8, <2>1, <2>3, <2>4, <2>7, StoringLoses, LosingTwice
  <2> QED BY <2>1, <2>7, <2>8, <2>9, StoreStep DEF SwapPrepareWithPreparedStorage
<1> QED BY <1>6, <1>7

LEMMA PrepareLiFiSwapStep ==
  ASSUME IInv, NEW i \in Puts, NEW j \in Puts, NEW from \in Accounts,
         PrepareLiFiSwap(i, j, from)
  PROVE  IInv' /\ Losing(recs, recs', clock)
<1> DEFINE rs == Purged(recs, clock)
<1>1. recs \in [Puts -> Records] /\ RecordsSound(recs) /\ clock \in Times /\ cfg \in Settings
  BY TurnsAssumption DEF IInv, TypeOK
<1>2. /\ rs \in [Puts -> Records] /\ Forgets(recs, rs) /\ RecordsSound(rs)
      /\ Keeps(recs, rs) /\ Losing(recs, rs, clock)
  BY <1>1, Purging, PurgingLoses, SoundAfterForgetting, ForgettingKeeps
<1> DEFINE env == LiFiEnvelope(cfg, from, rs[i].body)
           rec == Record("execute_envelope", env, i, from)
           good == /\ rs[i].st = "live" /\ rs[i].kind = "lifi_prepared"
                   /\ PrepareLiFiSucceeds(cfg, turn.ctx, TRUE, from, rs[i].body)
<1>3. CASE ~good
  <2>1. recs' = rs
    BY <1>3 DEF PrepareLiFiSwap
  <2> QED BY <1>2, <2>1, StoreStep DEF PrepareLiFiSwap
<1>4. CASE good
  <2>1. recs' = Stored(rs, j, rec)
    BY <1>4 DEF PrepareLiFiSwap
  <2>2. rs[i].body \in LiFiRequests /\ rs[i].st # "absent" /\ rs[i].kind = "lifi_prepared"
    BY <1>2, <1>4 DEF RecordsSound, RecordSound
  <2>3. from \in Written
    BY DEF Written, Addresses
  <2>4. env \in Envelopes /\ env.from = from /\ rs[i].body.from \in {None, from}
    BY <1>1, <1>4, <2>2, <2>3, LiFiChecked DEF LiFiEnvelope
  <2>5. /\ rec \in Records /\ rec.st = "live" /\ rec.kind = "execute_envelope"
        /\ rec.body = env /\ rec.src = i /\ rec.from = from /\ rec.born = clock
    BY <1>1, <2>3, <2>4 DEF Record, Records, IInv, TypeOK, Turns
  <2>6. rs[j].st = "absent" /\ \A k \in 1..(j - 1) : rs[k].st # "absent"
    <3>1. recs[j].st = "absent" /\ \A k \in 1..(j - 1) : recs[k].st # "absent"
      BY DEF PrepareLiFiSwap, NextId
    <3>2. \A k \in 1..(j - 1) : k \in Puts
      BY TurnsAssumption DEF Puts
    <3> QED BY <1>2, <3>1, <3>2 DEF Forgets, Keeps
  <2> HIDE DEF rs, env, rec
  <2>7. /\ Stored(rs, j, rec) \in [Puts -> Records] /\ RecordsSound(Stored(rs, j, rec))
        /\ Keeps(rs, Stored(rs, j, rec))
    BY <1>2, <2>2, <2>4, <2>5, <2>6, SoundAfterStoring
  <2>8. Keeps(recs, recs')
    BY <1>2, <2>1, <2>7 DEF Keeps
  <2>9. Losing(recs, recs', clock)
    BY <1>2, <2>1, <2>5, <2>7, StoringLoses, LosingTwice
  <2> QED BY <2>1, <2>7, <2>8, <2>9, StoreStep DEF PrepareLiFiSwap
<1> QED BY <1>3, <1>4

LEMMA ResolvePeerStep ==
  ASSUME IInv, NEW p \in Users, NEW seen \in BOOLEAN, ResolvePeer(p, seen)
  PROVE  IInv'
<1>1. turn' \in Turns
  BY DEF ResolvePeer, IInv, TypeOK, Turns
<1>2. TurnSound'
  BY DEF ResolvePeer, IInv, TypeOK, Turns, TurnSound
<1>3. CallsSound'
  BY NoCall, KeepsItself DEF ResolvePeer, IInv, chain
<1> QED BY <1>1, <1>2, <1>3 DEF ResolvePeer, IInv, TypeOK, chain

-------------------------------------------------------------------------------
(* tx_execute.                                                             *)

(* A step of one call, and perhaps of the store.                           *)
LEMMA CallStep ==
  ASSUME IInv, NEW n \in Execs, NEW e \in Calls, ex' = [ex EXCEPT ![n] = e],
         CallSound(e, recs', mined),
         recs' \in [Puts -> Records], RecordsSound(recs'), Keeps(recs, recs'),
         turn' \in Turns, TurnSound', dms' \subseteq [to: Users, exec: Execs],
         UNCHANGED <<cfg, clock, chain, turns>>
  PROVE  IInv'
<1>1. ex' \in [Execs -> Calls] /\ CallsSound'
  BY OneCall DEF IInv, chain
<1>2. TypeOK'
  BY <1>1 DEF IInv, TypeOK, chain
<1> QED BY <1>1, <1>2 DEF IInv, chain

LEMMA CallOnlyStep ==
  ASSUME IInv, NEW n \in Execs, NEW e \in Calls, ex' = [ex EXCEPT ![n] = e],
         CallSound(e, recs, mined),
         UNCHANGED <<cfg, clock, recs, chain, turn, turns, dms>>
  PROVE  IInv'
<1>1. recs' \in [Puts -> Records] /\ RecordsSound(recs') /\ Keeps(recs, recs')
  BY KeepsItself DEF IInv, TypeOK
<1>2. turn' \in Turns /\ TurnSound' /\ dms' \subseteq [to: Users, exec: Execs]
  BY DEF IInv, TypeOK, TurnSound
<1> QED BY <1>1, <1>2, CallStep

(* Nothing has happened to the call yet.                                   *)
Fresh(e) ==
  /\ e.st = "absent" /\ ~e.sent /\ e.status = 0 /\ e.out = None /\ e.nonce = None
  /\ e.signer = None

(* How a call starts: refused, or on its way with an envelope it may sign. *)
LEMMA BegunSound ==
  ASSUME cfg \in Settings, NEW n \in Execs, NEW rs, NEW e \in Calls, ex \in [Execs -> Calls],
         Fresh(e), e.by \in Users, e.env \in Envelopes \cup {None},
         e.env # None /\ e.form # "envelope" => Instructed(e, rs)
  PROVE  \E f \in Calls :
           /\ Begun(n, e) = [ex EXCEPT ![n] = f]
           /\ CallSound(f, rs, mined)
           /\ f.form = e.form /\ f.id = e.id /\ f.env = e.env /\ f.by = e.by
<1> DEFINE refused == TxExecuteError(cfg, turn.ctx, e.env)
<1>1. refused \in (Outcomes \ {"ok"}) \cup {None}
  BY ExecuteChecked
<1>2. /\ e.st = "absent" /\ ~e.sent /\ e.status = 0 /\ e.out = None /\ e.nonce = None
      /\ e.signer = None
  BY DEF Fresh
<1> HIDE DEF refused
<1>3. ASSUME NEW out \in Outcomes \ {"ok"}
      PROVE  LET f == [e EXCEPT !.st = "returned", !.out = out]
             IN  /\ f \in Calls /\ CallSound(f, rs, mined)
                 /\ f.form = e.form /\ f.id = e.id /\ f.env = e.env /\ f.by = e.by
  <2> DEFINE f == [e EXCEPT !.st = "returned", !.out = out]
  <2>1. /\ f \in Calls /\ f.st = "returned" /\ f.out = out /\ ~f.sent /\ f.status = 0
        /\ f.form = e.form /\ f.id = e.id /\ f.env = e.env /\ f.by = e.by
    BY <1>2 DEF Calls
  <2> HIDE DEF f
  <2>2. Truthful(f, mined)
    BY <2>1 DEF Truthful
  <2>3. f.env # None /\ f.form # "envelope" => Instructed(f, rs)
    BY <2>1 DEF Instructed
  <2>4. CallSound(f, rs, mined)
    BY <2>1, <2>2, <2>3 DEF CallSound
  <2> QED BY <2>1, <2>4 DEF f
<1>4. CASE e.env = None
  <2>1. "invalid_input" \in Outcomes \ {"ok"}
    BY DEF Outcomes
  <2> DEFINE f == [e EXCEPT !.st = "returned", !.out = "invalid_input"]
  <2>2. Begun(n, e) = [ex EXCEPT ![n] = f]
    BY <1>4 DEF Begun, Return
  <2> QED BY <1>3, <2>1, <2>2
<1>5. CASE e.env # None /\ refused # None
  <2>1. refused \in Outcomes \ {"ok"}
    BY <1>1, <1>5
  <2> DEFINE f == [e EXCEPT !.st = "returned", !.out = refused]
  <2>2. Begun(n, e) = [ex EXCEPT ![n] = f]
    BY <1>5 DEF Begun, Return, refused
  <2> QED BY <1>3, <2>1, <2>2
<1>6. CASE e.env # None /\ refused = None
  <2> DEFINE f == [e EXCEPT !.st = "nonce"]
  <2>1. Begun(n, e) = [ex EXCEPT ![n] = f]
    BY <1>6 DEF Begun, refused
  <2>2. /\ f \in Calls /\ f.st = "nonce" /\ ~f.sent /\ f.status = 0
        /\ f.form = e.form /\ f.id = e.id /\ f.env = e.env /\ f.by = e.by
    BY <1>2 DEF Calls
  <2>3. f.env \in Envelopes /\ f.by \in Users
    BY <1>1, <1>6, <2>2
  <2> HIDE DEF f
  <2>4. f.env # None /\ f.form # "envelope" => Instructed(f, rs)
    BY <2>2 DEF Instructed
  <2>5. CallSound(f, rs, mined)
    BY <2>2, <2>3, <2>4 DEF CallSound
  <2> QED BY <2>1, <2>2, <2>5
<1> QED BY <1>4, <1>5, <1>6

(* What an id stands for, and for how long.                                *)
LEMMA LookedUp ==
  ASSUME TypeOK, NEW rs \in [Puts -> Records], RecordsSound(rs), NEW i \in Puts
  PROVE  /\ Looked(rs, i) \in Envelopes \cup {None}
         /\ Looked(rs, i) # None =>
              /\ rs[i].st = "live"
              /\ Looked(rs, i).pay = rs[i].body.pay
              /\ rs[i].kind = "execute_envelope" => Looked(rs, i) = rs[i].body
              /\ rs[i].kind # "execute_envelope" => Looked(rs, i).from = rs[i].body.from
<1>0. cfg \in Settings
  BY TurnsAssumption DEF TypeOK
<1>1. CASE rs[i].st # "live"
  BY <1>1 DEF Looked
<1>2. CASE rs[i].st = "live" /\ rs[i].kind = "execute_envelope"
  <2>1. rs[i].body \in Envelopes
    BY <1>2 DEF RecordsSound, RecordSound
  <2> QED BY <1>2, <2>1 DEF Looked
<1>3. CASE rs[i].st = "live" /\ rs[i].kind # "execute_envelope"
  <2>1. rs[i].body \in LiFiRequests
    BY <1>3 DEF RecordsSound, RecordSound
  <2>2. CASE CoercibleLiFi(cfg, turn.ctx, rs[i].body)
    <3>1. Looked(rs, i) = LiFiEnvelope(cfg, rs[i].body.from, rs[i].body)
      BY <1>3, <2>2 DEF Looked
    <3>2. LiFiEnvelope(cfg, rs[i].body.from, rs[i].body) \in Envelopes
      BY <1>0, <2>1, <2>2, Coerced
    <3> QED BY <1>3, <3>1, <3>2 DEF LiFiEnvelope
  <2>3. CASE ~CoercibleLiFi(cfg, turn.ctx, rs[i].body)
    BY <1>3, <2>3 DEF Looked
  <2> QED BY <2>2, <2>3
<1> QED BY <1>1, <1>2, <1>3

(* A call by id in terms of the record the id stands for.                  *)
LEMMA ExecuteByIdEffect ==
  ASSUME IInv, NEW n \in Execs, NEW i \in Puts, NEW form \in {"id", "summary"},
         ExecuteById(n, i, form)
  PROVE  /\ recs' \in [Puts -> Records] /\ RecordsSound(recs') /\ Keeps(recs, recs')
         /\ \E f \in Calls :
              /\ ex' = [ex EXCEPT ![n] = f] /\ CallSound(f, recs', mined)
              /\ f.form = form /\ f.id = i /\ f.by = turn.user
              /\ f.env = Looked(Purged(recs, clock), i)
<1> DEFINE rs == Purged(recs, clock)
           env == Looked(rs, i)
           e == [NoExec EXCEPT !.form = form, !.id = i, !.by = turn.user, !.env = env]
<1>1. /\ recs \in [Puts -> Records] /\ RecordsSound(recs) /\ clock \in Times
      /\ cfg \in Settings /\ ex \in [Execs -> Calls] /\ turn \in Turns
  BY TurnsAssumption DEF IInv, TypeOK
<1>2. /\ rs \in [Puts -> Records] /\ Forgets(recs, rs) /\ RecordsSound(rs)
      /\ Keeps(recs, rs)
  BY <1>1, Purging, SoundAfterForgetting, ForgettingKeeps
<1>3. recs' = rs /\ ex' = Begun(n, e) /\ turn.user \in Users
  BY <1>1 DEF ExecuteById, InTurn, Turns
<1> HIDE DEF rs
<1>4. /\ env \in Envelopes \cup {None}
      /\ env # None =>
           /\ rs[i].st = "live"
           /\ rs[i].kind = "execute_envelope" => env = rs[i].body
           /\ rs[i].kind # "execute_envelope" => env.from = rs[i].body.from
  BY <1>2, LookedUp DEF IInv
<1> HIDE DEF env
<1>5. /\ e \in Calls /\ e.form = form /\ e.id = i /\ e.by = turn.user /\ e.env = env
      /\ Fresh(e)
  BY <1>3, <1>4 DEF NoExec, Calls, Forms, Nonces, Fresh
<1> HIDE DEF e
<1>6. e.env # None /\ e.form # "envelope" => Instructed(e, rs)
  BY <1>4, <1>5 DEF Instructed
<1>7. PICK f \in Calls :
        /\ Begun(n, e) = [ex EXCEPT ![n] = f] /\ CallSound(f, rs, mined)
        /\ f.form = e.form /\ f.id = e.id /\ f.env = e.env /\ f.by = e.by
  <2>1. e.by \in Users /\ e.env \in Envelopes \cup {None}
    BY <1>3, <1>4, <1>5
  <2> QED BY <1>1, <1>5, <1>6, <2>1, BegunSound
<1> QED BY <1>2, <1>3, <1>5, <1>7 DEF rs, env

LEMMA ExecuteByIdStep ==
  ASSUME IInv, NEW n \in Execs, NEW i \in Puts, NEW form \in {"id", "summary"},
         ExecuteById(n, i, form)
  PROVE  IInv'
<1>1. PICK f \in Calls :
        /\ recs' \in [Puts -> Records] /\ RecordsSound(recs') /\ Keeps(recs, recs')
        /\ ex' = [ex EXCEPT ![n] = f] /\ CallSound(f, recs', mined)
  BY ExecuteByIdEffect
<1>2. /\ UNCHANGED <<cfg, clock, chain, turns>>
      /\ turn' \in Turns /\ TurnSound' /\ dms' \subseteq [to: Users, exec: Execs]
  BY DEF ExecuteById, IInv, TypeOK, TurnSound, chain
<1> QED BY <1>1, <1>2, CallStep

LEMMA ExecuteEnvelopeStep ==
  ASSUME IInv, NEW n \in Execs, NEW env \in Copied, ExecuteEnvelope(n, env)
  PROVE  IInv'
<1> DEFINE e == [NoExec EXCEPT !.form = "envelope", !.by = turn.user, !.env = env]
<1>1. /\ cfg \in Settings /\ ex \in [Execs -> Calls] /\ turn.user \in Users
      /\ env \in Envelopes
  BY TurnsAssumption DEF IInv, TypeOK, ExecuteEnvelope, InTurn, Turns
<1>2. ex' = Begun(n, e)
  BY DEF ExecuteEnvelope
<1>3. /\ e \in Calls /\ e.form = "envelope" /\ e.by = turn.user /\ e.env = env
      /\ Fresh(e)
  BY <1>1 DEF NoExec, Calls, Forms, Nonces, Fresh
<1> HIDE DEF e
<1>4. PICK f \in Calls :
        Begun(n, e) = [ex EXCEPT ![n] = f] /\ CallSound(f, recs, mined)
  BY <1>1, <1>3, BegunSound
<1> QED BY <1>2, <1>4, CallOnlyStep DEF ExecuteEnvelope, chain

LEMMA CountsAreNatural ==
  ASSUME IInv, NEW a
  PROVE  PendingCount(a) \in Nat
<1>1. /\ IsFiniteSet({t \in pool : t.from = a})
      /\ IsFiniteSet({m \in mined : m.tx.from = a})
  BY FS_Subset DEF IInv
<1> QED BY <1>1, FS_CardinalityType DEF PendingCount

LEMMA ReadNonceStep ==
  ASSUME IInv, NEW n \in Execs, ReadNonce(n)
  PROVE  IInv'
<1> DEFINE nonce == IF ex[n].env.nonce # None THEN ex[n].env.nonce
                    ELSE PendingCount(ex[n].env.from)
           e == [ex[n] EXCEPT !.st = "sign", !.nonce = nonce]
<1>1. ex[n] \in Calls /\ CallSound(ex[n], recs, mined) /\ ex[n].st = "nonce"
  BY DEF IInv, TypeOK, CallsSound, ReadNonce
<1>2. ex[n].env \in Envelopes
  BY <1>1 DEF CallSound
<1>3. nonce \in Nat
  BY <1>2, CountsAreNatural DEF Envelopes, Nonces
<1>4. ex' = [ex EXCEPT ![n] = e]
  BY DEF ReadNonce, IInv, TypeOK
<1> HIDE DEF nonce
<1>5. e \in Calls
  BY <1>1, <1>3 DEF Calls, Nonces
<1>6. CallSound(e, recs, mined)
  BY <1>1, <1>3 DEF CallSound, Calls, Instructed
<1> QED BY <1>4, <1>5, <1>6, CallOnlyStep DEF ReadNonce, chain

LEMMA FailUnsignedStep ==
  ASSUME IInv, NEW n \in Execs, FailUnsigned(n)
  PROVE  IInv'
<1>1. PICK out \in UnsignedFailures(cfg) : ex' = Return(n, ex[n], out)
  BY DEF FailUnsigned
<1> DEFINE e == [ex[n] EXCEPT !.st = "returned", !.out = out]
<1>2. ex[n] \in Calls /\ CallSound(ex[n], recs, mined) /\ ex[n].st \in {"nonce", "sign"}
  BY DEF IInv, TypeOK, CallsSound, FailUnsigned
<1>3. out \in Outcomes \ {"ok"}
  BY DEF UnsignedFailures, Outcomes
<1>4. ex' = [ex EXCEPT ![n] = e]
  BY <1>1 DEF Return
<1>5. e \in Calls
  BY <1>2, <1>3 DEF Calls
<1>6. CallSound(e, recs, mined)
  BY <1>2, <1>3 DEF CallSound, Calls, Instructed, Truthful
<1> QED BY <1>4, <1>5, <1>6, CallOnlyStep DEF FailUnsigned, chain

LEMMA SignStep ==
  ASSUME IInv, NEW n \in Execs, Sign(n)
  PROVE  IInv'
<1> DEFINE signer == SigningWallet(cfg, ex[n].by)
<1>1. PICK signed \in BOOLEAN, named \in BOOLEAN :
        ex' = IF signed /\ (named => signer = ex[n].env.from)
              THEN [ex EXCEPT ![n].st = "send", ![n].signer = signer]
              ELSE Return(n, ex[n], "policy_rejected")
  BY DEF Sign
<1>2. /\ ex \in [Execs -> Calls] /\ ex[n] \in Calls /\ CallSound(ex[n], recs, mined)
      /\ ex[n].st = "sign"
  BY DEF IInv, TypeOK, CallsSound, Sign
<1>3. /\ ex[n].env \in Envelopes /\ ex[n].by \in Users /\ ex[n].nonce \in Nat
      /\ ~ex[n].sent /\ ex[n].status = 0
      /\ (ex[n].env # None /\ ex[n].form # "envelope" => Instructed(ex[n], recs))
  BY <1>2 DEF CallSound
<1>4. signer \in Accounts
  BY <1>3 DEF SigningWallet, Accounts
<1>5. CASE signed /\ (named => signer = ex[n].env.from)
  <2> DEFINE e == [ex[n] EXCEPT !.st = "send", !.signer = signer]
  <2>1. ex' = [ex EXCEPT ![n] = e]
    BY <1>1, <1>2, <1>5
  <2> HIDE DEF signer
  <2>3. /\ e \in Calls /\ e.st = "send" /\ ~e.sent /\ e.status = 0 /\ e.nonce \in Nat
        /\ e.env = ex[n].env /\ e.by = ex[n].by /\ e.form = ex[n].form /\ e.id = ex[n].id
        /\ e.signer = signer
    BY <1>2, <1>3, <1>4, ZenonT(40) DEF Calls
  <2> HIDE DEF e
  <2>4. Signed(e)
    BY <1>3, <1>4, <2>3 DEF Signed
  <2>5. CallSound(e, recs, mined)
    BY <1>3, <2>3, <2>4 DEF CallSound, Instructed
  <2> QED BY <2>1, <2>3, <2>5, CallOnlyStep DEF Sign, chain
<1>6. CASE ~(signed /\ (named => signer = ex[n].env.from))
  <2> DEFINE e == [ex[n] EXCEPT !.st = "returned", !.out = "policy_rejected"]
  <2>1. ex' = [ex EXCEPT ![n] = e]
    BY <1>1, <1>6 DEF Return
  <2>2. e \in Calls
    BY <1>2 DEF Calls, Outcomes
  <2>3. CallSound(e, recs, mined)
    BY <1>2 DEF CallSound, Calls, Instructed, Truthful
  <2> QED BY <2>1, <2>2, <2>3, CallOnlyStep DEF Sign, chain
<1> QED BY <1>5, <1>6

(* A step of one call that the node hears of.                              *)
LEMMA SendStep ==
  ASSUME IInv, NEW n \in Execs, Send(n)
  PROVE  IInv'
<1> DEFINE t == Tx(ex[n])
           refused == [ex[n] EXCEPT !.st = "returned", !.out = "broadcast_failed"]
           heard == [ex[n] EXCEPT !.sent = TRUE, !.st = "receipt"]
           unheard == [ex[n] EXCEPT !.sent = TRUE, !.st = "returned",
                                    !.out = "broadcast_failed"]
<1>1. /\ ex \in [Execs -> Calls] /\ ex[n] \in Calls /\ CallSound(ex[n], recs, mined)
      /\ ex[n].st = "send"
  BY DEF IInv, TypeOK, CallsSound, Send
<1>2. /\ ex[n].env \in Envelopes /\ ex[n].by \in Users /\ ~ex[n].sent /\ ex[n].status = 0
      /\ Signed(ex[n])
      /\ (ex[n].env # None /\ ex[n].form # "envelope" => Instructed(ex[n], recs))
  BY <1>1 DEF CallSound
<1>3. t \in Txs
  BY <1>2 DEF Tx, Txs, Signed, Envelopes
<1>4. /\ UNCHANGED <<cfg, clock, recs, mined, turn, turns, dms>>
      /\ \/ ex' = [ex EXCEPT ![n] = refused] /\ pool' = pool
         \/ /\ pool' = (pool \ Rivals(t)) \cup {t}
            /\ \/ ex' = [ex EXCEPT ![n] = heard]
               \/ ex' = [ex EXCEPT ![n] = unheard]
  <2>1. CASE ex' = Return(n, ex[n], "broadcast_failed") /\ pool' = pool
    BY <2>1 DEF Send, Return
  <2>2. ASSUME pool' = (pool \ Rivals(t)) \cup {t},
               NEW ok \in BOOLEAN,
               LET e == [ex[n] EXCEPT !.sent = TRUE]
               IN  ex' = IF ok THEN [ex EXCEPT ![n] = [e EXCEPT !.st = "receipt"]]
                         ELSE Return(n, e, "broadcast_failed")
        PROVE  ex' = [ex EXCEPT ![n] = heard] \/ ex' = [ex EXCEPT ![n] = unheard]
    BY <2>2 DEF Return
  <2> QED BY <2>1, <2>2 DEF Send
<1>5. pool' \subseteq Txs /\ IsFiniteSet(pool')
  <2>1. pool \ Rivals(t) \subseteq pool /\ IsFiniteSet(pool \ Rivals(t))
    BY FS_Subset DEF IInv
  <2>2. IsFiniteSet((pool \ Rivals(t)) \cup {t})
    BY <2>1, FS_AddElement
  <2> HIDE DEF t
  <2> QED BY <1>3, <1>4, <2>1, <2>2 DEF IInv, TypeOK
<1> HIDE DEF t
<1>6. /\ refused \in Calls /\ refused.st = "returned" /\ ~refused.sent
      /\ refused.out = "broadcast_failed" /\ refused.status = 0
      /\ refused.env = ex[n].env /\ refused.form = ex[n].form /\ refused.id = ex[n].id
  BY <1>1, <1>2, ZenonT(40) DEF Calls, Outcomes
<1>7. /\ heard \in Calls /\ heard.st = "receipt" /\ heard.sent /\ heard.status = 0
      /\ heard.env = ex[n].env /\ heard.form = ex[n].form /\ heard.id = ex[n].id
      /\ heard.by = ex[n].by /\ heard.signer = ex[n].signer
      /\ heard.nonce = ex[n].nonce
  BY <1>1, <1>2, ZenonT(40) DEF Calls
<1>8. /\ unheard \in Calls /\ unheard.st = "returned" /\ unheard.sent
      /\ unheard.out = "broadcast_failed" /\ unheard.status = 0
      /\ unheard.env = ex[n].env /\ unheard.form = ex[n].form /\ unheard.id = ex[n].id
      /\ unheard.by = ex[n].by /\ unheard.signer = ex[n].signer
      /\ unheard.nonce = ex[n].nonce
  BY <1>1, <1>2, ZenonT(40) DEF Calls, Outcomes
<1> HIDE DEF refused, heard, unheard
<1>9. CallSound(refused, recs, mined)
  BY <1>2, <1>6 DEF CallSound, Truthful, Instructed
<1>10. CallSound(heard, recs, mined)
  BY <1>2, <1>7 DEF CallSound, Signed, Instructed
<1>11. CallSound(unheard, recs, mined)
  BY <1>2, <1>8 DEF CallSound, Signed, Truthful, Instructed
<1>12. PICK e \in Calls : ex' = [ex EXCEPT ![n] = e] /\ CallSound(e, recs, mined)
  BY <1>4, <1>6, <1>7, <1>8, <1>9, <1>10, <1>11
<1>13. ex' \in [Execs -> Calls] /\ CallsSound'
  BY <1>4, <1>12, OneCall, KeepsItself DEF IInv
<1>14. TypeOK'
  BY <1>4, <1>5, <1>13 DEF IInv, TypeOK
<1> QED BY <1>4, <1>5, <1>13, <1>14 DEF IInv, TurnSound

LEMMA WaitReceiptStep ==
  ASSUME IInv, NEW n \in Execs, WaitReceipt(n)
  PROVE  IInv'
<1>1. /\ ex \in [Execs -> Calls] /\ ex[n] \in Calls /\ CallSound(ex[n], recs, mined)
      /\ ex[n].st = "receipt"
  BY DEF IInv, TypeOK, CallsSound, WaitReceipt
<1>2. /\ ex[n].sent /\ ex[n].status = 0 /\ Signed(ex[n])
      /\ (ex[n].env # None /\ ex[n].form # "envelope" => Instructed(ex[n], recs))
  BY <1>1 DEF CallSound
<1> DEFINE Ended(status, out) == [ex[n] EXCEPT !.status = status, !.st = "returned",
                                               !.out = out]
           After(status, out) == [ex EXCEPT ![n] = Ended(status, out)]
<1>3. PICK status \in {0, 1}, out \in {"ok", "raised"} :
        ex' = After(status, out) /\ (status = 1 => [tx |-> Tx(ex[n]), ok |-> TRUE] \in mined)
  <2>1. ASSUME NEW m \in mined, m.tx = Tx(ex[n]),
               ex' = Return(n, [ex[n] EXCEPT !.status = IF m.ok THEN 1 ELSE 0], "ok")
        PROVE  \E status \in {0, 1} :
                 /\ ex' = After(status, "ok")
                 /\ status = 1 => [tx |-> Tx(ex[n]), ok |-> TRUE] \in mined
    <3>1. m \in [tx: Txs, ok: BOOLEAN] /\ ex' = After(IF m.ok THEN 1 ELSE 0, "ok")
      BY <2>1 DEF IInv, TypeOK, Return
    <3> HIDE DEF After
    <3>2. m.ok => m = [tx |-> Tx(ex[n]), ok |-> TRUE]
      BY <2>1, <3>1
    <3>3. CASE m.ok
      BY <3>1, <3>2, <3>3
    <3>4. CASE ~m.ok
      BY <3>1, <3>4
    <3> QED BY <3>3, <3>4
  <2>2. ASSUME NEW out \in {"ok", "raised"}, ex' = Return(n, ex[n], out)
        PROVE  ex' = After(0, out)
    <3>1. [ex[n] EXCEPT !.st = "returned", !.out = out] = Ended(0, out)
      BY <1>1, <1>2 DEF Calls
    <3> QED BY <2>2, <3>1 DEF Return
  <2>3. \/ \E m \in mined :
             /\ m.tx = Tx(ex[n])
             /\ ex' = Return(n, [ex[n] EXCEPT !.status = IF m.ok THEN 1 ELSE 0], "ok")
        \/ \E out \in {"ok", "raised"} : ex' = Return(n, ex[n], out)
    BY DEF WaitReceipt
  <2> HIDE DEF After
  <2>4. CASE \E out \in {"ok", "raised"} : ex' = Return(n, ex[n], out)
    BY <2>2, <2>4
  <2> QED BY <2>1, <2>3, <2>4
<1> DEFINE e == Ended(status, out)
<1>4. /\ e \in Calls /\ e.st = "returned" /\ e.sent /\ e.out = out /\ e.status = status
      /\ e.env = ex[n].env /\ e.form = ex[n].form /\ e.id = ex[n].id
      /\ e.by = ex[n].by /\ e.signer = ex[n].signer
      /\ e.nonce = ex[n].nonce
  <2>1. e \in Calls
    <3>1. status \in {0, 1} /\ out \in Outcomes
      BY DEF Outcomes
    <3> QED BY <1>1, <3>1 DEF Calls
  <2> QED BY <1>1, <1>2, <2>1 DEF Calls
<1>5. ex' = [ex EXCEPT ![n] = e]
  BY <1>3
<1> HIDE DEF e
<1>6. Tx(e) = Tx(ex[n])
  BY <1>4 DEF Tx
<1>7. CallSound(e, recs, mined)
  BY <1>2, <1>3, <1>4, <1>6 DEF CallSound, Signed, Truthful, Instructed
<1> QED BY <1>4, <1>5, <1>7, CallOnlyStep DEF WaitReceipt, chain

LEMMA MineStep ==
  ASSUME IInv, NEW t \in pool, NEW ok \in BOOLEAN, Mine(t, ok)
  PROVE  IInv'
<1>1. pool' \subseteq pool /\ IsFiniteSet(pool')
  BY FS_Subset DEF Mine, IInv
<1>2. IsFiniteSet(mined') /\ mined \subseteq mined'
  BY FS_AddElement DEF Mine, IInv
<1>3. mined' \subseteq [tx: Txs, ok: BOOLEAN]
  BY DEF Mine, IInv, TypeOK
<1>4. CallsSound'
  BY <1>2, NoCall, KeepsItself DEF Mine, IInv
<1>5. TypeOK'
  BY <1>1, <1>3 DEF Mine, IInv, TypeOK
<1> QED BY <1>1, <1>2, <1>4, <1>5 DEF Mine, IInv, TurnSound

-------------------------------------------------------------------------------
(* The end of a call, and the turn.                                        *)

LEMMA ToolEndStep ==
  ASSUME IInv, NEW n \in Execs, ToolEnd(n)
  PROVE  IInv'
<1> DEFINE rs == Purged(recs, clock)
           peer == PeerOf(ex[n])
<1>1. /\ recs \in [Puts -> Records] /\ RecordsSound(recs) /\ clock \in Times
      /\ ex[n] \in Calls /\ turn \in Turns /\ TurnSound
  BY DEF IInv, TypeOK
<1>2. /\ rs \in [Puts -> Records] /\ RecordsSound(rs) /\ Keeps(recs, rs)
  BY <1>1, Purging, SoundAfterForgetting, ForgettingKeeps
<1>3. recs' \in [Puts -> Records] /\ RecordsSound(recs') /\ Keeps(recs, recs')
  <2>1. recs' = rs \/ recs' = recs
    BY DEF ToolEnd
  <2> HIDE DEF rs
  <2> QED BY <1>1, <1>2, <2>1, KeepsItself
<1>4. Closed \in Calls /\ CallSound(Closed, recs', mined)
  <2>1. /\ Closed \in Calls /\ Closed.st = "closed" /\ ~Closed.sent /\ Closed.env = None
    BY DEF Closed, NoExec, Calls, Nonces
  <2> QED BY <2>1 DEF CallSound
<1>5. peer # None => peer \in Users
  BY <1>1 DEF PeerOf, Inferred, Turns
<1>6. /\ ex' = [ex EXCEPT ![n] = Closed] /\ UNCHANGED <<cfg, clock, chain, turns>>
      /\ \/ dms' = dms
         \/ dms' = dms \cup {[to |-> peer, exec |-> n]} /\ peer # None
      /\ \/ \E seen \in BOOLEAN :
              turn' = [turn EXCEPT !.pending = None, !.bound = IF seen THEN None ELSE @]
         \/ turn' = [turn EXCEPT !.raised = @ \/ ex[n].out = "raised"]
  BY DEF ToolEnd
<1>7. dms' \subseteq [to: Users, exec: Execs]
  <2> HIDE DEF peer
  <2>1. peer # None => [to |-> peer, exec |-> n] \in [to: Users, exec: Execs]
    BY <1>5
  <2> QED BY <1>6, <2>1 DEF IInv, TypeOK
<1>8. turn' \in Turns /\ TurnSound'
  <2>1. ASSUME NEW seen \in BOOLEAN,
               turn' = [turn EXCEPT !.pending = None, !.bound = IF seen THEN None ELSE @]
        PROVE  turn' \in Turns /\ TurnSound'
    BY <1>1, <2>1 DEF Turns, TurnSound
  <2>2. CASE turn' = [turn EXCEPT !.raised = @ \/ ex[n].out = "raised"]
    BY <1>1, <2>2 DEF Turns, TurnSound
  <2> QED BY <1>6, <2>1, <2>2
<1> QED BY <1>3, <1>4, <1>6, <1>7, <1>8, CallStep

LEMMA TurnStep ==
  ASSUME IInv, turn' \in Turns, TurnSound', turns' \in 0..MaxTurns, clock' \in Times,
         UNCHANGED <<cfg, recs, ex, chain, dms>>
  PROVE  IInv'
<1>1. CallsSound'
  BY NoCall, KeepsItself DEF IInv, chain
<1>2. TypeOK'
  BY DEF IInv, TypeOK, chain
<1> QED BY <1>1, <1>2 DEF IInv, chain

LEMMA BeginTurnStep ==
  ASSUME IInv, NEW u \in Talkers, NEW ctx \in Contexts, BeginTurn(u, ctx)
  PROVE  IInv'
<1>1. u \in Users /\ 1 \in 0..MaxAttempts
  BY TurnsAssumption
<1>2. turn' \in Turns /\ TurnSound'
  BY <1>1 DEF BeginTurn, NoTurn, Turns, TurnSound
<1>3. turns' \in 0..MaxTurns
  BY TurnsAssumption DEF BeginTurn, IInv, TypeOK
<1> QED BY <1>2, <1>3, TurnStep DEF BeginTurn, IInv, TypeOK

LEMMA EndTurnStep ==
  ASSUME IInv, EndTurn
  PROVE  IInv'
<1>1. turn' \in Turns /\ TurnSound'
  BY TurnsAssumption DEF EndTurn, NoTurn, Turns, TurnSound, Contexts
<1> QED BY <1>1, TurnStep DEF EndTurn, IInv, TypeOK

LEMMA RetryModelStep ==
  ASSUME IInv, RetryModel
  PROVE  IInv'
<1>1. turn' \in Turns /\ TurnSound'
  BY TurnsAssumption DEF RetryModel, IInv, TypeOK, Turns, TurnSound
<1> QED BY <1>1, TurnStep DEF RetryModel, IInv, TypeOK

LEMMA TickStep ==
  ASSUME IInv, Tick
  PROVE  IInv'
<1>1. clock' \in Times
  BY TurnsAssumption DEF Tick, IInv, TypeOK, Times
<1> QED BY <1>1, TurnStep DEF Tick, IInv, TypeOK, TurnSound

LEMMA NextPreserves ==
  ASSUME IInv, [Next]_vars
  PROVE  IInv'
<1>1. ASSUME NEW i \in Puts, Prepare(i) PROVE IInv'
  <2>1. ASSUME NEW in \in Asked, TxPrepare(i, in) PROVE IInv'
    BY <2>1, TxPrepareStep
  <2>2. ASSUME NEW in \in Asked, SwapPrepareWithPreparedStorage(i, in) PROVE IInv'
    BY <2>2, SwapStep
  <2>3. ASSUME NEW j \in Puts, NEW from \in Accounts, PrepareLiFiSwap(j, i, from)
        PROVE  IInv'
    BY <2>3, PrepareLiFiSwapStep
  <2> QED BY <1>1, <2>1, <2>2, <2>3 DEF Prepare, SwapPrepare, EarnPrepareDeposit
<1>2. ASSUME NEW n \in Execs, Execute(n) PROVE IInv'
  BY <1>2, ExecuteByIdStep, ExecuteEnvelopeStep DEF Execute
<1>3. ASSUME NEW n \in Execs, Pipeline(n) PROVE IInv'
  BY <1>3, ReadNonceStep, FailUnsignedStep, SignStep, SendStep, WaitReceiptStep,
     ToolEndStep DEF Pipeline
<1>4. ASSUME NEW p \in Users \ {turn.user}, NEW seen \in BOOLEAN, ResolvePeer(p, seen)
      PROVE  IInv'
  BY <1>4, ResolvePeerStep
<1>5. CASE UNCHANGED vars
  <2>1. turn' \in Turns /\ TurnSound' /\ turns' \in 0..MaxTurns /\ clock' \in Times
    BY <1>5 DEF IInv, TypeOK, TurnSound, vars
  <2>2. UNCHANGED <<cfg, recs, ex, chain, dms>>
    BY <1>5 DEF vars, chain
  <2> QED BY <2>1, <2>2, TurnStep
<1> QED BY <1>1, <1>2, <1>3, <1>4, <1>5, MineStep, BeginTurnStep, EndTurnStep,
          RetryModelStep, TickStep DEF Next, ModelReplies

-------------------------------------------------------------------------------
(* What holds always.                                                      *)

THEOREM Inductive == Spec => []IInv
<1>1. Init => IInv
  BY Initially
<1>2. IInv /\ [Next]_vars => IInv'
  BY NextPreserves
<1> QED BY <1>1, <1>2, PTL DEF Spec

(* Every value of the model is of its type: no prepare tool stores, and no *)
(* execution carries, what is not an envelope.                             *)
THEOREM TypeCorrect == Spec => []TypeOK
<1>1. IInv => TypeOK
  BY DEF IInv
<1> QED BY <1>1, Inductive, PTL

(* An answer of tx_execute is true of the chain.                           *)
THEOREM Truth == Spec => []AnswersAreTrue
<1>1. IInv => AnswersAreTrue
  BY DEF IInv, CallsSound, CallSound, Truthful, AnswersAreTrue
<1> QED BY <1>1, Inductive, PTL

(* What LI.FI made for one wallet is not broadcast for another.             *)
THEOREM SwapWallet == Spec => []SwapsKeepTheirWallet
<1>1. IInv => SwapsKeepTheirWallet
  <2> SUFFICES ASSUME IInv, NEW n \in Execs, ex[n].sent, ex[n].form # "envelope"
               PROVE  LET r == recs[ex[n].id]
                          quote == IF r.kind = "lifi_prepared" THEN r
                                   ELSE IF r.src # 0 THEN recs[r.src] ELSE NoRecord
                      IN  quote.body # None => quote.body.from \in {None, ex[n].env.from}
    BY DEF SwapsKeepTheirWallet
  <2> DEFINE r == recs[ex[n].id]
  <2>1. ex[n].env # None /\ CallSound(ex[n], recs, mined)
    BY TurnsAssumption DEF IInv, CallsSound, CallSound, Signed
  <2>2. Instructed(ex[n], recs)
    BY <2>1 DEF CallSound
  <2>3. RecordSound(recs, ex[n].id) /\ r.st # "absent"
    BY <2>2 DEF IInv, RecordsSound, Instructed
  <2>4. CASE r.kind = "lifi_prepared"
    BY <2>2, <2>4 DEF Instructed
  <2>5. CASE r.kind # "lifi_prepared" /\ r.src # 0
    <3>1. r.kind = "execute_envelope" /\ recs[r.src].body.from \in {None, r.from}
      BY <2>3, <2>5 DEF RecordSound
    <3>2. ex[n].env.from = r.from
      BY <2>2, <2>3, <3>1 DEF RecordSound, Instructed
    <3> QED BY <2>5, <3>1, <3>2
  <2>6. CASE r.kind # "lifi_prepared" /\ r.src = 0
    BY <2>6 DEF NoRecord
  <2> QED BY <2>4, <2>5, <2>6
<1> QED BY <1>1, Inductive, PTL

-------------------------------------------------------------------------------
(* What no step does.                                                      *)

LEMMA StoreLoses ==
  ASSUME IInv, [Next]_vars
  PROVE  Losing(recs, recs', clock)
<1>1. CASE recs' = recs
  BY <1>1 DEF Losing
<1>2. CASE recs' = Purged(recs, clock)
  BY <1>2, PurgingLoses DEF IInv, TypeOK
<1>3. ASSUME NEW i \in Puts, Prepare(i) PROVE Losing(recs, recs', clock)
  BY <1>3, TxPrepareStep, SwapStep, PrepareLiFiSwapStep
     DEF Prepare, SwapPrepare, EarnPrepareDeposit
<1>4. ASSUME NEW n \in Execs, Execute(n) \/ Pipeline(n)
      PROVE  recs' = recs \/ recs' = Purged(recs, clock)
  BY <1>4 DEF Execute, ExecuteById, ExecuteEnvelope, Pipeline, ReadNonce, FailUnsigned,
              Sign, Send, WaitReceipt, ToolEnd
<1>5. \/ \E i \in Puts : Prepare(i)
      \/ \E n \in Execs : Execute(n) \/ Pipeline(n)
      \/ recs' = recs
  BY DEF Next, BeginTurn, ResolvePeer, Mine, ModelReplies, EndTurn, RetryModel, Tick, vars
<1> QED BY <1>1, <1>2, <1>3, <1>4, <1>5

(* A prepared transaction is lost by age or by crowding only.               *)
THEOREM Kept == Spec => RecordsLostOnlyByAgeOrCrowding
<1>1. IInv /\ [Next]_vars => Losing(recs, recs', clock)
  BY StoreLoses
<1>2. IInv /\ [Next]_vars =>
        [\A i \in Puts :
           recs[i].st # "gone" /\ recs'[i].st = "gone" =>
             \/ clock - recs'[i].born > Ttl
             \/ Cardinality({j \in Puts : j > i /\ recs'[j].st # "absent"}) >= MaxEntries]_vars
  BY <1>1 DEF Losing
<1> QED BY <1>2, Inductive, PTL DEF Spec, RecordsLostOnlyByAgeOrCrowding

(* Only the two ways to call tx_execute start a call.                      *)
LEMMA Starts ==
  ASSUME IInv, [Next]_vars, NEW n \in Execs, ex[n].st = "absent", ex'[n] # ex[n]
  PROVE  \/ \E i \in Puts, form \in {"id", "summary"} : ExecuteById(n, i, form)
         \/ \E env \in Copied : ExecuteEnvelope(n, env)
<1>1. ex \in [Execs -> Calls]
  BY DEF IInv, TypeOK
<1>2. ASSUME NEW m \in Execs, NEW e, ex' = [ex EXCEPT ![m] = e] PROVE m = n
  BY <1>1, <1>2
<1>3. ASSUME NEW m \in Execs, Pipeline(m) PROVE FALSE
  <2>1. ex[m].st # "absent"
    BY <1>3 DEF Pipeline, ReadNonce, FailUnsigned, Sign, Send, WaitReceipt, ToolEnd
  <2>2. \A k \in Execs : k # m => ex'[k] = ex[k]
    BY <1>1, <1>3 DEF Pipeline, ReadNonce, FailUnsigned, Sign, Send, WaitReceipt, ToolEnd,
                      Return
  <2> QED BY <2>1, <2>2
<1>4. ASSUME NEW m \in Execs, Execute(m) PROVE m = n
  <2>1. \A k \in Execs : k # m => ex'[k] = ex[k]
    BY <1>1, <1>4 DEF Execute, ExecuteById, ExecuteEnvelope, Begun, Return
  <2> QED BY <2>1
<1>5. \E m \in Execs : Execute(m) \/ Pipeline(m)
  BY DEF Next, Prepare, TxPrepare, SwapPrepare, EarnPrepareDeposit, PrepareLiFiSwap,
         SwapPrepareWithPreparedStorage, BeginTurn, ResolvePeer, Mine, ModelReplies,
         EndTurn, RetryModel, Tick, vars
<1> QED BY <1>3, <1>4, <1>5 DEF Execute

(* What runs by id is the record of that id, of the same user, in time.     *)
THEOREM RunsFresh == Spec => FreshWhenUsed
<1> DEFINE Good(n) ==
             LET e == ex'[n]
                 r == recs[e.id]
             IN  ex[n].st = "absent" /\ e.env # None /\ e.form # "envelope" =>
                   /\ r.st = "live" /\ clock - r.born <= Ttl
                   /\ e.by = r.by
                   /\ e.env.pay = r.body.pay
                   /\ r.kind = "execute_envelope" => e.env.from = r.from
<1>1. ASSUME IInv, [Next]_vars, NEW n \in Execs PROVE Good(n)
  <2> SUFFICES ASSUME ex[n].st = "absent", ex'[n].env # None, ex'[n].form # "envelope"
               PROVE  LET e == ex'[n]
                          r == recs[e.id]
                      IN  /\ r.st = "live" /\ clock - r.born <= Ttl
                          /\ e.by = r.by
                          /\ e.env.pay = r.body.pay
                          /\ r.kind = "execute_envelope" => e.env.from = r.from
    OBVIOUS
  <2>1. /\ ex \in [Execs -> Calls] /\ recs \in [Puts -> Records] /\ RecordsSound(recs)
        /\ clock \in Times /\ TypeOK
    BY <1>1 DEF IInv, TypeOK
  <2>2. ex'[n] # ex[n]
    BY <1>1 DEF IInv, CallsSound, CallSound, NoExec
  <2>3. \/ \E i \in Puts, form \in {"id", "summary"} : ExecuteById(n, i, form)
        \/ \E env \in Copied : ExecuteEnvelope(n, env)
    BY <1>1, <2>2, Starts
  <2>4. ASSUME NEW env \in Copied, ExecuteEnvelope(n, env) PROVE FALSE
    BY <2>1, <2>4 DEF ExecuteEnvelope, Begun, Return, NoExec
  <2>5. PICK i \in Puts, form \in {"id", "summary"} : ExecuteById(n, i, form)
    BY <2>3, <2>4
  <2> DEFINE rs == Purged(recs, clock)
  <2>6. PICK f \in Calls : /\ ex' = [ex EXCEPT ![n] = f]
                           /\ f.id = i /\ f.by = turn.user /\ f.env = Looked(rs, i)
    BY <1>1, <2>5, ExecuteByIdEffect
  <2>7. ex'[n] = f
    BY <2>1, <2>6
  <2>8. /\ rs \in [Puts -> Records] /\ Forgets(recs, rs) /\ RecordsSound(rs)
        /\ rs[i].st = "live" => recs[i].st = "live" /\ clock - recs[i].born <= Ttl
    BY <2>1, Purging, SoundAfterForgetting
  <2> HIDE DEF rs
  <2>9. /\ rs[i].st = "live" /\ f.env.pay = rs[i].body.pay
        /\ rs[i].kind = "execute_envelope" => f.env = rs[i].body
    BY <2>1, <2>6, <2>7, <2>8, LookedUp
  <2>10. recs[i].by = turn.user
    BY <2>5 DEF ExecuteById, Shown
  <2>11. /\ recs[i].body = rs[i].body /\ recs[i].kind = rs[i].kind
         /\ rs[i].kind = "execute_envelope" => recs[i].from = recs[i].body.from
    BY <2>1, <2>8, <2>9 DEF Forgets, RecordsSound, RecordSound
  <2> QED BY <2>6, <2>7, <2>8, <2>9, <2>10, <2>11
<1>2. IInv /\ [Next]_vars => [\A n \in Execs : Good(n)]_vars
  BY <1>1
<1> QED BY <1>2, Inductive, PTL DEF Spec, FreshWhenUsed

(* Nobody is told of a transfer but a peer of this turn or the one paid.    *)
THEOREM Told == Spec => MessageOfThisTurn
<1> DEFINE Good == \A d \in dms' \ dms :
                     \/ d.to = ex[d.exec].env.pay
                     \/ d.to \in turn.resolved /\ ex[d.exec].env.kind # "native_transfer"
<1>1. ASSUME IInv, [Next]_vars PROVE Good
  <2> SUFFICES ASSUME NEW d \in dms', d \notin dms
               PROVE  \/ d.to = ex[d.exec].env.pay
                      \/ d.to \in turn.resolved /\ ex[d.exec].env.kind # "native_transfer"
    OBVIOUS
  <2>1. PICK n \in Execs : ToolEnd(n)
    BY <1>1 DEF Next, Prepare, TxPrepare, SwapPrepare, EarnPrepareDeposit, PrepareLiFiSwap,
         SwapPrepareWithPreparedStorage, BeginTurn, ResolvePeer, Mine, ModelReplies,
         EndTurn, RetryModel, Tick, Execute, ExecuteById, ExecuteEnvelope, Pipeline,
         ReadNonce, FailUnsigned, Sign, Send, WaitReceipt, vars
  <2> DEFINE peer == PeerOf(ex[n])
  <2>2. d = [to |-> peer, exec |-> n] /\ peer # None /\ ShouldNotify(ex[n], peer)
    BY <2>1 DEF ToolEnd
  <2>3. peer \in turn.resolved \/ peer = ex[n].env.pay
    BY <1>1, <2>2 DEF IInv, TurnSound, PeerOf, Inferred
  <2> HIDE DEF peer
  <2> QED BY <2>2, <2>3 DEF ShouldNotify
<1>2. IInv /\ [Next]_vars => [Good]_vars
  BY <1>1
<1> QED BY <1>2, Inductive, PTL DEF Spec, MessageOfThisTurn

===============================================================================
