---------------------------- MODULE MarketLife ----------------------------
(***************************************************************************)
(* The life of a prediction market and the reputation it mints             *)
(* (services/infonet/markets/lifecycle.py, snapshot.py, dispute.py,        *)
(* services/infonet/reputation/oracle_rep.py).  Status, outcome and        *)
(* reputation are functions of the chain and of its time.                  *)
(*                                                                         *)
(* Whoever appends an event has looked at the chain before; the latest     *)
(* event may not have reached it yet.  Such an event is called late.  What *)
(* resolve_market finds is any outcome here: MarketResolution has it.      *)
(***************************************************************************)
EXTENDS Integers, Sequences, SequencesExt, FiniteSets, FiniteSetsExt, TLC

CONSTANTS
  Bettors, DisputeIds,
  Picks,                            \* the bets to explore: node, side, whether paid
  Trigger,                          \* trigger_date
  EvidenceWindow, ResolutionWindow,
  MinParticipants, MinTotalStake,
  MaxTime, MaxBets, MaxLength, MaxLate   \* bounds

VARIABLES
  chain,   \* the events of the market; prediction_create comes before them
  now,     \* chain_majority_time
  late     \* how many events were late

marketVars == <<chain, now, late>>

\* The events of a day follow one another by seconds.
Day == MaxLength + 1
Clock == now * Day + Len(chain)

At(v, type) == {i \in DOMAIN v : v[i].type = type}
Of(v, type) == {v[i] : i \in At(v, type)}
Flip(side) == IF side = "yes" THEN "no" ELSE "yes"

------------------------------------------------------------------------------
(* lifecycle.py: the first event of a kind has the say, malformed or not *)

FirstOf(v, type) == v[Min(At(v, type))]
LastOf(v, type) == v[Max(At(v, type))]
Has(v, type) == At(v, type) # {}

LastFinalizeOf(v) == LastOf(v, "finalize")

FinalizeOf(v) == FirstOf(v, "finalize")

SnapshotOf(v) == FirstOf(v, "snapshot")

EvidenceClose(v) == SnapshotOf(v).ts + EvidenceWindow * Day
ResolutionClose(v) == EvidenceClose(v) + ResolutionWindow * Day

\* compute_market_status
Status(v, t) ==
  IF Has(v, "finalize") /\ FinalizeOf(v).ok
    THEN IF FinalizeOf(v).outcome = "invalid" THEN "invalid" ELSE "final"
  ELSE IF ~Has(v, "snapshot") \/ ~SnapshotOf(v).ok THEN "predicting"
  ELSE IF t < EvidenceClose(v) THEN "evidence" ELSE "resolving"

\* should_advance_phase: the phase that is due, or "none".
Due(v, t) ==
  IF Has(v, "finalize") THEN "none"
  ELSE IF ~Has(v, "snapshot") THEN IF t >= Trigger * Day THEN "evidence" ELSE "none"
  ELSE IF ~SnapshotOf(v).ok \/ t < EvidenceClose(v) THEN "none"
  ELSE IF t < ResolutionClose(v) THEN "resolving" ELSE "final"

------------------------------------------------------------------------------
(* dispute.py *)

\* compute_dispute_outcome: oracle reputation, simple majority.
Staked(v, d, side) ==
  Cardinality({i \in At(v, "dispute_stake") : v[i].id = d /\ v[i].side = side})
Verdict(v, d) ==
  IF Staked(v, d, "confirm") > Staked(v, d, "reverse") THEN "upheld"
  ELSE IF Staked(v, d, "reverse") > Staked(v, d, "confirm") THEN "reversed" ELSE "tie"

IsOpen(v, d) == \E e \in Of(v, "dispute_open") : e.id = d
\* collect_disputes: the last dispute_resolve counts.
Resolves(v, d) == {i \in At(v, "dispute_resolve") : v[i].id = d}
Reversals(v) ==
  {d \in DisputeIds : Resolves(v, d) # {} /\ v[Max(Resolves(v, d))].outcome = "reversed"}

EffectiveNever(v, outcome) == outcome
\* effective_outcome: each reversal flips what the ones before have left.
Effective(v, outcome) ==
  IF outcome \in {"yes", "no"} /\ Cardinality(Reversals(v)) % 2 = 1
    THEN Flip(outcome) ELSE outcome

------------------------------------------------------------------------------
(* oracle_rep.py: here the latest event of a kind counts, by its time *)

Latest(v, type) ==
  CHOOSE e \in Of(v, type) : \A o \in Of(v, type) : o.ts <= e.ts

Mintable(v) ==
  /\ Has(v, "finalize") /\ Has(v, "snapshot")
  /\ LET f == Latest(v, "finalize")
         s == Latest(v, "snapshot") IN
     /\ ~f.provisional /\ f.outcome \in {"yes", "no"}
     /\ Cardinality(s.frozen) >= MinParticipants /\ s.stake >= MinTotalStake

Bets(v) == Of(v, "bet")
Pool(v, side) == Cardinality({b \in Bets(v) : b.paid /\ b.side = side})

\* A stake, in parts that any two winners can share.
Worth == 2

\* compute_oracle_rep_breakdown, _staked_pred_settlement: what a bet brings when
\* the market ends with "outcome"; a free pick mints.
Gain(v, b, outcome) ==
  IF b.side = outcome
    THEN IF b.paid THEN Worth + (Worth * Pool(v, Flip(outcome))) \div Pool(v, outcome)
         ELSE Worth
    ELSE IF b.paid THEN -Worth ELSE 0
EffectiveEnd(v) == Effective(v, Latest(v, "finalize").outcome)
Gains(v, n) ==
  IF ~Mintable(v) THEN {}
  ELSE {[bet |-> b, gain |-> Gain(v, b, EffectiveEnd(v))] : b \in {o \in Bets(v) : o.node = n}}
Total(gains) == FoldSet(LAMBDA g, sum : sum + g.gain, 0, gains)

RepUnclamped(v, n) == Total(Gains(v, n))

\* compute_oracle_rep and compute_oracle_rep_lifetime
Rep(v, n) == Max({0, Total(Gains(v, n))})
Lifetime(v, n) == Total({g \in Gains(v, n) : g.gain >= 0})

------------------------------------------------------------------------------
(* the chain grows *)

\* What an author has seen: everything, or everything but the latest event.
Views ==
  {chain} \union (IF late < MaxLate /\ chain # <<>> THEN {Front(chain)} ELSE {})
Write(v, event) ==
  /\ Len(chain) < MaxLength
  /\ chain' = Append(chain, event)
  /\ late' = (IF v = chain THEN late ELSE late + 1)
  /\ UNCHANGED now

Bet(v, pick) ==
  /\ Status(v, Clock) = "predicting" /\ Cardinality(Bets(chain)) < MaxBets
  /\ Write(v, [type |-> "bet", ts |-> Clock, node |-> pick.node, side |-> pick.side,
               paid |-> pick.paid])

\* build_snapshot
Frozen(v) == {b.node : b \in Bets(v)}

Snapshot(v, ok) ==
  /\ Due(v, Clock) = "evidence"
  /\ Write(v, [type |-> "snapshot", ts |-> Clock, ok |-> ok, frozen |-> Frozen(v),
               stake |-> Pool(v, "yes") + Pool(v, "no")])

Finalize(v, ok, outcome, provisional) ==
  /\ Due(v, Clock) = "final"
  /\ Write(v, [type |-> "finalize", ts |-> Clock, ok |-> ok, outcome |-> outcome,
               provisional |-> provisional])

OpenDispute(v, d) ==
  /\ Status(v, Clock) = "final" /\ ~IsOpen(v, d)
  /\ Write(v, [type |-> "dispute_open", ts |-> Clock, id |-> d])
StakeDispute(v, d, side) ==
  /\ IsOpen(v, d) /\ Resolves(v, d) = {}
  /\ Write(v, [type |-> "dispute_stake", ts |-> Clock, id |-> d, side |-> side])
ResolveDispute(v, d) ==
  /\ IsOpen(v, d) /\ Resolves(v, d) = {}
  /\ Write(v, [type |-> "dispute_resolve", ts |-> Clock, id |-> d, outcome |-> Verdict(v, d)])

DayPasses == now < MaxTime /\ now' = now + 1 /\ UNCHANGED <<chain, late>>
DayReturns == now > 0 /\ now' = now - 1 /\ UNCHANGED <<chain, late>>

MarketInit == chain = <<>> /\ now = 0 /\ late = 0
MarketNext ==
  \/ \E v \in Views :
       \/ \E pick \in Picks : Bet(v, pick)
       \/ \E ok \in BOOLEAN : Snapshot(v, ok)
       \/ \E ok, provisional \in BOOLEAN, outcome \in {"yes", "invalid"} :
            Finalize(v, ok, outcome, provisional)
       \/ \E d \in DisputeIds : \/ OpenDispute(v, d) \/ ResolveDispute(v, d)
                                \/ \E side \in {"confirm", "reverse"} : StakeDispute(v, d, side)
  \/ DayPasses \/ DayReturns
MarketSpec == MarketInit /\ [][MarketNext]_marketVars

------------------------------------------------------------------------------
MarketTypeOK ==
  /\ now \in 0..MaxTime /\ late \in 0..MaxLate /\ Len(chain) <= MaxLength
  /\ \A i \in DOMAIN chain :
       chain[i].type \in {"bet", "snapshot", "finalize", "dispute_open",
                          "dispute_stake", "dispute_resolve"}
  /\ Status(chain, Clock) \in {"predicting", "evidence", "resolving", "final", "invalid"}
  /\ \A n \in Bettors : 0 <= Rep(chain, n) /\ Rep(chain, n) <= Lifetime(chain, n)

\* "a later finalize must not replace it": what has become final or invalid
\* stays so, whatever comes, and when the time of the chain goes back.
TerminalStays ==
  [][Status(chain, Clock) \in {"final", "invalid"}
       => Status(chain', Clock') = Status(chain, Clock)]_marketVars

Phase == [predicting |-> 1, evidence |-> 2, resolving |-> 3]

\* A market never returns to a phase it has left, unless the time of the chain
\* goes back: a second snapshot does not open the evidence window again.
PhasesForward ==
  [][LET before == Status(chain, Clock)
         after == Status(chain', Clock') IN
     now' >= now /\ {before, after} \subseteq DOMAIN Phase
       => Phase[before] <= Phase[after]]_marketVars

\* A reversal moves the reputation of this market from those who were right to
\* those who were wrong, and a second reversal moves it back.
ReversalSwaps ==
  [][\A b \in Bets(chain) :
       /\ Mintable(chain)
       /\ \E d \in DisputeIds : Reversals(chain') = Reversals(chain) \union {d}
                                  /\ d \notin Reversals(chain)
       => (Gain(chain, b, EffectiveEnd(chain)) > 0)
            # (Gain(chain', b, EffectiveEnd(chain')) > 0)]_marketVars

\* Once a market is final, what it brings to a node changes only with the
\* resolution of a dispute or a finalize that was already on its way.
SettledStays ==
  [][\A n \in Bettors :
       Status(chain, Clock) = "final" /\ Rep(chain', n) # Rep(chain, n)
         => Last(chain').type \in {"dispute_resolve", "finalize"}]_marketVars

\* The status of a market only goes forward, and its end is the end.
StatusForward == TerminalStays /\ PhasesForward

\* After the end the reputation moves with a reversal, to the other side, and
\* with nothing else.
OnlyReversalsMove == SettledStays /\ ReversalSwaps

\* oracle_rep.py: "oracle_rep_lifetime is monotonically increasing".
LifetimeGrows ==
  [][\A n \in Bettors : Lifetime(chain', n) >= Lifetime(chain, n)]_marketVars

\* lifecycle.py: "a later finalize must not replace it"; the reputation takes
\* the latest.
MintsAsFinal ==
  (\E n \in Bettors : Lifetime(chain, n) > 0) => Status(chain, Clock) = "final"
=============================================================================
