------------------------- MODULE MarketResolution -------------------------
(***************************************************************************)
(* How the ledger's events decide a prediction market and settle what was  *)
(* staked on the decision: resolve_market of                               *)
(* services/infonet/markets/resolution.py with the evidence, the votes of  *)
(* a bootstrap market and the rotations of identities.  Nothing is stored; *)
(* whoever reads the chain computes the result anew, so every event that   *)
(* is still to come may change it.                                         *)
(*                                                                         *)
(* Stakes are whole units of reputation, and all that is staked on a       *)
(* market is at most MaxPool of them.  Money is counted in parts of a unit *)
(* small enough for the burn of 2% and every share of a pool to be exact.  *)
(***************************************************************************)
EXTENDS Integers, FiniteSets, Sequences, SequencesExt, FiniteSetsExt, TLC

CONSTANTS
  Nodes,
  Predictors,         \* the nodes that have predicted
  Aged,               \* the nodes older than bootstrap_min_identity_age_days
  Offers,             \* what may be staked: node, type of reputation and units
  Rotations,          \* which identity may become which
  MinStake,           \* min_resolution_stake_total
  MinVotes,           \* min_market_participants
  Parts,              \* of a fiftieth of a unit: every pool divides it
  MaxPool, MaxEvidence, MaxStakes, MaxVotes, MaxLinks   \* bounds

ASSUME NodesAssumption ==
  /\ IsFiniteSet(Nodes) /\ Predictors \subseteq Nodes /\ Aged \subseteq Nodes
  /\ Rotations \subseteq Nodes \X Nodes
ASSUME OffersAssumption ==  \* collect_resolution_stakes takes only what is positive
  Offers \subseteq [node : Nodes, rep : {"oracle", "common"}, amount : Nat \ {0}]
ASSUME MinimaAssumption ==  \* CONFIG_SCHEMA: at least 5.0 and 2
  MinStake \in Nat \ {0} /\ MinVotes \in Nat \ {0}
ASSUME PartsAssumption ==
  /\ Parts \in Nat \ {0} /\ MaxPool \in Nat
  /\ \A pool \in 1..MaxPool : Parts % pool = 0
ASSUME BoundsAssumption ==
  MaxEvidence \in Nat /\ MaxStakes \in Nat /\ MaxVotes \in Nat /\ MaxLinks \in Nat

VARIABLES
  boot,       \* whether it is one of the first bootstrap_market_count markets
  frozen,     \* whether the market_snapshot is in the chain
  links,      \* identity_rotate: pairs of an old and a new identity
  evidence,   \* evidence_submit: the sides claimed, in the order of their times
  stakes,     \* resolution_stake: node, side, type of reputation and amount
  votes       \* bootstrap_resolution_vote: node, side and hash of the event

resolutionVars == <<boot, frozen, links, evidence, stakes, votes>>

Sides == {"yes", "no"}

Unit == 50 * Parts
BurnPct == Unit \div 50
Bond == 2 * Unit            \* evidence_bond_cost
FirstBonus == Unit \div 2   \* evidence_first_bonus

Amount(S) == SumFunction([s \in S |-> s.amount])
Sum(F(_), S) == SumFunction([x \in S |-> F(x)])

------------------------------------------------------------------------------
(* who may take part *)

\* rotation_descendants: one rotation after the other, as many as there are.
Successors(S) == {link[2] : link \in {l \in links : l[1] \in S}}
Renamed[k \in 0..Cardinality(links)] ==
  IF k = 0 THEN Predictors ELSE Renamed[k - 1] \union Successors(Renamed[k - 1])

DescendantsOnce == Predictors \union Successors(Predictors)

Descendants == Renamed[Cardinality(links)]

\* excluded_predictor_ids: nobody before the snapshot.
Excluded == IF frozen THEN Descendants ELSE {}

\* collect_resolution_stakes
Counted == {s \in stakes : s.node \notin Excluded}

Of(rep) == {s \in Counted : s.rep = rep}
For(side, rep) == {s \in Of(rep) : s.side = side}

CanonicalAlone == {v \in votes : \A o \in votes : o.node = v.node => o = v}

\* deduplicate_votes: the lowest hash of a node counts, whichever came first.
Canonical == {v \in votes : \A o \in votes : o.node = v.node => v.hash <= o.hash}

\* validate_bootstrap_eligibility
Ballot == {v \in Canonical : frozen /\ v.node \in Aged \ Excluded}

------------------------------------------------------------------------------
(* what is decided *)

Claims(side) == {i \in DOMAIN evidence : evidence[i] = side}

\* A side wins with three quarters of what was cast for either.
Leading(cast) ==
  LET total == cast["yes"] + cast["no"]
      leads == {side \in Sides : total > 0 /\ 4 * cast[side] >= 3 * total}
  IN IF leads = {} THEN "none" ELSE CHOOSE side \in Sides : side \in leads
OracleStake(side) == Amount(For(side, "oracle"))
VotesFor(side) == Cardinality({v \in Ballot : v.side = side})
Winner ==
  Leading([side \in Sides |-> IF boot THEN VotesFor(side) ELSE OracleStake(side)])

\* is_data_unavailable_triggered: a third of all oracle reputation.
DataUnavailable ==
  /\ Of("oracle") # {}
  /\ 100 * OracleStake("data_unavailable") >= 33 * Amount(Of("oracle"))

Invalidity ==
  IF boot THEN IF Cardinality(Ballot) < MinVotes THEN "bootstrap_below_min_participation"
               ELSE IF Winner = "none" THEN "bootstrap_no_supermajority" ELSE "none"
  ELSE IF DataUnavailable THEN "data_unavailable"
  ELSE IF OracleStake("yes") + OracleStake("no") < MinStake THEN "below_min_resolution_stake"
  ELSE IF Winner = "none" THEN "no_supermajority" ELSE "none"

Reason ==
  IF evidence = <<>> THEN "no_evidence"
  ELSE IF Invalidity # "none" THEN Invalidity
  ELSE IF Claims(Winner) = {} THEN "no_winning_side_evidence"
  ELSE "supermajority"

Outcome == IF Reason = "supermajority" THEN Winner ELSE "invalid"

------------------------------------------------------------------------------
(* what is paid back, what is won and what is burned *)

\* split_burn_and_return
Burnt(s) == BurnPct * s.amount
Kept(s) == Unit * s.amount - Burnt(s)

Losing(rep) == {s \in Of(rep) : s.side \in Sides \ {Winner}}

\* A bootstrap market settles no stakes once there is evidence.
Returned(s) ==
  LET full == Unit * s.amount IN
  CASE Reason = "no_evidence" -> full
    [] Reason # "no_evidence" /\ boot -> 0
    [] Reason \in {"below_min_resolution_stake", "no_winning_side_evidence"} /\ ~boot -> full
    [] Reason = "no_supermajority" -> Kept(s)
    [] Reason = "data_unavailable" -> IF s.side \in Sides THEN Kept(s) ELSE full
    [] Reason = "supermajority" /\ ~boot ->
         IF s \in Losing(s.rep) THEN 0 ELSE full

\* Of a pool that somebody has won, 98% go to the winners by their shares.
Pools == {rep \in {"oracle", "common"} : For(Winner, rep) # {} /\ Losing(rep) # {}}
Won(s) ==
  IF Outcome = "invalid" \/ boot \/ s.side # Winner \/ s.rep \notin Pools THEN 0
  ELSE s.amount * (((Unit - BurnPct) * Amount(Losing(s.rep)))
                     \div Amount(For(Winner, s.rep)))

\* The bonus of the first to bring evidence for the side that wins comes out of
\* the bonds of the others and never exceeds them.
LosingBonds == Bond * Cardinality(DOMAIN evidence \ Claims(Winner))

BonusMinted(i) ==
  IF Outcome # "invalid" /\ ~boot /\ i = Min(Claims(Winner)) THEN FirstBonus ELSE 0

Bonus(i) ==
  IF Outcome # "invalid" /\ ~boot /\ i = Min(Claims(Winner))
    THEN Min({FirstBonus, LosingBonds}) ELSE 0

BondReturned(i) ==
  IF \/ Reason \in {"no_evidence", "data_unavailable"}
     \/ Outcome # "invalid" /\ evidence[i] # Outcome
    THEN 0 ELSE Bond

Tax(rep) == BurnPct * Amount(Losing(rep))

\* burned_amount; a bootstrap market forfeits bonds and burns nothing.
Burned ==
  CASE Reason = "data_unavailable" ->
         Sum(Burnt, {s \in Counted : s.side \in Sides}) + Bond * Len(evidence)
    [] Reason = "no_supermajority" -> Sum(Burnt, Counted)
    [] Reason = "supermajority" /\ ~boot ->
         Sum(Tax, Pools) + LosingBonds - Sum(Bonus, DOMAIN evidence)
    [] OTHER -> 0

------------------------------------------------------------------------------
(* the chain grows *)

Submit(side) ==
  /\ Len(evidence) < MaxEvidence /\ evidence' = Append(evidence, side)
  /\ UNCHANGED <<boot, frozen, links, stakes, votes>>

\* Excluded nodes may send stakes and votes, too: the resolver drops them.
StakeOf(offer, side) ==
  [node |-> offer.node, side |-> side, rep |-> offer.rep, amount |-> offer.amount]
Stake(offer, side) ==
  /\ IF boot THEN stakes = {} /\ votes = {}
     ELSE Cardinality(stakes) < MaxStakes /\ Amount(stakes) + offer.amount <= MaxPool
  /\ stakes' = stakes \union {StakeOf(offer, side)}
  /\ UNCHANGED <<boot, frozen, links, evidence, votes>>

VoteBootstrap(n, side, hash) ==
  /\ boot /\ Cardinality(stakes) + Cardinality(votes) < MaxVotes
  /\ \A v \in votes : v.node = n => v.hash # hash
  /\ votes' = votes \union {[node |-> n, side |-> side, hash |-> hash]}
  /\ UNCHANGED <<boot, frozen, links, evidence, stakes>>

Freeze == /\ ~frozen /\ frozen' = TRUE /\ UNCHANGED <<boot, links, evidence, stakes, votes>>

\* validate_rotation: not while a stake of the old identity is open.
Rotate(old, new) ==
  /\ Cardinality(links) < MaxLinks
  /\ \A s \in stakes : s.node # old
  /\ links' = links \union {<<old, new>>}
  /\ UNCHANGED <<boot, frozen, evidence, stakes, votes>>

ResolutionInit ==
  /\ boot \in BOOLEAN /\ frozen = FALSE /\ links = {}
  /\ evidence = <<>> /\ stakes = {} /\ votes = {}

ResolutionNext ==
  \/ \E side \in Sides : Submit(side)
  \/ \E offer \in Offers, side \in Sides \union {"data_unavailable"} : Stake(offer, side)
  \/ \E n \in Nodes, side \in Sides, hash \in 1..2 : VoteBootstrap(n, side, hash)
  \/ \E link \in Rotations : Rotate(link[1], link[2])
  \/ Freeze

ResolutionSpec == ResolutionInit /\ [][ResolutionNext]_resolutionVars

------------------------------------------------------------------------------
StakeType ==
  [node : Nodes, side : Sides \union {"data_unavailable"}, rep : {"oracle", "common"},
   amount : Nat \ {0}]
VoteType == [node : Nodes, side : Sides, hash : 1..2]

ResolutionTypeOK ==
  /\ boot \in BOOLEAN /\ frozen \in BOOLEAN /\ links \subseteq Nodes \X Nodes
  /\ evidence \in Seq(Sides) /\ stakes \subseteq StakeType /\ votes \subseteq VoteType
  /\ Outcome \in Sides \union {"invalid"}

\* A losing pool without a winner of its kind of reputation, and the stakes and
\* the lost bonds of a bootstrap market with evidence, are taken from the
\* stakers and neither paid out nor burned.
Vanished ==
  IF boot THEN IF evidence = <<>> THEN 0
               ELSE Unit * Amount(Counted) + IF Outcome = "invalid" THEN 0 ELSE LosingBonds
  ELSE IF Outcome = "invalid" THEN 0
  ELSE Unit * Amount(UNION {Losing(rep) : rep \in {"oracle", "common"} \ Pools})

\* Resolution mints nothing and loses nothing else: what counts as staked, with
\* the bonds, is what is paid back, won, given as a bonus or burned.
SettlementBalances ==
  evidence # <<>> =>
    /\ Burned >= 0
    /\ Unit * Amount(Counted) + Bond * Len(evidence)
      = Sum(Returned, Counted) + Sum(Won, Counted)
          + Sum(BondReturned, DOMAIN evidence) + Sum(Bonus, DOMAIN evidence)
          + Burned + Vanished

\* Those who have predicted and every identity they have become, in any number
\* of rotations.
Interested == {n \in Nodes : \A S \in SUBSET Nodes :
                 Predictors \subseteq S /\ Successors(S) \subseteq S => n \in S}

\* Who has predicted has no say: once the snapshot is there, neither a stake nor
\* a vote of a predictor under any of its names changes the outcome.
PredictorsHaveNoSay ==
  [][/\ frozen
     /\ \/ \E s \in stakes' \ stakes : s.node \in Interested
        \/ \E v \in votes' \ votes : v.node \in Interested
     => Outcome' = Outcome]_resolutionVars

\* Support never hurts: a stake, a vote or evidence for the side that wins does
\* not take the win from it.
SupportNeverHurts ==
  [][/\ Outcome # "invalid"
     /\ \/ \E s \in stakes' \ stakes : s.side = Outcome
        \/ \E v \in votes' \ votes : v.side = Outcome
        \/ evidence' # evidence /\ Last(evidence') = Outcome
     => Outcome' = Outcome]_resolutionVars

\* stalemate_burn.py: the burn "does NOT apply when [...] below-minimum stake
\* total"; resolve_market asks for unavailable data before it asks for the total.
BurnNeedsMinimum ==
  (\E s \in Counted : Returned(s) = Kept(s) /\ evidence # <<>> /\ ~boot)
    => OracleStake("yes") + OracleStake("no") >= MinStake
=============================================================================
