---------------------------- MODULE Governance ----------------------------
(***************************************************************************)
(* What the ledger's events say of one petition or one upgrade proposal    *)
(* (services/infonet/governance).  Nothing is stored: the status is a      *)
(* function of the events, of the time of the chain and of the weights     *)
(* that the markets have given.  Anybody may append an event of any kind   *)
(* at any time, so the function has to make sense of all of them.          *)
(*                                                                         *)
(* An event carries the time that the chain has when it is appended, and   *)
(* that time may go back.  Nobody sends an event of a later stage before   *)
(* there is one of the stage before it.  Weights are exact; decay halves   *)
(* them (governance_decay_factor).                                         *)
(***************************************************************************)
EXTENDS Integers, FiniteSets, FiniteSetsExt, TLC

CONSTANTS
  Nodes,
  Kinds,             \* of "petition", "upgrade": which state machines to explore
  SignWindow, VoteWindow, ChallengeWindow, ActivationWindow,
  DecayAge,          \* governance_decay_days
  Heavy,             \* the nodes that the caller knows to be heavy
  Winners,           \* the nodes whose markets still change
  Records,           \* what the nodes may have won before the filing
  MaxTime, MaxEvents, MaxWins   \* bounds

None == -1
Time == 0..MaxTime

ASSUME NodesAssumption == IsFiniteSet(Nodes) /\ Winners \subseteq Nodes
ASSUME KindsAssumption == Kinds \subseteq {"petition", "upgrade"}
ASSUME RecordsAssumption == Records \subseteq [Nodes -> SUBSET Time]
ASSUME WindowsAssumption ==
  /\ SignWindow \in Nat /\ VoteWindow \in Nat /\ ActivationWindow \in Nat
  /\ ChallengeWindow \in Nat \ {0} /\ DecayAge \in Nat \ {0}
  /\ MaxTime \in Nat /\ MaxEvents \in Nat /\ MaxWins \in Nat

\* CONFIG: percentages of the weight of the network, or of the votes
Percent(kind) ==
  IF kind = "petition" THEN [sign |-> 25, quorum |-> 30, majority |-> 67]
  ELSE [sign |-> 25, quorum |-> 40, majority |-> 80]
ActivationPercent == 67

VARIABLES
  kind,        \* which of the two is looked at
  now,         \* chain_majority_time
  wins,        \* the times at which the markets that a node has won became final
  signs,       \* petition_sign, upgrade_sign: node and time
  votes,       \* petition_vote, upgrade_vote: node, time and side
  challenged,  \* the time of the first challenge, or None
  cvotes,      \* challenge_vote, upgrade_challenge_vote
  ready,       \* heavy nodes with an upgrade_signal_ready for the release
  done         \* whether petition_execute or upgrade_activate is in the chain

vars == <<kind, now, wins, signs, votes, challenged, cvotes, ready, done>>

------------------------------------------------------------------------------
(* weights: governance_decay.py *)

\* A market counts Left[Most], and half of it is left after each decay age.
Most == MaxTime \div DecayAge
Left[k \in 0..Most] == IF k = 0 THEN 1 ELSE 2 * Left[k - 1]

\* decay_factor_for_age
Halvings(age) == IF age <= DecayAge THEN 0 ELSE age \div DecayAge

WeightLinear(n, t) ==
  IF wins[n] = {} THEN 0
  ELSE Cardinality(wins[n]) * Left[Most] - Max({t - Max(wins[n]), 0})

\* compute_oracle_rep_active: the reputation itself (compute_oracle_rep) is one
\* for each market won.
Age(n, t) == Max({t - Max(wins[n]), 0})
Weight(n, t) ==
  IF wins[n] = {} THEN 0
  ELSE Cardinality(wins[n]) * Left[Most - Halvings(Age(n, t))]

\* Nodes without an event have no weight.
NetworkWeight == SumFunction([n \in Nodes |-> Weight(n, now)])

------------------------------------------------------------------------------
(* signatures *)

\* Only the first event of a node within a window counts.
Within(events, from, to) == {e \in events : from <= e.ts /\ e.ts <= to}
By(events) == {e.node : e \in events}
First(events, n) ==
  CHOOSE e \in events : e.node = n /\ \A o \in events : o.node = n => e.ts <= o.ts

\* Time is counted from the filing.
InTime == {s \in signs : s.ts <= SignWindow}
Signers == By(InTime)

\* compute_petition_state keeps the weight it has first seen of a node; the
\* upgrade's cache is filled with the weights of now before anything is counted.
WeightOf(n, ts) ==
  IF kind = "upgrade" THEN Weight(n, now)
  ELSE IF n \in Signers THEN Weight(n, First(InTime, n).ts) ELSE Weight(n, ts)

SignWeight == SumFunction([n \in Signers |-> WeightOf(n, 0)])
Reaches(part, whole, percent) == 100 * part >= percent * whole
Signed == /\ NetworkWeight > 0
          /\ Reaches(SignWeight, NetworkWeight, Percent(kind).sign)

\* voting_started_at: a petition takes the latest signature of all, an upgrade
\* the latest of those who have signed in time.
LatestSign ==
  IF kind = "petition" THEN Max({s.ts : s \in signs})
  ELSE Max({s.ts : s \in {o \in signs : o.node \in Signers}})

------------------------------------------------------------------------------
(* votes and challenges *)

VoteDeadline == LatestSign + VoteWindow
Counted == Within(votes, LatestSign, VoteDeadline)
FirstVotes(events) == {First(events, n) : n \in By(events)}
VotesAll(side) ==
  SumFunction([v \in {o \in Counted : o.side = side} |-> WeightOf(v.node, v.ts)])
Votes(side) ==
  SumFunction([v \in {o \in FirstVotes(Counted) : o.side = side} |-> WeightOf(v.node, v.ts)])

Carried ==
  LET all == Votes("for") + Votes("against") IN
  /\ all > 0
  /\ Reaches(all, NetworkWeight, Percent(kind).quorum)
  /\ Reaches(Votes("for"), all, Percent(kind).majority)

ChallengeUntil == VoteDeadline + ChallengeWindow

\* A petition's challenge has a time of its own, an upgrade's ends with the
\* window; the weights are those of the votes' times, or of now.
ChallengeDeadline == IF kind = "petition" THEN challenged + ChallengeWindow ELSE ChallengeUntil
Heard == FirstVotes(Within(cvotes, challenged, ChallengeDeadline))
ChallengeVotes(side) ==
  SumFunction([v \in {o \in Heard : o.side = side} |->
                 Weight(v.node, IF kind = "petition" THEN v.ts ELSE now)])
Voided == /\ challenged # None /\ now > ChallengeDeadline
          /\ ChallengeVotes("uphold") > ChallengeVotes("void")

------------------------------------------------------------------------------
(* compute_petition_state, compute_upgrade_state *)

ThresholdMet == /\ Heavy # {}
                /\ Reaches(Cardinality(ready), Cardinality(Heavy), ActivationPercent)

ActivationByDate == IF now > ChallengeUntil + ActivationWindow THEN "failed_activation" ELSE "activation"
Activation ==
  IF ~ThresholdMet /\ now > ChallengeUntil + ActivationWindow
    THEN "failed_activation" ELSE "activation"

Status ==
  CASE ~Signed -> IF now > SignWindow THEN "failed_signatures" ELSE "signatures"
    [] Signed /\ now <= VoteDeadline -> "voting"
    [] OTHER ->
         IF ~Carried THEN "failed_vote"
         ELSE IF Voided THEN "voided_challenge"
         ELSE IF now <= ChallengeUntil THEN "challenge"
         ELSE IF kind = "petition" THEN (IF done THEN "executed" ELSE "passed")
         ELSE IF done THEN "activated" ELSE Activation

------------------------------------------------------------------------------
(* the chain grows *)

Room == Cardinality(signs) + Cardinality(votes) + Cardinality(cvotes) + Cardinality(ready)
          + (IF done THEN 1 ELSE 0) + (IF challenged = None THEN 0 ELSE 1) < MaxEvents

New(events, n) == \A e \in events : e.node = n => e.ts # now

Sign(n) ==
  /\ Room /\ New(signs, n) /\ signs' = signs \union {[node |-> n, ts |-> now]}
  /\ UNCHANGED <<kind, now, wins, votes, challenged, cvotes, ready, done>>

Vote(n, side) ==
  /\ Room /\ signs # {} /\ New(votes, n)
  /\ votes' = votes \union {[node |-> n, ts |-> now, side |-> side]}
  /\ UNCHANGED <<kind, now, wins, signs, challenged, cvotes, ready, done>>

\* validate_challenge_filing and the first-wins rule: one challenge.
Challenge ==
  /\ Room /\ votes # {} /\ challenged = None /\ challenged' = now
  /\ UNCHANGED <<kind, now, wins, signs, votes, cvotes, ready, done>>

ChallengeVote(n, side) ==
  /\ Room /\ challenged # None /\ New(cvotes, n)
  /\ cvotes' = cvotes \union {[node |-> n, ts |-> now, side |-> side]}
  /\ UNCHANGED <<kind, now, wins, signs, votes, challenged, ready, done>>

\* Only heavy nodes count.
SignalReady(n) ==
  /\ Room /\ kind = "upgrade" /\ votes # {} /\ ready' = ready \union {n}
  /\ UNCHANGED <<kind, now, wins, signs, votes, challenged, cvotes, done>>

\* petition_execute, upgrade_activate: no status is asked for.
Finish ==
  /\ Room /\ votes # {} /\ ~done /\ done' = TRUE
  /\ UNCHANGED <<kind, now, wins, signs, votes, challenged, cvotes, ready>>

\* A market that n has predicted becomes final, or a dispute reverses it.
Win(n) ==
  /\ Cardinality(wins[n]) < MaxWins /\ wins' = [wins EXCEPT ![n] = @ \union {now}]
  /\ UNCHANGED <<kind, now, signs, votes, challenged, cvotes, ready, done>>
Reversed(n) ==
  /\ \E t \in wins[n] : wins' = [wins EXCEPT ![n] = @ \ {t}]
  /\ UNCHANGED <<kind, now, signs, votes, challenged, cvotes, ready, done>>

\* The median of the nodes' latest events moves; a node that appears with an
\* old event draws it back.
Pass == /\ now < MaxTime /\ now' = now + 1
        /\ UNCHANGED <<kind, wins, signs, votes, challenged, cvotes, ready, done>>
DrawBack == /\ now > 0 /\ now' = now - 1
            /\ UNCHANGED <<kind, wins, signs, votes, challenged, cvotes, ready, done>>

Init ==
  /\ kind \in Kinds /\ now = 0 /\ wins \in Records /\ signs = {} /\ votes = {}
  /\ challenged = None /\ cvotes = {} /\ ready = {} /\ done = FALSE

Next ==
  \/ \E n \in Nodes : \/ Sign(n)
                      \/ \E side \in {"for", "against"} : Vote(n, side)
                      \/ \E side \in {"uphold", "void"} : ChallengeVote(n, side)
  \/ \E n \in Winners : Win(n) \/ Reversed(n)
  \/ \E n \in Heavy : SignalReady(n)
  \/ Challenge \/ Finish \/ Pass \/ DrawBack

Spec == Init /\ [][Next]_vars

------------------------------------------------------------------------------
TypeOK ==
  /\ kind \in Kinds /\ now \in Time /\ done \in BOOLEAN
  /\ wins \in [Nodes -> SUBSET Time] /\ challenged \in Time \union {None}
  /\ ready \subseteq Heavy /\ \A n \in Nodes : Weight(n, now) >= 0
  /\ signs \subseteq [node : Nodes, ts : Time]
  /\ votes \subseteq [node : Nodes, ts : Time, side : {"for", "against"}]
  /\ cvotes \subseteq [node : Nodes, ts : Time, side : {"uphold", "void"}]

\* The statuses that a status may turn into when only time passes.
Waiting == IF ThresholdMet THEN {"activation"} ELSE {"activation", "failed_activation"}
After(status) ==
  CASE status = "signatures" -> {status, "failed_signatures"}
    [] status = "voting" -> {status, "failed_vote", "challenge", "voided_challenge"}
    [] status = "challenge" ->
         {status, "voided_challenge", "passed", "executed", "activated"} \union Waiting
    [] status = "activation" -> Waiting
    [] OTHER -> {status}

\* The state diagram of petition.py: time alone takes a petition or proposal
\* forward and never out of a final status, as long as no weight decays and no
\* challenge of a petition is still open when its window closes.
WaitingGoesForward ==
  [][/\ Pass /\ UNCHANGED NetworkWeight
     /\ kind = "petition" /\ challenged # None /\ Signed
          => challenged <= VoteDeadline \/ now > ChallengeDeadline
     => Status' \in After(Status)]_vars

\* A signature that comes when the time for signatures is over changes nothing
\* of an upgrade: it does not count and does not move the vote.
LateSignatureIgnored ==
  [][\A s \in signs' \ signs : kind = "upgrade" /\ s.node \notin Signers /\ s.ts > SignWindow
                                 => Status' = Status]_vars

\* A vote that comes after the deadline, or a second one, changes neither the
\* status nor what the sides weigh, though the time of the chain may have gone
\* back in between and the votes lie in another order than their times.
SecondVoteIgnored ==
  [][\A v \in votes' \ votes :
       Signed /\ (v.ts > VoteDeadline
                  \/ \E o \in Counted : o.node = v.node /\ o.ts < v.ts)
         => /\ Status' = Status
            /\ \A side \in {"for", "against"} : Votes(side)' = Votes(side)]_vars

\* What is late or has been said before changes nothing.
StrayEventsIgnored == LateSignatureIgnored /\ SecondVoteIgnored

\* petition.py: the diagram ends with "executed".
ExecutedStays == [][Status = "executed" => Status' = "executed"]_vars

\* petition.py: "Find the timestamp the threshold was crossed"; a signature that
\* comes after the vote has begun does not begin it again.
VoteBeginsOnce ==
  [][Signed /\ Signed' /\ Status = "voting" => LatestSign' = LatestSign]_vars

\* upgrade_hash.py: "Once 67% of Heavy Nodes have signaled, the upgrade
\* activates"; no proposal is active before.
ActiveIsReady == Status = "activated" => ThresholdMet
=============================================================================
