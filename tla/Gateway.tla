-------------------------------- MODULE Gateway --------------------------------
(***************************************************************************)
(* The requests to Bilibili (biligateway/gateway.go, limits.go, http.go):  *)
(* the breaker of the egress and the budgets of requests.                  *)
(*                                                                         *)
(* A flight is what singleflight lets through: the probe of a room, a      *)
(* lookup of its record or of its gifts (whose answer is cached), or one   *)
(* of the calls that open it; callers who join a flight keep no state.  A  *)
(* step is what holds one of the mutexes; in between, a flight loads the   *)
(* credential and waits for the upstream.  Time passes in ticks; a         *)
(* deadline of an HTTP request, a handshake or a read ends every flight    *)
(* within Patience of them.  Budgets and thresholds are scaled down.       *)
(***************************************************************************)
EXTENDS Integers, Sequences, SequencesExt, FiniteSetsExt

CONSTANTS
  Accounts,     \* the accounts that ask
  Prober,       \* liveProbeScopeID
  Lookups,      \* the flights whose answer is cached
  Openings,     \* calls of OpenRoom
  GlobalBudget, AccountBudget, EndpointBudget, ProbeBudget, \* of a minute
  Minute,       \* in ticks
  Patience,     \* in ticks
  RiskSamples, RiskScopes, \* what opens the breaker: 10 of 3 accounts
  Trials        \* the successes that close it: 3

ASSUME GatewayAssumption ==
  /\ Minute \in Nat \ {0} /\ Patience \in 0..(2 * Minute - 1)
  /\ \A b \in {GlobalBudget, AccountBudget, EndpointBudget, ProbeBudget} :
       b \in Nat /\ b >= Trials /\ b % Minute = 0
  /\ Prober \notin Accounts /\ Trials \in Nat \ {0}

VARIABLES
  breaker, \* egressBreaker: the rest of the hold (-1: closed), halfOpen, successes
  risks,   \* egressBreaker.risks: the scope and the age of each sample
  budget,  \* the tokens of every bucket
  flight,  \* each flight: how far, for which scope, since when; history: is it a trial
  answers  \* roomInfo and catalog: the lookups whose answer is cached

gatewayVars == <<breaker, risks, budget, flight, answers>>

Probe == "probe"
Flights == {Probe} \cup Lookups \cup Openings
Scopes == Accounts \cup {Prober}
Unheld == -1
NoFlight == [at |-> "none", scope |-> Prober, age |-> 0, trial |-> FALSE]

Buckets == {"global", "probe", "open_room"} \cup Lookups \cup Accounts
Capacity(b) ==
  CASE b = "global" -> GlobalBudget
    [] b = "probe" -> ProbeBudget
    [] b \in Accounts -> AccountBudget
    [] OTHER -> EndpointBudget

GatewayInit ==
  /\ breaker = [hold |-> Unheld, halfOpen |-> FALSE, successes |-> 0]
  /\ risks = <<>>
  /\ budget = [b \in Buckets |-> Capacity(b)]
  /\ flight = [f \in Flights |-> NoFlight]
  /\ answers = {}

-----------------------------------------------------------------------------
(***************************************************************************)
(* The breaker                                                             *)
(***************************************************************************)
\* The two minutes for which the breaker holds.
HoldTime == 2 * Minute

Opened == [hold |-> HoldTime, halfOpen |-> FALSE, successes |-> 0]

\* The samples of the last minute, with a new one.
Sampled(scope) ==
  Append(SelectSeq(risks, LAMBDA s : s.age <= Minute), [scope |-> scope, age |-> 0])

Correlated(samples) ==
  /\ Len(samples) >= RiskSamples
  /\ Cardinality({samples[n].scope : n \in DOMAIN samples}) >= RiskScopes

\* RecordRisk: a risk in a trial opens the breaker again, other ones when they are
\* correlated.
RecordRisk(scope) ==
  IF breaker.halfOpen
  THEN breaker' = Opened /\ risks' = <<[scope |-> scope, age |-> 0]>>
  ELSE /\ risks' = Sampled(scope)
       /\ breaker' = IF Correlated(Sampled(scope)) THEN Opened ELSE breaker

RecordSuccess ==
  IF ~breaker.halfOpen THEN UNCHANGED <<breaker, risks>>
  ELSE IF breaker.successes + 1 >= Trials
  THEN breaker' = [hold |-> Unheld, halfOpen |-> FALSE, successes |-> 0] /\ risks' = <<>>
  ELSE /\ breaker' = [breaker EXCEPT !.halfOpen = FALSE, !.successes = @ + 1]
       /\ UNCHANGED risks

RecordFailure ==
  /\ breaker' = IF breaker.halfOpen THEN Opened ELSE [breaker EXCEPT !.successes = 0]
  /\ UNCHANGED risks

\* Allow: everything, nothing, or a trial when none is under way.
Admits == breaker.hold = Unheld \/ (breaker.hold = 0 /\ ~breaker.halfOpen)
IsTrial == breaker.hold = 0

-----------------------------------------------------------------------------
(***************************************************************************)
(* A flight                                                                *)
(***************************************************************************)
Proceeds(f, to) == flight' = [flight EXCEPT ![f].at = to]
Lands(f) == flight' = [flight EXCEPT ![f] = NoFlight]

\* Probe, RoomInfo, GiftCatalog and OpenRoom, unless a cached answer serves.
Begins(f) ==
  /\ flight[f].at = "none" /\ f \notin answers /\ Admits
  /\ \E scope \in IF f = Probe THEN {Prober} ELSE Accounts :
       flight' = [flight EXCEPT ![f] =
                    [at |-> "admitted", scope |-> scope, age |-> 0, trial |-> IsTrial]]
  /\ breaker' = [breaker EXCEPT !.halfOpen = @ \/ IsTrial]
  /\ UNCHANGED <<risks, budget, answers>>

\* The buckets that a flight is charged in, all of them or none.
Charged(f) ==
  {"global"} \cup IF f = Probe THEN {"probe"}
                  ELSE {flight[f].scope, IF f \in Openings THEN "open_room" ELSE f}

Charges(f) ==
  /\ flight[f].at = "admitted"
  /\ \A b \in Charged(f) : budget[b] >= 1
  /\ budget' = [b \in Buckets |-> IF b \in Charged(f) THEN budget[b] - 1 ELSE budget[b]]
  /\ Proceeds(f, "asking")
  /\ UNCHANGED <<breaker, risks, answers>>

\* A probe that finds its budget spent ends without a record, the others with a failure.
IsRefused(f) ==
  /\ flight[f].at = "admitted"
  /\ \E b \in Charged(f) : budget[b] < 1
  /\ Lands(f)
  /\ IF f = Probe THEN UNCHANGED <<breaker, risks>> ELSE RecordFailure
  /\ UNCHANGED <<budget, answers>>

\* Mutant: the success of a lookup is recorded with the cached answer only.
RecordLookup(f) == IF f \in Lookups THEN UNCHANGED <<breaker, risks>> ELSE RecordSuccess

RecordAnswer(f) == RecordSuccess

IsAnswered(f) ==
  /\ flight[f].at = "asking" /\ Lands(f)
  /\ answers' = IF f \in Lookups THEN answers \cup {f} ELSE answers
  /\ RecordAnswer(f)
  /\ UNCHANGED budget

\* 403, 412, 429 and their codes in an answer.
IsRejected(f) ==
  /\ flight[f].at = "asking" /\ Lands(f)
  /\ RecordRisk(flight[f].scope)
  /\ UNCHANGED <<budget, answers>>

\* No credential, no answer in time, or none that makes sense.
FlightFails(f) ==
  /\ flight[f].at = "asking" /\ Lands(f)
  /\ RecordFailure
  /\ UNCHANGED <<budget, answers>>

AnswerExpires(f) ==
  /\ f \in answers /\ answers' = answers \ {f}
  /\ UNCHANGED <<breaker, risks, budget, flight>>

-----------------------------------------------------------------------------
(***************************************************************************)
(* Time                                                                    *)
(***************************************************************************)
\* refillBucket; that an account's bucket is dropped when it was not used for ten
\* minutes makes no difference, for it is full by then.
Refilled(b) == Min({Capacity(b), budget[b] + Capacity(b) \div Minute})

\* A flight waits for its credential and for the upstream, but not between the breaker
\* and its budgets.
TimePasses ==
  /\ \A f \in Flights :
       flight[f].at # "none" => flight[f].at = "asking" /\ flight[f].age < Patience
  /\ breaker' = [breaker EXCEPT !.hold = IF @ > 0 THEN @ - 1 ELSE @]
  /\ risks' = SelectSeq([n \in DOMAIN risks |-> [risks[n] EXCEPT !.age = @ + 1]],
                        LAMBDA s : s.age <= Minute)
  /\ budget' = [b \in Buckets |-> Refilled(b)]
  /\ flight' = [f \in Flights |->
       IF flight[f].at = "none" THEN flight[f] ELSE [flight[f] EXCEPT !.age = @ + 1]]
  /\ UNCHANGED answers

GatewayNext ==
  \/ \E f \in Flights :
       \/ Begins(f) \/ Charges(f) \/ IsRefused(f) \/ IsAnswered(f) \/ IsRejected(f) \/ FlightFails(f)
       \/ AnswerExpires(f)
  \/ TimePasses

GatewaySpec == GatewayInit /\ [][GatewayNext]_gatewayVars

-----------------------------------------------------------------------------
(***************************************************************************)
(* Properties                                                              *)
(***************************************************************************)
InFlight == {f \in Flights : flight[f].at # "none"}

\* While the breaker is half open there is one request whose answer it waits for, so
\* that it neither stays half open for ever (a probe that finds no budget reports
\* nothing) nor lets a second request out on the answer of one that was asked before it
\* opened; and while it tries the egress no request but the trial is under way.
TrialsAreAnswered ==
  /\ breaker.halfOpen <=> \E f \in InFlight : flight[f].trial
  /\ breaker.hold = 0 => Cardinality(InFlight) <= 1
=============================================================================
