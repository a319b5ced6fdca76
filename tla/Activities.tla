------------------------------ MODULE Activities ------------------------------
(***************************************************************************)
(* The play of the panel: gifts and timers drive attributes through rules, *)
(* activities gate the rules, end by a hand, a milestone or a time without *)
(* gifts, and keep a result (internal/gameplay/engine.go, with             *)
(* gameplay_adapter.go, activity_runtime.go and the timers of              *)
(* background_runtime.go).  Every change runs under the lock of the        *)
(* configuration store; a tick of the timers reads what is due before it   *)
(* takes that lock, and gifts carry the time they were sent at.            *)
(*                                                                         *)
(* A formula is a function of the attribute it drives; Skipped stands for  *)
(* a condition that is false, an error or a number that is not finite.     *)
(* Freezes are in AttributeEdits, schedules of the timers left out: an     *)
(* enabled timer may be due at any tick.                                   *)
(***************************************************************************)
EXTENDS Integers, SequencesExt

CONSTANTS
  Scores,         \* attributes
  NumberOfShows,  \* activities
  ScoresOf,       \* their attributes
  Gating,         \* the activities that gate the rules of their attributes
  ResultMode,     \* "highest", "lowest" or "none"
  InitialScores,  \* values an activity starts from
  MilestonesOf,   \* sequences of [score, comparison, threshold, action]
  TimeoutOf,      \* [seconds, action], seconds = 0 without one
  GiftRules,      \* a sequence of [score, formula, cap, limit]
  TimerRules,     \* a sequence of [score, formula]
  Skipped,
  NoWinner,
  Dates,          \* local dates, numbers
  MaxTime,        \* bound: the clock
  MaxTicks        \* bound: timer ticks that change something

Shows == 1..NumberOfShows

Milestones ==
  [score : Scores, comparison : {"gte", "lte"}, threshold : Int, action : {"announce", "lock", "settle"}]

ASSUME GatesAreDisjoint ==
  \A a, b \in Gating : a # b => ScoresOf[a] \cap ScoresOf[b] = {}

ASSUME ShowAssumption ==
  /\ NumberOfShows \in Nat /\ Gating \subseteq Shows
  /\ \A a \in Shows : /\ ScoresOf[a] \subseteq Scores /\ MilestonesOf[a] \in Seq(Milestones)
                       /\ TimeoutOf[a] \in [seconds : Nat, action : {"lock", "settle", "reset"}]

ASSUME RuleAssumption ==
  /\ DOMAIN GiftRules = 1..Len(GiftRules) /\ DOMAIN TimerRules = 1..Len(TimerRules)
  /\ Len(GiftRules) \in Nat /\ Len(TimerRules) \in Nat
  /\ \A r \in DOMAIN GiftRules : GiftRules[r].score \in Scores /\ GiftRules[r].limit \in Nat
  /\ \A r \in DOMAIN TimerRules : TimerRules[r].score \in Scores
  /\ 1 \in Dates

\* No number is Skipped.
ASSUME NumberAssumption ==
  /\ Skipped # 0 /\ \A r \in DOMAIN GiftRules : GiftRules[r].cap # Skipped
  /\ \A a \in Shows : \A x \in ScoresOf[a] : InitialScores[a][x] # Skipped

VARIABLES
  scores,    \* the values of the attributes
  show,      \* for each activity [status, result, deadline, triggered]
  stats,     \* counts of the rules by date; absent dates have none
  clock,     \* the time of day, in seconds
  today,     \* the local date, which a set clock may turn back
  due,       \* what a tick has read: [timers, shows, now]
  ticks,
  applied,   \* history: how often a rule was applied on a date
  window     \* history: until when the last gift that counts keeps it open

playVars == <<scores, show, stats, clock, today, due, ticks, applied, window>>

NoDue == [timers |-> {}, shows |-> {}, now |-> 0]
NoResult == [winner |-> NoWinner, values |-> <<>>]
Untriggered(a) == [m \in DOMAIN MilestonesOf[a] |-> Skipped]
Fresh(a, status) ==
  [status |-> status, result |-> NoResult, deadline |-> 0, triggered |-> Untriggered(a)]
NoCounts == [r \in DOMAIN GiftRules |-> 0]

PlayInit ==
  /\ scores = [s \in Scores |-> 0]
  /\ show = [a \in Shows |-> Fresh(a, "not_started")]
  /\ stats = [d \in {} |-> NoCounts]
  /\ clock = 1
  /\ today = 1
  /\ due = NoDue
  /\ ticks = 0
  /\ applied = [d \in Dates |-> NoCounts]
  /\ window = [a \in Shows |-> 0]
-----------------------------------------------------------------------------
(* The engine. *)

(* activityAllowsRules: the first gating activity with the attribute decides; *)
(* there is one at most.                                                      *)
AllowsRules(s) ==
  \A a \in Gating : s \in ScoresOf[a] => show[a].status = "active"

Better(mode, v, w) == (mode = "highest" /\ v > w) \/ (mode = "lowest" /\ v < w)

(* settleActivity: a winner that no other attribute equals. *)
SettledResult(a, values) ==
  LET best == {s \in ScoresOf[a] : \A o \in ScoresOf[a] \ {s} :
                 Better(ResultMode[a], values[s], values[o])}
  IN  [winner |-> IF ResultMode[a] = "none" \/ best = {} THEN NoWinner
                  ELSE CHOOSE s \in best : TRUE,
       values |-> [s \in ScoresOf[a] |-> values[s]]]

Ended(a, record, values, action) ==
  CASE action = "lock" -> [record EXCEPT !.status = "locked", !.deadline = 0]
    [] action = "settle" ->
         [record EXCEPT !.status = "settled", !.deadline = 0,
                        !.result = SettledResult(a, values)]
    [] OTHER -> record

Reached(m, values) ==
  \/ m.comparison = "gte" /\ values[m.score] >= m.threshold
  \/ m.comparison = "lte" /\ values[m.score] =< m.threshold

(* evaluateMilestones, for one activity: those that are reached, up to the first *)
(* that ends it.                                                                *)
Evaluated(a, record, values) ==
  LET milestone == MilestonesOf[a]
      reached == {m \in DOMAIN milestone : record.triggered[m] = Skipped /\ Reached(milestone[m], values)}
      ending == {m \in reached : milestone[m].action \in {"lock", "settle"}}
      told == {m \in reached : \A e \in ending : m =< e}
      noted == [record EXCEPT !.triggered =
                  [m \in DOMAIN milestone |-> IF m \in told THEN values[milestone[m].score] ELSE @[m]]]
  IN  IF record.status # "active" THEN record
      ELSE IF ending = {} THEN noted
      ELSE Ended(a, noted, values, milestone[Min(ending)].action)

AfterMilestones(shows, values) == [a \in Shows |-> Evaluated(a, shows[a], values)]

(* resetGiftTimeouts: the gift's own time opens a new window. *)
Watches(a, record, changed) ==
  record.status = "active" /\ TimeoutOf[a].seconds > 0 /\ ScoresOf[a] \cap changed # {}

AfterGift(shows, changed, at) ==
  [a \in Shows |-> IF Watches(a, shows[a], changed)
                   THEN [shows[a] EXCEPT !.deadline = at + TimeoutOf[a].seconds]
                   ELSE shows[a]]

(* One rule on one of the gifts sent together; run is [values, counts, changed]. *)
RuleApplied(run, r) ==
  LET rule == GiftRules[r]
      value == rule.formula[run.values[rule.score]]
      capped == IF value > rule.cap THEN rule.cap ELSE value
  IN  IF \/ ~AllowsRules(rule.score)
         \/ run.counts[r] >= rule.limit
         \/ value = Skipped
      THEN run
      ELSE [values |-> [run.values EXCEPT ![rule.score] = capped],
            counts |-> [run.counts EXCEPT ![r] = @ + 1],
            changed |-> run.changed \cup {rule.score}]

(* All rules on one of them. *)
RulesApplied(run) ==
  LET after[r \in 0..Len(GiftRules)] == IF r = 0 THEN run ELSE RuleApplied(after[r - 1], r)
  IN  after[Len(GiftRules)]

GiftApplied(values, counts, number) ==
  LET after[i \in 0..number] ==
        IF i = 0 THEN [values |-> values, counts |-> counts, changed |-> {}]
        ELSE RulesApplied(after[i - 1])
  IN  after[number]

TimerApplied(values, r, chosen) ==
  LET rule == TimerRules[r]
      value == rule.formula[values[rule.score]]
  IN  IF r \notin chosen \/ ~AllowsRules(rule.score) \/ value = Skipped
      THEN values ELSE [values EXCEPT ![rule.score] = value]

TimersApplied(values, chosen) ==
  LET after[r \in 0..Len(TimerRules)] ==
        IF r = 0 THEN values ELSE TimerApplied(after[r - 1], r, chosen)
  IN  after[Len(TimerRules)]
-----------------------------------------------------------------------------
(* The adapter: which counts the engine sees, and where they go back to. *)

(* gameplayRuleLimitState: today's counts, which the gift has just opened. *)
OpenDates == DOMAIN stats \cup {today}
NewestDate == CHOOSE d \in OpenDates : \A e \in OpenDates : e =< d
CountedDate == IF today \in OpenDates THEN today ELSE NewestDate

(* rollRuleLimits: another date starts at zero. *)
RuleLimits ==
  IF CountedDate = today /\ today \in DOMAIN stats THEN stats[today] ELSE NoCounts

(* applyGameplayRuleLimits. *)
WithCounts(counts) ==
  [d \in OpenDates |-> IF d = today THEN counts ELSE stats[d]]

(* A gift of number pieces, sent at a time not after now. *)
Gift(number, at) ==
  LET run == GiftApplied(scores, RuleLimits, number)
      kept == AfterGift(show, run.changed, at)
  IN  /\ scores' = run.values
      /\ show' = IF run.changed = {} THEN show ELSE AfterMilestones(kept, run.values)
      /\ stats' = WithCounts(run.counts)
      /\ applied' = [applied EXCEPT ![today] =
                       [r \in DOMAIN GiftRules |-> @[r] + run.counts[r] - RuleLimits[r]]]
      /\ window' = [a \in Shows |-> IF Watches(a, show[a], run.changed)
                                    THEN at + TimeoutOf[a].seconds ELSE window[a]]
      /\ UNCHANGED <<clock, today, due, ticks>>
-----------------------------------------------------------------------------
(* Activities by hand. *)

Restored(a, values) ==
  [s \in Scores |-> IF s \in ScoresOf[a] THEN InitialScores[a][s] ELSE values[s]]

Allowed(a, action) ==
  \/ action = "start" /\ show[a].status = "not_started"
  \/ action = "lock" /\ show[a].status = "active"
  \/ action = "settle" /\ show[a].status \in {"active", "locked"}
  \/ action = "reset"

(* transitionActivity on given values; what is not allowed changes nothing. *)
Transitioned(a, action, values) ==
  CASE action = "start" -> <<Restored(a, values), Fresh(a, "active")>>
    [] action = "reset" -> <<Restored(a, values), Fresh(a, "not_started")>>
    [] OTHER -> <<values, Ended(a, show[a], values, action)>>

Transition(a, action) ==
  /\ Allowed(a, action)
  /\ scores' = Transitioned(a, action, scores)[1]
  /\ show' = [show EXCEPT ![a] = Transitioned(a, action, scores)[2]]
  /\ window' = IF action \in {"start", "reset"} THEN [window EXCEPT ![a] = 0] ELSE window
  /\ UNCHANGED <<stats, clock, today, due, ticks, applied>>
-----------------------------------------------------------------------------
(* A tick of the timers. *)

Overdue(a, record, now) ==
  record.status = "active" /\ record.deadline > 0 /\ record.deadline =< now

DueTimers == {r \in DOMAIN TimerRules : AllowsRules(TimerRules[r].score)}

ReadDue ==
  /\ due = NoDue
  /\ ticks < MaxTicks
  /\ \E timers \in SUBSET DueTimers :
       due' = [timers |-> timers, shows |-> {a \in Shows : Overdue(a, show[a], clock)},
               now |-> clock]
  /\ due'.timers # {} \/ due'.shows # {}
  /\ ticks' = ticks + 1
  /\ UNCHANGED <<scores, show, stats, clock, today, applied, window>>

(* applyActivityGiftTimeouts: what was read is checked again, activity by activity, *)
(* and a transition that is no longer allowed is passed over.                       *)
OverdueAsRead(a, record, tick) == a \in tick.shows /\ record.status = "active"  \* a plausible mistake
StillOverdue(a, record, tick) == a \in tick.shows /\ Overdue(a, record, tick.now)

TimedOut(shows, values, tick) ==
  LET expired == {a \in Shows : StillOverdue(a, shows[a], tick)}
      resets == {a \in expired : TimeoutOf[a].action = "reset"}
      RestoredBefore(n) ==
        [x \in Scores |-> LET by == {a \in resets : a < n /\ x \in ScoresOf[a]}
                         IN  IF by = {} THEN values[x] ELSE InitialScores[Max(by)][x]]
  IN  [values |-> RestoredBefore(NumberOfShows + 1),
       shows |-> [a \in Shows |->
                    IF a \in resets THEN Fresh(a, "not_started")
                    ELSE IF a \in expired
                    THEN Ended(a, shows[a], RestoredBefore(a), TimeoutOf[a].action)
                    ELSE shows[a]]]

TimersRan ==
  \E r \in due.timers \cap DueTimers : TimerRules[r].formula[scores[TimerRules[r].score]] # Skipped

Tick ==
  LET values == TimersApplied(scores, due.timers)
      after == TimedOut(IF TimersRan THEN AfterMilestones(show, values) ELSE show, values, due)
  IN  /\ due # NoDue
      /\ scores' = after.values
      /\ show' = after.shows
      /\ due' = NoDue
      /\ UNCHANGED <<stats, clock, today, ticks, applied, window>>
-----------------------------------------------------------------------------
Pass == clock < MaxTime /\ clock' = clock + 1
        /\ UNCHANGED <<scores, show, stats, today, due, ticks, applied, window>>

(* Midnight, or somebody sets the clock. *)
ChangeDate ==
  /\ today' \in Dates \ {today}
  /\ UNCHANGED <<scores, show, stats, clock, due, ticks, applied, window>>

PlayNext ==
  \/ \E number \in 1..2, at \in 1..clock : Gift(number, at)
  \/ \E a \in Shows, action \in {"start", "lock", "settle", "reset"} : Transition(a, action)
  \/ ReadDue
  \/ Tick
  \/ Pass
  \/ ChangeDate

PlaySpec == PlayInit /\ [][PlayNext]_playVars
-----------------------------------------------------------------------------
(* A rule is applied no more often on a date than its limit, however many gifts *)
(* come together, across midnight and when the clock is set back and forth.     *)
DailyLimitsHold ==
  \A d \in Dates, r \in DOMAIN GiftRules : applied[d][r] =< GiftRules[r].limit

StartsOver(a) == show'[a].status = "not_started" \/ show'[a] = Fresh(a, "active")

(* An activity that does not run keeps what it has, one that runs the values its *)
(* milestones were reached with.                                                *)
KeepsWhatItHas(a) ==
  LET before == show[a]
      after == show'[a]
  IN  \/ StartsOver(a)
      \/ before.status # "active" /\ after.status = before.status /\ after = before
      \/ /\ before.status = "active"
         /\ \A m \in DOMAIN before.triggered : before.triggered[m] \in {Skipped, after.triggered[m]}
      \/ before.status = "locked" /\ after.status = "settled"

(* The attributes it gates change meanwhile only where an activity that shares them *)
(* starts over.                                                                     *)
GatesItsScores(a) ==
  a \in Gating /\ show[a].status # "active" =>
    \A s \in ScoresOf[a] : scores'[s] # scores[s] =>
      \E b \in Shows : StartsOver(b) /\ s \in ScoresOf[b] /\ scores'[s] = InitialScores[b][s]

(* A result tells the attributes at the end, which may be in the middle of a tick that *)
(* starts another activity over, and a winner above all others.                        *)
TellsTheResult(a) ==
  LET result == show'[a].result IN
  show'[a].status = "settled" /\ show[a].status # "settled" =>
    /\ \A s \in ScoresOf[a] : \/ result.values[s] \in {scores[s], scores'[s]}
                              \/ \E b \in Shows : StartsOver(b) /\ s \in ScoresOf[b]
    /\ result.winner # NoWinner =>
         \A s \in ScoresOf[a] \ {result.winner} :
           Better(ResultMode[a], result.values[result.winner], result.values[s])

(* Without a hand or a milestone it ends no sooner than the last gift that counts allows. *)
KeepsItsWindow(a) ==
  LET before == show[a]
      after == show'[a]
  IN  /\ due # NoDue /\ due' = NoDue
      /\ before.status = "active" /\ after.status # "active"
      /\ after.triggered = before.triggered \/ after = Fresh(a, "not_started")
      => window[a] =< due.now

ActivitiesEndOnce ==
  [][\A a \in Shows :
       KeepsWhatItHas(a) /\ GatesItsScores(a) /\ TellsTheResult(a) /\ KeepsItsWindow(a)]_playVars

(* What several gifts, timers, hands and clocks that run at once do not break (engine.go, *)
(* gameplay_adapter.go:317, background_runtime.go:1060): the two above.                   *)
PlayKeepsItsRules == []DailyLimitsHold /\ ActivitiesEndOnce
==============================================================================
