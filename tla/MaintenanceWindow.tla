--------------------------- MODULE MaintenanceWindow ---------------------------
(***************************************************************************)
(* The maintenance window of a runtime's upgrade operation                *)
(* (internal/orchestration/manager/manager.go): resolveMaintenanceWindowTime *)
(* picks the policy rule that applies to the runtime and composes the next *)
(* window.  It is pure: the state holds one input, chosen by Init, and    *)
(* never changes.                                                          *)
(*                                                                         *)
(* Time is counted in slots of SlotsPerDay per day from a Sunday midnight  *)
(* (time.Weekday numbers Sunday 0); a time of day is a slot 0..SlotsPerDay-1.*)
(* A Match pattern is abstracted to the set of values its regular         *)
(* expression matches (an invalid one matches nothing); day names to      *)
(* weekday numbers.                                                        *)
(***************************************************************************)
EXTENDS Integers, Sequences
LOCAL INSTANCE SequencesExt

CONSTANTS
    SlotsPerDay,     \* time slots per day
    Values,          \* plans, global accounts and regions
    Cases            \* the inputs: runtime, policy, time.Now() and the
                     \* schedule time

ASSUME WindowAssumption == SlotsPerDay \in Nat \ {0}

WeekDays == 0..6
TimesOfDay == 0..(SlotsPerDay - 1)

\* A Match pattern as the set of values it matches: an empty field ("")
\* matches every value.  An unset and an unparsable TimeBegin/TimeEnd.
NoPattern == Values
NotSet == -2
Unparsable == -3

Patterns == SUBSET Values
TimeSettings == TimesOfDay \cup {NotSet, Unparsable}

\* orchestration.MaintenancePolicyRule and its default: Match, Days,
\* TimeBegin, TimeEnd.
Settings == [days : SUBSET WeekDays, begin : TimeSettings, end : TimeSettings]
Rules == [plan : Patterns, ga : Patterns, region : Patterns,
          days : SUBSET WeekDays, begin : TimeSettings, end : TimeSettings]

\* A time point, or NoTime for time.Time{}, whose clock reads midnight.
NoTime == -1

\* orchestration.Runtime: the attributes a rule matches and the window
\* fields MaintenanceDays, MaintenanceWindowBegin and MaintenanceWindowEnd;
\* a parsed TimeBegin is a time point on day 0.
Runtimes == [plan : Values, ga : Values, region : Values,
             days : SUBSET WeekDays, begin : Nat \cup {NoTime},
             end : Nat \cup {NoTime}]


Weekday(t) == (t \div SlotsPerDay) % 7
Midnight(t) == t - (t % SlotsPerDay)

\* t.Hour(), t.Minute(), ... as a slot of the day.
Clock(t) == IF t = NoTime THEN 0 ELSE t % SlotsPerDay

\* orchestration.FirstAvailableDayDiff and NextAvailableDayDiff (common/,
\* from the specification): days to the first allowed day, today counting
\* or not; 0 when no day is allowed.
FirstAvailableDayDiff(d, days) ==
    IF days = {} THEN 0
    ELSE CHOOSE k \in 0..6 : /\ (d + k) % 7 \in days
                             /\ \A j \in 0..(k - 1) : (d + j) % 7 \notin days

NextAvailableDayDiff(d, days) ==
    IF days = {} THEN 0
    ELSE CHOOSE k \in 1..7 : /\ (d + k) % 7 \in days
                             /\ \A j \in 1..(k - 1) : (d + j) % 7 \notin days

-----------------------------------------------------------------------------
(* resolveMaintenanceWindowTime, lines 405-493.                            *)

\* Lines 410-429: a Match field that is set must match (regexp.MatchString;
\* an error counts as no match).
PatternMatches(pat, v) == v \in pat

RuleMatches(p, r) ==
    /\ PatternMatches(p.plan, r.plan)
    /\ PatternMatches(p.ga, r.ga)
    /\ PatternMatches(p.region, r.region)

\* Lines 432-445 for a rule and 450-464 for the default: the fields that
\* are set override the runtime's; a time that does not parse is ignored.
ApplySettings(p, r) ==
    [r EXCEPT !.days  = IF p.days # {} THEN p.days ELSE @,
              !.begin = IF p.begin \in TimesOfDay THEN p.begin ELSE @,
              !.end   = IF p.end \in TimesOfDay THEN p.end ELSE @]

\* Mutant: the loop does not break after the first matching rule.
RuleStepNoBreak(acc, p) ==
    IF ~RuleMatches(p, acc.rt) THEN acc
    ELSE [matched |-> TRUE, rt |-> ApplySettings(p, acc.rt)]

\* One iteration of the loop over policy.Rules, lines 409-447: a rule that
\* does not match is skipped, the first that does is applied, then break.
RuleStep(acc, p) ==
    IF acc.matched \/ ~RuleMatches(p, acc.rt) THEN acc
    ELSE [matched |-> TRUE, rt |-> ApplySettings(p, acc.rt)]

\* Lines 407-465: the runtime with the policy applied.
EffectiveRuntime(r, pol) ==
    LET scan == FoldLeft(RuleStep, [matched |-> FALSE, rt |-> r], pol.rules)
    IN IF scan.matched THEN scan.rt ELSE ApplySettings(pol.default, r)

\* Mutant: a window whose end equals its start is not moved to the next day.
CrossMidnightStrict(start, end) ==
    IF end < start THEN end + SlotsPerDay ELSE end

\* Lines 480-484: an end not after the start is on the next day.
CrossMidnight(start, end) ==
    IF end <= start THEN end + SlotsPerDay ELSE end

\* Lines 471-491: the window of runtime e on the day of n, shifted to the
\* first allowed day; if it is over at n, to the next allowed day.
ComposeWindow(e, n) ==
    LET shift == FirstAvailableDayDiff(Weekday(n), e.days) * SlotsPerDay
        start == Midnight(n) + Clock(e.begin) + shift
        end == CrossMidnight(start, Midnight(n) + Clock(e.end) + shift)
        next == NextAvailableDayDiff(Weekday(n), e.days) * SlotsPerDay
    IN IF start < n /\ end < n
         THEN [start |-> start + next, end |-> end + next, days |-> e.days]
         ELSE [start |-> start, end |-> end, days |-> e.days]

\* Lines 405-493: apply the policy, then compose the window at n, the later
\* of time.Now() and after (lines 466-470).
ResolveMaintenanceWindowTime(r, pol, aft, tnow) ==
    ComposeWindow(EffectiveRuntime(r, pol), IF aft > tnow THEN aft ELSE tnow)

-----------------------------------------------------------------------------
VARIABLES rt, policy, now, after

vars == <<rt, policy, now, after>>

\* The runtime the resolver returned, the policy of the config map,
\* time.Now() and o.Parameters.Strategy.ScheduleTime.
Init ==
    \E c \in Cases :
        /\ rt = c.rt /\ policy = c.policy /\ now = c.now
        /\ after = c.after

Next == UNCHANGED vars

Spec == Init /\ [][Next]_vars

-----------------------------------------------------------------------------
(* Reference definitions, from the specification (4.4).                   *)

\* The settings of the first rule whose set Match fields all match the
\* runtime, or the default's.
FirstMatchSettings(r, pol) ==
    LET M == {i \in DOMAIN pol.rules : RuleMatches(pol.rules[i], r)}
    IN IF M = {} THEN pol.default
       ELSE pol.rules[CHOOSE i \in M : \A j \in M : i <= j]

\* The daily window of runtime e on the k-th day after n's day.
WindowOn(e, n, k) ==
    LET s == Midnight(n) + k * SlotsPerDay + Clock(e.begin)
        len == IF Clock(e.end) > Clock(e.begin)
                 THEN Clock(e.end) - Clock(e.begin)
                 ELSE Clock(e.end) - Clock(e.begin) + SlotsPerDay
    IN [start |-> s, end |-> s + len, days |-> e.days]

\* The earliest window on an allowed day, today included, that is not
\* wholly in the past at n.
EarliestWindow(e, n) ==
    LET K == {k \in 0..7 : /\ (Weekday(n) + k) % 7 \in e.days
                           /\ WindowOn(e, n, k).end >= n}
    IN WindowOn(e, n, CHOOSE k \in K : \A j \in K : k <= j)

(* Properties.                                                             *)

\* The policy gives a runtime the fields set by the first rule all of whose
\* set Match fields match it, and the default's when no rule does: the
\* loop of lines 409-447 with its continue and break, and lines 449-464.
SettingsPerSpec ==
    EffectiveRuntime(rt, policy) = ApplySettings(FirstMatchSettings(rt, policy), rt)

\* For a runtime with allowed days, resolveMaintenanceWindowTime returns the
\* earliest window on an allowed day, today included, that is not wholly in
\* the past at time.Now() or at the later schedule time: the day shifts and
\* the midnight crossing of lines 466-490 compose to exactly that window.
WindowIsEarliest ==
    LET e == EffectiveRuntime(rt, policy)
        n == IF after > now THEN after ELSE now
    IN e.days # {} =>
         ResolveMaintenanceWindowTime(rt, policy, after, now) = EarliestWindow(e, n)

=====
