------------------------ MODULE MaintenanceWindowProofs ------------------------
(***************************************************************************)
(* Proofs about resolveMaintenanceWindowTime (manager.go lines 405-493),   *)
(* for every number of slots per day, every time and every policy:        *)
(*  - the window arithmetic of lines 471-491 composes the earliest window  *)
(*    on an allowed day that is not wholly in the past;                    *)
(*  - the loop over the rules (lines 409-464) keeps the invariant "the    *)
(*    first matching rule's settings are applied, or none yet", which at   *)
(*    the end is the reference of SettingsPerSpec.                         *)
(* What FoldLeft computes over a whole sequence of rules needs induction   *)
(* over the sequence, and is left to TLC.                                  *)
(***************************************************************************)
EXTENDS MaintenanceWindow, TLAPS

USE WindowAssumption

\* Whether day k after weekday d is among the allowed days.
Allowed(d, days, k) == (d + k) % 7 \in days

-----------------------------------------------------------------------------
(* The calendar arithmetic.                                                *)

\* A time point lies in its day, and its day has a weekday.
LEMMA DayOf ==
    ASSUME NEW n \in Nat
    PROVE  /\ Weekday(n) \in WeekDays
           /\ Midnight(n) \in Nat
           /\ Midnight(n) <= n
           /\ n < Midnight(n) + SlotsPerDay
BY DEF Weekday, Midnight, WeekDays

\* The clock of a time, set or not, is a slot of the day.
LEMMA ClockRange ==
    ASSUME NEW t \in Nat \cup {NoTime}
    PROVE  Clock(t) \in 0..(SlotsPerDay - 1)
BY DEF Clock, NoTime

\* The minimum of a set of integers is the one CHOOSE picks.
LEMMA ChooseMin ==
    ASSUME NEW K \in SUBSET Int, NEW m \in K, \A j \in K : m <= j
    PROVE  (CHOOSE k \in K : \A j \in K : k <= j) = m
<1> DEFINE c == CHOOSE k \in K : \A j \in K : k <= j
<1>1. \E k \in K : \A j \in K : k <= j
    OBVIOUS
<1>2. c \in K /\ \A j \in K : c <= j
    BY <1>1
<1>3. c \in Int /\ c <= m /\ m <= c
    BY <1>2
<1>4. c = m
    BY <1>3
<1>. QED
    BY <1>4

\* With some day allowed, FirstAvailableDayDiff is the number of days to
\* the first allowed one, today included.
LEMMA FirstDay ==
    ASSUME NEW d \in WeekDays, NEW days \in SUBSET WeekDays, days # {}
    PROVE  LET f == FirstAvailableDayDiff(d, days)
           IN  /\ f \in 0..6
               /\ Allowed(d, days, f)
               /\ \A j \in 0..(f - 1) : ~Allowed(d, days, j)
<1>. DEFINE A(k) == Allowed(d, days, k)
<1>1. PICK w \in days : TRUE
    OBVIOUS
<1>2. (w - d) % 7 \in 0..6 /\ A((w - d) % 7)
    BY DEF Allowed, WeekDays
<1>3. \E k \in 0..6 : A(k) /\ \A j \in 0..(k - 1) : ~A(j)
  <2>1. CASE A(0)
        BY <2>1
  <2>2. CASE ~A(0) /\ A(1)
        BY <2>2
  <2>3. CASE ~A(0) /\ ~A(1) /\ A(2)
        BY <2>3
  <2>4. CASE ~A(0) /\ ~A(1) /\ ~A(2) /\ A(3)
        BY <2>4
  <2>5. CASE ~A(0) /\ ~A(1) /\ ~A(2) /\ ~A(3) /\ A(4)
        BY <2>5
  <2>6. CASE ~A(0) /\ ~A(1) /\ ~A(2) /\ ~A(3) /\ ~A(4) /\ A(5)
        BY <2>6
  <2>7. CASE ~A(0) /\ ~A(1) /\ ~A(2) /\ ~A(3) /\ ~A(4) /\ ~A(5) /\ A(6)
        BY <2>7
  <2>. QED
    BY <1>2, <2>1, <2>2, <2>3, <2>4, <2>5, <2>6, <2>7
<1>. QED
    BY <1>3 DEF FirstAvailableDayDiff, Allowed

\* With some day allowed, NextAvailableDayDiff is the number of days to
\* the next allowed one after today, at most a week.
LEMMA NextDay ==
    ASSUME NEW d \in WeekDays, NEW days \in SUBSET WeekDays, days # {}
    PROVE  LET x == NextAvailableDayDiff(d, days)
           IN  /\ x \in 1..7
               /\ Allowed(d, days, x)
               /\ \A j \in 1..(x - 1) : ~Allowed(d, days, j)
<1>. DEFINE A(k) == Allowed(d, days, k)
<1>1. PICK w \in days : TRUE
    OBVIOUS
<1>. DEFINE k0 == IF (w - d) % 7 = 0 THEN 7 ELSE (w - d) % 7
<1>2. k0 \in 1..7 /\ A(k0)
    BY DEF Allowed, WeekDays
<1>3. \E k \in 1..7 : A(k) /\ \A j \in 1..(k - 1) : ~A(j)
  <2>1. CASE A(1)
        BY <2>1
  <2>2. CASE ~A(1) /\ A(2)
        BY <2>2
  <2>3. CASE ~A(1) /\ ~A(2) /\ A(3)
        BY <2>3
  <2>4. CASE ~A(1) /\ ~A(2) /\ ~A(3) /\ A(4)
        BY <2>4
  <2>5. CASE ~A(1) /\ ~A(2) /\ ~A(3) /\ ~A(4) /\ A(5)
        BY <2>5
  <2>6. CASE ~A(1) /\ ~A(2) /\ ~A(3) /\ ~A(4) /\ ~A(5) /\ A(6)
        BY <2>6
  <2>7. CASE ~A(1) /\ ~A(2) /\ ~A(3) /\ ~A(4) /\ ~A(5) /\ ~A(6) /\ A(7)
        BY <2>7
  <2>. QED
    BY <1>2, <2>1, <2>2, <2>3, <2>4, <2>5, <2>6, <2>7
<1>. QED
    BY <1>3 DEF NextAvailableDayDiff, Allowed

\* A day or more ahead is at least a day of slots ahead.
LEMMA DaysAhead ==
    \A k \in Nat : k # 0 => k * SlotsPerDay >= SlotsPerDay
BY SMT

-----------------------------------------------------------------------------
(* The window composition, lines 471-491.                                  *)

\* For a runtime with allowed days, at every time n the window that lines
\* 471-491 compose (shift to the first allowed day, move an end not after
\* the start to the next day, skip to the next allowed day if the window
\* is over) is the earliest window on an allowed day, today included,
\* that does not end before n: the reference EarliestWindow of
\* WindowIsEarliest, for every number of slots per day.
THEOREM WindowComposition ==
    ASSUME NEW e \in Runtimes, e.days # {}, NEW n \in Nat
    PROVE  ComposeWindow(e, n) = EarliestWindow(e, n)
<1>. DEFINE S == SlotsPerDay
            D == Weekday(n)
            M == Midnight(n)
            cb == Clock(e.begin)
            ce == Clock(e.end)
            f == FirstAvailableDayDiff(D, e.days)
            x == NextAvailableDayDiff(D, e.days)
            fs == f * S
            xs == x * S
            len == IF ce > cb THEN ce - cb ELSE ce - cb + S
            W(k) == WindowOn(e, n, k)
            K == {k \in 0..7 : Allowed(D, e.days, k) /\ W(k).end >= n}
<1>0. S \in Nat \ {0}
    OBVIOUS
<1>1. D \in WeekDays /\ M \in Nat /\ M <= n /\ n < M + S
    BY DayOf
<1>2. cb \in 0..(S - 1) /\ ce \in 0..(S - 1)
    BY ClockRange DEF Runtimes
<1>3. e.days \in SUBSET WeekDays
    BY DEF Runtimes
<1>4. /\ f \in 0..6
      /\ Allowed(D, e.days, f)
      /\ \A j \in 0..(f - 1) : ~Allowed(D, e.days, j)
    BY <1>1, <1>3, FirstDay
<1>5. /\ x \in 1..7
      /\ Allowed(D, e.days, x)
      /\ \A j \in 1..(x - 1) : ~Allowed(D, e.days, j)
    BY <1>1, <1>3, NextDay
<1>6. len \in 1..S
    BY <1>2
<1>7. /\ fs \in Nat /\ (f = 0 => fs = 0) /\ (f # 0 => fs >= S)
      /\ xs \in Nat /\ xs >= S
    BY <1>4, <1>5, DaysAhead
<1>8. /\ W(f) = [start |-> M + fs + cb, end |-> M + fs + cb + len,
                 days |-> e.days]
      /\ W(x) = [start |-> M + xs + cb, end |-> M + xs + cb + len,
                 days |-> e.days]
    BY DEF WindowOn
<1>9. ComposeWindow(e, n) =
        LET start == M + cb + fs
            end == CrossMidnight(start, M + ce + fs)
        IN  IF start < n /\ end < n
              THEN [start |-> start + xs, end |-> end + xs, days |-> e.days]
              ELSE [start |-> start, end |-> end, days |-> e.days]
    BY DEF ComposeWindow
<1>10. EarliestWindow(e, n) = W(CHOOSE k \in K : \A j \in K : k <= j)
    BY DEF EarliestWindow, Allowed
<1>11. CrossMidnight(M + cb + fs, M + ce + fs) = M + cb + fs + len
    BY <1>1, <1>2, <1>7 DEF CrossMidnight
<1>12. K \in SUBSET Int
    OBVIOUS
<1>. HIDE DEF S, D, M, cb, ce, f, x, fs, xs, len, W, K
<1>13. CASE ~(W(f).end < n)
  <2>1. ComposeWindow(e, n) = W(f)
    BY <1>0, <1>1, <1>2, <1>6, <1>7, <1>8, <1>9, <1>11, <1>13
  <2>2. f \in K /\ \A j \in K : f <= j
    BY <1>0, <1>1, <1>2, <1>4, <1>6, <1>7, <1>8, <1>13 DEF K
  <2>. QED
    BY <1>10, <1>12, <2>1, <2>2, ChooseMin
<1>14. CASE W(f).end < n
  <2>1. f = 0
    BY <1>0, <1>1, <1>2, <1>6, <1>7, <1>8, <1>14
  <2>2. ComposeWindow(e, n) = W(x)
    BY <1>0, <1>1, <1>2, <1>6, <1>7, <1>8, <1>9, <1>11, <1>14, <2>1
  <2>3. x \in K
    BY <1>0, <1>1, <1>2, <1>5, <1>6, <1>7, <1>8 DEF K
  <2>4. \A j \in K : x <= j
    BY <1>0, <1>1, <1>2, <1>5, <1>6, <1>7, <1>8, <1>14, <2>1 DEF K
  <2>. QED
    BY <1>10, <1>12, <2>2, <2>3, <2>4, ChooseMin
<1>. QED
    BY <1>13, <1>14

\* WindowIsEarliest, the property the maintenance_window run checks, in
\* every state whose times are time points and whose policy step yields a
\* well-formed runtime.  That the loop over the rules (a FoldLeft) yields
\* one for every policy is the part left to TLC.
THEOREM WindowEarliest ==
    ASSUME EffectiveRuntime(rt, policy) \in Runtimes,
           now \in Nat, after \in Nat
    PROVE  WindowIsEarliest
<1>. DEFINE e == EffectiveRuntime(rt, policy)
            n == IF after > now THEN after ELSE now
<1>1. n \in Nat
    OBVIOUS
<1>2. e.days # {} => ComposeWindow(e, n) = EarliestWindow(e, n)
    BY <1>1, WindowComposition
<1>. QED
    BY <1>2 DEF WindowIsEarliest, ResolveMaintenanceWindowTime

-----------------------------------------------------------------------------
(* The loop over policy.Rules, lines 409-447.                              *)

\* The rules among the first k that match runtime r.
MatchesUpTo(r, rules, k) == {i \in 1..k : RuleMatches(rules[i], r)}

\* The loop's state after the first k rules, as the reference describes
\* it: unmatched with r as it was, or matched with the settings of the
\* first matching rule applied.
ScanAfter(r, rules, k) ==
    LET M == MatchesUpTo(r, rules, k)
    IN  IF M = {} THEN [matched |-> FALSE, rt |-> r]
        ELSE [matched |-> TRUE,
              rt |-> ApplySettings(rules[CHOOSE i \in M : \A j \in M : i <= j], r)]

\* Before the loop nothing has matched.
LEMMA ScanStart ==
    ASSUME NEW r, NEW rules
    PROVE  ScanAfter(r, rules, 0) = [matched |-> FALSE, rt |-> r]
BY DEF ScanAfter, MatchesUpTo

\* One iteration (RuleStep: continue on a mismatch, apply and break on the
\* first match) takes the loop's state after k rules to its state after
\* k + 1.
LEMMA ScanStep ==
    ASSUME NEW r, NEW rules, NEW k \in Nat
    PROVE  RuleStep(ScanAfter(r, rules, k), rules[k + 1]) =
           ScanAfter(r, rules, k + 1)
<1>. DEFINE M == MatchesUpTo(r, rules, k)
            M1 == MatchesUpTo(r, rules, k + 1)
            p == rules[k + 1]
<1>1. M1 = M \cup {i \in {k + 1} : RuleMatches(p, r)}
  BY DEF MatchesUpTo
<1>2. M \subseteq 1..k
  BY DEF MatchesUpTo
<1>3. CASE M = {} /\ RuleMatches(p, r)
  <2>1. M1 = {k + 1}
    BY <1>1, <1>3
  <2>2. (CHOOSE i \in M1 : \A j \in M1 : i <= j) = k + 1
    BY <2>1, ChooseMin
  <2>. QED
    BY <1>3, <2>1, <2>2 DEF ScanAfter, RuleStep
<1>4. CASE M = {} /\ ~RuleMatches(p, r)
  <2>1. M1 = {}
    BY <1>1, <1>4
  <2>. QED
    BY <1>4, <2>1 DEF ScanAfter, RuleStep
<1>5. CASE M # {}
  <2>1. M1 # {} /\ M \subseteq M1 /\ M1 \subseteq M \cup {k + 1}
    BY <1>1, <1>5
  <2>2. \A i : (i \in M /\ \A j \in M : i <= j) <=>
               (i \in M1 /\ \A j \in M1 : i <= j)
    BY <1>2, <1>5, <2>1
  <2>3. (CHOOSE i \in M : \A j \in M : i <= j) =
        (CHOOSE i \in M1 : \A j \in M1 : i <= j)
    BY <2>2, Zenon
  <2>. QED
    BY <1>5, <2>1, <2>3 DEF ScanAfter, RuleStep
<1>. QED
  BY <1>3, <1>4, <1>5

\* After the last rule, the runtime the loop and the default (lines
\* 449-464) yield is the one the reference FirstMatchSettings gives.
LEMMA ScanResult ==
    ASSUME NEW r, NEW pol, pol.rules \in Seq(Rules)
    PROVE  LET s == ScanAfter(r, pol.rules, Len(pol.rules))
           IN  (IF s.matched THEN s.rt ELSE ApplySettings(pol.default, r))
               = ApplySettings(FirstMatchSettings(r, pol), r)
<1>1. MatchesUpTo(r, pol.rules, Len(pol.rules)) =
      {i \in DOMAIN pol.rules : RuleMatches(pol.rules[i], r)}
  BY DEF MatchesUpTo
<1>. QED
  BY <1>1 DEF ScanAfter, FirstMatchSettings

\* The loop invariant of resolveMaintenanceWindowTime's rule selection
\* (lines 409-464) against the reference of SettingsPerSpec, for every
\* runtime and policy: it holds before the loop, every iteration keeps it,
\* and after the last rule it gives the runtime with the first matching
\* rule's settings, or the default's.  With it, SettingsPerSpec is the
\* statement that FoldLeft(RuleStep, ...) iterates RuleStep over the rules,
\* an induction over the sequence that is left to TLC.
THEOREM RuleLoopInvariant ==
    ASSUME NEW r, NEW pol, pol.rules \in Seq(Rules)
    PROVE  /\ ScanAfter(r, pol.rules, 0) = [matched |-> FALSE, rt |-> r]
           /\ \A k \in 0..(Len(pol.rules) - 1) :
                RuleStep(ScanAfter(r, pol.rules, k), pol.rules[k + 1]) =
                ScanAfter(r, pol.rules, k + 1)
           /\ LET s == ScanAfter(r, pol.rules, Len(pol.rules))
              IN  (IF s.matched THEN s.rt ELSE ApplySettings(pol.default, r))
                  = ApplySettings(FirstMatchSettings(r, pol), r)
<1>1. ScanAfter(r, pol.rules, 0) = [matched |-> FALSE, rt |-> r]
  BY ScanStart
<1>2. \A k \in 0..(Len(pol.rules) - 1) :
        RuleStep(ScanAfter(r, pol.rules, k), pol.rules[k + 1]) =
        ScanAfter(r, pol.rules, k + 1)
  BY ScanStep
<1>. QED
  BY <1>1, <1>2, ScanResult

=============================================================================
