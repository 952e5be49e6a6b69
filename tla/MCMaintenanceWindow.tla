------------------------- MODULE MCMaintenanceWindow -------------------------
(* Input sets of MaintenanceWindow for TLC: four slots a day (six hours),  *)
(* every time of one week, and policies of up to two rules.                *)
EXTENDS MaintenanceWindow

CONSTANTS v1, v2

MCDaySets == {{}, {0}, {1, 3}, {6}, {2, 3, 4}, WeekDays}

NoPolicy == [rules |-> <<>>, default |-> [days |-> {}, begin |-> NotSet,
                                          end |-> NotSet]]


\* Window arithmetic: every allowed-day set, time of day and time of week.
MCRuntimesWindow ==
    {[plan |-> v1, ga |-> v1, region |-> v1, days |-> d, begin |-> b,
      end |-> e] : d \in MCDaySets, b \in TimesOfDay, e \in TimesOfDay}
MCNows == 0..(7 * SlotsPerDay - 1)
MCAfters == {0, 9 * SlotsPerDay + 1}

\* Rule selection: rules over two values, up to two of them.
MCRuntimesRules ==
    {[plan |-> p, ga |-> v1, region |-> g, days |-> {1}, begin |-> 0,
      end |-> 1] : p \in {v1, v2}, g \in {v1, v2}}
MCRuleSet ==
    [plan : {NoPattern, {v1}, {}}, ga : {NoPattern},
     region : {NoPattern, {v2}}, days : {{}, {3}},
     begin : {NotSet, 2, Unparsable}, end : {NotSet}]
MCPolicies ==
    {[rules |-> rs, default |-> d] :
        rs \in {<<>>} \cup {<<x>> : x \in MCRuleSet}
                      \cup {<<x, y>> : x, y \in MCRuleSet},
        d \in [days : {{}, {5}}, begin : {NotSet, 3}, end : {NotSet}]}

\* An input case of MaintenanceWindow.
Case(r, pol, n, a) == [rt |-> r, policy |-> pol, now |-> n, after |-> a]

\* Window arithmetic without a policy, and rule selection at midnight.
MCWindowCases ==
    {Case(r, NoPolicy, n, a) :
        r \in MCRuntimesWindow, n \in MCNows, a \in MCAfters}
MCRuleCases ==
    {Case(r, pol, 0, 0) : r \in MCRuntimesRules, pol \in MCPolicies}
MCCases == MCWindowCases \cup MCRuleCases

=====
