\* The resolved window for every day set, begin, end and time of a week,
\* and the rule selection for every policy of up to two rules.
SPECIFICATION Spec
CONSTANTS
    v1 = v1  v2 = v2  Values = {v1, v2}  SlotsPerDay = 4
    Cases <- MCCases
INVARIANT WindowIsEarliest
INVARIANT SettingsPerSpec
