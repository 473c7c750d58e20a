--------------------------- MODULE MCSeasonGrowth ---------------------------
EXTENDS SeasonGrowth

\* Identities one session short of their next season, and one long overdue.
Row(s, n) == [season |-> s, count |-> n, total |-> 0, rate |-> 0]
MCIdentities == {Row("spring", 4), Row("spring", 19), Row("fall", 19)}
MCLedgers == {<<>>, <<40, 50>>}
=============================================================================
