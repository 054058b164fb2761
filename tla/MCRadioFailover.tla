-------------------------- MODULE MCRadioFailover --------------------------
EXTENDS RadioFailover, TLC

\* Three candidates for the first channel and one for the second, which has
\* nothing to fall back on.
TwoChannels == <<1, 1, 1, 2>>
=============================================================================
