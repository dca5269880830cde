----------------------------- MODULE MCMatchTree -----------------------------
\* The totals and the result of a game in which the away team's name contains
\* the home team's, as both venues write them.
EXTENDS MatchTree

L == INSTANCE MatchListings

NestedListings == L!ListingsOf(L!Nested, L!Nested)
=============================================================================
