---------------------------- MODULE MCMakerServices ----------------------------
\* Two candidates of one game, in the order a pass comes to them.
EXTENDS MakerServices

CONSTANTS c1, c2

TwoLines == <<c1, c2>>
=============================================================================
