--------------------------- MODULE MCTokenJourney ---------------------------
EXTENDS TokenJourney
=============================================================================
