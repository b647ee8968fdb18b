-------------------------- MODULE MCLinkingJourney --------------------------
EXTENDS LinkingJourney
=============================================================================
