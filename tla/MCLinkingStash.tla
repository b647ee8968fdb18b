--------------------------- MODULE MCLinkingStash ---------------------------
EXTENDS LinkingStash
=============================================================================
