------------------------------ MODULE MCPortal ------------------------------
EXTENDS Portal
=============================================================================
