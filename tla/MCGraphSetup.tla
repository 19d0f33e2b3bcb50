----------------------------- MODULE MCGraphSetup -----------------------------
EXTENDS GraphSetup

AnyDenylist == SUBSET Apk
===============================================================================
