------------------------------- MODULE MCPullUi -------------------------------
EXTENDS PullUi

CONSTANTS f, j, w1, w2
===============================================================================
