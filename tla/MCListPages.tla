---------------------------- MODULE MCListPages ----------------------------
\* A small instance of ListPages for TLC: an execution that runs and one that has
\* ended are listed when the page is opened, and a restoration comes.
EXTENDS ListPages

CONSTANTS e1, r1, p1

Listed2 == <<e1, p1>>
=============================================================================
