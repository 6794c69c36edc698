------------------------------ MODULE MCDaemon ------------------------------
\* One client of one session, which it may use before it has started it.
EXTENDS Daemon
CONSTANT s1
MCSessions == {s1}
=============================================================================
