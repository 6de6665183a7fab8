----------------------------- MODULE MCTerminal ------------------------------
EXTENDS Terminal
=============================================================================
