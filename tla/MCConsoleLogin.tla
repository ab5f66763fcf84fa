--------------------------- MODULE MCConsoleLogin ---------------------------
EXTENDS ConsoleLogin
=============================================================================
