--------------------------- MODULE MCOperRegistry ---------------------------
EXTENDS OperRegistry

CONSTANTS f1, f2

MCFuncs == {f1, f2}
=============================================================================
