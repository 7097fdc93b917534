------------------------------ MODULE MCMMAlloc ------------------------------
EXTENDS MMAlloc

MCFrame == {1, 2, 3}
=============================================================================
