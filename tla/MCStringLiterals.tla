-------------------------- MODULE MCStringLiterals ---------------------------
EXTENDS StringLiterals

CONSTANTS U, V, a, b, c
=============================================================================
