--------------------------- MODULE MCMethodCodegen ---------------------------
EXTENDS MethodCodegen, MCPrograms
=============================================================================
