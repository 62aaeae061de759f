------------------------------ MODULE MCSList ------------------------------
EXTENDS SList
CONSTANTS reach, stack, chopped, x, y
=============================================================================
