---------------------------- MODULE MCMemoryFile ----------------------------
EXTENDS MemoryFile
CONSTANTS v, w
=============================================================================
