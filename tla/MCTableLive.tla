---------------------------- MODULE MCTableLive -----------------------------
EXTENDS TableLive

FirstKeys == Offset
=============================================================================
