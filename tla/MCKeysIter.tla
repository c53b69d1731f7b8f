----------------------------- MODULE MCKeysIter -----------------------------
EXTENDS KeysIter

TwoCells == {1, 2, 6}
FirstKeys == Offset
=============================================================================
