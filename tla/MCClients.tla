----------------------------- MODULE MCClients ------------------------------
EXTENDS Clients, TLC

Threads == Permutations(Thread)
AnyKey == Word
=============================================================================
