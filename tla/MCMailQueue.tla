----------------------------- MODULE MCMailQueue -----------------------------
EXTENDS MailQueue, TLC

Symmetry == Permutations(Clients) \cup Permutations(Workers) \cup Permutations(Stoppers)
=============================================================================
