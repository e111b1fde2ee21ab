-------------------------- MODULE MCConversations --------------------------
EXTENDS Conversations, TLC

\* Windows, conversations and texts are told apart by nothing but their names.
Alikes == Permutations(Windows) \cup Permutations(Convs) \cup Permutations(Texts)
=============================================================================
