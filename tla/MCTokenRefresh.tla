--------------------------- MODULE MCTokenRefresh ---------------------------
(* The tabs are interchangeable: no definition of TokenRefresh tells one from another. *)
EXTENDS TokenRefresh, TLC

TabsAlike == Permutations(Tabs)

=============================================================================
