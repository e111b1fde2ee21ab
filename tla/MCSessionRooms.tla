--------------------------- MODULE MCSessionRooms ---------------------------
(* Windows are interchangeable, and so are sessions. *)
EXTENDS SessionRooms, TLC

Alike == Permutations(Clients) \cup Permutations(Sessions)

=============================================================================
