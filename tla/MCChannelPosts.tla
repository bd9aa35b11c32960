--------------------------- MODULE MCChannelPosts ---------------------------
(* Instances of ChannelPosts for TLC: the requests can be interchanged. *)
EXTENDS ChannelPosts, TLC

Symmetry == Permutations(Requests)
=============================================================================
