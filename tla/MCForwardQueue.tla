--------------------------- MODULE MCForwardQueue ---------------------------
(* The image forward queue for TLC: the two configurations name the chats,  *)
(* the images and the bounds.                                               *)
EXTENDS ForwardQueue

=============================================================================
