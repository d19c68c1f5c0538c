------------------------------- MODULE MCImages -------------------------------
(* Two devices, a conversation, an image.  Devices and images are only ever    *)
(* compared with each other.                                                   *)
EXTENDS ImagesConversations, TLC
CONSTANTS d1, d2, x, k1
Permutees == Permutations(Appareils)
===============================================================================
