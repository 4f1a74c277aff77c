---------------------------- MODULE MCChatServer ----------------------------
(* ChatServer with model values for TLC.  The symmetry set permutes only    *)
(* values that play the same part.                                         *)
EXTENDS ChatServer, TLC

ClientNickSymmetry == Permutations(Fds) \cup Permutations(NickArgs)
=============================================================================
