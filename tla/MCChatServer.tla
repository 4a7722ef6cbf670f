---------------------------- MODULE MCChatServer ----------------------------
(* Module ChatServer, with the symmetry of its clients, for TLC.           *)
EXTENDS ChatServer, TLC

ClientSymmetry == Permutations(Client)
=============================================================================
