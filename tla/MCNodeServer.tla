---------------------------- MODULE MCNodeServer ----------------------------
(* Instances of NodeServer: one node, as nodes do not talk to each other.    *)
EXTENDS NodeServer
=============================================================================
