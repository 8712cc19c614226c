---------------------------- MODULE MCEventLoop ----------------------------
(* Small instances of EventLoop: model values for the clients, descriptor  *)
(* numbers for the connections.                                            *)
EXTENDS EventLoop, TLC

ClientSymmetry == Permutations(Clients)

OneFd    == {4}
TwoFds   == {4, 5}
=============================================================================
