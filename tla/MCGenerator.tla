---------------------------- MODULE MCGenerator ----------------------------
(* An instance of Generator: a server and two children, and two sources:    *)
(* one like /dev/urandom, which gives all it is asked for or fails, and one *)
(* that takes several polls and may give nothing.                           *)
EXTENDS Generator, TLC

CONSTANTS server, c1, c2

MCProcs == {server, c1, c2}
MCDrawers == {c1, c2}
MCThreshold == <<1, 2>>
MCYields == <<{1}, {0, 1}>>
=============================================================================
