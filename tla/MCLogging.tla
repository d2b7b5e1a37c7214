------------------------------ MODULE MCLogging ------------------------------
(***************************************************************************)
(* Two threads, each of which may make two calls of its own, a terminal    *)
(* and a file, and messages of the project's own domain only.              *)
(***************************************************************************)
EXTENDS Logging

Levels == {NoneLevel, Warning, Error}

TwoEach == [t \in Thread |-> 2]
=============================================================================
