------------------------------ MODULE MCRubyApi ------------------------------
(***************************************************************************)
(* Processes for TLC: with and without a Ruby of the host, in which the    *)
(* places to look name the host's Ruby, another one, or none.              *)
(***************************************************************************)
EXTENDS RubyApi

CONSTANTS a, b

Processes ==
  {[platform |-> p, loadable |-> s, host |-> h, later |-> l, location |-> x, variable |-> v,
    path |-> y, rubyopt |-> "other"] :
     p \in {"posix", "windows"}, s \in {{a}, {a, b}}, h \in {"local", "global"},
     l \in BOOLEAN,
     x \in {NoLib, a, b}, v \in {NoLib, b}, y \in {NoLib, a}}
  \cup
  {[platform |-> "posix", loadable |-> {a}, host |-> "none", later |-> FALSE, location |-> NoLib,
    variable |-> a, path |-> NoLib, rubyopt |-> r] : r \in {"none", "bundler"}}
=============================================================================
