----------------------------- MODULE MCSharedTimer -----------------------------
(***************************************************************************)
(* Calls and threads for TLC.                                              *)
(***************************************************************************)
EXTENDS SharedTimer

CONSTANTS hung1, hung2, quick1, quick2, plain, main, worker1

\* Programs that hang or not, with and without a timeout.
FiveCalls == {hung1, hung2, quick1, quick2, plain}
FiveTimed == {hung1, hung2, quick1, quick2}
BothHung == {hung1, hung2}
AllOnMain == [c \in FiveCalls |-> main]

\* One call with a timeout and one without.
TwoCalls == {quick1, plain}
OneTimed == {quick1}
NoneHung == {}
OneWorker == [c \in TwoCalls |-> worker1]
================================================================================
