SPECIFICATION FairSpec
CONSTANTS
  hung1 = hung1  hung2 = hung2  quick1 = quick1  quick2 = quick2  plain = plain
  main = main  worker1 = worker1
  Calls <- FiveCalls
  Timed <- FiveTimed
  Hung <- BothHung
  Thread <- AllOnMain
  SignalThread = main
INVARIANTS NothingLeftOver OnlyTimedTimeOut
PROPERTIES TimedCallsEnd
