CONSTANTS
  WordBits = 2
  NTP = 12
  RdTP = 4
  WrTP = 9
  SyncTP = 6
  Cells = {0, 1}
  Rupts = {0}
  Addrs = {0, 1, 2, 3}
  StartAddr = 0
  ZRUPTAddr = 20
  CtrAddr <- MCCtrAddr
  RuptVec <- MCRuptVec
  CtrChain <- MCCtrChain
  CtrRupt <- MCCtrRupt
  BatchSize = 3
  Keys = {"r", "s", "n", "p", "a", "c", "d", "z", "x", "F1", "F2", "F4", "b"}
  CellInputs = {}
  RuptInputs = {}
  BreakAddrs = {25}
  WatchAddrs = {}
  Progs <- HaltProgs
INIT Init
NEXT Next
INVARIANT TypeOK
PROPERTY HaltRespected StepReleasedOnTP1
