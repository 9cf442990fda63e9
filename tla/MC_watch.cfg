CONSTANTS
  WordBits = 2
  NTP = 12
  RdTP = 4
  WrTP = 9
  SyncTP = 6
  Cells = {0, 1}
  Rupts = {0}
  Addrs = {0, 1, 2, 3}
  StartAddr = 0
  ZRUPTAddr = 20
  CtrAddr <- MCCtrAddr
  RuptVec <- MCRuptVec
  CtrChain <- MCCtrChain
  CtrRupt <- MCCtrRupt
  BatchSize = 1
  Keys = {"]", "y", "d", "r"}
  CellInputs = {0}
  RuptInputs = {1}
  BreakAddrs = {}
  WatchAddrs = {30}
  Progs <- CounterProgs
SPECIFICATION SpecRunning
INVARIANT WatchCacheCurrent
PROPERTY HaltRespected
