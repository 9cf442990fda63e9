CONSTANTS
  WordBits = 2
  NTP = 12
  RdTP = 4
  WrTP = 9
  SyncTP = 6
  Cells = {0, 1}
  Rupts = {0}
  Addrs = {0, 1, 2, 3}
  StartAddr = 0
  ZRUPTAddr = 20
  CtrAddr <- MCCtrAddr
  RuptVec <- MCRuptVec
  CtrChain <- MCCtrChain
  CtrRupt <- MCCtrRupt
  BatchSize = 1
  Keys = {"]", "d"}
  CellInputs = {0}
  RuptInputs = {}
  BreakAddrs = {}
  WatchAddrs = {}
  Progs <- CounterProgs
SPECIFICATION SpecRunning
INVARIANT NoLostRequest
