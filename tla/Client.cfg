SPECIFICATION FairSpec
CONSTANTS
  Configs <- MCConfigs
  Answers <- MCAnswers
  Pieces <- MCPieces
  MaxConnects <- MCMaxConnects
  MaxAnswers <- MCMaxAnswers
INVARIANTS WhatIsSentIsRead  AcceptedIsStable  NoPacketReadAhead
PROPERTIES CallsReturn
