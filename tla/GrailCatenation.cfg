SPECIFICATION GrailSpec
CONSTANTS
    m1 = m1  m2 = m2  m3 = m3  e1 = e1  e2 = e2  l1 = l1  l2 = l2  w1 = w1
    Files <- MCFiles
    Missing = Missing
    Nothing = Nothing
    MaxPiped = 1
    Letters = {1, 2}
    Operands <- MCOperands
    MaxSize = 6
    Dfas <- MCDfas
    Nfas <- MCNfas
    MaxState = 3
    Issued <- MCIssued
    Others <- MCOthers
    MaxInBucket = 7
INVARIANT CatenationIsComplete
CHECK_DEADLOCK FALSE
