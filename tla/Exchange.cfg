\* Events, requests and answers in three versions, whole or cut off.
SPECIFICATION Spec
CONSTANTS
    HighBit = 128
    Versions = {0, 1, 2}
    Payloads <- MCPayloads
    Codes <- MCCodes
    MaxCut = 12
INVARIANTS
    CarriedInv
    WholeInv
    AnswerInv
    ErrorCodeInv
CHECK_DEADLOCK FALSE
