CONSTANTS
    MaxCalls = 2
    MaxNoise = 2
    Types = {1}
    Payloads <- SomePayloads
    MaxAttrs = 2
    MaxMessages = 3
SPECIFICATION FairSpec
INVARIANTS TypeOK AnswerIsTrue PacketsSurvive
PROPERTIES CallReturns
