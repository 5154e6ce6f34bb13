\* EAGLE keys, page_size 1: bigram units and limits
CONSTANTS
    Token <- MCToken
    MaxLen = 5
    PageSize = 1
    IsBigram = TRUE
SPECIFICATION FairSpec
INVARIANTS TypeOK MatchCorrect LoopInv
PROPERTY Terminates
\* the loop ends when match() returns
CHECK_DEADLOCK FALSE
