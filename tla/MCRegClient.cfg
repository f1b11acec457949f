\* DELAY_BEFORE_REFRESH 2, Expires 4 or none asked for, 7 guessed after a 423
CONSTANTS
    Configured <- MCConfigured
    Answers <- MCAnswers
    DelayBefore = 2
    Guess = 7
    Default = 6
SPECIFICATION FairSpec
INVARIANTS Sound BusyBalanced OneTransaction SilentOnlyIfTold RefreshInTime
PROPERTIES EveryRegisterTold ImplementsContract
CHECK_DEADLOCK FALSE
