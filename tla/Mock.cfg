SPECIFICATION FairSpec
CONSTANTS
    me = me
    talker = talker
    mute = mute
    Others <- MCOthers
    Talkers <- MCTalkers
    Texts <- MCTexts
    MaxOpen = 2
    Limit = 1
INVARIANTS TypeOK OnlySilentClientsHold FailsOnlyWithServer RowsOfMock
PROPERTIES TalkersAreServed EndsAskedOrStarved ActsAsServer LegalPeer HandlerFreed
