\* Two calls of one client; bob is registered and cat is not.
SPECIFICATION FairSpec
CONSTANTS
    bob = bob
    cat = cat
    Failure = Failure
    Recipient <- MCRecipient
    perRecipientFee = 1
    MAX_RECIPIENTS = 2
    MAX_PAYLOAD_BYTES = 4096
    Call <- MCCall
    Letter <- MCLetter
    Recipients <- MCRecipients
    Registered <- MCRegistered
    Nodes = 3
    Threshold = 2
    Faulty = 1
    MaxKeys = 2
    MaxMoves = 2
    MaxFaults = 1
    MaxRounds = 1
INVARIANTS
    TypeOK
    FlashLedgerExact
    LettersOpen
    ReturnedIsCreated
    PayloadFits
    VeilNeverEarly
PROPERTIES
    EveryCallEnds
CHECK_DEADLOCK FALSE
