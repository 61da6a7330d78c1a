SPECIFICATION FairSpec
CONSTANTS
    MaxSeq = 3
    Copies = 1
    Threads = {t1}
    blucket_num_ = 3
    Epochs = {0}
PROPERTIES
    RecoveryDelivered
CHECK_DEADLOCK FALSE
