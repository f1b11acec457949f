\* three platforms, up to two regcs of each in use at the same time
CONSTANTS
    Expires <- MCExpires
    Slots = {k1, k2}
    Codes = {200, 202, 404, 408}
SPECIFICATION FairSpec
INVARIANTS TypeOK NoRegcAbandoned OneLateRegister
PROPERTIES KeepsTrying EventuallyRegistered
