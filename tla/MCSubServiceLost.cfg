\* the notes say that it is always tried again
CONSTANTS
    Expires <- MCExpires
    Slots = {k1, k2}
    Codes = {200, 404, 408}
SPECIFICATION FairSpec
PROPERTY RetriedWhenLost
