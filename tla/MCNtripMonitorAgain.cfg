SPECIFICATION Spec
CONSTANTS
    Ids = {1}
    Refused = {}
    MaxTries = 1
    MaxBlips = 1
    MaxPosts = 0
    MaxReboots = 0
PROPERTIES
    StreamsAgain
