SPECIFICATION FairSpec
CONSTANTS
    Tools = {t1, t2}
    Users = {u1, u2}
    Readable <- Unrestricted
    Requests = {r1, r2}
    MaxRestarts = 1
PROPERTIES
    RegistrationShows
