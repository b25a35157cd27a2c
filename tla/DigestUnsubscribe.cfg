CONSTANTS
    r1 = r1
    r2 = r2
    NSubs = 1
    MaxEvents = 1
    NHours = 3
    PoolSize = 1
    Runs <- MCOneRun
    Preferences <- MCAllPreferences
    Default <- MCDefault
SPECIFICATION Spec
PROPERTIES
    UnsubscribeStopsMail
