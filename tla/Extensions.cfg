\* The extensions for the radios and the activity of an application, each by itself.
SPECIFICATION SumSpec
CONSTANTS
    MaxWifiCalls = 3
    MaxToggles = 3
    Adapters = {a1, a2}
    NoAdapter = NoAdapter
    MaxSignals = 3
    MaxRequests = 2
    MaxPosted = 2
    ShownWindows = {w1, w2}
    Nowhere = Nowhere
    ActivityId = 1
    MaxFocusCalls = 3
INVARIANTS
    WifiTypeOK
    EachCallOnce
    AttemptHasService
    QuietAgreement
    AdapterTypeOK
    LeavesNothingOn
    AgentTypeOK
    AnswersOwnRequest
    EachRequestOnce
    ActivityTypeOK
    UserAppInForeground
    LeftAppInBackground
PROPERTIES
    KeepsScanning
    BecomesDiscoverable
    CallsPromise
    RequestsPromise
