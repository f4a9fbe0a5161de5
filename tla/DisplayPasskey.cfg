\* Is a displayed passkey answered as the comment on DisplayPasskey says?
SPECIFICATION AgentSpec
CONSTANTS
    MaxRequests = 2
    MaxPosted = 2
INVARIANTS
    DisplayAnsweredEmpty
