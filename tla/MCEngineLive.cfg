SPECIFICATION Spec
CONSTANTS
    Edits = {"e1"}
    ChannelCap = 1
    MaxUpsets = 2
PROPERTIES
    EventuallyIndexed
