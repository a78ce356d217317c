SPECIFICATION Spec
CONSTANTS
    Row = {1, 2, 3, 4}
    Time = {0, 1, 2}
    PerMs = 2
    Limit = 2
    Kind = {"joined"}
    MaxLines = 2
    MaxChanges = 2
    NoCursor = NoCursor
PROPERTIES
    ForwardOnly
