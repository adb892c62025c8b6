SPECIFICATION LiveSpec
CONSTANTS
    Lossy = FALSE
    Slow = TRUE
    Rash = {}
    MaxSent = 8
    MaxStops = 3
PROPERTIES Obeys Delivered StopsShown Continued Released
CHECK_DEADLOCK FALSE
