CONSTANTS
    Address = {a1}
    Capacity = 2
SPECIFICATION BusySpec
PROPERTIES CardTakesFramesAgain
