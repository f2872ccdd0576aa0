SPECIFICATION Spec
CONSTANTS
    USB_NUMDEVICES = 3
    Speed <- MCSpeed
INVARIANTS DetachedIsEmpty
