SPECIFICATION Spec
CONSTANTS
    Gsis = {9, 10}
    Cpus = {0}
    MaxCount = 3
    Wirings <- ComPort
    MaxSwitches = 1
    MaxResets = 0
    MaxRestores = 0
    None = None
PROPERTY LineFollowsDevices
