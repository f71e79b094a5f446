CONSTANTS
    i1 = i1
    i2 = i2
    Instances = {i1, i2}
    Sound = {i1}
    InstanceMiner <- MCInstanceMiner
    Pids = {1, 2}
    NoPid = 0
    NoDump = NoDump
    MaxVersion = 1
SPECIFICATION WatchFairSpec
PROPERTIES SoundKept DeadGoes
