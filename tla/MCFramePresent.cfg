\* Every consumer and every kind of output, with one failure and one pause.
CONSTANTS
  Consumers = {"canvas", "source", "worker"}
  MaxFrames = 2
  Backends = {"module", "presenter", "headless"}
  Owners = {"text", "vbe", "placeholder", "off"}
  MaxTicks = 1
  MaxChanges = 1
  MaxLosses = 1
  MaxPauses = 1
SPECIFICATION Spec
CHECK_DEADLOCK FALSE
INVARIANT NoTornRead
INVARIANT PauseBarrier
PROPERTY ShownForward
PROPERTY ProducerResumes
PROPERTY LatestShown
