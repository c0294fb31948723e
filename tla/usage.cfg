SPECIFICATION FairSpec
CONSTANTS
    r1 = r1  r2 = r2  r3 = r3  app = app  job = job  gpt = gpt  llama = llama
    Open = Open  Unknown = Unknown  Person = Person  Unavailable = Unavailable  NoWorker = NoWorker
    Requests = {r1, r2, r3}
    ActorOf <- MCActorOf
    ModelOf <- MCModelOf
    AmountOf <- MCAmountOf
    Workers = {1, 2}
    Deployments <- MCDeployments
    Endings <- MCEndings
    HourLen = 2
    Lookback = 2
    FreshFor = 2
    ProbeInterval = 2
    MaxNow = 5
    MaxDelay = 1
    MaxSamples = 60
INVARIANTS RollupInv FiguresAgree OperationalIsCallable
PROPERTY EventuallyReconciled
CHECK_DEADLOCK FALSE
