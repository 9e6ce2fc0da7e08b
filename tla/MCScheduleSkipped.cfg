SPECIFICATION Spec
CONSTANTS
    Absent = Absent
    NoRunPart = Absent
    NoFilePart = Absent
    NoLimitPart = Absent
    k1 = k1
    k2 = k2
    k3 = k3
    m1 = m1
    m2 = m2
    None = None
    Parts = {"schedule"}
    Zones <- UsualZones
    Call = "call"
    Hooks <- Two
    Waits = {1, 20, 130}
    HookFaults = 2
    Agents <- Two
    Calls <- Three
    Denials = 2
    TripWithin = 2
    Scopes = {"agent", "gate"}
    Lag = 1
    TripHorizon = 4
    TripFaults = 1
    MaxRestarts = 1
    NoAgent <- None
    ModelRuns <- Two
    Roles = {"drafter", "classifier"}
    Texts = {"plain", "secret"}
    Patterns = {"any", "word"}
    Hits <- AnyHit
    ModelPolicies <- SomePolicies
    MaxModelCalls = 2
    ModelFaults = 1
    MaxReloads = 1
    Listable <- Two
    StepContents = {"draft", "rewrite"}
    NoContent = "none"
    NoRequest <- None
    SendNames = {"send"}
    MaxAdjust = 1
    MaxSteps = 5
    MaxPipeRuns = 2
    StepFaults = 1
    TokenCallers = {"run", "other run", "command"}
    MainCaller = "command"
    MaxTokens = 2
    TokenFaults = 1
    ConfigFiles <- FilesOnDisk
    SkillDirs <- SkillFolders
    RunStarts <- Two
    NoRole = "none"
    NoSkill = "none"
    NoSteps <- None
    MaxEdits = 2
    MaxConfigBoots = 1
    Ids <- Three
    Torn <- None
    MaxRows = 3
    MaxAlter = 1
    MaxLines = 2
    MaxAnchorFaults = 2
    Installers <- Two
    SettingsPaths = {"project"}
    InstallOptions <- Installs
    Ours = {"ours 1", "ours 2"}
    Theirs = {"lint", "log"}
    Grouped = TRUE
    Documents <- SettingsFiles
    MaxSettingsEdits = 1
    ToolCalls <- Two
    Callers = {"inbox"}
    Settings <- ManySettings
    ArgValues <- Signed
    SentDefinitions = {"def A"}
    MaxRuleEdits = 1
    MaxGrants = 1
    Spellings <- Numbers
    Definitions = {"def A", "def B"}
    NoDefinition = "no definition"
    Spenders = {"run", "command"}
    NoSpender = "none"
    PipelineOf <- PipelineOfRun
    Usages <- SmallOrLarge
    RequestedTokens = 2
    Worst = 2
    DayCap <- CapOfDay
    PipelineCap <- CapOfPipeline
    RunTokens = 3
    AlertAt = {3}
    Attempts = 1
    MoneyDays = 2
    MaxBudgetCalls = 2
    MoneyFaults = 2
    Sessions <- Two
    Lengths = {1}
    CallCap = 1
    MinuteCap = 1
INVARIANTS
    SkippedSlotRuns
SYMMETRY Symmetric
CHECK_DEADLOCK FALSE
