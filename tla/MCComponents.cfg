SPECIFICATION Spec
CONSTANTS
    Calls = {"c1", "c2"}
    Cancels = {"k"}
    Last = 4
    Window = 3
    MaxBreaks = 3
    MaxPieces = 3
    ReplyCalls = 2
    MaxDropped = 1
    KB = {"k"}
    Docs = {"d"}
    MaxChunks = 1
    KnowledgeFaults = 2
    KnowledgeRestarts = 2
    Size = 5
    Overlap = 2
    Levels <- McLevels
    WordSizes = {2, 7}
    Gaps = {1, 4}
    MaxWords = 4
    MaxTexts = 5
    BatchSize = 2
    MaxRetries = 3
    Bases = {"b1", "b2"}
    Scores <- McScores
    SearchedChunks = 3
    Requests = {"r1", "r2"}
    Names = {1}
    MaxEntries = 1
    Memories = {"m1", "m2", "m3"}
    Matching = {"m1", "m3"}
    Wanted = {"m1", "m2"}
    Limit = 1
    Jobs = {"j1", "j2"}
    Files = {1, 2}
    MaxMemories = 1
    Keep = 2
    MaxDays = 4
    Chats = {"c1", "c2"}
    RecalledFiles = {"f1", "f2"}
    Sections = {"todos"}
    MaxNamed = 2
    PromptCalls = 1
    Plugins <- McPlugins
    ToolNames <- McToolNames
    HookList <- McHookList
    SkillPaths <- McSkillPaths
    Skills = {"s"}
    ToolLists <- McToolLists
    MaxBuilds = 2
    Admins = {"a1", "a2"}
    Servers = {"s1", "s2"}
    Configured = {"s1"}
    MaxChanges = 3
    Sessions = {"s1", "s2"}
    Callers = {"c1"}
    Items = {1, 2}
    Messages = {"m"}
    MaxSaves = 2
    PageSize = 1
    MaxRows = 5
    HistoryCalls = 3
    MaxSteps = 2
    HistoryLimit = 4
    PageLimit = 5
    MaxFaults = 1
    MaxRestarts = 1
INVARIANTS
    ComponentsTypeOK
    AsyncConsistent
    AppliedInOrder
    RenderingFaithful
    KnowledgeConsistent
    RetrievalConsistent
    MemoryConsistent
    PromptConsistent
    AssemblyConsistent
    McpConsistent
    TodosConsistent
    StoreConsistent
    HistoryConsistent
PROPERTIES
    DocumentsSettle
    EmbeddingEnds
CHECK_DEADLOCK FALSE
