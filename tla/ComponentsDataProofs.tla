------------------------- MODULE ComponentsDataProofs -------------------------
(***************************************************************************)
(* As in ComponentsProofs, for the components whose own proofs are in      *)
(* StorageProofs and ListsProofs.                                          *)
(***************************************************************************)
EXTENDS Components, TLAPS

Kept == INSTANCE StorageProofs WITH MaxFaults <- KnowledgeFaults,
  MaxRestarts <- KnowledgeRestarts, stage <- kbStage,
  MemoryFaults <- MaxFaults, MemoryRestarts <- MaxRestarts,
  snapshot <- memSnapshot, reply <- memReply, index <- memIndex,
  listed <- recallListed, state <- sumFile, starts <- sumRestarts
Ordered == INSTANCE ListsProofs

(* A step is one of the chosen component; the others' variables stay.      *)
LEMMA OneAtATime ==
  ASSUME [Next]_vars
  PROVE  /\ RunBase \/ UNCHANGED kbVars
         /\ RunMemory \/ UNCHANGED memVars
         /\ RunRecall \/ UNCHANGED recallVars
         /\ RunSummarizer \/ UNCHANGED sumVars
         /\ RunHarness \/ UNCHANGED harnessVars
         /\ RunRetrieval \/ UNCHANGED searchVars
         /\ RunContext \/ UNCHANGED histVars
         /\ RunRendering \/ UNCHANGED replyVars
<1>1. CASE UNCHANGED vars
  BY <1>1 DEF vars
<1>2. CASE Next
  <2>1. \/ part \in {"async", "client", "chunking", "embedding",
                   "prompt", "mcp", "todos", "store"} /\ Others
        \/ RunBase \/ RunMemory \/ RunRecall \/ RunSummarizer
        \/ RunHarness \/ RunRetrieval \/ RunContext \/ RunRendering
    BY <1>2 DEF Next, RunAsync, RunClient, RunChunker,
           RunEmbedder, RunPrompt, RunMcp, RunPlan, RunStore
  <2>2. CASE part \in {"async", "client", "chunking", "embedding",
                   "prompt", "mcp", "todos", "store"} /\ Others
    BY <2>2 DEF Others
  <2>3. CASE RunBase \/ RunMemory \/ RunRecall \/ RunSummarizer
    BY <2>3 DEF Others, RunBase, RunMemory, RunRecall, RunSummarizer
  <2>4. CASE RunHarness \/ RunRetrieval \/ RunContext \/ RunRendering
    BY <2>4 DEF Others, RunHarness, RunRetrieval, RunContext, RunRendering
  <2>5. QED
    BY <2>1, <2>2, <2>3, <2>4
<1>3. QED
  BY <1>1, <1>2

LEMMA SameFiniteSets ==
  \A S : /\ IsFiniteSet(S) <=> Kept!IsFiniteSet(S)
         /\ IsFiniteSet(S) <=> Base!IsFiniteSet(S)
         /\ IsFiniteSet(S) <=> Ordered!IsFiniteSet(S)
  BY DEF IsFiniteSet, Kept!IsFiniteSet, Base!IsFiniteSet, Ordered!IsFiniteSet

LEMMA SameHooks ==
  /\ Harness!ThePlugins = Ordered!Harness!ThePlugins
  /\ Harness!AllTools = Ordered!Harness!AllTools
  /\ Harness!Hook = Ordered!Harness!Hook
  /\ \A n : Harness!AllHooks(n) = Ordered!Harness!AllHooks(n)
  BY DEF Harness!ThePlugins, Ordered!Harness!ThePlugins, Harness!AllTools,
         Ordered!Harness!AllTools, Harness!Hook, Ordered!Harness!Hook,
         Harness!AllHooks, Ordered!Harness!AllHooks, Harness!HooksOf,
         Ordered!Harness!HooksOf, Harness!FlattenSeq, Ordered!Harness!FlattenSeq,
         Harness!ToSet, Ordered!Harness!ToSet

LEMMA SameOrders == \A S : Recall!SetToSeqs(S) = Kept!Recall!SetToSeqs(S)
  BY DEF Recall!SetToSeqs, Kept!Recall!SetToSeqs, Recall!Cardinality,
         Kept!Recall!Cardinality

-----------------------------------------------------------------------------
(* Documents, chunks and counts of the knowledge base agree, whatever      *)
(* fails and however often the server restarts (kbworker/worker.go).       *)
THEOREM KnowledgeHolds == Spec => []KnowledgeConsistent
<1>1. Init => Kept!Init
  <2>1. Init => Base!Init
    BY DEF Init
  <2>2. QED
    BY <2>1 DEF Base!Init, Kept!Init
<1>2. ASSUME [Next]_vars PROVE [Kept!Next]_(Kept!vars)
  <2>1. CASE RunBase
    <3>1. Base!Next
      BY <2>1 DEF RunBase
    <3>2. QED
      BY <3>1 DEF Base!Next, Kept!Next, Base!Handlers, Kept!Handlers,
             Base!Worker, Kept!Worker, Base!Restart, Kept!Restart,
             Base!CreateKB, Kept!CreateKB, Base!DropChunks, Kept!DropChunks,
             Base!DropDocuments, Kept!DropDocuments, Base!DropRow,
             Kept!DropRow, Base!IngestDocument, Kept!IngestDocument,
             Base!DeleteChunks, Kept!DeleteChunks, Base!DeleteRow,
             Kept!DeleteRow, Base!Upload, Kept!Upload, Base!Poll,
             Kept!Poll, Base!Take, Kept!Take, Base!Parse, Kept!Parse,
             Base!Embed, Kept!Embed, Base!StoreChunks, Kept!StoreChunks,
             Base!MarkError, Kept!MarkError, Base!Verified, Kept!Verified,
             Base!histVars, Kept!histVars, Base!workVars, Kept!workVars,
             Base!deleteVars, Kept!deleteVars, Base!In, Kept!In, Base!Listed,
             Kept!Listed, Base!Present, Kept!Present, Base!NoFault,
             Kept!NoFault, Base!Fault, Kept!Fault, Base!SetDoc,
             Kept!SetDoc, Base!Unfinished, Kept!Unfinished,
             Base!BeingDeleted, Kept!BeingDeleted, Base!WorkerFrame,
             Kept!WorkerFrame, Base!Current, Kept!Current, Base!NextDocument,
             Kept!NextDocument, Base!UpdateDocumentStatus,
             Kept!UpdateDocumentStatus, Base!Total, Kept!Total, Base!Rows,
             Kept!Rows, Base!Cardinality, Kept!Cardinality, Base!SetToSeqs,
             Kept!SetToSeqs
  <2>2. CASE UNCHANGED kbVars
    BY <2>2 DEF kbVars, Kept!vars, Kept!rowVars, Kept!workVars,
           Kept!deleteVars, Kept!histVars
  <2>3. QED
    BY <1>2, <2>1, <2>2, OneAtATime
<1>3. Kept!KnowledgeConsistent => KnowledgeConsistent
  BY DEF KnowledgeConsistent, Base!KnowledgeConsistent, Kept!KnowledgeConsistent,
         Base!StoredOnce, Kept!StoredOnce, Base!ReadyIsSearchable,
         Kept!ReadyIsSearchable, Base!OrphansOnlyByOverlap,
         Kept!OrphansOnlyByOverlap, Base!HomeExists, Kept!HomeExists,
         Base!UnavailableOnlyIfCut, Kept!UnavailableOnlyIfCut, Base!Present,
         Kept!Present, Base!In, Kept!In, Base!Rows, Kept!Rows,
         Base!Unfinished, Kept!Unfinished
<1>4. Kept!Steps => []Kept!KnowledgeConsistent
  <2>1. Kept!KnowledgeBounds
    BY KnowledgeBounds, SameFiniteSets DEF Kept!KnowledgeBounds, Base!KnowledgeBounds
  <2>2. QED
    BY <2>1, Kept!Consistent
<1>5. QED
  BY <1>1, <1>2, <1>3, <1>4, PTL DEF Spec, Kept!Steps

-----------------------------------------------------------------------------
(* Files, index and facts (filememory.go, index.go).                       *)
LEMMA FilesHold == Spec => []Memory!MemoryConsistent
<1>1. Init => Kept!Memory!Init
  <2>1. Init => Memory!Init
    BY DEF Init
  <2>2. QED
    BY <2>1 DEF Memory!Init, Kept!Memory!Init, Memory!Paths, Kept!Memory!Paths
<1>2. ASSUME [Next]_vars PROVE [Kept!Memory!Next]_(Kept!Memory!vars)
  <2>1. CASE RunMemory
    <3>1. Memory!Next
      BY <2>1 DEF RunMemory
    <3>2. QED
      BY <3>1 DEF Memory!Next, Kept!Memory!Next, Memory!Paths, Kept!Memory!Paths,
             Memory!StoreTool, Kept!Memory!StoreTool, Memory!WriteFile,
             Kept!Memory!WriteFile, Memory!ChangeFile, Kept!Memory!ChangeFile,
             Memory!ForgetTool, Kept!Memory!ForgetTool, Memory!ExtractionHook,
             Kept!Memory!ExtractionHook, Memory!LockAndScan, Kept!Memory!LockAndScan,
             Memory!WriteIndex, Kept!Memory!WriteIndex, Memory!WriteFacts,
             Kept!Memory!WriteFacts, Memory!Restart, Kept!Memory!Restart, Memory!Begin,
             Kept!Memory!Begin, Memory!Goto, Kept!Memory!Goto, Memory!diskVars,
             Kept!Memory!diskVars, Memory!lockVars, Kept!Memory!lockVars, Memory!Answer,
             Kept!Memory!Answer, Memory!Overtakes, Kept!Memory!Overtakes,
             Memory!Exclusive, Kept!Memory!Exclusive, Memory!NoFault,
             Kept!Memory!NoFault, Memory!Fault, Kept!Memory!Fault, Memory!Indexable,
             Kept!Memory!Indexable, Memory!FirstEntries, Kept!Memory!FirstEntries,
             Memory!WithSession, Kept!Memory!WithSession, Memory!Before,
             Kept!Memory!Before, Memory!Cardinality, Kept!Memory!Cardinality
  <2>2. CASE UNCHANGED memVars
    BY <2>2 DEF memVars, Kept!Memory!vars, Kept!Memory!diskVars, Kept!Memory!lockVars
  <2>3. QED
    BY <1>2, <2>1, <2>2, OneAtATime
<1>3. Kept!Memory!MemoryConsistent => Memory!MemoryConsistent
  BY DEF Memory!MemoryConsistent, Kept!Memory!MemoryConsistent, Memory!RebuiltWhenQuiet,
         Kept!Memory!RebuiltWhenQuiet, Memory!ReplacedOnlyByRace,
         Kept!Memory!ReplacedOnlyByRace, Memory!Quiet, Kept!Memory!Quiet,
         Memory!FirstEntries, Kept!Memory!FirstEntries, Memory!Indexable,
         Kept!Memory!Indexable, Memory!WithSession, Kept!Memory!WithSession,
         Memory!Before, Kept!Memory!Before, Memory!Paths, Kept!Memory!Paths,
         Memory!Cardinality, Kept!Memory!Cardinality
<1>4. Kept!Memory!Spec => []Kept!Memory!MemoryConsistent
  <2>1. "none" \notin Requests
    BY NoneIsNoRequest
  <2>2. QED
    BY <2>1, Kept!FilesAgree
<1>5. QED
  BY <1>1, <1>2, <1>3, <1>4, PTL DEF Spec, Kept!Memory!Spec

(* A recall among files that come and go.                                  *)
LEMMA RecallsHold == Spec => []Recall!RecallConsistent
<1>1. Init => Kept!Recall!Init
  <2>1. Init => Recall!Init
    BY DEF Init
  <2>2. QED
    BY <2>1 DEF Recall!Init, Kept!Recall!Init
<1>2. ASSUME [Next]_vars PROVE [Kept!Recall!Next]_(Kept!Recall!recallVars)
  <2>1. CASE RunRecall
    <3>1. Recall!Next
      BY <2>1 DEF RunRecall
    <3>2. ASSUME NEW p, Recall!FileAppears(p) PROVE Kept!Recall!FileAppears(p)
      BY <3>2 DEF Recall!FileAppears, Kept!Recall!FileAppears
    <3>3. ASSUME NEW p, Recall!FileGoes(p) PROVE Kept!Recall!FileGoes(p)
      BY <3>3 DEF Recall!FileGoes, Kept!Recall!FileGoes
    <3>4. ASSUME Recall!IndexRebuilt PROVE Kept!Recall!IndexRebuilt
      BY <3>4 DEF Recall!IndexRebuilt, Kept!Recall!IndexRebuilt
    <3>5. ASSUME Recall!Ask PROVE Kept!Recall!Ask
      BY <3>5 DEF Recall!Ask, Kept!Recall!Ask
    <3>6. ASSUME Recall!ReadChosen PROVE Kept!Recall!ReadChosen
      BY <3>6 DEF Recall!ReadChosen, Kept!Recall!ReadChosen
    <3>7. ASSUME Recall!AnswerChosen PROVE Kept!Recall!AnswerChosen
      BY <3>7 DEF Recall!AnswerChosen, Kept!Recall!AnswerChosen
    <3>8. ASSUME Recall!KeywordRecall PROVE Kept!Recall!KeywordRecall
      BY <3>8, SameOrders DEF Recall!KeywordRecall, Kept!Recall!KeywordRecall
    <3>9. ASSUME NEW list, Recall!ModelChooses(list) PROVE Kept!Recall!ModelChooses(list)
      BY <3>9 DEF Recall!ModelChooses, Kept!Recall!ModelChooses
    <3>10. QED
      BY <3>1, <3>2, <3>3, <3>4, <3>5, <3>6, <3>7, <3>8, <3>9
         DEF Recall!Next, Kept!Recall!Next
  <2>2. CASE UNCHANGED recallVars
    BY <2>2 DEF recallVars, Kept!Recall!recallVars
  <2>3. QED
    BY <1>2, <2>1, <2>2, OneAtATime
<1>3. Kept!Recall!RecallConsistent => Recall!RecallConsistent
  BY DEF Recall!RecallConsistent, Kept!Recall!RecallConsistent,
         Recall!SomethingIsFound, Kept!Recall!SomethingIsFound,
         Recall!WithinRequest, Kept!Recall!WithinRequest
<1>4. Kept!Recall!Spec => []Kept!Recall!RecallConsistent
  <2>1. Limit \in Nat \ {0} /\ Kept!IsFiniteSet(Memories)
    BY RecallBounds, SameFiniteSets
  <2>2. QED
    BY <2>1, Kept!RecallFinds
<1>5. QED
  BY <1>1, <1>2, <1>3, <1>4, PTL DEF Spec, Kept!Recall!Spec

(* Summaries of jobs that overlap.                                         *)
LEMMA SummariesHold == Spec => []Summarizer!SummariesConsistent
<1>1. Init => Kept!Summarizer!Init
  <2>1. Init => Summarizer!Init
    BY DEF Init
  <2>2. QED
    BY <2>1 DEF Summarizer!Init, Kept!Summarizer!Init, Summarizer!Idle,
           Kept!Summarizer!Idle
<1>2. ASSUME [Next]_vars PROVE [Kept!Summarizer!Next]_(Kept!Summarizer!summaryVars)
  <2>1. CASE RunSummarizer
    <3>1. Summarizer!Next
      BY <2>1 DEF RunSummarizer
    <3>2. ASSUME Summarizer!NextDay PROVE Kept!Summarizer!NextDay
      BY <3>2 DEF Summarizer!NextDay, Kept!Summarizer!NextDay
    <3>3. ASSUME Summarizer!CooldownOver PROVE Kept!Summarizer!CooldownOver
      BY <3>3 DEF Summarizer!CooldownOver, Kept!Summarizer!CooldownOver
    <3>4. ASSUME Summarizer!Restart PROVE Kept!Summarizer!Restart
      BY <3>4 DEF Summarizer!Restart, Kept!Summarizer!Restart, Summarizer!Idle,
             Kept!Summarizer!Idle
    <3>5. ASSUME NEW f, Summarizer!Remember(f) PROVE Kept!Summarizer!Remember(f)
      BY <3>5 DEF Summarizer!Remember, Kept!Summarizer!Remember
    <3>6. ASSUME NEW f, Summarizer!Forget(f) PROVE Kept!Summarizer!Forget(f)
      BY <3>6 DEF Summarizer!Forget, Kept!Summarizer!Forget
    <3>7. ASSUME NEW j, Summarizer!Trigger(j) PROVE Kept!Summarizer!Trigger(j)
      BY <3>7 DEF Summarizer!Trigger, Kept!Summarizer!Trigger,
             Summarizer!ShouldTrigger, Kept!Summarizer!ShouldTrigger,
             Summarizer!Set, Kept!Summarizer!Set, Summarizer!Present,
             Kept!Summarizer!Present, Summarizer!Cardinality,
             Kept!Summarizer!Cardinality, Summarizer!Min,
             Kept!Summarizer!Min
    <3>8. ASSUME NEW j, Summarizer!Collect(j) PROVE Kept!Summarizer!Collect(j)
      BY <3>8 DEF Summarizer!Collect, Kept!Summarizer!Collect, Summarizer!Set,
             Kept!Summarizer!Set, Summarizer!Present,
             Kept!Summarizer!Present
    <3>9. ASSUME NEW j, Summarizer!SummaryFails(j) PROVE Kept!Summarizer!SummaryFails(j)
      BY <3>9 DEF Summarizer!SummaryFails, Kept!Summarizer!SummaryFails,
             Summarizer!Set, Kept!Summarizer!Set
    <3>10. ASSUME NEW j, Summarizer!WriteSummary(j) PROVE Kept!Summarizer!WriteSummary(j)
      BY <3>10 DEF Summarizer!WriteSummary, Kept!Summarizer!WriteSummary
    <3>11. ASSUME NEW j, Summarizer!RecordTime(j) PROVE Kept!Summarizer!RecordTime(j)
      BY <3>11 DEF Summarizer!RecordTime, Kept!Summarizer!RecordTime,
             Summarizer!Set, Kept!Summarizer!Set
    <3>12. ASSUME NEW j, Summarizer!ListSummaries(j) PROVE Kept!Summarizer!ListSummaries(j)
      BY <3>12 DEF Summarizer!ListSummaries, Kept!Summarizer!ListSummaries
    <3>13. ASSUME NEW j, Summarizer!RemoveOldest(j) PROVE Kept!Summarizer!RemoveOldest(j)
      BY <3>13 DEF Summarizer!RemoveOldest, Kept!Summarizer!RemoveOldest,
             Summarizer!Idle, Kept!Summarizer!Idle, Summarizer!Cardinality,
             Kept!Summarizer!Cardinality
    <3>14. QED
      BY <3>1, <3>2, <3>3, <3>4, <3>5, <3>6, <3>7, <3>8, <3>9, <3>10, <3>11, <3>12,
         <3>13
         DEF Summarizer!Next, Kept!Summarizer!Next
  <2>2. CASE UNCHANGED sumVars
    BY <2>2 DEF sumVars, Kept!Summarizer!summaryVars
  <2>3. QED
    BY <1>2, <2>1, <2>2, OneAtATime
<1>3. Kept!Summarizer!SummariesConsistent => Summarizer!SummariesConsistent
  BY DEF Summarizer!SummariesConsistent, Kept!Summarizer!SummariesConsistent,
         Summarizer!NewestKept, Kept!Summarizer!NewestKept,
         Summarizer!SummariesBounded, Kept!Summarizer!SummariesBounded,
         Summarizer!Cardinality, Kept!Summarizer!Cardinality
<1>4. Kept!Summarizer!Spec => []Kept!Summarizer!SummariesConsistent
  <2>1. Keep \in Nat \ {0} /\ Kept!IsFiniteSet(Jobs)
    BY SummaryBounds, SameFiniteSets
  <2>2. QED
    BY <2>1, Kept!SummariesKept
<1>5. QED
  BY <1>1, <1>2, <1>3, <1>4, PTL DEF Spec, Kept!Summarizer!Spec

(* Files, index and facts of an agent's memory agree, a recall finds what  *)
(* there is, and summaries are kept within bounds (plugins/memory-file).   *)
THEOREM MemoryHolds == Spec => []MemoryConsistent
<1>1. /\ Memory!MemoryConsistent /\ Recall!RecallConsistent
      /\ Summarizer!SummariesConsistent
      => MemoryConsistent
  BY DEF MemoryConsistent
<1>2. QED
  BY <1>1, FilesHold, RecallsHold, SummariesHold, PTL

-----------------------------------------------------------------------------
(* However often a build fails half-way: a harness has every tool and hook *)
(* of its plugins, or nothing an agent could use; and hooks run in order   *)
(* (harness.go:133, runner.go:107).                                        *)
THEOREM AssemblyHolds == Spec => []AssemblyConsistent
<1>1. Init => Ordered!Harness!Init
  <2>1. Init => Harness!Init
    BY DEF Init
  <2>2. QED
    BY <2>1 DEF Harness!Init, Ordered!Harness!Init, Harness!NoTools,
           Ordered!Harness!NoTools, Harness!AllTools, Ordered!Harness!AllTools,
           Harness!ThePlugins, Ordered!Harness!ThePlugins, Harness!ToSet,
           Ordered!Harness!ToSet
<1>2. ASSUME [Next]_vars PROVE [Ordered!Harness!Next]_(Ordered!Harness!vars)
  <2>1. CASE RunHarness
    <3>1. Harness!Next
      BY <2>1 DEF RunHarness
    <3>2. ASSUME NEW i, NEW s, Harness!EditSkills(i, s)
          PROVE  Ordered!Harness!EditSkills(i, s)
      BY <3>2 DEF Harness!EditSkills, Ordered!Harness!EditSkills, Harness!pools,
             Ordered!Harness!pools, Harness!skillVars, Ordered!Harness!skillVars
    <3>3. ASSUME NEW n, Harness!Build(n) PROVE Ordered!Harness!Build(n)
      BY <3>3, SameHooks DEF Harness!Build, Ordered!Harness!Build, Harness!pools,
             Ordered!Harness!pools, Harness!skillVars, Ordered!Harness!skillVars,
             Harness!NoTools, Ordered!Harness!NoTools, Harness!LastWith,
             Ordered!Harness!LastWith, Harness!Discover, Ordered!Harness!Discover
    <3>4. ASSUME NEW s, NEW flag, Harness!SetSkillEnabled(s, flag)
          PROVE  Ordered!Harness!SetSkillEnabled(s, flag)
      BY <3>4 DEF Harness!SetSkillEnabled, Ordered!Harness!SetSkillEnabled,
             Harness!pools, Ordered!Harness!pools
    <3>5. ASSUME NEW patterns, Harness!CreateAgent(patterns)
          PROVE  Ordered!Harness!CreateAgent(patterns)
      BY <3>5, SameHooks DEF Harness!CreateAgent, Ordered!Harness!CreateAgent,
             Harness!Select, Ordered!Harness!Select, Harness!Matches,
             Ordered!Harness!Matches, Harness!pools, Ordered!Harness!pools,
             Harness!skillVars, Ordered!Harness!skillVars
    <3>6. ASSUME NEW S, Harness!RunHooks(S) PROVE Ordered!Harness!RunHooks(S)
      BY <3>6 DEF Harness!RunHooks, Ordered!Harness!RunHooks, Harness!pools,
             Ordered!Harness!pools, Harness!skillVars, Ordered!Harness!skillVars,
             Harness!Sorted, Ordered!Harness!Sorted, Harness!RunBefore,
             Ordered!Harness!RunBefore, Harness!Position, Ordered!Harness!Position,
             Harness!Cardinality, Ordered!Harness!Cardinality, Harness!ToSet,
             Ordered!Harness!ToSet
    <3>7. QED
      BY <3>1, <3>2, <3>3, <3>4, <3>5, <3>6, SameHooks
         DEF Harness!Next, Ordered!Harness!Next
  <2>2. CASE UNCHANGED harnessVars
    BY <2>2 DEF harnessVars, Ordered!Harness!vars, Ordered!Harness!pools,
           Ordered!Harness!skillVars
  <2>3. QED
    BY <1>2, <2>1, <2>2, OneAtATime
<1>3. Ordered!Harness!AssemblyConsistent => AssemblyConsistent
  BY SameHooks DEF AssemblyConsistent, Harness!AssemblyConsistent,
         Ordered!Harness!AssemblyConsistent, Harness!BuiltWhole,
         Ordered!Harness!BuiltWhole, Harness!OrderKept, Ordered!Harness!OrderKept,
         Harness!NoTools, Ordered!Harness!NoTools, Harness!ToSet,
         Ordered!Harness!ToSet, Harness!IsInjective, Ordered!Harness!IsInjective,
         Harness!Position, Ordered!Harness!Position
<1>4. Ordered!Harness!Spec => []Ordered!Harness!AssemblyConsistent
  <2>1. Ordered!HarnessPlugins
    BY HarnessPlugins, SameHooks DEF Ordered!HarnessPlugins
  <2>2. QED
    BY <2>1, Ordered!HarnessIsWhole
<1>5. QED
  BY <1>1, <1>2, <1>3, <1>4, PTL DEF Spec, Ordered!Harness!Spec

LEMMA SameSearches ==
  /\ \A S : /\ Retrieval!Cardinality(S) = Ordered!Retrieval!Cardinality(S)
            /\ Retrieval!ToSet(S) = Ordered!Retrieval!ToSet(S)
  /\ \A n, s : Retrieval!Shortest(n, s) = Ordered!Retrieval!Shortest(n, s)
  /\ \A B, k, low :
        /\ Retrieval!BruteForce(B, k, low) = Ordered!Retrieval!BruteForce(B, k, low)
        /\ Retrieval!VecSearch(B, k, low) = Ordered!Retrieval!VecSearch(B, k, low)
  /\ \A list : Retrieval!Loaded(list) = Ordered!Retrieval!Loaded(list)
<1>1. ASSUME NEW S
      PROVE  /\ Retrieval!Cardinality(S) = Ordered!Retrieval!Cardinality(S)
             /\ Retrieval!ToSet(S) = Ordered!Retrieval!ToSet(S)
  BY DEF Retrieval!Cardinality, Ordered!Retrieval!Cardinality, Retrieval!ToSet,
         Ordered!Retrieval!ToSet
<1>2. ASSUME NEW n, NEW s
      PROVE  Retrieval!Shortest(n, s) = Ordered!Retrieval!Shortest(n, s)
  BY DEF Retrieval!Shortest, Ordered!Retrieval!Shortest
<1>3. ASSUME NEW cs PROVE Retrieval!Ranked(cs) = Ordered!Retrieval!Ranked(cs)
  BY DEF Retrieval!Ranked, Ordered!Retrieval!Ranked, Retrieval!Sorted,
         Ordered!Retrieval!Sorted, Retrieval!Before, Ordered!Retrieval!Before,
         Retrieval!Better, Ordered!Retrieval!Better, Retrieval!Cardinality,
         Ordered!Retrieval!Cardinality
<1>4. ASSUME NEW B, NEW k, NEW low
      PROVE  Retrieval!BruteForce(B, k, low) = Ordered!Retrieval!BruteForce(B, k, low)
  BY <1>2, <1>3 DEF Retrieval!BruteForce, Ordered!Retrieval!BruteForce, Retrieval!TopK,
         Ordered!Retrieval!TopK, Retrieval!Ids, Ordered!Retrieval!Ids
<1>5. ASSUME NEW B, NEW k, NEW low
      PROVE  Retrieval!VecSearch(B, k, low) = Ordered!Retrieval!VecSearch(B, k, low)
  <2>1. ASSUME NEW b, NEW n
        PROVE  Retrieval!ToSet(Retrieval!Shortest(n + Retrieval!Cardinality(B),
                     Retrieval!Ranked({c \in Retrieval!Ids : index[c].base = b})))
               = Ordered!Retrieval!ToSet(Ordered!Retrieval!Shortest(
                     n + Ordered!Retrieval!Cardinality(B),
                     Ordered!Retrieval!Ranked({c \in Ordered!Retrieval!Ids : index[c].base = b})))
    <3>1. PICK cs : cs = {c \in Retrieval!Ids : index[c].base = b}
      OBVIOUS
    <3>2. cs = {c \in Ordered!Retrieval!Ids : index[c].base = b}
      BY <3>1 DEF Retrieval!Ids, Ordered!Retrieval!Ids
    <3>3. PICK m : m = n + Retrieval!Cardinality(B)
      OBVIOUS
    <3>4. m = n + Ordered!Retrieval!Cardinality(B)
      BY <1>1, <3>3
    <3>5. Retrieval!ToSet(Retrieval!Shortest(m, Retrieval!Ranked(cs)))
          = Ordered!Retrieval!ToSet(Ordered!Retrieval!Shortest(m, Ordered!Retrieval!Ranked(cs)))
      <4>1. PICK s : s = Retrieval!Ranked(cs)
        OBVIOUS
      <4>2. s = Ordered!Retrieval!Ranked(cs)
        BY <1>3, <4>1
      <4>3. PICK t : t = Retrieval!Shortest(m, s)
        OBVIOUS
      <4>4. t = Ordered!Retrieval!Shortest(m, s)
        BY <1>2, <4>3
      <4>5. Retrieval!ToSet(t) = Ordered!Retrieval!ToSet(t)
        BY <1>1
      <4>6. QED
        BY <4>1, <4>2, <4>3, <4>4, <4>5, ZenonT(30)
    <3>6. QED
      BY <3>1, <3>2, <3>3, <3>4, <3>5, ZenonT(30)
  <2>2. PICK n : n = Retrieval!TopK(k, 10)
    OBVIOUS
  <2>3. n = Ordered!Retrieval!TopK(k, 10)
    BY <2>2 DEF Retrieval!TopK, Ordered!Retrieval!TopK
  <2>4. PICK all : all = UNION {Retrieval!ToSet(Retrieval!Shortest(n + Retrieval!Cardinality(B),
                     Retrieval!Ranked({d \in Retrieval!Ids : index[d].base = b}))) : b \in B}
    OBVIOUS
  <2>5. all = UNION {Ordered!Retrieval!ToSet(Ordered!Retrieval!Shortest(
                     n + Ordered!Retrieval!Cardinality(B),
                     Ordered!Retrieval!Ranked({d \in Ordered!Retrieval!Ids : index[d].base = b}))) : b \in B}
    BY <2>1, <2>4, ZenonT(60)
  <2>6. PICK hits : hits = {c \in all : index[c].score >= low}
    OBVIOUS
  <2>7. Retrieval!VecSearch(B, k, low) = Retrieval!Shortest(n, Retrieval!Ranked(hits))
    BY <2>2, <2>4, <2>6, ZenonT(60) DEF Retrieval!VecSearch
  <2>8. Ordered!Retrieval!VecSearch(B, k, low)
        = Ordered!Retrieval!Shortest(n, Ordered!Retrieval!Ranked(hits))
    BY <2>3, <2>5, <2>6, ZenonT(60) DEF Ordered!Retrieval!VecSearch
  <2>9. PICK s : s = Retrieval!Ranked(hits)
    OBVIOUS
  <2>10. s = Ordered!Retrieval!Ranked(hits)
    BY <1>3, <2>9
  <2>11. Retrieval!Shortest(n, s) = Ordered!Retrieval!Shortest(n, s)
    BY <1>2
  <2>12. QED
    BY <2>7, <2>8, <2>9, <2>10, <2>11, ZenonT(30)
<1>6. ASSUME NEW list PROVE Retrieval!Loaded(list) = Ordered!Retrieval!Loaded(list)
  <2>1. ASSUME NEW s PROVE Retrieval!FlattenSeq(s) = Ordered!Retrieval!FlattenSeq(s)
    BY DEF Retrieval!FlattenSeq, Ordered!Retrieval!FlattenSeq
  <2>2. QED
    BY <2>1 DEF Retrieval!Loaded, Ordered!Retrieval!Loaded, Retrieval!Filter,
           Ordered!Retrieval!Filter
<1>7. QED
  BY <1>1, <1>2, <1>4, <1>5, <1>6

(* What a search of either store finds, and the metrics count.             *)
LEMMA SearchesHold == Spec => [](part = "search" => Retrieval!SearchConsistent)
<1>1. Init => Ordered!Retrieval!Init
  <2>1. Init => Retrieval!Init
    BY DEF Init
  <2>2. QED
    BY <2>1 DEF Retrieval!Init, Ordered!Retrieval!Init
<1>2. ASSUME [Next]_vars PROVE [Ordered!Retrieval!Next]_(Ordered!Retrieval!searchVars)
  <2>1. CASE RunRetrieval
    <3>1. Retrieval!Next
      BY <2>1 DEF RunRetrieval
    <3>2. CASE \E b \in Bases, d \in 1 .. 2, x \in Scores :
                 Retrieval!StoreChunk(b, d, x)
      <4>1. PICK b \in Bases, d \in 1 .. 2, x \in Scores :
              Retrieval!StoreChunk(b, d, x)
        BY <3>2
      <4>2. Ordered!Retrieval!StoreChunk(b, d, x)
        BY <4>1 DEF Retrieval!StoreChunk, Ordered!Retrieval!StoreChunk
      <4>3. Ordered!Retrieval!Next
        BY <4>2 DEF Ordered!Retrieval!Next
      <4>4. QED
        BY <4>3
    <3>3. CASE \E c \in Retrieval!Ids : lost = {} /\ Retrieval!LoseRow(c)
      <4>1. PICK c \in Retrieval!Ids : lost = {} /\ Retrieval!LoseRow(c)
        BY <3>3
      <4>2. c \in Ordered!Retrieval!Ids /\ Ordered!Retrieval!LoseRow(c)
        BY <4>1 DEF Retrieval!Ids, Ordered!Retrieval!Ids, Retrieval!LoseRow,
               Ordered!Retrieval!LoseRow
      <4>3. Ordered!Retrieval!Next
        BY <4>1, <4>2 DEF Ordered!Retrieval!Next
      <4>4. QED
        BY <4>3
    <3>4. QED
      BY <3>1, <3>2, <3>3 DEF Retrieval!Next
  <2>2. CASE UNCHANGED searchVars
    BY <2>2 DEF searchVars, Ordered!Retrieval!searchVars
  <2>3. QED
    BY <1>2, <2>1, <2>2, OneAtATime
<1>3. Ordered!Retrieval!SearchConsistent => Retrieval!SearchConsistent
  <2>1. /\ Ordered!Retrieval!StoresAgree => Retrieval!StoresAgree
        /\ Ordered!Retrieval!BestAreFound => Retrieval!BestAreFound
    BY SameSearches DEF Retrieval!StoresAgree, Ordered!Retrieval!StoresAgree,
           Retrieval!BestAreFound, Ordered!Retrieval!BestAreFound,
           Retrieval!Queries, Ordered!Retrieval!Queries, Retrieval!ScoresOf,
           Ordered!Retrieval!ScoresOf, Retrieval!Ids, Ordered!Retrieval!Ids,
           Retrieval!TopK, Ordered!Retrieval!TopK, Retrieval!Better,
           Ordered!Retrieval!Better
  <2>2. Ordered!Retrieval!MetricsAgree => Retrieval!MetricsAgree
    <3>1. PICK list : /\ list = Retrieval!Loaded(Retrieval!BruteForce(Bases, 0, 0))
                      /\ list = Ordered!Retrieval!Loaded(Ordered!Retrieval!BruteForce(Bases, 0, 0))
      BY SameSearches
    <3>2. ASSUME NEW R, NEW k PROVE Retrieval!Hits(list, R, k) = Ordered!Retrieval!Hits(list, R, k)
      BY SameSearches DEF Retrieval!Hits, Ordered!Retrieval!Hits
    <3>3. ASSUME NEW R PROVE Retrieval!FirstHit(list, R) = Ordered!Retrieval!FirstHit(list, R)
      BY DEF Retrieval!FirstHit, Ordered!Retrieval!FirstHit
    <3>4. ASSUME NEW S PROVE Retrieval!Cardinality(S) = Ordered!Retrieval!Cardinality(S)
      BY SameSearches
    <3>5. QED
      BY <3>1, <3>2, <3>3, <3>4 DEF Retrieval!MetricsAgree, Ordered!Retrieval!MetricsAgree
  <2>3. QED
    BY <2>1, <2>2 DEF Retrieval!SearchConsistent, Ordered!Retrieval!SearchConsistent
<1>4. Ordered!Retrieval!Spec => []Ordered!Retrieval!SearchConsistent
  <2>1. Scores \subseteq Int /\ Ordered!IsFiniteSet(Bases)
    BY SearchBounds DEF IsFiniteSet, Ordered!IsFiniteSet
  <2>2. QED
    BY <2>1, Ordered!SearchFindsBest
<1>5. QED
  BY <1>1, <1>2, <1>3, <1>4, PTL DEF Spec, Ordered!Retrieval!Spec

-----------------------------------------------------------------------------
LEMMA SameFilters ==
  /\ Context!Room <=> Ordered!Context!Room
  /\ Context!Blank = Ordered!Context!Blank
  /\ \A s : Context!FlattenSeq(s) = Ordered!Context!FlattenSeq(s)
  /\ \A s : Context!NotTool(s) = Ordered!Context!NotTool(s)
  /\ \A h, c : Context!ToolResult(h, c) = Ordered!Context!ToolResult(h, c)
  /\ \A ps : Context!ByStep(ps) = Ordered!Context!ByStep(ps)
  /\ \A role, ps : Context!Convert(role, ps) = Ordered!Context!Convert(role, ps)
<1>1. ASSUME NEW s PROVE Context!NotTool(s) = Ordered!Context!NotTool(s)
  BY DEF Context!NotTool, Ordered!Context!NotTool, Context!Filter,
         Ordered!Context!Filter, Context!FlattenSeq, Ordered!Context!FlattenSeq
<1>2. ASSUME NEW h, NEW c PROVE Context!ToolResult(h, c) = Ordered!Context!ToolResult(h, c)
  BY DEF Context!ToolResult, Ordered!Context!ToolResult, Context!Filter,
         Ordered!Context!Filter, Context!FlattenSeq, Ordered!Context!FlattenSeq,
         Context!Last, Ordered!Context!Last
<1>3. ASSUME NEW ps PROVE Context!ByStep(ps) = Ordered!Context!ByStep(ps)
  BY DEF Context!ByStep, Ordered!Context!ByStep, Context!Filter,
         Ordered!Context!Filter, Context!FlattenSeq, Ordered!Context!FlattenSeq
<1>4. ASSUME NEW role, NEW ps
      PROVE  Context!Convert(role, ps) = Ordered!Context!Convert(role, ps)
  BY DEF Context!Convert, Ordered!Context!Convert, Context!Filter,
         Ordered!Context!Filter, Context!FlattenSeq, Ordered!Context!FlattenSeq
<1>5. /\ Context!Room <=> Ordered!Context!Room
      /\ Context!Blank = Ordered!Context!Blank
  BY DEF Context!Room, Ordered!Context!Room, Context!Blank, Ordered!Context!Blank
<1>6. ASSUME NEW s PROVE Context!FlattenSeq(s) = Ordered!Context!FlattenSeq(s)
  BY DEF Context!FlattenSeq, Ordered!Context!FlattenSeq
<1>7. QED
  BY <1>1, <1>2, <1>3, <1>4, <1>5, <1>6

LEMMA SameMessages ==
  /\ Context!ModelMessages = Ordered!Context!ModelMessages
  /\ Context!ShownMessages = Ordered!Context!ShownMessages
<1>1. ASSUME NEW row, NEW h
      PROVE  /\ Context!ModelParts(row, h) = Ordered!Context!ModelParts(row, h)
             /\ Context!ShownParts(row, h) = Ordered!Context!ShownParts(row, h)
  <2>1. Context!FromColumns(row, h) = Ordered!Context!FromColumns(row, h)
    BY SameFilters DEF Context!FromColumns, Ordered!Context!FromColumns, Context!Text,
           Ordered!Context!Text, Context!Call, Ordered!Context!Call
  <2>2. Context!Filled(row.parts, h) = Ordered!Context!Filled(row.parts, h)
    BY SameFilters DEF Context!Filled, Ordered!Context!Filled
  <2>3. QED
    BY <2>1, <2>2 DEF Context!ModelParts, Ordered!Context!ModelParts,
           Context!ShownParts, Ordered!Context!ShownParts
<1>2. ASSUME NEW n PROVE Context!FirstRows(n) = Ordered!Context!FirstRows(n)
  BY DEF Context!FirstRows, Ordered!Context!FirstRows
<1>3. ASSUME NEW row, NEW h
      PROVE  Context!Convert(row.role, Context!ByStep(Context!ModelParts(row, h)))
             = Ordered!Context!Convert(row.role,
                 Ordered!Context!ByStep(Ordered!Context!ModelParts(row, h)))
  <2>1. PICK ps : ps = Context!ModelParts(row, h)
    OBVIOUS
  <2>2. ps = Ordered!Context!ModelParts(row, h)
    BY <1>1, <2>1
  <2>3. PICK q : q = Context!ByStep(ps)
    OBVIOUS
  <2>4. q = Ordered!Context!ByStep(ps)
    BY SameFilters, <2>3
  <2>5. Context!Convert(row.role, q) = Ordered!Context!Convert(row.role, q)
    BY SameFilters
  <2>6. QED
    BY <2>1, <2>2, <2>3, <2>4, <2>5, ZenonT(30)
<1>4. ASSUME NEW row, NEW h
      PROVE  Context!ByStep(Context!ShownParts(row, h))
             = Ordered!Context!ByStep(Ordered!Context!ShownParts(row, h))
  <2>1. PICK ps : ps = Context!ShownParts(row, h)
    OBVIOUS
  <2>2. ps = Ordered!Context!ShownParts(row, h)
    BY <1>1, <2>1
  <2>3. Context!ByStep(ps) = Ordered!Context!ByStep(ps)
    BY SameFilters
  <2>4. QED
    BY <2>1, <2>2, <2>3, ZenonT(30)
<1>5. ASSUME NEW s PROVE Context!FlattenSeq(s) = Ordered!Context!FlattenSeq(s)
  BY DEF Context!FlattenSeq, Ordered!Context!FlattenSeq
<1>6. Context!ModelMessages = Ordered!Context!ModelMessages
  <2>1. PICK h : h = Context!FirstRows(HistoryLimit)
    OBVIOUS
  <2>2. h = Ordered!Context!FirstRows(HistoryLimit)
    BY <1>2, <2>1
  <2>3. PICK kept : kept = Context!NotTool(h)
    OBVIOUS
  <2>4. kept = Ordered!Context!NotTool(h)
    BY SameFilters, <2>3
  <2>5. PICK s : s = [i \in DOMAIN kept |->
          Context!Convert(kept[i].role, Context!ByStep(Context!ModelParts(kept[i], h)))]
    OBVIOUS
  <2>6. s = [i \in DOMAIN kept |-> Ordered!Context!Convert(kept[i].role,
          Ordered!Context!ByStep(Ordered!Context!ModelParts(kept[i], h)))]
    BY <1>3, <2>5, ZenonT(30)
  <2>7. Context!ModelMessages = Context!FlattenSeq(s)
    BY <2>1, <2>3, <2>5, ZenonT(30) DEF Context!ModelMessages
  <2>8. Ordered!Context!ModelMessages = Ordered!Context!FlattenSeq(s)
    BY <2>2, <2>4, <2>6, ZenonT(30) DEF Ordered!Context!ModelMessages
  <2>9. Context!FlattenSeq(s) = Ordered!Context!FlattenSeq(s)
    BY <1>5
  <2>10. QED
    BY <2>7, <2>8, <2>9, ZenonT(30)
<1>7. Context!ShownMessages = Ordered!Context!ShownMessages
  <2>1. PICK h : h = Context!FirstRows(PageLimit)
    OBVIOUS
  <2>2. h = Ordered!Context!FirstRows(PageLimit)
    BY <1>2, <2>1
  <2>3. PICK kept : kept = Context!NotTool(h)
    OBVIOUS
  <2>4. kept = Ordered!Context!NotTool(h)
    BY SameFilters, <2>3
  <2>5. PICK s : s = [i \in DOMAIN kept |-> Context!ByStep(Context!ShownParts(kept[i], h))]
    OBVIOUS
  <2>6. s = [i \in DOMAIN kept |->
               Ordered!Context!ByStep(Ordered!Context!ShownParts(kept[i], h))]
    BY <1>4, <2>5, ZenonT(30)
  <2>7. Context!ShownMessages = s
    BY <2>1, <2>3, <2>5, ZenonT(30) DEF Context!ShownMessages
  <2>8. Ordered!Context!ShownMessages = s
    BY <2>2, <2>4, <2>6, ZenonT(30) DEF Ordered!Context!ShownMessages
  <2>9. QED
    BY <2>7, <2>8, ZenonT(30)
<1>8. QED
  BY <1>6, <1>7

(* However a session's rows came about: each call the model is sent is     *)
(* answered at once, no input and no result within the limit is missing,   *)
(* and a client is shown the model's calls (context.go, render.go).        *)
THEOREM HistoryHolds == Spec => []HistoryConsistent
<1>1. Init => Ordered!Context!Init
  <2>1. Init => Context!Init
    BY DEF Init
  <2>2. QED
    BY <2>1 DEF Context!Init, Ordered!Context!Init
<1>2. ASSUME [Next]_vars PROVE [Ordered!Context!Next]_(Ordered!Context!historyVars)
  <2>1. CASE RunContext
    <3>1. Context!Next
      BY <2>1 DEF RunContext
    <3>2. ASSUME Context!UserMessage PROVE Ordered!Context!UserMessage
      BY <3>2 DEF Context!UserMessage, Ordered!Context!UserMessage, Context!Room,
             Ordered!Context!Room, Context!Blank, Ordered!Context!Blank
    <3>3. ASSUME NEW hasText, NEW n, Context!Step(hasText, n)
          PROVE  Ordered!Context!Step(hasText, n)
      <4>1. Context!LastAssistant = Ordered!Context!LastAssistant
        BY DEF Context!LastAssistant, Ordered!Context!LastAssistant,
               Context!SelectLastInSeq, Ordered!Context!SelectLastInSeq,
               Context!Max, Ordered!Context!Max
      <4>2. ASSUME NEW row PROVE Context!StepOf(row) = Ordered!Context!StepOf(row)
        BY DEF Context!StepOf, Ordered!Context!StepOf, Context!Last, Ordered!Context!Last
      <4>3. ASSUME NEW row, NEW at
            PROVE  Context!Stepped(row, at, hasText, n)
                   = Ordered!Context!Stepped(row, at, hasText, n)
        BY <4>2, ZenonT(30) DEF Context!Stepped, Ordered!Context!Stepped, Context!Text,
               Ordered!Context!Text, Context!Call, Ordered!Context!Call
      <4>4. QED
        BY <3>3, <4>1, <4>2, <4>3, SameFilters DEF Context!Step, Ordered!Context!Step,
               Context!Last, Ordered!Context!Last
    <3>4. ASSUME NEW hasText, NEW n, Context!OldReply(hasText, n)
          PROVE  Ordered!Context!OldReply(hasText, n)
      BY <3>4, SameFilters DEF Context!OldReply, Ordered!Context!OldReply,
             Context!Last, Ordered!Context!Last
    <3>5. ASSUME NEW c, NEW output, NEW inPart, Context!Result(c, output, inPart)
          PROVE  Ordered!Context!Result(c, output, inPart)
      BY <3>5 DEF Context!Result, Ordered!Context!Result, Context!Room,
             Ordered!Context!Room, Context!Blank, Ordered!Context!Blank,
             Context!HasResult, Ordered!Context!HasResult
    <3>6. QED
      BY <3>1, <3>2, <3>3, <3>4, <3>5 DEF Context!Next, Ordered!Context!Next,
             Context!CallIds, Ordered!Context!CallIds, Context!Outputs,
             Ordered!Context!Outputs
  <2>2. CASE UNCHANGED histVars
    BY <2>2 DEF histVars, Ordered!Context!historyVars
  <2>3. QED
    BY <1>2, <2>1, <2>2, OneAtATime
<1>3. Ordered!Context!HistoryConsistent => HistoryConsistent
  <2>1. Ordered!Context!CallsAnsweredAtOnce => Context!CallsAnsweredAtOnce
    BY SameMessages DEF Context!CallsAnsweredAtOnce, Ordered!Context!CallsAnsweredAtOnce
  <2>2. Ordered!Context!NothingLost => Context!NothingLost
    BY SameFilters, SameMessages, ZenonT(30) DEF Context!NothingLost, Ordered!Context!NothingLost,
           Context!Filter, Ordered!Context!Filter
  <2>3. Ordered!Context!ClientAgreesWithModel => Context!ClientAgreesWithModel
    BY SameFilters, SameMessages, ZenonT(30) DEF Context!ClientAgreesWithModel,
           Ordered!Context!ClientAgreesWithModel, Context!Filter,
           Ordered!Context!Filter
  <2>4. QED
    BY <2>1, <2>2, <2>3 DEF HistoryConsistent, Context!HistoryConsistent,
           Ordered!Context!HistoryConsistent
<1>4. Ordered!Context!Spec => []Ordered!Context!HistoryConsistent
  <2>1. Ordered!HistoryBounds
    BY HistoryBounds DEF Ordered!HistoryBounds
  <2>2. QED
    BY <2>1, Ordered!HistoryIsKept
<1>5. QED
  BY <1>1, <1>2, <1>3, <1>4, PTL DEF Spec, Ordered!Context!Spec

-----------------------------------------------------------------------------
LEMMA SameReplies ==
  /\ \A S : Rendering!Cardinality(S) = Ordered!Rendering!Cardinality(S)
  /\ \A s : Rendering!ToSet(s) = Ordered!Rendering!ToSet(s)
  /\ \A p, ps, s : Rendering!Update(p, ps, s) = Ordered!Rendering!Update(p, ps, s)
  /\ Rendering!Piece = Ordered!Rendering!Piece
  /\ Rendering!Content = Ordered!Rendering!Content
  /\ Rendering!StoredParts = Ordered!Rendering!StoredParts
  /\ Rendering!FirstCallPart = Ordered!Rendering!FirstCallPart
<1>1. \A S : Rendering!Cardinality(S) = Ordered!Rendering!Cardinality(S)
  BY DEF Rendering!Cardinality, Ordered!Rendering!Cardinality
<1>2. \A s : Rendering!ToSet(s) = Ordered!Rendering!ToSet(s)
  BY DEF Rendering!ToSet, Ordered!Rendering!ToSet
<1>3. \A p, ps, s : Rendering!Update(p, ps, s) = Ordered!Rendering!Update(p, ps, s)
  BY DEF Rendering!Update, Ordered!Rendering!Update
<1>4. Rendering!Piece = Ordered!Rendering!Piece
  BY DEF Rendering!Piece, Ordered!Rendering!Piece
<1>5. Rendering!Content = Ordered!Rendering!Content
  BY DEF Rendering!Content, Ordered!Rendering!Content
<1>6. Rendering!StoredParts = Ordered!Rendering!StoredParts
  BY DEF Rendering!StoredParts, Ordered!Rendering!StoredParts
<1>7. Rendering!FirstCallPart = Ordered!Rendering!FirstCallPart
  BY <1>6 DEF Rendering!FirstCallPart, Ordered!Rendering!FirstCallPart
<1>8. QED
  BY <1>1, <1>2, <1>3, <1>4, <1>5, <1>6, <1>7

(* The reply the model sent is the reply that is executed, shown and       *)
(* stored, whatever the order of its deltas and the reads in which the     *)
(* client gets its events (engine.go, chat-stream.ts).                     *)
THEOREM RenderingHolds == Spec => []RenderingFaithful
<1>1. Init => Ordered!Rendering!Init
  <2>1. Init => Rendering!Init
    BY DEF Init
  <2>2. QED
    BY <2>1 DEF Rendering!Init, Ordered!Rendering!Init, Rendering!Content,
           Ordered!Rendering!Content
<1>2. ASSUME [Next]_vars PROVE [Ordered!Rendering!Next]_(Ordered!Rendering!replyVars)
  <2>1. CASE RunRendering
    <3>1. Rendering!Next
      BY <2>1 DEF RunRendering
    <3>2. ASSUME NEW k, Rendering!ContentDelta(k) PROVE Ordered!Rendering!ContentDelta(k)
      BY <3>2 DEF Rendering!ContentDelta, Ordered!Rendering!ContentDelta, Rendering!Send,
             Ordered!Rendering!Send, Rendering!Cardinality, Ordered!Rendering!Cardinality,
             Rendering!Update, Ordered!Rendering!Update, Rendering!Piece,
             Ordered!Rendering!Piece, Rendering!Content, Ordered!Rendering!Content,
             Rendering!clientVars, Ordered!Rendering!clientVars
    <3>3. ASSUME NEW i, Rendering!ToolCallDelta(i) PROVE Ordered!Rendering!ToolCallDelta(i)
      BY <3>3 DEF Rendering!ToolCallDelta, Ordered!Rendering!ToolCallDelta, Rendering!Send,
             Ordered!Rendering!Send, Rendering!Piece, Ordered!Rendering!Piece,
             Rendering!clientVars, Ordered!Rendering!clientVars
    <3>4. Rendering!DoneUpdates = Ordered!Rendering!DoneUpdates
      BY DEF Rendering!DoneUpdates, Ordered!Rendering!DoneUpdates, Rendering!Update,
             Ordered!Rendering!Update
    <3>5. ASSUME Rendering!StreamEnds PROVE Ordered!Rendering!StreamEnds
      BY <3>4, <3>5, SameReplies DEF Rendering!StreamEnds, Ordered!Rendering!StreamEnds,
             Rendering!clientVars, Ordered!Rendering!clientVars
    <3>6. ASSUME Rendering!StreamFails PROVE Ordered!Rendering!StreamFails
      BY <3>6 DEF Rendering!StreamFails, Ordered!Rendering!StreamFails,
             Rendering!clientVars, Ordered!Rendering!clientVars
    <3>7. ASSUME NEW states, Rendering!ToolsReturn(states) PROVE Ordered!Rendering!ToolsReturn(states)
      BY <3>7, SameReplies DEF Rendering!ToolsReturn, Ordered!Rendering!ToolsReturn,
             Rendering!clientVars, Ordered!Rendering!clientVars
    <3>8. ASSUME NEW to, Rendering!ParseSSEStream(to) PROVE Ordered!Rendering!ParseSSEStream(to)
      BY <3>8 DEF Rendering!ParseSSEStream, Ordered!Rendering!ParseSSEStream,
             Rendering!Ended, Ordered!Rendering!Ended, Rendering!Cardinality,
             Ordered!Rendering!Cardinality, Rendering!ApplySSEChunk,
             Ordered!Rendering!ApplySSEChunk, Rendering!HandlePartCreate,
             Ordered!Rendering!HandlePartCreate, Rendering!HandlePartUpdate,
             Ordered!Rendering!HandlePartUpdate, Rendering!UpdatedPart,
             Ordered!Rendering!UpdatedPart, Rendering!HandleMessageDone,
             Ordered!Rendering!HandleMessageDone, Rendering!Padding,
             Ordered!Rendering!Padding
    <3>9. QED
      BY <3>1, <3>2, <3>3, <3>5, <3>6, <3>7, <3>8 DEF Rendering!Next,
             Ordered!Rendering!Next, Rendering!Content, Ordered!Rendering!Content,
             Rendering!Indices, Ordered!Rendering!Indices
  <2>2. CASE UNCHANGED replyVars
    BY <2>2 DEF replyVars, Ordered!Rendering!replyVars
  <2>3. QED
    BY <1>2, <2>1, <2>2, OneAtATime
<1>3. Ordered!Rendering!RenderingFaithful => RenderingFaithful
  <2>1. ASSUME NEW k, NEW i PROVE Rendering!PiecesOf(k, i) = Ordered!Rendering!PiecesOf(k, i)
    BY DEF Rendering!PiecesOf, Ordered!Rendering!PiecesOf, Rendering!Filter,
           Ordered!Rendering!Filter, Rendering!FlattenSeq, Ordered!Rendering!FlattenSeq
  <2>2. Ordered!Rendering!CallsWhole => Rendering!CallsWhole
    BY <2>1 DEF Rendering!CallsWhole, Ordered!Rendering!CallsWhole
  <2>3. Ordered!Rendering!ShownWhole => Rendering!ShownWhole
    BY <2>1, SameReplies DEF Rendering!ShownWhole, Ordered!Rendering!ShownWhole
  <2>4. Ordered!Rendering!NothingStrays => Rendering!NothingStrays
    BY SameReplies DEF Rendering!NothingStrays, Ordered!Rendering!NothingStrays
  <2>5. Ordered!Rendering!ReloadShowsTheSame => Rendering!ReloadShowsTheSame
    <3>1. PICK sp : sp = Rendering!StoredParts /\ sp = Ordered!Rendering!StoredParts
      BY SameReplies
    <3>2. Rendering!FlattenSeq([k \in DOMAIN sp |-> IF sp[k].pieces # <<>> THEN <<sp[k]>> ELSE <<>>])
          = Ordered!Rendering!FlattenSeq([k \in DOMAIN sp |-> IF sp[k].pieces # <<>> THEN <<sp[k]>> ELSE <<>>])
      BY DEF Rendering!FlattenSeq, Ordered!Rendering!FlattenSeq
    <3>3. QED
      BY <3>1, <3>2, SameReplies, ZenonT(30) DEF Rendering!ReloadShowsTheSame,
             Ordered!Rendering!ReloadShowsTheSame, Rendering!Filter, Ordered!Rendering!Filter
  <2>6. QED
    BY <2>2, <2>3, <2>4, <2>5 DEF RenderingFaithful, Rendering!RenderingFaithful,
           Ordered!Rendering!RenderingFaithful
<1>4. Ordered!Rendering!Spec => []Ordered!Rendering!RenderingFaithful
  <2>1. Ordered!ReplyBounds
    BY ReplyBounds DEF Ordered!ReplyBounds
  <2>2. QED
    BY <2>1, Ordered!ReplyIsFaithful
<1>5. QED
  BY <1>1, <1>2, <1>3, <1>4, PTL DEF Spec, Ordered!Rendering!Spec

=============================================================================
