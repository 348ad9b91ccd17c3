----------------------------- MODULE Components -----------------------------
(***************************************************************************)
(* The components that have no variables in common, as one specification.  *)
(* Each behaviour is one of one component, chosen at the start: they are   *)
(* the union of the components' behaviours.  A name that two of them use   *)
(* is given a prefix.                                                      *)
(***************************************************************************)
EXTENDS Integers, Sequences, FiniteSets

CONSTANTS
  Calls, Cancels,
  Last, Window, MaxBreaks,
  MaxPieces, ReplyCalls, MaxDropped,
  KB, Docs, MaxChunks, KnowledgeFaults, KnowledgeRestarts,
  Size, Overlap, Levels, WordSizes, Gaps, MaxWords,
  MaxTexts, BatchSize, MaxRetries,
  Bases, Scores, SearchedChunks,
  Requests, Names, MaxEntries,
  Memories, Matching, Wanted, Limit,
  Jobs, Files, MaxMemories, Keep, MaxDays,
  Chats, RecalledFiles, Sections, MaxNamed, PromptCalls,
  Plugins, ToolNames, HookList, SkillPaths, Skills, ToolLists, MaxBuilds,
  Admins, Servers, Configured, MaxChanges,
  Sessions, Callers, Items,
  Messages, MaxSaves, PageSize,
  MaxRows, HistoryCalls, MaxSteps, HistoryLimit, PageLimit,
  MaxFaults, MaxRestarts   \* of the memory, the MCP administration and the todos

(* What the components take for granted of their constants.                *)
ASSUME ClientBounds == {Last, MaxBreaks} \subseteq Nat
ASSUME ReplyBounds == ReplyCalls \in Nat
ASSUME BatchesHaveTexts == BatchSize \in Nat \ {0}
ASSUME NoneIsNoRequest == "none" \notin Requests
ASSUME RecallBounds == Limit \in Nat \ {0} /\ IsFiniteSet(Memories)
ASSUME SummaryBounds == Keep \in Nat \ {0} /\ IsFiniteSet(Jobs)
ASSUME ConfiguredServers == Configured \subseteq Servers /\ IsFiniteSet(Configured)
ASSUME ItemsAreFinite == IsFiniteSet(Items)
ASSUME StoreBounds == "none" \notin Sessions /\ PageSize \in Nat
ASSUME HistoryBounds ==
  MaxSteps \in Nat \ {0} /\ {HistoryCalls, HistoryLimit, PageLimit} \subseteq Nat
ASSUME RecalledFilesAreFiles ==
  /\ MaxNamed \in Nat
  /\ RecalledFiles \cap {"kb", "custom", "todos", "memory", "skills"} = {}

VARIABLES
  part,  \* the component
  stopped, task, entry, listed, result, expired, told, metadata, snapshot,
  cancel, fetched, recorded, disturbed,
  written, over, mode, next, seq, bubble, reloads, breaks,
  sent, reply, partOf, stage, events, read, message, dropped,
  kbStage, kb, doc, home, size, count, stored, work, removal, dropping,
  faults, restarts, overlapped, cut, homeless,
  blocks, words, letters,
  texts, vectors, batch, attempt, phase, cancelled,
  index, lost,
  memSnapshot, memReply, memFaults, memRestarts, memIndex, file, facts, kind,
  pc, paths, holder, manual, stale, raced,
  recallListed, onDisk, asked, chosen, results, call, steady,
  sumRestarts, sumFile, day, summaries, cooling, job, newest,
  promptStage, promptOverlapped, promptChosen, reads, injections, disk, calls,
  added, request, cache, shown, unread, failed,
  harnessDisk, builds, built, toolPool, hooks, found, enabled, offered, agent,
  ran,
  mcpFaults, mcpRestarts, mcpRaced, mcpAdded, mcpEnabled, configs, saved, env,
  admin, target, seen, changes, unsaved,
  planDisturbed, planFaults, planCall, rows, status, owner, want, made,
  refused, prompt,
  storeShown, storeSaved, storeRows, storeOwner, storeMade, storeRefused,
  backend, recent, saves, todos, offset, skipped,
  histRows, called

Async == INSTANCE AsyncTools
Client == INSTANCE StreamClient
Rendering == INSTANCE Reply WITH MaxCalls <- ReplyCalls
Base == INSTANCE Knowledge WITH MaxFaults <- KnowledgeFaults,
  MaxRestarts <- KnowledgeRestarts, stage <- kbStage
Chunker == INSTANCE Chunking
Embedder == INSTANCE Embedding
Retrieval == INSTANCE Search WITH MaxChunks <- SearchedChunks
Memory == INSTANCE FileMemory WITH snapshot <- memSnapshot,
  reply <- memReply, faults <- memFaults, restarts <- memRestarts,
  index <- memIndex
Recall == INSTANCE MemoryRecall WITH listed <- recallListed
Summarizer == INSTANCE Summaries WITH restarts <- sumRestarts,
  file <- sumFile
Prompt == INSTANCE PromptHooks WITH Files <- RecalledFiles,
  MaxCalls <- PromptCalls, stage <- promptStage,
  overlapped <- promptOverlapped, chosen <- promptChosen
Harness == INSTANCE Assembly WITH Paths <- SkillPaths, disk <- harnessDisk
Mcp == INSTANCE McpAdmin WITH faults <- mcpFaults, restarts <- mcpRestarts,
  raced <- mcpRaced, added <- mcpAdded, enabled <- mcpEnabled
Plan == INSTANCE Todos WITH disturbed <- planDisturbed,
  faults <- planFaults, call <- planCall
Store == INSTANCE SessionStore WITH shown <- storeShown,
  saved <- storeSaved, rows <- storeRows, owner <- storeOwner,
  made <- storeMade, refused <- storeRefused
Context == INSTANCE History WITH MaxCalls <- HistoryCalls, rows <- histRows

ASSUME KnowledgeBounds == Base!KnowledgeBounds
ASSUME SearchBounds == Scores \subseteq Int /\ IsFiniteSet(Bases)
ASSUME HarnessPlugins ==  (* none is registered twice *)
  /\ Plugins \in Seq(Harness!ThePlugins)
  /\ \A i, j \in 1 .. Len(Plugins) : Plugins[i] = Plugins[j] => i = j
  /\ \A p \in Harness!ThePlugins : HookList[p] \in Seq(Int)

asyncVars == <<stopped, task, entry, listed, result, expired, told,
  metadata, snapshot, cancel, fetched, recorded, disturbed>>
clientVars == <<written, over, mode, next, seq, bubble, reloads, breaks>>
replyVars == <<sent, reply, partOf, stage, events, read, message, dropped>>
kbVars == <<kbStage, kb, doc, home, size, count, stored, work, removal,
  dropping, faults, restarts, overlapped, cut, homeless>>
chunkVars == <<blocks, words, letters>>
embedVars == <<texts, vectors, batch, attempt, phase, cancelled>>
searchVars == <<index, lost>>
memVars == <<memSnapshot, memReply, memFaults, memRestarts, memIndex, file,
  facts, kind, pc, paths, holder, manual, stale, raced>>
recallVars == <<recallListed, onDisk, asked, chosen, results, call, steady>>
sumVars == <<sumRestarts, sumFile, day, summaries, cooling, job, newest>>
promptVars == <<promptStage, promptOverlapped, promptChosen, reads, injections,
  disk, calls, added, request, cache, shown, unread, failed>>
harnessVars == <<harnessDisk, builds, built, toolPool, hooks, found,
  enabled, offered, agent, ran>>
mcpVars == <<mcpFaults, mcpRestarts, mcpRaced, mcpAdded, mcpEnabled,
  configs, saved, env, admin, target, seen, changes, unsaved>>
planVars == <<planDisturbed, planFaults, planCall, rows, status, owner,
  want, made, refused, prompt>>
storeVars == <<storeShown, storeSaved, storeRows, storeOwner, storeMade,
  storeRefused, backend, recent, saves, todos, offset, skipped>>
histVars == <<histRows, called>>

vars == <<part, asyncVars, clientVars, replyVars, kbVars, chunkVars,
  embedVars, searchVars, memVars, recallVars, sumVars, promptVars,
  harnessVars, mcpVars, planVars, storeVars, histVars>>

(* A component that is not the chosen one has one initial state.           *)
Init ==
  /\ part \in {"async", "client", "reply", "knowledge", "chunking",
       "embedding", "search", "memory", "recall", "summaries", "prompt",
       "harness", "mcp", "todos", "store", "history"}
  /\ Async!Init
  /\ Client!Init
  /\ Rendering!Init
  /\ Base!Init
  /\ Chunker!Init
  /\ Embedder!Init /\ (part # "embedding" => texts = 1)
  /\ Retrieval!Init
  /\ Memory!Init
  /\ Recall!Init /\ (part # "recall" => onDisk = {} /\ recallListed = {})
  /\ Summarizer!Init /\ (part # "summaries" => \A f \in Files : sumFile[f] = "none")
  /\ Prompt!Init
  /\ Harness!Init
  /\ Mcp!Init
  /\ Plan!Init
  /\ Store!Init /\ (part # "store" => backend = "sqlite")
  /\ Context!Init

(* The variables of the other components do not change.                    *)
Others ==
  /\ UNCHANGED part
  /\ IF part = "async" THEN TRUE ELSE UNCHANGED asyncVars
  /\ IF part = "client" THEN TRUE ELSE UNCHANGED clientVars
  /\ IF part = "reply" THEN TRUE ELSE UNCHANGED replyVars
  /\ IF part = "knowledge" THEN TRUE ELSE UNCHANGED kbVars
  /\ IF part = "chunking" THEN TRUE ELSE UNCHANGED chunkVars
  /\ IF part = "embedding" THEN TRUE ELSE UNCHANGED embedVars
  /\ IF part = "search" THEN TRUE ELSE UNCHANGED searchVars
  /\ IF part = "memory" THEN TRUE ELSE UNCHANGED memVars
  /\ IF part = "recall" THEN TRUE ELSE UNCHANGED recallVars
  /\ IF part = "summaries" THEN TRUE ELSE UNCHANGED sumVars
  /\ IF part = "prompt" THEN TRUE ELSE UNCHANGED promptVars
  /\ IF part = "harness" THEN TRUE ELSE UNCHANGED harnessVars
  /\ IF part = "mcp" THEN TRUE ELSE UNCHANGED mcpVars
  /\ IF part = "todos" THEN TRUE ELSE UNCHANGED planVars
  /\ IF part = "store" THEN TRUE ELSE UNCHANGED storeVars
  /\ IF part = "history" THEN TRUE ELSE UNCHANGED histVars

RunAsync == part = "async" /\ Async!Next /\ Others
RunClient == part = "client" /\ Client!Next /\ Others
RunRendering == part = "reply" /\ Rendering!Next /\ Others
RunBase == part = "knowledge" /\ Base!Next /\ Others
RunChunker == part = "chunking" /\ Chunker!Next /\ Others
RunEmbedder == part = "embedding" /\ Embedder!Next /\ Others
RunRetrieval == part = "search" /\ Retrieval!Next /\ Others
RunMemory == part = "memory" /\ Memory!Next /\ Others
RunRecall == part = "recall" /\ Recall!Next /\ Others
RunSummarizer == part = "summaries" /\ Summarizer!Next /\ Others
RunPrompt == part = "prompt" /\ Prompt!Next /\ Others
RunHarness == part = "harness" /\ Harness!Next /\ Others
RunMcp == part = "mcp" /\ Mcp!Next /\ Others
RunPlan == part = "todos" /\ Plan!Next /\ Others
RunStore == part = "store" /\ Store!Next /\ Others
RunContext == part = "history" /\ Context!Next /\ Others

Next ==
  \/ RunAsync \/ RunClient \/ RunRendering \/ RunBase \/ RunChunker \/
     RunEmbedder \/ RunRetrieval \/ RunMemory \/ RunRecall \/ RunSummarizer \/
     RunPrompt \/ RunHarness \/ RunMcp \/ RunPlan \/ RunStore \/ RunContext

(* The poll loop of the worker, and a batch of requests, go on by themselves.*)
Spec ==
  /\ Init /\ [][Next]_vars
  /\ WF_vars(part = "knowledge" /\ Base!Worker /\ Others)
  /\ WF_vars(part = "embedding" /\ Embedder!Embed /\ Others)

-----------------------------------------------------------------------------
(* The properties are stated in the components' modules, with the code they *)
(* are about; those of the parts of one service are checked together.      *)

(* Every variable has its type (the TypeOK of each module).                *)
ComponentsTypeOK ==
  CASE part = "async"        -> Async!AsyncTypeOK
    [] part = "client"       -> Client!ClientTypeOK
    [] part = "reply"        -> Rendering!ReplyTypeOK
    [] part = "knowledge"    -> Base!KnowledgeTypeOK
    [] part = "chunking"     -> Chunker!ChunkingTypeOK
    [] part = "embedding"    -> Embedder!EmbeddingTypeOK
    [] part = "search"       -> Retrieval!SearchTypeOK
    [] part = "memory"       -> Memory!MemoryTypeOK
    [] part = "recall"       -> Recall!RecallTypeOK
    [] part = "summaries"    -> Summarizer!SummariesTypeOK
    [] part = "prompt"       -> Prompt!PromptTypeOK
    [] part = "harness"      -> Harness!AssemblyTypeOK
    [] part = "mcp"          -> Mcp!McpTypeOK
    [] part = "todos"        -> Plan!TodosTypeOK
    [] part = "store"        -> Store!SessionStoreTypeOK
    [] part = "history"      -> Context!HistoryTypeOK

(* The client is told once of the end of each asynchronous call, and a     *)
(* completion record of the session is lost only when two appends overlap  *)
(* (engine_tools.go:177-367, storage-sqlite/session.go:119).               *)
AsyncConsistent == part = "async" => Async!AsyncConsistent

(* However often the client reconnects, it applies events in order         *)
(* (chat-session.ts).                                                      *)
AppliedInOrder == part = "client" => Client!AppliedInOrder

(* The reply the model sent is executed, shown and stored as it was sent   *)
(* (openai_adapter.go, engine.go, sse-parser.ts, message-reducer.ts).      *)
RenderingFaithful == part = "reply" => Rendering!RenderingFaithful

(* Documents, chunks and counts of the knowledge base agree                *)
(* (kbworker/worker.go, sqlitevec/knowledge.go).                           *)
KnowledgeConsistent == part = "knowledge" => Base!KnowledgeConsistent

(* A pending document is indexed, refused or deleted in the end, whatever  *)
(* restarts there are (worker.go:60).                                      *)
DocumentsSettle == part = "knowledge" => Base!DocumentsSettle

(* A document is cut without losing text, each chunk is stored with its    *)
(* vector, and a search finds the best of them (rag, embedding, stores).   *)
RetrievalConsistent ==
  /\ part = "chunking" => Chunker!ChunksConsistent
  /\ part = "embedding" => Embedder!VectorsMatchTexts
  /\ part = "search" => Retrieval!SearchConsistent

(* A batch of texts is embedded or given up (openai.go:146).               *)
EmbeddingEnds == part = "embedding" => Embedder!EmbeddingEnds

(* Files, index and facts of an agent's memory agree, a recall finds what  *)
(* there is, and summaries are kept within bounds (plugins/memory-file).   *)
MemoryConsistent ==
  /\ part = "memory" => Memory!MemoryConsistent
  /\ part = "recall" => Recall!RecallConsistent
  /\ part = "summaries" => Summarizer!SummariesConsistent

(* What hooks add to a call is there once, reached the model, and is what  *)
(* they left (engine.go:418-450, recall_hook.go).                          *)
PromptConsistent == part = "prompt" => Prompt!PromptConsistent

(* A harness is built whole, and hooks run in order (harness.go:133).      *)
AssemblyConsistent == part = "harness" => Harness!AssemblyConsistent

(* The configuration file has the servers the plugin has, and a server     *)
(* that was added is not lost (mcp_manager.go:122, plugin.go:86).          *)
McpConsistent == part = "mcp" => Mcp!McpConsistent

(* A plan is written whole, and todos of a session stay with it (todo.go). *)
TodosConsistent == part = "todos" => Plan!TodosConsistent

(* Rows of the database belong to a session, the last save is read, and a  *)
(* page listing misses no session (storage-sqlite, storage-postgres).      *)
StoreConsistent == part = "store" => Store!StoreConsistent

(* The history read back is valid for the provider, loses nothing of what  *)
(* was read, and agrees with what the client shows (context.go, render.go).*)
HistoryConsistent == part = "history" => Context!HistoryConsistent

=============================================================================
