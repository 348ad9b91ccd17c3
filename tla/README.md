# A TLA+ model of CopCon

CopCon is an agent server in Go with a TypeScript client: a user posts a
message, an *agent loop* calls a language model, streams its reply, runs the
tools it asks for, stores the step and starts over until a reply asks for no
tool.  Events of the loop are streamed to the browser and can be picked up
again after a lost connection; a session can be stopped, and a tool can ask the
user for input in the middle of a step.

This directory holds TLA+ modules for the parts of it that are hard to test,
the TLC configurations that check them, and TLAPS proofs of what matters most.
Paths below are relative to the repository.

## Inventory

### Core

| Component | State | Operations | What makes it correct | Module |
|---|---|---|---|---|
| Chat handler, active sessions (`core/chat`) | table session id → chat context; one goroutine per chat, one per request | new chat, reconnect, stop, remove | the table names exactly the chats that run; a stop ends a chat completely | ChatSessions |
| Chat context (`core/chatcontext`) | `closeOnce`, lifecycle context, ring buffer and counter, maps of interrupts, part locator | Emit, Subscribe, Close, RequestInput, ResolveInput | events neither lost nor repeated within a stream; answers reach their tool; close releases everybody | ChatSessions, EventStream, ReliableLog |
| Agent loop (`core/agent/engine.go`) | step, accumulated parts and calls, one assistant row | prepare, build context, stream, checkpoint, persist | the stored history is faithful whatever fails and whenever the session is stopped | AgentLoop |
| Tool execution (`core/agent/engine_tools.go`) | permits, results, parts on the client | sync, concurrent, async | every call has one outcome, stored once; a stop halts the tools | AgentLoop, AsyncTools |
| Async registry (`core/tool/registry.go`, `tools/async.go`) | status per call | Register, Complete, Fail, Cancel, Unregister | the client is told of the end once; no completion record is lost | AsyncTools |
| Delegation (`tools/delegate.go`, `core/agent/registry.go`) | sub-session, sub-context, depth | delegate_to | the parent gets the summary and continues; depth is bounded | Delegation |
| Context assembly (`core/agent/context.go`, `core/entity/convert.go`, `core/context_builder`, `api/render.go`) | none | BuildContext | each call is followed by its result, in order; nothing said is lost | History |
| Hooks (`core/hook`, `composeHooks`, recall hooks) | registered hooks, recall cache of a session | On, run | order by priority; a failing hook does not abort the loop; what is recorded as shown was shown | PromptHooks, Assembly |
| LLM providers (`core/llm`) | partial tool calls of a stream | Stream | deltas assemble into whole calls; an error ends the stream | Reply |
| Todo lists (`core/capabilities/tools/todo.go`, `core/tool/manager.go`) | items and their status | plan, update, replan | at most what the plan says; no item of another session | Todos |
| Harness, plugin pool, skills (`core/harness.go`, `core/plugin`, `plugins/skill`) | pools, runner, enabled set | Register, Build, Select | a harness is whole or empty; hooks in order | Assembly |

### Plugins, server and client

| Component | State | What is hard | Module |
|---|---|---|---|
| SQLite and Postgres stores | rows of sessions, messages, todos | upserts, foreign keys, deletion while a chat writes, paging while the list moves; read-modify-write of session metadata | SessionStore, AsyncTools |
| File memory (`plugins/memory-file`) | files, index, facts per agent | files changed outside the mutex, existence check before the write, rebuilds that fail | FileMemory, MemoryRecall |
| Memory hooks | recall cache, extraction and summary jobs | goroutines beside the loop, several chats of one agent | PromptHooks, FileMemory, Summaries |
| Knowledge worker, store and API (`server/internal/kbworker`, `plugins/knowledge-base/store`, `api/knowledge.go`) | status of a document, its chunks, availability of a base | crash between two steps, deletion while processing, failed updates of a status | Knowledge |
| Retrieval, evaluation | vectors | two backends, rows gone from under the index | Search |
| Chunking | none | boundaries, overlap, heading paths | Chunking |
| Embedding client | a batch and its attempts | batches, retries, short answers | Embedding |
| MCP client and manager | server list, enabled set, config file | no locks around the list; the list is changed before the file is written | McpAdmin |
| HTTP API (`server/internal/api`) | none of its own | reaches a running chat only through the table | ChatSessions, SessionStore, Knowledge, McpAdmin |
| Chat client (`packages/chat-core`) | sequence count, messages | reconnects, reads that end between two lines, merging of stored and live messages | StreamClient, Reply |
| User interface, start-up, logging, tracing | none that outlives a call | | not modelled |

### How they interact

`POST /chat` puts a context in the table, starts the goroutine that runs
`engine.Chat`, and subscribes to the context's ring buffer.  The engine emits
to that buffer and calls the message store with the context's lifecycle
context, so that closing it makes every store call fail.  `POST /stop` and
`POST /resume` find the context in the table; a tool that needs input blocks in
`RequestInput` on the same context.  Asynchronous tools outlive the step, and
possibly the run, that started them; they share a registry and a list in the
session's metadata.  `delegate_to` is a tool that runs `engine.Chat` on a context
of its own.  Before each model call the loop assembles the history from the
store's rows and runs the hooks of three points, which add the plan, memories and
chunks of a knowledge base.  The stores, the memory files, the MCP list and the
knowledge base are also changed by the HTTP API, and the last by a worker that
polls.  The same context is closed by whoever
comes first: a stop, or the goroutine's deferred function.

`PROJECT.json` lists every component with its status, and under `hazards` the
places where this can go wrong, with the properties that cover them.

## Modules

### ChatSessions

Every HTTP request, chat goroutine and call of `RequestInput` is a process; a
context is named by the request that made it.

| Variable | Code |
|---|---|
| `active` | `sessionStore.active` |
| `handler`, `attached`, `session` | where a `HandleChat` call is, the context it streams, its session id |
| `agent` | the goroutine of `handler.go:61`: running, returned, entry removed, exited |
| `context` | `closeOnce`: open, being closed, closed |
| `stop`, `resume`, `target`, `wanted` | `StopSession` and `ResumeSession` calls, the context they got, the interrupt they name |
| `input`, `owner`, `channel`, `outcome` | `RequestInput` calls, the interrupt channel of capacity one, the result |
| `overlapped` | history: chats that shared their session with another live chat |

`Admit` and `Register` are two steps because `HandleChat` reads the table and
writes it under separate locks.  `CloseSignal` cancels the lifecycle context and
closes the buffer and the `closed` channel, `CloseRemove` then deletes the table
entry; a second caller of `Close` waits for the first (`sync.Once`).
`ResumeLookup` and `ResumeSend` are two steps because `ResolveInput` sends after
releasing the lock.

### AgentLoop

One run of `engineImpl.Chat`.  `pc` is the place in `runAgentLoop`; `tool` is
what has become of each call; `row` is the assistant row with its parts and tool
calls, `results` the tool rows, `shown` what a connected client has been sent.
Every store operation succeeds, fails by itself (at most `MaxFaults` times) or
fails because the context is cancelled (`Succeeds`, `Fails`).  `Upsert` replaces
the whole row and blanks the tool calls, as `persistMessageUpsert` does, and its
failure is only logged; `Update` fails if there is no row.  `TextDelta`,
`StreamEnds`, `Checkpoint`, `StepCreate` and `Persist` are the five writers of
the row.  What a part says is left out, its kind, place and state are kept.
A concurrent tool takes its permit (`ConcurrentAcquire`), announces itself with an
event and runs its hook (`ConcurrentAnnounce`) and then executes (`ToolStart`), an
asynchronous one takes it (`AsyncAcquire`) and executes (`AsyncStart`): only the
first of these looks at the context, so a stop may come after it and the tool starts
all the same (`late`).  A synchronous tool takes no permit (`SyncAnnounce`,
`ToolStart`).
Call ids are assumed distinct, as providers make them; `convertPartsToUI` and
the maps by call id rely on it.  The hooks of the loop are in `PromptHooks`, the
assembly of a reply from deltas in `Reply`; providers that skip an index of their
tool calls are left out.

### EventStream and ReliableLog

One context's ring buffer, its counter, and any number of subscriptions, down
to what each response carries.  Events are numbered as emitted; `ring` maps a
slot to the event it holds, so reading an overwritten slot would show.  `Emit`
has its two halves, because `Subscribe` reads the counter without the lock.
`SubscribeLoad` and `SubscribeAttach` are the two halves of `Subscribe`, which
computes a lag from the counter and hands it to the buffer later.  `channel` is
the Go channel plus the event the forwarding goroutine holds while blocked.
The ring buffer is a library, `github.com/golang-cz/ringbuf`, which is not part
of the repository.  It is modelled from its use: `StartBehind`, `MaxLag`, `Write`,
`Close`, `Iter`.

`ReliableLog` says what this is for, without buffer, channel and lag: a log is
written and closed, each reader gets consecutive entries from some first one, and
a run that completes has come to the last.  `EventStream` implements it by
`Log == INSTANCE ReliableLog WITH Readers <- Streams, length <- written,
over <- closed, status <- ResponseStatus, first <- start, read <- got`;
`ResponseStatus` folds the phases of a response into the reader's, and a response
whose connection is lost or that was overtaken is one that broke off.  What a
client may rely on, and the server's side of `StreamClient`, is this log.

`ChatSessions` treats a stream as open or ended, `AgentLoop` a context as open
or cancelled: each abstracts what the other two have in detail.

### AsyncTools

`task` is the place of `executeAsync`'s goroutine, `entry`, `listed` and `result`
the state it registered, `expired` its own context, `told` the completion events
emitted, `metadata` the list under `async_completion_pending`, `snapshot` the list
an `AppendMetadata` in progress has read, `cancel` and `fetched` the callers of
`Cancel`/`CancelSession` and of the polling tools.  The registry hands out
pointers without a lock around their fields, so `CancelCheck` and `CancelSet` are
two steps, as are `ReadMetadata` and `WriteMetadata`; a completion may come
between any two.  `disturbed` remembers which appends overlapped.

### Delegation

Chats nested under a root.  `call` is a `delegate_to` call, named by the sub-chat
it wants; `run` is `engine.Chat` of each chat, `closed` the chats whose `Closed()`
channel is closed, `summary` what a call has returned.  `Begin` has the check of
the depth, `Return` the receive from the sub-chat's `Closed()`, which is enabled
only for a closed sub-chat: in this code never.

### StreamClient

`ChatSession` with its connection: `seq` is the count it keeps instead of event
numbers, `next` what its connection carries next, `bubble` the events applied to
the message on screen, `mode` what it awaits.  The server's half is the promise of
`ReliableLog` with a window, so this is the client composed with what
`EventStream` is proved to implement.  `LastSeen` is the number a reconnect sends,
one more than the client has seen; `Answer` is the handler's 200, 404 or 409;
`Recover` is the reload and restart that follow a refusal.

### Knowledge

Rows of the tables of knowledge bases, documents and chunks (`kb`, `doc`, `stored`,
with `home`, `size`, `count`), the worker's list and place in it (`work`, `stage`),
deletions in progress (`removal`, `dropping`).  Each statement of a deletion is a
step, since there is no transaction; `Poll` lists, `Take`, `Parse`, `Embed`,
`StoreChunks` are the steps of `processDocument`, each with its failure and the
status update that may fail as well; `Restart` drops the worker's memory.
`overlapped`, `cut` and `homeless` record the races in whose absence the
invariants promise more.

### FileMemory, MemoryRecall, Summaries

`FileMemory` has the requests of `memory_store`, `memory_forget`, the exclusive
store and the extraction: a write or removal outside the mutex, then a rebuild of
`index` and `facts` from a `snapshot` of the disk under it.  `MemoryRecall` is one
call of `memory_recall` while others store and forget: `asked` what the model was
shown, `chosen` what it named, and the fall-back to a keyword search.
`Summaries` has the background jobs of several chats, with cooldown, the limit
that triggers them, clean-up to the latest `Keep`, days and restarts.

### PromptHooks, Assembly

`PromptHooks` follows loops of one session through the hook points between two
model calls: what hooks `added`, what the `request` carries (converted before the
last point), and the session's `cache` of recalled files, which two chats read and
write around a model call of their own.  The answer to that call is a list
(`chosen`), filtered against the cache only; `RecallRead` takes its paths one by one
(`reads`) and makes a message of each (`injections`), also of a path that is there
twice.  `OnSystemPrompt` lets any of the hooks in `Sections` add its part.  `Assembly` is `Build`, again after it has
failed in the middle, with the pools, the runner, skill discovery over search
paths, `Select` by pattern and the order hooks run in.

### McpAdmin, Todos, SessionStore

`McpAdmin`: the plugin's list and flags (`configs`, `enabled`), the file (`saved`,
`env`), and each administrator's request.  The list is a slice shifted in place
without a lock, so a removal is two steps and may lose or duplicate what another
request did (`raced`).  `Todos`: a replan is a list, deletions and creations, each
a store call that may fail, beside other calls of the session.  `SessionStore`: the
three tables under either database's foreign keys, upserts against adds and
updates, deletion while a chat writes, and a client that pages through the list.

### History, Reply, Chunking, Embedding, Search

These are algorithms as operators over a small state that enumerates their inputs.
`History` builds the rows a session can reach and converts them as `BuildContext`
and as the API does.  `Reply` takes deltas of a provider through the engine's
accumulation, its events, the client's parser, which loses an event that is cut
between its two lines, and the reducer.  `Chunking` writes a document word by word
and cuts it with both chunkers.  `Embedding` is `EmbedBatch` with attempts,
back-off and cancellation, and the check before chunks are stored.  `Search`
compares the two vector stores and the evaluation's counts.  `Lists` has what these
share and the proofs can expand: `Filter`, and the sorted list of a set.

### Components

The modules from `AsyncTools` on, apart from `Delegation`, share no variable with
each other, and most are small.  `Components` chooses one (`part`) when a
behaviour starts and runs only it, so that its behaviours are the union of theirs:
nothing composes across parts.  A name two parts use is given a prefix.  Its
properties are conjunctions of those stated, with the code they are about, in the
parts: `AsyncConsistent` of `EndIsToldOnce` and `RecordLostOnlyByOverlap`,
`KnowledgeConsistent` of `StoredOnce`, `ReadyIsSearchable`,
`OrphansOnlyByOverlap`, `HomeExists` and `UnavailableOnlyIfCut`, and so on.  It has
every bound as a constant, with its assumptions named; `MCComponents` only gives
the constants their values.

### What is left of the plan

1. Proofs about `Chunking`, and of the types of the parts (`ComponentsTypeOK`).
2. The part locator of a chat, with tools that ask for input side by side.
3. The hooks of an agent of its own (`composeHooks`).
4. Abstract specifications of a delegating call and of a document's life.

## Runs

| Run | Instance | What it shows |
|---|---|---|
| `chat_sessions` | 1 session, 2 chats, 1 stop, 2 resumes, 2 interrupts (1 asynchronous) | the table holds only live chats, all that never overlapped; answers are neither lost nor swapped |
| `chat_sessions_live` | 1 session, 2 chats, 1 stop, 2 interrupts; fair | a stop, or the end of the loop, ends tools, goroutine and streams |
| `one_active_agent` | 1 session, 2 chats, 1 stop | **violated**: two agents of one session run at once |
| `resume_answered` | 1 chat, 2 resumes, 1 interrupt; fair | **violated**: the second resume may block for ever |
| `agent_batch` | 2 calls in one reply, then a last reply; 1 permit, 1 fault | store, client and execution agree; a stop halts tools, up to those that hold a permit and one synchronous tool |
| `agent_steps` | 2 steps with a call each, so that the limit is reached; 1 fault; fair | steps are kept, the model sees outcomes, no model call after a stop, every run ends |
| `event_stream` | ring of 3, channel of 2, 7 events, 1 stream; fair | gapless, nothing before the number asked for, drained at close, refused only outside the window; a `ReliableLog`, with its liveness |
| `event_stream_from` | ring of 2, channel of 1, 5 events, 1 stream | **violated**: a stream may start after the number asked for |
| `components` | the parts of `Components`, see below; fair where stated | each part's invariants; documents settle and embedding ends |
| `delegation_returns` | a root and 2 sub-chats, depth limit 3; fair | **violated**: a finished sub-agent does not release its parent |
| `client_reconnect` | 5 events, window of 3, 3 breaks | **violated**: a reconnected client lacks an event |
| `sse_reads` | a reply of 2 pieces, reads that end anywhere | **violated**: an event that was read whole is lost |

### The bounds

*ChatSessions.* The table and all lookups go by session id and contexts share
nothing else, so one id has every conflict; two chats are an old and a new one,
and either may be a reconnect instead.  One of two interrupts is asynchronous:
it may ask after its chat has ended.  Two resumes are enough for a duplicate and
for two answers at once.  Requests are used at most once, so all behaviours end:
deadlock is not checked, in these or the other modules, for the same reason (a
run ends, a stream ends, and nobody need send another request).

*AgentLoop.* Two calls in a reply give every pair of modes, with one permit so
that concurrent and asynchronous calls compete: a stop then finds one call with the
permit, which still starts, and one that waits for it and must not.  (With three calls
and two permits, and no text, the invariants hold as well, in four times the states.)
In `agent_steps` both
steps may call a tool: the second has a finished one before it, and the run ends
at the step limit.  (With `MaxSteps = 3`, where the last reply has no call, all four
properties hold as well; the run then takes three minutes.)
`PersistEvery = 1` makes every text chunk a checkpoint, which is where a
checkpoint could lose something.  One fault is enough to separate any two
consecutive store calls; a cancelled context makes all later ones fail as well.

*EventStream.* Seven events go round a ring of three twice and overtake a reader
whose channel holds two.  Streams do not affect each other, which the proofs use
(`StreamUntouched`); one is enough for TLC.

*Components.* Two of whatever may race, and one more than a limit.

| Part | Bound | Why |
|---|---|---|
| AsyncTools | 2 calls, 1 canceller | two appends overlap; a cancel meets any step of a call |
| StreamClient | events 0–4, window 3, 3 breaks | a reconnect inside, at and behind the window, twice |
| Reply | 3 pieces, 2 calls, 1 lost event | deltas of two calls interleave with a text |
| Knowledge | 1 base, 1 document of at most 1 chunk, 2 faults, 2 restarts | a document meets deletion, crash and failed updates; documents are handled one by one |
| Chunking | chunk size 5, overlap 2, words of 2 or 7, gaps of 1 or 4, 4 words | words, sentences and paragraphs below and above the size, three kinds of block |
| Embedding | 5 texts, batches of 2, 3 retries | two full batches and a short one, each given up or not |
| Search | 2 bases, 3 chunks, scores 0–2 | ties, a base that fills the limit alone |
| FileMemory | 2 requests of any kind, 1 fault, 1 restart, index of 1 entry | any two rebuilds overlap; the index overflows |
| MemoryRecall | 3 memories, limit 1 | one that matches and is wanted, one of each else |
| Summaries | 2 jobs, 2 kept, 4 days, 1 restart | two clean-ups overlap a new summary |
| PromptHooks | 2 chats, 2 files, answers of up to 2 paths, 1 call each, 1 section | two chats of a session recall one file, one after the other or at once; an answer names a file twice |
| Assembly | 3 plugins that share a tool name, 2 builds | a build fails at each plugin and is repeated |
| McpAdmin | 2 administrators, 2 servers, 3 changes | any two changes overlap, a third follows |
| Todos | 2 sessions, 1 caller, 2 items, 1 fault | a replan that fails at each call |
| SessionStore | 2 sessions, 1 message, page of 1, both databases | a page boundary moves, an upsert meets a row or none |
| History | 5 rows, 3 calls, 2 steps, limit 4 | the limit cuts between a call and its result |

### Fairness

Goroutines are scheduled, so a step that stays enabled is taken; this is weak
fairness on each goroutine's own steps.  A model's reply ends, a tool returns
and a connected client reads.  No client has to send, answer, stop or
disconnect, and no tool to ask.  In `ChatSessions` the goroutine of a chat that
waits for none of its tools returns, which is `RunEnds` of `AgentLoop`.  A tool
that never returns is outside these assumptions; a synchronous one would indeed
keep its chat from ending, since a cancelled context is only seen at the next
store call.  In `Components` the worker's poll loop goes on, as its ticker makes
it, and a batch is requested until it is answered or given up; nothing else is
fair there.  In `Delegation` an agent's loop, which may not delegate for ever,
ends; the run is about what happens then.

### What the violated runs show

* **Two agents in one session.** `websocket-api.md:48` says "Only one active
  agent loop can run per session at a time."  The check (`handler.go:53`) and the
  registration (59) are separate; and a stop deletes the entry while the agent
  still runs.  `ReachableUnlessOverlapped` says what remains true, and that an
  overlap is the only way a running chat becomes unreachable.
* **A resume that is never answered.** The send in `ResolveInput` (229) is made
  after the lock is released, to a channel of capacity one that nobody need be
  reading any more.
* **A stream that starts late.** The comment on `Subscribe` promises "all events
  from fromSeq onward".  The counter is read without the lock, and events written
  before the subscription is made move its start.  `NothingBeforeFrom` is the other
  half, which holds: nothing is sent twice.  It is checked and proved for streams
  of an open context: on a closed one the counter may run ahead of the buffer by
  emissions the buffer no longer takes.
* **A delegation that does not return.** `delegate.md:27`: "The parent agent blocks
  until the sub-agent finishes."  The tool waits for the sub-chat's context to be
  closed (`delegate.go:132`), and only `HandleChat` closes a context, its own.  Not
  even a stop of the parent releases the call.  `NoCallReturns` proves it for any
  number of chats.
* **A hole after a reconnect.** The client sends its count plus one
  (`chat-session.ts:160`), the handler adds one again (`handler.go:38-48`): one
  event is skipped, although a client is to receive the events "after that sequence
  number" (`custom-handlers.md:515`).  `AppliedInOrder` is what remains: no event
  is applied twice.
* **An event the parser forgets.** `sse-parser.ts:3`: "Calls onChunk for each complete
  SSE event".  An unfinished line is kept for the next read but the data of an
  unfinished event is not (20).  `NothingStrays` is what remains: a lost event leaves a
  gap, and nothing is shown in a part it was not sent for.

### Divergences noted, without a run

Met while modelling; each is in a module as the code has it, or beside one.

* `http-api.md:204` has the deletion of a session delete "all associated messages".
  The tables of the SQLite store have foreign keys without a cascade
  (`storage-sqlite/models.go:234`), and the server opens it with `foreign_keys(1)`
  (`factory.go:49`): the deletion of a session with rows fails and is answered 404.
  `SessionStore!DeleteSucceeds` states it.
* `recall_hook.go:16`: "Per-session dedup prevents double injection."  The paths of an
  answer are compared with the cache as it was before the answer (110) and not with
  each other, so a path named twice is twice in the call: `PromptHooks!InjectedOnce`
  states it, and TLC finds it violated.  `ShownOnce` is what remains: no two calls carry
  the same file, unless two chats chose it at once.
* `async.md:163` says of a cancelled call that "The result is not recoverable."  What is
  cancelled is the context the call waits for its permit with; the tool runs with the
  chat's (`engine_tools.go:241`), and `Complete` sets status and result without looking
  (`registry.go:77`): `AsyncTools` has a call that was cancelled and is completed.
* For an agent with hooks of its own `composeHooks` sorts them ascending by priority
  (`engine.go:726`); `custom-hook.md:69` and the runner have them descending.
* `todo.md:163` has a replan delete "all existing todos".  The adapter given to the
  tool refuses every deletion (`builtin.go:162-164`), so a replan of a session that
  has a plan is refused: `Todos!ReplanReplaces` states it.
* Live, a text part that began before the reasoning is shown before it; stored and
  reloaded it is behind (`engine.go:674`).
* What hooks change at `BeforeLLMCall` reaches no model: the messages have been
  converted (`engine.go:443-449`).  `RequestAsHooksLeftIt` says so.
* The comments disagree on which priority comes first (`hook.go:156` and the
  runner's).
* After a stop, a concurrent or asynchronous tool that holds a permit is still started;
  `StopHaltsTools` says how many.
* Both `GetMessages` and the engine's history read the *oldest* rows of a session
  (`handlers.go:199`, `context.go:30`): a session longer than the limit is cut at
  its newest.  `NothingLost` is stated for sessions within it.
* The goroutine that forwards a subscription's events (`chat_context.go:136`) sends to
  a channel nobody reads once its handler has gone: if the channel is full it stays
  there for ever, one per lost connection (`phase` is `gone` in `EventStream`).
* The default harness gives `get_tool_status` a registry of its own
  (`builtin.go:219`), where no call is ever found.
* A delegated task is stored twice (`delegate.go:122`, `engine.go:168`).
* Enabling or disabling a skill at run time changes neither the tool nor the hook,
  which were given the enabled ones when the harness was built; the sets of enabled
  skills and servers are maps without a lock.
* An answer of a provider without a choice at the end of a stream is indexed all
  the same (`openai_adapter.go:192`).
* A chunk may be one character longer than the chunk size (`SizeKept`), and nDCG
  may exceed one where a document is found through several chunks.
* `GET /updates` always answers an empty list (`handlers.go:417`).

## Proofs

`tlapm` checks eight modules.  What they assume of the constants is either an
`ASSUME` of the module that declares them or a hypothesis of the theorem:

| Module | Assumed |
|---|---|
| ChatSessions | the nil values are not processes; stops and resumes are disjoint |
| EventStream | sizes are positive |
| AgentLoop (`LoopBounds`) | bounds are naturals; `PersistEvery` and the permits positive; the number of calls a reply may have is at most `MaxCalls` |
| Delegation, AsyncTools | nothing |
| Knowledge (`KnowledgeBounds`) | the documents are a finite set, `"none"` is no knowledge base, bounds are naturals |
| Todos, MemoryRecall, Summaries | items, memories, jobs are finite sets; a limit is positive |
| FileMemory | `"none"` is no request |
| StreamClient | the length of the chat and the number of breaks are naturals |
| Reply (`ReplyBounds`) | the number of calls a reply may have is a natural |
| McpAdmin | the configured servers are finitely many of the servers |
| Embedding | a batch is positive |
| SessionStore | `"none"` is no session, the page size is a natural |
| PromptHooks | the paths taken of an answer are a natural number, and no file has the name of a hook's message |
| Search | scores are integers, the bases finitely many |
| Assembly (`HarnessPlugins`) | no plugin is registered twice, as in the server's list; priorities are integers |
| History (`HistoryBounds`) | limits and the number of calls are naturals, a turn has at least one step |

All runs have constants of this kind.  `Components` repeats as `ASSUME`s what the
proofs of its parts need, so that TLC evaluates them on the run.  No proof uses
fairness: the theorems about `Knowledge` in `StorageProofs`, whose specification states some,
are about `Steps`, its initial states and steps alone.

**ChatSessionsProofs**, for any numbers of sessions, requests and interrupts.
`TypeOK` is inductive with its part `NoNilDereference`.  The two table properties
share an invariant, `TableInv`, because neither is inductive alone: `Phases` says
where a chat's goroutine and context are before it is registered and after it
exits, and `OverlapsRecorded` that two chats living at once in one session are
both on record.  The two answer properties share `AnswerInv`, which ties the
content of an interrupt's channel to the resume that filled it.

**AgentLoopProofs**, for any numbers of steps, calls, permits and faults: the type,
the six state invariants of the runs and both action properties.  The inductive
invariant has a part per question the others depend on.

| Part | What it says | Needed for |
|---|---|---|
| `PhaseInv` | what the place of the loop says of the step and its calls | everything |
| `ToolInv` | for each call: its tool, its row, whether the loop is done with it | results agree with rows |
| `TurnInv` | synchronous calls run in turn, concurrent ones after them | `StopHaltsTools` |
| `LateInv` | a synchronous tool started after a stop is the one whose turn it was | `StopHaltsTools` |
| `PermitInv` | no more calls hold permits than there are; after a stop, the others started since and those still to be started are together no more | `StopHaltsTools` |
| `IndexInv`, `ShownInv` | two calls of a step have two places on the screen; a connected client has the state of each | `ClientAgreesOnCalls` |
| `AccumulatedInv` | the parts of the steps before: each call of them once, in order, settled, at its place | `FaithfulHistory`, `ModelSeesOutcomes` |
| `MadeCallsInv` | the same of the row's tool calls | `FaithfulHistory` |
| `RowInv` | the stored row is the accumulated parts and then parts of the current step, each part no further than its tool row | `StoredResultHasRow`, `FinishedStepsKept` |
| `RowHasCallsInv` | without faults a call that was made is stored, or the context is closed and it has no result | `ResultRowHasPart` |

A failed write leaves the row behind the loop, never ahead of it, which is why
`RowInv` bounds the row by what is accumulated and asks for equality only where the
loop has just written.  Order is stated of positions and not of sequences
(`Precedes`), so that an append is handled by comparing old positions with new ones.

**EventStreamProofs**, for any number of streams and any sizes.  `StreamInv` has
four parts beyond the type: `CounterInv` (the counter is behind the writer by the
emission in progress), `WindowInv` (each of the last `Size` events is in its
slot), `ReadInv` (what a stream has carried and what is in its channel are
consecutive events up to its position) and `FromInv` (a lag computed earlier leads
to the event asked for or past it).  That a write does not disturb the slots of
the window is the arithmetic of `SlotsDiffer`: two events less than a turn apart
have different slots.

`RefusedOnlyOutside` states the action property: a subscription reads the counter
and the closed flag, and `CounterInv` says that the counter is not ahead of an open
buffer, so that no event which is still in the window counts as lost.

`ImplementsReliableLog`, in the same module, is `Spec => Log!Spec`, under the
mapping above and `StreamInv`.  There is one lemma per action: `Emit`, `Close`, the
attachment, a delivery, the end and the loss of a stream are steps of the log, the
reading of the counter and the forwarder's own steps stutter.  A delivery is the
log's `Read` because of `ReadInv`, an end its `Complete` because of the part of
`StreamInv` that is `EndOfChatDrains`.

*Delegation*, in `ChatSessionsProofs`: `DelegationInv` says that a loop below the root
has passed the check of its depth, and that no context but the root's is closed; the
first gives `DepthIsBounded`, the second `NoCallReturns`.

**StorageProofs** is about the knowledge base and the memory files.  *Knowledge*, for
any numbers of bases, documents, faults and restarts: `KnowledgeConsistent`.
`ListInv` says that the worker's list names a document once and only unfinished or deleted ones, `ChunkInv` that chunks are stored and counted
only of documents the worker is done with, `DeletionInv` that whoever may still
store chunks of a document being deleted is on record, and `HomelessInv` the same of
an upload that meets the deletion of its base: the documents listed for the deletion
are gone before the base is, so only one uploaded since can be left.  The check at
start-up (`verifyConsistency`) compares totals over all documents; that they differ
only if the counts of some document do is `VerifiedUncut`, with the totals counted as
sets of pairs, which are equal when no document has lost a chunk.

*Memory files*, any numbers of requests, faults and restarts: an index or
facts file that is older than the files is either known to be stale or will be
rebuilt by a request still under way.  `RebuildInv` says it without a case per
request: if no request is `Dirty`, what the holder of the mutex has read is what is
on disk.  *Recall*: `SomethingIsFound` and `WithinRequest` are inductive with the
types alone.  *Summaries*: that clean-ups which overlap leave no more than `Keep` and
one for each job on its way is not inductive, since two jobs may have listed the same
days and the first then leaves the second nothing to remove.  `CleanupInv` states the
bound for what would be left after any set of the pending clean-ups, the empty one
included.

**PartsProofs**, seven parts which need a proof each and share nothing.

*Asynchronous calls*, any number, `AsyncConsistent`: `PlaceInv` ties `told` and the
registry to the place of a call's goroutine, which is why the end is told once
although a cancellation and a completion may both set the status; `AppendInv` says
that of two appends in progress both are on record and that one which is not has read
all that was recorded.

*Todos*, any numbers of sessions, callers and items, `PlansConsistent`: items are used
up in order and each is in one plan (`ApartInv`), so what a replan has made is counted
apart from what another makes (`WholeInv`).

*The client of a stream*, `ClientAppliesInOrder`: `FollowInv` says that its count is
at most one behind what comes next, so that a reconnect, which asks for the count plus
one, asks for nothing it has applied; the same fact makes the hole of
`client_reconnect`.

*MCP administration*: the file has the list unless a request that will write it is
under way or a write has failed (`FileInv`); without a race one request at a time
changes the list, from the list there is (`AloneInv`).

*Embedding*: there are at most as many vectors as texts were sent, and if as many, no
answer was short (`VectorsInv`), so the check of the count before the chunks are
stored is enough.

*Tables*, any numbers of sessions and messages, `TablesConsistent`.  A session has one
place in the list (`ListedInv`), a row is of the session its message is written in and
holds the last save that succeeded (`RowsInv`), and that session was created before the
first save (`OwnerInv`); an id is never given to two sessions, so a new session cannot
be the one of a message whose row went with an old one.  For the pages, `PassedInv`: whatever stands before the offset was shown
or need not be; a session that comes in or moves to the front only pushes others on,
and a deletion, which pulls them back, excuses all.  `ListChange` is the lemma on
positions in the list that all three kinds of change use.

*Hooks of a call*, any numbers of chats and files, `RecallsAreShown`, for answers that
are lists and may name a path more than once.  `PromptPlaces` says what can stand before
the messages at each place of the loop, `ReadInv` that each path read so far has become a
message or could not be read.  `FilesInv` says that a file two chats have not chosen at
once is in one place at most: chosen by one chat, in the call of one, or shown; and
`RecordedWasShown` is inductive with these.  So no two calls carry one file; within its
call it is as often as the answer named it, which `InjectedOnce` would forbid.

**ListsProofs** is about what the code sorts, filters and joins.  The library has
`FlattenSeq` by a recursion of its own, and its induction theorems cannot be used; so
the first part proves, by induction over the naturals in the form of sets of numbers,
that such a list exists (`Recursion`, `JoinsExists`), that `FlattenSeq` is it
(`FlattenIsJoin`), and the algebra of it: what a join has and in which order, that
leaving elements out commutes with joining (`OnlyFlatten`), that lists alike piece by
piece are alike when joined (`FlattenAlike`), and that the sorted list of a finite set
has each element at the place its rank says (`PlacedInOrder`).

*Search*, `SearchFindsBest`: the vector store asks its index for the best of each base
and merges them, the brute-force store ranks everything; `CandidatesSuffice` says that a
chunk among the best n of all is among the best n of its base, so both find the same.

*Assembly*, `HarnessIsWhole`: `HarnessState` says that before a whole build there is
nothing and after it all that the plugins have, whatever failed before; that hooks run in
order is the rank lemma for the order by priority and then registration.

*History*, `HistoryIsKept`, for any number of rows, calls and steps.  A turn's rows come
about by inputs, steps that extend one assistant row, rows of older versions, and
results that reach a tool row, a part, or both; the invariant `HistoryState` says what
this leaves: an input has its text and nothing else (`InputsKept`), each call made is in
some assistant row (`CallsKept`), a tool row is of a call that was made (`ResultsMade`)
and the only one of it (`ResultsOnce`), and a part has no output but that of its tool
row (`PartsMatch`).  Each conjunct of `HistoryConsistent` is then about two lists of
messages joined from what each row becomes.  That calls are answered at once needs no
invariant: each row becomes a list with this property (`ConvertAnswered`), and the
property is closed under joining (`JoinedAnswered`), which is why it holds at any limit.
That nothing is lost and that the client agrees with the model compare the joined lists
row by row (`SentOfRow`, `PartsOfRow`, `FlattenAlike`).

*Reply*, `ReplyIsFaithful`, for replies of any length and number of calls, any order of
deltas, reads that end anywhere and any events lost.  `ReplyKept` says that text,
reasoning and each call have exactly the pieces sent for them; `RenderKept` that what
the client shows is the list of events read, applied one after another but for those
lost; `AllInPlace` that each event, and each piece shown, is at the place of the part
it belongs to, whether that place was counted by the engine as it began a part or by
the client as it received one.  What a reload shows is then compared with it part by
part.

**ComponentsProofs** and **ComponentsDataProofs** take these results to the
specification `components` checks; the second has those of `StorageProofs` and
`ListsProofs`.  Under `part = "..."` each step of `Components` is a step of that part,
and under another one it leaves the part's variables alone (`OneAtATime`); so what is
proved of a part holds of `Components!Spec`, and eleven properties of the run are theorems:
`AsyncConsistent`, `AppliedInOrder`, `RenderingFaithful`, `KnowledgeConsistent`,
`MemoryConsistent`, `PromptConsistent`, `AssemblyConsistent`, `McpConsistent`, `TodosConsistent`,
`StoreConsistent` and `HistoryConsistent`.  Of `RetrievalConsistent` the parts about
`Embedding` (in `PartsProofs`) and `Search` (`SearchesHold`) are proved.  `Components` and the proof modules
both instantiate the parts; a leaf that goes from one instance to the other expands the
definitions of both, and where these are large a lemma says first that the two are the
same (`SameSearches`, `SameMessages`).

Only model-checked: all liveness, with the fair half of `Log!FairSpec`, which is out
of the reach of the proof system; and of `Components` its type invariant and the conjunct of
`RetrievalConsistent` about `Chunking`, which cuts a document by a recursion over the
levels of separators: TLC evaluates it for all inputs within the bounds.

## Not modelled

The components marked so in `PROJECT.json`, for the reason given there: the
built-in tools that read files, run a subprocess or fetch a page, and the user
interface.  In the modelled ones: texts, durations, logging and tracing; the reply
of an HTTP handler beyond its kind; the parsers of HTML, PDF, front matter and
arguments; connections of MCP servers; the part locator of a chat, which only
decides whether a request for input is announced; `Pipeline.Ingest`, which the
server does not call.  Crashes of the process are modelled where something is
taken up again after one: the worker, the memory files, the summaries, the MCP
list.  For the agent loop nothing is, and the store invariants of `AgentLoop` hold
at every instant a crash could come.  A panic of a synchronous or concurrent tool
ends the process and is in this sense such a crash; one of an asynchronous tool is
recovered and modelled.
