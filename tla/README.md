# A formal model of joyjoy

joyjoy is a chat agent: a FastAPI backend (`src/backend/app`) that runs a
LangGraph agent with tools in a sandbox, and a React page (`src/frontend/src`)
that shows the conversation, streams the events of a run, asks the user to
approve gated tool calls, and edits everything the agent works with.  This
directory holds TLA+ modules of both, the TLC configurations that check them,
and proofs checked by TLAPS.

Paths below are relative to `src/`; `runs.py` is `backend/app/agent/runs.py`,
`agent.py` and `agent_common.py` are its neighbours, and the runtime is
`frontend/src/runtime/JoyjoyRuntimeProvider.tsx`.

## The system

| Component | State | Operations | Talks to |
|---|---|---|---|
| Run driver (`runs.py`) | `_RUNS`: per run its queue, pending approval futures, cancel flag, queues of tool-call ids | `start_run`, `_drive`, `event_stream`, `respond_approval`, `cancel_run` | the graph (`astream`), the routes, the session registry |
| Runs API (`routes/runs.py`) | none | create, events, approvals, cancel | the run driver, the page |
| Chat runtime (the page) | the active turn's handle, approval cards, auto-approve, messages, `loadSeq` | `runTurn`, `respond`, Stop, send, regenerate, edit, change of thread | the runs API, the registry |
| Session registry (`stores/sessions.py`) | rows per thread: title, pin, auto-approve, telemetry | record, rename, pin, import, delete | the run driver, the checkpointer, the sidebar |
| Agent factory (`agent.py`) | a lock per xAI model | `resolve_model`, `_get_or_build`, `build_model_for`, model CRUD, probe | the caches, the database, providers |
| Caches (`agent_common.py`) | LRU of compiled agents, LRU with TTL of per-user inputs | get, put, `invalidate_user_cache` | the agent factory and every editor of settings |
| xAI login (`xai_oauth.py`) | none; the tokens are in `UserModel.settings` | device code, refresh | auth.x.ai |
| Sandbox pool (`sandbox/`) | warm containers by user, noted Linux users of threads | acquire, renew, pause, reap, cap, shutdown, bootstrap and deletion of a thread | the sandbox service, tool execution |
| Memory and skills (`stores/memory_store.py`, `skills_store.py`, `dbfs.py`) | rows per user | the agent's file tools, the editors of the page | the caches |
| Accounts (`stores/users.py`, `routes/auth.py`) | users, tokens, one reset code per user | register, sign in and out, reset | the sign-in page |
| MCP runtime (`stores/mcp_runtime.py`) | servers per user, connections | list, save, switch, delete, load the tools | the caches, the MCP panel |
| User settings (`stores/usersettings.py`) | one document per user | get, put | `prefs.ts`, `PrefsSync` |
| Workspace files (`workspace/`) | directories on the sandbox volume | tree, read, write, create, rename, delete, upload | the dock, the composer, media |
| Views of the page | query cache, drafts, picks, folds | one editor or panel each | the routes of the rows above |
| Database layer (`db/`) | engine, seed | transactions, encryption | everything in `stores/` |

Three kinds of concurrency meet here.  The backend is one asyncio loop, so what
interleaves are the stretches of code between two awaits that really suspend.
The page is single-threaded too, but its HTTP requests are in flight for any
time, overtake each other and fail, while the user goes on clicking.  Tools,
model calls, containers and xAI run outside and answer when they like.

What makes each component correct:

* **Run driver.**  A gated tool call takes effect only if the user approved that
  very call; a stream ends, once, after one terminal event; answers and cancels
  reach a run that waits, and a cancelled run ends and does nothing more.
* **Chat runtime.**  Every approval of a live turn can be answered on the page,
  on the card of its own call; a turn is shown as over only when its run is over;
  the messages of the page are those of its thread, and at rest those the agent
  has; a deleted conversation stays deleted.
* **Caches.**  An edit takes effect on the next call; the bounds hold and a hot
  agent is not evicted.
* **xAI login.**  The one refresh token that works is spent once and stored.
* **Sandbox pool.**  One container per user, the cap holds, none is left running
  unnoticed; a command runs as the Linux user of its thread, and that user owns
  the thread's directory and no other.
* **Views.**  A draft is saved under the name it was typed for; what is shown
  when nothing is under way is what the server holds; what belongs to one chat,
  account or model does not reach another; what the run asks stays in reach.

## The modules

| Module | Of what | Code it stands for |
|---|---|---|
| `AgentGraph` | what the driver may see of the graph (external library) | `runs.py` 172-249 reads it |
| `RunDriver` | one run: `_drive`, its queue, `respond_approval`, `cancel_run`, `event_stream` | `runs.py` 41-386 |
| `RunContract` | the promise of a run to its user; `RunDriver` implements it | |
| `ChatTurn` | one turn of the page in front of one run; extends `RunDriver` | runtime 116-712 |
| `ThreadHistory` | a conversation on the page, in the checkpoint and in the registry | runtime 541-743, `runs.py` 112-145, `sessions.py` |
| `AgentCache` | both caches, the requests that fill them and the edits that invalidate | `agent_common.py`, `agent.py` 589-678 and 1157-1231 |
| `XaiOauth` | refresh of one login's rotating tokens | `agent.py` 186-251, `xai_oauth.py` |
| `SandboxEntry` | what the pool promises one user | |
| `SandboxPool` | `_POOL` under `_LOCK`: acquire, cap, reaper, shutdown; implements `SandboxEntry` per user | `sandbox.py` 131-252 |
| `SandboxUsers` | one user's threads: Linux users, directories, commands, deletions; extends `SandboxEntry` | `sandbox.py` 273-346, `sandbox_backend.py` |
| `Preferences` | the settings document and its writers | `api/prefs.ts`, `PrefsSync.tsx`, `usersettings.py` |
| `SessionList` | the sidebar, auto-approve of the open chat | `store/chat.ts`, `PrefsSync.tsx`, `stores/sessions.py` |
| `SignIn` | modes of the sign-in page, name check, session, logout | `AuthPage.tsx`, `RequireAuth.tsx`, `ProfilePane.tsx`, `routes/auth.py` |
| `MemoryFiles` | AGENTS.md and memories with their editor | `MemoryPanel.tsx`, `FileEditor.tsx`, `memory_store.py` |
| `SkillFiles` | skills, their files, form, import and editor | `SkillsPanel.tsx`, `SkillWorkspace.tsx`, `skills_store.py` |
| `McpServers` | the list of servers and its dialog | `McpPanel.tsx`, `mcp_runtime.py` 171-307 |
| `ProviderSetup` | adding models: provider, key or device login, list, selection | `ProvidersPanel.tsx`, `xai_oauth.py` 79-113 |
| `ModelList` | the user's models: edit, test, delete | `ProvidersPanel.tsx` 285-866, `agent.py` 711-1395 |
| `WorkspaceDock` | tree and file view beside the chat | `WorkspaceDock.tsx`, `api/workspace.ts`, `routes/workspace.py` |
| `Transcript` | parts, groups and cards of an answer | `thread.tsx`, `tool-fallback.tsx`, `store/chat.ts` |
| `Composer` | draft, attachments, model and effort, usage badge | `workspaceAttachment.ts`, `model-selector.tsx`, `turn-info.tsx` |
| `MediaParts` | a file shown in a streaming answer | `lib/media.ts`, `MediaPart`, `useMediaReady` |
| `Panels` | `McpServers`, `ProviderSetup`, `ModelList`, `WorkspaceDock`, `Composer` and `MediaParts` on one page | |
| `Rendering` | line diff, lifting of MEDIA lines, which view shows a result | `lib/diff.ts`, `lib/media.ts`, `tool-uis.tsx` |
| `PageViews` | `Preferences`, `SessionList`, `SignIn`, `MemoryFiles`, `SkillFiles`, `Transcript` and `Rendering` on one page | |
| `RunProofs`, `ThreadHistoryProofs`, `AgentCacheProofs`, `XaiOauthProofs`, `SandboxPoolProofs`, `SandboxUsersProofs` | theorems about the modules of these names; `RunProofs` is about `RunDriver` and `ChatTurn` | |
| `ViewProofs`, `PageProofs` | theorems about the views of `PageViews`; about `Panels` and `PageViews` as a whole | |
| `MC*` | instances for TLC | |

### AgentGraph and RunDriver

The graph is library code, so `AgentGraph` states only what `_stream_segment`
may observe: text, a message with tool calls, an interrupt that lists the gated
calls in `tool_calls` order, tool results, the end, an exception.  `astream` is
a generator, so at most one chunk is on its way, and tools run beside each other
once launched, also after their reader stopped.  `Resends` says whether the
resumed review node may stream its reviewed AIMessage again.

`pc` is where `_drive` stands.  `log` is everything ever put on `run.queue` and
`taken` how much of it `queue.get` handed out.  `pending`, `result` and
`scheduled` are the keys of `run.pending`, the results of the futures and the
`call_soon_threadsafe` callbacks in the loop's ready queue: an approval is
accepted in one step and delivered in a later one, and a cancel may come between
them.  `announced` and `popped` are `run.recent_tool_call_ids`, a FIFO per tool
name.  `about` (the call an approval shows), `said` and `asks` are what the
properties look at.  One action is one stretch between suspensions: `ReadUpdate`
handles a whole chunk, `AskApproval` creates every future of an interrupt.

### ChatTurn

Requests and replies in flight are the set `sent`, so they are delivered in any
order; a failure of one is a fault, bounded by `MaxFaults`.  Every caller of
`respond` and `cancel` swallows the error, which is `RequestLost`.  `es`,
`stopped` and `settled` are the handle of the turn, `cards` the approvals map
keyed by tool call, `named` the fallback by tool name.  The server notices a
closed EventSource in a later step (`HangUp`), until then it goes on handing
events to nobody (`Unheard`).  React's double call of state updaters in
development is not modelled; the updaters are idempotent apart from the request
they send, and the server accepts an approval once.

### ThreadHistory

The same conversation is kept three times: `page`, `saved` (the checkpoint) and
`row` (the registry), and a run may hold a fourth copy (`run[k].held`), since the
graph works on what it read when it began.  `turn[k]` is what the closure of
`runTurn` knows.  A message is its role, its turn and its prompt; what happens
inside a turn is `ChatTurn`'s, so a turn answers once or not at all.  `net` holds
posts, replies, loads and deletions in flight.  `create_run` starts the task
first, records the session next and answers last, each in its own step; pruning
reads, then writes (`PruneReads`, `PruneWrites`), and dies if a message is gone
meanwhile; `delete_session` removes the row, then the checkpoint, and stops no
run.  `disturbed` marks threads in which a turn was cut off or sent while its
messages were loading: there the page and the checkpoint differ by intention.

### AgentCache

A version is the number of the user's edit that last changed an input.  A
request looks up model specs (twice: the route's `resolve_model` and
`_get_or_build`), then the agent, then on a miss MCP tools and again the specs
(`build_model_for`), and its run reads the skills manifest.  A lookup that hits
does not suspend and goes on in the same step; one that misses is a load in
three steps (sent, read, put), because the session is closed, or MCP servers are
started, after the rows were read.  What is built is only the versions it was
built from.  The partial result of a failing MCP server is left out.

### XaiOauth

A pair of tokens is the number of refreshes before it; `issued` is the only pair
xAI still refreshes, pairs below `aged` have an expiring access token.  `lock`
is the FIFO of an `asyncio.Lock` with its holder first.  The pair a row holds,
the pairs the cached specs hold and the one a request works with are separate,
as in the code.  A refresh may be refused, its reply may be lost after xAI
rotated, and the storing transaction may raise.  Whether the compiled agent is
found is left open, and edits of the row by the user are not modelled.

### SandboxPool and SandboxUsers

`SandboxPool` has the pool of all users.  `lock` is the FIFO of the one
`asyncio.Lock` with its holder first; `lru` is the order of `last_used` and
`idle` the entries past `sandbox_idle_minutes`, so time is only an order.  Every
request to the service is a step that may fail, and a failed creation may have
created a sandbox all the same.  `orphans` are the sandboxes that a failed call
left running: only the service's own timeout ends them (`Dies`).  The pool cannot
see how long a caller uses what it got, and neither can the model: a call ends
when it has its sandbox.  So a sandbox may be paused under a long command; the
code accepts that, and no property excludes it.  Nothing in the repository calls
`kill_session` or passes a sandbox id to resume, and both are left out.

`SandboxEntry` is the same pool as one of its users sees it: one entry, a new
sandbox only when there is none, and nothing given up becomes the entry again.
`SandboxPool` implements it (`ImplementsEntry`), and `SandboxUsers` puts the
threads of that user on top of it, which keeps its state small enough to check
every interleaving of two calls.  `passwd` is lost with a container, `owner` is
on the volume, `cache` is `_THREAD_UID`.  The bootstrap script is one step, and
reading its output another; of two scripts for the same thread at once, the
`useradd` of one may fail, which is `BootstrapRaises`.  A sandbox that is not
running lets no script run, but an acquire may still hand it out.

### The views: Panels and PageViews

Each of the thirteen view modules has its own variables (with a prefix), `Init`,
`Next` and specification, and models the routes that answer it together with the
view.  Views share no state but what each models of its part of the server, so
two of them at once would show nothing more than one.  `Panels` and `PageViews`
therefore extend several of them, and a variable (`panel`, `view`), chosen in the
initial state, says which of them moves in a behaviour.  The properties are those
of all views.  That every behaviour of `Panels` is one of each panel, and every one
of `PageViews` one of each view, are the lemmas `PanelsAreApart` and `ViewsAreApart`.

What the views have in common is translated once and in the same way:

* *react-query.*  A cached answer (`slCache`, `mmDoc`, `wdCache`...) and the fetches
  under way are separate; an invalidation asks again; a refetch is served at one
  moment and arrives at a later one.  A fetch of a query in view that is
  invalidated is cancelled, one out of view is not.
* *Mutations.*  A request is served once or is refused, and its answer arrives
  later or never.  Callbacks given to `mutate` run for the latest call only and
  while the component is mounted: requests carry the flag `live`.  Callbacks given
  to `useMutation` run always.
* *Editors.*  A draft, the name it is for, and the text last loaded are separate,
  and effects copy the text into the draft when it changes, not when the name does.

Each module's header says what it abstracts.  Some points of contact with the code:

* `Preferences`: `persistPref` fills the cache and PUTs the whole document; the
  mutation of `useUpdateUiSettings` is optimistic, rolls back and fetches again;
  `PrefsSync` applies the first answer.  A request is calm if nothing asked for
  before it can still undo it, and `uiCalm` marks the histories in which all were.
* `SessionList`: `slAuto` is the switch of the open chat, set by clicks
  (`setAutoApprove`), by the effect of `PrefsSync` and by the default; `slGranted`
  are the chats in which it was rightly on.  An answer may be lost, and a list that
  cannot be read is answered as an empty one (`NoRows`); `slUnseen` marks both.
* `SignIn`: `acTimer` is the debounce, checks are in flight untied to a name, and
  one that fails leaves the verdict or brings an empty one (`CheckFails`); `acDoubt`
  marks the histories in which the verdict proves nothing;
  `onLogout` clears the page's cache and mints a thread after the request settled.
* `MemoryFiles`, `WorkspaceDock`: the agent writes as well.  Texts are numbers, with
  a record of what each was typed for (`mmTyped`, and `skTyped` of `SkillFiles`).
* `SkillFiles`: the effect that fills the editor runs when the text of the query
  changes, so it misses a change of file with equal texts (`DraftCarried`) and a
  change that is undone before it is fetched (`Undone`); `skOdd` marks both.
* `ProviderSetup`: device codes, polls in flight and redemptions at xAI
  (`xiRedeemed`, `xiReached`) are numbered by login.
* `ModelList`: a row has its deployment, and the deployments its label and its
  reasoning flag belong to.
* `Transcript`: groups are derived from the adjacent parts; whether one is open is
  component state that a change of its first part loses; `Rerender` is the render
  with its effects.
* `Composer`: uploads go to the thread active when each starts; the picks of model
  and effort belong to the page, the run gets what `resolveModelEffort` makes of
  them.
* `Rendering`: `LineDiff` is the table of longest common subsequences as a function
  and the walk through it; `Segments` the line-by-line split of a streaming text.

## The runs

| Run | Instance | Expected |
|---|---|---|
| `run_driver` | 3 calls of a gated and an ungated tool, 1 text, 1 cancel, 1 stream; the graph may raise and may resend, the prune may fail | holds |
| `chat_turn` | 2 calls of one gated tool, 1 text, 1 fault, Stop, leaving, auto-approve | holds |
| `thread_history` | 2 threads, one with a stored turn, 4 turns, 3 acts or faults | holds |
| `history_edit` | the same | `EditsReachTheThread` violated |
| `agent_cache` | 1 user, 3 agents for 2 slots, 2 requests, 1 editor with 1 edit, 2 blob slots | holds |
| `xai_oauth` | 2 requests, 1 model, 3 refreshes, 1 failure | holds |
| `xai_shared` | 1 request at a time, 2 models of one login | `NoDeadRefresh` violated |
| `sandbox_pool` | 2 callers, 2 users, 1 warm sandbox, 3 created | holds |
| `sandbox_users` | 2 callers, 2 threads with different hashes, 2 sandboxes | holds |
| `page_views` | settings, sessions, sign-in, memory, skills, transcript, rendering | holds |
| `page_panels` | MCP servers, provider set-up, models, dock, composer, media | holds |
| `mcp_secrets` | the panel of MCP servers | `SecretsSurviveEdits` violated |

What they show.  Where a property is the conjunction of several, or of those of
several views (`PageViews`, `Panels`), its parts are named here in parentheses.

* `run_driver`.  `ApprovedBeforeExecuted`: a gated call ran only if the user
  approved the action request that showed this call.  `OneTerminalEvent` and
  `EventsAreRight` (`EventsInOrder`, `CardIsCallIfAnnouncedOnce`): the contract of
  the event stream, and that the positional pairing of approvals with call ids is
  right as long as the graph announces each call once.  `NoLostFuture`: a future
  `_drive` waits for can still be reached.  `CancelWorks` (`CancelSilences`,
  `StopBeforeResume`): what a cancel stops.  `RunsMoveOn` (`CancelEnds`,
  `AnsweredResumes`, `ServedStreamEnds`): progress.  `ImplementsContract`: the
  driver refines `RunContract`.
* `chat_turn`.  `NoHiddenApproval`: an approval a live run waits for is on a card
  or its answer is under way.  `PageTracksRun` (`ApprovedOnItsCard`,
  `SettledMeansOver`): what ran was approved on the card of that call, and a turn
  shown as over is over.  `TurnsEnd` (`TurnEnds`, `StopBeforeIdEnds`).
* `thread_history`.  `RunningIsActive`: `isRunning` follows the newest turn,
  however late older ones answer.  `PageShowsItsThread`: an older load never
  replaces a newer thread.  `HistoryIsKept` (`PromptsAgree`, `DeletedStaysDeleted`):
  at rest page and checkpoint hold the same prompts, whatever was edited and
  regenerated; what was deleted stays deleted.  `LoadsEnd`: no spinner stays.
* `agent_cache`.  `CachesOK`: the bounds and keys.  `QuietEditsTakeEffect`: an edit
  saved while the user has no request under way is seen by every later request.
  `HotAgentStays`: eviction takes the agent not used for longest.
* `xai_oauth`.  `RefreshStored`, `RotationGuarded`, `CallsEnd`: the lock with its
  second look keeps the one working token, and is left on every way out.
* `sandbox_pool`.  `PoolIsKept` (`PoolOK`, `CapHolds`): the pool and its order are
  only changed under the lock, the reaper pauses none that has left meanwhile, and
  `sandbox_max_live` holds.  `NothingForgotten`: what runs is in the pool, with the
  shutdown, or left by a failed call.  `ImplementsEntry`.  `PoolMovesOn`
  (`AcquiresEnd`, `IdleLeaves`): the lock is left on every way out, and the reaper
  gets to every idle sandbox.
* `sandbox_users`.  `RunsWhereKnown`: a command finds its user although it acquires
  twice.  `OwnDirectoryOnly`: the thread's uid owns its directory and no other.
* `page_views`.  `SavesItsOwn` (`SavesItsOwnText`, `SkillKeepsItsText`,
  `CalmWritesStored`); `ShownIsTrue` (`ChoiceShown`, `ListAgrees`,
  `PanelTellsTruth`, `CleanMeansSaved`, `TakenIsTrue`); `RenderedWhole`
  (`DiffIsMinimal`, which compares the diff with every pair of equal subsequences,
  `LinesKept`, `ResultShownOnce`); `NoBorrowedApproval`: auto-approve of one chat
  never reaches another; `NothingOfOthers`: the next user finds nothing of the one
  before; `ApprovalsInReach`: only the user puts the buttons of an approval out of
  reach; `SegmentsSettle`: as an answer streams, only its last segment changes.
* `page_panels`.  `PanelsSaveTheirOwn` (`DockSavesItsOwn`, `AddedAsFetched`);
  `PanelsShowTrue` (`DockShowsDisk`, `TestingIsAwaited`, `EffortAsShown`, `BadgeOfThread`);
  `LoginIsTaken`: a login that reached the page does not end in an error;
  `FlagIsMeasured`: a row's reasoning flag was probed with its deployment;
  `FilesAreThere`: a run told of files finds them; `MediaShown`: a file that exists
  is shown at rest, and never another one; `ClosedMeansListed`: the dialog uncovers
  a list that has what was saved.

Several of these have exceptions in their statement (`mmOdd`, `skOdd`, `wdOdd`,
`uiCalm`, `slUnseen`, `acDoubt`, `acThrown`, `xiOverlap`, `mlOverlap`, `disturbed`).
Each is a history variable that names the one way in which the code does part
from the property; the definition's comment says which, and the next two sections
say what happens then.

### Bounds

Two or three calls are enough for one batch with two gated calls, two rounds of
one call, and a gated call beside an ungated one.  Four turns let two turns of
one thread be followed by an edit of the first while another thread is opened;
three acts are a failed post, a change of thread and one more.  Two requests and
one edit are enough for a late put, since a put undoes at most the invalidations
during its load; three agents for two slots make every request evict.  Three
refreshes let a request sleep through a generation of tokens.  A cap of one with
two users makes every creation for the other user evict; two callers queue behind
each other and the reaper.  Two sandboxes and two threads let every note go stale
and every uid be probed for again.

In the views two documents, chats, models or rooms are what it takes for a draft
or an answer to reach the wrong one (three chats, so that a new one can be opened
from a new one), and two requests of a kind overtake each other; where one
mutation is allowed at a time (`MaxMemoryCalls`, `MaxSkillCalls`, `MaxDockCalls`),
fetches, the agent and the user still interleave with it.  What two or three
mutations do to one skill (`Undone`) needs a larger instance than `page_views` has
room for: `SkillFiles` alone was checked with three texts, and with two calls; the
theorem `CleanIsSaved` has no such bounds.  Diffs are of texts of
up to four lines over two different ones, answers of up to three lines.

Symmetry is used where the interchangeable values occur in no liveness property:
the requests and agents of the cache, sandboxes, gated calls, later chats, models.
The theorems below hold for every value of these bounds.

### Fairness

* The driver, the graph and the loop's callbacks: weak fairness, since asyncio
  runs what is ready and a graph step ends (limits and timeouts of the agent's
  middleware; a tool that never returns is not considered).
* The network of `ChatTurn`: weak fairness of each delivery; failures are
  separate actions, unfair and bounded.
* The user answers the cards in front of him (weak fairness of `Click`); nobody
  has to press Stop, open a stream, send a message or edit.
* `ThreadHistory`: loads are served and their answers delivered (a fetch always
  settles); nothing else.  A load may also fail, which ends it too.
* `XaiOauth`: each request gets its turn; so do, in `AgentCache`, each task, each save
  that has committed and each TTL, but no property of its run needs it.
* `SandboxPool`: the calls, the reaper and the shutdown, since the loop runs what
  is ready and a request to the service ends; nobody has to call, to shut down,
  or to let a sandbox age or die.
* The views have no liveness properties and no fairness.

`CHECK_DEADLOCK` is off in the run, chat, history, cache and page configurations:
a run that is over and read, or a user with no click left, has nothing to do.

## Where the code parts from what it says

Three runs check a statement of the code's own comments and find it violated:

* `history_edit`.  `onEdit` and `onReload` promise that the thread reflects the
  edited history.  The turns to prune are counted on the page, but a prompt whose
  POST failed stays there without ever having been stored: regenerating it prunes
  one earlier turn, which the page goes on showing.
* `xai_shared`.  Models saved together share one refresh token, but the rotated
  one is stored for the model that refreshed only.
* `mcp_secrets`.  The dialog says that secret fields start blank and are re-entered
  "to change them"; a blank field is sent as an empty configuration and erases the
  stored headers or environment.

The others are kept as definitions with a comment "does not hold"; each can be seen
by naming it in the configuration of its module, with the change given here:

* `RunDriver.StreamEnds` (`MCRunDriver.cfg`): an exception of `aupdate_state` in
  `_truncate_trailing_turns` leaves `_drive` before its `try`, so neither a
  terminal event nor `__end__` comes.
* `ChatTurn.StopEnds` (`MCChatTurn.cfg`): the page closes the stream before it posts
  the cancel; the closed stream takes the run out of `_RUNS`, the cancel then finds
  nothing, and a run that waits for approvals waits for ever.
* `ChatTurn.NoHiddenApproval` with `Resends = {TRUE}` and `MaxCalls = 4`: a review
  message that is streamed twice queues its call ids twice, later approvals are
  paired with ids of earlier calls, and two of them may end up on one card, one of
  them invisible.
* `AgentCache.EditsTakeEffect`: a load that was under way during an edit puts the
  old value into the cache after the invalidation.
* `SessionList.RefusalRemembered` (`MaxClicks = 3`): "reopening the chat remembers
  it", but a list asked for before auto-approve was switched off, or a change of
  the default, switches the open chat on again.
* `ProviderSetup.LoginSurvivesOverlap`: "a poll already in flight" was to be unable
  to spoil a login; the answer "complete" of a poll is not seen once the next poll
  was sent, and the device code is used up.
* `Composer.FilesFollow`: attached files are uploaded to "the active thread", but the
  message goes to the thread that is active when the last upload ends.
* `ModelList.LabelOfDeployment`: label "updates alongside deployment", until the
  deployment is typed over.
* `SandboxUsers.UidIsStable` with two names of one hash: the probe gives uids by
  order of use, although `_bootstrap_thread` calls the uid a pure function of the
  name.

### Behaviour worth knowing

Modelled as it is, and no document says otherwise; properties are stated so as to
except it.

* Settings: a fetch that answers after a later `persistPref` puts the old value
  back into the cache, and the next whole-document PUT stores it.  The server
  merges keys, `usersettings.ts` speaks of replacing.
* Sign-in: a failed logout is ignored; an answer about a name is shown for the name
  typed since; the answer to "forgot" switches to the reset form wherever one is;
  a 401 leaves the app without clearing what was cached.
* Memory: two overlapping saves read the same document and one is lost; the editor
  does not look at `ok: false`; text typed while a save runs is replaced.
* Skills: "Add file" with the name of an existing one empties it; two files of equal
  text share a draft; a saved text that another mutation undoes before the refetch
  stays in the editor, which calls it saved.
* Models: the verdict of a probe is stored on the row even if it was edited
  meanwhile; saving the edit of a deleted row makes it again; a change of provider
  in the dialog keeps list, selection and key.
* Dock: a creation that answers late opens its file in the chat now in view; create
  and rename overwrite what is there.
* Transcript: a second approval stays hidden in a group the user folded; cards that
  wait survive Stop; the indicator's state "waiting" is never reached; an error of
  `write_todos` is not shown.
* Composer: a failed upload loses the message; the draft follows into the next
  thread.
* Media: an invalidation during the first load of the tree is merged with it, so
  that a file written meanwhile stays "inaccessible" until the next one.
* Rendering: live results are cut at 4000 characters; a listing that begins with
  "[" is parsed as JSON and may show nothing.

## The proofs

**RunProofs** is about a run and the turn in front of it.  Of `RunDriver` it proves `TypeCorrect`, `GateHolds` (`ApprovedBeforeExecuted`),
`FuturesReachable` (`NoLostFuture`), `StreamHasOneEnd` (`OneTerminalEvent`) and
`CancelsWork` (`CancelWorks`) for any tools, bounds, streams and answers.  The gate needs the inductive
`ApprovalInv`: approval ids are fresh (`FreshIds`), the futures a round awaits
are for exactly the action requests under review, in order (`FutsAreReview`),
results, callbacks and accepted answers agree (`ApprovalsAreSaid`), in
auto-approve mode only the policy decides (`AutoIsChosen`), and what the graph
may execute was decided that way (`GraphIsApproved`).  The middle two are what
makes the positional list of decisions safe.  For the cancel, `CallsAreMade` says
that every call ever asked about is one the graph made, and `Halted` that a run
cancelled while it asked is still waiting, has yet to read a chunk its graph
streamed, or is over: from none of these does the graph reach its tools.

`ClientToldRight` (`EventsAreRight`) rests on `PairingInv`: tool events are queued
once per call and approvals after the announcement of their call, as long as no
call was announced twice (`AnnouncedLogged`, `AnnouncedInOrder`), the last message
of the graph holds the newest calls (`BatchIsLast`), and the FIFO of each gated tool
has been popped through the calls whose review is past (`PoppedThrough`), so that
its next element is the call the next action request shows.

`DriverKeepsContract` (`ImplementsContract`) is the refinement of `RunContract`, for
every value of the constants.  `ContractInv` adds to the pairing that each call is
asked about once while nothing disturbs the run (`AskedOnce`), that accepted
answers stay with their approvals up to the decisions the graph gets
(`AnswersKept`, `AnswersSaid`, `DecisionsSaid`), and that of the calls asked about
exactly the approved are executed (`EffectsAsSaid`).  Each action is then a step of
the contract or a stutter.

Of `ChatTurn` it proves `NothingHidden` (`NoHiddenApproval`) and `CardsTellTheRun`
(`PageTracksRun`) for any calls, streams, answers, cancels and orders of the network,
provided that the graph streams no review message twice (`TRUE \notin Resends`).
The hypothesis is necessary, as the entry `ChatTurn.NoHiddenApproval` of "Where the code
parts from what it says" shows; it is about the graph library, not about this
code.  `RunSteps` shows that every step of a turn is one of its run or leaves the run
alone, so the invariants of the run hold of it.  `ChatInv` adds the cards:
each is of an approval given out for its very call, as was the card of each click
(`CardsAreRight`); an answer of a run that was never put into auto-approve comes
from a click (`AnswersAreClicked`); and a turn that goes on keeps its stream and its
run's entry in `_RUNS` until the run has ended (`StreamIsHeard`).  A new card never
covers another one because its call has no result yet and was announced once
(`ReviewedAreNotDone`, `AnnouncedOnce`).

**ThreadHistoryProofs** proves `PageKnowsItsRun` (`RunningIsActive`),
`PageIsOfItsThread` (`PageShowsItsThread`), and `HistoryStays` (`HistoryIsKept`, by
`PageAndThreadAgree` and `DeletionsStay`) for any threads, turns, edits, deletions,
failures and orders of the network.  The first rests on `OnlyOne`: a turn is
unsettled only while it is the active one, so each late end of another turn finds it
settled and changes nothing.  The others rest on `HistInv`.
Of the loads in flight one is the newest, and it is of the active thread (`LoadsOK`);
what is on the page, in a checkpoint or with a run is of its own thread
(`MessagesOK`).  A turn has one request under way until the page knows its run
(`AskedOnce`), and a turn that ended in an undisturbed thread has nothing under way on
the server either (`TurnsRest`), so nothing brings a deleted thread back
(`DeletedOK`) and only the active turn's run works on the thread (`WorkerActive`).
`Phase` says by how much the page is ahead of the checkpoint at every stage of a run,
from the POST to its last event.  That the prune takes just the turns counted on the
page needs each user message to be in the checkpoint once (`SavedOnce`), and lemmas
on places in a sequence: what a prefix, a suffix and the messages that are kept hold
of the prompts (`PromptsOfPrefix`, `UsersOfSuffix`, `PromptsOfKept`, `PrunedPrompts`).
`Prompts` and what a prune keeps are written by places, because nothing is known to
the provers of a `SelectSeq` but its type.  `HistInv` was checked by TLC on the states
of `thread_history` before it was proved.

**AgentCacheProofs** proves `QuietEditsAreSeen` (`QuietEditsTakeEffect`) for any
users, agents, cache sizes, tasks and editors.  `SettledInv` says that no version
held anywhere (a blob, a load that has read, the MCP tools of a build, an agent, a
run) is older than `settled`, what was stored at the last invalidation during
which the user had no request under way.  Such an invalidation empties both caches
and finds no load, so it may raise the floor; every other step only copies
versions.
`CachesAreBounded` (`CachesOK`) and `HotAgentsStay` (`HotAgentStays`) rest on
`LruInv`: the order of a cache lists each key once (`AgentsOK`, `BlobsOK`), in the
order of last use (`UsedSince`).  So the key that is evicted is the oldest, and
`AgentMax` other keys were used after it; a key that was moved to the end keeps its
place behind all of them (`NewestStay`, `OldestIsOld`).  `Without`, a list that loses
one key, counts places instead of being a `SelectSeq`, of which the provers know
no more than the type.

**XaiOauthProofs** proves `LocksCorrect` (`LocksOK`) and `RotatesWhenNeeded`
(`NoNeedlessRotation`) for any models, requests and failures, and, for a login with
one model, `TokensAreStored` (`RefreshStored`) and `LockGuardsRotation`
(`RotationGuarded`).  `LockInv` ties the queue of each lock to where its requests
are, and gives mutual exclusion; `PairsInv` bounds every pair held by the one
issued; `StoredInv` says that the working pair is in the row or with the one
request about to store it.  The hypothesis of one model is necessary: `xai_shared`
is its counterexample.

**SandboxPoolProofs** proves `PoolStaysKept` (`PoolIsKept`), `NoneForgotten`
(`NothingForgotten`) and `PoolImplementsEntry` (`ImplementsEntry`) for any users,
callers, cap, number of sandboxes and failures of the service.  `PoolInv` ties the
queue of `_LOCK` to where every caller, the reaper and the shutdown are (`LockOK`);
says what a call with the lock has found out, no entry while it creates and one
entry too many while it enforces the cap (`CallsOK`); and that an entry is a
sandbox of its user that no failed call and no shutdown has (`ServiceOK`).
`WithoutFacts` is the lemma on the queues that lose a member in the middle.  That
the cap bounds containers, not only entries, is a surjection from the entries
(`EntriesBound`).  The refinement is proved step by step along with the invariant:
each action's lemma shows both (`Kept`).

**SandboxUsersProofs** proves `NotesAreRight` (`CachedUidExists`) and
`CommandsFindTheirUser` (`RunsWhereKnown`) for any sandboxes, threads, uids and
callers.  `UidInv` says that a sandbox the pool has given up is never the entry
again (`EntryOK`), so while the sandbox of the first acquire is kept it is also
that of the second (`SetUp`); that the pool gives just this is
`PoolImplementsEntry`.  `FreeUidIsFree` shows, by the pigeonhole theorem, that the
probe of the script ends at a uid nobody has.  With names that hash apart
(`Apart`), `NamesInv` says that every uid is the one hashed to, whence
`UidsAreStable` (`UidIsStable`) and `DirectoriesAreApart` (`OwnDirectoryOnly`).

**ViewProofs** is about the views of `PageViews`, each for any constants of its own.
It does not reach `Rendering`, whose use of `SequencesExt` takes the facts about
finite sets away from the provers.

* `SessionList`, for any chats, clicks, lost requests and late answers:
  `ApprovalIsNotBorrowed` (`NoBorrowedApproval`) and `ListTellsTheRows`
  (`ListAgrees`).  `GrantInv`: wherever a yes to auto-approve is kept for a chat, in
  its row, in a list on its way to the page or in the cache, in a run request or in a
  click, the chat is in `slGranted`; the switch is set from these, for the open chat,
  only.  `RowsInv`: until an answer is missed, the list the page has, or the one of the
  newest fetch on its way, is the rows of the server, or something under way will have
  the list fetched again (`FetchOK`, `Due`).
* `SignIn`, for any names and submissions: `NothingIsLeft` (`NothingOfOthers`) and
  `TakenMeansTaken` (`TakenIsTrue`).  `KeptInv`: unless the page was thrown out of the
  app, nothing is kept outside of it, only logouts are under way inside of it, and what
  is kept there is of the user its thread was made for, whose session the cookie still
  is or was.  `FormInv`: one form at a time is submitted.  `NameInv`: while one signs
  up and nothing is in doubt (`acDoubt`), the name typed is too short, or will be asked
  for, or one check of it is under way, or its verdict, true of the accounts, is shown.
* `MemoryFiles`, for any files, saves, switches, deletions and writes of the agent:
  `TextsStayWithFiles` (`SavesItsOwnText`) and `PanelIsTrue` (`PanelTellsTruth`).
  `MmInv`: a text that can be saved was typed for the document in view; and, until
  somebody interferes (`mmOdd`: the agent writes, a request is refused, mutations
  overlap, one types on during a save), one mutation at most is under way, a cached
  document is as stored, asked for, stale or about to be invalidated (`DocFresh`), and
  an editor which does not edit shows the cached text or the one it just saved
  (`MemoryDraftInv`).
* `Preferences`, for any settings, choices, fetches and failures: `ChoicesStayShown`
  (`ChoiceShown`) and `CalmWritesAreStored` (`CalmWritesStored`).  `PrefInv`: nothing is
  chosen before `PrefsSync` has applied the first answer; and while every write was
  calm (`CalmInv`), one at most is under way and no fetch races it, and what is cached,
  answered or sent is as chosen, and so is what the server holds or is about to, but
  where a write failed.
* `SkillFiles`, for any skills, files, mutations and refusals: `SkillTextsStay`
  (`SkillKeepsItsText`) and `CleanIsSaved` (`CleanMeansSaved`).  `SkillInv`: a text
  in the editor or in a save was typed for its skill (`DraftsOK`); unless excepted
  (`skOdd`), a cached file is as the server has it, or will be fetched again
  (`AsRead`); an editor with nothing to save shows the cached text, or a fetch is on its
  way whose text differs from the cached one, so that the effect will run
  (`DraftAsRead`); and once the save of what the editor shows was made, that text is the
  cached one or the cached one is stored no more (`SavesShown`), which the save's
  callback needs to say "saved".
* `Transcript`, for any calls, parts and answers: `ApprovalsStayInReach`
  (`ApprovalsInReach`), an action property.  `AnswerInv`: each call is a part
  once, and those of the batch are the last ones (`PartsOK`); what waits was asked in
  the batch, none of which is done yet (`AskedOK`); every group and every card of an
  open group has its fold, which knows whether something waits in it (`GroupsOK`,
  `CardsOK`).  That a call is in one group, and that a
  group with a call of the batch runs while none of the batch is done, are lemmas about
  adjacent parts (`OneGroup`, `BatchRuns`).

**PageProofs** puts views together.  Each step of `PageViews` is a step or a stutter of
each view (`ViewsStepApart`, `ViewsAreApart`), and the theorems above become
`EditorsSaveTheirOwn` (`SavesItsOwn`), `ViewsShowTheTruth` (`ShownIsTrue`) and
`ViewsKeepTheirWord` (`NoBorrowedApproval`, `NothingOfOthers`, `ApprovalsInReach`).

Of the panels it proves everything that `page_panels` checks, each for one panel and
any constants of its own, and then for `Panels`, whose steps are steps or stutters of
each panel (`StepsAreApart`, `PanelsAreApart`): `PanelsSaveWhatIsTheirs`
(`PanelsSaveTheirOwn`), `PanelsTellTheTruth` (`PanelsShowTrue`) and
`PanelsKeepTheirWord` (the rest).

* `ProviderSetup`: `LoginsAreTaken` (`LoginIsTaken`), `ModelsAddedAsFetched`.
  `LoginInv`: while polls do not overlap, one poll at most would be heard, it is of
  the code shown, and the code is only redeemed by it, so no later poll can meet the
  spent code.  `ListInv`: what is asked for, found and selected is of the provider
  chosen.
* `ModelList`: `FlagsAreMeasured` (`FlagIsMeasured`), `TestingTellsTheTest`.
  `FlagInv` adds that a probe under way knows the deployment of its row, which a save
  during the probe would break (`mlOverlap`); `TestInv` that the callbacks of one test
  live at a time, those of the model on the button.
* `WorkspaceDock`: `DockSavesTheFileShown`, `DockIsUpToDate`.  `FreshInv` says that
  once the page knows of every write, each query is right, asked for, or stale and
  out of view; an open file is therefore never stale.
* `Composer`: `FilesAreFound` (`FilesAreThere`), `ComposerShowsItsOwn`.  `UploadsInv`:
  what was uploaded for a message is in the thread it was sent in; `OpenThreadInv`:
  the one load whose answer counts is of the open thread.
* `MediaParts`: `MediaIsShown` (`MediaShown`).  `TreeInv`: the tree is as the disk, or
  asked for, or will be; `ViewInv`: the effect of a view ran for its link and its
  readiness as they are, and what it fetched came, failed, or is awaited.
* `McpServers`: `SavedIsListed` (`ClosedMeansListed`).  `SavedInv`: of mutations that
  do not overlap there is one, what it saved is in its row, and in the list once that
  was fetched after the answer.

The assumptions are those of the modules: bounds are naturals, the gated tools
are tools, `ToolOf` names a tool for each call, rejecting words are choices,
threads are finitely many and hash to positive numbers, 0 names no sandbox, the
cap is positive, callers are not named as the reaper or the shutdown, and AGENTS.md and
the form of a new memory, which the panel tells from a file by a tag of the
selection, are no files, a name of fewer than three letters is not one an account can
have, and the calls of an answer differ from the types of its other parts.

Only model-checked: liveness (it rests on fairness), and of `Rendering` the bundle
`RenderedWhole` and `SegmentsSettle`.  The diff, the split of an answer and the choice
of a view are recursion over data, whose properties need an induction the provers
cannot do; `page_views` compares them with reference definitions over all texts of
the bounds.  Every other safety property that a run checks has a theorem, but for the
three that are violated.

## Not modelled

* Text, reasoning, citations, token usage, titles and metrics of a run: data no
  property tells apart.  `set_thread_meta`, the telemetry register of a row, has
  two writers that read before they write; it is a cache of such data.
* Provider clients, catalogues, prompts, middleware configuration: parameters in
  front of libraries.
* Path confinement (`confine.py`, `workspace_sandbox.py`): a pure function of path
  texts and of the file system's links.
* A restart of the server while runs wait: nothing of a run is persisted but the
  checkpoint, and what a new run does on an interrupted checkpoint is the graph
  library's.
* The life of the reset code in the database (`users.py` 184), passwords,
  encryption, seed, engine: single transactions.
* AGENTS.md written by the agent through `dbfs.py` 131 while the user saves it is
  in `MemoryFiles` as the agent's write; the mounts themselves are not.
* `save_user_model` overwriting a token rotated meanwhile (`agent.py` 793).
* Markup, styling, about 5400 lines of translations, the registry of generated
  components, previews of documents, and components nothing mounts
  (`ReasoningGroup`, `ToolGroup`).

## What remains

1. `set_thread_meta` and the row of an xAI model edited during a refresh, as
   registers with two read-modify-write writers.
2. Path confinement as operators, checked against a reference definition over
   short paths.
3. Larger instances of `SkillFiles` beside `page_views`.
