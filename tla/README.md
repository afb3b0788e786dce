# yabot in TLA+

yabot is a webhook bot: a server receives the events of a code hosting
platform, finds out which plugins are enabled for the repository of the event
and runs them, in the process or behind an HTTP endpoint. The repository holds
two such servers: one for Gitee, written for this project (`src/gitee`), and
one for GitHub, a fork of Prow's hook (`src/prow`). This directory models both,
their plugin configuration, two plugins, the Gitee client and the help page,
checks the models with TLC and proves their safety properties with TLAPS.

To check a run: `tlc -config <cfg> <module>`, with the names of the table below.
To check the proofs of a module: `tlapm <Module>Proofs.tla`; those about
`ConfigAgent` and about `PluginOptions` are together in `ConfigurationProofs`.

## The system

| Component | State | Operations | What makes it hard |
|---|---|---|---|
| gitee hook server (`gitee/hook/server.go`) | none of its own | `ServeHTTP`, `demuxEvent`, `GracefulShutdown` | every request is answered before it is handled |
| gitee dispatcher (`gitee/plugins/dispatcher.go`) | a `WaitGroup` | `Dispatch`, four event handlers, `dispatchExternal`, `dispatch`/`do`, `Wait` | one goroutine per event, per plugin and per post, started from one another and counted for the shutdown |
| gitee configuration agent (`gitee/plugins/config-agent.go`, `config.go`) | the configuration in force, registered builders and helpers | `Load`, `Start` with a ticker, `Config`, look-ups | the file changes while it is read and while plugins use what was read; loads with and without plugin checks |
| gitee registry (`gitee/plugins/plugins.go`) | handlers by event and plugin | registration before serving | none: written once |
| gitee hook process (`gitee/cmd/hook`) | its phase | start-up order, interrupt handler | the order of load, registration, second load; interrupt while requests arrive |
| cla plugin (`gitee/plugins/cla/cla.go`) | two labels and a comment on Gitee | handlers of pull requests and of `/check-cla` | decides on labels as old as the event, in several calls that may fail, beside other deliveries |
| cla configuration (`gitee/plugins/cla/config.go`) | none | `CLAFor` | which of several entries wins |
| gitee API client (`gitee/gitee/client.go`) | the cached bot name | paged reads, label and comment calls | one account for all handlers, fetched behind a double-checked lock; lists that change between pages |
| gitee webhook validation (`gitee/gitee/webhooks.go`) | none | header and token checks | - |
| prow hook server (`prow/hook/server.go`, `events.go`) | a `WaitGroup` | `ServeHTTP`, `demuxEvent`, seven event handlers, the generic comment, `demuxExternal`, `GracefulShutdown` | an event has two fan-outs, each from the configuration of its own moment |
| prow plugin agent and registry (`prow/plugins/plugins.go`) | the configuration in force | `Load`, `Start`, handler look-ups, `NewAgent` | read three times for one event while it is replaced |
| prow plugin configuration (`prow/plugins/config.go`) | none | option look-ups, defaults, validation, the Bugzilla cascade | which entry wins: repository, organisation, branch, wildcard; every option in an old and a new form |
| prow hook process (`prow/cmd/hook`) | its phase | start-up, interrupt handler | as for gitee |
| lgtm plugin (`prow/plugins/lgtm/lgtm.go`) | a label and tree-hash comments on GitHub | comments, reviews, pushes | label and hash are two calls; pushes between them |
| plugin help (`prow/pluginhelp/hook/hook.go`) | a cache of each organisation's repositories | `ServeHTTP`, `orgToReposMap`, `sync` | concurrent requests, an expiring cache, failing listings, endpoints that do not answer |
| external help server (`prow/pluginhelp/externalplugins`) | none | a handler | - |
| event conversion, metrics, response texts, flags | none | conversions, counters, formatting | - |

How they interact. A delivery goes through `ServeHTTP`, which answers the
sender as soon as the request is validated, decodes it and gives the event to a
goroutine of its own. That
goroutine asks the configuration agent which plugins the repository has, and
starts one goroutine for each, which calls the plugin. Independently the
payload is posted to the external plugins of the repository. The configuration
agent replaces its configuration from a ticker under a lock; every reader gets
a pointer to one configuration, which is never changed in place. At the
interrupt, the handler calls `GracefulShutdown`, which waits on the wait group,
then removes the git clones the plugins work in; concurrently the listener is
closed. Plugins share nothing in the process: they meet in the labels and
comments of a pull request, on the platform.

What makes each part correct is stated as properties in the modules; the
hazards they are aimed at are listed, with their lines, in `PROJECT.json`.

## Modules

| Module | Models | State and actions |
|---|---|---|
| `GracefulService` | what `GracefulShutdown` promises (abstract) | jobs are accepted and finished; after the interrupt the service stops only when the jobs accepted by then are finished |
| `Dispatcher` | gitee server, dispatcher, interrupt handler | `req` and `payload` follow `ServeHTTP`; `handler`, `todo` an event goroutine; `running`, `finished` the plugin goroutines; `extTodo`, `posting` `dispatchExternal` and its posts; `counter`, `shutdown` the wait group, its waiter and the rest of the interrupt handler. `ServeHTTP`, `Dispatch`, `DispatchToExternal` are three steps of one request, `StartLoop`, `SpawnPlugin`, `EndLoop` those of its event goroutine |
| `ExternalPost` | `dispatch` and `do`, the same code in both servers | the posts of a process: attempts, the request's body, what the endpoint got; and the transport of `net/http` under them (external), which keeps connections (`idle`) for all posts and rewinds a body (`rewound`) when a kept connection turns out to be unusable. `NewRequest`, `Answer`, `Failed`, `Wake` are `dispatch` and `do`, the rest is `ec.Do` |
| `ConfigAgent` | `Load`, `Start`, the checks of `load` and `Validate`, start-up | the file and its versions; a `Load` reads in one step and decides in another (`Read`, `Finish`); `main` is the start-up |
| `Cla` | both handlers of the cla plugin | the labels of one pull request, the author's signature, and people who withdraw it or change a label; each delivery is a handler that makes its calls one by one |
| `Lgtm` | the handlers of the lgtm plugin | label, head, tree-hash comments of one pull request; each delivery a handler as above |
| `ProwServer` | prow's server, its event handlers, the agent's look-ups, interrupt handler | as `Dispatcher`, with `event` going through a second loop for the generic comment, `History` the configurations in the order they are loaded, and `run`, `agent`, `since` the versions that a handler, its agent and the request saw |
| `GiteeClient` | the Gitee client's account cache, paged reads and the calls that change what they read | `userData`, `mut` as in the code; `pc` follows `getUserData` step by step; `offset`, `got` are the loop of a paged read, one turn of it is one step; `items` are the lists on Gitee |
| `BugzillaOptions` | the Bugzilla section: resolving, matching, updating | operators without state |
| `PluginOptions` | the configuration file under edits, and the look-ups, defaults and checks on it | the file is the state (`FileInit`), an edit an action (`Edit`); `LgtmFor`, `TriggerFor`, `DcoFor`, `CLAFor`, `validate...` are operators on it |
| `PluginHelp` | the help page | the `orgAgent`'s fields, its mutex, `todo` and `found` of a running `sync`, the requests with the map they got, the goroutines they started (`asking`) and the channel these send to (`room`, its capacity, and `left`, the answers that stay in it); a clock |

`MCDispatcher`, `MCExternalPost`, `MCConfigAgent`, `MCLgtm`, `MCProwServer`, `MCPluginHelp`,
`MCGiteeClient`, `MCPluginOptions` give constants their values.
`DispatcherProofs`, `ExternalPostProofs`, `ConfigurationProofs`, `ClaProofs`,
`LgtmProofs`, `ProwServerProofs`, `PluginHelpProofs`, `GiteeClientProofs` hold
the theorems. `Dispatcher` and `ProwServer` refine `GracefulService`;
`PluginOptions` extends `BugzillaOptions`.

Abstractions that hold everywhere. Logging, metrics and texts are left out. A
payload is a record of what the code distinguishes: whether it is valid and
parses, its type, its action, the names of its repository. A configuration is
the two maps the look-ups read. A call to the platform that changes something
is one step; it may fail before or after its effect, and the handler cannot
tell which. Goroutines interleave at every read or write of shared state, every
channel or wait-group operation and every call. In `BugzillaOptions` one option
stands for each group that the code treats alike: `isOpen` for the four that are
plainly overridden, `validStates` and `statuses` also for those of dependent
bugs, `stateAfter` and `statusAfter` for those after validation and after merge;
a pointer is a set with at most one element.

Definitions whose comment begins with "Mutant:" are variations of an action
that the model does not use. They stand beside the action to show which slip of
the code each property would notice.

## Runs

| Run | Module and bounds | Question and answer |
|---|---|---|
| `Dispatcher_service` | two requests, five payloads, two configurations with three plugins and two external plugins | Does the wait group count exactly what runs, do the plugins of an event come from one configuration, does an interrupted process end, is every request handled completely, does the dispatcher refine `GracefulService`? Yes |
| `Dispatcher_externals_lost` | one request | Are external plugins served before the process ends? No, see findings |
| `ExternalPost_retry` | three posts to one endpoint, three attempts each, two kept connections | Is an event delivered at most once per attempt, is "dispatched" true, does a post end? Yes; and what was read once is delivered by a retry, a second time perhaps, only over a connection that another post has left (`LateDeliveryNeedsAnother`) |
| `ConfigAgent_safety` | five file contents, three writes | Is what serves always valid, does it never go back, does a good file take effect after bad ones? Yes |
| `ConfigAgent_endpoint` | the same | Does an external plugin in force have an endpoint? Not always, see findings |
| `Cla_labels` | three deliveries, one signature withdrawn or one label changed by hand | Is the yes label earned, is it taken away only with cause, does a check repair what races, failures and people left, does a signed author get it? Yes |
| `Lgtm_label` | three deliveries, two trees, two users, four option sets | Does the label vouch for the head, do pushes and requests settle, is a push noticed? Yes, where nothing races or fails as each property says |
| `Lgtm_squash` | the same, one option set | Does a squash keep the label? Not always, see findings |
| `ProwServer_events` | one request of six payloads, three configurations | As for the dispatcher; and do both fan-outs and the agents see configurations in order? Yes |
| `PluginHelp_page` | two requests, two organisations, two configurations, two external plugins of which one never answers, a period of one unit, a clock to three | Is what a page misses young, are listings spared, does a page agree with what its plugins were asked, is it served, do goroutines that answer late end? Yes |
| `GiteeClient_calls` | three callers in five mixtures of calls, pages of two items, lists of up to four, two changes by others | Do all handlers take one account for the bot, does a paged read return what it must, once, does every call end? Yes; a removal may make a read miss an item and an item added at the front may repeat one, and nothing else does |
| `PluginOptions_file` | one organisation with two repositories, three edits of one of five sections | Does every file that is accepted mean what it says: one writer per key, one post per external plugin, the Bugzilla option of the documented cascade, no branch hidden that differs, no entry that takes over another's repository? Yes, outside the cases that `NamedBothWays`, `Excluded` and `NoStateRepeated` name (see below) |

Why the bounds are enough. The fan-outs are symmetric in plugins and posts:
two plugins and two posts give every order of start and end, and two requests
every interleaving of two counted goroutines with the shutdown. `ProwServer`
has one request because its comment fan-out already makes several goroutines
that start late; more than one request is covered by the proofs, and by
`Dispatcher_service` for the wait group that both servers share. Three
configurations let the two fan-outs and an agent see three different ones.
Three writes are enough for a broken file between two good ones. Three
deliveries are two that race and one that repairs, or an approval, a push and a
cancel; one withdrawal or one label changed by hand puts each handler beside such a
change, and the proofs cover any number. Three posts to one endpoint are one that
retries and two whose connections it finds; three attempts are one that breaks, one
that has a connection and one that has none. Two requests for the help page meet at the mutex, and with a period and
a sync of one unit a clock to three contains a listing, a birth, an expiry and
the next listing. Three callers of `BotName` are one that fetches, one that waits
for the lock and one that comes late; three callers of a list are one that reads,
one that adds and one that removes, and four items on pages of two make a full
last page and one change on each side of a page boundary; more of each is covered
by the proofs. With three edits, an organisation and its two repositories can each
have an entry in every order, two files can meet in a key in every pair of forms,
and a Bugzilla option can be said at all three levels, or at two with an
`exclude_defaults` between them.

Bounds by name: `MaxEdits` (edits of a section of the file), `MaxItems` and
`MaxChanges` (items of a list at first, changes by others), `MaxWrites` (writes of the configuration file), `History`
(number of configurations), `MaxTime` and `MaxSync` (clock and length of a
sync), `Delivery`, `Request`, `Post` (numbers of actors), `MaxMeddling` (signatures withdrawn
and labels changed by hand). `MaxRetries` is 5 in the code and 3 in the run, `MaxIdle`
is 2 as in `http.DefaultTransport`; the theorems hold for any.

`CHECK_DEADLOCK FALSE` stands where a system may really stop: in `ConfigAgent`
when the file is no longer written or the process refused to start, in `Cla`,
`Lgtm`, `PluginHelp` and `GiteeClient` when all deliveries, requests and calls are
done, in `PluginOptions` after the last edit. The two
servers end in a terminal state of their process, which stutters explicitly.

## Fairness

Liveness is checked under weak fairness of the steps of goroutines that were
started: the Go scheduler runs a goroutine that can run. For the servers this
holds only while the process is up (`Up(A)`). It assumes that plugin handlers
and posts return, which is what `GracefulShutdown` relies on as well; the grace
period (`GraceExpired`), which ends the process otherwise, may fall at any time
and is not needed to end it. Requests, interrupts, reloads, writes, signatures and
their withdrawal, pushes and new repositories need not happen. In `ExternalPost` an
endpoint that has a connection answers or breaks it: the client has no timeout of its
own, so that this is an assumption on the endpoints. In `ConfigAgent`, ticks arrive and
a `Load` ends. In `PluginHelp`, GitHub and the endpoints that are not in
`Silent` answer or fail, and Go's mutex does not starve a request (every
request takes it once, so weak fairness is enough). In `GiteeClient`, a step of a
caller that can be made is made and Gitee answers or the connection breaks; a
caller takes the mutex at most once, and it is released within two steps.
`PluginOptions` has no liveness.

## Proofs

All theorems are about the specification without fairness and for every value
of the constants that satisfies the module's named assumption (types of the
constants; `MaxRetries` positive; a non-empty history). The type invariant
`TypeOK` of every module with proofs is a theorem there (`TypeCorrect`), and so is
`CleanAfterHandlers` of both servers; the runs do not check them again.

- `DispatcherProofs`, `ProwServerProofs`. That the cache is removed only after
  the handlers (`CleanIsSafe`) is not inductive. The counter being zero says
  that nothing runs only because it is exact (`Counting`); it stays exact only
  if what is started did not already run and a goroutine is started by one that
  is itself counted (`Origins`); and the requests owed at the interrupt had been
  started (`Owing`). `IInv` is the conjunction with `TypeOK`. From it follow
  `CounterCorrect`, `CleanIsSafe`, and the refinements `DispatcherIsGraceful`
  and `ServerIsGraceful`. `FanOutIsASnapshot` and `SnapshotsAreOrdered` use a
  second invariant that ties what is running and to be started to one version.
  `PanicIsLate`, in both, is about the panic of finding 1's goroutine (see below): the
  wait is released by the `Done` that brings the exact counter to zero, what was
  handled then stays handled (`Released`), so a panic cuts off no handler that the
  interrupt waited for.
- `GiteeClientProofs`. One account: a caller that fetches holds the lock and finds
  the cache empty (`HolderIsAlone`, `FetchIsNeeded`), and every answer equals the
  cache (`AnswerIsCached`). It assumes `PublishesWhole`, see below. For a read,
  the items it began with are in hand or still ahead of its offset
  (`InHandOrAhead`), which an addition at either end keeps and a removal breaks;
  that nothing is repeated is the dual (`OnceOnly`): what is in hand is not ahead.
  `PageSplits`, `FrontFacts` and `RemoveFacts` are the facts about sequences.
- `LgtmProofs`. `CalmVouches`: with no overlap, at most one handler is active, and
  what it knows is current (`Calmness`), call by call. `PushesAreSettled` and
  `RequestsAreSettled` are about a single calm handler among racing others, so
  their invariant `AloneInv` says only of active handlers that were not disturbed
  that the pull request is as they left it (`Undisturbed`).
- `ExternalPostProofs`. What was received is bounded by the attempts that failed and the
  answer (`PostInv`, `AnswerOf`); a post with a body of its own has been on a kept
  connection, and a connection is kept, or was, only if a post to the endpoint was
  answered (`KeptInv`). From these `DeliveredOncePerAttempt`, `DispatchedIsReceived` and
  `LateDeliveryHasAnother`.
- `ConfigurationProofs`, about the agent. `ServingIsValid` rests on the order of the
  start-up (`Registered`) and on there being at most one `Load` (`OneLoad`);
  `ConfigNeverGoesBack` on the ages of what is read, in flight and on disk
  (`Ages`).
- `ConfigurationProofs`, about the file. The inductive invariant is `FileOK`: the
  type of every section after any number of edits. It is what makes lists
  sequences, which the look-ups take for granted.
  `EntriesKeepTheirEffect`: the positions that an insertion shifts (`Shift`) keep
  their order, so the first and the last of some entries stay the same entries
  (`EndsAreShifted`, `ForShifted`).
  `ExternalsPostedOnce`: a list repeats nothing exactly if it has as many names as
  positions; for two lists that share no name the numbers add up.
  `WritersAreUnique`: every place the file names, in either form and after the
  defaults, is one that the check compares (`SpaceIsPlace`), and two files that write to the same place
  without naming its namespace both ways name it the same way.
  `SpecificDecides`: level by level (`LevelValue`), from what resolving an item over
  another does to one option (`ResolvedValue`, `ResolvedItem`).
  `OmittedIsWildcard`: lists that repeat nothing and match have the same
  elements, again by counting (`MatchingIsSame`); lists merged from states and
  statuses repeat nothing (`MergedIsTidy`), and branches that no level names have
  the options of the wildcard (`UnnamedIsWildcard`).
  `UpdatesReachTheState` compares a bug and its update field by field.
  The assumption `OptionsAssumption` gives the types of what may be said in the
  file; it says of strings only that `"http://"` before a name is not empty.
- `ClaProofs`. Whatever claims that the CLA is signed was true when it was
  learned, and a signature is not taken back unless one was withdrawn (`SeenIsSigned`,
  `FoundIsSigned`, `SeenIsFound`). `CalmExcludes` and `ChecksRepair` follow the calls of a handler
  that nothing disturbs (`Calmness`, `Undisturbed`) like those of lgtm.
- `PluginHelpProofs`. The age of what a listing misses is bounded relative to
  the start of the sync while it runs (`Syncing`), relative to `nextSync` in the
  cache (`Cached`), and relative to a request once it has its map (`Listed`).
  `NewReposAreFound` is the detection limit of an hour, made precise: it counts
  from the end of the sync, and an organisation whose last listing failed is
  exempt. `PagesAreConsistent` relates the page to what plugins were asked. `ResultsFit` says why
  a late answer never blocks: answers in the channel and goroutines that have yet to
  send are together at most its capacity (`Room`).
  `TokensSpared` counts listings in whole periods. A sync lists an organisation once
  and the cache it leaves lasts into the next period; within a period only a request
  with a newer configuration syncs again. So the periods that have begun and the
  version of the cache allow a budget of calls, and `Counted` says that it is kept:
  before the first sync, while the cache is filled, and during a sync, where what is
  still to be listed has a call left. The quotient in the property is then bounded by
  the number of periods (`Periods`, `Budgets`).

Every safety invariant and action property that a passing run checks is a theorem.
Only model-checked is liveness, which needs `ENABLED` and fairness, beyond the
prover: `InterruptEnds`, `RequestCompletes` of both servers, `PostEnds`,
`GoodFileTakesEffect`, `SignedGetsYes`, `PushIsNoticed`, `PageIsServed`,
`LateAnswersEnd` and `CallsEnd`. The refinements are proved for the safety
specification of `GracefulService`, which is all it says.
`ExternalsHandledBeforeStop`, `SquashKeepsLgtm` and `ExternalsAddressed` do not
hold.

`PublishesWhole`. `BotName` reads `userData` without the lock that its filling
holds, which Go's memory model calls a data race: a caller may see the pointer
before what it points to. The runs take builds where it does not (`TRUE`: the
usual one, on processors that keep stores in order). With `FALSE` the model lets
such a caller get an empty name, and `OneIdentity` fails; the theorem names the
assumption, and the lists do not depend on it.

## Findings

1. External posts are started from a goroutine that the wait group does not
   count (`dispatcher.go:153`, `prow/hook/server.go:158`). An event answered
   before the interrupt may never be posted (`Dispatcher_externals_lost`).
2. lgtm adds its label before it stores the tree hash: a squash pushed in
   between takes the label away (`Lgtm_squash`).
3. The gitee configuration documents a default for the endpoint of an external
   plugin (`gitee/plugins/config.go:60-61`) that no code sets: without one, the
   plugin is accepted and posted to an empty URL (`ConfigAgent_endpoint`).

Noted while modelling, without a run of its own:

- The goroutine of finding 1 calls `Add` while the shutdown waits
  (`dispatcher.go:185`); in the window between the release of `Wait` and its
  return this panics and the clones stay. `Wake` models it, and the refinement
  counts such a process as not stopped.
- `/check-cla` removes only the labels its event carries (`cla.go:100`): beside
  the handler of the opening both labels may stay although no call failed. A later
  check repairs it (`CheckRepairs`); `CalmIsExclusive` is therefore about handlers
  that do not overlap.
- An organisation that could not be listed is handed to external plugins, but not
  to normal ones, as if it were a repository (`pluginhelp/hook/hook.go:238-261`,
  visible in `externalRepos`).
- A doc and the code diverge on `exclude_defaults`. `prow/plugins/config.go:1266` says:
  "ExcludeDefaults excludes defaults from more generic Bugzilla configurations." But
  `OptionsForItem` returns options from which resolving has dropped the flag
  (`config.go:1419-1551`), so that on a branch it cuts off the wildcard of its own level
  only, and on a wildcard nothing: an organisation or a repository that excludes the
  defaults has them all the same. `MostSpecificDecides` compares with the documented
  cascade and exempts exactly those cases (`Excluded`); without the exemption it fails.
- The namespace of the ProwJobs. `config.go:405-406` says that a config map without a
  namespace goes to that of the ProwJobs, which the check of the config updater does
  not know: it accepts a file without a namespace beside one that names that namespace
  (`config.go:972-998`), and both write the same key. `OneWriterPerKey` exempts two such
  files (`NamedBothWays`); without the exemption it fails.
- A post may arrive twice. All attempts share a request (`dispatcher.go:200`, `:227`).
  When an attempt breaks after the endpoint has read the payload, a retry on a new
  connection has nothing left to send and fails; but on a connection kept from another
  post the transport of `net/http` rewinds the body and sends it again. Whether a retry
  helps, and whether the endpoint gets the payload again, therefore depends on other posts.
- lgtm stores the tree of the head at the moment it asks for it (`lgtm.go:338`), so that a
  push between a comment and that call is vouched for; `CalmLabelVouches` is about
  handlers that no push disturbs.
- `matches` (`config.go:1361`) does not compare dependent releases, and
  `statesMatch` takes two lists of one length as equal when the second contains the first,
  so that a list that repeats a state matches one with another state more:
  `OmittedAsWildcard` exempts dependent releases and lists that repeat a state
  (`NoStateRepeated`); the run has such lists, and without the hypothesis it fails.
- For several entries of an organisation, the cla plugin takes the last
  (`cla/config.go:34`) and lgtm the first. `TriggerFor` lets an organisation's
  entry win over a later one of the repository.
- Plugins repeated within one list are not looked for
  (`prow/plugins/config.go:917-958`): `PostedOnce` is about lists without
  repetition.

## Not modelled

- Of `prow/plugins/config.go`: `ApproveFor` (its look-up is that of `LgtmFor`, the
  rest are flags with a deprecated twin), `RequireMatchingLabel`, `Size`,
  `Blunderbuss`, `ProjectManager` and other sections that are read as they stand
  and checked field by field; help texts; `warnDeprecated`, on which only a log
  line depends. The plugins these sections belong to, Bugzilla too, are not in
  the repository: what the options do there is out of the model.
- Of the gitee configuration: `MDYAMLEnabled`, `SkipCollaborators`,
  `EnabledReposForPlugin`: membership in a list or a map.
- Of the Gitee client: calls that make one request, keep nothing and touch no list
  that another call reads (`GetRef`, `IsMember`, `MergePR`, the calls for issues).
  What they do with a response after an error is decided in the SDK, which is not
  in the repository. The filters and fields of lists; that a list may be sorted anew after an edit.
- `plugins/util.go`: conversion of payloads. Only the action of a pull request
  decides something; it is the `kind` of an event in `Cla`. `webhooks.go`: a chain
  of header checks whose verdict is a field of a payload. Flags, metrics,
  `respond.go`, the external help server: formatting without state.
- Within modelled parts: health and metrics servers, secrets, building of
  clients, the help texts of plugins, repositories that are deleted, what a post
  carries, redirects and HTTP/2 under a post, the content of the comments of cla.
- Two definitions do in one step what the code does in several, with the same result:
  `Resolve` of `BugzillaOptions` takes an option of the item if it has one and else of
  its parent, for the option-by-option statements of `config.go:1422-1542`; `sourceKeys`
  of `Dispatcher` and `ProwServer` gives the keys under which external plugins are found,
  for the comparison of parts of the repository's full name.

What is left is formatting, flags, single requests and membership tests: a model
of it would restate it. The composition of `ConfigAgent` with `Dispatcher` is left
to `Reload`, which takes any configuration that is ever loaded and so includes
every behaviour of the two together.

## How it was built

Dispatcher with its abstract service; posts; configuration agent; cla; lgtm;
prow's server; the help page; then the Gitee client, the configuration file and
the proofs about lgtm and the file. A run answers one question about one module: what a
theorem establishes for every instance is dropped from the run where TLC would
only repeat it, and a run that another makes superfluous is dropped for it.
