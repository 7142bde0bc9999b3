# Verification of agora-common

TLA+ specifications of agora-common, the Go library shared by Kin's Agora
services, with TLC models that check them on small instances and TLAPS proofs
that hold for every instance. Source paths below are relative to the
repository's root (`src/` in `PROJECT.json`).

- `PROJECT.json` lists the components, the runs, the mutants that show that each
  checked property can fail, the source lines behind each definition, the
  hazards and the theorems.
- `tlc -config X.cfg M` repeats a run, `tlapm M.tla` a proof.

## The system

agora-common is a library: each package serves a service process, and the
packages meet in that process.

| Part | Source | Shared state and concurrency | Module |
|---|---|---|---|
| SQS task processor | `taskqueue/sqs` | workers, handler goroutines, callers; `runLock`, `stateLock`, `shutdownCh`; the queue at AWS | `TaskQueue`, `VisibilityTimer`, `TaskSubmitter`; abstract: `AtLeastOnce` |
| Solana RPC client | `solana/client.go`, `errors.go`, `address.go` | the blockhash cache under `blockMu`; retries and polls against a cluster | `BlockhashCache`, `SolanaSubmit`, `SolanaErrors`, `SolanaQueries`; composed: `SolanaClient` |
| Token client and account state | `solana/token/client.go`, `state.go` | none | `TokenAccount`, with `SolanaQueries` |
| Solana transactions | `solana/transaction.go`, `instruction.go`, `encoding.go`, `shortvec` | none: values built, signed, encoded, decoded | `SolanaTransaction` |
| Solana programs | `solana/system`, `solana/token`, `solana/memo` | none | `SolanaPrograms` |
| Kin transactions | `kin/transaction.go`, `kin/memo.go` | the state of the parser's loop | `KinMemo`; composed: `KinTransaction` |
| Headers, validation, Kin version | `headers`, `protobuf/validation`, `kin/version` | the maps of a context along a tree of calls | `Headers`; abstract: `HeaderPropagation` |
| Configuration | `config`, `config/wrapper`, `config/memory`, `config/env` | a cached value per config and the state of its source | `ConfigWrapper` |
| Application life cycle | `app/app.go` | two gRPC servers, shutdown channel, grace period | `AppLifecycle` |
| HTTP gateway | `httpgateway/gateway.go` | a handler and a reader goroutine per websocket | `StreamGateway` |
| The process | both of the above | | `Server` (composition) |
| Retry and backoff | `retry`, `retry/backoff` | an attempt counter; wrapping durations, rounded `float64` | `Retry`, `Backoff` |
| Metrics | `metrics` | the registry of gauges, tags in shared arrays | `Metrics` |
| Times and durations | `timeutil` | none | `TimeUtil` |
| Amounts and Friendbot | `kin/utils.go`, `kin/friendbot` | none | `Quarks` |
| The last four, configuration, `TaskSubmitter`, `VisibilityTimer` | independent of each other | | `Library` (composition), `Int64` |

How they interact: the Solana client and the services use `retry`; `app.Run` owns
the gRPC servers that the gateway forwards to, and installs the interceptors of
headers and validation on them; a transaction built with `solana` is what
`kin.ParseTransaction` receives; `SubmitTransaction` sends it and polls for its
status; the token client reads accounts through the Solana client. `Server`,
`SolanaClient`, `KinTransaction` and `Headers` are modules of parts that interact.
`Library` only puts parts side by side that do not.

### Not modelled

- Key encodings, network passphrases and Horizon clients of the old Stellar network
  (`kin/keys.go`, `kin/network`, `kin/horizon.go`, `stellar`): pure encodings, and a
  client made once.
- File loaders: a registry filled by `init` functions, then one read.
- `unaryHandler` of the gateway: one call forwarded, no state kept.
- The statsd transport, the Prometheus counters and the memory client's helpers for
  tests: output, or one line around a library.
- The HTTP request of Friendbot; its amounts are modelled.
- `IsValidMemoStrict` and the text forms of memos; `DecompileTransfer2`, nonce state
  and multisig initialisation among the decompilers: pure functions that
  `ParseTransaction` does not call.
- Webhook models, environment and network helpers, generated code, mocks and test
  helpers: data types, single expressions, or used by tests only.

## Modules and code

### Task queue

`TaskQueue` has one action for each stretch of `taskqueue/sqs/queue.go` between
two points at which another goroutine can act: `CheckShutdown`, `RLock`, the
receive and its answers, `StartHandler`, the return of the handler, the keep-alive
extension, the delete and its lost answer for a worker; `Start`, `Pause` (which
holds `stateLock` while it waits for the readers of `runLock`) and `Shutdown`
(`sync.Once`, close, `Start`, drain with timeout) for a caller; check and send for
`Submit`. SQS is external: it hides a message when it is received, shows it again
when the timeout expires, and honours the newest receipt handle only. `Crash` ends
the process with the queue intact. A handler whose `processTask` has left is kept
in `orphans`: the goroutine may still complete the task, but nobody reads its
result. Time is left out: a visibility timeout or a timer may fire at any moment.

`AtLeastOnce` says what `taskqueue/queue.go` promises: a task stays until a handler
has completed it. `ImplementsAtLeastOnce` is the refinement.

`VisibilityTimer` puts time back for one message: the keep-alive timer runs for 80%
of the configured duration, SQS counts whole seconds, and each call takes up to
`Latency`. `Timely` (`KeepAliveInterval + 3 * Latency < SqsTimeout`) is the
condition under which extension works; a timeout with a fraction of a second can
break it because of the truncation.

`TaskSubmitter` is `SubmitBatch`: the first loop marshals the messages one by one and
may end the call, the second sends them in slices.

### Solana client

`BlockhashCache` splits `GetRecentBlockhash` at its lock: read, call, write.
`SolanaSubmit` is `SubmitTransaction` with the `GetSignatureStatus` poll; the
cluster may fork and its nodes lag, fail or lose answers. `SolanaErrors` translates
`errors.go` over an abstract JSON: what `json.Number`, `float64`, strings, lists and
maps become, and which of them end in a parse error. An integer above `ExactFloat`
is rounded when it is read as a `float64`, and `JSONString` writes a text without
escapes: `Escapes` gives, for each text that needs them, what is read instead.
`SolanaQueries` has the other methods: the call with its retries, then the decoding of
the answer with every early return and with the panics on empty arrays, and the search
of `FindProgramAddress`, whose hashes are a choice.
`TokenAccount` has the layout of a token account, over cells instead of bytes, and
the checks of `GetAccount`. `SolanaClient` composes them: one operation under way,
with other goroutines at the cache.

### Transactions

`SolanaTransaction` has `NewTransaction` (merge of accounts, the order, the header,
the indexes), `Sign`, `Marshal`, `Unmarshal` and the short vector length, which is not
written above `MaxUint16`.
`SolanaPrograms` has the builders and the decompilers. `KinMemo` has the bits of the
memo. `KinTransaction` composes them: a client builds, signs and marshals, a service
unmarshals and parses; `ParseTransaction` is one step per instruction, so that TLC
explores every order of the instructions of a transaction made elsewhere; then one
step per region, and the checks after both loops as the last step.

### Headers and validation

`Headers` is a tree of calls. A name is a record of what the code looks at: prefix,
stem, whether it ends in `-bin`, whether it is in lower case. A context has the five
maps or none. `setAllHeaders` and `getAllHeaders` are the two ends of a call, with the
validation interceptors around them in the order that `app.Run` installs them; a
stream is a request and a response that are validated by its wrapper. The start of a
tree is one of the contexts that the package itself or a request can give.

`HeaderPropagation` says what the header types promise, with neither contexts nor
names nor metadata: a handler has a view of four columns; root and propagating go on
to the callee, outbound arrives as inbound, and inbound goes no further.
`ImplementsPropagation` is the refinement, through the package's own getters.

### Configuration, application and gateway

`ConfigWrapper` has `GetSafe` of the seven wrappers in three steps (ask the source
and convert, read the cache, write the cache) over the memory, environment and
no-op sources. `AppLifecycle` has `Run`, the goroutines that call `Serve`, and the
shutdown with its grace period. `StreamGateway` has `streamHandler` and its reader:
a write waits for room in the socket or for the client to leave, and `RecvMsg` fails
by itself for a message above the size limit and when the connection is lost.
`Server` is their composition: the stream of the gateway is one of the RPCs that
`GracefulStop` of the insecure server waits for.

### Retry, metrics, times and amounts

`Backoff` has the delays with two's complement arithmetic of width `Width` and
conversions to and from a `float64` with a significand of `Precision` bits: the cap and
the delay are compared as `float64`, the power is cut to an integer, and a value out of
range becomes the least integer, as on amd64. `Retry` has `Retry` and `Loop` with any
sequence of the strategies. `Metrics` has the slices of tags with their lengths and
capacities in a heap, so that `append` may write into an array that is shared, and the
registry of gauges with its poller.
`TimeUtil` and `Quarks` translate the conversions with wrapping integers; their
properties compare them with exact arithmetic on instants and amounts.

## Runs

| Run | What it shows | Bounds |
|---|---|---|
| `queue_delivery` | No message is deleted before a handler returned nil, none that `Submit` accepted disappears (`NoTaskLost`); refinement of `AtLeastOnce` | 2 workers, one good and one malformed message, 2 extensions, 1 caller, crashes |
| `queue_control` | No polling while paused, no unlock of a free mutex; `Pause` returns, `Shutdown` stops workers; an accepted task is done in the end (`AcceptedTaskDone`) | 2 workers, 2 callers, 1 task, starts paused |
| `library` | Nothing is sent if a message does not marshal; each message is sent once per call, and a failed call sent a prefix | 5 tasks, slices of 2, 2 calls |
| | Extensions and deletes arrive while the message is hidden (`CallsInTime`), no two handlers overlap | 3 workers, 12 ticks, 3 extensions |
| | A value returned with an error was not replaced for good before the call began; only converted values | 2 goroutines, 3 calls, 2 changes, all wrappers and sources |
| | Retries stop exactly when a strategy says so and sleep as documented | 3 strategies, limits 0, 1 and 3, 5 calls, 10 bits, 8 of them exact in a `float64` |
| | A record keeps its tags and a gauge is polled once per round | 2 goroutines, up to 3 tags, 2 rounds |
| | Times, durations and amounts are exact, and the cases in which they are not are spelled out | all 10-bit integers, or those at the limits |
| `quarks`, `friendbot` | Violated, see Findings | as above |
| `solana_client` | Success at `max` means rooted, at `single` confirmed (`CommitmentReached`); no failed transaction looks like a success; errors survive JSON, as far as `float64` and texts without escapes go; a hash is younger than the largest window plus one latency; a query's result says what the node answered; `GetAccount` accepts initialised accounts of its mint only; `SubmitTransaction` and the queries return | 3 tries, 4 polls, errors of every JSON shape; 3 goroutines, 6 ticks; every kind of answer |
| `solana_rejected` | Violated, see Findings | as above |
| `server` | The application is stopped after the RPCs (`AppOutlivesRPCs`), and `Run` returns, with RPCs of clients and of the gateway | both servers, 1 RPC each, a stream with 1 response |
| `gateway` | Messages in order, and a close code that is true (`StreamFaithful`); the reader and the handler end (`GatewayEnds`) | 2 requests, 3 responses, room for 2 in the socket |
| `kin_transaction` | Rights of accounts are exactly those asked for, signatures in their slots, encoding is faithful; the documented rules of `ParseTransaction` | 2 composed instructions, lengths up to 131, 4 foreign instructions |
| `rights` | Violated, see Findings | as above |
| `headers` | Refinement of `HeaderPropagation`; a service reads the version that its caller set; `GetAnyBinaryHeader` panics on empty encodings only; invalid messages stop where one end validates | 2 calls, 2 sets, 1 message name |

Why the bounds suffice to meet the interesting cases: two workers are needed for a stale
receipt handle, and one message is needed for both to hold it; the second extension is
the last, so the loop's exit is reached. Two callers are needed for `Start` or `Pause`
to wait for `stateLock`. Five tasks in slices of two give full slices and a last short
one, and shorter batches give the empty batch and the exact multiple. Ten bits make the
product of the base delay wrap around at the second attempt and become positive again at
the third, as 64 bits do after some thirty; with 8 bits that are exact, the cap 511 is
rounded to a value out of range, as `math.MaxInt64` is in Go, and the cap 50 is small
enough for the documented delays. Two and three tags are in arrays without and with room
for `append`. A socket with less room than there are responses makes a write block. With
a `MaxUint16` of 130 a memo of 131 units has a length that cannot be written, and one of
128 and more takes two bytes. Four polls are enough for not found, not reached, error
and success to follow each other. Four foreign instructions hold the longest sequence
that one iteration of the parser consumes. The composed ones include an instruction of a
program that another lists as an account. Two calls make a chain of three services, the
shortest in which something may travel too far, and two calls of one handler, whose
contexts share nothing; the theorems about `Headers` cover trees of any size and more
than one message. `sigStatusPollLimit` and `sqsBatchLimit` are larger in the code and
appear only in comparisons with a counter.

In `headers` the constant `OneAtATime` keeps the run small: validation never looks at
headers, nor headers at messages, so a tree that starts with headers has unary calls
with valid messages only, and one that starts without sets no headers. The theorems
hold for both values of it.

The processor is symmetric in its workers and callers, so `queue_delivery` uses
symmetry; the temporal property it checks is a step property and has no fairness.
The runs with liveness use no symmetry. `CHECK_DEADLOCK FALSE` is set where the
system ends: a bounded number of calls, the end of the parse, the end of the process.

The type invariants say what the variables hold. The runs leave them out in favour of
the properties above, and adding one to a configuration checks it. `TypeCorrect` proves
the one of `TaskQueue`, and the other proofs carry theirs as a part of the inductive
invariant. `BlockedOnlyWhenPaused`, `DrainedStaysDrained` and
`SentIsPrefix` are proved and have no run.

Every passing property has a mutant in `PROJECT.json`: a definition replaced by a
variant with a plausible bug (the operators whose comment starts with "Variant"),
under which TLC finds the property violated.

## Fairness

- `TaskQueue`: Go runs a goroutine that can run (weak fairness of each worker, of a
  waiting `Pause` and of `Shutdown`'s return); a `sync.RWMutex` that is wanted is not
  withheld for ever (strong fairness of the `Start` inside `Shutdown`, which competes
  for `stateLock`). Nobody is obliged to call `Start`, `Pause` or `Submit`.
  `ShutdownStopsWorkers` is therefore conditional: a `Pause` after `Shutdown` stops
  workers that have not looked at `shutdownCh` yet.
- `AcceptedTaskDone` has a further antecedent, `EnvironmentFairness`: SQS offers a
  message again, and an attempt made again and again once gets through before its
  timers fire. Without this no at-least-once queue makes progress.
- `SolanaClient`: every RPC ends with an answer or an error. The code sets no timeout;
  this is an assumption on the network or on the HTTP client that is passed to
  `NewWithRPCOptions`. `CallsReturn` is thus about the retries and the polls, and
  leaves out `GetRecentBlockhash`, whose goroutines share the cache.
- `Server`: goroutines run and timers fire. Clients and RPC handlers may stop for
  ever, which is why `GracefulStop` may not end and the grace period matters.
- `StreamGateway`: the two goroutines run. Neither client nor server is fair, and a
  write returns only when there is room or the client has gone, so `GatewayEnds` allows
  for a handler that a client holds in a write.

## Proofs

All theorems are proved by `tlapm` to the last leaf, from the named assumptions on
the constants only.

| Module | Theorems | Inductive invariant |
|---|---|---|
| `TaskQueueProofs` | `TypeCorrect`, `NeverLost`, `Refinement`, `PauseStopsPolling`, `UnlockIsSafe`, `BlockedImpliesPaused`, `DrainedForGood` | `DeliveryInv`, `LockInv`, `DrainInv` with `TypeOK` |
| `LibraryProofs` | `ReturnsLastKnown`, `ReturnsConverted` of `ConfigWrapper` | `WrapperInv` |
| | `MarshalFirst`, `SlicesCoverBatch` of `TaskSubmitter` | `SubmitInv` |
| | `CallsArriveInTime`, `NoConcurrentHandlers` of `VisibilityTimer`, both assuming `Timely` | `TimerInv` |
| | `RetriesAgree`, `SleepsDocumented` of `Retry` | `RetryInv`, `SleepInv` with `DecideTypes` |
| `SolanaClientProofs` | `HashesAreFresh`, `SuccessIsCommitted`, `SuccessIsNoFailure` | `CacheInv`, `SubmitInv` |
| | `ErrorsSurvive`, `QueriesTellTheAnswer`, `AccountsAreChecked` | the property itself, `QueryInv` |
| `ServerProofs` | `ApplicationOutlivesRPCs`; `GatewayFaithful`, and `ProcessStreamFaithful` of the same in `Server` | `LifeInv`; `GatewayInv` |
| `HeadersProofs` | `OnlyValidMessages`, `PropagationRefinement` | `CheckInv`, `PropInv` |
| | `PanicsExplained`, `VersionsArrive` | `BlankInv`, `VersionInv` |
| `GaugeProofs` | `GaugesPolledOnce` of `Metrics`, and the lemmas on `append` | `OwnInv`, `RegistryInv` with `MetricsTypes` |
| `TagProofs` | `TagsOfRecordsKept` of `Metrics` | `TagsInv`, `ContextInv` |
| `KinProofs` | `AuthoritiesOfCreated` of `KinTransaction` | `AuthorityInv` with `ShapeInv` |

- `NoTaskLost` is not inductive: a delete is safe only because the worker that
  deletes has seen its handler return nil. `DeliveryInv` adds what a worker knows of
  its message in each of its states (`WorkerInv`), that a message on the queue has
  been sent (`SubmitInv`), and the same for orphans (`OrphanInv`). `Refinement` maps
  the queue to the status of each task and shows every step to be one of
  `AtLeastOnce` or a stutter.
- `LockInv` ties `running` to the state of `runLock` and says who holds `stateLock`.
  Without it `Start` could not be shown to find the mutex locked.
- `TimerInv` bounds the age of the message's invisibility in each state of its
  worker: what is left of the timeout covers what is left of the timer and the
  transits. With `Timely` it keeps the message hidden until the delete arrives.
- `SubmitInv` of `LibraryProofs` says that a call has sent a prefix, up to
  `batchStart`, each message once, that calls bound the copies, and that the messages
  marshalled so far are good, so that nothing of a bad batch has been sent.
- `CacheInv` adds that an answer that has not been written is at most one latency
  old, which is what makes the bound hold when answers are written out of order.
- `SubmitInv` of `SolanaClientProofs` bounds the level of the transaction by the best
  it ever had (`ChainInv`), and says that a status kept from one poll to the next
  neither meets the commitment nor has an error (`StatusInv`): so what is returned with
  an error at last is no success, and a success comes from the answer of that step. The
  theorems assume that an error on the chain is not the JSON null.
- `ErrorsSurviveJSON` is inductive as it stands: a step either keeps the status or sets
  it from a parsed error, and `ParsedSurvives` says of every JSON value that what
  `ParseTransactionError` makes of it can be written and read again (`Survives`), but for
  texts with escapes and for numbers that no `float64` holds. That a text that needs
  escapes is read as something else is `JSONAssumption`.
- `QueryInv` says that a query that has ended has returned what decoding one of the
  possible answers gives; the two theorems are then about the decoders, and `PanicTells`
  finds the empty array behind a panic. They assume of
  the answers (`QueryAssumption`, `TokenAssumption`) that a balance is in the range
  that the model of `float64` covers, that a JSON null is `Null`, and that the token
  program keeps its accounts as it does: tags are 0 or 1, and an account with a mint has
  been initialised. A field whose tag says that it is absent may hold anything, which
  `GetAccount` does not tell and `Marshal` clears (`Cleared`).
- `RetryInv` ties the counter to the failures since the last success, and says that
  the strategies already asked about the last error have all agreed. `SleepInv` says of
  each sleep since the last call what `SleepsAsDocumented` says of them at the end, and
  counts them for a backoff that is the last strategy. What one sleep may be rests on
  lemmas about the wrapping product: one that fits is the exact one, and one that wraps
  is in the range of a duration, where a negative one is replaced by the largest and
  every one is capped; and a cap that leaves a `float64` two bits is exact, and so is the
  end of the jitter but for a nanosecond. The powers are not computed by the prover: that
  `2 ^ n` and `3 ^ n` are positive is `PowersAssumption`, and that a `float64` holds the
  integers up to `MaxExact`, and rounds none above it to below, `FloatAssumption`; TLC
  evaluates both.
- `WrapperInv` says that the cached value was written by a call that is not outdated,
  which needs calls to have numbers of their own and to finish once (`CallInv`), and
  that every value in hand or in the cache is the default or was converted from one
  the source has held (`FitInv`).
- `LifeInv` says that no server is used before the application is initialised, that
  RPCs belong to servers that have not stopped, and which servers have stopped at each
  point of the shutdown; only after both does the application stop. `GatewayInv`
  follows the messages: what has arrived, what a goroutine holds and what still waits
  are consecutive, in both directions (`Downstream`, `Upstream`), and a close message
  that was written has everything in front of it unless the stream broke (`Ending`). A
  step of `Server` is a step of the gateway or leaves it alone (`GatewayStep`).
- `OwnInv` says which slices may share an array: the registry has one of its own, a
  goroutine between the two appends of a timing has one of its own unless it is the
  timer's, and no record lies in the registry's. It is what makes an `append` of one
  harmless for the others, and is proved from one lemma about `append` (`AppendDoes`):
  it writes behind the slice in the same array if there is room, and copies otherwise.
- `RegistryInv` says that the registry lists each registered gauge once, that the poller
  has asked those before its position, and that it holds the lock until it is done;
  `PolledOnce` then counts (`CountedOnce`). `TagsInv` says of every slice in hand or in a
  record that it holds what it was given, with the exception that `RecordsKept` names
  (`AtRisk`), and that only tags of timings lie in the timer's array, where the cell
  behind the timer's tags is the one that may be overwritten. `ContextInv` says that who
  stops a context holds its lock, so that a context is recorded once.
- `CheckInv` says for each stage of a call which messages have been validated by then.
  `PropInv` adds that contexts, and what the interceptor makes of metadata, are `Sound`:
  the keys of each map have the prefix and the suffix of its type. Soundness is what
  makes keys of different maps differ, so that merging the maps for a request and
  splitting the request again loses nothing and mixes nothing (`SentHeader`,
  `PassedHeaders`); a call is then a step `Call` of `HeaderPropagation`, a setter of a
  message a step `Set`, everything else a stutter. The proof assumes that no message is
  called like a header of gRPC itself.
- `BlankInv` says that whatever is empty where a handler looks was stored so by a setter
  or at the start, and `VersionInv` that every handler is served a text of the Kin
  version that it may find (what its caller set, or else none or what its caller was
  sent), and the desired version of the start. Both follow a header through `SentHeader`
  and `PassedHeaders`; the second assumes that no message is called like a version
  header (`VersionAssumption`).
- `ShapeInv` says that what `ParseTransaction` builds is made of sequences of records at
  all times. It reduces every step of the loop to one of eight effects on the regions
  (`Takes`) and every step of the second loop to three (`Passes`). `AuthorityInv` says
  that each authority set so far is of an account created before it, with nothing but its
  set-up in between, and that the one to close it is recorded with who paid in some region
  (`Explained`), that the creation under way was opened by an instruction (`Opens`), and
  that in the regions already validated the two are the same.

Out of the prover's reach, and only model-checked: all liveness (fairness and
`ENABLED`), and what recursive functions and folds compute (induction over data). That
is `RightsAreExact`, `SignaturesInPlace` and `EncodingFaithful`, which are about the
folds of `SolanaTransaction`; `NothingSkipped`, which adds up the regions; and
`TimesExact` and `NumbersExact`, which need the powers and digits of `TimeUtil` and
`Quarks` and products of variables. `MemosAgree` has no proof either.

`SolanaTransaction` has three helpers of its own that `SequencesExt` has too: through
that module every obligation of `KinProofs` would carry the definitions of `Bags` along,
and the proofs would take ten times as long.

## Findings

`solana_rejected`: if `sendTransaction` fails with an RPC error whose data is a map
without `err`, `ParseRPCError` returns neither a result nor an error, and
`SubmitTransaction` returns a status with no error and no confirmations
(`solana/client.go:493`). `Finalized` and `Confirmed` are true of it, although the
node refused the transaction. The comment at `solana/client.go:115` says
"Confirmations will be nil if the transaction has been rooted"; it does not say
"only if", but `Finalized` relies on that direction. The properties `CommitmentReached`
and `NoFalseSuccess` are about the poll and exclude this path.

`quarks`: `ToQuarks` allows 14 characters before the point, and from 92233720368548 kin
on the product with 1e5, or its sum with the fraction, wraps around an int64: a wrong
amount is returned with no error (`kin/utils.go:47`). The comment at `kin/utils.go:15`
says "An error is returned if the value string is invalid, or it cannot be accurately
represented as quarks."

`friendbot`: `CreateAccount` and `FundAccount` write an amount as `%d.%d` of its kin and
its quarks (`kin/friendbot/friendbot.go:49`, `70`), without padding the quarks to five
digits: 100001 quarks are asked for as 1.1 kin. The comment at
`kin/friendbot/friendbot.go:64` says "FundAccount funds an existing account on the test
Kin network with the requested amount."

`rights`: if an account is first met as the program of an instruction and an instruction
also lists it as a signer or as writable, `filterUnique` promotes the entry and leaves it
a program (`solana/transaction.go:171`), and `Less` sorts programs last
(`solana/instruction.go:60`). The header counts one more signer, which by its place is
an account that does not sign. The comment at `solana/transaction.go:62` says "All signers
are before non-signers." `RightsAreExact` holds where no program is promoted
(`PromotedProgram`).

### Observations

Behaviour met while modelling, kept in the modules as it is:

- Task queue: nil from `SubmitBatch` does not mean stored, since `Failed` entries are
  not looked at; a handler that outlives its worker blocks for ever on its result
  channel.
- Retry: a cap of `math.MaxInt64` is rounded to 2^63 as a `float64`, which is no int64,
  and on amd64 becomes a negative sleep (`retry/strategy.go:59`); the power of a base such
  as 1.5 is cut to an integer before it is multiplied (`retry/backoff/backoff.go:42`), so
  that the delays are 1, 1, 2, 3, 5 times the base delay; past the range of an int64 the
  product may fall back to a small value.
- Gateway: the break at `httpgateway/gateway.go:251` leaves the select and not the loop;
  no write has a deadline; a status whose text does not fit into a control frame is not
  written at all.
- Parser: a memo without an app index after one with an index is refused, the other
  order is accepted.
- Headers: a failed `Marshal` stores nil bytes; `GetAnyBinaryHeaderByName` calls `Error`
  on a nil error when a header decodes to defaults; `GetASCIIHeaderByName` does not
  lower the name; ASCII headers that were received are sent on, although
  `headers/headers.go:16` likens them to inbound ones, and the outbound map goes out
  with every call of a context, although line 7 says "only sent on the next service
  call"; a Kin version out of range gives 0 and no error, since `errors.Wrap(nil)` is
  nil.
- Times: `FromUnixMillis` is documented to give the largest timestamp on overflow and
  gives the zero time, as its test expects; `FromTimestamp(nil)` gives 1970, its comment
  says the zero time; the fraction of `PT-1.5S` is added.
- Amounts: `-1.5` is -50000 quarks and `-0.5` is +50000; `FromQuarks` of a negative
  amount cannot be read back.
- Metrics: a timer with three tags has room in its array, so that an additional tag of
  one record may be overwritten by the next; a gauge's function that makes or stops a
  gauge waits for its own lock.
- Transactions: a length above 65535 is left out of an encoding, since `Marshal` ignores
  the error of `EncodeLen`, and the result cannot be read back.
- Solana: `JSONString` writes a text without escapes; numbers of errors pass through a
  `float64`; an empty array in an answer, or more statuses than were asked for, make a
  call panic; `GetBlockTime` gives the epoch and no error for RPC errors of other codes; a
  balance passes through a `float64`; `GetAccount` tells an account that is not
  initialised by its mint of zeros; `FindProgramAddress` never tries bump 0 and ends
  with neither an address nor an error.

## Abstractions

- Times in `TaskQueue` and `SolanaSubmit` are left out: whatever may time out may do
  so at any moment. `VisibilityTimer` and `BlockhashCache` have discrete time.
- Bodies, keys, signatures and hashes are numbers or model values. A signature is a
  number that stands for the signer and the message. Data of an instruction is a
  sequence of fields of one unit each, and of an account a sequence of cells; integers
  inside a field are not split into bytes.
- Logging is left out everywhere, and metrics outside `Metrics`.
- A configuration value is a Go type and a text; the tables of `ConfigWrapper` give
  the result of every conversion the wrappers call.
- A text that is parsed is a record of its parts (`TimeUtil`, `Quarks`): the regular
  expression of durations has already matched.
- Integers have `Width` bits where they may wrap, and the constants of a package
  (seconds, digits, limits) are scaled down with them; the assumptions of `TimeUtil`
  keep their order.
- `MaxVisibilityExtensions = 0` is covered by the proofs and by no run.

## What remains

`unaryHandler` of the gateway, `IsValidMemoStrict` and the decompilers that
`ParseTransaction` does not call are pure and could be added as operators; the other
parts under "Not modelled" have nothing for a model to check. `MemosAgree` could
be proved with the shape of the result that `KinProofs` has.
