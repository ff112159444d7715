# BSW in TLA+

TLA+ models of the BSW betting system (`src/`), model-checked with TLC and largely
proved with TLAPS. Two asyncio services, `line-provider` and `bet-maker`, share
nothing but HTTP lookups and one RabbitMQ queue; bet-maker keeps its bets in
PostgreSQL. The promise everything serves is the repository's Core Value: a bet
does not stay PENDING after its event has finished (`src/README.md:8`). The
difficulty is that several workers settle the same bets while messages are lost,
duplicated or late, lookups are retried, connections break between a commit and its
answer, processes are killed at any await, and line-provider forgets everything
when it restarts.

## 1. Inventory

| Component | State it keeps | Operations | Talks to | What makes it correct |
|---|---|---|---|---|
| line_provider store, state machine, write routes | `_data`: event -> coefficient, deadline, state | `POST /event`, `PUT /event/{id}`, expiry of deadlines | event bus; read by bet-maker | a final state is final; what is announced is what is stored |
| line_provider event bus, lifespan | publications in flight | `publish`, restart | exchange `bsw.events` | one announcement per event and incarnation |
| Queue `bet_maker.events.finished`, DLX, DLQ | waiting, unacknowledged, dead-lettered messages | deliver, requeue, ack, reject | line-provider, handlers | a message is in exactly one place |
| Message handlers (`api/messaging.py`) | message, attempt, unit of work | validate, settle with 3 attempts, ack, reject | queue, table | ack only after the commit; the queue drains |
| Reconciler (`jobs/reconciler.py`) | work-list, current event, the answer it read | tick, look up, settle, cancel, skip | line-provider, table | sweeps what messages missed; one bad event does not hold up others; never dies |
| `POST /bet` (`api/bets.py`, `place_bet`) | body, lookup, validated snapshot, unit of work | validate, look up, check, insert, answer | HTTP client, table | no bet without a chance to bet; the status code tells the truth; a bet inserted late is still settled |
| Money (`schemas/bets.py`, `helpers/money.py`) | none | limit the digits, quantize | table | what is accepted is what is stored |
| Table `bets`, unit of work, settle and cancel | rows, row locks, open transactions | insert, `SELECT ... FOR UPDATE SKIP LOCKED`, update by id, commit, rollback | all workers | every bet settled at most once, by one verdict |
| HTTP client of line-provider | attempts of one lookup | GET, retry, give up, translate | line-provider | an answer is what line-provider held at one moment; a failure is never a 404; attempts are limited |
| bet_maker lifespan, `/health` | resources, topology, the reconciler task | startup, shutdown, probe | PostgreSQL, RabbitMQ, compose | ready before it consumes; nothing closed under its user; cleanup after a failed step; a truthful 200 |
| alembic migrations | schema, recorded revision | upgrade, downgrade | PostgreSQL, compose | the revision says what is there; a rerun after a crash applies |
| read routes, application wiring | none | list, get, log | table, line-provider | |

What is hard: the interleavings of snapshots, row locks and commits; a result
read before an await and used after it; crashes and lost connections between a
commit and an ack, or a commit and an answer; redelivery while the first handler
still runs; restarts of line-provider; failures of one event among many; retry
limits; a startup or a migration that stops half-way. `PROJECT.json` lists each of
these hazards at its line with the properties that cover it.

## 2. Modules

    BswTypes                 vocabulary: event states, statuses, verdicts, rows
      BetLedger              what table bets promises (abstract)
      BettingPromise         what the two services promise together (abstract)
      BetTable               table bets and its transactions; implements BetLedger
      LineProvider           store, routes, announcements, restart
        Bsw                  both composed with queue, handlers, reconciler, POST /bet
        EventLookup          the HTTP client in front of line-provider, attempt by attempt
          PostBet            POST /bet from body to status code, over EventLookup
                             (Bsw and PostBet each implement BettingPromise)
    LookupPromise            what a lookup promises (abstract); implemented by EventLookup
    Migrations               alembic's chain 0001 to 0004
    Lifespan                 bet-maker's process: startup, /health, shutdown
      Deployment             Migrations and Lifespan under docker compose
    BetTableProofs, LineProviderProofs, BswProofs, WorkerProofs,
    EventLookupProofs, PostBetProofs, MigrationsProofs, DeploymentProofs    theorems
    MCBetTable, MCLineProvider, MCBsw, MCPostBet, MCDeployment              TLC instances

**BetTable.** `bets` is the committed table, `sess[s]` what each pooled connection
is doing. A settle and a cancel are the same transaction with another verdict
(`settle_bets_for_event`, `cancel_bets_for_event` differ in nothing else that
touches the table). `Begin` takes the statement's snapshot, `VisitRow` is one row
of the `SKIP LOCKED` scan (a row another transaction holds is skipped, a row whose
newest version is no longer PENDING is dropped), `Commit` is the UPDATE by id and
the COMMIT of the unit of work, `Rollback` its exit on an exception. `updated_at`,
`created_at` and amounts are left out; `settled_at` is set exactly when
`settled_via` is, so one field stands for both.

**LineProvider.** `store` holds state and whether the deadline is in the future.
`set_event_state` suspends only at `publish`, since the store's lock is never
contended across an await, so check, update and start of the publication are one
step; `EndPublish` is its end. A message's id is its position in `published`.
`epoch` counts the incarnations of the service and is no state of the program: it
lets a property speak of "since the last restart".

**Bsw.** Everything between two awaits of bet-maker's process is one step.

| Code | Actions |
|---|---|
| `api/events.py` POST and PUT, deadlines | `LPStep` |
| exchange to queue | `Route`, `LoseMessage` (broker down, queue not bound) |
| line-provider restart | `LPRestart` |
| `place_bet` lookup and checks; INSERT; failure | `ValidateBet`; `InsertBet`; `DropBet` |
| `on_event_finished` delivery; schema check | `Deliver`; `Refuse` |
| `_settle_with_retry` and its outcomes, on one unit of work | `StartSettle`, `SettleReturns`, `SettleNeverStarts`, `SettleRaises`, `SettleLosesConnection`, with `AfterFailure` for "retry or give up" |
| `msg.ack()`, `msg.reject(requeue=False)` | `Ack`, `Reject` (on a dead channel both raise, and the broker keeps what it requeued) |
| `_run_tick`, `_reconcile_event` | `Tick`, `LookUp`, `LookUpFails`, `StartSweep`, `SweepReturns`, `SweepNeverStarts`, `SweepRaises`, `SweepLosesConnection` |
| PostgreSQL | `LockNextRow`, `EndOrphan` (a session whose client is gone commits if its COMMIT had arrived, else rolls back) |
| broker connection; process death | `LoseBroker`; `Crash` |

`acked`, `unrouted` and `settled` are history variables: what the broker dropped for
an ack, what never reached the queue, and which messages' settles returned. `Strays`
are messages of another `schema_version`; they are in the queue from the start.
`hand[h].sess` is the unit of work's `_session`: an `__aexit__` that raises leaves
the old one in it (`stale` in `AfterFailure`), and only the next `__aenter__`, in
`StartSettle`, replaces it; `Using(h)` is the session a handler really works in. A
crash orphans the open sessions and the INSERTs whose COMMIT is on its way (the
`sent` of `Crash`), which PostgreSQL ends afterwards. An exception in the middle of
a scan is taken at its end, because a scan cut short has locked fewer rows and its
rollback forgets them all. Whether a failure is transient is not modelled further:
`AfterFailure` may retry or give up, and must give up after `MaxAttempts`, the
code's three. The reconciler's work-list is visited in any order: `SELECT DISTINCT`
promises none.

**BettingPromise.** The system as its users see it: events that accept bets, announced
outcomes, requests that have found their event bettable, and the ledger. A bet comes
from such a request (`Accept`, then `Place`); it is settled at most once; WON and
LOST are an announced outcome of its event, of which there is one until
line-provider loses its events, and after which nobody can bet (`Market`); CANCELLED
needs such a loss. Broker, lookups, transactions, retries and crashes are hidden.
`Bsw` and `PostBet` implement it (`KeepsBettingPromise`): in `Bsw` the event
`ValidateBet` has found stands for what a request has found, in `PostBet` the
favourable answer of its lookup, from the look on. A mutant that lets `place_bet`
accept an event after its deadline, and one that commits before the checks, break it.

**EventLookup** and **LookupPromise.** `call[c]` is what coroutine `c` awaits: an
attempt under way (`asking`), an answer on its way back (`replied`), or the outcome
of `get_event` or `list_active_events`. line-provider may change between any two
steps.

| Code | Actions |
|---|---|
| first attempt of `_call` | `Ask` |
| line-provider's route reads its store | `Serve` |
| 200 parsed, 404 taken for `None` | `Receive` |
| transport error, timeout, 5xx: `_is_retryable`, `stop_after_attempt` | `AttemptFails` with `RetryOrGiveUp` |
| another status, malformed body: no retry | `Refuse` with `Unavailable` |
| a JSON body of a shape no except clause names | `Refuse` with `Untranslated` |
| the caller goes on | `Take` |
| the process dies | `DropCalls` |

Backoff only takes time and is left out. `LookupPromise` has none of the retries: a
question sees at most one state of its subject, and its answer is that state or a
failure. The refinement `KeepsLookupPromise` maps a call to `Shown(call[c])`: its
subject and what its latest attempt has seen. It is what lets `Bsw` treat a lookup
as the one step `LookUp` or `LookUpFails`: the state answered is one that held
during the call, and what changes after the look is the staleness `Bsw` already has.

**PostBet.** One record per request. `RejectBody` is the schema's 422, `Submit` the
start of the lookup, `Decide` the ladder of `post_bet` with place_bet's three
checks, `CommitRow` INSERT and COMMIT, `Respond` the 201, `InsertRaises` any
exception of the unit of work, before or after a COMMIT whose answer is lost,
`InsertLosesConnection` a connection that breaks with the COMMIT on its way, and
`Crash` the end of the process, at any step. The transaction of a request that is
over stays with PostgreSQL as an orphan, and `EndOrphan` commits it or rolls it
back. `OtherUser` is the reconciler or `GET /events` on the same client. A deadline
that was ahead in the snapshot may have passed when it is compared, so an open
snapshot leads to either outcome. `chance` is a history variable. Money is counted
in thousandths: `Accepts` is pydantic's `gt`, `decimal_places` and `max_digits`
(which together allow `max_digits - 2` digits before the point), `Quantize` rounds
half up, `Fits` is what `Numeric(12, 2)` holds.

**Migrations.** `db` is the committed schema with its recorded revision; `mig` the
alembic process with the uncommitted schema it works on. `Upgrade(v)` and
`Downgrade(v)` run one revision's statements in the transaction of `env.py`;
revision 0003's `autocommit_block` is `EnterAutocommit` (commits what was done
before), `AddValue` (on its own) and `RecordThird` (in a new transaction). `Abort` is
the end of the process or of its connection anywhere. A statement PostgreSQL would
not take ends the run.

**Lifespan.** `proc.pc` names the await `lifespan` is at. FastStream's own lifespan
is nested in it: its broker starts after ours has yielded (`StartBroker`) and stops
before ours goes on (`Terminate`); both are external. `held` is what must be closed,
`task` the reconciler's task, whose cancellation (`CancelTask`) and end (`TaskEnds`)
are two steps. `handling` says that a message handler is at work (`TakeMessage`,
`HandlerEnds`); the broker is built without a `graceful_timeout`, so nothing waits
for it and it may be at work until the process is gone. A close succeeds or raises,
with or without having closed its resource (`Closes`, `CloseRaises`; `raised`
remembers it), and either way leads to the next one (the nested `finally`). `Raises`
is any exception between the connection and the yield: certain while RabbitMQ is
down (`StartupRaises`), a fault otherwise (`StartFails` of Deployment). The two
pings of `/health` are two steps, and its last look at the subscribers and at the
task goes with the second, as no await lies between. `witnessed` is history.

**Deployment.** The services of `docker-compose.yml`: `StartMigrate`, `Launch`
(`depends_on`: both servers healthy, the migration completed successfully),
`Relaunch` (`restart: unless-stopped`, which waits for nothing), `Up` and `Down` of
the operator, `Die`, `StartFails` and `MigrateDies`. Assumed: one migrator at a
time, and a downgrade by hand only while the stack is down.

## 3. Runs

| Run | Instance | Checks |
|---|---|---|
| `bet_table` | 2 events, 2 bets, 3 sessions | types, `LockDiscipline`, refinement of `BetLedger` |
| `line_provider` | 2 events, 2 restarts | types, `AnnouncedIsStored`, `AnnouncedOnce`, `FinalStateSticks` |
| `bsw` | 1 event, 2 bets, 2 handlers, 2 sessions, 1 poison message, 1 fault | types, `SessionsHaveOneClient`, `EachMessageInOnePlace`, `AckedOnlyAfterCommit`, refinement of `BettingPromise` |
| `bsw_restart` | 1 event, 1 bet, 1 handler, 2 sessions, 1 restart | `SettledForAReason`, refinement of `BettingPromise`, `SweptUnlessReopened` |
| `bsw_consumer_down` | 2 events, 2 bets, 1 session, no handler | `AgreesWithLineProvider`, `FailuresAreIsolated` |
| `post_bet` | 1 event, 1 request, 1 other user of the client, 3 and 5 attempts, 1 restart, 6 amounts | types, `StatusTellsTheTruth`, `PlacedWhileBettable`, `AcceptedIsStorable`, refinement of `LookupPromise` and of `BettingPromise`, `EveryRequestEnds` |
| `deployment` | 10 attempts, 3 kills or failed starts | types, `SchemaMatchesRevision`, `EveryStatementApplies`, `ConsumesOnlyWhenReady`, `ResourcesOutliveTheirUsers`, `CleanExit`, `OkMeansEachWasUp`, `ComesUp` |
| `bsw_live` | 1 event, 1 bet, 1 handler, 2 sessions, 1 poison message, 1 fault | `CoreValue`, `QueueDrains` |
| `bet_table_split` | 2 events, 3 bets, 3 sessions | `OneOfTwoGetsAllRows`: violated |
| `bsw_recreated` | as `bsw_restart` | `CoreValue`: violated |
| `bsw_stale_message` | as `bsw_restart` | `SettledBecauseFinished`: violated |
| `bsw_stale_cancel` | as `bsw_restart` | `CancelledBecauseGone`: violated |

**Bounds.** `MaxEpoch` bounds the restarts of line-provider and `MaxFaults` the lost
connections and crashes; nothing else is bounded but the sets. Two sessions or
handlers suffice for every race between two settling transactions; the third session
of `bet_table` adds one that begins after the first commit. Two bets let a scan hold
one row and skip another. Two restarts let a stale message be two incarnations old.
One fault can strike at any step, and one fault already gives a redelivery that
overlaps the first handler, or an INSERT that is committed after its request has
died. The liveness runs use one bet: a bet's fate does not depend on other bets of
its event, except through the locks, which two sessions already contend for.

`post_bet` has the code's own limits, three attempts for the routes and five for the
reconciler, so a lookup can fail at every one of them; its second caller is the
reconciler or a `GET /events`. Requests share nothing but line-provider, which
changes as it likes, so one is enough. Its amounts are 0, half a cent, one cent, a
digit too many (12.345), and the two sides of the limit (99.99 and 100.00) for four
digits, which stand for the code's twelve. `deployment` has the code's ten attempts
of `wait_for_postgres`; servers go down and come back without a bound, kills and
startups that raise by themselves are bounded by three, so that a startup, a migration
and a serving process can each be killed in one behaviour; closes raise as they like.
Handlers at work count as one, the first to start and the last to end.

**Fairness.** `Fairness` has weak fairness for each publication's end, each
handler, each delivery, each session's scan and the end of orphaned transactions,
and the reconciler: asyncio, the broker and PostgreSQL go on. Strong fairness of
`StartSweep` and `SweepReturns` says that the reconciler's transactions do not all
fail for ever, and `FairSpec` adds the same of the lookups of each event; the code
retries on every tick, so this is the least that lets it succeed. No fairness is
assumed of clients: nobody need create, finish or bet. `IsolatedSpec` leaves out
the lookups, and `FailuresAreIsolated` assumes those of one event only. The loop
survives every exception because of `reconciler.py:71` and `:104`; a mutant that
lets one through breaks `CoreValue`. `PostBet` has weak fairness of a request's
lookup and of its handler: httpx's timeout ends every attempt, asyncio resumes the
handler, and a statement or a COMMIT ends in an answer or an exception.
`Deployment` has it of what has been started (startup, migration, shutdown,
resubscription) and of compose, which starts what is due and restarts what has
ended; nothing is assumed of the operator or of the servers, and `ComesUp` asks only
for what holds from the time on when the stack is wanted, both servers are up and
no migration has failed without being run again. Deadlock is checked everywhere.

**Disagreements found** (the four violation runs):

1. `bet_table_split`: `cancel_bets_for_event.py:16-19` and Reliability item 3 of the
   README say that of two interactors one gets all rows and the other none. The scan
   locks row by row, so a settle and a cancel can divide an event's bets. What does
   hold is `LockDiscipline` and the ledger's promise.
2. `bsw_recreated`: with an in-memory store, a bet on a finished event stays PENDING
   if the message is lost, line-provider restarts and the event is posted again.
   `SweptUnlessReopened` is what remains true.
3. `bsw_stale_message`: a message of the earlier life of an event settles a bet
   placed on its new life.
4. `bsw_stale_cancel`: a 404 read before the event is posted again cancels its bets.

Met while modelling, and modelled as the code has them, without a run of their own:

* `schemas/bets.py:39` and `tests/bet_maker/test_schemas.py:103` say that
  `max_digits=12` caps an amount at 999,999,999,999.99. With `decimal_places=2` the
  cap is 9,999,999,999.99, which is also what the column holds; a mutant with the
  limit of the docstring breaks `AcceptedIsStorable`.
* A startup that fails between `wait_for_postgres` and the yield leaves the engine,
  the HTTP client and the broker to the end of the process (`CleanExit` says so).
* `ping_postgres` takes SQLAlchemy's errors for "down", but a refused connection is an
  `OSError` and makes `/health` a 500; the check of the registered subscribers is
  always true, so a consumer that has lost its queue does not show.
* A JSON body of a foreign shape is a `TypeError` or `AttributeError` that
  `http_event_lookup.py` does not translate: `POST /bet` answers 500 instead of 503.
* The downgrade of 0003 does nothing; its label waits for the next upgrade, which
  meets it with `IF NOT EXISTS`.

Each property of a passing run has a mutant in the modules, marked as such, a
plausible slip in the code that TLC must find.

## 4. Proofs

Every theorem holds for any number of events, bets, sessions, handlers, restarts
and faults, from the assumptions named in the modules: the bounds are natural
numbers, and the values that stand for "none" are not members of the sets they are
used with.

* `BetTableProofs`. `LockDiscipline` is inductive with the types: a row is added to
  a transaction only when it is PENDING and nobody has it, and `Commit` changes its
  own rows only. From it, `LedgerRefinement`: an insert maps to `Place`, a commit to
  `Settle` of the locked rows, everything else to a stutter. `LedgerKeepsVerdicts`
  says what that is worth: whatever keeps the ledger's promise lets a row appear
  once, be settled once and keep its event, and settles together only rows of one
  event. `TransactionsOnlyAdvance`: a transaction gives its locks back only at its
  end and visits a row of its snapshot once.
* `LineProviderProofs`. `AnnouncedIsStored` and `AnnouncedOnce` are inductive only
  with `NoneFromTheFuture`: a restart has to find no message of the incarnation it
  begins, or its empty store would contradict it. `FinalStateSticks` needs the
  types and the transition table. From the same invariant `OutcomeEndsBetting` (in
  the first incarnation an event has one announced outcome and accepts no bet after
  it) and, for finitely many events, `LogIsBounded`: an announcement is told from
  another by its event and incarnation, so there are at most
  `Cardinality(Events) * (MaxEpoch + 1)`. `MessagesAreCounted` carries that to the
  system, where `QueueDrains` counts on it.
* `BswProofs`. Every step of the system is a step of `LP_Spec` and of `BT_Spec` or
  leaves their variables alone (`ImplementsLineProvider`, `ImplementsTable`), so the
  theorems of the components hold of the whole; `SystemKeepsLedgerPromise` is the
  composition. That a worker's transaction is one of the table's needs the workers'
  types: what a handler settles is a message of the log, which only grows, and what
  the reconciler read is a verdict.
* `BswProofs`, reasons. `SettledForAReason` speaks of rows, but a verdict travels: it
  is read from a message or from a lookup, carried by the reconciler, then by an
  open transaction, and written later. `ReasonInv` says it has its reason at every
  stop. That a 404 is a reason to cancel needs `KnownEvents`: until the first
  restart, the events of bets, requests and the work-list are all stored, which in
  turn needs `LockDiscipline`, because only the locks keep a commit from giving a
  row the event of another transaction. `AgreesWithLineProvider` follows with
  `AnnouncedIsStored`, and with it `OneOutcomeAlways` (bets on one event win or lose
  together) and `DocsHoldUntilRestart`: the two sentences of the docs that the
  `bsw_stale_*` runs refute are true until line-provider restarts.
* `BswProofs`, the promise. `SystemKeepsBettingPromise` shows step by step that
  `Bsw` implements `BettingPromise`: `LPStep` and `LPRestart` map to `Market`, by
  `OutcomeEndsBetting`; `ValidateBet` to `Accept`, `InsertBet` to `Place`, `DropBet`
  and `Crash` to `Abandon` (a crash abandons all requests but those whose COMMIT is
  on its way, which are placed or abandoned later), a commit to `Settle` with the
  reason that `ReasonInv` has for it, the rest to stutters. Two theorems say what
  the promise is worth by itself: it implies the ledger's (`BettingImpliesLedger`),
  and it gives every settled bet its reason (`BettingExplainsVerdicts`).
* `BswProofs`, acknowledgements. `AckedOnlyAfterCommit` is inductive once it also
  says that a handler at its ack has seen its settle return.
* `WorkerProofs`. `SessionsHaveOneClient` is inductive with the types: a transaction
  begins in an idle session, and whoever has a session has it open, so nobody has the
  one that begins; the end of a transaction and of its client's use of it are one
  step. A retry needs no more: whatever a failure leaves in the unit of work,
  `FailureOutcome` gives a handler that uses no session until it enters it again.
  `EachMessageInOnePlace` is proved from `PlaceInv`, the same said place by
  place: a new id is in none of the broker's sets because they hold known ids only,
  and an ack takes a message from the held ones because no other handler has it.
* `EventLookupProofs`. `LookupTypeCorrect` contains the limit of attempts.
  `LookupRefinement`: a lost answer or a retry maps to `Forget`, `Serve` to `Look`,
  the last failure to `Fail`, whatever line-provider does to `Change`.
* `PostBetProofs`. `RequestOK` follows a request: its lookup asks for its own event;
  an answer in its favour was true while it lasted, because a look at a bettable
  event happens while the request waits; the row is there exactly from the COMMIT
  on, and an orphan of a 500 or of a dead request is all that may still add one.
  `PlacedWhileBettable` and `StatusTellsTheTruth` are parts of it, the second with
  `QuantizeKeeps`. `AcceptedStorable` assumes that schema and column count the same
  digits, as the code does: for fewer it would need the monotonicity of powers,
  which is an induction. `PostBetRefinesLookup` composes with `LookupRefinement`.
  `PostBetKeepsBettingPromise`: the look that a favourable answer comes from maps to
  `Accept`, because the event is bettable at that moment; a lost answer, a refusal,
  an exception and a rolled back orphan to `Abandon`; `CommitRow` and a committed
  orphan to `Place`.
* `MigrationsProofs`. What a transaction has done so far matches its own revision,
  and between the two transactions of 0003 the database is at revision 2, first with
  at most the label, then with it; both theorems follow revision by revision, and
  so does `OnlyDyingFails`: no statement is refused, a migration fails only when its
  process dies. `DeployedMigrationsSucceed` says the same under docker compose.
* `DeploymentProofs`. The invariant composes the migrations' with what each stage of
  the process has opened and declared. `ReadyBeforeConsuming` needs that while the
  process lives no migration runs and the schema is at `Head`; `ExitsClean` that
  what a close leaves open has raised (`CloseLeaves`), stage by stage of the
  shutdown, and `ResourcesOutlive` that the engine is open in every stage at which a
  handler can be at work; `OkIsWitnessed` that a ping's outcome was true when it was
  taken.

**Countdowns.** The prover has no liveness under fairness, but most of what the
liveness properties rest on is a safety fact: nothing goes round in circles. For each
part of the system that must come to an end, a rank (a natural number, read off the
state) is proved to be bounded, to fall with each of the part's own steps and never
to rise through anyone else's:

| Theorem | Part | At most | Serves |
|---|---|---|---|
| `CallsCountDown` | a lookup | 2 steps for each attempt | `EveryRequestEnds` |
| `RequestsCountDown` | a `POST /bet` | `2 * RouteAttempts + 3` | `EveryRequestEnds` |
| `HandlersCountDown` | the handling of a message | `2 * MaxAttempts + 1` | `QueueDrains` |
| `TicksCountDown` | a tick of the reconciler | `3 * Cardinality(Events) + 2` | `FailuresAreIsolated`, `CoreValue` |
| `MigrationsCountDown` | a run of alembic | 13 | `ComesUp` |
| `LifespansCountDown` | bet-maker's process | `PgAttempts + 12` | `ComesUp` |

`TicksCountDown` also says that a failure takes no event off the work-list but its
own; it and `LogIsBounded` assume finitely many events, the only hypotheses on the
constants that are not assumptions of the modules. What the countdowns leave to TLC is
that the steps are enabled and, by fairness, taken, and that the parts start each
other.

Model-checked only: liveness (`CoreValue`, `SweptUnlessReopened`,
`FailuresAreIsolated`, `QueueDrains`, `EveryRequestEnds`, `ComesUp`), which is out of
the prover's reach. Every other property of the passing runs is proved. The four
violation runs are counterexamples on small instances, which is all they need.

## 5. Not modelled, and what is left

* Application wiring: settings, logging, request ids. No state a property depends on.
* `GET /bets` and `GET /bet/{bet_id}` are pure reads of table `bets`; their ordering
  and their 404 are left out. `GET /events` is a user of the HTTP client.
* Coefficients: stored and shown by line-provider, read by no decision.
* alembic's offline mode, which prints SQL; the indexes and columns of 0001
  that no property reads.
* The connection pools: a handler that waits in vain for a connection is
  `SettleNeverStarts`, a request `InsertRaises`, a lookup `AttemptFails`; how many
  there are is not counted, so their exhaustion is possible at any time.
* `StubEventLookup`, which only tests use.
* A message body that is not a JSON object. FastStream refuses it before the handler
  runs, and it stays unacknowledged until RabbitMQ's consumer timeout
  (`messaging.py:147-152`); line-provider, the only publisher, always sends an
  `EventFinishedMessage`. A poison body that reaches the handler is `Refuse`.
* What a handler that outlives the broker's connection loses: its ack fails and its
  message is redelivered, which is `LoseBroker` and `Crash` of `Bsw`.
* Two processes of bet-maker: compose runs one. `FOR UPDATE SKIP LOCKED` is modelled
  for any number of sessions, whoever owns them.

What a next step could add: `Bsw` with `EventLookup` in place of its one-step lookup
(the refinement makes the result plausible, its state space does not fit in a run),
proofs that the steps the countdowns count are never blocked (a request, a handler
and a migration under way always have a next step, said without ENABLED), and the
proof of `AcceptedIsStorable` for a column wider than the schema.
