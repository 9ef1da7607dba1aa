# A verification development for ipp-printer-app

TLA+ models of the printer application framework in this repository (a Rust
library that turns a device driver into an IPP Everywhere printer), the TLC runs
that check them on small instances, and the theorems about them that TLAPS
proves for every instance.

## 1. Inventory

The application is one process: an axum server, one tokio task per print job, one
polling task, and an mDNS daemon.  They share two registries, each behind one
lock (`parking_lot::RwLock`), one advertiser, and one state file.

| Component | State | Operations | Talks to |
|---|---|---|---|
| Job registry (`src/job.rs`) | vector of records, next id; per record a cancel flag shared with its worker | `create`, `get`, `jobs_for_printer`, `set_state`, `set_failure`, `cancel` | called by handlers and workers |
| Printer registry (`src/printer.rs`, setters in `src/attributes.rs` and `src/server.rs`) | one record per printer: configuration, printer-state, reasons, loaded media, supply, uuid | setters, `set_ready_media` | written by workers, poller, media form |
| IPP handlers (`handle_ipp` in `src/server.rs`) | none of their own | the checks of every request, Print-Job, Create-Job, Send-Document, Cancel-Job, Cancel-My-Jobs, Close-Job, Identify-Printer, queries, and their answers | both registries; spawn workers |
| Print workers (`spawn_print_worker`) | the record and flag they were given, backoff | hold/retry loop over the print callback, which may panic, final cancel block, save | both registries, state file, the application's callback |
| Status poller (`src/status.rs`) | the round in progress | `poll_once` at every tick | printer registry, device backend, advertiser, state file |
| DNS-SD advertiser (`src/mdns.rs`) | name -> registered fullname; owned by startup, then by server and poller together | `register_all`, `publish`, `withdraw`, `is_advertised`, `Drop` | the mdns-sd daemon |
| Life of a server (`Server::run`) | how far it has come, and the runtime it runs in | register the adverts, start the poller, serve, return | advertiser, poller |
| Media form (`media_apply_handler`) | none of its own | snapshot, hook, write, save | printer registry, application hook |
| Persistence (`src/state.rs`, `Server::persist`, `bootstrap_printers`) | the state file | `load`, `save`, merge with discovery | printer registry, backend |
| Attribute builder (`src/attributes.rs`), flags (`src/flags.rs`) | none | pure functions from a record to IPP attributes | called by queries |
| Device backend, raster driver (`src/device.rs`, `src/raster.rs`) | the application's | `list`, `poll_status`, `identify`, `print` | external |

What is hard here, and what makes each component correct:

* **Job registry.** Ids identify jobs until the counter wraps, and are never 0;
  a finished job has a completion time; a cancel keeps an outcome.
* **Workers and handlers.** The workers of a printer, and of a job, are not
  serialized.  Each reads the cancel flag and takes locks one at a time, so a cancel,
  a second document or another worker can come between any two of its steps.
  Correct means: no job and no printer is left in a processing state with
  nobody to take it out; outcomes are earned; a cancel that comes in time keeps a
  document from printing; a cancel and a recovered device both bring a job to rest.
  A callback that panics ends its worker on the spot: what that leaves behind must
  stay with its own job and printer.
* **Requests and answers.** A client knows a job by a signed number or a URI that
  comes back in another request, and the parser hands over attributes in any
  order.  Correct means: the id that was answered finds the job; an answer to a
  cancel is true; the reasons a job shows fit its state.
* **Poller.** It filters printers by state, releases the lock, waits for the
  device and then writes.  Correct means: what a printer at rest shows is what its
  device last said; a device that is back makes its printer idle and advertised;
  one that is gone drops out of discovery.
* **Advertiser.** What it believes is registered, what the daemon serves, and who
  owns it change at different times.  Correct means: every service leads to its
  printer, and none outlives the last owner; a call that the daemon refuses confuses
  nothing but the service it was about.
* **Media form, poller and persistence.** A snapshot is taken, the lock released,
  and a decision written back or a file written, by any of four kinds of task.
  Correct means: the two media vectors stay aligned and list nothing twice; the
  roll in the device ends up the default; a swap survives a crash once it is saved.
* **Attributes.** The collections are computed from names, sizes, range and loaded
  roll, the supported sets from some of them.  Correct means: what is shown can be
  asked for, and a name is shown with its own size, or with the default for want of one.

`PROJECT.json` lists the hazards one by one at their lines, with the properties
that cover each, or why none does.

## 2. Modules

    IppTypes          the shared constants and enumerations
    JobRegistry       job.rs                              (EXTENDS IppTypes)
    PrinterRegistry   the records workers and poller write (EXTENDS IppTypes)
    PrintSpooler      handlers + workers     (EXTENDS JobRegistry, PrinterRegistry)
    SpoolPromise      what a client is promised about a job (abstract)
    IppOperations     the requests and their answers   (EXTENDS PrintSpooler)
    Advertiser        mdns.rs and the daemon              (EXTENDS IppTypes)
    StatusPoller      poll_once and the life of a server
                                         (EXTENDS PrinterRegistry, Advertiser)
    SpoolerPanics     callbacks that panic            (EXTENDS PrintSpooler)
    PrinterApp        SpoolerPanics and StatusPoller over one printer registry
    LoadedMedia       set_ready_media on a printer's configuration
    StateFile         persist, save and load          (EXTENDS LoadedMedia)
    MediaServer       poller, media form, saves, crash and bootstrap (EXTENDS StateFile)
    MediaAttributes   the media part of Get-Printer-Attributes (EXTENDS LoadedMedia)

    MCPrintSpooler    the symmetry set for the largest run
    MCStatusPoller, MCPrinterApp      a label for each printer
    MCMediaServer     a printer's factory configuration and what earlier runs left;
                      puts MediaAttributes on top of MediaServer

    JobRegistry_proofs, PrintSpooler_proofs, SpoolPromise_proofs, IppOperations_proofs,
    StatusPoller_proofs, PrinterApp_proofs, MediaServer_proofs, MediaAttributes_proofs
                      theorems and proofs

How state and steps correspond to the code:

* **JobRegistry.** `jobs` and `nextId` are `Inner`.  Every method holds the lock
  throughout, so it is one action.  `completed` abstracts `completed_at`,
  `canceled` the cancel flag.  The id width is the constant `IdLimit` (2^32 in the
  code), and the counter wraps to 1.
* **PrinterRegistry.** One record per printer with the two fields that the
  spooler and the poller write; one operator per hold of the lock.
* **PrintSpooler.** `tasks` is the sequence of print workers, each with a program
  counter.  A label names the next step; a step ends at the next lock or the next
  read of the cancel flag.  `done_*`, `fail_*` and `hold_*` are the three arms of
  the match on the outcome, `final` and `cancel_*` the block after the loop.  A
  worker keeps the position of its record (the flag it holds is that record's) and
  calls the registry by id.  `sweep` is what is left of the snapshot of a
  Cancel-My-Jobs request.
* **IppOperations.** One action per operation, with the response in `answer`; a
  step that answers nobody resets it.  `Refusal` is the table of the checks every
  request goes through.  `Wire` and `FromWire` are the casts between `u32` and
  `i32`.  `ExtractJobId` gives every value the code may return, since the attributes
  come out of a hash map.  `StateReasons` is `job_state_reason_keywords`.
* **Advertiser.** `registered` is the key set of `Advertiser.registered`, `services`
  the daemon's services, each a label and the printer its `rp` leads to, `holders`
  the owners that the reference count counts.  The daemon may refuse any call: a
  registration that it refuses is reported to the caller, the result of `unregister` and
  of `shutdown` is ignored.  `refused` is a history variable: the services that it last
  refused to unregister.
* **StatusPoller.** `run` says how far `Server::run` has come.  `round` says where
  each printer stands between the snapshot (`Tick`), the answer of its device
  (`Answer`, `NoUpdate`), the write under the lock (`UpdateRecord`) and the advert
  (`Publish`, `PublishFails`, `Withdraw`, `LeaveAdvert`): it is out of the round, to
  be polled, to be written, or to be reconciled.  `online` is external.  On its own
  the module lets the workers write any record at any time.
* **SpoolerPanics.** A panic takes a worker from its attempt to its end; `panicked` is a
  history variable: the workers whose callback panicked.
* **PrinterApp.** Interleaves the two; an attempt can print only while the device
  is online.
* **LoadedMedia.** `config` holds `media_names` and `media_sizes` of every registered
  printer, `ready` its `ready_media`.  A size is named by the roll it belongs to, so
  a size under the wrong name is visible.
* **StateFile.** `save` holds the calls of `persist` under way: snapshot, open (which
  empties the file) and write.  A write over another save's text gives the new text
  or a torn file; a failing save ends; `load` takes an empty or torn file for no
  printers.  `lone` is a history variable: the last save met no other, did not fail, and
  did not die with the file open.
* **MediaServer.** The poller from its tick to the save of a swap, the form from its
  range check through the awaited hook to its save, a worker's final save, crash,
  and bootstrap.  `survives` is a history variable: what a crash found saved.
* **MediaAttributes.** No state of its own: each attribute is an operator on a
  configuration and a loaded roll, with the width of a size as the only number.
* **SpoolPromise.** For each job Pending, Working, or one of three ends.  The
  refinement mapping `JobView` shows Working exactly while some worker of the job
  has a write to it ahead.

Definitions under the comment "A fault" are plausible wrong versions of the
definition that follows; no action uses them.  Each property is violated when one of
them takes the place of the right one (`mutants` in `PROJECT.json`).

## 3. Runs

`tlc -workers 2 -config <cfg> <module>`; spooler takes up to three minutes on two
workers, media about one, the others less.

| Run | Instance | Shows |
|---|---|---|
| job_registry | 3 jobs, 3 id values (0, 1, 2) | ids identify jobs until the counter wraps and are never 0; finished jobs are stamped; a cancel keeps an outcome |
| spooler | 2 printers (symmetric), 2 jobs, 2 documents, panics | a panic is contained; outcomes are earned; no worker takes its own work, or that of another printer, off the display |
| spooler_promise | 1 printer, 1 job, 2 documents, fair | no job is stranded, no printer stuck; refinement of SpoolPromise; the work on a job ends if devices recover, and a cancel ends it even if they do not; a job canceled in time is not printed; a worker repeats nothing but a hold |
| operations | 1 printer, 2 jobs, 1 document, 2 reasons, fair | an answered id finds its job; answers to a cancel are true; reasons fit the state; Cancel-My-Jobs leaves no job of its snapshot out |
| app | 1 printer, 1 job, 1 document, panics, fair | a stopped printer says why; recovery, and adverts that come back |
| adverts | 2 printers with 2 labels, a daemon that refuses calls, fair | every service leads to its printer, none is orphaned, the advert of a printer at rest follows its device, and every reconciliation has its effect, all but for the services that the daemon refused to unregister |
| media | 1 printer, 2 media, 1 form, 1 worker's save, failing disk, crashes, fair | aligned vectors, loaded roll is the default and can be asked for, attributes that agree, an unreadable file has a cause, saved swaps survive a crash, the roll in the device is eventually shown |

Five more runs each state one sentence of a doc or comment as it stands, and TLC
refutes it; the counterexamples and the quoted sentences are under `findings` in
`PROJECT.json`:

| Run | Sentence | What happens |
|---|---|---|
| completion_clobbers | a completion does not clobber a cancel | it does, between the check and the lock |
| poller_spares_processing | the poller never disturbs a Processing job | it writes after a stale snapshot |
| saved_is_current | a roll swap outlives the process | a worker's older snapshot is written over it |
| poller_outlives_server | the advertiser is held for the server's lifetime, and Drop withdraws all | the poller's task is detached, not aborted, and keeps the advertiser |
| closed_job_waits | jobs are finalized on Send-Document, so a close acknowledges that | a job without a document is closed and stays pending for ever |

More differences were met while reading and have no run:

* a terminal job that gets a second document leaves its terminal state
  (`job.rs:30` says that the registry does not transition out of these);
* the printer does not stay Processing for the life of a job when another worker of
  the printer ends first (`server.rs:998`; WorkIsShown says that nothing else takes it
  off the display);
* the completion time of a first print stays on a job that prints again
  (`job.rs:61` says `None` while active);
* the reasons of a held job are erased when another worker of the printer reports
  (`raster.rs:19`; WorkIsShown);
* a job of which one document failed and another prints, completes or is canceled goes
  on showing the reasons of the failure (ReasonsFitState leaves such jobs out, and says
  which they are);
* the reasons of a failure are assigned, not OR'd (`raster.rs:34`);
* the advert of an offline printer stays while a job is held, because a printer in
  Processing is not polled;
* a service that the daemon refuses to unregister stays, although its printer is offline
  (`status.rs:141` says that an offline one is withdrawn): the printer is forgotten
  before the daemon is asked (`mdns.rs:107-109`), and no round asks again until the
  device has been back (`ReconcileTakesEffect` and `RestingAdvertFollowsDevice` name the
  case);
* a configuration with names and no size gives collections with the default size, whose
  margin and dimensions are in no supported set (`attributes.rs:499` says that the
  supported sets contain every value), and a media-col-ready that is not in the database
  once a roll is loaded (the second disjuncts of `ShownIsSupported` and
  `ReadyIsSelectable`);
* a name beyond the list of sizes is shown with the default size, which changes with the
  loaded roll (`NamesKeepTheirSize`);
* a configuration without names and with a custom range gives media-col-default the
  name of the smallest custom size and the size of the default (`NamesKeepTheirSize`);
* a printer's uuid is made anew at every start, so the advert and a CUPS queue of an
  earlier run do not match (`mdns.rs:190`).

**Bounds.** `MaxJobs` and `MaxDocuments` bound the only growing state (records and
workers). Every race above needs at most two workers and a handler: on one job, on two
jobs of one printer, or on two printers, which two jobs and two documents include in
every distribution (run spooler). A third worker adds another writer of the same two
fields. `Reason` has one flag, OFFLINE, the only one that handlers, workers and poller
tell apart; operations has a jam besides, which a job shows by another keyword. The
theorems hold for any set. `IdLimit` is 3 in job_registry so that the counter wraps, and
4 in operations so that on the wire the first of two ids is positive and the second
negative. In adverts two printers are enough for a startup that fails between them and
for a label that is withdrawn while another stays; the property about labels holds for
labels that differ. In spooler any of the two workers panics, or both, at a first or a
later attempt, on one printer, on one job or on neither; the one worker of app is enough
for what a panic leaves to the poller. The one document of operations is handled while
its job is canceled, closed or queried; jobs with more documents are left to the theorem
about ReasonsFitState. Deadlock checking is on in every run: the handlers of Cancel-Job,
the switch of a device and the loading of a roll always have a step. In media, two
savers besides the poller are enough for any order of two overlapping saves and a third
between them; the configurations (both media with a size for the first only, or left by
an earlier run with one name and no size, or with none) reach every shape of two aligned
vectors over two media, and of the widths one is beyond the head's reach, one within it.
The state space is finite without a bound on crashes, rounds or requests.

**Fairness.** Weak fairness of each worker: tokio runs every spawned task, a backoff is
at most 30 s, and the print callback returns. Weak fairness of the rest of a sweep: it
is a loop in a handler. Weak fairness of startup, a loop over the printers, and of the
poller, whose ticker keeps ticking. Strong fairness of `Answer` and of `Publish`: a
backend that may skip updates answers sometimes, and a registration that may fail
succeeds sometimes (an `unregister` need not, as nobody asks twice); in media also of a
tick that finds the printer at rest. Strong fairness of a conclusive attempt: a device
that is asked again and again prints or fails. It is the premise of `KeepsPromise`
(`DeviceRecovers`) and part of app, where the printer is online; `CancelBringsToRest`
does without it. No client, no crash, no panic, no end of a server, no power switch and
no change of roll is fair.

## 4. Theorems

`tlapm <module>_proofs.tla`.  Assumptions: `OFFLINE` is a reason, `IdLimit > 1`, the
bounds are naturals; in the spooler `MaxJobs < IdLimit` (the counter does not wrap;
without it a lookup by id can find an older job, which is the code's behaviour too);
every printer has a label; make_config and earlier versions give aligned vectors
without duplicates; startup, poller, requests to the form and workers are different
tasks; widths are naturals and the bookends are not rolls.  Every invariant and every
action property that a passing run checks is proved.

The specifications implement each other, so that what is proved of the lower one
holds in the upper one:

    OpSpec  => SpoolSpec => JobSpec          requests, spooler, registry
               SpoolSpec => SpoolPromise     the promise to the client
    AppSpec => PollSpec                      the poller with real workers
    AppSpec => JobSpec
    AppSpec /\ [](no callback has panicked) => SpoolPromise

`AppSpec => SpoolSpec` does not hold, because the poller writes the printers'
records: what the spooler's invariants say in the application is proved again there,
from the same lemmas about a step of the spooler.

Job registry, for any id width, also across the wrap:

* `JobTypeCorrect`, `FinishedJobsAreStamped`, `CancelKeepsOutcomes`: a call either
  appends a fresh record or writes one (`RegistryStep`), and what it may write is one of
  three things (`WrittenRecord`).
* `IdsAreSound`: `JobTypeOK` says nothing of the order of ids; `IdsCount` adds that the
  id of a job is its position as long as the counter has not wrapped.

Spooler:

* `SpoolTypeCorrect`: types.  The inductive invariant `SpoolBase` adds `JobIds` (the
  id of a job is its position, and the next id is free) and `TaskJobs` (every
  worker was spawned for a job).  It is what makes "the record whose flag I hold"
  and "the record found by its id" the same one, on which everything else rests.
* `PrinterIsFreed` (NoStuckPrinter) and `JobIsSettled` (NoStrandedJob): by the
  invariant itself, given `SpoolBase`.  The key steps are `FreeStep` and
  `SettleStep`: a worker that still will free its printer or settle its job keeps
  doing so until it does, because cancel flags are never cleared.
* `WorkStaysShown` (WorkIsShown): a step of a worker writes the record of its own
  printer only (`DisplayStep`), sets it Idle only on its own way out, and reports only
  its own reasons; what a worker shows is thus taken off by itself, when it no longer
  uses the printer, or by another worker of the same printer, in the steps named.
* `OutcomesAreEarned` (OutcomeIsEarned): every change of a job's state is one of
  five (`JobRecordStep`), and the last outcome of a worker, with its reasons, stays with
  it.
* `CanceledInTimeIsKept`: the step before an attempt reads the flag, flags are never
  cleared, and only an attempt leads to the arms that write an outcome.
* `OnlyHoldsAreRepeated` (OnlyHoldsRepeat): `StepsLeft` is a measure on the labels, at
  most thirteen; every step of a worker lowers it, except a retry, and `HoldOutcome`
  says that who retries was told that its device is not available.
* `SpoolerUsesRegistry`: the arguments that handlers and workers pass are those of
  `JobNext`, for which `SpoolBase` gives the types.  `SpooledJobsAreSound` follows.
* `SpoolerImplementsPromise`: every step maps to a step of `SpoolPromise` or a
  stutter.  Besides `NoStrandedJob` it needs `Touched`: a worker past its second
  step never finds its job Pending.  `OneJob` shows that a step changes the view
  of one job at most, and then there are four cases: it was worked on or not,
  before and after.
* `CanceledJobsRest`: a canceled job is over or has a busy worker, since a cancel takes
  a job out of Pending for good.  With `OnlyHoldsAreRepeated` this is all of
  `CancelBringsToRest` but the fairness: each busy worker has at most thirteen steps
  left, and the job is over when they are done.
* `SweptJobsAreCanceled`: a job leaves the snapshot of Cancel-My-Jobs only in a terminal
  state, which is all of `SweepReachesEveryJob` but the fairness of the loop.

Requests:

* `OpTypeCorrect`; `RequestIsSpoolStep` shows that every request is a step of the
  spooler or leaves it alone, so `SpoolBase` holds here too.
* `AnsweredIdsFindJobs`: `WireRoundTrip` (an id survives the casts for every width)
  and `FoundIsPosition`.
* `CancelAnswersAreTrue`: the answer is computed from the record that the cancel leaves.
* `ShownReasonsFit`: the inductive invariant `ReasonsAreOfFailure` says that a record
  with reasons has a worker whose failure is on record (`HasFailed`), and is Aborted if
  the job has no other document (`LoneFailure`).
* `RequestsAreSpooled`, `ClientsAreServed`, `RequestsUseRegistry`: the refinement, and
  what it carries over to whatever clients send.

Panics, in `PrinterApp_proofs`:

* `PanicsAreContained` (PanicIsContained): by the invariant itself.  A panic moves one
  worker to its end, which then counts as the one that died; every other worker stays on
  its way (`SpoolFrees`, `PanicFrees`).
* `PanicsLeaveTheRest`: a worker that panics keeps the outcome of the attempt before,
  goes past every label that depends on one, and touches no display.

Poller, advertiser, application:

* `PollTypeCorrect`, `AdvertsAreHome`, `NoAdvertIsOrphaned`.  The last holds for labels
  that collide as well; its strengthening `AdvertInv` says that every service has the
  label of a registered printer or was refused, and that an advertiser without an owner
  has none but refused ones.
* `ReconcilesTakeEffect` (ReconcileTakesEffect): `AdvertInv` says besides that a
  registered printer with a label of its own has its service (`OwnLabelServed`), which
  stays true when other printers collide, so `is_advertised` can be relied on when it
  says yes; when it says no, the only service left is one that was refused (`ServicesOwned`).
* `AppTypeCorrect`, `StoppedPrinterSaysWhy`, `PanicStaysContained`.  `AppStepKinds`
  splits the steps of the application into those of the spooler, those of the
  poller, which write a record only with the answer of its device, and panics, which
  move one worker to its end.  Each invariant then takes one lemma per kind, and the
  one for the spooler's steps is that of `PrintSpooler_proofs`.
* `AppImplementsPoller`: the spooler, seen from the poller, is `WorkerWrites`.
  `AppAdvertsAreHome` follows, `AppUsesRegistry` goes the same way.
* `AppOutcomesAreEarned`, `AppCancelsAreKept`: a panic leaves the outcome of the attempt
  before in place and lowers `StepsLeft`, so what holds of the spooler's workers holds of
  those that may panic.
* `NothingIsStrandedWithoutPanic`, `AppImplementsPromise`: what a panic breaks, and
  nothing else does.  The second is about behaviours without one: `PanicStaysContained`
  gives `NoStrandedJob`, and then each step is one of the spooler or leaves jobs and
  workers alone.

Media and saves:

* `MediaStaysTidy` and `LoadedIsDefault` (TidyMedia, DefaultIsLoaded).  The
  inductive invariant `MediaInv` follows a configuration round its circle: from
  make_config or the file into the registry, from there into the copy of a save, and
  back into the file.  `PlaceFirstIsTidy` is the heart: removing a roll from both
  vectors, from one or from none, and inserting it in front of both, keeps them aligned.
* `LoneSavesAreCurrent`: `SavedInv` adds that a save past its snapshot that thinks
  itself alone is the only one past its snapshot, and that its copy is current or a
  change still waits to be saved.
* `UnreadableFilesHaveCause` (UnreadableFileHasCause): `SavedInv` says what a lone save
  finds in the file, and `OneSavePerTask` that no call of persist takes the place of
  the save that has emptied it: the poller polls nothing while it saves, and a request
  ends with its save.
* `SwapsOutliveTheProcess`: `DownIsQuiet`, which says that nothing touches the file
  while the server is down and that what the crash found saved is in it.
* `ServerTypeCorrect` (MediaTypeOK): the types of the configurations and the saves are
  parts of the two invariants, the others are three groups of variables.
* `CollectionsAreSupported`, `ReadyCanBeAskedFor`, `NamesAreNotMixedUp`: the attributes
  are functions of a configuration and a loaded roll, so the three follow, state by
  state, from `Shown`, which `MediaInv` implies.  They hold for any widths and any head,
  with the exceptions that the properties name: printers that list no size, no name, or
  fewer sizes than names.

Liveness under fairness and ENABLED are out of the prover's reach; of `CancelBringsToRest`
and `SweepReachesEveryJob` the safety half is proved, see above.  Model-checked only:
`KeepsPromise`, `CancelBringsToRest` and the fairness part of the promise,
`SweepReachesEveryJob`, `OnlineRecovers`, `OnlineIsAdvertised`,
`RestingAdvertFollowsDevice`, `LoadedIsShown`.

## 5. Not modelled

* Queries other than the media and the job-state-reasons: most of the attribute
  builder is a table of constants (operations, formats, resolutions, icons), and the
  filter by requested-attributes and by my-jobs selects from it.  The printer's
  reason flags are a table too; the reasons are the constant `Reason`.
* The bytes of a request: `operation_attributes_well_ordered` walks the raw message and
  is one of the outcomes of `Refuse`; the parser is the ipp crate's.  Attributes that
  only the print callback reads (format, quality, copies) are handed through.
* The supply level, which only queries read, and the pages of the media form.
* StatusPoller and MediaServer model two parts of one task separately: the first has
  the printer-state, the second the roll.  The two share no state in the code but the
  order of their steps within a round.
* Two devices whose names collide, in the registries; two printers whose labels
  collide, in the properties of Advertiser other than NoOrphanAdvert.  TXT records
  other than `rp`, host name, interfaces and addresses.
* Time, the overflow of a width (the range check is the set `InRange`), wording and
  length of messages, logging, payloads, HTTP and the wire format.
* A panic outside the print callback: the lock does not poison, and the request or
  task ends.
* Device backends and raster drivers are the application's, and appear as the
  environment of poller and workers.  Examples and tests were read as documentation.

## 6. Plan

1. The supply level and the roll in one round of the poller, so that StatusPoller and
   MediaServer become views of one module.
2. Registries with names: lookups by name where two devices share a slug, and what a
   document sent through the path of another printer shows.
3. The walk over the bytes of a request, against the order of the attributes that a
   client encoded.
4. The filter of Get-Jobs, and my-jobs, against what Cancel-My-Jobs cancels.
5. Proofs: the promise job by job, so that a panic in the worker of one job leaves what
   is promised of every other job (`AppImplementsPromise` assumes that no worker panics);
   that every configuration in the state file is one the server once showed; the safety
   half of `RestingAdvertFollowsDevice`.
