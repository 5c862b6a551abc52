# A TLA+ model of personal-web

personal-web is a single Go binary: a PostgreSQL-backed site with one Author,
who writes Posts and Pages through the Admin screens of a browser. This
directory holds TLA+ modules of its core logic, TLC configurations that check
them on small instances, and TLAPS proofs for every value of the constants.

Run from this directory: `tlc -config MCEditor.cfg MCEditor`,
`tlapm EditorProofs.tla`, and likewise for the others.

## 1. The system

| Component | Code | State it keeps | Operations | Talks to |
|---|---|---|---|---|
| Content store and schema | `internal/content`, `internal/database/migrations` | tables `posts`, `pages`: slug (unique), title, body, `published_at` | create, update, read by ID or slug, list by page and query | Admin editor and lists, by single autocommit statements |
| Admin editor | `internal/admin/writing.go` | none between requests; a goroutine holds what it has read | new, edit, explicit save, Publish now, autosave | store; answers to the browser |
| Editor form | `internal/view/form.templ` | in the page: the ID it posts to, the autosave element and its trigger | timer every fifteen seconds, buttons, swapping answers in | editor, over htmx |
| Admin lists | `internal/admin/lists.go`, `internal/view/posts.templ` | in the page: the region, its query, the next page | search, load more | store; answers to the browser |
| Login, limiter | `internal/admin/auth.go`, `ratelimit.go` | in memory: attempts per address and window | login, logout, `allow`, `reset` | sessions, password hash |
| Sessions | `internal/admin/session.go` | none; the signed cookie carries issue and expiry | issue, verify, clear | every Admin request |
| Migrations | `internal/database/migrate.go`, `internal/cli/migrate.go` | table `schema_migration`, a PostgreSQL advisory lock | up, down, status, pending | `serve`, which refuses to start while any is pending |
| Server lifecycle | `internal/server`, `internal/cli/serve.go` | listener, requests in flight | start, health checks, drain on a signal | database connection |
| Configuration | `internal/config` | variables, Config Files and flags; one value, read at start | `Load`, `Validate`, `config show` with its redaction of secrets and DSN | everything |
| Password hash | `internal/admin/password.go` | none; the hash is a setting | `HashPassword`, `VerifyPassword` | `admin hash-password`, login |
| Rendering, assets, version, other commands | the rest | none | pure functions and output | |

### What is hard

* Every request is a goroutine, and no handler uses a transaction. Autosave is
  three statements (two SELECTs and an UPDATE of every column), so anything may
  commit between them.
* The browser is part of the protocol. htmx drops the answer to a request whose
  element has been replaced, does not swap a 500, and keeps one request per
  element in flight; whether a form goes on autosaving depends on the last
  marker it was sent.
* Answers are lost and requests repeated: a first save may commit and the form
  that sent it still have no ID.
* The clock publishes: a scheduled date arrives between two steps.
* Migrators of different ages run at once, die between two migrations, and hold
  their lock on a connection that may be cut.
* Pages are cut by offset while the table changes.
* A date goes to the browser and back as minutes of a wall clock that skips and
  repeats hours, and the zone it is read in may not be the one it was drawn in.
* A setting has four places to come from, and the output of `config show` is to
  be one of them.

### What makes each component correct

* **Editor.** A save stores exactly what was sent, once, or nothing. An autosave
  changes the text of a Draft and never a date or what the public reads. The
  schema's promises hold. A form stops asking when its writing is public, not
  before, and until then goes on hearing what became of its text.
* **Lists.** The region is of one query, in order, without repeats, and complete
  when it offers no more.
* **Migrations.** A migration is applied on top of the older ones; down takes
  the newest; a successful up leaves nothing pending; whoever waits for the lock
  is not left waiting.
* **Login.** At most the limit of hashes per address and window; a success clears
  the window; a session lives until its expiry and no longer.
* **Server.** Requests in flight at the signal are answered or outlived by the
  shutdown timeout, and a server starts only on a schema it knows.
* **Configuration.** Flag over environment over file over default, for every key;
  nothing is served that `Validate` refuses; what is shown can be pasted back;
  the password of the hash logs in, whichever release made it.
* **Publication Date.** What is shown after a save is what was saved, and saving
  for the sake of the text does not move the date or publish.

PROJECT.json lists each hazard at its line with the properties that cover it.

## 2. The modules and the code

| Module | Models | Extends |
|---|---|---|
| `Content` | a row, Draft/scheduled/public, the constraints and when a write is refused | |
| `Writing` | **abstract**: what the editor promises the Author | `Content` |
| `Drafting` | **abstract**: `Writing` with autosaves that look before they write | `Writing` |
| `DraftingProofs` | how the two abstract specifications differ | `Drafting` |
| `Editor` | `writing.go`, the tabs that drive it, and the table | `Content`; maps to `Writing` and `Drafting` |
| `EditorProofs` | the theorems about `Editor` | `Editor` |
| `PublicationDate` | the date between the row and the forms: zones, clock changes, seconds | |
| `PublicationDateProofs` | the theorems about `PublicationDate` | `PublicationDate` |
| `Migrations` | `migrate up` and `down` of several processes and binaries | maps to `Schema` |
| `Schema` | **abstract**: what the migrators' lock promises of the database | |
| `MigrationsProofs` | the theorems about `Migrations` | `Migrations` |
| `Listing` | a list screen: search, load more, the queries, the swaps | |
| `ListingProofs` | the theorems about `Listing` | `Listing` |
| `Limiter` | login attempts, the limiter in front of the password hash | |
| `LimiterProofs` | the theorems about `Limiter` | `Limiter` |
| `Server` | `serve` of several deployments, the browser's session, requests in flight | |
| `ServerProofs` | the theorems about `Server` | `Server` |
| `EffectiveConfig` | package `config` as operators: merging, decoding, `Validate`, `config show` | |
| `Deployment` | the operator edits sources and starts processes; the password hash | `EffectiveConfig` |
| `DeploymentProofs` | the theorems about `Deployment` | `Deployment` |
| `MCEditor`, `MCPublicationDate`, `MCMigrations`, `MCListing`, `MCLimiter`, `MCServer`, `MCDeployment` | small values of the constants for TLC | the above |

Posts and Pages go through the same code (`resource`, `listPosts`/`listPages`)
with the same columns and constraints, so each module is of one of the two.

A definition whose comment starts with **Slip** is not part of a specification.
It is a mistake the definition after it could have had, kept to show that a
property tells the two apart (see "mutants" in PROJECT.json).

### Editor

State of the program: `rows` is the table; `now` the clock, which the server and
the database are taken to share; `form[t]` what tab `t` shows, that is, whether
an editor is open, the ID its action URL names, and whether its autosave element
has a trigger; `req[r]` a goroutine with the request it serves: where it is, the
element that waits (`tab`), the ID, the submitted text and date, the date it has
read (`seen`), and `view.Form.Autosave` of its answer.

History only, read by no action: `saved` (the dates explicit saves have stored),
`overtaken` (how far an autosave was when another request wrote its row),
`checkedAt` (when it found its row unpublished).

| Code | Actions |
|---|---|
| `blank`, `edit`; leaving, or the 401 of a lapsed session | `Blank`, `Edit`, `Leave` |
| `save`, `submitted`, `resource.create`, `resource.update` with the date | `Submit`, `SubmitMalformed`, `SaveRejected`, `SaveCreates`, `SaveUpdates` |
| redirect, 422 and what htmx does with them | `DeliverRedirect`, `DeliverRejection` |
| `autosave`, `load`, `resource.update` without the date | `AutoFire`, `AutoLoad`, `AutoRefused`, `AutoAllowed`, `AutoReread`, `AutoStores`, `AutoNotSaved` |
| the marker replacing the marker | `DeliverMarker` |
| 500, a cut connection, an answer nobody waits for | `Fail` |
| time | `Tick` |

One SQL statement is one action. The SELECT of an explicit save is folded into
its UPDATE: nothing it returns is kept and rows are never deleted. `Fail` may
come before or after the write, so a committed save whose answer is lost is
included. What a tab holds in its fields is not state: the text and date a
request carries are chosen when it is sent, which covers every way of typing.
An UPDATE writes the date the goroutine has read, which is how an autosave that
is overtaken puts an old date back.

Two abstract specifications say what all this amounts to. In `Writing` an
autosave is one step, `Revise`, of a row that is not public, and its date stays.
The code keeps to that where no other writer comes between (`Isolated`), which
nothing in it brings about. `Drafting` is what it keeps to always: an autosave
has looked at the row (`Begin`), goes on if the date it saw has not arrived
(`Admit`), looks again (`LookAgain`), and writes its text to that row with the
date of its last look (`PutBack`), or ends without a write (`Abandon`).

| `Drafting` | `Editor` |
|---|---|
| `asked` | `AllSent`: the saves in flight and undecided |
| `drafts` | `AllLooked`: the autosaves past their first read, without their tabs |
| `Begin`, `Admit`, `LookAgain`, `PutBack` | `AutoLoad`, `AutoAllowed`, `AutoReread`, `AutoStores` |
| `Abandon` | `AutoRefused`, `AutoNotSaved`, `Fail` of such an autosave |
| `Ask`, `Create`, `Save`, `Drop`, `Elapse` | `Submit`, `SaveCreates`, `SaveUpdates`, `SaveRejected` or `Fail`, `Tick` |
| a stutter | screens, answers, the timer |

### PublicationDate

`Editor` takes the date field for the date. Here it is what it is: whole minutes
of a wall clock. `stored` is `published_at` of one row, in half minutes, enough
to tell an instant from its minute; `zone` the process's `admin.timezone`;
`form[t]` what the field of a tab holds, and, as history, how it came to (`by`,
`from`, `in`). A zone has an offset before one change of the clock and another
after it: a field is near one change at most.

| Code | Definitions |
|---|---|
| `time.Date`, and `Format` with the editor's layout | `Read`, `Shown` |
| `formOf`, `parsePublishedAt` | `FormOf`, `Parsed` |
| GET; the Author typing | `Edit`, `Type` |
| `save`, Publish now, and Publish now refused for another field | `Save`, `PublishNow`, `RefusePublishNow` |
| a process with another zone; time | `Redeploy`, `Tick` |

A request is one step here, because its statements are those of `Editor`. A
value that does not parse never gets that far (`Parses`). A form that has been
drawn under one zone and is saved to a process with another is read in the
latter: the code keeps no zone with a form, and `ResaveKeepsDate` leaves that
case open, as it does that of a form another one has overtaken.

### Migrations

`applied` is the table `schema_migration`, `proc[p]` a run of the binary with
the versions left to go through, `holder` the advisory lock, and `lost` (history
only) that the lock's connection has been cut under its holder. `outdated`
(history only too) holds the runs since whose start another one, a down, has
taken a migration away. `Known[p]` is what the binary of `p` embeds, any set of
the migrations: one may be older, or of a branch that was merged behind newer
migrations (ADR-0007). `StartDown`
looks at what is pending before the lock, as the code does; `Count` and `Begin`
are pop's count of rows and its check of each version; `Commit` is one
migration's transaction; `Stop` is an error or a crash. A crash during a
transaction is `Stop` before or after its `Commit`. Pop itself is outside the
repository and is modelled from the way `migrate.go` describes and uses it.
`migrate status` only reads and is left out, and a missing table is an empty one.

`Schema` is the promise of the lock: a height, and one migrator at a time who
goes up or down by one. `ImplementsSchema` maps the height to the number of
versions applied and the turn to the lock's holder, for as long as no lock is
lost; a crash in the middle is a `LeaveTurn` like any other. `Server`'s
`MigrateUp` and `MigrateDown` are `Climb` and `Fall`, which is what allows it to
take migrations for a counter.

### Listing

`table` is the rows in list order, `screen` the region, `find` and `more` the
requests of the search form and the button, which are two elements and so may be
in flight together. `Answered` is one SELECT followed by `trim`. What matches a
query, and the order of rows, are data. `shifted` (history only) records a
change to the table since a region was answered.

### Limiter

`windows` is the limiter's map, `attempt[r]` a goroutine in `login` with the
clock `allow` read for it, and `granted` (history only) when each address was let
through to the hash since its last success. `Post` reads the clock; `Allow` and
`Refuse` are `allow` under the mutex, purge included; `HashFails`, `HashMatches`
and `Reset` are the rest of `login`; `Restart` is a new process. A count stops
growing once it is past the limit, where its value makes no difference.
`MaxDelay` bounds how long an attempt may wait between its reading of the clock
and the mutex. The session a success issues belongs to `Server`, where whether a
password is right is left open.

### Server

State of the program: `proc[p]` a process of one binary (how far `serve` is, the
secret it was configured with, whether it has been signalled, how long
`Shutdown` has waited); `schema` how many migrations are applied; `jar` the
browser's cookie; `req[r]` a request, the process that accepted it, and the
cookie it carries. A cookie is the secret it is signed with and what is left of
it, in ticks from now, so the clock needs no bound; `phase` is where now lies in
its second, because the expiry is signed in whole seconds.

History only: a cookie's `age`, and `rolledBack` (a `migrate down` since the
process looked at the schema).

| Code | Actions |
|---|---|
| `serve`: `database.Open`, `requireCurrentSchema`, the listener; any of them failing | `Start`, `Open`, `CheckSchema`, `Listen`, `Quit` |
| `signal.NotifyContext` | `Signal` |
| `Run`: `Shutdown` and its timeout, an error of `Serve`, the return of `serve` | `Shutdown`, `Drained`, `TimedOut`, `ServeFails`, `Exit` |
| a kill or a panic | `Crash` |
| `New`, `requireSession`, `rejectUnauthenticated` | `Send`, `NotMounted`, `Admit`, `Reject` |
| `login` (its success), `logout`, every other screen | `Login`, `Logout`, `Answer`, `AnswerMissing`, `AnswerClosed` |
| the browser, `migrate`, time | `Forget`, `MigrateUp`, `MigrateDown`, `Tick` |

An answer may be lost, and the cookie it sets with it. A connection reaches only
a process whose listener is open; what is already accepted goes on while the
process drains. `serve` closes its database connection when `Run` returns, under
whatever handlers a timed-out `Shutdown` has left (`AnswerClosed`), and `Exit`
ends those. So the comment at `server.go:21`, that `Run` returns only once the
server has stopped, is true of the listener and, after a timeout, not of the
handlers; `CutOnlyAfterTimeout` says when that can be. `migrate` is here a
counter: how it gets to the next version is `Migrations`, by way of `Schema`.
That takes history to be linear; a branch merged behind newer migrations is left
to `Migrations`.

### EffectiveConfig and Deployment

`EffectiveConfig` has no state. A source is a function from the keys it sets to
values: a value that does not parse is `Malformed`, a key the program does not
have is `Typo`, and an empty variable is not there. `Merged` is viper's lookup,
`KnownKeys` the reason it finds a key that only the environment sets,
`Decodes` is `Unmarshal` with its unused keys, `Validate` is the method, and
`Shown` is `config show`, secrets and DSN redacted. The names of sections are
left out, and a URL is whether it is usable and its password.

`Deployment` is the operator around it: `env` and `files` (of `--config`, of the
working and the home directory), `release` (the argon2 parameters of the
installed binary), and `process`, the Effective Config a process was started
with and keeps. Two histories say whose hash that is: `given`, by source, the
password its hash was made of, and `opens`, that of the hash in force when the
process started.

| Code | Actions |
|---|---|
| the environment and the files, external to the program | `SetVariable`, `UnsetVariable`, `WriteKey`, `SpoilFile`, `Install` |
| `admin hash-password` into the variable, or into a file | `SetPassword`, `WritePassword` |
| `config show` into a file | `PasteShown` |
| `serve` as far as `Load`, its end | `Serve`, `Stop` |

`HashPassword` and `VerifyPassword` take argon2 to give different keys for
different passwords or parameters; the salt makes no difference to that. A hash
that is not an encoding (`Garbage`) passes `Validate`, the process starts, and
no password logs in: `password.go:14` speaks of a hash that is reported at
startup, and `OnlyItsPasswordOpens` says what does happen.

## 3. What TLC checks

| Run | Question | Bounds |
|---|---|---|
| `editor` | what creates, saves and autosaves may do to the table in any order, and what makes a form stop autosaving | 2 rows, 2 tabs, 2 requests in flight, a good and a bad text, no date / a scheduled one / one that does not parse, clock 0..1 |
| `editor_live` | that a form stops asking, and hears back while it asks; that each step is one of `Drafting`, and each without an overtaken autosave one of `Writing` | 1 row, 1 tab, 2 requests |
| `editor_date` | **violated**: autosave "never writes the Publication Date" | 1 row, 1 tab, 2 requests |
| `editor_rejected` | **violated**: a Draft "is saved continuously as it is written" | 1 row, 1 tab, 2 requests |
| `migrations` | what an up applies and leaves, which migration a down takes and when over what is pending, the turns of `Schema`, and the wait for the lock | 3 versions; a current binary and one that lacks the newest migration, both up and down, and one of a branch that lacks the oldest; `--step` 1 or 2 |
| `migrations_pending` | **violated**: down "refuses to run while anything is pending" | the same versions; two current binaries, up and down, and the branch |
| `listing` | one query, in order, lacking at most the extra rows and one for each save in between | up to 7 rows, pages of 2, two queries, two changes |
| `listing_complete` | **violated**: `NextPage` is "0 when the listing is complete" | the same, one change |
| `limiter` | how many hashes an address gets, and when it is refused | 2 addresses, 2 attempts in flight, limit 2, window 3, delay 1, clock 0..5 |
| `server` | who is let in and turned away, what shutdown cuts off, what a rollback takes from a server, and that a signal ends a process | 2 processes, of an old binary and one that knows a migration more, with no secret or one of two; 1 request; seconds of 2 ticks, sessions of 3, timeout of 1 |
| `deployment` | which source a process has each setting from, whether what is shown can be pasted, and who can log in | 3 edits of 10 keys and values, alone or together all right, out of range, unparsable or unknown; 3 sets of flags, 2 releases, 2 passwords |
| `dates` | what becomes of a date on its way through forms and zones | 2 tabs; 4 zones, east and west of UTC, whose clock goes 2 minutes forward or back at minute 2; 2 typed minutes; clock 0..8 in half minutes; 1 change of zone |

Why these bounds are enough. A race in the editor is between two requests on one
row; a slug clash is between two rows; detaching needs two requests of one tab,
and two tabs give the case of another tab publishing. Two clock values let a
scheduled date arrive between any two steps. The theorems below remove these
bounds from every safety property but `SavesCostARowEach`. The texts of `editor`
share one storable slug, so a row cannot be renamed there: with two such slugs
the run has over ten million states. `SchemaAlwaysHolds` and
`AutosaveStopsForPublishing` are for any texts and rows. Three versions with a
binary that lacks the last and one that lacks the first put every version at
either end of pop's slices and make the schema fall out of order in the middle
(1 and 3, when the older binary has rolled back 2 under 3); two rollers give the
race of two downs. Seven rows are two pages of 2 + 1 and one row over, and two
saves fall on either side of a page boundary or on two of them; both bounds of
`SavesCostARowEach` are met there. Three windows of the limiter, one opened
late, fit in its clock: without the delay `HashesBounded` is violated there, so
the bound is tight. A session of one and a half seconds issued at either half
loses nothing or a half to rounding; two secrets give a rotation and the old
process's last requests; each property of `Server` is about one request and the
processes around it. Three edits are a value that breaks a rule, one that mends
it or hides it, and the paste; one more would repeat one of them. A zone of
`dates` differs from a real one in the size of its change, which the theorems
leave open; its clock goes past the change in every zone, and half minutes are
the least that tell Publish now from its minute. Symmetry is used only where the
properties are safety properties; tabs, requests and IDs are interchangeable in
them.

Deadlock is checked in every run.

### Fairness

`Editor!FairSpec`: each request is served on or fails (weak fairness: a goroutine
or its timeout does not hang). The timer of a form that asks fires again and
again, and the store and the network do not fail every autosave, so each of its
steps that keeps becoming possible is taken in the end (strong fairness per
tab: single failures are allowed, unbroken failure is not). Nothing makes the
Author act, and the clock need not move.

`Migrations!FairSpec`: a statement is answered or fails (weak), and PostgreSQL
serves the queue for a lock in order, so nobody is passed over for ever
(strong, for `Acquire`).

`Server!FairSpec`: time passes, and a process takes the step of `serve` that
stays open to it (weak, for each). Nothing is asked of a handler: it may never
answer, and the process must end all the same.

`Listing`, `Limiter`, `Deployment` and `PublicationDate` assume none. The
violation runs of action properties use the fair specifications, so what they
show is not a system that merely stopped.

### Findings

1. An autosave overtaken between its second read and its UPDATE puts the old
   Publication Date back (`editor_date`): writing just published becomes a Draft,
   or withdrawn writing becomes public again. `writing.go:207` says it never
   writes the date. `AutosaveMovesDateOnlyIfOvertaken` shows that this is the
   only way.
2. A Draft whose save is refused with a past date typed stops autosaving
   (`editor_rejected`): `submitted` takes the typed date for the stored one.
   `OnlyPublishingStopsAutosave` shows that a refused save is the only way.
3. A `migrate down` that waited for the lock behind another down runs with a
   migration pending (`migrations_pending`): `migrate.go:78` looks before the lock
   and not after it. `README.md:155` and `migrate.go:67` say that it refuses.
   `RunsWithPendingOnlyBehindADown` shows that nothing else leads there. What is
   pending is most often the newest, where pop's arithmetic stands; if an older
   binary has rolled back from under newer migrations, it is not, and then the
   down takes what is not the newest (`RollsBackNewest`), as the comment in
   `migrate.go` fears.
4. With `perPage` shown and `perPage + 1` asked for, each page boundary loses a
   row (`listing_complete`): the 51st post is never listed.
   `LacksOnlyExtraRows` shows that nothing else is lost.

Shown by the properties, and no disagreement with what is written:

* An older binary finds nothing pending in a database that a newer one has
  migrated (`migrate.go:145`), and its `migrate down` takes its own newest
  migration from under the newer ones. "Newest first" (`README.md:61`) is of what
  the binary knows: that is what `RollsBackNewest` says.
* A save between two "load more" repeats a row or hides one, as offsets do.
  `SavesCostARowEach` says that it is one row for each save.
* An `up` whose lock has been lost leaves nothing pending all the same, as long
  as only other ups run beside it (`Unguarded`).
* In an hour that comes twice, a date is read as one of its two instants. East of
  UTC that is the second: a Publish now in the first pass, saved again for its
  text, moves an hour ahead and takes the writing back for that hour. West of
  UTC it moves an hour back. `ResaveKeepsDate` says that this is all.

## 4. What is proved

`EditorProofs`, from `EditorAssumption`, `ContentAssumption` and
`NoRowAssumption`:

* `TypeCorrect`, `AutosavesNameRows`, from the inductive invariant `Core`: every
  form and request names an existing row or none (`FormOK`, `ReqOK`), and while
  an element waits for an autosave its form is the one that sent it
  (`AttachedOK`). The last is what makes a delivered marker safe: the form whose
  trigger it switches on has a row. Type correctness alone is not inductive,
  because a read of a row that does not exist would not be a date.
* `SchemaAlwaysHolds`: every write is preceded by the refusal check in the same
  statement; `SchemaStep` shows that one write keeps `RowsSound`.
* `DatesComeFromSaves`, `AutosaveKeepsDates`, `AutosaveSparesPublished`, from
  `DateInv`: a date an autosave has read was saved, and unless it was overtaken
  since (`ReadHolds`) is still the row's. The invariant follows every autosave
  through its program counter, and `overtaken` says from which read it can no
  longer be trusted.
* `EditorImplementsWriting`: each step in which no autosave is overtaken is a
  step of `Writing` or a stutter, whatever came before it, with `asked` mapped
  to the saves that are in flight and undecided. A press is `Ask`, a save is
  `Create` or `Save`, a rejection or a failure is `Drop`, a stored autosave is
  `Revise`, and all else stutters. Isolation is an assumption about autosaves
  only (`Isolated`), one the code does not enforce: finding 1 is what happens
  without it. `IsolatedEditorIsWriting` is the whole refinement, of the editor
  whose autosaves are all isolated.
* `EditorImplementsDrafting`: every step is one of `Drafting` or a stutter, with
  no assumption about what comes between. It needs `Core` only: an autosave
  that is past its first read names a row that exists and a text it was sent
  (`RunsOnRow`). `LookedComes`, `LookedBecomes` and `LookedGoes` are what the
  step of one request does to the set of drafts; `SaveImplements`,
  `PressImplements` and `LossImplements` are shared with `Writing`, since the
  explicit saves are the same in both (`SameExplicit`). `DraftingProofs` says
  what the difference comes to: `UndisturbedIsWriting`, for any texts and dates
  that a table may hold (`Typable`), is that `Drafting` in which each write
  finds the row as it was seen, and still not public, is `Writing`.
* `AutosaveStopsForPublishing`, from `RefusalInv` beside the others: the date a
  check is made of was saved, so a refusal that waits to be delivered is about
  writing that was published (`RefusalOK`), and dates that were saved or have
  arrived stay so (`HistoryGrows`). `AttachedOK` says that the form it reaches
  is that of the same row.

`PublicationDateProofs`, from `DateAssumption`:

* `TypeCorrect`, `EditorShowsWhatWasSaved`, `ResavingKeepsTheDate` and
  `RefusedPublishStillPublishes`, for a change of the clock of any size, in
  either direction and at any minute. `ReadIsShown` and `ShownIsRead` say what
  the two conversions make of each other, and carry the theorems; the invariant
  adds that a field nobody typed in is the date it was drawn from (`FieldsOK`),
  and that a date still to come has no seconds (`WholeMinutes`), without which
  saving again could publish early.

`DeploymentProofs`, from `ConfigAssumption` and `DeploymentAssumption`:

* `TypeCorrect`, `Precedence` and `ShownCanBePasted`, from
  one fact about what runs (`RunsValid`: it was valid, whatever was edited
  since) and lemmas about sources: which of them a merged key comes from, and
  that the output merged under the same flags and variables is the same value
  again but where it is redacted.
* `OnePassword`, from `Hashes`: a source holds a hash of the password it was
  given, or nothing that opens (`SourceHash`, of the variable and of each file),
  as `config show` redacts before it is pasted; so has a process of the source
  that won when it started (`ProcessHash`). A hash gets into a source by
  `SetPassword` and `WritePassword` only: other writes are of other values.

`MigrationsProofs`, from `MigrationsAssumption`:

* `TypeCorrect`, `UpIsComplete` and `AppliedInOrder`, from `PlanOK`, `LockOK` and
  `UpOK`: what an up has gone past stays applied until a down runs beside it,
  for which its lock must have been lost (`Unguarded`).
* `DownSeesPending`, from `LookOK`: a down still waiting has nothing pending, or
  another down has run since it looked.
* `MigrationsImplementSchema`: each step of the migrators is a step of `Schema`
  or a stutter until a lock is lost. It needs that the holder is at work
  (`HolderWorks`) and that one migration is one step of the height (`OneStep`).
* `NewestRolledBack`, for any binaries merged in any order, from `SliceInv`: what
  a down has yet to reverse is the top of what its binary knows of the applied,
  or lies below an applied migration that has a pending one behind it
  (`Sliced`). `VictimsSliced` is pop's arithmetic on the count of rows: it gives
  such a slice, whatever is applied and known. `OldestPart` and `NewestPart` say
  what its two halves choose, and `SliceStep` that reversing the newest of a
  slice leaves a slice, and which of the two kinds it was. This is what
  `migrate.go:70-76` claims of pop: right when nothing is pending out of order,
  and wrong when something is.

`ListingProofs`, from `ListingAssumption`:

* `TypeCorrect`, `OneQueryAtATime`, `AlwaysInOrder` and `LacksOnlyTheExtra`. The
  invariant says that what waits to be appended is the next page of the query on
  the screen (`RequestsOK`), that an answer is its page of the table unless the
  table has changed since (`CutsOK`), and that the rows on the screen are an
  increasing choice of the rows found, without those at multiples of the page
  size and one (`Followed`). `FirstFollows` and `MoreFollows` are the two ways
  of getting there. `Found` is stated by rank (`Picked`) and not with
  `SelectSeq`, so that no induction is needed: `Ranks` shows that the ranks are
  exactly 1 to the number found, because an injection into a finite set of the
  same size is onto.

`LimiterProofs`, from `LimiterAssumption` and `NothingAssumption`:

* `TypeCorrect`, `HashesAreBounded` and `RefusedAtLimit`, from `Inv`, which ties
  each entry to the last grants of its address: it let through as many as it has
  counted, the first of them when it started or at most `MaxDelay` later
  (`EntryOK`), and what came before the limit's worth of grants ahead of those
  is a window ago but for the delay (`FarApart`). `GrantKeeps`, `PurgeKeeps` and
  `RefusalKeeps` are the three things that happen under the mutex.

`ServerProofs`, from `ServerAssumption` and `NoCookieAssumption`:

* `TypeCorrect`, `Revoked`, `SessionsLive`, `CutAfterTimeout` and
  `MissingAfterRollback`, from `Inv`: what is left of a cookie and its age make
  up its TTL but for a second (`CookieOK`); whoever works behind the guard has
  shown a cookie of its process's secret (`ReqOK`); who has looked at the schema
  has it or has lost it to a rollback (`SchemaOK`); one process listens
  (`OneListener`); and who closes has nothing in flight or has waited the whole
  timeout (`ClosingOK`). `ProcessMoves`, `RequestMoves` and `ProcessEnds` are
  the three shapes an action has, and each preserves `Inv` once for all.

Only model-checked: the liveness properties (`StopsAsking`, `AskingHearsBack`,
`LockWaitEnds`, `SignalEndsProcess`), which lie outside the prover's reach, and
`SavesCostARowEach`.

## 5. Plan

Modelled first, because most depends on it: the editor with its abstract
specification and proofs, then migrations, lists, the limiter, and the server
with its sessions; then the configuration and the password hash, the dates, and
the migrators' abstract specification. Last came `Drafting`, which says what an
overtaken autosave may still do, and the ways in which a form stops autosaving.
What is left is in section 6.

## 6. What is not modelled

* Argon2id itself and the text of its encoding, rendering, assets, cache headers,
  the version command: pure functions and output, without state.
* How numbers, durations and URLs are written, and the names of sections. With
  that goes that a bare number in a YAML file counts nanoseconds, that a
  `session_ttl` under a second passes `Validate`, and that `Local` is a time zone
  of the machine rather than of the configuration.
* A zone with two changes of the clock near one date.
* `/healthz` and `/readyz`, which read and change nothing.
* Reads by slug: the public routes are not mounted yet; the Audience rule they
  would share is `Content!IsPublished`.
* The connection pool: a failed statement is `Fail` or `Stop`; waiting for a
  connection only delays a statement, as any interleaving does.
* The wording and layout of the screens, and what the Author had typed when a
  page is replaced.
