# Drynn: TLA+ models, checks and proofs

Drynn (`src/`) is a Go web server for a turn-based game: accounts, invitations
and sessions over PostgreSQL, a command line for operators (`cmd/db`), one for
players and referees (`cmd/drynn`), and a generator of star clusters
(`internal/worldgen`). This directory holds TLA+ modules of its core logic, TLC
configurations that check them on small instances, and TLAPS proofs of the
properties that matter most.

Every definition is a translation of code; `PROJECT.json` ("map") gives the
lines. Run `tlc -config <run>.cfg <module>` for a run and `tlapm <module>.tla`
for the proofs.

## 1. Inventory

| Component | State | Operations | What is hard | What makes it correct |
|---|---|---|---|---|
| Key store (`auth/signing_keys.go`) | table `jwt_signing_keys` | EnsureReady, Create, Expire, Delete, VerificationKey | transactions of several operators and starting servers, row locks, a partial unique index | one active key per type, and none only after an explicit expire; a rotation retires the key it has locked; a lapsed key comes back only by an explicit expire; no deadlock |
| JWTs (`auth/jwt.go`) | none (tokens at clients) | IssueTokens, parseToken | a rotation between reading a key and signing with it | a rotation signs nobody out; grace 0 revokes at once |
| Sessions (`auth/middleware.go`, `server/server.go`, `handler/auth.go`) | cookies of the browser | RequireAuth with silent refresh, loadCurrentViewer, requireRole, sign in, refresh, sign out | overlapping requests, accounts that change meanwhile, also between the two queries that load the viewer; lost answers | handlers run only for accounts that were read as active, and as administrators, since the request came in; signed out means out |
| Accounts (`service/user_service.go`, `handler/admin.go`, `cmd/db`) | tables `users`, `user_roles` | Create, Register, Update, Delete, EnsureBootstrapAdmin, SeedTesters | checks that read what other transactions change; a count that is stale when used | changes do not mix; the last admin stays; seeding reaches its count |
| Registration (`service/invitation_service.go`, `handler/auth.go`) | table `invitations` | create, resend, archive, validate, redeem | validate, create and redeem are three transactions; a mail goes out after the row is written, or not; the deadline is computed before it is written | no further account once one has redeemed its invitation; accounts only for the invited address; a mailed code is good |
| Password reset (`service/password_reset_service.go`) | table `password_reset_tokens` | SendReset, SendResetByEmail, ResetPassword | the token is read outside the transaction that uses it | used once; only by who knows the account's address |
| Rate limiter (`middleware/ratelimit.go`) | map from client to bucket | allow | eviction of idle entries | eviction cannot be seen in the answers; the map does not grow for ever |
| Games and the CLI (`cmd/drynn`, `handler/api_games.go`, `service/game_service.go`) | session file, table `games` | login, logout, game create, list, show, update, delete; which server is meant | runs that share the file, killed half way; answers that are lost | the file holds the last session saved; a token is of the server named beside it, and a logout leaves that server; "deleted" is true for good |
| Configuration (`config/config.go`, `cmd/db init-config`) | `server.json` | WritePath, LoadPath | runs that share a temporary file, killed half way | the file holds the last configuration saved; only `--force` replaces one |
| Placement (`worldgen/placement.go`, `hexes`) | candidates, placements | placeHexSystems | every shuffle and tie, full systems, a disk that runs out | minimum distance; never short without reason |
| Star and planet rolls (`worldgen/generator.go`) | the star and its planets | rollStar, rollPlanet | clamps, warming and ordering undo each other; rolls that are repeated without a bound | colder outwards; gases add up and are found; values stay in range |
| Home templates (`worldgen/templates.go`) | seven outcomes | driver and attempt | budget; the override after the ordering; a score that divides by a lowered number | outcomes tell the truth; one home world; the score is bounded |
| Cluster and deposits (`worldgen/cluster.go`, `deposits.go`) | flat slices linked by ids | GenerateCluster, GenerateDeposits, lookups | packing of ids; dice less a constant | lookups form a tree; ids do not clash; deposits yield something |

Interaction: `cmd/server` calls EnsureReady and then serves requests, each in a
goroutine of its own; all of them, other servers and `cmd/db` share only the
database and the clock. Middleware calls the JWT manager, which reads the key
store, and the user service; the registration and reset handlers call the
invitation, user and reset services one after the other. `cmd/drynn` talks to
the server over HTTP and keeps a token pair in a file; a login may take the
server's URL from the configuration that `cmd/db init-config` writes and the
server loads. The generator is sequential: placement, then rolls, then templates
and deposits.

Not modelled (reasons in `PROJECT.json`): access requests, what an e-mail says
and how Mailgun takes it, HTTP wiring and rendering, the PRNG, the older
cartesian generator, viewers, generated query code, the tables no code uses
yet. Of the configuration only the base URL is modelled: the other fields go
along with it, parsing a duration or a boolean is a function of one string,
and the dotfiles are read once before anything runs.

## 2. Modules

PostgreSQL is modelled by what the code relies on under READ COMMITTED: a
statement sees what is committed when it starts, `FOR UPDATE`, UPDATE and DELETE
wait for the row's lock and look again, a unique index makes an INSERT wait or
fail, and a transaction's writes (buffered in `tx`) appear when it commits.
Every transaction may stop after any statement (`Abort`: an error, a broken
connection, a crash); the deferred rollback frees its locks.

* `KeyLifecycle` is what the key store promises: Install, Expire and Delete
  are atomic. `SigningKeys` is the code: `pc` is the next statement of a call,
  `tx` its locals and buffered writes, `lock` the row locks. Create goes
  SelectActive, LockActive, RetireSigningKey, InsertKey (or InsertFails),
  CommitCreate; expire and delete start with LockByID or RefuseByID. Reading
  the row without a lock and looking again under it are two steps. A server
  whose EnsureReady has returned is "ready"; `expired`, the types whose active
  key an operator took away, is history.
* `Tokens` extends `SigningKeys` by `issue` (IssueTokens: time, access key,
  refresh key, answer) and `tokens`, the pairs handed out.
* `Session` is one browser: cookies, requests in flight (`req`, with the cookies
  they carry and the ones their answer sets), and the account they belong to.
  Answers arrive in any order or never. loadCurrentViewer is two steps, the
  account (GetUserByID) and then its roles (ListRoleNames), since the code runs
  the two queries without a transaction. `wasActive`, `wasAdmin` and `signedOut`
  are history.
* `UserAdmin`: `account` (is_active or no row), `roles`, and the transactions of
  requests and of `cmd/db` (seed-admin, seed-testers: the testers are counted
  once and then created one by one). `tx.raced` is history: somebody else took
  a role away while the call was on its way.
* `Registration`: accounts with their e-mail, invitations, the three steps of
  a visitor (`reg`), and administrators' creates and resends (`send`): a
  resend reads the row, both read the clock (NewExpiry), then write the row,
  and then mail the code, or fail to and leave the row. `origin`, `redeemed`,
  `late` (of a visitor) and `lone` (of a resend) are history.
* `PasswordReset`: accounts, tokens, submissions (`req`), senders (`send`);
  `uses`, `late` and `knew` are history.
* `TokenBucket` is the abstract limiter, one full-at-first bucket per client;
  `RateLimiter` has the map, lastSeen and the cleanup.
* `SavedFiles` is how both programs replace a file: the names of `drynn.json`
  and `server.json` and of their temporary files, the files behind them with
  their `content`, and the file a run holds open between OpenTmp, WriteTmp and
  RenameTmp. A rename leaves the open file as it is. `saved`, `overlapped` and
  `read` (the session that a logout has read) are history.
* `ServerConfig` extends it by WritePath, with and without `--force`, and
  LoadPath, with the environment over the file.
* `DrynnCLI` extends that by the runs, the servers with their games and the
  tokens they `issued`, and for each run the handler of its request on the
  server, which goes on when the run does not. resolveServerURL chooses among
  flag, environment, configuration and session. `told` is history. DeleteGame is
  two statements, as in the code. A request with a token may be refused at any
  time; what decides that is in `Session`.
* The generator. `Placement`: `todo` is what is left of the shuffled
  candidates, taken in any order, which is every shuffle; `stars` the
  placements. `Dice` holds what the two generators of planets share: seed
  tables, clamps, warming and ordering as sets of outcomes. `StarRolls` is
  rollStar and rollPlanet, `HomeTemplates` the template driver and its
  attempts, `ClusterIds` the slices of a Cluster while they are appended to,
  `Atmosphere` the gases of one planet, chosen in a loop that starts again
  while nothing was found. `Surface` extends it by the pressure, the mining
  difficulty, a deposit, and what the planet adds to the viability score, which
  reads its class, pressure and gases together. `Worldgen`
  composes them: stars are rolled by both callers, GenerateCluster hands over
  what was placed, also when the placement failed, and single planets are
  looked at in a stage of their own, since nothing that `Surface` rolls for a
  planet decides anything about the next one. The queries of `cluster.go`, which
  walk a slice and copy what fits, are sets of positions in that slice.
* `MC<module>` instantiates a module for TLC; `<module>Proofs` holds theorems.

Definitions named "Mutant of ..." state a plausible bug of the definition after
them; no specification uses them. They show that a property depends on the code.

## 3. Runs

| Run | Instance | Shows |
|---|---|---|
| MCSigningKeys | 2 keys, 2 operators, 1 server, time 0..1 | types, OneActivePerType, HeldRowIsCurrent, ServingHasKeys, LapsedStaysLapsed, OnlyExpireLeavesGap; EveryCallReturns: no deadlock among locks and index waits; refines KeyLifecycle |
| MCTokens | 3 keys, 1 operator, 1 handler, time 0..2, default grace or 0 | TokenOrigin, RotationCoversHeldTokens, ZeroGraceRevokesAtOnce |
| MCUserAdmin | 3 accounts, 2 requests, 1 run of cmd/db, 2 testers asked for | ChangesAreWhole, AdminRoleIsKept, SeedingReachesTarget |
| MCRegistration | 3 accounts, 1 invitation, 2 addresses, 2 visitors, 2 mailers, time 0..2, an invitation lasts 1 | UsedByItsAccount, MailedCodeIsGood, RedeemedOnce, InvitedAddressOnly, UsedIsForGood |
| MCSession | 2 requests, access 1 and refresh 2 ticks, time 0..2, 1 rotation | HandlersAreEntitled, SignedOutMeansOut |
| MCPasswordReset | 2 accounts, 1 token, 3 addresses, 2 submissions, 1 sender | ResetUsesUpToken, OnlyEntitledResets |
| MCRateLimiter | 2 clients, burst 3, gap 3, time 0..9 | RateIsBounded, NoForgottenVisitors; refines TokenBucket |
| MCDrynnCLI | 2 runs, 2 servers, five workloads of up to 2 logins, 2 games and configurations | TokenIsOfItsServer, FilesAreLastSaved, LogoutKeepsServer, ForceAloneReplaces, DeletedIsGone |
| MCWorldgen | radius 1 (7 hexes), 0..8 systems, distances 0..2; clusters of up to 2 systems and 3 stars, 1 or 3 planets each; 2 template candidates; 8 pairs of size and temperature, 3 quantities of gas | Separated, ShortIsFull, StarsAreCandidates, ColderOutwards, OutcomesAreHonest, SlicesAreTree, AtmosphereIsWhole, SurfaceIsSound, GasesAreFound |
| MCUserAdminInactive | 4 accounts, one call at a time | violation of ActiveAdminIsKept (section 5) |
| MCPasswordResetUsedOnce | 2 submissions | violation of UsedOnce (section 5) |
| MCWorldgenYields | as MCWorldgen | violation of YieldIsPositive (section 5) |

Where no type invariant is listed, the types are conjuncts of the first property
of the row (SurfaceIsSound in MCWorldgen).

**Bounds.** In MCSigningKeys two keys are the active one and the one that
replaces it or competes for its place, and two operators and a server are
every pairwise race, with a third party starting a rotation. A server that serves then
has one key of each type and no third to rotate to: that ServingHasKeys
survives rotations rests on its proof. MCTokens has a third
key and a longer time; the proofs cover every number of each. TTLs and grace
periods are one or two ticks, so that before, at and after a deadline all
occur; the clocks stop at MaxTime, named in each configuration, after at least
one such period. Two submissions are enough to race for one invitation or
token, since the code compares a call with one row only, and two mailers for
one deadline. Three accounts let an invitation be used, its account go, and
two visitors try again. Three accounts in MCUserAdmin let two admins take each
other's role beside a third one. Nine ticks are three cleanup gaps: an entry
is created, evicted, recreated and evicted again. Two runs of the CLI are
every pairwise overlap of saves. Its workloads (MCDrynnCLI.tla) keep apart
what does not interact: two games, one that is deleted and the next one; game
commands that name servers, by one run at a time; logins that overlap;
configurations that overlap; and logins between configurations. The disk of
radius 1 has every case of placement (merge, discard, place, tie, exhausted);
the proofs cover every radius. The dice are not bounded: all their outcomes
are taken, except that clusters get stars of one or three planets only;
templates are limited to two candidate rolls (a slot may be hit twice, and the
budget runs out; that all seven slots are filled is left to the proof) and to
scores below, in and above the window. Planets get the smallest and largest
size of each kind and one between, and temperatures at both ends and at the
limits the code compares with; every density and every roll of the dice is
taken, of the sum of two dice for a quantity of ore the ends. Symmetry is used
for ids and processes that are interchangeable, and never in a run with a
liveness property (MCSigningKeys, MCWorldgen).

**Properties that are conditional.** The code does not exclude some races.
Where a document promises that it does, section 5 says so; the properties say
what is left of the promise. AdminRoleIsKept is about calls during which
nobody else lost the role: two that overlap can take the last admin away.
RedeemedOnce is about requests that arrive after an account made with their
code has redeemed it: registrations that overlap can make two accounts from
one invitation, and so can a later one when the redemption of the first failed
(it is logged and the account stays, auth.go:120) and that account is deleted
or has changed its address. HandlersAreEntitled asks for an account that was
active at one moment and an administrator at that or a later one: the two are
read by two queries, and an account that is deactivated and made an
administrator between them gets through. ServingHasKeys excepts the types
whose key an operator has expired. That a starting server may retire at once,
with grace period 0, a key that another call has created since it looked is
what the code does; a key to sign with remains. LapsedStaysLapsed excepts an
explicit expire, and RotationCoversHeldTokens is about tokens handed out by
the time of the rotation, not those signed later with a key read before it
(section 5). SignedOutMeansOut is about sign-outs that are answered while
nothing else is on its way. FilesAreLastSaved is about saves that do not
overlap: two at once write to one temporary file, one may rename what the
other has just emptied, and a short session over a long one leaves a file that
is no JSON. From then on every command fails, logout included, until the file
is removed by hand. ForceAloneReplaces is about runs of init-config that do
not overlap: two that see no file both write one, and one of them may fill the
file the other renamed and then fail, since there is nothing left to rename.
LogoutKeepsServer is about a logout between whose reading and renaming nobody
else saves. TokenIsOfItsServer has no such condition; but it is about the
file: a command that is told to use another server (`--server`, `--config`)
takes the token there. DeletedIsGone is about deletions of which an answer has
arrived. MailedCodeIsGood counts from the moment at which the call that
creates or resends reads the clock: from then on the code is accepted for as
long as an invitation lasts, unless it is used meanwhile or gone with its
inviter. Resends of one invitation that overlap are left out: the one that
read the clock first may write last (invitation_service.go:98), and the code
of the other lapses early.

**Deadlock.** It is checked except where the program ends (the generator's
calls return), where an account once deleted leaves the bounded clock with
nothing to do (PasswordReset), and where no command reads the session file any
more (DrynnCLI).

**Fairness.** MCSigningKeys assumes strong fairness of the next statement of
each process. A call that was made runs on (the Go runtime schedules
goroutines), and PostgreSQL hands a row lock to its waiters in turn, so that a
waiter for a lock that keeps coming free gets it. Nothing forces anybody to
start a call, and Abort is not fair. MCWorldgen assumes that the loop over the
gases goes on (it runs in one goroutine and waits for nobody), and strong
fairness of taking a gas: the die for it is rolled again in every round, and
never to hit has probability zero. That there is a gas to take for every
temperature is not assumed but what GasesAreFound shows.

## 4. Proofs

All checked by tlapm, for every value of the constants under the named
assumptions of the modules (kinds of constants, and that Null or None is none
of the values it stands beside). `RateLimiter` assumes that a bucket is full
again after one cleanup gap (`Cap <= CleanupGap`): burst over rate is 30
seconds, the gap 10 minutes.

* `TokensProofs`. For the key store, the invariant `IInv` is TypeOK,
  OneActivePerType, HeldRowIsCurrent and PendingInsertIsAlone, strengthened by
  `CallShape` (which locals a call has set at each statement) and `RowShape`
  (which columns a row of each state has set). OneActivePerType alone is not
  inductive: a commit keeps it only because the inserting transaction is alone
  (index wait) and because the active key it retires is the one it locked.
  From `IInv` follow LapsedStaysLapsed (a rotation writes only to a key that
  is active, hence not lapsed), OnlyExpireLeavesGap (a commit that retires a
  key inserts one of its type, or is an operator's expire; a delete never
  takes an active key) and the refinement of KeyLifecycle: commits map to
  Install, Expire and Delete, every other step stutters. ServingHasKeys needs
  besides that a server itself only ever creates (`OperatorsExpire`) and that
  each type it has dealt with, between its checks too, has a key or was
  expired. The token steps leave the key store alone, so `IInv` carries over;
  TokenOrigin is inductive with `IssueShape`, which says that the key an issue
  in progress holds existed and had the right type. From it follows that a
  rotation with the default grace covers every token handed out.
  ZeroGraceRevokesAtOnce needs `UntilShape`: a deadline about to be written is
  at most its grace period away, however long ago it was computed.
* `RateLimiterProofs`. RateIsBounded is inductive with `EntriesInOrder` (an
  entry was filled no later than it was seen, and both not in the future):
  an evicted entry was idle for longer than a gap, and is full by then. The
  same fact gives the refinement of TokenBucket.
* `WorldgenProofs` is about the whole generator: every theorem is one of
  `WorldSpec`, and a lemma per part says that no other stage disturbs it.
  Separated is inductive with TypeOK and the fact that placed hexes are no
  candidates any more; it needs that the distance is symmetric. ShortIsFull
  needs `Covered` (every hex that is no candidate any more is too near to a
  system) and StarsAreCandidates needs `OneEach` (without merging a system has
  one star), both with the finiteness of the grid; GenerateCluster, which
  drops the locals of the placement, leaves an initial state of it
  (`PlacementInWorld`). `StarInv` says that the warming leaves the first two
  planets of a star of fewer than four at class 12 or above, which is why the
  cut to the planet before never undoes it (PlanetsCoolOutwards). `AttemptInv`
  says that until an attempt has its home world the planet rolled last is of
  class 12 or above, so that a home world, set to 10..12, is no warmer than
  it. `DriverInv` relates the count of filled slots to the slots and bounds
  the attempts by the candidates, which gives OutcomesAreHonest: for every
  window of integers, and with the budget spent when a slot stays open, since
  seven filled slots leave none. `AirInv` keeps the gases found in their
  window, and a lemma on the divisions of `Percentages` says that what they
  lose is given back to one gas and leaves none below zero. `GroundInv` says
  how far a planet is, in step with its gases, and what its deposit is sound
  for; that the retries for a difficulty can end is shown by a witness (a
  factor of zero) for every size. `TreeInv` says that ids are positions, that
  the systems before the last have exactly their stars (`Families`), that the
  planets of a star are one block in the order of orbits (`Blocks`), and that
  deposits differ in planet or number (`Packed100`); SlicesAreTree follows for
  every placement.
* `DrynnCLIProofs`. `FilesInv` is about runs that save and may be killed
  anywhere: no file has two names and no run has a file of the other path open
  (`FilesApart`); unless two saved to a path at once, the one that does has
  the temporary file to itself, finds it empty and leaves its payload, and
  what can be read is what was saved last (`Undisturbed`); an init-config that
  is not forced works only where there is no configuration (`Unforced`); and
  all files and payloads hold sessions whose token is of the server they name
  (`ContentsFit`, `PayloadsFit`), which is what survives even when saves
  overlap. That a temporary file can be new while others are open is a
  counting lemma and needs that there are finitely many runs
  (`RunAssumption`). `ServerInv` says which requests are under way and that a
  game that is gone has an id that the sequence has passed (`GameShape`);
  `OwnRequest` ties the answer a run waits for to the request it sent.
  LogoutKeepsServer needs `LogoutShape` (what a logout saves is what it read,
  without the token) and the exclusive use of the temporary file from
  `Undisturbed`.
* `UserAdminProofs`. `IInv` says per call what it is about at each statement
  (`PcShape`), that a change holds the lock of a row that still exists and is
  about to replace all its roles (`LockShape`), and that an account being
  created is known to no other call (`NewShape`); this gives ChangesAreWhole.
  `AdminShape` and `SeedShape` say what a count made earlier is still worth as
  long as nobody lost the role: another admin exists, and testers plus accounts
  to create reach the target. AdminRoleIsKept and SeedingReachesTarget follow.
  Accounts are finitely many, since they are counted (`UserAssumption`).
* `RegistrationProofs`. `IInv` has the shape of a registration and of a mail
  at each statement, and that an invitation's user is alive and came from it.
  `Kept` collects what no step takes back (an invitation stays used, an
  address that was invited does not change); with it follow UsedIsForGood,
  RedeemedOnce, InvitedAddressOnly and MailedCodeIsGood. The last needs also that no other resend of an
  invitation runs beside a lone one (`Apart`).
* `PasswordResetProofs`. `TokenShape` says which rows of tokens there are,
  `Kept` that they keep their account and stay used, and `ResetShape` what a
  request knows at each statement: one that arrived late has seen, or will see,
  that its token is used. A password set in some other way is none of the tokens
  (`OtherAssumption`).
* `SessionProofs`. `EntitledShape` carries what the two queries have read from
  arrival to the handler, `SignOutShape` and `OutShape` say what cookies a
  request can bring while the browser is signed out. Null is no pair of
  cookies (`CookiesAssumption`).

**Only model-checked:** EveryCallReturns and GasesAreFound, since liveness is
out of reach of the prover. Every safety invariant and action property of the
passing runs has a theorem. What a theorem says of a set of outcomes of dice
(`Swayed`, `RaisedTo`, `LoweredTo`) rests on these sets being what the loops of
the code make, which is a matter of the translation.

## 5. Where the code and its documents disagree

Three disagreements have a run that shows them.

| Run | Code | Document |
|---|---|---|
| MCUserAdminInactive | the check counts inactive admins, so the last active one may go | site/content/docs/reference/roles.md:50, at least one active admin |
| MCPasswordResetUsedOnce | the token is checked before the transaction and marked without another look | web/templates/emails/password_reset.gohtml:2, used once |
| MCWorldgenYields | gold on a rocky planet that is easy to mine yields D4(3)-3 percent (deposits.go:182), which starts at 0 | design/natural-resource-deposits.md:178, 0.01..1.00; :74, an integer 1..100 |

Others were met while modelling; the models behave as the code does.

* `expire` also retires the active key (signing_keys.go:202), so that a type may
  be without one; security-model.md:70 says there is exactly one.
* `expire` gives a key that has lapsed a new deadline (signing_keys.go:202);
  rotate-jwt-keys.md:17 has it revoked after the grace period.
* A starting server creates the keys that are missing (signing_keys.go:64);
  README.md:55 says it refuses to start.
* A token signed with a key that was read before a rotation committed may
  outlive the key's deadline (jwt.go:171); rotate-jwt-keys.md:26 says that all
  tokens have expired by then.
* Two admins that take each other's role at once both pass the check
  (user_service.go:654); roles.md:51 says the last admin stays.
* Two registrations at once, or a later one when redeeming failed, can use one
  invitation (handler/auth.go:120); invitations.gohtml:6 says it is used once.
* The template driver rolls candidate stars of its own and stops when its budget
  is spent (templates.go:97); cmd/drynn/USAGE.md:155 has it go through the stars
  of the cluster "with no separate attempt cap".
* The ordering of temperatures follows the clamp (generator.go:298), so a gas
  giant may be colder than 3; planets.go:18 says 3..7.
* Editing an account in the admin pages drops its tester role (admin.go:285);
  cli.md:110-113 lets seeded accounts be edited and seeding repeated.
* The mining difficulty of a planet of a cluster takes two three-sided dice
  (generator.go:402); design/mining-difficulty.md:47 has three.
* config.go:261 and the lines after it read `DRYNN_APP_ADDR`,
  `DRYNN_DATABASE_URL` and so on; reference/config.md:21 lists `APP_ADDR` and
  `DATABASE_URL`.
* boolOrDefault (config.go:290) ignores `yes`, `no`, `on` and `off`, which
  strconv.ParseBool does not know; reference/config.md:49 accepts them.

## 6. Plan

Done, in this order: key store with its abstract life cycle and proofs; tokens
and proofs; accounts and seeding; registration; sessions; password reset; rate
limiter with refinement and proofs; placement and proofs; rolls, templates,
ids, gases and their composition; the CLI with the games API; mails of
invitations; pressure, mining difficulty, deposits and the score; files,
configuration and the servers of the CLI; what leaves a type without a key, and
its proof; proofs for accounts, registration, password reset, sessions and the
zero grace period; a server's start, the files and the CLI; and the whole
generator: placement, stars, templates, gases, surfaces, deposits and ids.

Next, for the models: several browsers in Session; Session over the keys of
SigningKeys instead of generations; access requests; the older cartesian
generator; the dotfiles and the other fields of the configuration.

Next, for the proofs: an abstract specification of the files (one atomic save
per path) that `SavedFiles` implements while saves do not overlap; the bound
of the rate limiter under a configuration in which a bucket is not full again
after one gap.
