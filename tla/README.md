# A verification of nest-typeorm-auth-template

TLA+ specifications of the API under `apps/api/src`: who may administer staff, who is
signed in, and what a product is. They are written from the code; where a document and
the code disagree, the code is the model and the disagreement is a run that fails on purpose.

## 1. The system

One NestJS process type, run in any number of replicas, PostgreSQL (READ COMMITTED,
through TypeORM) and Redis (sessions and abuse counters). Nothing in the process's memory
outlives a request, so all concurrency is between requests, at their database and store
calls, and everything that survives a crash is a row or a Redis key.

| Component | State | Operations | What is hard | What makes it correct |
|---|---|---|---|---|
| Staff lifecycle (`authorization/staff`) | `staff_profiles`, `staff_role_assignments`, `users.auth_version`, audit rows | create, replaceRoles, suspend, activate | the guard reads the actor's authority before the transaction; row locks and an advisory lock, in different orders | no escalation, the last active owner stays, one audit row and one version increment per change, no lasting deadlock |
| Owner bootstrap (`authorization/bootstrap`) | the same rows | bootstrap | takes the advisory lock first, staff commands the users row first | as above; idempotent |
| Admin guard and context (`authorization/enforcement`) | none | canActivate, loadForUser | its answer is a snapshot | admits exactly active staff with the permission, as of its read |
| Authorization catalogue (`authorization/data`) | `roles`, `permissions` | synchronize at start-up | replicas starting together | built-in roles are what the code says |
| Lists (audit events, staff, products) | none | one page | keyset cursors of less precision than the column; rows that come late or move | no row twice, none left out, an end |
| Authentication (`identity/auth`) | `users`, `password_credentials` | register, login, me, logout, logoutAll, changePassword | reads, a slow hash, then writes; two stores | a session counts only with today's password and version |
| Sessions (`identity/session`, express-session) | Redis keys, cookies | load, regenerate, save, destroy, touch | each request works on its own copy; responses race | nothing revives a revoked session; ids are fresh |
| E-mail verification (`identity/auth`) | `email_verification_tokens`, `users.email_verified_at` | request, confirm | delivery fails or is late; a row read without a lock is saved whole | a token confirms once; nothing else changes |
| Session lifetimes (`identity/session`) | a key's time to live, `absoluteExpiresAt` | renew, expire | rolling renewal, rounding to seconds, late responses | never a second past the absolute lifetime but for responses under way, never short of the idle one |
| CSRF (`platform/security`) | the session's secret | issue, assertValid | a GET that writes the session | the token belongs to the session |
| Abuse protection (`platform/security`) | Redis counters and cooldowns | consume, reset | windows that end, counters at the limit | limits hold; Retry-After suffices |
| Catalogue (`modules/catalog`) | products, slugs, options, values, variants | createProduct, editMerchandising, replaceConfiguration, publish, unpublish, archive, restore; resolution of slugs, lists, details, variants for other modules | optimistic version checked after unlocked reads; `save` writes what differs; a read is several statements, the archive permission is decided on a read before the transaction | commands act one after another; a published product is sellable; reads are of one product |
| Health, Redis client, configuration, observability, OpenAPI | none worth a model | | pure I/O, wiring, layout | |

They interact through rows: staff commands call Identity's administration contract inside
their own transaction (lock the users row, increment `auth_version`); the session guard
compares that version with the session's on every request; the abuse limits refuse before
anything is read.

## 2. Plan

1. `StaffRules`, `StaffLifecycle`: the staff transactions, lock by lock; abstract
   specification `StaffRegister` (each command in one step); proofs. *Done.*
2. `Identity`: requests, sessions, cookies, verification; `IdentityProofs`. *Done.*
3. `CatalogRules`, `Catalog`: the commands on a product, with the semantics of `save`;
   abstract specification `CatalogRegister`; `CatalogReads`: everything that is read while
   commands go on; `CatalogProofs`, `CatalogRegisterProofs`, `CatalogReadsProofs`. *Done.*
4. `AbuseProtection`: the abuse counters with their windows and cooldowns;
   `AbuseProtectionProofs`. *Done.*
5. `Pages`: the pages of the four lists; `PagesProofs`. *Done.*
6. `SessionLifetime`: idle and absolute lifetimes against a clock;
   `SessionLifetimeProofs`. *Done.*
7. `RoleCatalogue`: the permissions and roles of the code, with which the staff runs are
   made. *Done.*

Every safety property and every action property a passing run checks is proved as well;
section 7 says how, and which properties remain with the model checker.

The most important behaviour is first: who may administer, then who is signed in, then what
is on offer. A run of a later part may take the place of one of the runs of disagreement of
an earlier one, whose finding is settled once the code or the document is corrected.

## 3. Modules

### Staff: `StaffRules`, `RoleCatalogue`, `StaffRegister`, `StaffLifecycle`, `StaffLifecycleProofs`, `MCStaff`

`StaffRules` holds what the code computes without touching a row: which permissions roles
grant, who is an active owner, when a command is refused, what it writes and audits. It
knows roles and permissions only as constants; `RoleCatalogue` is what they are, all
permissions and the seven built-in roles, and `MCStaff` runs the staff modules with them.

`StaffLifecycle` is the code as it runs. A request is admitted on a snapshot of authority
(`Admit`, the guard), or is the bootstrap command (`StartBootstrap`); then it goes through
its transaction one statement per action: `LockUser` (SELECT ... FOR UPDATE of the users
row), `ReadProfile`, `LockOwner` (`pg_advisory_xact_lock`), `CountOwners`, `Write` (all the
inserts, updates and deletes; the first row that names the actor takes, by its foreign key,
a share lock on the actor's users row) and `Commit`. What a transaction wrote is private
until `Commit`, which therefore holds the assignments of the whole command: the profile,
the role assignments, `IncrementVersion` and `WriteAudit`. `Abort` is a crash, a lost
connection or an error at any step; `BreakDeadlock` is PostgreSQL choosing a victim in a
cycle of waits. The variables are the rows (`status`, `roles`, `authVersion`, `audit`), the
locks (`userLock`, `keyShare`, `profileLock`, `ownerLock`), and per request its step
(`pc`), its parameters (`req`), what it read (`seen`) and its outcome.

`StaffRegister` is what the component promises: each command opens with a snapshot of
authority, applies in one step or is refused, and closes. The refinement maps a
transaction to the register at its commit.

### Identity: `Identity`, `IdentityProofs`, `MCIdentity`

One account, its rows, the session store, and the browsers' cookies. A request loads its
session on arrival (`Begin`, which contains the CSRF check and the check that a guarded
endpoint's session is authenticated), and each later database or store call is an action.
The transactions of changePassword and register are one action because their rows stay
locked or unseen until the commit; the two that read without a lock are not: `FindLive`
and `Issue` (request), `FindToken`, `FindUser`, `Compare` and `SaveUser` (confirm;
TypeORM's `save` loads the row again and writes the columns that differ). `Respond` is
express-session at the end of a response, with `rolling` cookies and `unset: 'destroy'`.
`Fail` stops a request at any step; keys and tokens expire at any time; staff commands and
an operator change the row from outside.

Session ids, CSRF tokens and verification tokens are named by the request that generated
them. The variable `verification` is whether the deployment requires verified addresses,
one way or the other for a whole behaviour. `MayHaveConfirmed` is that a confirmation has saved
the user it read without a lock, or may have before it failed. From then on the version of the
row can be one it had left (`identity_version_rollback`), and a session of that version counts
again: `SessionsKnowPassword` and `NoRevival` speak of the time before. `NoRevival` looks at
every copy of a session that counts or may be written back (`Copies`: the stored one, and those
that CSRF requests have loaded). A session whose copies were revoked by a change of the row does
not count again, whoever writes it back; one that was only destroyed, by a logout, does
(`identity_logout`), because nothing in the copy tells. A password stands for its hash: the code compares
hashes only with `verify`.
express-session's second attempt to save a session whose first save failed is left out: it
gives the same session the same content later.

### Catalogue: `CatalogRules`, `Catalog`, `CatalogRegister`, `CatalogReads`, `CatalogProofs`, `CatalogRegisterProofs`, `CatalogReadsProofs`, `MCCatalog`

`CatalogRules` translates what `catalog-rules.ts` decides about a configuration. `WellFormed`
is what the DTO of a body makes sure of before any of it is decided: options
with values, variants with selections, the transitions of a product, and what may still be
reshaped after the first publication. `Consistent` counts, as the code does; `Coherent` is
the contract's wording, that every variant chooses exactly one value of each option and no
two choose alike. `ConfigurationsCoherent` is that counting is enough.

`Catalog` runs the commands. Each is a transaction that finds the product without a lock
and with the expected version (`Find`; the caller read that version at some time, so the
version of that moment is the only one that passes), works, and ends in
`compareAndIncrementVersion`.

- A caller without the archive permission: `CheckArchive` is the controller's read of the
  configuration, in a transaction of its own, on which it decides whether the body changes
  the status of an existing variant; `FindChecked` is the command that then begins. It
  compares the version the client sent, and nothing compares that one with the version the
  controller read: any version passes that is right at that moment. `ArchiveAuthorized` is
  therefore a statement about clients that expect the version the controller read.
- Ids: the code compares them as texts, the database as uuids, in which upper and lower case
  are the same. `Lower` is how the database spells an id, `Folded` a body as it is stored. The
  checks before the commit see the body as it was sent, and `ArchiveAuthorized` speaks of
  variants that it names as stored; two spellings of one id in one body violate the primary key.
- `replaceConfiguration`: `LoadForReplacement` or `RefuseDetail`, then `Replace`. The body is
  chosen where it is checked, not where it arrives: nothing before that depends on it.
- `editMerchandising` with a new slug: `FindSlug`, `MoveSlug`, which wait where a unique
  index or a row lock makes the statement wait.
- `publish`, `unpublish`, `archive`, `restore`, and every edit: `Compare`, then `Commit`.
  TypeORM's `save` reads the row again and updates the columns in which the *entity in
  memory* differs from it, whoever changed them; `saw[r].stale` remembers those columns
  between the read and the UPDATE. The version is one of them: if the row has moved on, it
  is written back and the comparison that follows finds it as expected.

`reverted` remembers that a version was written back. It decides nothing; properties that
only hold until then (`CommandsAtomic`, `ArchiveAuthorized`, `ConfigurationsCoherent`,
`VariantsKeepChoices`, and of `RedirectsLead` that the answer is canonical) say so with it.

`CatalogRegister` is what the catalogue promises its staff: every command acts at once on the
product as it is, and counts in its version. `CommandsAtomic` is that `CatalogReads` implements
it, a command mapping to one step at its commit, as long as nothing was reverted.

`CatalogReads` adds the reads, at most one at a time, for they write nothing. `ResolveSlug`,
`ListPublished`, `GetDetail` and `ReadVariant` are first statements; `FindProduct`,
`ReadOptions`, `ReadValues`, `ReadVariants`, `ReadSelections` and `ReadOwner` the others, and
each sees what is committed when it runs. `read` holds what was seen, and `overtaken`, whether a
command on the product committed since. The rows of a list are one product of it, any one: each
detail is read in a transaction of its own. A request is either a command or a read. Of a
resolution that was overtaken `RedirectsLead` promises only that the slug it answers with is
one of the product's; `UndisturbedReadsTrue` promises nothing of overtaken reads.

Left out: texts, media and dates; SKUs, labels and positions, each compared for duplicates as
names are; `loadDetail`'s four reads are one inside a command; ids in a body that belong to
another product; the spelling of option and value ids, which only makes refusals more frequent;
rows that a DELETE did not see because it waited. The last would put the rows of two replacements
side by side, but the second of them can pass the version comparison only if an old version was
written back in between: `ConfigurationsCoherent` is stated until then, and not further.

### Lists: `Pages`, `PagesProofs`, `MCPages`

One client reads one of four lists to its end: audit events and products by a column with
microseconds, published products by a Date of the process, staff by id. `ReadPage` is one
query and the cursor made of its last row; `Enter`, `Leave` and `Update` are the commits of
others in between, each stamped with a time at which its transaction began. Time is in ticks,
`PerMillisecond` of them to what a cursor keeps. `moved` and `twice` are there for the
properties.

### Lifetimes: `SessionLifetime`, `SessionLifetimeProofs`

One session and the requests its browser has open. `key`, `absolute` and `unused` are what is
left, in ticks, of the key in Redis and of the absolute lifetime, and how long no response
renewed the key. `Load` is the session middleware and the expiry middleware, `DestroyExpired`
the latter on an expired session, `Admit` and `Refuse` the guard, some time later; `Touch`,
`TouchNothing` and `Save` are the end of a response, with the time to live that
`remainingSessionTtlSeconds` computes at that moment. Redis counts whole seconds, the code
milliseconds: `Second` ticks to a second. `absolute` stops at 0, and a response that ends then
still gives the key a second, so `CappedByAbsolute` alone would let late responses carry a session
on and on. `ExpiredRunsOut` says how long they can: `TimeLeft`, the key and a second for each
request under way, only becomes less once the session has expired.

### Limits: `AbuseProtection`, `AbuseProtectionProofs`, `MCAbuseProtection`

One public flow, for the flows have prefixes of their own. `count` and `ttl` are the Redis
counters of addresses and accounts, `cooldown` the third key of a verification request. An
attempt is one action, because its Lua script is one: it counts on every key (`Consume`),
also when it is going to be refused, and `Admit` or `Refuse` is what the service makes of the
numbers returned. `FailClosed` is a 503 after which the attempt may have counted. `Succeed` is
`resetLoginAfterSuccess`, any time after the attempt it belongs to. `Tick` is time, which
lowers what is left of every key. `watched` and `ages` record the admissions of one key, any
one: `ages[i]` is how long ago its `i`-th last admission was, so that "no more than `n` in a
window" is "the last but `n` is a window ago" and nothing is summed up. `advice` and `blockers` what a refused client was told and by
which keys: they are there for the properties and decide nothing.

## 4. Runs

| Run | Question | Instance |
|---|---|---|
| `staff_commands` | Is every success audited once, within its authority, and as if it ran alone, and does every transaction end? | two requests, three users of whom one is disabled, the built-in roles, of which requests assign owner and administrator; `FairSpec` |
| `staff_owner_race` | Does the last active owner stay, and why? | three requests, three users, owner or not |
| `staff_self_reactivation` | Can suspended staff reactivate themselves? *Yes.* | two requests |
| `identity_sessions` | Does a session count only with today's password and version, and a token confirm once? | three requests of one browser, two passwords; seven endpoints where verification is not required, registration, mails and confirmations where it is |
| `identity_logout` | Is the session gone after a logout? *Not always.* | CSRF and logout |
| `identity_version_rollback` | Do sessions older than the version fail for good? *No.* | sign-out everywhere and confirm |
| `catalog_commands` | Do slugs and configurations stay consistent, commands atomic and reads true, whatever overlaps? | three requests, two products, three slugs, seventy bodies; a million states in three minutes |
| `catalog_published` | Is a published product sellable? *Not always.* | the same |
| `abuse_limits` | Do the limits hold, and does every refusal end when it said? | two clients, two addresses, one account, limits 1 and 2, windows of 1 and 2 s, half-second ticks |
| `pages` | Is every row that stayed on one page, and does paging end? | three rows, pages of one or two, two milliseconds of two ticks |
| `pages_skip` | Is every product nobody touched on a page? *No.* | the same |
| `session_lifetime` | Does a session live exactly as long as it should? | two requests, lifetimes up to the bound, all accepted pairs |

Bounds, all in the `.cfg` files and the MC modules. Each request runs one command and stops,
so `Requests` bounds the concurrency and the length of a history at once. *Staff*: two
requests race on one target or are each other's targets; the third of `staff_owner_race`
commits between the count and the commit of another. Three users are an actor, its target
and a bystander, who may be the other owner. Requests assign no role, owner or administrator: the
other five roles have no staff permission at all, and lists of several roles add no authority
that these lack; the proofs cover them.
*Identity*: three requests allow one to sign in while a second changes the password and a
third ends or refreshes the session; two passwords distinguish today's from yesterday's;
`MaxVersion` lets staff commands raise the version once, the other increments are bounded by
the requests. Tokens that were issued by requests gone by are in the initial states. More
browsers would add cookies, not stores: a request that is under way keeps its own session,
so two sessions of one account exist in these runs as soon as one is regenerated.
*Catalogue*: the third command makes a slug that two others want, or archives the variants
that one publishes; a read counts as one of the three; three slugs are a canonical one, an alias and a new one. Bodies have up
to two options of up to two values and up to two variants, complete, incomplete, foreign or
repeated, one id in two spellings,
every list of options with every list of variants; the limits are set to those sizes. *Limits*: what counts above a limit is kept as
one more than the limit; windows of different lengths end at different times, one of them
may be the cooldown's length; `ages` reaches back as far as the longest
window, to one admission more than twice the larger limit. *Lists*: a
page of one row and one more needs a third row to lose; two ticks to a millisecond are
before and after within it, two milliseconds tell a cursor of the same from one of another;
the clock stops at `LastTick`. *Lifetimes*: `MaxSeconds` allows an idle lifetime that is renewed
several times before the absolute one ends, and every tick within a second.

Symmetry (requests, users that are not disabled, browsers, passwords, products, slugs) is
declared where no property distinguishes those values; the liveness runs (`staff_commands`,
`abuse_limits`, `pages`, `session_lifetime`) and `staff_self_reactivation` go without.
Deadlock is checked everywhere: where every request has ended, `Finished` stutters, so that
a state without a successor would be one in which transactions wait for each other in a way
the database does not detect.

## 5. Where the code and the documents disagree

- `staff_self_reactivation`: admitted by the guard before the suspension commits, a staff
  member's `activate` of themselves runs after it. `changeStatus` does not look at its actor.
- `identity_logout`: `CsrfService.issue` writes back its whole copy of a session; overlapping
  a logout, it stores the destroyed session again, authenticated.
- `identity_version_rollback`: `confirm` saves a user it read without a lock, with the old
  `auth_version`; a sign-out of all sessions that commits in between is undone.
- `catalog_published`: the same `save` in the catalogue writes the old version back before
  `compareAndIncrementVersion` compares it, so a product is published whose variants were
  archived meanwhile.
- `pages_skip`: a cursor of the catalogue keeps milliseconds of `updated_at`, which has
  microseconds: a product of the same millisecond behind the last row of a page is skipped.

Seen while modelling, and settled by no document: `assertNotLastActiveOwner` counts the
active owners, not those besides the target, so demoting a *suspended* owner is refused
while one active owner exists; a staff command is checked with the
authority of its arrival, even if the actor has lost it since (`NoEscalation` speaks of that
authority for this reason); two CSRF requests of a fresh session generate a token each and
the first to be saved is refused later; a late response puts the cookie of a revoked session
back and so signs the browser out; two verification requests at once leave two live tokens; a
verification request that a counter refuses takes the cooldown all the same, so that whoever
waits for `Retry-After` may be refused once more.

In the catalogue, wherever a version is written back, more follows: two commands that expect
one version both succeed and count once (`docs/contracts/catalog.md:340` says each counts);
`everPublished` goes back to false, which line 68 there excludes, and the product may be
reshaped again; `slug` and the canonical reservation part, and a client who follows the
canonical slug is sent back to where it came from. Without any of that, a read that a command
overtakes may show a variant with a value that is not among the options shown, the whole public
list is answered 404 when one product on it is archived meanwhile, `eligible` may combine a
variant and a product that were never so at one time, and a slug that is made canonical between
the read of its reservation and that of its product (`catalog-application.service.ts:309` and
314) is answered as an alias of itself, so that the storefront's permanent redirect
(`docs/contracts/catalog.md:437`) leads to where it came from; `overtaken` marks these. Rows of the audit
list are skipped as those of `pages_skip` are. A caller without the archive permission changes the status of a variant
all the same in two cases, which `docs/contracts/catalog.md:375` does not provide for: who expects
the next version of a product, and is right because another command makes it between the
controller's check and the command; and, while the product may still be reshaped, who spells the
variant's id in upper case. Replacements that overlapped leave the rows of both once an old
version is written back, and an id in a body that is another product's moves that row. An expired
session can be renewed by every request that was under way, a second each. An expired
session is destroyed before the CSRF code runs, which then finds no session object at all.

## 6. Fairness

`staff_commands` assumes weak fairness of each request's `Statement` (the process and
the database go on with a statement that can run; both do so without being asked) and of
`BreakDeadlock` (PostgreSQL's detector runs whenever a wait exceeds `deadlock_timeout`, so a
cycle of waits that stays is found). Nothing is assumed of `Admit` or `StartBootstrap`, for
no request needs to come, or of `Abort`, for nothing needs to fail. A statement that waits
for a lock is disabled, and weak fairness is enough because each lock is needed only by
finitely many requests, each of which ends. The run has the two opposite lock orders
(bootstrap: owner lock, then users row; staff: users row, then owner lock) and actors who are
each other's targets, whose audit rows need a share lock on the other's users row: these
transactions do deadlock, and end because a victim is chosen.

`abuse_limits` assumes weak fairness of `Tick`, that time passes, and nothing of the clients:
`BlocksEnd` holds against clients who never stop trying.

`pages` assumes weak fairness of `ReadPage`, that a client who wants the list asks for the next
page; that it gets to an end is then for the cursors to ensure, as nothing stops rows from coming
(until `LastTick`, and commits go on after it). `session_lifetime` assumes it of `Tick` and of
`Finish`: a request that loaded its session is answered or refused, as express and the guard do
without being asked; nothing is assumed of `Load`. No other run assumes any.

## 7. Proofs

`StaffLifecycleProofs`, for all users, requests, roles, permissions and role choices, from
`CatalogueAssumption` (owner is a role, roles grant permissions, request bodies name roles)
and `IdentityAssumption` (`NoOne` is no user and no request):

1. `TypeCorrect`. `TypeOK` is inductive by itself.
2. `LocksCorrect`. `LocksMatchSteps` names, from the step of a transaction, the locks it
   holds, so that two transactions with one target cannot both be past `LockUser`.
3. `ProfileRowsUncontended` follows from 2 in each state: the users row was locked first.
4. `DecisionsHold`, inductive together with 1 and 2: a `Commit` writes only its target, no
   other transaction has that target (2), so what the others read is still there.
5. `LastOwnerSafe`, with 1, 2 and 4: between the count and the commit the owner lock is held,
   so another commit that takes an owner away is not possible, and every other commit
   keeps the owners there are (`CommitKeepsOthers`).
6. `OwnerAlwaysRetained`, an action property, from 4 and 5.
7. `EveryChangeAudited`: `AuditedOnce` is strengthened by `AuditInv`, that the log is
   finite and that a request without an end has no outcome; otherwise a request might have
   logged before it commits.
8. `NothingEscalates`: 4, and `RolesNeedProfile`, that nobody without a profile has roles;
   otherwise `create` could be said to keep roles it did not check.
9. `Atomicity`: the refinement. Initial states map to initial states; `Admit` and
   `StartBootstrap` map to `Open`, `Commit` to `Apply`, every rollback to `Close`, and the
   statements between to stutters. `Apply`'s guards are 4, its last conjunct is 6.

`SessionLifetimeProofs`, for every length of a second, all accepted lifetimes and any
finite set of requests, from `LifetimeAssumption` (a second and the largest setting are positive,
and not infinitely many requests are open): `TypeCorrect` and `AbsoluteLifetimeKept` hold one step
at a time, from what the rounded renewal (`CappedTtl`) is worth in ticks. `ExpiredSessionsRunOut`
follows from it, as a response that renews the key is one open request less, and none is added. `UseKeepsSession` needs `KeyLasts`: the key and the
time without a renewal make up the idle lifetime, or the key lasts as long as the session
may. The property itself says only that the key is there, not for how long.

`IdentityProofs`, for any requests, browsers, passwords and endpoints, from Identity's own
`IdentityAssumption` (browsers and requests have different names, `None` is no name and no
password, the endpoints are endpoints):

1. `TypeCorrect`, and with it `StepsFitKinds` (a request is where its endpoint leads) and
   `AnsweredLast` (an outcome only where the request ends).
2. `IdentifiersFresh`, from `IdsInv`: a request's name is nobody's session id until the
   request wrote it, and whoever holds a copy of a session that a request named knows from the
   kind of that request whether it is authenticated. Without this the late write of a CSRF
   request could put anything under the id.
3. `PasswordKnown`, from `VersionsKnown`: every authenticated session, stored, held by a
   request or about to be written, is of a version the row has had, of today's only if it was
   obtained with today's password.
4. `NothingRevived`, from 3 and `CopiesAlike`: a session and the copies requests hold of it
   agree in what the guard looks at, so to write one back changes nothing, and one that was
   destroyed comes back only as the copies left of it are; and versions grow.
5. `TokensConfirmOnce`, from `TokensInv`: whoever confirms a token holds its row, and only a
   live token's; a token is mailed once, after it was issued.

The catalogue is proved about `ReadSpec`, commands and reads together, for any products,
slugs, requests, limits and bodies, from `LimitsAssumption`, `CatalogAssumption` (bodies have
the form their DTO gives them, what products start with was accepted, and an id in the
database's spelling is not spelled differently again) and `NoneAssumption`
(`None` is no row, no reservation and nothing a controller has read).

1. `ConsistentIsCoherent`, about the rules alone: a variant with as many different values as
   there are options, from as many options, has one of each, because the values of two
   options are disjoint and a set of options of that number is all of them.
2. `TypeCorrect`, with `StepsFit`: what a request remembers at each step.
3. `CoherentAlways`, from `ConfigInv` and 1: what is stored was accepted, and so is a body
   between its check and its commit; stored as the database spells it, it is as consistent.
4. `OwnSlugAlways`, `OneCanonicalAlways` and `SlugsReservedForever`, from `SlugInv`: what a
   request found of a slug holds until it commits (`Undisturbed`), because a reservation is
   never deleted, and because of two requests that are about to take one slug, or slugs of one
   product, one waits; and each product has the one canonical slug (`Reserved`).
5. `ArchiveAlwaysAuthorized` and `CommandsActAtOnce` (`CatalogRegisterProofs`), from
   `VersionInv`: until an old version is written back versions only grow, and a request whose
   version is still that of the row finds everything else it read and decided as it was
   (`Informed`). So what the archive check saw is what is replaced, if the version it read is the one that is
   expected. `CommandsActAtOnce` is the
   refinement of `CatalogRegister`: initial states map to initial states, `Create` to `Create`
   and `Commit` to `Edit`, `Transition` or `Replace`, everything else to a stutter.
6. `UndisturbedTruth`, `RedirectsLeadAlways` and `ShownVariantsRemain` (`CatalogReadsProofs`),
   from `ReadInv`, which says of each step of a read what it has seen: what is stored, unless
   it was overtaken (`SeenStored`); and of a product that was published, variants that are
   still there with the same choices (`VariantsStay`), whatever overtook it, because nothing
   may be reshaped any more (`Settled`, part of `VersionInv`).

`AbuseProtectionProofs`, for any clients, addresses and accounts and all settings, from
`KeysAssumption` (the names of the keys differ) and `SettingsAssumption` (settings are
positive): `TypeCorrect` contains that a counter runs exactly if it counts. `WaitingSuffices`
needs `WaitInv`, that what blocks a client still runs and for no longer than its advice;
a counter that has ended and begun again blocks it no more. `LimitAlwaysHolds` needs
`LimitInv`: admissions beyond those the window has counted are older than the window, and those
beyond a whole limit more older than the window before. Two windows that touch admit up to
twice the limit, and the property says no more. `MailsAlwaysSpaced` needs `MailInv`, that the
cooldown runs until the last admission is a cooldown ago.

`PagesProofs`, for any finite set of rows, any sizes of a page and any precision of the clock,
from `PagesAssumption`: the rows of a list are ordered; that a nonempty finite set of them
has a first and a last is by the well-foundedness of the strict subsets of a finite set, with
the rows ahead of a row as the subset. From it `PageParts`: nothing that is left out of a page
comes before anything in it, and a page without a next one is all that was left. `PagedInv`
then says that what was returned lies behind the cursor and what stayed where it was lies
ahead, unless it was returned or lost. `ReturnedBehind` is why a cursor that lost a part of its
stamp errs in one direction only, `RestAhead` when it errs: within one millisecond
(`SameMillisecond`), in the lists whose column is finer. `NoRowReturnedTwice` and
`NothingIsSkipped` follow.

`MayHaveConfirmed` and `reverted`, up to which `SessionsKnowPassword`, `NoRevival`,
`ConfigurationsCoherent`, `ArchiveAuthorized`, `CommandsAtomic`, `VariantsKeepChoices` and the
second half of `RedirectsLead` hold, are not
assumptions of convenience: the runs `identity_version_rollback` and `catalog_published`
show what happens after.

Only model-checked: `EveryRequestEnds`, `BlocksEnd`, `PagingEnds` and `SignedInSessionEnds`,
which are liveness under fairness. The disagreements are counterexamples and need no proof.
That the built-in roles satisfy `CatalogueAssumption`, and the bodies of `MCCatalog`
`CatalogAssumption`, is evaluated by the runs.

## 8. What is not modelled

The start-up synchronisation of the authorization catalogue is one transaction, run before the
first request and never in production, that brings the tables in line with `RoleCatalogue`: the
staff runs start where it has ended. Health checks, the Redis client,
configuration, logging, the layout of errors and the HTTP surface keep no state a property
could be about, or run once. The normalisation of texts, slugs and SKUs is a function of one
string each, character by character; a slug or a name in the models is a normalised one. In `Identity` the
limits are `Throttle`, which may refuse any request, and the lifetimes `ExpireSession`, which
may come at any time. Random values are names that no two
requests share; a hash is the password it was made from.
