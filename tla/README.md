# TLA+ models of YaaiCMS

YaaiCMS is a multi-tenant content management system in Go: a public site whose
pages are built from templates stored in PostgreSQL and cached in two levels, an
admin panel in which editors and an AI assistant change content, templates,
menus and settings, and a loop that provisions custom domains in Kubernetes.
This directory holds TLA+ models of the parts of it in which several actors
touch the same state, the TLC configurations that check them on small
instances, and TLAPS proofs of what holds for every instance.

There is no lock and no long transaction between requests anywhere in the
program: each HTTP request runs on its own goroutine, each SQL statement and
each Valkey command is atomic by itself, and everything between two of them can
be overtaken. That is what the models are about. Every model gives each
statement a step of its own and keeps what a request holds in memory between
two statements as explicit state.

    tlasany M.tla                         parse
    tlc -workers 2 -config R.cfg M        run R of module M (see "Runs")
    tlapm TemplateEngineProofs.tla        check the proofs
    tlapm SessionsProofs.tla
    tlapm FrontProofs.tla
    tlapm RestyleProofs.tla
    tlapm RevisionsProofs.tla
    tlapm ForestProofs.tla
    tlapm MediaProofs.tla                 about three minutes, the longest
    tlapm TenantHostsProofs.tla

## 1. Inventory

For each component: its state, its operations, what is hard, what makes it
correct. `PROJECT.json` repeats the list with the modelling status of each part,
and under "hazards" every place where the code is exposed to one of the
difficulties below, with the properties that watch it.

**Template store and template admin** (`internal/store/template.go`, handlers
`TemplateCreate/Update/Activate/Delete/RevisionRestore`, `AITemplateSave`).
State: the `templates` table of a tenant, with body, version and active flag,
and a partial unique index that allows one active template per type.
*Hard:* `Activate` is a transaction of three statements under READ COMMITTED;
updates are read-then-write with the row possibly deleted in between; UPDATEs
that match no row pass for success. *Correct when* at most one template per type
is active, a type does not lose its active template, ids and versions are never
reused.

**Template engine, L1 cache** (`internal/engine`). State: a map from (id,
version) to a compiled template, under a mutex, in the process. Operations:
render a page, a post list, an author page: for each of header, footer and main
part one query for the active template, a cache lookup, on a miss a parse and a
store, and the execution. *Hard:* the row was read before the lookup; an
invalidation can fall between the read and the store. *Correct when* the cache
cannot be noticed.

**L2 page cache, public pages** (`internal/cache/page.go`,
`internal/handlers/public.go`, the purges in `internal/handlers/admin.go`).
State: HTML under a key per slug and one for the homepage, in Valkey, with a
TTL. *Hard:* a visitor reads the database over several queries and stores the
page later; editors write and then purge; `InvalidateAll` walks the keys with
SCAN in batches; every Valkey error is logged and forgotten; a slug can be
renamed, freed and reused. *Correct when* what is served is what the database
says, apart from windows that end.

**Content and revisions** (`internal/store/content.go`, `revision.go`, handlers
`createContent`, `updateContent`, `deleteContent`, `RevisionRestore`,
`RevisionUpdateTitle`, `generateRevisionMeta`). State: the row of an item, its
revisions, and goroutines that title revisions after the request is answered.
*Hard:* each save works from a copy; the revision and the UPDATE are separate
statements; the goroutine answers up to two minutes later. *Correct when* every
state can be restored, and titles are whose they should be.

**Template revisions** (`internal/store/template_revision.go`, handlers
`TemplateUpdate`, `TemplateRevisionRestore`, `TemplateRevisionUpdateTitle`,
`generateTemplateRevisionMeta`): the same protocol for templates, except that
the goroutine is started before the UPDATE and whether or not it succeeds.

**Sessions, login, two-factor setup** (`internal/session`,
`internal/handlers/auth.go`, `internal/middleware/auth.go`). State: one JSON
record per session in Valkey, written as a whole; the TOTP secret of a user in
the database. *Hard:* each request reads the record at its start and writes its
own copy back; a logout can fall in between; the setup page generates a secret
if it finds none. *Correct when* a session ends at logout, a step that was
passed stays passed, and the secret shown is the secret checked.

**Tenant resolution, canonical host** (`internal/middleware/tenant.go`,
`internal/store/tenant_resolver.go`, `internal/handlers/admin_tenant.go`). State:
Valkey entries for subdomain, custom domain and canonical host, with a TTL of
five minutes, over the tenants and domains tables. *Hard:* filled from reads a
change may have overtaken; dropped by some changes only. *Correct when* a host
reaches its tenant, and redirects end at the primary domain.

**Custom domain lifecycle** (`internal/k8s`, `internal/store/tenant_domain.go`).
State: the status of each domain and its Kubernetes resources. A loop verifies
DNS, creates the resources, waits for the certificate; admins add, delete and
retry domains. *Hard:* the loop works from a list read at the start of its pass;
a crash between two of its steps; deletions in between. *Correct when* no
resources outlive their domain, and a correctly configured domain becomes
active.

**Media library** (`internal/handlers/admin_media.go`, `AIGenerateImage`,
`internal/store/media*.go`, `internal/storage`). State: rows of images and of
their variants in PostgreSQL, and objects in S3 under keys that hold the month.
Operations: upload, delete, regenerate the variants of one image or of all that
have none. *Hard:* there is no transaction over rows and objects; most errors
are logged and forgotten; S3 calls stop when the client leaves, SQL statements do
not; two requests on one image overlap; cached pages name the objects. *Correct
when* a row's original exists, and what rows name is what S3 holds.

**Categories, menus** (`internal/store/category.go`, `menu.go`, their handlers and
manager pages). State: trees by parent pointers, with places among siblings, and
the tree each open page shows. *Hard:* a page saves its whole tree, row by row in
one transaction, after other pages have changed it; a rename writes back a parent
it read earlier; statements wait for each other's row locks; the page does not
look at the answer to its save. *Correct when* the rows remain a tree, nothing
waits for ever, and the page shows what is stored.

**Design themes** (`internal/store/design_theme.go`, the theme endpoints of
`admin_ai.go`): at most one active theme per tenant; activation as for templates,
with the check on affected rows that templates lack. *Hard:* its two UPDATEs go by
the tenant of the session and by the bare id of the theme. *Correct when* a tenant
loses its active theme only to another of its own or on request.

**Rate limiter** (`internal/middleware/ratelimit.go`). State: a map of clients
under a lock, each entry with a lock of its own, and a cleanup goroutine. *Hard:*
`allow` never holds both locks, and reads the time before it waits for the
second. *Correct when* no more requests pass in a window than the limit allows, nobody is
rejected wrongly, and the map does not grow for ever.

**AI providers, registry, moderation** (`internal/ai`). State: which providers
have keys, and whether the fallback moderator still asks its primary; the
tenant's choice of a provider is a setting in the database. *Hard:* the check
fails open, text by text; one request changes the moderator for all others; a
restart may come with other keys. *Correct when* a flagged text does not reach a
provider while somebody could still have judged it.

**AI assistant** (`internal/handlers/admin_ai.go`, the builder page
`template_ai.html`). State: in the page, the templates generated so far and
three asynchronous loops that generate, save and activate them. *Hard:* each
loop suspends at every call, where the user may click again, retry or start over;
a save of several templates can fail half-way; an activation that fails is
answered like one that succeeds. *Correct when* templates used together were
generated together, and the page says what is so.

**The rest**: users, settings, profiles and the cache log are tables with
single-statement stores; CSRF, security headers, logging and recovery are
stateless filters; router, renderer, configuration, migrations, slugs, markdown
and image scaling have no state that two actors share.

**Interactions.** Public requests pass through tenant resolution, then the page
cache, then the engine with the L1 cache over the template store, and the
content, menu, settings and profile stores. Admin requests pass through the
session, write one store and then purge the caches; a content or template save
also leaves a goroutine behind. AI requests pass through moderation to a
provider; a generated image goes on into the media library, generated templates
into the template store. The verifier loop shares the domains table with the
admin. The rate limiter stands before login and before the AI endpoints.
Caches are dropped by calls after the write, never by the database.

## 2. What is modelled, and how

| module | models | state, in the code's words |
|---|---|---|
| `TemplateStore` | the templates table and the admin requests on it | `rows` the table, `born` the ids given out, `adm` each request's position and memory |
| `RenderPlan` | which templates a page needs, in which order | no state |
| `TemplateEngine` | the engine with the L1 cache, over `TemplateStore` | `l1` the map of compiled templates, `ren` each render's position and memory |
| `CachelessEngine` | *abstract*: the engine without a cache | `view`, each render's position and the parts it has produced |
| `PageCache` | the page cache, its visitors and its editors | `content`, `site` the database, `cache` Valkey, `adm` and `vis` the requests |
| `Revisions` | one content item or template, its revisions, editors and titling goroutines | `item`, `revs` the rows, `ed` the requests, `jobs` the goroutines |
| `Domains` | tenants, custom domains, the verifier's passes, Kubernetes resources, the super admin's requests | `tenants`, `doms` the tables, `res` the resources by name, `ver` and `adm` where the passes and requests are |
| `TenantHosts` | public requests finding their tenant and canonical host, over `Domains` | `owner`, `canon` the Valkey entries, `vis` the requests |
| `Sessions` | signing in: session records, 2FA, choice of a tenant, logout | `sessions` the records in Valkey, `users`, `members` the tables, `req` each request and the copy it holds |
| `Media` | images, their variants, S3, and the pages that show them | `objects` S3, `filed`, `rows`, `variants` the tables, `req` the requests, `cached`, `view` pages |
| `Forest` | categories or menu items and the manager pages | `rows` the table, `page` what each page shows, `req` the page's request with the row locks it holds |
| `RateLimiter` | `allow` and `cleanup` | `clients` the map, `stamps` the entries, `pc`, `entry`, `time` each request's locals, `cleaner` the goroutine |
| `Assistant` | AI requests through moderation to a provider | `keyed`, `usePrimary` the registry, `provider` the setting, `call` the requests |
| `DesignThemes` | the theme table and its activations | `themes`, `active` the rows, `activation` the transactions |
| `Restyle` | the builder page, over `Assistant` and `DesignThemes` | `results`, `step`, `saving`, `queue`, ... the page's fields, `rows`, `onSite` the templates it has saved and those active |
| `TemplateEngineProofs`, `SessionsProofs`, `FrontProofs` (of `RateLimiter` and `PageCache`), `RestyleProofs`, `RevisionsProofs`, `ForestProofs`, `MediaProofs`, `TenantHostsProofs` | theorems about the modules of these names | |
| `MC...` | instances for TLC | |

### TemplateStore, TemplateEngine

A handler is a chain of actions, one per statement: `UpdateRead` (the SELECT and
the validation), `UpdateWrite` (the UPDATE that sets `version = version + 1`),
`InvalidateTemplate`. A row that was deleted in between is not matched, and the
handler goes on: `UpdateWrite` then changes nothing but still leads to the
invalidation, as in the code.

`Activate` is `ActivateSelect`, `ActivateSnapshot`, and then `ActivateCommit` or
`ActivateConflict`. The transaction runs under READ COMMITTED: its first UPDATE
fixes the rows it visits when it starts (`seen`), re-examines each one when it
gets its lock, and holds the locks until COMMIT, so that the two UPDATEs and the
COMMIT are one visible step. A row that a concurrent activation made active
after the snapshot was taken, of a template created after the snapshot, is not
deactivated: there the unique index rejects the second UPDATE, and the
transaction rolls back. That no type has two active templates is that index's doing
alone and no property of its own. `Activate` deactivates by the session's tenant and
activates by id, and no handler compares the two: `ActivateSelect` may run under
another tenant's session (`here`), `ActivateForeign` under this one's with another's
template.

A render holds, per part: the row its query returned (`tmpl`), the compiled
template in its hand (`compiled`, represented by the body it was compiled from)
and the parts done (`out`). `CacheGet` and `ParseAndPut` are separate: nothing
holds the mutex across them. `GoOn`, `NextWant` and `WantAfterMiss` give the order of the
lookups: header, footer, main part; an author page without an `author_page`
template falls back to `article_loop`.

`CachelessEngine` states what the engine promises. Under the refinement mapping
`ViewOf`, a render between its query and its execution is one that will execute
the body the query returned; cache lookups, stores and invalidations stutter.

### PageCache

`CacheHit/CacheMiss`, then `QueryPage` or `QueryPosts/QueryHome`,
`ReadSettings`, `Render`, `Store` are the queries of a public request in order.
`RenderFails` is the engine error path, with the homepage's fallback. An edit is
`UpdateRead`, `UpdateWrite` or `UpdateConflict`, `PurgePage`, `PurgeHomepage`.
`ChangeLook` stands for the handlers that make one write and end in `InvalidateAll`
(templates, menu items, avatars), whose SCAN deletes in arbitrary batches
(`FlushBatch`). `ProfileSave` makes two writes: `ProfileName`, when the display name
has changed, then `ProfileUpsert` and the flush, or `ProfileFails`, which returns
without one and leaves the new name unpurged. `SettingsSave` purges nothing, as in the
code. A menu item that links to a content has that content's slug as its URL
(`Links`, `convertMenuItems`), which a rename changes on every page while it purges
one. `Expire` is the TTL.

`cache` maps keys to what the page shows, compared against `Now(k)`, what a
render would give that read everything at this moment. The history variable
`unpurged` marks the parts of an entry whose purge has been missed or never comes:
those that were already out of date when they were stored, and names that a failed
profile save has left so. `LookFresh` is about the look and the names; settings and
links are never purged, and only `Converges` is about them.

`InvalidateHomepage` deletes `page:_homepage`; the homepage is stored under
`page:<tenant>:_homepage`. The model has both keys, and so shows the difference
(see "Findings").

### Revisions

`kind` chooses between a content item and a template. A save is `UpdateRead` (the
row, and the form applied to the copy; `UpdateContent`, `TemplateUpdate`),
`Snapshot` or `TemplateSnapshot` or `SnapshotFails` (the INSERT of the revision, whose failure is only logged),
`Write` or `WriteFails` (the UPDATE of the item and, for a save of content, the start of the goroutine; a template's starts
with its snapshot).
`RestoreRead` leads into the same two steps. `RenameRead`, `RenameWrite` are
`RevisionUpdateTitle`, which writes the changelog it read back with the new
title. `GenerateMeta` is the end of the goroutine: it keeps the title the save
was given and asks for one otherwise (`Answers`), and writes it without looking at what
the row holds by then: it puts a title the save had back over a rename as well. A call
to the AI that fails has a fallback; an answer that is blank when trimmed is stored as
it is, and the UPDATE may fail, which is only logged: nothing tries again, and the
history `blank` remembers these revisions. The
history variables `had`, `lost` and `given` record the
states the item has had, the states that were replaced and whether the request
that replaced them knew them, and two titles of each revision: the one of its save
and the last one a user gave it.

### Domains, TenantHosts

`Domains` has the tables and all that changes them, `TenantHosts` extends it by
the caches and gives the next-state relation, for the reason that some purges
belong to steps of the verifier and of the admin. A pass of the verifier is
`ListPending`, then for each listed domain in any order one of `PendingTooLong`,
`DNSElsewhere`, `SetVerified`; after the last one `CreateResource` twice
(certificate, route) or `CreateFails`, and `FinishPending`; then the second list
with `CheckCertificate`, `Activate` and `PurgeDomain`. The list holds ids and
names as they were when it was read; statuses are written by id, to whatever the
row has become. `CallFails` has the places where the code drops an error. What
DNS says is a choice, `Age` is the passage of `pendingTimeout`, and
`IssueCertificate` is cert-manager (external). A resource remembers which domain
it was created for, and `SanitizeDomain` is a constant: two domains may share a
resource name, as the real function lets them.

A deletion reads the row, deletes three resources and then the row;
`SetPrimary` is the transaction as one step, since its first UPDATE locks the
tenant's rows. `SetPrimaryFails` is its rollback. A public request is
`OwnerHit`, or `OwnerMiss`, `ReadTenant`, `KeepTenant`; then `CanonicalHit`, or
`CanonicalMiss`, `ReadPrimary`, `KeepCanonical`. The history variables
`staleOwner` and `staleCanon` mark entries that were out of date when they were
stored or whose purge failed, was lost or is never made. The subdomain test is
`HasSuffix` without a dot (tenant.go:68): a custom domain that ends in the base
domain's letters is taken for a subdomain. Such domains are left out; tenants' hosts
and custom domains are disjoint here.

### Sessions

A request loads its session's record (`LoadSession`, or with `SubmitCode` and
`SubmitTenant` the load and the filters of the route in one step), works on the
copy in `req` and may write all of it back (`Update`), whether or not there still
is a record. The setup page is `ShowPending`, `Generate` with `SetTOTPSecret`, or
`SetupOver`; a code's check is `RejectCode`, or `AcceptCode`, `EnableTOTP`,
`GetTenants`, `Update`; the choice of a tenant is `GetTenantRole`, `Update`. `SubmitProfile` is `ProfileSave`, which
writes its copy back for the name in it.
Links are followed through redirects (`from` holds where the browser has been).
Admins of other sessions change the user with single statements. A code stands
for the secret it was computed from; the user enters codes of secrets that were
shown.

### Media

An object key is the month it was made in, the image and the size. Each S3 call
and each SQL statement is a step: `UploadOriginal`, then `UploadVariant` per size
that fits (`Fitting` is what `imaging.go` yields for the image's width), then
`InsertRow` and `SaveVariants`; `DeleteRead`, `DeleteRow`, then `PurgeObject` per
key; `RegenerateFind`, `Download`, `StripRows`, `PurgeObject`, then variants,
`SetThumb` and `SaveVariants`; `BulkList` and, per image, `BulkNext` and the same
from `Download` on. A bulk request only takes images without variants, lists
those of all tenants and fails on the others'. Faults are `UploadFails`,
`VariantFails`, `PurgeFails`, `DownloadFails`, `StatementFails`, `ClientLeaves` (which lets
all later S3 calls of the request fail) and `Restart`. `ViewBegin`, `ViewEnd` are
a page that asks for the image in two queries and is cached; nothing purges it.
The history variable `met` holds the images on which two requests overlapped. `Library`
is the state a library starts in: of each image nothing, its original, or all its
variants too. Images from the time when there was a thumbnail but no table of variants
are left out: a bulk regeneration gives them variants and leaves their thumbnail's key at
the old object (admin_media.go:554).

### Forest

`manager` chooses between categories and menu items, which differ in what a
deletion does to the children. An open page is `Load`, `Drag`, `SaveBegin` and
the requests `CreateBegin`, `UpdateFind`, `DeleteLock`. A reorder is `SaveRow` per
row, in the order in which `collectOrder` walks the page's tree, and `SaveCommit`.
`held` are the rows a transaction has locked, `kept` those it has locked against
deletion through the foreign key; `Waits` says for whom the next statement waits,
and `DeadlockVictim` is Postgres aborting one of those that wait for each other.
`ParentGone` is the foreign key's rejection. `sure` and `undone` are history: a
page that has seen no foreign change, and a rename that wrote back an old parent.

### RateLimiter

`allow` is `LookUp`, `Create`, `ReadTime`, `Admit` or `Reject`; `cleanup` is
`CleanBegin`, `CleanLock`, `CleanScan` per entry, `CleanRemove`, `CleanEnd`. The locks are the
grain of the steps: the map's read and write lock, and each entry's. `MapLocked`
keeps `allow` off the map while the cleaner holds it. A stamp is the request that
made it. `strays` are the admitted requests whose entry the cleaner took away, between
look-up and stamp or between its own look and the removal. `LimitHolds` counts all
others, at the time they have read, in the window that ends now. Windows of the past can
hold one too many: a request that waits for the lock while a later one passes it
finds the stamps gone that the later one has dropped.

### Assistant, DesignThemes, Restyle

A request of a handler (`AIGenerateContent`, `AIRewrite`, ...) submits one or two
texts. Each goes through `CheckPrompt` and `Verdict`, `ModeratorFails` or
`PrimaryDenies`; `ChooseProvider` follows the tenant's setting or the default, and
`TextGenerated` is the answer. Whether a text breaks the policy is a choice made
when it is submitted, and an answering moderator tells the truth about it. The
history in `let` holds, for every such text that passed, the moderators that had
failed on it.

In `DesignThemes` an activation is a transaction with a snapshot, as in
`TemplateStore`: it deactivates what it finds of the session's tenant (`Of`) and
activates the theme it names, whoever that belongs to. `LostAbroad` is the activation
that takes a tenant's active theme and sets another tenant's. In `Restyle` the page's three loops are `SendStep`/`StepAnswered`,
`TemplateSaved`/`SaveFails` and `ActivationAnswered`/`ActivationLost`; the buttons
`RestyleAll`, `RetryFromStep`, `SaveAllTemplates`, `ActivateAllTemplates` are there
when the page shows them. The request of a step goes through `Assistant` like the
editors' requests do. `made[n]` records the templates that template `n` was
generated from: `Context(k, m)` are the earlier ones shown, of which those after type `m`
were cut off with the rest of `chat_history` after 2000 bytes. An empty answer is valid,
is no result, and the loop goes on (`NextStep`); `crossed` and `refused` are histories.

## 3. Runs

Each `.cfg` has the run's name.

| run | module | question | distinct states |
|---|---|---|---|
| `engine` | `MCTemplateEngine` | two template admins and two author-page renders interleave at each statement and cache operation, with restarts: `KeyDeterminesBody`, a type loses its active template only by an activation that has lost its target (`ActiveLostOnlyWithTarget`), and the refinement `L1Transparent` | 522,299 |
| `active_lost` | `MCTemplateEngine` | *violation*: activating a deleted template leaves none active | |
| `pages_fresh` | `MCPageCache` | two editors, two items, two slugs, renames, changes of menus and profiles, flushes in any batches: no page is out of date but for two excuses (`LivePagesFresh`), and for display names a third (`LookFresh`) | 809,098 |
| `converges` | `MCPageCache` | with failing calls, half-failed profile saves, menu items that link to content, and restarts: the cache ends up right once the edits stop (`Converges`) | 115,048 |
| `homepage_stale` | `MCPageCache` | *violation*: the homepage is not purged | |
| `revisions` | `MCRevisions` | two editors and the goroutines, for a content item and for a template: snapshots are states the item had (`SnapshotsAreHistory`), what was knowingly replaced can be restored (`KnownStatesKept`), titles are somebody's (`TitlesExplained`), every save is titled unless the AI's title is blank or its UPDATE fails (`SavesGetTitled`) | 471,833 |
| `hosts` | `MCTenantHosts` | one domain name moves between two tenants while the verifier, an admin and a visitor interleave, with one failure or restart: statuses only advance (`LifecycleForward`), primary domains are active (`PrimaryIsActive`), cached tenants and hosts are right but for slow stores and lost purges (`DomainReachesOwner`, `CanonicalFresh`) and right in the end (`RedirectsArrive`), new domains get to their certificate (`DomainsAdvance`) | 94,488 |
| `sessions` | `MCSessions` | two requests of one session, an admin's change of the user, a failure or restart: the factor is never claimed without a code (`SecondFactorPassed`) nor lost again (`NeverBackToOneFactor`), tenant and role belong together (`RoleWasHeld`), ended sessions go (`EndedSessionsGo`) | 702,493 |
| `media` | `MCMedia` | two requests on the library of two tenants, with one fault, over a change of month: a row's original is stored (`OriginalsStored`), rows and objects match where nothing failed or overlapped (`RowsMatchObjects`), the bulk request serves what it lists (`BulkServes`), cached pages come to name stored objects (`PagesRecover`) | 138,971 |
| `forest` | `MCForest` | two manager pages, stale reorders, creations, renames and deletions, with row locks: the rows stay a tree but for renames over a move (`NodesReachable`), a saved page shows what is stored (`SavedMeansShown`), new nodes come last (`NewcomersComeLast`), requests end (`RequestsEnd`) | 118,762 |
| `limiter` | `MCRateLimiter` | three requests of two clients and the cleaner over three ticks: `LimitHolds`, `RejectedRightly`, `SilentForgotten` | 216,024 |
| `restyle` | `MCRestyle` | moderated requests with refused keys and restarts, themes of two tenants under overlapping activations, and the builder page's loops: `FlaggedStopped`, `ThemeStays`, `Cohesive`, `PageTellsTruth` | 1,163,952 |

**Excuses.** Where the code lets something go wrong that no document excludes, the
property names it and shows that there is nothing else. `KnownStatesKept` excuses the
state that an overlapping save replaces unseen, `DomainsAdvance` and `BulkServes`
behaviours with a failure, `CanonicalFresh` a deleted primary domain, `NodesReachable`
a rename over a move, `SavedMeansShown` failed saves, `NewcomersComeLast` changes by
another page since the load, `LimitHolds` the cleaner's strays, `ThemeStays` a foreign
theme's activation, `PageTellsTruth` crossed loops and refused activations. So these
properties do not show those cases to be harmless; the notes of the hazards in
`PROJECT.json` say which are caught by nothing. Three more limits of what is shown:
`SecondFactorPassed` is about sessions and not about the secret a user's row is left
with; `FlaggedStopped` is about the texts that are submitted for moderation, and titles,
`chat_history` and `current_html` are not; "saved" in `PageTellsTruth` means inserted,
since other requests edit and delete rows.

The type invariants of `TemplateEngine`, `Sessions`, `RateLimiter` and `Restyle` are proved
(section 4) and are not checked again.

**Bounds.** `MaxRequests` bounds the admin requests of a behaviour, three in
each run. The races need two requests and one more that prepares the ground: an
update in flight while a second request deletes or activates the same row, and a
third that creates the row; a rename, and a second item that takes the slug,
while a third change is purged. Renders and visitors are not bounded: each
starts again when it is done. Two ids and two bodies tell "this row's body"
from "another's" and "an older one". Version numbers, the counters `look`,
`names`, `settings`, `stamps` and `made` grow only with requests and are bounded through
them. In `engine` the pages are author pages, the kind that uses every lookup
path; `Broken = {h2}` makes one of the bodies fail on execution. `pages_fresh`
works with pages (the posts' list adds nothing to what is under a slug) and
without failures: a lost purge would break the properties for a reason they do
not talk about; `converges` has the failures. Symmetry is used for the requests,
which the specifications treat alike, in runs without liveness properties
(`L1Transparent` is a safety property).

`revisions` has one text, as a draft or published, and two template bodies: two
states tell "the one before" from "the one after". It has two titles that users
give, one for a save and another for a rename of its revision.

`hosts` allows two requests after the seeded active domain: deleting the domain
and adding it for the other tenant, or making it primary and unsetting it, and
one failure among all calls, purges and restarts; two row ids are enough for
"the same name, another row".
In `sessions` one session and two requests are what overlaps; two secrets
let one replace the other, two tenants and two roles tell a pair from its parts.
Ids and secrets are used up at some point: `NothingGenerated` then takes the
code's error path for a failing random source.

`media` has an image of the acting tenant with two variants, which is absent, has
no variants yet, or is complete at the start, and another tenant's image that
cannot be decoded; `MaxRequests = 2`, since the properties that can be broken by
an overlap need two requests, `MaxFaults = 1`, and `MaxMonth = 2` for regenerations
in a later month. Pages are looked at in behaviours without faults only, as no
property speaks of them otherwise. `forest` has three nodes (a cycle takes two,
and one more is created or moved about), two pages of
which one has unsaved changes at the start, two requests and one more drag.
`limiter` has a limit of one request in a window of one tick: with three requests
a client can be silent, forgotten and back. `restyle` has two types of templates
(the page has five; one has a predecessor and one a successor), at most four
generated and four saved, so that a run can be repeated whole; three providers,
with the keys of both moderators or of one; one editor beside the page; three
themes, two of one tenant and one of another, and two activations. The themes share no variable with the rest, and the
page sees of a request only whether it was answered: the constraint
`OnePartAtATime` explores the themes, the requests and the page each while the
others rest, and allows one deleted row and six templates and rows together.

**Deadlock** is checked but in the runs of `Revisions` (an item that was deleted is
never created again), `Media`, `Forest` and `RateLimiter`: when their bounds on
requests, or the clock's, are reached, nothing is left to do. That requests of
`Forest` do not wait for each other for ever is `RequestsEnd`.

**Fairness.** `PageCache`: a request that was begun runs on, because goroutines
are scheduled and each call returns or fails; nobody has to send a request. An
entry ages (`Ages(k)`): Valkey drops it when its TTL is over unless a new Set has
restarted the TTL, so weak fairness is on "expires or is stored anew". Nothing is
assumed of restarts, failures or edits; edits stop because of `MaxRequests`, which is
what "once the edits stop" means in `Converges`. `Revisions`: the goroutine of each
revision ends, because the AI providers' HTTP clients have timeouts of 60
to 120 seconds and the goroutine then ends with a fallback for what has failed; requests
need not even run on. `TenantHosts`:
requests and the verifier's loop run on, time passes for pending domains, and
entries age as above; nobody has to send a request, DNS may stay wrong and
cert-manager need not answer. `Sessions`: requests that were begun run on and
records expire. `Media`: handlers run on and cached pages expire; nothing is assumed
of failures, months or clients. `Forest`: the server goes on with a page's request,
or Postgres aborts it, and the page loads again after it; no fairness is on the
user. `RateLimiter`: goroutines that have begun run on, and the ticker never stops,
as the router never calls `Stop`; time need not pass. The process dying is left out
of `Revisions`: the goroutine is not waited for at shutdown, and the revision
then keeps no title, which neither code nor documentation promises against.

Every property of a passing run has a mutant in `PROJECT.json`: a small
change of a mapped definition (a dropped purge, a key without its version, a
forgotten second look-up, ...) under which TLC finds the property violated. The operators that
say "a variant that breaks" in their comments serve that purpose only.

## 4. Proofs

`TemplateEngineProofs` proves for every set of templates, bodies, requests and
renders, from the assumptions `StoreAssumption` (the seeded table is typed and
respects the unique index, `NoRow` is no row) and `EngineAssumption`:

* `TypeCorrect`: `Spec => []TypeOK`. `TypeOK` is inductive by itself because it
  includes `HoldsItsPart`: a render in a certain position has what the next
  step takes.
* `KeyCoherence`, `VersionsNeverAhead`: `Spec => []KeyDeterminesBody`,
  `Spec => []VersionsBehind`. Neither is inductive alone. That an id and a
  version determine a body survives `UpdateWrite` only because the version it
  assigns is new to the cache and to every render in flight, which is
  `VersionsBehind`; and that nothing in the process is ahead of the table survives
  `ParseAndPut`, which may store a row read long ago, only because what renders
  hold counts as well. The inductive invariant is `Coherent`, their conjunction,
  on top of `TypeOK`. The proof goes over the set `Triples` of everything held
  anywhere: most steps only shrink it.
* `RendersWhatItRead`: `Spec => []ExecutesWhatItRead`, from `Coherent`: a hit in
  the cache has the key, hence the body, of the row in the render's hand.
* `ActiveTemplateKept`: `Spec => ActiveLostOnlyWithTarget`, an action property. An
  activation commits long after it has read its target's type and its snapshot; the
  invariant `TargetsKnown` says that meanwhile what is left of both is still of one
  type, as ids are never used again and types never change.
* `L1CacheTransparent`: `Spec => L1Transparent`: the engine with the cache
  implements `CachelessEngine`. Each step maps to an abstract step or stutters;
  `Execute` needs `ExecutesWhatItRead`.

`SessionsProofs` proves for every set of users, tenants, sessions and requests,
from `SessionsAssumption` (the seed is typed; the values that stand for "none"
are none of the others):

* `SessionsTypeCorrect`: `Spec => []TypeOK`.
* `FactorNeedsCode`, `RolesBelong`: `Spec => []SecondFactorPassed`,
  `Spec => []RoleWasHeld`. Neither is inductive: `Update` writes back whatever
  copy its request holds, which it loaded before any number of other steps. The
  inductive invariant `Inv` therefore says the same of every copy in flight
  (`RequestsSound`), and adds that a request past the code has passed it in its
  own session, that only requests whose copy has the factor write, and that all
  memberships are in the history (`MembersHeld`). It is kept because histories
  and session ids only grow (`SoundLasts`), so that a copy cannot become wrong
  by waiting.
* `FactorStays`: `Spec => NeverBackToOneFactor`, an action property, from the
  same invariant: a record is only overwritten by a copy with the factor.

`FrontProofs` proves of `RateLimiter`, for every limit, window, number of clients and
requests, from `LimiterAssumption`:

* `LimiterTypeCorrect`: `LimiterSpec => []LimiterTypeOK`.
* `OnlyStraysExceed`: `LimiterSpec => []LimitHolds`, for the window that ends now and the
  requests that are no strays, however late they are stamped.
  A count of requests is bounded because they stand together on one entry: the
  inductive invariant `LimiterInv` says that an entry belongs to one client
  (`EntriesOwned`), that what stands on it was admitted there (`StampsOwned`), that
  each admitted request of the window that is no stray stands on the entry its
  client has in the map (`WindowSeen`), and that the cleaner is about to remove
  only an entry on which no such request stands (`CleanerOK`).
* `RejectionsDeserved`: `LimiterSpec => RejectedRightly`, from `StampsOwned`: what `Reject`
  counts are admitted requests of the same client.

and of `PageCache`, the other component in front of the handlers' own work, for any
number of contents, slugs, editors and visitors and any bound on the requests, from
`PageCacheAssumption` (the names that both modules need, `Init`, `Spec` and the
like, have a prefix in `RateLimiter`, so that one module can extend both):

* `PagesTyped`: `Spec => []TypeOK`, with or without failures and restarts. That a page
  on its way into the cache shows at least one row (`Shown`) says that a 404 and the
  default homepage are never stored.
* `LivePagesStayFresh`, `LooksStayFresh`: `Spec => []LivePagesFresh` and
  `Spec => []LookFresh`, under two hypotheses. `~Faults`: no call to Valkey fails and
  the process is not restarted, since a failed or forgotten purge is the third way for a
  page to be old. `HomepageKey \notin Slug`: nothing checks that an editor does not
  choose the slug `_homepage`, and the page of that slug would share the homepage's
  cache key, so that either could be served for the other (cache/page.go:104-111); the
  model has no such slug, and a page by a slug and the homepage are different pages in it.
  The inductive invariant `PagesInv` adds to the types and the two properties only that
  slugs are unique (`SlugsUnique`), without which a rename could take one of two rows
  off a page that goes on being served. The proof sorts the steps by what
  they do to a page: most leave content and look alone and either drop an entry or keep
  it together with its excuses (`QuietStepFresh`: reads, purges, batches, expiry); a
  write of content has the purge of the slug it fills before it, and empties the page
  of the slug it leaves (`RowChanges`, `ContentStepFresh`); a store records what is
  already old (`StoreFresh`); a new display name has its profile save pending until that
  flushes or fails.

`RestyleProofs` proves for every set of providers, keys, callers, themes and
activations, every assignment of themes to tenants and every number of template types,
from the assumptions of `Assistant`, `DesignThemes` and `Restyle`:

* `RestyleTypeCorrect`: `Spec => []TypeOK`.
* `ModerationHolds`: `Spec => []FlaggedStopped`. Its invariant `AssistantInv` adds
  that a request waits for a moderator of its process, and for the last one it can
  ask unless that is a primary with a secondary behind it (`AskedRightly`), and
  that the primary is passed over only after it has refused the key.
* `ActiveThemeStays`: `Spec => ThemeStays`, an action property, from `ThemesInv`: what an
  activation has found active are themes of its session's tenant.
* `SetsAreCohesive`, `PageIsTruthful`: `Spec => []Cohesive`, `Spec => []PageTellsTruth`.
  `PageInv` adds that while a run is under way nothing is shown from its step on
  (`Generating`), and that a save nothing has crossed has stored what is shown up
  to its type, with the activation loop's queue accounting for the rest
  (`SaveOnCourse`, `ActivationOnCourse`).

There is one invariant for each part, as the parts share no variables: each
preservation lemma looks at the steps of its own part, and all others leave the
part's variables alone (`AssistantMoves`, `ThemesMoves`, `PageMoves`).

`RevisionsProofs` proves for every set of editors, states and titles and every
number of requests, from `RevisionsAssumption` (the titles users give are none of
the program's, `NoRow` is no row):

* `RevisionsTyped`: `Spec => []TypeOK`. Ids are taken from `1..MaxRequests`, so
  that `TypeOK` needs `Counted`: the ids given and the requests that may still take
  one are no more than the requests begun.
* `SnapshotsFaithful`, `KnownStatesRestorable`: `Spec => []SnapshotsAreHistory`,
  `Spec => []KnownStatesKept`. A state is replaced by an UPDATE long after it was
  read, so the invariant says of every request between its two statements that
  what it read is a state the item has had (`HeldStates`) and that its revision
  still holds that (`WritesRecorded`); the latter survives because no id is given
  twice (`IdsInOrder`) and renames and goroutines do not touch the snapshot.
* `TitlesHaveOrigins`: `Spec => []TitlesExplained`. A revision belongs to one
  request and one goroutine (`OwnWrite`, `OneJobEach`), which holds the title of the
  save (`JobsSaved`), and before the goroutine starts only renames touch the title
  (`Unstarted`). An earlier form of `TitlesExplained`, which had no place for the
  title of the save once a user had renamed the revision, was refuted on the way: a
  goroutine puts the title of its save back over a rename. TLC had not seen it with
  one title; the run now has two.
* `GoroutinesApart`: no two goroutines have the same revision.
* `RevisionsImmutable`: an action property: while its item exists a revision
  neither goes nor changes what it holds.

`ForestProofs` proves for every number of nodes, pages and requests and every set
of initial trees, from `ForestAssumption`:

* `ForestTyped`, `ParentsAreThere`: `Spec => []TypeOK`, and the parent of each row is
  a row (`ForeignKey`), which the model does not assume of Postgres but gets from
  the locks.
* `AllNodesReachable`: `Spec => []NodesReachable`. A reorder takes effect at its
  commit, by when its tree may be old. The locks it holds (`LocksApart`, `Locked`)
  keep the rows it has written and the parents it has given them
  (`Progress`, `ParentsSecured`), and no id is used twice (`Unused`), so that the
  nodes it writes are a closed set: rows detached from the root after the commit
  would lie inside the tree it saved, or outside, and be detached there before.
* `SavedIsTrue`: `Spec => []SavedMeansShown`, and `NewcomersLast`: `Spec =>
  NewcomersComeLast`, from what a page knows of the table while no other page
  changes it (`Informed`).

`MediaProofs` proves for every set of images, tenants, requests and visitors, every
list of breakpoints and all bounds, from `MediaAssumption` (among others, the
breakpoints ascend, as those of `DefaultVariants` in `imaging.go` do):

* `MediaTyped`: `Spec => []TypeOK`.
* `OriginalsKept`: `Spec => []OriginalsStored`, under every fault. A request that
  deletes objects after the row is gone says nothing about a row that comes later,
  so the invariant has that no row comes back: an upload that has yet to insert its
  row has met only deletes that have found none (`Uploads`), a delete that purges has
  deleted the row (`Deleted`), and other requests hold no original's key (`KeysFit`).
* `OriginalsGoLast`: the action property behind it: when an original goes, its row
  is gone.
* `RowsTrue`: `Spec => []RowsMatchObjects`. Two arguments, for images on which no
  two requests met and for those on which some did. The first follows the image
  through the one request that works on it (`LoneImages`, `Meetings`): at each of its
  statements `Followed` says how rows, objects and the keys in its memory relate. The
  second is for the month of the upload, where all requests use the same keys
  (`MonthsInOrder`): of what rows or requests rely on, each key is stored or some
  regeneration will make it (`Owed`), since it makes all sizes that fit (`Complete`).

The actions of `Media` change records of ten fields; the proof first restates each
one by its effect on the fields and the images (`EveryStep`), and everything else
follows from these shapes.

`TenantHostsProofs` proves for every set of tenants, domains, processes, admins and
visitors and all bounds, from `DomainsAssumption` and `HostsAssumption` (a tenant's
host is no custom domain; the rows at the start keep the unique indexes and are
active):

* `HostsTyped`: `Spec => []TypeOK`, with the two unique indexes of the table.
* `DomainsReachOwners`: `Spec => []DomainReachesOwner`. The property speaks of tenants
  that are active now and would not survive a tenant's being switched off and on
  again; the invariant `OwnerSound` says of every entry that no row which is active
  under this name belongs to another tenant, whether or not its tenant is active.
  Only a row that becomes active can break that, and then the purge of the name is
  to come: of the row's own name, since the verifier has the name from its list and
  no id is used twice (`ListedSound`).
* `CanonicalHostsFresh`: `Spec => []CanonicalFresh`, which is inductive with the types:
  of each step that moves or removes a primary flag (`AdminRows`) it is shown that a
  purge is to come, the tenant is gone, or the row was deleted, the one case in which
  the code purges nothing.
* `PrimariesActive`, `StatusesAdvance`: `Spec => []PrimaryIsActive` and the action
  property `Spec => LifecycleForward`, under the hypothesis `OneVerifier`: what the
  verifier has listed has not moved on since (`PassSound`), since nobody else writes a
  status and of two entries of a list with one id at most one is there
  (`SameListed`). The deployment runs one replica, but for the moments of an update
  in which two processes overlap; with two verifiers TLC finds `PrimaryIsActive`
  violated within two requests: the slower one writes an old status over an active
  and by now primary domain. The other theorems hold for any number of verifiers.

As in `MediaProofs`, the steps are restated first by what they do, here to the
memories and the rows (`VerifierEffect`, `AdminEffect`, `VisitorEffect`, `RowsGo`).

Every invariant and every action property of a passing run is proved. TLAPS cannot do liveness under fairness
(`Converges`, `SavesGetTitled`, `RedirectsArrive`, `DomainsAdvance`, `EndedSessionsGo`,
`BulkServes`, `PagesRecover`, `RequestsEnd`, `SilentForgotten`), nor ENABLED, nor
induction over data; these stay with TLC.

## 5. Findings

* `active_lost`: `TemplateStore.Activate` (store/template.go:147) does not check
  that its second UPDATE matched a row. If the target is deleted after the SELECT
  of its type, the transaction commits with no active template of that type.
  `DesignThemeStore.Activate` does check.
* `homepage_stale`: `InvalidateHomepage` (cache/page.go:73) deletes a key without
  the tenant; the homepage under the tenant's key stays until its TTL ends, or
  until something calls `InvalidateAll`.

Five more formulas are stated in the modules with the comment "Does not hold", as
descriptions of what the code leaves open; no run checks them:

* `PageCache!NoGhostPages`: a rename purges the new slug's page, not the old one's
  (admin.go:569).
* `PageCache!LinksFresh`: nor does it purge the pages whose menus link to the item
  (public.go:496-500); `Converges` shows that the TTL repairs it.
* `Revisions!NothingLost`: of overlapping saves, the state that the second UPDATE
  replaces is in no revision.
* `TenantHosts!ActiveIsRouted`: `SanitizeDomain` gives `a.b-c.org` and `a-b.c.org`
  the same resource name, and a 409 on creation counts as success whoever owns the
  resource (k8s/manager.go:204): the second domain becomes active without a
  certificate or route of its own.
* `Sessions!NoRedirectLoop`: `Require2FA` sends every session without the second
  factor to the setup page (middleware/auth.go:67), which sends a user who has 2FA
  enabled back to the dashboard (handlers/auth.go:145): a circle, where login sends
  such a user to the verification page.

Seen while modelling, without a promise in the code or the docs to check
against: `SettingsSave` purges nothing (admin.go:1607; `Converges` shows that
the TTL repairs it); `ProfileSave` that fails in its second write returns without a
purge and leaves the old name on cached pages (admin.go:1690-1694); a blank title of the
AI's is stored and a failed UPDATE of it only logged, after which the revision stays
untitled (admin.go:628, 651); the goroutine overwrites a title the user gave while it was
waiting, by its own or by the one the save had (admin.go:614, 651); a rename writes back a
changelog that was read before the goroutine stored its own (admin.go:758); two
overlapping saves decide on the publication date from their own copies
(store/content.go:129). A domain whose process stops after `SetVerified`, or for
which the next UPDATE fails, stays verified for good (k8s/verifier.go:99).
Deleting a domain purges no cache, and deleting a tenant leaves the Kubernetes
resources of its domains. Two setup pages that load together show two secrets, and
`EnableTOTP` enables whichever is stored by then (handlers/auth.go:125, 240). A
request that overlaps a logout can bring the record back until its TTL ends.
`TenantVerifyDomain` announces an immediate check and makes none
(admin_tenant.go:560-588). A rename of a category or menu item that overlaps a
reorder writes the old parent back, and two such can make nodes each other's
ancestors, which the manager then no longer shows (category.go:160, menu.go:191).
`saveOrder` says "saved" whatever the answer was. Two regenerations of an image in
a later month than its upload can leave variant rows without objects, and a
deletion that overlaps a regeneration leaves objects without rows. The bulk
regeneration's limit counts images it cannot serve (admin_media.go:516).
`TemplateActivate` redirects whether or not it has activated, so the builder page
can say "active" of a template that is not. An activation of a theme from a page left
open over a switch of the tenant deactivates the theme of the session's tenant and
activates another tenant's (design_theme.go:130, 135), and the same holds for templates.
The templates that the builder sends along are cut after 2000 bytes of text
(admin_ai.go:892-894), so that the later ones may not reach the AI. A custom domain that
ends in the base domain's letters is taken for a subdomain (middleware/tenant.go:68).

## 6. What is not modelled

HTML post-processing of rendered pages (no state), prompts and the parsing of AI
answers, image scaling, markdown, slugs, validation, HTTP details, and the stateless
middlewares. Templates, bodies and titles are model values: what a template does
with its data is not modelled, only which body is executed. Of the builder page its
mode for a single template and its previews are left out; of public pages
`AuthorPage`, which is not cached; of administration the creation of tenants and
users, and avatars. `Registry.SetActive` has no caller but tests.

## 7. Plan

Done, in the order of what matters most and is hardest to test: the template
engine with what it implements, the page cache, revisions, domains and tenant
hosts, sessions, then media, trees, the rate limiter, themes and the assistant.
Left:

1. Proofs: what `PageCache` still promises when calls fail and processes restart, and
   what `TenantHosts` does with two verifiers.
2. Avatars, as objects and rows, with the deletion of their users.
3. Slugs, as an algorithm checked over bounded inputs.
