----------------------------- MODULE PageCache -----------------------------
(***************************************************************************)
(* The L2 page cache (cache/page.go) of one tenant: visitors who render    *)
(* and store pages (handlers/public.go) while admin requests change the    *)
(* content and the site and purge pages (handlers/admin.go).               *)
(*                                                                         *)
(* Valkey and the database are shared by all requests and nothing locks    *)
(* them together: between a visitor's reads and its Set, and between an    *)
(* admin's write and its purges, any other request may run.                *)
(*                                                                         *)
(* Abstractions.  Content is its type, slug, status and one body standing  *)
(* for every other field.  The rest of a page is version numbers:          *)
(* site.look for what a handler changes in one write and then purges all   *)
(* pages for (templates, which TemplateEngine has in detail, the menus'    *)
(* own items, avatars and profiles), site.names for display names, which   *)
(* ProfileSave writes before the profile, site.settings for the site title *)
(* and tagline.  A menu item can link to a content, and then its URL is    *)
(* that content's slug at the time of rendering: site.linked are the       *)
(* contents that items link to.  Menus, authors and templates are read in  *)
(* one step.  Revisions, which no visitor reads, and the cache log are     *)
(* left out.                                                               *)
(***************************************************************************)
EXTENDS Naturals, FiniteSets

CONSTANTS
  Cid,           \* content ids (UUIDs: never used twice)
  Slug,          \* slugs; "_homepage", whose page has the homepage's key, is none
  HomeSlug,      \* the slug "home"
  Body,          \* contents' bodies
  Types,         \* content types in use, a subset of ContentType
  Admins,        \* admin requests that can be in flight together
  Linkable,      \* contents that the admins' menu items link to
  Visitors,      \* public requests that can be in flight together
  Renames,       \* BOOLEAN: editors change the slug of existing content
  SiteChanges,   \* what the admins change besides content, of SiteChange
  Faults,        \* BOOLEAN: Valkey calls fail and the process restarts
  NoRow, Miss,   \* no such row; no such cache entry
  MaxRequests    \* bound on the number of admin requests in a behaviour

ContentType == {"post", "page"}
ContentRow == [type : ContentType, slug : Slug, status : {"draft", "published"}, body : Body]

SiteChange == {"look", "profile", "settings"}

ASSUME PageCacheAssumption ==
  /\ NoRow \notin ContentRow
  /\ Types \subseteq ContentType
  /\ Linkable \subseteq Cid
  /\ SiteChanges \subseteq SiteChange
  /\ Renames \in BOOLEAN /\ Faults \in BOOLEAN
  /\ MaxRequests \in Nat

VARIABLES
  content,     \* content[i]: the row of content i, or NoRow
  born,        \* the ids INSERT has ever handed out
  site,        \* versions of what pages show besides content
  cache,       \* cache[k]: the html under key k in Valkey, or Miss
  adm,         \* adm[a]: where admin request a is
  vis,         \* vis[v]: where public request v is
  begun,       \* number of admin requests begun so far
  unpurged     \* history: the parts of each entry that its change's purge has missed or never
               \* comes for: out of date when stored, or left so by a profile save that failed

dbVars == <<content, born, site>>
vars == <<dbVars, cache, adm, vis, begun, unpurged>>

-----------------------------------------------------------------------------
(* Keys and pages.                                                         *)

\* cache.HomepageKey of the tenant, and the key InvalidateHomepage deletes.
HomepageKey == "tenant:_homepage"
BareHomepage == "_homepage"
PageKey == Slug \cup {HomepageKey}
Key == PageKey \cup {BareHomepage}

\* What a visitor sees of a row.
Seen(i) == [id |-> i, slug |-> content[i].slug, body |-> content[i].body]
SeenRow == [id : Cid, slug : Slug, body : Body]

Live(i) == content[i] # NoRow
Published == {i \in Cid : Live(i) /\ content[i].status = "published"}

\* ContentStore.FindBySlug and ListPublishedByType.
FindBySlug(s) == {Seen(i) : i \in {j \in Published : content[j].slug = s}}
PublishedPosts == {Seen(i) : i \in {j \in Published : content[j].type = "post"}}

\* convertMenuItems: the slugs that menu items get from the contents they link to.
Links == {[id |-> i, slug |-> content[i].slug] : i \in {j \in site.linked : Live(j)}}

Aspect == {"shown", "links", "look", "names", "settings"}
Shown == (SUBSET SeenRow) \ {{}}
Html == [shown : Shown, links : SUBSET [id : Cid, slug : Slug],
         look : Nat, names : Nat, settings : Nat]
Site == [look : Nat, names : Nat, settings : Nat, linked : SUBSET Cid]

\* What rendering key k would give if it read everything now.
Now(k) ==
  [shown |-> IF k = HomepageKey
             THEN IF PublishedPosts # {} THEN PublishedPosts ELSE FindBySlug(HomeSlug)
             ELSE FindBySlug(k),
   links |-> Links, look |-> site.look, names |-> site.names, settings |-> site.settings]

OutOfDate(k, f) == cache[k] # Miss /\ cache[k][f] # Now(k)[f]

-----------------------------------------------------------------------------
Visiting ==
  [pc : {"idle", "home"}]
    \cup [pc : {"query"}, key : PageKey]
    \cup [pc : {"settings"}, key : PageKey, from : {"page", "posts", "home"},
          shown : Shown]
    \cup [pc : {"look"}, key : PageKey, from : {"page", "posts", "home"},
          shown : Shown, settings : Nat]
    \cup [pc : {"store"}, key : PageKey, html : Html]

Request ==
  [pc : {"idle", "purgeHomepage", "profile"}]
    \cup [pc : {"update"}, id : Cid, row : ContentRow]
    \cup [pc : {"delete"}, id : Cid, slug : Slug]
    \cup [pc : {"purge"}, slug : Slug]
    \cup [pc : {"flush"}, todo : SUBSET PageKey]

Idle == [pc |-> "idle"]

Init ==
  /\ content = [i \in Cid |-> NoRow]
  /\ born = {}
  /\ site = [look |-> 0, names |-> 0, settings |-> 0, linked |-> {}]
  /\ cache = [k \in Key |-> Miss]
  /\ adm = [a \in Admins |-> Idle]
  /\ vis = [v \in Visitors |-> Idle]
  /\ begun = 0
  /\ unpurged = [k \in Key |-> {}]

-----------------------------------------------------------------------------
(* Visitors: Public.Homepage and Public.Page.                              *)

Become(v, x) == vis' = [vis EXCEPT ![v] = x]
Leave(v) == Become(v, Idle)
Reading == UNCHANGED <<dbVars, cache, adm, begun, unpurged>>

\* PageCache.Get: on a hit the visitor is served from the cache and done.
CacheHit(v, k) ==
  /\ vis[v] = Idle
  /\ cache[k] # Miss
  /\ Leave(v) /\ Reading

\* A miss; an error from Valkey is treated as one.
CacheMiss(v, k) ==
  /\ vis[v] = Idle
  /\ cache[k] = Miss \/ Faults
  /\ Become(v, [pc |-> "query", key |-> k]) /\ Reading

Compose(v, k, origin, shown) ==
  Become(v, [pc |-> "settings", key |-> k, from |-> origin, shown |-> shown])

\* A variant that breaks QueryPage: a page is made even if no row is found.
QueryPageCaches404(v) ==
  /\ vis[v].pc = "query" /\ vis[v].key # HomepageKey
  /\ Compose(v, vis[v].key, "page", FindBySlug(vis[v].key))
  /\ Reading

\* Page: the published row with the slug, or 404, which is not cached.
QueryPage(v) ==
  LET found == FindBySlug(vis[v].key) IN
  /\ vis[v].pc = "query" /\ vis[v].key # HomepageKey
  /\ IF found = {} THEN Leave(v) ELSE Compose(v, vis[v].key, "page", found)
  /\ Reading

\* Homepage: the published posts, if there are any, else the "home" page.
QueryPosts(v) ==
  /\ vis[v].pc = "query" /\ vis[v].key = HomepageKey
  /\ IF PublishedPosts = {} THEN Become(v, [pc |-> "home"])
     ELSE Compose(v, HomepageKey, "posts", PublishedPosts)
  /\ Reading

\* Homepage: without a "home" page a default page, which is not cached.
QueryHome(v) ==
  /\ vis[v].pc = "home"
  /\ IF FindBySlug(HomeSlug) = {} THEN Leave(v)
     ELSE Compose(v, HomepageKey, "home", FindBySlug(HomeSlug))
  /\ Reading

ReadSettings(v) ==
  /\ vis[v].pc = "settings"
  /\ Become(v, [pc |-> "look", key |-> vis[v].key, from |-> vis[v].from,
                shown |-> vis[v].shown, settings |-> site.settings])
  /\ Reading

\* Menus, author and templates are read and the page is rendered.
Render(v) ==
  /\ vis[v].pc = "look"
  /\ Become(v, [pc |-> "store", key |-> vis[v].key,
                html |-> [shown |-> vis[v].shown, links |-> Links, look |-> site.look,
                          names |-> site.names, settings |-> vis[v].settings]])
  /\ Reading

\* The engine fails (no active template): a failed post list falls back to the
\* "home" page, other pages to an error page, which is not cached.
RenderFails(v) ==
  /\ vis[v].pc = "look"
  /\ IF vis[v].from = "posts" THEN Become(v, [pc |-> "home"]) ELSE Leave(v)
  /\ Reading

\* PageCache.Set.
Store(v) ==
  LET k == vis[v].key IN
  /\ vis[v].pc = "store"
  /\ cache' = [cache EXCEPT ![k] = vis[v].html]
  /\ unpurged' = [unpurged EXCEPT ![k] = {f \in Aspect : vis[v].html[f] # Now(k)[f]}]
  /\ Leave(v)
  /\ UNCHANGED <<dbVars, adm, begun>>

\* PageCache.Set fails, which is only logged.
StoreFails(v) ==
  /\ Faults
  /\ vis[v].pc = "store"
  /\ Leave(v) /\ Reading

\* A variant that breaks Expire: Set stores without a TTL.
ExpireNever(k) == FALSE /\ UNCHANGED vars

\* Valkey drops an entry when its TTL, fixed by Set, runs out.
Expire(k) ==
  /\ cache[k] # Miss
  /\ cache' = [cache EXCEPT ![k] = Miss]
  /\ UNCHANGED <<dbVars, adm, vis, begun, unpurged>>

-----------------------------------------------------------------------------
(* Admin requests.                                                         *)

Begin(a) ==
  /\ adm[a] = Idle
  /\ begun < MaxRequests
  /\ begun' = begun + 1

Continue(a, x) == adm' = [adm EXCEPT ![a] = x]
Purging(s) == [pc |-> "purge", slug |-> s]

\* The unique index on (tenant_id, slug).
SlugFree(i, s) == \A j \in Cid \ {i} : Live(j) => content[j].slug # s

\* createContent: INSERT, then the purge of the new slug's page.
ContentCreate(a, i, row) ==
  /\ Begin(a)
  /\ i \notin born
  /\ SlugFree(i, row.slug)
  /\ content' = [content EXCEPT ![i] = row]
  /\ born' = born \cup {i}
  /\ Continue(a, Purging(row.slug))
  /\ UNCHANGED <<site, cache, vis, unpurged>>

\* updateContent and RevisionRestore up to the UPDATE: the row is found, and
\* all of it but the type is to be replaced by the form's or the revision's.
UpdateRead(a, i, row) ==
  /\ Begin(a)
  /\ Live(i)
  /\ row.type = content[i].type
  /\ Renames \/ row.slug = content[i].slug
  /\ Continue(a, [pc |-> "update", id |-> i, row |-> row])
  /\ UNCHANGED <<dbVars, cache, vis, unpurged>>

\* A variant that breaks UpdateWrite: the handler returns without purging.
UpdateForgetsPurge(a) ==
  /\ adm[a].pc = "update"
  /\ Live(adm[a].id) => SlugFree(adm[a].id, adm[a].row.slug)
  /\ content' = IF Live(adm[a].id) THEN [content EXCEPT ![adm[a].id] = adm[a].row]
                ELSE content
  /\ Continue(a, Idle)
  /\ UNCHANGED <<born, site, cache, vis, begun, unpurged>>

\* The UPDATE and what follows it: only the new slug is remembered for the
\* purge.  A row deleted meanwhile matches nothing, which goes unnoticed.
UpdateWrite(a) ==
  LET i == adm[a].id
      row == adm[a].row IN
  /\ adm[a].pc = "update"
  /\ Live(i) => SlugFree(i, row.slug)
  /\ content' = IF Live(i) THEN [content EXCEPT ![i] = row] ELSE content
  /\ Continue(a, Purging(row.slug))
  /\ UNCHANGED <<born, site, cache, vis, begun, unpurged>>

\* The UPDATE runs into the unique index: an error page, and no purge.
UpdateConflict(a) ==
  /\ adm[a].pc = "update"
  /\ Live(adm[a].id) /\ ~SlugFree(adm[a].id, adm[a].row.slug)
  /\ Continue(a, Idle)
  /\ UNCHANGED <<dbVars, cache, vis, begun, unpurged>>

\* deleteContent: the slug is looked up first ...
DeleteRead(a, i) ==
  /\ Begin(a)
  /\ Live(i)
  /\ Continue(a, [pc |-> "delete", id |-> i, slug |-> content[i].slug])
  /\ UNCHANGED <<dbVars, cache, vis, unpurged>>

\* ... then the row is deleted, and the page under that slug is to be purged.
DeleteWrite(a) ==
  /\ adm[a].pc = "delete"
  /\ content' = [content EXCEPT ![adm[a].id] = NoRow]
  /\ Continue(a, Purging(adm[a].slug))
  /\ UNCHANGED <<born, site, cache, vis, begun, unpurged>>

\* invalidateContentCache, InvalidatePage(SlugKey(slug)).
PurgePage(a) ==
  /\ adm[a].pc = "purge"
  /\ cache' = [cache EXCEPT ![adm[a].slug] = Miss]
  /\ Continue(a, [pc |-> "purgeHomepage"])
  /\ UNCHANGED <<dbVars, vis, begun, unpurged>>

\* invalidateContentCache, InvalidateHomepage, which deletes "page:_homepage".
PurgeHomepage(a) ==
  /\ adm[a].pc = "purgeHomepage"
  /\ cache' = [cache EXCEPT ![BareHomepage] = Miss]
  /\ Continue(a, Idle)
  /\ UNCHANGED <<dbVars, vis, begun, unpurged>>

\* InvalidateAll; nothing is ever stored under BareHomepage.
FlushAll == [pc |-> "flush", todo |-> PageKey]

\* The handlers that change templates, menu items, avatars or, without a new
\* name, profiles, and then call InvalidateAll; afterwards items link to the
\* contents in linked.
ChangeLook(a, linked) ==
  /\ Begin(a)
  /\ \A i \in linked : Live(i)
  /\ site' = [site EXCEPT !.look = @ + 1, !.linked = linked]
  /\ Continue(a, FlushAll)
  /\ UNCHANGED <<content, born, cache, vis, unpurged>>

\* ProfileSave with a new name, UpdateDisplayName.
ProfileName(a) ==
  /\ Begin(a)
  /\ site' = [site EXCEPT !.names = @ + 1]
  /\ Continue(a, [pc |-> "profile"])
  /\ UNCHANGED <<content, born, cache, vis, unpurged>>

\* ProfileSave, Upsert, and then InvalidateAll.
ProfileUpsert(a) ==
  /\ adm[a].pc = "profile"
  /\ site' = [site EXCEPT !.look = @ + 1]
  /\ Continue(a, FlushAll)
  /\ UNCHANGED <<content, born, cache, vis, begun, unpurged>>

\* Upsert fails: ProfileSave returns, and the new name stays without a purge.
ProfileFails(a) ==
  /\ adm[a].pc = "profile"
  /\ Continue(a, Idle)
  /\ unpurged' = [k \in Key |-> unpurged[k] \cup {f \in {"names"} : OutOfDate(k, f)}]
  /\ UNCHANGED <<dbVars, cache, vis, begun>>

\* A variant that breaks FlushBatch: one batch, and the cursor is not followed.
FlushStops(a, batch) ==
  /\ adm[a].pc = "flush"
  /\ batch # {} /\ batch \subseteq adm[a].todo
  /\ cache' = [k \in Key |-> IF k \in batch THEN Miss ELSE cache[k]]
  /\ Continue(a, Idle)
  /\ UNCHANGED <<dbVars, vis, begun, unpurged>>

\* One batch of InvalidateAll's SCAN and its DEL: each key is visited once, at
\* a moment of its own, and an entry stored behind the cursor survives.
FlushBatch(a, batch) ==
  /\ adm[a].pc = "flush"
  /\ batch # {} /\ batch \subseteq adm[a].todo
  /\ cache' = [k \in Key |-> IF k \in batch THEN Miss ELSE cache[k]]
  /\ Continue(a, IF batch = adm[a].todo THEN Idle
                 ELSE [adm[a] EXCEPT !.todo = @ \ batch])
  /\ UNCHANGED <<dbVars, vis, begun, unpurged>>

\* SettingsSave: no page is purged.
SettingsSave(a) ==
  /\ Begin(a)
  /\ site' = [site EXCEPT !.settings = @ + 1]
  /\ UNCHANGED <<content, born, cache, adm, vis, unpurged>>

\* A purge fails, which is only logged: a failed DEL skips one key, a failed
\* SCAN ends InvalidateAll.
PurgeFails(a) ==
  /\ Faults
  /\ adm[a].pc \in {"purge", "purgeHomepage", "flush"}
  /\ Continue(a, IF adm[a].pc = "purge" THEN [pc |-> "purgeHomepage"] ELSE Idle)
  /\ UNCHANGED <<dbVars, cache, vis, begun, unpurged>>

\* The process dies and starts again: the database and Valkey survive it.
Restart ==
  /\ Faults
  /\ adm' = [a \in Admins |-> Idle]
  /\ vis' = [v \in Visitors |-> Idle]
  /\ UNCHANGED <<dbVars, cache, begun, unpurged>>

-----------------------------------------------------------------------------
VisitorStep(v) ==
  \/ QueryPage(v) \/ QueryPosts(v) \/ QueryHome(v)
  \/ ReadSettings(v) \/ Render(v) \/ RenderFails(v)
  \/ Store(v) \/ StoreFails(v)

AdminStep(a) ==
  \/ UpdateWrite(a) \/ UpdateConflict(a) \/ DeleteWrite(a)
  \/ ProfileUpsert(a) \/ ProfileFails(a)
  \/ PurgePage(a) \/ PurgeHomepage(a)
  \/ \E batch \in SUBSET PageKey : FlushBatch(a, batch)
  \/ PurgeFails(a)

AdminBegin(a) ==
  \/ \E i \in Cid, row \in {r \in ContentRow : r.type \in Types} :
       ContentCreate(a, i, row) \/ UpdateRead(a, i, row)
  \/ \E i \in Cid : DeleteRead(a, i)
  \/ "look" \in SiteChanges /\ \E linked \in SUBSET Linkable : ChangeLook(a, linked)
  \/ "profile" \in SiteChanges /\ ProfileName(a)
  \/ "settings" \in SiteChanges /\ SettingsSave(a)

Next ==
  \/ \E v \in Visitors : \/ \E k \in PageKey : CacheHit(v, k) \/ CacheMiss(v, k)
                         \/ VisitorStep(v)
  \/ \E a \in Admins : AdminBegin(a) \/ AdminStep(a)
  \/ \E k \in Key : Expire(k)
  \/ Restart

Spec == Init /\ [][Next]_vars

\* A request that was begun runs on.  Valkey drops an entry whose TTL ran out,
\* unless a Set has begun a new TTL meanwhile.  Nobody is obliged to send a
\* request, and nothing is assumed of restarts and failures.
Ages(k) == Expire(k) \/ \E v \in Visitors : vis[v].pc = "store" /\ vis[v].key = k /\ Store(v)

Fairness ==
  /\ \A v \in Visitors : WF_vars(VisitorStep(v))
  /\ \A a \in Admins : WF_vars(AdminStep(a))
  /\ \A k \in Key : WF_vars(Ages(k))

FairSpec == Spec /\ Fairness

-----------------------------------------------------------------------------
\* Types; and every page under way or cached shows at least one row: a 404 and
\* the default homepage never get that far.
TypeOK ==
  /\ content \in [Cid -> ContentRow \cup {NoRow}]
  /\ born \subseteq Cid
  /\ site \in Site
  /\ cache \in [Key -> Html \cup {Miss}]
  /\ adm \in [Admins -> Request]
  /\ vis \in [Visitors -> Visiting]
  /\ begun \in Nat
  /\ unpurged \in [Key -> SUBSET Aspect]

\* Some request is still going to delete the entry under k or, if f is about
\* names, is between ProfileSave's two writes.
Pending(k, f) ==
  \E a \in Admins : \/ adm[a].pc = "purge" /\ adm[a].slug = k
                    \/ adm[a].pc = "flush" /\ k \in adm[a].todo
                    \/ adm[a].pc = "profile" /\ f = "names"

Excused(k, f) == f \in unpurged[k] \/ Pending(k, f)

\* As long as some published row has the slug, what is cached under it shows
\* that row as it is now.  The two ways out are a purge still under way, and an
\* entry that was out of date when a slow visitor stored it, after the purge of
\* the very change it missed.  Renaming, deleting, unpublishing, restoring and
\* reusing slugs, by several editors at once, give no third (updateContent,
\* deleteContent, createContent, InvalidatePage).
LivePagesFresh ==
  \A s \in Slug : FindBySlug(s) # {} /\ OutOfDate(s, "shown") => Excused(s, "shown")

\* Every cached page, the homepage included, shows the current templates, items
\* of the menus, avatars, display names and profiles.  There are the same two
\* ways out, and for names a third: a profile save whose second write is still
\* to come or has failed, after which nothing purges the new name (InvalidateAll,
\* ProfileSave).  It says nothing about the URLs of items that link to contents.
LookFresh ==
  \A k \in PageKey, f \in {"look", "names"} : OutOfDate(k, f) => Excused(k, f)

\* Does not hold: a rename or a deletion purges one page, and the menus on all
\* the others go on pointing to the old slug (public.go:496-500).
LinksFresh ==
  \A k \in PageKey : OutOfDate(k, "links") => Excused(k, "links")

\* Does not hold: a rename purges the page of the new slug only (admin.go:569).
\* Once a purge is over, the page of a slug that no published row has any more is
\* gone too: what a save or a delete leaves behind does not go on being served.
NoGhostPages ==
  \A s \in Slug : FindBySlug(s) = {} /\ OutOfDate(s, "shown") => Excused(s, "shown")

\* A change of the content reaches the homepage, whose list of posts or "home"
\* page may show it (invalidateContentCache, InvalidateHomepage).
HomepageFresh ==
  OutOfDate(HomepageKey, "shown") =>
    \/ Excused(HomepageKey, "shown")
    \/ \E a \in Admins : adm[a].pc \in {"purge", "purgeHomepage"}

\* Whatever the purges miss, because of a race, a failed call, a restart or a
\* purge that is not made at all (SettingsSave, InvalidateHomepage, a renamed
\* target of a menu item, a profile save that failed), the TTL gets rid of: once
\* the edits stop, every key ends up showing the database or nothing
\* (PageCache.Set's expiry).
Converges == <>[](\A k \in PageKey : cache[k] # Miss => cache[k] = Now(k))
=============================================================================
