---------------------------- MODULE MediaProofs ----------------------------
(***************************************************************************)
(* Proofs about Media, for any number of images, requests, months and      *)
(* faults: an image in the library can be downloaded, and, as long as no   *)
(* call fails, its rows name what S3 holds.                                *)
(*                                                                         *)
(* The argument.  An original is deleted only by a request that has        *)
(* deleted the row (Deleted), and no row comes back: an upload that has    *)
(* yet to insert its row has met nobody but deletes that will find none    *)
(* (Uploads).  As long as nothing fails, an image that no two requests     *)
(* have met on is followed through the one request at work (LoneImages);   *)
(* in the month of its upload all requests use the same keys, so what one  *)
(* of them deletes while others rely on it, it makes again (Owed).         *)
(***************************************************************************)
EXTENDS Media, TLAPS

\* Request a is at work on image i, and a bulk request has yet to come to it.
At(a, i) == req[a].job # "none" /\ req[a].pc # "find" /\ req[a].item = i
Listed(a, i) == \E n \in 1..Len(req[a].queue) : req[a].queue[n] = i

Generating(r) == r.pc \in {"generate", "batch"}

\* Which jobs go through which places.
Places ==
  \A a \in Admins :
    /\ req[a].job = "none" <=> req[a].pc = "idle"
    /\ req[a].pc = "find" => req[a].job = "bulk"
    /\ req[a].pc = "download" => req[a].job \in {"regenerate", "bulk"}
    /\ req[a].pc \in {"strip", "purge"} => req[a].job \in {"delete", "regenerate"}
    /\ Generating(req[a]) => req[a].job \in {"upload", "regenerate", "bulk"}
    /\ req[a].queue # <<>> => req[a].job = "bulk"

\* A bulk request comes to an image once.
QueuesApart ==
  \A a \in Admins :
    /\ \A m, n \in 1..Len(req[a].queue) : req[a].queue[m] = req[a].queue[n] => m = n
    /\ \A i \in Items : At(a, i) => ~Listed(a, i)

\* Keys are those of the image's own variants; only deletes hold an original's.
ImageFit(i) ==
  /\ \A k \in variants[i] : k.item = i /\ k.size \in Fitting(i)
  /\ rows[i] # NoRow => rows[i].thumb = 0 \/ Thumb \in Fitting(i)

RequestFit(r) ==
  /\ \A k \in r.keys :
       /\ k.item = r.item
       /\ \/ k.size \in Fitting(k.item)
          \/ k = Original(k.item) /\ r.job = "delete" /\ r.pc = "purge"
  /\ r.pc \in {"idle", "find"} => r.keys = {}
  /\ r.job = "bulk" /\ r.pc = "download" => r.keys = {}

KeysFit == (\A i \in Items : ImageFit(i)) /\ (\A a \in Admins : RequestFit(req[a]))

\* Nothing is known of an image before its upload.
Filed ==
  \A i \in Items :
    /\ rows[i] # NoRow => filed[i] # 0
    /\ variants[i] # {} => rows[i] # NoRow
    /\ \A a \in Admins : At(a, i) \/ Listed(a, i) => filed[i] # 0

\* An upload that has yet to insert its row.
Uploads ==
  \A a \in Admins : req[a].job = "upload" /\ req[a].pc = "generate" =>
    /\ rows[req[a].item] = NoRow
    /\ {Original(req[a].item)} \cup req[a].keys \subseteq objects
    /\ \A b \in Admins \ {a} :
         At(b, req[a].item) => req[b].job = "delete" /\ req[b].pc = "strip"

\* A delete that deletes objects.
Deleted ==
  \A a \in Admins : req[a].job = "delete" /\ req[a].pc = "purge" => rows[req[a].item] = NoRow

\* An image's keys are made in the month of its upload or later.
Dated(r, since) ==
  /\ \A k \in r.keys : k.month \in since..month
  /\ Generating(r) => r.month \in since..month

MonthsInOrder ==
  \A i \in Items :
    /\ filed[i] <= month
    /\ \A k \in variants[i] : k.month \in filed[i]..month
    /\ rows[i] # NoRow => rows[i].thumb = 0 \/ rows[i].thumb \in filed[i]..month
    /\ \A a \in Admins : At(a, i) => Dated(req[a], filed[i])

\* Two requests on one image have met there.
Meetings ==
  \A i \in Items : \A a, b \in WorkingOn(i) : a # b => i \in met

\* As long as no call fails, the sizes below next have been made in this month.
Made(r) ==
  /\ \A k \in r.keys : k.month = r.month
  /\ \A s \in Fitting(r.item) : s < r.next => KeyOf(r.item, r.month, s) \in r.keys
  /\ r.next > 0
  /\ r.pc = "batch" => r.next \notin Fitting(r.item)

Complete ==
  faults = 0 => \A a \in Admins : ~req[a].gone /\ (Generating(req[a]) => Made(req[a]))

\* The keys of i that somebody relies on.
Relied(i) ==
  ThumbOf(i) \cup variants[i]
    \cup UNION {req[a].keys : a \in {b \in Admins : At(b, i) /\ Generating(req[b])}}

\* Request a will make key k.
Owes(a, k) ==
  /\ At(a, k.item) /\ req[a].job = "regenerate"
  /\ \/ req[a].pc = "purge"
     \/ req[a].pc = "generate" /\ req[a].next <= k.size

Owed ==
  \A i \in Items : faults = 0 /\ month = filed[i] /\ rows[i] # NoRow =>
    \A k \in Relied(i) : k \in objects \/ \E a \in Admins : Owes(a, k)

\* The rows of i name what is stored of it.
Whole(i) ==
  IF rows[i] = NoRow THEN StoredOf(i) = {}
  ELSE StoredOf(i) = {Original(i)} \cup variants[i] /\ ThumbOf(i) \subseteq variants[i]

Untouched(i) ==
  \A a \in Admins : At(a, i) => req[a].pc \in {"download", "strip"}

\* The image as the one request that works on it knows it.
Followed(r, i) ==
  /\ r.job = "delete" /\ r.pc = "strip" => r.keys = variants[i]
  /\ r.job = "delete" /\ r.pc = "purge" => StoredOf(i) = r.keys
  /\ r.job \in {"regenerate", "bulk"} \/ r.pc = "batch" => rows[i] # NoRow
  /\ r.job = "bulk" => variants[i] = {} /\ r.bare
  /\ r.job # "delete" /\ r.pc \in {"purge", "generate", "batch"} =>
       /\ variants[i] = {}
       /\ StoredOf(i) = {Original(i)} \cup r.keys
  /\ r.pc = "batch" => ThumbOf(i) \subseteq r.keys

Lone(i) ==
  /\ Untouched(i) => Whole(i)
  /\ \A a \in Admins : Listed(a, i) => rows[i] # NoRow /\ variants[i] = {}
  /\ \A a \in Admins : At(a, i) => Followed(req[a], i)

LoneImages == \A i \in Items : faults = 0 /\ i \notin met => Lone(i)

IInv ==
  /\ TypeOK /\ Places /\ QueuesApart /\ KeysFit /\ Filed /\ Uploads /\ Deleted
  /\ OriginalsStored
  /\ MonthsInOrder /\ Meetings /\ Complete /\ Owed /\ LoneImages

-----------------------------------------------------------------------------
\* What the kinds of request hold.
LEMMA RequestFields ==
  ASSUME NEW r \in Request
  PROVE  /\ r.job \in {"none", "upload", "delete", "regenerate", "bulk"}
         /\ r.pc \in {"idle", "find", "download", "strip", "purge", "generate", "batch"}
         /\ r.item \in Items /\ r.keys \in SUBSET Key /\ r.month \in Months /\ r.next \in Nat
         /\ r.bare \in BOOLEAN /\ r.queue \in Seq(Items) /\ r.tenant \in Tenants
         /\ r.gone \in BOOLEAN
BY DEF Request

LEMMA AsleepFields ==
  /\ Asleep \in Request
  /\ Asleep.job = "none" /\ Asleep.pc = "idle" /\ Asleep.keys = {} /\ Asleep.queue = <<>>
  /\ Asleep.gone = FALSE /\ Asleep.next = 1 /\ Asleep.month = 1
<1>1. (CHOOSE i \in Items : TRUE) \in Items /\ (CHOOSE t \in Tenants : TRUE) \in Tenants
  BY MediaAssumption
<1>2. 1 \in Months
  BY MediaAssumption DEF Months
<1>3. <<>> \in Seq(Items)
  OBVIOUS
<1> QED BY <1>1, <1>2, <1>3 DEF Asleep, Request

LEMMA KeyType ==
  ASSUME NEW i \in Items, NEW m \in Months, NEW s \in Sizes \cup {0}
  PROVE  KeyOf(i, m, s) \in Key
BY DEF KeyOf, Key

LEMMA SizesType == Sizes \subseteq Nat \ {0} /\ Thumb \in Sizes /\ Thumb = 1
BY MediaAssumption DEF Sizes, Thumb

LEMMA FittingType == \A i : Fitting(i) \subseteq Sizes
BY DEF Fitting

LEMMA FittingPositive ==
  ASSUME NEW i, NEW s \in Fitting(i)
  PROVE  s \in Nat /\ s > 0
<1>1. s \in Sizes
  BY FittingType
<1> QED BY <1>1, MediaAssumption DEF Sizes

\* Only the one request changes.
LEMMA OnlyThat ==
  ASSUME req \in [Admins -> Request], NEW a \in Admins, NEW q, Goes(a, q)
  PROVE  /\ req'[a] = q
         /\ \A b \in Admins : b # a => req'[b] = req[b]
         /\ q \in Request => req' \in [Admins -> Request]
BY DEF Goes

LEMMA StoreKept == ASSUME UNCHANGED store PROVE UNCHANGED <<objects, filed, rows, made, variants>>
BY DEF store

-----------------------------------------------------------------------------
(* The actions once more, by their effect on the fields of a request and   *)
(* on the images; faults' = 0 tells that no call has failed yet.           *)

SameBut(q, r, fields) ==
  /\ "job" \notin fields => q.job = r.job
  /\ "pc" \notin fields => q.pc = r.pc
  /\ "item" \notin fields => q.item = r.item
  /\ "keys" \notin fields => q.keys = r.keys
  /\ "month" \notin fields => q.month = r.month
  /\ "next" \notin fields => q.next = r.next
  /\ "bare" \notin fields => q.bare = r.bare
  /\ "queue" \notin fields => q.queue = r.queue
  /\ "tenant" \notin fields => q.tenant = r.tenant
  /\ "gone" \notin fields => q.gone = r.gone

Others(a) == \A b \in Admins \ {a} : req'[b] = req[b]
Moves(a, fields) ==
  /\ SameBut(req'[a], req[a], fields) /\ Others(a)
  /\ faults' = 0 => faults = 0
  /\ UNCHANGED <<month, met>>

Starts(a, S) ==
  /\ req[a].job = "none" /\ Others(a)
  /\ req'[a].gone = FALSE
  /\ faults' = 0 => faults = 0
  /\ met' = Meets(S)
  /\ UNCHANGED month

Sleeps(b) ==
  /\ req'[b].job = "none" /\ req'[b].pc = "idle" /\ req'[b].keys = {}
  /\ req'[b].queue = <<>> /\ req'[b].gone = FALSE

StartsUpload(a, i) ==
  /\ filed[i] = 0 /\ filed' = [filed EXCEPT ![i] = month]
  /\ objects' = objects \cup {KeyOf(i, month, 0)}
  /\ Starts(a, {i})
  /\ req'[a].job = "upload" /\ req'[a].pc = "generate" /\ req'[a].item = i
  /\ req'[a].keys = {} /\ req'[a].month = month /\ req'[a].next = 1 /\ req'[a].queue = <<>>
  /\ UNCHANGED <<rows, variants>>

LosesUpload(i) ==
  /\ filed[i] = 0 /\ filed' = [filed EXCEPT ![i] = month]
  /\ objects' \in {objects, objects \cup {KeyOf(i, month, 0)}}
  /\ faults' # 0
  /\ UNCHANGED <<month, rows, variants, req, met>>

Makes(a) ==
  LET r == req[a]  k == KeyOf(r.item, r.month, r.next) IN
  /\ r.pc = "generate" /\ r.next \in Fitting(r.item)
  /\ Moves(a, {"keys", "next"})
  /\ req'[a].next = r.next + 1
  /\ \/ objects' = objects \cup {k} /\ req'[a].keys = r.keys \cup {k}
     \/ objects' \in {objects, objects \cup {k}} /\ req'[a].keys = r.keys /\ faults' # 0
  /\ UNCHANGED <<filed, rows, variants>>

InsertsRow(a) ==
  LET r == req[a] IN
  /\ r.job = "upload" /\ Generated(a)
  /\ \E row \in MediaRow :
       /\ rows' = [rows EXCEPT ![r.item] = row]
       /\ row.thumb = IF Thumbed(r) THEN r.month ELSE 0
  /\ Moves(a, {"pc"}) /\ req'[a].pc = "batch"
  /\ UNCHANGED <<objects, filed, variants>>

SetsThumb(a) ==
  LET r == req[a] IN
  /\ r.job # "upload" /\ Generated(a)
  /\ Moves(a, {"pc"}) /\ req'[a].pc = "batch"
  /\ \/ /\ Thumbed(r) /\ rows[r.item] # NoRow
        /\ \E row \in MediaRow :
             rows' = [rows EXCEPT ![r.item] = row] /\ row.thumb = r.month
     \/ /\ rows' = rows
        /\ faults' = 0 =>
             \/ ~Thumbed(r) \/ rows[r.item] = NoRow
             \/ r.job = "bulk" /\ ~r.bare
  /\ UNCHANGED <<objects, filed, variants>>

\* Both ways in which a request can be done with an image.
IsDone(a) ==
  \/ req[a].job # "bulk" /\ Sleeps(a)
  \/ /\ req[a].job = "bulk"
     /\ SameBut(req'[a], req[a], {"pc", "keys"})
     /\ req'[a].pc = "find" /\ req'[a].keys = {}

Done(a) ==
  /\ IsDone(a) /\ Others(a)
  /\ faults' = 0 => faults = 0
  /\ UNCHANGED <<month, met>>

SavesVariants(a) ==
  LET r == req[a] IN
  /\ r.pc = "batch"
  /\ \/ /\ rows[r.item] # NoRow
        /\ variants' = [variants EXCEPT ![r.item] = variants[r.item] \cup r.keys]
     \/ /\ variants' = variants
        /\ faults' = 0 => rows[r.item] = NoRow \/ variants[r.item] # {}
  /\ Done(a)
  /\ UNCHANGED <<objects, filed, rows>>

StartsDelete(a, i) ==
  /\ filed[i] # 0
  /\ Starts(a, {i})
  /\ req'[a].job = "delete" /\ req'[a].pc = "strip" /\ req'[a].item = i
  /\ req'[a].queue = <<>>
  /\ \/ req'[a].keys = variants[i]
     \/ req'[a].keys = {} /\ faults' # 0
  /\ UNCHANGED <<objects, filed, rows, variants>>

DeletesRow(a) ==
  LET r == req[a] IN
  /\ r.job = "delete" /\ r.pc = "strip" /\ rows[r.item] # NoRow
  /\ rows' = [rows EXCEPT ![r.item] = NoRow]
  /\ variants' = [variants EXCEPT ![r.item] = {}]
  /\ Moves(a, {"pc", "keys"}) /\ req'[a].pc = "purge"
  /\ req'[a].keys = r.keys \cup {Original(r.item)} \cup ThumbOf(r.item)
  /\ UNCHANGED <<objects, filed>>

StartsRegenerate(a, i) ==
  /\ rows[i] # NoRow
  /\ Starts(a, {i})
  /\ req'[a].job = "regenerate" /\ req'[a].pc = "download" /\ req'[a].item = i
  /\ req'[a].keys = {} /\ req'[a].queue = <<>>
  /\ UNCHANGED <<objects, filed, rows, variants>>

Downloads(a) ==
  LET r == req[a] IN
  /\ r.pc = "download"
  /\ \/ /\ r.job = "bulk" /\ Moves(a, {"pc", "month", "next"})
        /\ req'[a].pc = "generate" /\ req'[a].month = month /\ req'[a].next = 1
     \/ r.job # "bulk" /\ Moves(a, {"pc"}) /\ req'[a].pc = "strip"
  /\ UNCHANGED <<objects, filed, rows, variants>>

\* A request that ends, or a bulk request that gives up an image.
Ends(a) ==
  LET r == req[a] IN
  /\ r.job # "none"
  /\ \/ Done(a) /\ r.pc # "find"
     \/ /\ r.pc = "find" /\ r.queue = <<>>
        /\ Sleeps(a) /\ Others(a)
        /\ faults' = 0 => faults = 0
        /\ UNCHANGED <<month, met>>
  /\ faults' = 0 =>
       \/ r.pc = "download" \/ r.pc = "find"
       \/ r.pc = "purge" /\ r.keys = {} /\ r.job = "delete"
       \/ r.job = "delete" /\ r.pc = "strip" /\ rows[r.item] = NoRow
  /\ UNCHANGED <<objects, filed, rows, variants>>

Strips(a) ==
  LET r == req[a] IN
  /\ r.job = "regenerate" /\ r.pc = "strip"
  /\ Moves(a, {"pc", "keys"}) /\ req'[a].pc = "purge"
  /\ \/ /\ variants' = [variants EXCEPT ![r.item] = {}]
        /\ req'[a].keys = variants[r.item]
     \/ variants' = variants /\ req'[a].keys = {} /\ faults' # 0
  /\ UNCHANGED <<objects, filed, rows>>

Purges(a, k) ==
  LET r == req[a] IN
  /\ r.pc = "purge" /\ k \in r.keys
  /\ Moves(a, {"keys"}) /\ req'[a].keys = r.keys \ {k}
  /\ \/ objects' = objects \ {k}
     \/ objects' = objects /\ faults' # 0
  /\ UNCHANGED <<filed, rows, variants>>

Regenerates(a) ==
  LET r == req[a] IN
  /\ r.job = "regenerate" /\ r.pc = "purge" /\ r.keys = {}
  /\ Moves(a, {"pc", "month", "next"})
  /\ req'[a].pc = "generate" /\ req'[a].month = month /\ req'[a].next = 1
  /\ UNCHANGED <<objects, filed, rows, variants>>

StartsBulk(a) ==
  LET q == req'[a].queue IN
  /\ Starts(a, {i \in Items : \E n \in 1..Len(q) : q[n] = i})
  /\ \A m, n \in 1..Len(q) : q[m] = q[n] => m = n
  /\ \A n \in 1..Len(q) : rows[q[n]] # NoRow /\ variants[q[n]] = {}
  /\ req'[a].job = "bulk" /\ req'[a].pc = "find" /\ req'[a].keys = {}
  /\ UNCHANGED <<objects, filed, rows, variants>>

BulkPasses(a) ==
  LET r == req[a] IN
  /\ r.job = "bulk" /\ r.pc = "find" /\ r.queue # <<>>
  /\ Moves(a, {"queue"}) /\ req'[a].queue = Tail(r.queue)
  /\ UNCHANGED <<objects, filed, rows, variants>>

BulkTakes(a) ==
  LET r == req[a]  i == Head(r.queue) IN
  /\ r.job = "bulk" /\ r.pc = "find" /\ r.queue # <<>>
  /\ rows[i] # NoRow
  /\ Moves(a, {"pc", "item", "queue", "bare"}) /\ req'[a].pc = "download"
  /\ req'[a].queue = Tail(r.queue)
  /\ req'[a].item = i /\ req'[a].bare = (rows[i].thumb = 0)
  /\ UNCHANGED <<objects, filed, rows, variants>>

IsLeft(a) ==
  /\ req[a].job # "none"
  /\ Moves(a, {"gone"}) /\ faults' # 0
  /\ UNCHANGED <<objects, filed, rows, variants>>

Restarts ==
  /\ \A b \in Admins : Sleeps(b)
  /\ faults' # 0
  /\ UNCHANGED <<month, met, objects, filed, rows, variants>>

MonthPasses ==
  /\ month' = month + 1
  /\ UNCHANGED <<req, faults, met, objects, filed, rows, variants>>

Stays == UNCHANGED <<month, req, faults, met, objects, filed, rows, variants>>

Acts(a) ==
  \/ \E i \in Items : StartsUpload(a, i) \/ StartsDelete(a, i) \/ StartsRegenerate(a, i)
  \/ Makes(a) \/ InsertsRow(a) \/ SetsThumb(a) \/ SavesVariants(a)
  \/ DeletesRow(a) \/ Downloads(a) \/ Ends(a) \/ Strips(a)
  \/ \E k \in Key : Purges(a, k)
  \/ Regenerates(a) \/ StartsBulk(a) \/ BulkPasses(a) \/ BulkTakes(a) \/ IsLeft(a)

Step ==
  \/ \E a \in Admins : Acts(a)
  \/ \E i \in Items : LosesUpload(i)
  \/ Restarts \/ MonthPasses \/ Stays

-----------------------------------------------------------------------------
LEMMA FaultCounts ==
  ASSUME IInv, NEW a \in Admins, Fault(a)
  PROVE  faults' \in 0..MaxFaults /\ faults' # 0 /\ UNCHANGED <<month, view, cached, begun, met>>
<1>1. faults \in Nat /\ faults <= MaxFaults /\ MaxFaults \in Nat
  BY MediaAssumption DEF IInv, TypeOK
<1>2. req[a].gone => faults # 0
  BY DEF IInv, Complete
<1> QED BY <1>1, <1>2 DEF Fault, MayFail, public

LEMMA MayFailCounts ==
  ASSUME IInv, MayFail, faults' = faults + 1
  PROVE  faults' \in 0..MaxFaults /\ faults' # 0
BY MediaAssumption DEF IInv, TypeOK, MayFail

LEMMA BeginCounts ==
  ASSUME IInv, NEW a \in Admins, NEW S \in SUBSET Items, Begin(a, S)
  PROVE  /\ req[a].job = "none" /\ begun' \in 0..MaxRequests
         /\ met' = Meets(S) /\ met' \subseteq Items
         /\ UNCHANGED <<month, view, cached, faults>>
BY MediaAssumption DEF IInv, TypeOK, Begin, Meets, public

\* What a type-correct store is, apart from requests, pages and counters.
StoreOK ==
  /\ month \in Months /\ objects \subseteq Key
  /\ filed \in [Items -> Months \cup {0}]
  /\ rows \in [Items -> MediaRow \cup {NoRow}] /\ made \in Nat
  /\ variants \in [Items -> SUBSET Key]

LEMMA TypesKept ==
  ASSUME TypeOK, StoreOK', req' \in [Admins -> Request], UNCHANGED <<view, cached>>,
         begun' \in 0..MaxRequests, faults' \in 0..MaxFaults, met' \subseteq Items
  PROVE  TypeOK'
BY DEF TypeOK, StoreOK

LEMMA StoreSame ==
  ASSUME TypeOK, UNCHANGED <<month, objects, filed, rows, made, variants>>
  PROVE  StoreOK'
BY DEF TypeOK, StoreOK

LEMMA UploadOriginalStep ==
  ASSUME IInv, NEW a \in Admins, NEW i \in Items, UploadOriginal(a, i)
  PROVE  TypeOK' /\ StartsUpload(a, i)
<1> DEFINE q == [Asleep EXCEPT !.job = "upload", !.pc = "generate", !.item = i, !.month = month]
<1>1. TypeOK BY DEF IInv
<1>2. q \in Request /\ q.job = "upload" /\ q.pc = "generate" /\ q.item = i /\ q.keys = {}
      /\ q.month = month /\ q.next = 1 /\ q.queue = <<>> /\ q.gone = FALSE
  BY <1>1, AsleepFields DEF Request, TypeOK
<1>3. Begin(a, {i}) /\ Goes(a, q)
  BY DEF UploadOriginal
<1> HIDE DEF q
<1>4. req'[a] = q /\ Others(a) /\ req' \in [Admins -> Request]
  BY <1>1, <1>2, <1>3, OnlyThat DEF TypeOK, Others
<1>5. StoreOK'
  BY <1>1, <1>3, KeyType DEF UploadOriginal, StoreOK, TypeOK, Begin
<1>6. TypeOK'
  BY <1>1, <1>3, <1>4, <1>5, BeginCounts, TypesKept DEF TypeOK
<1>7. StartsUpload(a, i)
  BY <1>2, <1>3, <1>4, BeginCounts DEF StartsUpload, Starts, UploadOriginal
<1> QED BY <1>6, <1>7

LEMMA UploadFailsStep ==
  ASSUME IInv, NEW a \in Admins, NEW i \in Items, UploadFails(a, i)
  PROVE  TypeOK' /\ LosesUpload(i)
<1>1. TypeOK BY DEF IInv
<1>2. StoreOK'
  BY <1>1, KeyType DEF UploadFails, StoreOK, TypeOK
<1>3. begun' \in 0..MaxRequests
  BY <1>1, MediaAssumption DEF UploadFails, TypeOK
<1>4. TypeOK'
  BY <1>1, <1>2, <1>3, MayFailCounts, TypesKept DEF TypeOK, UploadFails, public
<1> QED BY <1>4, MayFailCounts DEF UploadFails, LosesUpload

LEMMA UploadVariantStep ==
  ASSUME IInv, NEW a \in Admins, UploadVariant(a)
  PROVE  TypeOK' /\ Makes(a)
<1> DEFINE r == req[a]
           k == KeyOf(r.item, r.month, r.next)
           q == [r EXCEPT !.keys = @ \cup {k}, !.next = @ + 1]
<1>1. TypeOK /\ r \in Request BY DEF IInv, TypeOK
<1>2. k \in Key
  BY <1>1, RequestFields, FittingType, KeyType DEF UploadVariant
<1>3. r.keys \cup {k} \in SUBSET Key /\ r.next + 1 \in Nat
  BY <1>1, <1>2, RequestFields
<1>4. q \in Request /\ SameBut(q, r, {"keys", "next"})
      /\ q.keys = r.keys \cup {k} /\ q.next = r.next + 1
  BY <1>1, <1>3 DEF Request, SameBut
<1>5. Goes(a, q) /\ objects' = objects \cup {k} /\ UNCHANGED <<filed, rows, made, variants>>
      /\ UNCHANGED <<month, view, cached, begun, faults, met>>
      /\ r.pc = "generate" /\ r.next \in Fitting(r.item)
  BY DEF UploadVariant, Quiet, public, bounds
<1> HIDE DEF q
<1>6. req'[a] = q /\ Others(a) /\ req' \in [Admins -> Request]
  BY <1>1, <1>4, <1>5, OnlyThat DEF TypeOK, Others
<1>7. StoreOK'
  BY <1>1, <1>2, <1>5 DEF StoreOK, TypeOK
<1>8. TypeOK'
  BY <1>1, <1>5, <1>6, <1>7, TypesKept DEF TypeOK
<1>9. Makes(a)
  BY <1>4, <1>5, <1>6 DEF Makes, Moves
<1> QED BY <1>8, <1>9

LEMMA VariantFailsStep ==
  ASSUME IInv, NEW a \in Admins, VariantFails(a)
  PROVE  TypeOK' /\ Makes(a)
<1> DEFINE r == req[a]
           k == KeyOf(r.item, r.month, r.next)
           q == [r EXCEPT !.next = @ + 1]
<1>1. TypeOK /\ r \in Request BY DEF IInv, TypeOK
<1>2. k \in Key
  BY <1>1, RequestFields, FittingType, KeyType DEF VariantFails
<1>4. q \in Request /\ SameBut(q, r, {"next"}) /\ q.next = r.next + 1
  BY <1>1 DEF Request, SameBut
<1>5. Goes(a, q) /\ objects' \in {objects, objects \cup {k}} /\ UNCHANGED <<filed, rows, made, variants>>
      /\ Fault(a) /\ r.pc = "generate" /\ r.next \in Fitting(r.item)
  BY DEF VariantFails
<1> HIDE DEF q
<1>6. req'[a] = q /\ Others(a) /\ req' \in [Admins -> Request]
  BY <1>1, <1>4, <1>5, OnlyThat DEF TypeOK, Others
<1>7. StoreOK'
  BY <1>1, <1>2, <1>5, FaultCounts DEF StoreOK, TypeOK
<1>8. TypeOK'
  BY <1>1, <1>5, <1>6, <1>7, FaultCounts, TypesKept DEF TypeOK
<1>9. Makes(a)
  BY <1>4, <1>5, <1>6, FaultCounts DEF Makes, Moves, SameBut
<1> QED BY <1>8, <1>9

LEMMA InsertRowStep ==
  ASSUME IInv, NEW a \in Admins, InsertRow(a)
  PROVE  TypeOK' /\ InsertsRow(a)
<1> DEFINE r == req[a]
           row == [thumb |-> IF Thumbed(r) THEN r.month ELSE 0, born |-> made + 1]
           q == [r EXCEPT !.pc = "batch"]
<1>1. TypeOK /\ r \in Request BY DEF IInv, TypeOK
<1>2. r.month \in Months /\ made + 1 \in Nat
  BY <1>1, RequestFields DEF TypeOK
<1>3. row \in MediaRow /\ row.thumb = IF Thumbed(r) THEN r.month ELSE 0
  BY <1>2 DEF MediaRow
<1>4. q \in Request /\ SameBut(q, r, {"pc"}) /\ q.pc = "batch"
  BY <1>1 DEF Request, SameBut
<1>5. Goes(a, q) /\ rows' = [rows EXCEPT ![r.item] = row] /\ made' = made + 1
      /\ UNCHANGED <<objects, filed, variants>>
      /\ UNCHANGED <<month, view, cached, begun, faults, met>>
      /\ r.job = "upload" /\ Generated(a)
  BY DEF InsertRow, Quiet, public, bounds
<1> HIDE DEF q, row
<1>6. req'[a] = q /\ Others(a) /\ req' \in [Admins -> Request]
  BY <1>1, <1>4, <1>5, OnlyThat DEF TypeOK, Others
<1>7. StoreOK'
  BY <1>1, <1>2, <1>3, <1>5 DEF StoreOK, TypeOK
<1>8. TypeOK'
  BY <1>1, <1>5, <1>6, <1>7, TypesKept DEF TypeOK
<1>9. InsertsRow(a)
  BY <1>3, <1>4, <1>5, <1>6 DEF InsertsRow, Moves
<1> QED BY <1>8, <1>9

LEMMA SetThumbStep ==
  ASSUME IInv, NEW a \in Admins, SetThumb(a)
  PROVE  TypeOK' /\ SetsThumb(a)
<1> DEFINE r == req[a]
           q == [r EXCEPT !.pc = "batch"]
           row == [rows[r.item] EXCEPT !.thumb = r.month]
           wanted == Thumbed(r) /\ (r.job = "bulk" => r.bare)
<1>1. TypeOK /\ r \in Request BY DEF IInv, TypeOK
<1>2. r.month \in Months /\ r.item \in Items /\ rows[r.item] \in MediaRow \cup {NoRow}
  BY <1>1, RequestFields DEF TypeOK
<1>3. rows[r.item] # NoRow => row \in MediaRow /\ row.thumb = r.month
  BY <1>2 DEF MediaRow
<1>4. q \in Request /\ SameBut(q, r, {"pc"}) /\ q.pc = "batch"
  BY <1>1 DEF Request, SameBut
<1>5. /\ Goes(a, q) /\ UNCHANGED <<objects, filed, variants, made>>
      /\ rows' = IF wanted /\ rows[r.item] # NoRow THEN [rows EXCEPT ![r.item] = row] ELSE rows
      /\ UNCHANGED <<month, view, cached, begun, faults, met>>
      /\ r.job \in {"regenerate", "bulk"} /\ Generated(a)
  BY DEF SetThumb, Quiet, public, bounds
<1> HIDE DEF q, row
<1>6. req'[a] = q /\ Others(a) /\ req' \in [Admins -> Request]
  BY <1>1, <1>4, <1>5, OnlyThat DEF TypeOK, Others
<1>7. StoreOK'
  BY <1>1, <1>2, <1>3, <1>5 DEF StoreOK, TypeOK
<1>8. TypeOK'
  BY <1>1, <1>5, <1>6, <1>7, TypesKept DEF TypeOK
<1>9. CASE wanted /\ rows[r.item] # NoRow
  BY <1>3, <1>4, <1>5, <1>6, <1>8, <1>9 DEF SetsThumb, Moves
<1>10. CASE ~(wanted /\ rows[r.item] # NoRow)
  BY <1>4, <1>5, <1>6, <1>8, <1>10 DEF SetsThumb, Moves
<1> QED BY <1>9, <1>10

\* How a request comes to be done with an image.
LEMMA FinishedIs ==
  ASSUME IInv, NEW a \in Admins, NEW q, q \in {Finished(req[a]), Asleep},
         q = Asleep => req[a].job # "bulk", Goes(a, q)
  PROVE  /\ req' \in [Admins -> Request] /\ Others(a)
         /\ IsDone(a)
<1>1. TypeOK /\ req[a] \in Request BY DEF IInv, TypeOK
<1>2. CASE req[a].job = "bulk"
  <2> DEFINE p == [req[a] EXCEPT !.pc = "find", !.keys = {}]
  <2>1. p \in Request /\ SameBut(p, req[a], {"pc", "keys"}) /\ p.pc = "find" /\ p.keys = {}
    BY <1>1 DEF Request, SameBut
  <2>2. q = p
    BY <1>2 DEF Finished
  <2> HIDE DEF p
  <2>3. req'[a] = p /\ Others(a) /\ req' \in [Admins -> Request]
    BY <1>1, <2>1, <2>2, OnlyThat DEF TypeOK, Others
  <2> QED BY <1>2, <2>1, <2>3 DEF IsDone
<1>3. CASE req[a].job # "bulk"
  <2>1. q = Asleep
    BY <1>3 DEF Finished
  <2>2. req'[a] = Asleep /\ Others(a) /\ req' \in [Admins -> Request]
    BY <1>1, <2>1, AsleepFields, OnlyThat DEF TypeOK, Others
  <2> QED BY <1>3, <2>2, AsleepFields DEF IsDone, Sleeps
<1> QED BY <1>2, <1>3

LEMMA SaveVariantsStep ==
  ASSUME IInv, NEW a \in Admins, SaveVariants(a)
  PROVE  TypeOK' /\ SavesVariants(a)
<1> DEFINE r == req[a]
           taken == {k.size : k \in variants[r.item]} \cap {k.size : k \in r.keys}
<1>1. TypeOK /\ r \in Request BY DEF IInv, TypeOK
<1>2. r.item \in Items /\ r.keys \subseteq Key
  BY <1>1, RequestFields
<1>3. /\ Goes(a, Finished(r)) /\ UNCHANGED <<objects, filed, rows, made>>
      /\ variants' = IF rows[r.item] # NoRow /\ taken = {}
                     THEN [variants EXCEPT ![r.item] = variants[r.item] \cup r.keys]
                     ELSE variants
      /\ UNCHANGED <<month, view, cached, begun, faults, met>>
      /\ r.pc = "batch"
  BY DEF SaveVariants, Quiet, public, bounds
<1>4. Asleep = Finished(r) => r.job # "bulk"
  <2>1. r.job = "bulk" => Finished(r).job = "bulk"
    BY <1>1 DEF Finished, Request
  <2> QED BY <2>1, AsleepFields
<1>5. IsDone(a) /\ Others(a) /\ req' \in [Admins -> Request]
  BY <1>3, <1>4, FinishedIs
<1>6. StoreOK'
  BY <1>1, <1>2, <1>3 DEF StoreOK, TypeOK
<1>7. TypeOK'
  BY <1>1, <1>3, <1>5, <1>6, TypesKept DEF TypeOK
<1>8. variants[r.item] = {} => taken = {}
  OBVIOUS
<1> QED BY <1>3, <1>5, <1>7, <1>8 DEF SavesVariants, Done

LEMMA DeleteReadStep ==
  ASSUME IInv, NEW a \in Admins, NEW i \in Items, DeleteRead(a, i)
  PROVE  TypeOK' /\ StartsDelete(a, i)
<1> DEFINE q == [Asleep EXCEPT !.job = "delete", !.pc = "strip", !.item = i, !.keys = variants[i]]
<1>1. TypeOK BY DEF IInv
<1>2. q \in Request /\ q.job = "delete" /\ q.pc = "strip" /\ q.item = i /\ q.keys = variants[i]
      /\ q.queue = <<>> /\ q.gone = FALSE
  BY <1>1, AsleepFields DEF Request, TypeOK
<1>3. Begin(a, {i}) /\ Goes(a, q) /\ filed[i] # 0
      /\ UNCHANGED <<objects, filed, rows, made, variants>>
  BY DEF DeleteRead, store
<1> HIDE DEF q
<1>4. req'[a] = q /\ Others(a) /\ req' \in [Admins -> Request]
  BY <1>1, <1>2, <1>3, OnlyThat DEF TypeOK, Others
<1>5. TypeOK'
  BY <1>1, <1>3, <1>4, BeginCounts, StoreSame, TypesKept DEF TypeOK
<1>6. StartsDelete(a, i)
  BY <1>2, <1>3, <1>4, BeginCounts DEF StartsDelete, Starts
<1> QED BY <1>5, <1>6

LEMMA DeleteReadFailsStep ==
  ASSUME IInv, NEW a \in Admins, NEW i \in Items, DeleteReadFails(a, i)
  PROVE  TypeOK' /\ StartsDelete(a, i)
<1> DEFINE q == [Asleep EXCEPT !.job = "delete", !.pc = "strip", !.item = i]
<1>1. TypeOK BY DEF IInv
<1>2. q \in Request /\ q.job = "delete" /\ q.pc = "strip" /\ q.item = i /\ q.keys = {}
      /\ q.queue = <<>> /\ q.gone = FALSE
  BY <1>1, AsleepFields DEF Request, TypeOK
<1>3. /\ Goes(a, q) /\ filed[i] # 0 /\ req[a].job = "none" /\ met' = Meets({i})
      /\ MayFail /\ faults' = faults + 1 /\ begun < MaxRequests /\ begun' = begun + 1
      /\ UNCHANGED <<month, view, cached, objects, filed, rows, made, variants>>
  BY DEF DeleteReadFails, store, public
<1> HIDE DEF q
<1>4. req'[a] = q /\ Others(a) /\ req' \in [Admins -> Request]
  BY <1>1, <1>2, <1>3, OnlyThat DEF TypeOK, Others
<1>5. begun' \in 0..MaxRequests /\ met' \subseteq Items
  BY <1>1, <1>3, MediaAssumption DEF TypeOK, Meets
<1>6. TypeOK'
  BY <1>1, <1>3, <1>4, <1>5, MayFailCounts, StoreSame, TypesKept DEF TypeOK
<1>7. StartsDelete(a, i)
  BY <1>2, <1>3, <1>4, MayFailCounts DEF StartsDelete, Starts
<1> QED BY <1>6, <1>7

LEMMA DeleteRowStep ==
  ASSUME IInv, NEW a \in Admins, DeleteRow(a)
  PROVE  TypeOK' /\ (DeletesRow(a) \/ Ends(a))
<1> DEFINE r == req[a]
           keys == r.keys \cup {Original(r.item)} \cup ThumbOf(r.item)
           q == [r EXCEPT !.pc = "purge", !.keys = keys]
<1>1. TypeOK /\ r \in Request BY DEF IInv, TypeOK
<1>2. r.item \in Items /\ r.keys \subseteq Key /\ rows[r.item] \in MediaRow \cup {NoRow}
  BY <1>1, RequestFields DEF TypeOK
<1>3. r.job = "delete" /\ r.pc = "strip"
      /\ UNCHANGED <<month, view, cached, begun, faults, met, objects, filed, made>>
  BY DEF DeleteRow, Quiet, public, bounds
<1>4. CASE rows[r.item] = NoRow
  <2>1. Goes(a, Asleep) /\ UNCHANGED <<rows, variants>>
    BY <1>4 DEF DeleteRow
  <2>2. IsDone(a) /\ Others(a) /\ req' \in [Admins -> Request]
    BY <1>3, <2>1, FinishedIs
  <2>3. TypeOK'
    BY <1>1, <1>3, <2>1, <2>2, StoreSame, TypesKept DEF TypeOK
  <2> QED BY <1>3, <1>4, <2>1, <2>2, <2>3 DEF Ends, Done
<1>5. CASE rows[r.item] # NoRow
  <2>1. /\ rows' = [rows EXCEPT ![r.item] = NoRow]
        /\ variants' = [variants EXCEPT ![r.item] = {}]
        /\ Goes(a, q)
    BY <1>5 DEF DeleteRow
  <2>2. Original(r.item) \in Key
    <3>1. filed[r.item] \in Months
      BY <1>1, <1>2, <1>5 DEF TypeOK, IInv, Filed
    <3> QED BY <1>2, <3>1, KeyType DEF Original
  <2>3. ThumbOf(r.item) \subseteq Key
    <3>1. rows[r.item].thumb \in Months \cup {0}
      BY <1>2, <1>5 DEF MediaRow
    <3> QED BY <1>2, <3>1, SizesType, KeyType DEF ThumbOf
  <2>4. keys \in SUBSET Key
    BY <1>2, <2>2, <2>3
  <2>5. q \in Request /\ SameBut(q, r, {"pc", "keys"}) /\ q.pc = "purge" /\ q.keys = keys
    <3> HIDE DEF keys
    <3> QED BY <1>1, <2>4 DEF Request, SameBut
  <2> HIDE DEF q
  <2>6. req'[a] = q /\ Others(a) /\ req' \in [Admins -> Request]
    BY <1>1, <2>1, <2>5, OnlyThat DEF TypeOK, Others
  <2>7. StoreOK'
    BY <1>1, <1>2, <1>3, <2>1 DEF StoreOK, TypeOK
  <2>8. TypeOK'
    BY <1>1, <1>3, <2>6, <2>7, TypesKept DEF TypeOK
  <2>9. DeletesRow(a)
    BY <1>3, <1>5, <2>1, <2>5, <2>6 DEF DeletesRow, Moves
  <2> QED BY <2>8, <2>9
<1> QED BY <1>4, <1>5

LEMMA RegenerateFindStep ==
  ASSUME IInv, NEW a \in Admins, NEW i \in Items, RegenerateFind(a, i)
  PROVE  TypeOK' /\ StartsRegenerate(a, i)
<1> DEFINE q == [Asleep EXCEPT !.job = "regenerate", !.pc = "download", !.item = i]
<1>1. TypeOK BY DEF IInv
<1>2. q \in Request /\ q.job = "regenerate" /\ q.pc = "download" /\ q.item = i /\ q.keys = {}
      /\ q.queue = <<>> /\ q.gone = FALSE
  BY <1>1, AsleepFields DEF Request, TypeOK
<1>3. Begin(a, {i}) /\ Goes(a, q) /\ rows[i] # NoRow
      /\ UNCHANGED <<objects, filed, rows, made, variants>>
  BY DEF RegenerateFind, store
<1> HIDE DEF q
<1>4. req'[a] = q /\ Others(a) /\ req' \in [Admins -> Request]
  BY <1>1, <1>2, <1>3, OnlyThat DEF TypeOK, Others
<1>5. TypeOK'
  BY <1>1, <1>3, <1>4, BeginCounts, StoreSame, TypesKept DEF TypeOK
<1>6. StartsRegenerate(a, i)
  BY <1>2, <1>3, <1>4, BeginCounts DEF StartsRegenerate, Starts
<1> QED BY <1>5, <1>6

LEMMA DownloadStep ==
  ASSUME IInv, NEW a \in Admins, Download(a)
  PROVE  TypeOK' /\ Downloads(a)
<1> DEFINE r == req[a]
           again == [r EXCEPT !.pc = "generate", !.month = month, !.next = 1]
           strip == [r EXCEPT !.pc = "strip"]
<1>1. TypeOK /\ r \in Request /\ month \in Months BY DEF IInv, TypeOK
<1>2. again \in Request /\ SameBut(again, r, {"pc", "month", "next"})
      /\ again.pc = "generate" /\ again.month = month /\ again.next = 1
  BY <1>1 DEF Request, SameBut
<1>3. strip \in Request /\ SameBut(strip, r, {"pc"}) /\ strip.pc = "strip"
  BY <1>1 DEF Request, SameBut
<1>4. /\ Goes(a, IF r.job = "bulk" THEN again ELSE strip) /\ r.pc = "download"
      /\ UNCHANGED <<objects, filed, rows, made, variants>>
      /\ UNCHANGED <<month, view, cached, begun, faults, met>>
  BY DEF Download, Quiet, public, bounds, store
<1> HIDE DEF again, strip
<1>5. /\ req'[a] = IF r.job = "bulk" THEN again ELSE strip
      /\ Others(a) /\ req' \in [Admins -> Request]
  BY <1>1, <1>2, <1>3, <1>4, OnlyThat DEF TypeOK, Others
<1>6. TypeOK'
  BY <1>1, <1>4, <1>5, StoreSame, TypesKept DEF TypeOK
<1>7. Downloads(a)
  BY <1>2, <1>3, <1>4, <1>5 DEF Downloads, Moves
<1> QED BY <1>6, <1>7

LEMMA NothingToDownloadStep ==
  ASSUME IInv, NEW a \in Admins, NothingToDownload(a) \/ DownloadFails(a)
  PROVE  TypeOK' /\ Ends(a)
<1>1. TypeOK /\ req[a] \in Request /\ Places BY DEF IInv, TypeOK
<1>2. /\ Goes(a, Finished(req[a])) /\ req[a].pc = "download"
      /\ UNCHANGED <<objects, filed, rows, made, variants>>
      /\ UNCHANGED <<month, view, cached, begun, met>>
      /\ faults' \in 0..MaxFaults /\ (faults' = 0 => faults = 0)
  BY <1>1, FaultCounts DEF NothingToDownload, DownloadFails, Quiet, public, bounds, store, TypeOK
<1>3. Asleep = Finished(req[a]) => req[a].job # "bulk"
  <2>1. req[a].job = "bulk" => Finished(req[a]).job = "bulk"
    BY <1>1 DEF Finished, Request
  <2> QED BY <2>1, AsleepFields
<1>4. IsDone(a) /\ Others(a) /\ req' \in [Admins -> Request]
  BY <1>2, <1>3, FinishedIs
<1>5. TypeOK'
  BY <1>1, <1>2, <1>4, StoreSame, TypesKept DEF TypeOK
<1>6. req[a].job # "none"
  BY <1>1, <1>2 DEF Places
<1> QED BY <1>2, <1>4, <1>5, <1>6 DEF Ends, Done

LEMMA StripRowsStep ==
  ASSUME IInv, NEW a \in Admins, StripRows(a)
  PROVE  TypeOK' /\ Strips(a)
<1> DEFINE r == req[a]
           q == [r EXCEPT !.pc = "purge", !.keys = variants[r.item]]
<1>1. TypeOK /\ r \in Request BY DEF IInv, TypeOK
<1>2. r.item \in Items /\ variants[r.item] \in SUBSET Key
  BY <1>1, RequestFields DEF TypeOK
<1>3. q \in Request /\ SameBut(q, r, {"pc", "keys"}) /\ q.pc = "purge" /\ q.keys = variants[r.item]
  BY <1>1, <1>2 DEF Request, SameBut
<1>4. /\ Goes(a, q) /\ r.job = "regenerate" /\ r.pc = "strip"
      /\ variants' = [variants EXCEPT ![r.item] = {}]
      /\ UNCHANGED <<objects, filed, rows, made>>
      /\ UNCHANGED <<month, view, cached, begun, faults, met>>
  BY DEF StripRows, Quiet, public, bounds
<1> HIDE DEF q
<1>5. req'[a] = q /\ Others(a) /\ req' \in [Admins -> Request]
  BY <1>1, <1>3, <1>4, OnlyThat DEF TypeOK, Others
<1>6. StoreOK'
  BY <1>1, <1>2, <1>4 DEF StoreOK, TypeOK
<1>7. TypeOK'
  BY <1>1, <1>4, <1>5, <1>6, TypesKept DEF TypeOK
<1> QED BY <1>3, <1>4, <1>5, <1>7 DEF Strips, Moves

LEMMA PurgeStep ==
  ASSUME IInv, NEW a \in Admins, PurgeObject(a) \/ PurgeFails(a)
  PROVE  TypeOK' /\ \E k \in Key : Purges(a, k)
<1> DEFINE r == req[a]
<1>1. TypeOK /\ r \in Request BY DEF IInv, TypeOK
<1>2. r.keys \subseteq Key
  BY <1>1, RequestFields
<1>3. PICK k \in r.keys :
        /\ Goes(a, [r EXCEPT !.keys = @ \ {k}]) /\ r.pc = "purge"
        /\ \/ objects' = objects \ {k} /\ faults' = faults
           \/ objects' = objects /\ faults' # 0
        /\ UNCHANGED <<filed, rows, made, variants>>
        /\ UNCHANGED <<month, view, cached, begun, met>>
        /\ faults' \in 0..MaxFaults
  BY <1>1, FaultCounts DEF PurgeObject, PurgeFails, Quiet, public, bounds, store, TypeOK
<1> DEFINE q == [r EXCEPT !.keys = @ \ {k}]
<1>4. r.keys \ {k} \in SUBSET Key
  BY <1>2
<1>5. q \in Request /\ SameBut(q, r, {"keys"}) /\ q.keys = r.keys \ {k}
  BY <1>1, <1>4 DEF Request, SameBut
<1>6. Goes(a, q)
  BY <1>3
<1> HIDE DEF q
<1>7. req'[a] = q /\ Others(a) /\ req' \in [Admins -> Request]
  BY <1>1, <1>5, <1>6, OnlyThat DEF TypeOK, Others
<1>8. StoreOK'
  BY <1>1, <1>3 DEF StoreOK, TypeOK
<1>9. TypeOK'
  BY <1>1, <1>3, <1>7, <1>8, TypesKept DEF TypeOK
<1>10. Purges(a, k)
  BY <1>3, <1>5, <1>7 DEF Purges, Moves
<1> QED BY <1>2, <1>9, <1>10

LEMMA PurgedStep ==
  ASSUME IInv, NEW a \in Admins, Purged(a)
  PROVE  TypeOK' /\ (Regenerates(a) \/ Ends(a))
<1> DEFINE r == req[a]
           q == [r EXCEPT !.pc = "generate", !.month = month, !.next = 1]
<1>1. TypeOK /\ r \in Request /\ month \in Months /\ Places BY DEF IInv, TypeOK
<1>2. /\ r.pc = "purge" /\ r.keys = {} /\ Goes(a, IF r.job = "delete" THEN Asleep ELSE q)
      /\ UNCHANGED <<objects, filed, rows, made, variants>>
      /\ UNCHANGED <<month, view, cached, begun, faults, met>>
  BY DEF Purged, Quiet, public, bounds, store
<1>3. CASE r.job = "delete"
  <2>1. IsDone(a) /\ Others(a) /\ req' \in [Admins -> Request]
    BY <1>2, <1>3, FinishedIs
  <2>2. TypeOK'
    BY <1>1, <1>2, <2>1, StoreSame, TypesKept DEF TypeOK
  <2> QED BY <1>2, <1>3, <2>1, <2>2 DEF Ends, Done
<1>4. CASE r.job # "delete"
  <2>1. r.job = "regenerate"
    BY <1>1, <1>2, <1>4 DEF Places
  <2>2. q \in Request /\ SameBut(q, r, {"pc", "month", "next"})
        /\ q.pc = "generate" /\ q.month = month /\ q.next = 1
    BY <1>1 DEF Request, SameBut
  <2>3. Goes(a, q)
    BY <1>2, <1>4
  <2> HIDE DEF q
  <2>4. req'[a] = q /\ Others(a) /\ req' \in [Admins -> Request]
    BY <1>1, <2>2, <2>3, OnlyThat DEF TypeOK, Others
  <2>5. TypeOK'
    BY <1>1, <1>2, <2>4, StoreSame, TypesKept DEF TypeOK
  <2> QED BY <1>2, <2>1, <2>2, <2>4, <2>5 DEF Regenerates, Moves
<1> QED BY <1>3, <1>4

LEMMA BulkListStep ==
  ASSUME IInv, NEW a \in Admins, NEW t \in Tenants, BulkList(a, t)
  PROVE  TypeOK' /\ StartsBulk(a)
<1>1. TypeOK BY DEF IInv
<1>2. PICK n \in 1..BulkLimit : \E q \in [1..n -> Items] :
        /\ NewestFirst(q)
        /\ Begin(a, {q[m] : m \in 1..n})
        /\ Goes(a, [Asleep EXCEPT !.job = "bulk", !.pc = "find", !.queue = q, !.tenant = t])
        /\ UNCHANGED store
  BY DEF BulkList
<1>3. PICK list \in [1..n -> Items] :
        /\ NewestFirst(list)
        /\ Begin(a, {list[m] : m \in 1..n})
        /\ Goes(a, [Asleep EXCEPT !.job = "bulk", !.pc = "find", !.queue = list, !.tenant = t])
        /\ UNCHANGED store
  BY <1>2
<1>4. n \in Nat /\ list \in Seq(Items) /\ Len(list) = n
  <2>1. n \in Nat
    BY MediaAssumption
  <2>2. list \in Seq(Items) /\ Len(list) = n
    BY <2>1
  <2> QED BY <2>1, <2>2
<1> DEFINE q == [Asleep EXCEPT !.job = "bulk", !.pc = "find", !.queue = list, !.tenant = t]
           S == {list[m] : m \in 1..n}
<1>5. q \in Request /\ q.job = "bulk" /\ q.pc = "find" /\ q.queue = list /\ q.keys = {}
      /\ q.gone = FALSE
  BY <1>4, AsleepFields DEF Request
<1>6. Goes(a, q) /\ Begin(a, S) /\ UNCHANGED <<objects, filed, rows, made, variants>>
  BY <1>3 DEF store
<1> HIDE DEF q
<1>7. req'[a] = q /\ Others(a) /\ req' \in [Admins -> Request]
  BY <1>1, <1>5, <1>6, OnlyThat DEF TypeOK, Others
<1>8. S \subseteq Items /\ S = {i \in Items : \E m \in 1..Len(list) : list[m] = i}
  BY <1>4
<1> HIDE DEF S
<1>9. TypeOK'
  BY <1>1, <1>6, <1>7, <1>8, BeginCounts, StoreSame, TypesKept DEF TypeOK
<1>10. \A m \in 1..n : list[m] \in Missing /\ \A p \in 1..(m - 1) : list[p] # list[m]
  BY <1>3, <1>4 DEF NewestFirst
<1>11. \A l, m \in 1..Len(list) : list[l] = list[m] => l = m
  <2> SUFFICES ASSUME NEW l \in 1..n, NEW m \in 1..n, list[l] = list[m], l < m
               PROVE  FALSE
    BY <1>4
  <2>1. l \in 1..(m - 1)
    BY <1>4
  <2> QED BY <1>10, <2>1
<1>12. \A m \in 1..Len(list) : rows[list[m]] # NoRow /\ variants[list[m]] = {}
  BY <1>4, <1>10 DEF Missing
<1>13. Starts(a, S)
  BY <1>5, <1>6, <1>7, <1>8, BeginCounts DEF Starts
<1> QED BY ZenonT(60), <1>5, <1>6, <1>7, <1>8, <1>9, <1>11, <1>12, <1>13 DEF StartsBulk

LEMMA BulkNextStep ==
  ASSUME IInv, NEW a \in Admins, BulkNext(a)
  PROVE  TypeOK' /\ (BulkPasses(a) \/ BulkTakes(a))
<1> DEFINE r == req[a]
           i == Head(r.queue)
           pass == [r EXCEPT !.queue = Tail(r.queue)]
           take == [r EXCEPT !.pc = "download", !.item = i, !.queue = Tail(r.queue),
                             !.bare = (rows[i].thumb = 0)]
<1>1. TypeOK /\ r \in Request BY DEF IInv, TypeOK
<1>2. /\ r.job = "bulk" /\ r.pc = "find" /\ r.queue # <<>>
      /\ Goes(a, IF rows[i] = NoRow \/ Owner[i] # r.tenant THEN pass ELSE take)
      /\ UNCHANGED <<objects, filed, rows, made, variants>>
      /\ UNCHANGED <<month, view, cached, begun, faults, met>>
  BY DEF BulkNext, Quiet, public, bounds, store
<1>3. i \in Items /\ Tail(r.queue) \in Seq(Items)
  BY <1>1, <1>2, RequestFields
<1>4. (rows[i].thumb = 0) \in BOOLEAN
  OBVIOUS
<1>5. PICK bare \in BOOLEAN : bare = (rows[i].thumb = 0)
  BY <1>4
<1>6. pass \in Request /\ SameBut(pass, r, {"queue"}) /\ pass.queue = Tail(r.queue)
  BY <1>1, <1>3 DEF Request, SameBut
<1>7. take = [r EXCEPT !.pc = "download", !.item = i, !.queue = Tail(r.queue), !.bare = bare]
  BY <1>5, Zenon
<1>8. take \in Request /\ SameBut(take, r, {"pc", "item", "queue", "bare"})
      /\ take.pc = "download" /\ take.item = i /\ take.queue = Tail(r.queue) /\ take.bare = bare
  <2> HIDE DEF take, i
  <2> QED BY <1>1, <1>3, <1>7 DEF Request, SameBut
<1> HIDE DEF pass, take
<1>9. CASE rows[i] = NoRow \/ Owner[i] # r.tenant
  <2>1. req'[a] = pass /\ Others(a) /\ req' \in [Admins -> Request]
    BY <1>1, <1>2, <1>6, <1>9, OnlyThat DEF TypeOK, Others
  <2>2. TypeOK'
    BY <1>1, <1>2, <2>1, StoreSame, TypesKept DEF TypeOK
  <2> QED BY <1>2, <1>6, <2>1, <2>2 DEF BulkPasses, Moves
<1>10. CASE ~(rows[i] = NoRow \/ Owner[i] # r.tenant)
  <2>1. req'[a] = take /\ Others(a) /\ req' \in [Admins -> Request]
    BY <1>1, <1>2, <1>8, <1>10, OnlyThat DEF TypeOK, Others
  <2>2. TypeOK'
    BY <1>1, <1>2, <2>1, StoreSame, TypesKept DEF TypeOK
  <2>3. req'[a].bare = (rows[i].thumb = 0)
    BY <1>5, <1>8, <2>1, Zenon
  <2> QED BY <1>2, <1>8, <1>10, <2>1, <2>2, <2>3 DEF BulkTakes, Moves
<1> QED BY <1>9, <1>10

LEMMA BulkEndStep ==
  ASSUME IInv, NEW a \in Admins, BulkEnd(a)
  PROVE  TypeOK' /\ Ends(a)
<1>1. TypeOK BY DEF IInv
<1>2. /\ req[a].job = "bulk" /\ req[a].pc = "find" /\ req[a].queue = <<>>
      /\ Goes(a, Asleep)
      /\ UNCHANGED <<objects, filed, rows, made, variants>>
      /\ UNCHANGED <<month, view, cached, begun, faults, met>>
  BY DEF BulkEnd, Quiet, public, bounds, store
<1>3. req'[a] = Asleep /\ Others(a) /\ req' \in [Admins -> Request]
  BY <1>1, <1>2, AsleepFields, OnlyThat DEF TypeOK, Others
<1>4. TypeOK'
  BY <1>1, <1>2, <1>3, StoreSame, TypesKept DEF TypeOK
<1> QED BY <1>2, <1>3, <1>4, AsleepFields DEF Ends, Sleeps

\* The second of the two ends of a request that loses a statement.
LEMMA StatementFailsStep ==
  ASSUME IInv, NEW a \in Admins, StatementFails(a)
  PROVE  /\ TypeOK'
         /\ SetsThumb(a) \/ SavesVariants(a) \/ Ends(a) \/ BulkPasses(a) \/ Strips(a)
<1> DEFINE r == req[a]
           batch == [r EXCEPT !.pc = "batch"]
           pass == [r EXCEPT !.queue = Tail(@)]
           purge == [r EXCEPT !.pc = "purge", !.keys = {}]
<1>1. TypeOK /\ r \in Request /\ Places BY DEF IInv, TypeOK
<1>2. MayFail /\ faults' = faults + 1
      /\ UNCHANGED <<objects, filed, rows, made, variants>>
      /\ UNCHANGED <<month, view, cached, begun, met>>
  BY DEF StatementFails, store, public
<1>3. faults' \in 0..MaxFaults /\ faults' # 0
  BY <1>2, MayFailCounts
<1>4. ASSUME req' \in [Admins -> Request]
      PROVE  TypeOK'
  BY <1>1, <1>2, <1>3, <1>4, StoreSame, TypesKept DEF TypeOK
<1>5. CASE \/ Generated(a) /\ r.job = "upload"
           \/ r.pc = "strip" /\ r.job = "delete"
  <2>1. CASE Goes(a, Asleep)
    <3>1. IsDone(a) /\ Others(a) /\ req' \in [Admins -> Request]
      BY <1>5, <2>1, FinishedIs
    <3>2. r.job # "none" /\ r.pc # "find"
      BY <1>5 DEF Generated
    <3> QED BY <1>2, <1>3, <1>4, <3>1, <3>2 DEF Ends, Done
  <2> QED BY <1>1, <1>5, <2>1 DEF StatementFails, Generated, Places
<1>6. CASE Generated(a) /\ r.job # "upload"
  <2>1. batch \in Request /\ SameBut(batch, r, {"pc"}) /\ batch.pc = "batch"
    BY <1>1 DEF Request, SameBut
  <2>2. Goes(a, batch)
    BY <1>6 DEF StatementFails, Generated
  <2> HIDE DEF batch
  <2>3. req'[a] = batch /\ Others(a) /\ req' \in [Admins -> Request]
    BY <1>1, <2>1, <2>2, OnlyThat DEF TypeOK, Others
  <2> QED BY <1>2, <1>3, <1>4, <1>6, <2>1, <2>3 DEF SetsThumb, Moves
<1>7. CASE r.pc = "batch"
  <2>1. Goes(a, Finished(r))
    BY <1>7 DEF StatementFails, Generated
  <2>2. Asleep = Finished(r) => r.job # "bulk"
    <3>1. r.job = "bulk" => Finished(r).job = "bulk"
      BY <1>1 DEF Finished, Request
    <3> QED BY <3>1, AsleepFields
  <2>3. IsDone(a) /\ Others(a) /\ req' \in [Admins -> Request]
    BY <2>1, <2>2, FinishedIs
  <2> QED BY <1>2, <1>3, <1>4, <1>7, <2>3 DEF SavesVariants, Done
<1>8. CASE r.pc = "find" /\ r.queue # <<>>
  <2>1. pass \in Request /\ SameBut(pass, r, {"queue"}) /\ pass.queue = Tail(r.queue)
    <3>1. Tail(r.queue) \in Seq(Items)
      BY <1>1, <1>8, RequestFields
    <3> QED BY <1>1, <3>1 DEF Request, SameBut
  <2>2. Goes(a, pass)
    BY <1>8 DEF StatementFails, Generated
  <2> HIDE DEF pass
  <2>3. req'[a] = pass /\ Others(a) /\ req' \in [Admins -> Request]
    BY <1>1, <2>1, <2>2, OnlyThat DEF TypeOK, Others
  <2>4. r.job = "bulk"
    BY <1>1, <1>8 DEF Places
  <2> QED BY <1>2, <1>3, <1>4, <1>8, <2>1, <2>3, <2>4 DEF BulkPasses, Moves
<1>9. CASE r.pc = "strip" /\ r.job = "regenerate"
  <2>1. purge \in Request /\ SameBut(purge, r, {"pc", "keys"}) /\ purge.pc = "purge" /\ purge.keys = {}
    BY <1>1 DEF Request, SameBut
  <2>2. Goes(a, purge)
    BY <1>9 DEF StatementFails, Generated
  <2> HIDE DEF purge
  <2>3. req'[a] = purge /\ Others(a) /\ req' \in [Admins -> Request]
    BY <1>1, <2>1, <2>2, OnlyThat DEF TypeOK, Others
  <2> QED BY <1>2, <1>3, <1>4, <1>9, <2>1, <2>3 DEF Strips, Moves
<1> QED BY <1>5, <1>6, <1>7, <1>8, <1>9 DEF StatementFails

LEMMA ClientLeavesStep ==
  ASSUME IInv, NEW a \in Admins, ClientLeaves(a)
  PROVE  TypeOK' /\ IsLeft(a)
<1> DEFINE q == [req[a] EXCEPT !.gone = TRUE]
<1>1. TypeOK /\ req[a] \in Request BY DEF IInv, TypeOK
<1>2. q \in Request /\ SameBut(q, req[a], {"gone"})
  BY <1>1 DEF Request, SameBut
<1>3. /\ Goes(a, q) /\ req[a].job # "none" /\ MayFail /\ faults' = faults + 1
      /\ UNCHANGED <<objects, filed, rows, made, variants>>
      /\ UNCHANGED <<month, view, cached, begun, met>>
  BY DEF ClientLeaves, store, public
<1> HIDE DEF q
<1>4. req'[a] = q /\ Others(a) /\ req' \in [Admins -> Request]
  BY <1>1, <1>2, <1>3, OnlyThat DEF TypeOK, Others
<1>5. TypeOK'
  BY <1>1, <1>3, <1>4, MayFailCounts, StoreSame, TypesKept DEF TypeOK
<1> QED BY <1>2, <1>3, <1>4, <1>5, MayFailCounts DEF IsLeft, Moves

LEMMA RestartStep ==
  ASSUME IInv, Restart
  PROVE  TypeOK' /\ Restarts
<1>1. TypeOK BY DEF IInv
<1>2. /\ MayFail /\ faults' = faults + 1 /\ req' = [a \in Admins |-> Asleep]
      /\ view' = [v \in Visitors |-> Away]
      /\ UNCHANGED <<objects, filed, rows, made, variants>>
      /\ UNCHANGED <<month, cached, begun, met>>
  BY DEF Restart, store
<1>3. Away \in Page
  BY DEF Away, Page
<1>4. TypeOK'
  BY <1>1, <1>2, <1>3, AsleepFields, MayFailCounts DEF TypeOK
<1> QED BY <1>2, <1>4, AsleepFields, MayFailCounts DEF Restarts, Sleeps

LEMMA NextMonthStep ==
  ASSUME IInv, NextMonth
  PROVE  TypeOK' /\ MonthPasses
<1>1. TypeOK BY DEF IInv
<1>2. month' \in Months
  BY <1>1, MediaAssumption DEF TypeOK, NextMonth, Months
<1>3. month' = month + 1 /\ UNCHANGED <<req, view, cached, begun, faults, met>>
      /\ UNCHANGED <<objects, filed, rows, made, variants>>
  BY DEF NextMonth, store, public, bounds
<1> QED BY <1>1, <1>2, <1>3 DEF TypeOK, MonthPasses

-----------------------------------------------------------------------------
(* Pages change none of this.                                              *)

LEMMA PageFields ==
  ASSUME NEW w \in Page
  PROVE  w.pc = "last" => /\ w.item \in Items /\ w.keys \in SUBSET Key
                          /\ w.by \in {"featured", "list", "body"}
BY DEF Page

LEMMA OriginalType ==
  ASSUME TypeOK, NEW i \in Items, filed[i] # 0
  PROVE  Original(i) \in Key
BY KeyType DEF TypeOK, Original

LEMMA ViewStep ==
  ASSUME IInv, NEW v \in Visitors, Look(v) \/ ViewEnd(v)
  PROVE  TypeOK' /\ Stays
<1>1. TypeOK BY DEF IInv
<1>2. CASE Look(v)
  <2>1. PICK i \in Shown, by \in {"featured", "list", "body"} : ViewBegin(v, i, by)
    BY <1>2 DEF Look
  <2> DEFINE keys == IF by = "list" THEN Wide(variants[i])
                     ELSE IF by = "featured" THEN {Original(i)} ELSE {}
             w == [pc |-> "last", item |-> i, by |-> by, keys |-> keys]
  <2>2. i \in Items /\ filed[i] # 0
        /\ UNCHANGED <<month, objects, filed, rows, made, variants, req, begun, faults, met>>
    BY <2>1, MediaAssumption DEF ViewBegin, store, bounds
  <2>3. keys \in SUBSET Key
    BY <1>1, <2>2, OriginalType DEF TypeOK, Wide
  <2>4. w \in Page /\ [names |-> {}] \in CachedPage
    <3> HIDE DEF keys
    <3> QED BY <2>2, <2>3 DEF Page, CachedPage
  <2>5. \/ view' = [view EXCEPT ![v] = w] /\ cached' = cached
        \/ cached' = [cached EXCEPT ![i] = [names |-> {}]] /\ view' = view
    BY <2>1 DEF ViewBegin
  <2> HIDE DEF w
  <2> QED BY <1>1, <2>2, <2>4, <2>5 DEF TypeOK, Stays
<1>3. CASE ViewEnd(v)
  <2> DEFINE w == view[v]
             shown == IF w.by # "list" THEN w.keys \cup Wide(variants[w.item])
                      ELSE IF rows[w.item] = NoRow THEN {} ELSE w.keys \cup {Original(w.item)}
  <2>1. /\ w.pc = "last" /\ view' = [view EXCEPT ![v] = Away]
        /\ cached' = [cached EXCEPT ![w.item] = [names |-> shown]]
        /\ UNCHANGED <<month, objects, filed, rows, made, variants, req, begun, faults, met>>
    BY <1>3 DEF ViewEnd, store, bounds
  <2>2. w \in Page /\ Away \in Page
    BY <1>1 DEF TypeOK, Page, Away
  <2>3. w.item \in Items /\ w.keys \in SUBSET Key
    BY <2>1, <2>2, PageFields
  <2>4. rows[w.item] # NoRow => Original(w.item) \in Key
    BY <1>1, <2>3, OriginalType DEF IInv, Filed
  <2>5. shown \in SUBSET Key
    BY <1>1, <2>3, <2>4 DEF TypeOK, Wide
  <2>6. [names |-> shown] \in CachedPage
    <3> HIDE DEF shown
    <3> QED BY <2>5 DEF CachedPage
  <2>7. PICK page \in CachedPage : cached' = [cached EXCEPT ![w.item] = page]
    BY <2>1, <2>6
  <2> QED BY <1>1, <2>1, <2>2, <2>3, <2>7 DEF TypeOK, Stays
<1> QED BY <1>2, <1>3

LEMMA ExpireStep ==
  ASSUME IInv, NEW i \in Items, Expire(i)
  PROVE  TypeOK' /\ Stays
BY DEF IInv, TypeOK, Expire, Stays, store, bounds

LEMMA StutterStep ==
  ASSUME IInv, UNCHANGED vars
  PROVE  TypeOK' /\ Stays
BY DEF IInv, TypeOK, Stays, vars, store, public, bounds

LEMMA EveryStep ==
  ASSUME IInv, [Next]_vars
  PROVE  TypeOK' /\ Step
<1>1. ASSUME NEW a \in Admins, Ask(a) PROVE TypeOK' /\ Step
  <2>1. ASSUME NEW i \in Items,
               \/ UploadOriginal(a, i) \/ UploadFails(a, i)
               \/ DeleteRead(a, i) \/ DeleteReadFails(a, i) \/ RegenerateFind(a, i)
        PROVE  TypeOK' /\ Step
    BY <2>1, UploadOriginalStep, UploadFailsStep, DeleteReadStep, DeleteReadFailsStep,
       RegenerateFindStep DEF Step, Acts
  <2>2. ASSUME NEW t \in Tenants, BulkList(a, t) PROVE TypeOK' /\ Step
    BY <2>2, BulkListStep DEF Step, Acts
  <2> QED BY <1>1, <2>1, <2>2 DEF Ask
<1>2. ASSUME NEW a \in Admins, Work(a) PROVE TypeOK' /\ Step
  BY <1>2, UploadVariantStep, InsertRowStep, SetThumbStep, SaveVariantsStep, DeleteRowStep,
     DownloadStep, NothingToDownloadStep, StripRowsStep, PurgeStep, PurgedStep,
     BulkNextStep, BulkEndStep DEF Work, Step, Acts
<1>3. ASSUME NEW a \in Admins, CallFails(a) \/ StatementFails(a) \/ ClientLeaves(a)
      PROVE  TypeOK' /\ Step
  BY <1>3, VariantFailsStep, NothingToDownloadStep, PurgeStep, StatementFailsStep,
     ClientLeavesStep DEF CallFails, Step, Acts
<1>4. ASSUME NEW v \in Visitors, Look(v) \/ ViewEnd(v) PROVE TypeOK' /\ Step
  BY <1>4, ViewStep DEF Step, Acts
<1>5. ASSUME NEW i \in Shown, Expire(i) PROVE TypeOK' /\ Step
  BY <1>5, ExpireStep, MediaAssumption DEF Step, Acts
<1>6. CASE NextMonth \/ Restart
  BY <1>6, NextMonthStep, RestartStep DEF Step, Acts
<1>7. CASE UNCHANGED vars
  BY <1>7, StutterStep DEF Step, Acts
<1> QED BY <1>1, <1>2, <1>3, <1>4, <1>5, <1>6, <1>7 DEF Next

-----------------------------------------------------------------------------
(* Each part of the invariant, step by step.                               *)

LEMMA PlacesStep ==
  ASSUME IInv, Step
  PROVE  Places'
<1>1. Places /\ TypeOK BY DEF IInv
<1>2. ASSUME NEW a \in Admins, Others(a),
             LET r == req'[a] IN
             /\ r.job = "none" <=> r.pc = "idle"
             /\ r.pc = "find" => r.job = "bulk"
             /\ r.pc = "download" => r.job \in {"regenerate", "bulk"}
             /\ r.pc \in {"strip", "purge"} => r.job \in {"delete", "regenerate"}
             /\ Generating(r) => r.job \in {"upload", "regenerate", "bulk"}
             /\ r.queue # <<>> => r.job = "bulk"
      PROVE  Places'
  BY <1>1, <1>2 DEF Places, Others
<1>3. ASSUME NEW a \in Admins, NEW i \in Items,
             StartsUpload(a, i) \/ StartsDelete(a, i) \/ StartsRegenerate(a, i)
      PROVE  Places'
  BY <1>2, <1>3 DEF StartsUpload, StartsDelete, StartsRegenerate, Starts, Generating
<1>4. ASSUME NEW a \in Admins,
             Makes(a) \/ InsertsRow(a) \/ SetsThumb(a) \/ DeletesRow(a) \/ Downloads(a)
               \/ Strips(a) \/ Regenerates(a) \/ BulkPasses(a) \/ BulkTakes(a) \/ IsLeft(a)
               \/ \E k \in Key : Purges(a, k)
      PROVE  Places'
  BY ZenonT(60), <1>1, <1>2, <1>4
  DEF Makes, InsertsRow, SetsThumb, DeletesRow, Downloads, Strips, Regenerates, BulkPasses,
      BulkTakes, IsLeft, Purges, Moves, SameBut, Generated, Generating, Places
<1>5. ASSUME NEW a \in Admins, SavesVariants(a) \/ Ends(a) PROVE Places'
  BY <1>1, <1>2, <1>5 DEF SavesVariants, Ends, Done, IsDone, Sleeps, SameBut, Generating, Places
<1>6. ASSUME NEW a \in Admins, StartsBulk(a) PROVE Places'
  BY <1>2, <1>6 DEF StartsBulk, Starts, Generating
<1>7. CASE Restarts
  BY <1>7 DEF Restarts, Sleeps, Places, Generating
<1>8. CASE MonthPasses \/ Stays \/ \E i \in Items : LosesUpload(i)
  BY <1>1, <1>8 DEF MonthPasses, Stays, LosesUpload, Places
<1> QED BY <1>3, <1>4, <1>5, <1>6, <1>7, <1>8 DEF Step, Acts

LEMMA TailFields ==
  ASSUME NEW q \in Seq(Items), q # <<>>
  PROVE  /\ 1 \in 1..Len(q) /\ Head(q) = q[1] /\ Len(Tail(q)) \in Nat
         /\ \A n \in 1..Len(Tail(q)) :
              n + 1 \in 1..Len(q) /\ n + 1 # 1 /\ Tail(q)[n] = q[n + 1]
OBVIOUS

LEMMA TailApart ==
  ASSUME NEW q \in Seq(Items), q # <<>>,
         \A m, n \in 1..Len(q) : q[m] = q[n] => m = n
  PROVE  /\ \A m, n \in 1..Len(Tail(q)) : Tail(q)[m] = Tail(q)[n] => m = n
         /\ \A n \in 1..Len(Tail(q)) : Tail(q)[n] # Head(q)
<1>1. ASSUME NEW m \in 1..Len(Tail(q)), NEW n \in 1..Len(Tail(q)), Tail(q)[m] = Tail(q)[n]
      PROVE  m = n
  <2>1. q[m + 1] = q[n + 1] /\ m + 1 \in 1..Len(q) /\ n + 1 \in 1..Len(q)
    BY <1>1, TailFields
  <2>2. m + 1 = n + 1
    BY <2>1
  <2> QED BY <2>2
<1>2. ASSUME NEW n \in 1..Len(Tail(q)), Tail(q)[n] = Head(q) PROVE FALSE
  <2>1. q[n + 1] = q[1] /\ n + 1 \in 1..Len(q) /\ 1 \in 1..Len(q) /\ n + 1 # 1
    BY <1>2, TailFields
  <2> QED BY <2>1
<1> QED BY <1>1, <1>2

LEMMA QueuesApartStep ==
  ASSUME IInv, TypeOK', Step
  PROVE  QueuesApart'
<1>1. QueuesApart /\ TypeOK /\ Places BY DEF IInv
<1>2. ASSUME NEW a \in Admins, Others(a),
             LET q == req'[a].queue IN
             /\ \A m, n \in 1..Len(q) : q[m] = q[n] => m = n
             /\ At(a, req[a].item)' => \A n \in 1..Len(q) : q[n] # req'[a].item
      PROVE  QueuesApart'
  BY <1>1, <1>2 DEF QueuesApart, Others, At, Listed
<1>3. ASSUME NEW a \in Admins, Others(a), req'[a].queue = <<>>
      PROVE  QueuesApart'
  BY <1>1, <1>3 DEF QueuesApart, Others, At, Listed
<1>4. ASSUME NEW a \in Admins, Others(a), req'[a].queue = req[a].queue,
             \/ req'[a].pc = "find"
             \/ req'[a].item = req[a].item /\ At(a, req[a].item)
      PROVE  QueuesApart'
  BY <1>1, <1>4 DEF QueuesApart, Others, At, Listed
<1>5. ASSUME NEW a \in Admins, NEW i \in Items,
             StartsUpload(a, i) \/ StartsDelete(a, i) \/ StartsRegenerate(a, i)
      PROVE  QueuesApart'
  BY <1>3, <1>5 DEF StartsUpload, StartsDelete, StartsRegenerate, Starts
<1>6. ASSUME NEW a \in Admins,
             Makes(a) \/ InsertsRow(a) \/ SetsThumb(a) \/ DeletesRow(a) \/ Downloads(a)
               \/ Strips(a) \/ Regenerates(a) \/ \E k \in Key : Purges(a, k)
      PROVE  QueuesApart'
  BY <1>1, <1>4, <1>6
  DEF Makes, InsertsRow, SetsThumb, DeletesRow, Downloads, Strips, Regenerates,
      Purges, Moves, SameBut, Generated, Generating, Places, At
<1>7. ASSUME NEW a \in Admins, SavesVariants(a) \/ Ends(a) PROVE QueuesApart'
  <2>1. CASE Sleeps(a) /\ Others(a)
    BY <1>3, <2>1 DEF Sleeps
  <2>2. CASE Others(a) /\ req'[a].queue = req[a].queue /\ req'[a].pc = "find"
    BY <1>4, <2>2
  <2> QED BY <1>7, <2>1, <2>2 DEF SavesVariants, Ends, Done, IsDone, SameBut
<1>8. ASSUME NEW a \in Admins, StartsBulk(a) PROVE QueuesApart'
  BY <1>2, <1>8 DEF StartsBulk, Starts, At
<1>9. ASSUME NEW a \in Admins, IsLeft(a) PROVE QueuesApart'
  BY <1>1, <1>9 DEF IsLeft, Moves, SameBut, Others, QueuesApart, At, Listed
<1>10. ASSUME NEW a \in Admins, BulkPasses(a) \/ BulkTakes(a) PROVE QueuesApart'
  <2> DEFINE q == req[a].queue
  <2>1. q \in Seq(Items) /\ q # <<>>
    BY <1>1, <1>10, RequestFields DEF TypeOK, BulkPasses, BulkTakes
  <2>2. \A m, n \in 1..Len(q) : q[m] = q[n] => m = n
    BY <1>1 DEF QueuesApart
  <2>3. /\ \A m, n \in 1..Len(Tail(q)) : Tail(q)[m] = Tail(q)[n] => m = n
        /\ \A n \in 1..Len(Tail(q)) : Tail(q)[n] # Head(q)
    BY <2>1, <2>2, TailApart
  <2>4. Others(a) /\ req'[a].queue = Tail(q)
        /\ (req'[a].pc = "find" \/ req'[a].item = Head(q))
    BY <1>10 DEF BulkPasses, BulkTakes, Moves, SameBut
  <2> HIDE DEF q
  <2> QED BY <1>2, <2>3, <2>4 DEF At
<1>11. CASE Restarts
  BY <1>11 DEF Restarts, Sleeps, QueuesApart, Listed
<1>12. CASE MonthPasses \/ Stays \/ \E i \in Items : LosesUpload(i)
  BY <1>1, <1>12 DEF MonthPasses, Stays, LosesUpload, QueuesApart, At, Listed
<1> QED BY <1>5, <1>6, <1>7, <1>8, <1>9, <1>10, <1>11, <1>12 DEF Step, Acts

\* A request changes by what it does, or in a restart.
LEMMA Whose ==
  ASSUME Step, NEW b \in Admins
  PROVE  req'[b] = req[b] \/ Acts(b) \/ Restarts
<1>1. ASSUME NEW a \in Admins, Acts(a), a # b PROVE req'[b] = req[b]
  <2>1. CASE \E i \in Items : StartsUpload(a, i) \/ StartsDelete(a, i) \/ StartsRegenerate(a, i)
    BY <1>1, <2>1 DEF StartsUpload, StartsDelete, StartsRegenerate, Starts, Others
  <2>2. CASE \/ Makes(a) \/ InsertsRow(a) \/ SetsThumb(a) \/ DeletesRow(a) \/ Downloads(a)
             \/ Strips(a) \/ Regenerates(a) \/ BulkPasses(a) \/ BulkTakes(a) \/ IsLeft(a)
             \/ \E k \in Key : Purges(a, k)
    BY <1>1, <2>2 DEF Makes, InsertsRow, SetsThumb, DeletesRow, Downloads, Strips, Regenerates,
       BulkPasses, BulkTakes, IsLeft, Purges, Moves, Others
  <2>3. CASE SavesVariants(a) \/ Ends(a) \/ StartsBulk(a)
    BY <1>1, <2>3 DEF SavesVariants, Ends, Done, StartsBulk, Starts, Others
  <2> QED BY <1>1, <2>1, <2>2, <2>3 DEF Acts
<1> QED BY <1>1 DEF Step, LosesUpload, MonthPasses, Stays

\* An item is filed under the month in which its upload starts, and stays there.
LEMMA FiledOnce ==
  ASSUME Step
  PROVE  filed' = filed \/ \E i \in Items : filed[i] = 0 /\ filed' = [filed EXCEPT ![i] = month]
<1>1. ASSUME NEW a \in Admins, NEW i \in Items,
             StartsUpload(a, i) \/ StartsDelete(a, i) \/ StartsRegenerate(a, i)
      PROVE  filed' \in {filed, [filed EXCEPT ![i] = month]} /\ (filed' # filed => filed[i] = 0)
  BY <1>1 DEF StartsUpload, StartsDelete, StartsRegenerate
<1>2. ASSUME NEW a \in Admins,
             Makes(a) \/ InsertsRow(a) \/ SetsThumb(a) \/ SavesVariants(a) \/ DeletesRow(a)
               \/ Downloads(a) \/ Ends(a)
      PROVE  filed' = filed
  BY <1>2 DEF Makes, InsertsRow, SetsThumb, SavesVariants, DeletesRow, Downloads, Ends
<1>3. ASSUME NEW a \in Admins,
             \/ Strips(a) \/ Regenerates(a) \/ StartsBulk(a) \/ BulkPasses(a) \/ BulkTakes(a)
             \/ IsLeft(a)
             \/ \E k \in Key : Purges(a, k)
      PROVE  filed' = filed
  BY <1>3 DEF Strips, Regenerates, StartsBulk, BulkPasses, BulkTakes, IsLeft, Purges
<1>4. ASSUME NEW a \in Admins, Acts(a)
      PROVE  filed' = filed \/ \E i \in Items : filed[i] = 0 /\ filed' = [filed EXCEPT ![i] = month]
  BY <1>1, <1>2, <1>3, <1>4 DEF Acts
<1>5. ASSUME Restarts \/ MonthPasses \/ Stays
      PROVE  filed' = filed
  BY <1>5 DEF Restarts, MonthPasses, Stays
<1> QED BY <1>4, <1>5 DEF Step, LosesUpload

LEMMA FiledStays ==
  ASSUME IInv, Step
  PROVE  \A i \in Items : filed[i] # 0 => filed'[i] = filed[i] /\ Original(i)' = Original(i)
<1>1. filed \in [Items -> Months \cup {0}]
  BY DEF IInv, TypeOK
<1> QED BY <1>1, FiledOnce DEF Original

LEMMA KeyParts ==
  ASSUME NEW i, NEW m, NEW s
  PROVE  KeyOf(i, m, s).item = i /\ KeyOf(i, m, s).month = m /\ KeyOf(i, m, s).size = s
BY DEF KeyOf

LEMMA ThumbedFits ==
  ASSUME IInv, NEW a \in Admins, Generated(a), Thumbed(req[a])
  PROVE  Thumb \in Fitting(req[a].item)
<1>1. RequestFit(req[a]) /\ req[a].pc = "generate"
  BY DEF IInv, KeysFit, Generated
<1> QED BY <1>1, KeyParts DEF RequestFit, Thumbed

LEMMA KeysFitStep ==
  ASSUME IInv, TypeOK', Step
  PROVE  KeysFit'
<1>1. KeysFit /\ TypeOK /\ Places BY DEF IInv
<1>2. \A a \in Admins : RequestFit(req[a])
  BY <1>1 DEF KeysFit
<1>3. \A i \in Items : ImageFit(i)
  BY <1>1 DEF KeysFit
<1>4. ASSUME NEW a \in Admins, req'[a] = req[a]
      PROVE  RequestFit(req[a])'
  <2>1. \A k \in req[a].keys : req[a].job = "delete" /\ req[a].pc = "purge"
          /\ k = Original(k.item) => Original(k.item)' = Original(k.item)
    <3>1. ASSUME NEW k \in req[a].keys, req[a].job = "delete", req[a].pc = "purge"
          PROVE  Original(k.item)' = Original(k.item)
      <4>1. k.item = req[a].item
        BY <1>2 DEF RequestFit
      <4>2. req[a].item \in Items
        BY <1>1, RequestFields DEF TypeOK
      <4>3. filed[req[a].item] # 0
        BY <3>1, <4>2 DEF IInv, Filed, At
      <4> QED BY <4>1, <4>2, <4>3, FiledStays
    <3> QED BY <3>1
  <2> QED BY <1>2, <1>4, <2>1 DEF RequestFit
<1>5. ASSUME NEW a \in Admins, Others(a), RequestFit(req[a])', \A i \in Items : ImageFit(i)'
      PROVE  KeysFit'
  BY <1>4, <1>5 DEF Others, KeysFit
<1>6. ASSUME UNCHANGED <<rows, variants>>
      PROVE  \A i \in Items : ImageFit(i)'
  BY <1>3, <1>6 DEF ImageFit
<1>7. ASSUME NEW a \in Admins, NEW i \in Items,
             StartsUpload(a, i) \/ StartsDelete(a, i) \/ StartsRegenerate(a, i)
      PROVE  KeysFit'
  <2>1. RequestFit(req[a])'
    BY <1>3, <1>7 DEF StartsUpload, StartsDelete, StartsRegenerate, RequestFit, ImageFit
  <2> QED BY <1>5, <1>6, <1>7, <2>1 DEF StartsUpload, StartsDelete, StartsRegenerate, Starts
<1>8. ASSUME NEW a \in Admins, Makes(a) PROVE KeysFit'
  <2>1. RequestFit(req[a])'
    BY <1>1, <1>2, <1>8, KeyParts DEF Makes, Moves, SameBut, RequestFit, Places
  <2> QED BY <1>5, <1>6, <1>8, <2>1 DEF Makes, Moves
<1>9. ASSUME NEW a \in Admins, InsertsRow(a) \/ SetsThumb(a) PROVE KeysFit'
  <2>1. RequestFit(req[a])'
    BY <1>1, <1>2, <1>9 DEF InsertsRow, SetsThumb, Moves, SameBut, RequestFit, Generated
  <2>2. Thumbed(req[a]) => Thumb \in Fitting(req[a].item)
    BY <1>9, ThumbedFits DEF InsertsRow, SetsThumb
  <2>3. req[a].item \in Items
    BY <1>1, RequestFields DEF TypeOK
  <2>4. \A i \in Items : ImageFit(i)'
    BY <1>1, <1>3, <1>9, <2>2, <2>3 DEF InsertsRow, SetsThumb, ImageFit, TypeOK
  <2> QED BY <1>5, <1>9, <2>1, <2>4 DEF InsertsRow, SetsThumb, Moves
<1>10. ASSUME NEW a \in Admins, SavesVariants(a) PROVE KeysFit'
  <2>1. RequestFit(req[a])'
    BY <1>1, <1>10 DEF SavesVariants, Done, IsDone, Sleeps, SameBut, RequestFit
  <2>2. req[a].item \in Items
    BY <1>1, RequestFields DEF TypeOK
  <2>3. \A k \in req[a].keys : k.item = req[a].item /\ k.size \in Fitting(req[a].item)
    BY <1>1, <1>2, <1>10 DEF SavesVariants, RequestFit
  <2>4. \A i \in Items : ImageFit(i)'
    BY <1>1, <1>3, <1>10, <2>2, <2>3 DEF SavesVariants, ImageFit, TypeOK
  <2> QED BY <1>5, <1>10, <2>1, <2>4 DEF SavesVariants, Done
<1>11. ASSUME NEW a \in Admins, DeletesRow(a) PROVE KeysFit'
  <2>1. PICK i \in Items : i = req[a].item
    BY <1>1, RequestFields DEF TypeOK
  <2>2. Original(i)' = Original(i) /\ Original(i).item = i
    BY <1>11, <2>1, FiledStays, KeyParts DEF DeletesRow, IInv, Filed, Original
  <2>3. \A k \in ThumbOf(i) : k.item = i /\ k.size \in Fitting(i)
    BY <1>3, <1>11, <2>1, KeyParts DEF ThumbOf, ImageFit, DeletesRow
  <2>4. \A k \in req[a].keys : k.item = i /\ k.size \in Fitting(i)
    BY <1>2, <1>11, <2>1 DEF RequestFit, DeletesRow
  <2>5. RequestFit(req[a])'
    BY <1>11, <2>1, <2>2, <2>3, <2>4 DEF DeletesRow, Moves, SameBut, RequestFit
  <2>6. \A j \in Items : ImageFit(j)'
    BY <1>1, <1>3, <1>11, <2>1 DEF DeletesRow, ImageFit, TypeOK
  <2> QED BY <1>5, <1>11, <2>5, <2>6 DEF DeletesRow, Moves
<1>12. ASSUME NEW a \in Admins, Strips(a) PROVE KeysFit'
  <2>1. req[a].item \in Items
    BY <1>1, RequestFields DEF TypeOK
  <2>2. RequestFit(req[a])'
    BY <1>3, <1>12, <2>1 DEF Strips, Moves, SameBut, RequestFit, ImageFit
  <2>3. \A i \in Items : ImageFit(i)'
    BY <1>1, <1>3, <1>12, <2>1 DEF Strips, ImageFit, TypeOK
  <2> QED BY <1>5, <1>12, <2>2, <2>3 DEF Strips, Moves
<1>13. ASSUME NEW a \in Admins, NEW k \in Key, Purges(a, k) PROVE KeysFit'
  <2>1. PICK i \in Items : i = req[a].item /\ req[a].job \in {"delete", "regenerate"}
    BY <1>1, <1>13, RequestFields DEF TypeOK, Purges, Places
  <2>2. filed[i] # 0
    BY <1>13, <2>1 DEF Purges, IInv, Filed, At
  <2>3. Original(i)' = Original(i)
    BY <2>1, <2>2, FiledStays
  <2>4. RequestFit(req[a])'
    BY <1>2, <1>13, <2>1, <2>3 DEF Purges, Moves, SameBut, RequestFit
  <2> QED BY <1>5, <1>6, <1>13, <2>4 DEF Purges, Moves
<1>14. ASSUME NEW a \in Admins, Downloads(a) \/ BulkPasses(a) \/ BulkTakes(a) \/ Regenerates(a)
       PROVE  KeysFit'
  <2>1. RequestFit(req[a])'
    BY <1>2, <1>14 DEF Downloads, BulkPasses, BulkTakes, Regenerates, Moves, SameBut, RequestFit
  <2> QED BY <1>5, <1>6, <1>14, <2>1 DEF Downloads, BulkPasses, BulkTakes, Regenerates, Moves
<1>15. ASSUME NEW a \in Admins, Ends(a) \/ StartsBulk(a) PROVE KeysFit'
  <2>1. RequestFit(req[a])'
    BY <1>15 DEF Ends, Done, IsDone, Sleeps, StartsBulk, RequestFit
  <2> QED BY <1>5, <1>6, <1>15, <2>1 DEF Ends, Done, StartsBulk, Starts
<1>16. ASSUME NEW a \in Admins, IsLeft(a) PROVE KeysFit'
  <2>1. filed' = filed
    BY <1>16 DEF IsLeft
  <2>2. RequestFit(req[a])'
    BY <1>2, <1>16, <2>1 DEF IsLeft, Moves, SameBut, RequestFit, Original
  <2> QED BY <1>5, <1>6, <1>16, <2>2 DEF IsLeft, Moves
<1>17. CASE Restarts
  BY <1>6, <1>17 DEF Restarts, Sleeps, RequestFit, KeysFit
<1>18. CASE MonthPasses \/ Stays \/ \E i \in Items : LosesUpload(i)
  BY <1>4, <1>6, <1>18 DEF MonthPasses, Stays, LosesUpload, KeysFit
<1> QED BY <1>7, <1>8, <1>9, <1>10, <1>11, <1>12, <1>13, <1>14, <1>15, <1>16, <1>17, <1>18 DEF Step, Acts

-----------------------------------------------------------------------------
(* What must have happened when something has changed.                     *)

\* Few steps write the rows, ...
LEMMA RowsWritten ==
  ASSUME Step
  PROVE  \/ rows' = rows /\ variants' = variants
         \/ \E a \in Admins : InsertsRow(a) \/ SetsThumb(a) \/ SavesVariants(a) \/ DeletesRow(a)
                               \/ Strips(a)
<1>1. ASSUME NEW a \in Admins, NEW i \in Items,
             StartsUpload(a, i) \/ StartsDelete(a, i) \/ StartsRegenerate(a, i)
      PROVE  rows' = rows /\ variants' = variants
  BY <1>1 DEF StartsUpload, StartsDelete, StartsRegenerate
<1>2. ASSUME NEW a \in Admins,
             \/ Makes(a) \/ Downloads(a) \/ Ends(a) \/ Regenerates(a)
             \/ \E k \in Key : Purges(a, k)
      PROVE  rows' = rows /\ variants' = variants
  BY <1>2 DEF Makes, Downloads, Ends, Regenerates, Purges
<1>3. ASSUME NEW a \in Admins, StartsBulk(a) \/ BulkPasses(a) \/ BulkTakes(a) \/ IsLeft(a)
      PROVE  rows' = rows /\ variants' = variants
  BY <1>3 DEF StartsBulk, BulkPasses, BulkTakes, IsLeft
<1>4. ASSUME (\E i \in Items : LosesUpload(i)) \/ Restarts \/ MonthPasses \/ Stays
      PROVE  rows' = rows /\ variants' = variants
  BY <1>4 DEF LosesUpload, Restarts, MonthPasses, Stays
<1> QED BY <1>1, <1>2, <1>3, <1>4 DEF Step, Acts

\* ... and only a purge removes objects.
LEMMA ObjectsPurged ==
  ASSUME Step
  PROVE  objects \subseteq objects' \/ \E a \in Admins, k \in Key : Purges(a, k)
<1>1. ASSUME NEW a \in Admins, NEW i \in Items,
             StartsUpload(a, i) \/ StartsDelete(a, i) \/ StartsRegenerate(a, i)
      PROVE  objects \subseteq objects'
  BY <1>1 DEF StartsUpload, StartsDelete, StartsRegenerate
<1>2. ASSUME NEW a \in Admins,
             Makes(a) \/ InsertsRow(a) \/ SetsThumb(a) \/ SavesVariants(a) \/ DeletesRow(a)
      PROVE  objects \subseteq objects'
  BY <1>2 DEF Makes, InsertsRow, SetsThumb, SavesVariants, DeletesRow
<1>3. ASSUME NEW a \in Admins,
             \/ Downloads(a) \/ Ends(a) \/ Strips(a) \/ Regenerates(a)
             \/ StartsBulk(a) \/ BulkPasses(a) \/ BulkTakes(a) \/ IsLeft(a)
      PROVE  objects \subseteq objects'
  BY <1>3 DEF Downloads, Ends, Strips, Regenerates, StartsBulk, BulkPasses, BulkTakes, IsLeft
<1>4. ASSUME (\E i \in Items : LosesUpload(i)) \/ Restarts \/ MonthPasses \/ Stays
      PROVE  objects \subseteq objects'
  BY <1>4 DEF LosesUpload, Restarts, MonthPasses, Stays
<1> QED BY <1>1, <1>2, <1>3, <1>4 DEF Step, Acts

LEMMA RowsAppear ==
  ASSUME IInv, Step, NEW i \in Items, rows[i] = NoRow, rows'[i] # NoRow
  PROVE  \E a \in Admins : InsertsRow(a) /\ req[a].item = i
<1>1. TypeOK BY DEF IInv
<1>2. ASSUME NEW a \in Admins, SetsThumb(a) \/ DeletesRow(a)
      PROVE  FALSE
  <2>1. req[a].item \in Items
    BY <1>1, RequestFields DEF TypeOK
  <2> QED BY <1>1, <1>2, <2>1 DEF SetsThumb, DeletesRow, TypeOK
<1>3. ASSUME NEW a \in Admins, InsertsRow(a)
      PROVE  req[a].item = i
  BY <1>1, <1>3 DEF InsertsRow, TypeOK
<1> QED BY <1>2, <1>3, RowsWritten DEF SavesVariants, Strips

LEMMA ObjectsGo ==
  ASSUME IInv, Step, NEW k \in objects, k \notin objects'
  PROVE  \E a \in Admins : Purges(a, k)
<1>1. ASSUME NEW a \in Admins, NEW l \in Key, Purges(a, l)
      PROVE  l = k
  BY <1>1 DEF Purges
<1> QED BY <1>1, ObjectsPurged

LEMMA Arrivals ==
  ASSUME IInv, Step, NEW b \in Admins, NEW i \in Items
  PROVE  /\ At(b, i)' =>
              \/ At(b, i)
              \/ Listed(b, i) /\ BulkTakes(b)
              \/ StartsUpload(b, i) \/ StartsDelete(b, i) \/ StartsRegenerate(b, i)
         /\ Listed(b, i)' => Listed(b, i) \/ StartsBulk(b)
<1>1. TypeOK /\ Places BY DEF IInv
<1>2. req'[b] = req[b] => (At(b, i)' => At(b, i)) /\ (Listed(b, i)' => Listed(b, i))
  BY DEF At, Listed
<1>3. ASSUME NEW a \in Admins, NEW j \in Items,
             StartsUpload(a, j) \/ StartsDelete(a, j) \/ StartsRegenerate(a, j), a = b
      PROVE  /\ At(b, i)' => i = j
             /\ ~Listed(b, i)'
  BY <1>3 DEF StartsUpload, StartsDelete, StartsRegenerate, At, Listed
<1>4. ASSUME NEW a \in Admins, NEW j \in Items,
             StartsUpload(a, j) \/ StartsDelete(a, j) \/ StartsRegenerate(a, j), a # b
      PROVE  req'[b] = req[b]
  <2>1. \E S \in SUBSET Items : Starts(a, S)
    BY <1>4 DEF StartsUpload, StartsDelete, StartsRegenerate
  <2> QED BY <1>4, <2>1 DEF Starts, Others
<1>5. ASSUME NEW a \in Admins,
             \/ Makes(a) \/ InsertsRow(a) \/ SetsThumb(a) \/ DeletesRow(a) \/ Downloads(a)
             \/ Strips(a) \/ Regenerates(a) \/ IsLeft(a)
             \/ \E k \in Key : Purges(a, k)
      PROVE  (At(b, i)' => At(b, i)) /\ (Listed(b, i)' => Listed(b, i))
  BY ZenonT(60), <1>1, <1>5
  DEF Makes, InsertsRow, SetsThumb, DeletesRow, Downloads, Strips, Regenerates,
      IsLeft, Purges, Moves, SameBut, Others, Generated, Places, At, Listed, Generating
<1>6. ASSUME NEW a \in Admins, SavesVariants(a) \/ Ends(a)
      PROVE  (At(b, i)' => At(b, i)) /\ (Listed(b, i)' => Listed(b, i))
  BY <1>6 DEF SavesVariants, Ends, Done, IsDone, Sleeps, SameBut, Others, At, Listed
<1>7. ASSUME NEW a \in Admins, StartsBulk(a)
      PROVE  /\ At(b, i)' => At(b, i)
             /\ Listed(b, i)' => Listed(b, i) \/ StartsBulk(b)
  <2>1. a # b => req'[b] = req[b]
    BY <1>7 DEF StartsBulk, Starts, Others
  <2>2. req'[a].pc = "find"
    BY <1>7 DEF StartsBulk
  <2>3. CASE a # b
    BY <1>2, <2>1, <2>3
  <2>4. CASE a = b
    BY <1>7, <2>2, <2>4 DEF At
  <2> QED BY <2>3, <2>4
<1>8. ASSUME NEW a \in Admins, BulkPasses(a) \/ BulkTakes(a)
      PROVE  /\ At(b, i)' => At(b, i) \/ (Listed(b, i) /\ BulkTakes(b))
             /\ Listed(b, i)' => Listed(b, i)
  <2>1. CASE a # b
    <3>1. req'[b] = req[b]
      BY <1>8, <2>1 DEF BulkPasses, BulkTakes, Moves, Others
    <3> QED BY <1>2, <3>1
  <2>2. CASE a = b
    <3> DEFINE q == req[b].queue
    <3>1. q \in Seq(Items) /\ q # <<>>
      BY <1>1, <1>8, <2>2, RequestFields DEF TypeOK, BulkPasses, BulkTakes
    <3>2. Listed(b, Head(q))
      BY <3>1, TailFields DEF Listed
    <3>3. req'[b].queue = Tail(q)
      BY <1>8, <2>2 DEF BulkPasses, BulkTakes
    <3>4. Listed(b, i)' => Listed(b, i)
      <4>1. ASSUME NEW n \in 1..Len(Tail(q)), Tail(q)[n] = i PROVE Listed(b, i)
        BY <3>1, <4>1, TailFields DEF Listed
      <4> HIDE DEF q
      <4> QED BY <3>3, <4>1 DEF Listed
    <3>5. At(b, i)' => At(b, i) \/ (Listed(b, i) /\ BulkTakes(b))
      BY <1>8, <2>2, <3>2 DEF BulkPasses, BulkTakes, Moves, SameBut, At
    <3> QED BY <3>4, <3>5
  <2> QED BY <2>1, <2>2
<1>9. CASE Restarts
  BY <1>9 DEF Restarts, Sleeps, At, Listed
<1>10. CASE MonthPasses \/ Stays \/ \E j \in Items : LosesUpload(j)
  BY <1>2, <1>10 DEF MonthPasses, Stays, LosesUpload
<1>11. CASE \E a \in Admins, j \in Items :
              StartsUpload(a, j) \/ StartsDelete(a, j) \/ StartsRegenerate(a, j)
  BY <1>2, <1>3, <1>4, <1>11
<1> QED BY <1>5, <1>6, <1>7, <1>8, <1>9, <1>10, <1>11 DEF Step, Acts

\* Who is listed has a row and no variants.
LEMMA ListedAnew ==
  ASSUME NEW a \in Admins, NEW i \in Items, StartsBulk(a), Listed(a, i)'
  PROVE  rows[i] # NoRow /\ variants[i] = {}
BY DEF StartsBulk, Listed

LEMMA FiledStep ==
  ASSUME IInv, TypeOK', Step
  PROVE  Filed'
<1> SUFFICES ASSUME NEW i \in Items
             PROVE  /\ rows'[i] # NoRow => filed'[i] # 0
                    /\ variants'[i] # {} => rows'[i] # NoRow
                    /\ \A a \in Admins : At(a, i)' \/ Listed(a, i)' => filed'[i] # 0
  BY DEF Filed
<1>1. TypeOK /\ Filed BY DEF IInv
<1>2. filed[i] # 0 => filed'[i] # 0
  BY FiledStays
<1>3. rows'[i] # NoRow => filed'[i] # 0
  <2>1. CASE rows[i] = NoRow
    BY <1>1, <1>2, <2>1, RowsAppear DEF InsertsRow, Generated, Filed, At
  <2> QED BY <1>1, <1>2, <2>1 DEF Filed
<1>4. variants'[i] # {} => rows'[i] # NoRow
  <2>1. \A a \in Admins : req[a].item \in Items
    BY <1>1, RequestFields DEF TypeOK
  <2>2. ASSUME NEW a \in Admins, InsertsRow(a) \/ SetsThumb(a) \/ SavesVariants(a)
                                 \/ DeletesRow(a) \/ Strips(a)
        PROVE  variants'[i] # {} => rows'[i] # NoRow
    BY <1>1, <2>1, <2>2, MediaAssumption
    DEF InsertsRow, SetsThumb, SavesVariants, DeletesRow, Strips, Filed, TypeOK
  <2>3. rows'[i] = rows[i] /\ variants'[i] = variants[i] => (variants'[i] # {} => rows'[i] # NoRow)
    BY <1>1 DEF Filed
  <2> QED BY <2>2, <2>3, RowsWritten
<1>5. ASSUME NEW a \in Admins, At(a, i)' \/ Listed(a, i)' PROVE filed'[i] # 0
  <2>1. CASE StartsUpload(a, i)
    BY <1>1, <2>1 DEF StartsUpload, TypeOK, Months
  <2>2. CASE StartsDelete(a, i) \/ StartsRegenerate(a, i)
    BY <1>1, <1>2, <2>2 DEF StartsDelete, StartsRegenerate, Filed
  <2>3. CASE At(a, i) \/ Listed(a, i)
    BY <1>1, <1>2, <2>3 DEF Filed
  <2>4. CASE StartsBulk(a) /\ Listed(a, i)'
    BY <1>1, <1>2, <2>4, ListedAnew DEF Filed
  <2> QED BY <1>5, <2>1, <2>2, <2>3, <2>4, Arrivals
<1> QED BY <1>3, <1>4, <1>5

LEMMA DeletedStep ==
  ASSUME IInv, TypeOK', Step
  PROVE  Deleted'
<1> SUFFICES ASSUME NEW a \in Admins, req'[a].job = "delete", req'[a].pc = "purge"
             PROVE  rows'[req'[a].item] = NoRow
  BY DEF Deleted
<1>1. TypeOK /\ Places /\ Deleted BY DEF IInv
<1>2. PICK i \in Items : i = req'[a].item
  BY RequestFields DEF TypeOK
<1>3. CASE DeletesRow(a)
  BY <1>1, <1>2, <1>3 DEF DeletesRow, Moves, SameBut, TypeOK
<1>4. CASE req[a].job = "delete" /\ req[a].pc = "purge" /\ req[a].item = i
  <2>1. rows[i] = NoRow
    BY <1>1, <1>4 DEF Deleted
  <2>2. \A b \in Admins : ~(InsertsRow(b) /\ req[b].item = i)
    <3> SUFFICES ASSUME NEW b \in Admins, InsertsRow(b), req[b].item = i PROVE FALSE
      OBVIOUS
    <3>1. req[b].job = "upload" /\ req[b].pc = "generate"
      BY DEF InsertsRow, Generated
    <3>2. At(a, i) /\ a # b
      BY <1>4, <3>1 DEF At
    <3> QED BY <1>4, <3>1, <3>2 DEF IInv, Uploads
  <2> QED BY <1>2, <2>1, <2>2, RowsAppear
<1>5. CASE req'[a] = req[a]
  BY <1>2, <1>4, <1>5
<1>6. CASE Acts(a)
  <2>1. CASE \E j \in Items : StartsUpload(a, j) \/ StartsDelete(a, j) \/ StartsRegenerate(a, j)
    BY <2>1 DEF StartsUpload, StartsDelete, StartsRegenerate
  <2>2. CASE \/ Makes(a) \/ InsertsRow(a) \/ SetsThumb(a) \/ Downloads(a)
             \/ Strips(a) \/ Regenerates(a) \/ StartsBulk(a) \/ BulkPasses(a) \/ BulkTakes(a)
    BY <1>1, <2>2 DEF Makes, InsertsRow, SetsThumb, Downloads, Strips, Regenerates, StartsBulk,
       BulkPasses, BulkTakes, Moves, SameBut, Generated, Places
  <2>3. CASE SavesVariants(a) \/ Ends(a)
    BY <2>3 DEF SavesVariants, Ends, Done, IsDone, Sleeps, SameBut
  <2>4. CASE IsLeft(a) \/ \E k \in Key : Purges(a, k)
    BY <1>2, <1>4, <2>4 DEF IsLeft, Purges, Moves, SameBut
  <2> QED BY <1>3, <1>6, <2>1, <2>2, <2>3, <2>4 DEF Acts
<1>7. CASE Restarts
  BY <1>7 DEF Restarts, Sleeps
<1> QED BY <1>5, <1>6, <1>7, Whose

\* An upload that has yet to insert its row was one before, or has just begun.
LEMMA UploadGoesOn ==
  ASSUME IInv, Step, NEW a \in Admins, req'[a].job = "upload", req'[a].pc = "generate"
  PROVE  \/ \E i \in Items : StartsUpload(a, i)
         \/ /\ req[a].job = "upload" /\ req[a].pc = "generate" /\ req'[a].item = req[a].item
            /\ (req'[a].keys = req[a].keys \/ Makes(a))
<1>1. Places BY DEF IInv
<1>2. CASE Acts(a)
  <2>1. CASE \E j \in Items : StartsDelete(a, j) \/ StartsRegenerate(a, j)
    BY <2>1 DEF StartsDelete, StartsRegenerate
  <2>2. CASE \/ InsertsRow(a) \/ SetsThumb(a) \/ Downloads(a) \/ DeletesRow(a)
             \/ Strips(a) \/ Regenerates(a) \/ StartsBulk(a) \/ BulkPasses(a) \/ BulkTakes(a)
    BY <1>1, <2>2 DEF InsertsRow, SetsThumb, Downloads, DeletesRow, Strips, Regenerates,
       StartsBulk, BulkPasses, BulkTakes, Moves, SameBut, Generated, Places
  <2>3. CASE SavesVariants(a) \/ Ends(a)
    BY <2>3 DEF SavesVariants, Ends, Done, IsDone, Sleeps, SameBut
  <2>4. CASE IsLeft(a) \/ \E k \in Key : Purges(a, k)
    BY <1>1, <2>4 DEF IsLeft, Purges, Moves, SameBut, Places
  <2>5. CASE Makes(a)
    BY <2>5 DEF Makes, Moves, SameBut
  <2> QED BY <1>2, <2>1, <2>2, <2>3, <2>4, <2>5 DEF Acts
<1>3. CASE Restarts
  BY <1>3 DEF Restarts, Sleeps
<1> QED BY <1>2, <1>3, Whose

LEMMA UploadsStep ==
  ASSUME IInv, TypeOK', Step
  PROVE  Uploads'
<1> SUFFICES ASSUME NEW a \in Admins, req'[a].job = "upload", req'[a].pc = "generate",
                    NEW i \in Items, req'[a].item = i
             PROVE  /\ rows'[i] = NoRow
                    /\ {Original(i)'} \cup req'[a].keys \subseteq objects'
                    /\ \A b \in Admins \ {a} :
                         At(b, i)' => req'[b].job = "delete" /\ req'[b].pc = "strip"
  BY RequestFields DEF Uploads, TypeOK
<1>1. TypeOK /\ Places /\ Filed BY DEF IInv
<1>2. CASE \E j \in Items : StartsUpload(a, j)
  <2>1. StartsUpload(a, i)
    BY <1>2 DEF StartsUpload
  <2>2. filed[i] = 0 /\ rows[i] = NoRow /\ rows' = rows
    BY <1>1, <2>1 DEF StartsUpload, Filed
  <2>3. Original(i)' \in objects' /\ req'[a].keys = {}
    BY <1>1, <2>1 DEF StartsUpload, Original, TypeOK
  <2>4. \A b \in Admins \ {a} : ~At(b, i)'
    BY <1>1, <2>1, <2>2 DEF StartsUpload, Starts, Others, At, Filed
  <2> QED BY <2>2, <2>3, <2>4
<1>3. CASE /\ req[a].job = "upload" /\ req[a].pc = "generate" /\ req[a].item = i
           /\ req'[a].keys = req[a].keys \/ Makes(a)
  <2>1. /\ rows[i] = NoRow /\ {Original(i)} \cup req[a].keys \subseteq objects
        /\ \A b \in Admins \ {a} : At(b, i) => req[b].job = "delete" /\ req[b].pc = "strip"
    BY <1>3 DEF IInv, Uploads
  <2>2. At(a, i) /\ filed[i] # 0
    BY <1>1, <1>3 DEF At, Filed
  <2>3. Original(i)' = Original(i) /\ Original(i).item = i
    BY <2>2, FiledStays, KeyParts DEF Original
  <2>4. rows'[i] = NoRow
    <3>1. ASSUME NEW b \in Admins, InsertsRow(b), req[b].item = i PROVE FALSE
      <4>1. b # a
        BY <1>3, <3>1 DEF InsertsRow, Moves
      <4>2. At(b, i) /\ req[b].job = "upload"
        BY <3>1 DEF At, InsertsRow, Generated
      <4> QED BY <2>1, <4>1, <4>2
    <3> QED BY <2>1, <3>1, RowsAppear
  <2>5. {Original(i)} \cup req[a].keys \subseteq objects'
    <3>1. \A k \in {Original(i)} \cup req[a].keys : k.item = i
      BY <1>3, <2>3 DEF IInv, KeysFit, RequestFit
    <3>2. ASSUME NEW b \in Admins, NEW k \in {Original(i)} \cup req[a].keys, Purges(b, k)
          PROVE  FALSE
      <4>1. req[b].pc = "purge" /\ req[b].item = i
        BY <3>1, <3>2 DEF Purges, IInv, KeysFit, RequestFit
      <4>2. At(b, i) /\ b # a
        BY <1>1, <1>3, <4>1 DEF At, Places
      <4> QED BY <2>1, <4>1, <4>2
    <3> QED BY <2>1, <3>2, ObjectsGo
  <2>6. req'[a].keys \subseteq objects'
    BY <1>3, <2>5 DEF Makes
  <2>7. ASSUME NEW b \in Admins \ {a}, At(b, i)'
        PROVE  req'[b].job = "delete" /\ req'[b].pc = "strip"
    <3>1. CASE At(b, i)
      <4>1. req[b].job = "delete" /\ req[b].pc = "strip" /\ req[b].item = i
        BY <2>1, <3>1 DEF At
      <4>2. ~Restarts
        BY <2>7 DEF Restarts, Sleeps, At
      <4>3. Acts(b) => IsLeft(b) \/ DeletesRow(b) \/ Ends(b)
        <5>1. ~\E j \in Items : StartsUpload(b, j) \/ StartsDelete(b, j) \/ StartsRegenerate(b, j)
          BY <4>1 DEF StartsUpload, StartsDelete, StartsRegenerate, Starts
        <5>2. ~(\/ Makes(b) \/ InsertsRow(b) \/ SetsThumb(b) \/ Downloads(b) \/ Strips(b)
                \/ Regenerates(b) \/ BulkPasses(b) \/ BulkTakes(b) \/ SavesVariants(b)
                \/ \E k \in Key : Purges(b, k))
          BY <4>1 DEF Makes, InsertsRow, SetsThumb, Downloads, Strips, Regenerates,
             BulkPasses, BulkTakes, SavesVariants, Purges, Generated
        <5>3. ~StartsBulk(b)
          BY <4>1 DEF StartsBulk, Starts
        <5> QED BY <5>1, <5>2, <5>3 DEF Acts
      <4>4. ~DeletesRow(b)
        BY <2>1, <4>1 DEF DeletesRow
      <4>5. ~Ends(b)
        BY <2>7, <4>1 DEF Ends, Done, IsDone, Sleeps, At
      <4>6. IsLeft(b) \/ req'[b] = req[b]
        BY <4>2, <4>3, <4>4, <4>5, Whose
      <4> QED BY <4>1, <4>6 DEF IsLeft, Moves, SameBut
    <3>2. CASE Listed(b, i) /\ BulkTakes(b)
      <4>1. req'[b].item = i
        BY <2>7 DEF At
      <4> QED BY <2>1, <3>2, <4>1 DEF BulkTakes
    <3>3. CASE StartsUpload(b, i) \/ StartsRegenerate(b, i)
      BY <2>1, <2>2, <3>3 DEF StartsUpload, StartsRegenerate
    <3>4. CASE StartsDelete(b, i)
      BY <3>4 DEF StartsDelete
    <3> QED BY <2>7, <3>1, <3>2, <3>3, <3>4, Arrivals
  <2> QED BY <2>3, <2>4, <2>5, <2>6, <2>7
<1> QED BY <1>2, <1>3, UploadGoesOn

LEMMA OriginalsStoredStep ==
  ASSUME IInv, TypeOK', Step
  PROVE  OriginalsStored'
<1> SUFFICES ASSUME NEW i \in Items, rows'[i] # NoRow
             PROVE  Original(i)' \in objects'
  BY DEF OriginalsStored
<1>1. TypeOK /\ Places /\ Filed BY DEF IInv
<1>2. Original(i) \in objects /\ filed[i] # 0
  <2>1. CASE rows[i] # NoRow
    BY <1>1, <2>1 DEF IInv, OriginalsStored, Filed
  <2>2. CASE rows[i] = NoRow
    <3>1. PICK a \in Admins : InsertsRow(a) /\ req[a].item = i
      BY <2>2, RowsAppear
    <3>2. req[a].job = "upload" /\ req[a].pc = "generate" /\ At(a, i)
      BY <3>1 DEF InsertsRow, Generated, At
    <3> QED BY <1>1, <3>1, <3>2 DEF IInv, Uploads, Filed
  <2> QED BY <2>1, <2>2
<1>3. Original(i)' = Original(i)
  BY <1>2, FiledStays
<1>4. ASSUME NEW a \in Admins, Purges(a, Original(i)) PROVE FALSE
  <2>1. RequestFit(req[a])
    BY DEF IInv, KeysFit
  <2>2. Original(i).size = 0 /\ 0 \notin Fitting(i) /\ Original(i).item = i
    BY KeyParts, FittingType, SizesType DEF Original
  <2>3. req[a].item = i /\ req[a].job = "delete" /\ req[a].pc = "purge"
    BY <1>4, <2>1, <2>2 DEF Purges, RequestFit
  <2>4. rows[i] = NoRow
    BY <2>3 DEF IInv, Deleted
  <2>5. PICK b \in Admins : InsertsRow(b) /\ req[b].item = i
    BY <2>4, RowsAppear
  <2>6. a = b
    <3>1. At(a, i) /\ req[b].job = "upload" /\ req[b].pc = "generate"
      BY <2>3, <2>5 DEF At, InsertsRow, Generated
    <3> QED BY <2>3, <2>5, <3>1 DEF IInv, Uploads
  <2> QED BY <2>3, <2>5, <2>6 DEF InsertsRow
<1> QED BY <1>2, <1>3, <1>4, ObjectsGo

-----------------------------------------------------------------------------
LEMMA VariantsAppear ==
  ASSUME IInv, Step, NEW i \in Items, NEW k \in variants'[i], k \notin variants[i]
  PROVE  \E a \in Admins : SavesVariants(a) /\ req[a].item = i /\ k \in req[a].keys
<1>1. TypeOK BY DEF IInv
<1>2. \A a \in Admins : req[a].item \in Items
  BY <1>1, RequestFields DEF TypeOK
<1>3. ASSUME NEW a \in Admins, DeletesRow(a) \/ Strips(a) PROVE FALSE
  BY <1>1, <1>2, <1>3 DEF DeletesRow, Strips, TypeOK
<1>4. ASSUME NEW a \in Admins, SavesVariants(a)
      PROVE  req[a].item = i /\ k \in req[a].keys
  BY <1>1, <1>2, <1>4 DEF SavesVariants, TypeOK
<1> QED BY <1>3, <1>4, RowsWritten DEF InsertsRow, SetsThumb

LEMMA ThumbsChange ==
  ASSUME IInv, Step, NEW i \in Items, rows'[i] # NoRow, rows'[i] # rows[i]
  PROVE  \E a \in Admins :
           /\ InsertsRow(a) \/ SetsThumb(a)
           /\ req[a].item = i
           /\ \/ rows'[i].thumb = req[a].month /\ Thumbed(req[a])
              \/ rows'[i].thumb = 0 /\ InsertsRow(a) /\ ~Thumbed(req[a])
<1>1. TypeOK BY DEF IInv
<1>2. \A a \in Admins : req[a].item \in Items
  BY <1>1, RequestFields DEF TypeOK
<1>3. ASSUME NEW a \in Admins, DeletesRow(a) PROVE FALSE
  BY <1>1, <1>2, <1>3 DEF DeletesRow, TypeOK
<1>4. ASSUME NEW a \in Admins, InsertsRow(a)
      PROVE  /\ req[a].item = i
             /\ rows'[i].thumb = IF Thumbed(req[a]) THEN req[a].month ELSE 0
  BY <1>1, <1>2, <1>4 DEF InsertsRow, TypeOK
<1>5. ASSUME NEW a \in Admins, SetsThumb(a)
      PROVE  req[a].item = i /\ rows'[i].thumb = req[a].month /\ Thumbed(req[a])
  BY <1>1, <1>2, <1>5 DEF SetsThumb, TypeOK
<1> QED BY <1>3, <1>4, <1>5, RowsWritten DEF SavesVariants, Strips

LEMMA MonthsGoOn ==
  ASSUME IInv, Step
  PROVE  month \in Nat /\ month > 0 /\ month' \in {month, month + 1}
<1>1. month \in Nat /\ month > 0
  BY MediaAssumption DEF IInv, TypeOK, Months
<1>2. ASSUME NEW a \in Admins, Acts(a) PROVE month' = month
  <2>1. CASE \E i \in Items : StartsUpload(a, i) \/ StartsDelete(a, i) \/ StartsRegenerate(a, i)
    BY <2>1 DEF StartsUpload, StartsDelete, StartsRegenerate, Starts
  <2>2. CASE \/ Makes(a) \/ InsertsRow(a) \/ SetsThumb(a) \/ DeletesRow(a) \/ Downloads(a)
             \/ Strips(a) \/ Regenerates(a) \/ BulkPasses(a) \/ BulkTakes(a) \/ IsLeft(a)
             \/ \E k \in Key : Purges(a, k)
    BY <2>2 DEF Makes, InsertsRow, SetsThumb, DeletesRow, Downloads, Strips, Regenerates,
       BulkPasses, BulkTakes, IsLeft, Purges, Moves
  <2>3. CASE SavesVariants(a) \/ Ends(a) \/ StartsBulk(a)
    BY <2>3 DEF SavesVariants, Ends, Done, StartsBulk, Starts
  <2> QED BY <1>2, <2>1, <2>2, <2>3 DEF Acts
<1>3. month' \in {month, month + 1}
  BY <1>2 DEF Step, LosesUpload, Restarts, MonthPasses, Stays
<1> QED BY <1>1, <1>3

\* What a request holds of an image it was at before.
LEMMA DatedStep ==
  ASSUME IInv, TypeOK', Step, NEW a \in Admins, NEW i \in Items,
         At(a, i), At(a, i)', filed'[i] = filed[i]
  PROVE  Dated(req[a], filed[i])'
<1>1. TypeOK /\ Places BY DEF IInv
<1>2. /\ Dated(req[a], filed[i]) /\ filed[i] <= month
      /\ \A k \in variants[i] : k.month \in filed[i]..month
      /\ rows[i] # NoRow => rows[i].thumb = 0 \/ rows[i].thumb \in filed[i]..month
  BY DEF IInv, MonthsInOrder
<1>3. filed[i] \in Nat /\ month \in Nat /\ month' \in {month, month + 1}
  BY <1>1, MonthsGoOn DEF TypeOK, Months
<1>4. \A m : m \in filed[i]..month => m \in filed[i]..month'
  BY <1>3
<1>5. filed[i] \in filed[i]..month' /\ month \in filed[i]..month'
  BY <1>2, <1>3
<1>6. ASSUME req'[a].keys \subseteq req[a].keys, Generating(req'[a]) => req'[a].month = req[a].month
             /\ Generating(req[a])
      PROVE  Dated(req[a], filed[i])'
  BY <1>2, <1>4, <1>6 DEF Dated
<1>7. req[a].item = i /\ req[a].job # "none" /\ req[a].pc # "find"
  BY DEF At
<1>8. CASE Acts(a)
  <2>1. CASE \E j \in Items : StartsUpload(a, j) \/ StartsDelete(a, j) \/ StartsRegenerate(a, j)
    BY <1>7, <2>1 DEF StartsUpload, StartsDelete, StartsRegenerate, Starts
  <2>2. CASE Makes(a)
    <3> DEFINE k == KeyOf(req[a].item, req[a].month, req[a].next)
    <3>1. req'[a].pc = "generate" /\ req[a].pc = "generate" /\ req'[a].month = req[a].month
          /\ req'[a].keys \subseteq req[a].keys \cup {k}
      BY <2>2 DEF Makes, Moves, SameBut
    <3>2. k.month = req[a].month
      BY KeyParts
    <3>3. req[a].month \in filed[i]..month
      BY <1>2, <3>1 DEF Dated, Generating
    <3> HIDE DEF k
    <3> QED BY <1>2, <1>4, <1>5, <3>1, <3>2, <3>3 DEF Dated
  <2>3. CASE InsertsRow(a) \/ SetsThumb(a) \/ IsLeft(a) \/ \E k \in Key : Purges(a, k)
    BY <1>6, <2>3 DEF InsertsRow, SetsThumb, IsLeft, Purges, Moves, SameBut, Generating, Generated
  <2>4. CASE SavesVariants(a) \/ Ends(a)
    BY <2>4 DEF SavesVariants, Ends, Done, IsDone, Sleeps, SameBut, At
  <2>5. CASE DeletesRow(a)
    <3>1. /\ req'[a].pc = "purge" /\ rows[i] # NoRow
          /\ req'[a].keys = req[a].keys \cup {Original(i)} \cup ThumbOf(i)
      BY <1>7, <2>5 DEF DeletesRow
    <3>2. Original(i).month = filed[i]
      BY KeyParts DEF Original
    <3>3. \A k \in ThumbOf(i) : k.month \in filed[i]..month
      BY <1>2, <3>1, KeyParts DEF ThumbOf
    <3> QED BY <1>2, <1>4, <1>5, <3>1, <3>2, <3>3 DEF Dated, Generating
  <2>6. CASE Strips(a)
    BY <1>2, <1>4, <1>7, <2>6 DEF Strips, Dated, Generating
  <2>7. CASE Downloads(a)
    BY <1>2, <1>4, <1>5, <2>7 DEF Downloads, Moves, SameBut, Dated, Generating
  <2>8. CASE Regenerates(a)
    BY <1>4, <1>5, <2>8 DEF Regenerates, Moves, SameBut, Dated, Generating
  <2>9. CASE StartsBulk(a) \/ BulkPasses(a) \/ BulkTakes(a)
    BY <1>7, <2>9 DEF StartsBulk, Starts, BulkPasses, BulkTakes
  <2> QED BY <1>8, <2>1, <2>2, <2>3, <2>4, <2>5, <2>6, <2>7, <2>8, <2>9 DEF Acts
<1>9. CASE req'[a] = req[a]
  BY <1>2, <1>4, <1>9 DEF Dated
<1>10. ~Restarts
  BY DEF Restarts, Sleeps, At
<1> QED BY <1>8, <1>9, <1>10, Whose

LEMMA MonthsInOrderStep ==
  ASSUME IInv, TypeOK', Filed', KeysFit', Step
  PROVE  MonthsInOrder'
<1> SUFFICES ASSUME NEW i \in Items
             PROVE  /\ filed'[i] <= month'
                    /\ \A k \in variants'[i] : k.month \in filed'[i]..month'
                    /\ rows'[i] # NoRow => rows'[i].thumb = 0 \/ rows'[i].thumb \in filed'[i]..month'
                    /\ \A a \in Admins : At(a, i)' => Dated(req[a], filed[i])'
  BY DEF MonthsInOrder
<1>1. TypeOK /\ Places /\ Filed BY DEF IInv
<1>2. month \in Nat /\ month > 0 /\ month' \in {month, month + 1}
      /\ filed[i] \in Nat /\ filed'[i] \in Nat
  BY <1>1, MonthsGoOn DEF TypeOK, Months
<1>3. CASE filed[i] = 0
  <2>1. rows'[i] = NoRow
    BY <1>1, <1>3, RowsAppear DEF InsertsRow, Generated, Filed, At
  <2>2. variants'[i] = {}
    BY <2>1 DEF Filed
  <2>3. filed'[i] \in {0, month}
    BY <1>1, <1>3, FiledOnce DEF TypeOK
  <2>4. ASSUME NEW a \in Admins, At(a, i)' PROVE Dated(req[a], filed[i])'
    <3>1. StartsUpload(a, i)
      BY <1>1, <1>3, <2>4, Arrivals DEF Filed, StartsDelete, StartsRegenerate
    <3> QED BY <1>1, <1>2, <3>1 DEF StartsUpload, Starts, Dated, TypeOK
  <2> QED BY <1>2, <2>1, <2>2, <2>3, <2>4
<1>4. CASE filed[i] # 0
  <2>1. filed'[i] = filed[i]
    BY <1>4, FiledStays
  <2>2. \A m : m \in filed[i]..month => m \in filed'[i]..month'
    BY <1>2, <2>1
  <2>3. /\ filed[i] <= month
        /\ \A k \in variants[i] : k.month \in filed[i]..month
        /\ rows[i] # NoRow => rows[i].thumb = 0 \/ rows[i].thumb \in filed[i]..month
        /\ \A a \in Admins : At(a, i) => Dated(req[a], filed[i])
    BY DEF IInv, MonthsInOrder
  <2>4. ASSUME NEW k \in variants'[i], k \notin variants[i] PROVE k.month \in filed[i]..month
    <3>1. PICK a \in Admins : SavesVariants(a) /\ req[a].item = i /\ k \in req[a].keys
      BY <2>4, VariantsAppear
    <3>2. At(a, i)
      BY <1>1, <3>1 DEF SavesVariants, At, Places
    <3> QED BY <2>3, <3>1, <3>2 DEF Dated
  <2>5. ASSUME rows'[i] # NoRow, rows'[i] # rows[i]
        PROVE  rows'[i].thumb = 0 \/ rows'[i].thumb \in filed[i]..month
    <3>1. PICK a \in Admins :
            /\ InsertsRow(a) \/ SetsThumb(a)
            /\ req[a].item = i
            /\ rows'[i].thumb \in {0, req[a].month}
      BY <2>5, ThumbsChange
    <3>2. At(a, i) /\ Generating(req[a])
      BY <1>1, <3>1 DEF InsertsRow, SetsThumb, Generated, Generating, At, Places
    <3> QED BY <2>3, <3>1, <3>2 DEF Dated
  <2>6. ASSUME NEW a \in Admins, At(a, i)' PROVE Dated(req[a], filed[i])'
    <3>1. CASE At(a, i)
      BY <2>1, <2>6, <3>1, DatedStep
    <3>2. CASE StartsUpload(a, i)
      BY <1>4, <3>2 DEF StartsUpload
    <3>3. CASE StartsDelete(a, i)
      BY <2>2, <2>3, <3>3 DEF StartsDelete, Dated, Generating
    <3>4. CASE StartsRegenerate(a, i)
      BY <3>4 DEF StartsRegenerate, Dated, Generating
    <3>5. CASE BulkTakes(a)
      <4>1. req'[a].keys = {} /\ req'[a].pc = "download"
        BY <3>5 DEF BulkTakes, Moves, SameBut, IInv, KeysFit, RequestFit
      <4> QED BY <4>1 DEF Dated, Generating
    <3> QED BY <2>6, <3>1, <3>2, <3>3, <3>4, <3>5, Arrivals
  <2> QED BY <1>2, <2>1, <2>2, <2>3, <2>4, <2>5, <2>6
<1> QED BY <1>3, <1>4

-----------------------------------------------------------------------------
LEMMA WorkingIs ==
  ASSUME Places, NEW i \in Items
  PROVE  WorkingOn(i) = {a \in Admins : At(a, i) \/ Listed(a, i)}
<1>1. ASSUME NEW a \in Admins, Listed(a, i) PROVE req[a].job # "none"
  BY <1>1 DEF Listed, Places
<1> QED BY <1>1 DEF WorkingOn, At, Listed

\* Nobody meets by going on.
LEMMA FaultsAndMet ==
  ASSUME Step
  PROVE  /\ faults' = 0 => faults = 0
         /\ met \subseteq met'
<1>1. ASSUME NEW a \in Admins, Acts(a) PROVE (faults' = 0 => faults = 0) /\ met \subseteq met'
  <2>1. CASE \E i \in Items : StartsUpload(a, i) \/ StartsDelete(a, i) \/ StartsRegenerate(a, i)
    BY <2>1 DEF StartsUpload, StartsDelete, StartsRegenerate, Starts, Meets
  <2>2. CASE \/ Makes(a) \/ InsertsRow(a) \/ SetsThumb(a) \/ DeletesRow(a) \/ Downloads(a)
             \/ Strips(a) \/ Regenerates(a) \/ BulkPasses(a) \/ BulkTakes(a) \/ IsLeft(a)
             \/ \E k \in Key : Purges(a, k)
    BY <2>2 DEF Makes, InsertsRow, SetsThumb, DeletesRow, Downloads, Strips, Regenerates,
       BulkPasses, BulkTakes, IsLeft, Purges, Moves
  <2>3. CASE SavesVariants(a) \/ Ends(a) \/ StartsBulk(a)
    BY <2>3 DEF SavesVariants, Ends, Done, StartsBulk, Starts, Meets
  <2> QED BY <1>1, <2>1, <2>2, <2>3 DEF Acts
<1> QED BY <1>1 DEF Step, LosesUpload, Restarts, MonthPasses, Stays

LEMMA NewcomersMeet ==
  ASSUME IInv, Places', Step, NEW i \in Items, NEW a \in Admins, NEW b \in Admins, a # b,
         a \in WorkingOn(i)', b \in WorkingOn(i)', a \notin WorkingOn(i)
  PROVE  i \in met'
<1>1. Places BY DEF IInv
<1>2. WorkingOn(i) = {c \in Admins : At(c, i) \/ Listed(c, i)}
  BY <1>1, WorkingIs
<1>3. At(a, i)' \/ Listed(a, i)'
  BY DEF WorkingOn, At, Listed
<1>4. ASSUME NEW S, i \in S, Starts(a, S) PROVE i \in met'
  <2>1. req'[b] = req[b]
    BY <1>4 DEF Starts, Others
  <2>2. b \in WorkingOn(i)
    BY <2>1 DEF WorkingOn
  <2> QED BY <1>4, <2>2 DEF Starts, Meets
<1>5. CASE StartsUpload(a, i) \/ StartsDelete(a, i) \/ StartsRegenerate(a, i)
  BY <1>4, <1>5 DEF StartsUpload, StartsDelete, StartsRegenerate
<1>6. CASE StartsBulk(a) /\ Listed(a, i)'
  BY <1>4, <1>6 DEF StartsBulk, Listed
<1> QED BY <1>2, <1>3, <1>5, <1>6, Arrivals

LEMMA MeetingsStep ==
  ASSUME IInv, Places', Step
  PROVE  Meetings'
<1> SUFFICES ASSUME NEW i \in Items, NEW a \in WorkingOn(i)', NEW b \in WorkingOn(i)', a # b
             PROVE  i \in met'
  BY DEF Meetings
<1>1. a \in Admins /\ b \in Admins
  BY DEF WorkingOn
<1>2. CASE a \in WorkingOn(i) /\ b \in WorkingOn(i)
  BY <1>2, FaultsAndMet DEF IInv, Meetings
<1> QED BY <1>1, <1>2, NewcomersMeet

LEMMA MadeMore ==
  ASSUME NEW r \in Request, NEW q \in Request, Made(r), r.next \in Fitting(r.item),
         q.item = r.item, q.month = r.month, q.next = r.next + 1, q.pc = "generate",
         q.keys = r.keys \cup {KeyOf(r.item, r.month, r.next)}
  PROVE  Made(q)
<1>1. r.next \in Nat
  BY RequestFields
<1>2. \A s \in Fitting(r.item) : s < q.next => s < r.next \/ s = r.next
  BY <1>1, FittingPositive
<1>3. KeyOf(r.item, r.month, r.next).month = r.month
  BY KeyParts
<1>4. \A k \in q.keys : k.month = q.month
  BY <1>3 DEF Made
<1>5. ASSUME NEW s \in Fitting(q.item), s < q.next
      PROVE  KeyOf(q.item, q.month, s) \in q.keys
  BY <1>2, <1>5 DEF Made
<1>6. q.next > 0
  BY <1>1
<1> QED BY <1>4, <1>5, <1>6 DEF Made

LEMMA CompleteStep ==
  ASSUME IInv, TypeOK', Step
  PROVE  Complete'
<1> SUFFICES ASSUME faults' = 0, NEW a \in Admins
             PROVE  ~req'[a].gone /\ (Generating(req'[a]) => Made(req'[a]))
  BY DEF Complete, Made, Generating, Fitting
<1>1. TypeOK /\ Places /\ faults = 0
  BY FaultsAndMet DEF IInv
<1>2. ~req[a].gone /\ (Generating(req[a]) => Made(req[a]))
  BY <1>1 DEF IInv, Complete
<1>3. req[a] \in Request /\ req'[a] \in Request
  BY <1>1 DEF TypeOK
<1>4. \A s \in Fitting(req'[a].item) : ~(s < 1)
  BY FittingPositive
<1>5. ASSUME req'[a].keys = {}, req'[a].next = 1, req'[a].pc = "generate" PROVE Made(req'[a])
  BY <1>4, <1>5 DEF Made
<1>6. CASE Acts(a)
  <2>1. CASE \E i \in Items : StartsUpload(a, i) \/ StartsDelete(a, i) \/ StartsRegenerate(a, i)
    BY <1>5, <2>1 DEF StartsUpload, StartsDelete, StartsRegenerate, Starts, Generating
  <2>2. CASE Makes(a)
    <3>1. /\ req'[a].keys = req[a].keys \cup {KeyOf(req[a].item, req[a].month, req[a].next)}
          /\ req'[a].item = req[a].item /\ req'[a].month = req[a].month
          /\ req'[a].pc = "generate" /\ req'[a].next = req[a].next + 1
          /\ req[a].pc = "generate" /\ req[a].next \in Fitting(req[a].item)
          /\ req'[a].gone = req[a].gone
      BY <2>2 DEF Makes, Moves, SameBut
    <3>2. Made(req'[a])
      BY <1>2, <1>3, <3>1, MadeMore DEF Generating
    <3> QED BY <1>2, <3>1, <3>2
  <2>3. CASE InsertsRow(a) \/ SetsThumb(a)
    <3>1. /\ req[a].pc = "generate" /\ req[a].next \notin Fitting(req[a].item)
          /\ req'[a].pc = "batch" /\ SameBut(req'[a], req[a], {"pc"})
      BY <2>3 DEF InsertsRow, SetsThumb, Generated, Moves
    <3> QED BY <1>2, <3>1 DEF SameBut, Made, Generating
  <2>4. CASE SavesVariants(a) \/ Ends(a)
    BY <1>2, <2>4 DEF SavesVariants, Ends, Done, IsDone, Sleeps, SameBut, Generating
  <2>5. CASE Downloads(a) \/ Regenerates(a)
    <3>1. req'[a].gone = req[a].gone
      BY <2>5 DEF Downloads, Regenerates, Moves, SameBut
    <3>2. Generating(req'[a]) =>
            req'[a].pc = "generate" /\ req'[a].next = 1 /\ req'[a].keys = req[a].keys
      BY <2>5 DEF Downloads, Regenerates, Moves, SameBut, Generating
    <3>3. Generating(req'[a]) => req[a].keys = {}
      BY <2>5 DEF Downloads, Regenerates, Moves, Generating, IInv, KeysFit, RequestFit
    <3> QED BY <1>2, <1>5, <3>1, <3>2, <3>3
  <2>6. CASE DeletesRow(a) \/ Strips(a) \/ BulkPasses(a) \/ BulkTakes(a)
             \/ \E k \in Key : Purges(a, k)
    BY <1>2, <2>6 DEF DeletesRow, Strips, BulkPasses, BulkTakes, Purges, Moves, SameBut, Generating
  <2>7. CASE StartsBulk(a)
    BY <2>7 DEF StartsBulk, Starts, Generating
  <2>8. ~IsLeft(a)
    BY DEF IsLeft
  <2> QED BY <1>6, <2>1, <2>2, <2>3, <2>4, <2>5, <2>6, <2>7, <2>8 DEF Acts
<1>7. CASE req'[a] = req[a]
  BY <1>2, <1>7
<1>8. ~Restarts
  BY DEF Restarts
<1> QED BY <1>6, <1>7, <1>8, Whose

-----------------------------------------------------------------------------
LEMMA FittingClosed ==
  ASSUME NEW i \in Items, NEW s \in Fitting(i), NEW n \in Nat, n > 0, n <= s
  PROVE  n \in Fitting(i)
<1>1. s \in Nat /\ s <= Len(Breakpoints) /\ Len(Breakpoints) \in Nat
  BY MediaAssumption DEF Fitting, Sizes
<1>2. n \in Sizes
  BY <1>1 DEF Sizes
<1>3. Width[i] \in Nat /\ Width[i] > 0
  BY MediaAssumption DEF Fitting
<1>4. CASE n = 1
  BY <1>2, <1>3, <1>4 DEF Fitting, Thumb
<1>5. CASE n > 1 /\ n < s
  <2>1. n - 1 \in Sizes /\ s - 1 \in Sizes /\ n - 1 < s - 1
    BY <1>1, <1>2, <1>5 DEF Sizes
  <2>2. Breakpoints[n - 1] < Breakpoints[s - 1]
    BY <2>1, MediaAssumption
  <2>3. Breakpoints[n - 1] \in Nat /\ Breakpoints[s - 1] \in Nat
    BY <2>1, MediaAssumption DEF Sizes
  <2>4. Width[i] > Breakpoints[s - 1]
    BY <1>1, <1>5 DEF Fitting, Thumb
  <2>5. Width[i] > Breakpoints[n - 1]
    BY <1>3, <2>2, <2>3, <2>4
  <2> QED BY <1>2, <1>3, <2>5 DEF Fitting
<1>6. CASE n = s
  BY <1>6
<1> QED BY <1>1, <1>4, <1>5, <1>6

LEMMA KeyWhole == \A k \in Key : k = KeyOf(k.item, k.month, k.size)
BY DEF Key, KeyOf

\* In the month of the upload, what somebody relies on has that month's keys.
LEMMA ReliedKeys ==
  ASSUME IInv, NEW i \in Items, rows[i] # NoRow, filed[i] = month, NEW k \in Relied(i)
  PROVE  k \in Key /\ k.item = i /\ k.size \in Fitting(i) /\ k.month = month
<1>1. TypeOK /\ Places BY DEF IInv
<1>2. month \in Nat /\ \A m \in filed[i]..month : m = month
  BY <1>1 DEF TypeOK, Months
<1>3. ImageFit(i) /\ filed[i] # 0
  BY DEF IInv, KeysFit, Filed
<1>4. CASE k \in ThumbOf(i)
  <2>1. rows[i].thumb # 0 /\ k = KeyOf(i, rows[i].thumb, Thumb)
    BY <1>4 DEF ThumbOf
  <2>2. Thumb \in Fitting(i) /\ rows[i].thumb = month
    BY <1>2, <1>3, <2>1 DEF ImageFit, IInv, MonthsInOrder
  <2>3. month \in Months
    BY <1>1 DEF TypeOK
  <2> QED BY <2>1, <2>2, <2>3, KeyParts, KeyType, SizesType
<1>5. CASE k \in variants[i]
  <2>1. k \in Key
    BY <1>1, <1>5 DEF TypeOK
  <2> QED BY <1>2, <1>3, <1>5, <2>1 DEF ImageFit, IInv, MonthsInOrder
<1>6. ASSUME NEW a \in Admins, At(a, i), Generating(req[a]), k \in req[a].keys
      PROVE  k \in Key /\ k.item = i /\ k.size \in Fitting(i) /\ k.month = month
  <2>1. k \in Key
    BY <1>1, <1>6, RequestFields DEF TypeOK
  <2>2. k.item = i /\ k.size \in Fitting(i)
    BY <1>6 DEF IInv, KeysFit, RequestFit, Generating, At
  <2>3. k.month \in filed[i]..month
    BY <1>6 DEF IInv, MonthsInOrder, Dated
  <2> QED BY <1>2, <2>1, <2>2, <2>3
<1> QED BY <1>4, <1>5, <1>6 DEF Relied

\* What comes to be relied on was relied on before, or has just been made.
LEMMA ReliedAnew ==
  ASSUME IInv, Step, faults' = 0, NEW i \in Items, rows[i] # NoRow, rows'[i] # NoRow,
         filed[i] # 0, NEW k \in Relied(i)'
  PROVE  k \in Relied(i) \/ k \in objects'
<1>1. Places BY DEF IInv
<1>2. CASE k \in ThumbOf(i)'
  <2>1. rows'[i].thumb # 0 /\ k = KeyOf(i, rows'[i].thumb, Thumb)
    BY <1>2 DEF ThumbOf
  <2>2. CASE rows'[i] = rows[i]
    BY <2>1, <2>2 DEF ThumbOf, Relied
  <2>3. CASE rows'[i] # rows[i]
    <3>1. PICK a \in Admins :
            /\ InsertsRow(a) \/ SetsThumb(a)
            /\ req[a].item = i
            /\ rows'[i].thumb = req[a].month /\ Thumbed(req[a])
      BY <2>1, <2>3, ThumbsChange
    <3>2. At(a, i) /\ Generating(req[a])
      BY <1>1, <3>1 DEF InsertsRow, SetsThumb, Generated, Generating, At, Places
    <3>3. k \in req[a].keys
      BY <2>1, <3>1 DEF Thumbed
    <3> QED BY <3>2, <3>3 DEF Relied
  <2> QED BY <2>2, <2>3
<1>3. CASE k \in variants'[i]
  <2>1. CASE k \notin variants[i]
    <3>1. PICK a \in Admins : SavesVariants(a) /\ req[a].item = i /\ k \in req[a].keys
      BY <1>3, <2>1, VariantsAppear
    <3>2. At(a, i) /\ Generating(req[a])
      BY <1>1, <3>1 DEF SavesVariants, Generating, At, Places
    <3> QED BY <3>1, <3>2 DEF Relied
  <2> QED BY <2>1 DEF Relied
<1>4. ASSUME NEW a \in Admins, At(a, i)', Generating(req'[a]), k \in req'[a].keys
      PROVE  k \in Relied(i) \/ k \in objects'
  <2>1. CASE At(a, i) /\ Generating(req[a]) /\ req'[a].keys \subseteq req[a].keys
    BY <1>4, <2>1 DEF Relied
  <2>2. CASE Acts(a)
    <3>1. CASE \E j \in Items : StartsUpload(a, j) \/ StartsDelete(a, j) \/ StartsRegenerate(a, j)
      BY <1>4, <3>1 DEF StartsUpload, StartsDelete, StartsRegenerate, Generating
    <3>2. CASE Makes(a)
      <4>1. /\ req'[a].keys = req[a].keys \cup {KeyOf(req[a].item, req[a].month, req[a].next)}
            /\ KeyOf(req[a].item, req[a].month, req[a].next) \in objects'
            /\ At(a, i) /\ Generating(req[a])
        BY <1>4, <3>2 DEF Makes, Moves, SameBut, At, Generating
      <4> QED BY <1>4, <4>1 DEF Relied
    <3>3. CASE InsertsRow(a) \/ SetsThumb(a) \/ IsLeft(a)
      BY <1>4, <2>1, <3>3 DEF InsertsRow, SetsThumb, IsLeft, Moves, SameBut, Generated, Generating, At
    <3>4. CASE SavesVariants(a) \/ Ends(a)
      BY <1>4, <3>4 DEF SavesVariants, Ends, Done, IsDone, Sleeps, SameBut, Generating
    <3>5. CASE DeletesRow(a) \/ Strips(a) \/ BulkPasses(a) \/ BulkTakes(a) \/ StartsBulk(a)
               \/ \E l \in Key : Purges(a, l)
      BY <1>4, <3>5 DEF DeletesRow, Strips, BulkPasses, BulkTakes, StartsBulk, Purges,
         Moves, SameBut, Generating
    <3>6. CASE Downloads(a) \/ Regenerates(a)
      <4>1. req'[a].keys = {}
        BY <1>4, <3>6 DEF Downloads, Regenerates, Moves, SameBut, Generating,
           IInv, KeysFit, RequestFit
      <4> QED BY <1>4, <4>1
    <3> QED BY <2>2, <3>1, <3>2, <3>3, <3>4, <3>5, <3>6 DEF Acts
  <2>3. CASE req'[a] = req[a]
    BY <1>4, <2>1, <2>3 DEF At
  <2>4. ~Restarts
    BY <1>4 DEF Restarts, Sleeps, At
  <2> QED BY <2>2, <2>3, <2>4, Whose
<1> QED BY <1>2, <1>3, <1>4 DEF Relied

\* What a request owes it goes on to owe until it has made it.
LEMMA OwesOn ==
  ASSUME IInv, Step, faults' = 0, NEW i \in Items, rows[i] # NoRow, filed[i] = month,
         NEW k \in Relied(i), NEW a \in Admins, Owes(a, k)
  PROVE  Owes(a, k)' \/ k \in objects'
<1>1. Places /\ TypeOK /\ faults = 0
  BY FaultsAndMet DEF IInv
<1>2. k \in Key /\ k.item = i /\ k.size \in Fitting(i) /\ k.month = month
  BY ReliedKeys
<1>3. k.size \in Nat /\ k.size > 0
  BY <1>2, FittingPositive
<1>4. /\ At(a, i) /\ req[a].item = i /\ req[a].job = "regenerate"
      /\ req[a].pc # "purge" => req[a].pc = "generate" /\ req[a].next <= k.size
  BY <1>2 DEF Owes, At
<1>5. req[a].next \in Nat
  BY <1>1, RequestFields DEF TypeOK
<1>6. CASE req'[a] = req[a]
  BY <1>6 DEF Owes, At
<1>7. CASE Acts(a)
  <2>1. CASE \E j \in Items : StartsUpload(a, j) \/ StartsDelete(a, j) \/ StartsRegenerate(a, j)
    BY <1>4, <2>1 DEF StartsUpload, StartsDelete, StartsRegenerate, Starts
  <2>2. CASE Makes(a)
    <3>1. /\ req[a].pc = "generate" /\ req[a].next <= k.size /\ req'[a].next = req[a].next + 1
          /\ SameBut(req'[a], req[a], {"keys", "next"})
          /\ KeyOf(i, req[a].month, req[a].next) \in objects'
      BY <1>4, <2>2 DEF Makes, Moves
    <3>2. CASE req[a].next = k.size
      <4>1. req[a].month \in filed[i]..month
        BY <1>4, <3>1 DEF IInv, MonthsInOrder, Dated, Generating
      <4>3. req[a].month = month
        BY <4>1
      <4>2. k = KeyOf(i, month, k.size)
        BY <1>2, KeyWhole
      <4> QED BY <3>1, <3>2, <4>3, <4>2
    <3>3. CASE req[a].next # k.size
      <4>1. req'[a].next <= k.size
        BY <1>3, <1>5, <3>1, <3>3
      <4> QED BY <1>2, <1>4, <3>1, <4>1 DEF SameBut, Owes, At
    <3> QED BY <3>2, <3>3
  <2>3. CASE SetsThumb(a)
    <3>1. req[a].pc = "generate" /\ req[a].next <= k.size /\ req[a].next \notin Fitting(i)
      BY <1>4, <2>3 DEF SetsThumb, Generated
    <3>2. req[a].next > 0
      BY <1>1, <3>1 DEF IInv, Complete, Made, Generating
    <3> QED BY <1>2, <1>5, <3>1, <3>2, FittingClosed
  <2>4. CASE Regenerates(a)
    <3>1. 1 <= k.size
      BY <1>3
    <3> QED BY <1>2, <1>4, <2>4, <3>1 DEF Regenerates, Moves, SameBut, Owes, At
  <2>5. CASE \E l \in Key : Purges(a, l)
    BY <1>2, <1>4, <2>5 DEF Purges, Moves, SameBut, Owes, At
  <2>6. ~(\/ InsertsRow(a) \/ SavesVariants(a) \/ DeletesRow(a) \/ Downloads(a) \/ Strips(a)
          \/ StartsBulk(a) \/ BulkPasses(a) \/ BulkTakes(a) \/ IsLeft(a))
    BY <1>4 DEF InsertsRow, SavesVariants, DeletesRow, Downloads, Strips, StartsBulk, Starts,
       BulkPasses, BulkTakes, IsLeft
  <2>7. ~Ends(a)
    BY <1>4 DEF Ends
  <2> QED BY <1>7, <2>1, <2>2, <2>3, <2>4, <2>5, <2>6, <2>7 DEF Acts
<1>8. ~Restarts
  BY DEF Restarts
<1> QED BY <1>6, <1>7, <1>8, Whose

LEMMA OwedStep ==
  ASSUME IInv, TypeOK', Step
  PROVE  Owed'
<1> SUFFICES ASSUME NEW i \in Items, faults' = 0, month' = filed'[i], rows'[i] # NoRow,
                    NEW k \in Relied(i)'
             PROVE  k \in objects' \/ \E a \in Admins : Owes(a, k)'
  BY DEF Owed
<1>1. Places /\ TypeOK /\ Filed /\ faults = 0
  BY FaultsAndMet DEF IInv
<1>2. filed[i] # 0
  BY <1>1, RowsAppear DEF InsertsRow, Generated, Filed, At
<1>3. filed'[i] = filed[i]
  BY <1>2, FiledStays
<1>4. filed[i] = month /\ month' = month
  <2>1. filed[i] \in Nat /\ filed[i] <= month
    BY <1>1 DEF TypeOK, Months, IInv, MonthsInOrder
  <2> QED BY <1>3, <2>1, MonthsGoOn
<1>5. CASE rows[i] = NoRow
  <2>1. PICK a \in Admins : InsertsRow(a) /\ req[a].item = i
    BY <1>5, RowsAppear
  <2>2. /\ req[a].keys \subseteq objects
        /\ \A b \in Admins \ {a} : At(b, i) => req[b].job = "delete" /\ req[b].pc = "strip"
    BY <2>1 DEF InsertsRow, Generated, IInv, Uploads
  <2>3. objects' = objects /\ req'[a].keys = req[a].keys
    BY <2>1 DEF InsertsRow, Moves, SameBut
  <2>4. variants'[i] = {}
    BY <1>1, <1>5, <2>1 DEF InsertsRow, Filed
  <2>5. ThumbOf(i)' \subseteq req[a].keys
    BY <1>1, <2>1 DEF InsertsRow, ThumbOf, Thumbed, TypeOK
  <2>6. ASSUME NEW b \in Admins, At(b, i)', Generating(req'[b]) PROVE b = a
    BY <2>1, <2>2, <2>6 DEF InsertsRow, Moves, Others, At, Generating
  <2> QED BY <2>2, <2>3, <2>4, <2>5, <2>6 DEF Relied
<1>6. CASE rows[i] # NoRow
  <2>1. CASE k \in Relied(i)
    <3>1. k \in objects \/ \E a \in Admins : Owes(a, k)
      BY <1>1, <1>4, <1>6, <2>1 DEF IInv, Owed
    <3>2. CASE k \in objects /\ k \notin objects'
      <4>1. PICK a \in Admins : Purges(a, k)
        BY <3>2, ObjectsGo
      <4>2. k.item = i
        BY <1>4, <1>6, <2>1, ReliedKeys
      <4>3. req[a].item = i /\ req[a].pc = "purge"
        BY <4>1, <4>2 DEF Purges, IInv, KeysFit, RequestFit
      <4>4. req[a].job = "regenerate"
        BY <1>1, <1>6, <4>3 DEF Places, IInv, Deleted
      <4> QED BY <4>1, <4>2, <4>3, <4>4 DEF Purges, Moves, SameBut, Owes, At
    <3>3. CASE \E a \in Admins : Owes(a, k)
      BY <1>4, <1>6, <2>1, <3>3, OwesOn
    <3> QED BY <3>1, <3>2, <3>3
  <2>2. CASE k \notin Relied(i)
    BY <1>2, <1>6, <2>2, ReliedAnew
  <2> QED BY <2>1, <2>2
<1> QED BY <1>5, <1>6

-----------------------------------------------------------------------------
(* An image nobody has met on, while no call fails.                        *)

\* What an image is apart from the requests on it.
SameImage(i) ==
  /\ rows'[i] = rows[i] /\ variants'[i] = variants[i] /\ Original(i)' = Original(i)
  /\ StoredOf(i)' = StoredOf(i)

LEMMA SameWhole ==
  ASSUME NEW i \in Items, SameImage(i)
  PROVE  /\ ThumbOf(i)' = ThumbOf(i)
         /\ Whole(i)' <=> Whole(i)
<1>1. ThumbOf(i)' = ThumbOf(i)
  BY DEF SameImage, ThumbOf
<1> QED BY <1>1 DEF SameImage, Whole

\* A step changes only the image that the request is at.
LEMMA ImageKept ==
  ASSUME IInv, Step, NEW i \in Items, faults' = 0,
         \A a \in Admins : ~StartsUpload(a, i),
         \A a \in Admins : Acts(a) => ~At(a, i)
  PROVE  SameImage(i)
<1>1. TypeOK /\ Places /\ KeysFit BY DEF IInv
<1>2. ASSUME NEW a \in Admins, Acts(a) PROVE SameImage(i)
  <2>1. \A b \in Admins : req[b].item \in Items
    BY <1>1, RequestFields DEF TypeOK
  <2>2. req[a].job = "none" \/ req[a].pc = "find" \/ req[a].item # i
    BY <1>2 DEF At
  <2>3. CASE \E j \in Items : StartsUpload(a, j)
    <3>1. PICK j \in Items : StartsUpload(a, j)
      BY <2>3
    <3>2. j # i
      BY <3>1
    <3>3. StoredOf(i)' = StoredOf(i)
      BY <3>1, <3>2, KeyParts DEF StartsUpload, StoredOf
    <3> QED BY <1>1, <3>1, <3>2, <3>3 DEF StartsUpload, SameImage, Original, TypeOK
  <2>4. CASE \/ \E j \in Items : StartsDelete(a, j) \/ StartsRegenerate(a, j)
             \/ Downloads(a) \/ Ends(a) \/ Regenerates(a) \/ StartsBulk(a)
             \/ BulkPasses(a) \/ BulkTakes(a) \/ IsLeft(a)
    BY <2>4 DEF StartsDelete, StartsRegenerate, Downloads, Ends, Regenerates, StartsBulk,
       BulkPasses, BulkTakes, IsLeft, SameImage, Original, StoredOf
  <2>5. CASE Makes(a)
    <3>1. req[a].item # i
      BY <1>1, <2>2, <2>5 DEF Makes, Places
    <3>2. StoredOf(i)' = StoredOf(i)
      BY <2>5, <3>1, KeyParts DEF Makes, StoredOf
    <3> QED BY <2>5, <3>2 DEF Makes, SameImage, Original
  <2>6. CASE InsertsRow(a) \/ SetsThumb(a) \/ SavesVariants(a) \/ DeletesRow(a) \/ Strips(a)
    <3>1. req[a].item # i
      BY <1>1, <2>2, <2>6
      DEF InsertsRow, SetsThumb, SavesVariants, DeletesRow, Strips, Generated, Places
    <3> QED
      BY <1>1, <2>1, <2>6, <3>1
      DEF InsertsRow, SetsThumb, SavesVariants, DeletesRow, Strips, SameImage, Original, StoredOf,
          TypeOK
  <2>7. CASE \E k \in Key : Purges(a, k)
    <3>1. PICK k \in Key : Purges(a, k)
      BY <2>7
    <3>2. req[a].item # i
      BY <1>1, <2>2, <3>1 DEF Purges, Places
    <3>3. k.item # i
      BY <1>1, <3>1, <3>2 DEF Purges, KeysFit, RequestFit
    <3>4. StoredOf(i)' = StoredOf(i)
      BY <3>1, <3>3 DEF Purges, StoredOf
    <3> QED BY <3>1, <3>4 DEF Purges, SameImage, Original
  <2> QED BY <1>2, <2>3, <2>4, <2>5, <2>6, <2>7 DEF Acts
<1>3. CASE Restarts \/ MonthPasses \/ Stays \/ \E j \in Items : LosesUpload(j)
  BY <1>3 DEF Restarts, MonthPasses, Stays, LosesUpload, SameImage, Original, StoredOf
<1> QED BY <1>2, <1>3 DEF Step

\* The one at work on an image is alone there.
LEMMA AloneThere ==
  ASSUME IInv, NEW i \in Items, i \notin met, NEW a \in WorkingOn(i)
  PROVE  \A b \in Admins \ {a} : ~At(b, i) /\ ~Listed(b, i)
<1>1. WorkingOn(i) = {b \in Admins : At(b, i) \/ Listed(b, i)}
  BY WorkingIs DEF IInv
<1> QED BY <1>1 DEF IInv, Meetings

LEMMA AloneBefore ==
  ASSUME IInv, faults = 0, NEW i \in Items, i \notin met, NEW a \in Admins, At(a, i)
  PROVE  /\ Followed(req[a], i)
         /\ req[a].pc \in {"download", "strip"} => Whole(i)
<1>1. Lone(i)
  BY DEF IInv, LoneImages
<1>2. a \in WorkingOn(i)
  BY DEF WorkingOn, At
<1> QED BY <1>1, <1>2, AloneThere DEF Lone, Untouched

\* The image after a step of the one request at work on it.
LEMMA WorkFollowed ==
  ASSUME IInv, TypeOK', Step, faults' = 0, NEW i \in Items, i \notin met,
         NEW a \in Admins, At(a, i), Acts(a)
  PROVE  /\ At(a, i)' => Followed(req[a], i)'
         /\ (At(a, i)' => req'[a].pc \in {"download", "strip"}) => Whole(i)'
<1> DEFINE r == req[a]  q == req'[a]
<1>1. TypeOK /\ Places /\ KeysFit /\ Filed /\ faults = 0
  BY FaultsAndMet DEF IInv
<1>2. r.item = i /\ r.job # "none" /\ r.pc # "find"
  BY DEF At
<1>3. Followed(r, i) /\ (r.pc \in {"download", "strip"} => Whole(i))
  BY <1>1, AloneBefore
<1>4. filed[i] # 0
  BY <1>1 DEF Filed
<1>5. filed'[i] = filed[i] /\ Original(i)' = Original(i)
  BY <1>4, FiledStays
<1>6. CASE Makes(a)
  <2> DEFINE k == KeyOf(i, r.month, r.next)
  <2>1. /\ r.pc = "generate" /\ q.pc = "generate" /\ q.job = r.job /\ q.bare = r.bare
        /\ r.job # "delete"
        /\ objects' = objects \cup {k} /\ q.keys = r.keys \cup {k}
        /\ rows' = rows /\ variants' = variants
        /\ At(a, i)'
    BY <1>1, <1>2, <1>6 DEF Makes, Moves, SameBut, At, Places, Generating
  <2>2. StoredOf(i)' = StoredOf(i) \cup {k}
    BY <2>1, KeyParts DEF StoredOf
  <2>3. variants[i] = {} /\ StoredOf(i) = {Original(i)} \cup r.keys
    BY <1>3, <2>1 DEF Followed
  <2> HIDE DEF k
  <2> QED BY <1>3, <1>5, <2>1, <2>2, <2>3 DEF Followed
<1>7. CASE InsertsRow(a)
  <2>1. /\ r.pc = "generate" /\ r.job = "upload" /\ q.pc = "batch" /\ q.job = r.job
        /\ q.keys = r.keys /\ objects' = objects /\ variants' = variants
        /\ At(a, i)'
    BY <1>2, <1>7 DEF InsertsRow, Generated, Moves, SameBut, At
  <2>2. PICK row \in MediaRow :
          /\ rows' = [rows EXCEPT ![i] = row]
          /\ row.thumb = IF Thumbed(r) THEN r.month ELSE 0
    BY <1>2, <1>7 DEF InsertsRow
  <2>3. rows'[i] = row /\ row # NoRow
    BY <1>1, <2>2, MediaAssumption DEF TypeOK
  <2>4. ThumbOf(i)' \subseteq r.keys
    BY <1>2, <2>2, <2>3 DEF ThumbOf, Thumbed
  <2>5. StoredOf(i)' = StoredOf(i)
    BY <2>1 DEF StoredOf
  <2> QED BY <1>3, <1>5, <2>1, <2>3, <2>4, <2>5 DEF Followed
<1>8. CASE SetsThumb(a)
  <2>1. /\ r.pc = "generate" /\ r.job \in {"regenerate", "bulk"} /\ q.pc = "batch"
        /\ q.job = r.job /\ q.keys = r.keys /\ q.bare = r.bare
        /\ objects' = objects /\ variants' = variants
        /\ At(a, i)'
    BY <1>1, <1>2, <1>8 DEF SetsThumb, Generated, Moves, SameBut, At, Places, Generating
  <2>2. rows[i] # NoRow /\ (r.job = "bulk" => r.bare)
    BY <1>3, <2>1 DEF Followed
  <2>3. StoredOf(i)' = StoredOf(i)
    BY <2>1 DEF StoredOf
  <2>4. rows'[i] # NoRow /\ ThumbOf(i)' \subseteq r.keys
    <3>1. CASE rows' = rows
      <4>1. CASE Thumbed(r)
        <5>1. PICK row \in MediaRow :
                rows' = [rows EXCEPT ![i] = row] /\ row.thumb = r.month
          BY <1>1, <1>2, <1>8, <2>2, <4>1 DEF SetsThumb
        <5> QED BY <1>1, <1>2, <2>2, <3>1, <4>1, <5>1 DEF ThumbOf, Thumbed, TypeOK
      <4>2. CASE ~Thumbed(r)
        <5>1. Made(r) /\ r.next \in Nat /\ r.next \notin Fitting(i)
          BY <1>1, <1>2, <1>8, <2>1, RequestFields
          DEF IInv, Complete, Generating, SetsThumb, Generated, TypeOK
        <5>2. Thumb \notin Fitting(i)
          <6> SUFFICES ASSUME Thumb \in Fitting(i) PROVE FALSE
            OBVIOUS
          <6>1. r.next > 1
            BY <5>1 DEF Made, Thumb
          <6> QED BY <1>2, <4>2, <5>1, <6>1 DEF Made, Thumbed, Thumb
        <5>3. rows[i].thumb = 0
          BY <1>1, <2>2, <5>2 DEF KeysFit, ImageFit
        <5> QED BY <2>2, <3>1, <5>3 DEF ThumbOf
      <4> QED BY <4>1, <4>2
    <3>2. CASE rows' # rows
      <4>1. PICK row \in MediaRow :
              Thumbed(r) /\ rows' = [rows EXCEPT ![i] = row] /\ row.thumb = r.month
        BY <1>2, <1>8, <3>2 DEF SetsThumb
      <4>2. rows'[i] = row /\ row # NoRow
        BY <1>1, <4>1, MediaAssumption DEF TypeOK
      <4> QED BY <1>2, <4>1, <4>2 DEF ThumbOf, Thumbed
    <3> QED BY <3>1, <3>2
  <2> QED BY <1>3, <1>5, <2>1, <2>2, <2>3, <2>4 DEF Followed
<1>9. CASE SavesVariants(a)
  <2>1. r.pc = "batch" /\ objects' = objects /\ rows' = rows /\ ~At(a, i)'
    BY <1>2, <1>9 DEF SavesVariants, Done, IsDone, Sleeps, At
  <2>2. /\ rows[i] # NoRow /\ variants[i] = {} /\ ThumbOf(i) \subseteq r.keys
        /\ StoredOf(i) = {Original(i)} \cup r.keys
    BY <1>1, <1>3, <2>1 DEF Followed, Places, Generating
  <2>3. variants'[i] = r.keys
    BY <1>1, <1>2, <1>9, <2>2 DEF SavesVariants, TypeOK
  <2>4. StoredOf(i)' = StoredOf(i) /\ ThumbOf(i)' = ThumbOf(i)
    BY <2>1 DEF StoredOf, ThumbOf
  <2> QED BY <1>5, <2>1, <2>2, <2>3, <2>4 DEF Whole
<1>10. CASE DeletesRow(a)
  <2>1. /\ r.pc = "strip" /\ r.job = "delete" /\ q.job = "delete" /\ q.pc = "purge"
        /\ rows[i] # NoRow
        /\ q.keys = r.keys \cup {Original(i)} \cup ThumbOf(i)
        /\ objects' = objects
        /\ At(a, i)'
    BY <1>2, <1>10 DEF DeletesRow, Moves, SameBut, At
  <2>2. q.keys = StoredOf(i)
    BY <1>3, <2>1 DEF Followed, Whole
  <2>3. StoredOf(i)' = StoredOf(i)
    BY <2>1 DEF StoredOf
  <2> QED BY <2>1, <2>2, <2>3 DEF Followed
<1>11. CASE Downloads(a)
  <2>1. /\ r.pc = "download" /\ r.job \in {"regenerate", "bulk"}
        /\ q.job = r.job /\ q.keys = r.keys /\ q.bare = r.bare /\ q.pc \in {"strip", "generate"}
        /\ q.pc = "generate" <=> r.job = "bulk"
        /\ UNCHANGED <<objects, rows, variants>>
        /\ At(a, i)'
    BY <1>1, <1>2, <1>11 DEF Downloads, Moves, SameBut, At, Places
  <2>2. SameImage(i)
    BY <1>5, <2>1 DEF SameImage, StoredOf
  <2>3. Whole(i)' /\ Whole(i)
    BY <1>3, <2>1, <2>2, SameWhole
  <2>4. r.job = "bulk" => r.keys = {}
    BY <1>1, <2>1 DEF KeysFit, RequestFit
  <2> QED BY <1>3, <2>1, <2>2, <2>3, <2>4 DEF Followed, Whole, SameImage
<1>12. CASE Ends(a)
  <2>1. ~At(a, i)' /\ UNCHANGED <<objects, rows, variants>>
    BY <1>2, <1>12 DEF Ends, Done, IsDone, Sleeps, At
  <2>2. SameImage(i)
    BY <1>5, <2>1 DEF SameImage, StoredOf
  <2>3. Whole(i)
    <3>1. CASE r.pc \in {"download", "strip"}
      BY <1>3, <3>1
    <3>2. CASE r.pc = "purge" /\ r.keys = {} /\ r.job = "delete"
      BY <1>2, <1>3, <3>2 DEF Followed, Whole, IInv, Deleted
    <3> QED BY <1>2, <1>12, <3>1, <3>2 DEF Ends
  <2> QED BY <2>1, <2>2, <2>3, SameWhole
<1>13. CASE Strips(a)
  <2>1. /\ r.pc = "strip" /\ r.job = "regenerate" /\ q.job = r.job /\ q.pc = "purge"
        /\ variants' = [variants EXCEPT ![i] = {}] /\ q.keys = variants[i]
        /\ UNCHANGED <<objects, rows>>
        /\ At(a, i)'
    BY <1>2, <1>13 DEF Strips, Moves, SameBut, At
  <2>2. rows[i] # NoRow /\ variants'[i] = {} /\ StoredOf(i) = {Original(i)} \cup variants[i]
    BY <1>1, <1>3, <2>1 DEF Followed, Whole, TypeOK
  <2>3. StoredOf(i)' = StoredOf(i)
    BY <2>1 DEF StoredOf
  <2> QED BY <1>5, <2>1, <2>2, <2>3 DEF Followed
<1>14. CASE \E k \in Key : Purges(a, k)
  <2>1. PICK k \in Key : Purges(a, k)
    BY <1>14
  <2>2. /\ r.pc = "purge" /\ k \in r.keys /\ q.job = r.job /\ q.pc = "purge"
        /\ q.keys = r.keys \ {k} /\ objects' = objects \ {k}
        /\ UNCHANGED <<rows, variants>>
        /\ At(a, i)'
    BY <1>2, <2>1 DEF Purges, Moves, SameBut, At
  <2>3. StoredOf(i)' = StoredOf(i) \ {k}
    BY <2>2 DEF StoredOf
  <2>4. CASE r.job = "delete"
    BY <1>3, <2>2, <2>3, <2>4 DEF Followed
  <2>5. CASE r.job # "delete"
    <3>1. r.job = "regenerate"
      BY <1>1, <2>2, <2>5 DEF Places
    <3>2. k.size \in Fitting(k.item)
      BY <1>1, <2>2, <2>5 DEF KeysFit, RequestFit
    <3>3. k.size # 0
      BY <3>2, FittingPositive
    <3>4. k # Original(i)
      BY <3>3, KeyParts DEF Original
    <3>5. rows[i] # NoRow /\ variants[i] = {} /\ StoredOf(i) = {Original(i)} \cup r.keys
      BY <1>3, <2>2, <3>1 DEF Followed
    <3>6. StoredOf(i)' = {Original(i)} \cup q.keys
      BY <2>2, <2>3, <3>4, <3>5
    <3> QED BY <1>5, <2>2, <3>1, <3>5, <3>6 DEF Followed
  <2> QED BY <2>4, <2>5
<1>15. CASE Regenerates(a)
  <2>1. /\ r.pc = "purge" /\ r.job = "regenerate" /\ q.job = r.job /\ q.pc = "generate"
        /\ q.keys = r.keys
        /\ UNCHANGED <<objects, rows, variants>>
        /\ At(a, i)'
    BY <1>2, <1>15 DEF Regenerates, Moves, SameBut, At
  <2>2. SameImage(i)
    BY <1>5, <2>1 DEF SameImage, StoredOf
  <2> QED BY <1>3, <2>1, <2>2 DEF Followed, SameImage
<1>16. ~IsLeft(a)
  BY DEF IsLeft
<1>17. ~(\/ \E j \in Items : StartsUpload(a, j) \/ StartsDelete(a, j) \/ StartsRegenerate(a, j)
         \/ StartsBulk(a) \/ BulkPasses(a) \/ BulkTakes(a))
  BY <1>2 DEF StartsUpload, StartsDelete, StartsRegenerate, StartsBulk, Starts, BulkPasses, BulkTakes
<1> QED BY <1>6, <1>7, <1>8, <1>9, <1>10, <1>11, <1>12, <1>13, <1>14, <1>15, <1>16, <1>17 DEF Acts

LEMMA LoneImagesStep ==
  ASSUME IInv, TypeOK', Places', Step
  PROVE  LoneImages'
<1> SUFFICES ASSUME NEW i \in Items, faults' = 0, i \notin met' PROVE Lone(i)'
  BY DEF LoneImages
<1>1. TypeOK /\ Places /\ Filed /\ Lone(i) /\ faults = 0 /\ i \notin met
  BY FaultsAndMet DEF IInv, LoneImages
<1>2. ~Restarts
  BY DEF Restarts
\* The newcomers find nobody.
<1>3. ASSUME NEW S, NEW b \in Admins, i \in S, Starts(b, S)
      PROVE  WorkingOn(i) = {} /\ Whole(i)
  <2>1. WorkingOn(i) = {}
    BY <1>3 DEF Starts, Meets
  <2>2. \A c \in Admins : ~At(c, i)
    BY <2>1 DEF WorkingOn, At
  <2> QED BY <1>1, <2>1, <2>2 DEF Lone, Untouched
<1>4. CASE \E a \in Admins : Acts(a) /\ At(a, i)
  <2>1. PICK a \in Admins : Acts(a) /\ At(a, i)
    BY <1>4
  <2>2. a \in WorkingOn(i)
    BY <2>1 DEF WorkingOn, At
  <2>3. \A b \in Admins \ {a} : ~At(b, i) /\ ~Listed(b, i)
    BY <1>1, <2>2, AloneThere
  <2>4. ~Listed(a, i)
    BY <2>1 DEF IInv, QueuesApart
  <2>5. ASSUME NEW b \in Admins, Listed(b, i)' PROVE FALSE
    <3>1. StartsBulk(b) /\ ~Listed(b, i)
      BY <2>3, <2>4, <2>5, Arrivals
    <3>2. i \in {j \in Items : \E n \in 1..Len(req'[b].queue) : req'[b].queue[n] = j}
      BY <2>5 DEF Listed
    <3> QED BY <1>3, <2>2, <3>1, <3>2 DEF StartsBulk
  <2>6. ASSUME NEW b \in Admins \ {a}, At(b, i)' PROVE FALSE
    <3>1. StartsUpload(b, i) \/ StartsDelete(b, i) \/ StartsRegenerate(b, i)
      BY <2>3, <2>6, Arrivals
    <3> QED BY <1>3, <2>2, <3>1 DEF StartsUpload, StartsDelete, StartsRegenerate
  <2>7. /\ At(a, i)' => Followed(req[a], i)'
        /\ (At(a, i)' => req'[a].pc \in {"download", "strip"}) => Whole(i)'
    BY <1>1, <2>1, WorkFollowed
  <2> QED BY <2>5, <2>6, <2>7 DEF Lone, Untouched
<1>5. CASE \E a \in Admins : StartsUpload(a, i)
  <2>1. PICK a \in Admins : StartsUpload(a, i)
    BY <1>5
  <2>2. WorkingOn(i) = {} /\ Whole(i)
    BY <1>3, <2>1 DEF StartsUpload
  <2>3. filed[i] = 0 /\ rows[i] = NoRow /\ variants[i] = {}
    BY <1>1, <2>1 DEF StartsUpload, Filed
  <2>4. filed'[i] = month /\ StoredOf(i)' = {Original(i)'}
    <3>1. filed'[i] = month
      BY <1>1, <2>1 DEF StartsUpload, TypeOK
    <3>2. StoredOf(i) = {}
      BY <2>2, <2>3 DEF Whole
    <3>3. objects' = objects \cup {Original(i)'} /\ Original(i)'.item = i
      BY <2>1, <3>1, KeyParts DEF StartsUpload, Original
    <3> QED BY <3>1, <3>2, <3>3 DEF StoredOf
  <2>5. ASSUME NEW b \in Admins, b # a \/ Listed(b, i)' PROVE ~At(b, i)' /\ ~Listed(b, i)'
    <3>1. ~At(b, i) /\ ~Listed(b, i)
      BY <1>1, <2>2, WorkingIs
    <3>2. b # a => req'[b] = req[b]
      BY <2>1 DEF StartsUpload, Starts, Others
    <3>3. ~Listed(a, i)'
      BY <2>1 DEF StartsUpload, Listed
    <3> QED BY <2>5, <3>1, <3>2, <3>3 DEF At, Listed
  <2>6. Followed(req[a], i)' /\ At(a, i)' /\ req'[a].pc = "generate"
    BY <2>1, <2>3, <2>4 DEF StartsUpload, Followed, At
  <2> QED BY <2>5, <2>6 DEF Lone, Untouched
<1>6. CASE /\ \A a \in Admins : ~StartsUpload(a, i)
           /\ \A a \in Admins : Acts(a) => ~At(a, i)
  <2>1. SameImage(i)
    BY <1>6, ImageKept
  <2>2. (Whole(i)' <=> Whole(i)) /\ rows'[i] = rows[i] /\ variants'[i] = variants[i]
    BY <2>1, SameWhole DEF SameImage
  <2>3. ASSUME NEW b \in Admins, At(b, i)
        PROVE  At(b, i)' /\ req'[b] = req[b]
    <3>1. req'[b] = req[b]
      BY <1>2, <1>6, <2>3, Whose
    <3> QED BY <2>3, <3>1 DEF At
  <2>4. ASSUME NEW b \in Admins, Listed(b, i)' PROVE rows'[i] # NoRow /\ variants'[i] = {}
    BY <1>1, <2>2, <2>4, Arrivals, ListedAnew DEF Lone
  <2>5. Untouched(i)' => Whole(i)'
    <3>1. Untouched(i)' => Untouched(i)
      BY <2>3 DEF Untouched
    <3> QED BY <1>1, <2>2, <3>1 DEF Lone
  <2>6. ASSUME NEW b \in Admins, At(b, i)' PROVE Followed(req[b], i)'
    <3>1. CASE At(b, i)
      BY <1>1, <2>1, <2>3, <3>1, SameWhole DEF Lone, Followed, SameImage
    <3>2. CASE StartsDelete(b, i)
      BY <2>2, <3>2 DEF StartsDelete, Followed
    <3>3. CASE StartsRegenerate(b, i)
      BY <2>2, <3>3 DEF StartsRegenerate, Followed
    <3>4. CASE Listed(b, i) /\ BulkTakes(b)
      <4>1. b \in WorkingOn(i) /\ ~At(b, i)
        BY <1>1, <3>4, WorkingIs DEF IInv, QueuesApart
      <4>2. Whole(i)
        BY <1>1, <4>1, AloneThere DEF Lone, Untouched
      <4>3. rows[i] # NoRow /\ variants[i] = {}
        BY <1>1, <3>4 DEF Lone
      <4>4. rows[i].thumb = 0
        BY <4>2, <4>3 DEF Whole, ThumbOf
      <4>5. req'[b].item = i
        BY <2>6 DEF At
      <4>6. PICK h \in Items : h = Head(req[b].queue) /\ h = i
        BY <3>4, <4>5 DEF BulkTakes
      <4>7. req'[b].pc = "download" /\ req'[b].job = "bulk" /\ req'[b].bare = (rows[h].thumb = 0)
        BY <3>4, <4>6 DEF BulkTakes, Moves, SameBut
      <4>8. req'[b].bare
        BY <4>4, <4>6, <4>7
      <4> QED BY <2>2, <4>3, <4>7, <4>8 DEF Followed
    <3> QED BY <1>6, <2>6, <3>1, <3>2, <3>3, <3>4, Arrivals
  <2> QED BY <2>4, <2>5, <2>6 DEF Lone
<1> QED BY <1>4, <1>5, <1>6

-----------------------------------------------------------------------------
(* The libraries a behaviour may begin with.                               *)

LEMMA AllVariantsParts ==
  ASSUME NEW i \in Items, NEW k \in AllVariants(i)
  PROVE  k \in Key /\ k.item = i /\ k.month = 1 /\ k.size \in Fitting(i) /\ k.size # 0
<1>1. PICK s \in Fitting(i) : k = KeyOf(i, 1, s)
  BY DEF AllVariants
<1>2. s \in Sizes /\ s # 0
  BY FittingType, FittingPositive
<1>3. 1 \in Months
  BY MediaAssumption DEF Months
<1> QED BY <1>1, <1>2, <1>3, KeyParts, KeyType

LEMMA InitTypeOK == Init => TypeOK
<1> SUFFICES ASSUME Init PROVE TypeOK
  OBVIOUS
<1>1. 1 \in Months /\ month = 1
  BY MediaAssumption DEF Init, Months
<1>2. PICK kind \in Libraries : Library(kind)
  BY DEF Init
<1>3. objects \subseteq Key
  <2>1. \A i \in Items : KeyOf(i, 1, 0) \in Key
    BY <1>1, KeyType
  <2>2. \A i \in Items : AllVariants(i) \subseteq Key
    BY AllVariantsParts
  <2> QED BY <1>2, <2>1, <2>2 DEF Library
<1>4. rows \in [Items -> MediaRow \cup {NoRow}] /\ made \in Nat
  <2>1. \A t \in {0, 1} : [thumb |-> t, born |-> 0] \in MediaRow
    BY <1>1 DEF MediaRow
  <2> QED BY <1>2, <2>1 DEF Library
<1>5. filed \in [Items -> Months \cup {0}] /\ variants \in [Items -> SUBSET Key]
  BY <1>1, <1>2, AllVariantsParts DEF Library
<1>6. req \in [Admins -> Request]
  BY AsleepFields DEF Init
<1>7. view \in [Visitors -> Page] /\ cached \in [Items -> CachedPage \cup {NoPage}]
  BY DEF Init, Away, Page
<1>8. begun \in 0..MaxRequests /\ faults \in 0..MaxFaults /\ met \subseteq Items
  BY MediaAssumption DEF Init
<1> QED BY <1>1, <1>3, <1>4, <1>5, <1>6, <1>7, <1>8 DEF TypeOK

\* Every image is as an upload left it.
LEMMA InitWhole ==
  ASSUME Init, NEW i \in Items
  PROVE  /\ Whole(i) /\ ImageFit(i)
         /\ filed[i] \in {0, 1}
         /\ rows[i] # NoRow => filed[i] = 1 /\ rows[i].thumb \in {0, 1}
         /\ variants[i] # {} => rows[i] # NoRow
         /\ \A k \in variants[i] : k.month = 1
<1>1. PICK kind \in Libraries : Library(kind)
  BY DEF Init
<1>2. kind[i] \in {"absent", "bare", "full"}
  BY MediaAssumption
<1>3. \A t \in {0, 1} : [thumb |-> t, born |-> 0] # NoRow
  <2>1. 1 \in Months
    BY MediaAssumption DEF Months
  <2>2. \A t \in {0, 1} : [thumb |-> t, born |-> 0] \in MediaRow
    BY <2>1 DEF MediaRow
  <2> QED BY <2>2, MediaAssumption
<1>4. StoredOf(i) = (IF kind[i] = "absent" THEN {} ELSE {KeyOf(i, 1, 0)})
                    \cup (IF kind[i] = "full" THEN AllVariants(i) ELSE {})
  <2>1. \A j \in Items : KeyOf(j, 1, 0).item = j
    BY KeyParts
  <2>2. \A j \in Items : \A k \in AllVariants(j) : k.item = j
    BY AllVariantsParts
  <2> QED BY <1>1, <2>1, <2>2 DEF Library, StoredOf
<1>5. Fitting(i) # {} => Thumb \in Fitting(i)
  BY SizesType DEF Fitting
<1>6. CASE kind[i] = "absent"
  BY <1>1, <1>4, <1>6 DEF Library, Whole, ImageFit
<1>7. CASE kind[i] = "bare"
  <2>1. rows[i] = [thumb |-> 0, born |-> 0] /\ variants[i] = {} /\ filed[i] = 1
    BY <1>1, <1>7 DEF Library
  <2> QED BY <1>3, <1>4, <1>7, <2>1 DEF Whole, ImageFit, ThumbOf, Original
<1>8. CASE kind[i] = "full"
  <2>1. /\ rows[i] = [thumb |-> IF Fitting(i) # {} THEN 1 ELSE 0, born |-> 0]
        /\ variants[i] = AllVariants(i) /\ filed[i] = 1
    BY <1>1, <1>8 DEF Library
  <2>2. rows[i] # NoRow
    BY <1>3, <2>1
  <2>3. ThumbOf(i) \subseteq AllVariants(i)
    BY <1>5, <2>1 DEF ThumbOf, AllVariants
  <2>4. Whole(i)
    BY <1>4, <1>8, <2>1, <2>2, <2>3 DEF Whole, Original
  <2>5. ImageFit(i)
    BY <1>5, <2>1, AllVariantsParts DEF ImageFit
  <2> QED BY <2>1, <2>2, <2>4, <2>5, AllVariantsParts
<1> QED BY <1>2, <1>6, <1>7, <1>8

LEMMA InitIInv == Init => IInv
<1> SUFFICES ASSUME Init PROVE IInv
  OBVIOUS
<1>1. TypeOK
  BY InitTypeOK
<1>2. month = 1 /\ faults = 0
  BY DEF Init
<1>3. ASSUME NEW a \in Admins
      PROVE  /\ req[a].job = "none" /\ req[a].pc = "idle" /\ req[a].keys = {}
             /\ req[a].queue = <<>> /\ req[a].gone = FALSE
             /\ \A i \in Items : ~At(a, i) /\ ~Listed(a, i)
  <2>1. req[a] = Asleep
    BY DEF Init
  <2> QED BY <2>1, AsleepFields DEF At, Listed
<1>4. \A i \in Items : WorkingOn(i) = {}
  BY <1>3 DEF WorkingOn
<1>5. Places
  BY <1>3 DEF Places, Generating
<1>6. QueuesApart
  <2>1. Len(<<>>) = 0 /\ 1..0 = {}
    OBVIOUS
  <2>2. \A a \in Admins : 1..Len(req[a].queue) = {}
    BY <1>3, <2>1
  <2> QED BY <1>3, <2>2 DEF QueuesApart
<1>7. KeysFit
  BY <1>3, InitWhole DEF KeysFit, RequestFit
<1>8. Filed
  <2>1. ASSUME NEW i \in Items
        PROVE  /\ rows[i] # NoRow => filed[i] # 0
               /\ variants[i] # {} => rows[i] # NoRow
    BY InitWhole
  <2> QED BY <1>3, <2>1 DEF Filed
<1>9. Uploads /\ Deleted
  BY <1>3 DEF Uploads, Deleted
<1>10. OriginalsStored
  BY InitWhole DEF OriginalsStored, Whole, StoredOf
<1>11. MonthsInOrder
  <2>1. ASSUME NEW i \in Items
        PROVE  /\ filed[i] <= month
               /\ \A k \in variants[i] : k.month \in filed[i]..month
               /\ rows[i] # NoRow => rows[i].thumb = 0 \/ rows[i].thumb \in filed[i]..month
    <3>1. filed[i] \in {0, 1} /\ (\A k \in variants[i] : k.month = 1)
      BY InitWhole
    <3>2. rows[i] # NoRow => rows[i].thumb \in {0, 1}
      BY InitWhole
    <3> QED BY <1>2, <3>1, <3>2
  <2> QED BY <1>3, <2>1 DEF MonthsInOrder
<1>12. Meetings
  BY <1>4 DEF Meetings
<1>13. Complete
  BY <1>3 DEF Complete, Generating
<1>14. Owed
  <2>1. ASSUME NEW i \in Items, rows[i] # NoRow, NEW k \in Relied(i) PROVE k \in objects
    <3>1. k \in ThumbOf(i) \cup variants[i]
      BY <1>3 DEF Relied
    <3> QED BY <2>1, <3>1, InitWhole DEF Whole, StoredOf
  <2> QED BY <2>1 DEF Owed
<1>15. LoneImages
  BY <1>3, InitWhole DEF LoneImages, Lone
<1> QED
  BY <1>1, <1>5, <1>6, <1>7, <1>8, <1>9, <1>10, <1>11, <1>12, <1>13, <1>14, <1>15 DEF IInv

LEMMA StepIInv == IInv /\ [Next]_vars => IInv'
<1> SUFFICES ASSUME IInv, [Next]_vars PROVE IInv'
  OBVIOUS
<1>1. TypeOK' /\ Step
  BY EveryStep
<1>2. Places' /\ QueuesApart' /\ KeysFit' /\ Filed'
  BY <1>1, PlacesStep, QueuesApartStep, KeysFitStep, FiledStep
<1>3. Uploads' /\ Deleted' /\ OriginalsStored' /\ Complete'
  BY <1>1, <1>2, UploadsStep, DeletedStep, OriginalsStoredStep, CompleteStep
<1>4. MonthsInOrder' /\ Meetings' /\ Owed' /\ LoneImages'
  BY <1>1, <1>2, MonthsInOrderStep, MeetingsStep, OwedStep, LoneImagesStep
<1> QED BY <1>1, <1>2, <1>3, <1>4 DEF IInv

-----------------------------------------------------------------------------
\* The inductive invariant holds in every reachable state.
LEMMA Invariance == Spec => []IInv
BY InitIInv, StepIInv, PTL DEF Spec

\* Type correctness: what a request holds in memory between two calls, and what
\* S3 and PostgreSQL hold, keeps its type, for any number of images and requests.
THEOREM MediaTyped == Spec => []TypeOK
<1>1. IInv => TypeOK BY DEF IInv
<1> QED BY <1>1, Invariance, PTL

\* An image in the library can be downloaded, whatever calls fail, whoever leaves
\* and whenever the process restarts: MediaUpload stores the object before the
\* row, and MediaDelete deletes the row before the object.
THEOREM OriginalsKept == Spec => []OriginalsStored
<1>1. IInv => OriginalsStored BY DEF IInv
<1> QED BY <1>1, Invariance, PTL

LEMMA NothingIsMissing == IInv => NothingMissing
<1> SUFFICES ASSUME IInv, NEW i \in Items, rows[i] # NoRow, WorkingOn(i) = {}, Undisturbed(i)
             PROVE  ThumbOf(i) \cup variants[i] \subseteq objects
  BY DEF NothingMissing
<1>1. TypeOK BY DEF IInv
<1>2. \A a \in Admins : ~At(a, i)
  BY DEF WorkingOn, At
<1>3. CASE i \in met
  <2>1. month = filed[i] /\ faults = 0
    BY <1>3 DEF Undisturbed
  <2>2. ASSUME NEW k \in Relied(i) PROVE k \in objects
    <3>1. k.item = i
      BY <2>1, ReliedKeys
    <3>2. \A a \in Admins : ~Owes(a, k)
      BY <1>2, <3>1 DEF Owes
    <3> QED BY <2>1, <3>2 DEF IInv, Owed
  <2> QED BY <2>2 DEF Relied
<1>4. CASE i \notin met
  <2>1. Whole(i)
    BY <1>2, <1>4 DEF IInv, LoneImages, Lone, Untouched, Undisturbed
  <2> QED BY <2>1 DEF Whole, StoredOf
<1> QED BY <1>3, <1>4

LEMMA NothingIsLeftOver == IInv => NothingLeftOver
<1> SUFFICES ASSUME IInv, NEW i \in Items, faults = 0, i \notin met, WorkingOn(i) = {}
             PROVE  StoredOf(i) = IF rows[i] = NoRow THEN {}
                                  ELSE {Original(i)} \cup ThumbOf(i) \cup variants[i]
  BY DEF NothingLeftOver
<1>1. \A a \in Admins : ~At(a, i)
  BY DEF WorkingOn, At
<1>2. Whole(i)
  BY <1>1 DEF IInv, LoneImages, Lone, Untouched
<1> QED BY <1>2 DEF Whole

\* As long as no call fails, the rows of an image that nobody works on name what
\* S3 holds: nothing is missing, also after requests that overlapped in the month
\* of the upload, and nothing is left over where no two requests met.
THEOREM RowsTrue == Spec => []RowsMatchObjects
<1>1. IInv => RowsMatchObjects
  BY NothingIsMissing, NothingIsLeftOver DEF RowsMatchObjects
<1> QED BY <1>1, Invariance, PTL

\* An original is deleted from S3 only after its row, so that a request that
\* finds the row can download the image until the row is gone.
OriginalsOutliveRows ==
  \A i \in Items : Original(i) \in objects /\ Original(i) \notin objects' => rows[i] = NoRow

\* No handler, in whatever state another one is, takes the bytes of an image that is
\* in the library: of the two that delete objects, the regeneration never holds
\* the key of an original, and the delete holds it once the row is gone.
THEOREM OriginalsGoLast == Spec => [][OriginalsOutliveRows]_vars
<1>1. ASSUME IInv, [Next]_vars PROVE OriginalsOutliveRows
  <2> SUFFICES ASSUME NEW i \in Items, Original(i) \in objects, Original(i) \notin objects'
               PROVE  rows[i] = NoRow
    BY DEF OriginalsOutliveRows
  <2>1. Step
    BY <1>1, EveryStep
  <2>2. PICK a \in Admins : Purges(a, Original(i))
    BY <1>1, <2>1, ObjectsGo
  <2>3. Original(i) \in req[a].keys /\ req[a].pc = "purge"
    BY <2>2 DEF Purges
  <2>4. Original(i).item = i /\ Original(i).size = 0
    BY KeyParts DEF Original
  <2>5. 0 \notin Fitting(i)
    BY FittingPositive
  <2>6. req[a].job = "delete" /\ req[a].item = i
    BY <1>1, <2>3, <2>4, <2>5 DEF IInv, KeysFit, RequestFit
  <2> QED BY <1>1, <2>3, <2>6 DEF IInv, Deleted
<1> QED BY <1>1, Invariance, PTL DEF Spec
=============================================================================
