----------------------------- MODULE RateLimiter ----------------------------
(***************************************************************************)
(* The sliding-window rate limiter (middleware/ratelimit.go): allow counts *)
(* a client's requests of the last window on an entry that it looks up in  *)
(* a map, and a goroutine removes the entries of clients that have been    *)
(* silent for a window.  The map has a lock, and so has every entry; allow *)
(* never holds both.                                                       *)
(*                                                                         *)
(* A request is made once.  Its stamp stands on an entry as the request    *)
(* itself, so that stamps of one instant are told apart.                   *)
(***************************************************************************)
EXTENDS Integers, FiniteSets

CONSTANTS
  Requests,  \* requests, each with a goroutine of its own
  Client,    \* Client[r]: the address request r comes from
  Entries,   \* entries, as addresses in memory
  NoEntry,   \* not an entry
  Limit,     \* requests allowed per window
  Window,    \* ticks in a window
  MaxTime    \* bound: the last tick

Clients == {Client[r] : r \in Requests}

ASSUME LimiterAssumption ==
  /\ NoEntry \notin Entries
  /\ Limit \in Nat \ {0} /\ Window \in Nat \ {0} /\ MaxTime \in Nat
  /\ IsFiniteSet(Requests)

VARIABLES
  clock,    \* ticks since the start
  clients,  \* clients[c]: the entry of client c in the map, or NoEntry
  stamps,   \* stamps[e]: the requests that stand on entry e
  fresh,    \* entries not allocated yet
  pc,       \* pc[r]: where request r is in allow
  entry,    \* entry[r]: the entry it has looked up
  time,     \* time[r]: the time it has read
  cleaner,  \* the cleaning goroutine: its step, cutoff, clients left to visit
            \* and the one it is about to remove
  strays    \* history: admitted requests that were stamped on an entry that had
            \* left the map or was about to

limiterVars == <<clock, clients, stamps, fresh, pc, entry, time, cleaner, strays>>

-----------------------------------------------------------------------------

\* What a stamp has to be later than.  (Times begin at a window's length.)
Cutoff(t) == t - Window

\* A variant that breaks RejectedRightly: a stamp as old as the window counts.
RecentOrEqual(S, cutoff) == {r \in S : time[r] >= cutoff}

Recent(S, cutoff) == {r \in S : time[r] > cutoff}

\* The cleaner holds the map's write lock from here on.
MapLocked == cleaner.step \in {"scan", "remove"}

Asleep == [step |-> "asleep", cutoff |-> 0, left |-> {}, victim |-> NoEntry]

LimiterInit ==
  /\ clock = Window
  /\ clients = [c \in Clients |-> NoEntry]
  /\ stamps = [e \in Entries |-> {}]
  /\ fresh = Entries
  /\ pc = [r \in Requests |-> "new"]
  /\ entry = [r \in Requests |-> NoEntry]
  /\ time = [r \in Requests |-> 0]
  /\ cleaner = Asleep
  /\ strays = {}

\* A read lock around the look-up.
LookUp(r) ==
  /\ pc[r] = "new" /\ ~MapLocked
  /\ entry' = [entry EXCEPT ![r] = clients[Client[r]]]
  /\ pc' = [pc EXCEPT ![r] =
              IF clients[Client[r]] = NoEntry THEN "create" ELSE "read time"]
  /\ UNCHANGED <<clock, clients, stamps, fresh, time, cleaner, strays>>

\* &limiterEntry{}: which address it has makes no difference.
NewEntry == CHOOSE e \in fresh : TRUE

\* A variant that breaks LimitHolds: the second look-up is forgotten.
CreateAtOnce(r) ==
  LET c == Client[r] IN
  /\ pc[r] = "create" /\ ~MapLocked
  /\ fresh # {}
  /\ entry' = [entry EXCEPT ![r] = NewEntry]
  /\ clients' = [clients EXCEPT ![c] = NewEntry]
  /\ fresh' = fresh \ {NewEntry}
  /\ pc' = [pc EXCEPT ![r] = "read time"]
  /\ UNCHANGED <<clock, stamps, time, cleaner, strays>>

\* A write lock around the second look-up: another request of the client may
\* have been faster.
Create(r) ==
  LET c == Client[r] IN
  /\ pc[r] = "create" /\ ~MapLocked
  /\ \/ /\ clients[c] # NoEntry
        /\ entry' = [entry EXCEPT ![r] = clients[c]]
        /\ UNCHANGED <<clients, fresh>>
     \/ /\ clients[c] = NoEntry
        /\ fresh # {}
        /\ entry' = [entry EXCEPT ![r] = NewEntry]
        /\ clients' = [clients EXCEPT ![c] = NewEntry]
        /\ fresh' = fresh \ {NewEntry}
  /\ pc' = [pc EXCEPT ![r] = "read time"]
  /\ UNCHANGED <<clock, stamps, time, cleaner, strays>>

\* now := time.Now(), before the entry's lock.
ReadTime(r) ==
  /\ pc[r] = "read time"
  /\ time' = [time EXCEPT ![r] = clock]
  /\ pc' = [pc EXCEPT ![r] = "count"]
  /\ UNCHANGED <<clock, clients, stamps, fresh, entry, cleaner, strays>>

\* A stamp made now is seen by the requests to come: its entry is in the map
\* and not about to leave it.
Counted(r) ==
  /\ entry[r] = clients[Client[r]]
  /\ ~(cleaner.step = "remove" /\ cleaner.victim = Client[r])

\* The lock of the entry around dropping old stamps, comparing, stamping.
Admit(r) ==
  LET e == entry[r]
      valid == Recent(stamps[e], Cutoff(time[r])) IN
  /\ pc[r] = "count"
  /\ Cardinality(valid) < Limit
  /\ stamps' = [stamps EXCEPT ![e] = valid \cup {r}]
  /\ pc' = [pc EXCEPT ![r] = "allowed"]
  /\ strays' = IF Counted(r) THEN strays ELSE strays \cup {r}
  /\ UNCHANGED <<clock, clients, fresh, entry, time, cleaner>>

Reject(r) ==
  LET e == entry[r]
      valid == Recent(stamps[e], Cutoff(time[r])) IN
  /\ pc[r] = "count"
  /\ Cardinality(valid) >= Limit
  /\ stamps' = [stamps EXCEPT ![e] = valid]
  /\ pc' = [pc EXCEPT ![r] = "rejected"]
  /\ UNCHANGED <<clock, clients, fresh, entry, time, cleaner, strays>>

\* The ticker fires: cleanup reads the time, then takes the write lock.
CleanBegin ==
  /\ cleaner.step = "asleep"
  /\ cleaner' = [Asleep EXCEPT !.step = "lock", !.cutoff = Cutoff(clock)]
  /\ UNCHANGED <<clock, clients, stamps, fresh, pc, entry, time, strays>>

CleanLock ==
  /\ cleaner.step = "lock"
  /\ cleaner' = [cleaner EXCEPT !.step = "scan",
                   !.left = {c \in Clients : clients[c] # NoEntry}]
  /\ UNCHANGED <<clock, clients, stamps, fresh, pc, entry, time, strays>>

\* The lock of one entry around the search for a recent stamp.
CleanScan(c) ==
  /\ cleaner.step = "scan" /\ c \in cleaner.left
  /\ cleaner' =
       IF Recent(stamps[clients[c]], cleaner.cutoff) = {}
       THEN [cleaner EXCEPT !.step = "remove", !.left = @ \ {c}, !.victim = c]
       ELSE [cleaner EXCEPT !.left = @ \ {c}]
  /\ UNCHANGED <<clock, clients, stamps, fresh, pc, entry, time, strays>>

\* delete(rl.clients, key), after the entry's lock is released.
CleanRemove ==
  LET c == cleaner.victim IN
  /\ cleaner.step = "remove"
  /\ clients' = [clients EXCEPT ![c] = NoEntry]
  /\ cleaner' = [cleaner EXCEPT !.step = "scan", !.victim = NoEntry]
  /\ UNCHANGED <<clock, stamps, fresh, pc, entry, time, strays>>

\* A variant that breaks SilentForgotten: a timer in place of the ticker.
CleanEndForGood ==
  /\ cleaner.step = "scan" /\ cleaner.left = {}
  /\ cleaner' = [Asleep EXCEPT !.step = "stopped"]
  /\ UNCHANGED <<clock, clients, stamps, fresh, pc, entry, time, strays>>

CleanEnd ==
  /\ cleaner.step = "scan" /\ cleaner.left = {}
  /\ cleaner' = Asleep
  /\ UNCHANGED <<clock, clients, stamps, fresh, pc, entry, time, strays>>

Tick ==
  /\ clock < MaxTime
  /\ clock' = clock + 1
  /\ UNCHANGED <<clients, stamps, fresh, pc, entry, time, cleaner, strays>>

Allow(r) == LookUp(r) \/ Create(r) \/ ReadTime(r) \/ Admit(r) \/ Reject(r)

Cleanup ==
  \/ CleanBegin \/ CleanLock \/ CleanRemove \/ CleanEnd
  \/ \E c \in Clients : CleanScan(c)

LimiterNext == Tick \/ Cleanup \/ \E r \in Requests : Allow(r)

LimiterSpec == LimiterInit /\ [][LimiterNext]_limiterVars

\* The ticker never stops (the router never calls Stop), the scheduler runs
\* every goroutine, and Go's mutexes are fair to those that wait.
LimiterFairness ==
  WF_limiterVars(Cleanup) /\ \A r \in Requests : WF_limiterVars(pc[r] # "new" /\ Allow(r))

LimiterFairSpec == LimiterSpec /\ LimiterFairness

-----------------------------------------------------------------------------

Steps == {"new", "create", "read time", "count", "allowed", "rejected"}
Admitted == {r \in Requests : pc[r] = "allowed"}

\* The types of the variables.  A stamp is an admitted request of the client
\* whose entry it is on.
LimiterTypeOK ==
  /\ clock \in Window .. Window + MaxTime
  /\ clients \in [Clients -> Entries \cup {NoEntry}]
  /\ stamps \in [Entries -> SUBSET Requests]
  /\ fresh \subseteq Entries
  /\ pc \in [Requests -> Steps]
  /\ entry \in [Requests -> Entries \cup {NoEntry}]
  /\ time \in [Requests -> 0 .. Window + MaxTime]
  /\ cleaner \in [step : {"asleep", "lock", "scan", "remove"},
                  cutoff : 0 .. MaxTime, left : SUBSET Clients,
                  victim : Clients \cup {NoEntry}]
  /\ strays \subseteq Requests

\* In the window that ends now no more requests of a client are admitted than
\* the limit, but for strays: those whose entry the cleaner removed between
\* look-up and stamp, or between its own look and the removal
\* (ratelimit.go:62-99, 108-122).  A request counts at the time it has read,
\* however long it then waits for the entry's lock, and whatever later stamps
\* overtake it there.  Windows of the past are another matter: a stamp that was
\* overtaken by one of a later time may be one too many for the window that
\* ended at its own time, of which the later one has dropped the oldest stamps.
LimitHolds ==
  \A c \in Clients :
    Cardinality({r \in Admitted \ strays :
                   Client[r] = c /\ time[r] > Cutoff(clock)}) <= Limit

\* A request is rejected only if the limit's number of requests of its own
\* client have been admitted in the window that ends at its time or since.
RejectedRightly ==
  [][\A r \in Requests :
       pc[r] = "count" /\ pc'[r] = "rejected" =>
         Cardinality({s \in Admitted : /\ Client[s] = Client[r]
                                       /\ time[s] > Cutoff(time[r])}) >= Limit]_limiterVars

\* The entry of a client that stays silent leaves the map: the map does not
\* grow with the number of clients ever seen.
SilentForgotten ==
  \A c \in Clients :
    (/\ \A r \in Requests : Client[r] = c => pc[r] \in {"allowed", "rejected"}
     /\ \A r \in Requests : Client[r] = c => time[r] <= Cutoff(clock))
      ~> clients[c] = NoEntry
=============================================================================
