---------------------------- MODULE FrontProofs -----------------------------
(***************************************************************************)
(* Proofs about the two components that stand in front of the handlers'    *)
(* own work: RateLimiter, for any number of requests, clients and entries, *)
(* any limit and any window; and PageCache, for any number of contents,    *)
(* slugs, admin requests and visitors.                                     *)
(***************************************************************************)
EXTENDS RateLimiter, PageCache, FiniteSetTheorems, TLAPS

-----------------------------------------------------------------------------
(* The invariant, in named parts. *)

\* Requests that have an entry have looked it up; times read are past.
RequestsOK ==
  \A r \in Requests :
    /\ pc[r] \in {"read time", "count", "allowed"} => entry[r] # NoEntry
    /\ time[r] <= clock

\* An entry belongs to one client, and is new until it is in the map.
EntriesOwned ==
  /\ \A r \in Requests : entry[r] \notin fresh
  /\ \A c \in Clients : clients[c] \notin fresh
  /\ \A r, s \in Requests :
       entry[r] = entry[s] /\ entry[r] # NoEntry => Client[r] = Client[s]
  /\ \A r \in Requests, c \in Clients :
       entry[r] = clients[c] /\ entry[r] # NoEntry => Client[r] = c
  /\ \A c, d \in Clients :
       clients[c] = clients[d] /\ clients[c] # NoEntry => c = d

\* What stands on an entry is an admitted request that looked it up.
StampsOwned ==
  \A e \in Entries : \A r \in stamps[e] : pc[r] = "allowed" /\ entry[r] = e

\* An admitted request of the last window that is no stray stands on the entry
\* its client has in the map.
WindowSeen ==
  \A r \in Admitted \ strays :
    time[r] > Cutoff(clock) =>
      /\ clients[Client[r]] = entry[r]
      /\ r \in stamps[entry[r]]

\* The cleaner visits entries of the map, and removes one that has no stamp of
\* the last window but those of strays.
CleanerOK ==
  /\ cleaner.step \in {"lock", "scan", "remove"} =>
       cleaner.cutoff <= Cutoff(clock)
  /\ MapLocked => \A c \in cleaner.left : clients[c] # NoEntry
  /\ cleaner.step = "remove" =>
       /\ cleaner.victim \in Clients /\ cleaner.victim \notin cleaner.left
       /\ clients[cleaner.victim] # NoEntry
       /\ \A r \in stamps[clients[cleaner.victim]] :
             time[r] > Cutoff(clock) => r \in strays

LimiterInv ==
  /\ LimiterTypeOK /\ RequestsOK /\ EntriesOwned /\ StampsOwned
  /\ WindowSeen /\ CleanerOK

-----------------------------------------------------------------------------

\* The limiter starts with an empty map.
LEMMA LimiterInitInv == LimiterInit => LimiterInv
<1> SUFFICES ASSUME LimiterInit PROVE LimiterInv
  OBVIOUS
<1> USE LimiterAssumption DEF LimiterInit
<1>1. LimiterTypeOK
  BY DEF LimiterTypeOK, Steps, Asleep
<1>2. RequestsOK /\ EntriesOwned /\ StampsOwned
  BY DEF RequestsOK, EntriesOwned, StampsOwned, Clients
<1>3. WindowSeen /\ CleanerOK
  BY DEF WindowSeen, CleanerOK, Admitted, Asleep, MapLocked
<1> QED BY <1>1, <1>2, <1>3 DEF LimiterInv

\* A step of allow (ratelimit.go:62-99) keeps the types.
LEMMA AllowTypeOK ==
  ASSUME LimiterInv, NEW r \in Requests, Allow(r)
  PROVE  LimiterTypeOK'
<1> USE LimiterAssumption
<1>0. LimiterTypeOK /\ RequestsOK /\ Client[r] \in Clients
  BY DEF LimiterInv, Clients
<1>1. CASE LookUp(r)
  BY <1>0, <1>1 DEF LookUp, LimiterTypeOK, Steps
<1>2. CASE Create(r)
  BY ZenonT(60), <1>0, <1>2 DEF Create, LimiterTypeOK, Steps, NewEntry
<1>3. CASE ReadTime(r)
  <2>1. clock \in 0 .. Window + MaxTime
    BY <1>0 DEF LimiterTypeOK
  <2>2. /\ time' \in [Requests -> 0 .. Window + MaxTime]
        /\ pc' \in [Requests -> Steps]
    BY <1>0, <1>3, <2>1 DEF ReadTime, LimiterTypeOK, Steps
  <2> QED BY <1>0, <1>3, <2>2 DEF ReadTime, LimiterTypeOK
<1>4. CASE Admit(r)
  BY <1>0, <1>4 DEF Admit, LimiterTypeOK, Steps, Recent
<1>5. CASE Reject(r)
  BY <1>0, <1>5 DEF Reject, LimiterTypeOK, Steps, Recent
<1> QED BY <1>1, <1>2, <1>3, <1>4, <1>5 DEF Allow

\* A step of cleanup (ratelimit.go:102-123) keeps the types.
LEMMA CleanupTypeOK ==
  ASSUME LimiterInv, Cleanup
  PROVE  LimiterTypeOK'
<1> USE LimiterAssumption DEF LimiterTypeOK
<1>0. LimiterTypeOK /\ CleanerOK
  BY DEF LimiterInv
<1>1. CASE CleanBegin
  <2>1. clock - Window \in 0 .. MaxTime
    BY <1>0
  <2> QED BY <1>0, <1>1, <2>1 DEF CleanBegin, Asleep, Cutoff
<1>2. CASE CleanLock
  BY <1>0, <1>2 DEF CleanLock
<1>3. CASE \E c \in Clients : CleanScan(c)
  <2>1. PICK c \in Clients : CleanScan(c)
    BY <1>3
  <2>2. [cleaner EXCEPT !.step = "remove", !.left = cleaner.left \ {c},
                        !.victim = c]
          \in [step : {"asleep", "lock", "scan", "remove"},
               cutoff : 0 .. MaxTime, left : SUBSET Clients,
               victim : Clients \cup {NoEntry}]
    BY <1>0
  <2>3. [cleaner EXCEPT !.left = cleaner.left \ {c}]
          \in [step : {"asleep", "lock", "scan", "remove"},
               cutoff : 0 .. MaxTime, left : SUBSET Clients,
               victim : Clients \cup {NoEntry}]
    BY <1>0
  <2>4. UNCHANGED <<clock, clients, stamps, fresh, pc, entry, time, strays>>
    BY <2>1 DEF CleanScan
  <2> QED BY <1>0, <2>1, <2>2, <2>3, <2>4 DEF CleanScan
<1>4. CASE CleanRemove
  BY <1>0, <1>4 DEF CleanRemove, CleanerOK
<1>5. CASE CleanEnd
  BY <1>0, <1>5 DEF CleanEnd, Asleep
<1> QED BY <1>1, <1>2, <1>3, <1>4, <1>5 DEF Cleanup

\* Allow keeps what requests and entries have to do with each other.
LEMMA AllowOwned ==
  ASSUME LimiterInv, NEW r \in Requests, Allow(r)
  PROVE  RequestsOK' /\ EntriesOwned' /\ StampsOwned'
<1>0. /\ LimiterTypeOK /\ RequestsOK /\ EntriesOwned /\ StampsOwned
      /\ Client[r] \in Clients
  BY DEF LimiterInv, Clients
<1>1. CASE LookUp(r)
  <2>1. RequestsOK'
    BY <1>0, <1>1 DEF LookUp, LimiterTypeOK, RequestsOK
  <2>2. EntriesOwned'
    <3>1. entry' = [entry EXCEPT ![r] = clients[Client[r]]]
          /\ UNCHANGED <<clients, fresh>>
      BY <1>1 DEF LookUp
    <3>2. \A s \in Requests :
            entry'[s] = IF s = r THEN clients[Client[r]] ELSE entry[s]
      BY <1>0, <3>1 DEF LimiterTypeOK
    <3>3. \A s \in Requests : Client[s] \in Clients
      BY DEF Clients
    <3> QED BY <1>0, <3>1, <3>2, <3>3 DEF EntriesOwned
  <2>3. StampsOwned'
    BY <1>0, <1>1 DEF LookUp, LimiterTypeOK, StampsOwned
  <2> QED BY <2>1, <2>2, <2>3
<1>2. CASE Create(r)
  <2>1. RequestsOK'
    BY <1>0, <1>2, LimiterAssumption DEF Create, LimiterTypeOK, RequestsOK, NewEntry
  <2>2. EntriesOwned'
    <3>0. \A s \in Requests : Client[s] \in Clients
      BY DEF Clients
    <3>1. CASE clients[Client[r]] # NoEntry
      <4>1. entry' = [entry EXCEPT ![r] = clients[Client[r]]]
            /\ UNCHANGED <<clients, fresh>>
        BY <1>2, <3>1 DEF Create
      <4>2. \A s \in Requests :
              entry'[s] = IF s = r THEN clients[Client[r]] ELSE entry[s]
        BY <1>0, <4>1 DEF LimiterTypeOK
      <4> QED BY <1>0, <3>0, <4>1, <4>2 DEF EntriesOwned
    <3>2. CASE clients[Client[r]] = NoEntry
      <4>1. PICK e \in fresh : /\ entry' = [entry EXCEPT ![r] = e]
                               /\ clients' = [clients EXCEPT ![Client[r]] = e]
                               /\ fresh' = fresh \ {e}
        BY <1>2, <3>2 DEF Create, NewEntry
      <4>2. \A s \in Requests : entry'[s] = IF s = r THEN e ELSE entry[s]
        BY <1>0, <4>1 DEF LimiterTypeOK
      <4>3. \A c \in Clients :
              clients'[c] = IF c = Client[r] THEN e ELSE clients[c]
        BY <1>0, <4>1 DEF LimiterTypeOK
      <4> QED BY <1>0, <3>0, <4>1, <4>2, <4>3 DEF EntriesOwned
    <3> QED BY <3>1, <3>2
  <2>3. StampsOwned'
    BY ZenonT(60), <1>0, <1>2 DEF Create, LimiterTypeOK, StampsOwned
  <2> QED BY <2>1, <2>2, <2>3
<1>3. CASE ReadTime(r)
  <2>1. RequestsOK'
    <3>0. clock \in Int
      BY <1>0, LimiterAssumption DEF LimiterTypeOK
    <3>1. UNCHANGED <<clock, entry>>
      BY <1>3 DEF ReadTime
    <3>2. SUFFICES ASSUME NEW s \in Requests
                   PROVE  /\ pc'[s] \in {"read time", "count", "allowed"} =>
                               entry[s] # NoEntry
                          /\ time'[s] <= clock
      BY <3>1 DEF RequestsOK
    <3>3. CASE s = r
      <4>1. pc[s] = "read time" /\ time'[s] = clock
        BY <1>0, <1>3, <3>3 DEF ReadTime, LimiterTypeOK
      <4>2. entry[s] # NoEntry
        BY <1>0, <4>1 DEF RequestsOK
      <4>3. clock <= clock
        BY <3>0
      <4> QED BY <4>1, <4>2, <4>3, Zenon
    <3>4. CASE s # r
      <4>1. pc'[s] = pc[s] /\ time'[s] = time[s]
        BY <1>0, <1>3, <3>4 DEF ReadTime, LimiterTypeOK
      <4> QED BY <1>0, <4>1 DEF RequestsOK
    <3> QED BY <3>3, <3>4
  <2>2. EntriesOwned'
    BY <1>0, <1>3 DEF ReadTime, EntriesOwned
  <2>3. StampsOwned'
    BY <1>0, <1>3 DEF ReadTime, LimiterTypeOK, StampsOwned
  <2> QED BY <2>1, <2>2, <2>3
<1>4. CASE Admit(r)
  <2>1. RequestsOK' /\ EntriesOwned'
    BY ZenonT(60), <1>0, <1>4 DEF Admit, LimiterTypeOK, RequestsOK, EntriesOwned
  <2>2. StampsOwned'
    BY <1>0, <1>4 DEF Admit, LimiterTypeOK, StampsOwned, Recent
  <2> QED BY <2>1, <2>2
<1>5. CASE Reject(r)
  <2>1. RequestsOK' /\ EntriesOwned'
    BY ZenonT(60), <1>0, <1>5 DEF Reject, LimiterTypeOK, RequestsOK, EntriesOwned
  <2>2. StampsOwned'
    BY <1>0, <1>5 DEF Reject, LimiterTypeOK, StampsOwned, Recent
  <2> QED BY <2>1, <2>2
<1> QED BY <1>1, <1>2, <1>3, <1>4, <1>5 DEF Allow

\* The cleaner and the clock keep it too.
LEMMA CleanupOwned ==
  ASSUME LimiterInv, Cleanup \/ Tick
  PROVE  RequestsOK' /\ EntriesOwned' /\ StampsOwned'
<1>0. LimiterTypeOK /\ RequestsOK /\ EntriesOwned /\ StampsOwned
  BY DEF LimiterInv
<1>1. CASE CleanRemove
  <2>1. RequestsOK' /\ StampsOwned'
    BY <1>0, <1>1 DEF CleanRemove, RequestsOK, StampsOwned
  <2>2. EntriesOwned'
    <3>1. clients' = [clients EXCEPT ![cleaner.victim] = NoEntry]
          /\ UNCHANGED <<entry, fresh>>
      BY <1>1 DEF CleanRemove
    <3>2. \A c \in Clients :
            clients'[c] = IF c = cleaner.victim THEN NoEntry ELSE clients[c]
      BY <1>0, <3>1 DEF LimiterTypeOK
    <3>3. NoEntry \notin fresh
      BY <1>0, LimiterAssumption DEF LimiterTypeOK
    <3> QED BY <1>0, <3>1, <3>2, <3>3 DEF EntriesOwned
  <2> QED BY <2>1, <2>2
<1>2. CASE Tick
  <2>1. EntriesOwned' /\ StampsOwned'
    BY <1>0, <1>2 DEF Tick, EntriesOwned, StampsOwned
  <2>2. RequestsOK'
    <3>1. clock \in Int /\ \A r \in Requests : time[r] \in Int
      BY <1>0, LimiterAssumption DEF LimiterTypeOK
    <3>2. clock' = clock + 1 /\ UNCHANGED <<pc, entry, time>>
      BY <1>2 DEF Tick
    <3>3. ASSUME NEW r \in Requests PROVE time[r] <= clock + 1
      <4>1. time[r] <= clock
        BY <1>0 DEF RequestsOK
      <4> QED BY <3>1, <4>1
    <3> QED BY <1>0, <3>2, <3>3 DEF RequestsOK
  <2> QED BY <2>1, <2>2
<1>3. CASE CleanBegin \/ CleanLock \/ CleanEnd \/ \E c \in Clients : CleanScan(c)
  <2>1. UNCHANGED <<clock, clients, stamps, fresh, pc, entry, time>>
    BY <1>3 DEF CleanBegin, CleanLock, CleanEnd, CleanScan
  <2> QED BY <1>0, <2>1 DEF RequestsOK, EntriesOwned, StampsOwned
<1> QED BY <1>1, <1>2, <1>3 DEF Cleanup

\* Allow keeps every counted request of the window in sight of the next one.
LEMMA AllowSeen ==
  ASSUME LimiterInv, NEW r \in Requests, Allow(r)
  PROVE  WindowSeen'
<1> USE LimiterAssumption
<1>0. /\ LimiterTypeOK /\ RequestsOK /\ EntriesOwned /\ StampsOwned /\ WindowSeen
      /\ Client[r] \in Clients
  BY DEF LimiterInv, Clients
<1>1. CASE LookUp(r)
  BY <1>0, <1>1 DEF LookUp, LimiterTypeOK, WindowSeen, Admitted, Cutoff
<1>2. CASE Create(r)
  <2>0. \A s \in Requests : Client[s] \in Clients
    BY DEF Clients
  <2>1. /\ UNCHANGED <<clock, time, stamps, strays>>
        /\ Admitted' = Admitted /\ r \notin Admitted
    BY <1>0, <1>2 DEF Create, LimiterTypeOK, Admitted
  <2>2. \A s \in Requests : s # r => entry'[s] = entry[s]
    BY <1>0, <1>2 DEF Create, LimiterTypeOK
  <2>3. \A c \in Clients : clients[c] # NoEntry => clients'[c] = clients[c]
    BY <1>0, <1>2 DEF Create, LimiterTypeOK
  <2>4. \A s \in Admitted : entry[s] # NoEntry
    BY <1>0 DEF Admitted, RequestsOK
  <2> QED BY <1>0, <2>0, <2>1, <2>2, <2>3, <2>4 DEF WindowSeen, Cutoff, Admitted
<1>3. CASE ReadTime(r)
  BY <1>0, <1>3 DEF ReadTime, LimiterTypeOK, WindowSeen, Admitted, Cutoff
<1>4. CASE Admit(r) \/ Reject(r)
  <2> SUFFICES ASSUME NEW s \in Requests, pc'[s] = "allowed", s \notin strays',
                      time'[s] > Cutoff(clock)'
               PROVE  /\ clients'[Client[s]] = entry'[s]
                      /\ s \in stamps'[entry'[s]]
    BY DEF WindowSeen, Admitted
  <2>1. /\ UNCHANGED <<clock, clients, entry, time>>
        /\ strays \subseteq strays'
        /\ time[s] > Cutoff(clock)
    BY <1>4 DEF Admit, Reject, Cutoff
  <2>2. entry[r] \in Entries
    BY <1>0, <1>4 DEF Admit, Reject, LimiterTypeOK, RequestsOK
  <2>3. \A e \in Entries :
          e # entry[r] => stamps'[e] = stamps[e]
    BY <1>0, <1>4, <2>2 DEF Admit, Reject, LimiterTypeOK
  <2>4. Recent(stamps[entry[r]], Cutoff(time[r])) \subseteq stamps'[entry[r]]
    BY <1>0, <1>4, <2>2 DEF Admit, Reject, LimiterTypeOK
  <2>5. CASE s = r
    <3>1. Admit(r) /\ Counted(r)
      BY <1>0, <1>4, <2>5 DEF Admit, Reject, LimiterTypeOK
    <3>2. r \in stamps'[entry[r]]
      BY <1>0, <2>2, <3>1 DEF Admit, LimiterTypeOK
    <3> QED BY <2>1, <2>5, <3>1, <3>2 DEF Counted
  <2>6. CASE s # r
    <3>1. pc[s] = "allowed"
      BY <1>0, <1>4, <2>6 DEF Admit, Reject, LimiterTypeOK
    <3>2. clients[Client[s]] = entry[s] /\ s \in stamps[entry[s]]
      BY <1>0, <2>1, <3>1 DEF WindowSeen, Admitted
    <3>3. entry[s] \in Entries
      BY <1>0, <3>1 DEF LimiterTypeOK, RequestsOK
    <3>4. /\ time[r] \in Int /\ time[s] \in Int /\ clock \in Int
          /\ time[r] <= clock /\ Window \in Int
      <4>1. time \in [Requests -> 0 .. Window + MaxTime] /\ clock \in Int
        BY <1>0 DEF LimiterTypeOK
      <4>2. time[r] <= clock
        BY <1>0 DEF RequestsOK
      <4> QED BY <4>1, <4>2
    <3>5. time[s] > Cutoff(time[r])
      BY <2>1, <3>4 DEF Cutoff
    <3>6. s \in stamps'[entry[s]]
      BY <2>3, <2>4, <3>2, <3>3, <3>5 DEF Recent
    <3> QED BY <2>1, <3>2, <3>6
  <2> QED BY <2>5, <2>6
<1> QED BY <1>1, <1>2, <1>3, <1>4 DEF Allow

\* The cleaner removes only entries without a counted request of the window,
\* and the clock only shortens the window.
LEMMA CleanupSeen ==
  ASSUME LimiterInv, Cleanup \/ Tick
  PROVE  WindowSeen'
<1> USE LimiterAssumption
<1>0. LimiterTypeOK /\ RequestsOK /\ EntriesOwned /\ WindowSeen /\ CleanerOK
  BY DEF LimiterInv
<1>1. CASE CleanRemove
  <2> SUFFICES ASSUME NEW s \in Requests, pc[s] = "allowed", s \notin strays,
                      time[s] > Cutoff(clock)
               PROVE  clients'[Client[s]] = entry[s] /\ s \in stamps[entry[s]]
    BY <1>1 DEF WindowSeen, Admitted, CleanRemove, Cutoff
  <2>1. clients[Client[s]] = entry[s] /\ s \in stamps[entry[s]]
    BY <1>0 DEF WindowSeen, Admitted
  <2>2. Client[s] # cleaner.victim
    BY <1>0, <1>1, <2>1 DEF CleanRemove, CleanerOK
  <2>3. Client[s] \in Clients
    BY DEF Clients
  <2> QED BY <1>0, <1>1, <2>1, <2>2, <2>3 DEF CleanRemove, LimiterTypeOK
<1>2. CASE Tick
  BY <1>0, <1>2 DEF Tick, LimiterTypeOK, WindowSeen, Admitted, Cutoff
<1>3. CASE CleanBegin \/ CleanLock \/ CleanEnd \/ \E c \in Clients : CleanScan(c)
  BY <1>0, <1>3 DEF CleanBegin, CleanLock, CleanEnd, CleanScan,
                    WindowSeen, Admitted, Cutoff
<1> QED BY <1>1, <1>2, <1>3 DEF Cleanup

\* Requests do not disturb the cleaner: no entry joins or leaves the map while
\* it is locked, and what is stamped on the entry to be removed is a stray.
LEMMA AllowCleanerOK ==
  ASSUME LimiterInv, NEW r \in Requests, Allow(r)
  PROVE  CleanerOK'
<1> USE LimiterAssumption
<1>0. /\ LimiterTypeOK /\ RequestsOK /\ EntriesOwned /\ StampsOwned /\ CleanerOK
      /\ Client[r] \in Clients
  BY DEF LimiterInv, Clients
<1>1. CASE LookUp(r)
  BY <1>0, <1>1 DEF LookUp, CleanerOK, MapLocked, Cutoff
<1>2. CASE Create(r)
  BY <1>0, <1>2 DEF Create, CleanerOK, MapLocked, Cutoff
<1>3. CASE ReadTime(r)
  <2>1. \A e \in Entries : r \notin stamps[e]
    BY <1>0, <1>3 DEF ReadTime, StampsOwned
  <2>2. ASSUME cleaner.step = "remove",
               NEW s \in stamps[clients[cleaner.victim]]
        PROVE  time'[s] = time[s]
    <3>1. clients[cleaner.victim] \in Entries
      BY <1>0, <2>2 DEF LimiterTypeOK, CleanerOK
    <3>2. s \in Requests /\ s # r
      BY <1>0, <2>1, <2>2, <3>1 DEF LimiterTypeOK
    <3> QED BY <1>0, <1>3, <3>2 DEF ReadTime, LimiterTypeOK
  <2> QED BY <1>0, <1>3, <2>2 DEF ReadTime, CleanerOK, MapLocked, Cutoff
<1>4. CASE Admit(r) \/ Reject(r)
  <2>1. /\ UNCHANGED <<clock, clients, time, cleaner>>
        /\ strays \subseteq strays'
    BY <1>4 DEF Admit, Reject
  <2>2. entry[r] \in Entries
    BY <1>0, <1>4 DEF Admit, Reject, LimiterTypeOK, RequestsOK
  <2>3. ASSUME cleaner.step = "remove",
               NEW s \in stamps'[clients[cleaner.victim]],
               time[s] > Cutoff(clock)
        PROVE  s \in strays'
    <3> DEFINE c == cleaner.victim
    <3>1. c \in Clients /\ clients[c] \in Entries
      BY <1>0, <2>3 DEF CleanerOK, LimiterTypeOK
    <3>2. CASE s \in stamps[clients[c]]
      BY <1>0, <2>1, <2>3, <3>2 DEF CleanerOK
    <3>3. CASE s \notin stamps[clients[c]]
      <4>1. Admit(r) /\ s = r /\ clients[c] = entry[r]
        BY <1>0, <1>4, <2>2, <2>3, <3>1, <3>3 DEF Admit, Reject, LimiterTypeOK, Recent
      <4>2. Client[r] = c
        BY <1>0, <2>2, <3>1, <4>1 DEF EntriesOwned
      <4> QED BY <2>3, <4>1, <4>2 DEF Admit, Counted
    <3> QED BY <3>2, <3>3
  <2> QED BY <1>0, <2>1, <2>3 DEF CleanerOK, MapLocked, Cutoff
<1> QED BY <1>1, <1>2, <1>3, <1>4 DEF Allow

\* The cleaner's own steps: what it has found silent at its cutoff was silent
\* for the whole window.
LEMMA CleanupCleanerOK ==
  ASSUME LimiterInv, Cleanup \/ Tick
  PROVE  CleanerOK'
<1> USE LimiterAssumption DEF CleanerOK, MapLocked
<1>0. LimiterTypeOK /\ EntriesOwned /\ CleanerOK
  BY DEF LimiterInv
<1>1. CASE CleanBegin
  BY <1>0, <1>1 DEF CleanBegin, Asleep, Cutoff, LimiterTypeOK
<1>2. CASE CleanLock
  BY <1>0, <1>2 DEF CleanLock, Cutoff, LimiterTypeOK
<1>3. ASSUME NEW c \in Clients, CleanScan(c) PROVE CleanerOK'
  <2>1. CASE Recent(stamps[clients[c]], cleaner.cutoff) = {}
    <3>1. /\ cleaner' = [cleaner EXCEPT !.step = "remove",
                           !.left = cleaner.left \ {c}, !.victim = c]
          /\ UNCHANGED <<clock, clients, stamps, time, strays>>
          /\ cleaner.step = "scan" /\ c \in cleaner.left
      BY <1>3, <2>1 DEF CleanScan
    <3>2. /\ cleaner'.step = "remove" /\ cleaner'.left = cleaner.left \ {c}
          /\ cleaner'.victim = c /\ cleaner'.cutoff = cleaner.cutoff
      BY <1>0, <3>1 DEF LimiterTypeOK
    <3>3. clients[c] \in Entries
      BY <1>0, <3>1 DEF LimiterTypeOK
    <3>4. \A r \in stamps[clients[c]] : ~(time[r] > Cutoff(clock))
      <4>1. \A r \in stamps[clients[c]] : ~(time[r] > cleaner.cutoff)
        BY <2>1 DEF Recent
      <4>2. cleaner.cutoff <= Cutoff(clock) /\ cleaner.cutoff \in Int
        BY <1>0, <3>1 DEF LimiterTypeOK
      <4>3. Cutoff(clock) \in Int
        BY <1>0 DEF LimiterTypeOK, Cutoff
      <4>4. \A r \in stamps[clients[c]] : time[r] \in Int
        BY <1>0, <3>3 DEF LimiterTypeOK
      <4> QED BY <4>1, <4>2, <4>3, <4>4
    <3> QED BY <1>0, <3>1, <3>2, <3>3, <3>4 DEF Cutoff
  <2>2. CASE Recent(stamps[clients[c]], cleaner.cutoff) # {}
    BY <1>0, <1>3, <2>2 DEF CleanScan, LimiterTypeOK, Cutoff
  <2> QED BY <2>1, <2>2
<1>4. CASE CleanRemove
  <2>1. cleaner'.step = "scan" /\ cleaner'.left = cleaner.left
        /\ cleaner'.cutoff = cleaner.cutoff
    BY <1>0, <1>4 DEF CleanRemove, LimiterTypeOK
  <2> QED BY <1>0, <1>4, <2>1 DEF CleanRemove, LimiterTypeOK, Cutoff
<1>5. CASE CleanEnd
  BY <1>0, <1>5 DEF CleanEnd, Asleep
<1>6. CASE Tick
  <2>1. Cutoff(clock) <= Cutoff(clock)' /\ Cutoff(clock) \in Int
        /\ Cutoff(clock)' \in Int
    BY <1>0, <1>6 DEF Tick, LimiterTypeOK, Cutoff
  <2>2. cleaner.cutoff \in Int
    BY <1>0 DEF LimiterTypeOK
  <2>3. cleaner.step = "remove" =>
          \A r \in stamps[clients[cleaner.victim]] : time[r] \in Int
    BY <1>0 DEF LimiterTypeOK
  <2> QED BY <1>0, <1>6, <2>1, <2>2, <2>3 DEF Tick
<1> QED BY <1>1, <1>2, <1>3, <1>4, <1>5, <1>6 DEF Cleanup

\* The invariant holds in every reachable state.
LEMMA LimiterInductive == LimiterSpec => []LimiterInv
<1>1. LimiterInv /\ [LimiterNext]_limiterVars => LimiterInv'
  <2> SUFFICES ASSUME LimiterInv, [LimiterNext]_limiterVars PROVE LimiterInv'
    OBVIOUS
  <2>1. CASE \E r \in Requests : Allow(r)
    BY <2>1, AllowTypeOK, AllowOwned, AllowSeen, AllowCleanerOK DEF LimiterInv
  <2>2. CASE Cleanup
    BY <2>2, CleanupTypeOK, CleanupOwned, CleanupSeen, CleanupCleanerOK
       DEF LimiterInv
  <2>3. CASE Tick
    <3>1. LimiterTypeOK'
      BY <2>3, LimiterAssumption DEF Tick, LimiterTypeOK, LimiterInv
    <3> QED BY <2>3, <3>1, CleanupOwned, CleanupSeen, CleanupCleanerOK
            DEF LimiterInv
  <2>4. CASE UNCHANGED limiterVars
    <3>1. LimiterTypeOK'
      BY <2>4 DEF limiterVars, LimiterInv, LimiterTypeOK
    <3>2. RequestsOK' /\ EntriesOwned' /\ StampsOwned'
      BY <2>4 DEF limiterVars, LimiterInv, RequestsOK, EntriesOwned, StampsOwned
    <3>3. WindowSeen' /\ CleanerOK'
      BY <2>4 DEF limiterVars, LimiterInv, WindowSeen, CleanerOK, MapLocked, Admitted,
                  Cutoff
    <3> QED BY <3>1, <3>2, <3>3 DEF LimiterInv
  <2> QED BY <2>1, <2>2, <2>3, <2>4 DEF LimiterNext
<1> QED BY <1>1, LimiterInitInv, PTL DEF LimiterSpec

-----------------------------------------------------------------------------

\* The variables keep their types, and stamps are of admitted requests.
THEOREM LimiterTypeCorrect == LimiterSpec => []LimiterTypeOK
BY LimiterInductive, PTL DEF LimiterInv

\* One step cannot take a client over the limit: who is admitted and counted
\* has counted all that were (ratelimit.go:93-98).
LEMMA LimitStep ==
  ASSUME LimiterInv, LimiterInv', LimitHolds, [LimiterNext]_limiterVars
  PROVE  LimitHolds'
<1> USE LimiterAssumption
<1> DEFINE Window_(c) == {s \in Admitted \ strays :
                            Client[s] = c /\ time[s] > Cutoff(clock)}
<1>0. LimiterTypeOK /\ RequestsOK /\ EntriesOwned /\ StampsOwned /\ WindowSeen
  BY DEF LimiterInv
<1>1. \A c \in Clients : IsFiniteSet(Window_(c))
  <2> TAKE c \in Clients
  <2>1. Window_(c) \in SUBSET Requests
    BY DEF Admitted
  <2> QED BY <2>1, FS_Subset
<1>2. SUFFICES ASSUME NEW c \in Clients
               PROVE  Cardinality(Window_(c)') <= Limit
  BY DEF LimitHolds
<1>3. Cardinality(Window_(c)) <= Limit /\ Cardinality(Window_(c)) \in Nat
  BY <1>1, FS_CardinalityType DEF LimitHolds
<1>4. ASSUME Window_(c)' \subseteq Window_(c)
      PROVE  Cardinality(Window_(c)') <= Limit
  <2> HIDE DEF Window_
  <2>1. /\ Cardinality(Window_(c)') <= Cardinality(Window_(c))
        /\ IsFiniteSet(Window_(c)')
    BY <1>1, <1>4, FS_Subset
  <2> QED BY <1>3, <2>1, FS_CardinalityType
<1>5. ASSUME NEW r \in Requests, Admit(r)
      PROVE  Cardinality(Window_(c)') <= Limit
  <2>1. /\ Admitted' = Admitted \cup {r} /\ pc[r] = "count"
        /\ UNCHANGED <<time, clock>>
    BY <1>0, <1>5 DEF Admit, Admitted, LimiterTypeOK
  <2>2. CASE r \in strays' \/ Client[r] # c
    <3>1. strays \subseteq strays'
      BY <1>5 DEF Admit
    <3> QED BY <1>4, <2>1, <2>2, <3>1 DEF Cutoff
  <2>3. CASE r \notin strays' /\ Client[r] = c
    <3> DEFINE valid == Recent(stamps[entry[r]], Cutoff(time[r]))
    <3>1. Counted(r) /\ strays' = strays
      BY <1>0, <1>5, <2>3 DEF Admit, LimiterTypeOK
    <3>2. Window_(c)' \subseteq valid \cup {r}
      <4> SUFFICES ASSUME NEW s \in Window_(c)', s # r PROVE s \in valid
        OBVIOUS
      <4>1. s \in Admitted \ strays /\ Client[s] = c /\ time[s] > Cutoff(clock)
        BY <2>1, <3>1 DEF Cutoff
      <4>2. s \in stamps[entry[s]] /\ entry[s] = clients[c]
        BY <1>0, <4>1 DEF WindowSeen
      <4>3. entry[s] = entry[r]
        BY <2>3, <3>1, <4>2 DEF Counted
      <4>4. s \in Requests /\ clock \in Int /\ time[s] \in Int /\ time[r] \in Int
        BY <1>0, <4>1 DEF LimiterTypeOK, Admitted
      <4>5. time[r] <= clock
        BY <1>0 DEF RequestsOK
      <4>6. time[s] > Cutoff(time[r])
        BY <4>1, <4>4, <4>5 DEF Cutoff
      <4> QED BY <4>2, <4>3, <4>6 DEF Recent
    <3>3. entry[r] \in Entries
      BY <1>0, <1>5 DEF Admit, LimiterTypeOK, RequestsOK
    <3>4. valid \in SUBSET Requests
      BY <1>0, <3>3 DEF Recent, LimiterTypeOK
    <3>5. IsFiniteSet(valid) /\ Cardinality(valid) \in Nat
      BY <3>4, FS_Subset, FS_CardinalityType
    <3>6. Cardinality(valid) < Limit
      BY <1>5 DEF Admit
    <3> HIDE DEF valid, Window_
    <3>7. /\ IsFiniteSet(valid \cup {r})
          /\ Cardinality(valid \cup {r}) <= Cardinality(valid) + 1
          /\ Cardinality(valid \cup {r}) \in Nat
      <4>1. /\ IsFiniteSet(valid \cup {r})
            /\ Cardinality(valid \cup {r}) =
                 IF r \in valid THEN Cardinality(valid) ELSE Cardinality(valid) + 1
        BY <3>5, FS_AddElement
      <4> QED BY <3>5, <4>1
    <3>8. /\ Cardinality(Window_(c)') <= Cardinality(valid \cup {r})
          /\ Cardinality(Window_(c)') \in Nat
      BY <3>2, <3>7, FS_Subset, FS_CardinalityType
    <3> QED BY <3>5, <3>6, <3>7, <3>8
  <2> QED BY <2>2, <2>3
<1>6. CASE \E r \in Requests : LookUp(r) \/ Create(r) \/ Reject(r)
  BY ZenonT(60), <1>0, <1>4, <1>6
     DEF LookUp, Create, Reject, Admitted, LimiterTypeOK, Cutoff
<1>7. CASE \E r \in Requests : ReadTime(r)
  BY <1>0, <1>4, <1>7 DEF ReadTime, Admitted, LimiterTypeOK, Cutoff
<1>8. CASE Cleanup
  BY <1>4, <1>8 DEF Cleanup, CleanBegin, CleanLock, CleanScan, CleanRemove,
                    CleanEnd, Admitted, Cutoff
<1>9. CASE Tick
  <2>1. \A s \in Requests : time[s] > Cutoff(clock)' => time[s] > Cutoff(clock)
    BY <1>0, <1>9 DEF Tick, LimiterTypeOK, Cutoff
  <2>2. Window_(c)' \subseteq Window_(c)
    BY <1>9, <2>1 DEF Tick, Admitted
  <2> QED BY <1>4, <2>2
<1>10. CASE UNCHANGED limiterVars
  BY <1>4, <1>10 DEF limiterVars, Admitted, Cutoff
<1> QED BY <1>5, <1>6, <1>7, <1>8, <1>9, <1>10 DEF LimiterNext, Allow

\* However many requests overlap with one another and with the cleaner, and
\* however long they wait between reading their time and their stamp, the window
\* that ends now holds no more than the limit's number of admitted requests of a
\* client, but for strays: requests that were stamped on an entry that the cleaner
\* had removed or was about to.
THEOREM OnlyStraysExceed == LimiterSpec => []LimitHolds
<1>1. LimiterInit => LimitHolds
  <2> SUFFICES ASSUME LimiterInit, NEW c \in Clients
               PROVE  Cardinality({r \in Admitted \ strays :
                          Client[r] = c /\ time[r] > Cutoff(clock)}) <= Limit
    BY DEF LimitHolds
  <2>1. Admitted = {}
    BY DEF LimiterInit, Admitted
  <2>2. {r \in Admitted \ strays :
           Client[r] = c /\ time[r] > Cutoff(clock)} = {}
    BY <2>1
  <2> QED BY <2>2, FS_EmptySet, LimiterAssumption
<1> QED BY <1>1, LimitStep, LimiterInductive, PTL DEF LimiterSpec

\* A rejected request has the limit's number of admitted requests of its own
\* client in its window, whatever entries came and went.
THEOREM RejectionsDeserved == LimiterSpec => RejectedRightly
<1> USE LimiterAssumption
<1> DEFINE Fair(r) ==
      Cardinality({s \in Admitted : /\ Client[s] = Client[r]
                                    /\ time[s] > Cutoff(time[r])}) >= Limit
<1>1. ASSUME LimiterInv, [LimiterNext]_limiterVars, NEW r \in Requests,
             pc[r] = "count", pc'[r] = "rejected"
      PROVE  Fair(r)
  <2>0. LimiterTypeOK /\ RequestsOK /\ EntriesOwned /\ StampsOwned
    BY <1>1 DEF LimiterInv
  <2>1. Reject(r)
    BY <1>1, <2>0 DEF LimiterNext, Allow, LookUp, Create, ReadTime, Admit, Reject,
          Cleanup, CleanBegin, CleanLock, CleanScan, CleanRemove, CleanEnd,
          Tick, limiterVars, LimiterTypeOK
  <2> DEFINE valid == Recent(stamps[entry[r]], Cutoff(time[r]))
             own == {s \in Admitted : /\ Client[s] = Client[r]
                                      /\ time[s] > Cutoff(time[r])}
  <2>2. entry[r] \in Entries
    BY <1>1, <2>0 DEF LimiterTypeOK, RequestsOK
  <2>3. valid \subseteq own
    BY <2>0, <2>2 DEF Recent, StampsOwned, EntriesOwned, Admitted, LimiterTypeOK
  <2>4. own \in SUBSET Requests
    BY DEF Admitted
  <2>5. Cardinality(valid) >= Limit
    BY <2>1 DEF Reject
  <2> HIDE DEF valid, own
  <2>6. IsFiniteSet(own) /\ Cardinality(own) \in Nat
    BY <2>4, FS_Subset, FS_CardinalityType
  <2>7. Cardinality(valid) <= Cardinality(own) /\ Cardinality(valid) \in Nat
    BY <2>3, <2>6, FS_Subset, FS_CardinalityType
  <2>8. Cardinality(own) >= Limit
    BY <2>5, <2>6, <2>7
  <2> QED BY <2>8 DEF own
<1>2. LimiterInv /\ [LimiterNext]_limiterVars =>
        [\A r \in Requests : pc[r] = "count" /\ pc'[r] = "rejected" => Fair(r)]_limiterVars
  BY <1>1
<1> QED BY <1>2, LimiterInductive, PTL DEF LimiterSpec, RejectedRightly

-----------------------------------------------------------------------------
(* The page cache.                                                         *)
(*                                                                         *)
(* HomepageKey \notin Slug: no content has the slug "_homepage", whose page *)
(* would have the homepage's key (page.go, HomepageKey and SlugKey).       *)

\* The unique index on (tenant_id, slug) keeps slugs apart.
SlugsUnique ==
  \A i, j \in Cid :
    /\ content[i] # NoRow /\ content[j] # NoRow
    /\ content[i].slug = content[j].slug
    => i = j

\* The inductive invariant: freshness needs only the types and the index.
PagesInv ==
  /\ TypeOK /\ SlugsUnique
  /\ LivePagesFresh /\ LookFresh

\* Rows and pages found are well typed.
LEMMA FoundTyped ==
  ASSUME TypeOK
  PROVE  /\ \A s \in Slug : FindBySlug(s) \subseteq SeenRow
         /\ PublishedPosts \subseteq SeenRow
<1>1. \A i \in Published : i \in Cid /\ content[i] \in ContentRow
  BY DEF TypeOK, Published, Live
<1>2. \A i \in Published : Seen(i) \in SeenRow
  BY <1>1 DEF Seen, SeenRow, ContentRow
<1> QED BY <1>2 DEF FindBySlug, PublishedPosts

\* The fields of a visitor and of an editor in each position.
LEMMA PositionFields ==
  /\ \A x \in Visiting :
       /\ x.pc \in {"query", "settings", "look", "store"} => x.key \in PageKey
       /\ x.pc \in {"settings", "look"} =>
            x.from \in {"page", "posts", "home"} /\ x.shown \in Shown
       /\ x.pc = "look" => x.settings \in Nat
       /\ x.pc = "store" => x.html \in Html
  /\ \A x \in Request :
       /\ x.pc = "update" => x.id \in Cid /\ x.row \in ContentRow
       /\ x.pc = "delete" => x.id \in Cid
       /\ x.pc \in {"delete", "purge"} => x.slug \in Slug
       /\ x.pc = "flush" => x.todo \subseteq PageKey
BY DEF Visiting, Request

\* At first there is neither content nor a cached page.
LEMMA PagesInitInv == Init => PagesInv
<1> SUFFICES ASSUME Init PROVE PagesInv
  OBVIOUS
<1> USE DEF Init
<1>1. TypeOK
  BY DEF TypeOK, Idle, Request, Visiting, Site
<1>2. SlugsUnique
  BY DEF SlugsUnique
<1>3. LivePagesFresh /\ LookFresh
  BY DEF LivePagesFresh, LookFresh, OutOfDate, Key,
         PageKey
<1> QED BY <1>1, <1>2, <1>3 DEF PagesInv

\* A visitor's step (Public.Homepage, Public.Page) keeps the types: what it
\* composes shows at least one row.
LEMMA VisitorTypeOK ==
  ASSUME TypeOK, NEW v \in Visitors,
         \/ \E k \in PageKey : CacheHit(v, k) \/ CacheMiss(v, k)
         \/ VisitorStep(v)
  PROVE  TypeOK'
<1>0. vis[v] \in Visiting
  BY DEF TypeOK
<1>1. ASSUME NEW x \in Visiting, Become(v, x), Reading
      PROVE  TypeOK'
  BY <1>1 DEF TypeOK, Become, Reading, dbVars
<1>2. Idle \in Visiting /\ [pc |-> "home"] \in Visiting
  BY DEF Idle, Visiting
<1>3. ASSUME NEW k \in PageKey, NEW o \in {"page", "posts", "home"},
             NEW found \in Shown, Compose(v, k, o, found), Reading
      PROVE  TypeOK'
  <2>1. [pc |-> "settings", key |-> k, from |-> o, shown |-> found] \in Visiting
    BY DEF Visiting
  <2> QED BY <1>1, <1>3, <2>1 DEF Compose
<1>4. CASE \E k \in PageKey : CacheHit(v, k)
  BY <1>1, <1>2, <1>4 DEF CacheHit, Leave
<1>5. CASE \E k \in PageKey : CacheMiss(v, k)
  <2>1. PICK k \in PageKey : CacheMiss(v, k)
    BY <1>5
  <2>2. [pc |-> "query", key |-> k] \in Visiting
    BY DEF Visiting
  <2> QED BY <1>1, <2>1, <2>2 DEF CacheMiss
<1>6. CASE QueryPage(v)
  <2>1. vis[v].key \in Slug
    BY <1>0, <1>6, PositionFields DEF QueryPage, PageKey
  <2>2. CASE FindBySlug(vis[v].key) = {}
    BY <1>1, <1>2, <1>6, <2>2 DEF QueryPage, Leave
  <2>3. CASE FindBySlug(vis[v].key) # {}
    <3>1. FindBySlug(vis[v].key) \in Shown
      BY <2>1, <2>3, FoundTyped DEF Shown
    <3> QED BY <1>3, <1>6, <2>1, <2>3, <3>1 DEF QueryPage, PageKey
  <2> QED BY <2>2, <2>3
<1>7. CASE QueryPosts(v)
  <2>1. CASE PublishedPosts = {}
    BY <1>1, <1>2, <1>7, <2>1 DEF QueryPosts
  <2>2. CASE PublishedPosts # {}
    <3>1. PublishedPosts \in Shown
      BY <2>2, FoundTyped DEF Shown
    <3> QED BY <1>3, <1>7, <2>2, <3>1 DEF QueryPosts, PageKey
  <2> QED BY <2>1, <2>2
<1>8. CASE QueryHome(v)
  <2>1. CASE FindBySlug(HomeSlug) = {}
    BY <1>1, <1>2, <1>8, <2>1 DEF QueryHome, Leave
  <2>2. CASE FindBySlug(HomeSlug) # {}
    <3>1. PICK i \in Published : content[i].slug = HomeSlug
      BY <2>2 DEF FindBySlug
    <3>2. HomeSlug \in Slug
      BY <3>1 DEF Published, Live, TypeOK, ContentRow
    <3>3. FindBySlug(HomeSlug) \in Shown
      BY <2>2, <3>2, FoundTyped DEF Shown
    <3> QED BY <1>3, <1>8, <2>2, <3>3 DEF QueryHome, PageKey
  <2> QED BY <2>1, <2>2
<1>9. CASE ReadSettings(v)
  <2> DEFINE x == [pc |-> "look", key |-> vis[v].key, from |-> vis[v].from,
                   shown |-> vis[v].shown, settings |-> site.settings]
  <2>1. x \in Visiting
    BY <1>0, <1>9, PositionFields DEF ReadSettings, Visiting, TypeOK, Site
  <2> QED BY <1>1, <1>9, <2>1 DEF ReadSettings
<1>10. CASE Render(v)
  <2> DEFINE h == [shown |-> vis[v].shown, links |-> Links, look |-> site.look,
                   names |-> site.names, settings |-> vis[v].settings]
  <2>0. Links \in SUBSET [id : Cid, slug : Slug]
    BY DEF Links, Live, TypeOK, Site, ContentRow
  <2>1. h \in Html /\ vis[v].key \in PageKey
    BY <1>0, <1>10, <2>0, PositionFields DEF Render, Html, TypeOK, Site
  <2>2. [pc |-> "store", key |-> vis[v].key, html |-> h] \in Visiting
    BY <2>1 DEF Visiting
  <2> QED BY <1>1, <1>10, <2>2 DEF Render
<1>11. CASE RenderFails(v)
  BY <1>1, <1>2, <1>11 DEF RenderFails, Leave
<1>12. CASE Store(v)
  <2> DEFINE k == vis[v].key
             old == {f \in Aspect : vis[v].html[f] # Now(k)[f]}
  <2>1. vis[v].html \in Html /\ k \in Key
    BY <1>0, <1>12, PositionFields DEF Store, Key
  <2>2. cache' \in [Key -> Html \cup {Miss}]
    BY <1>12, <2>1 DEF Store, TypeOK
  <2>3. old \subseteq Aspect /\ unpurged' = [unpurged EXCEPT ![k] = old]
    BY <1>12 DEF Store
  <2>4. unpurged' \in [Key -> SUBSET Aspect]
    BY <2>3 DEF TypeOK
  <2>5. vis' \in [Visitors -> Visiting]
    BY <1>2, <1>12 DEF Store, Leave, Become, TypeOK
  <2> QED BY <1>12, <2>2, <2>4, <2>5 DEF Store, TypeOK, dbVars
<1>13. CASE StoreFails(v)
  BY <1>1, <1>2, <1>13 DEF StoreFails, Leave
<1> QED
  BY <1>4, <1>5, <1>6, <1>7, <1>8, <1>9, <1>10, <1>11, <1>12, <1>13
     DEF VisitorStep

\* A step of an admin request (admin.go) keeps the types.
LEMMA EditorTypeOK ==
  ASSUME TypeOK, NEW a \in Admins, AdminBegin(a) \/ AdminStep(a)
  PROVE  TypeOK'
<1>0. adm[a] \in Request
  BY DEF TypeOK
<1>1. ASSUME NEW x \in Request, Continue(a, x)
      PROVE  adm' \in [Admins -> Request]
  BY <1>1 DEF Continue, TypeOK
<1>2. /\ Idle \in Request /\ [pc |-> "purgeHomepage"] \in Request
      /\ \A s \in Slug : Purging(s) \in Request
      /\ [pc |-> "profile"] \in Request
      /\ \A d \in SUBSET PageKey : [pc |-> "flush", todo |-> d] \in Request
      /\ FlushAll \in Request
  BY DEF FlushAll, Request, Idle, Purging
<1>3. Begin(a) => begun' \in Nat
  BY DEF Begin, TypeOK
<1>4. ASSUME NEW i \in Cid, NEW x \in ContentRow \cup {NoRow},
             content' = [content EXCEPT ![i] = x]
      PROVE  content' \in [Cid -> ContentRow \cup {NoRow}]
  BY <1>4 DEF TypeOK
<1>5. ASSUME NEW i \in Cid, NEW row \in ContentRow, ContentCreate(a, i, row)
      PROVE  TypeOK'
  <2>1. row.slug \in Slug
    BY DEF ContentRow
  <2>2. adm' \in [Admins -> Request] /\ begun' \in Nat
    BY <1>1, <1>2, <1>3, <1>5, <2>1 DEF ContentCreate
  <2>3. /\ content' \in [Cid -> ContentRow \cup {NoRow}]
        /\ born' \subseteq Cid
    BY <1>4, <1>5 DEF ContentCreate, TypeOK
  <2> QED BY <1>5, <2>2, <2>3 DEF ContentCreate, TypeOK
<1>6. ASSUME NEW i \in Cid, NEW row \in ContentRow, UpdateRead(a, i, row)
      PROVE  TypeOK'
  <2>1. [pc |-> "update", id |-> i, row |-> row] \in Request
    BY DEF Request
  <2> QED BY <1>1, <1>3, <1>6, <2>1 DEF UpdateRead, TypeOK, dbVars
<1>7. ASSUME NEW i \in Cid, DeleteRead(a, i)
      PROVE  TypeOK'
  <2>1. content[i].slug \in Slug
    BY <1>7 DEF DeleteRead, Live, TypeOK, ContentRow
  <2>2. [pc |-> "delete", id |-> i, slug |-> content[i].slug] \in Request
    BY <2>1 DEF Request
  <2> QED BY <1>1, <1>3, <1>7, <2>2 DEF DeleteRead, TypeOK, dbVars
<1>8. ASSUME NEW linked \in SUBSET Linkable, ChangeLook(a, linked)
      PROVE  TypeOK'
  <2>1. linked \in SUBSET Cid
    BY PageCacheAssumption
  <2>2. site' = [site EXCEPT !.look = @ + 1, !.linked = linked] /\ site \in Site
    BY <1>8 DEF ChangeLook, TypeOK
  <2>3. site' = [look |-> site.look + 1, names |-> site.names,
                 settings |-> site.settings, linked |-> linked]
    BY <2>2 DEF Site
  <2>4. site' \in Site
    BY <2>1, <2>2, <2>3 DEF Site
  <2>5. adm' \in [Admins -> Request] /\ begun' \in Nat
    BY <1>1, <1>2, <1>3, <1>8 DEF ChangeLook
  <2> QED BY <1>8, <2>4, <2>5 DEF ChangeLook, TypeOK
<1>17. CASE ProfileName(a)
  <2>1. site' \in Site
    BY <1>17 DEF ProfileName, TypeOK, Site
  <2> QED BY <1>1, <1>2, <1>3, <1>17, <2>1 DEF ProfileName, TypeOK
<1>18. CASE ProfileUpsert(a)
  <2>1. site' \in Site
    BY <1>18 DEF ProfileUpsert, TypeOK, Site
  <2> QED BY <1>1, <1>2, <1>18, <2>1 DEF ProfileUpsert, TypeOK
<1>19. CASE ProfileFails(a)
  <2>1. unpurged' \in [Key -> SUBSET Aspect]
    BY <1>19 DEF ProfileFails, TypeOK, Aspect
  <2> QED BY <1>1, <1>2, <1>19, <2>1 DEF ProfileFails, TypeOK, dbVars
<1>9. CASE SettingsSave(a)
  <2>1. site' \in Site
    BY <1>9 DEF SettingsSave, TypeOK, Site
  <2> QED BY <1>3, <1>9, <2>1 DEF SettingsSave, TypeOK
<1>10. CASE UpdateWrite(a)
  <2>1. /\ adm[a].id \in Cid /\ adm[a].row \in ContentRow
        /\ adm[a].row.slug \in Slug
    BY <1>0, <1>10, PositionFields DEF UpdateWrite, ContentRow
  <2>2. content' \in [Cid -> ContentRow \cup {NoRow}]
    BY <1>4, <1>10, <2>1 DEF UpdateWrite, TypeOK
  <2>3. adm' \in [Admins -> Request]
    BY <1>1, <1>2, <1>10, <2>1 DEF UpdateWrite
  <2> QED BY <1>10, <2>2, <2>3 DEF UpdateWrite, TypeOK
<1>11. CASE UpdateConflict(a)
  BY <1>1, <1>2, <1>11 DEF UpdateConflict, TypeOK, dbVars
<1>12. CASE DeleteWrite(a)
  <2>1. adm[a].id \in Cid /\ adm[a].slug \in Slug
    BY <1>0, <1>12, PositionFields DEF DeleteWrite
  <2>2. content' \in [Cid -> ContentRow \cup {NoRow}]
    BY <1>4, <1>12, <2>1 DEF DeleteWrite
  <2>3. adm' \in [Admins -> Request]
    BY <1>1, <1>2, <1>12, <2>1 DEF DeleteWrite
  <2> QED BY <1>12, <2>2, <2>3 DEF DeleteWrite, TypeOK
<1>13. CASE PurgePage(a)
  BY <1>1, <1>2, <1>13 DEF PurgePage, TypeOK, dbVars
<1>14. CASE PurgeHomepage(a)
  BY <1>1, <1>2, <1>14 DEF PurgeHomepage, TypeOK, dbVars
<1>15. ASSUME NEW batch \in SUBSET PageKey, FlushBatch(a, batch)
       PROVE  TypeOK'
  <2> DEFINE x == IF batch = adm[a].todo THEN Idle
                  ELSE [adm[a] EXCEPT !.todo = @ \ batch]
  <2>1. \E d \in SUBSET PageKey : adm[a] = [pc |-> "flush", todo |-> d]
    BY <1>0, <1>15 DEF FlushBatch, Request
  <2>2. x \in Request
    BY <1>2, <2>1
  <2>3. adm' \in [Admins -> Request]
    BY <1>1, <1>15, <2>2 DEF FlushBatch
  <2> QED BY <1>15, <2>3 DEF FlushBatch, TypeOK, dbVars
<1>16. CASE PurgeFails(a)
  BY <1>1, <1>2, <1>16 DEF PurgeFails, TypeOK, dbVars
<1> QED
  BY <1>5, <1>6, <1>7, <1>8, <1>9, <1>10, <1>11, <1>12, <1>13, <1>14, <1>15, <1>16,
     <1>17, <1>18, <1>19
     DEF AdminBegin, AdminStep

\* Every step keeps the types, those of failures and restarts included.
LEMMA PagesStepTypeOK ==
  ASSUME TypeOK, [Next]_vars
  PROVE  TypeOK'
<1>1. CASE \E v \in Visitors :
             \/ \E k \in PageKey : CacheHit(v, k) \/ CacheMiss(v, k)
             \/ VisitorStep(v)
  BY <1>1, VisitorTypeOK
<1>2. CASE \E a \in Admins : AdminBegin(a) \/ AdminStep(a)
  BY <1>2, EditorTypeOK
<1>3. CASE \E k \in Key : Expire(k)
  BY <1>3 DEF Expire, TypeOK, dbVars
<1>4. CASE Restart
  BY <1>4 DEF Restart, TypeOK, dbVars, Idle, Request,
              Visiting
<1>5. CASE UNCHANGED vars
  BY <1>5 DEF TypeOK, vars, dbVars
<1> QED BY <1>1, <1>2, <1>3, <1>4, <1>5 DEF Next

\* Whatever fails and restarts, a cached page shows at least one row: neither a
\* 404 nor the default homepage is ever stored (public.go, Homepage and Page).
THEOREM PagesTyped == Spec => []TypeOK
<1>1. Init => TypeOK
  BY PagesInitInv DEF PagesInv
<1> QED BY <1>1, PagesStepTypeOK, PTL DEF Spec

\* A request that moves on from neither a purge nor between the two writes of a
\* profile gives up nothing that is pending.
LEMMA PurgesPend ==
  ASSUME TypeOK, NEW a \in Admins, NEW x,
         adm[a].pc \notin {"purge", "flush", "profile"}, Continue(a, x)
  PROVE  \A k \in Key, f \in Aspect : Pending(k, f) => Pending(k, f)'
<1>1. ASSUME NEW k \in Key, NEW f \in Aspect, Pending(k, f)
      PROVE  Pending(k, f)'
  <2>1. PICK b \in Admins : \/ adm[b].pc = "purge" /\ adm[b].slug = k
                            \/ adm[b].pc = "flush" /\ k \in adm[b].todo
                            \/ adm[b].pc = "profile" /\ f = "names"
    BY <1>1 DEF Pending
  <2>2. b # a
    BY <2>1
  <2>3. adm'[b] = adm[b]
    BY <2>2 DEF Continue, TypeOK
  <2> QED BY <2>1, <2>3 DEF Pending
<1> QED BY <1>1

\* What freshness is about.
Watched == {"shown", "look", "names"}

\* A step that leaves the content, the look and the names alone keeps the pages fresh if of
\* each page it drops the entry, or changes neither that nor the excuses for it.
LEMMA QuietStepFresh ==
  ASSUME PagesInv, HomepageKey \notin Slug,
         content' = content, site'.look = site.look, site'.names = site.names,
         \A k \in PageKey :
           \/ cache'[k] = Miss
           \/ /\ cache'[k] = cache[k]
              /\ unpurged'[k] = unpurged[k]
              /\ \A f \in Watched : Pending(k, f) => Pending(k, f)'
  PROVE  LivePagesFresh' /\ LookFresh'
<1>1. \A k \in PageKey :
        /\ OutOfDate(k, "shown")' /\ k \in Slug => OutOfDate(k, "shown")
        /\ OutOfDate(k, "look")' => OutOfDate(k, "look")
        /\ OutOfDate(k, "names")' => OutOfDate(k, "names")
        /\ \A f \in Watched : cache'[k] # Miss /\ Excused(k, f) => Excused(k, f)'
  <2> TAKE k \in PageKey
  <2>1. Now(k).look' = Now(k).look /\ Now(k).names' = Now(k).names
    BY DEF Now
  <2>2. k \in Slug => Now(k).shown' = Now(k).shown
    BY DEF Now, FindBySlug, Published, Live, Seen
  <2>3. \A f \in Watched : cache'[k] # Miss /\ Excused(k, f) => Excused(k, f)'
    BY DEF Excused
  <2> QED BY <2>1, <2>2, <2>3 DEF OutOfDate
<1>2. \A s \in Slug : s \in PageKey /\ FindBySlug(s)' = FindBySlug(s)
  BY DEF PageKey, FindBySlug, Published, Live, Seen
<1>3. \A k \in PageKey, f \in Watched : OutOfDate(k, f)' => cache'[k] # Miss
  BY DEF OutOfDate
<1> QED
  BY <1>1, <1>2, <1>3 DEF PagesInv, LivePagesFresh, LookFresh, Watched

\* A row that becomes x takes its page out of the question if it moves or goes,
\* and changes no other page but the one of the slug that it gets.
LEMMA RowChanges ==
  ASSUME TypeOK, SlugsUnique, NEW i \in Cid, NEW x,
         content' = [content EXCEPT ![i] = x],
         NEW s \in Slug, x # NoRow => x.slug # s, FindBySlug(s)' # {}
  PROVE  FindBySlug(s)' = FindBySlug(s)
<1>1. \A j \in Cid : j # i => content'[j] = content[j]
  BY DEF TypeOK
<1>2. content'[i] = x
  BY DEF TypeOK
<1> DEFINE Shows == {j \in Published : content[j].slug = s}
<1>3. PICK j \in Shows' : TRUE
  BY DEF FindBySlug
<1>4. j \in Cid /\ j # i /\ content[j] # NoRow /\ content[j].slug = s
  BY <1>1, <1>2, <1>3 DEF Published, Live
<1>5. ~(content[i] # NoRow /\ content[i].slug = s)
  BY <1>4 DEF SlugsUnique
<1>6. Shows' = Shows /\ i \notin Shows
  BY <1>1, <1>2, <1>5 DEF Published, Live
<1>7. \A m \in Shows : Seen(m)' = Seen(m)
  BY <1>1, <1>6 DEF Published, Seen
<1> QED BY <1>6, <1>7 DEF FindBySlug

\* The content handlers' writes: the page of the slug a row gets is about to be
\* purged, and every other slug that still has a page shows what it did.
LEMMA ContentStepFresh ==
  ASSUME PagesInv, HomepageKey \notin Slug,
         NEW a \in Admins, adm[a].pc \notin {"purge", "flush", "profile"},
         NEW i \in Cid, NEW x, content' = [content EXCEPT ![i] = x],
         NEW s \in Slug, x # NoRow => x.slug = s,
         x # NoRow => SlugFree(i, s),
         Continue(a, Purging(s)), UNCHANGED <<site, cache, unpurged>>
  PROVE  SlugsUnique' /\ LivePagesFresh' /\ LookFresh'
<1>0. TypeOK /\ SlugsUnique
  BY DEF PagesInv
<1>1. SlugsUnique'
  <2>1. \A j \in Cid : j # i => content'[j] = content[j]
    BY <1>0 DEF TypeOK
  <2>2. content'[i] = x
    BY <1>0 DEF TypeOK
  <2>3. x # NoRow => \A j \in Cid \ {i} : content[j] # NoRow => content[j].slug # s
    BY DEF SlugFree, Live
  <2> QED BY <1>0, <2>1, <2>2, <2>3 DEF SlugsUnique
<1>2. \A k \in Key, f \in Aspect : Pending(k, f) => Pending(k, f)'
  BY <1>0, PurgesPend
<1>3. Pending(s, "shown")'
  BY <1>0 DEF Pending, Continue, Purging, TypeOK
<1>4. \A k \in PageKey, f \in Watched : Excused(k, f) => Excused(k, f)'
  BY <1>2 DEF Excused, Key, Watched, Aspect
<1>5. LookFresh'
  <2>1. \A k \in PageKey, f \in {"look", "names"} : OutOfDate(k, f)' => OutOfDate(k, f)
    BY DEF OutOfDate, Now
  <2>2. \A k \in PageKey, f \in {"look", "names"} : Excused(k, f) => Excused(k, f)'
    BY <1>4 DEF Watched
  <2> QED BY <2>1, <2>2 DEF PagesInv, LookFresh
<1>6. LivePagesFresh'
  <2>1. ASSUME NEW u \in Slug, FindBySlug(u)' # {}, OutOfDate(u, "shown")'
        PROVE  Excused(u, "shown")'
    <3>1. CASE u = s
      BY <1>3, <3>1 DEF Excused
    <3>2. CASE u # s
      <4>1. FindBySlug(u)' = FindBySlug(u)
        BY <1>0, <2>1, <3>2, RowChanges
      <4>2. OutOfDate(u, "shown")
        BY <2>1, <4>1 DEF OutOfDate, Now
      <4>3. Excused(u, "shown")
        BY <2>1, <4>1, <4>2 DEF PagesInv, LivePagesFresh
      <4> QED BY <1>4, <4>3 DEF PageKey, Watched
    <3> QED BY <3>1, <3>2
  <2> QED BY <2>1 DEF LivePagesFresh
<1> QED BY <1>1, <1>5, <1>6

\* PageCache.Set by a visitor: if the page is out of date already, it says so.
LEMMA StoreFresh ==
  ASSUME PagesInv, HomepageKey \notin Slug, NEW v \in Visitors, Store(v)
  PROVE  LivePagesFresh' /\ LookFresh'
<1> DEFINE key == vis[v].key
           old == {f \in Aspect : vis[v].html[f] # Now(key)[f]}
<1>0. TypeOK /\ key \in Key
  <2>1. vis[v] \in Visiting /\ vis[v].pc = "store"
    BY DEF PagesInv, TypeOK, Store
  <2> QED BY <2>1, PositionFields DEF PagesInv, Key
<1>1. /\ cache' = [cache EXCEPT ![key] = vis[v].html]
      /\ unpurged' = [unpurged EXCEPT ![key] = old]
      /\ content' = content /\ site' = site /\ adm' = adm
  BY DEF Store, dbVars
<1>2. /\ cache'[key] = vis[v].html /\ unpurged'[key] = old
      /\ \A k \in PageKey :
           k # key => cache'[k] = cache[k] /\ unpurged'[k] = unpurged[k]
  BY <1>0, <1>1 DEF TypeOK, Key
<1>3. \A k \in PageKey, f \in Watched : Now(k)[f]' = Now(k)[f]
  BY <1>1 DEF Now, Links, FindBySlug, PublishedPosts, Published,
              Live, Seen
<1>4. \A k \in PageKey, f \in Watched :
        OutOfDate(k, f)' =>
          \/ Excused(k, f)'
          \/ /\ OutOfDate(k, f)
             /\ Excused(k, f) => Excused(k, f)'
  <2> TAKE k \in PageKey, f \in Watched
  <2>1. CASE k = key
    <3>1. OutOfDate(k, f)' => f \in old
      BY <1>2, <1>3, <2>1 DEF OutOfDate, Aspect, Watched
    <3> QED BY <1>2, <2>1, <3>1 DEF Excused
  <2>2. CASE k # key
    BY <1>1, <1>2, <1>3, <2>2 DEF OutOfDate, Excused, Pending
  <2> QED BY <2>1, <2>2
<1>5. \A s \in Slug : s \in PageKey /\ FindBySlug(s)' = FindBySlug(s)
  BY <1>1 DEF PageKey, FindBySlug, Published, Live, Seen
<1> QED
  BY <1>4, <1>5 DEF PagesInv, LivePagesFresh, LookFresh, Watched

\* The step of a visitor keeps the pages fresh.
LEMMA VisitorFresh ==
  ASSUME PagesInv, HomepageKey \notin Slug, NEW v \in Visitors,
         \/ \E k \in PageKey : CacheHit(v, k) \/ CacheMiss(v, k)
         \/ VisitorStep(v)
  PROVE  SlugsUnique' /\ LivePagesFresh' /\ LookFresh'
<1>1. content' = content
  BY DEF VisitorStep, CacheHit, CacheMiss, QueryPage,
         QueryPosts, QueryHome, ReadSettings, Render,
         RenderFails, Store, StoreFails, Reading, dbVars
<1>2. SlugsUnique'
  BY <1>1 DEF PagesInv, SlugsUnique
<1>3. CASE Store(v)
  BY <1>2, <1>3, StoreFresh
<1>4. CASE Reading
  <2>1. /\ content' = content /\ site' = site /\ cache' = cache
        /\ unpurged' = unpurged /\ adm' = adm
    BY <1>4 DEF Reading, dbVars
  <2>2. \A k \in PageKey, f \in Watched : Pending(k, f)' = Pending(k, f)
    BY <2>1 DEF Pending
  <2> QED BY <1>2, <2>1, <2>2, QuietStepFresh
<1> QED
  BY <1>3, <1>4
     DEF VisitorStep, CacheHit, CacheMiss, QueryPage,
         QueryPosts, QueryHome, ReadSettings, Render,
         RenderFails, StoreFails

\* The purges of an editor keep the pages fresh: what they stop promising to
\* drop they have dropped (InvalidatePage, InvalidateAll).
LEMMA PurgeFresh ==
  ASSUME PagesInv, HomepageKey \notin Slug, NEW a \in Admins,
         \/ PurgePage(a)
         \/ PurgeHomepage(a)
         \/ \E batch \in SUBSET PageKey : FlushBatch(a, batch)
  PROVE  SlugsUnique' /\ LivePagesFresh' /\ LookFresh'
<1>0. TypeOK /\ adm[a] \in Request
  BY DEF PagesInv, TypeOK
<1>1. content' = content /\ site' = site /\ unpurged' = unpurged
  BY DEF PurgePage, PurgeHomepage, FlushBatch, dbVars
<1>2. SlugsUnique'
  BY <1>1 DEF PagesInv, SlugsUnique
<1>3. \A b \in Admins : b # a => adm'[b] = adm[b]
  BY <1>0 DEF PurgePage, PurgeHomepage, FlushBatch, Continue,
              TypeOK
<1>4. CASE PurgePage(a)
  <2>1. adm[a].slug \in Key
    BY <1>0, <1>4, PositionFields DEF PurgePage, Key, PageKey
  <2>2. cache'[adm[a].slug] = Miss
    BY <1>0, <1>4, <2>1 DEF PurgePage, TypeOK
  <2>3. \A k \in PageKey : k # adm[a].slug => cache'[k] = cache[k]
    BY <1>0, <1>4, <2>1 DEF PurgePage, TypeOK, Key
  <2>4. \A k \in PageKey, f \in Watched :
          k # adm[a].slug /\ Pending(k, f) => Pending(k, f)'
    BY <1>3, <1>4 DEF Pending, PurgePage
  <2> QED BY <1>1, <1>2, <2>2, <2>3, <2>4, QuietStepFresh
<1>5. CASE PurgeHomepage(a)
  <2>1. \A k \in PageKey : cache'[k] = cache[k] \/ cache'[k] = Miss
    BY <1>0, <1>5 DEF PurgeHomepage, TypeOK, Key
  <2>2. \A k \in PageKey, f \in Watched : Pending(k, f) => Pending(k, f)'
    BY <1>3, <1>5 DEF Pending, PurgeHomepage
  <2> QED BY <1>1, <1>2, <2>1, <2>2, QuietStepFresh
<1>6. ASSUME NEW batch \in SUBSET PageKey, FlushBatch(a, batch)
      PROVE  SlugsUnique' /\ LivePagesFresh' /\ LookFresh'
  <2>1. PICK d \in SUBSET PageKey : adm[a] = [pc |-> "flush", todo |-> d]
    BY <1>0, <1>6 DEF FlushBatch, Request
  <2>2. \A k \in PageKey :
          IF k \in batch THEN cache'[k] = Miss ELSE cache'[k] = cache[k]
    BY <1>6 DEF FlushBatch, Key
  <2>3. \A k \in PageKey, f \in Watched :
          k \notin batch /\ Pending(k, f) => Pending(k, f)'
    <3> SUFFICES ASSUME NEW k \in PageKey, NEW f \in Watched, k \notin batch,
                        Pending(k, f)
                 PROVE  Pending(k, f)'
      OBVIOUS
    <3>1. PICK b \in Admins : \/ adm[b].pc = "purge" /\ adm[b].slug = k
                              \/ adm[b].pc = "flush" /\ k \in adm[b].todo
                              \/ adm[b].pc = "profile" /\ f = "names"
      BY DEF Pending
    <3>2. CASE b # a
      BY <1>3, <3>1, <3>2 DEF Pending
    <3>3. CASE b = a
      <4>1. k \in d /\ batch # d
        BY <2>1, <3>1, <3>3
      <4>2. adm'[a] = [adm[a] EXCEPT !.todo = @ \ batch]
        BY <1>0, <1>6, <2>1, <4>1 DEF FlushBatch, Continue, TypeOK
      <4>3. adm'[a].pc = "flush" /\ k \in adm'[a].todo
        BY <2>1, <4>1, <4>2
      <4> QED BY <4>3 DEF Pending
    <3> QED BY <3>2, <3>3
  <2> QED BY <1>1, <1>2, <2>2, <2>3, QuietStepFresh
<1> QED BY <1>4, <1>5, <1>6

\* Every step keeps the invariant if no call fails and nothing is restarted.
LEMMA PagesStepInv ==
  ASSUME PagesInv, HomepageKey \notin Slug, ~Faults, [Next]_vars
  PROVE  PagesInv'
<1>0. TypeOK /\ TypeOK'
  BY PagesStepTypeOK DEF PagesInv
<1> SUFFICES SlugsUnique' /\ LivePagesFresh' /\ LookFresh'
  BY <1>0 DEF PagesInv
<1>1. CASE \E v \in Visitors :
             \/ \E k \in PageKey : CacheHit(v, k) \/ CacheMiss(v, k)
             \/ VisitorStep(v)
  BY <1>1, VisitorFresh
<1>2. ASSUME NEW a \in Admins, AdminBegin(a) \/ AdminStep(a)
      PROVE  SlugsUnique' /\ LivePagesFresh' /\ LookFresh'
  <2>0. Begin(a) => adm[a].pc = "idle"
    BY DEF Begin, Idle
  <2>1. ASSUME content' = content, site' = site, cache' = cache, unpurged' = unpurged,
               adm[a].pc \notin {"purge", "flush", "profile"}, NEW x, Continue(a, x)
        PROVE  SlugsUnique' /\ LivePagesFresh' /\ LookFresh'
    <3>1. \A k \in PageKey, f \in Watched : Pending(k, f) => Pending(k, f)'
      BY <1>0, <2>1, PurgesPend DEF Key, Watched, Aspect
    <3>2. SlugsUnique'
      BY <2>1 DEF PagesInv, SlugsUnique
    <3> QED BY <2>1, <3>1, <3>2, QuietStepFresh
  <2>2. ASSUME NEW i \in Cid, NEW row \in ContentRow, ContentCreate(a, i, row)
        PROVE  SlugsUnique' /\ LivePagesFresh' /\ LookFresh'
    <3>1. row.slug \in Slug
      BY DEF ContentRow
    <3> QED BY <2>0, <2>2, <3>1, ContentStepFresh DEF ContentCreate
  <2>3. CASE \E i \in Cid, row \in ContentRow : UpdateRead(a, i, row)
    BY <2>0, <2>1, <2>3 DEF UpdateRead, dbVars
  <2>4. CASE \E i \in Cid : DeleteRead(a, i)
    BY <2>0, <2>1, <2>4 DEF DeleteRead, dbVars
  <2>5. ASSUME content' = content, Continue(a, FlushAll)
        PROVE  SlugsUnique' /\ LivePagesFresh' /\ LookFresh'
    <3>1. \A k \in PageKey, f \in Watched : Pending(k, f)'
      BY <1>0, <2>5 DEF FlushAll, Continue, Pending, TypeOK
    <3>2. SlugsUnique'
      BY <2>5 DEF PagesInv, SlugsUnique
    <3> QED
      BY <3>1, <3>2 DEF LivePagesFresh, LookFresh, Excused, PageKey, Watched
  <2>12. CASE \E linked \in SUBSET Linkable : ChangeLook(a, linked)
    BY <2>5, <2>12 DEF ChangeLook
  <2>13. CASE ProfileName(a)
    <3>1. /\ content' = content /\ site'.look = site.look
          /\ cache' = cache /\ unpurged' = unpurged
      BY <1>0, <2>13 DEF ProfileName, TypeOK, Site
    <3>2. \A k \in PageKey, f \in Watched : Pending(k, f) => Pending(k, f)'
      BY <1>0, <2>0, <2>13, PurgesPend DEF ProfileName, Key, Watched, Aspect
    <3>3. \A k \in PageKey, f \in Watched : Excused(k, f) => Excused(k, f)'
      BY <3>1, <3>2 DEF Excused
    <3>4. \A k \in PageKey, f \in {"names"} : Excused(k, f)'
      BY <1>0, <2>13 DEF ProfileName, Continue, Excused, Pending, TypeOK
    <3>5. \A k \in PageKey, f \in {"look", "shown"} : OutOfDate(k, f)' => OutOfDate(k, f)
      <4>1. \A k \in PageKey : /\ Now(k).look' = Now(k).look
                                /\ Now(k).shown' = Now(k).shown
        BY <3>1 DEF Now, FindBySlug, PublishedPosts, Published, Live, Seen
      <4> QED BY <3>1, <4>1 DEF OutOfDate
    <3>6. LookFresh'
      BY <3>3, <3>4, <3>5 DEF PagesInv, LookFresh, Watched
    <3>7. \A s \in Slug : s \in PageKey /\ FindBySlug(s)' = FindBySlug(s)
      BY <3>1 DEF PageKey, FindBySlug, Published, Live, Seen
    <3>8. LivePagesFresh'
      BY <3>3, <3>5, <3>7 DEF PagesInv, LivePagesFresh, Watched
    <3>9. SlugsUnique'
      BY <3>1 DEF PagesInv, SlugsUnique
    <3> QED BY <3>6, <3>8, <3>9
  <2>14. CASE ProfileUpsert(a)
    BY <2>5, <2>14 DEF ProfileUpsert
  <2>15. CASE ProfileFails(a)
    <3>1. /\ content' = content /\ site' = site /\ cache' = cache
          /\ adm[a].pc = "profile"
          /\ \A b \in Admins : b # a => adm'[b] = adm[b]
      BY <1>0, <2>15 DEF ProfileFails, dbVars, Continue, TypeOK
    <3>2. \A k \in PageKey, f \in Watched : OutOfDate(k, f)' = OutOfDate(k, f)
      BY <3>1 DEF OutOfDate, Now, FindBySlug, PublishedPosts, Published, Live, Seen,
                  Links, Watched
    <3>3. \A k \in PageKey : unpurged[k] \subseteq unpurged'[k]
      BY <2>15 DEF ProfileFails, Key
    <3>4. \A k \in PageKey, f \in {"names"} : OutOfDate(k, f) => f \in unpurged'[k]
      BY <2>15 DEF ProfileFails, Key
    <3>5. \A k \in PageKey, f \in {"names"} : OutOfDate(k, f)' => Excused(k, f)'
      BY <3>2, <3>4 DEF Excused, Watched
    <3>6. \A k \in PageKey, f \in {"look", "shown"} : Excused(k, f) => Excused(k, f)'
      BY <3>1, <3>3 DEF Excused, Pending
    <3>8. LookFresh'
      BY <3>2, <3>5, <3>6 DEF PagesInv, LookFresh, Watched
    <3>9. \A s \in Slug : s \in PageKey /\ FindBySlug(s)' = FindBySlug(s)
      BY <3>1 DEF PageKey, FindBySlug, Published, Live, Seen
    <3>10. LivePagesFresh'
      BY <3>2, <3>6, <3>9 DEF PagesInv, LivePagesFresh, Watched
    <3>7. SlugsUnique'
      BY <3>1 DEF PagesInv, SlugsUnique
    <3> QED BY <3>7, <3>8, <3>10
  <2>6. CASE SettingsSave(a)
    <3>1. /\ content' = content /\ cache' = cache
          /\ site'.look = site.look /\ site'.names = site.names
          /\ unpurged' = unpurged /\ adm' = adm
      BY <1>0, <2>6 DEF SettingsSave, TypeOK, Site
    <3>2. \A k \in PageKey, f \in Watched : Pending(k, f) => Pending(k, f)'
      BY <3>1 DEF Pending
    <3>3. SlugsUnique'
      BY <3>1 DEF PagesInv, SlugsUnique
    <3> QED BY <3>1, <3>2, <3>3, QuietStepFresh
  <2>7. CASE UpdateWrite(a)
    <3>1. adm[a].id \in Cid /\ adm[a].row \in ContentRow
      BY <1>0, <2>7, PositionFields DEF UpdateWrite, TypeOK
    <3>2. adm[a].row.slug \in Slug /\ adm[a].pc = "update"
      BY <2>7, <3>1 DEF ContentRow, UpdateWrite
    <3>3. CASE Live(adm[a].id)
      BY <2>7, <3>1, <3>2, <3>3, ContentStepFresh DEF UpdateWrite
    <3>4. CASE ~Live(adm[a].id)
      BY <2>1, <2>7, <3>2, <3>4 DEF UpdateWrite
    <3> QED BY <3>3, <3>4
  <2>8. CASE UpdateConflict(a)
    BY <2>1, <2>8 DEF UpdateConflict, dbVars
  <2>9. CASE DeleteWrite(a)
    <3>1. adm[a].id \in Cid /\ adm[a].slug \in Slug /\ adm[a].pc = "delete"
      BY <1>0, <2>9, PositionFields DEF DeleteWrite, TypeOK
    <3> QED BY <2>9, <3>1, ContentStepFresh DEF DeleteWrite
  <2>10. CASE \/ PurgePage(a)
              \/ PurgeHomepage(a)
              \/ \E batch \in SUBSET PageKey : FlushBatch(a, batch)
    BY <2>10, PurgeFresh
  <2>11. ~PurgeFails(a)
    BY DEF PurgeFails
  <2> QED
    BY <1>2, <2>2, <2>3, <2>4, <2>5, <2>6, <2>7, <2>8, <2>9, <2>10, <2>11,
       <2>12, <2>13, <2>14, <2>15
       DEF AdminBegin, AdminStep
<1>3. CASE \E k \in Key : Expire(k)
  <2>1. /\ content' = content /\ site' = site /\ unpurged' = unpurged /\ adm' = adm
        /\ \A k \in PageKey : cache'[k] = cache[k] \/ cache'[k] = Miss
    BY <1>0, <1>3 DEF Expire, dbVars, TypeOK, Key
  <2>2. \A k \in PageKey, f \in Watched : Pending(k, f) => Pending(k, f)'
    BY <2>1 DEF Pending
  <2>3. SlugsUnique'
    BY <2>1 DEF PagesInv, SlugsUnique
  <2> QED BY <2>1, <2>2, <2>3, QuietStepFresh
<1>4. ~Restart
  BY DEF Restart
<1>5. CASE UNCHANGED vars
  <2>1. /\ content' = content /\ site' = site /\ cache' = cache
        /\ unpurged' = unpurged /\ adm' = adm
    BY <1>5 DEF vars, dbVars
  <2>2. \A k \in PageKey, f \in Watched : Pending(k, f) => Pending(k, f)'
    BY <2>1 DEF Pending
  <2>3. SlugsUnique'
    BY <2>1 DEF PagesInv, SlugsUnique
  <2> QED BY <2>1, <2>2, <2>3, QuietStepFresh
<1> QED BY <1>1, <1>2, <1>3, <1>4, <1>5 DEF Next

\* The invariant holds throughout a behaviour without failures.
LEMMA PagesInductive ==
  ASSUME HomepageKey \notin Slug, ~Faults
  PROVE  Spec => []PagesInv
BY PagesInitInv, PagesStepInv, PTL DEF Spec

\* As long as no call to Valkey fails and nothing is restarted, the page of a
\* published row shows the row as it is now, but for a purge still under way
\* and a page that was out of date when stored (updateContent, createContent,
\* deleteContent, InvalidatePage).
THEOREM LivePagesStayFresh ==
  ASSUME HomepageKey \notin Slug, ~Faults
  PROVE  Spec => []LivePagesFresh
<1>1. PagesInv => LivePagesFresh
  BY DEF PagesInv
<1> QED BY <1>1, PagesInductive, PTL

\* Likewise every cached page shows the templates, items of the menus, avatars,
\* display names and profiles of the database, but for an InvalidateAll still under
\* way, a page that was out of date when stored, and a new display name whose
\* ProfileSave is between its two writes or failed at the second one.  The URLs of
\* menu items that link to contents are not among them: a rename or a deletion does
\* not purge the pages whose menus show the old one.
THEOREM LooksStayFresh ==
  ASSUME HomepageKey \notin Slug, ~Faults
  PROVE  Spec => []LookFresh
<1>1. PagesInv => LookFresh
  BY DEF PagesInv
<1> QED BY <1>1, PagesInductive, PTL
=============================================================================
