--------------------------- MODULE ScheduleProofs ---------------------------
(***************************************************************************)
(* The schedule sweep: one run for an instant, a row that follows the      *)
(* newest version, and a claim that is released only when it was answered; *)
(* for every set of replicas, documents and instants and every bound.      *)
(***************************************************************************)
EXTENDS Schedule, TLAPS, WellFoundedInduction

Row == [id : 1..MaxEntries, version : 1..MaxVersions, enabled : BOOLEAN,
        next : Nat, claimed : Nat]
Arm == [rollout : 0..MaxRollouts, variant : Variant]
Holder == [pc : {"owner", "lookup", "load", "start", "advance", "drop"},
           id : 1..MaxEntries, due : Nat, at : 0..MaxTime, version : 1..MaxVersions,
           status : {"active", "paused"}, arm : Arm]
Key == (1..MaxEntries) \X Nat
Run == RunOf(Key, Nat)

-----------------------------------------------------------------------------
(***************************************************************************)
(* The strengthening.  A tick is the pair of a row's id and an instant: a  *)
(* replica that holds one carries it (Held), a run is keyed by it          *)
(* (Started).  Ticks are in order: the instant of a tick has passed, and   *)
(* every tick of an older row is earlier than every tick of a newer one,   *)
(* so two rows never name the same instant; within a row the key tells     *)
(* ticks apart.  A new row's first instant lies in the future of its       *)
(* insert, and a row that moves on moves past the clock its holder read    *)
(* when it claimed.                                                        *)
(***************************************************************************)
Held    == {Tick(sweep[s]) : s \in {r \in Replica : sweep[r].pc # "idle"}}
Started == {runs[i].key : i \in DOMAIN runs}

InOrder(T) == \A t, u \in T : t[1] < u[1] => t[2] < u[2]
Passed(T)  == \A t \in T : t[1] \in 1..entries /\ t[2] \in Instants /\ t[2] <= now

TicksAreOrdered ==
    /\ Passed(Held \cup Started) /\ InOrder(Held \cup Started)
    /\ entry # NoEntry => \A t \in Held \cup Started : t[1] < entry.id => t[2] < Due(entry)

RowIsSound ==
    entry # NoEntry =>
        IF entry.claimed = NoTime THEN entry.next \in Instants
        ELSE /\ entry.claimed \in Instants /\ entry.claimed <= now
             /\ entry.next \in {Leased, Lapsed}

KeyIsTick ==
    /\ \A i \in DOMAIN runs : runs[i].tick = runs[i].key[2]
    /\ \A i, j \in DOMAIN runs : runs[i].key = runs[j].key => i = j

HoldersAreSound ==
    \A s \in Replica : sweep[s].pc # "idle" =>
        /\ sweep[s].due <= sweep[s].at /\ sweep[s].at <= now
        /\ sweep[s].pc = "advance" => KeyUsed(Tick(sweep[s]))

ScheduleInv ==
    /\ ScheduleTypeOK /\ status \in {"active", "paused"}
    /\ EntryFollowsLatest /\ RowIsSound /\ HoldersAreSound
    /\ TicksAreOrdered /\ KeyIsTick

-----------------------------------------------------------------------------
(* What a step may do, and that the invariant survives it. *)

(* The row goes, keeps or postpones its tick, or is a new one due later. *)
RowMoves ==
    /\ RowIsSound'
    /\ \/ entry' = NoEntry
       \/ entry # NoEntry /\ entry'.id = entry.id /\ Due(entry) <= Due(entry')
       \/ entry'.id = entries + 1 /\ now < Due(entry')

(* A replica stops, works on with its tick, or claims the row's. *)
HolderMoves(s) ==
    \/ sweep'[s].pc = "idle"
    \/ /\ sweep[s].pc # "idle"
       /\ sweep'[s].id = sweep[s].id /\ sweep'[s].due = sweep[s].due /\ sweep'[s].at = sweep[s].at
       /\ sweep'[s].pc = "advance" => (sweep[s].pc = "advance" \/ KeyUsed(Tick(sweep[s]))')
    \/ /\ Claimable(entry) /\ sweep'[s].pc = "owner"
       /\ sweep'[s].id = entry.id /\ sweep'[s].due = Due(entry) /\ sweep'[s].at = now

(* A run is started for a tick some replica holds and no run has. *)
StartedFor(s, x) ==
    /\ sweep[s].pc # "idle" /\ ~KeyUsed(Tick(sweep[s]))
    /\ x.key = Tick(sweep[s]) /\ x.tick = sweep[s].due
RunsMove ==
    \/ runs' = runs
    \/ \E s \in Replica, x \in Run : StartedFor(s, x) /\ runs' = Append(runs, x)

SoundStep ==
    /\ ScheduleTypeOK' /\ status' \in {"active", "paused"} /\ EntryFollowsLatest'
    /\ now <= now' /\ entries <= entries'
    /\ RowMoves /\ RunsMove /\ \A s \in Replica : HolderMoves(s)

LEMMA Rows ==
    ASSUME ScheduleTypeOK
    PROVE  /\ sweep \in [Replica -> {Idle} \cup Holder] /\ runs \in Seq(Run)
           /\ entry \in {NoEntry} \cup Row
           /\ now \in 0..MaxTime /\ entries \in 0..MaxEntries /\ faults \in 0..MaxFaults
           /\ versions \in Seq(Doc) /\ Latest \in 1..MaxVersions
           /\ rollouts \in Seq(Rollout) /\ Len(rollouts) <= MaxRollouts
           /\ Len(runs) <= MaxRuns /\ deleted \in BOOLEAN
           /\ \A s \in Replica : sweep[s].pc # "idle" => sweep[s] \in Holder
           /\ \A i \in DOMAIN runs : runs[i] \in Run
<1>1. sweep \in [Replica -> {Idle} \cup Holder]
  BY DEF ScheduleTypeOK, Holder, Arm
<1>2. runs \in Seq(Run)
  BY DEF ScheduleTypeOK, DeploymentTypeOK, Run, Key
<1>3. \A s \in Replica : sweep[s].pc # "idle" => sweep[s] \in Holder
  BY <1>1 DEF Idle
<1>4. entry \in {NoEntry} \cup Row
  <2>1. entries \in 0..MaxEntries /\ Latest \in 1..MaxVersions
    BY DEF ScheduleTypeOK, DeploymentTypeOK
  <2>2. 1..entries \subseteq 1..MaxEntries /\ 1..Latest \subseteq 1..MaxVersions
    BY <2>1, ScheduleBounds, DeploymentBounds
  <2> QED
    BY <2>2 DEF ScheduleTypeOK, Row
<1> QED
  BY <1>1, <1>2, <1>3, <1>4 DEF ScheduleTypeOK, DeploymentTypeOK

LEMMA RowFields ==
    /\ NoEntry.id = 0 /\ NoEntry.next = NoTime /\ NoEntry.claimed = NoTime
    /\ \A e \in Row : /\ e.id \in 1..MaxEntries /\ e.id # 0 /\ e.version \in 1..MaxVersions
                      /\ e.enabled \in BOOLEAN /\ e.next \in Nat /\ e.claimed \in Nat
                      /\ Due(e) \in Nat
    /\ Leased # NoTime /\ Leased \in Nat /\ NoTime \in Nat /\ Lapsed \in Nat /\ Lapsed # NoTime
BY ScheduleBounds DEF NoEntry, Row, Due, Leased, NoTime, Lapsed

LEMMA HolderFields ==
    /\ Idle.pc = "idle"
    /\ \A h \in Holder : /\ h.pc # "idle" /\ h.id \in 1..MaxEntries /\ h.due \in Nat
                         /\ h.at \in 0..MaxTime /\ h.version \in 1..MaxVersions
                         /\ h.arm \in Arm /\ Tick(h) = <<h.id, h.due>> /\ Tick(h) \in Key
BY DEF Idle, Holder, Tick, Key

\* The tick of a due row has passed.
LEMMA DueHasPassed ==
    ASSUME ScheduleInv, Claimable(entry)
    PROVE  /\ entry \in Row /\ entry.id = entries /\ Due(entry) \in Instants /\ Due(entry) <= now
<1>1. entry # NoEntry /\ entry \in Row
  BY Rows DEF ScheduleInv, Claimable
<1>2. entry.id = entries
  BY <1>1 DEF ScheduleInv, EntryFollowsLatest
<1> QED
  BY <1>1, <1>2 DEF ScheduleInv, RowIsSound, Claimable, Due

LEMMA SoundStepKeeps ==
    ASSUME ScheduleInv, SoundStep
    PROVE  ScheduleInv'
<1> DEFINE T == Held \cup Started
           U == Held' \cup Started'
           claimed == <<entry.id, Due(entry)>>
<1>0. ScheduleTypeOK /\ ScheduleTypeOK'
  BY DEF ScheduleInv, SoundStep
<1>1. /\ runs \in Seq(Run) /\ entry \in {NoEntry} \cup Row
      /\ now \in Nat /\ entries \in Nat /\ MaxTime \in Nat
      /\ \A s \in Replica : sweep[s].pc # "idle" => sweep[s] \in Holder
  BY <1>0, Rows, ScheduleBounds
<1>2. /\ entry' \in {NoEntry} \cup Row /\ now' \in Nat /\ entries' \in Nat
      /\ \A s \in Replica : sweep'[s].pc # "idle" => sweep'[s] \in Holder
  <2>1. /\ entry' = NoEntry \/ entry' \in [id : 1..entries', version : 1..Latest', enabled : BOOLEAN,
                                           next : Nat, claimed : Nat]
        /\ now' \in 0..MaxTime /\ entries' \in 0..MaxEntries /\ Latest' \in 1..MaxVersions
        /\ sweep' \in [Replica -> {Idle} \cup Holder]
    BY <1>0 DEF ScheduleTypeOK, DeploymentTypeOK, Holder, Arm
  <2>2. 1..entries' \subseteq 1..MaxEntries /\ 1..Latest' \subseteq 1..MaxVersions
    BY <2>1, ScheduleBounds, DeploymentBounds
  <2> QED
    BY <2>1, <2>2, <1>1 DEF Row, Idle
<1>3. /\ \A t \in T : t[1] \in 1..entries /\ t[2] \in Instants /\ t[2] <= now
      /\ \A t, u \in T : t[1] < u[1] => t[2] < u[2]
      /\ entry # NoEntry => \A t \in T : t[1] < entry.id => t[2] < Due(entry)
  BY DEF ScheduleInv, TicksAreOrdered, Passed, InOrder
<1>4. \A s \in Replica : sweep[s].pc # "idle" => Tick(sweep[s]) \in T
  BY DEF Held
<1>5. Started' = Started \/ \E s \in Replica : sweep[s].pc # "idle" /\ Started' = Started \cup {Tick(sweep[s])}
  <2>1. CASE runs' = runs
    BY <2>1 DEF Started
  <2>2. ASSUME NEW s \in Replica, NEW x \in Run, StartedFor(s, x), runs' = Append(runs, x)
        PROVE  sweep[s].pc # "idle" /\ Started' = Started \cup {Tick(sweep[s])}
    <3>1. PICK k : k = Len(runs) + 1
      OBVIOUS
    <3>2. /\ DOMAIN runs' = DOMAIN runs \cup {k} /\ runs'[k] = x
          /\ \A i \in DOMAIN runs : runs'[i] = runs[i]
      BY <1>1, <2>2, <3>1
    <3> QED
      BY <2>2, <3>2 DEF StartedFor, Started
  <2> QED
    BY <2>1, <2>2 DEF SoundStep, RunsMove
<1>6. \A t \in Held' : t \in Held \/ (Claimable(entry) /\ t = claimed)
  <2> SUFFICES ASSUME NEW s \in Replica, sweep'[s].pc # "idle"
               PROVE  \/ Tick(sweep'[s]) \in Held
                      \/ Claimable(entry) /\ Tick(sweep'[s]) = claimed
    BY DEF Held, Tick
  <2> QED
    BY DEF SoundStep, HolderMoves, Held, Tick
<1>7. \A t \in U : t \in T \/ (Claimable(entry) /\ t = claimed)
  BY <1>4, <1>5, <1>6
<1>8. Claimable(entry) => /\ claimed[1] \in 1..entries /\ claimed[2] \in Instants /\ claimed[2] <= now
                          /\ claimed[1] = entries /\ entry # NoEntry /\ claimed[1] = entry.id
                          /\ claimed[2] = Due(entry)
  BY <1>1, DueHasPassed, RowFields DEF Claimable
<1> HIDE DEF T, U, claimed
<1>9. Instants \subseteq Nat /\ now <= now' /\ entries <= entries'
  BY ScheduleBounds DEF SoundStep
<1>10. \A t \in U : t[1] \in 1..entries /\ t[2] \in Instants /\ t[2] <= now
  BY <1>3, <1>7, <1>8
<1>11. \A t, u \in U : t[1] < u[1] => t[2] < u[2]
  BY <1>1, <1>3, <1>7, <1>8, <1>9
<1>12. entry # NoEntry => entry.id = entries /\ \A t \in U : t[1] < entry.id => t[2] < Due(entry)
  BY <1>1, <1>3, <1>7, <1>8 DEF ScheduleInv, EntryFollowsLatest
<1>13. TicksAreOrdered'
  <2>1. \A t \in U : t[1] \in 1..entries' /\ t[2] \in Instants /\ t[2] <= now'
    <3> SUFFICES ASSUME NEW t \in U PROVE t[1] \in 1..entries' /\ t[2] \in Instants /\ t[2] <= now'
      OBVIOUS
    <3>1. t[1] \in 1..entries /\ t[2] \in Nat /\ t[2] \in Instants /\ t[2] <= now
      BY <1>9, <1>10
    <3> QED
      BY <1>1, <1>2, <1>9, <3>1
  <2>2. ASSUME entry' # NoEntry, NEW t \in U, t[1] < entry'.id PROVE t[2] < Due(entry')
    <3>0. t[1] \in 1..entries /\ t[2] \in Nat /\ t[2] <= now
      BY <1>9, <1>10
    <3>1. t[1] \in Nat /\ t[2] \in Nat /\ t[2] <= now /\ t[1] <= entries
      BY <1>1, <3>0
    <3>2. entry' \in Row /\ Due(entry') \in Nat
      BY <1>2, <2>2, RowFields
    <3>3. CASE entry'.id = entries + 1 /\ now < Due(entry')
      BY <1>1, <3>1, <3>2, <3>3
    <3>4. CASE entry # NoEntry /\ entry'.id = entry.id /\ Due(entry) <= Due(entry')
      <4>1. t[2] < Due(entry) /\ Due(entry) \in Nat
        BY <1>1, <1>12, <2>2, <3>4, RowFields
      <4> QED
        BY <3>1, <3>2, <3>4, <4>1
    <3> QED
      BY <2>2, <3>3, <3>4 DEF SoundStep, RowMoves
  <2> QED
    BY <1>11, <2>1, <2>2 DEF TicksAreOrdered, InOrder, Passed, U
<1>14. KeyIsTick'
  <2>1. CASE runs' = runs
    BY <2>1 DEF ScheduleInv, KeyIsTick
  <2>2. ASSUME NEW s \in Replica, NEW x \in Run, StartedFor(s, x), runs' = Append(runs, x)
        PROVE  KeyIsTick'
    <3>1. PICK k : k = Len(runs) + 1
      OBVIOUS
    <3>2. /\ DOMAIN runs' = DOMAIN runs \cup {k} /\ k \notin DOMAIN runs /\ runs'[k] = x
          /\ \A i \in DOMAIN runs : runs'[i] = runs[i]
      BY <1>1, <2>2, <3>1
    <3>3. x.tick = x.key[2] /\ \A i \in DOMAIN runs : runs[i].key # x.key
      BY <2>2 DEF StartedFor, KeyUsed, Tick
    <3> QED
      BY <3>2, <3>3 DEF ScheduleInv, KeyIsTick
  <2> QED
    BY <2>1, <2>2 DEF SoundStep, RunsMove
<1>15. \A k : KeyUsed(k) => \E i \in DOMAIN runs' : runs'[i].key = k
  <2>1. \A k : KeyUsed(k) <=> k \in Started
    BY DEF KeyUsed, Started
  <2>2. \A k : k \in Started' <=> \E i \in DOMAIN runs' : runs'[i].key = k
    BY DEF Started
  <2> QED
    BY <1>5, <2>1, <2>2
<1>16. HoldersAreSound'
  <2> SUFFICES ASSUME NEW s \in Replica, sweep'[s].pc # "idle"
               PROVE  /\ sweep'[s].due <= sweep'[s].at /\ sweep'[s].at <= now'
                      /\ sweep'[s].pc = "advance" => KeyUsed(Tick(sweep[s]))'
    BY DEF HoldersAreSound
  <2>1. CASE /\ sweep[s].pc # "idle"
             /\ sweep'[s].id = sweep[s].id /\ sweep'[s].due = sweep[s].due /\ sweep'[s].at = sweep[s].at
             /\ sweep'[s].pc = "advance" => (sweep[s].pc = "advance" \/ KeyUsed(Tick(sweep[s]))')
    <3>1. /\ sweep[s].due <= sweep[s].at /\ sweep[s].at <= now
          /\ sweep[s].pc = "advance" => KeyUsed(Tick(sweep[s]))
      BY <2>1 DEF ScheduleInv, HoldersAreSound
    <3>2. sweep[s].at \in Nat /\ sweep[s].due \in Nat
      BY <1>1, <2>1, HolderFields
    <3>3. Tick(sweep'[s]) = Tick(sweep[s])
      BY <2>1 DEF Tick
    <3>4. sweep[s].pc = "advance" => KeyUsed(Tick(sweep[s]))'
      BY <1>15, <3>1, <3>3 DEF KeyUsed
    <3> QED
      BY <1>1, <1>2, <1>9, <2>1, <3>1, <3>2, <3>4
  <2>2. CASE /\ Claimable(entry) /\ sweep'[s].pc = "owner"
             /\ sweep'[s].id = entry.id /\ sweep'[s].due = Due(entry) /\ sweep'[s].at = now
    BY <1>9, <2>2, DueHasPassed
  <2> QED
    BY <2>1, <2>2 DEF SoundStep, HolderMoves
<1> QED
  BY <1>13, <1>14, <1>16 DEF ScheduleInv, SoundStep, RowMoves

-----------------------------------------------------------------------------
(* cron.Schedule.Next, and the frames of a step. *)

LEMMA LeastInstant ==
    ASSUME NEW S \in SUBSET Nat, S # {}
    PROVE  \E m \in S : \A k \in S : m <= k
<1> DEFINE R == {ss \in Nat \X Nat : ss[1] < ss[2]}
<1>1. IsWellFoundedOn(R, Nat)
  BY NatLessThanWellFounded DEF OpToRel
<1> HIDE DEF R
<1>2. \E m \in S : \A k \in S : ~(<<k, m>> \in R)
  BY <1>1, WFMin
<1>3. \A m, k \in Nat : ~(<<k, m>> \in R) => m <= k
  BY DEF R
<1> QED
  BY <1>2, <1>3

LEMMA NextIsLater ==
    ASSUME NEW t \in 0..MaxTime
    PROVE  /\ NextInstant(t) \in Instants /\ NextInstant(t) \in Nat /\ t < NextInstant(t)
           /\ NextInstant(t) # NoTime
<1> DEFINE S == {i \in Instants : i > t}
<1>1. S \in SUBSET Nat /\ S # {} /\ Instants \subseteq Nat
  BY ScheduleBounds
<1> HIDE DEF S
<1>2. PICK m \in S : \A k \in S : m <= k
  BY <1>1, LeastInstant
<1>3. \E i \in Instants : i > t /\ \A j \in Instants : j > t => i <= j
  BY <1>2 DEF S
<1>4. NextInstant(t) \in Instants /\ NextInstant(t) > t
  BY <1>3 DEF NextInstant
<1>5. NextInstant(t) \in Nat
  BY <1>1, <1>4
<1>6. t \in Nat
  BY ScheduleBounds
<1>7. t < NextInstant(t)
  BY <1>4, <1>5, <1>6
<1> QED
  BY <1>4, <1>5, <1>7, StandInsAreNoInstants

Deployed ==
    /\ deleted \in BOOLEAN /\ versions \in Seq(Doc) /\ Latest \in 1..MaxVersions
    /\ rollouts \in Seq(Rollout) /\ Len(rollouts) <= MaxRollouts

LEMMA TypesFrom ==
    ASSUME Deployed', status' \in {"active", "paused"}, runs' \in Seq(Run), Len(runs') <= MaxRuns,
           now' \in 0..MaxTime, entries' \in 0..MaxEntries, faults' \in 0..MaxFaults,
           entry' \in {NoEntry} \cup Row, EntryFollowsLatest',
           sweep' \in [Replica -> {Idle} \cup Holder]
    PROVE  ScheduleTypeOK'
<1>1. DeploymentTypeOK(Key, Nat)'
  BY DEF DeploymentTypeOK, Deployed, Run
<1>2. \/ entry' = NoEntry
      \/ entry' \in [id : 1..entries', version : 1..Latest', enabled : BOOLEAN,
                     next : Nat, claimed : Nat]
  <2> SUFFICES ASSUME entry' # NoEntry
               PROVE  entry' \in [id : 1..entries', version : 1..Latest', enabled : BOOLEAN,
                                  next : Nat, claimed : Nat]
    OBVIOUS
  <2>1. entry' \in Row /\ entry'.id = entries' /\ entry'.version = Latest'
    BY DEF EntryFollowsLatest
  <2>2. entries' \in 1..entries' /\ Latest' \in 1..Latest'
    <3>1. entries' \in 1..MaxEntries
      BY <2>1, RowFields
    <3> QED
      BY <3>1, ScheduleBounds, DeploymentBounds DEF Deployed
  <2> QED
    BY <2>1, <2>2 DEF Row
<1> QED
  BY <1>1, <1>2 DEF ScheduleTypeOK, Key, Holder, Arm

\* A row that is left alone, while the clock may move.
LEMMA RowStays ==
    ASSUME ScheduleInv, UNCHANGED <<deleted, versions, entry, entries>>,
           now' \in Nat, now <= now'
    PROVE  EntryFollowsLatest' /\ RowMoves /\ entry' \in {NoEntry} \cup Row
<1>0. entry \in {NoEntry} \cup Row /\ now \in 0..MaxTime /\ MaxTime \in Nat
  BY Rows, ScheduleBounds DEF ScheduleInv
<1>1. EntryFollowsLatest'
  BY DEF ScheduleInv, EntryFollowsLatest, Latest
<1>2. RowIsSound'
  <2>1. \A c \in Nat : c <= now => c <= now'
    BY <1>0
  <2>2. entry # NoEntry => entry.claimed \in Nat
    BY <1>0, RowFields
  <2> QED
    BY <2>1, <2>2 DEF ScheduleInv, RowIsSound
<1>3. entry # NoEntry => Due(entry) <= Due(entry')
  BY <1>0, RowFields
<1> QED
  BY <1>0, <1>1, <1>2, <1>3 DEF RowMoves

\* A step that leaves the replicas and the runs alone.
LEMMA OperatorKeeps ==
    ASSUME ScheduleInv, UNCHANGED <<sweep, runs, faults>>, now' \in 0..MaxTime, now <= now',
           Deployed', status' \in {"active", "paused"},
           entries' \in 0..MaxEntries, entries <= entries',
           entry' \in {NoEntry} \cup Row, EntryFollowsLatest', RowMoves
    PROVE  ScheduleInv'
<1>1. /\ sweep \in [Replica -> {Idle} \cup Holder] /\ runs \in Seq(Run) /\ Len(runs) <= MaxRuns
      /\ faults \in 0..MaxFaults
  BY Rows DEF ScheduleInv
<1>2. ScheduleTypeOK'
  BY <1>1, TypesFrom
<1>3. \A s \in Replica : HolderMoves(s)
  BY DEF HolderMoves
<1> QED
  BY <1>2, <1>3, SoundStepKeeps DEF SoundStep, RunsMove

\* A step of a replica.
LEMMA ReplicaKeeps ==
    ASSUME ScheduleInv, UNCHANGED <<status, deleted, versions, rollouts, entries, now>>,
           faults' \in 0..MaxFaults,
           entry' \in {NoEntry} \cup Row, EntryFollowsLatest', RowMoves,
           sweep' \in [Replica -> {Idle} \cup Holder], \A s \in Replica : HolderMoves(s),
           runs' \in Seq(Run), Len(runs') <= MaxRuns, RunsMove
    PROVE  ScheduleInv'
<1>1. /\ now \in 0..MaxTime /\ entries \in 0..MaxEntries /\ Deployed /\ MaxTime \in Nat
      /\ MaxEntries \in Nat
  BY Rows, ScheduleBounds DEF ScheduleInv, Deployed
<1>2. Deployed'
  BY <1>1 DEF Deployed, Latest
<1>3. status' \in {"active", "paused"}
  BY DEF ScheduleInv
<1>4. ScheduleTypeOK'
  BY <1>1, <1>2, <1>3, TypesFrom
<1>5. now <= now' /\ entries <= entries'
  BY <1>1
<1> QED
  BY <1>3, <1>4, <1>5, SoundStepKeeps DEF SoundStep

-----------------------------------------------------------------------------
(* The operators. *)

\* SyncWorkflowSchedules for the document the newest version holds.
LEMMA SyncKeeps ==
    ASSUME ScheduleInv, NEW doc, NEW v, Sync(doc, v), now' = now, deleted' = FALSE,
           v = Latest', versions'[v] = doc, v \in 1..MaxVersions
    PROVE  /\ entry' \in {NoEntry} \cup Row /\ EntryFollowsLatest' /\ RowMoves
           /\ entries' \in 0..MaxEntries /\ entries <= entries'
<1>0. now \in 0..MaxTime /\ entries \in 0..MaxEntries /\ MaxEntries \in Nat \ {0}
  BY Rows, ScheduleBounds DEF ScheduleInv
<1>1. CASE doc \notin Scheduled
  BY <1>0, <1>1 DEF Sync, Synced, EntryFollowsLatest, RowMoves, RowIsSound
<1>2. CASE doc \in Scheduled
  <2> DEFINE e == [id |-> entries + 1, version |-> v, enabled |-> TRUE,
                   next |-> NextInstant(now), claimed |-> NoTime]
  <2>1. entry' = e /\ entries' = entries + 1 /\ entries < MaxEntries
    BY <1>2 DEF Sync, Synced
  <2>2. /\ NextInstant(now) \in Instants /\ NextInstant(now) \in Nat /\ now < NextInstant(now)
    BY <1>0, NextIsLater
  <2>3. entries + 1 \in 1..MaxEntries /\ entries <= entries + 1 /\ entries + 1 # 0
    BY <1>0, <2>1
  <2>4. /\ e \in Row /\ e.id = entries + 1 /\ e.version = v /\ e.claimed = NoTime
        /\ e.next = NextInstant(now) /\ Due(e) = NextInstant(now)
    BY <2>2, <2>3, RowFields DEF Row, Due
  <2> HIDE DEF e
  <2>5. EntryFollowsLatest'
    BY <1>2, <2>1, <2>4 DEF EntryFollowsLatest
  <2>6. RowIsSound'
    BY <2>1, <2>2, <2>4 DEF RowIsSound
  <2> QED
    BY <1>0, <2>1, <2>2, <2>3, <2>4, <2>5, <2>6 DEF RowMoves
<1> QED
  BY <1>1, <1>2

LEMMA IdleOperator ==
    ASSUME ScheduleInv, OperatorIdle
    PROVE  /\ UNCHANGED <<sweep, faults>> /\ now' \in 0..MaxTime /\ now' = now /\ now <= now'
           /\ Deployed /\ status \in {"active", "paused"} /\ now' \in Nat
<1>1. now \in 0..MaxTime /\ MaxTime \in Nat /\ Deployed
  BY Rows, ScheduleBounds DEF ScheduleInv, Deployed
<1> QED
  BY <1>1 DEF OperatorIdle, ScheduleInv

LEMMA AppendKeeps ==
    ASSUME ScheduleInv, NEW doc \in Doc, AppendVersion(doc), Sync(doc, Latest + 1), OperatorIdle
    PROVE  ScheduleInv'
<1>0. /\ UNCHANGED <<sweep, faults>> /\ now' \in 0..MaxTime /\ now' = now /\ now <= now'
      /\ Deployed /\ status \in {"active", "paused"}
  BY IdleOperator
<1>1. /\ ~deleted /\ Latest < MaxVersions /\ versions' = Append(versions, doc)
      /\ UNCHANGED <<status, deleted, rollouts, runs>>
  BY DEF AppendVersion
<1>2. versions \in Seq(Doc) /\ Len(versions) \in Nat /\ MaxVersions \in Nat /\ deleted' = FALSE
  BY <1>0, <1>1, DeploymentBounds DEF Deployed
<1>3. PICK v : v = Latest + 1
  OBVIOUS
<1>4. versions' \in Seq(Doc) /\ Latest' = v /\ v \in 1..MaxVersions /\ versions'[v] = doc
  BY <1>0, <1>1, <1>2, <1>3 DEF Latest
<1>5. Deployed'
  BY <1>0, <1>1, <1>4 DEF Deployed
<1>6. /\ entry' \in {NoEntry} \cup Row /\ EntryFollowsLatest' /\ RowMoves
      /\ entries' \in 0..MaxEntries /\ entries <= entries'
  BY <1>0, <1>2, <1>3, <1>4, SyncKeeps
<1> QED
  BY <1>0, <1>1, <1>5, <1>6, OperatorKeeps

LEMMA DeactivateKeeps ==
    ASSUME ScheduleInv, DeactivateWorkflow
    PROVE  ScheduleInv'
<1>0. /\ UNCHANGED <<sweep, faults>> /\ now' \in 0..MaxTime /\ now' = now /\ now <= now'
      /\ Deployed /\ status \in {"active", "paused"}
  BY IdleOperator DEF DeactivateWorkflow
<1>1. /\ deleted' = TRUE /\ rollouts' = Cancelled(rollouts) /\ UNCHANGED <<status, versions, runs>>
      /\ entry' = NoEntry /\ entries' = entries
  BY DEF DeactivateWorkflow, Deactivate
<1>2. rollouts' \in Seq(Rollout) /\ Len(rollouts') = Len(rollouts)
  <2>1. rollouts \in Seq(Rollout)
    BY <1>0 DEF Deployed
  <2>2. \A ro \in Rollout : [ro EXCEPT !.status = "cancelled"] \in Rollout
    BY DEF Rollout, RolloutStatus
  <2>3. \A r \in DOMAIN rollouts : Cancelled(rollouts)[r] \in Rollout
    BY <2>1, <2>2 DEF Cancelled
  <2>4. DOMAIN Cancelled(rollouts) = 1..Len(rollouts)
    BY <2>1 DEF Cancelled
  <2>5. Cancelled(rollouts) = [r \in 1..Len(rollouts) |-> Cancelled(rollouts)[r]]
    BY <2>4 DEF Cancelled
  <2>6. Len(rollouts) \in Nat /\ DOMAIN rollouts = 1..Len(rollouts)
    BY <2>1
  <2> QED
    BY <1>1, <2>3, <2>5, <2>6
<1>3. Deployed'
  BY <1>0, <1>1, <1>2 DEF Deployed, Latest
<1>4. entries \in 0..MaxEntries /\ MaxEntries \in Nat
  BY Rows, ScheduleBounds DEF ScheduleInv
<1>5. EntryFollowsLatest' /\ RowMoves
  BY <1>1 DEF EntryFollowsLatest, RowMoves, RowIsSound
<1> QED
  BY <1>0, <1>1, <1>3, <1>4, <1>5, OperatorKeeps

LEMMA ReactivateKeeps ==
    ASSUME ScheduleInv, ReactivateWorkflow
    PROVE  ScheduleInv'
<1>0. /\ UNCHANGED <<sweep, faults>> /\ now' \in 0..MaxTime /\ now' = now /\ now <= now'
      /\ Deployed /\ status \in {"active", "paused"}
  BY IdleOperator DEF ReactivateWorkflow
<1>1. /\ deleted' = FALSE /\ UNCHANGED <<status, versions, rollouts, runs>>
      /\ Sync(versions[Latest], Latest)
  BY DEF ReactivateWorkflow, Reactivate
<1>2. Deployed' /\ Latest' = Latest /\ Latest \in 1..MaxVersions
  BY <1>0, <1>1 DEF Deployed, Latest
<1>3. /\ entry' \in {NoEntry} \cup Row /\ EntryFollowsLatest' /\ RowMoves
      /\ entries' \in 0..MaxEntries /\ entries <= entries'
  BY <1>0, <1>1, <1>2, SyncKeeps
<1> QED
  BY <1>0, <1>1, <1>2, <1>3, OperatorKeeps

\* A step that moves the clock, the status or the rollouts only.
LEMMA RowLeftAlone ==
    ASSUME ScheduleInv, UNCHANGED <<sweep, runs, faults, deleted, versions, entry, entries>>,
           now' \in 0..MaxTime, now <= now', status' \in {"active", "paused"},
           rollouts' \in Seq(Rollout), Len(rollouts') <= MaxRollouts
    PROVE  ScheduleInv'
<1>1. entries \in 0..MaxEntries /\ MaxEntries \in Nat /\ Deployed /\ now' \in Nat
  BY Rows, ScheduleBounds DEF ScheduleInv, Deployed
<1>2. Deployed' /\ entries' \in 0..MaxEntries /\ entries <= entries'
  BY <1>1 DEF Deployed, Latest
<1>3. EntryFollowsLatest' /\ RowMoves /\ entry' \in {NoEntry} \cup Row
  BY <1>1, RowStays
<1> QED
  BY <1>2, <1>3, OperatorKeeps

LEMMA RolloutKeeps ==
    ASSUME ScheduleInv, RolloutStep
    PROVE  ScheduleInv'
<1>0. /\ UNCHANGED <<sweep, faults, entry, entries>> /\ now' \in 0..MaxTime /\ now <= now'
      /\ Deployed /\ status \in {"active", "paused"}
  BY IdleOperator DEF RolloutStep
<1>1. UNCHANGED <<status, deleted, versions, runs>>
  BY DEF RolloutStep, CreateRollout, FinishRollout
<1>2. rollouts' \in Seq(Rollout) /\ Len(rollouts') <= MaxRollouts
  <2>1. ASSUME NEW b \in DOMAIN versions, CreateRollout(b) 
        PROVE  rollouts' \in Seq(Rollout) /\ Len(rollouts') <= MaxRollouts
    <3> DEFINE ro == [baseline |-> b, canary |-> Latest, status |-> "active",
                      succeeded |-> [x \in Variant |-> 0], failed |-> [x \in Variant |-> 0]]
    <3>1. b \in 1..MaxVersions /\ Latest \in 1..MaxVersions
      BY <1>0, DeploymentBounds DEF Deployed, Latest
    <3>2. [x \in Variant |-> 0] \in [Variant -> 0..MaxRuns]
      BY DeploymentBounds
    <3>3. ro \in Rollout
      BY <3>1, <3>2 DEF Rollout, RolloutStatus
    <3>4. rollouts' = Append(rollouts, ro) /\ Len(rollouts) < MaxRollouts
      BY <2>1 DEF CreateRollout
    <3> HIDE DEF ro
    <3> QED
      BY <1>0, <3>3, <3>4, DeploymentBounds DEF Deployed
  <2>2. ASSUME NEW r \in DOMAIN rollouts, NEW d \in {"promoted", "rolled_back"}, FinishRollout(r, d)
        PROVE  rollouts' \in Seq(Rollout) /\ Len(rollouts') <= MaxRollouts
    <3> DEFINE ro == [rollouts[r] EXCEPT !.status = d]
    <3>1. rollouts \in Seq(Rollout) /\ rollouts' = [rollouts EXCEPT ![r] = ro]
      BY <1>0, <2>2 DEF FinishRollout, Deployed
    <3>2. rollouts[r] \in Rollout
      BY <3>1
    <3>3. ro \in Rollout
      BY <3>2 DEF Rollout, RolloutStatus
    <3> HIDE DEF ro
    <3> QED
      BY <1>0, <3>1, <3>3 DEF Deployed
  <2> QED
    BY <2>1, <2>2 DEF RolloutStep
<1> QED
  BY <1>0, <1>1, <1>2, RowLeftAlone

-----------------------------------------------------------------------------
(* The row's lease and the replicas. *)

LEMMA LapseKeeps ==
    ASSUME ScheduleInv, LeaseLapses
    PROVE  ScheduleInv'
<1> DEFINE e == [entry EXCEPT !.next = Lapsed]
<1>0. /\ entry \in {NoEntry} \cup Row /\ now \in 0..MaxTime /\ entries \in 0..MaxEntries
      /\ Deployed /\ MaxTime \in Nat /\ MaxEntries \in Nat
  BY Rows, ScheduleBounds DEF ScheduleInv, Deployed
<1>1. /\ entry.next = Leased /\ entry' = e
      /\ UNCHANGED <<status, deleted, versions, rollouts, runs, now, entries, sweep, faults>>
  BY DEF LeaseLapses, dVars
<1>2. entry # NoEntry /\ entry \in Row
  BY <1>0, <1>1, RowFields
<1>3. entry.claimed # NoTime /\ entry.claimed \in Instants /\ entry.claimed <= now
  BY <1>1, <1>2, StandInsAreNoInstants DEF ScheduleInv, RowIsSound
<1>4. /\ e \in Row /\ e.id = entry.id /\ e.version = entry.version /\ e.claimed = entry.claimed
      /\ e.next = Lapsed
  BY <1>2, RowFields DEF Row
<1> HIDE DEF e
<1>5. Due(e) = Due(entry) /\ Due(entry) \in Nat
  BY <1>2, <1>3, <1>4, RowFields DEF Due
<1>6. EntryFollowsLatest'
  BY <1>1, <1>2, <1>4 DEF ScheduleInv, EntryFollowsLatest, Latest
<1>7. RowMoves
  BY <1>1, <1>2, <1>3, <1>4, <1>5 DEF RowMoves, RowIsSound
<1>8. Deployed' /\ now <= now' /\ entries <= entries'
  BY <1>0, <1>1 DEF Deployed, Latest
<1> QED
  BY <1>0, <1>1, <1>4, <1>6, <1>7, <1>8, OperatorKeeps DEF ScheduleInv

\* Replica s takes the state h, and the others keep theirs.
LEMMA OneReplicaMoves ==
    ASSUME ScheduleInv, NEW s \in Replica, NEW h \in {Idle} \cup Holder,
           sweep' = [sweep EXCEPT ![s] = h],
           \/ h = Idle
           \/ /\ sweep[s].pc # "idle" /\ h.id = sweep[s].id /\ h.due = sweep[s].due
              /\ h.at = sweep[s].at
              /\ h.pc = "advance" => \E i \in DOMAIN runs' : runs'[i].key = <<h.id, h.due>>
           \/ /\ Claimable(entry) /\ h.pc = "owner"
              /\ h.id = entry.id /\ h.due = Due(entry) /\ h.at = now
    PROVE  sweep' \in [Replica -> {Idle} \cup Holder] /\ \A r \in Replica : HolderMoves(r)
<1>1. sweep \in [Replica -> {Idle} \cup Holder]
  BY Rows DEF ScheduleInv
<1>2. /\ sweep' \in [Replica -> {Idle} \cup Holder] /\ sweep'[s] = h
      /\ \A r \in Replica : r # s => sweep'[r] = sweep[r]
  BY <1>1
<1>3. \A r \in Replica : sweep'[r] = sweep[r] => HolderMoves(r)
  BY DEF HolderMoves
<1>4. HolderMoves(s)
  <2>1. KeyUsed(Tick(sweep[s]))' <=> \E i \in DOMAIN runs' : runs'[i].key = <<h.id, h.due>>
    BY <1>2 DEF KeyUsed, Tick
  <2> QED
    BY <1>2, <2>1, HolderFields DEF HolderMoves
<1> QED
  BY <1>2, <1>3, <1>4

LEMMA Holds ==
    ASSUME ScheduleInv, NEW s \in Replica, sweep[s].pc # "idle"
    PROVE  /\ sweep[s] \in Holder /\ sweep \in [Replica -> {Idle} \cup Holder]
           /\ sweep[s].id \in 1..MaxEntries /\ sweep[s].id # NoEntry.id
           /\ sweep[s].due \in Nat /\ sweep[s].at \in 0..MaxTime
           /\ sweep[s].due <= sweep[s].at /\ sweep[s].due \in Instants
<1>1. sweep[s] \in Holder /\ sweep \in [Replica -> {Idle} \cup Holder]
  BY Rows DEF ScheduleInv
<1>2. /\ sweep[s].id \in 1..MaxEntries /\ sweep[s].due \in Nat /\ sweep[s].at \in 0..MaxTime
      /\ Tick(sweep[s]) = <<sweep[s].id, sweep[s].due>>
  BY <1>1, HolderFields
<1>3. sweep[s].due <= sweep[s].at
  BY DEF ScheduleInv, HoldersAreSound
<1>4. Tick(sweep[s])[2] \in Instants
  BY DEF ScheduleInv, TicksAreOrdered, Passed, Held
<1>5. sweep[s].id # 0
  BY <1>2
<1> QED
  BY <1>1, <1>2, <1>3, <1>4, <1>5, RowFields

LEMMA ClaimKeeps ==
    ASSUME ScheduleInv, NEW s \in Replica, Claim(s)
    PROVE  ScheduleInv'
<1> DEFINE e == [[entry EXCEPT !.next = Leased] EXCEPT !.claimed = Due(entry)]
           h == [[[[[Idle EXCEPT !.pc = "owner"] EXCEPT !.id = entry.id] EXCEPT !.due = Due(entry)]
                    EXCEPT !.at = now] EXCEPT !.version = entry.version]
<1>0. /\ now \in 0..MaxTime /\ faults \in 0..MaxFaults /\ runs \in Seq(Run) /\ Len(runs) <= MaxRuns
  BY Rows DEF ScheduleInv
<1>1. /\ Claimable(entry) /\ entry' = e /\ sweep' = [sweep EXCEPT ![s] = h]
      /\ UNCHANGED <<status, deleted, versions, rollouts, runs, entries, now, faults>>
  BY DEF Claim, ClaimedRow, KeepsRest, dVars
<1>2. /\ entry \in Row /\ entry # NoEntry /\ entry.id = entries
      /\ Due(entry) \in Instants /\ Due(entry) <= now
  BY <1>1, DueHasPassed DEF Claimable
<1>3. Due(entry) \in Nat /\ Due(entry) # NoTime
  BY <1>2, RowFields, StandInsAreNoInstants
<1>4. /\ e \in Row /\ e.id = entry.id /\ e.version = entry.version /\ e.next = Leased
      /\ e.claimed = Due(entry)
  BY <1>2, <1>3, RowFields DEF Row
<1>5. h \in Holder /\ h.pc = "owner" /\ h.id = entry.id /\ h.due = Due(entry) /\ h.at = now
  <2>1. NoArm \in Arm
    BY DeploymentBounds DEF NoArm, Arm, Variant
  <2>2. entry.id \in 1..MaxEntries /\ entry.version \in 1..MaxVersions
    BY <1>2, RowFields
  <2> QED
    BY <1>0, <1>3, <2>1, <2>2 DEF Holder, Idle
<1> HIDE DEF e, h
<1>6. sweep' \in [Replica -> {Idle} \cup Holder] /\ \A r \in Replica : HolderMoves(r)
  BY <1>1, <1>5, OneReplicaMoves
<1>7. Due(e) = Due(entry)
  BY <1>3, <1>4 DEF Due
<1>8. EntryFollowsLatest'
  BY <1>1, <1>2, <1>4 DEF ScheduleInv, EntryFollowsLatest, Latest
<1>9. RowMoves
  BY <1>1, <1>2, <1>3, <1>4, <1>7 DEF RowMoves, RowIsSound
<1> QED
  BY <1>0, <1>1, <1>4, <1>6, <1>8, <1>9, ReplicaKeeps DEF RunsMove

\* A replica works on, or stops, and leaves the row alone.
LEMMA WorkKeeps ==
    ASSUME ScheduleInv, UNCHANGED <<status, deleted, versions, rollouts, entry, entries, now>>,
           faults' \in 0..MaxFaults,
           sweep' \in [Replica -> {Idle} \cup Holder], \A r \in Replica : HolderMoves(r),
           runs' \in Seq(Run), Len(runs') <= MaxRuns, RunsMove
    PROVE  ScheduleInv'
<1>1. now \in Nat /\ now' \in Nat /\ now <= now'
  BY Rows, ScheduleBounds DEF ScheduleInv
<1>2. EntryFollowsLatest' /\ RowMoves /\ entry' \in {NoEntry} \cup Row
  BY <1>1, RowStays
<1> QED
  BY <1>2, ReplicaKeeps

\* A replica goes to another statement of its tick, or stops: no run starts.
LEMMA QuietKeeps ==
    ASSUME ScheduleInv, UNCHANGED <<dVars, entry, entries, now>>, faults' \in 0..MaxFaults,
           NEW s \in Replica, NEW h \in {Idle} \cup Holder, sweep' = [sweep EXCEPT ![s] = h],
           \/ h = Idle
           \/ /\ sweep[s].pc # "idle" /\ h.id = sweep[s].id /\ h.due = sweep[s].due
              /\ h.at = sweep[s].at
              /\ h.pc = "advance" => KeyUsed(Tick(sweep[s]))
    PROVE  ScheduleInv'
<1>1. UNCHANGED <<status, deleted, versions, rollouts, runs>>
  BY DEF dVars
<1>2. runs \in Seq(Run) /\ Len(runs) <= MaxRuns
  BY Rows DEF ScheduleInv
<1>3. sweep' \in [Replica -> {Idle} \cup Holder] /\ \A r \in Replica : HolderMoves(r)
  <2>1. h.id = sweep[s].id /\ h.due = sweep[s].due /\ KeyUsed(Tick(sweep[s])) =>
          \E i \in DOMAIN runs' : runs'[i].key = <<h.id, h.due>>
    BY <1>1 DEF KeyUsed, Tick
  <2> QED
    BY <2>1, OneReplicaMoves
<1> QED
  BY <1>1, <1>2, <1>3, WorkKeeps DEF RunsMove

LEMMA GoesKeeps ==
    ASSUME ScheduleInv, NEW s \in Replica, sweep[s].pc # "idle",
           NEW pc \in {"lookup", "load", "start", "advance", "drop"}, Goes(s, pc),
           pc = "advance" => KeyUsed(Tick(sweep[s])),
           UNCHANGED <<dVars, entry, entries, now, faults>>
    PROVE  ScheduleInv'
<1> DEFINE h == [sweep[s] EXCEPT !.pc = pc]
<1>1. sweep[s] \in Holder /\ sweep' = [sweep EXCEPT ![s] = h] /\ faults' \in 0..MaxFaults
  BY Holds, Rows DEF Goes, ScheduleInv
<1>2. h \in Holder /\ h.pc = pc /\ h.id = sweep[s].id /\ h.due = sweep[s].due /\ h.at = sweep[s].at
  BY <1>1 DEF Holder
<1> HIDE DEF h
<1> QED
  BY <1>1, <1>2, QuietKeeps

LEMMA LookUpKeeps ==
    ASSUME ScheduleInv, NEW s \in Replica, LookUp(s)
    PROVE  ScheduleInv'
<1>1. sweep[s].pc # "idle" /\ UNCHANGED <<dVars, entry, entries, now, faults>>
  BY DEF LookUp, RowUntouched, KeepsRest
<1>2. \E pc \in {"load", "advance", "drop"} : Goes(s, pc) /\ (pc = "advance" => KeyUsed(Tick(sweep[s])))
  BY DEF LookUp
<1> QED
  BY <1>1, <1>2, GoesKeeps

LEMMA AssignedArm ==
    ASSUME ScheduleInv, NEW k, Assigned
    PROVE  ArmFor(k) \in Arm /\ VersionFor(k) \in 1..MaxVersions
<1> DEFINE c == CurrentRollout
           x == VariantFor(c, k)
<1>1. rollouts \in Seq(Rollout) /\ Len(rollouts) <= MaxRollouts
  BY Rows DEF ScheduleInv
<1>2. c \in DOMAIN rollouts
  <2>1. ~deleted /\ rollouts # <<>>
    BY DEF Assigned, CurrentRollout
  <2>2. CASE ActiveRollout
    <3>1. \E r \in DOMAIN rollouts : Active(r)
      BY <2>2 DEF ActiveRollout
    <3>2. c = CHOOSE r \in DOMAIN rollouts : Active(r)
      BY <2>1, <2>2 DEF CurrentRollout
    <3> QED
      BY <3>1, <3>2
  <2>3. CASE ~ActiveRollout
    BY <1>1, <2>1, <2>3 DEF CurrentRollout
  <2> QED
    BY <2>2, <2>3
<1>3. x \in Variant
  BY DEF VariantFor, Variant
<1>4. rollouts[c] \in Rollout
  BY <1>1, <1>2
<1>5. rollouts[c].canary \in 1..MaxVersions /\ rollouts[c].baseline \in 1..MaxVersions
  BY <1>4 DEF Rollout
<1>6. c \in 0..MaxRollouts
  BY <1>1, <1>2, DeploymentBounds
<1>7. ArmFor(k) \in Arm
  BY <1>3, <1>6 DEF ArmFor, Arm
<1>8. VersionFor(k) = IF x = "canary" THEN rollouts[c].canary ELSE rollouts[c].baseline
  BY DEF VersionFor, ArmVersion
<1> QED
  BY <1>5, <1>7, <1>8

LEMMA LoadKeeps ==
    ASSUME ScheduleInv, NEW s \in Replica, LoadVersion(s)
    PROVE  ScheduleInv'
<1> DEFINE k == Tick(sweep[s])
<1>1. sweep[s].pc # "idle" /\ UNCHANGED <<dVars, entry, entries, now, faults>>
  BY DEF LoadVersion, RowUntouched, KeepsRest
<1>2. CASE ~Assigned
  <2>1. Goes(s, "start")
    BY <1>2 DEF LoadVersion
  <2> QED
    BY <1>1, <2>1, GoesKeeps
<1>3. CASE Assigned
  <2> DEFINE h == [[[sweep[s] EXCEPT !.pc = "start"] EXCEPT !.version = VersionFor(k)]
                     EXCEPT !.arm = ArmFor(k)]
  <2>1. sweep[s] \in Holder /\ sweep \in [Replica -> {Idle} \cup Holder] /\ faults' \in 0..MaxFaults
    BY <1>1, Holds, Rows DEF ScheduleInv
  <2>2. ArmFor(k) \in Arm /\ VersionFor(k) \in 1..MaxVersions
    BY <1>3, AssignedArm
  <2>3. sweep' = [sweep EXCEPT ![s] = h]
    BY <1>3, <2>1 DEF LoadVersion
  <2>4. h \in Holder /\ h.pc = "start" /\ h.id = sweep[s].id /\ h.due = sweep[s].due /\ h.at = sweep[s].at
    BY <2>1, <2>2 DEF Holder
  <2> HIDE DEF h
  <2> QED
    BY <1>1, <2>1, <2>3, <2>4, QuietKeeps
<1> QED
  BY <1>2, <1>3

LEMMA StartKeeps ==
    ASSUME ScheduleInv, NEW s \in Replica, StartTick(s)
    PROVE  ScheduleInv'
<1> DEFINE g == sweep[s]
           h == [g EXCEPT !.pc = "advance"]
           k == Tick(g)
<1>1. /\ g.pc = "start" /\ sweep' = [sweep EXCEPT ![s] = h]
      /\ UNCHANGED <<status, deleted, versions, rollouts, entry, entries, now, faults>>
  BY DEF StartTick, Goes, RowUntouched, KeepsRest
<1>2. /\ g \in Holder /\ faults' \in 0..MaxFaults /\ runs \in Seq(Run) /\ Len(runs) <= MaxRuns
      /\ g.pc # "idle"
  BY <1>1, Holds, Rows DEF ScheduleInv
<1>3. h \in Holder /\ h.pc = "advance" /\ h.id = g.id /\ h.due = g.due /\ h.at = g.at
  BY <1>2 DEF Holder
<1>4. k = <<g.id, g.due>>
  BY DEF Tick
<1>5. CASE KeyUsed(k)
  <2>1. runs' = runs
    BY <1>5 DEF StartTick, StartKey
  <2>2. UNCHANGED dVars
    BY <1>1, <2>1 DEF dVars
  <2> HIDE DEF h
  <2> QED
    BY <1>1, <1>2, <1>3, <1>5, <2>2, QuietKeeps
<1>6. CASE ~KeyUsed(k)
  <2> DEFINE x == [key |-> k, tick |-> g.due, version |-> g.version, rollout |-> g.arm.rollout,
                   variant |-> g.arm.variant, status |-> "running", counted |-> FALSE]
  <2>1. runs' = Append(runs, x) /\ Len(runs) < MaxRuns
    BY <1>6 DEF StartTick, StartKey, Inserted
  <2>2. /\ k \in Key /\ g.due \in Nat /\ g.version \in 1..MaxVersions
        /\ g.arm.rollout \in 0..MaxRollouts /\ g.arm.variant \in Variant
    BY <1>2, HolderFields DEF Arm
  <2>3. x \in Run /\ x.key = k /\ x.tick = g.due
    BY <2>2 DEF Run, RunOf
  <2> HIDE DEF x, h
  <2>4. PICK n : n = Len(runs) + 1
    OBVIOUS
  <2>5. runs' \in Seq(Run) /\ Len(runs') = n /\ n \in DOMAIN runs' /\ runs'[n] = x
    BY <1>2, <2>1, <2>3, <2>4
  <2>6. Len(runs') <= MaxRuns
    BY <1>2, <2>1, <2>4, <2>5, DeploymentBounds
  <2>7. RunsMove
    BY <1>2, <1>6, <2>1, <2>3 DEF RunsMove, StartedFor
  <2>8. \E i \in DOMAIN runs' : runs'[i].key = <<h.id, h.due>>
    BY <1>3, <1>4, <2>3, <2>5
  <2>9. sweep' \in [Replica -> {Idle} \cup Holder] /\ \A r \in Replica : HolderMoves(r)
    BY <1>1, <1>2, <1>3, <2>8, OneReplicaMoves
  <2> QED
    BY <1>1, <1>2, <2>5, <2>6, <2>7, <2>9, WorkKeeps
<1> QED
  BY <1>5, <1>6

LEMMA GiveUpKeeps ==
    ASSUME ScheduleInv, NEW s \in Replica, GiveUp(s)
    PROVE  ScheduleInv'
<1>1. /\ faults < MaxFaults /\ faults' = faults + 1 /\ sweep' = [sweep EXCEPT ![s] = Idle]
      /\ UNCHANGED <<dVars, entry, entries, now>>
  BY DEF GiveUp, Finishes, RowUntouched
<1>2. faults' \in 0..MaxFaults
  BY <1>1, Rows, ScheduleBounds DEF ScheduleInv
<1> QED
  BY <1>1, <1>2, QuietKeeps

\* A replica is done with its tick and rewrites the row as e.
LEMMA FinishKeeps ==
    ASSUME ScheduleInv, NEW s \in Replica, sweep[s].pc # "idle", Finishes(s),
           NEW e \in Row, entry' = e, entry # NoEntry, e.id = entry.id, e.version = entry.version,
           Due(entry) <= Due(e), RowIsSound', UNCHANGED <<dVars, entries, now, faults>>
    PROVE  ScheduleInv'
<1>1. /\ UNCHANGED <<status, deleted, versions, rollouts, runs>> /\ faults' \in 0..MaxFaults
      /\ runs \in Seq(Run) /\ Len(runs) <= MaxRuns
  BY Rows DEF dVars, ScheduleInv
<1>2. sweep' \in [Replica -> {Idle} \cup Holder] /\ \A r \in Replica : HolderMoves(r)
  BY OneReplicaMoves DEF Finishes
<1>3. EntryFollowsLatest'
  BY <1>1 DEF ScheduleInv, EntryFollowsLatest, Latest
<1>4. RowMoves
  BY DEF RowMoves
<1> QED
  BY <1>1, <1>2, <1>3, <1>4, ReplicaKeeps DEF RunsMove

LEMMA DisableKeeps ==
    ASSUME ScheduleInv, NEW s \in Replica, Disable(s)
    PROVE  ScheduleInv'
<1>1. sweep[s].pc # "idle" /\ Finishes(s) /\ UNCHANGED <<dVars, entries, now, faults>>
      /\ faults' \in 0..MaxFaults
  BY Rows DEF Disable, KeepsRest, ScheduleInv
<1>2. CASE entry.id # sweep[s].id
  BY <1>1, <1>2, QuietKeeps DEF Disable, Finishes
<1>3. CASE entry.id = sweep[s].id
  <2> DEFINE e == [entry EXCEPT !.enabled = FALSE]
  <2>1. entry # NoEntry /\ entry \in Row /\ entry' = e
    BY <1>1, <1>3, Holds, Rows DEF Disable, ScheduleInv
  <2>2. /\ e \in Row /\ e.id = entry.id /\ e.version = entry.version /\ e.next = entry.next
        /\ e.claimed = entry.claimed
    BY <2>1 DEF Row
  <2> HIDE DEF e
  <2>3. Due(entry) <= Due(e)
    BY <2>1, <2>2, RowFields DEF Due
  <2>4. RowIsSound'
    BY <1>1, <2>1, <2>2 DEF ScheduleInv, RowIsSound
  <2> QED
    BY <1>1, <2>1, <2>2, <2>3, <2>4, FinishKeeps
<1> QED
  BY <1>2, <1>3

LEMMA ReadOwnerKeeps ==
    ASSUME ScheduleInv, NEW s \in Replica, ReadOwner(s)
    PROVE  ScheduleInv'
<1>1. /\ sweep[s].pc # "idle" /\ UNCHANGED <<dVars, entries, now, faults>>
      /\ faults' \in 0..MaxFaults
  BY Rows DEF ReadOwner, KeepsRest, ScheduleInv
<1>2. CASE deleted
  <2>1. entry = NoEntry
    BY <1>2 DEF ScheduleInv, EntryFollowsLatest
  <2>2. entry' = entry /\ sweep' = [sweep EXCEPT ![s] = Idle]
    BY <1>2, <2>1 DEF ReadOwner, Finishes
  <2> QED
    BY <1>1, <2>2, QuietKeeps
<1>3. CASE ~deleted
  <2> DEFINE h == [[sweep[s] EXCEPT !.pc = "lookup"] EXCEPT !.status = status]
  <2>1. /\ sweep[s] \in Holder /\ sweep \in [Replica -> {Idle} \cup Holder]
        /\ status \in {"active", "paused"}
    BY <1>1, Holds DEF ScheduleInv
  <2>2. sweep' = [sweep EXCEPT ![s] = h] /\ entry' = entry
    BY <1>3, <2>1 DEF ReadOwner
  <2>3. h \in Holder /\ h.pc = "lookup" /\ h.id = sweep[s].id /\ h.due = sweep[s].due
        /\ h.at = sweep[s].at
    BY <2>1 DEF Holder
  <2> HIDE DEF h
  <2> QED
    BY <1>1, <2>2, <2>3, QuietKeeps
<1> QED
  BY <1>2, <1>3

LEMMA AdvanceKeeps ==
    ASSUME ScheduleInv, NEW s \in Replica, Advance(s)
    PROVE  ScheduleInv'
<1>1. sweep[s].pc # "idle" /\ Finishes(s) /\ UNCHANGED <<dVars, entries, now, faults>>
      /\ faults' \in 0..MaxFaults
  BY Rows DEF Advance, KeepsRest, ScheduleInv
<1>2. CASE ~HoldsClaim(sweep[s])
  BY <1>1, <1>2, QuietKeeps DEF Advance, Finishes
<1>3. CASE HoldsClaim(sweep[s])
  <2> DEFINE n == NextInstant(sweep[s].at)
             e == [[entry EXCEPT !.next = n] EXCEPT !.claimed = NoTime]
  <2>1. /\ entry.id = sweep[s].id /\ entry.claimed = sweep[s].due /\ entry' = e
    BY <1>3 DEF Advance, HoldsClaim, AdvancedRow
  <2>2. /\ sweep[s].id # NoEntry.id /\ sweep[s].at \in 0..MaxTime /\ sweep[s].due \in Nat
        /\ sweep[s].due <= sweep[s].at /\ sweep[s].due \in Instants /\ MaxTime \in Nat
    BY <1>1, Holds, ScheduleBounds
  <2>3. entry # NoEntry /\ entry \in Row
    BY <2>1, <2>2, Rows DEF ScheduleInv
  <2>4. n \in Instants /\ n \in Nat /\ sweep[s].at < n /\ n # NoTime
    BY <2>2, NextIsLater
  <2> HIDE DEF n
  <2>5. e \in Row /\ e.id = entry.id /\ e.version = entry.version /\ e.next = n /\ e.claimed = NoTime
    BY <2>3, <2>4, RowFields DEF Row
  <2> HIDE DEF e
  <2>6. Due(entry) = sweep[s].due /\ Due(e) = n
    BY <2>1, <2>2, <2>5, StandInsAreNoInstants DEF Due
  <2>7. Due(entry) <= Due(e)
    BY <2>2, <2>4, <2>6
  <2>8. RowIsSound'
    BY <2>1, <2>4, <2>5 DEF RowIsSound
  <2> QED
    BY <1>1, <2>1, <2>3, <2>5, <2>7, <2>8, FinishKeeps
<1> QED
  BY <1>2, <1>3

-----------------------------------------------------------------------------
LEMMA ScheduleStarts == ScheduleInit => ScheduleInv
<1> SUFFICES ASSUME ScheduleInit PROVE ScheduleInv
  OBVIOUS
<1> DEFINE e == [id |-> 1, version |-> 1, enabled |-> TRUE,
                 next |-> NextInstant(0), claimed |-> NoTime]
<1>1. PICK d \in Doc : versions = <<d>>
  BY DEF ScheduleInit, DeploymentInit
<1>2. /\ status = "active" /\ deleted = FALSE /\ rollouts = <<>> /\ runs = <<>>
      /\ now = 0 /\ faults = 0 /\ sweep = [s \in Replica |-> Idle]
      /\ entries = (IF d \in Scheduled THEN 1 ELSE 0)
      /\ entry = (IF d \in Scheduled THEN e ELSE NoEntry)
  BY <1>1 DEF ScheduleInit, DeploymentInit
<1>3. versions \in Seq(Doc) /\ Latest = 1 /\ versions[1] = d
  BY <1>1 DEF Latest
<1>4. /\ 1 \in 1..MaxVersions /\ 1 \in 1..MaxEntries /\ 0 \in 0..MaxTime /\ 0 \in 0..MaxFaults
      /\ 0 \in 0..MaxEntries /\ 1 \in 0..MaxEntries /\ 0 <= MaxRollouts /\ 0 <= MaxRuns
  BY DeploymentBounds, ScheduleBounds
<1>5. NextInstant(0) \in Instants /\ NextInstant(0) \in Nat
  BY <1>4, NextIsLater
<1>6. e \in Row /\ e.id = 1 /\ e.version = 1 /\ e.claimed = NoTime /\ e.next = NextInstant(0)
  BY <1>4, <1>5, RowFields DEF Row
<1> HIDE DEF e
<1>7. DeploymentTypeOK(Key, Nat)
  <2>1. /\ rollouts \in Seq(Rollout) /\ Len(rollouts) = 0
        /\ runs \in Seq(RunOf(Key, Nat)) /\ Len(runs) = 0
    BY <1>2
  <2> QED
    BY <1>2, <1>3, <1>4, <2>1 DEF DeploymentTypeOK
<1>8. \/ entry = NoEntry
      \/ entry \in [id : 1..entries, version : 1..Latest, enabled : BOOLEAN,
                    next : Nat, claimed : Nat]
  BY <1>2, <1>3, <1>6 DEF Row
<1>9. ScheduleTypeOK
  BY <1>2, <1>4, <1>7, <1>8 DEF ScheduleTypeOK, Key
<1>10. EntryFollowsLatest /\ RowIsSound
  BY <1>2, <1>3, <1>5, <1>6 DEF EntryFollowsLatest, RowIsSound
<1>11. HoldersAreSound /\ KeyIsTick /\ Held = {} /\ Started = {}
  BY <1>2, HolderFields DEF HoldersAreSound, KeyIsTick, Held, Started
<1>12. TicksAreOrdered
  BY <1>11 DEF TicksAreOrdered, Passed, InOrder
<1> QED
  BY <1>2, <1>9, <1>10, <1>11, <1>12 DEF ScheduleInv

LEMMA ScheduleStep == ScheduleInv /\ [ScheduleNext]_vars => ScheduleInv'
<1> SUFFICES ASSUME ScheduleInv, [ScheduleNext]_vars PROVE ScheduleInv'
  OBVIOUS
<1>0. /\ rollouts \in Seq(Rollout) /\ Len(rollouts) <= MaxRollouts /\ versions \in Seq(Doc)
      /\ now \in 0..MaxTime /\ MaxTime \in Nat /\ status \in {"active", "paused"}
  BY Rows, ScheduleBounds DEF ScheduleInv
<1>1. CASE Clock
  <2>1. /\ now' = now + 1 /\ now < MaxTime
        /\ UNCHANGED <<sweep, runs, faults, deleted, versions, entry, entries, status, rollouts>>
    BY <1>1 DEF Clock, dVars
  <2>2. now' \in 0..MaxTime /\ now <= now'
    BY <1>0, <2>1
  <2> QED
    BY <1>0, <2>1, <2>2, RowLeftAlone
<1>2. CASE LeaseLapses
  BY <1>2, LapseKeeps
<1>3. ASSUME NEW d \in Doc, SaveVersion(d) PROVE ScheduleInv'
  BY <1>3, AppendKeeps DEF SaveVersion
<1>4. ASSUME NEW v \in DOMAIN versions, RollbackVersion(v) PROVE ScheduleInv'
  <2>1. versions[v] \in Doc
    BY <1>0
  <2> QED
    BY <1>4, <2>1, AppendKeeps DEF RollbackVersion, RollbackTo
<1>5. CASE DeactivateWorkflow
  BY <1>5, DeactivateKeeps
<1>6. CASE ReactivateWorkflow
  BY <1>6, ReactivateKeeps
<1>7. CASE PauseOrResume
  <2>1. /\ UNCHANGED <<sweep, faults, now, deleted, versions, rollouts, runs, entry, entries>>
        /\ status' \in {"active", "paused"}
    BY <1>7 DEF PauseOrResume, OperatorIdle
  <2>2. now' \in 0..MaxTime /\ now <= now'
    BY <1>0, <2>1
  <2> QED
    BY <1>0, <2>1, <2>2, RowLeftAlone
<1>8. CASE RolloutStep
  BY <1>8, RolloutKeeps
<1>9. ASSUME NEW s \in Replica,
             Claim(s) \/ Disable(s) \/ SweepStep(s) \/ Refuse(s) \/ GiveUp(s)
      PROVE  ScheduleInv'
  <2>1. CASE Refuse(s)
    <3>1. /\ sweep[s].pc # "idle" /\ Goes(s, "drop")
          /\ UNCHANGED <<dVars, entry, entries, now, faults>>
      BY <2>1 DEF Refuse, RowUntouched, KeepsRest
    <3> QED
      BY <3>1, GoesKeeps
  <2> QED
    BY <1>9, <2>1, ClaimKeeps, DisableKeeps, GiveUpKeeps, ReadOwnerKeeps, LookUpKeeps,
       LoadKeeps, StartKeeps, AdvanceKeeps DEF SweepStep
<1>10. CASE UNCHANGED vars
  <2>1. UNCHANGED <<sweep, runs, faults, deleted, versions, entry, entries, status, rollouts, now>>
    BY <1>10 DEF vars, dVars
  <2>2. now' \in 0..MaxTime /\ now <= now'
    BY <1>0, <2>1
  <2> QED
    BY <1>0, <2>1, <2>2, RowLeftAlone
<1> QED
  BY <1>1, <1>2, <1>3, <1>4, <1>5, <1>6, <1>7, <1>8, <1>9, <1>10 DEF ScheduleNext

-----------------------------------------------------------------------------
(* The theorems. *)

LEMMA ScheduleInvariant == ScheduleSpec => []ScheduleInv
<1>1. ScheduleInit => ScheduleInv
  BY ScheduleStarts
<1>2. ScheduleInv /\ [ScheduleNext]_vars => ScheduleInv'
  BY ScheduleStep
<1> QED
  BY <1>1, <1>2, PTL DEF ScheduleSpec

(* The sweep is typed: in particular a holder's version and arm are ones the *)
(* workflow has, whatever rollout moved under it (schedule.go                *)
(* fireScheduleEntry).                                                       *)
THEOREM ScheduleIsTyped == ScheduleSpec => []ScheduleTypeOK
<1>1. ScheduleInv => ScheduleTypeOK
  BY DEF ScheduleInv
<1> QED
  BY <1>1, ScheduleInvariant, PTL

(* For every number of replicas, however leases lapse, replicas crash and    *)
(* rows are replaced, an instant of the cron expression starts at most one   *)
(* run.                                                                      *)
THEOREM InstantStartsOneRun == ScheduleSpec => []OneRunPerInstant
<1>1. ScheduleInv => OneRunPerInstant
  <2> SUFFICES ASSUME ScheduleInv, NEW i \in DOMAIN runs, NEW j \in DOMAIN runs,
                      runs[i].tick = runs[j].tick
               PROVE  i = j
    BY DEF OneRunPerInstant
  <2>1. runs[i].key \in Key /\ runs[j].key \in Key
    BY Rows DEF ScheduleInv, Run, RunOf
  <2>2. runs[i].key[2] = runs[j].key[2] /\ runs[i].key[2] \in Nat
    BY <2>1 DEF ScheduleInv, KeyIsTick, Key
  <2>3. /\ runs[i].key[1] < runs[j].key[1] => runs[i].key[2] < runs[j].key[2]
        /\ runs[j].key[1] < runs[i].key[1] => runs[j].key[2] < runs[i].key[2]
    BY DEF ScheduleInv, TicksAreOrdered, InOrder, Started
  <2>4. runs[i].key[1] = runs[j].key[1]
    BY <2>1, <2>2, <2>3, ScheduleBounds DEF Key
  <2>5. runs[i].key = runs[j].key
    BY <2>1, <2>2, <2>4 DEF Key
  <2> QED
    BY <2>5 DEF ScheduleInv, KeyIsTick
<1> QED
  BY <1>1, ScheduleInvariant, PTL

(* For every interleaving of saves, rollbacks, deletes, restores and         *)
(* sweeps, the row is the one of the newest version of a live workflow that  *)
(* has a schedule node (schedule.go SyncWorkflowSchedules).                  *)
THEOREM RowFollowsNewest == ScheduleSpec => []EntryFollowsLatest
<1>1. ScheduleInv => EntryFollowsLatest
  BY DEF ScheduleInv
<1> QED
  BY <1>1, ScheduleInvariant, PTL

(* Who may release a claim: a step that keeps the row and clears the claim   *)
(* is the advance of a holder of that very tick.                             *)
LEMMA OnlyHoldersRelease ==
    ASSUME ScheduleInv, [ScheduleNext]_vars, NEW d \in Instants, entry.claimed = d,
           entry'.id = entry.id, entry'.claimed = NoTime
    PROVE  \E s \in Replica : /\ sweep[s].pc \in {"advance", "drop"}
                              /\ Tick(sweep[s]) = <<entry.id, d>>
<1>0. /\ d # NoTime /\ entry # NoEntry /\ entry \in Row /\ entry.id # 0 /\ entry.id = entries
      /\ Due(entry) = d /\ entries \in Nat
  <2>1. d # NoTime
    BY StandInsAreNoInstants
  <2>2. entry # NoEntry
    BY <2>1, RowFields
  <2>3. entry \in Row /\ entries \in Nat
    BY <2>2, Rows, ScheduleBounds DEF ScheduleInv
  <2> QED
    BY <2>1, <2>2, <2>3, RowFields DEF ScheduleInv, EntryFollowsLatest, Due
<1>1. entry' # entry
  BY <1>0
<1>2. ASSUME NEW doc, NEW v, Sync(doc, v) PROVE FALSE
  <2>1. entry'.id = 0 \/ entry'.id = entries + 1
    BY <1>2, RowFields DEF Sync, Synced
  <2> QED
    BY <1>0, <2>1
<1>3. ~DeactivateWorkflow
  BY <1>0, RowFields DEF DeactivateWorkflow
<1>4. ~LeaseLapses
  <2>1. LeaseLapses => entry'.claimed = entry.claimed
    BY <1>0 DEF LeaseLapses, Row
  <2> QED
    BY <1>0, <2>1
<1>5. ASSUME NEW s \in Replica, Claim(s) PROVE FALSE
  <2>1. entry'.claimed = Due(entry)
    BY <1>0, <1>5 DEF Claim, ClaimedRow, Row
  <2> QED
    BY <1>0, <2>1
<1>6. ASSUME NEW s \in Replica, Disable(s) PROVE FALSE
  <2>1. entry'.claimed = entry.claimed
    BY <1>0, <1>6 DEF Disable, Row
  <2> QED
    BY <1>0, <2>1
<1>7. ASSUME NEW s \in Replica, ReadOwner(s) PROVE FALSE
  <2>1. entry' = NoEntry \/ entry' = entry
    BY <1>7 DEF ReadOwner
  <2> QED
    BY <1>0, <1>1, <2>1, RowFields
<1>8. ASSUME NEW s \in Replica, Advance(s)
      PROVE  sweep[s].pc \in {"advance", "drop"} /\ Tick(sweep[s]) = <<entry.id, d>>
  BY <1>1, <1>8 DEF Advance, HoldsClaim, Tick
<1>9. ASSUME NEW s \in Replica, LookUp(s) \/ LoadVersion(s) \/ StartTick(s) \/ Refuse(s) \/ GiveUp(s)
      PROVE  FALSE
  BY <1>1, <1>9 DEF LookUp, LoadVersion, StartTick, Refuse, GiveUp, RowUntouched
<1>10. ~Clock /\ ~PauseOrResume /\ ~RolloutStep /\ ~(UNCHANGED vars)
  BY <1>1 DEF Clock, PauseOrResume, RolloutStep, vars
<1>11. /\ \A doc \in Doc : ~SaveVersion(doc)
       /\ \A v \in DOMAIN versions : ~RollbackVersion(v)
       /\ ~ReactivateWorkflow
  BY <1>2 DEF SaveVersion, RollbackVersion, ReactivateWorkflow
<1> QED
  BY <1>3, <1>4, <1>5, <1>6, <1>7, <1>8, <1>9, <1>10, <1>11 DEF ScheduleNext, SweepStep

(* A claim of a tick is released only when the tick's run exists, or by a    *)
(* holder of that very tick that drops it: a stale holder, whose lease       *)
(* lapsed and whose row another replica advanced, releases nothing.          *)
THEOREM ClaimsAreAnswered == ScheduleSpec => ClaimIsAnswered
<1> DEFINE Answered ==
      \A d \in Instants :
         (entry.claimed = d /\ entry'.id = entry.id /\ entry'.claimed = NoTime) =>
             \/ \E i \in DOMAIN runs : runs[i].tick = d
             \/ \E s \in Replica : sweep[s].pc = "drop" /\ Tick(sweep[s]) = <<entry.id, d>>
<1>1. ScheduleInv /\ [ScheduleNext]_vars => [Answered]_vars
  <2> SUFFICES ASSUME ScheduleInv, [ScheduleNext]_vars, NEW d \in Instants,
                      entry.claimed = d, entry'.id = entry.id, entry'.claimed = NoTime
               PROVE  \/ \E i \in DOMAIN runs : runs[i].tick = d
                      \/ \E s \in Replica : sweep[s].pc = "drop" /\ Tick(sweep[s]) = <<entry.id, d>>
    OBVIOUS
  <2>1. PICK s \in Replica : /\ sweep[s].pc \in {"advance", "drop"}
                             /\ Tick(sweep[s]) = <<entry.id, d>>
    BY OnlyHoldersRelease
  <2>2. CASE sweep[s].pc = "advance"
    <3>1. KeyUsed(<<entry.id, d>>)
      BY <2>1, <2>2 DEF ScheduleInv, HoldersAreSound
    <3>2. PICK i \in DOMAIN runs : runs[i].key = <<entry.id, d>>
      BY <3>1 DEF KeyUsed
    <3>3. runs[i].tick = d
      BY <3>2 DEF ScheduleInv, KeyIsTick
    <3> QED
      BY <3>3
  <2> QED
    BY <2>1, <2>2
<1> QED
  BY <1>1, ScheduleInvariant, PTL DEF ScheduleSpec, ClaimIsAnswered

-----------------------------------------------------------------------------
(* The other direction of EntryFollowsLatest: no schedule is lost.           *)
LiveScheduleHasRow ==
    ~deleted /\ versions[Latest] \in Scheduled => entry # NoEntry

LEMMA RowSurvives ==
    ASSUME ScheduleInv, LiveScheduleHasRow, [ScheduleNext]_vars
    PROVE  LiveScheduleHasRow'
<1>0. /\ versions \in Seq(Doc) /\ Len(versions) \in Nat /\ entry \in {NoEntry} \cup Row
      /\ entries \in Nat
  BY Rows, ScheduleBounds DEF ScheduleInv
<1>1. ASSUME NEW doc, NEW v, Sync(doc, v), doc \in Scheduled PROVE entry' # NoEntry
  <2>1. entry'.id = entries + 1
    BY <1>1 DEF Sync, Synced
  <2>2. entries + 1 # 0
    BY <1>0
  <2> QED
    BY <2>1, <2>2, RowFields
<1>2. ASSUME NEW doc \in Doc, AppendVersion(doc), Sync(doc, Latest + 1)
      PROVE  LiveScheduleHasRow'
  <2>1. versions' = Append(versions, doc)
    BY <1>2 DEF AppendVersion
  <2>2. versions'[Latest'] = doc
    BY <1>0, <2>1 DEF Latest
  <2> QED
    BY <1>1, <1>2, <2>2 DEF LiveScheduleHasRow
<1>3. ASSUME NEW v \in DOMAIN versions, RollbackVersion(v) PROVE LiveScheduleHasRow'
  <2>1. versions[v] \in Doc
    BY <1>0
  <2> QED
    BY <1>2, <1>3, <2>1 DEF RollbackVersion, RollbackTo
<1>4. CASE ReactivateWorkflow
  <2>1. UNCHANGED versions /\ Sync(versions[Latest], Latest)
    BY <1>4 DEF ReactivateWorkflow, Reactivate
  <2> QED
    BY <1>1, <2>1 DEF LiveScheduleHasRow, Latest
<1>5. CASE DeactivateWorkflow
  BY <1>5 DEF DeactivateWorkflow, Deactivate, LiveScheduleHasRow
<1>6. ASSUME UNCHANGED <<deleted, versions>>,
             entry # NoEntry => \/ entry' = entry \/ deleted \/ entry'.id = entry.id
      PROVE  LiveScheduleHasRow'
  <2> SUFFICES ASSUME ~deleted, versions[Latest] \in Scheduled, entry' = NoEntry PROVE FALSE
    BY <1>6 DEF LiveScheduleHasRow, Latest
  <2>1. entry # NoEntry /\ entry \in Row
    BY <1>0 DEF LiveScheduleHasRow
  <2>2. entry.id # 0
    BY <2>1, RowFields
  <2> QED
    BY <1>6, <2>1, <2>2, RowFields
<1>7. \A e \in Row, h \in {Idle} \cup Holder :
        /\ [e EXCEPT !.next = Lapsed].id = e.id /\ [e EXCEPT !.enabled = FALSE].id = e.id
        /\ ClaimedRow(e).id = e.id /\ AdvancedRow(e, h).id = e.id
  BY DEF ClaimedRow, AdvancedRow, Row
<1>8. CASE LeaseLapses
  <2>1. UNCHANGED <<deleted, versions>> /\ entry' = [entry EXCEPT !.next = Lapsed]
    BY <1>8 DEF LeaseLapses, dVars
  <2>2. entry # NoEntry => entry'.id = entry.id
    BY <1>0, <2>1 DEF Row
  <2> QED
    BY <1>6, <2>1, <2>2
<1>9. CASE Clock \/ PauseOrResume \/ RolloutStep \/ UNCHANGED vars
  <2>1. UNCHANGED <<deleted, versions, entry>>
    BY <1>9 DEF Clock, PauseOrResume, RolloutStep, CreateRollout, FinishRollout, dVars, vars
  <2> QED
    BY <1>6, <2>1
<1>10. ASSUME NEW s \in Replica,
              Claim(s) \/ Disable(s) \/ SweepStep(s) \/ Refuse(s) \/ GiveUp(s)
       PROVE  LiveScheduleHasRow'
  <2>1. UNCHANGED <<deleted, versions>>
    BY <1>10 DEF Claim, Disable, SweepStep, Refuse, GiveUp, ReadOwner, LookUp, LoadVersion,
                 StartTick, Advance, dVars
  <2>2. \/ entry' = entry \/ deleted \/ entry' = ClaimedRow(entry)
        \/ entry' = [entry EXCEPT !.enabled = FALSE] \/ entry' = AdvancedRow(entry, sweep[s])
    BY <1>10 DEF Claim, Disable, SweepStep, Refuse, GiveUp, ReadOwner, LookUp, LoadVersion,
                 StartTick, Advance, RowUntouched
  <2>3. sweep[s] \in {Idle} \cup Holder
    BY Rows DEF ScheduleInv
  <2> QED
    BY <1>0, <1>6, <1>7, <2>1, <2>2, <2>3
<1> QED
  BY <1>2, <1>3, <1>4, <1>5, <1>8, <1>9, <1>10 DEF ScheduleNext, SaveVersion

(* A live workflow whose newest version has a schedule node has a row, and   *)
(* it is that version's: no save, rollback, restore, claim, stale advance or *)
(* orphan cleanup loses it (schedule.go SyncWorkflowSchedules,               *)
(* fireScheduleEntry).                                                       *)
THEOREM ScheduleIsNeverLost == ScheduleSpec => [](LiveScheduleHasRow /\ EntryFollowsLatest)
<1>1. ScheduleInit => LiveScheduleHasRow
  <2> SUFFICES ASSUME ScheduleInit, versions[Latest] \in Scheduled PROVE entry # NoEntry
    BY DEF LiveScheduleHasRow
  <2>1. Latest = 1
    BY DEF ScheduleInit, DeploymentInit, Latest
  <2>2. entry.id = 1
    BY <2>1 DEF ScheduleInit
  <2> QED
    BY <2>2, RowFields
<1>2. ScheduleInv /\ LiveScheduleHasRow /\ [ScheduleNext]_vars => LiveScheduleHasRow'
  BY RowSurvives
<1> QED
  BY <1>1, <1>2, ScheduleInvariant, RowFollowsNewest, PTL DEF ScheduleSpec

=============================================================================
