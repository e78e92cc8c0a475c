------------------------------ MODULE TabSync ------------------------------
(***************************************************************************)
(* The sync feature (features/sync): one store shared by several tabs over *)
(* a BroadcastChannel.  Every tab keeps a clock and the version (clock and *)
(* source) it accepted last, broadcasts its writes, accepts what is newer, *)
(* asks for a snapshot at set-up, on focus and on "online", and suppresses *)
(* broadcasts for a while after it accepted something (the loop guard).    *)
(*                                                                         *)
(* A step is one callback of one tab.  Messages between two tabs arrive in *)
(* the order they were posted, messages of different tabs in any order,    *)
(* and those to a closed channel are lost.  Whether the loop guard is still*)
(* in force is a choice.  A value is a stamp no other write has; 0 is the  *)
(* initial value of the store, the same in every tab.                      *)
(***************************************************************************)
EXTENDS Naturals, Sequences, FiniteSets

CONSTANTS
  Tabs,           \* instance ids, ordered as localeCompare orders them
  MaxWrites,      \* bound on local writes
  MaxRequests,    \* bound on snapshot requests
  Crowded,        \* may three tabs or more write while a snapshot is asked for?
  Recreate,       \* may a tab delete the store and create it again?
  Drops,          \* may a broadcast be given up (too large, not cloneable, not signed)
                  \* or an incoming state be rejected (token, checksum, validation)?
  Resolver        \* is a conflictResolver set?

ASSUME SyncAssumption ==
  /\ Tabs \subseteq Nat /\ IsFiniteSet(Tabs)
  /\ MaxWrites \in Nat /\ MaxRequests \in Nat
  /\ {Crowded, Recreate, Drops, Resolver} \subseteq BOOLEAN

VARIABLES
  stamp,            \* the last stamp given to a write
  open,             \* the tab has the store, with its channel open
  setup,            \* the microtask of setupSync is still to run
  value,            \* the tab's store
  syncClocks, syncVersions,
  loopGuard,        \* loopGuardUntil is set
  wire,             \* wire[<<t, u>>]: messages of t that u has still to receive
  opened,           \* ghost: tabs that ever had the store
  requests,         \* snapshot requests so far
  unsent,           \* ghost: the loop guard kept the tab's version from being posted
  lost,             \* ghost: a message was dropped
  over              \* ghost: over[v] is what write v replaced, directly or indirectly

tabVars == <<open, setup, opened>>
stateVars == <<value, syncClocks, syncVersions, loopGuard, unsent>>
writeVars == <<stamp, over>>
vars == <<tabVars, stateVars, writeVars, wire, requests, lost>>

Stamps == 0 .. MaxWrites
Version == [clock : Nat, source : Tabs]
Message ==
  [type : {"sync-request"}]
    \cup [type : {"sync-state"}, clock : Nat, source : Tabs, data : Stamps, reply : BOOLEAN]

TypeOK ==
  /\ stamp \in Stamps
  /\ open \in [Tabs -> BOOLEAN]
  /\ setup \in [Tabs -> BOOLEAN]
  /\ value \in [Tabs -> Stamps]
  /\ syncClocks \in [Tabs -> Nat]
  /\ syncVersions \in [Tabs -> Version]
  /\ loopGuard \in [Tabs -> BOOLEAN]
  /\ wire \in [Tabs \X Tabs -> Seq(Message)]
  /\ opened \in SUBSET Tabs
  /\ requests \in 0 .. MaxRequests
  /\ unsent \in [Tabs -> BOOLEAN]
  /\ lost \in BOOLEAN
  /\ over \in [Stamps -> SUBSET Stamps]
  /\ \A t \in Tabs : syncVersions[t].clock = syncClocks[t]

Init ==
  /\ stamp = 0
  /\ open = [t \in Tabs |-> FALSE]
  /\ setup = [t \in Tabs |-> FALSE]
  /\ value = [t \in Tabs |-> 0]
  /\ syncClocks = [t \in Tabs |-> 0]
  /\ syncVersions = [t \in Tabs |-> [clock |-> 0, source |-> t]]
  /\ loopGuard = [t \in Tabs |-> FALSE]
  /\ wire = [c \in Tabs \X Tabs |-> <<>>]
  /\ opened = {}
  /\ requests = 0
  /\ unsent = [t \in Tabs |-> FALSE]
  /\ lost = FALSE
  /\ over = [v \in Stamps |-> {}]

-----------------------------------------------------------------------------
(***************************************************************************)
(* What the runs allow.                                                    *)
(***************************************************************************)

Quiet == \A c \in Tabs \X Tabs : wire[c] = <<>>

\* A snapshot is being asked for, or a tab that opened will ask for one.
Asking ==
  \/ \E t \in Tabs : setup[t]
  \/ \E c \in Tabs \X Tabs : \E i \in DOMAIN wire[c] :
       wire[c][i].type = "sync-request" \/ wire[c][i].reply

\* Every version has been posted, and what was posted has arrived.
InStep == Quiet /\ ~lost /\ \A t \in Tabs : ~unsent[t]

Few == Crowded \/ Cardinality(opened) <= 2
MayAsk == Few \/ (InStep /\ ~Asking)
MayWrite == Few \/ ~Asking
MayOpen(t) == Crowded \/ Cardinality(opened \cup {t}) <= 2 \/ (InStep /\ ~Asking)

-----------------------------------------------------------------------------
(***************************************************************************)
(* Messages.                                                               *)
(***************************************************************************)

\* channel.postMessage
Post(w, t, m) ==
  [c \in Tabs \X Tabs |-> IF c[1] = t /\ c[2] # t /\ open[c[2]] THEN Append(w[c], m) ELSE w[c]]

Deliver(u, t) == [wire EXCEPT ![<<u, t>>] = Tail(@)]

\* The payload of broadcastSync: the tab's clock and value, with itself as source.
SyncState(t, reply) ==
  [type |-> "sync-state", clock |-> syncClocks'[t], source |-> t, data |-> value'[t],
   reply |-> reply]

\* broadcastSync, with w in flight.
BroadcastSync(w, t, reply) ==
  \/ /\ wire' = Post(w, t, SyncState(t, reply))
     /\ unsent' = [unsent EXCEPT ![t] = FALSE]
     /\ UNCHANGED lost
  \/ /\ Drops
     /\ wire' = w
     /\ lost' = TRUE
     /\ UNCHANGED unsent

\* Mutant of IsNewer: the clock alone decides.
IsNewerByClock(m, v) == m.clock > v.clock

\* compareSyncOrder > 0
IsNewer(m, v) == m.clock > v.clock \/ (m.clock = v.clock /\ m.source > v.source)

-----------------------------------------------------------------------------
(***************************************************************************)
(* The store comes and goes.                                               *)
(***************************************************************************)

\* createStore with the sync option: onStoreCreate, setupSync.
CreateStore(t) ==
  /\ ~open[t]
  /\ Recreate \/ t \notin opened
  /\ MayOpen(t)
  /\ open' = [open EXCEPT ![t] = TRUE]
  /\ opened' = opened \cup {t}
  /\ setup' = [setup EXCEPT ![t] = TRUE]
  /\ value' = [value EXCEPT ![t] = 0]
  /\ syncVersions' = [syncVersions EXCEPT ![t] = [clock |-> syncClocks[t], source |-> t]]
  /\ UNCHANGED <<syncClocks, loopGuard, unsent, writeVars, wire, requests, lost>>

\* deleteStore, or the tab is closed: closeSyncResources.
DeleteStore(t) ==
  /\ open[t]
  /\ open' = [open EXCEPT ![t] = FALSE]
  /\ wire' = [c \in Tabs \X Tabs |-> IF c[2] = t THEN <<>> ELSE wire[c]]
  /\ syncClocks' = [syncClocks EXCEPT ![t] = 0]
  /\ syncVersions' = [syncVersions EXCEPT ![t] = [clock |-> 0, source |-> t]]
  /\ loopGuard' = [loopGuard EXCEPT ![t] = FALSE]
  /\ unsent' = [unsent EXCEPT ![t] = FALSE]
  /\ setup' = [setup EXCEPT ![t] = FALSE]
  /\ UNCHANGED <<opened, value, writeVars, requests, lost>>

\* requestSyncSnapshot, from the microtask of setupSync.
SetupRequest(t) ==
  /\ setup[t]
  /\ setup' = [setup EXCEPT ![t] = FALSE]
  /\ wire' = Post(wire, t, [type |-> "sync-request"])
  /\ UNCHANGED <<open, opened, stateVars, writeVars, requests, lost>>

\* requestSyncSnapshot, on "focus" or "online".
FocusRequest(t) ==
  /\ open[t] /\ ~setup[t]
  /\ requests < MaxRequests
  /\ MayAsk
  /\ requests' = requests + 1
  /\ wire' = Post(wire, t, [type |-> "sync-request"])
  /\ UNCHANGED <<tabVars, stateVars, writeVars, lost>>

-----------------------------------------------------------------------------
(***************************************************************************)
(* Writes.                                                                 *)
(***************************************************************************)

\* Tab t gets a value of its own, made from the values it has seen.
Replace(t, seen) ==
  /\ stamp < MaxWrites
  /\ stamp' = stamp + 1
  /\ value' = [value EXCEPT ![t] = stamp']
  /\ over' = [over EXCEPT ![stamp'] = UNION {over[v] \cup {v} : v \in seen}]

\* Mutant of EnsureLocalClock: the write keeps the clock it found.
RecordWithoutBump(t) ==
  /\ syncVersions' = [syncVersions EXCEPT ![t] = [clock |-> syncClocks[t], source |-> t]]
  /\ UNCHANGED syncClocks

\* ensureLocalClock
EnsureLocalClock(t) ==
  /\ syncClocks' = [syncClocks EXCEPT ![t] = @ + 1]
  /\ syncVersions' = [syncVersions EXCEPT ![t] = [clock |-> syncClocks'[t], source |-> t]]

\* A local write and onStoreWrite.  Within the window of the loop guard the
\* clock moves on, but nothing is sent.
Write(t) ==
  /\ open[t]
  /\ MayWrite
  /\ Replace(t, {value[t]})
  /\ EnsureLocalClock(t)
  /\ \/ /\ loopGuard[t]
        /\ unsent' = [unsent EXCEPT ![t] = TRUE]
        /\ UNCHANGED <<loopGuard, wire, lost>>
     \/ /\ loopGuard' = [loopGuard EXCEPT ![t] = FALSE]
        /\ BroadcastSync(wire, t, FALSE)
  /\ UNCHANGED <<tabVars, requests>>

-----------------------------------------------------------------------------
(***************************************************************************)
(* channel.onmessage                                                       *)
(***************************************************************************)

Arrives(u, t, type) ==
  /\ ~setup[t]
  /\ wire[<<u, t>>] # <<>>
  /\ Head(wire[<<u, t>>]).type = type

\* A request is answered to everyone, whatever version the tab holds.
AnswerRequest(u, t) ==
  /\ Arrives(u, t, "sync-request")
  /\ UNCHANGED <<tabVars, value, syncClocks, syncVersions, loopGuard, writeVars, requests>>
  /\ BroadcastSync(Deliver(u, t), t, TRUE)

\* Mutant of Accept: the version is recorded, the clock is not moved on.
AcceptKeepsClock(u, t) ==
  /\ Arrives(u, t, "sync-state")
  /\ LET m == Head(wire[<<u, t>>])
     IN /\ IsNewer(m, syncVersions[t])
        /\ value' = [value EXCEPT ![t] = m.data]
        /\ syncVersions' = [syncVersions EXCEPT ![t] = [clock |-> m.clock, source |-> m.source]]
  /\ loopGuard' = [loopGuard EXCEPT ![t] = TRUE]
  /\ unsent' = [unsent EXCEPT ![t] = FALSE]
  /\ wire' = Deliver(u, t)
  /\ UNCHANGED <<tabVars, syncClocks, writeVars, requests, lost>>

\* A state that is newer is applied, and its version accepted.
Accept(u, t) ==
  /\ Arrives(u, t, "sync-state")
  /\ LET m == Head(wire[<<u, t>>])
     IN /\ IsNewer(m, syncVersions[t])
        /\ value' = [value EXCEPT ![t] = m.data]
        /\ syncClocks' = [syncClocks EXCEPT ![t] = IF m.clock > @ THEN m.clock ELSE @]
        /\ syncVersions' = [syncVersions EXCEPT ![t] = [clock |-> m.clock, source |-> m.source]]
  /\ loopGuard' = [loopGuard EXCEPT ![t] = TRUE]
  /\ unsent' = [unsent EXCEPT ![t] = FALSE]
  /\ wire' = Deliver(u, t)
  /\ UNCHANGED <<tabVars, writeVars, requests, lost>>

\* A state that is not newer is ignored, also when the resolver returns nothing.
Ignore(u, t) ==
  /\ Arrives(u, t, "sync-state")
  /\ ~IsNewer(Head(wire[<<u, t>>]), syncVersions[t])
  /\ wire' = Deliver(u, t)
  /\ UNCHANGED <<tabVars, stateVars, writeVars, requests, lost>>

\* The resolver makes a new value out of the local one and one that is not newer.
Resolve(u, t) ==
  /\ Resolver
  /\ Arrives(u, t, "sync-state")
  /\ LET m == Head(wire[<<u, t>>])
     IN /\ ~IsNewer(m, syncVersions[t])
        /\ Replace(t, {value[t], m.data})
        /\ syncClocks' = [syncClocks EXCEPT ![t] = (IF m.clock > @ THEN m.clock ELSE @) + 1]
  /\ syncVersions' = [syncVersions EXCEPT ![t] = [clock |-> syncClocks'[t], source |-> t]]
  /\ loopGuard' = [loopGuard EXCEPT ![t] = TRUE]
  /\ BroadcastSync(Deliver(u, t), t, FALSE)
  /\ UNCHANGED <<tabVars, requests>>

\* A message that is malformed, of another protocol, not verified or not valid.
Reject(u, t) ==
  /\ Drops
  /\ Arrives(u, t, "sync-state") \/ Arrives(u, t, "sync-request")
  /\ lost' = TRUE
  /\ wire' = Deliver(u, t)
  /\ UNCHANGED <<tabVars, stateVars, writeVars, requests>>

-----------------------------------------------------------------------------
Next ==
  \/ \E t \in Tabs : CreateStore(t) \/ DeleteStore(t) \/ SetupRequest(t) \/ FocusRequest(t) \/ Write(t)
  \/ \E u, t \in Tabs : AnswerRequest(u, t) \/ Accept(u, t) \/ Ignore(u, t) \/ Resolve(u, t) \/ Reject(u, t)

Spec == Init /\ [][Next]_vars

-----------------------------------------------------------------------------
(***************************************************************************)
(* Properties.                                                             *)
(***************************************************************************)

\* Versions stand for values: two tabs that accepted the same version show the same.
VersionIdentifiesValue ==
  \A t, u \in Tabs :
    open[t] /\ open[u] /\ syncVersions[t] = syncVersions[u] => value[t] = value[u]

\* The tabs converge: once every message has arrived, if none was dropped and no
\* tab keeps a write the loop guard suppressed, all tabs show the same value, however
\* their writes were interleaved with messages, snapshots and tabs that come and go.
\* At any time a version stands for one value.
Converged ==
  /\ VersionIdentifiesValue
  /\ InStep /\ ~Asking => \A t, u \in Tabs : open[t] /\ open[u] => value[t] = value[u]

\* Old updates never overwrite newer ones: no tab goes from a value to one that
\* value replaced, in this tab or in another, whatever is delayed, suppressed or
\* dropped, and whoever answers requests.
NoRollback ==
  [][\A t \in Tabs : open[t] /\ open'[t] => value'[t] \notin over[value[t]]]_vars
=============================================================================
