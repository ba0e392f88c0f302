------------------------------ MODULE TexCache ------------------------------
(***************************************************************************)
(* Cover art (src/src/texcache.c): the texture caches of the theme, the    *)
(* private request queue, and the art worker that reads and decodes the    *)
(* images, together with the callers that cancel loads, switch the theme   *)
(* or take the program down (src/src/themes.c, src/src/opl.c).             *)
(*                                                                         *)
(* Three threads of one core with strict priorities: the GUI (31), the I/O *)
(* worker (32) and the art worker (72).  A thread takes a step only while  *)
(* every thread above it waits, so the GUI's code is atomic between its    *)
(* sleeps, the I/O worker's can be cut by the GUI's, and the art worker's  *)
(* by both.  The queue is guarded by a DIntr/EIntr bracket: one step.      *)
(*                                                                         *)
(* Data is reduced to what the code tells apart.  Epoch counters are only  *)
(* compared with their current value, so a copy is a Boolean "is still     *)
(* current".  Frame stamps are only compared with each other and with the  *)
(* current frame, so lastUsed is an age that saturates at Old.  A request  *)
(* is an address: a freed one can be handed out again by malloc.           *)
(***************************************************************************)
EXTENDS Integers, Sequences, FiniteSets

CONSTANTS
  Values,       \* what a row asks art for: a startup id or a VCD name
  Sio2,         \* the values whose device is on the controller's bus
  Keyed,        \* the values short enough for cache_entry_t.key
  NumSlots,     \* image_cache_t.count
  OneSlotBG,    \* TRUE: the cache's suffix is "BG"
  Reqs,         \* addresses malloc can return for a request
  NumThemes,    \* bound: theme loads (each brings a new cache), plus one
  MaxUID,       \* bound: requests made in one cache
  Inputs,       \* which of the GUI's optional inputs this instance has
  Calls,        \* the <<thread, operation>> pairs this instance performs
  MaxCalls,     \* bound: how many of them in a behaviour
  StaleFrames,  \* ART_CANCEL_STALE_FRAMES
  NULL

Gui == "gui"
Io  == "io"
Art == "art"
Callers == {Gui, Io}
Threads == {Gui, Io, Art}
KeepsRows == {"language", "reinit"}
ThemeOps == {"theme", "language", "reinit"}
Ops == {"cancel", "abort", "exit"} \cup ThemeOps

ASSUME SetsAssumption == Sio2 \subseteq Values /\ Keyed \subseteq Values
ASSUME NullAssumption == NULL \notin Values /\ NULL \notin Reqs
ASSUME BoundsAssumption ==
  /\ NumSlots \in Nat \ {0} /\ NumThemes \in Nat \ {0} /\ MaxUID \in Nat
  /\ MaxCalls \in Nat /\ StaleFrames \in Nat /\ OneSlotBG \in BOOLEAN
ASSUME CallsAssumption ==
  /\ Calls \subseteq Callers \X Ops
  /\ Inputs \subseteq {"priority", "nav", "lookup", "view", "fail", "rebuild"}

Slots  == 0..(NumSlots - 1)
Caches == 1..NumThemes
UIDs   == 1..MaxUID

\* The two negative values of a row's cache_id.
Unasked == -1
Parked  == -2

\* Ages of a slot: frames since lastUsed, then the two values of lastUsed that
\* are not frames, in the order of the eviction scan (0 before any frame, -1
\* before 0).
Old    == StaleFrames + 1
Absent == StaleFrames + 2
Unused == StaleFrames + 3
Ages   == 0..Unused

VARIABLES
  cur,                  \* the cache of gTheme
  cstate,               \* cache -> "unborn", "live", "leaked" or "freed"
  content,              \* cache -> slot -> cache_entry_t
  nextUID,              \* cache -> nextUID
  activeRequests,       \* cache -> activeRequests
  request,              \* address -> load_image_request_t
  live,                 \* the addresses that are allocated
  rows,                 \* value -> cache_id, cache_uid of its row
  queue,                \* gArtReqList..gArtReqEnd; its length is gArtQueuedCount
  gArtCurrentReq,       \* gArtActiveCount is 1 exactly when this is not NULL
  wakeup,               \* a WakeupThread of the art worker is pending
  focus,                \* gArtFocusList/Hash/Len: the selected value
  gArtNavActive,
  gCacheLoadsCancelled,
  gArtTerminate,
  gArtShutdownAbandoned,
  gArtRunning,
  pc,                   \* thread -> where it is
  op,                   \* caller -> the operation it performs
  phase,                \* caller -> which cancel of that operation
  chain,                \* caller -> detached requests still to be freed
  keep,                 \* caller -> detached requests to be pushed back
  old,                  \* caller -> the cache cacheDestroyCache works on
  artReq,               \* the art worker's local req
  loaded,               \* thread -> activeRequests as last loaded
  calls,                \* how many Calls were made
  lost                  \* history: cache -> a store overwrote a newer count

cacheVars == <<cur, cstate, content, nextUID>>
reqVars   == <<request, live>>
guiVars   == <<rows, focus, gArtNavActive>>
artVars   == <<queue, gArtCurrentReq, artReq, wakeup>>
lifeVars  == <<gCacheLoadsCancelled, gArtTerminate, gArtShutdownAbandoned,
               gArtRunning>>
countVars == <<activeRequests, loaded, lost>>
callVars  == <<op, phase, chain, keep, old, calls>>
vars == <<cacheVars, reqVars, guiVars, artVars, lifeVars, countVars, callVars,
          pc>>

Entry == [qr : Reqs \cup {NULL}, age : Ages, UID : 0..MaxUID,
          owner : Values \cup {NULL}, failOK : BOOLEAN,
          img : Values \cup {NULL}]
Request == [cache : Caches, slot : Slots, uid : UIDs, val : Values,
            viewOK : BOOLEAN, focusOK : BOOLEAN, failOK : BOOLEAN,
            abort : BOOLEAN]
\* ok: the fail generation parked in cache_uid is the current one.
Row == [id : Slots \cup {Unasked, Parked}, uid : 0..MaxUID, ok : BOOLEAN]

\* A slot after the memset of cacheClearItem, and after the whole of it.
Zeroed  == [qr |-> NULL, age |-> Absent, UID |-> 0, owner |-> NULL,
            failOK |-> FALSE, img |-> NULL]
Cleared == [Zeroed EXCEPT !.age = Unused]

NewRow == [id |-> Unasked, uid |-> 0, ok |-> FALSE]

CallerLabels == {"idle", "walk", "clear", "count", "store", "wait", "next",
                 "swap", "destroy", "destroy_wait", "rebuild", "drain",
                 "join", "ended"}
ArtLabels == {"sleep", "pop", "gate", "zero", "clear", "read", "unqr",
              "release", "count", "store", "exit", "dead"}

----------------------------------------------------------------------------
(* Scheduling *)

\* "idle" is the wait for the vertical blank, or for a request of the queue of
\* the I/O worker; the others are loops around DelayThread.
Waits == {"idle", "wait", "destroy_wait", "drain", "join", "ended"}

Runs(t) ==
  /\ t # Gui => pc[Gui] \in Waits
  /\ t = Art => pc[Io] \in Waits

Goto(t, label) == pc' = [pc EXCEPT ![t] = label]

----------------------------------------------------------------------------
Init ==
  /\ cur = 1
  /\ cstate = [c \in Caches |-> IF c = 1 THEN "live" ELSE "unborn"]
  /\ content = [c \in Caches |-> [s \in Slots |-> Cleared]]
  /\ nextUID = [c \in Caches |-> 1]
  /\ activeRequests = [c \in Caches |-> 0]
  /\ request = [r \in Reqs |-> NULL]
  /\ live = {}
  /\ rows = [v \in Values |-> NewRow]
  /\ queue = <<>> /\ gArtCurrentReq = NULL /\ wakeup = FALSE
  /\ focus = NULL /\ gArtNavActive = FALSE
  /\ gCacheLoadsCancelled = FALSE /\ gArtTerminate = FALSE
  /\ gArtShutdownAbandoned = FALSE /\ gArtRunning = TRUE
  /\ pc = [t \in Threads |-> IF t = Art THEN "sleep" ELSE "idle"]
  /\ op = [t \in Callers |-> "cancel"]
  /\ phase = [t \in Callers |-> "cancel"]
  /\ chain = [t \in Callers |-> <<>>]
  /\ keep = [t \in Callers |-> <<>>]
  /\ old = [t \in Callers |-> 1]
  /\ artReq = NULL
  /\ loaded = [t \in Threads |-> 0]
  /\ calls = 0
  /\ lost = [c \in Caches |-> FALSE]

----------------------------------------------------------------------------
(* The GUI thread draws: cacheGetTextureEx *)

Entries == content[cur]

\* Mutant: cache_uid is not compared with the slot's UID.
ByIdOnly(v) == {s \in Slots : rows[v].id = s}

\* The slot the row's own ids name, while the slot's UID still matches.
ByUid(v) ==
  {s \in Slots : rows[v].id = s /\ Entries[s].UID = rows[v].uid}

\* The first slot that was claimed for this value and has kept its key.
ByKey(v) ==
  {s \in Slots : /\ v \in Keyed /\ Entries[s].owner = v
                 /\ \A s2 \in Slots : Entries[s2].owner = v => s <= s2}

Found(v) == IF ByUid(v) # {} THEN ByUid(v) ELSE ByKey(v)

Loading(v) == {s \in Found(v) : Entries[s].qr # NULL}

\* By its ids a row takes the park of any generation, by its key only a current
\* one.
KnownAbsent(v) ==
  {s \in Found(v) : /\ Entries[s].qr = NULL /\ Entries[s].age = Absent
                    /\ s \in ByUid(v) \/ Entries[s].failOK}

\* By its ids a row takes whatever the slot holds.
Ready(v) ==
  {s \in Found(v) : /\ Entries[s].qr = NULL /\ Entries[s].age # Absent
                    /\ s \in ByUid(v) \/ Entries[s].img # NULL}

IsParked(v) == rows[v].id = Parked /\ rows[v].ok

\* The GUI is free to draw: it is not in a call, and the menu is still up.
Draws == pc[Gui] = "idle" /\ ~gCacheLoadsCancelled

\* The request table after artUpdateFocus(v), run for priority requests only.
Refocused(v, prio) ==
  IF prio /\ focus # v
  THEN [r \in Reqs |-> IF r \in live THEN [request[r] EXCEPT !.focusOK = FALSE]
                       ELSE request[r]]
  ELSE request

artUpdateFocus(v, prio) == focus' = IF prio THEN v ELSE focus

\* A priority request goes first, except on the pad's bus under a held
\* direction.
GoesFirst(v, prio) == prio /\ ~(v \in Sio2 /\ gArtNavActive)

\* artPromote: only a request of the present queue moves, to its head; those that
\* were before it move back by one.
Promoted(r) ==
  IF \E i \in DOMAIN queue : queue[i] = r
  THEN LET i == CHOOSE i \in DOMAIN queue : queue[i] = r
       IN [j \in DOMAIN queue |-> IF j = 1 THEN r
                                  ELSE IF j <= i THEN queue[j - 1] ELSE queue[j]]
  ELSE queue

Stamp(s) == content' = [content EXCEPT ![cur][s].age = 0]

DrawParked(v, prio) ==
  /\ Draws /\ IsParked(v)
  /\ request' = Refocused(v, prio) /\ artUpdateFocus(v, prio)
  /\ UNCHANGED <<cacheVars, live, rows, gArtNavActive, artVars, lifeVars,
                 countVars, callVars, pc>>

\* Still being loaded: keep it wanted, adopt it into the current focus.
DrawLoading(v, prio) ==
  /\ Draws /\ ~IsParked(v)
  /\ \E s \in Loading(v) :
       LET e == Entries[s]
           t == Refocused(v, prio)
       IN /\ Stamp(s)
          /\ rows' = [rows EXCEPT ![v] = [id |-> s, uid |-> e.UID, ok |-> FALSE]]
          /\ request' = IF e.qr \in live THEN [t EXCEPT ![e.qr].focusOK = TRUE]
                        ELSE t
          /\ queue' = IF GoesFirst(request[e.qr].val, prio) THEN Promoted(e.qr)
                      ELSE queue
  /\ artUpdateFocus(v, prio)
  /\ UNCHANGED <<cur, cstate, nextUID, live, gArtNavActive, gArtCurrentReq,
                 artReq, wakeup, lifeVars, countVars, callVars, pc>>

\* The answer was "no such file": the row parks itself in the current
\* generation.
DrawAbsent(v, prio) ==
  /\ Draws /\ ~IsParked(v)
  /\ KnownAbsent(v) # {}
  /\ rows' = [rows EXCEPT ![v] = [id |-> Parked, uid |-> 0, ok |-> TRUE]]
  /\ request' = Refocused(v, prio) /\ artUpdateFocus(v, prio)
  /\ UNCHANGED <<cacheVars, live, gArtNavActive, artVars, lifeVars, countVars,
                 callVars, pc>>

DrawReady(v, prio) ==
  /\ Draws /\ ~IsParked(v)
  /\ \E s \in Ready(v) :
       /\ Stamp(s)
       /\ rows' = [rows EXCEPT ![v] = [id |-> s, uid |-> Entries[s].UID,
                                       ok |-> FALSE]]
  /\ request' = Refocused(v, prio) /\ artUpdateFocus(v, prio)
  /\ UNCHANGED <<cur, cstate, nextUID, live, gArtNavActive, artVars, lifeVars,
                 countVars, callVars, pc>>

\* cacheLookupTexture: draws what is there and asks for nothing.
cacheLookupTexture(v) ==
  /\ Draws
  /\ \E s \in ByUid(v) :
       /\ Entries[s].qr = NULL /\ Entries[s].age # Absent
       /\ Entries[s].img # NULL
       /\ Stamp(s)
  /\ UNCHANGED <<cur, cstate, nextUID, reqVars, guiVars, artVars, lifeVars,
                 countVars, callVars, pc>>

----------------------------------------------------------------------------
(* The GUI thread draws: the row has no art and nothing pending *)

\* Slots the eviction scan may take.
Claimable(v) ==
  {s \in Slots : /\ Entries[s].qr = NULL /\ Entries[s].age > 0
                 /\ (v \in Sio2 /\ gArtNavActive) => Entries[s].age > Old}

\* The least recently used of them, the first one among equals.
Oldest(v) ==
  {s \in Claimable(v) : \A s2 \in Claimable(v) :
     /\ Entries[s2].age <= Entries[s].age
     /\ Entries[s2].age = Entries[s].age /\ Entries[s].age # Old => s <= s2}

\* One-slot background: what is loading for another value is told to stop.
Superseded(v, t) ==
  LET e == Entries[0]
  IN IF OneSlotBG /\ NumSlots = 1 /\ e.qr \in live /\ e.owner \in Keyed \ {v}
     THEN [t EXCEPT ![e.qr].abort = TRUE]
     ELSE t

NewRequest(v, s) ==
  [cache |-> cur, slot |-> s, uid |-> nextUID[cur], val |-> v,
   viewOK |-> TRUE, focusOK |-> TRUE, failOK |-> TRUE, abort |-> FALSE]

\* The slot, born wanted: its stamp is the current frame.
Claimed(v, r) ==
  [Cleared EXCEPT !.qr = r, !.UID = nextUID[cur], !.owner = v, !.age = 0]

Misses(v) ==
  /\ Draws /\ ~IsParked(v)
  /\ Loading(v) = {} /\ KnownAbsent(v) = {} /\ Ready(v) = {}

\* Not asked for in this frame: a device on the pad's bus under recent input,
\* no slot to take, or no memory for the request.
DrawNothing(v, prio, settled) ==
  /\ Misses(v)
  /\ LET t == Refocused(v, prio)
     IN \/ v \in Sio2 /\ ~settled /\ request' = t
        \/ /\ v \in Sio2 => settled
           /\ Oldest(v) = {} \/ live = Reqs
           /\ request' = Superseded(v, t)
  /\ rows' = [rows EXCEPT ![v].id = Unasked]
  /\ artUpdateFocus(v, prio)
  /\ UNCHANGED <<cacheVars, live, gArtNavActive, artVars, lifeVars, countVars,
                 callVars, pc>>

\* Claim the oldest slot, and queue a request for it.
DrawClaim(v, prio, settled) ==
  /\ Misses(v)
  /\ v \in Sio2 => settled
  /\ nextUID[cur] <= MaxUID
  /\ \E s \in Oldest(v), r \in Reqs \ live :
       /\ request' = [Superseded(v, Refocused(v, prio))
                        EXCEPT ![r] = NewRequest(v, s)]
       /\ live' = live \cup {r}
       /\ content' = [content EXCEPT ![cur][s] = Claimed(v, r)]
       /\ rows' = [rows EXCEPT ![v] = [id |-> s, uid |-> nextUID[cur],
                                       ok |-> FALSE]]
       /\ queue' = IF GoesFirst(v, prio) THEN <<r>> \o queue
                   ELSE Append(queue, r)
  /\ nextUID' = [nextUID EXCEPT ![cur] = @ + 1]
  /\ activeRequests' = [activeRequests EXCEPT ![cur] = @ + 1]
  /\ wakeup' = TRUE
  /\ artUpdateFocus(v, prio)
  /\ UNCHANGED <<cur, cstate, gArtNavActive, gArtCurrentReq, artReq, lifeVars,
                 loaded, lost, callVars, pc>>

cacheGetTextureEx(v, prio, settled) ==
  \/ DrawParked(v, prio)
  \/ DrawLoading(v, prio)
  \/ DrawAbsent(v, prio)
  \/ DrawReady(v, prio)
  \/ DrawNothing(v, prio, settled)
  \/ DrawClaim(v, prio, settled)

----------------------------------------------------------------------------
(* The GUI thread: frames, and what makes queued art stale *)

\* Mutant: no net for a wakeup that went missing.
NeverMissed == FALSE

\* Work is queued and nothing runs: a wakeup went missing.
Missed == queue # <<>> /\ gArtCurrentReq = NULL

\* guiStartFrame and cacheTickArt.
cacheTickArt(nav) ==
  /\ Draws
  /\ content' = [c \in Caches |-> [s \in Slots |->
       [content[c][s] EXCEPT !.age = IF @ < Old THEN @ + 1 ELSE @]]]
  /\ gArtNavActive' = nav
  /\ wakeup' = (wakeup \/ Missed)
  /\ UNCHANGED <<cur, cstate, nextUID, reqVars, rows, focus, queue,
                 gArtCurrentReq, artReq, lifeVars, countVars, callVars, pc>>

\* The view toggle: every request so far belongs to a discarded view.
cacheDropQueuedArt ==
  /\ Draws
  /\ request' = [r \in Reqs |->
       IF r \in live THEN [request[r] EXCEPT !.viewOK = FALSE] ELSE request[r]]
  /\ wakeup' = TRUE
  /\ UNCHANGED <<cacheVars, live, guiVars, queue, gArtCurrentReq, artReq,
                 lifeVars, countVars, callVars, pc>>

\* New art may have appeared: a new fail generation.
cacheInvalidateFailMemo ==
  /\ Draws
  /\ request' = [r \in Reqs |->
       IF r \in live THEN [request[r] EXCEPT !.failOK = FALSE] ELSE request[r]]
  /\ content' = [c \in Caches |-> [s \in Slots |->
       [content[c][s] EXCEPT !.failOK = FALSE]]]
  /\ rows' = [v \in Values |-> [rows[v] EXCEPT !.ok = FALSE]]
  /\ UNCHANGED <<cur, cstate, nextUID, live, focus, gArtNavActive, artVars,
                 lifeVars, countVars, callVars, pc>>

\* The list is rebuilt: its rows are new (submenuAllocItem).
RebuildList ==
  /\ Draws
  /\ rows' = [v \in Values |-> NewRow]
  /\ UNCHANGED <<cacheVars, reqVars, focus, gArtNavActive, artVars, lifeVars,
                 countVars, callVars, pc>>

----------------------------------------------------------------------------
(* Releasing a slot and a reference: the art worker and the cancellers *)

Working(t) == IF t = Art THEN artReq ELSE Head(chain[t])

\* Mutant: the slot of a dropped request is not cleared.
KeepsSlot(t) == content' = content

\* cacheClearItem(item, 0), first part: the memset, which is taken to be one step
\* although the GUI thread may look at an entry that is half zeroed.
Zero(t) ==
  content' = [content EXCEPT
    ![request[Working(t)].cache][request[Working(t)].slot] = Zeroed]

\* ... and the stores after it.  The GUI may have claimed the slot in between.
\* The stores of zeros repeat the memset, so a compiler may leave them out.
ClearItem(t) ==
  /\ Runs(t) /\ pc[t] = "clear"
  /\ LET r == request[Working(t)]
     IN \E repeated \in BOOLEAN :
          content' = [content EXCEPT ![r.cache][r.slot] =
            IF repeated THEN [@ EXCEPT !.age = Unused, !.qr = NULL, !.UID = 0,
                                       !.img = NULL]
            ELSE [@ EXCEPT !.age = Unused]]
  /\ Goto(t, IF t = Art THEN "release" ELSE "count")
  /\ UNCHANGED <<cur, cstate, nextUID, reqVars, guiVars, artVars, lifeVars,
                 countVars, callVars>>

\* cache->activeRequests--, a load and a store.
CountLoad(t) ==
  /\ Runs(t) /\ pc[t] = "count"
  /\ loaded' = [loaded EXCEPT ![t] = activeRequests[request[Working(t)].cache]]
  /\ Goto(t, "store")
  /\ UNCHANGED <<cacheVars, reqVars, guiVars, artVars, lifeVars,
                 activeRequests, lost, callVars>>

\* Mutant: the reference is released and still counted.
StillCounted(n) == n

Uncounted(n) == IF n > 0 THEN n - 1 ELSE n

\* The store, and free(req).
CountStore(t) ==
  /\ Runs(t) /\ pc[t] = "store"
  /\ LET c == request[Working(t)].cache
     IN /\ activeRequests' =
             IF loaded[t] > 0
             THEN [activeRequests EXCEPT ![c] = Uncounted(loaded[t])]
             ELSE activeRequests
        /\ lost' = [lost EXCEPT ![c] = @ \/ loaded[t] # activeRequests[c]]
  /\ live' = live \ {Working(t)}
  /\ request' = [request EXCEPT ![Working(t)] = NULL]
  /\ IF t = Art
     THEN /\ artReq' = NULL /\ chain' = chain
          /\ Goto(t, IF gArtTerminate THEN "exit" ELSE "pop")
     ELSE /\ artReq' = artReq /\ chain' = [chain EXCEPT ![t] = Tail(@)]
          /\ Goto(t, "walk")
  /\ loaded' = [loaded EXCEPT ![t] = 0]
  /\ UNCHANGED <<cacheVars, guiVars, queue, gArtCurrentReq, wakeup, lifeVars,
                 op, phase, keep, old, calls>>

----------------------------------------------------------------------------
(* Cancelling: cacheCancelPendingImageLoadsTimed ("cancel"),               *)
(* cacheAbortMmceImageLoadsTimed ("abort"), and cacheShutdownArtLoads      *)
(* called on its own ("shutdown") and from cacheEnd ("end")                *)

\* The request at this address is one the cancel is about.
Doomed(ph, r) == ph = "abort" => request[r].val \in Sio2

\* Flag the request the worker owns, and detach the queue in one bracket.
Detach(t, ph) ==
  /\ request' = IF gArtCurrentReq # NULL /\ Doomed(ph, gArtCurrentReq)
                THEN [request EXCEPT ![gArtCurrentReq].abort = TRUE]
                ELSE request
  /\ chain' = [chain EXCEPT ![t] = queue]
  /\ queue' = <<>>
  /\ phase' = [phase EXCEPT ![t] = ph]
  /\ Goto(t, "walk")

\* A theme load needs a theme to load; one theme is loaded at a time.
MayCall(t, o) ==
  /\ <<t, o>> \in Calls /\ calls < MaxCalls
  /\ Runs(t) /\ pc[t] = "idle"
  /\ t = Gui => ~gCacheLoadsCancelled
  /\ o \in ThemeOps => /\ cur < NumThemes
                       /\ \A u \in Callers : pc[u] = "idle" \/ op[u] \notin ThemeOps

\* The first phase of an operation; a theme load drops the SIO2 requests first.
FirstPhase(o) ==
  IF o \in ThemeOps THEN "abort" ELSE IF o = "exit" THEN "shutdown" ELSE o

Call(t, o) ==
  /\ MayCall(t, o) /\ gArtRunning
  /\ Detach(t, FirstPhase(o))
  /\ op' = [op EXCEPT ![t] = o]
  /\ calls' = calls + 1
  /\ gCacheLoadsCancelled' = (gCacheLoadsCancelled \/ o = "exit")
  /\ UNCHANGED <<cacheVars, live, guiVars, gArtCurrentReq, artReq, wakeup,
                 gArtTerminate, gArtShutdownAbandoned, gArtRunning, countVars,
                 keep, old>>

\* artFreeChain, one node: release its slot, unless the slot has moved on.
Walk(t) ==
  /\ Runs(t) /\ pc[t] = "walk" /\ chain[t] # <<>>
  /\ Doomed(phase[t], Head(chain[t]))
  /\ LET r == Head(chain[t])
     IN IF content[request[r].cache][request[r].slot].qr = r
        THEN Zero(t) /\ Goto(t, "clear")
        ELSE content' = content /\ Goto(t, "count")
  /\ UNCHANGED <<cur, cstate, nextUID, reqVars, guiVars, artVars, lifeVars,
                 countVars, callVars>>

\* A request an abort is not about is set aside.
SetAside(t) ==
  /\ Runs(t) /\ pc[t] = "walk" /\ chain[t] # <<>>
  /\ ~Doomed(phase[t], Head(chain[t]))
  /\ keep' = [keep EXCEPT ![t] = Append(@, Head(chain[t]))]
  /\ chain' = [chain EXCEPT ![t] = Tail(@)]
  /\ UNCHANGED <<cacheVars, reqVars, guiVars, artVars, lifeVars, countVars, op,
                 phase, old, calls, pc>>

\* One artPush of a request that is kept.
PushKept(t) ==
  /\ Runs(t) /\ pc[t] = "walk" /\ chain[t] = <<>> /\ keep[t] # <<>>
  /\ queue' = Append(queue, Head(keep[t]))
  /\ keep' = [keep EXCEPT ![t] = Tail(@)]
  /\ UNCHANGED <<cacheVars, reqVars, guiVars, gArtCurrentReq, artReq, wakeup,
                 lifeVars, countVars, op, phase, chain, old, calls, pc>>

\* The walk is over: wake the worker, and wait for it.
Walked(t) ==
  /\ Runs(t) /\ pc[t] = "walk" /\ chain[t] = <<>> /\ keep[t] = <<>>
  /\ wakeup' = TRUE
  /\ Goto(t, CASE phase[t] = "shutdown" -> "drain"
               [] phase[t] = "end"      -> "join"
               [] OTHER                 -> "wait")
  /\ UNCHANGED <<cacheVars, reqVars, guiVars, queue, gArtCurrentReq, artReq,
                 lifeVars, countVars, callVars>>

\* The operation is over, and what it knew is gone with its stack frame.
Return(t) ==
  /\ Goto(t, "idle")
  /\ op' = [op EXCEPT ![t] = "cancel"]
  /\ phase' = [phase EXCEPT ![t] = "cancel"]
  /\ old' = [old EXCEPT ![t] = 1]

\* Nothing the cancel is about is left.
Quiet(ph) ==
  IF ph = "abort"
  THEN gArtCurrentReq = NULL \/ ~Doomed(ph, gArtCurrentReq)
  ELSE queue = <<>> /\ gArtCurrentReq = NULL

\* The bounded wait returns 1, or 0 when its budget is spent.  A theme load
\* goes on only after a 1.
WaitReturns(t) ==
  /\ Runs(t) /\ pc[t] = "wait"
  /\ IF op[t] \in ThemeOps /\ Quiet(phase[t])
     THEN /\ Goto(t, IF phase[t] = "abort" THEN "next" ELSE "swap")
          /\ UNCHANGED <<op, phase, old>>
     ELSE Return(t)
  /\ UNCHANGED <<cacheVars, reqVars, guiVars, artVars, lifeVars, countVars,
                 chain, keep, calls>>

----------------------------------------------------------------------------
(* thmLoad and cacheDestroyCache *)

\* The second cancel of a theme load, which returns 1 at once without a worker.
CancelNext(t) ==
  /\ Runs(t) /\ pc[t] = "next"
  /\ IF gArtRunning THEN Detach(t, "cancel")
     ELSE Goto(t, "swap") /\ UNCHANGED <<request, chain, queue, phase>>
  /\ UNCHANGED <<cacheVars, live, guiVars, gArtCurrentReq, artReq, wakeup,
                 lifeVars, countVars, op, keep, old, calls>>

\* gTheme = newT; thmFree(curT) follows.
SwapTheme(t) ==
  /\ Runs(t) /\ pc[t] = "swap"
  /\ old' = [old EXCEPT ![t] = cur]
  /\ cur' = cur + 1
  /\ cstate' = [cstate EXCEPT ![cur + 1] = "live"]
  /\ Goto(t, "destroy")
  /\ UNCHANGED <<content, nextUID, reqVars, guiVars, artVars, lifeVars,
                 countVars, op, phase, chain, keep, calls>>

\* Where the caller of cacheDestroyCache goes on: a changed theme gives every
\* row new ids (submenuRebuildCache).  A language change reloads the theme and
\* does not, nor does thmReinit, when the network share that holds the theme is
\* connected again: only the rows of the share's own page are made anew.
Destroyed(t) ==
  IF op[t] \in KeepsRows THEN Return(t)
  ELSE /\ Goto(t, IF op[t] = "exit" THEN "ended" ELSE "rebuild")
       /\ UNCHANGED <<op, phase, old>>

\* Mutant: the cache is freed when the wait is over, whatever it found.
AlwaysUnreferenced(c) == TRUE

Unreferenced(c) == activeRequests[c] = 0

\* The end of cacheDestroyCache: leak the cache if it is still referenced.
FreeOrLeak(t) ==
  LET c == old[t]
      freed == Unreferenced(c)
  IN /\ cstate' = [cstate EXCEPT ![c] = IF freed THEN "freed" ELSE "leaked"]
     /\ content' = IF freed
                   THEN [content EXCEPT ![c] = [s \in Slots |-> Cleared]]
                   ELSE content
     /\ Destroyed(t)

DestroyCache(t) ==
  /\ Runs(t) /\ pc[t] = "destroy"
  /\ IF ~Unreferenced(old[t])
     THEN /\ request' = IF /\ gArtCurrentReq # NULL
                           /\ request[gArtCurrentReq].cache = old[t]
                        THEN [request EXCEPT ![gArtCurrentReq].abort = TRUE]
                        ELSE request
          /\ wakeup' = TRUE
          /\ Goto(t, "destroy_wait")
          /\ UNCHANGED <<cstate, content, op, phase, old>>
     ELSE FreeOrLeak(t) /\ UNCHANGED <<request, wakeup>>
  /\ UNCHANGED <<cur, nextUID, live, guiVars, queue, gArtCurrentReq, artReq,
                 lifeVars, countVars, chain, keep, calls>>

\* The wait ends when the count reaches zero, or with its budget.
DestroyWaitEnds(t) ==
  /\ Runs(t) /\ pc[t] = "destroy_wait"
  /\ FreeOrLeak(t)
  /\ UNCHANGED <<cur, nextUID, reqVars, guiVars, artVars, lifeVars, countVars,
                 chain, keep, calls>>

\* submenuRebuildCache, under guiLock.
RebuildRows(t) ==
  /\ Runs(t) /\ pc[t] = "rebuild"
  /\ rows' = [v \in Values |-> NewRow]
  /\ Return(t)
  /\ UNCHANGED <<cacheVars, reqVars, focus, gArtNavActive, artVars, lifeVars,
                 countVars, chain, keep, calls>>

----------------------------------------------------------------------------
(* Teardown on the GUI thread: cacheEnd, then the theme is freed *)

\* ioBlockOpsTimed has returned; cacheEnd shuts down again and terminates.
EndBegins ==
  /\ pc[Gui] = "drain"
  /\ Detach(Gui, "end")
  /\ gArtTerminate' = TRUE
  /\ UNCHANGED <<cacheVars, live, guiVars, gArtCurrentReq, artReq, wakeup,
                 gCacheLoadsCancelled, gArtShutdownAbandoned, gArtRunning,
                 countVars, op, keep, old, calls>>

\* Mutant: the join has no budget.
JoinedOnceStopped ==
  /\ pc[Gui] = "join" /\ ~gArtRunning
  /\ gArtShutdownAbandoned' = FALSE
  /\ old' = [old EXCEPT ![Gui] = cur]
  /\ Goto(Gui, "destroy")
  /\ UNCHANGED <<cacheVars, reqVars, guiVars, artVars, gCacheLoadsCancelled,
                 gArtTerminate, gArtRunning, countVars, op, phase, chain, keep,
                 calls>>

\* The join is over: the worker has stopped, or it is abandoned.
Joined ==
  /\ pc[Gui] = "join"
  /\ gArtShutdownAbandoned' = gArtRunning
  /\ old' = [old EXCEPT ![Gui] = cur]
  /\ Goto(Gui, "destroy")
  /\ UNCHANGED <<cacheVars, reqVars, guiVars, artVars, gCacheLoadsCancelled,
                 gArtTerminate, gArtRunning, countVars, op, phase, chain, keep,
                 calls>>

----------------------------------------------------------------------------
(* The art worker: cacheArtWorkerThread and cacheLoadImage *)

ArtWakes ==
  /\ Runs(Art) /\ pc[Art] = "sleep" /\ wakeup
  /\ wakeup' = FALSE
  /\ Goto(Art, IF gArtTerminate THEN "exit" ELSE "pop")
  /\ UNCHANGED <<cacheVars, reqVars, guiVars, queue, gArtCurrentReq, artReq,
                 lifeVars, countVars, callVars>>

\* The head of the queue is not to be started under a held direction.
Deferred == request[Head(queue)].val \in Sio2 /\ gArtNavActive

Unlinked == Tail(queue)

artPop ==
  /\ Runs(Art) /\ pc[Art] = "pop" /\ queue # <<>> /\ ~Deferred
  /\ artReq' = Head(queue) /\ gArtCurrentReq' = Head(queue)
  /\ queue' = Unlinked
  /\ Goto(Art, "gate")
  /\ UNCHANGED <<cacheVars, reqVars, guiVars, wakeup, lifeVars, countVars,
                 callVars>>

ArtPopsNothing ==
  /\ Runs(Art) /\ pc[Art] = "pop"
  /\ queue # <<>> => Deferred
  /\ Goto(Art, IF gArtTerminate THEN "exit" ELSE "sleep")
  /\ UNCHANGED <<cacheVars, reqVars, guiVars, artVars, lifeVars, countVars,
                 callVars>>

ArtEntry == content[request[artReq].cache][request[artReq].slot]

\* Nobody waits for this image any more.
Unwanted ==
  \/ ~request[artReq].focusOK
  \/ ArtEntry.age > StaleFrames
  \/ ~request[artReq].viewOK
  \/ request[artReq].abort

\* The slot was cleared, or claimed again, since the request was made.
Orphaned == request[artReq].uid # ArtEntry.UID

\* The music's reserve allows another read (or there is no reason to wait for
\* it): the request's owner, focus, age, view and abort flag are looked at.
ArtStarts ==
  /\ Runs(Art) /\ pc[Art] = "gate"
  /\ Goto(Art, IF gCacheLoadsCancelled \/ Orphaned
               THEN "release"
               ELSE IF Unwanted THEN "zero" ELSE "read")
  /\ UNCHANGED <<cacheVars, reqVars, guiVars, artVars, lifeVars, countVars,
                 callVars>>

\* cacheClearItem of the request's slot, first part.
ArtZeroes ==
  /\ Runs(Art) /\ pc[Art] = "zero"
  /\ Zero(Art)
  /\ Goto(Art, "clear")
  /\ UNCHANGED <<cur, cstate, nextUID, reqVars, guiVars, artVars, lifeVars,
                 countVars, callVars>>

\* The read returned a picture or "no such file": all but qr is published.
ArtPublishes(found) ==
  /\ Runs(Art) /\ pc[Art] = "read" /\ ~gArtShutdownAbandoned
  /\ ~found => ~request[artReq].abort
  /\ LET r == request[artReq]
     IN content' = [content EXCEPT ![r.cache][r.slot] =
          IF found THEN [@ EXCEPT !.img = r.val, !.age = 0]
          ELSE [@ EXCEPT !.age = Absent, !.failOK = r.failOK]]
  /\ Goto(Art, "unqr")
  /\ UNCHANGED <<cur, cstate, nextUID, reqVars, guiVars, artVars, lifeVars,
                 countVars, callVars>>

\* The read was aborted, or failed for another reason: says nothing about the
\* file.
ArtReadFails ==
  /\ Runs(Art) /\ pc[Art] = "read" /\ ~gArtShutdownAbandoned
  /\ Goto(Art, "zero")
  /\ UNCHANGED <<cacheVars, reqVars, guiVars, artVars, lifeVars, countVars,
                 callVars>>

\* The read returned after cacheEnd had given up: the reference stays counted.
ArtReturnsAbandoned ==
  /\ Runs(Art) /\ pc[Art] = "read" /\ gArtShutdownAbandoned
  /\ gArtCurrentReq' = NULL
  /\ live' = live \ {artReq}
  /\ request' = [request EXCEPT ![artReq] = NULL]
  /\ artReq' = NULL
  /\ gArtTerminate' = TRUE
  /\ Goto(Art, "exit")
  /\ UNCHANGED <<cacheVars, guiVars, queue, wakeup, gCacheLoadsCancelled,
                 gArtShutdownAbandoned, gArtRunning, countVars, callVars>>

\* qr = NULL, the store that hands the slot to the GUI.
ArtHandsOver ==
  /\ Runs(Art) /\ pc[Art] = "unqr"
  /\ content' = [content EXCEPT
       ![request[artReq].cache][request[artReq].slot].qr = NULL]
  /\ Goto(Art, "release")
  /\ UNCHANGED <<cur, cstate, nextUID, reqVars, guiVars, artVars, lifeVars,
                 countVars, callVars>>

\* artReleaseRequest: the bracket; CountLoad and CountStore follow.
artReleaseRequest ==
  /\ Runs(Art) /\ pc[Art] = "release"
  /\ gArtCurrentReq' = NULL
  /\ Goto(Art, "count")
  /\ UNCHANGED <<cacheVars, reqVars, guiVars, queue, artReq, wakeup, lifeVars,
                 countVars, callVars>>

ArtExits ==
  /\ Runs(Art) /\ pc[Art] = "exit"
  /\ gArtRunning' = FALSE
  /\ Goto(Art, "dead")
  /\ UNCHANGED <<cacheVars, reqVars, guiVars, artVars, gCacheLoadsCancelled,
                 gArtTerminate, gArtShutdownAbandoned, countVars, callVars>>

----------------------------------------------------------------------------
\* What a caller does inside an operation.
Continue(t) ==
  \/ Walk(t) \/ ClearItem(t) \/ CountLoad(t) \/ CountStore(t)
  \/ SetAside(t) \/ PushKept(t) \/ Walked(t) \/ WaitReturns(t) \/ CancelNext(t)
  \/ SwapTheme(t) \/ DestroyCache(t) \/ DestroyWaitEnds(t) \/ RebuildRows(t)

Maybe(input) == IF input \in Inputs THEN BOOLEAN ELSE {FALSE}

GuiNext ==
  \/ \E v \in Values, prio \in Maybe("priority"), settled \in BOOLEAN :
       cacheGetTextureEx(v, prio, settled)
  \/ "lookup" \in Inputs /\ \E v \in Values : cacheLookupTexture(v)
  \/ \E nav \in Maybe("nav") : cacheTickArt(nav)
  \/ "view" \in Inputs /\ cacheDropQueuedArt
  \/ "fail" \in Inputs /\ cacheInvalidateFailMemo
  \/ "rebuild" \in Inputs /\ RebuildList

CallNext == \E t \in Callers, o \in Ops : Call(t, o)

TeardownNext == EndBegins \/ Joined

ArtReads == ArtPublishes(TRUE) \/ ArtPublishes(FALSE) \/ ArtReadFails
            \/ ArtReturnsAbandoned

ArtRest ==
  \/ ArtWakes \/ artPop \/ ArtPopsNothing \/ ArtStarts \/ ArtZeroes
  \/ ArtHandsOver \/ artReleaseRequest \/ ArtExits
  \/ ClearItem(Art) \/ CountLoad(Art) \/ CountStore(Art)

Next ==
  \/ GuiNext
  \/ CallNext
  \/ \E t \in Callers : Continue(t)
  \/ TeardownNext
  \/ ArtReads
  \/ ArtRest

Spec == Init /\ [][Next]_vars

\* Every thread that can run does, in the end, take its step; frames go on;
\* and a device read returns.
Fairness ==
  /\ WF_vars(\E nav \in Maybe("nav") : cacheTickArt(nav))
  /\ \A t \in Callers : WF_vars(Continue(t))
  /\ WF_vars(TeardownNext)
  /\ WF_vars(ArtRest)

LiveSpec == Spec /\ Fairness /\ WF_vars(ArtReads)

\* The same without a promise about the device: a read may never return.
WedgedSpec == Spec /\ Fairness

----------------------------------------------------------------------------
(* Properties *)

\* The types of the state, and where each thread can be.
TypeOK ==
  /\ cur \in Caches
  /\ cstate \in [Caches -> {"unborn", "live", "leaked", "freed"}]
  /\ content \in [Caches -> [Slots -> Entry]]
  /\ nextUID \in [Caches -> 1..(MaxUID + 1)]
  /\ activeRequests \in [Caches -> Nat]
  /\ live \subseteq Reqs
  /\ request \in [Reqs -> Request \cup {NULL}]
  /\ \A r \in Reqs : IF r \in live THEN request[r] \in Request ELSE request[r] = NULL
  /\ rows \in [Values -> Row]
  /\ queue \in Seq(live)
  /\ gArtCurrentReq \in live \cup {NULL} /\ artReq \in live \cup {NULL}
  /\ focus \in Values \cup {NULL}
  /\ wakeup \in BOOLEAN /\ gArtNavActive \in BOOLEAN
  /\ gCacheLoadsCancelled \in BOOLEAN /\ gArtTerminate \in BOOLEAN
  /\ gArtShutdownAbandoned \in BOOLEAN /\ gArtRunning \in BOOLEAN
  /\ pc \in [Threads -> CallerLabels \cup ArtLabels]
  /\ pc[Gui] \in CallerLabels /\ pc[Io] \in CallerLabels /\ pc[Art] \in ArtLabels
  /\ op \in [Callers -> Ops]
  /\ phase \in [Callers -> {"cancel", "abort", "shutdown", "end"}]
  /\ chain \in [Callers -> Seq(live)] /\ keep \in [Callers -> Seq(live)]
  /\ old \in [Callers -> Caches]
  /\ loaded \in [Threads -> Nat]
  /\ calls \in 0..MaxCalls
  /\ lost \in [Caches -> BOOLEAN]

Elements(seq) == {seq[i] : i \in DOMAIN seq}

\* Who still has the request in hand: the queue, the art worker, or a caller
\* that detached it.
InHand ==
  Elements(queue) \cup {artReq}
    \cup UNION {Elements(chain[t]) \cup Elements(keep[t]) : t \in Callers}

\* A slot is claimed only for as long as somebody is going to release it.
\* "A slot left with qr set is invisible to both the read path and the eviction
\* scan for the rest of the session" (artFreeChain): a non-NULL qr is an
\* allocated request for this very slot and UID, and it is queued, with the
\* worker or with a canceller.  Teardown gives the slots up (cacheLoadImage's
\* latch), so it is excluded.
ClaimIsHeld ==
  ~gCacheLoadsCancelled =>
    \A c \in Caches, s \in Slots :
      LET q == content[c][s].qr
      IN q # NULL => /\ q \in live \cap InHand
                     /\ request[q].cache = c /\ request[q].slot = s
                     /\ request[q].uid = content[c][s].UID

\* No row shows the picture of another: a slot that a row's (cache_id,
\* cache_uid) names was claimed for that row's value and holds its picture or
\* none, across evictions, list rebuilds, cancels, orphaned requests and theme
\* switches.  (While a theme switch of the I/O worker is under way the GUI draws
\* the rows of the old theme with the new cache.)
NoWrongArt ==
  (op[Io] \in ThemeOps => pc[Io] = "idle") =>
    \A v \in Values : \A s \in ByUid(v) :
      Entries[s].owner = v /\ Entries[s].img \in {v, NULL}

References(c) == {r \in live : request[r].cache = c}

\* cacheDestroyCache frees content[] only when no request points into it
\* ("leak rather than free"), as long as no decrement of activeRequests was
\* cut in two by another thread's update.
FreedIsUnused ==
  \A c \in Caches :
    cstate[c] = "freed" /\ ~lost[c] => References(c) = {}

\* activeRequests counts the requests into the cache, on every path that frees
\* one, as long as no update of it was lost.  (The read that returns after
\* cacheEnd gave up keeps its count on purpose.)
CountExact ==
  \A c \in Caches :
    ~lost[c] /\ ~gArtShutdownAbandoned =>
      activeRequests[c] = Cardinality(References(c))

\* A claimed slot is handed back once the user has let go of the pad: by a
\* picture, a park or a cancel, also when the worker slept through a deferred
\* SIO2 request.
ClaimEnds ==
  <>[](~gArtNavActive) =>
    \A s \in Slots : (Entries[s].qr # NULL) ~> (Entries[s].qr = NULL)

\* Teardown comes to its end, even when a device read never returns.
TeardownEnds == gCacheLoadsCancelled ~> pc[Gui] = "ended"
=============================================================================
