------------------------------- MODULE IoMan -------------------------------
(***************************************************************************)
(* The I/O manager (src/src/ioman.c): a FIFO of requests served by one     *)
(* worker thread, fed by the GUI thread and by the handlers that the       *)
(* worker itself runs.                                                     *)
(*                                                                         *)
(* The EE is a single core with strict priorities (a smaller number wins), *)
(* so who may interleave with whom is part of the model: the GUI thread    *)
(* runs at 31, the worker at 32, and ioBlockOpsTimed drops the GUI thread  *)
(* to 90 while it drains.  A thread takes a step only when every thread    *)
(* that outranks it is waiting.                                            *)
(*                                                                         *)
(* A request is a number: its rank among the requests ever linked into the *)
(* list.  The linked list gReqList..gReqEnd is the set of the requests in  *)
(* it, oldest (smallest) first.  A node is linked, and so visible, before  *)
(* its fields are written, as in the code.                                 *)
(***************************************************************************)
EXTENDS Naturals, FiniteSets

CONSTANTS
  Types,             \* request types (IO_* in include/opl.h)
  BaseType,          \* IO_CUSTOM_SIMPLEACTION, registered by ioInit
  MAX_IO_HANDLERS,   \* size of gRequestHandlers
  MaxTicks,          \* bound: largest timeoutTicks of a bounded drain
  MaxTotal,          \* bound: requests linked in a behaviour
  NULL               \* the type field of a request that was not yet written

ASSUME TypesAssumption == BaseType \in Types /\ NULL \notin Types
ASSUME BoundsAssumption ==
  MAX_IO_HANDLERS \in Nat \ {0} /\ MaxTicks \in Nat /\ MaxTotal \in Nat

Gui     == "gui"
Worker  == "worker"
Free    == "free"
Threads == {Gui, Worker}

GuiPrio    == 31
WorkerPrio == 32
DrainPrio  == 90

Requests == 1..MaxTotal
NoReq    == 0

\* timeoutTicks < 0: wait without a bound
Unbounded == MaxTicks + 1
Timeouts  == 0..Unbounded

VARIABLES
  gReqList,          \* the requests in the list
  type,              \* request -> its type field, NULL until written
  linked,            \* how many requests were ever linked
  gProcSemaId,       \* holder of the "tip" semaphore, or Free
  gEndSemaId,        \* holder of the "queue end" semaphore, or Free
  gRequestHandlers,  \* registered types
  isIOBlocked,
  gIOTerminate,
  gIoPending,        \* type -> the HUD's count of queued requests
  guiPrio,           \* current priority of the GUI thread
  wakeups,           \* pending WakeupThread count of the worker
  pc,                \* thread -> where it is
  arg,               \* thread -> type argument of the call it is in
  ticks,             \* remaining timeoutTicks of the drain
  req,               \* the worker's local: the request it works on
  done,              \* history: requests whose handler ran to completion
  dropped,           \* history: requests removed or discarded unserved
  drained            \* history: the ioBlockOps(1) in force saw an empty list

listVars == <<gReqList, type, linked>>
semVars  == <<gProcSemaId, gEndSemaId>>
flagVars == <<gRequestHandlers, isIOBlocked, gIOTerminate>>
histVars == <<done, dropped, drained>>
vars == <<listVars, semVars, flagVars, gIoPending, guiPrio, wakeups, pc, arg,
          ticks, req, histVars>>

\* Mutant: the list is served from its end.
IsNewest(r) == r \in gReqList /\ \A q \in gReqList : q <= r

\* r is what the pointer gReqList points to.
IsHead(r) == r \in gReqList /\ \A q \in gReqList : r <= q

GuiLabels == {"idle", "put_lock", "put_fill", "reg_lock", "rm_proc",
              "rm_end", "drain", "ended"}
WorkerLabels == {"sleep", "lock", "loop", "handler", "put_lock", "put_fill",
                 "unlink", "exit", "dead"}

----------------------------------------------------------------------------
(* Scheduling *)

\* "idle" is the wait for the vertical blank; otherwise the GUI thread is off
\* the CPU only while a semaphore it asked for is held.
GuiWaiting ==
  \/ pc[Gui] \in {"idle", "ended"}
  \/ pc[Gui] \in {"put_lock", "rm_end"} /\ gEndSemaId # Free
  \/ pc[Gui] \in {"reg_lock", "rm_proc"} /\ gProcSemaId # Free

\* A handler may be blocked in device I/O.
WorkerWaiting ==
  \/ pc[Worker] = "sleep" /\ wakeups = 0
  \/ pc[Worker] = "lock" /\ gProcSemaId # Free
  \/ pc[Worker] \in {"put_lock", "unlink"} /\ gEndSemaId # Free
  \/ pc[Worker] \in {"handler", "dead"}

GuiRuns    == guiPrio < WorkerPrio \/ WorkerWaiting
WorkerRuns == WorkerPrio < guiPrio \/ GuiWaiting
Runs(t)    == IF t = Gui THEN GuiRuns ELSE WorkerRuns

Goto(t, label) == pc' = [pc EXCEPT ![t] = label]

----------------------------------------------------------------------------
Init ==
  /\ gReqList = {} /\ linked = 0
  /\ type = [r \in Requests |-> NULL]
  /\ gProcSemaId = Free /\ gEndSemaId = Free
  /\ gRequestHandlers = {BaseType}
  /\ isIOBlocked = FALSE /\ gIOTerminate = FALSE
  /\ gIoPending = [t \in Types |-> 0]
  /\ guiPrio = GuiPrio
  /\ wakeups = 0
  /\ pc = [t \in Threads |-> IF t = Gui THEN "idle" ELSE "sleep"]
  /\ arg = [t \in Threads |-> BaseType]
  /\ ticks = 0
  /\ req = NoReq
  /\ done = {} /\ dropped = {} /\ drained = FALSE

----------------------------------------------------------------------------
(* ioRegisterHandler, called by the GUI thread during start-up *)

ioRegisterHandler(ty) ==
  /\ pc[Gui] = "idle" /\ GuiRuns
  /\ Goto(Gui, "reg_lock")
  /\ arg' = [arg EXCEPT ![Gui] = ty]
  /\ UNCHANGED <<listVars, semVars, flagVars, gIoPending, guiPrio, wakeups,
                 ticks, req, histVars>>

\* The table is full or the type is taken: the early returns change nothing.
RegisterHandlerLocked ==
  /\ pc[Gui] = "reg_lock" /\ GuiRuns
  /\ gProcSemaId = Free
  /\ gRequestHandlers' = IF Cardinality(gRequestHandlers) >= MAX_IO_HANDLERS
                         THEN gRequestHandlers
                         ELSE gRequestHandlers \cup {arg[Gui]}
  /\ Goto(Gui, "idle")
  /\ UNCHANGED <<listVars, semVars, isIOBlocked, gIOTerminate, gIoPending,
                 guiPrio, wakeups, arg, ticks, req, histVars>>

----------------------------------------------------------------------------
(* ioPutRequest, on the GUI thread or inside a handler on the worker *)

CallSite(t) == IF t = Gui THEN "idle" ELSE "handler"

\* Mutant: the isIOBlocked test is dropped.
PutAllowedBlocked(ty) == ty \in gRequestHandlers

PutAllowed(ty) == ~isIOBlocked /\ ty \in gRequestHandlers

\* The unlocked checks; a refused call returns at once and changes nothing.
ioPutRequest(t, ty) ==
  /\ pc[t] = CallSite(t) /\ Runs(t)
  /\ PutAllowed(ty)
  /\ Goto(t, "put_lock")
  /\ arg' = [arg EXCEPT ![t] = ty]
  /\ UNCHANGED <<listVars, semVars, flagVars, gIoPending, guiPrio, wakeups,
                 ticks, req, histVars>>

\* malloc fails: the semaphore is given back and the call is refused.
PutRequestNoMemory(t) ==
  /\ pc[t] = "put_lock" /\ Runs(t)
  /\ gEndSemaId = Free
  /\ Goto(t, CallSite(t))
  /\ UNCHANGED <<listVars, semVars, flagVars, gIoPending, guiPrio, wakeups,
                 arg, ticks, req, histVars>>

\* The fresh node is linked at the end of the list, its fields still garbage.
PutRequestLink(t) ==
  /\ pc[t] = "put_lock" /\ Runs(t)
  /\ gEndSemaId = Free
  /\ linked < MaxTotal
  /\ linked' = linked + 1
  /\ gReqList' = gReqList \cup {linked + 1}
  /\ gEndSemaId' = t
  /\ Goto(t, "put_fill")
  /\ UNCHANGED <<type, gProcSemaId, flagVars, gIoPending, guiPrio, wakeups,
                 arg, ticks, req, histVars>>

\* Mutant: no WakeupThread after the put.
NoWake(t) == UNCHANGED wakeups

\* WakeupThread of the worker by itself is an error and changes nothing.
WakeWorker(t) == wakeups' = IF t = Worker THEN wakeups ELSE wakeups + 1

PutRequestFill(t) ==
  /\ pc[t] = "put_fill" /\ Runs(t)
  /\ type' = [type EXCEPT ![linked] = arg[t]]
  /\ gIoPending' = [gIoPending EXCEPT ![arg[t]] = @ + 1]
  /\ gEndSemaId' = Free
  /\ WakeWorker(t)
  /\ Goto(t, CallSite(t))
  /\ UNCHANGED <<gReqList, linked, gProcSemaId, flagVars, guiPrio, arg, ticks,
                 req, histVars>>

----------------------------------------------------------------------------
(* ioRemoveRequests, called by the GUI thread (oplAbortUpdateGameCompat) *)

ioRemoveRequests(ty) ==
  /\ pc[Gui] = "idle" /\ GuiRuns
  /\ Goto(Gui, "rm_proc")
  /\ arg' = [arg EXCEPT ![Gui] = ty]
  /\ UNCHANGED <<listVars, semVars, flagVars, gIoPending, guiPrio, wakeups,
                 ticks, req, histVars>>

\* Mutant: the removal does not take gProcSemaId.
RemoveRequestsUnlocked ==
  /\ pc[Gui] = "rm_proc" /\ GuiRuns
  /\ Goto(Gui, "rm_end")
  /\ UNCHANGED <<listVars, semVars, flagVars, gIoPending, guiPrio, wakeups, arg,
                 ticks, req, histVars>>

RemoveRequestsLock ==
  /\ pc[Gui] = "rm_proc" /\ GuiRuns
  /\ gProcSemaId = Free
  /\ gProcSemaId' = Gui
  /\ Goto(Gui, "rm_end")
  /\ UNCHANGED <<listVars, gEndSemaId, flagVars, gIoPending, guiPrio, wakeups,
                 arg, ticks, req, histVars>>

\* gIoPending is left as it was.
RemoveRequestsUnlink ==
  /\ pc[Gui] = "rm_end" /\ GuiRuns
  /\ gEndSemaId = Free
  /\ LET gone == {r \in gReqList : type[r] = arg[Gui]}
     IN  /\ gReqList' = gReqList \ gone
         /\ dropped' = dropped \cup gone
  /\ gProcSemaId' = Free
  /\ Goto(Gui, "idle")
  /\ UNCHANGED <<type, linked, gEndSemaId, flagVars, gIoPending, guiPrio,
                 wakeups, arg, ticks, req, done, drained>>

----------------------------------------------------------------------------
(* ioBlockOps, ioBlockOpsTimed and ioEnd, called by the GUI thread.  A call *)
(* to block while blocked, or to unblock while not, changes nothing.        *)

BlockOpsBegin(timeoutTicks) ==
  /\ pc[Gui] = "idle" /\ GuiRuns
  /\ ~isIOBlocked
  /\ isIOBlocked' = TRUE
  /\ guiPrio' = DrainPrio
  /\ ticks' = timeoutTicks
  /\ Goto(Gui, "drain")
  /\ UNCHANGED <<listVars, semVars, gRequestHandlers, gIOTerminate, gIoPending,
                 wakeups, arg, req, histVars>>

\* One pass of the wait loop that finds the list busy: delay(1).
BlockOpsWait ==
  /\ pc[Gui] = "drain" /\ GuiRuns
  /\ gReqList # {}
  /\ ticks \in 1..MaxTicks
  /\ ticks' = ticks - 1
  /\ UNCHANGED <<listVars, semVars, flagVars, gIoPending, guiPrio, wakeups, pc,
                 arg, req, histVars>>

\* ReferThreadStatus fills the status: a thread that asks about itself exists.
haveStatus == TRUE

\* The saved priority is restored if it was read; otherwise the thread stays at 90.
RestorePriority == guiPrio' = IF haveStatus THEN GuiPrio ELSE guiPrio

BlockOpsReturn ==
  /\ pc[Gui] = "drain" /\ GuiRuns
  /\ gReqList = {} \/ ticks = 0
  /\ drained' = (gReqList = {})
  /\ RestorePriority
  /\ ticks' = 0
  /\ Goto(Gui, "idle")
  /\ UNCHANGED <<listVars, semVars, flagVars, gIoPending, wakeups, arg, req,
                 done, dropped>>

UnblockOps ==
  /\ pc[Gui] = "idle" /\ GuiRuns
  /\ isIOBlocked
  /\ isIOBlocked' = FALSE
  /\ drained' = FALSE
  /\ UNCHANGED <<listVars, semVars, gRequestHandlers, gIOTerminate, gIoPending,
                 guiPrio, wakeups, pc, arg, ticks, req, done, dropped>>

\* Mutant: the worker is not woken to see the flag.
EndWithoutWake ==
  /\ pc[Gui] = "idle" /\ GuiRuns
  /\ isIOBlocked
  /\ gIOTerminate' = TRUE
  /\ Goto(Gui, "ended")
  /\ UNCHANGED <<listVars, semVars, gRequestHandlers, isIOBlocked, gIoPending,
                 guiPrio, wakeups, arg, ticks, req, histVars>>

\* deinit, deinitEx and miniDeinit all block first; the GUI thread makes no
\* ioman call after ioEnd.
ioEnd ==
  /\ pc[Gui] = "idle" /\ GuiRuns
  /\ isIOBlocked
  /\ gIOTerminate' = TRUE
  /\ WakeWorker(Gui)
  /\ Goto(Gui, "ended")
  /\ UNCHANGED <<listVars, semVars, gRequestHandlers, isIOBlocked, gIoPending,
                 guiPrio, arg, ticks, req, histVars>>

----------------------------------------------------------------------------
(* ioWorkerThread *)

WorkerWake ==
  /\ pc[Worker] = "sleep" /\ WorkerRuns
  /\ wakeups > 0
  /\ wakeups' = wakeups - 1
  /\ Goto(Worker, IF gIOTerminate THEN "exit" ELSE "lock")
  /\ UNCHANGED <<listVars, semVars, flagVars, gIoPending, guiPrio, arg, ticks,
                 req, histVars>>

WorkerLock ==
  /\ pc[Worker] = "lock" /\ WorkerRuns
  /\ gProcSemaId = Free
  /\ gProcSemaId' = Worker
  /\ Goto(Worker, "loop")
  /\ UNCHANGED <<listVars, gEndSemaId, flagVars, gIoPending, guiPrio, wakeups,
                 arg, ticks, req, histVars>>

\* while (gReqList) with work left: ioProcessRequest reads the head's fields
\* and calls its handler.
ioProcessRequest ==
  /\ pc[Worker] = "loop" /\ WorkerRuns
  /\ gReqList # {} /\ ~gIOTerminate
  /\ \E r \in gReqList : IsHead(r) /\ req' = r
  /\ Goto(Worker, "handler")
  /\ UNCHANGED <<listVars, semVars, flagVars, gIoPending, guiPrio, wakeups,
                 arg, ticks, histVars>>

\* The list is empty or termination was requested: leave the drain loop.
WorkerUnlock ==
  /\ pc[Worker] = "loop" /\ WorkerRuns
  /\ gReqList = {} \/ gIOTerminate
  /\ gProcSemaId' = Free
  /\ Goto(Worker, IF gIOTerminate THEN "exit" ELSE "sleep")
  /\ UNCHANGED <<listVars, gEndSemaId, flagVars, gIoPending, guiPrio, wakeups,
                 arg, ticks, req, histVars>>

HandlerReturns ==
  /\ pc[Worker] = "handler" /\ WorkerRuns
  /\ done' = done \cup {req}
  /\ Goto(Worker, "unlink")
  /\ UNCHANGED <<listVars, semVars, flagVars, gIoPending, guiPrio, wakeups,
                 arg, ticks, req, dropped, drained>>

\* Mutant: the whole list is cut instead of its head.
WorkerUnlinkAll ==
  /\ pc[Worker] = "unlink" /\ WorkerRuns
  /\ gEndSemaId = Free
  /\ gReqList' = {}
  /\ req' = NoReq
  /\ Goto(Worker, "loop")
  /\ UNCHANGED <<type, linked, semVars, flagVars, gIoPending, guiPrio, wakeups,
                 arg, ticks, histVars>>

\* Under gEndSemaId: the HUD count, gReqList = req->next, free(req).
WorkerUnlink ==
  /\ pc[Worker] = "unlink" /\ WorkerRuns
  /\ gEndSemaId = Free
  /\ gIoPending' = IF type[req] \in Types /\ gIoPending[type[req]] > 0
                   THEN [gIoPending EXCEPT ![type[req]] = @ - 1]
                   ELSE gIoPending
  /\ gReqList' = {r \in gReqList : r > req}
  /\ req' = NoReq
  /\ Goto(Worker, "loop")
  /\ UNCHANGED <<type, linked, semVars, flagVars, guiPrio, wakeups, arg, ticks,
                 histVars>>

\* Mutant: the pending requests are not deleted.
WorkerExitLeaks ==
  /\ pc[Worker] = "exit" /\ WorkerRuns
  /\ Goto(Worker, "dead")
  /\ UNCHANGED <<listVars, semVars, flagVars, gIoPending, guiPrio, wakeups,
                 arg, ticks, req, histVars>>

\* The pending requests are freed unserved and the semaphores deleted.
WorkerExit ==
  /\ pc[Worker] = "exit" /\ WorkerRuns
  /\ dropped' = dropped \cup gReqList
  /\ gReqList' = {}
  /\ Goto(Worker, "dead")
  /\ UNCHANGED <<type, linked, semVars, flagVars, gIoPending, guiPrio, wakeups,
                 arg, ticks, req, done, drained>>

----------------------------------------------------------------------------
\* A call that was begun; with the worker's loop, what the threads carry on.
Continue(t) ==
  PutRequestNoMemory(t) \/ PutRequestLink(t) \/ PutRequestFill(t)

GuiContinues ==
  \/ Continue(Gui)
  \/ RegisterHandlerLocked \/ RemoveRequestsLock \/ RemoveRequestsUnlink
  \/ BlockOpsWait \/ BlockOpsReturn

GuiCalls ==
  \/ \E ty \in Types : \/ ioRegisterHandler(ty) \/ ioRemoveRequests(ty)
                       \/ ioPutRequest(Gui, ty)
  \/ \E n \in Timeouts : BlockOpsBegin(n)
  \/ UnblockOps \/ ioEnd

WorkerLoop ==
  \/ Continue(Worker)
  \/ WorkerWake \/ WorkerLock \/ ioProcessRequest \/ WorkerUnlock
  \/ HandlerReturns \/ WorkerUnlink \/ WorkerExit

\* Both threads are gone: the ELF that was launched owns the machine.
HandedOff == pc[Gui] = "ended" /\ pc[Worker] = "dead" /\ UNCHANGED vars

Next ==
  \/ GuiCalls \/ GuiContinues \/ WorkerLoop
  \/ \E ty \in Types : ioPutRequest(Worker, ty)
  \/ HandedOff

Spec == Init /\ [][Next]_vars

\* The GUI thread blocks on the vertical blank every frame, so the worker gets
\* the CPU again and again; and a GUI call that was begun is carried through.
\* Handlers are taken to return: a wedged device is outside this assumption.
FairSpec == Spec /\ SF_vars(WorkerLoop) /\ SF_vars(HandlerReturns)
                 /\ SF_vars(GuiContinues)

----------------------------------------------------------------------------
(* Properties *)

\* The types of ioman.c's state; the GUI thread has its own priority or that of
\* a drain, and no other.
TypeOK ==
  /\ linked \in 0..MaxTotal
  /\ gReqList \subseteq 1..linked
  /\ type \in [Requests -> Types \cup {NULL}]
  /\ gProcSemaId \in Threads \cup {Free}
  /\ gEndSemaId \in Threads \cup {Free}
  /\ gRequestHandlers \subseteq Types
  /\ isIOBlocked \in BOOLEAN /\ gIOTerminate \in BOOLEAN
  /\ gIoPending \in [Types -> Nat]
  /\ guiPrio \in {GuiPrio, DrainPrio}
  /\ wakeups \in Nat
  /\ pc \in [Threads -> GuiLabels \cup WorkerLabels]
  /\ pc[Gui] \in GuiLabels /\ pc[Worker] \in WorkerLabels
  /\ arg \in [Threads -> Types]
  /\ ticks \in Timeouts
  /\ req \in Requests \cup {NoReq}
  /\ done \subseteq 1..linked /\ dropped \subseteq 1..linked
  /\ drained \in BOOLEAN

\* The worker holds a request: from ioProcessRequest to the unlink.
Serving == pc[Worker] \in {"handler", "put_lock", "put_fill", "unlink"}

\* The request whose handler runs is the head of the list, was written before
\* it was read (ioPutRequest links a node before it fills it), and nobody
\* unlinked or freed it meanwhile (ioWorkerThread frees it only afterwards).
HeadIsServed ==
  Serving => /\ req \in gReqList /\ (\A r \in gReqList : req <= r)
             /\ type[req] # NULL

\* Once ioBlockOps(1) has returned from a complete drain, no request is in the
\* list and no handler runs until ioBlockOps(0): the promise of ioman.h that
\* the callers that unmount devices rely on.
BlockedMeansQuiet == drained => gReqList = {} /\ ~Serving

\* Who holds which semaphore, and when the drain priority is in force.
LocksHeld ==
  /\ gProcSemaId = Worker <=> (pc[Worker] = "loop" \/ Serving)
  /\ gProcSemaId = Gui <=> pc[Gui] = "rm_end"
  /\ \A t \in Threads : gEndSemaId = t <=> pc[t] = "put_fill"
  /\ guiPrio = DrainPrio <=> pc[Gui] = "drain"

\* Only the newest request may be unwritten, and only inside gEndSemaId.
UnwrittenIsNew ==
  \A r \in gReqList : type[r] = NULL => r = linked /\ gEndSemaId # Free

\* What the blocked and terminated phases rest on.
PhasesOrdered ==
  /\ pc[Gui] = "drain" => isIOBlocked
  /\ drained => isIOBlocked /\ pc[Gui] \notin {"put_lock", "put_fill"}
  /\ gIOTerminate <=> pc[Gui] = "ended"
  /\ pc[Worker] \in {"exit", "dead"} => gIOTerminate

\* Every request linked is in exactly one place: still listed, served or
\* dropped; the one whose handler just returned is both listed and served.
NothingLost ==
  /\ 1..linked = gReqList \cup done \cup dropped
  /\ gReqList \cap dropped = {} /\ done \cap dropped = {}
  /\ gReqList \cap done = IF pc[Worker] = "unlink" THEN {req} ELSE {}

\* Handlers run in the order of ioPutRequest: when one returns, every earlier
\* request has been served or dropped.
ServedInOrder ==
  [][\A r \in done' \ done : 1..(r - 1) \subseteq done \cup dropped]_vars

\* ioEnd leaves nothing behind: when the worker is gone no request is listed
\* and the semaphores it deleted were free.
CleanExit ==
  pc[Worker] = "dead" =>
    gReqList = {} /\ gProcSemaId = Free /\ gEndSemaId = Free

\* The strengthening that makes the safety properties inductive.
IInv ==
  /\ TypeOK /\ LocksHeld /\ UnwrittenIsNew /\ PhasesOrdered
  /\ HeadIsServed /\ BlockedMeansQuiet /\ NothingLost /\ CleanExit

\* Every request that was linked is eventually served or dropped: no wakeup of
\* the worker is lost between SleepThread and the drain loop.
EveryRequestSettles ==
  \A r \in Requests : (r <= linked) ~> (r \in done \cup dropped)

\* A drain without a bound ends: handlers cannot feed the list while blocked.
DrainEnds == (pc[Gui] = "drain") ~> (pc[Gui] # "drain")

\* ioEnd brings the worker down.
WorkerEnds == gIOTerminate ~> (pc[Worker] = "dead")
=============================================================================
