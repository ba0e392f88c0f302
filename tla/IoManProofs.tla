---------------------------- MODULE IoManProofs ----------------------------
(***************************************************************************)
(* Machine-checked proofs about IoMan, for any set of request types, any   *)
(* number of requests and any drain bound.                                 *)
(*                                                                         *)
(* Three facts carry the argument.  The worker can look at the list only   *)
(* while the GUI thread waits, and a GUI thread between linking a node and *)
(* filling it does not wait (guiPrio < WorkerPrio outside the drain): so   *)
(* the head that ioProcessRequest reads is written.  ioRemoveRequests holds*)
(* gProcSemaId, which the worker holds while it serves: so the request     *)
(* served is not unlinked by anybody else.  And a complete drain leaves    *)
(* isIOBlocked set with nobody inside ioPutRequest: so the list stays empty*)
(* until ioBlockOps(0).                                                    *)
(***************************************************************************)
EXTENDS IoMan, TLAPS

USE DEF Gui, Worker, Free, Threads, GuiPrio, WorkerPrio, DrainPrio, Requests,
        NoReq

\* ioInit establishes the inductive invariant.
LEMMA InitEstablishes == Init => IInv
<1> SUFFICES ASSUME Init PROVE IInv
  OBVIOUS
<1>1. pc[Gui] = "idle" /\ pc[Worker] = "sleep"
  BY DEF Init
<1>2. TypeOK
  <2>1. pc \in [Threads -> GuiLabels \cup WorkerLabels]
    BY DEF Init, GuiLabels, WorkerLabels
  <2>2. /\ type \in [Requests -> Types \cup {NULL}]
        /\ gIoPending \in [Types -> Nat]
        /\ arg \in [Threads -> Types]
    BY TypesAssumption DEF Init
  <2>3. linked \in 0..MaxTotal /\ ticks \in Timeouts
    BY BoundsAssumption DEF Init, Timeouts, Unbounded
  <2>4. QED
    BY <1>1, <2>1, <2>2, <2>3, TypesAssumption
       DEF Init, TypeOK, GuiLabels, WorkerLabels
<1>3. LocksHeld
  BY <1>1 DEF Init, LocksHeld, Serving
<1>4. UnwrittenIsNew /\ NothingLost
  BY <1>1 DEF Init, UnwrittenIsNew, NothingLost
<1>5. PhasesOrdered /\ HeadIsServed /\ BlockedMeansQuiet /\ CleanExit
  BY <1>1 DEF Init, PhasesOrdered, HeadIsServed, BlockedMeansQuiet, CleanExit,
     Serving
<1> QED
  BY <1>2, <1>3, <1>4, <1>5 DEF IInv

\* The calls the GUI thread begins from its frame loop, and the calls of
\* ioPutRequest by either thread, preserve the invariant.
LEMMA CallsPreserve ==
  ASSUME IInv,
         \/ GuiCalls
         \/ \E ty \in Types : ioPutRequest(Worker, ty)
  PROVE  IInv'
<1> USE DEF Goto, listVars, semVars, flagVars, histVars
<1>1. ASSUME NEW ty \in Types, ioRegisterHandler(ty)
      PROVE  IInv'
  <2>1. TypeOK' /\ LocksHeld'
    BY <1>1 DEF ioRegisterHandler, IInv, TypeOK, LocksHeld, Serving, GuiLabels
  <2>2. QED
    BY <1>1, <2>1 DEF ioRegisterHandler, IInv, TypeOK, UnwrittenIsNew,
       PhasesOrdered, HeadIsServed, BlockedMeansQuiet, NothingLost, CleanExit,
       Serving
<1>2. ASSUME NEW ty \in Types, ioRemoveRequests(ty)
      PROVE  IInv'
  <2>1. TypeOK' /\ LocksHeld'
    BY <1>2 DEF ioRemoveRequests, IInv, TypeOK, LocksHeld, Serving, GuiLabels
  <2>2. QED
    BY <1>2, <2>1 DEF ioRemoveRequests, IInv, TypeOK, UnwrittenIsNew,
       PhasesOrdered, HeadIsServed, BlockedMeansQuiet, NothingLost, CleanExit,
       Serving
<1>3. ASSUME NEW t \in Threads, NEW ty \in Types, ioPutRequest(t, ty)
      PROVE  IInv'
  <2>1. TypeOK' /\ LocksHeld'
    BY <1>3 DEF ioPutRequest, CallSite, IInv, TypeOK, LocksHeld, Serving,
       GuiLabels, WorkerLabels
  <2>2. PhasesOrdered' /\ BlockedMeansQuiet'
    \* a put is refused while blocked, so drained stays false
    BY <1>3 DEF ioPutRequest, PutAllowed, CallSite, IInv, TypeOK,
       PhasesOrdered, BlockedMeansQuiet, Serving
  <2>3. QED
    BY <1>3, <2>1, <2>2 DEF ioPutRequest, CallSite, IInv, TypeOK,
       UnwrittenIsNew, HeadIsServed, NothingLost, CleanExit, Serving
<1>4. ASSUME NEW n \in Timeouts, BlockOpsBegin(n)
      PROVE  IInv'
  <2>1. TypeOK' /\ LocksHeld'
    BY <1>4 DEF BlockOpsBegin, IInv, TypeOK, LocksHeld, Serving, GuiLabels
  <2>2. QED
    BY <1>4, <2>1 DEF BlockOpsBegin, IInv, TypeOK, UnwrittenIsNew,
       PhasesOrdered, HeadIsServed, BlockedMeansQuiet, NothingLost, CleanExit,
       Serving
<1>5. CASE UnblockOps
  BY <1>5 DEF UnblockOps, IInv, TypeOK, LocksHeld, UnwrittenIsNew,
     PhasesOrdered, HeadIsServed, BlockedMeansQuiet, NothingLost, CleanExit,
     Serving
<1>6. CASE ioEnd
  <2>1. TypeOK' /\ LocksHeld'
    BY <1>6 DEF ioEnd, WakeWorker, IInv, TypeOK, LocksHeld, Serving, GuiLabels
  <2>2. QED
    BY <1>6, <2>1 DEF ioEnd, IInv, TypeOK, UnwrittenIsNew, PhasesOrdered,
       HeadIsServed, BlockedMeansQuiet, NothingLost, CleanExit, Serving
<1> QED
  BY <1>1, <1>2, <1>3, <1>4, <1>5, <1>6 DEF GuiCalls

\* What follows the unlocked checks of ioPutRequest, on either thread.
LEMMA PutPreserves ==
  ASSUME IInv, NEW t \in Threads, Continue(t)
  PROVE  IInv'
<1> USE DEF Goto, listVars, semVars, flagVars, histVars, CallSite
<1>1. CASE PutRequestNoMemory(t)
  <2>1. TypeOK' /\ LocksHeld'
    BY <1>1 DEF PutRequestNoMemory, IInv, TypeOK, LocksHeld, Serving,
       GuiLabels, WorkerLabels
  <2>2. QED
    BY <1>1, <2>1 DEF PutRequestNoMemory, IInv, TypeOK, UnwrittenIsNew,
       PhasesOrdered, HeadIsServed, BlockedMeansQuiet, NothingLost, CleanExit,
       Serving
<1>2. CASE PutRequestLink(t)
  <2>1. TypeOK'
    BY <1>2, BoundsAssumption DEF PutRequestLink, IInv, TypeOK, GuiLabels,
       WorkerLabels
  <2>2. LocksHeld'
    BY <1>2 DEF PutRequestLink, IInv, TypeOK, LocksHeld, Serving
  <2>3. UnwrittenIsNew'
    \* gEndSemaId was free, so every request already listed is written
    BY <1>2 DEF PutRequestLink, IInv, TypeOK, UnwrittenIsNew
  <2>4. HeadIsServed'
    \* the new request is the largest, so the head stays the head
    BY <1>2 DEF PutRequestLink, IInv, TypeOK, HeadIsServed, Serving
  <2>5. NothingLost'
    BY <1>2 DEF PutRequestLink, IInv, TypeOK, NothingLost
  <2>6. PhasesOrdered' /\ BlockedMeansQuiet' /\ CleanExit'
    \* a thread inside ioPutRequest excludes a completed drain and a dead worker
    BY <1>2 DEF PutRequestLink, IInv, TypeOK, PhasesOrdered,
       BlockedMeansQuiet, CleanExit, Serving
  <2>7. QED
    BY <2>1, <2>2, <2>3, <2>4, <2>5, <2>6 DEF IInv
<1>3. CASE PutRequestFill(t)
  <2>1. TypeOK'
    <3>1. type' \in [Requests -> Types \cup {NULL}]
      BY <1>3 DEF PutRequestFill, IInv, TypeOK
    <3>2. gIoPending' \in [Types -> Nat]
      BY <1>3 DEF PutRequestFill, IInv, TypeOK
    <3>3. wakeups' \in Nat
      BY <1>3 DEF PutRequestFill, WakeWorker, IInv, TypeOK
    <3>4. QED
      BY <1>3, <3>1, <3>2, <3>3 DEF PutRequestFill, IInv, TypeOK, GuiLabels,
         WorkerLabels
  <2>2. LocksHeld'
    BY <1>3 DEF PutRequestFill, IInv, TypeOK, LocksHeld, Serving
  <2>3. UnwrittenIsNew' /\ HeadIsServed'
    BY <1>3, TypesAssumption DEF PutRequestFill, IInv, TypeOK, UnwrittenIsNew,
       HeadIsServed, Serving
  <2>4. QED
    BY <1>3, <2>1, <2>2, <2>3 DEF PutRequestFill, IInv, TypeOK, PhasesOrdered,
       BlockedMeansQuiet, NothingLost, CleanExit, Serving
<1> QED
  BY <1>1, <1>2, <1>3 DEF Continue

\* The rest of the calls the GUI thread carries through.
LEMMA GuiContinuesPreserve ==
  ASSUME IInv, GuiContinues
  PROVE  IInv'
<1> USE DEF Goto, listVars, semVars, flagVars, histVars
<1>1. CASE RegisterHandlerLocked
  <2>1. TypeOK' /\ LocksHeld'
    BY <1>1 DEF RegisterHandlerLocked, IInv, TypeOK, LocksHeld, Serving,
       GuiLabels
  <2>2. QED
    BY <1>1, <2>1 DEF RegisterHandlerLocked, IInv, TypeOK, UnwrittenIsNew,
       PhasesOrdered, HeadIsServed, BlockedMeansQuiet, NothingLost, CleanExit,
       Serving
<1>2. CASE RemoveRequestsLock
  <2>1. TypeOK' /\ LocksHeld'
    BY <1>2 DEF RemoveRequestsLock, IInv, TypeOK, LocksHeld, Serving, GuiLabels
  <2>2. QED
    \* the GUI thread was not "ended", so the worker is not dead
    BY <1>2, <2>1 DEF RemoveRequestsLock, IInv, TypeOK, UnwrittenIsNew,
       PhasesOrdered, HeadIsServed, BlockedMeansQuiet, NothingLost, CleanExit,
       Serving
<1>3. CASE RemoveRequestsUnlink
  <2>1. ~Serving
    \* the GUI thread holds gProcSemaId
    BY <1>3 DEF RemoveRequestsUnlink, IInv, TypeOK, LocksHeld
  <2>2. TypeOK' /\ LocksHeld'
    BY <1>3 DEF RemoveRequestsUnlink, IInv, TypeOK, LocksHeld, Serving,
       GuiLabels
  <2>3. NothingLost'
    BY <1>3, <2>1 DEF RemoveRequestsUnlink, IInv, TypeOK, NothingLost, Serving
  <2>4. QED
    BY <1>3, <2>1, <2>2, <2>3 DEF RemoveRequestsUnlink, IInv, TypeOK,
       UnwrittenIsNew, PhasesOrdered, HeadIsServed, BlockedMeansQuiet,
       CleanExit, Serving
<1>4. CASE BlockOpsWait
  BY <1>4, BoundsAssumption DEF BlockOpsWait, IInv, TypeOK, LocksHeld,
     UnwrittenIsNew, PhasesOrdered, HeadIsServed, BlockedMeansQuiet,
     NothingLost, CleanExit, Serving, Timeouts, Unbounded
<1>5. CASE BlockOpsReturn
  <2>1. TypeOK' /\ LocksHeld'
    BY <1>5, BoundsAssumption DEF BlockOpsReturn, RestorePriority, haveStatus, IInv,
       TypeOK, LocksHeld, Serving, GuiLabels, Timeouts, Unbounded
  <2>2. PhasesOrdered' /\ BlockedMeansQuiet'
    \* the request served is listed, so an empty list means nobody serves
    BY <1>5 DEF BlockOpsReturn, IInv, TypeOK, PhasesOrdered,
       BlockedMeansQuiet, HeadIsServed, Serving
  <2>3. QED
    BY <1>5, <2>1, <2>2 DEF BlockOpsReturn, IInv, TypeOK, UnwrittenIsNew,
       HeadIsServed, NothingLost, CleanExit, Serving
<1> QED
  BY <1>1, <1>2, <1>3, <1>4, <1>5, PutPreserves DEF GuiContinues

\* The steps of ioWorkerThread.
LEMMA WorkerPreserves ==
  ASSUME IInv, WorkerLoop
  PROVE  IInv'
<1> USE DEF Goto, listVars, semVars, flagVars, histVars
<1>1. CASE WorkerWake
  BY <1>1 DEF WorkerWake, IInv, TypeOK, LocksHeld, UnwrittenIsNew,
     PhasesOrdered, HeadIsServed, BlockedMeansQuiet, NothingLost, CleanExit,
     Serving, WorkerLabels
<1>2. CASE WorkerLock
  BY <1>2 DEF WorkerLock, IInv, TypeOK, LocksHeld, UnwrittenIsNew,
     PhasesOrdered, HeadIsServed, BlockedMeansQuiet, NothingLost, CleanExit,
     Serving, WorkerLabels
<1>3. CASE ioProcessRequest
  <2>1. gEndSemaId = Free
    \* the holder would be a GUI thread that is running, above the worker
    BY <1>3 DEF ioProcessRequest, WorkerRuns, GuiWaiting, IInv, TypeOK,
       LocksHeld
  <2>2. TypeOK' /\ LocksHeld'
    <3>1. req' \in Requests
      BY <1>3, BoundsAssumption DEF ioProcessRequest, IInv, TypeOK
    <3>2. TypeOK'
      BY <1>3, <3>1 DEF ioProcessRequest, IInv, TypeOK, WorkerLabels
    <3>3. LocksHeld'
      BY <1>3 DEF ioProcessRequest, IInv, TypeOK, LocksHeld, Serving
    <3>4. QED
      BY <3>2, <3>3
  <2>3. HeadIsServed'
    BY <1>3, <2>1 DEF ioProcessRequest, IsHead, IInv, TypeOK, UnwrittenIsNew,
       HeadIsServed, Serving
  <2>4. QED
    BY <1>3, <2>2, <2>3 DEF ioProcessRequest, IInv, TypeOK, UnwrittenIsNew,
       PhasesOrdered, BlockedMeansQuiet, NothingLost, CleanExit, Serving
<1>4. CASE WorkerUnlock
  BY <1>4 DEF WorkerUnlock, IInv, TypeOK, LocksHeld, UnwrittenIsNew,
     PhasesOrdered, HeadIsServed, BlockedMeansQuiet, NothingLost, CleanExit,
     Serving, WorkerLabels
<1>5. CASE HandlerReturns
  <2>1. TypeOK' /\ LocksHeld'
    BY <1>5 DEF HandlerReturns, IInv, TypeOK, LocksHeld, HeadIsServed,
       Serving, WorkerLabels
  <2>2. NothingLost'
    BY <1>5 DEF HandlerReturns, IInv, TypeOK, HeadIsServed, NothingLost,
       Serving
  <2>3. QED
    BY <1>5, <2>1, <2>2 DEF HandlerReturns, IInv, TypeOK, UnwrittenIsNew,
       PhasesOrdered, HeadIsServed, BlockedMeansQuiet, CleanExit, Serving
<1>6. CASE WorkerUnlink
  <2>1. TypeOK' /\ LocksHeld'
    <3>1. gIoPending' \in [Types -> Nat]
      BY <1>6 DEF WorkerUnlink, IInv, TypeOK
    <3>2. /\ linked' = linked
          /\ gReqList' \subseteq 1..linked
          /\ req' = NoReq
          /\ pc' \in [Threads -> GuiLabels \cup WorkerLabels]
          /\ pc'[Gui] = pc[Gui] /\ pc'[Worker] = "loop"
      BY <1>6 DEF WorkerUnlink, IInv, TypeOK, WorkerLabels
    <3>3. TypeOK'
      BY <1>6, <3>1, <3>2 DEF WorkerUnlink, IInv, TypeOK, WorkerLabels
    <3>4. LocksHeld'
      BY <1>6 DEF WorkerUnlink, IInv, TypeOK, LocksHeld, Serving
    <3>5. QED
      BY <3>3, <3>4
  <2>2. gReqList' = gReqList \ {req}
    \* req is the head, so cutting up to it removes nothing else
    <3>1. req \in Nat /\ gReqList \subseteq Nat /\ \A r \in gReqList : req <= r
      BY <1>6 DEF WorkerUnlink, IInv, TypeOK, HeadIsServed, Serving
    <3>2. gReqList' = {r \in gReqList : r > req}
      BY <1>6 DEF WorkerUnlink
    <3>3. \A r \in gReqList : r > req <=> r # req
      BY <3>1
    <3>4. QED
      BY <3>2, <3>3
  <2>3. NothingLost'
    BY <1>6, <2>2 DEF WorkerUnlink, IInv, TypeOK, NothingLost
  <2>4. QED
    BY <1>6, <2>1, <2>2, <2>3 DEF WorkerUnlink, IInv, TypeOK, UnwrittenIsNew,
       PhasesOrdered, HeadIsServed, BlockedMeansQuiet, CleanExit, Serving
<1>7. CASE WorkerExit
  <2>1. TypeOK' /\ LocksHeld'
    BY <1>7 DEF WorkerExit, IInv, TypeOK, LocksHeld, Serving, WorkerLabels
  <2>2. CleanExit'
    \* gIOTerminate is set, so the GUI thread is past every ioman call
    BY <1>7 DEF WorkerExit, IInv, TypeOK, LocksHeld, PhasesOrdered, CleanExit,
       Serving
  <2>3. QED
    BY <1>7, <2>1, <2>2 DEF WorkerExit, IInv, TypeOK, UnwrittenIsNew,
       PhasesOrdered, HeadIsServed, BlockedMeansQuiet, NothingLost, Serving
<1> QED
  BY <1>1, <1>2, <1>3, <1>4, <1>5, <1>6, <1>7, PutPreserves DEF WorkerLoop

\* The inductive invariant of ioman.c: semaphore ownership, the unwritten
\* node, the order of the phases and the safety properties that rest on them.
THEOREM InductiveInvariant == Spec => []IInv
<1>1. Init => IInv
  BY InitEstablishes
<1>2. IInv /\ [Next]_vars => IInv'
  <2> SUFFICES ASSUME IInv, [Next]_vars PROVE IInv'
    OBVIOUS
  <2>1. CASE UNCHANGED vars
    BY <2>1 DEF vars, listVars, semVars, flagVars, histVars, IInv, TypeOK,
       LocksHeld, UnwrittenIsNew, PhasesOrdered, HeadIsServed,
       BlockedMeansQuiet, NothingLost, CleanExit, Serving
  <2>2. QED
    BY <2>1, CallsPreserve, GuiContinuesPreserve, WorkerPreserves
       DEF Next, HandedOff
<1> QED
  BY <1>1, <1>2, PTL DEF Spec

\* Every variable of ioman.c keeps its type, for any number of requests.
THEOREM TypeCorrect == Spec => []TypeOK
  BY InductiveInvariant, PTL DEF IInv

\* The worker never runs a handler on a half-written, unlinked or freed
\* request, although ioPutRequest links a node before it writes its fields.
THEOREM HeadServed == Spec => []HeadIsServed
  BY InductiveInvariant, PTL DEF IInv

\* After a complete ioBlockOps(1) the list is empty and no handler runs.
THEOREM BlockedQuiet == Spec => []BlockedMeansQuiet
  BY InductiveInvariant, PTL DEF IInv

\* No request is lost or served twice, through removals and shutdown.
THEOREM RequestsAccounted == Spec => []NothingLost
  BY InductiveInvariant, PTL DEF IInv

\* ioEnd frees every request and deletes only free semaphores.
THEOREM ExitClean == Spec => []CleanExit
  BY InductiveInvariant, PTL DEF IInv

\* Handlers complete in the order of the calls to ioPutRequest.
THEOREM ServiceOrder == Spec => ServedInOrder
<1> DEFINE Earlier ==
      \A r \in done' \ done : 1..(r - 1) \subseteq done \cup dropped
<1>1. IInv /\ [Next]_vars => [Earlier]_vars
  <2> SUFFICES ASSUME IInv, Next, NEW r \in done' \ done
               PROVE  1..(r - 1) \subseteq done \cup dropped
    BY DEF Earlier
  <2> USE DEF listVars, semVars, flagVars, histVars
  <2>1. HandlerReturns
    \* every other action leaves done alone
    BY DEF Next, GuiCalls, GuiContinues, WorkerLoop, Continue, HandedOff,
       vars, ioRegisterHandler, ioRemoveRequests, ioPutRequest, BlockOpsBegin,
       UnblockOps, ioEnd, PutRequestNoMemory, PutRequestLink, PutRequestFill,
       RegisterHandlerLocked, RemoveRequestsLock, RemoveRequestsUnlink,
       BlockOpsWait, BlockOpsReturn, WorkerWake, WorkerLock, ioProcessRequest,
       WorkerUnlock, WorkerUnlink, WorkerExit
  <2>2. r = req /\ req \in gReqList /\ \A q \in gReqList : req <= q
    BY <2>1 DEF HandlerReturns, IInv, HeadIsServed, Serving
  <2>3. QED
    BY <2>2 DEF IInv, TypeOK, NothingLost
<1> QED
  BY <1>1, InductiveInvariant, PTL DEF Spec, ServedInOrder
============================================================================
