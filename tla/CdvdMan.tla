------------------------------ MODULE CdvdMan ------------------------------
(***************************************************************************)
(* The emulated disc drive of a running game (src/modules/iopcore/cdvdman  *)
(* and its EE-side server cdvdfsv): the drive lock sync_flag, the reading  *)
(* thread, the event flag, the completion alarm with the game's callback,  *)
(* the file and search functions that share static buffers, and the        *)
(* streaming ring.                                                         *)
(*                                                                         *)
(* The IOP has one core with strict priorities, and interrupts above all   *)
(* threads.  The reading thread runs at 15.  The threads that call in are  *)
(* the game's own or cdvdfsv's, which start at 0x51 and which a game may   *)
(* raise (sceCdChangeThreadPriority), so both orders exist.  Alarm         *)
(* handlers are atomic, and so is a CpuSuspendIntr bracket.                *)
(*                                                                         *)
(* What a game does with the drive is a parameter: Games is a set of       *)
(* profiles and a behaviour runs one of them.  Left out: the pacing alarm  *)
(* of IOPCORE_COMPAT_ACCU_READS, the status register, ZSO, and reads that  *)
(* fail: the device's error changes the error register and the buffer's    *)
(* contents.  cdvd_readee stops early when the register says SCECdErABRT,  *)
(* which sceCdBreak sets; UseBuffer may stop after any read.               *)
(***************************************************************************)
EXTENDS Integers, FiniteSets, TLC

CONSTANTS
  Clients,     \* the threads that call cdvdman
  Games,       \* the profiles, see Profile
  StBanksize,  \* sectors in a bank of the ring
  StBankmax,   \* banks of the ring
  LsnSpace,    \* bound: lsns are counted modulo this, more than the ring holds
  Starts       \* lsns that streams are started at

Reader == "reader"
Stream == "stream"   \* the streaming code, as the one who asked for a read
Intr   == "intr"     \* the game's callback, likewise
Free   == "free"
Threads == Clients \cup {Reader}
Askers  == Clients \cup {Stream, Intr}

ReadOps    == {"read", "unaligned", "search", "open", "file", "ee"}
StreamOps  == {"start", "stop", "pause", "resume", "stread"}
CommandOps == {"seek", "standby"}
Ops == ReadOps \cup StreamOps \cup CommandOps \cup {"sync", "callback"}

\* ops: what each thread calls; nested: the game's callback starts reads;
\* alt: IOPCORE_COMPAT_ALT_READ; mixes: the game reads files while it streams;
\* outranks: its threads are above the reading thread; blocks: sceCdStRead is
\* called in its blocking mode; counts: for how many sectors.
Profile == [ops : [Clients -> SUBSET Ops], nested : BOOLEAN, alt : BOOLEAN,
            mixes : BOOLEAN, outranks : BOOLEAN, blocks : BOOLEAN,
            counts : SUBSET (Nat \ {0})]

StBufmax == StBanksize * StBankmax
Sectors  == 0..(StBufmax - 1)
Lsns     == 0..(LsnSpace - 1)

ASSUME NamesAssumption == Clients \cap {Reader, Stream, Intr, Free} = {}
ASSUME GamesAssumption == \A g \in Games : g \in Profile
ASSUME RingAssumption ==
  /\ StBanksize \in Nat \ {0} /\ StBankmax \in Nat \ {0}
  /\ LsnSpace \in Nat /\ LsnSpace > StBufmax
  /\ Starts \subseteq Lsns

VARIABLES
  game,          \* the profile of this behaviour
  pc,            \* thread -> where it is
  op,            \* client -> the function it is in
  sync_flag,
  intr_ef,       \* the bits 1 and 8 of the event flag that are set
  rthread_sema,  \* cdrom_rthread_sema is signalled
  cdread,        \* cdread_lba, cdread_buf of cdvdman_stat, and who asked
  rd,            \* thread -> the read it performs
  sema,          \* cdrom_io_sema and cdvdman_searchfilesema: holder or Free
  user_cb,       \* a callback is registered
  cbAlarm,       \* event_alarm_cb is scheduled
  Stm0Callback,  \* StmCallback is installed
  StStat,
  StIsReading,
  Stlsn,
  StWritePtr,
  StReadPtr,
  StStreamed,
  stmAlarm,      \* StmScheduleCb is scheduled
  ptr,           \* thread -> the bank AllocBank gave it, or Full
  left,          \* client -> sectors sceCdStRead still has to copy
  copied,        \* client -> sectors ReadSectorsEE has in its DMA transfer
  ring,          \* sector of the ring -> the lsn read into it, or -1
  holds,         \* shared buffer -> whose read it was last filled for
  unfinished     \* history: whose read was accepted and is not carried out

ringVars  == <<StWritePtr, StReadPtr, StStreamed, ring>>
stVars    == <<Stm0Callback, StStat, StIsReading, Stlsn, stmAlarm>>
localVars == <<ptr, left, copied>>
lockVars  == <<sync_flag, intr_ef>>
readVars  == <<rthread_sema, cdread, unfinished>>
bufVars   == <<rd, sema, holds>>
cbVars    == <<user_cb, cbAlarm>>
vars == <<game, pc, op, lockVars, readVars, bufVars, cbVars, stVars, ringVars,
          localVars>>

Full   == -1
NoRead == [who |-> Intr, to |-> "own", at |-> 0, lsn |-> 0]
Read   == [who : Askers, to : {"own", "unaligned", "toc", "fs", "ring"},
           at : Sectors, lsn : Lsns]

ClientLabels == {"idle", "io", "ef", "ef_wait", "rdy", "rdy_wait", "search",
                 "read", "delay", "sync", "sync_wait", "use", "lock", "dev",
                 "event", "sig", "set", "resig", "reset", "command", "setcb",
                 "stop", "pause", "start", "resume", "st_test", "st_wait",
                 "st_clear", "st_copy", "st_commit", "fill", "fill_go"}
ReaderLabels == {"wait", "lock", "dev", "done", "event", "sig", "set",
                 "stm_sig", "stm_set", "stm", "callback", "fill", "fill_go"}

----------------------------------------------------------------------------
(* Scheduling *)

\* A client is off the CPU between its calls, on the event flag, on a
\* semaphore that is taken, in DelayThread, or in the device driver.
ClientWaiting(c) ==
  \/ pc[c] \in {"idle", "ef_wait", "rdy_wait", "sync_wait", "st_wait",
                "delay", "dev"}
  \/ pc[c] = "io" /\ sema["io"] # Free
  \/ pc[c] \in {"search", "lock"} /\ sema["search"] # Free

ReaderWaiting ==
  \/ pc[Reader] = "wait" /\ ~rthread_sema
  \/ pc[Reader] = "lock" /\ sema["search"] # Free
  \/ pc[Reader] = "dev"

Runs(t) ==
  IF t = Reader THEN game.outranks => \A c \in Clients : ClientWaiting(c)
  ELSE ~game.outranks => ReaderWaiting

Goto(t, label) == pc' = [pc EXCEPT ![t] = label]

----------------------------------------------------------------------------
(* The drive lock and the event flag *)

\* Where a thread goes that WaitEventFlag lets go on.
AfterEf(c) == IF op[c] = "open" THEN "search" ELSE "read"
Released(bits, p) ==
  [t \in Threads |->
     CASE 1 \in bits /\ p[t] = "sync_wait" -> "sync"
       [] 1 \in bits /\ p[t] = "rdy_wait"  -> "rdy"
       [] 1 \in bits /\ p[t] = "ef_wait"   -> AfterEf(t)
       [] 8 \in bits /\ p[t] = "st_wait"   -> "st_clear"
       [] OTHER                            -> p[t]]

\* SetEventFlag by thread t, which then goes on at label.
SetEf(bits, t, label) ==
  /\ intr_ef' = intr_ef \cup bits
  /\ pc' = Released(bits, [pc EXCEPT ![t] = label])

\* Mutant: cdvdman_common_lock leaves bit 1 of the event flag set.
AcceptFlagKept(r) ==
  /\ sync_flag' = TRUE
  /\ intr_ef' = intr_ef
  /\ cdread' = r
  /\ rthread_sema' = TRUE
  /\ unfinished' = unfinished \cup {r.who}

\* cdvdman_AsyncRead on a free drive: cdvdman_common_lock, the parameters,
\* SignalSema.
Accept(r) ==
  /\ sync_flag' = TRUE
  /\ intr_ef' = intr_ef \ {1}
  /\ cdread' = r
  /\ rthread_sema' = TRUE
  /\ unfinished' = unfinished \cup {r.who}

\* A read of the next bank, for StFillStreamBuffer.
BankRead(at) == [who |-> Stream, to |-> "ring", at |-> at, lsn |-> Stlsn]

----------------------------------------------------------------------------
Init ==
  /\ game \in Games
  /\ pc = [t \in Threads |-> IF t = Reader THEN "wait" ELSE "idle"]
  /\ op = [c \in Clients |-> "sync"]
  /\ sync_flag = FALSE /\ intr_ef = {1}
  /\ rthread_sema = FALSE /\ cdread = NoRead
  /\ rd = [t \in Threads |-> NoRead]
  /\ sema = [s \in {"io", "search"} |-> Free]
  /\ user_cb = FALSE /\ cbAlarm = FALSE
  /\ Stm0Callback = FALSE /\ StStat = FALSE /\ StIsReading = FALSE
  /\ Stlsn = 0 /\ StWritePtr = 0 /\ StReadPtr = 0 /\ StStreamed = 0
  /\ stmAlarm = FALSE
  /\ ptr = [t \in Threads |-> Full]
  /\ left = [c \in Clients |-> 0] /\ copied = [c \in Clients |-> 0]
  /\ ring = [s \in Sectors |-> -1]
  /\ holds = [b \in {"toc", "fs"} |-> Free]
  /\ unfinished = {}

----------------------------------------------------------------------------
(* sceCdRead and the functions around it, on a client *)

May(c, o) == pc[c] = "idle" /\ Runs(c) /\ o \in game.ops[c]

\* What a function locks, and which buffer it reads into: the caller's own, the
\* caller's through cdvdman_buf, cdvdman_buf itself ("toc"), or cdvdman_fs_buf,
\* which cdvdfsv shares ("fs").
TakesIo(o)     == o \in {"open", "file", "ee"}
TakesSearch(o) == o \in {"search", "open"}
Target(o) ==
  CASE o = "read" -> "own"
    [] o = "unaligned" -> "unaligned"
    [] TakesSearch(o) -> "toc"
    [] OTHER -> "fs"

BeginRead(c, o) ==
  /\ May(c, o) /\ o \in ReadOps
  /\ ~game.mixes => ~StStat
  /\ op' = [op EXCEPT ![c] = o]
  /\ Goto(c, IF TakesIo(o) THEN "io"
             ELSE IF TakesSearch(o) THEN "search" ELSE "read")
  /\ UNCHANGED <<game, lockVars, readVars, bufVars, cbVars, stVars, ringVars,
                 localVars>>

\* cdvd_readee waits with sceCdDiskReady(0), the cdrom functions on bit 1.
LockIo(c) ==
  /\ pc[c] = "io" /\ Runs(c) /\ sema["io"] = Free
  /\ sema' = [sema EXCEPT !["io"] = c]
  /\ Goto(c, IF op[c] = "ee" THEN "rdy" ELSE "ef")
  /\ UNCHANGED <<game, op, lockVars, readVars, rd, holds, cbVars, stVars,
                 ringVars, localVars>>

WaitEf(c) ==
  /\ pc[c] = "ef" /\ Runs(c)
  /\ Goto(c, IF 1 \in intr_ef THEN AfterEf(c) ELSE "ef_wait")
  /\ UNCHANGED <<game, op, lockVars, readVars, bufVars, cbVars, stVars,
                 ringVars, localVars>>

\* Mutant: findfile does not take cdvdman_searchfilesema.
LockSearchFree(c) ==
  /\ pc[c] = "search" /\ Runs(c)
  /\ Goto(c, "read")
  /\ UNCHANGED <<game, op, lockVars, readVars, bufVars, cbVars, stVars,
                 ringVars, localVars>>

LockSearch(c) ==
  /\ pc[c] = "search" /\ Runs(c) /\ sema["search"] = Free
  /\ sema' = [sema EXCEPT !["search"] = c]
  /\ Goto(c, "read")
  /\ UNCHANGED <<game, op, lockVars, readVars, rd, holds, cbVars, stVars,
                 ringVars, localVars>>

\* Where sceCdRead returns to when the read was accepted.
Accepted(c) == IF op[c] \in {"read", "unaligned"} THEN "idle" ELSE "sync"

ClientRead(c) == [who |-> c, to |-> Target(op[c]), at |-> 0, lsn |-> 0]

ReadAsync(c) ==
  /\ pc[c] = "read" /\ Runs(c) /\ ~game.alt /\ ~sync_flag
  /\ Accept(ClientRead(c))
  /\ Goto(c, Accepted(c))
  /\ UNCHANGED <<game, op, bufVars, cbVars, stVars, ringVars, localVars>>

\* cdvdman_SyncRead: the caller's thread reads.
ReadSync(c) ==
  /\ pc[c] = "read" /\ Runs(c) /\ game.alt /\ ~sync_flag
  /\ sync_flag' = TRUE
  /\ intr_ef' = intr_ef \ {1}
  /\ rd' = [rd EXCEPT ![c] = ClientRead(c)]
  /\ unfinished' = unfinished \cup {c}
  /\ Goto(c, IF Target(op[c]) = "unaligned" THEN "lock" ELSE "dev")
  /\ UNCHANGED <<game, op, rthread_sema, cdread, sema, holds, cbVars, stVars,
                 ringVars, localVars>>

\* The drive is busy: cdrom_read tries again later, the others give up.
ReadRefused(c) ==
  /\ pc[c] = "read" /\ Runs(c) /\ sync_flag
  /\ IF op[c] = "file" THEN Goto(c, "delay") /\ sema' = sema
     ELSE /\ Goto(c, "idle")
          /\ sema' = [s \in DOMAIN sema |-> IF sema[s] = c THEN Free ELSE sema[s]]
  /\ UNCHANGED <<game, op, lockVars, readVars, rd, holds, cbVars, stVars,
                 ringVars, localVars>>

ReadAgain(c) ==
  /\ pc[c] = "delay" /\ Runs(c)
  /\ Goto(c, "read")
  /\ UNCHANGED <<game, op, lockVars, readVars, bufVars, cbVars, stVars,
                 ringVars, localVars>>

\* The buffer is parsed, copied or sent.  Then the next sectors are read, or
\* the semaphores are given back.
UseBuffer(c, more) ==
  /\ pc[c] = "use" /\ Runs(c)
  /\ IF more THEN Goto(c, "read") /\ sema' = sema
     ELSE /\ Goto(c, "idle")
          /\ sema' = [s \in DOMAIN sema |-> IF sema[s] = c THEN Free ELSE sema[s]]
  /\ UNCHANGED <<game, op, lockVars, readVars, rd, holds, cbVars, stVars,
                 ringVars, localVars>>

----------------------------------------------------------------------------
(* sceCdSync(0), and the same loop in sceCdDiskReady(0) *)

BeginSync(c) ==
  /\ May(c, "sync")
  /\ op' = [op EXCEPT ![c] = "sync"]
  /\ Goto(c, "sync")
  /\ UNCHANGED <<game, lockVars, readVars, bufVars, cbVars, stVars, ringVars,
                 localVars>>

AfterSync(c) ==
  CASE op[c] \in {"search", "open", "file", "ee"} -> "use"
    [] op[c] = "start" -> "start"
    [] OTHER -> "idle"

\* while (sync_flag) WaitEventFlag(...), which returns at once if bit 1 is set.
SyncLoop(c) ==
  /\ pc[c] \in {"sync", "rdy"} /\ Runs(c)
  /\ Goto(c, IF ~sync_flag
             THEN IF pc[c] = "sync" THEN AfterSync(c) ELSE "read"
             ELSE IF 1 \in intr_ef THEN pc[c]
             ELSE IF pc[c] = "sync" THEN "sync_wait" ELSE "rdy_wait")
  /\ UNCHANGED <<game, op, lockVars, readVars, bufVars, cbVars, stVars,
                 ringVars, localVars>>

----------------------------------------------------------------------------
(* Commands that do not read, and sceCdCallback *)

\* sceCdSeek, sceCdStop, sceCdPause, sceCdGetToc and sceCdBreak are refused by
\* a busy drive; sceCdStandby does not ask.
BeginCommand(c, o) ==
  /\ May(c, o) /\ o \in CommandOps
  /\ o = "standby" \/ ~sync_flag
  /\ op' = [op EXCEPT ![c] = o]
  /\ Goto(c, "command")
  /\ UNCHANGED <<game, lockVars, readVars, bufVars, cbVars, stVars, ringVars,
                 localVars>>

\* sceCdCallback: first sceCdSync(1), then the bracket.
BeginCallback(c) ==
  /\ May(c, "callback") /\ ~sync_flag
  /\ op' = [op EXCEPT ![c] = "callback"]
  /\ Goto(c, "setcb")
  /\ UNCHANGED <<game, lockVars, readVars, bufVars, cbVars, stVars, ringVars,
                 localVars>>

SetCallback(c, on) ==
  /\ pc[c] = "setcb" /\ Runs(c)
  /\ user_cb' = on
  /\ Goto(c, "idle")
  /\ UNCHANGED <<game, op, lockVars, readVars, bufVars, cbAlarm, stVars,
                 ringVars, localVars>>

----------------------------------------------------------------------------
(* Performing a read, on the reading thread or in cdvdman_SyncRead *)

ReaderWakes ==
  /\ pc[Reader] = "wait" /\ Runs(Reader) /\ rthread_sema
  /\ rthread_sema' = FALSE
  /\ rd' = [rd EXCEPT ![Reader] = cdread]
  /\ Goto(Reader, IF cdread.to = "unaligned" THEN "lock" ELSE "dev")
  /\ UNCHANGED <<game, op, lockVars, cdread, unfinished, sema, holds, cbVars,
                 stVars, ringVars, localVars>>

\* A transfer that needs cdvdman_buf.
LockBuf(t) ==
  /\ pc[t] = "lock" /\ Runs(t) /\ sema["search"] = Free
  /\ sema' = [sema EXCEPT !["search"] = t]
  /\ Goto(t, "dev")
  /\ UNCHANGED <<game, op, lockVars, readVars, rd, holds, cbVars, stVars,
                 ringVars, localVars>>

\* The sectors of the bank at a.
Bank(a) == {s \in Sectors : s >= a /\ s < a + StBanksize}

\* cdvdman_read returns; the double copy gives cdvdman_searchfilesema back.
\* The device delivers: after a failed read the buffer keeps what it held, and
\* nothing said here about its contents holds.
DeviceReads(t) ==
  /\ pc[t] = "dev" /\ Runs(t)
  /\ LET r == rd[t]
     IN /\ ring' = IF r.to = "ring"
                   THEN [s \in Sectors |-> IF s \in Bank(r.at)
                           THEN (r.lsn + s - r.at) % LsnSpace ELSE ring[s]]
                   ELSE ring
        /\ holds' = CASE r.to \in {"toc", "fs"} -> [holds EXCEPT ![r.to] = r.who]
                      [] r.to = "unaligned"     -> [holds EXCEPT !["toc"] = r.who]
                      [] OTHER                  -> holds
        /\ unfinished' = unfinished \ {r.who}
  /\ sema' = IF rd[t].to = "unaligned" THEN [sema EXCEPT !["search"] = Free] ELSE sema
  /\ Goto(t, IF t = Reader THEN "done" ELSE "event")
  /\ UNCHANGED <<game, op, lockVars, rthread_sema, cdread, rd, cbVars, stVars,
                 StWritePtr, StReadPtr, StStreamed, localVars>>

\* cdvdman_cdread_Thread: the stream's callback or the game's.
ReaderDone ==
  /\ pc[Reader] = "done" /\ Runs(Reader)
  /\ Goto(Reader, IF Stm0Callback THEN "stm_sig" ELSE "event")
  /\ UNCHANGED <<game, op, lockVars, readVars, bufVars, cbVars, stVars,
                 ringVars, localVars>>

\* cdvdman_cb_event: with a callback the alarm will signal the end.
\* cdvdman_SyncRead signals it once more by itself.
CbEvent(t) ==
  /\ pc[t] \in {"event", "command"} /\ Runs(t)
  /\ IF user_cb
     THEN /\ cbAlarm' = TRUE
          /\ Goto(t, IF t = Reader THEN "wait"
                     ELSE IF pc[t] = "command" THEN "idle" ELSE "resig")
     ELSE cbAlarm' = cbAlarm /\ Goto(t, "sig")
  /\ UNCHANGED <<game, op, lockVars, readVars, bufVars, user_cb, stVars,
                 ringVars, localVars>>

\* Mutant: the end is signalled and the lock is kept.
SignalKeepsLock == sync_flag' = sync_flag

SignalUnlocks == sync_flag' = FALSE

\* cdvdman_signal_read_end, first half.
Signal(t) ==
  /\ pc[t] \in {"sig", "stm_sig", "resig"} /\ Runs(t)
  /\ SignalUnlocks
  /\ Goto(t, CASE pc[t] = "sig" -> "set" [] pc[t] = "stm_sig" -> "stm_set"
               [] OTHER -> "reset")
  /\ UNCHANGED <<game, op, intr_ef, readVars, bufVars, cbVars, stVars,
                 ringVars, localVars>>

\* Mutant: the end of a read is not signalled to sceCdStRead.
NoStreamBit == {1}

ReadEndBits == {1, 8}

\* Where the thread goes on that signalled the end.
AfterSignal(t) ==
  CASE pc[t] = "stm_set" -> "stm"
    [] pc[t] = "set"     -> IF t = Reader THEN "wait"
                            ELSE IF op[t] \in ReadOps THEN "resig" ELSE "idle"
    [] OTHER             -> Accepted(t)

\* ... second half.
SignalEf(t) ==
  /\ pc[t] \in {"set", "stm_set", "reset"} /\ Runs(t)
  /\ SetEf(ReadEndBits, t, AfterSignal(t))
  /\ UNCHANGED <<game, op, sync_flag, readVars, bufVars, cbVars, stVars,
                 ringVars, localVars>>

\* event_alarm_cb, an interrupt: signal, then the game's callback, which may
\* start the next read.
EventAlarm(again) ==
  /\ cbAlarm /\ cbAlarm' = FALSE
  /\ again => user_cb /\ game.nested
  /\ pc' = Released({1, 8}, pc)
  /\ IF again
     THEN /\ sync_flag' = TRUE
          /\ intr_ef' = (intr_ef \cup {8}) \ {1}
          /\ cdread' = NoRead /\ rthread_sema' = TRUE
          /\ unfinished' = unfinished \cup {Intr}
     ELSE /\ sync_flag' = FALSE
          /\ intr_ef' = intr_ef \cup {1, 8}
          /\ UNCHANGED readVars
  /\ UNCHANGED <<game, op, bufVars, user_cb, stVars, ringVars, localVars>>

----------------------------------------------------------------------------
(* Streaming: filling the ring *)

\* The stream's callback was not cleared meanwhile.
ReaderRechecks ==
  /\ pc[Reader] = "stm" /\ Runs(Reader)
  /\ Goto(Reader, IF Stm0Callback THEN "callback" ELSE "wait")
  /\ UNCHANGED <<game, op, lockVars, readVars, bufVars, cbVars, stVars,
                 ringVars, localVars>>

Wrap(p) == IF p >= StBufmax THEN 0 ELSE p

\* StmCallback: account for the bank, if it was the stream that was reading.
\* The code tests StIsReading just before its bracket.  StmScheduleCb changes
\* nothing in between that the test could miss; only a thread above the reading
\* thread that stops or pauses its stream could, and that pair is not modelled.
StmCallback ==
  /\ pc[Reader] = "callback" /\ Runs(Reader)
  /\ IF StIsReading
     THEN /\ Stlsn' = (Stlsn + StBanksize) % LsnSpace
          /\ StStreamed' = StStreamed + StBanksize
          /\ StWritePtr' = Wrap(StWritePtr + StBanksize)
          /\ StIsReading' = FALSE
     ELSE UNCHANGED <<Stlsn, StStreamed, StWritePtr, StIsReading>>
  /\ Goto(Reader, "fill")
  /\ UNCHANGED <<game, op, lockVars, readVars, bufVars, cbVars, Stm0Callback,
                 StStat, stmAlarm, StReadPtr, ring, localVars>>

\* Mutant: a bank is given out while it still holds unread sectors.
RoomForOne == StStreamed < StBufmax

\* AllocBank's test.
Room == StBufmax - StStreamed >= StBanksize

Returns(t) == IF t = Reader THEN "wait" ELSE "idle"

\* StFillStreamBuffer, the bracket.
Fill(t) ==
  /\ pc[t] = "fill" /\ Runs(t)
  /\ IF StIsReading
     THEN Goto(t, Returns(t)) /\ UNCHANGED <<stmAlarm, StIsReading, ptr>>
     ELSE /\ stmAlarm' = FALSE
          /\ StIsReading' = TRUE
          /\ ptr' = [ptr EXCEPT ![t] = IF Room THEN StWritePtr ELSE Full]
          /\ Goto(t, "fill_go")
  /\ UNCHANGED <<game, op, lockVars, readVars, bufVars, cbVars, Stm0Callback,
                 StStat, Stlsn, ringVars, left, copied>>

\* ... and after it: the ring is full, the read is started, or the drive is
\* busy and StStartFillStreamBuffer schedules another try.
FillGoes(t) ==
  /\ pc[t] = "fill_go" /\ Runs(t)
  /\ IF ptr[t] # Full /\ ~sync_flag
     THEN Accept(BankRead(ptr[t])) /\ UNCHANGED <<StIsReading, stmAlarm>>
     ELSE /\ StIsReading' = FALSE
          /\ stmAlarm' = (stmAlarm \/ ptr[t] # Full)
          /\ UNCHANGED <<lockVars, readVars>>
  /\ ptr' = [ptr EXCEPT ![t] = Full]
  /\ Goto(t, Returns(t))
  /\ UNCHANGED <<game, op, bufVars, cbVars, Stm0Callback, StStat, Stlsn,
                 ringVars, left, copied>>

\* StmScheduleCb, an interrupt: StFillStreamBuffer, again later on a busy drive.
StmSchedule ==
  /\ stmAlarm
  /\ IF ~StIsReading /\ Room /\ ~sync_flag
     THEN /\ Accept(BankRead(StWritePtr))
          /\ StIsReading' = TRUE /\ stmAlarm' = FALSE
     ELSE /\ stmAlarm' = (~StIsReading /\ Room)
          /\ UNCHANGED <<lockVars, readVars, StIsReading>>
  /\ UNCHANGED <<game, pc, op, bufVars, cbVars, Stm0Callback, StStat, Stlsn,
                 ringVars, localVars>>

----------------------------------------------------------------------------
(* Streaming: the calls *)

\* sceCdStStop, sceCdStSeek and sceCdStStart while streaming, and sceCdStPause:
\* CancelAlarm first.
BeginHalt(c, o) ==
  /\ May(c, o) /\ o \in {"stop", "start", "pause"} /\ StStat
  /\ op' = [op EXCEPT ![c] = o]
  /\ stmAlarm' = FALSE
  /\ Goto(c, IF o = "pause" THEN "pause" ELSE "stop")
  /\ UNCHANGED <<game, lockVars, readVars, bufVars, cbVars, Stm0Callback,
                 StStat, StIsReading, Stlsn, ringVars, localVars>>

\* Mutant: StReset forgets that a bank is being read.
ResetKeepsReading ==
  /\ StWritePtr' = 0 /\ StReadPtr' = 0 /\ StStreamed' = 0
  /\ UNCHANGED StIsReading

\* StReset.
Reset ==
  /\ StWritePtr' = 0 /\ StReadPtr' = 0 /\ StStreamed' = 0
  /\ StIsReading' = FALSE

Halt(c) ==
  /\ pc[c] \in {"stop", "pause"} /\ Runs(c)
  /\ Stm0Callback' = FALSE
  /\ IF pc[c] = "stop"
     THEN StStat' = FALSE /\ Reset
     ELSE StIsReading' = FALSE /\ UNCHANGED <<StStat, StWritePtr, StReadPtr, StStreamed>>
  /\ Goto(c, "sync")
  /\ UNCHANGED <<game, op, lockVars, readVars, bufVars, cbVars, Stlsn,
                 stmAlarm, ring, localVars>>

\* sceCdStStart on a stopped stream.
BeginStart(c) ==
  /\ May(c, "start") /\ ~StStat
  /\ ~game.mixes => unfinished \cap Clients = {}
  /\ op' = [op EXCEPT ![c] = "start"]
  /\ Goto(c, "start")
  /\ UNCHANGED <<game, lockVars, readVars, bufVars, cbVars, stVars, ringVars,
                 localVars>>

StStart(c, lsn) ==
  /\ pc[c] = "start" /\ Runs(c)
  /\ Stlsn' = lsn /\ StStat' = TRUE /\ Reset
  /\ Stm0Callback' = TRUE
  /\ Goto(c, "fill")
  /\ UNCHANGED <<game, op, lockVars, readVars, bufVars, cbVars, stmAlarm, ring,
                 localVars>>

BeginResume(c) ==
  /\ May(c, "resume") /\ StStat
  /\ op' = [op EXCEPT ![c] = "resume"]
  /\ Stm0Callback' = TRUE
  /\ Goto(c, "fill")
  /\ UNCHANGED <<game, lockVars, readVars, bufVars, cbVars, StStat,
                 StIsReading, Stlsn, stmAlarm, ringVars, localVars>>

\* sceCdStRead of n sectors: SetEventFlag(8), then the loop.  The games modelled
\* do not read the ring of a paused stream.
BeginStRead(c, n) ==
  /\ May(c, "stread") /\ StStat
  /\ Stm0Callback
  /\ op' = [op EXCEPT ![c] = "stread"]
  /\ left' = [left EXCEPT ![c] = n]
  /\ SetEf({8}, c, "st_test")
  /\ UNCHANGED <<game, sync_flag, readVars, bufVars, cbVars, stVars, ringVars,
                 ptr, copied>>

StReadWait(c) ==
  /\ pc[c] = "st_test" /\ Runs(c)
  /\ Goto(c, IF 8 \in intr_ef THEN "st_clear" ELSE "st_wait")
  /\ UNCHANGED <<game, op, lockVars, readVars, bufVars, cbVars, stVars,
                 ringVars, localVars>>

StReadClear(c) ==
  /\ pc[c] = "st_clear" /\ Runs(c)
  /\ intr_ef' = intr_ef \ {8}
  /\ Goto(c, "st_copy")
  /\ UNCHANGED <<game, op, sync_flag, readVars, bufVars, cbVars, stVars,
                 ringVars, localVars>>

Min(a, b) == IF a < b THEN a ELSE b

\* ReadSectors and ReadSectorsEE: up to the end of the ring if the writer is
\* behind the reader, then up to the writer.
ToEnd(n) ==
  IF StWritePtr <= StReadPtr /\ StStreamed > 0
  THEN Min(StBufmax - StReadPtr, n) ELSE 0
Copyable(n) ==
  LET first == ToEnd(n)
      rdptr == Wrap(StReadPtr + first)
  IN first + IF first < n /\ rdptr < StWritePtr
             THEN Min(StWritePtr - rdptr, n - first) ELSE 0

\* ReadSectorsEE's transfer; StReadCommit follows it.  ReadSectors copies and
\* commits in one bracket.
StReadCopy(c) ==
  /\ pc[c] = "st_copy" /\ Runs(c)
  /\ copied' = [copied EXCEPT ![c] = Copyable(left[c])]
  /\ Goto(c, "st_commit")
  /\ UNCHANGED <<game, op, lockVars, readVars, bufVars, cbVars, stVars,
                 ringVars, ptr, left>>

StReadCommit(c) ==
  /\ pc[c] = "st_commit" /\ Runs(c)
  /\ StReadPtr' = (StReadPtr + copied[c]) % StBufmax
  /\ StStreamed' = StStreamed - copied[c]
  /\ copied' = [copied EXCEPT ![c] = 0]
  /\ IF game.blocks /\ copied[c] < left[c]
     THEN left' = [left EXCEPT ![c] = @ - copied[c]] /\ Goto(c, "st_test")
     ELSE left' = [left EXCEPT ![c] = 0] /\ Goto(c, "fill")
  /\ UNCHANGED <<game, op, lockVars, readVars, bufVars, cbVars, stVars,
                 StWritePtr, ring, ptr>>

----------------------------------------------------------------------------
ClientCalls(c) ==
  \/ \E o \in ReadOps : BeginRead(c, o)
  \/ BeginSync(c)
  \/ \E o \in CommandOps : BeginCommand(c, o)
  \/ BeginCallback(c)
  \/ \E o \in StreamOps : BeginHalt(c, o)
  \/ BeginStart(c) \/ BeginResume(c)
  \/ \E n \in game.counts : BeginStRead(c, n)

ClientContinues(c) ==
  \/ LockIo(c) \/ WaitEf(c) \/ LockSearch(c)
  \/ ReadAsync(c) \/ ReadSync(c) \/ ReadRefused(c) \/ ReadAgain(c)
  \/ SyncLoop(c) \/ (\E more \in BOOLEAN : UseBuffer(c, more))
  \/ \E on \in BOOLEAN : SetCallback(c, on)
  \/ Halt(c) \/ (\E lsn \in Starts : StStart(c, lsn))
  \/ StReadWait(c) \/ StReadClear(c) \/ StReadCopy(c) \/ StReadCommit(c)

\* What clients and the reading thread both do.
Shared(t) ==
  LockBuf(t) \/ CbEvent(t) \/ Signal(t) \/ SignalEf(t) \/ Fill(t) \/ FillGoes(t)

ReaderContinues ==
  ReaderWakes \/ ReaderDone \/ ReaderRechecks \/ StmCallback \/ Shared(Reader)

Interrupts == (\E again \in BOOLEAN : EventAlarm(again)) \/ StmSchedule

Next ==
  \/ \E c \in Clients : ClientCalls(c) \/ ClientContinues(c) \/ Shared(c)
  \/ \E t \in Threads : DeviceReads(t)
  \/ ReaderContinues
  \/ Interrupts

Spec == Init /\ [][Next]_vars

\* A thread that may run does; the device answers; alarms expire.  The game's
\* callback does not start another read for ever.
Fairness ==
  /\ \A c \in Clients : WF_vars(ClientContinues(c) \/ Shared(c))
  /\ \A t \in Threads : WF_vars(DeviceReads(t))
  /\ WF_vars(ReaderContinues)
  /\ WF_vars(\E again \in BOOLEAN : EventAlarm(again))
  /\ SF_vars(EventAlarm(FALSE))
  /\ WF_vars(StmSchedule)

FairSpec == Spec /\ Fairness

----------------------------------------------------------------------------
(* Properties *)

\* The types of cdvdman's state: the ring's pointers stay inside the ring
\* whatever AllocBank and ReadSectors add to them.
TypeOK ==
  /\ game \in Games
  /\ pc \in [Threads -> ClientLabels \cup ReaderLabels]
  /\ pc[Reader] \in ReaderLabels /\ \A c \in Clients : pc[c] \in ClientLabels
  /\ op \in [Clients -> Ops]
  /\ sync_flag \in BOOLEAN /\ intr_ef \subseteq {1, 8}
  /\ rthread_sema \in BOOLEAN /\ cdread \in Read
  /\ rd \in [Threads -> Read]
  /\ sema \in [{"io", "search"} -> Threads \cup {Free}]
  /\ user_cb \in BOOLEAN /\ cbAlarm \in BOOLEAN
  /\ Stm0Callback \in BOOLEAN /\ StStat \in BOOLEAN /\ StIsReading \in BOOLEAN
  /\ Stlsn \in Lsns /\ StWritePtr \in Sectors /\ StReadPtr \in Sectors
  /\ StStreamed \in Nat
  /\ stmAlarm \in BOOLEAN
  /\ ptr \in [Threads -> Sectors \cup {Full}]
  /\ left \in [Clients -> Nat] /\ copied \in [Clients -> 0..StBufmax]
  /\ ring \in [Sectors -> Lsns \cup {-1}]
  /\ holds \in [{"toc", "fs"} -> Askers \cup {Free}]
  /\ unfinished \subseteq Askers

\* A drive that looks ready has nothing left to do: whoever sees sync_flag
\* clear (sceCdSync, sceCdDiskReady, the next sceCdRead), or bit 1 of the event
\* flag set (the cdrom functions), finds every accepted read carried out.  The
\* flag says so only in games that do not read while they stream.
ReadyMeansDone ==
  ~sync_flag \/ (1 \in intr_ef /\ ~game.mixes) => unfinished = {}

\* The static buffers: when a function parses or copies what it read, the
\* buffer holds its own read, and neither another thread's nor the reading
\* thread's double copy of an unaligned transfer.
BufferIsOwn ==
  \A c \in Clients : pc[c] = "use" => holds[Target(op[c])] = c

\* The ring's counters agree: between the two pointers lie StStreamed sectors,
\* and, in games that do not read while they stream, no more than fit.
RingCounted ==
  /\ (StWritePtr - StReadPtr - StStreamed) % StBufmax = 0
  /\ ~game.mixes => StStreamed <= StBufmax

\* What the ring offers are the StStreamed sectors before Stlsn, in order.
RingInOrder ==
  \A i \in 0..(StStreamed - 1) :
    ring[(StReadPtr + i) % StBufmax] = (Stlsn - StStreamed + i) % LsnSpace

\* ... for a game that does not read while it streams.
StreamInOrder == ~game.mixes => RingInOrder

\* A thread that carries out an unaligned read waits for cdvdman_searchfilesema,
\* and its holder waits in sceCdSync for that read to end.
Circle ==
  \E t \in Threads, c \in Clients :
    /\ pc[t] = "lock"
    /\ sema["search"] = c /\ pc[c] \in {"sync", "sync_wait"}

\* A drive that was taken is freed again, with one exception: Circle, which an
\* unaligned read accepted between another thread's search read and its sceCdSync
\* closes (cdvdman.c, cdvdman_read).  There is no other way in which semaphores
\* and event flag leave everyone waiting for everyone.
DriveFreed == sync_flag ~> ~sync_flag \/ Circle

\* sceCdStRead waits for sectors, the ring is empty, and nobody reads the next
\* bank or is going to: StStartFillStreamBuffer comes after the loop.
Starved(c) ==
  /\ pc[c] = "st_wait" /\ StStreamed = 0
  /\ pc[Reader] = "wait" /\ ~rthread_sema
  /\ ~StIsReading /\ ~stmAlarm

\* The game reads its streams in whole banks, as many as the ring holds at most.
WholeBanks == \A n \in game.counts : n % StBanksize = 0 /\ n <= StBufmax

\* A call that only a game which does not read in whole banks gets into.
Hangs(c) == Starved(c) /\ ~WholeBanks

\* sceCdStRead returns, also in its blocking mode, which waits for the stream to
\* bring the sectors it lacks.  The exception is a game that does not read in
\* whole banks: its blocking reads may end Starved, and in no other way.
StReadReturns ==
  \A c \in Clients : pc[c] = "st_test" ~> pc[c] = "idle" \/ Hangs(c)

\* A running stream with room in the ring goes on to the next bank, until it is
\* stopped or paused, or until the call that should start the next bank hangs.
StreamFlows ==
  \A k \in Lsns :
    (Stm0Callback /\ Room /\ Stlsn = k)
      ~> (~Stm0Callback \/ Stlsn # k \/ ~Room \/ \E c \in Clients : Hangs(c))
=============================================================================
