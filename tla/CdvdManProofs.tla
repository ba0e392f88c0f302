--------------------------- MODULE CdvdManProofs ---------------------------
(***************************************************************************)
(* Proofs about the emulated disc drive.  What holds depends on what the   *)
(* game does, so the theorems say of which games they speak.               *)
(***************************************************************************)
EXTENDS CdvdMan, TLAPS

\* Some thread of the game calls one of the functions O.
Uses(O) == \E c \in Clients : game.ops[c] \cap O # {}

\* Games of any number of threads, of any priority, that use neither the
\* compatibility mode nor a command that ends without having taken the drive.
Regular == ~game.alt /\ ~Uses(CommandOps)

\* Games that use the drive from one thread below the reading thread, without a
\* callback and without sceCdStandby; they do not read while they stream.
Single ==
  /\ \A c, d \in Clients : game.ops[c] # {} /\ game.ops[d] # {} => c = d
  /\ ~Uses({"callback", "standby"})
  /\ ~game.outranks /\ ~game.mixes

\* Games that do not stream.
Silent == ~Uses(StreamOps)

----------------------------------------------------------------------------
(* The semaphores and the functions that hold them: for every game          *)

Labels ==
  /\ pc \in [Threads -> ClientLabels \cup ReaderLabels]
  /\ pc[Reader] \in ReaderLabels /\ \A c \in Clients : pc[c] \in ClientLabels
  /\ op \in [Clients -> Ops]

DriveTypes ==
  /\ sync_flag \in BOOLEAN /\ intr_ef \subseteq {1, 8}
  /\ rthread_sema \in BOOLEAN /\ cdread \in Read
  /\ rd \in [Threads -> Read]
  /\ sema \in [{"io", "search"} -> Threads \cup {Free}]
  /\ user_cb \in BOOLEAN /\ cbAlarm \in BOOLEAN
  /\ holds \in [{"toc", "fs"} -> Askers \cup {Free}]
  /\ unfinished \subseteq Askers

\* Nothing keeps two threads from reading one stream: StStreamed is only known
\* to stay positive in the games of the theorems below.
StreamTypes ==
  /\ Stm0Callback \in BOOLEAN /\ StStat \in BOOLEAN /\ StIsReading \in BOOLEAN
  /\ Stlsn \in Lsns /\ StWritePtr \in Sectors /\ StReadPtr \in Sectors
  /\ StStreamed \in Int
  /\ stmAlarm \in BOOLEAN
  /\ ptr \in [Threads -> Sectors \cup {Full}]
  /\ left \in [Clients -> Nat] /\ copied \in [Clients -> 0..StBufmax]
  /\ ring \in [Sectors -> Lsns \cup {-1}]

Types == game \in Games /\ Labels /\ DriveTypes /\ StreamTypes

\* The labels of the functions that wait for their read.
WaitingOps == {"search", "open", "file", "ee"}
SyncLabels == {"lock", "dev", "event", "sig", "set", "resig", "reset"}

\* The function that a client is in is one that has this label.
Calls ==
  \A c \in Clients :
    /\ pc[c] = "io" => TakesIo(op[c])
    /\ pc[c] \in {"ef", "ef_wait"} => op[c] \in {"open", "file"}
    /\ pc[c] \in {"rdy", "rdy_wait"} => op[c] = "ee"
    /\ pc[c] = "search" => TakesSearch(op[c])
    /\ pc[c] = "read" => op[c] \in ReadOps
    /\ pc[c] = "delay" => op[c] = "file"
    /\ pc[c] = "use" => op[c] \in WaitingOps
    /\ pc[c] \in {"sync", "sync_wait"} =>
         op[c] \in WaitingOps \cup {"sync", "stop", "start", "pause"}
    /\ pc[c] \in {"lock", "dev", "event", "resig", "reset"} => op[c] \in ReadOps
    /\ pc[c] \in {"sig", "set"} => op[c] \in ReadOps \cup CommandOps
    /\ pc[c] = "command" => op[c] \in CommandOps
    /\ pc[c] = "stop" => op[c] \in {"stop", "start"}
    /\ pc[c] = "pause" => op[c] = "pause"
    /\ pc[c] \in {"start", "fill", "fill_go", "st_test", "st_wait", "st_clear",
                  "st_copy", "st_commit"} => op[c] \in StreamOps
    /\ pc[c] = "setcb" => op[c] = "callback"
    /\ pc[c] # "idle" => op[c] \in game.ops[c]

Semaphores ==
  /\ \A c \in Clients :
       /\ TakesIo(op[c]) /\ pc[c] \notin {"idle", "io"} => sema["io"] = c
       /\ TakesSearch(op[c]) /\ pc[c] \notin {"idle", "io", "ef", "ef_wait", "search"}
            => sema["search"] = c
       /\ pc[c] \in {"lock", "dev"} => rd[c] = ClientRead(c)
  /\ \A t \in Threads :
       /\ pc[t] = "dev" /\ rd[t].to = "unaligned" => sema["search"] = t
       /\ pc[t] = "lock" => rd[t].to = "unaligned"

----------------------------------------------------------------------------
(* The drive                                                                *)

\* A thread is carrying a read out, up to the end's signal.
Busy(t) ==
  IF t = Reader
  THEN pc[t] \in {"lock", "dev", "done", "event", "sig", "stm_sig"}
  ELSE pc[t] \in {"lock", "dev", "event"} \/ (pc[t] = "sig" /\ op[t] \in ReadOps)

Performs(t) == pc[t] \in {"lock", "dev"}

\* The drive is taken by one accepted read, and by nothing else.
Drive ==
  /\ rthread_sema => sync_flag /\ ~cbAlarm /\ \A t \in Threads : ~Busy(t)
  /\ \A t \in Threads : Busy(t) =>
       sync_flag /\ ~cbAlarm /\ \A u \in Threads : Busy(u) => u = t
  /\ cbAlarm => sync_flag
  /\ sync_flag => rthread_sema \/ cbAlarm \/ \E t \in Threads : Busy(t)
  /\ \A a \in Askers : a \in unfinished <=>
       \/ rthread_sema /\ cdread.who = a
       \/ \E t \in Threads : Performs(t) /\ rd[t].who = a

RegularCalls ==
  Regular => \A c \in Clients : pc[c] \notin SyncLabels \cup {"command"}

\* The event flag, in games that cannot take the drive between the two halves
\* of cdvdman_signal_read_end.
FlagClass == ~game.outranks /\ (Single \/ (Regular /\ Silent))
FlagRight ==
  /\ 1 \in intr_ef => unfinished = {}
  /\ pc[Reader] \in {"set", "stm_set"} => ~sync_flag
Flag == FlagClass => FlagRight

----------------------------------------------------------------------------
(* Streams of a single thread                                               *)

ReaderQuiet == pc[Reader] = "wait" /\ ~rthread_sema

\* A client ends a command or a read of its own, or it is about to take the
\* drive: nobody else has it.
Ends(c) ==
  \/ pc[c] \in {"command", "set", "resig", "reset", "start", "fill_go"}
  \/ pc[c] = "sig" /\ op[c] \in CommandOps

StLabels == {"fill", "fill_go", "st_test", "st_wait", "st_clear", "st_copy",
             "st_commit"}
StmLabels == {"stm_sig", "stm_set", "stm", "callback", "fill", "fill_go"}
Waits(c, O) == pc[c] \in {"sync", "sync_wait"} /\ op[c] \in O

StreamReader ==
  /\ ~user_cb /\ ~cbAlarm /\ ~stmAlarm
  /\ rthread_sema => pc[Reader] = "wait"
  /\ pc[Reader] \in {"set", "stm_set", "stm", "callback", "fill", "fill_go"}
       => ~sync_flag
  /\ pc[Reader] \in StmLabels => Stm0Callback
  /\ pc[Reader] = "fill_go" => StIsReading

StreamClient(c) ==
  /\ Busy(c) => ReaderQuiet
  /\ Ends(c) => ReaderQuiet /\ ~sync_flag
  /\ pc[c] = "start" \/ Waits(c, {"stop", "start"}) => ~StStat
  /\ op[c] \in ReadOps /\ pc[c] # "idle" => ~StStat
  /\ pc[c] \in StLabels => Stm0Callback
  /\ pc[c] = "fill_go" => StIsReading

StreamState ==
  /\ Stm0Callback => StStat
  /\ StIsReading => Stm0Callback
  /\ StStat /\ sync_flag /\ ~StIsReading =>
       \E c \in Clients : Waits(c, {"pause"})
  /\ ~StStat /\ sync_flag =>
       \/ \E c \in Clients : Waits(c, {"stop", "start"})
       \/ /\ rthread_sema => cdread.who \in Clients
          /\ Performs(Reader) => rd[Reader].who \in Clients

Streams ==
  Single => StreamReader /\ (\A c \in Clients : StreamClient(c)) /\ StreamState

----------------------------------------------------------------------------
(* The static buffers                                                       *)

Pending(r) ==
  \/ rthread_sema /\ r = cdread
  \/ \E t \in Threads : Performs(t) /\ r = rd[t]

\* A read into a static buffer is made by the holder of its semaphore, which
\* waits for it.
Buffers ==
  /\ \A r \in Read : Pending(r) /\ r.to \in {"toc", "fs"} =>
       /\ r.who \in Clients
       /\ pc[r.who] \in {"sync", "sync_wait", "dev"}
       /\ op[r.who] \in WaitingOps /\ Target(op[r.who]) = r.to
  /\ \A c \in Clients :
       op[c] \in WaitingOps /\ pc[c] \in {"event", "sig", "set", "resig", "reset",
                                          "sync", "sync_wait", "use"}
         => \/ holds[Target(op[c])] = c
            \/ /\ pc[c] \in {"sync", "sync_wait"}
               /\ \E r \in Read : Pending(r) /\ r.who = c /\ r.to = Target(op[c])

----------------------------------------------------------------------------
NoStream ==
  Silent => /\ StStreamed = 0 /\ StWritePtr = 0 /\ StReadPtr = 0
            /\ ~StStat /\ ~Stm0Callback /\ ~stmAlarm
            /\ pc[Reader] \notin StmLabels
            /\ \A c \in Clients : pc[c] \notin StLabels \cup {"start", "stop", "pause"}

Covered == Regular \/ Single

CoreInv ==
  /\ Types /\ Calls /\ Semaphores /\ RegularCalls /\ NoStream /\ Streams /\ Flag
  /\ Covered => Drive /\ Buffers


----------------------------------------------------------------------------
(* Arithmetic *)

LEMMA ModRange == ASSUME NEW a \in Int, NEW m \in Nat \ {0} PROVE a % m \in 0..(m - 1)
  OBVIOUS

LEMMA ModSmall == ASSUME NEW m \in Nat \ {0}, NEW a \in 0..(m - 1) PROVE a % m = a
  OBVIOUS

LEMMA ModOnce == ASSUME NEW m \in Nat \ {0}, NEW a \in m..(m + m - 1) PROVE a % m = a - m
  OBVIOUS

LEMMA ModUnique ==
  ASSUME NEW m \in Nat \ {0}, NEW k \in Int, NEW r \in 0..(m-1)
  PROVE (k * m + r) % m = r
  OBVIOUS

LEMMA ModDiv ==
  ASSUME NEW m \in Nat \ {0}, NEW a \in Int
  PROVE \E k \in Int : a = k * m + (a % m)
<1>1. (a \div m) \in Int /\ a = (a \div m) * m + (a % m)
  OBVIOUS
<1> QED
  BY <1>1

LEMMA ModShift ==
  ASSUME NEW m \in Nat \ {0}, NEW a \in Int, NEW k \in Int
  PROVE (a + k * m) % m = a % m
<1>1. PICK q \in Int : a = q * m + (a % m)
  BY ModDiv
<1>2. a % m \in 0..(m - 1) /\ q + k \in Int
  BY ModRange
<1>3. a + k * m = (q + k) * m + (a % m)
  BY <1>1, <1>2
<1>4. ((q + k) * m + (a % m)) % m = a % m
  BY <1>2, ModUnique, Zenon
<1> QED
  BY <1>1, <1>2, <1>3, <1>4

LEMMA ModSum ==
  ASSUME NEW m \in Nat \ {0}, NEW a \in Int, NEW b \in Int
  PROVE ((a % m) + b) % m = (a + b) % m
<1>1. PICK q \in Int : a = q * m + (a % m)
  BY ModDiv
<1>2. a % m \in Int /\ -q \in Int /\ a + b \in Int
  BY ModRange
<1>3. \A r \in Int : a = q * m + r => r + b = (a + b) + (-q) * m
  OBVIOUS
<1>4. ((a + b) + (-q) * m) % m = (a + b) % m
  BY <1>2, ModShift, Zenon
<1> QED
  BY <1>1, <1>2, <1>3, <1>4

LEMMA BufmaxPositive ==
  StBufmax \in Nat \ {0} /\ StBanksize \in Nat \ {0} /\ StBanksize <= StBufmax
  BY RingAssumption DEF StBufmax

\* Wherever the pointers are, a transfer is no longer than the ring.
LEMMA CopyableType ==
  ASSUME StWritePtr \in Sectors, StReadPtr \in Sectors, StStreamed \in Int,
         NEW n \in Nat
  PROVE  Copyable(n) \in 0..StBufmax
<1> USE BufmaxPositive DEF Sectors
<1>1. CASE StWritePtr <= StReadPtr /\ StStreamed > 0
  <2>1. ToEnd(n) = Min(StBufmax - StReadPtr, n)
    BY <1>1 DEF ToEnd
  <2>2. CASE n < StBufmax - StReadPtr
    BY <2>1, <2>2 DEF Copyable, Min, Wrap
  <2>3. CASE n >= StBufmax - StReadPtr
    BY <1>1, <2>1, <2>3 DEF Copyable, Min, Wrap
  <2> QED
    BY <2>2, <2>3
<1>2. CASE ~(StWritePtr <= StReadPtr /\ StStreamed > 0)
  <2>1. ToEnd(n) = 0
    BY <1>2 DEF ToEnd
  <2> QED
    BY <2>1 DEF Copyable, Min, Wrap
<1> QED
  BY <1>1, <1>2

----------------------------------------------------------------------------
(* Types *)

\* Where the threads are that an event flag lets go on.
Woken(t, from, label) ==
  \/ label = from
  \/ from = "sync_wait" /\ label = "sync"
  \/ from = "rdy_wait" /\ label = "rdy"
  \/ from = "ef_wait" /\ label = AfterEf(t)
  \/ from = "st_wait" /\ label = "st_clear"

LEMMA ReleasedWakes ==
  ASSUME NEW bits, NEW p
  PROVE  /\ Released(bits, p) \in [Threads -> {Released(bits, p)[t] : t \in Threads}]
         /\ \A t \in Threads : Woken(t, p[t], Released(bits, p)[t])
<1>1. \A t \in Threads : Woken(t, p[t], Released(bits, p)[t])
  BY DEF Released, Woken
<1>2. Released(bits, p) \in [Threads -> {Released(bits, p)[t] : t \in Threads}]
  BY DEF Released
<1> QED
  BY <1>1, <1>2

WaitLabels == {"sync_wait", "rdy_wait", "ef_wait", "st_wait"}

LEMMA SetEfMoves ==
  ASSUME Labels, NEW bits, NEW t \in Threads, NEW label, label \notin WaitLabels,
         SetEf(bits, t, label)
  PROVE  /\ pc' = [u \in Threads |-> pc'[u]]
         /\ pc'[t] = label
         /\ \A u \in Threads \ {t} : Woken(u, pc[u], pc'[u])
<1> DEFINE p == [pc EXCEPT ![t] = label]
<1>1. pc' = Released(bits, p)
  BY DEF SetEf
<1>2. /\ pc' \in [Threads -> {Released(bits, p)[u] : u \in Threads}]
      /\ \A u \in Threads : Woken(u, p[u], pc'[u])
  BY <1>1, ReleasedWakes
<1>3. p[t] = label /\ \A u \in Threads \ {t} : p[u] = pc[u]
  BY DEF Labels
<1> QED
  BY <1>2, <1>3 DEF Woken, WaitLabels

LEMMA SignalEfMoves ==
  ASSUME Labels, NEW t \in Threads, SignalEf(t)
  PROVE  /\ pc' = [u \in Threads |-> pc'[u]]
         /\ pc'[t] = AfterSignal(t)
         /\ \A u \in Threads \ {t} : Woken(u, pc[u], pc'[u])
<1>1. AfterSignal(t) \notin WaitLabels
  BY DEF AfterSignal, Accepted, WaitLabels
<1>2. SetEf(ReadEndBits, t, AfterSignal(t))
  BY DEF SignalEf
<1> QED
  BY <1>1, <1>2, SetEfMoves

LEMMA StReadMoves ==
  ASSUME Labels, NEW c \in Clients, NEW n, BeginStRead(c, n)
  PROVE  /\ pc' = [u \in Threads |-> pc'[u]]
         /\ pc'[c] = "st_test"
         /\ \A u \in Threads \ {c} : Woken(u, pc[u], pc'[u])
<1>1. c \in Threads /\ "st_test" \notin WaitLabels
  BY DEF WaitLabels, Threads
<1> QED
  BY <1>1, SetEfMoves DEF BeginStRead

LEMMA EventAlarmMoves ==
  ASSUME NEW again, EventAlarm(again)
  PROVE  /\ pc' = [u \in Threads |-> pc'[u]]
         /\ \A u \in Threads : Woken(u, pc[u], pc'[u])
  BY ReleasedWakes DEF EventAlarm

\* Woken threads are clients, and stay clients.
LEMMA WokenLabels ==
  ASSUME Labels
  PROVE  /\ \A label : Woken(Reader, pc[Reader], label) => label = pc[Reader]
         /\ \A c \in Clients : \A label :
              Woken(c, pc[c], label) => label \in ClientLabels
  BY DEF Labels, Woken, AfterEf, ReaderLabels, ClientLabels

LEMMA LabelsNext ==
  ASSUME Labels, Next
  PROVE  Labels'
<1>1. ASSUME NEW c \in Clients, NEW o \in ReadOps, BeginRead(c, o)
      PROVE  Labels'
  BY <1>1, NamesAssumption
     DEF BeginRead, Labels, Threads, ClientLabels, Goto, Ops, ReadOps, StreamOps,
         CommandOps, May, TakesIo, TakesSearch
<1>2. ASSUME NEW c \in Clients, BeginSync(c)
      PROVE  Labels'
  BY <1>2, NamesAssumption
     DEF BeginSync, Labels, Threads, ClientLabels, Goto, Ops, ReadOps, StreamOps,
         CommandOps, May
<1>3. ASSUME NEW c \in Clients, NEW o \in CommandOps, BeginCommand(c, o)
      PROVE  Labels'
  BY <1>3, NamesAssumption
     DEF BeginCommand, Labels, Threads, ClientLabels, Goto, Ops, ReadOps, StreamOps,
         CommandOps, May
<1>4. ASSUME NEW c \in Clients, BeginCallback(c)
      PROVE  Labels'
  BY <1>4, NamesAssumption
     DEF BeginCallback, Labels, Threads, ClientLabels, Goto, Ops, ReadOps,
         StreamOps, CommandOps, May
<1>5. ASSUME NEW c \in Clients, NEW o \in StreamOps, BeginHalt(c, o)
      PROVE  Labels'
  BY <1>5, NamesAssumption
     DEF BeginHalt, Labels, Threads, ClientLabels, Goto, Ops, ReadOps, StreamOps,
         CommandOps, May
<1>6. ASSUME NEW c \in Clients, BeginStart(c)
      PROVE  Labels'
  BY <1>6, NamesAssumption
     DEF BeginStart, Labels, Threads, ClientLabels, Goto, Ops, ReadOps, StreamOps,
         CommandOps, May
<1>7. ASSUME NEW c \in Clients, BeginResume(c)
      PROVE  Labels'
  BY <1>7, NamesAssumption
     DEF BeginResume, Labels, Threads, ClientLabels, Goto, Ops, ReadOps, StreamOps,
         CommandOps, May
<1>8. ASSUME NEW c \in Clients, NEW n \in game.counts, BeginStRead(c, n)
      PROVE  Labels'
  <2>1. op' \in [Clients -> Ops]
    BY <1>8 DEF BeginStRead, Labels, Ops, StreamOps
  <2>2. c # Reader /\ "st_test" \in ClientLabels
    BY NamesAssumption DEF ClientLabels
  <2> QED
    BY <1>8, <2>1, <2>2, StReadMoves, WokenLabels DEF Labels, Threads
<1>9. ASSUME NEW c \in Clients, LockIo(c)
      PROVE  Labels'
  BY <1>9, NamesAssumption DEF LockIo, Labels, Threads, ClientLabels, Goto
<1>10. ASSUME NEW c \in Clients, WaitEf(c)
      PROVE  Labels'
  BY <1>10, NamesAssumption DEF WaitEf, Labels, Threads, ClientLabels, Goto, AfterEf
<1>11. ASSUME NEW c \in Clients, LockSearch(c)
      PROVE  Labels'
  BY <1>11, NamesAssumption DEF LockSearch, Labels, Threads, ClientLabels, Goto
<1>12. ASSUME NEW c \in Clients, ReadAsync(c)
      PROVE  Labels'
  BY <1>12, NamesAssumption
     DEF ReadAsync, Labels, Threads, ClientLabels, Goto, Accepted
<1>13. ASSUME NEW c \in Clients, ReadSync(c)
      PROVE  Labels'
  BY <1>13, NamesAssumption
     DEF ReadSync, Labels, Threads, ClientLabels, Goto, Target, TakesSearch
<1>14. ASSUME NEW c \in Clients, ReadRefused(c)
      PROVE  Labels'
  BY <1>14, NamesAssumption DEF ReadRefused, Labels, Threads, ClientLabels, Goto
<1>15. ASSUME NEW c \in Clients, ReadAgain(c)
      PROVE  Labels'
  BY <1>15, NamesAssumption DEF ReadAgain, Labels, Threads, ClientLabels, Goto
<1>16. ASSUME NEW c \in Clients, SyncLoop(c)
      PROVE  Labels'
  BY <1>16, NamesAssumption
     DEF SyncLoop, Labels, Threads, ClientLabels, Goto, AfterSync
<1>17. ASSUME NEW c \in Clients, NEW more \in BOOLEAN, UseBuffer(c, more)
      PROVE  Labels'
  BY <1>17, NamesAssumption DEF UseBuffer, Labels, Threads, ClientLabels, Goto
<1>18. ASSUME NEW c \in Clients, NEW on \in BOOLEAN, SetCallback(c, on)
      PROVE  Labels'
  BY <1>18, NamesAssumption DEF SetCallback, Labels, Threads, ClientLabels, Goto
<1>19. ASSUME NEW c \in Clients, Halt(c)
      PROVE  Labels'
  BY <1>19, NamesAssumption DEF Halt, Labels, Threads, ClientLabels, Goto
<1>20. ASSUME NEW c \in Clients, NEW lsn \in Starts, StStart(c, lsn)
      PROVE  Labels'
  BY <1>20, NamesAssumption DEF StStart, Labels, Threads, ClientLabels, Goto
<1>21. ASSUME NEW c \in Clients, StReadWait(c)
      PROVE  Labels'
  BY <1>21, NamesAssumption DEF StReadWait, Labels, Threads, ClientLabels, Goto
<1>22. ASSUME NEW c \in Clients, StReadClear(c)
      PROVE  Labels'
  BY <1>22, NamesAssumption DEF StReadClear, Labels, Threads, ClientLabels, Goto
<1>23. ASSUME NEW c \in Clients, StReadCopy(c)
      PROVE  Labels'
  BY <1>23, NamesAssumption DEF StReadCopy, Labels, Threads, ClientLabels, Goto
<1>24. ASSUME NEW c \in Clients, StReadCommit(c)
      PROVE  Labels'
  BY <1>24, NamesAssumption DEF StReadCommit, Labels, Threads, ClientLabels, Goto
<1>25. ASSUME NEW t \in Threads, LockBuf(t)
      PROVE  Labels'
  <2>1. CASE t = Reader
    BY <1>25, <2>1, NamesAssumption DEF LockBuf, Labels, Threads, ReaderLabels, Goto
  <2>2. CASE t \in Clients
    BY <1>25, <2>2, NamesAssumption DEF LockBuf, Labels, Threads, ClientLabels, Goto
  <2> QED
    BY <2>1, <2>2 DEF Threads
<1>26. ASSUME NEW t \in Threads, CbEvent(t)
      PROVE  Labels'
  <2>1. CASE t = Reader
    BY <1>26, <2>1, NamesAssumption DEF CbEvent, Labels, Threads, ReaderLabels, Goto
  <2>2. CASE t \in Clients
    BY <1>26, <2>2, NamesAssumption DEF CbEvent, Labels, Threads, ClientLabels, Goto
  <2> QED
    BY <2>1, <2>2 DEF Threads
<1>27. ASSUME NEW t \in Threads, Signal(t)
      PROVE  Labels'
  <2>1. CASE t = Reader
    BY <1>27, <2>1, NamesAssumption DEF Signal, Labels, Threads, ReaderLabels, Goto
  <2>2. CASE t \in Clients
    BY <1>27, <2>2, NamesAssumption DEF Signal, Labels, Threads, ClientLabels, Goto
  <2> QED
    BY <2>1, <2>2 DEF Threads
<1>28. ASSUME NEW t \in Threads, SignalEf(t)
      PROVE  Labels'
  <2>1. t = Reader => AfterSignal(t) \in ReaderLabels
    BY <1>28 DEF SignalEf, AfterSignal, Labels, ReaderLabels
  <2>2. t \in Clients => AfterSignal(t) \in ClientLabels
    BY <1>28, NamesAssumption
       DEF SignalEf, AfterSignal, Accepted, Labels, ClientLabels
  <2>3. op' = op
    BY <1>28 DEF SignalEf
  <2> QED
    BY <1>28, <2>1, <2>2, <2>3, SignalEfMoves, WokenLabels DEF Labels, Threads
<1>29. ASSUME NEW t \in Threads, Fill(t)
      PROVE  Labels'
  <2>1. CASE t = Reader
    BY <1>29, <2>1, NamesAssumption
       DEF Fill, Labels, Threads, ReaderLabels, Goto, Returns
  <2>2. CASE t \in Clients
    BY <1>29, <2>2, NamesAssumption
       DEF Fill, Labels, Threads, ClientLabels, Goto, Returns
  <2> QED
    BY <2>1, <2>2 DEF Threads
<1>30. ASSUME NEW t \in Threads, FillGoes(t)
      PROVE  Labels'
  <2>1. CASE t = Reader
    BY <1>30, <2>1, NamesAssumption
       DEF FillGoes, Labels, Threads, ReaderLabels, Goto, Returns
  <2>2. CASE t \in Clients
    BY <1>30, <2>2, NamesAssumption
       DEF FillGoes, Labels, Threads, ClientLabels, Goto, Returns
  <2> QED
    BY <2>1, <2>2 DEF Threads
<1>31. ASSUME NEW t \in Threads, DeviceReads(t)
      PROVE  Labels'
  <2>1. CASE t = Reader
    BY <1>31, <2>1, NamesAssumption
       DEF DeviceReads, Labels, Threads, ReaderLabels, Goto
  <2>2. CASE t \in Clients
    BY <1>31, <2>2, NamesAssumption
       DEF DeviceReads, Labels, Threads, ClientLabels, Goto
  <2> QED
    BY <2>1, <2>2 DEF Threads
<1>32. ASSUME ReaderWakes
      PROVE  Labels'
  BY <1>32, NamesAssumption DEF ReaderWakes, Labels, Threads, ReaderLabels, Goto
<1>33. ASSUME ReaderDone
      PROVE  Labels'
  BY <1>33, NamesAssumption DEF ReaderDone, Labels, Threads, ReaderLabels, Goto
<1>34. ASSUME ReaderRechecks
      PROVE  Labels'
  BY <1>34, NamesAssumption DEF ReaderRechecks, Labels, Threads, ReaderLabels, Goto
<1>35. ASSUME StmCallback
      PROVE  Labels'
  BY <1>35, NamesAssumption DEF StmCallback, Labels, Threads, ReaderLabels, Goto
<1>36. ASSUME NEW again \in BOOLEAN, EventAlarm(again)
      PROVE  Labels'
  BY <1>36, EventAlarmMoves, WokenLabels DEF EventAlarm, Labels, Threads
<1>37. ASSUME StmSchedule
      PROVE  Labels'
  BY <1>37 DEF StmSchedule, Labels
<1> QED
  BY <1>1, <1>2, <1>3, <1>4, <1>5, <1>6, <1>7, <1>8, <1>9, <1>10, <1>11, <1>12,
     <1>13, <1>14, <1>15, <1>16, <1>17, <1>18, <1>19, <1>20, <1>21, <1>22, <1>23,
     <1>24, <1>25, <1>26, <1>27, <1>28, <1>29, <1>30, <1>31, <1>32, <1>33, <1>34,
     <1>35, <1>36, <1>37
     DEF Next, ClientCalls, ClientContinues, Shared, ReaderContinues, Interrupts,
         Threads

\* Steps that leave the drive, its buffers and the callback alone.
DriveIdle(c) ==
  \/ \E o \in ReadOps : BeginRead(c, o)
  \/ BeginSync(c) \/ BeginCallback(c) \/ BeginStart(c) \/ BeginResume(c)
  \/ \E o \in CommandOps : BeginCommand(c, o)
  \/ \E o \in StreamOps : BeginHalt(c, o)
  \/ WaitEf(c) \/ ReadAgain(c) \/ SyncLoop(c) \/ Halt(c)
  \/ \E lsn \in Starts : StStart(c, lsn)
  \/ StReadWait(c) \/ StReadCopy(c) \/ StReadCommit(c)

LEMMA DriveLeftAlone ==
  /\ \A c \in Clients : DriveIdle(c) => UNCHANGED <<lockVars, readVars, bufVars, cbVars>>
  /\ \A t \in Threads : Fill(t) => UNCHANGED <<lockVars, readVars, bufVars, cbVars>>
  /\ ReaderDone \/ ReaderRechecks \/ StmCallback
       => UNCHANGED <<lockVars, readVars, bufVars, cbVars>>
<1>1. ASSUME NEW c \in Clients, DriveIdle(c)
      PROVE  UNCHANGED <<lockVars, readVars, bufVars, cbVars>>
  BY <1>1 DEF DriveIdle, BeginRead, BeginSync, BeginCallback, BeginStart,
     BeginResume, BeginCommand, BeginHalt, WaitEf, ReadAgain, SyncLoop, Halt,
     StStart, StReadWait, StReadCopy, StReadCommit
<1>2. ASSUME NEW t \in Threads, Fill(t)
      PROVE  UNCHANGED <<lockVars, readVars, bufVars, cbVars>>
  BY <1>2 DEF Fill
<1>3. ASSUME ReaderDone \/ ReaderRechecks \/ StmCallback
      PROVE  UNCHANGED <<lockVars, readVars, bufVars, cbVars>>
  BY <1>3 DEF ReaderDone, ReaderRechecks, StmCallback
<1> QED
  BY <1>1, <1>2, <1>3

LEMMA ClientReadType ==
  ASSUME NEW c \in Clients
  PROVE  ClientRead(c) \in Read
<1>1. Target(op[c]) \in {"own", "unaligned", "toc", "fs"}
  BY DEF Target
<1>2. 0 \in Sectors /\ 0 \in Lsns
  BY BufmaxPositive, RingAssumption DEF Sectors, Lsns
<1> QED
  BY <1>1, <1>2 DEF ClientRead, Read, Askers

LEMMA BankReadType ==
  ASSUME StreamTypes, NEW at \in Sectors
  PROVE  BankRead(at) \in Read
  BY DEF BankRead, Read, Askers, StreamTypes

LEMMA NoReadType == NoRead \in Read
  BY BufmaxPositive, RingAssumption DEF NoRead, Read, Askers, Sectors, Lsns

LEMMA AcceptTypes ==
  ASSUME DriveTypes, NEW r \in Read, Accept(r),
         UNCHANGED <<rd, sema, user_cb, cbAlarm, holds>>
  PROVE  DriveTypes'
  BY DEF DriveTypes, Accept, Read

LEMMA DriveTypesNext ==
  ASSUME Types, Next
  PROVE  DriveTypes'
<1> USE DEF Types
<1>1. ASSUME UNCHANGED <<lockVars, readVars, bufVars, cbVars>>
      PROVE  DriveTypes'
  BY <1>1 DEF DriveTypes, lockVars, readVars, bufVars, cbVars
<1>2. ASSUME NEW c \in Clients, DriveIdle(c)
      PROVE  DriveTypes'
  BY <1>1, <1>2, DriveLeftAlone
<1>3. ASSUME NEW c \in Clients, NEW n \in game.counts, BeginStRead(c, n)
      PROVE  DriveTypes'
  BY <1>3 DEF BeginStRead, SetEf, DriveTypes, readVars, bufVars, cbVars
<1>4. ASSUME NEW c \in Clients, LockIo(c) \/ LockSearch(c) \/ ReadRefused(c)
      PROVE  DriveTypes'
  BY <1>4
     DEF LockIo, LockSearch, ReadRefused, DriveTypes, Threads, lockVars, readVars,
         cbVars
<1>5. ASSUME NEW c \in Clients, NEW more \in BOOLEAN, UseBuffer(c, more)
      PROVE  DriveTypes'
  BY <1>5 DEF UseBuffer, DriveTypes, lockVars, readVars, cbVars
<1>6. ASSUME NEW c \in Clients, ReadAsync(c)
      PROVE  DriveTypes'
  BY <1>6, ClientReadType, AcceptTypes DEF ReadAsync, bufVars, cbVars
<1>7. ASSUME NEW c \in Clients, ReadSync(c)
      PROVE  DriveTypes'
  BY <1>7, ClientReadType DEF ReadSync, DriveTypes, Askers, cbVars
<1>8. ASSUME NEW c \in Clients, NEW on \in BOOLEAN, SetCallback(c, on)
      PROVE  DriveTypes'
  BY <1>8 DEF SetCallback, DriveTypes, lockVars, readVars, bufVars
<1>9. ASSUME NEW c \in Clients, StReadClear(c)
      PROVE  DriveTypes'
  BY <1>9 DEF StReadClear, DriveTypes, readVars, bufVars, cbVars
<1>10. ASSUME NEW t \in Threads, LockBuf(t)
      PROVE  DriveTypes'
  BY <1>10 DEF LockBuf, DriveTypes, lockVars, readVars, cbVars
<1>11. ASSUME NEW t \in Threads, CbEvent(t) \/ Signal(t)
      PROVE  DriveTypes'
  BY <1>11
     DEF CbEvent, Signal, SignalUnlocks, DriveTypes, lockVars, readVars, bufVars,
         cbVars
<1>12. ASSUME NEW t \in Threads, SignalEf(t)
      PROVE  DriveTypes'
  BY <1>12 DEF SignalEf, SetEf, ReadEndBits, DriveTypes, readVars, bufVars, cbVars
<1>13. ASSUME NEW t \in Threads, Fill(t)
      PROVE  DriveTypes'
  BY <1>1, <1>13, DriveLeftAlone
<1>14. ASSUME NEW t \in Threads, FillGoes(t)
      PROVE  DriveTypes'
  <2>1. CASE ptr[t] # Full /\ ~sync_flag
    <3>1. ptr[t] \in Sectors
      BY <2>1 DEF StreamTypes
    <3> QED
      BY <1>14, <2>1, <3>1, BankReadType, AcceptTypes DEF FillGoes, bufVars, cbVars
  <2>2. CASE ~(ptr[t] # Full /\ ~sync_flag)
    BY <1>1, <1>14, <2>2 DEF FillGoes
  <2> QED
    BY <2>1, <2>2
<1>15. ASSUME NEW t \in Threads, DeviceReads(t)
      PROVE  DriveTypes'
  <2>1. rd[t] \in Read
    BY DEF DriveTypes
  <2>2. holds' \in [{"toc", "fs"} -> Askers \cup {Free}]
    BY <1>15, <2>1 DEF DeviceReads, DriveTypes, Read
  <2> QED
    BY <1>15, <2>1, <2>2 DEF DeviceReads, DriveTypes, lockVars, cbVars
<1>16. ASSUME ReaderWakes
      PROVE  DriveTypes'
  BY <1>16 DEF ReaderWakes, DriveTypes, Threads, lockVars, cbVars
<1>17. ASSUME ReaderDone \/ ReaderRechecks \/ StmCallback
      PROVE  DriveTypes'
  BY <1>1, <1>17, DriveLeftAlone
<1>18. ASSUME NEW again \in BOOLEAN, EventAlarm(again)
      PROVE  DriveTypes'
  BY <1>18, NoReadType DEF EventAlarm, DriveTypes, Askers, readVars, bufVars
<1>19. ASSUME StmSchedule
      PROVE  DriveTypes'
  <2>1. CASE ~StIsReading /\ Room /\ ~sync_flag
    BY <1>19, <2>1, BankReadType, AcceptTypes
    DEF StmSchedule, StreamTypes, bufVars, cbVars
  <2>2. CASE ~(~StIsReading /\ Room /\ ~sync_flag)
    BY <1>1, <1>19, <2>2 DEF StmSchedule
  <2> QED
    BY <2>1, <2>2
<1> QED
  BY <1>2, <1>3, <1>4, <1>5, <1>6, <1>7, <1>8, <1>9, <1>10, <1>11, <1>12, <1>13,
     <1>14, <1>15, <1>16, <1>17, <1>18, <1>19
  DEF Next, ClientCalls, ClientContinues, Shared, ReaderContinues, Interrupts,
      DriveIdle, Threads

\* Steps that leave the stream alone.
StreamIdle(c) ==
  \/ \E o \in ReadOps : BeginRead(c, o)
  \/ BeginSync(c) \/ BeginCallback(c) \/ BeginStart(c)
  \/ \E o \in CommandOps : BeginCommand(c, o)
  \/ LockIo(c) \/ WaitEf(c) \/ LockSearch(c)
  \/ ReadAsync(c) \/ ReadSync(c) \/ ReadRefused(c) \/ ReadAgain(c)
  \/ SyncLoop(c) \/ (\E more \in BOOLEAN : UseBuffer(c, more))
  \/ \E on \in BOOLEAN : SetCallback(c, on)
  \/ StReadWait(c) \/ StReadClear(c)

Signals(t) == LockBuf(t) \/ CbEvent(t) \/ Signal(t) \/ SignalEf(t)

LEMMA StreamLeftAlone ==
  /\ \A c \in Clients : StreamIdle(c) => UNCHANGED <<stVars, ringVars, localVars>>
  /\ \A t \in Threads : Signals(t) => UNCHANGED <<stVars, ringVars, localVars>>
  /\ ReaderWakes \/ ReaderDone \/ ReaderRechecks
       => UNCHANGED <<stVars, ringVars, localVars>>
  /\ \A again \in BOOLEAN : EventAlarm(again)
       => UNCHANGED <<stVars, ringVars, localVars>>
<1>1. ASSUME NEW c \in Clients, StreamIdle(c)
      PROVE  UNCHANGED <<stVars, ringVars, localVars>>
  BY <1>1 DEF StreamIdle, BeginRead, BeginSync, BeginCallback, BeginStart,
     BeginCommand, LockIo, WaitEf, LockSearch, ReadAsync, ReadSync, ReadRefused,
     ReadAgain, SyncLoop, UseBuffer, SetCallback, StReadWait, StReadClear
<1>2. ASSUME NEW t \in Threads, Signals(t)
      PROVE  UNCHANGED <<stVars, ringVars, localVars>>
  BY <1>2 DEF Signals, LockBuf, CbEvent, Signal, SignalEf
<1>3. ASSUME ReaderWakes \/ ReaderDone \/ ReaderRechecks
      PROVE  UNCHANGED <<stVars, ringVars, localVars>>
  BY <1>3 DEF ReaderWakes, ReaderDone, ReaderRechecks
<1>4. ASSUME NEW again \in BOOLEAN, EventAlarm(again)
      PROVE  UNCHANGED <<stVars, ringVars, localVars>>
  BY <1>4 DEF EventAlarm
<1> QED
  BY <1>1, <1>2, <1>3, <1>4

\* The pointers after a bank and after a transfer.
LEMMA WrapType ==
  ASSUME NEW p \in Sectors
  PROVE  Wrap(p + StBanksize) \in Sectors
  BY BufmaxPositive DEF Wrap, Sectors

LEMMA ReadPtrType ==
  ASSUME NEW p \in Sectors, NEW n \in 0..StBufmax
  PROVE  (p + n) % StBufmax \in Sectors
  BY BufmaxPositive, ModRange DEF Sectors

LEMMA LsnType ==
  ASSUME NEW a \in Int
  PROVE  a % LsnSpace \in Lsns
<1>1. LsnSpace \in Nat \ {0}
  BY BufmaxPositive, RingAssumption
<1> QED
  BY <1>1, ModRange DEF Lsns

LEMMA StreamTypesNext ==
  ASSUME Types, Next
  PROVE  StreamTypes'
<1> USE DEF Types
<1>1. ASSUME UNCHANGED <<stVars, ringVars, localVars>>
      PROVE  StreamTypes'
  BY <1>1 DEF StreamTypes, stVars, ringVars, localVars
<1>2. ASSUME NEW c \in Clients, StreamIdle(c)
      PROVE  StreamTypes'
  BY <1>1, <1>2, StreamLeftAlone
<1>3. ASSUME NEW c \in Clients, NEW o \in StreamOps, BeginHalt(c, o)
      PROVE  StreamTypes'
  BY <1>3 DEF BeginHalt, StreamTypes, ringVars, localVars
<1>4. ASSUME NEW c \in Clients, BeginResume(c)
      PROVE  StreamTypes'
  BY <1>4 DEF BeginResume, StreamTypes, ringVars, localVars
<1>5. ASSUME NEW c \in Clients, NEW n \in game.counts, BeginStRead(c, n)
      PROVE  StreamTypes'
  <2>1. n \in Nat
    BY GamesAssumption DEF Profile
  <2> QED
    BY <1>5, <2>1 DEF BeginStRead, StreamTypes, stVars, ringVars
<1>6. 0 \in Sectors
  BY BufmaxPositive DEF Sectors
<1>7. ASSUME NEW c \in Clients, Halt(c)
      PROVE  StreamTypes'
  <2>1. Stm0Callback' \in BOOLEAN /\ StStat' \in BOOLEAN /\ StIsReading' \in BOOLEAN
    BY <1>7, Zenon DEF Halt, Reset, StreamTypes
  <2>2. StWritePtr' \in Sectors /\ StReadPtr' \in Sectors /\ StStreamed' \in Int
    BY <1>6, <1>7 DEF Halt, Reset, StreamTypes
  <2> QED
    BY <1>7, <2>1, <2>2 DEF Halt, StreamTypes, localVars
<1>8. ASSUME NEW c \in Clients, NEW lsn \in Starts, StStart(c, lsn)
      PROVE  StreamTypes'
  <2>1. Stlsn' \in Lsns
    BY <1>8, RingAssumption DEF StStart
  <2>2. Stm0Callback' \in BOOLEAN /\ StStat' \in BOOLEAN /\ StIsReading' \in BOOLEAN
    BY <1>8, Zenon DEF StStart, Reset
  <2>3. StWritePtr' \in Sectors /\ StReadPtr' \in Sectors /\ StStreamed' \in Int
    BY <1>6, <1>8 DEF StStart, Reset
  <2> QED
    BY <1>8, <2>1, <2>2, <2>3 DEF StStart, StreamTypes, localVars
<1>9. ASSUME NEW c \in Clients, StReadCopy(c)
      PROVE  StreamTypes'
  <2>1. Copyable(left[c]) \in 0..StBufmax
    BY CopyableType DEF StreamTypes
  <2> QED
    BY <1>9, <2>1 DEF StReadCopy, StreamTypes, stVars, ringVars
<1>10. ASSUME NEW c \in Clients, StReadCommit(c)
      PROVE  StreamTypes'
  <2>1. copied[c] \in 0..StBufmax /\ copied[c] \in Int /\ left[c] \in Nat
    BY BufmaxPositive DEF StreamTypes
  <2>2. StReadPtr' \in Sectors
    BY <1>10, <2>1, ReadPtrType DEF StReadCommit, StreamTypes
  <2>3. StStreamed' \in Int
    BY <1>10, <2>1 DEF StReadCommit, StreamTypes
  <2>4. left' \in [Clients -> Nat]
    BY <1>10, <2>1 DEF StReadCommit, StreamTypes
  <2>5. copied' \in [Clients -> 0..StBufmax]
    BY <1>10, BufmaxPositive DEF StReadCommit, StreamTypes
  <2> QED
    BY <1>10, <2>2, <2>3, <2>4, <2>5 DEF StReadCommit, StreamTypes, stVars
<1>11. ASSUME NEW t \in Threads, Signals(t)
      PROVE  StreamTypes'
  BY <1>1, <1>11, StreamLeftAlone
<1>12. ASSUME NEW t \in Threads, Fill(t)
      PROVE  StreamTypes'
  <2>1. ptr' \in [Threads -> Sectors \cup {Full}]
    BY <1>12 DEF Fill, StreamTypes
  <2>2. stmAlarm' \in BOOLEAN /\ StIsReading' \in BOOLEAN
    BY <1>12 DEF Fill, StreamTypes
  <2> QED
    BY <1>12, <2>1, <2>2 DEF Fill, StreamTypes, ringVars
<1>13. ASSUME NEW t \in Threads, FillGoes(t)
      PROVE  StreamTypes'
  BY <1>13 DEF FillGoes, StreamTypes, ringVars
<1>14. ASSUME NEW t \in Threads, DeviceReads(t)
      PROVE  StreamTypes'
  <2>1. rd[t] \in Read /\ rd[t].lsn \in Int /\ rd[t].at \in Int
    BY BufmaxPositive, RingAssumption DEF DriveTypes, Read, Sectors, Lsns
  <2>2. \A s \in Sectors : (rd[t].lsn + s - rd[t].at) % LsnSpace \in Lsns
    BY <2>1, LsnType DEF Sectors
  <2>3. ring' \in [Sectors -> Lsns \cup {-1}]
    BY <1>14, <2>2 DEF DeviceReads, StreamTypes
  <2> QED
    BY <1>14, <2>3 DEF DeviceReads, StreamTypes, stVars, localVars
<1>15. ASSUME ReaderWakes \/ ReaderDone \/ ReaderRechecks
      PROVE  StreamTypes'
  BY <1>1, <1>15, StreamLeftAlone
<1>16. ASSUME StmCallback
      PROVE  StreamTypes'
  <2>1. Stlsn + StBanksize \in Int /\ StStreamed + StBanksize \in Int
    BY BufmaxPositive, RingAssumption DEF StreamTypes, Lsns
  <2>2. Wrap(StWritePtr + StBanksize) \in Sectors
    BY WrapType DEF StreamTypes
  <2>3. (Stlsn + StBanksize) % LsnSpace \in Lsns
    BY <2>1, LsnType
  <2> QED
    BY <1>16, <2>1, <2>2, <2>3 DEF StmCallback, StreamTypes, localVars
<1>17. ASSUME NEW again \in BOOLEAN, EventAlarm(again)
      PROVE  StreamTypes'
  BY <1>1, <1>17, StreamLeftAlone
<1>18. ASSUME StmSchedule
      PROVE  StreamTypes'
  BY <1>18 DEF StmSchedule, StreamTypes, Room, ringVars, localVars
<1> QED
  BY <1>2, <1>3, <1>4, <1>5, <1>7, <1>8, <1>9, <1>10, <1>11, <1>12, <1>13, <1>14,
     <1>15, <1>16, <1>17, <1>18
  DEF Next, ClientCalls, ClientContinues, Shared, ReaderContinues, Interrupts,
      StreamIdle, Signals, Threads

\* A behaviour is that of one game.
LEMMA GameFixed ==
  ASSUME Next
  PROVE  game' = game
<1>1. ASSUME NEW c \in Clients, ClientCalls(c)
      PROVE  game' = game
  BY <1>1
     DEF ClientCalls, BeginRead, BeginSync, BeginCommand, BeginCallback, BeginHalt,
         BeginStart, BeginResume, BeginStRead
<1>2. ASSUME NEW c \in Clients, ClientContinues(c)
      PROVE  game' = game
  BY <1>2 DEF ClientContinues, LockIo, WaitEf, LockSearch, ReadAsync, ReadSync,
     ReadRefused, ReadAgain, SyncLoop, UseBuffer, SetCallback, Halt, StStart,
     StReadWait, StReadClear, StReadCopy, StReadCommit
<1>3. ASSUME NEW t \in Threads, Shared(t) \/ DeviceReads(t)
      PROVE  game' = game
  BY <1>3
     DEF Shared, LockBuf, CbEvent, Signal, SignalEf, Fill, FillGoes, DeviceReads
<1>4. ASSUME ReaderWakes \/ ReaderDone \/ ReaderRechecks \/ StmCallback \/ Interrupts
      PROVE  game' = game
  BY <1>4 DEF ReaderWakes, ReaderDone, ReaderRechecks, StmCallback, Interrupts,
     EventAlarm, StmSchedule
<1> QED
  BY <1>1, <1>2, <1>3, <1>4 DEF Next, ReaderContinues, Threads

LEMMA TypesNext ==
  ASSUME Types, Next
  PROVE  Types'
  BY LabelsNext, DriveTypesNext, StreamTypesNext, GameFixed DEF Types

LEMMA TypesStutter ==
  ASSUME Types, UNCHANGED vars
  PROVE  Types'
  BY DEF Types, Labels, DriveTypes, StreamTypes, vars, lockVars, readVars, bufVars,
     cbVars, stVars, ringVars, localVars

LEMMA TypesInit ==
  ASSUME Init
  PROVE  Types
<1>1. Labels
  BY NamesAssumption
  DEF Init, Labels, Threads, ClientLabels, ReaderLabels, Ops
<1>2. DriveTypes
  BY NoReadType DEF Init, DriveTypes
<1>3. StreamTypes
  <2>1. 0 \in Sectors /\ 0 \in Lsns /\ 0 \in 0..StBufmax
    BY BufmaxPositive, RingAssumption DEF Sectors, Lsns
  <2>2. Stm0Callback \in BOOLEAN /\ StStat \in BOOLEAN /\ StIsReading \in BOOLEAN
        /\ stmAlarm \in BOOLEAN
    BY Zenon DEF Init
  <2>3. ptr \in [Threads -> Sectors \cup {Full}] /\ ring \in [Sectors -> Lsns \cup {-1}]
    BY DEF Init
  <2> QED
    BY <2>1, <2>2, <2>3 DEF Init, StreamTypes
<1> QED
  BY <1>1, <1>2, <1>3 DEF Init, Types

----------------------------------------------------------------------------
(* The functions, their labels and their semaphores *)

LEMMA CallsNext ==
  ASSUME Types, Calls, Next
  PROVE  Calls'
<1> USE DEF Types
<1>1. ASSUME NEW c \in Clients, NEW o \in ReadOps, BeginRead(c, o)
      PROVE  Calls'
  BY <1>1, NamesAssumption
     DEF BeginRead, Goto, Calls, Labels, Threads, TakesIo, TakesSearch, WaitingOps,
         Ops, ReadOps, StreamOps, CommandOps, May, TakesIo, TakesSearch
<1>2. ASSUME NEW c \in Clients, BeginSync(c)
      PROVE  Calls'
  BY <1>2, NamesAssumption
     DEF BeginSync, Goto, Calls, Labels, Threads, TakesIo, TakesSearch, WaitingOps,
         Ops, ReadOps, StreamOps, CommandOps, May
<1>3. ASSUME NEW c \in Clients, NEW o \in CommandOps, BeginCommand(c, o)
      PROVE  Calls'
  BY <1>3, NamesAssumption
     DEF BeginCommand, Goto, Calls, Labels, Threads, TakesIo, TakesSearch,
         WaitingOps, Ops, ReadOps, StreamOps, CommandOps, May
<1>4. ASSUME NEW c \in Clients, BeginCallback(c)
      PROVE  Calls'
  BY <1>4, NamesAssumption
     DEF BeginCallback, Goto, Calls, Labels, Threads, TakesIo, TakesSearch,
         WaitingOps, Ops, ReadOps, StreamOps, CommandOps, May
<1>5. ASSUME NEW c \in Clients, NEW o \in StreamOps, BeginHalt(c, o)
      PROVE  Calls'
  BY <1>5, NamesAssumption
     DEF BeginHalt, Goto, Calls, Labels, Threads, TakesIo, TakesSearch, WaitingOps,
         Ops, ReadOps, StreamOps, CommandOps, May
<1>6. ASSUME NEW c \in Clients, BeginStart(c)
      PROVE  Calls'
  BY <1>6, NamesAssumption
     DEF BeginStart, Goto, Calls, Labels, Threads, TakesIo, TakesSearch, WaitingOps,
         Ops, ReadOps, StreamOps, CommandOps, May
<1>7. ASSUME NEW c \in Clients, BeginResume(c)
      PROVE  Calls'
  BY <1>7, NamesAssumption
     DEF BeginResume, Goto, Calls, Labels, Threads, TakesIo, TakesSearch,
         WaitingOps, Ops, ReadOps, StreamOps, CommandOps, May
<1>8. ASSUME NEW c \in Clients, NEW n \in game.counts, BeginStRead(c, n)
      PROVE  Calls'
  <2>1. op' = [op EXCEPT ![c] = "stread"] /\ "stread" \in game.ops[c] /\ game' = game
    BY <1>8 DEF BeginStRead, May
  <2> QED
    BY <1>8, <2>1, StReadMoves
       DEF Calls, Labels, Threads, TakesIo, TakesSearch, WaitingOps, Ops, ReadOps,
           StreamOps, CommandOps, Woken, AfterEf
<1>9. ASSUME NEW c \in Clients, LockIo(c)
      PROVE  Calls'
  BY <1>9, NamesAssumption
     DEF LockIo, Goto, Calls, Labels, Threads, TakesIo, TakesSearch, WaitingOps,
         Ops, ReadOps, StreamOps, CommandOps
<1>10. ASSUME NEW c \in Clients, WaitEf(c)
      PROVE  Calls'
  BY <1>10, NamesAssumption
     DEF WaitEf, Goto, Calls, Labels, Threads, TakesIo, TakesSearch, WaitingOps,
         Ops, ReadOps, StreamOps, CommandOps, AfterEf
<1>11. ASSUME NEW c \in Clients, LockSearch(c)
      PROVE  Calls'
  BY <1>11, NamesAssumption
     DEF LockSearch, Goto, Calls, Labels, Threads, TakesIo, TakesSearch, WaitingOps,
         Ops, ReadOps, StreamOps, CommandOps
<1>12. ASSUME NEW c \in Clients, ReadAsync(c)
      PROVE  Calls'
  BY <1>12, NamesAssumption
     DEF ReadAsync, Goto, Calls, Labels, Threads, TakesIo, TakesSearch, WaitingOps,
         Ops, ReadOps, StreamOps, CommandOps, Accepted
<1>13. ASSUME NEW c \in Clients, ReadSync(c)
      PROVE  Calls'
  BY <1>13, NamesAssumption
     DEF ReadSync, Goto, Calls, Labels, Threads, TakesIo, TakesSearch, WaitingOps,
         Ops, ReadOps, StreamOps, CommandOps, Target, TakesSearch
<1>14. ASSUME NEW c \in Clients, ReadRefused(c)
      PROVE  Calls'
  BY <1>14, NamesAssumption
     DEF ReadRefused, Goto, Calls, Labels, Threads, TakesIo, TakesSearch,
         WaitingOps, Ops, ReadOps, StreamOps, CommandOps
<1>15. ASSUME NEW c \in Clients, ReadAgain(c)
      PROVE  Calls'
  BY <1>15, NamesAssumption
     DEF ReadAgain, Goto, Calls, Labels, Threads, TakesIo, TakesSearch, WaitingOps,
         Ops, ReadOps, StreamOps, CommandOps
<1>16. ASSUME NEW c \in Clients, SyncLoop(c)
      PROVE  Calls'
  BY <1>16, NamesAssumption
     DEF SyncLoop, Goto, Calls, Labels, Threads, TakesIo, TakesSearch, WaitingOps,
         Ops, ReadOps, StreamOps, CommandOps, AfterSync
<1>17. ASSUME NEW c \in Clients, NEW more \in BOOLEAN, UseBuffer(c, more)
      PROVE  Calls'
  BY <1>17, NamesAssumption
     DEF UseBuffer, Goto, Calls, Labels, Threads, TakesIo, TakesSearch, WaitingOps,
         Ops, ReadOps, StreamOps, CommandOps
<1>18. ASSUME NEW c \in Clients, NEW on \in BOOLEAN, SetCallback(c, on)
      PROVE  Calls'
  BY <1>18, NamesAssumption
     DEF SetCallback, Goto, Calls, Labels, Threads, TakesIo, TakesSearch,
         WaitingOps, Ops, ReadOps, StreamOps, CommandOps
<1>19. ASSUME NEW c \in Clients, Halt(c)
      PROVE  Calls'
  BY <1>19, NamesAssumption
     DEF Halt, Goto, Calls, Labels, Threads, TakesIo, TakesSearch, WaitingOps, Ops,
         ReadOps, StreamOps, CommandOps
<1>20. ASSUME NEW c \in Clients, NEW lsn \in Starts, StStart(c, lsn)
      PROVE  Calls'
  BY <1>20, NamesAssumption
     DEF StStart, Goto, Calls, Labels, Threads, TakesIo, TakesSearch, WaitingOps,
         Ops, ReadOps, StreamOps, CommandOps
<1>21. ASSUME NEW c \in Clients, StReadWait(c)
      PROVE  Calls'
  BY <1>21, NamesAssumption
     DEF StReadWait, Goto, Calls, Labels, Threads, TakesIo, TakesSearch, WaitingOps,
         Ops, ReadOps, StreamOps, CommandOps
<1>22. ASSUME NEW c \in Clients, StReadClear(c)
      PROVE  Calls'
  BY <1>22, NamesAssumption
     DEF StReadClear, Goto, Calls, Labels, Threads, TakesIo, TakesSearch,
         WaitingOps, Ops, ReadOps, StreamOps, CommandOps
<1>23. ASSUME NEW c \in Clients, StReadCopy(c)
      PROVE  Calls'
  BY <1>23, NamesAssumption
     DEF StReadCopy, Goto, Calls, Labels, Threads, TakesIo, TakesSearch, WaitingOps,
         Ops, ReadOps, StreamOps, CommandOps
<1>24. ASSUME NEW c \in Clients, StReadCommit(c)
      PROVE  Calls'
  BY <1>24, NamesAssumption
     DEF StReadCommit, Goto, Calls, Labels, Threads, TakesIo, TakesSearch,
         WaitingOps, Ops, ReadOps, StreamOps, CommandOps
<1>25. ASSUME NEW t \in Threads, LockBuf(t)
      PROVE  Calls'
  BY <1>25, NamesAssumption
     DEF LockBuf, Goto, Calls, Labels, Threads, TakesIo, TakesSearch, WaitingOps,
         Ops, ReadOps, StreamOps, CommandOps
<1>26. ASSUME NEW t \in Threads, CbEvent(t)
      PROVE  Calls'
  BY <1>26, NamesAssumption
     DEF CbEvent, Goto, Calls, Labels, Threads, TakesIo, TakesSearch, WaitingOps,
         Ops, ReadOps, StreamOps, CommandOps
<1>27. ASSUME NEW t \in Threads, Signal(t)
      PROVE  Calls'
  BY <1>27, NamesAssumption
     DEF Signal, Goto, Calls, Labels, Threads, TakesIo, TakesSearch, WaitingOps,
         Ops, ReadOps, StreamOps, CommandOps
<1>28. ASSUME NEW t \in Threads, SignalEf(t)
      PROVE  Calls'
  <2>1. op' = op /\ game' = game /\ pc[t] \in {"set", "stm_set", "reset"}
    BY <1>28 DEF SignalEf
  <2>2. t \in Clients => pc[t] # "stm_set"
    BY DEF Labels, ClientLabels
  <2> QED
    BY <1>28, <2>1, <2>2, SignalEfMoves, NamesAssumption
       DEF Calls, Labels, Threads, TakesIo, TakesSearch, WaitingOps, Ops, ReadOps,
           StreamOps, CommandOps, Woken, AfterEf, AfterSignal, Accepted
<1>29. ASSUME NEW t \in Threads, Fill(t)
      PROVE  Calls'
  BY <1>29, NamesAssumption
     DEF Fill, Goto, Calls, Labels, Threads, TakesIo, TakesSearch, WaitingOps, Ops,
         ReadOps, StreamOps, CommandOps, Returns
<1>30. ASSUME NEW t \in Threads, FillGoes(t)
      PROVE  Calls'
  BY <1>30, NamesAssumption
     DEF FillGoes, Goto, Calls, Labels, Threads, TakesIo, TakesSearch, WaitingOps,
         Ops, ReadOps, StreamOps, CommandOps, Returns
<1>31. ASSUME NEW t \in Threads, DeviceReads(t)
      PROVE  Calls'
  BY <1>31, NamesAssumption
     DEF DeviceReads, Goto, Calls, Labels, Threads, TakesIo, TakesSearch,
         WaitingOps, Ops, ReadOps, StreamOps, CommandOps
<1>32. ASSUME ReaderWakes
      PROVE  Calls'
  BY <1>32, NamesAssumption
     DEF ReaderWakes, Goto, Calls, Labels, Threads, TakesIo, TakesSearch,
         WaitingOps, Ops, ReadOps, StreamOps, CommandOps
<1>33. ASSUME ReaderDone
      PROVE  Calls'
  BY <1>33, NamesAssumption
     DEF ReaderDone, Goto, Calls, Labels, Threads, TakesIo, TakesSearch, WaitingOps,
         Ops, ReadOps, StreamOps, CommandOps
<1>34. ASSUME ReaderRechecks
      PROVE  Calls'
  BY <1>34, NamesAssumption
     DEF ReaderRechecks, Goto, Calls, Labels, Threads, TakesIo, TakesSearch,
         WaitingOps, Ops, ReadOps, StreamOps, CommandOps
<1>35. ASSUME StmCallback
      PROVE  Calls'
  BY <1>35, NamesAssumption
     DEF StmCallback, Goto, Calls, Labels, Threads, TakesIo, TakesSearch,
         WaitingOps, Ops, ReadOps, StreamOps, CommandOps
<1>36. ASSUME NEW again \in BOOLEAN, EventAlarm(again)
      PROVE  Calls'
  <2>1. op' = op /\ game' = game
    BY <1>36 DEF EventAlarm
  <2> QED
    BY <1>36, <2>1, EventAlarmMoves
       DEF Calls, Labels, Threads, TakesIo, TakesSearch, WaitingOps, Ops, ReadOps,
           StreamOps, CommandOps, Woken, AfterEf
<1>37. ASSUME StmSchedule
      PROVE  Calls'
  BY <1>37 DEF StmSchedule, Calls
<1> QED
  BY <1>1, <1>2, <1>3, <1>4, <1>5, <1>6, <1>7, <1>8, <1>9, <1>10, <1>11, <1>12,
     <1>13, <1>14, <1>15, <1>16, <1>17, <1>18, <1>19, <1>20, <1>21, <1>22, <1>23,
     <1>24, <1>25, <1>26, <1>27, <1>28, <1>29, <1>30, <1>31, <1>32, <1>33, <1>34,
     <1>35, <1>36, <1>37
     DEF Next, ClientCalls, ClientContinues, Shared, ReaderContinues, Interrupts,
         Threads

LEMMA SemaphoresNext ==
  ASSUME Types, Calls, Semaphores, Next
  PROVE  Semaphores'
<1> USE DEF Types
<1>1. ASSUME NEW c \in Clients, NEW o \in ReadOps, BeginRead(c, o)
      PROVE  Semaphores'
  BY <1>1, NamesAssumption
     DEF BeginRead, Goto, Semaphores, Calls, Labels, DriveTypes, Threads, TakesIo,
         TakesSearch, WaitingOps, ClientRead, Ops, ReadOps, StreamOps, CommandOps,
         bufVars, May, TakesIo, TakesSearch
<1>2. ASSUME NEW c \in Clients, BeginSync(c)
      PROVE  Semaphores'
  BY <1>2, NamesAssumption
     DEF BeginSync, Goto, Semaphores, Calls, Labels, DriveTypes, Threads, TakesIo,
         TakesSearch, WaitingOps, ClientRead, Ops, ReadOps, StreamOps, CommandOps,
         bufVars, May
<1>3. ASSUME NEW c \in Clients, NEW o \in CommandOps, BeginCommand(c, o)
      PROVE  Semaphores'
  BY <1>3, NamesAssumption
     DEF BeginCommand, Goto, Semaphores, Calls, Labels, DriveTypes, Threads,
         TakesIo, TakesSearch, WaitingOps, ClientRead, Ops, ReadOps, StreamOps,
         CommandOps, bufVars, May
<1>4. ASSUME NEW c \in Clients, BeginCallback(c)
      PROVE  Semaphores'
  BY <1>4, NamesAssumption
     DEF BeginCallback, Goto, Semaphores, Calls, Labels, DriveTypes, Threads,
         TakesIo, TakesSearch, WaitingOps, ClientRead, Ops, ReadOps, StreamOps,
         CommandOps, bufVars, May
<1>5. ASSUME NEW c \in Clients, NEW o \in StreamOps, BeginHalt(c, o)
      PROVE  Semaphores'
  BY <1>5, NamesAssumption
     DEF BeginHalt, Goto, Semaphores, Calls, Labels, DriveTypes, Threads, TakesIo,
         TakesSearch, WaitingOps, ClientRead, Ops, ReadOps, StreamOps, CommandOps,
         bufVars, May
<1>6. ASSUME NEW c \in Clients, BeginStart(c)
      PROVE  Semaphores'
  BY <1>6, NamesAssumption
     DEF BeginStart, Goto, Semaphores, Calls, Labels, DriveTypes, Threads, TakesIo,
         TakesSearch, WaitingOps, ClientRead, Ops, ReadOps, StreamOps, CommandOps,
         bufVars, May
<1>7. ASSUME NEW c \in Clients, BeginResume(c)
      PROVE  Semaphores'
  BY <1>7, NamesAssumption
     DEF BeginResume, Goto, Semaphores, Calls, Labels, DriveTypes, Threads, TakesIo,
         TakesSearch, WaitingOps, ClientRead, Ops, ReadOps, StreamOps, CommandOps,
         bufVars, May
<1>8. ASSUME NEW c \in Clients, NEW n \in game.counts, BeginStRead(c, n)
      PROVE  Semaphores'
  <2>1. op' = [op EXCEPT ![c] = "stread"] /\ pc[c] = "idle" /\ UNCHANGED bufVars
    BY <1>8 DEF BeginStRead, May
  <2> QED
    BY <1>8, <2>1, StReadMoves, NamesAssumption
       DEF Semaphores, Calls, Labels, DriveTypes, Threads, TakesIo, TakesSearch,
           WaitingOps, ClientRead, Ops, ReadOps, StreamOps, CommandOps, Woken,
           AfterEf, bufVars
<1>9. ASSUME NEW c \in Clients, LockIo(c)
      PROVE  Semaphores'
  BY <1>9, NamesAssumption
     DEF LockIo, Goto, Semaphores, Calls, Labels, DriveTypes, Threads, TakesIo,
         TakesSearch, WaitingOps, ClientRead, Ops, ReadOps, StreamOps, CommandOps,
         bufVars
<1>10. ASSUME NEW c \in Clients, WaitEf(c)
      PROVE  Semaphores'
  BY <1>10, NamesAssumption
     DEF WaitEf, Goto, Semaphores, Calls, Labels, DriveTypes, Threads, TakesIo,
         TakesSearch, WaitingOps, ClientRead, Ops, ReadOps, StreamOps, CommandOps,
         bufVars, AfterEf
<1>11. ASSUME NEW c \in Clients, LockSearch(c)
      PROVE  Semaphores'
  BY <1>11, NamesAssumption
     DEF LockSearch, Goto, Semaphores, Calls, Labels, DriveTypes, Threads, TakesIo,
         TakesSearch, WaitingOps, ClientRead, Ops, ReadOps, StreamOps, CommandOps,
         bufVars, Free, Reader
<1>12. ASSUME NEW c \in Clients, ReadAsync(c)
      PROVE  Semaphores'
  BY <1>12, NamesAssumption
     DEF ReadAsync, Goto, Semaphores, Calls, Labels, DriveTypes, Threads, TakesIo,
         TakesSearch, WaitingOps, ClientRead, Ops, ReadOps, StreamOps, CommandOps,
         bufVars, Accepted
<1>13. ASSUME NEW c \in Clients, ReadSync(c)
      PROVE  Semaphores'
  BY <1>13, NamesAssumption
     DEF ReadSync, Goto, Semaphores, Calls, Labels, DriveTypes, Threads, TakesIo,
         TakesSearch, WaitingOps, ClientRead, Ops, ReadOps, StreamOps, CommandOps,
         bufVars, Target, TakesSearch
<1>14. ASSUME NEW c \in Clients, ReadRefused(c)
      PROVE  Semaphores'
  BY <1>14, NamesAssumption
     DEF ReadRefused, Goto, Semaphores, Calls, Labels, DriveTypes, Threads, TakesIo,
         TakesSearch, WaitingOps, ClientRead, Ops, ReadOps, StreamOps, CommandOps,
         bufVars, Target
<1>15. ASSUME NEW c \in Clients, ReadAgain(c)
      PROVE  Semaphores'
  BY <1>15, NamesAssumption
     DEF ReadAgain, Goto, Semaphores, Calls, Labels, DriveTypes, Threads, TakesIo,
         TakesSearch, WaitingOps, ClientRead, Ops, ReadOps, StreamOps, CommandOps,
         bufVars
<1>16. ASSUME NEW c \in Clients, SyncLoop(c)
      PROVE  Semaphores'
  BY <1>16, NamesAssumption
     DEF SyncLoop, Goto, Semaphores, Calls, Labels, DriveTypes, Threads, TakesIo,
         TakesSearch, WaitingOps, ClientRead, Ops, ReadOps, StreamOps, CommandOps,
         bufVars, AfterSync
<1>17. ASSUME NEW c \in Clients, NEW more \in BOOLEAN, UseBuffer(c, more)
      PROVE  Semaphores'
  BY <1>17, NamesAssumption
     DEF UseBuffer, Goto, Semaphores, Calls, Labels, DriveTypes, Threads, TakesIo,
         TakesSearch, WaitingOps, ClientRead, Ops, ReadOps, StreamOps, CommandOps,
         bufVars
<1>18. ASSUME NEW c \in Clients, NEW on \in BOOLEAN, SetCallback(c, on)
      PROVE  Semaphores'
  BY <1>18, NamesAssumption
     DEF SetCallback, Goto, Semaphores, Calls, Labels, DriveTypes, Threads, TakesIo,
         TakesSearch, WaitingOps, ClientRead, Ops, ReadOps, StreamOps, CommandOps,
         bufVars
<1>19. ASSUME NEW c \in Clients, Halt(c)
      PROVE  Semaphores'
  BY <1>19, NamesAssumption
     DEF Halt, Goto, Semaphores, Calls, Labels, DriveTypes, Threads, TakesIo,
         TakesSearch, WaitingOps, ClientRead, Ops, ReadOps, StreamOps, CommandOps,
         bufVars
<1>20. ASSUME NEW c \in Clients, NEW lsn \in Starts, StStart(c, lsn)
      PROVE  Semaphores'
  BY <1>20, NamesAssumption
     DEF StStart, Goto, Semaphores, Calls, Labels, DriveTypes, Threads, TakesIo,
         TakesSearch, WaitingOps, ClientRead, Ops, ReadOps, StreamOps, CommandOps,
         bufVars
<1>21. ASSUME NEW c \in Clients, StReadWait(c)
      PROVE  Semaphores'
  BY <1>21, NamesAssumption
     DEF StReadWait, Goto, Semaphores, Calls, Labels, DriveTypes, Threads, TakesIo,
         TakesSearch, WaitingOps, ClientRead, Ops, ReadOps, StreamOps, CommandOps,
         bufVars
<1>22. ASSUME NEW c \in Clients, StReadClear(c)
      PROVE  Semaphores'
  BY <1>22, NamesAssumption
     DEF StReadClear, Goto, Semaphores, Calls, Labels, DriveTypes, Threads, TakesIo,
         TakesSearch, WaitingOps, ClientRead, Ops, ReadOps, StreamOps, CommandOps,
         bufVars
<1>23. ASSUME NEW c \in Clients, StReadCopy(c)
      PROVE  Semaphores'
  BY <1>23, NamesAssumption
     DEF StReadCopy, Goto, Semaphores, Calls, Labels, DriveTypes, Threads, TakesIo,
         TakesSearch, WaitingOps, ClientRead, Ops, ReadOps, StreamOps, CommandOps,
         bufVars
<1>24. ASSUME NEW c \in Clients, StReadCommit(c)
      PROVE  Semaphores'
  BY <1>24, NamesAssumption
     DEF StReadCommit, Goto, Semaphores, Calls, Labels, DriveTypes, Threads,
         TakesIo, TakesSearch, WaitingOps, ClientRead, Ops, ReadOps, StreamOps,
         CommandOps, bufVars
<1>25. ASSUME NEW t \in Threads, LockBuf(t)
      PROVE  Semaphores'
  BY <1>25, NamesAssumption
     DEF LockBuf, Goto, Semaphores, Calls, Labels, DriveTypes, Threads, TakesIo,
         TakesSearch, WaitingOps, ClientRead, Ops, ReadOps, StreamOps, CommandOps,
         bufVars, Free, Reader, Target
<1>26. ASSUME NEW t \in Threads, CbEvent(t)
      PROVE  Semaphores'
  BY <1>26, NamesAssumption
     DEF CbEvent, Goto, Semaphores, Calls, Labels, DriveTypes, Threads, TakesIo,
         TakesSearch, WaitingOps, ClientRead, Ops, ReadOps, StreamOps, CommandOps,
         bufVars
<1>27. ASSUME NEW t \in Threads, Signal(t)
      PROVE  Semaphores'
  BY <1>27, NamesAssumption
     DEF Signal, Goto, Semaphores, Calls, Labels, DriveTypes, Threads, TakesIo,
         TakesSearch, WaitingOps, ClientRead, Ops, ReadOps, StreamOps, CommandOps,
         bufVars
<1>28. ASSUME NEW t \in Threads, SignalEf(t)
      PROVE  Semaphores'
  <2>1. op' = op /\ UNCHANGED bufVars /\ pc[t] \in {"set", "stm_set", "reset"}
    BY <1>28 DEF SignalEf
  <2>2. t \in Clients => pc[t] # "stm_set"
    BY DEF Labels, ClientLabels
  <2> QED
    BY <1>28, <2>1, <2>2, SignalEfMoves, NamesAssumption
       DEF Semaphores, Calls, Labels, DriveTypes, Threads, TakesIo, TakesSearch,
           WaitingOps, ClientRead, Ops, ReadOps, StreamOps, CommandOps, Woken,
           AfterEf, AfterSignal, Accepted, bufVars
<1>29. ASSUME NEW t \in Threads, Fill(t)
      PROVE  Semaphores'
  BY <1>29, NamesAssumption
     DEF Fill, Goto, Semaphores, Calls, Labels, DriveTypes, Threads, TakesIo,
         TakesSearch, WaitingOps, ClientRead, Ops, ReadOps, StreamOps, CommandOps,
         bufVars, Returns
<1>30. ASSUME NEW t \in Threads, FillGoes(t)
      PROVE  Semaphores'
  BY <1>30, NamesAssumption
     DEF FillGoes, Goto, Semaphores, Calls, Labels, DriveTypes, Threads, TakesIo,
         TakesSearch, WaitingOps, ClientRead, Ops, ReadOps, StreamOps, CommandOps,
         bufVars, Returns
<1>31. ASSUME NEW t \in Threads, DeviceReads(t)
      PROVE  Semaphores'
  <2>1. /\ rd' = rd /\ op' = op /\ pc[t] = "dev"
        /\ sema' = IF rd[t].to = "unaligned" THEN [sema EXCEPT !["search"] = Free] ELSE sema
        /\ pc' = [pc EXCEPT ![t] = IF t = Reader THEN "done" ELSE "event"]
    BY <1>31 DEF DeviceReads, Goto
  <2>2. rd[t].to = "unaligned" => sema["search"] = t
    BY <2>1 DEF Semaphores
  <2>3. ASSUME NEW c \in Clients, TakesSearch(op[c]), c = t
        PROVE  rd[t].to # "unaligned"
    <3>1. rd[c] = ClientRead(c)
      BY <2>1, <2>3 DEF Semaphores
    <3>2. Target(op[c]) = "toc"
      BY <2>3 DEF Target, TakesSearch
    <3> QED
      BY <2>3, <3>1, <3>2 DEF ClientRead
  <2>4. sema'["io"] = sema["io"] /\ (rd[t].to # "unaligned" => sema' = sema)
    BY <2>1 DEF DriveTypes
  <2>5. /\ \A u \in Threads \ {t} : pc'[u] = pc[u]
        /\ pc'[t] \in {"done", "event"} /\ (t \in Clients => pc'[t] = "event")
    BY <2>1, NamesAssumption DEF Labels
  <2>6. \A c \in Clients : c \in Threads
    BY DEF Threads
  <2>7. ASSUME NEW c \in Clients
        PROVE  /\ TakesIo(op[c]) /\ pc'[c] \notin {"idle", "io"} => sema'["io"] = c
               /\ TakesSearch(op[c]) /\ pc'[c] \notin {"idle", "io", "ef", "ef_wait", "search"}
                    => sema'["search"] = c
               /\ pc'[c] \in {"lock", "dev"} => rd[c] = ClientRead(c)
    BY <2>1, <2>2, <2>3, <2>4, <2>5, <2>6 DEF Semaphores
  <2>8. ASSUME NEW u \in Threads
        PROVE  /\ pc'[u] = "dev" /\ rd[u].to = "unaligned" => sema'["search"] = u
               /\ pc'[u] = "lock" => rd[u].to = "unaligned"
    BY <2>1, <2>2, <2>4, <2>5 DEF Semaphores
  <2> QED
    BY <2>1, <2>7, <2>8 DEF Semaphores, ClientRead
<1>32. ASSUME ReaderWakes
      PROVE  Semaphores'
  BY <1>32, NamesAssumption
     DEF ReaderWakes, Goto, Semaphores, Calls, Labels, DriveTypes, Threads, TakesIo,
         TakesSearch, WaitingOps, ClientRead, Ops, ReadOps, StreamOps, CommandOps,
         bufVars
<1>33. ASSUME ReaderDone
      PROVE  Semaphores'
  BY <1>33, NamesAssumption
     DEF ReaderDone, Goto, Semaphores, Calls, Labels, DriveTypes, Threads, TakesIo,
         TakesSearch, WaitingOps, ClientRead, Ops, ReadOps, StreamOps, CommandOps,
         bufVars
<1>34. ASSUME ReaderRechecks
      PROVE  Semaphores'
  BY <1>34, NamesAssumption
     DEF ReaderRechecks, Goto, Semaphores, Calls, Labels, DriveTypes, Threads,
         TakesIo, TakesSearch, WaitingOps, ClientRead, Ops, ReadOps, StreamOps,
         CommandOps, bufVars
<1>35. ASSUME StmCallback
      PROVE  Semaphores'
  BY <1>35, NamesAssumption
     DEF StmCallback, Goto, Semaphores, Calls, Labels, DriveTypes, Threads, TakesIo,
         TakesSearch, WaitingOps, ClientRead, Ops, ReadOps, StreamOps, CommandOps,
         bufVars
<1>36. ASSUME NEW again \in BOOLEAN, EventAlarm(again)
      PROVE  Semaphores'
  <2>1. op' = op /\ UNCHANGED bufVars
    BY <1>36 DEF EventAlarm
  <2> QED
    BY <1>36, <2>1, EventAlarmMoves
       DEF Semaphores, Calls, Labels, DriveTypes, Threads, TakesIo, TakesSearch,
           WaitingOps, ClientRead, Ops, ReadOps, StreamOps, CommandOps, Woken,
           AfterEf, bufVars
<1>37. ASSUME StmSchedule
      PROVE  Semaphores'
  BY <1>37 DEF StmSchedule, Semaphores, ClientRead, bufVars
<1> QED
  BY <1>1, <1>2, <1>3, <1>4, <1>5, <1>6, <1>7, <1>8, <1>9, <1>10, <1>11, <1>12,
     <1>13, <1>14, <1>15, <1>16, <1>17, <1>18, <1>19, <1>20, <1>21, <1>22, <1>23,
     <1>24, <1>25, <1>26, <1>27, <1>28, <1>29, <1>30, <1>31, <1>32, <1>33, <1>34,
     <1>35, <1>36, <1>37
     DEF Next, ClientCalls, ClientContinues, Shared, ReaderContinues, Interrupts,
         Threads

LEMMA RegularCallsNext ==
  ASSUME Types, RegularCalls, Next
  PROVE  RegularCalls'
<1> USE DEF Types
<1> SUFFICES ASSUME Regular PROVE RegularCalls'
  BY GameFixed DEF RegularCalls, Regular, Uses
<1>1. ASSUME NEW c \in Clients, NEW o \in ReadOps, BeginRead(c, o)
      PROVE  RegularCalls'
  BY <1>1, NamesAssumption
     DEF BeginRead, Goto, RegularCalls, Labels, Threads, SyncLabels, May, TakesIo,
         TakesSearch
<1>2. ASSUME NEW c \in Clients, BeginSync(c)
      PROVE  RegularCalls'
  BY <1>2, NamesAssumption
     DEF BeginSync, Goto, RegularCalls, Labels, Threads, SyncLabels, May
<1>3. ASSUME NEW c \in Clients, NEW o \in CommandOps, BeginCommand(c, o)
      PROVE  RegularCalls'
  BY <1>3, NamesAssumption
     DEF BeginCommand, Goto, RegularCalls, Labels, Threads, SyncLabels, May,
         Regular, Uses
<1>4. ASSUME NEW c \in Clients, BeginCallback(c)
      PROVE  RegularCalls'
  BY <1>4, NamesAssumption
     DEF BeginCallback, Goto, RegularCalls, Labels, Threads, SyncLabels, May
<1>5. ASSUME NEW c \in Clients, NEW o \in StreamOps, BeginHalt(c, o)
      PROVE  RegularCalls'
  BY <1>5, NamesAssumption
     DEF BeginHalt, Goto, RegularCalls, Labels, Threads, SyncLabels, May
<1>6. ASSUME NEW c \in Clients, BeginStart(c)
      PROVE  RegularCalls'
  BY <1>6, NamesAssumption
     DEF BeginStart, Goto, RegularCalls, Labels, Threads, SyncLabels, May
<1>7. ASSUME NEW c \in Clients, BeginResume(c)
      PROVE  RegularCalls'
  BY <1>7, NamesAssumption
     DEF BeginResume, Goto, RegularCalls, Labels, Threads, SyncLabels, May
<1>8. ASSUME NEW c \in Clients, NEW n \in game.counts, BeginStRead(c, n)
      PROVE  RegularCalls'
  BY <1>8, StReadMoves DEF RegularCalls, Labels, Threads, SyncLabels, Woken, AfterEf
<1>9. ASSUME NEW c \in Clients, LockIo(c)
      PROVE  RegularCalls'
  BY <1>9, NamesAssumption
     DEF LockIo, Goto, RegularCalls, Labels, Threads, SyncLabels
<1>10. ASSUME NEW c \in Clients, WaitEf(c)
      PROVE  RegularCalls'
  BY <1>10, NamesAssumption
     DEF WaitEf, Goto, RegularCalls, Labels, Threads, SyncLabels, AfterEf
<1>11. ASSUME NEW c \in Clients, LockSearch(c)
      PROVE  RegularCalls'
  BY <1>11, NamesAssumption
     DEF LockSearch, Goto, RegularCalls, Labels, Threads, SyncLabels
<1>12. ASSUME NEW c \in Clients, ReadAsync(c)
      PROVE  RegularCalls'
  BY <1>12, NamesAssumption
     DEF ReadAsync, Goto, RegularCalls, Labels, Threads, SyncLabels, Accepted
<1>13. ASSUME NEW c \in Clients, ReadSync(c)
      PROVE  RegularCalls'
  BY <1>13, NamesAssumption
     DEF ReadSync, Goto, RegularCalls, Labels, Threads, SyncLabels, Target,
         TakesSearch, Regular
<1>14. ASSUME NEW c \in Clients, ReadRefused(c)
      PROVE  RegularCalls'
  BY <1>14, NamesAssumption
     DEF ReadRefused, Goto, RegularCalls, Labels, Threads, SyncLabels
<1>15. ASSUME NEW c \in Clients, ReadAgain(c)
      PROVE  RegularCalls'
  BY <1>15, NamesAssumption
     DEF ReadAgain, Goto, RegularCalls, Labels, Threads, SyncLabels
<1>16. ASSUME NEW c \in Clients, SyncLoop(c)
      PROVE  RegularCalls'
  BY <1>16, NamesAssumption
     DEF SyncLoop, Goto, RegularCalls, Labels, Threads, SyncLabels, AfterSync
<1>17. ASSUME NEW c \in Clients, NEW more \in BOOLEAN, UseBuffer(c, more)
      PROVE  RegularCalls'
  BY <1>17, NamesAssumption
     DEF UseBuffer, Goto, RegularCalls, Labels, Threads, SyncLabels
<1>18. ASSUME NEW c \in Clients, NEW on \in BOOLEAN, SetCallback(c, on)
      PROVE  RegularCalls'
  BY <1>18, NamesAssumption
     DEF SetCallback, Goto, RegularCalls, Labels, Threads, SyncLabels
<1>19. ASSUME NEW c \in Clients, Halt(c)
      PROVE  RegularCalls'
  BY <1>19, NamesAssumption
     DEF Halt, Goto, RegularCalls, Labels, Threads, SyncLabels
<1>20. ASSUME NEW c \in Clients, NEW lsn \in Starts, StStart(c, lsn)
      PROVE  RegularCalls'
  BY <1>20, NamesAssumption
     DEF StStart, Goto, RegularCalls, Labels, Threads, SyncLabels
<1>21. ASSUME NEW c \in Clients, StReadWait(c)
      PROVE  RegularCalls'
  BY <1>21, NamesAssumption
     DEF StReadWait, Goto, RegularCalls, Labels, Threads, SyncLabels
<1>22. ASSUME NEW c \in Clients, StReadClear(c)
      PROVE  RegularCalls'
  BY <1>22, NamesAssumption
     DEF StReadClear, Goto, RegularCalls, Labels, Threads, SyncLabels
<1>23. ASSUME NEW c \in Clients, StReadCopy(c)
      PROVE  RegularCalls'
  BY <1>23, NamesAssumption
     DEF StReadCopy, Goto, RegularCalls, Labels, Threads, SyncLabels
<1>24. ASSUME NEW c \in Clients, StReadCommit(c)
      PROVE  RegularCalls'
  BY <1>24, NamesAssumption
     DEF StReadCommit, Goto, RegularCalls, Labels, Threads, SyncLabels
<1>25. ASSUME NEW t \in Threads, LockBuf(t)
      PROVE  RegularCalls'
  BY <1>25, NamesAssumption
     DEF LockBuf, Goto, RegularCalls, Labels, Threads, SyncLabels, ClientLabels
<1>26. ASSUME NEW t \in Threads, CbEvent(t)
      PROVE  RegularCalls'
  BY <1>26, NamesAssumption
     DEF CbEvent, Goto, RegularCalls, Labels, Threads, SyncLabels, ClientLabels
<1>27. ASSUME NEW t \in Threads, Signal(t)
      PROVE  RegularCalls'
  BY <1>27, NamesAssumption
     DEF Signal, Goto, RegularCalls, Labels, Threads, SyncLabels, ClientLabels
<1>28. ASSUME NEW t \in Threads, SignalEf(t)
      PROVE  RegularCalls'
  <2>1. t = Reader
    BY <1>28 DEF SignalEf, RegularCalls, SyncLabels, Threads, Labels, ClientLabels
  <2> QED
    BY <1>28, <2>1, SignalEfMoves, NamesAssumption
       DEF RegularCalls, Labels, Threads, SyncLabels, Woken, AfterEf
<1>29. ASSUME NEW t \in Threads, Fill(t)
      PROVE  RegularCalls'
  BY <1>29, NamesAssumption
     DEF Fill, Goto, RegularCalls, Labels, Threads, SyncLabels, Returns,
         ClientLabels
<1>30. ASSUME NEW t \in Threads, FillGoes(t)
      PROVE  RegularCalls'
  BY <1>30, NamesAssumption
     DEF FillGoes, Goto, RegularCalls, Labels, Threads, SyncLabels, Returns,
         ClientLabels
<1>31. ASSUME NEW t \in Threads, DeviceReads(t)
      PROVE  RegularCalls'
  BY <1>31, NamesAssumption
     DEF DeviceReads, Goto, RegularCalls, Labels, Threads, SyncLabels, ClientLabels
<1>32. ASSUME ReaderWakes
      PROVE  RegularCalls'
  BY <1>32, NamesAssumption
     DEF ReaderWakes, Goto, RegularCalls, Labels, Threads, SyncLabels
<1>33. ASSUME ReaderDone
      PROVE  RegularCalls'
  BY <1>33, NamesAssumption
     DEF ReaderDone, Goto, RegularCalls, Labels, Threads, SyncLabels
<1>34. ASSUME ReaderRechecks
      PROVE  RegularCalls'
  BY <1>34, NamesAssumption
     DEF ReaderRechecks, Goto, RegularCalls, Labels, Threads, SyncLabels
<1>35. ASSUME StmCallback
      PROVE  RegularCalls'
  BY <1>35, NamesAssumption
     DEF StmCallback, Goto, RegularCalls, Labels, Threads, SyncLabels
<1>36. ASSUME NEW again \in BOOLEAN, EventAlarm(again)
      PROVE  RegularCalls'
  BY <1>36, EventAlarmMoves
     DEF RegularCalls, Labels, Threads, SyncLabels, Woken, AfterEf
<1>37. ASSUME StmSchedule
      PROVE  RegularCalls'
  BY <1>37 DEF StmSchedule, RegularCalls
<1> QED
  BY <1>1, <1>2, <1>3, <1>4, <1>5, <1>6, <1>7, <1>8, <1>9, <1>10, <1>11, <1>12,
     <1>13, <1>14, <1>15, <1>16, <1>17, <1>18, <1>19, <1>20, <1>21, <1>22, <1>23,
     <1>24, <1>25, <1>26, <1>27, <1>28, <1>29, <1>30, <1>31, <1>32, <1>33, <1>34,
     <1>35, <1>36, <1>37
     DEF Next, ClientCalls, ClientContinues, Shared, ReaderContinues, Interrupts,
         Threads

LEMMA NoStreamNext ==
  ASSUME Types, Calls, NoStream, Next
  PROVE  NoStream'
<1> USE DEF Types
<1> SUFFICES ASSUME Silent PROVE NoStream'
  BY GameFixed DEF NoStream, Silent, Uses
<1>1. ASSUME NEW c \in Clients, NEW o \in ReadOps, BeginRead(c, o)
      PROVE  NoStream'
  BY <1>1, NamesAssumption
     DEF BeginRead, Goto, NoStream, Labels, Threads, StmLabels, StLabels, Uses,
         Silent, stVars, ringVars, May, TakesIo, TakesSearch
<1>2. ASSUME NEW c \in Clients, BeginSync(c)
      PROVE  NoStream'
  BY <1>2, NamesAssumption
     DEF BeginSync, Goto, NoStream, Labels, Threads, StmLabels, StLabels, Uses,
         Silent, stVars, ringVars, May
<1>3. ASSUME NEW c \in Clients, NEW o \in CommandOps, BeginCommand(c, o)
      PROVE  NoStream'
  BY <1>3, NamesAssumption
     DEF BeginCommand, Goto, NoStream, Labels, Threads, StmLabels, StLabels, Uses,
         Silent, stVars, ringVars, May
<1>4. ASSUME NEW c \in Clients, BeginCallback(c)
      PROVE  NoStream'
  BY <1>4, NamesAssumption
     DEF BeginCallback, Goto, NoStream, Labels, Threads, StmLabels, StLabels, Uses,
         Silent, stVars, ringVars, May
<1>5. ASSUME NEW c \in Clients, NEW o \in StreamOps, BeginHalt(c, o)
      PROVE  NoStream'
  BY <1>5, NamesAssumption
     DEF BeginHalt, Goto, NoStream, Labels, Threads, StmLabels, StLabels, Uses,
         Silent, stVars, ringVars, May, StreamOps
<1>6. ASSUME NEW c \in Clients, BeginStart(c)
      PROVE  NoStream'
  BY <1>6, NamesAssumption
     DEF BeginStart, Goto, NoStream, Labels, Threads, StmLabels, StLabels, Uses,
         Silent, stVars, ringVars, May, StreamOps
<1>7. ASSUME NEW c \in Clients, BeginResume(c)
      PROVE  NoStream'
  BY <1>7, NamesAssumption
     DEF BeginResume, Goto, NoStream, Labels, Threads, StmLabels, StLabels, Uses,
         Silent, stVars, ringVars, May, StreamOps
<1>8. ASSUME NEW c \in Clients, NEW n \in game.counts, BeginStRead(c, n)
      PROVE  NoStream'
  BY <1>8 DEF BeginStRead, May, Silent, Uses, StreamOps
<1>9. ASSUME NEW c \in Clients, LockIo(c)
      PROVE  NoStream'
  BY <1>9, NamesAssumption
     DEF LockIo, Goto, NoStream, Labels, Threads, StmLabels, StLabels, Uses, Silent,
         stVars, ringVars
<1>10. ASSUME NEW c \in Clients, WaitEf(c)
      PROVE  NoStream'
  BY <1>10, NamesAssumption
     DEF WaitEf, Goto, NoStream, Labels, Threads, StmLabels, StLabels, Uses, Silent,
         stVars, ringVars, AfterEf
<1>11. ASSUME NEW c \in Clients, LockSearch(c)
      PROVE  NoStream'
  BY <1>11, NamesAssumption
     DEF LockSearch, Goto, NoStream, Labels, Threads, StmLabels, StLabels, Uses,
         Silent, stVars, ringVars
<1>12. ASSUME NEW c \in Clients, ReadAsync(c)
      PROVE  NoStream'
  BY <1>12, NamesAssumption
     DEF ReadAsync, Goto, NoStream, Labels, Threads, StmLabels, StLabels, Uses,
         Silent, stVars, ringVars, Accepted
<1>13. ASSUME NEW c \in Clients, ReadSync(c)
      PROVE  NoStream'
  BY <1>13, NamesAssumption
     DEF ReadSync, Goto, NoStream, Labels, Threads, StmLabels, StLabels, Uses,
         Silent, stVars, ringVars, Target, TakesSearch
<1>14. ASSUME NEW c \in Clients, ReadRefused(c)
      PROVE  NoStream'
  BY <1>14, NamesAssumption
     DEF ReadRefused, Goto, NoStream, Labels, Threads, StmLabels, StLabels, Uses,
         Silent, stVars, ringVars
<1>15. ASSUME NEW c \in Clients, ReadAgain(c)
      PROVE  NoStream'
  BY <1>15, NamesAssumption
     DEF ReadAgain, Goto, NoStream, Labels, Threads, StmLabels, StLabels, Uses,
         Silent, stVars, ringVars
<1>16. ASSUME NEW c \in Clients, SyncLoop(c)
      PROVE  NoStream'
  BY <1>16, NamesAssumption
     DEF SyncLoop, Goto, NoStream, Labels, Threads, StmLabels, StLabels, Uses,
         Silent, stVars, ringVars, AfterSync, Calls, StreamOps
<1>17. ASSUME NEW c \in Clients, NEW more \in BOOLEAN, UseBuffer(c, more)
      PROVE  NoStream'
  BY <1>17, NamesAssumption
     DEF UseBuffer, Goto, NoStream, Labels, Threads, StmLabels, StLabels, Uses,
         Silent, stVars, ringVars
<1>18. ASSUME NEW c \in Clients, NEW on \in BOOLEAN, SetCallback(c, on)
      PROVE  NoStream'
  BY <1>18, NamesAssumption
     DEF SetCallback, Goto, NoStream, Labels, Threads, StmLabels, StLabels, Uses,
         Silent, stVars, ringVars
<1>19. ASSUME NEW c \in Clients, Halt(c)
      PROVE  NoStream'
  BY <1>19, NamesAssumption
     DEF Halt, Goto, NoStream, Labels, Threads, StmLabels, StLabels, Uses, Silent,
         stVars, ringVars
<1>20. ASSUME NEW c \in Clients, NEW lsn \in Starts, StStart(c, lsn)
      PROVE  NoStream'
  BY <1>20, NamesAssumption
     DEF StStart, Goto, NoStream, Labels, Threads, StmLabels, StLabels, Uses,
         Silent, stVars, ringVars
<1>21. ASSUME NEW c \in Clients, StReadWait(c)
      PROVE  NoStream'
  BY <1>21, NamesAssumption
     DEF StReadWait, Goto, NoStream, Labels, Threads, StmLabels, StLabels, Uses,
         Silent, stVars, ringVars
<1>22. ASSUME NEW c \in Clients, StReadClear(c)
      PROVE  NoStream'
  BY <1>22, NamesAssumption
     DEF StReadClear, Goto, NoStream, Labels, Threads, StmLabels, StLabels, Uses,
         Silent, stVars, ringVars
<1>23. ASSUME NEW c \in Clients, StReadCopy(c)
      PROVE  NoStream'
  BY <1>23, NamesAssumption
     DEF StReadCopy, Goto, NoStream, Labels, Threads, StmLabels, StLabels, Uses,
         Silent, stVars, ringVars
<1>24. ASSUME NEW c \in Clients, StReadCommit(c)
      PROVE  NoStream'
  BY <1>24, NamesAssumption
     DEF StReadCommit, Goto, NoStream, Labels, Threads, StmLabels, StLabels, Uses,
         Silent, stVars, ringVars
<1>25. ASSUME NEW t \in Threads, LockBuf(t)
      PROVE  NoStream'
  BY <1>25, NamesAssumption
     DEF LockBuf, Goto, NoStream, Labels, Threads, StmLabels, StLabels, Uses,
         Silent, stVars, ringVars
<1>26. ASSUME NEW t \in Threads, CbEvent(t)
      PROVE  NoStream'
  BY <1>26, NamesAssumption
     DEF CbEvent, Goto, NoStream, Labels, Threads, StmLabels, StLabels, Uses,
         Silent, stVars, ringVars
<1>27. ASSUME NEW t \in Threads, Signal(t)
      PROVE  NoStream'
  BY <1>27, NamesAssumption
     DEF Signal, Goto, NoStream, Labels, Threads, StmLabels, StLabels, Uses, Silent,
         stVars, ringVars
<1>28. ASSUME NEW t \in Threads, SignalEf(t)
      PROVE  NoStream'
  <2>1. UNCHANGED <<stVars, ringVars>> /\ pc[t] \in {"set", "stm_set", "reset"}
    BY <1>28 DEF SignalEf
  <2>2. t = Reader => pc'[t] = "wait"
    BY <1>28, <2>1, SignalEfMoves
       DEF AfterSignal, NoStream, StmLabels, Labels, ReaderLabels
  <2>3. t \in Clients => pc'[t] \in {"resig", "idle", "sync"}
    BY <1>28, <2>1, SignalEfMoves, NamesAssumption
       DEF AfterSignal, Accepted, Labels, ClientLabels
  <2> QED
    BY <1>28, <2>1, <2>2, <2>3, SignalEfMoves, NamesAssumption
       DEF NoStream, Labels, Threads, StmLabels, StLabels, Uses, Silent, Woken,
           AfterEf, stVars, ringVars
<1>29. ASSUME NEW t \in Threads, Fill(t)
      PROVE  NoStream'
  BY <1>29, NamesAssumption
     DEF Fill, Goto, NoStream, Labels, Threads, StmLabels, StLabels, Uses, Silent,
         stVars, ringVars, Returns
<1>30. ASSUME NEW t \in Threads, FillGoes(t)
      PROVE  NoStream'
  BY <1>30, NamesAssumption
     DEF FillGoes, Goto, NoStream, Labels, Threads, StmLabels, StLabels, Uses,
         Silent, stVars, ringVars, Returns
<1>31. ASSUME NEW t \in Threads, DeviceReads(t)
      PROVE  NoStream'
  BY <1>31, NamesAssumption
     DEF DeviceReads, Goto, NoStream, Labels, Threads, StmLabels, StLabels, Uses,
         Silent, stVars, ringVars
<1>32. ASSUME ReaderWakes
      PROVE  NoStream'
  BY <1>32, NamesAssumption
     DEF ReaderWakes, Goto, NoStream, Labels, Threads, StmLabels, StLabels, Uses,
         Silent, stVars, ringVars
<1>33. ASSUME ReaderDone
      PROVE  NoStream'
  BY <1>33, NamesAssumption
     DEF ReaderDone, Goto, NoStream, Labels, Threads, StmLabels, StLabels, Uses,
         Silent, stVars, ringVars
<1>34. ASSUME ReaderRechecks
      PROVE  NoStream'
  BY <1>34, NamesAssumption
     DEF ReaderRechecks, Goto, NoStream, Labels, Threads, StmLabels, StLabels, Uses,
         Silent, stVars, ringVars
<1>35. ASSUME StmCallback
      PROVE  NoStream'
  BY <1>35, NamesAssumption
     DEF StmCallback, Goto, NoStream, Labels, Threads, StmLabels, StLabels, Uses,
         Silent, stVars, ringVars
<1>36. ASSUME NEW again \in BOOLEAN, EventAlarm(again)
      PROVE  NoStream'
  BY <1>36, EventAlarmMoves, NamesAssumption
     DEF EventAlarm, NoStream, Labels, Threads, StmLabels, StLabels, Uses, Silent,
         Woken, AfterEf, stVars, ringVars
<1>37. ASSUME StmSchedule
      PROVE  NoStream'
  BY <1>37 DEF StmSchedule, NoStream
<1> QED
  BY <1>1, <1>2, <1>3, <1>4, <1>5, <1>6, <1>7, <1>8, <1>9, <1>10, <1>11, <1>12,
     <1>13, <1>14, <1>15, <1>16, <1>17, <1>18, <1>19, <1>20, <1>21, <1>22, <1>23,
     <1>24, <1>25, <1>26, <1>27, <1>28, <1>29, <1>30, <1>31, <1>32, <1>33, <1>34,
     <1>35, <1>36, <1>37
     DEF Next, ClientCalls, ClientContinues, Shared, ReaderContinues, Interrupts,
         Threads

----------------------------------------------------------------------------
(* The drive *)

LEMMA DriveKept ==
  ASSUME Drive, UNCHANGED <<sync_flag, rthread_sema, cdread, unfinished, cbAlarm, rd>>,
         \A u \in Threads : Busy(u)' = Busy(u) /\ Performs(u)' = Performs(u)
  PROVE  Drive'
  BY DEF Drive

\* A drive that is free is not about to be used.
LEMMA DriveFree ==
  ASSUME DriveTypes, Drive, ~sync_flag
  PROVE  /\ ~rthread_sema /\ ~cbAlarm /\ unfinished = {}
         /\ \A t \in Threads : ~Busy(t) /\ ~Performs(t)
<1>1. ~rthread_sema /\ ~cbAlarm /\ \A t \in Threads : ~Busy(t)
  BY DEF Drive
<1>2. \A t \in Threads : ~Performs(t)
  BY <1>1 DEF Busy, Performs
<1>3. \A a \in Askers : a \notin unfinished
  BY <1>1, <1>2 DEF Drive
<1> QED
  BY <1>1, <1>2, <1>3 DEF DriveTypes

LEMMA DriveAccepts ==
  ASSUME DriveTypes, Drive, ~sync_flag, NEW r \in Read, Accept(r), cbAlarm' = cbAlarm,
         \A u \in Threads : Busy(u)' = Busy(u) /\ Performs(u)' = Performs(u)
  PROVE  Drive'
<1>1. /\ ~rthread_sema /\ ~cbAlarm /\ unfinished = {}
      /\ \A t \in Threads : ~Busy(t)' /\ ~Performs(t)'
  BY DriveFree
<1>2. /\ rthread_sema' = TRUE /\ cdread' = r /\ unfinished' = {r.who} /\ sync_flag' = TRUE
      /\ ~cbAlarm'
  BY <1>1 DEF Accept
<1> QED
  BY <1>1, <1>2 DEF Drive

\* Who ends a command, or a read that it performed, has no alarm to wait for and
\* does not free a drive that others have taken.
EndsAlone ==
  \A c \in Clients :
    /\ pc[c] \in {"event", "command"} => ~user_cb
    /\ pc[c] = "resig" \/ (pc[c] = "sig" /\ op[c] \in CommandOps) => ~sync_flag

LEMMA DriveNext ==
  ASSUME Types, Calls, EndsAlone, Drive, Next
  PROVE  Drive'
<1> USE DEF Types
<1>1. ASSUME NEW c \in Clients, NEW o \in ReadOps, BeginRead(c, o)
      PROVE  Drive'
  <2>1. \A u \in Threads : Busy(u)' = Busy(u) /\ Performs(u)' = Performs(u)
    BY <1>1, NamesAssumption
       DEF BeginRead, Goto, Busy, Performs, Labels, Threads, May, TakesIo,
           TakesSearch
  <2> QED
    BY <1>1, <2>1, DriveKept DEF BeginRead, lockVars, readVars, bufVars, cbVars
<1>2. ASSUME NEW c \in Clients, BeginSync(c)
      PROVE  Drive'
  <2>1. \A u \in Threads : Busy(u)' = Busy(u) /\ Performs(u)' = Performs(u)
    BY <1>2, NamesAssumption
       DEF BeginSync, Goto, Busy, Performs, Labels, Threads, May
  <2> QED
    BY <1>2, <2>1, DriveKept DEF BeginSync, lockVars, readVars, bufVars, cbVars
<1>3. ASSUME NEW c \in Clients, NEW o \in CommandOps, BeginCommand(c, o)
      PROVE  Drive'
  <2>1. \A u \in Threads : Busy(u)' = Busy(u) /\ Performs(u)' = Performs(u)
    BY <1>3, NamesAssumption
       DEF BeginCommand, Goto, Busy, Performs, Labels, Threads, May
  <2> QED
    BY <1>3, <2>1, DriveKept DEF BeginCommand, lockVars, readVars, bufVars, cbVars
<1>4. ASSUME NEW c \in Clients, BeginCallback(c)
      PROVE  Drive'
  <2>1. \A u \in Threads : Busy(u)' = Busy(u) /\ Performs(u)' = Performs(u)
    BY <1>4, NamesAssumption
       DEF BeginCallback, Goto, Busy, Performs, Labels, Threads, May
  <2> QED
    BY <1>4, <2>1, DriveKept DEF BeginCallback, lockVars, readVars, bufVars, cbVars
<1>5. ASSUME NEW c \in Clients, NEW o \in StreamOps, BeginHalt(c, o)
      PROVE  Drive'
  <2>1. \A u \in Threads : Busy(u)' = Busy(u) /\ Performs(u)' = Performs(u)
    BY <1>5, NamesAssumption
       DEF BeginHalt, Goto, Busy, Performs, Labels, Threads, May
  <2> QED
    BY <1>5, <2>1, DriveKept DEF BeginHalt, lockVars, readVars, bufVars, cbVars
<1>6. ASSUME NEW c \in Clients, BeginStart(c)
      PROVE  Drive'
  <2>1. \A u \in Threads : Busy(u)' = Busy(u) /\ Performs(u)' = Performs(u)
    BY <1>6, NamesAssumption
       DEF BeginStart, Goto, Busy, Performs, Labels, Threads, May
  <2> QED
    BY <1>6, <2>1, DriveKept DEF BeginStart, lockVars, readVars, bufVars, cbVars
<1>7. ASSUME NEW c \in Clients, BeginResume(c)
      PROVE  Drive'
  <2>1. \A u \in Threads : Busy(u)' = Busy(u) /\ Performs(u)' = Performs(u)
    BY <1>7, NamesAssumption
       DEF BeginResume, Goto, Busy, Performs, Labels, Threads, May
  <2> QED
    BY <1>7, <2>1, DriveKept DEF BeginResume, lockVars, readVars, bufVars, cbVars
<1>8. ASSUME NEW c \in Clients, NEW n \in game.counts, BeginStRead(c, n)
      PROVE  Drive'
  <2>1. \A u \in Threads : Busy(u)' = Busy(u) /\ Performs(u)' = Performs(u)
    <3>1. pc[c] = "idle" /\ op' = [op EXCEPT ![c] = "stread"] /\ c \in Threads
      BY <1>8 DEF BeginStRead, May, Threads
    <3> QED
      BY <1>8, <3>1, StReadMoves, NamesAssumption
         DEF Busy, Performs, Woken, AfterEf, Labels, Threads
  <2> QED
    BY <1>8, <2>1, DriveKept DEF BeginStRead, readVars, bufVars, cbVars
<1>9. ASSUME NEW c \in Clients, LockIo(c)
      PROVE  Drive'
  <2>1. \A u \in Threads : Busy(u)' = Busy(u) /\ Performs(u)' = Performs(u)
    BY <1>9, NamesAssumption DEF LockIo, Goto, Busy, Performs, Labels, Threads
  <2> QED
    BY <1>9, <2>1, DriveKept DEF LockIo, lockVars, readVars, bufVars, cbVars
<1>10. ASSUME NEW c \in Clients, WaitEf(c)
      PROVE  Drive'
  <2>1. \A u \in Threads : Busy(u)' = Busy(u) /\ Performs(u)' = Performs(u)
    BY <1>10, NamesAssumption
       DEF WaitEf, Goto, Busy, Performs, Labels, Threads, AfterEf
  <2> QED
    BY <1>10, <2>1, DriveKept DEF WaitEf, lockVars, readVars, bufVars, cbVars
<1>11. ASSUME NEW c \in Clients, LockSearch(c)
      PROVE  Drive'
  <2>1. \A u \in Threads : Busy(u)' = Busy(u) /\ Performs(u)' = Performs(u)
    BY <1>11, NamesAssumption DEF LockSearch, Goto, Busy, Performs, Labels, Threads
  <2> QED
    BY <1>11, <2>1, DriveKept DEF LockSearch, lockVars, readVars, bufVars, cbVars
<1>12. ASSUME NEW c \in Clients, ReadAsync(c)
      PROVE  Drive'
  <2>1. \A u \in Threads : Busy(u)' = Busy(u) /\ Performs(u)' = Performs(u)
    BY <1>12, NamesAssumption
       DEF ReadAsync, Accepted, Goto, Busy, Performs, Labels, Threads
  <2> QED
    BY <1>12, <2>1, ClientReadType, DriveAccepts DEF ReadAsync, cbVars
<1>13. ASSUME NEW c \in Clients, ReadSync(c)
      PROVE  Drive'
  <2>1. /\ ~rthread_sema /\ ~cbAlarm /\ unfinished = {}
        /\ \A u \in Threads : ~Busy(u) /\ ~Performs(u)
    BY <1>13, DriveFree DEF ReadSync
  <2>2. /\ \A u \in Threads \ {c} : pc'[u] = pc[u]
        /\ pc'[c] \in {"lock", "dev"} /\ op' = op
    BY <1>13 DEF ReadSync, Goto, Labels, Threads
  <2>3. c \in Threads /\ c # Reader
    BY NamesAssumption DEF Threads
  <2>4. \A u \in Threads : (Busy(u)' <=> u = c) /\ (Performs(u)' <=> u = c)
    BY <2>1, <2>2, <2>3 DEF Busy, Performs
  <2>5. rd'[c] = ClientRead(c)
    BY <1>13, <2>3 DEF ReadSync, DriveTypes
  <2>6. rd'[c].who = c
    BY <2>5 DEF ClientRead
  <2>7. /\ ~rthread_sema' /\ ~cbAlarm' /\ sync_flag' /\ unfinished' = {c}
    BY <1>13, <2>1 DEF ReadSync, cbVars
  <2> QED
    BY <2>3, <2>4, <2>6, <2>7 DEF Drive
<1>14. ASSUME NEW c \in Clients, ReadRefused(c)
      PROVE  Drive'
  <2>1. \A u \in Threads : Busy(u)' = Busy(u) /\ Performs(u)' = Performs(u)
    BY <1>14, NamesAssumption DEF ReadRefused, Goto, Busy, Performs, Labels, Threads
  <2> QED
    BY <1>14, <2>1, DriveKept DEF ReadRefused, lockVars, readVars, bufVars, cbVars
<1>15. ASSUME NEW c \in Clients, ReadAgain(c)
      PROVE  Drive'
  <2>1. \A u \in Threads : Busy(u)' = Busy(u) /\ Performs(u)' = Performs(u)
    BY <1>15, NamesAssumption DEF ReadAgain, Goto, Busy, Performs, Labels, Threads
  <2> QED
    BY <1>15, <2>1, DriveKept DEF ReadAgain, lockVars, readVars, bufVars, cbVars
<1>16. ASSUME NEW c \in Clients, SyncLoop(c)
      PROVE  Drive'
  <2>1. \A u \in Threads : Busy(u)' = Busy(u) /\ Performs(u)' = Performs(u)
    BY <1>16, NamesAssumption
       DEF SyncLoop, Goto, Busy, Performs, Labels, Threads, AfterSync
  <2> QED
    BY <1>16, <2>1, DriveKept DEF SyncLoop, lockVars, readVars, bufVars, cbVars
<1>17. ASSUME NEW c \in Clients, NEW more \in BOOLEAN, UseBuffer(c, more)
      PROVE  Drive'
  <2>1. \A u \in Threads : Busy(u)' = Busy(u) /\ Performs(u)' = Performs(u)
    BY <1>17, NamesAssumption DEF UseBuffer, Goto, Busy, Performs, Labels, Threads
  <2> QED
    BY <1>17, <2>1, DriveKept DEF UseBuffer, lockVars, readVars, bufVars, cbVars
<1>18. ASSUME NEW c \in Clients, NEW on \in BOOLEAN, SetCallback(c, on)
      PROVE  Drive'
  <2>1. \A u \in Threads : Busy(u)' = Busy(u) /\ Performs(u)' = Performs(u)
    BY <1>18, NamesAssumption DEF SetCallback, Goto, Busy, Performs, Labels, Threads
  <2> QED
    BY <1>18, <2>1, DriveKept DEF SetCallback, lockVars, readVars, bufVars, cbVars
<1>19. ASSUME NEW c \in Clients, Halt(c)
      PROVE  Drive'
  <2>1. \A u \in Threads : Busy(u)' = Busy(u) /\ Performs(u)' = Performs(u)
    BY <1>19, NamesAssumption DEF Halt, Goto, Busy, Performs, Labels, Threads
  <2> QED
    BY <1>19, <2>1, DriveKept DEF Halt, lockVars, readVars, bufVars, cbVars
<1>20. ASSUME NEW c \in Clients, NEW lsn \in Starts, StStart(c, lsn)
      PROVE  Drive'
  <2>1. \A u \in Threads : Busy(u)' = Busy(u) /\ Performs(u)' = Performs(u)
    BY <1>20, NamesAssumption DEF StStart, Goto, Busy, Performs, Labels, Threads
  <2> QED
    BY <1>20, <2>1, DriveKept DEF StStart, lockVars, readVars, bufVars, cbVars
<1>21. ASSUME NEW c \in Clients, StReadWait(c)
      PROVE  Drive'
  <2>1. \A u \in Threads : Busy(u)' = Busy(u) /\ Performs(u)' = Performs(u)
    BY <1>21, NamesAssumption DEF StReadWait, Goto, Busy, Performs, Labels, Threads
  <2> QED
    BY <1>21, <2>1, DriveKept DEF StReadWait, lockVars, readVars, bufVars, cbVars
<1>22. ASSUME NEW c \in Clients, StReadClear(c)
      PROVE  Drive'
  <2>1. \A u \in Threads : Busy(u)' = Busy(u) /\ Performs(u)' = Performs(u)
    BY <1>22, NamesAssumption DEF StReadClear, Goto, Busy, Performs, Labels, Threads
  <2> QED
    BY <1>22, <2>1, DriveKept DEF StReadClear, lockVars, readVars, bufVars, cbVars
<1>23. ASSUME NEW c \in Clients, StReadCopy(c)
      PROVE  Drive'
  <2>1. \A u \in Threads : Busy(u)' = Busy(u) /\ Performs(u)' = Performs(u)
    BY <1>23, NamesAssumption DEF StReadCopy, Goto, Busy, Performs, Labels, Threads
  <2> QED
    BY <1>23, <2>1, DriveKept DEF StReadCopy, lockVars, readVars, bufVars, cbVars
<1>24. ASSUME NEW c \in Clients, StReadCommit(c)
      PROVE  Drive'
  <2>1. \A u \in Threads : Busy(u)' = Busy(u) /\ Performs(u)' = Performs(u)
    BY <1>24, NamesAssumption
       DEF StReadCommit, Goto, Busy, Performs, Labels, Threads
  <2> QED
    BY <1>24, <2>1, DriveKept DEF StReadCommit, lockVars, readVars, bufVars, cbVars
<1>25. ASSUME NEW t \in Threads, LockBuf(t)
      PROVE  Drive'
  <2>1. \A u \in Threads : Busy(u)' = Busy(u) /\ Performs(u)' = Performs(u)
    BY <1>25, NamesAssumption DEF LockBuf, Goto, Busy, Performs, Labels, Threads
  <2> QED
    BY <1>25, <2>1, DriveKept DEF LockBuf, lockVars, readVars, cbVars
<1>26. ASSUME NEW t \in Threads, CbEvent(t)
      PROVE  Drive'
  <2>1. /\ \A u \in Threads \ {t} : pc'[u] = pc[u]
        /\ op' = op /\ UNCHANGED <<sync_flag, rthread_sema, cdread, unfinished, rd>>
    BY <1>26 DEF CbEvent, Goto, Labels, lockVars, readVars, bufVars
  <2>2. CASE t = Reader /\ user_cb
    <3>1. pc[Reader] = "event" /\ pc'[Reader] = "wait" /\ cbAlarm' = TRUE
      BY <1>26, <2>2 DEF CbEvent, Goto, Labels, ReaderLabels
    <3>2. /\ Busy(Reader) /\ ~Performs(Reader) /\ sync_flag /\ ~rthread_sema
          /\ \A u \in Threads : Busy(u) => u = Reader
      BY <2>2, <3>1 DEF Drive, Busy, Performs
    <3>3. \A u \in Threads : ~Busy(u)' /\ Performs(u)' = Performs(u)
      BY <2>1, <2>2, <3>1, <3>2 DEF Busy, Performs
    <3> QED
      BY <2>1, <3>1, <3>2, <3>3 DEF Drive
  <2>3. CASE ~(t = Reader /\ user_cb)
    <3>1. ~user_cb
      BY <1>26, <2>3 DEF CbEvent, EndsAlone, Threads
    <3>2. cbAlarm' = cbAlarm /\ pc'[t] = "sig" /\ pc[t] \in {"event", "command"}
      BY <1>26, <3>1 DEF CbEvent, Goto, Labels
    <3>3. /\ t = Reader => pc[t] = "event"
          /\ t # Reader => IF pc[t] = "event" THEN op[t] \in ReadOps ELSE op[t] \notin ReadOps
      BY <3>2 DEF Labels, ReaderLabels, Calls, Threads, ReadOps, CommandOps
    <3>4. \A u \in Threads : Busy(u)' = Busy(u) /\ Performs(u)' = Performs(u)
      BY <2>1, <3>2, <3>3 DEF Busy, Performs
    <3> QED
      BY <2>1, <3>2, <3>4, DriveKept
  <2> QED
    BY <2>2, <2>3
<1>27. ASSUME NEW t \in Threads, Signal(t)
      PROVE  Drive'
  <2>1. /\ \A u \in Threads \ {t} : pc'[u] = pc[u]
        /\ pc'[t] \in {"set", "stm_set", "reset"} /\ pc[t] \in {"sig", "stm_sig", "resig"}
        /\ op' = op /\ UNCHANGED <<rthread_sema, cdread, unfinished, rd, cbAlarm>>
        /\ ~sync_flag'
    BY <1>27 DEF Signal, SignalUnlocks, Goto, Labels, readVars, bufVars, cbVars
  <2>2. /\ \A u \in Threads : Performs(u)' = Performs(u)
        /\ ~Busy(t)' /\ \A u \in Threads \ {t} : Busy(u)' = Busy(u)
    BY <2>1 DEF Busy, Performs
  <2>3. CASE Busy(t)
    <3>1. ~rthread_sema /\ ~cbAlarm /\ \A u \in Threads : Busy(u) => u = t
      BY <2>3 DEF Drive
    <3> QED
      BY <2>1, <2>2, <3>1 DEF Drive
  <2>4. CASE ~Busy(t)
    <3>1. ~sync_flag
      BY <2>1, <2>4
         DEF EndsAlone, Busy, Threads, Calls, Labels, ReaderLabels, ClientLabels
    <3>2. /\ ~rthread_sema /\ ~cbAlarm /\ unfinished = {}
          /\ \A u \in Threads : ~Busy(u) /\ ~Performs(u)
      BY <3>1, DriveFree
    <3>3. \A u \in Threads : ~Busy(u)' /\ ~Performs(u)'
      BY <2>2, <3>2
    <3> QED
      BY <2>1, <3>2, <3>3 DEF Drive
  <2> QED
    BY <2>3, <2>4
<1>28. ASSUME NEW t \in Threads, SignalEf(t)
      PROVE  Drive'
  <2>1. op' = op /\ pc[t] \in {"set", "stm_set", "reset"}
    BY <1>28 DEF SignalEf
  <2>2. AfterSignal(t) \in {"stm", "wait", "resig", "idle", "sync"}
    BY DEF AfterSignal, Accepted
  <2>3. \A u \in Threads : Busy(u)' = Busy(u) /\ Performs(u)' = Performs(u)
    BY <1>28, <2>1, <2>2, SignalEfMoves DEF Busy, Performs, Woken, AfterEf
  <2> QED
    BY <1>28, <2>3, DriveKept DEF SignalEf, readVars, bufVars, cbVars
<1>29. ASSUME NEW t \in Threads, Fill(t)
      PROVE  Drive'
  <2>1. \A u \in Threads : Busy(u)' = Busy(u) /\ Performs(u)' = Performs(u)
    BY <1>29, NamesAssumption
       DEF Fill, Goto, Busy, Performs, Labels, Threads, Returns
  <2> QED
    BY <1>29, <2>1, DriveKept DEF Fill, lockVars, readVars, bufVars, cbVars
<1>30. ASSUME NEW t \in Threads, FillGoes(t)
      PROVE  Drive'
  <2>1. \A u \in Threads : Busy(u)' = Busy(u) /\ Performs(u)' = Performs(u)
    BY <1>30, NamesAssumption
       DEF FillGoes, Returns, Goto, Busy, Performs, Labels, Threads
  <2>2. CASE ptr[t] # Full /\ ~sync_flag
    <3>1. ptr[t] \in Sectors
      BY <2>2 DEF StreamTypes
    <3> QED
      BY <1>30, <2>1, <2>2, <3>1, BankReadType, DriveAccepts DEF FillGoes, cbVars
  <2>3. CASE ~(ptr[t] # Full /\ ~sync_flag)
    BY <1>30, <2>1, <2>3, DriveKept
       DEF FillGoes, lockVars, readVars, bufVars, cbVars
  <2> QED
    BY <2>2, <2>3
<1>31. ASSUME NEW t \in Threads, DeviceReads(t)
      PROVE  Drive'
  <2>1. Busy(t) /\ Performs(t) /\ sync_flag /\ ~cbAlarm /\ ~rthread_sema
    BY <1>31 DEF DeviceReads, Drive, Busy, Performs
  <2>2. /\ \A u \in Threads \ {t} : pc'[u] = pc[u]
        /\ pc'[t] = IF t = Reader THEN "done" ELSE "event"
        /\ op' = op /\ rd' = rd
    BY <1>31 DEF DeviceReads, Goto, Labels
  <2>3. \A u \in Threads : Busy(u)' = Busy(u)
    BY <2>1, <2>2 DEF Busy
  <2>4. \A u \in Threads : Busy(u) => u = t
    BY <2>1 DEF Drive
  <2>5. \A u \in Threads : ~Performs(u)'
    BY <2>2, <2>4 DEF Performs, Busy
  <2>6. \A a \in Askers : a \notin unfinished'
    <3>1. \A u \in Threads : Performs(u) => u = t
      BY <2>4 DEF Performs, Busy
    <3> QED
      BY <1>31, <2>1, <3>1 DEF DeviceReads, Drive
  <2>7. UNCHANGED <<sync_flag, rthread_sema, cdread, cbAlarm>>
    BY <1>31 DEF DeviceReads, lockVars, cbVars
  <2> QED
    BY <2>1, <2>3, <2>5, <2>6, <2>7 DEF Drive
<1>32. ASSUME ReaderWakes
      PROVE  Drive'
  <2>1. rthread_sema /\ sync_flag /\ ~cbAlarm /\ \A u \in Threads : ~Busy(u)
    BY <1>32 DEF ReaderWakes, Drive
  <2>2. \A u \in Threads : ~Performs(u)
    BY <2>1 DEF Busy, Performs
  <2>3. /\ \A u \in Threads \ {Reader} : pc'[u] = pc[u]
        /\ pc'[Reader] \in {"lock", "dev"} /\ Reader \in Threads
        /\ op' = op /\ rthread_sema' = FALSE /\ rd'[Reader] = cdread
        /\ UNCHANGED <<sync_flag, cdread, unfinished, cbAlarm>>
    BY <1>32 DEF ReaderWakes, Goto, Labels, Threads, DriveTypes, lockVars, cbVars
  <2>4. \A u \in Threads : (Busy(u)' <=> u = Reader) /\ (Performs(u)' <=> u = Reader)
    BY <2>1, <2>2, <2>3 DEF Busy, Performs
  <2> QED
    BY <2>1, <2>2, <2>3, <2>4 DEF Drive
<1>33. ASSUME ReaderDone
      PROVE  Drive'
  <2>1. \A u \in Threads : Busy(u)' = Busy(u) /\ Performs(u)' = Performs(u)
    BY <1>33, NamesAssumption DEF ReaderDone, Goto, Busy, Performs, Labels, Threads
  <2> QED
    BY <1>33, <2>1, DriveKept DEF ReaderDone, lockVars, readVars, bufVars, cbVars
<1>34. ASSUME ReaderRechecks
      PROVE  Drive'
  <2>1. \A u \in Threads : Busy(u)' = Busy(u) /\ Performs(u)' = Performs(u)
    BY <1>34, NamesAssumption
       DEF ReaderRechecks, Goto, Busy, Performs, Labels, Threads
  <2> QED
    BY <1>34, <2>1, DriveKept
       DEF ReaderRechecks, lockVars, readVars, bufVars, cbVars
<1>35. ASSUME StmCallback
      PROVE  Drive'
  <2>1. \A u \in Threads : Busy(u)' = Busy(u) /\ Performs(u)' = Performs(u)
    BY <1>35, NamesAssumption DEF StmCallback, Goto, Busy, Performs, Labels, Threads
  <2> QED
    BY <1>35, <2>1, DriveKept DEF StmCallback, lockVars, readVars, bufVars, cbVars
<1>36. ASSUME NEW again \in BOOLEAN, EventAlarm(again)
      PROVE  Drive'
  <2>1. cbAlarm /\ sync_flag /\ ~rthread_sema /\ \A u \in Threads : ~Busy(u)
    BY <1>36 DEF EventAlarm, Drive
  <2>2. \A u \in Threads : ~Performs(u)
    BY <2>1 DEF Busy, Performs
  <2>3. \A a \in Askers : a \notin unfinished
    BY <2>1, <2>2 DEF Drive
  <2>4. op' = op /\ rd' = rd /\ cbAlarm' = FALSE
    BY <1>36 DEF EventAlarm, bufVars
  <2>5. \A u \in Threads : ~Busy(u)' /\ ~Performs(u)'
    BY <1>36, <2>1, <2>2, <2>4, EventAlarmMoves DEF Woken, AfterEf, Busy, Performs
  <2>6. CASE again
    <3>1. /\ sync_flag' = TRUE /\ rthread_sema' = TRUE /\ cdread'.who = Intr
          /\ unfinished' = unfinished \cup {Intr}
      BY <1>36, <2>6 DEF EventAlarm, NoRead
    <3> QED
      BY <2>3, <2>4, <2>5, <3>1 DEF Drive
  <2>7. CASE ~again
    <3>1. ~sync_flag' /\ ~rthread_sema' /\ unfinished' = unfinished
      BY <1>36, <2>1, <2>7 DEF EventAlarm, readVars
    <3> QED
      BY <2>3, <2>4, <2>5, <3>1 DEF Drive
  <2> QED
    BY <2>6, <2>7
<1>37. ASSUME StmSchedule
      PROVE  Drive'
  <2>1. \A u \in Threads : Busy(u)' = Busy(u) /\ Performs(u)' = Performs(u)
    BY <1>37 DEF StmSchedule, Busy, Performs
  <2>2. CASE ~StIsReading /\ Room /\ ~sync_flag
    BY <1>37, <2>1, <2>2, BankReadType, DriveAccepts
       DEF StmSchedule, StreamTypes, cbVars
  <2>3. CASE ~(~StIsReading /\ Room /\ ~sync_flag)
    BY <1>37, <2>1, <2>3, DriveKept
       DEF StmSchedule, lockVars, readVars, bufVars, cbVars
  <2> QED
    BY <2>2, <2>3
<1> QED
  BY <1>1, <1>2, <1>3, <1>4, <1>5, <1>6, <1>7, <1>8, <1>9, <1>10, <1>11, <1>12,
     <1>13, <1>14, <1>15, <1>16, <1>17, <1>18, <1>19, <1>20, <1>21, <1>22, <1>23,
     <1>24, <1>25, <1>26, <1>27, <1>28, <1>29, <1>30, <1>31, <1>32, <1>33, <1>34,
     <1>35, <1>36, <1>37
     DEF Next, ClientCalls, ClientContinues, Shared, ReaderContinues, Interrupts,
         Threads

----------------------------------------------------------------------------
(* The static buffers *)

\* Where a client is that made a read into a static buffer and holds its
\* semaphore.
AwaitLabels == {"sync", "sync_wait", "dev"}
OwnLabels == {"event", "sig", "set", "resig", "reset", "sync", "sync_wait", "use"}

\* What a step may do to a client while the pending reads and the buffers stay
\* as they are.
Follows(c) ==
  \/ op'[c] = op[c] /\ pc'[c] = pc[c]
  \/ /\ op'[c] = op[c]
     /\ pc[c] \in {"sync", "sync_wait"} /\ pc'[c] \in {"sync", "sync_wait"}
  \/ /\ op'[c] = op[c]
     /\ pc[c] \in {"event", "sig", "set", "resig", "reset"} /\ pc'[c] \in OwnLabels
  \/ /\ op[c] \notin WaitingOps \/ pc[c] \notin AwaitLabels
     /\ op'[c] \notin WaitingOps \/ pc'[c] \notin OwnLabels

LEMMA BuffersKept ==
  ASSUME Buffers, \A c \in Clients : Follows(c),
         \A r \in Read : Pending(r)' <=> Pending(r), holds' = holds
  PROVE  Buffers'
<1>1. ASSUME NEW r \in Read, Pending(r)', r.to \in {"toc", "fs"}
      PROVE  /\ r.who \in Clients
             /\ pc'[r.who] \in {"sync", "sync_wait", "dev"}
             /\ op'[r.who] \in WaitingOps /\ Target(op'[r.who]) = r.to
  BY <1>1 DEF Buffers, Follows, AwaitLabels
<1>2. ASSUME NEW c \in Clients, op'[c] \in WaitingOps, pc'[c] \in OwnLabels
      PROVE  \/ holds'[Target(op'[c])] = c
             \/ /\ pc'[c] \in {"sync", "sync_wait"}
                /\ \E r \in Read : Pending(r)' /\ r.who = c /\ r.to = Target(op'[c])
  BY <1>2 DEF Buffers, Follows, OwnLabels
<1> QED
  BY <1>1, <1>2 DEF Buffers, OwnLabels

\* On a free drive no read is pending, and each buffer is the one's who holds
\* its semaphore.
LEMMA BuffersFree ==
  ASSUME DriveTypes, Drive, Buffers, ~sync_flag
  PROVE  /\ \A r \in Read : ~Pending(r)
         /\ \A c \in Clients : op[c] \in WaitingOps /\ pc[c] \in OwnLabels
              => holds[Target(op[c])] = c
<1>1. \A r \in Read : ~Pending(r)
  BY DriveFree DEF Pending
<1> QED
  BY <1>1 DEF Buffers, OwnLabels

\* A read that nobody waits for is accepted.
LEMMA BuffersAccept ==
  ASSUME DriveTypes, Drive, Buffers, ~sync_flag, NEW q \in Read, q.to \notin {"toc", "fs"},
         cdread' = q, \A u \in Threads : ~Performs(u)',
         \A c \in Clients : Follows(c), holds' = holds
  PROVE  Buffers'
<1>1. \A r \in Read : Pending(r)' => r = q
  BY DEF Pending
<1>2. \A c \in Clients : op[c] \in WaitingOps /\ pc[c] \in OwnLabels
        => holds[Target(op[c])] = c
  BY BuffersFree
<1>3. ASSUME NEW c \in Clients, op'[c] \in WaitingOps, pc'[c] \in OwnLabels
      PROVE  holds'[Target(op'[c])] = c
  BY <1>2, <1>3 DEF Follows, OwnLabels
<1> QED
  BY <1>1, <1>3 DEF Buffers, OwnLabels

\* Two functions that read into one buffer hold its semaphore.
LEMMA OneOwner ==
  ASSUME Semaphores, NEW c \in Clients, NEW d \in Clients,
         op[c] \in WaitingOps, pc[c] \in OwnLabels \cup AwaitLabels,
         op[d] \in WaitingOps, pc[d] \in OwnLabels \cup AwaitLabels,
         Target(op[c]) = Target(op[d])
  PROVE  c = d
<1>1. (TakesSearch(op[c]) /\ TakesSearch(op[d])) \/ (TakesIo(op[c]) /\ TakesIo(op[d]))
  BY DEF Target, TakesSearch, TakesIo, WaitingOps
<1> QED
  BY <1>1 DEF Semaphores, OwnLabels, AwaitLabels

LEMMA BuffersNext ==
  ASSUME Types, Calls, Semaphores, Drive, Buffers, Next
  PROVE  Buffers'
<1> USE DEF Types
<1>1. ASSUME NEW c \in Clients, NEW o \in ReadOps, BeginRead(c, o)
      PROVE  Buffers'
  <2>1. UNCHANGED <<rthread_sema, cdread, rd, holds>>
    BY <1>1 DEF BeginRead, readVars, bufVars
  <2>2. /\ \A d \in Clients : Follows(d)
        /\ \A u \in Threads : Performs(u)' <=> Performs(u)
    BY <1>1, NamesAssumption
       DEF BeginRead, Goto, Follows, AwaitLabels, OwnLabels, WaitingOps, Performs,
           Labels, Threads, ReadOps, StreamOps, CommandOps, May, TakesIo,
           TakesSearch
  <2> QED
    BY <2>1, <2>2, BuffersKept DEF Pending
<1>2. ASSUME NEW c \in Clients, BeginSync(c)
      PROVE  Buffers'
  <2>1. UNCHANGED <<rthread_sema, cdread, rd, holds>>
    BY <1>2 DEF BeginSync, readVars, bufVars
  <2>2. /\ \A d \in Clients : Follows(d)
        /\ \A u \in Threads : Performs(u)' <=> Performs(u)
    BY <1>2, NamesAssumption
       DEF BeginSync, Goto, Follows, AwaitLabels, OwnLabels, WaitingOps, Performs,
           Labels, Threads, ReadOps, StreamOps, CommandOps, May
  <2> QED
    BY <2>1, <2>2, BuffersKept DEF Pending
<1>3. ASSUME NEW c \in Clients, NEW o \in CommandOps, BeginCommand(c, o)
      PROVE  Buffers'
  <2>1. UNCHANGED <<rthread_sema, cdread, rd, holds>>
    BY <1>3 DEF BeginCommand, readVars, bufVars
  <2>2. /\ \A d \in Clients : Follows(d)
        /\ \A u \in Threads : Performs(u)' <=> Performs(u)
    BY <1>3, NamesAssumption
       DEF BeginCommand, Goto, Follows, AwaitLabels, OwnLabels, WaitingOps,
           Performs, Labels, Threads, ReadOps, StreamOps, CommandOps, May
  <2> QED
    BY <2>1, <2>2, BuffersKept DEF Pending
<1>4. ASSUME NEW c \in Clients, BeginCallback(c)
      PROVE  Buffers'
  <2>1. UNCHANGED <<rthread_sema, cdread, rd, holds>>
    BY <1>4 DEF BeginCallback, readVars, bufVars
  <2>2. /\ \A d \in Clients : Follows(d)
        /\ \A u \in Threads : Performs(u)' <=> Performs(u)
    BY <1>4, NamesAssumption
       DEF BeginCallback, Goto, Follows, AwaitLabels, OwnLabels, WaitingOps,
           Performs, Labels, Threads, ReadOps, StreamOps, CommandOps, May
  <2> QED
    BY <2>1, <2>2, BuffersKept DEF Pending
<1>5. ASSUME NEW c \in Clients, NEW o \in StreamOps, BeginHalt(c, o)
      PROVE  Buffers'
  <2>1. UNCHANGED <<rthread_sema, cdread, rd, holds>>
    BY <1>5 DEF BeginHalt, readVars, bufVars
  <2>2. /\ \A d \in Clients : Follows(d)
        /\ \A u \in Threads : Performs(u)' <=> Performs(u)
    BY <1>5, NamesAssumption
       DEF BeginHalt, Goto, Follows, AwaitLabels, OwnLabels, WaitingOps, Performs,
           Labels, Threads, ReadOps, StreamOps, CommandOps, May
  <2> QED
    BY <2>1, <2>2, BuffersKept DEF Pending
<1>6. ASSUME NEW c \in Clients, BeginStart(c)
      PROVE  Buffers'
  <2>1. UNCHANGED <<rthread_sema, cdread, rd, holds>>
    BY <1>6 DEF BeginStart, readVars, bufVars
  <2>2. /\ \A d \in Clients : Follows(d)
        /\ \A u \in Threads : Performs(u)' <=> Performs(u)
    BY <1>6, NamesAssumption
       DEF BeginStart, Goto, Follows, AwaitLabels, OwnLabels, WaitingOps, Performs,
           Labels, Threads, ReadOps, StreamOps, CommandOps, May
  <2> QED
    BY <2>1, <2>2, BuffersKept DEF Pending
<1>7. ASSUME NEW c \in Clients, BeginResume(c)
      PROVE  Buffers'
  <2>1. UNCHANGED <<rthread_sema, cdread, rd, holds>>
    BY <1>7 DEF BeginResume, readVars, bufVars
  <2>2. /\ \A d \in Clients : Follows(d)
        /\ \A u \in Threads : Performs(u)' <=> Performs(u)
    BY <1>7, NamesAssumption
       DEF BeginResume, Goto, Follows, AwaitLabels, OwnLabels, WaitingOps, Performs,
           Labels, Threads, ReadOps, StreamOps, CommandOps, May
  <2> QED
    BY <2>1, <2>2, BuffersKept DEF Pending
<1>8. ASSUME NEW c \in Clients, NEW n \in game.counts, BeginStRead(c, n)
      PROVE  Buffers'
  <2>1. UNCHANGED <<rthread_sema, cdread, rd, holds>>
    BY <1>8 DEF BeginStRead, readVars, bufVars
  <2>2. /\ pc[c] = "idle" /\ op'[c] = "stread" /\ \A d \in Clients \ {c} : op'[d] = op[d]
    BY <1>8 DEF BeginStRead, May, Labels
  <2>3. /\ pc'[c] = "st_test" /\ \A u \in Threads \ {c} : Woken(u, pc[u], pc'[u])
    BY <1>8, StReadMoves
  <2>4. \A d \in Clients : Follows(d)
    BY <2>2, <2>3
       DEF Follows, Woken, AfterEf, AwaitLabels, OwnLabels, WaitingOps, Threads
  <2>5. \A u \in Threads : Performs(u)' <=> Performs(u)
    BY <2>2, <2>3 DEF Performs, Woken, AfterEf
  <2> QED
    BY <2>1, <2>4, <2>5, BuffersKept DEF Pending
<1>9. ASSUME NEW c \in Clients, LockIo(c)
      PROVE  Buffers'
  <2>1. UNCHANGED <<rthread_sema, cdread, rd, holds>>
    BY <1>9 DEF LockIo, readVars, bufVars
  <2>2. /\ \A d \in Clients : Follows(d)
        /\ \A u \in Threads : Performs(u)' <=> Performs(u)
    BY <1>9, NamesAssumption
       DEF LockIo, Goto, Follows, AwaitLabels, OwnLabels, WaitingOps, Performs,
           Labels, Threads, ReadOps, StreamOps, CommandOps
  <2> QED
    BY <2>1, <2>2, BuffersKept DEF Pending
<1>10. ASSUME NEW c \in Clients, WaitEf(c)
      PROVE  Buffers'
  <2>1. UNCHANGED <<rthread_sema, cdread, rd, holds>>
    BY <1>10 DEF WaitEf, readVars, bufVars
  <2>2. /\ \A d \in Clients : Follows(d)
        /\ \A u \in Threads : Performs(u)' <=> Performs(u)
    BY <1>10, NamesAssumption
       DEF WaitEf, Goto, Follows, AwaitLabels, OwnLabels, WaitingOps, Performs,
           Labels, Threads, ReadOps, StreamOps, CommandOps, AfterEf
  <2> QED
    BY <2>1, <2>2, BuffersKept DEF Pending
<1>11. ASSUME NEW c \in Clients, LockSearch(c)
      PROVE  Buffers'
  <2>1. UNCHANGED <<rthread_sema, cdread, rd, holds>>
    BY <1>11 DEF LockSearch, readVars, bufVars
  <2>2. /\ \A d \in Clients : Follows(d)
        /\ \A u \in Threads : Performs(u)' <=> Performs(u)
    BY <1>11, NamesAssumption
       DEF LockSearch, Goto, Follows, AwaitLabels, OwnLabels, WaitingOps, Performs,
           Labels, Threads, ReadOps, StreamOps, CommandOps
  <2> QED
    BY <2>1, <2>2, BuffersKept DEF Pending
<1>12. ASSUME NEW c \in Clients, ReadAsync(c)
      PROVE  Buffers'
  <2>1. /\ ~sync_flag /\ rthread_sema' = TRUE /\ cdread' = ClientRead(c) /\ op' = op
        /\ pc[c] = "read" /\ pc'[c] = Accepted(c) /\ holds' = holds
        /\ \A u \in Threads \ {c} : pc'[u] = pc[u]
    BY <1>12 DEF ReadAsync, Accept, Goto, Labels, Threads, bufVars
  <2>2. /\ \A u \in Threads : ~Performs(u)
        /\ \A d \in Clients : op[d] \in WaitingOps /\ pc[d] \in OwnLabels
             => holds[Target(op[d])] = d
    BY <2>1, BuffersFree, DriveFree
  <2>3. ~Performs(c)' /\ \A u \in Threads : ~Performs(u)'
    BY <2>1, <2>2 DEF Performs, Accepted
  <2>4. \A r \in Read : Pending(r)' <=> r = ClientRead(c)
    BY <2>1, <2>3 DEF Pending
  <2>5. ClientRead(c) \in Read /\ ClientRead(c).who = c /\ ClientRead(c).to = Target(op[c])
    BY ClientReadType DEF ClientRead
  <2>6. Target(op[c]) \in {"toc", "fs"} => op[c] \in WaitingOps
    <3>1. op[c] \in ReadOps
      BY <2>1 DEF Calls
    <3> QED
      BY <3>1 DEF ReadOps, WaitingOps, Target, TakesSearch
  <2>7. op[c] \in WaitingOps => pc'[c] = "sync"
    BY <2>1 DEF Accepted, WaitingOps
  <2>8. c \in Threads /\ \A d \in Clients : d \in Threads
    BY DEF Threads
  <2>9. ASSUME NEW d \in Clients, op[d] \in WaitingOps, pc'[d] \in OwnLabels
        PROVE  \/ holds[Target(op[d])] = d
               \/ /\ pc'[d] \in {"sync", "sync_wait"}
                  /\ \E r \in Read : Pending(r)' /\ r.who = d /\ r.to = Target(op[d])
    <3>1. CASE d = c
      BY <2>4, <2>5, <2>7, <2>9, <3>1
    <3>2. CASE d # c
      BY <2>1, <2>2, <2>8, <2>9, <3>2
    <3> QED
      BY <3>1, <3>2
  <2> QED
    BY <2>1, <2>4, <2>5, <2>6, <2>7, <2>9 DEF Buffers, OwnLabels
<1>13. ASSUME NEW c \in Clients, ReadSync(c)
      PROVE  Buffers'
  <2>1. /\ ~sync_flag /\ op' = op /\ holds' = holds /\ UNCHANGED <<rthread_sema, cdread>>
        /\ pc[c] = "read" /\ pc'[c] \in {"lock", "dev"} /\ rd'[c] = ClientRead(c)
        /\ Target(op[c]) # "unaligned" => pc'[c] = "dev"
        /\ \A u \in Threads \ {c} : pc'[u] = pc[u]
    BY <1>13 DEF ReadSync, Goto, Labels, Threads, DriveTypes
  <2>2. /\ ~rthread_sema /\ \A u \in Threads : ~Performs(u)
        /\ \A d \in Clients : op[d] \in WaitingOps /\ pc[d] \in OwnLabels
             => holds[Target(op[d])] = d
    BY <2>1, BuffersFree, DriveFree
  <2>3. \A u \in Threads : Performs(u)' => u = c
    BY <2>1, <2>2 DEF Performs
  <2>4. \A r \in Read : Pending(r)' => r = ClientRead(c)
    BY <2>1, <2>2, <2>3 DEF Pending
  <2>5. ClientRead(c).who = c /\ ClientRead(c).to = Target(op[c])
    BY DEF ClientRead
  <2>6. Target(op[c]) \in {"toc", "fs"} => op[c] \in WaitingOps
    <3>1. op[c] \in ReadOps
      BY <2>1 DEF Calls
    <3> QED
      BY <3>1 DEF ReadOps, WaitingOps, Target, TakesSearch
  <2>7. \A d \in Clients : d \in Threads
    BY DEF Threads
  <2>8. ASSUME NEW d \in Clients, op[d] \in WaitingOps, pc'[d] \in OwnLabels
        PROVE  holds[Target(op[d])] = d
    BY <2>1, <2>2, <2>7, <2>8 DEF OwnLabels
  <2> QED
    BY <2>1, <2>4, <2>5, <2>6, <2>8 DEF Buffers, OwnLabels
<1>14. ASSUME NEW c \in Clients, ReadRefused(c)
      PROVE  Buffers'
  <2>1. UNCHANGED <<rthread_sema, cdread, rd, holds>>
    BY <1>14 DEF ReadRefused, readVars, bufVars
  <2>2. /\ \A d \in Clients : Follows(d)
        /\ \A u \in Threads : Performs(u)' <=> Performs(u)
    BY <1>14, NamesAssumption
       DEF ReadRefused, Goto, Follows, AwaitLabels, OwnLabels, WaitingOps, Performs,
           Labels, Threads, ReadOps, StreamOps, CommandOps
  <2> QED
    BY <2>1, <2>2, BuffersKept DEF Pending
<1>15. ASSUME NEW c \in Clients, ReadAgain(c)
      PROVE  Buffers'
  <2>1. UNCHANGED <<rthread_sema, cdread, rd, holds>>
    BY <1>15 DEF ReadAgain, readVars, bufVars
  <2>2. /\ \A d \in Clients : Follows(d)
        /\ \A u \in Threads : Performs(u)' <=> Performs(u)
    BY <1>15, NamesAssumption
       DEF ReadAgain, Goto, Follows, AwaitLabels, OwnLabels, WaitingOps, Performs,
           Labels, Threads, ReadOps, StreamOps, CommandOps
  <2> QED
    BY <2>1, <2>2, BuffersKept DEF Pending
<1>16. ASSUME NEW c \in Clients, SyncLoop(c)
      PROVE  Buffers'
  <2>1. /\ op' = op /\ holds' = holds /\ UNCHANGED <<rthread_sema, cdread, rd>>
        /\ pc[c] \in {"sync", "rdy"} /\ \A u \in Threads \ {c} : pc'[u] = pc[u]
        /\ pc'[c] \notin {"lock", "dev"}
    BY <1>16 DEF SyncLoop, AfterSync, Goto, Labels, Threads, bufVars, readVars
  <2>2. \A r \in Read : Pending(r)' <=> Pending(r)
    BY <2>1 DEF Pending, Performs
  <2>3. CASE sync_flag
    <3>1. \A d \in Clients : Follows(d)
      BY <1>16, <2>1, <2>3, NamesAssumption
         DEF SyncLoop, Goto, Labels, Follows, AwaitLabels, OwnLabels, Threads
    <3> QED
      BY <2>1, <2>2, <3>1, BuffersKept
  <2>4. CASE ~sync_flag
    <3>1. /\ \A r \in Read : ~Pending(r)
          /\ \A d \in Clients : op[d] \in WaitingOps /\ pc[d] \in OwnLabels
              => holds[Target(op[d])] = d
      BY <2>4, BuffersFree
    <3>2. ASSUME NEW d \in Clients, op[d] \in WaitingOps, pc'[d] \in OwnLabels
          PROVE  pc[d] \in OwnLabels
      BY <1>16, <2>1, <2>4, <3>2 DEF SyncLoop, Goto, Labels, Threads, OwnLabels
    <3> QED
      BY <2>1, <2>2, <3>1, <3>2 DEF Buffers, OwnLabels
  <2> QED
    BY <2>3, <2>4
<1>17. ASSUME NEW c \in Clients, NEW more \in BOOLEAN, UseBuffer(c, more)
      PROVE  Buffers'
  <2>1. UNCHANGED <<rthread_sema, cdread, rd, holds>>
    BY <1>17 DEF UseBuffer, readVars, bufVars
  <2>2. /\ \A d \in Clients : Follows(d)
        /\ \A u \in Threads : Performs(u)' <=> Performs(u)
    BY <1>17, NamesAssumption
       DEF UseBuffer, Goto, Follows, AwaitLabels, OwnLabels, WaitingOps, Performs,
           Labels, Threads, ReadOps, StreamOps, CommandOps
  <2> QED
    BY <2>1, <2>2, BuffersKept DEF Pending
<1>18. ASSUME NEW c \in Clients, NEW on \in BOOLEAN, SetCallback(c, on)
      PROVE  Buffers'
  <2>1. UNCHANGED <<rthread_sema, cdread, rd, holds>>
    BY <1>18 DEF SetCallback, readVars, bufVars
  <2>2. /\ \A d \in Clients : Follows(d)
        /\ \A u \in Threads : Performs(u)' <=> Performs(u)
    BY <1>18, NamesAssumption
       DEF SetCallback, Goto, Follows, AwaitLabels, OwnLabels, WaitingOps, Performs,
           Labels, Threads, ReadOps, StreamOps, CommandOps
  <2> QED
    BY <2>1, <2>2, BuffersKept DEF Pending
<1>19. ASSUME NEW c \in Clients, Halt(c)
      PROVE  Buffers'
  <2>1. UNCHANGED <<rthread_sema, cdread, rd, holds>>
    BY <1>19 DEF Halt, readVars, bufVars
  <2>2. /\ \A d \in Clients : Follows(d)
        /\ \A u \in Threads : Performs(u)' <=> Performs(u)
    BY <1>19, NamesAssumption
       DEF Halt, Goto, Follows, AwaitLabels, OwnLabels, WaitingOps, Performs,
           Labels, Threads, ReadOps, StreamOps, CommandOps, Calls
  <2> QED
    BY <2>1, <2>2, BuffersKept DEF Pending
<1>20. ASSUME NEW c \in Clients, NEW lsn \in Starts, StStart(c, lsn)
      PROVE  Buffers'
  <2>1. UNCHANGED <<rthread_sema, cdread, rd, holds>>
    BY <1>20 DEF StStart, readVars, bufVars
  <2>2. /\ \A d \in Clients : Follows(d)
        /\ \A u \in Threads : Performs(u)' <=> Performs(u)
    BY <1>20, NamesAssumption
       DEF StStart, Goto, Follows, AwaitLabels, OwnLabels, WaitingOps, Performs,
           Labels, Threads, ReadOps, StreamOps, CommandOps
  <2> QED
    BY <2>1, <2>2, BuffersKept DEF Pending
<1>21. ASSUME NEW c \in Clients, StReadWait(c)
      PROVE  Buffers'
  <2>1. UNCHANGED <<rthread_sema, cdread, rd, holds>>
    BY <1>21 DEF StReadWait, readVars, bufVars
  <2>2. /\ \A d \in Clients : Follows(d)
        /\ \A u \in Threads : Performs(u)' <=> Performs(u)
    BY <1>21, NamesAssumption
       DEF StReadWait, Goto, Follows, AwaitLabels, OwnLabels, WaitingOps, Performs,
           Labels, Threads, ReadOps, StreamOps, CommandOps
  <2> QED
    BY <2>1, <2>2, BuffersKept DEF Pending
<1>22. ASSUME NEW c \in Clients, StReadClear(c)
      PROVE  Buffers'
  <2>1. UNCHANGED <<rthread_sema, cdread, rd, holds>>
    BY <1>22 DEF StReadClear, readVars, bufVars
  <2>2. /\ \A d \in Clients : Follows(d)
        /\ \A u \in Threads : Performs(u)' <=> Performs(u)
    BY <1>22, NamesAssumption
       DEF StReadClear, Goto, Follows, AwaitLabels, OwnLabels, WaitingOps, Performs,
           Labels, Threads, ReadOps, StreamOps, CommandOps
  <2> QED
    BY <2>1, <2>2, BuffersKept DEF Pending
<1>23. ASSUME NEW c \in Clients, StReadCopy(c)
      PROVE  Buffers'
  <2>1. UNCHANGED <<rthread_sema, cdread, rd, holds>>
    BY <1>23 DEF StReadCopy, readVars, bufVars
  <2>2. /\ \A d \in Clients : Follows(d)
        /\ \A u \in Threads : Performs(u)' <=> Performs(u)
    BY <1>23, NamesAssumption
       DEF StReadCopy, Goto, Follows, AwaitLabels, OwnLabels, WaitingOps, Performs,
           Labels, Threads, ReadOps, StreamOps, CommandOps
  <2> QED
    BY <2>1, <2>2, BuffersKept DEF Pending
<1>24. ASSUME NEW c \in Clients, StReadCommit(c)
      PROVE  Buffers'
  <2>1. UNCHANGED <<rthread_sema, cdread, rd, holds>>
    BY <1>24 DEF StReadCommit, readVars, bufVars
  <2>2. /\ \A d \in Clients : Follows(d)
        /\ \A u \in Threads : Performs(u)' <=> Performs(u)
    BY <1>24, NamesAssumption
       DEF StReadCommit, Goto, Follows, AwaitLabels, OwnLabels, WaitingOps,
           Performs, Labels, Threads, ReadOps, StreamOps, CommandOps
  <2> QED
    BY <2>1, <2>2, BuffersKept DEF Pending
<1>25. ASSUME NEW t \in Threads, LockBuf(t)
      PROVE  Buffers'
  <2>1. UNCHANGED <<rthread_sema, cdread, rd, holds>>
    BY <1>25 DEF LockBuf, readVars, bufVars
  <2>2. /\ \A d \in Clients : Follows(d)
        /\ \A u \in Threads : Performs(u)' <=> Performs(u)
    BY <1>25, NamesAssumption
       DEF LockBuf, Goto, Follows, AwaitLabels, OwnLabels, WaitingOps, Performs,
           Labels, Threads, ReadOps, StreamOps, CommandOps
  <2> QED
    BY <2>1, <2>2, BuffersKept DEF Pending
<1>26. ASSUME NEW t \in Threads, CbEvent(t)
      PROVE  Buffers'
  <2>1. UNCHANGED <<rthread_sema, cdread, rd, holds>>
    BY <1>26 DEF CbEvent, readVars, bufVars
  <2>2. /\ \A d \in Clients : Follows(d)
        /\ \A u \in Threads : Performs(u)' <=> Performs(u)
    BY <1>26, NamesAssumption
       DEF CbEvent, Goto, Follows, AwaitLabels, OwnLabels, WaitingOps, Performs,
           Labels, Threads, ReadOps, StreamOps, CommandOps, Calls
  <2> QED
    BY <2>1, <2>2, BuffersKept DEF Pending
<1>27. ASSUME NEW t \in Threads, Signal(t)
      PROVE  Buffers'
  <2>1. UNCHANGED <<rthread_sema, cdread, rd, holds>>
    BY <1>27 DEF Signal, readVars, bufVars
  <2>2. /\ \A d \in Clients : Follows(d)
        /\ \A u \in Threads : Performs(u)' <=> Performs(u)
    BY <1>27, NamesAssumption
       DEF Signal, Goto, Follows, AwaitLabels, OwnLabels, WaitingOps, Performs,
           Labels, Threads, ReadOps, StreamOps, CommandOps
  <2> QED
    BY <2>1, <2>2, BuffersKept DEF Pending
<1>28. ASSUME NEW t \in Threads, SignalEf(t)
      PROVE  Buffers'
  <2>1. UNCHANGED <<rthread_sema, cdread, rd, holds>>
    BY <1>28 DEF SignalEf, readVars, bufVars
  <2>2. op' = op /\ pc[t] \in {"set", "stm_set", "reset"}
    BY <1>28 DEF SignalEf
  <2>3. /\ pc'[t] = AfterSignal(t) /\ \A u \in Threads \ {t} : Woken(u, pc[u], pc'[u])
    BY <1>28, SignalEfMoves
  <2>4. t \in Clients => pc[t] # "stm_set"
    BY DEF Labels, ClientLabels
  <2>5. AfterSignal(t) \in {"stm", "wait", "idle", "resig", "sync"}
    BY DEF AfterSignal, Accepted
  <2>6. \A d \in Clients : Follows(d)
    BY <2>2, <2>3, <2>4, <2>5, NamesAssumption
       DEF Follows, Woken, AfterEf, AwaitLabels, OwnLabels, Threads
  <2>7. \A u \in Threads : Performs(u)' <=> Performs(u)
    BY <2>2, <2>3, <2>5 DEF Performs, Woken, AfterEf
  <2> QED
    BY <2>1, <2>6, <2>7, BuffersKept DEF Pending
<1>29. ASSUME NEW t \in Threads, Fill(t)
      PROVE  Buffers'
  <2>1. UNCHANGED <<rthread_sema, cdread, rd, holds>>
    BY <1>29 DEF Fill, readVars, bufVars
  <2>2. /\ \A d \in Clients : Follows(d)
        /\ \A u \in Threads : Performs(u)' <=> Performs(u)
    BY <1>29, NamesAssumption
       DEF Fill, Goto, Follows, AwaitLabels, OwnLabels, WaitingOps, Performs,
           Labels, Threads, ReadOps, StreamOps, CommandOps, Returns
  <2> QED
    BY <2>1, <2>2, BuffersKept DEF Pending
<1>30. ASSUME NEW t \in Threads, FillGoes(t)
      PROVE  Buffers'
  <2>1. /\ op' = op /\ rd' = rd /\ holds' = holds
        /\ \A u \in Threads \ {t} : pc'[u] = pc[u]
        /\ pc[t] = "fill_go" /\ pc'[t] \in {"wait", "idle"}
    BY <1>30 DEF FillGoes, Returns, Goto, Labels, bufVars
  <2>2. \A u \in Threads : Performs(u)' <=> Performs(u)
    BY <2>1 DEF Performs
  <2>3. \A d \in Clients : Follows(d)
    BY <2>1 DEF Follows, AwaitLabels, OwnLabels, Threads
  <2>4. CASE ptr[t] # Full /\ ~sync_flag
    <3>1. BankRead(ptr[t]) \in Read /\ BankRead(ptr[t]).to = "ring"
      BY <2>4, BankReadType DEF StreamTypes, BankRead
    <3>2. cdread' = BankRead(ptr[t])
      BY <1>30, <2>4 DEF FillGoes, Accept
    <3>3. \A u \in Threads : ~Performs(u)'
      BY <2>2, <2>4, DriveFree
    <3> QED
      BY <2>1, <2>3, <2>4, <3>1, <3>2, <3>3, BuffersAccept
  <2>5. CASE ~(ptr[t] # Full /\ ~sync_flag)
    <3>1. \A r \in Read : Pending(r)' <=> Pending(r)
      BY <1>30, <2>1, <2>2, <2>5 DEF FillGoes, Pending, readVars
    <3> QED
      BY <2>1, <2>3, <3>1, BuffersKept
  <2> QED
    BY <2>4, <2>5
<1>31. ASSUME NEW t \in Threads, DeviceReads(t)
      PROVE  Buffers'
  <2>1. /\ op' = op /\ UNCHANGED <<rthread_sema, cdread, rd>> /\ pc[t] = "dev"
        /\ holds' = CASE rd[t].to \in {"toc", "fs"} -> [holds EXCEPT ![rd[t].to] = rd[t].who]
                      [] rd[t].to = "unaligned" -> [holds EXCEPT !["toc"] = rd[t].who]
                      [] OTHER -> holds
        /\ \A u \in Threads \ {t} : pc'[u] = pc[u]
        /\ pc'[t] = IF t = Reader THEN "done" ELSE "event"
    BY <1>31 DEF DeviceReads, Goto, Labels
  <2>2. Busy(t) /\ Performs(t) /\ ~rthread_sema /\ \A u \in Threads : Busy(u) => u = t
    BY <2>1 DEF Busy, Performs, Drive
  <2>3. \A u \in Threads : Performs(u) => u = t
    BY <2>2 DEF Busy, Performs
  <2>4. rd[t] \in Read /\ Pending(rd[t]) /\ \A r \in Read : Pending(r) => r = rd[t]
    BY <2>2, <2>3 DEF DriveTypes, Pending
  <2>5. \A r \in Read : ~Pending(r)'
    BY <2>1, <2>2, <2>3 DEF Pending, Performs
  <2>6. t \in Clients => rd[t].who = t /\ rd[t].to = Target(op[t])
    <3>1. t \in Clients => rd[t] = ClientRead(t)
      BY <2>1 DEF Semaphores
    <3> QED
      BY <3>1 DEF ClientRead
  <2>7. \A d \in Clients : d \in Threads
    BY DEF Threads
  <2>8. ASSUME NEW d \in Clients, op[d] \in WaitingOps, pc'[d] \in OwnLabels
        PROVE  holds'[Target(op[d])] = d
    <3>1. Target(op[d]) \in {"toc", "fs"}
      BY <2>8 DEF Target, WaitingOps
    <3>2. CASE d = t
      <4>1. rd[t].who = d /\ rd[t].to = Target(op[d])
        BY <2>6, <3>2
      <4> QED
        BY <2>1, <3>1, <4>1 DEF DriveTypes
    <3>3. CASE d # t
      <4>1. pc[d] \in OwnLabels
        BY <2>1, <2>7, <2>8, <3>3
      <4>2. CASE rd[t].to \in {"toc", "fs"}
        <5>1. /\ rd[t].who \in Clients /\ pc[rd[t].who] \in AwaitLabels
              /\ op[rd[t].who] \in WaitingOps /\ Target(op[rd[t].who]) = rd[t].to
          BY <2>4, <4>2 DEF Buffers, AwaitLabels
        <5>2. Target(op[d]) = rd[t].to => d = rd[t].who
          BY <2>8, <4>1, <5>1, OneOwner
        <5>3. \/ holds[Target(op[d])] = d
              \/ rd[t].who = d /\ rd[t].to = Target(op[d])
          BY <2>4, <2>8, <4>1 DEF Buffers, OwnLabels
        <5> QED
          BY <2>1, <3>1, <4>2, <5>2, <5>3 DEF DriveTypes
      <4>3. CASE rd[t].to = "unaligned"
        <5>1. sema["search"] = t
          BY <2>1, <4>3 DEF Semaphores
        <5>2. ~TakesSearch(op[d])
          BY <2>8, <3>3, <4>1, <5>1 DEF Semaphores, OwnLabels
        <5>3. Target(op[d]) = "fs"
          BY <2>8, <5>2 DEF Target, WaitingOps, TakesSearch
        <5>4. holds[Target(op[d])] = d
          BY <2>4, <2>8, <4>1, <4>3, <3>1 DEF Buffers, OwnLabels
        <5> QED
          BY <2>1, <4>3, <5>3, <5>4 DEF DriveTypes
      <4>4. CASE rd[t].to \notin {"toc", "fs", "unaligned"}
        <5>1. holds[Target(op[d])] = d
          BY <2>4, <2>8, <4>1, <4>4, <3>1 DEF Buffers, OwnLabels
        <5> QED
          BY <2>1, <4>4, <5>1
      <4> QED
        BY <4>2, <4>3, <4>4
    <3> QED
      BY <3>2, <3>3
  <2> QED
    BY <2>1, <2>5, <2>8 DEF Buffers, OwnLabels
<1>32. ASSUME ReaderWakes
      PROVE  Buffers'
  <2>1. rthread_sema /\ \A u \in Threads : ~Performs(u)
    BY <1>32 DEF ReaderWakes, Drive, Busy, Performs
  <2>2. /\ \A u \in Threads \ {Reader} : pc'[u] = pc[u]
        /\ pc'[Reader] \in {"lock", "dev"} /\ Reader \in Threads
        /\ op' = op /\ rthread_sema' = FALSE /\ rd'[Reader] = cdread /\ holds' = holds
    BY <1>32 DEF ReaderWakes, Goto, Labels, Threads, DriveTypes
  <2>3. \A u \in Threads : Performs(u)' <=> u = Reader
    BY <2>1, <2>2 DEF Performs
  <2>4. \A r \in Read : Pending(r)' <=> Pending(r)
    BY <2>1, <2>2, <2>3 DEF Pending
  <2>5. \A d \in Clients : Follows(d)
    BY <2>2, NamesAssumption DEF Follows, Threads
  <2> QED
    BY <2>2, <2>4, <2>5, BuffersKept
<1>33. ASSUME ReaderDone
      PROVE  Buffers'
  <2>1. UNCHANGED <<rthread_sema, cdread, rd, holds>>
    BY <1>33 DEF ReaderDone, readVars, bufVars
  <2>2. /\ \A d \in Clients : Follows(d)
        /\ \A u \in Threads : Performs(u)' <=> Performs(u)
    BY <1>33, NamesAssumption
       DEF ReaderDone, Goto, Follows, AwaitLabels, OwnLabels, WaitingOps, Performs,
           Labels, Threads, ReadOps, StreamOps, CommandOps
  <2> QED
    BY <2>1, <2>2, BuffersKept DEF Pending
<1>34. ASSUME ReaderRechecks
      PROVE  Buffers'
  <2>1. UNCHANGED <<rthread_sema, cdread, rd, holds>>
    BY <1>34 DEF ReaderRechecks, readVars, bufVars
  <2>2. /\ \A d \in Clients : Follows(d)
        /\ \A u \in Threads : Performs(u)' <=> Performs(u)
    BY <1>34, NamesAssumption
       DEF ReaderRechecks, Goto, Follows, AwaitLabels, OwnLabels, WaitingOps,
           Performs, Labels, Threads, ReadOps, StreamOps, CommandOps
  <2> QED
    BY <2>1, <2>2, BuffersKept DEF Pending
<1>35. ASSUME StmCallback
      PROVE  Buffers'
  <2>1. UNCHANGED <<rthread_sema, cdread, rd, holds>>
    BY <1>35 DEF StmCallback, readVars, bufVars
  <2>2. /\ \A d \in Clients : Follows(d)
        /\ \A u \in Threads : Performs(u)' <=> Performs(u)
    BY <1>35, NamesAssumption
       DEF StmCallback, Goto, Follows, AwaitLabels, OwnLabels, WaitingOps, Performs,
           Labels, Threads, ReadOps, StreamOps, CommandOps
  <2> QED
    BY <2>1, <2>2, BuffersKept DEF Pending
<1>36. ASSUME NEW again \in BOOLEAN, EventAlarm(again)
      PROVE  Buffers'
  <2>1. ~rthread_sema /\ \A u \in Threads : ~Performs(u)
    BY <1>36 DEF EventAlarm, Drive, Busy, Performs
  <2>2. op' = op /\ rd' = rd /\ holds' = holds
    BY <1>36 DEF EventAlarm, bufVars
  <2>3. \A u \in Threads : Woken(u, pc[u], pc'[u])
    BY <1>36, EventAlarmMoves
  <2>4. \A u \in Threads : ~Performs(u)'
    BY <2>1, <2>3 DEF Performs, Woken, AfterEf
  <2>5. \A r \in Read : ~Pending(r) /\ (Pending(r)' => r.to = "own")
    BY <1>36, <2>1, <2>4 DEF EventAlarm, Pending, NoRead, readVars
  <2>6. ASSUME NEW d \in Clients, op'[d] \in WaitingOps, pc'[d] \in OwnLabels
        PROVE  holds'[Target(op'[d])] = d
    <3>1. Woken(d, pc[d], pc'[d])
      BY <2>3 DEF Threads
    <3>2. pc[d] \in OwnLabels
      BY <2>6, <3>1 DEF Woken, AfterEf, OwnLabels
    <3> QED
      BY <2>2, <2>5, <2>6, <3>2 DEF Buffers, OwnLabels
  <2> QED
    BY <2>5, <2>6 DEF Buffers, OwnLabels
<1>37. ASSUME StmSchedule
      PROVE  Buffers'
  <2>1. op' = op /\ pc' = pc /\ rd' = rd /\ holds' = holds
    BY <1>37 DEF StmSchedule, bufVars
  <2>2. /\ \A u \in Threads : Performs(u)' <=> Performs(u)
        /\ \A d \in Clients : Follows(d)
    BY <2>1 DEF Performs, Follows
  <2>3. CASE ~StIsReading /\ Room /\ ~sync_flag
    <3>1. BankRead(StWritePtr) \in Read /\ BankRead(StWritePtr).to = "ring"
      BY BankReadType DEF StreamTypes, BankRead
    <3>2. cdread' = BankRead(StWritePtr)
      BY <1>37, <2>3 DEF StmSchedule, Accept
    <3>3. \A u \in Threads : ~Performs(u)'
      BY <2>2, <2>3, DriveFree
    <3> QED
      BY <2>1, <2>2, <2>3, <3>1, <3>2, <3>3, BuffersAccept
  <2>4. CASE ~(~StIsReading /\ Room /\ ~sync_flag)
    <3>1. \A r \in Read : Pending(r)' <=> Pending(r)
      BY <1>37, <2>1, <2>2, <2>4 DEF StmSchedule, Pending, readVars
    <3> QED
      BY <2>1, <2>2, <3>1, BuffersKept
  <2> QED
    BY <2>3, <2>4
<1> QED
  BY <1>1, <1>2, <1>3, <1>4, <1>5, <1>6, <1>7, <1>8, <1>9, <1>10, <1>11, <1>12,
     <1>13, <1>14, <1>15, <1>16, <1>17, <1>18, <1>19, <1>20, <1>21, <1>22, <1>23,
     <1>24, <1>25, <1>26, <1>27, <1>28, <1>29, <1>30, <1>31, <1>32, <1>33, <1>34,
     <1>35, <1>36, <1>37
     DEF Next, ClientCalls, ClientContinues, Shared, ReaderContinues, Interrupts,
         Threads

----------------------------------------------------------------------------
(* Streams of a single thread *)

\* The other threads are idle.
LEMMA SingleAlone ==
  ASSUME Single, Calls, NEW c \in Clients, pc[c] # "idle" \/ game.ops[c] # {}
  PROVE  \A d \in Clients \ {c} : pc[d] = "idle"
  BY DEF Single, Calls

\* A client runs only while the reading thread waits.
LEMMA SingleRuns ==
  ASSUME Single, Drive, NEW c \in Clients, Runs(c)
  PROVE  /\ pc[Reader] \in {"wait", "lock", "dev"}
         /\ pc[Reader] = "wait" => ~rthread_sema
         /\ ~sync_flag => ReaderQuiet
<1>1. ReaderWaiting
  BY NamesAssumption DEF Single, Runs
<1>2. Reader \in Threads /\ (pc[Reader] \in {"lock", "dev"} => Busy(Reader))
  BY DEF Threads, Busy
<1> QED
  BY <1>1, <1>2 DEF ReaderWaiting, ReaderQuiet, Drive

LEMMA IdleClient ==
  ASSUME NEW d \in Clients, pc'[d] = "idle"
  PROVE  StreamClient(d)'
  BY NamesAssumption DEF StreamClient, Busy, Ends, Waits, StLabels

LEMMA StreamsNext ==
  ASSUME Single, Types, Calls, Drive, StreamReader, \A d \in Clients : StreamClient(d),
         StreamState, Next
  PROVE  StreamReader' /\ (\A d \in Clients : StreamClient(d)') /\ StreamState'
<1> USE DEF Types
<1>1. ASSUME NEW c \in Clients, NEW o \in ReadOps, BeginRead(c, o)
      PROVE  StreamReader' /\ (\A d \in Clients : StreamClient(d)') /\ StreamState'
  <2>1. \A d \in Clients \ {c} : pc[d] = "idle"
    BY <1>1, SingleAlone DEF BeginRead, May
  <2>2. /\ pc[Reader] \in {"wait", "lock", "dev"} /\ (~sync_flag => ReaderQuiet)
        /\ pc[Reader] = "wait" => ~rthread_sema
    BY <1>1, SingleRuns DEF BeginRead, May
  <2>3. \A d \in Clients \ {c} : StreamClient(d)'
    BY <1>1, <2>1, IdleClient
       DEF BeginRead, Goto, Labels, Threads, DriveTypes, StreamTypes, May, TakesIo,
           TakesSearch, Single
  <2>4. StreamReader'
    BY <1>1, <2>2, NamesAssumption
       DEF BeginRead, Goto, Labels, Threads, DriveTypes, StreamTypes, StreamReader,
           StmLabels, ReaderQuiet, lockVars, readVars, bufVars, cbVars, stVars, May,
           TakesIo, TakesSearch, Single
  <2>5. StreamClient(c)'
    BY <1>1, <2>2, NamesAssumption
       DEF BeginRead, Goto, Labels, Threads, DriveTypes, StreamTypes, StreamClient,
           Busy, Ends, Waits, StLabels, ReaderQuiet, ReadOps, CommandOps, StreamOps,
           lockVars, readVars, bufVars, cbVars, stVars, Calls, May, TakesIo,
           TakesSearch, Single
  <2>6. StreamState'
    BY <1>1, <2>1, <2>2, NamesAssumption
       DEF BeginRead, Goto, Labels, Threads, DriveTypes, StreamTypes, StreamState,
           Waits, Performs, lockVars, readVars, bufVars, cbVars, stVars, May,
           TakesIo, TakesSearch, Single
  <2> QED
    BY <2>3, <2>4, <2>5, <2>6
<1>2. ASSUME NEW c \in Clients, BeginSync(c)
      PROVE  StreamReader' /\ (\A d \in Clients : StreamClient(d)') /\ StreamState'
  <2>1. \A d \in Clients \ {c} : pc[d] = "idle"
    BY <1>2, SingleAlone DEF BeginSync, May
  <2>2. /\ pc[Reader] \in {"wait", "lock", "dev"} /\ (~sync_flag => ReaderQuiet)
        /\ pc[Reader] = "wait" => ~rthread_sema
    BY <1>2, SingleRuns DEF BeginSync, May
  <2>3. \A d \in Clients \ {c} : StreamClient(d)'
    BY <1>2, <2>1, IdleClient
       DEF BeginSync, Goto, Labels, Threads, DriveTypes, StreamTypes, May
  <2>4. StreamReader'
    BY <1>2, <2>2, NamesAssumption
       DEF BeginSync, Goto, Labels, Threads, DriveTypes, StreamTypes, StreamReader,
           StmLabels, ReaderQuiet, lockVars, readVars, bufVars, cbVars, stVars, May
  <2>5. StreamClient(c)'
    BY <1>2, <2>2, NamesAssumption
       DEF BeginSync, Goto, Labels, Threads, DriveTypes, StreamTypes, StreamClient,
           Busy, Ends, Waits, StLabels, ReaderQuiet, ReadOps, CommandOps, StreamOps,
           lockVars, readVars, bufVars, cbVars, stVars, Calls, May
  <2>6. StreamState'
    BY <1>2, <2>1, <2>2, NamesAssumption
       DEF BeginSync, Goto, Labels, Threads, DriveTypes, StreamTypes, StreamState,
           Waits, Performs, lockVars, readVars, bufVars, cbVars, stVars, May
  <2> QED
    BY <2>3, <2>4, <2>5, <2>6
<1>3. ASSUME NEW c \in Clients, NEW o \in CommandOps, BeginCommand(c, o)
      PROVE  StreamReader' /\ (\A d \in Clients : StreamClient(d)') /\ StreamState'
  <2>1. \A d \in Clients \ {c} : pc[d] = "idle"
    BY <1>3, SingleAlone DEF BeginCommand, May
  <2>2. /\ pc[Reader] \in {"wait", "lock", "dev"} /\ (~sync_flag => ReaderQuiet)
        /\ pc[Reader] = "wait" => ~rthread_sema
    BY <1>3, SingleRuns DEF BeginCommand, May
  <2>3. \A d \in Clients \ {c} : StreamClient(d)'
    BY <1>3, <2>1, IdleClient
       DEF BeginCommand, Goto, Labels, Threads, DriveTypes, StreamTypes, May,
           Single, Uses
  <2>4. StreamReader'
    BY <1>3, <2>2, NamesAssumption
       DEF BeginCommand, Goto, Labels, Threads, DriveTypes, StreamTypes,
           StreamReader, StmLabels, ReaderQuiet, lockVars, readVars, bufVars,
           cbVars, stVars, May, Single, Uses
  <2>5. StreamClient(c)'
    BY <1>3, <2>2, NamesAssumption
       DEF BeginCommand, Goto, Labels, Threads, DriveTypes, StreamTypes,
           StreamClient, Busy, Ends, Waits, StLabels, ReaderQuiet, ReadOps,
           CommandOps, StreamOps, lockVars, readVars, bufVars, cbVars, stVars,
           Calls, May, Single, Uses
  <2>6. StreamState'
    BY <1>3, <2>1, <2>2, NamesAssumption
       DEF BeginCommand, Goto, Labels, Threads, DriveTypes, StreamTypes,
           StreamState, Waits, Performs, lockVars, readVars, bufVars, cbVars,
           stVars, May, Single, Uses
  <2> QED
    BY <2>3, <2>4, <2>5, <2>6
<1>4. ASSUME NEW c \in Clients, BeginCallback(c)
      PROVE  StreamReader' /\ (\A d \in Clients : StreamClient(d)') /\ StreamState'
  <2>1. \A d \in Clients \ {c} : pc[d] = "idle"
    BY <1>4, SingleAlone DEF BeginCallback, May
  <2>2. /\ pc[Reader] \in {"wait", "lock", "dev"} /\ (~sync_flag => ReaderQuiet)
        /\ pc[Reader] = "wait" => ~rthread_sema
    BY <1>4, SingleRuns DEF BeginCallback, May
  <2>3. \A d \in Clients \ {c} : StreamClient(d)'
    BY <1>4, <2>1, IdleClient
       DEF BeginCallback, Goto, Labels, Threads, DriveTypes, StreamTypes, May
  <2>4. StreamReader'
    BY <1>4, <2>2, NamesAssumption
       DEF BeginCallback, Goto, Labels, Threads, DriveTypes, StreamTypes,
           StreamReader, StmLabels, ReaderQuiet, lockVars, readVars, bufVars,
           cbVars, stVars, May
  <2>5. StreamClient(c)'
    BY <1>4, <2>2, NamesAssumption
       DEF BeginCallback, Goto, Labels, Threads, DriveTypes, StreamTypes,
           StreamClient, Busy, Ends, Waits, StLabels, ReaderQuiet, ReadOps,
           CommandOps, StreamOps, lockVars, readVars, bufVars, cbVars, stVars,
           Calls, May
  <2>6. StreamState'
    BY <1>4, <2>1, <2>2, NamesAssumption
       DEF BeginCallback, Goto, Labels, Threads, DriveTypes, StreamTypes,
           StreamState, Waits, Performs, lockVars, readVars, bufVars, cbVars,
           stVars, May
  <2> QED
    BY <2>3, <2>4, <2>5, <2>6
<1>5. ASSUME NEW c \in Clients, NEW o \in StreamOps, BeginHalt(c, o)
      PROVE  StreamReader' /\ (\A d \in Clients : StreamClient(d)') /\ StreamState'
  <2>1. \A d \in Clients \ {c} : pc[d] = "idle"
    BY <1>5, SingleAlone DEF BeginHalt, May
  <2>2. /\ pc[Reader] \in {"wait", "lock", "dev"} /\ (~sync_flag => ReaderQuiet)
        /\ pc[Reader] = "wait" => ~rthread_sema
    BY <1>5, SingleRuns DEF BeginHalt, May
  <2>3. \A d \in Clients \ {c} : StreamClient(d)'
    BY <1>5, <2>1, IdleClient
       DEF BeginHalt, Goto, Labels, Threads, DriveTypes, StreamTypes, May
  <2>4. StreamReader'
    BY <1>5, <2>2, NamesAssumption
       DEF BeginHalt, Goto, Labels, Threads, DriveTypes, StreamTypes, StreamReader,
           StmLabels, ReaderQuiet, lockVars, readVars, bufVars, cbVars, stVars, May
  <2>5. StreamClient(c)'
    BY <1>5, <2>2, NamesAssumption
       DEF BeginHalt, Goto, Labels, Threads, DriveTypes, StreamTypes, StreamClient,
           Busy, Ends, Waits, StLabels, ReaderQuiet, ReadOps, CommandOps, StreamOps,
           lockVars, readVars, bufVars, cbVars, stVars, Calls, May
  <2>6. StreamState'
    BY <1>5, <2>1, <2>2, NamesAssumption
       DEF BeginHalt, Goto, Labels, Threads, DriveTypes, StreamTypes, StreamState,
           Waits, Performs, lockVars, readVars, bufVars, cbVars, stVars, May
  <2> QED
    BY <2>3, <2>4, <2>5, <2>6
<1>6. ASSUME NEW c \in Clients, BeginStart(c)
      PROVE  StreamReader' /\ (\A d \in Clients : StreamClient(d)') /\ StreamState'
  <2>1. \A d \in Clients \ {c} : pc[d] = "idle"
    BY <1>6, SingleAlone DEF BeginStart, May
  <2>2. /\ pc[Reader] \in {"wait", "lock", "dev"} /\ (~sync_flag => ReaderQuiet)
        /\ pc[Reader] = "wait" => ~rthread_sema
    BY <1>6, SingleRuns DEF BeginStart, May
  <2>3. c \in Threads /\ c # Reader /\ Reader \in Threads /\ \A d \in Clients : d \in Threads
    BY NamesAssumption DEF Threads
  <2>4. /\ ~StStat /\ pc[c] = "idle" /\ unfinished \cap Clients = {}
        /\ pc'[c] = "start" /\ op'[c] = "start" /\ (\A u \in Threads \ {c} : pc'[u] = pc[u])
        /\ UNCHANGED <<sync_flag, rthread_sema, cdread, rd, user_cb, cbAlarm,
                       Stm0Callback, StStat, StIsReading, stmAlarm>>
    BY <1>6
       DEF BeginStart, May, Goto, Labels, Threads, Single, lockVars, readVars,
           bufVars, cbVars, stVars
  <2>5. ~sync_flag
    <3>1. ASSUME sync_flag PROVE FALSE
      <4>1. \A d \in Clients : pc[d] = "idle"
        BY <2>1, <2>4
      <4>2. /\ rthread_sema => cdread.who \in Clients
            /\ Performs(Reader) => rd[Reader].who \in Clients
        BY <2>4, <3>1, <4>1 DEF StreamState, Waits
      <4>3. \A d \in Clients : ~Busy(d)
        BY <2>3, <4>1, NamesAssumption DEF Busy
      <4>4. pc[Reader] # "wait"
        BY <2>2, <3>1, <4>3 DEF Drive, Busy, StreamReader, Threads
      <4>5. Performs(Reader) /\ rd[Reader] \in Read
        BY <2>2, <2>3, <4>4 DEF Performs, DriveTypes
      <4>6. rd[Reader].who \in unfinished
        BY <2>3, <4>5 DEF Drive, Read
      <4> QED
        BY <2>4, <4>2, <4>5, <4>6
    <3> QED
      BY <3>1
  <2>21. StreamReader'
    BY <2>3, <2>4 DEF StreamReader
  <2>22. StreamClient(c)'
    BY <2>2, <2>3, <2>4, <2>5
       DEF StreamClient, Busy, Ends, Waits, StLabels, ReaderQuiet, ReadOps
  <2>23. StreamState'
    BY <2>4, <2>5 DEF StreamState
  <2>20. \A d \in Clients \ {c} : StreamClient(d)'
    BY <2>1, <2>3, <2>4, IdleClient
  <2> QED
    BY <2>20, <2>21, <2>22, <2>23
<1>7. ASSUME NEW c \in Clients, BeginResume(c)
      PROVE  StreamReader' /\ (\A d \in Clients : StreamClient(d)') /\ StreamState'
  <2>1. \A d \in Clients \ {c} : pc[d] = "idle"
    BY <1>7, SingleAlone DEF BeginResume, May
  <2>2. /\ pc[Reader] \in {"wait", "lock", "dev"} /\ (~sync_flag => ReaderQuiet)
        /\ pc[Reader] = "wait" => ~rthread_sema
    BY <1>7, SingleRuns DEF BeginResume, May
  <2>3. \A d \in Clients \ {c} : StreamClient(d)'
    BY <1>7, <2>1, IdleClient
       DEF BeginResume, Goto, Labels, Threads, DriveTypes, StreamTypes, May
  <2>4. StreamReader'
    BY <1>7, <2>2, NamesAssumption
       DEF BeginResume, Goto, Labels, Threads, DriveTypes, StreamTypes,
           StreamReader, StmLabels, ReaderQuiet, lockVars, readVars, bufVars,
           cbVars, stVars, May
  <2>5. StreamClient(c)'
    BY <1>7, <2>2, NamesAssumption
       DEF BeginResume, Goto, Labels, Threads, DriveTypes, StreamTypes,
           StreamClient, Busy, Ends, Waits, StLabels, ReaderQuiet, ReadOps,
           CommandOps, StreamOps, lockVars, readVars, bufVars, cbVars, stVars,
           Calls, May
  <2>6. StreamState'
    BY <1>7, <2>1, <2>2, NamesAssumption
       DEF BeginResume, Goto, Labels, Threads, DriveTypes, StreamTypes, StreamState,
           Waits, Performs, lockVars, readVars, bufVars, cbVars, stVars, May
  <2> QED
    BY <2>3, <2>4, <2>5, <2>6
<1>8. ASSUME NEW c \in Clients, NEW n \in game.counts, BeginStRead(c, n)
      PROVE  StreamReader' /\ (\A d \in Clients : StreamClient(d)') /\ StreamState'
  <2>1. \A d \in Clients \ {c} : pc[d] = "idle"
    BY <1>8, SingleAlone DEF BeginStRead, May
  <2>2. /\ pc[Reader] \in {"wait", "lock", "dev"} /\ (~sync_flag => ReaderQuiet)
        /\ pc[Reader] = "wait" => ~rthread_sema
    BY <1>8, SingleRuns DEF BeginStRead, May
  <2>3. c \in Threads /\ c # Reader /\ Reader \in Threads /\ \A d \in Clients : d \in Threads
    BY NamesAssumption DEF Threads
  <2>4. /\ pc[c] = "idle" /\ Stm0Callback /\ StStat
        /\ pc'[c] = "st_test" /\ op'[c] = "stread" /\ (\A u \in Threads \ {c} : Woken(u, pc[u], pc'[u]))
        /\ UNCHANGED <<sync_flag, rthread_sema, cdread, rd, user_cb, cbAlarm,
                       Stm0Callback, StStat, StIsReading, stmAlarm>>
    BY <1>8, StReadMoves
       DEF BeginStRead, May, Labels, readVars, bufVars, cbVars, stVars
  <2>5. pc'[Reader] = pc[Reader] /\ \A d \in Clients \ {c} : pc'[d] = "idle"
    BY <2>1, <2>2, <2>3, <2>4 DEF Woken
  <2>6. ~(StStat /\ sync_flag /\ ~StIsReading)
    BY <2>1, <2>4 DEF StreamState, Waits
  <2>21. StreamReader'
    BY <2>4, <2>5 DEF StreamReader
  <2>22. StreamClient(c)'
    BY <2>3, <2>4 DEF StreamClient, Busy, Ends, Waits, ReadOps
  <2>23. StreamState'
    BY <2>4, <2>6 DEF StreamState
  <2>20. \A d \in Clients \ {c} : StreamClient(d)'
    BY <2>5, IdleClient
  <2> QED
    BY <2>20, <2>21, <2>22, <2>23
<1>9. ASSUME NEW c \in Clients, LockIo(c)
      PROVE  StreamReader' /\ (\A d \in Clients : StreamClient(d)') /\ StreamState'
  <2>1. \A d \in Clients \ {c} : pc[d] = "idle"
    BY <1>9, SingleAlone DEF LockIo
  <2>2. /\ pc[Reader] \in {"wait", "lock", "dev"} /\ (~sync_flag => ReaderQuiet)
        /\ pc[Reader] = "wait" => ~rthread_sema
    BY <1>9, SingleRuns DEF LockIo
  <2>3. \A d \in Clients \ {c} : StreamClient(d)'
    BY <1>9, <2>1, IdleClient
       DEF LockIo, Goto, Labels, Threads, DriveTypes, StreamTypes
  <2>4. StreamReader'
    BY <1>9, <2>2, NamesAssumption
       DEF LockIo, Goto, Labels, Threads, DriveTypes, StreamTypes, StreamReader,
           StmLabels, ReaderQuiet, lockVars, readVars, bufVars, cbVars, stVars
  <2>5. StreamClient(c)'
    BY <1>9, <2>2, NamesAssumption
       DEF LockIo, Goto, Labels, Threads, DriveTypes, StreamTypes, StreamClient,
           Busy, Ends, Waits, StLabels, ReaderQuiet, ReadOps, CommandOps, StreamOps,
           lockVars, readVars, bufVars, cbVars, stVars, Calls
  <2>6. StreamState'
    BY <1>9, <2>1, <2>2, NamesAssumption
       DEF LockIo, Goto, Labels, Threads, DriveTypes, StreamTypes, StreamState,
           Waits, Performs, lockVars, readVars, bufVars, cbVars, stVars
  <2> QED
    BY <2>3, <2>4, <2>5, <2>6
<1>10. ASSUME NEW c \in Clients, WaitEf(c)
      PROVE  StreamReader' /\ (\A d \in Clients : StreamClient(d)') /\ StreamState'
  <2>1. \A d \in Clients \ {c} : pc[d] = "idle"
    BY <1>10, SingleAlone DEF WaitEf
  <2>2. /\ pc[Reader] \in {"wait", "lock", "dev"} /\ (~sync_flag => ReaderQuiet)
        /\ pc[Reader] = "wait" => ~rthread_sema
    BY <1>10, SingleRuns DEF WaitEf
  <2>3. \A d \in Clients \ {c} : StreamClient(d)'
    BY <1>10, <2>1, IdleClient
       DEF WaitEf, Goto, Labels, Threads, DriveTypes, StreamTypes, AfterEf
  <2>4. StreamReader'
    BY <1>10, <2>2, NamesAssumption
       DEF WaitEf, Goto, Labels, Threads, DriveTypes, StreamTypes, StreamReader,
           StmLabels, ReaderQuiet, lockVars, readVars, bufVars, cbVars, stVars,
           AfterEf
  <2>5. StreamClient(c)'
    BY <1>10, <2>2, NamesAssumption
       DEF WaitEf, Goto, Labels, Threads, DriveTypes, StreamTypes, StreamClient,
           Busy, Ends, Waits, StLabels, ReaderQuiet, ReadOps, CommandOps, StreamOps,
           lockVars, readVars, bufVars, cbVars, stVars, Calls, AfterEf
  <2>6. StreamState'
    BY <1>10, <2>1, <2>2, NamesAssumption
       DEF WaitEf, Goto, Labels, Threads, DriveTypes, StreamTypes, StreamState,
           Waits, Performs, lockVars, readVars, bufVars, cbVars, stVars, AfterEf
  <2> QED
    BY <2>3, <2>4, <2>5, <2>6
<1>11. ASSUME NEW c \in Clients, LockSearch(c)
      PROVE  StreamReader' /\ (\A d \in Clients : StreamClient(d)') /\ StreamState'
  <2>1. \A d \in Clients \ {c} : pc[d] = "idle"
    BY <1>11, SingleAlone DEF LockSearch
  <2>2. /\ pc[Reader] \in {"wait", "lock", "dev"} /\ (~sync_flag => ReaderQuiet)
        /\ pc[Reader] = "wait" => ~rthread_sema
    BY <1>11, SingleRuns DEF LockSearch
  <2>3. \A d \in Clients \ {c} : StreamClient(d)'
    BY <1>11, <2>1, IdleClient
       DEF LockSearch, Goto, Labels, Threads, DriveTypes, StreamTypes
  <2>4. StreamReader'
    BY <1>11, <2>2, NamesAssumption
       DEF LockSearch, Goto, Labels, Threads, DriveTypes, StreamTypes, StreamReader,
           StmLabels, ReaderQuiet, lockVars, readVars, bufVars, cbVars, stVars
  <2>5. StreamClient(c)'
    BY <1>11, <2>2, NamesAssumption
       DEF LockSearch, Goto, Labels, Threads, DriveTypes, StreamTypes, StreamClient,
           Busy, Ends, Waits, StLabels, ReaderQuiet, ReadOps, CommandOps, StreamOps,
           lockVars, readVars, bufVars, cbVars, stVars, Calls
  <2>6. StreamState'
    BY <1>11, <2>1, <2>2, NamesAssumption
       DEF LockSearch, Goto, Labels, Threads, DriveTypes, StreamTypes, StreamState,
           Waits, Performs, lockVars, readVars, bufVars, cbVars, stVars
  <2> QED
    BY <2>3, <2>4, <2>5, <2>6
<1>12. ASSUME NEW c \in Clients, ReadAsync(c)
      PROVE  StreamReader' /\ (\A d \in Clients : StreamClient(d)') /\ StreamState'
  <2>1. \A d \in Clients \ {c} : pc[d] = "idle"
    BY <1>12, SingleAlone DEF ReadAsync
  <2>2. /\ pc[Reader] \in {"wait", "lock", "dev"} /\ (~sync_flag => ReaderQuiet)
        /\ pc[Reader] = "wait" => ~rthread_sema
    BY <1>12, SingleRuns DEF ReadAsync
  <2>3. c \in Threads /\ c # Reader /\ Reader \in Threads /\ \A d \in Clients : d \in Threads
    BY NamesAssumption DEF Threads
  <2>4. /\ pc[c] = "read" /\ op[c] \in ReadOps /\ ReaderQuiet /\ pc'[c] \in {"idle", "sync"}
        /\ op' = op /\ cdread'.who = c /\ (\A u \in Threads \ {c} : pc'[u] = pc[u])
        /\ UNCHANGED <<rd, user_cb, cbAlarm, Stm0Callback, StStat, StIsReading, stmAlarm>>
    BY <1>12, <2>2
       DEF ReadAsync, Accept, Accepted, ClientRead, Goto, Labels, Threads, Calls,
           bufVars, cbVars, stVars
  <2>5. ~StStat
    BY <2>4 DEF StreamClient
  <2>21. StreamReader'
    BY <2>3, <2>4 DEF StreamReader, ReaderQuiet, StmLabels
  <2>22. StreamClient(c)'
    BY <2>3, <2>4, <2>5 DEF StreamClient, Busy, Ends, StLabels
  <2>23. StreamState'
    BY <2>3, <2>4, <2>5 DEF StreamState, Performs, ReaderQuiet
  <2>20. \A d \in Clients \ {c} : StreamClient(d)'
    BY <2>1, <2>3, <2>4, IdleClient
  <2> QED
    BY <2>20, <2>21, <2>22, <2>23
<1>13. ASSUME NEW c \in Clients, ReadSync(c)
      PROVE  StreamReader' /\ (\A d \in Clients : StreamClient(d)') /\ StreamState'
  <2>1. \A d \in Clients \ {c} : pc[d] = "idle"
    BY <1>13, SingleAlone DEF ReadSync
  <2>2. /\ pc[Reader] \in {"wait", "lock", "dev"} /\ (~sync_flag => ReaderQuiet)
        /\ pc[Reader] = "wait" => ~rthread_sema
    BY <1>13, SingleRuns DEF ReadSync
  <2>3. c \in Threads /\ c # Reader /\ Reader \in Threads /\ \A d \in Clients : d \in Threads
    BY NamesAssumption DEF Threads
  <2>4. /\ pc[c] = "read" /\ op[c] \in ReadOps /\ ReaderQuiet /\ pc'[c] \in {"lock", "dev"}
        /\ op' = op /\ (\A u \in Threads \ {c} : pc'[u] = pc[u])
        /\ UNCHANGED <<rthread_sema, cdread, user_cb, cbAlarm, Stm0Callback, StStat, StIsReading, stmAlarm>>
    BY <1>13, <2>2 DEF ReadSync, Goto, Labels, Threads, Calls, cbVars, stVars
  <2>5. ~StStat
    BY <2>4 DEF StreamClient
  <2>21. StreamReader'
    BY <2>3, <2>4 DEF StreamReader, ReaderQuiet, StmLabels
  <2>22. StreamClient(c)'
    BY <2>3, <2>4, <2>5 DEF StreamClient, Busy, Ends, StLabels, Waits, ReaderQuiet
  <2>23. StreamState'
    BY <2>3, <2>4, <2>5 DEF StreamState, Performs, ReaderQuiet
  <2>20. \A d \in Clients \ {c} : StreamClient(d)'
    BY <2>1, <2>3, <2>4, IdleClient
  <2> QED
    BY <2>20, <2>21, <2>22, <2>23
<1>14. ASSUME NEW c \in Clients, ReadRefused(c)
      PROVE  StreamReader' /\ (\A d \in Clients : StreamClient(d)') /\ StreamState'
  <2>1. \A d \in Clients \ {c} : pc[d] = "idle"
    BY <1>14, SingleAlone DEF ReadRefused
  <2>2. /\ pc[Reader] \in {"wait", "lock", "dev"} /\ (~sync_flag => ReaderQuiet)
        /\ pc[Reader] = "wait" => ~rthread_sema
    BY <1>14, SingleRuns DEF ReadRefused
  <2>3. \A d \in Clients \ {c} : StreamClient(d)'
    BY <1>14, <2>1, IdleClient
       DEF ReadRefused, Goto, Labels, Threads, DriveTypes, StreamTypes
  <2>4. StreamReader'
    BY <1>14, <2>2, NamesAssumption
       DEF ReadRefused, Goto, Labels, Threads, DriveTypes, StreamTypes,
           StreamReader, StmLabels, ReaderQuiet, lockVars, readVars, bufVars,
           cbVars, stVars
  <2>5. StreamClient(c)'
    BY <1>14, <2>2, NamesAssumption
       DEF ReadRefused, Goto, Labels, Threads, DriveTypes, StreamTypes,
           StreamClient, Busy, Ends, Waits, StLabels, ReaderQuiet, ReadOps,
           CommandOps, StreamOps, lockVars, readVars, bufVars, cbVars, stVars, Calls
  <2>6. StreamState'
    BY <1>14, <2>1, <2>2, NamesAssumption
       DEF ReadRefused, Goto, Labels, Threads, DriveTypes, StreamTypes, StreamState,
           Waits, Performs, lockVars, readVars, bufVars, cbVars, stVars
  <2> QED
    BY <2>3, <2>4, <2>5, <2>6
<1>15. ASSUME NEW c \in Clients, ReadAgain(c)
      PROVE  StreamReader' /\ (\A d \in Clients : StreamClient(d)') /\ StreamState'
  <2>1. \A d \in Clients \ {c} : pc[d] = "idle"
    BY <1>15, SingleAlone DEF ReadAgain
  <2>2. /\ pc[Reader] \in {"wait", "lock", "dev"} /\ (~sync_flag => ReaderQuiet)
        /\ pc[Reader] = "wait" => ~rthread_sema
    BY <1>15, SingleRuns DEF ReadAgain
  <2>3. \A d \in Clients \ {c} : StreamClient(d)'
    BY <1>15, <2>1, IdleClient
       DEF ReadAgain, Goto, Labels, Threads, DriveTypes, StreamTypes
  <2>4. StreamReader'
    BY <1>15, <2>2, NamesAssumption
       DEF ReadAgain, Goto, Labels, Threads, DriveTypes, StreamTypes, StreamReader,
           StmLabels, ReaderQuiet, lockVars, readVars, bufVars, cbVars, stVars
  <2>5. StreamClient(c)'
    BY <1>15, <2>2, NamesAssumption
       DEF ReadAgain, Goto, Labels, Threads, DriveTypes, StreamTypes, StreamClient,
           Busy, Ends, Waits, StLabels, ReaderQuiet, ReadOps, CommandOps, StreamOps,
           lockVars, readVars, bufVars, cbVars, stVars, Calls
  <2>6. StreamState'
    BY <1>15, <2>1, <2>2, NamesAssumption
       DEF ReadAgain, Goto, Labels, Threads, DriveTypes, StreamTypes, StreamState,
           Waits, Performs, lockVars, readVars, bufVars, cbVars, stVars
  <2> QED
    BY <2>3, <2>4, <2>5, <2>6
<1>16. ASSUME NEW c \in Clients, SyncLoop(c)
      PROVE  StreamReader' /\ (\A d \in Clients : StreamClient(d)') /\ StreamState'
  <2>1. \A d \in Clients \ {c} : pc[d] = "idle"
    BY <1>16, SingleAlone DEF SyncLoop
  <2>2. /\ pc[Reader] \in {"wait", "lock", "dev"} /\ (~sync_flag => ReaderQuiet)
        /\ pc[Reader] = "wait" => ~rthread_sema
    BY <1>16, SingleRuns DEF SyncLoop
  <2>3. c \in Threads /\ c # Reader /\ Reader \in Threads /\ \A d \in Clients : d \in Threads
    BY NamesAssumption DEF Threads
  <2>4. /\ op' = op /\ (\A u \in Threads \ {c} : pc'[u] = pc[u])
        /\ UNCHANGED <<sync_flag, rthread_sema, cdread, rd, user_cb, cbAlarm,
                       Stm0Callback, StStat, StIsReading, stmAlarm>>
    BY <1>16
       DEF SyncLoop, Goto, Labels, Threads, lockVars, readVars, bufVars, cbVars,
           stVars
  <2>5. \/ sync_flag /\ pc[c] = "sync" /\ pc'[c] \in {"sync", "sync_wait"}
        \/ sync_flag /\ pc[c] = "rdy" /\ pc'[c] \in {"rdy", "rdy_wait"}
        \/ ~sync_flag /\ pc[c] = "sync" /\ pc'[c] \in {"use", "idle"}
        \/ ~sync_flag /\ pc[c] = "sync" /\ pc'[c] = "start" /\ op[c] = "start"
        \/ ~sync_flag /\ pc[c] = "rdy" /\ pc'[c] = "read"
    BY <1>16, <2>3 DEF SyncLoop, AfterSync, Goto, Labels
  <2>21. StreamReader'
    BY <2>3, <2>4 DEF StreamReader
  <2>22. StreamClient(c)'
    BY <2>2, <2>3, <2>4, <2>5
       DEF StreamClient, Busy, Ends, Waits, StLabels, ReaderQuiet
  <2>23. StreamState'
    BY <2>1, <2>2, <2>3, <2>4, <2>5 DEF StreamState, Performs, Waits
  <2>20. \A d \in Clients \ {c} : StreamClient(d)'
    BY <2>1, <2>3, <2>4, IdleClient
  <2> QED
    BY <2>20, <2>21, <2>22, <2>23
<1>17. ASSUME NEW c \in Clients, NEW more \in BOOLEAN, UseBuffer(c, more)
      PROVE  StreamReader' /\ (\A d \in Clients : StreamClient(d)') /\ StreamState'
  <2>1. \A d \in Clients \ {c} : pc[d] = "idle"
    BY <1>17, SingleAlone DEF UseBuffer
  <2>2. /\ pc[Reader] \in {"wait", "lock", "dev"} /\ (~sync_flag => ReaderQuiet)
        /\ pc[Reader] = "wait" => ~rthread_sema
    BY <1>17, SingleRuns DEF UseBuffer
  <2>3. \A d \in Clients \ {c} : StreamClient(d)'
    BY <1>17, <2>1, IdleClient
       DEF UseBuffer, Goto, Labels, Threads, DriveTypes, StreamTypes
  <2>4. StreamReader'
    BY <1>17, <2>2, NamesAssumption
       DEF UseBuffer, Goto, Labels, Threads, DriveTypes, StreamTypes, StreamReader,
           StmLabels, ReaderQuiet, lockVars, readVars, bufVars, cbVars, stVars
  <2>5. StreamClient(c)'
    BY <1>17, <2>2, NamesAssumption
       DEF UseBuffer, Goto, Labels, Threads, DriveTypes, StreamTypes, StreamClient,
           Busy, Ends, Waits, StLabels, ReaderQuiet, ReadOps, CommandOps, StreamOps,
           lockVars, readVars, bufVars, cbVars, stVars, Calls
  <2>6. StreamState'
    BY <1>17, <2>1, <2>2, NamesAssumption
       DEF UseBuffer, Goto, Labels, Threads, DriveTypes, StreamTypes, StreamState,
           Waits, Performs, lockVars, readVars, bufVars, cbVars, stVars
  <2> QED
    BY <2>3, <2>4, <2>5, <2>6
<1>18. ASSUME NEW c \in Clients, NEW on \in BOOLEAN, SetCallback(c, on)
      PROVE  StreamReader' /\ (\A d \in Clients : StreamClient(d)') /\ StreamState'
  <2>1. op[c] = "callback" /\ op[c] \in game.ops[c]
    BY <1>18 DEF SetCallback, Calls
  <2> QED
    BY <2>1 DEF Single, Uses
<1>19. ASSUME NEW c \in Clients, Halt(c)
      PROVE  StreamReader' /\ (\A d \in Clients : StreamClient(d)') /\ StreamState'
  <2>1. \A d \in Clients \ {c} : pc[d] = "idle"
    BY <1>19, SingleAlone DEF Halt
  <2>2. /\ pc[Reader] \in {"wait", "lock", "dev"} /\ (~sync_flag => ReaderQuiet)
        /\ pc[Reader] = "wait" => ~rthread_sema
    BY <1>19, SingleRuns DEF Halt
  <2>3. c \in Threads /\ c # Reader /\ Reader \in Threads /\ \A d \in Clients : d \in Threads
    BY NamesAssumption DEF Threads
  <2>4. /\ op' = op /\ (\A u \in Threads \ {c} : pc'[u] = pc[u]) /\ pc'[c] = "sync"
        /\ pc[c] \in {"stop", "pause"}
        /\ ~Stm0Callback' /\ ~StIsReading'
        /\ UNCHANGED <<sync_flag, rthread_sema, cdread, rd, user_cb, cbAlarm, stmAlarm>>
    BY <1>19
       DEF Halt, Reset, Goto, Labels, Threads, lockVars, readVars, bufVars, cbVars,
           stVars
  <2>5. \/ op[c] \in {"stop", "start"} /\ ~StStat'
        \/ op[c] = "pause" /\ StStat' = StStat
    BY <1>19 DEF Halt, Reset, Calls
  <2>21. StreamReader'
    BY <2>2, <2>3, <2>4 DEF StreamReader, StmLabels
  <2>22. StreamClient(c)'
    BY <2>3, <2>4, <2>5 DEF StreamClient, Busy, Ends, Waits, StLabels, ReadOps
  <2>23. StreamState'
    BY <2>1, <2>3, <2>4, <2>5 DEF StreamState, Waits, Performs
  <2>20. \A d \in Clients \ {c} : StreamClient(d)'
    BY <2>1, <2>3, <2>4, IdleClient
  <2> QED
    BY <2>20, <2>21, <2>22, <2>23
<1>20. ASSUME NEW c \in Clients, NEW lsn \in Starts, StStart(c, lsn)
      PROVE  StreamReader' /\ (\A d \in Clients : StreamClient(d)') /\ StreamState'
  <2>1. \A d \in Clients \ {c} : pc[d] = "idle"
    BY <1>20, SingleAlone DEF StStart
  <2>2. /\ pc[Reader] \in {"wait", "lock", "dev"} /\ (~sync_flag => ReaderQuiet)
        /\ pc[Reader] = "wait" => ~rthread_sema
    BY <1>20, SingleRuns DEF StStart
  <2>3. c \in Threads /\ c # Reader /\ Reader \in Threads /\ \A d \in Clients : d \in Threads
    BY NamesAssumption DEF Threads
  <2>4. /\ op' = op /\ (\A u \in Threads \ {c} : pc'[u] = pc[u]) /\ pc'[c] = "fill"
        /\ op[c] \in StreamOps /\ ~sync_flag /\ ReaderQuiet
        /\ Stm0Callback' = TRUE /\ ~StIsReading' /\ StStat' = TRUE
        /\ UNCHANGED <<sync_flag, rthread_sema, cdread, rd, user_cb, cbAlarm, stmAlarm>>
    BY <1>20
       DEF StStart, Reset, Goto, Labels, Threads, Calls, StreamClient, Ends,
           lockVars, readVars, bufVars, cbVars
  <2>21. StreamReader'
    BY <2>2, <2>3, <2>4 DEF StreamReader, StmLabels
  <2>22. StreamClient(c)'
    BY <2>3, <2>4 DEF StreamClient, Busy, Ends, Waits, StLabels, ReadOps, StreamOps
  <2>23. StreamState'
    BY <2>3, <2>4 DEF StreamState
  <2>20. \A d \in Clients \ {c} : StreamClient(d)'
    BY <2>1, <2>3, <2>4, IdleClient
  <2> QED
    BY <2>20, <2>21, <2>22, <2>23
<1>21. ASSUME NEW c \in Clients, StReadWait(c)
      PROVE  StreamReader' /\ (\A d \in Clients : StreamClient(d)') /\ StreamState'
  <2>1. \A d \in Clients \ {c} : pc[d] = "idle"
    BY <1>21, SingleAlone DEF StReadWait
  <2>2. /\ pc[Reader] \in {"wait", "lock", "dev"} /\ (~sync_flag => ReaderQuiet)
        /\ pc[Reader] = "wait" => ~rthread_sema
    BY <1>21, SingleRuns DEF StReadWait
  <2>3. \A d \in Clients \ {c} : StreamClient(d)'
    BY <1>21, <2>1, IdleClient
       DEF StReadWait, Goto, Labels, Threads, DriveTypes, StreamTypes
  <2>4. StreamReader'
    BY <1>21, <2>2, NamesAssumption
       DEF StReadWait, Goto, Labels, Threads, DriveTypes, StreamTypes, StreamReader,
           StmLabels, ReaderQuiet, lockVars, readVars, bufVars, cbVars, stVars
  <2>5. StreamClient(c)'
    BY <1>21, <2>2, NamesAssumption
       DEF StReadWait, Goto, Labels, Threads, DriveTypes, StreamTypes, StreamClient,
           Busy, Ends, Waits, StLabels, ReaderQuiet, ReadOps, CommandOps, StreamOps,
           lockVars, readVars, bufVars, cbVars, stVars, Calls
  <2>6. StreamState'
    BY <1>21, <2>1, <2>2, NamesAssumption
       DEF StReadWait, Goto, Labels, Threads, DriveTypes, StreamTypes, StreamState,
           Waits, Performs, lockVars, readVars, bufVars, cbVars, stVars
  <2> QED
    BY <2>3, <2>4, <2>5, <2>6
<1>22. ASSUME NEW c \in Clients, StReadClear(c)
      PROVE  StreamReader' /\ (\A d \in Clients : StreamClient(d)') /\ StreamState'
  <2>1. \A d \in Clients \ {c} : pc[d] = "idle"
    BY <1>22, SingleAlone DEF StReadClear
  <2>2. /\ pc[Reader] \in {"wait", "lock", "dev"} /\ (~sync_flag => ReaderQuiet)
        /\ pc[Reader] = "wait" => ~rthread_sema
    BY <1>22, SingleRuns DEF StReadClear
  <2>3. \A d \in Clients \ {c} : StreamClient(d)'
    BY <1>22, <2>1, IdleClient
       DEF StReadClear, Goto, Labels, Threads, DriveTypes, StreamTypes
  <2>4. StreamReader'
    BY <1>22, <2>2, NamesAssumption
       DEF StReadClear, Goto, Labels, Threads, DriveTypes, StreamTypes,
           StreamReader, StmLabels, ReaderQuiet, lockVars, readVars, bufVars,
           cbVars, stVars
  <2>5. StreamClient(c)'
    BY <1>22, <2>2, NamesAssumption
       DEF StReadClear, Goto, Labels, Threads, DriveTypes, StreamTypes,
           StreamClient, Busy, Ends, Waits, StLabels, ReaderQuiet, ReadOps,
           CommandOps, StreamOps, lockVars, readVars, bufVars, cbVars, stVars, Calls
  <2>6. StreamState'
    BY <1>22, <2>1, <2>2, NamesAssumption
       DEF StReadClear, Goto, Labels, Threads, DriveTypes, StreamTypes, StreamState,
           Waits, Performs, lockVars, readVars, bufVars, cbVars, stVars
  <2> QED
    BY <2>3, <2>4, <2>5, <2>6
<1>23. ASSUME NEW c \in Clients, StReadCopy(c)
      PROVE  StreamReader' /\ (\A d \in Clients : StreamClient(d)') /\ StreamState'
  <2>1. \A d \in Clients \ {c} : pc[d] = "idle"
    BY <1>23, SingleAlone DEF StReadCopy
  <2>2. /\ pc[Reader] \in {"wait", "lock", "dev"} /\ (~sync_flag => ReaderQuiet)
        /\ pc[Reader] = "wait" => ~rthread_sema
    BY <1>23, SingleRuns DEF StReadCopy
  <2>3. \A d \in Clients \ {c} : StreamClient(d)'
    BY <1>23, <2>1, IdleClient
       DEF StReadCopy, Goto, Labels, Threads, DriveTypes, StreamTypes
  <2>4. StreamReader'
    BY <1>23, <2>2, NamesAssumption
       DEF StReadCopy, Goto, Labels, Threads, DriveTypes, StreamTypes, StreamReader,
           StmLabels, ReaderQuiet, lockVars, readVars, bufVars, cbVars, stVars
  <2>5. StreamClient(c)'
    BY <1>23, <2>2, NamesAssumption
       DEF StReadCopy, Goto, Labels, Threads, DriveTypes, StreamTypes, StreamClient,
           Busy, Ends, Waits, StLabels, ReaderQuiet, ReadOps, CommandOps, StreamOps,
           lockVars, readVars, bufVars, cbVars, stVars, Calls
  <2>6. StreamState'
    BY <1>23, <2>1, <2>2, NamesAssumption
       DEF StReadCopy, Goto, Labels, Threads, DriveTypes, StreamTypes, StreamState,
           Waits, Performs, lockVars, readVars, bufVars, cbVars, stVars
  <2> QED
    BY <2>3, <2>4, <2>5, <2>6
<1>24. ASSUME NEW c \in Clients, StReadCommit(c)
      PROVE  StreamReader' /\ (\A d \in Clients : StreamClient(d)') /\ StreamState'
  <2>1. \A d \in Clients \ {c} : pc[d] = "idle"
    BY <1>24, SingleAlone DEF StReadCommit
  <2>2. /\ pc[Reader] \in {"wait", "lock", "dev"} /\ (~sync_flag => ReaderQuiet)
        /\ pc[Reader] = "wait" => ~rthread_sema
    BY <1>24, SingleRuns DEF StReadCommit
  <2>3. \A d \in Clients \ {c} : StreamClient(d)'
    BY <1>24, <2>1, IdleClient
       DEF StReadCommit, Goto, Labels, Threads, DriveTypes, StreamTypes
  <2>4. StreamReader'
    BY <1>24, <2>2, NamesAssumption
       DEF StReadCommit, Goto, Labels, Threads, DriveTypes, StreamTypes,
           StreamReader, StmLabels, ReaderQuiet, lockVars, readVars, bufVars,
           cbVars, stVars
  <2>5. StreamClient(c)'
    BY <1>24, <2>2, NamesAssumption
       DEF StReadCommit, Goto, Labels, Threads, DriveTypes, StreamTypes,
           StreamClient, Busy, Ends, Waits, StLabels, ReaderQuiet, ReadOps,
           CommandOps, StreamOps, lockVars, readVars, bufVars, cbVars, stVars, Calls
  <2>6. StreamState'
    BY <1>24, <2>1, <2>2, NamesAssumption
       DEF StReadCommit, Goto, Labels, Threads, DriveTypes, StreamTypes,
           StreamState, Waits, Performs, lockVars, readVars, bufVars, cbVars, stVars
  <2> QED
    BY <2>3, <2>4, <2>5, <2>6
<1>25. ASSUME NEW t \in Threads, LockBuf(t)
      PROVE  StreamReader' /\ (\A d \in Clients : StreamClient(d)') /\ StreamState'
  <2>1. CASE t \in Clients
    <3>1. \A d \in Clients \ {t} : pc[d] = "idle"
      BY <1>25, <2>1, SingleAlone DEF LockBuf
    <3>2. /\ pc[Reader] \in {"wait", "lock", "dev"} /\ (~sync_flag => ReaderQuiet)
          /\ pc[Reader] = "wait" => ~rthread_sema
      BY <1>25, <2>1, SingleRuns DEF LockBuf
    <3>3. \A d \in Clients \ {t} : StreamClient(d)'
      BY <1>25, <2>1, <3>1, IdleClient
         DEF LockBuf, Goto, Labels, Threads, DriveTypes, StreamTypes
    <3>4. StreamReader'
      BY <1>25, <2>1, <3>2, NamesAssumption
         DEF LockBuf, Goto, Labels, Threads, DriveTypes, StreamTypes, StreamReader,
             StmLabels, ReaderQuiet, lockVars, readVars, bufVars, cbVars, stVars
    <3>5. StreamClient(t)'
      BY <1>25, <2>1, <3>2, NamesAssumption
         DEF LockBuf, Goto, Labels, Threads, DriveTypes, StreamTypes, StreamClient,
             Busy, Ends, Waits, StLabels, ReaderQuiet, ReadOps, CommandOps,
             StreamOps, lockVars, readVars, bufVars, cbVars, stVars, Calls
    <3>6. StreamState'
      BY <1>25, <2>1, <3>1, <3>2, NamesAssumption
         DEF LockBuf, Goto, Labels, Threads, DriveTypes, StreamTypes, StreamState,
             Waits, Performs, lockVars, readVars, bufVars, cbVars, stVars
    <3> QED
      BY <3>3, <3>4, <3>5, <3>6
  <2>2. CASE t = Reader
    <3>1. \A d \in Clients : StreamClient(d)'
      BY <1>25, <2>2, NamesAssumption
         DEF LockBuf, Goto, Labels, Threads, DriveTypes, StreamTypes, StreamClient,
             Busy, Ends, Waits, StLabels, ReaderQuiet, ReadOps, CommandOps,
             StreamOps, StmLabels, Labels, lockVars, readVars, bufVars, cbVars,
             stVars
    <3>2. StreamReader'
      BY <1>25, <2>2, NamesAssumption
         DEF LockBuf, Goto, Labels, Threads, DriveTypes, StreamTypes, StreamReader,
             StmLabels, ReaderQuiet, lockVars, readVars, bufVars, cbVars, stVars
    <3>3. StreamState'
      BY <1>25, <2>2, NamesAssumption
         DEF LockBuf, Goto, Labels, Threads, DriveTypes, StreamTypes, StreamReader,
             StreamState, Waits, Performs, lockVars, readVars, bufVars, cbVars,
             stVars
    <3> QED
      BY <3>1, <3>2, <3>3
  <2> QED
    BY <2>1, <2>2 DEF Threads
<1>26. ASSUME NEW t \in Threads, CbEvent(t)
      PROVE  StreamReader' /\ (\A d \in Clients : StreamClient(d)') /\ StreamState'
  <2>1. CASE t \in Clients
    <3>1. \A d \in Clients \ {t} : pc[d] = "idle"
      BY <1>26, <2>1, SingleAlone DEF CbEvent
    <3>2. /\ pc[Reader] \in {"wait", "lock", "dev"} /\ (~sync_flag => ReaderQuiet)
          /\ pc[Reader] = "wait" => ~rthread_sema
      BY <1>26, <2>1, SingleRuns DEF CbEvent
    <3>3. \A d \in Clients \ {t} : StreamClient(d)'
      BY <1>26, <2>1, <3>1, IdleClient
         DEF CbEvent, Goto, Labels, Threads, DriveTypes, StreamTypes, StreamReader
    <3>4. StreamReader'
      BY <1>26, <2>1, <3>2, NamesAssumption
         DEF CbEvent, Goto, Labels, Threads, DriveTypes, StreamTypes, StreamReader,
             StmLabels, ReaderQuiet, lockVars, readVars, bufVars, cbVars, stVars,
             StreamReader
    <3>5. StreamClient(t)'
      BY <1>26, <2>1, <3>2, NamesAssumption
         DEF CbEvent, Goto, Labels, Threads, DriveTypes, StreamTypes, StreamClient,
             Busy, Ends, Waits, StLabels, ReaderQuiet, ReadOps, CommandOps,
             StreamOps, lockVars, readVars, bufVars, cbVars, stVars, Calls,
             StreamReader
    <3>6. StreamState'
      BY <1>26, <2>1, <3>1, <3>2, NamesAssumption
         DEF CbEvent, Goto, Labels, Threads, DriveTypes, StreamTypes, StreamState,
             Waits, Performs, lockVars, readVars, bufVars, cbVars, stVars,
             StreamReader
    <3> QED
      BY <3>3, <3>4, <3>5, <3>6
  <2>2. CASE t = Reader
    <3>1. \A d \in Clients : StreamClient(d)'
      BY <1>26, <2>2, NamesAssumption
         DEF CbEvent, Goto, Labels, Threads, DriveTypes, StreamTypes, StreamClient,
             Busy, Ends, Waits, StLabels, ReaderQuiet, ReadOps, CommandOps,
             StreamOps, StmLabels, Labels, lockVars, readVars, bufVars, cbVars,
             stVars, StreamReader
    <3>2. StreamReader'
      BY <1>26, <2>2, NamesAssumption
         DEF CbEvent, Goto, Labels, Threads, DriveTypes, StreamTypes, StreamReader,
             StmLabels, ReaderQuiet, lockVars, readVars, bufVars, cbVars, stVars,
             StreamReader
    <3>3. StreamState'
      BY <1>26, <2>2, NamesAssumption
         DEF CbEvent, Goto, Labels, Threads, DriveTypes, StreamTypes, StreamReader,
             StreamState, Waits, Performs, lockVars, readVars, bufVars, cbVars,
             stVars, StreamReader
    <3> QED
      BY <3>1, <3>2, <3>3
  <2> QED
    BY <2>1, <2>2 DEF Threads
<1>27. ASSUME NEW t \in Threads, Signal(t)
      PROVE  StreamReader' /\ (\A d \in Clients : StreamClient(d)') /\ StreamState'
  <2>1. CASE t \in Clients
    <3>1. \A d \in Clients \ {t} : pc[d] = "idle"
      BY <1>27, <2>1, SingleAlone DEF Signal
    <3>2. /\ pc[Reader] \in {"wait", "lock", "dev"} /\ (~sync_flag => ReaderQuiet)
          /\ pc[Reader] = "wait" => ~rthread_sema
      BY <1>27, <2>1, SingleRuns DEF Signal
    <3>3. t \in Threads /\ t # Reader /\ Reader \in Threads /\ \A d \in Clients : d \in Threads
      BY <2>1, NamesAssumption DEF Threads
    <3>4. /\ op' = op /\ (\A u \in Threads \ {t} : pc'[u] = pc[u])
          /\ pc[t] \in {"sig", "resig"} /\ pc'[t] = IF pc[t] = "sig" THEN "set" ELSE "reset"
          /\ ~sync_flag' /\ (pc[t] = "sig" => op[t] \in ReadOps \cup CommandOps)
          /\ UNCHANGED <<rthread_sema, cdread, rd, user_cb, cbAlarm,
                         Stm0Callback, StStat, StIsReading, stmAlarm>>
      BY <1>27, <2>1
         DEF Signal, SignalUnlocks, Goto, Labels, ClientLabels, Threads, Calls,
             readVars, bufVars, cbVars, stVars
    <3>5. ReaderQuiet
      BY <2>1, <3>3, <3>4 DEF StreamClient, Busy, Ends
    <3>21. StreamReader'
      BY <3>3, <3>4 DEF StreamReader
    <3>22. StreamClient(t)'
      BY <2>1, <3>3, <3>4, <3>5
         DEF StreamClient, Busy, Ends, Waits, StLabels, ReaderQuiet
    <3>23. StreamState'
      BY <3>3, <3>4 DEF StreamState
    <3>20. \A d \in Clients \ {t} : StreamClient(d)'
      BY <3>1, <3>3, <3>4, IdleClient
    <3> QED
      BY <3>20, <3>21, <3>22, <3>23
  <2>2. CASE t = Reader
    <3>1. /\ op' = op /\ (\A u \in Threads \ {Reader} : pc'[u] = pc[u]) /\ pc[Reader] \in {"sig", "stm_sig"}
          /\ pc'[Reader] = IF pc[Reader] = "sig" THEN "set" ELSE "stm_set"
          /\ ~sync_flag'
          /\ UNCHANGED <<rthread_sema, cdread, rd, user_cb, cbAlarm,
                         Stm0Callback, StStat, StIsReading, stmAlarm>>
      BY <1>27, <2>2
         DEF Signal, SignalUnlocks, Goto, Labels, ReaderLabels, readVars, bufVars,
             cbVars, stVars
    <3>2. \A d \in Clients : StreamClient(d)'
      BY <3>1, NamesAssumption
         DEF StreamClient, ReaderQuiet, Busy, Ends, Waits, Threads
    <3>3. StreamReader'
      BY <3>1 DEF StreamReader, StmLabels
    <3>4. StreamState'
      BY <3>1 DEF StreamState
    <3> QED
      BY <3>2, <3>3, <3>4
  <2> QED
    BY <2>1, <2>2 DEF Threads
<1>28. ASSUME NEW t \in Threads, SignalEf(t)
      PROVE  StreamReader' /\ (\A d \in Clients : StreamClient(d)') /\ StreamState'
  <2>1. CASE t \in Clients
    <3>1. \A d \in Clients \ {t} : pc[d] = "idle"
      BY <1>28, <2>1, SingleAlone DEF SignalEf
    <3>2. /\ pc[Reader] \in {"wait", "lock", "dev"} /\ (~sync_flag => ReaderQuiet)
          /\ pc[Reader] = "wait" => ~rthread_sema
      BY <1>28, <2>1, SingleRuns DEF SignalEf
    <3>3. \A d \in Clients \ {t} : StreamClient(d)'
      BY <1>28, <2>1, <3>1, IdleClient, SignalEfMoves
         DEF SignalEf, Goto, Labels, Threads, DriveTypes, StreamTypes, Woken,
             AfterEf, AfterSignal, Accepted
    <3>4. StreamReader'
      BY <1>28, <2>1, <3>2, SignalEfMoves, NamesAssumption
         DEF SignalEf, Goto, Labels, Threads, DriveTypes, StreamTypes, StreamReader,
             StmLabels, ReaderQuiet, lockVars, readVars, bufVars, cbVars, stVars,
             Woken, AfterEf, AfterSignal, Accepted
    <3>5. StreamClient(t)'
      BY <1>28, <2>1, <3>2, SignalEfMoves, NamesAssumption
         DEF SignalEf, Goto, Labels, Threads, DriveTypes, StreamTypes, StreamClient,
             Busy, Ends, Waits, StLabels, ReaderQuiet, ReadOps, CommandOps,
             StreamOps, lockVars, readVars, bufVars, cbVars, stVars, Calls, Woken,
             AfterEf, AfterSignal, Accepted
    <3>6. StreamState'
      BY <1>28, <2>1, <3>1, <3>2, SignalEfMoves, NamesAssumption
         DEF SignalEf, Goto, Labels, Threads, DriveTypes, StreamTypes, StreamState,
             Waits, Performs, lockVars, readVars, bufVars, cbVars, stVars, Woken,
             AfterEf, AfterSignal, Accepted
    <3> QED
      BY <3>3, <3>4, <3>5, <3>6
  <2>2. CASE t = Reader
    <3>1. \A d \in Clients : StreamClient(d)'
      BY <1>28, <2>2, SignalEfMoves, NamesAssumption
         DEF SignalEf, Goto, Labels, Threads, DriveTypes, StreamTypes, StreamClient,
             Busy, Ends, Waits, StLabels, ReaderQuiet, ReadOps, CommandOps,
             StreamOps, StmLabels, Labels, lockVars, readVars, bufVars, cbVars,
             stVars, Woken, AfterEf, AfterSignal, Accepted
    <3>2. StreamReader'
      BY <1>28, <2>2, SignalEfMoves, NamesAssumption
         DEF SignalEf, Goto, Labels, Threads, DriveTypes, StreamTypes, StreamReader,
             StmLabels, ReaderQuiet, lockVars, readVars, bufVars, cbVars, stVars,
             Woken, AfterEf, AfterSignal, Accepted
    <3>3. StreamState'
      BY <1>28, <2>2, SignalEfMoves, NamesAssumption
         DEF SignalEf, Goto, Labels, Threads, DriveTypes, StreamTypes, StreamReader,
             StreamState, Waits, Performs, lockVars, readVars, bufVars, cbVars,
             stVars, Woken, AfterEf, AfterSignal, Accepted
    <3> QED
      BY <3>1, <3>2, <3>3
  <2> QED
    BY <2>1, <2>2 DEF Threads
<1>29. ASSUME NEW t \in Threads, Fill(t)
      PROVE  StreamReader' /\ (\A d \in Clients : StreamClient(d)') /\ StreamState'
  <2>0. UNCHANGED <<op, sync_flag, rthread_sema, cdread, rd, user_cb, cbAlarm, Stm0Callback, StStat>>
    BY <1>29 DEF Fill, lockVars, readVars, bufVars, cbVars
  <2>1. CASE t \in Clients
    <3>1. \A d \in Clients \ {t} : pc[d] = "idle"
      BY <1>29, <2>1, SingleAlone DEF Fill
    <3>2. /\ pc[Reader] \in {"wait", "lock", "dev"} /\ (~sync_flag => ReaderQuiet)
          /\ pc[Reader] = "wait" => ~rthread_sema
      BY <1>29, <2>1, SingleRuns DEF Fill
    <3>3. t \in Threads /\ t # Reader /\ Reader \in Threads /\ \A d \in Clients : d \in Threads
      BY <2>1, NamesAssumption DEF Threads
    <3>4. /\ (\A u \in Threads \ {t} : pc'[u] = pc[u]) /\ pc[t] = "fill" /\ op[t] \in StreamOps
          /\ Stm0Callback /\ StStat /\ stmAlarm \in BOOLEAN
          /\ \/ StIsReading /\ StIsReading' = StIsReading /\ stmAlarm' = stmAlarm /\ pc'[t] = "idle"
             \/ ~StIsReading /\ StIsReading' = TRUE /\ stmAlarm' = FALSE /\ pc'[t] = "fill_go"
      BY <1>29, <2>1, <3>3
         DEF Fill, Returns, Goto, Labels, Calls, StreamClient, StreamState,
             StLabels, StreamTypes
    <3>5. ~StIsReading => ~sync_flag /\ ReaderQuiet
      BY <2>1, <3>1, <3>2, <3>4 DEF StreamState, Waits
    <3>21. StreamReader'
      BY <2>0, <3>2, <3>3, <3>4 DEF StreamReader
    <3>22. StreamClient(t)'
      BY <2>0, <2>1, <3>3, <3>4, <3>5
         DEF StreamClient, Busy, Ends, Waits, StLabels, ReaderQuiet, ReadOps,
             StreamOps
    <3>23. StreamState'
      BY <2>0, <2>1, <3>1, <3>3, <3>4 DEF StreamState, Waits, Performs
    <3>20. \A d \in Clients \ {t} : StreamClient(d)'
      BY <3>1, <3>3, <3>4, IdleClient
    <3> QED
      BY <3>20, <3>21, <3>22, <3>23
  <2>2. CASE t = Reader
    <3>1. /\ (\A u \in Threads \ {Reader} : pc'[u] = pc[u]) /\ pc[Reader] = "fill" /\ Reader \in Threads
          /\ Stm0Callback /\ StStat /\ ~sync_flag
          /\ \/ StIsReading /\ StIsReading' = StIsReading /\ stmAlarm' = stmAlarm /\ pc'[Reader] = "wait"
             \/ ~StIsReading /\ StIsReading' = TRUE /\ stmAlarm' = FALSE /\ pc'[Reader] = "fill_go"
      BY <1>29, <2>2
         DEF Fill, Returns, Goto, Labels, Threads, StreamReader, StreamState,
             StmLabels
    <3>2. \A d \in Clients : StreamClient(d)'
      BY <2>0, <3>1, NamesAssumption
         DEF StreamClient, ReaderQuiet, Busy, Ends, Waits, Threads
    <3>3. StreamReader'
      BY <2>0, <3>1 DEF StreamReader, StmLabels
    <3>4. StreamState'
      BY <2>0, <3>1 DEF StreamState
    <3> QED
      BY <3>2, <3>3, <3>4
  <2> QED
    BY <2>1, <2>2 DEF Threads
<1>30. ASSUME NEW t \in Threads, FillGoes(t)
      PROVE  StreamReader' /\ (\A d \in Clients : StreamClient(d)') /\ StreamState'
  <2>0. UNCHANGED <<op, rd, user_cb, cbAlarm, Stm0Callback, StStat>>
    BY <1>30 DEF FillGoes, bufVars, cbVars
  <2>1. CASE t \in Clients
    <3>1. \A d \in Clients \ {t} : pc[d] = "idle"
      BY <1>30, <2>1, SingleAlone DEF FillGoes
    <3>2. /\ pc[Reader] \in {"wait", "lock", "dev"} /\ (~sync_flag => ReaderQuiet)
          /\ pc[Reader] = "wait" => ~rthread_sema
      BY <1>30, <2>1, SingleRuns DEF FillGoes
    <3>3. t \in Threads /\ t # Reader /\ Reader \in Threads /\ \A d \in Clients : d \in Threads
      BY <2>1, NamesAssumption DEF Threads
    <3>4. /\ (\A u \in Threads \ {t} : pc'[u] = pc[u]) /\ pc[t] = "fill_go" /\ pc'[t] = "idle"
          /\ Stm0Callback /\ StStat /\ ~sync_flag /\ ReaderQuiet /\ StIsReading
      BY <1>30, <2>1, <3>3
         DEF FillGoes, Returns, Goto, Labels, StreamClient, Ends, StreamState,
             StLabels
    <3>5. \/ StIsReading' /\ ~stmAlarm'
          \/ /\ ~StIsReading' /\ ~stmAlarm'
             /\ UNCHANGED <<sync_flag, rthread_sema, cdread>>
      BY <1>30, <3>4 DEF FillGoes, StreamReader, lockVars, readVars
    <3>21. StreamReader'
      BY <2>0, <3>3, <3>4, <3>5 DEF StreamReader, ReaderQuiet, StmLabels
    <3>22. StreamClient(t)'
      BY <2>1, <3>4, IdleClient
    <3>23. StreamState'
      BY <2>0, <3>4, <3>5 DEF StreamState
    <3>20. \A d \in Clients \ {t} : StreamClient(d)'
      BY <3>1, <3>3, <3>4, IdleClient
    <3> QED
      BY <3>20, <3>21, <3>22, <3>23
  <2>2. CASE t = Reader
    <3>1. /\ (\A u \in Threads \ {Reader} : pc'[u] = pc[u]) /\ pc[Reader] = "fill_go" /\ pc'[Reader] = "wait"
          /\ Stm0Callback /\ StStat /\ ~sync_flag /\ StIsReading /\ Reader \in Threads
      BY <1>30, <2>2
         DEF FillGoes, Returns, Goto, Labels, Threads, StreamReader, StreamState,
             StmLabels
    <3>2. \/ StIsReading' /\ ~stmAlarm'
          \/ /\ ~StIsReading' /\ ~stmAlarm'
             /\ UNCHANGED <<sync_flag, rthread_sema, cdread>>
      BY <1>30, <2>2, <3>1 DEF FillGoes, StreamReader, lockVars, readVars
    <3>3. \A d \in Clients : StreamClient(d)'
      BY <2>0, <3>1, <3>2, NamesAssumption
         DEF StreamClient, ReaderQuiet, Busy, Ends, Waits, Threads
    <3>4. StreamReader'
      BY <2>0, <3>1, <3>2 DEF StreamReader, StmLabels
    <3>5. StreamState'
      BY <2>0, <3>1, <3>2 DEF StreamState
    <3> QED
      BY <3>3, <3>4, <3>5
  <2> QED
    BY <2>1, <2>2 DEF Threads
<1>31. ASSUME NEW t \in Threads, DeviceReads(t)
      PROVE  StreamReader' /\ (\A d \in Clients : StreamClient(d)') /\ StreamState'
  <2>1. CASE t \in Clients
    <3>1. \A d \in Clients \ {t} : pc[d] = "idle"
      BY <1>31, <2>1, SingleAlone DEF DeviceReads
    <3>2. /\ pc[Reader] \in {"wait", "lock", "dev"} /\ (~sync_flag => ReaderQuiet)
          /\ pc[Reader] = "wait" => ~rthread_sema
      BY <1>31, <2>1, SingleRuns DEF DeviceReads
    <3>3. \A d \in Clients \ {t} : StreamClient(d)'
      BY <1>31, <2>1, <3>1, IdleClient
         DEF DeviceReads, Goto, Labels, Threads, DriveTypes, StreamTypes
    <3>4. StreamReader'
      BY <1>31, <2>1, <3>2, NamesAssumption
         DEF DeviceReads, Goto, Labels, Threads, DriveTypes, StreamTypes,
             StreamReader, StmLabels, ReaderQuiet, lockVars, readVars, bufVars,
             cbVars, stVars
    <3>5. StreamClient(t)'
      BY <1>31, <2>1, <3>2, NamesAssumption
         DEF DeviceReads, Goto, Labels, Threads, DriveTypes, StreamTypes,
             StreamClient, Busy, Ends, Waits, StLabels, ReaderQuiet, ReadOps,
             CommandOps, StreamOps, lockVars, readVars, bufVars, cbVars, stVars,
             Calls
    <3>6. StreamState'
      BY <1>31, <2>1, <3>1, <3>2, NamesAssumption
         DEF DeviceReads, Goto, Labels, Threads, DriveTypes, StreamTypes,
             StreamState, Waits, Performs, lockVars, readVars, bufVars, cbVars,
             stVars
    <3> QED
      BY <3>3, <3>4, <3>5, <3>6
  <2>2. CASE t = Reader
    <3>1. \A d \in Clients : StreamClient(d)'
      BY <1>31, <2>2, NamesAssumption
         DEF DeviceReads, Goto, Labels, Threads, DriveTypes, StreamTypes,
             StreamClient, Busy, Ends, Waits, StLabels, ReaderQuiet, ReadOps,
             CommandOps, StreamOps, StmLabels, Labels, lockVars, readVars, bufVars,
             cbVars, stVars
    <3>2. StreamReader'
      BY <1>31, <2>2, NamesAssumption
         DEF DeviceReads, Goto, Labels, Threads, DriveTypes, StreamTypes,
             StreamReader, StmLabels, ReaderQuiet, lockVars, readVars, bufVars,
             cbVars, stVars
    <3>3. StreamState'
      BY <1>31, <2>2, NamesAssumption
         DEF DeviceReads, Goto, Labels, Threads, DriveTypes, StreamTypes,
             StreamReader, StreamState, Waits, Performs, lockVars, readVars,
             bufVars, cbVars, stVars
    <3> QED
      BY <3>1, <3>2, <3>3
  <2> QED
    BY <2>1, <2>2 DEF Threads
<1>32. ASSUME ReaderWakes
      PROVE  StreamReader' /\ (\A d \in Clients : StreamClient(d)') /\ StreamState'
  <2>1. \A d \in Clients : StreamClient(d)'
    BY <1>32, NamesAssumption
       DEF ReaderWakes, Goto, Labels, Threads, DriveTypes, StreamTypes,
           StreamClient, Busy, Ends, Waits, StLabels, ReaderQuiet, ReadOps,
           CommandOps, StreamOps, StmLabels, Labels, lockVars, readVars, bufVars,
           cbVars, stVars
  <2>2. StreamReader'
    BY <1>32, NamesAssumption
       DEF ReaderWakes, Goto, Labels, Threads, DriveTypes, StreamTypes,
           StreamReader, StmLabels, ReaderQuiet, lockVars, readVars, bufVars,
           cbVars, stVars
  <2>3. StreamState'
    BY <1>32, NamesAssumption
       DEF ReaderWakes, Goto, Labels, Threads, DriveTypes, StreamTypes,
           StreamReader, StreamState, Waits, Performs, lockVars, readVars, bufVars,
           cbVars, stVars
  <2> QED
    BY <2>1, <2>2, <2>3
<1>33. ASSUME ReaderDone
      PROVE  StreamReader' /\ (\A d \in Clients : StreamClient(d)') /\ StreamState'
  <2>1. \A d \in Clients : StreamClient(d)'
    BY <1>33, NamesAssumption
       DEF ReaderDone, Goto, Labels, Threads, DriveTypes, StreamTypes, StreamClient,
           Busy, Ends, Waits, StLabels, ReaderQuiet, ReadOps, CommandOps, StreamOps,
           StmLabels, Labels, lockVars, readVars, bufVars, cbVars, stVars
  <2>2. StreamReader'
    BY <1>33, NamesAssumption
       DEF ReaderDone, Goto, Labels, Threads, DriveTypes, StreamTypes, StreamReader,
           StmLabels, ReaderQuiet, lockVars, readVars, bufVars, cbVars, stVars
  <2>3. StreamState'
    BY <1>33, NamesAssumption
       DEF ReaderDone, Goto, Labels, Threads, DriveTypes, StreamTypes, StreamReader,
           StreamState, Waits, Performs, lockVars, readVars, bufVars, cbVars, stVars
  <2> QED
    BY <2>1, <2>2, <2>3
<1>34. ASSUME ReaderRechecks
      PROVE  StreamReader' /\ (\A d \in Clients : StreamClient(d)') /\ StreamState'
  <2>1. \A d \in Clients : StreamClient(d)'
    BY <1>34, NamesAssumption
       DEF ReaderRechecks, Goto, Labels, Threads, DriveTypes, StreamTypes,
           StreamClient, Busy, Ends, Waits, StLabels, ReaderQuiet, ReadOps,
           CommandOps, StreamOps, StmLabels, Labels, lockVars, readVars, bufVars,
           cbVars, stVars
  <2>2. StreamReader'
    BY <1>34, NamesAssumption
       DEF ReaderRechecks, Goto, Labels, Threads, DriveTypes, StreamTypes,
           StreamReader, StmLabels, ReaderQuiet, lockVars, readVars, bufVars,
           cbVars, stVars
  <2>3. StreamState'
    BY <1>34, NamesAssumption
       DEF ReaderRechecks, Goto, Labels, Threads, DriveTypes, StreamTypes,
           StreamReader, StreamState, Waits, Performs, lockVars, readVars, bufVars,
           cbVars, stVars
  <2> QED
    BY <2>1, <2>2, <2>3
<1>35. ASSUME StmCallback
      PROVE  StreamReader' /\ (\A d \in Clients : StreamClient(d)') /\ StreamState'
  <2>1. \A d \in Clients : StreamClient(d)'
    BY <1>35, NamesAssumption
       DEF StmCallback, Goto, Labels, Threads, DriveTypes, StreamTypes,
           StreamClient, Busy, Ends, Waits, StLabels, ReaderQuiet, ReadOps,
           CommandOps, StreamOps, StmLabels, Labels, lockVars, readVars, bufVars,
           cbVars, stVars
  <2>2. StreamReader'
    BY <1>35, NamesAssumption
       DEF StmCallback, Goto, Labels, Threads, DriveTypes, StreamTypes,
           StreamReader, StmLabels, ReaderQuiet, lockVars, readVars, bufVars,
           cbVars, stVars
  <2>3. StreamState'
    BY <1>35, NamesAssumption
       DEF StmCallback, Goto, Labels, Threads, DriveTypes, StreamTypes,
           StreamReader, StreamState, Waits, Performs, lockVars, readVars, bufVars,
           cbVars, stVars
  <2> QED
    BY <2>1, <2>2, <2>3
<1>36. ASSUME NEW again \in BOOLEAN, EventAlarm(again)
      PROVE  StreamReader' /\ (\A d \in Clients : StreamClient(d)') /\ StreamState'
  BY <1>36 DEF EventAlarm, StreamReader
<1>37. ASSUME StmSchedule
      PROVE  StreamReader' /\ (\A d \in Clients : StreamClient(d)') /\ StreamState'
  BY <1>37 DEF StmSchedule, StreamReader
<1> QED
  BY <1>1, <1>2, <1>3, <1>4, <1>5, <1>6, <1>7, <1>8, <1>9, <1>10, <1>11, <1>12,
     <1>13, <1>14, <1>15, <1>16, <1>17, <1>18, <1>19, <1>20, <1>21, <1>22, <1>23,
     <1>24, <1>25, <1>26, <1>27, <1>28, <1>29, <1>30, <1>31, <1>32, <1>33, <1>34,
     <1>35, <1>36, <1>37
     DEF Next, ClientCalls, ClientContinues, Shared, ReaderContinues, Interrupts,
         Threads

----------------------------------------------------------------------------
(* The event flag *)

LEMMA FlagNext ==
  ASSUME Types, Calls, Drive, RegularCalls, NoStream, Streams, FlagClass, FlagRight, Next
  PROVE  FlagRight'
<1> USE DEF Types
<1>e. \A c \in Clients : pc[c] \in {"set", "reset"} => ~sync_flag
  BY DEF FlagClass, RegularCalls, SyncLabels, Streams, StreamClient, Ends
<1>s. ~stmAlarm
  BY DEF FlagClass, NoStream, Streams, StreamReader
<1>r. \A c \in Clients : Runs(c) => pc[Reader] \notin {"set", "stm_set"}
  BY NamesAssumption DEF FlagClass, Runs, ReaderWaiting
<1>1. ASSUME NEW c \in Clients, NEW o \in ReadOps, BeginRead(c, o)
      PROVE  FlagRight'
  <2>1. pc'[Reader] \notin {"set", "stm_set"} \/ pc'[Reader] = pc[Reader]
    BY <1>1, NamesAssumption
       DEF BeginRead, Goto, Labels, Threads, May, TakesIo, TakesSearch
  <2> QED
    BY <1>1, <2>1 DEF BeginRead, FlagRight, lockVars, readVars
<1>2. ASSUME NEW c \in Clients, BeginSync(c)
      PROVE  FlagRight'
  <2>1. pc'[Reader] \notin {"set", "stm_set"} \/ pc'[Reader] = pc[Reader]
    BY <1>2, NamesAssumption DEF BeginSync, Goto, Labels, Threads, May
  <2> QED
    BY <1>2, <2>1 DEF BeginSync, FlagRight, lockVars, readVars
<1>3. ASSUME NEW c \in Clients, NEW o \in CommandOps, BeginCommand(c, o)
      PROVE  FlagRight'
  <2>1. pc'[Reader] \notin {"set", "stm_set"} \/ pc'[Reader] = pc[Reader]
    BY <1>3, NamesAssumption DEF BeginCommand, Goto, Labels, Threads, May
  <2> QED
    BY <1>3, <2>1 DEF BeginCommand, FlagRight, lockVars, readVars
<1>4. ASSUME NEW c \in Clients, BeginCallback(c)
      PROVE  FlagRight'
  <2>1. pc'[Reader] \notin {"set", "stm_set"} \/ pc'[Reader] = pc[Reader]
    BY <1>4, NamesAssumption DEF BeginCallback, Goto, Labels, Threads, May
  <2> QED
    BY <1>4, <2>1 DEF BeginCallback, FlagRight, lockVars, readVars
<1>5. ASSUME NEW c \in Clients, NEW o \in StreamOps, BeginHalt(c, o)
      PROVE  FlagRight'
  <2>1. pc'[Reader] \notin {"set", "stm_set"} \/ pc'[Reader] = pc[Reader]
    BY <1>5, NamesAssumption DEF BeginHalt, Goto, Labels, Threads, May
  <2> QED
    BY <1>5, <2>1 DEF BeginHalt, FlagRight, lockVars, readVars
<1>6. ASSUME NEW c \in Clients, BeginStart(c)
      PROVE  FlagRight'
  <2>1. pc'[Reader] \notin {"set", "stm_set"} \/ pc'[Reader] = pc[Reader]
    BY <1>6, NamesAssumption DEF BeginStart, Goto, Labels, Threads, May
  <2> QED
    BY <1>6, <2>1 DEF BeginStart, FlagRight, lockVars, readVars
<1>7. ASSUME NEW c \in Clients, BeginResume(c)
      PROVE  FlagRight'
  <2>1. pc'[Reader] \notin {"set", "stm_set"} \/ pc'[Reader] = pc[Reader]
    BY <1>7, NamesAssumption DEF BeginResume, Goto, Labels, Threads, May
  <2> QED
    BY <1>7, <2>1 DEF BeginResume, FlagRight, lockVars, readVars
<1>8. ASSUME NEW c \in Clients, NEW n \in game.counts, BeginStRead(c, n)
      PROVE  FlagRight'
  <2>1. pc'[Reader] = pc[Reader]
    BY <1>8, StReadMoves, WokenLabels, NamesAssumption DEF Threads
  <2> QED
    BY <1>8, <2>1 DEF BeginStRead, SetEf, FlagRight, readVars
<1>9. ASSUME NEW c \in Clients, LockIo(c)
      PROVE  FlagRight'
  <2>1. pc'[Reader] \notin {"set", "stm_set"} \/ pc'[Reader] = pc[Reader]
    BY <1>9, NamesAssumption DEF LockIo, Goto, Labels, Threads
  <2> QED
    BY <1>9, <2>1 DEF LockIo, FlagRight, lockVars, readVars
<1>10. ASSUME NEW c \in Clients, WaitEf(c)
      PROVE  FlagRight'
  <2>1. pc'[Reader] \notin {"set", "stm_set"} \/ pc'[Reader] = pc[Reader]
    BY <1>10, NamesAssumption DEF WaitEf, Goto, Labels, Threads, AfterEf
  <2> QED
    BY <1>10, <2>1 DEF WaitEf, FlagRight, lockVars, readVars
<1>11. ASSUME NEW c \in Clients, LockSearch(c)
      PROVE  FlagRight'
  <2>1. pc'[Reader] \notin {"set", "stm_set"} \/ pc'[Reader] = pc[Reader]
    BY <1>11, NamesAssumption DEF LockSearch, Goto, Labels, Threads
  <2> QED
    BY <1>11, <2>1 DEF LockSearch, FlagRight, lockVars, readVars
<1>12. ASSUME NEW c \in Clients, ReadAsync(c)
      PROVE  FlagRight'
  <2>1. pc'[Reader] = pc[Reader] /\ pc[Reader] \notin {"set", "stm_set"}
    BY <1>12, <1>r, NamesAssumption DEF ReadAsync, Goto, Labels
  <2> QED
    BY <1>12, <2>1 DEF ReadAsync, Accept, FlagRight
<1>13. ASSUME NEW c \in Clients, ReadSync(c)
      PROVE  FlagRight'
  <2>1. pc'[Reader] = pc[Reader] /\ pc[Reader] \notin {"set", "stm_set"}
    BY <1>13, <1>r, NamesAssumption DEF ReadSync, Goto, Labels
  <2> QED
    BY <1>13, <2>1 DEF ReadSync, FlagRight
<1>14. ASSUME NEW c \in Clients, ReadRefused(c)
      PROVE  FlagRight'
  <2>1. pc'[Reader] \notin {"set", "stm_set"} \/ pc'[Reader] = pc[Reader]
    BY <1>14, NamesAssumption DEF ReadRefused, Goto, Labels, Threads
  <2> QED
    BY <1>14, <2>1 DEF ReadRefused, FlagRight, lockVars, readVars
<1>15. ASSUME NEW c \in Clients, ReadAgain(c)
      PROVE  FlagRight'
  <2>1. pc'[Reader] \notin {"set", "stm_set"} \/ pc'[Reader] = pc[Reader]
    BY <1>15, NamesAssumption DEF ReadAgain, Goto, Labels, Threads
  <2> QED
    BY <1>15, <2>1 DEF ReadAgain, FlagRight, lockVars, readVars
<1>16. ASSUME NEW c \in Clients, SyncLoop(c)
      PROVE  FlagRight'
  <2>1. pc'[Reader] \notin {"set", "stm_set"} \/ pc'[Reader] = pc[Reader]
    BY <1>16, NamesAssumption DEF SyncLoop, Goto, Labels, Threads, AfterSync
  <2> QED
    BY <1>16, <2>1 DEF SyncLoop, FlagRight, lockVars, readVars
<1>17. ASSUME NEW c \in Clients, NEW more \in BOOLEAN, UseBuffer(c, more)
      PROVE  FlagRight'
  <2>1. pc'[Reader] \notin {"set", "stm_set"} \/ pc'[Reader] = pc[Reader]
    BY <1>17, NamesAssumption DEF UseBuffer, Goto, Labels, Threads
  <2> QED
    BY <1>17, <2>1 DEF UseBuffer, FlagRight, lockVars, readVars
<1>18. ASSUME NEW c \in Clients, NEW on \in BOOLEAN, SetCallback(c, on)
      PROVE  FlagRight'
  <2>1. pc'[Reader] \notin {"set", "stm_set"} \/ pc'[Reader] = pc[Reader]
    BY <1>18, NamesAssumption DEF SetCallback, Goto, Labels, Threads
  <2> QED
    BY <1>18, <2>1 DEF SetCallback, FlagRight, lockVars, readVars
<1>19. ASSUME NEW c \in Clients, Halt(c)
      PROVE  FlagRight'
  <2>1. pc'[Reader] \notin {"set", "stm_set"} \/ pc'[Reader] = pc[Reader]
    BY <1>19, NamesAssumption DEF Halt, Goto, Labels, Threads
  <2> QED
    BY <1>19, <2>1 DEF Halt, FlagRight, lockVars, readVars
<1>20. ASSUME NEW c \in Clients, NEW lsn \in Starts, StStart(c, lsn)
      PROVE  FlagRight'
  <2>1. pc'[Reader] \notin {"set", "stm_set"} \/ pc'[Reader] = pc[Reader]
    BY <1>20, NamesAssumption DEF StStart, Goto, Labels, Threads
  <2> QED
    BY <1>20, <2>1 DEF StStart, FlagRight, lockVars, readVars
<1>21. ASSUME NEW c \in Clients, StReadWait(c)
      PROVE  FlagRight'
  <2>1. pc'[Reader] \notin {"set", "stm_set"} \/ pc'[Reader] = pc[Reader]
    BY <1>21, NamesAssumption DEF StReadWait, Goto, Labels, Threads
  <2> QED
    BY <1>21, <2>1 DEF StReadWait, FlagRight, lockVars, readVars
<1>22. ASSUME NEW c \in Clients, StReadClear(c)
      PROVE  FlagRight'
  <2>1. pc'[Reader] \notin {"set", "stm_set"} \/ pc'[Reader] = pc[Reader]
    BY <1>22, NamesAssumption DEF StReadClear, Goto, Labels, Threads
  <2> QED
    BY <1>22, <2>1 DEF StReadClear, FlagRight, lockVars, readVars
<1>23. ASSUME NEW c \in Clients, StReadCopy(c)
      PROVE  FlagRight'
  <2>1. pc'[Reader] \notin {"set", "stm_set"} \/ pc'[Reader] = pc[Reader]
    BY <1>23, NamesAssumption DEF StReadCopy, Goto, Labels, Threads
  <2> QED
    BY <1>23, <2>1 DEF StReadCopy, FlagRight, lockVars, readVars
<1>24. ASSUME NEW c \in Clients, StReadCommit(c)
      PROVE  FlagRight'
  <2>1. pc'[Reader] \notin {"set", "stm_set"} \/ pc'[Reader] = pc[Reader]
    BY <1>24, NamesAssumption DEF StReadCommit, Goto, Labels, Threads
  <2> QED
    BY <1>24, <2>1 DEF StReadCommit, FlagRight, lockVars, readVars
<1>25. ASSUME NEW t \in Threads, LockBuf(t)
      PROVE  FlagRight'
  <2>1. pc'[Reader] \notin {"set", "stm_set"} \/ pc'[Reader] = pc[Reader]
    BY <1>25 DEF LockBuf, Goto, Labels, Threads
  <2> QED
    BY <1>25, <2>1 DEF LockBuf, FlagRight, lockVars, readVars
<1>26. ASSUME NEW t \in Threads, CbEvent(t)
      PROVE  FlagRight'
  <2>1. pc'[Reader] \notin {"set", "stm_set"} \/ pc'[Reader] = pc[Reader]
    BY <1>26 DEF CbEvent, Goto, Labels, Threads
  <2> QED
    BY <1>26, <2>1 DEF CbEvent, FlagRight, lockVars, readVars
<1>27. ASSUME NEW t \in Threads, Signal(t)
      PROVE  FlagRight'
  BY <1>27 DEF Signal, SignalUnlocks, FlagRight, readVars
<1>28. ASSUME NEW t \in Threads, SignalEf(t)
      PROVE  FlagRight'
  <2>1. ~sync_flag /\ sync_flag' = sync_flag /\ unfinished' = unfinished
    BY <1>28, <1>e
       DEF SignalEf, FlagRight, Threads, Labels, ClientLabels, ReaderLabels,
           readVars
  <2> QED
    BY <2>1, DriveFree DEF FlagRight
<1>29. ASSUME NEW t \in Threads, Fill(t)
      PROVE  FlagRight'
  <2>1. pc'[Reader] \notin {"set", "stm_set"} \/ pc'[Reader] = pc[Reader]
    BY <1>29 DEF Fill, Goto, Labels, Threads, Returns
  <2> QED
    BY <1>29, <2>1 DEF Fill, FlagRight, lockVars, readVars
<1>30. ASSUME NEW t \in Threads, FillGoes(t)
      PROVE  FlagRight'
  <2>1. pc'[Reader] \notin {"set", "stm_set"} \/ (t = Reader /\ pc'[Reader] = pc[Reader])
    BY <1>30, <1>r DEF FillGoes, Returns, Goto, Labels, Threads
  <2>2. pc'[Reader] \notin {"set", "stm_set"}
    BY <1>30, <2>1 DEF FillGoes
  <2> QED
    BY <1>30, <2>2 DEF FillGoes, Accept, FlagRight, lockVars, readVars
<1>31. ASSUME NEW t \in Threads, DeviceReads(t)
      PROVE  FlagRight'
  <2>1. pc'[Reader] \notin {"set", "stm_set"} \/ pc'[Reader] = pc[Reader]
    BY <1>31 DEF DeviceReads, Goto, Labels, Threads
  <2> QED
    BY <1>31, <2>1 DEF DeviceReads, FlagRight, lockVars
<1>32. ASSUME ReaderWakes
      PROVE  FlagRight'
  <2>1. pc'[Reader] \notin {"set", "stm_set"} \/ pc'[Reader] = pc[Reader]
    BY <1>32 DEF ReaderWakes, Goto, Labels, Threads
  <2> QED
    BY <1>32, <2>1 DEF ReaderWakes, FlagRight, lockVars, readVars
<1>33. ASSUME ReaderDone
      PROVE  FlagRight'
  <2>1. pc'[Reader] \notin {"set", "stm_set"} \/ pc'[Reader] = pc[Reader]
    BY <1>33 DEF ReaderDone, Goto, Labels, Threads
  <2> QED
    BY <1>33, <2>1 DEF ReaderDone, FlagRight, lockVars, readVars
<1>34. ASSUME ReaderRechecks
      PROVE  FlagRight'
  <2>1. pc'[Reader] \notin {"set", "stm_set"} \/ pc'[Reader] = pc[Reader]
    BY <1>34 DEF ReaderRechecks, Goto, Labels, Threads
  <2> QED
    BY <1>34, <2>1 DEF ReaderRechecks, FlagRight, lockVars, readVars
<1>35. ASSUME StmCallback
      PROVE  FlagRight'
  <2>1. pc'[Reader] \notin {"set", "stm_set"} \/ pc'[Reader] = pc[Reader]
    BY <1>35 DEF StmCallback, Goto, Labels, Threads
  <2> QED
    BY <1>35, <2>1 DEF StmCallback, FlagRight, lockVars, readVars
<1>36. ASSUME NEW again \in BOOLEAN, EventAlarm(again)
      PROVE  FlagRight'
  <2>1. pc'[Reader] = pc[Reader]
    BY <1>36, EventAlarmMoves, WokenLabels DEF Threads
  <2>2. sync_flag /\ \A a \in Askers : a \notin unfinished
    BY <1>36 DEF EventAlarm, Drive, Performs, Busy
  <2> QED
    BY <1>36, <2>1, <2>2 DEF EventAlarm, FlagRight, DriveTypes, readVars
<1>37. ASSUME StmSchedule
      PROVE  FlagRight'
  BY <1>37, <1>s DEF StmSchedule
<1> QED
  BY <1>1, <1>2, <1>3, <1>4, <1>5, <1>6, <1>7, <1>8, <1>9, <1>10, <1>11, <1>12,
     <1>13, <1>14, <1>15, <1>16, <1>17, <1>18, <1>19, <1>20, <1>21, <1>22, <1>23,
     <1>24, <1>25, <1>26, <1>27, <1>28, <1>29, <1>30, <1>31, <1>32, <1>33, <1>34,
     <1>35, <1>36, <1>37
     DEF Next, ClientCalls, ClientContinues, Shared, ReaderContinues, Interrupts,
         Threads

----------------------------------------------------------------------------
(* The invariant *)

LEMMA ClassesFixed ==
  ASSUME game' = game
  PROVE  /\ Single' <=> Single
         /\ Regular' <=> Regular
         /\ Silent' <=> Silent
         /\ Covered' <=> Covered
         /\ FlagClass' <=> FlagClass
<1>1. \A O : Uses(O)' <=> Uses(O)
  BY DEF Uses
<1>2. (Single' <=> Single) /\ (Regular' <=> Regular) /\ (Silent' <=> Silent)
  BY <1>1 DEF Single, Regular, Silent
<1> QED
  BY <1>2 DEF Covered, FlagClass

LEMMA CoveredEnds ==
  ASSUME Covered, RegularCalls, Streams
  PROVE  EndsAlone
<1>1. CASE Regular
  BY <1>1 DEF EndsAlone, RegularCalls, SyncLabels
<1>2. CASE Single
  BY <1>2 DEF EndsAlone, Streams, StreamReader, StreamClient, Ends
<1> QED
  BY <1>1, <1>2 DEF Covered

LEMMA CoreInit ==
  ASSUME Init
  PROVE  CoreInv
<1>1. Types
  BY TypesInit
<1>2. /\ pc[Reader] = "wait" /\ \A c \in Clients : pc[c] = "idle"
      /\ \A t \in Threads : pc[t] \in {"wait", "idle"}
      /\ ~sync_flag /\ ~rthread_sema /\ ~cbAlarm /\ ~user_cb /\ unfinished = {}
      /\ StStreamed = 0 /\ StWritePtr = 0 /\ StReadPtr = 0
      /\ ~StStat /\ ~Stm0Callback /\ ~StIsReading /\ ~stmAlarm
  BY NamesAssumption DEF Init, Threads
<1>3. Calls /\ Semaphores /\ RegularCalls
  BY <1>2 DEF Calls, Semaphores, RegularCalls, SyncLabels
<1>4. NoStream
  BY <1>2 DEF NoStream, StLabels, StmLabels
<1>5. \A t \in Threads : ~Busy(t) /\ ~Performs(t)
  BY <1>2 DEF Busy, Performs
<1>6. Drive
  BY <1>2, <1>5 DEF Drive
<1>7. Buffers
  BY <1>2, <1>5 DEF Buffers, Pending
<1>8. Flag
  BY <1>2 DEF Flag, FlagRight
<1>9. Streams
  <2>1. \A c \in Clients : ~Busy(c)
    BY <1>5 DEF Threads
  <2> QED
    BY <1>2, <2>1
       DEF Streams, StreamReader, StreamClient, StreamState, Ends, Waits, StLabels,
           StmLabels
<1> QED
  BY <1>1, <1>3, <1>4, <1>6, <1>7, <1>8, <1>9 DEF CoreInv

LEMMA CoreStep ==
  ASSUME CoreInv, Next
  PROVE  CoreInv'
<1>1. Types /\ Calls /\ Semaphores /\ RegularCalls /\ NoStream /\ Streams /\ Flag
  BY DEF CoreInv
<1>2. /\ Single' <=> Single
      /\ Covered' <=> Covered
      /\ FlagClass' <=> FlagClass
  BY GameFixed, ClassesFixed
<1>3. Types' /\ Calls' /\ Semaphores' /\ RegularCalls' /\ NoStream'
  BY <1>1, TypesNext, CallsNext, SemaphoresNext, RegularCallsNext, NoStreamNext
<1>4. Covered => Drive' /\ Buffers'
  BY <1>1, CoveredEnds, DriveNext, BuffersNext DEF CoreInv
<1>5. Streams'
  BY <1>1, <1>2, StreamsNext DEF CoreInv, Covered, Streams
<1>6. Flag'
  BY <1>1, <1>2, FlagNext DEF CoreInv, Covered, FlagClass, Flag
<1> QED
  BY <1>2, <1>3, <1>4, <1>5, <1>6 DEF CoreInv

LEMMA CoreStutter ==
  ASSUME CoreInv, UNCHANGED vars
  PROVE  CoreInv'
<1> USE DEF vars, lockVars, readVars, bufVars, cbVars, stVars, ringVars, localVars
<1>1. Types' /\ game' = game
  BY TypesStutter DEF CoreInv
<1>2. (Single' <=> Single) /\ (Covered' <=> Covered) /\ (FlagClass' <=> FlagClass)
      /\ (Regular' <=> Regular) /\ (Silent' <=> Silent)
  BY <1>1, ClassesFixed
<1>3. Calls' /\ Semaphores'
  BY DEF CoreInv, Calls, Semaphores, ClientRead
<1>4. RegularCalls' /\ NoStream' /\ Flag'
  BY <1>2 DEF CoreInv, RegularCalls, NoStream, Flag, FlagRight
<1>5. \A t \in Threads : Busy(t)' = Busy(t) /\ Performs(t)' = Performs(t)
  BY DEF Busy, Performs
<1>6. Covered => Drive'
  BY <1>5, DriveKept DEF CoreInv
<1>7. Covered => Buffers'
  <2>1. \A c \in Clients : Follows(c)
    BY DEF Follows
  <2>2. \A r \in Read : Pending(r)' <=> Pending(r)
    BY <1>5 DEF Pending
  <2> QED
    BY <2>1, <2>2, BuffersKept DEF CoreInv
<1>8. Streams'
  <2>1. Single => \A c \in Clients : StreamClient(c)'
    BY DEF CoreInv, Streams, StreamClient, Busy, Ends, Waits, ReaderQuiet
  <2>2. Single => StreamReader'
    BY DEF CoreInv, Streams, StreamReader
  <2>3. Single => StreamState'
    BY DEF CoreInv, Streams, StreamState, Waits, Performs
  <2> QED
    BY <1>2, <2>1, <2>2, <2>3 DEF Streams
<1> QED
  BY <1>1, <1>2, <1>3, <1>4, <1>6, <1>7, <1>8 DEF CoreInv

\* What the semaphores, the drive, the event flag and a stream are at any time,
\* whichever of its calls each thread of the game is in: the invariant that the
\* theorems below rest on.
THEOREM CoreAlways == Spec => []CoreInv
<1>1. Init => CoreInv
  BY CoreInit
<1>2. CoreInv /\ [Next]_vars => CoreInv'
  BY CoreStep, CoreStutter
<1> QED
  BY <1>1, <1>2, PTL DEF Spec

\* The files, searches and EE reads of all threads of a game parse and copy their
\* own sectors, although they read into two static buffers: cdrom_io_sema and
\* cdvdman_searchfilesema are held from the read to the use, and sceCdSync waits
\* for one's own read.
THEOREM BufferOwn == Spec => [](Covered => BufferIsOwn)
<1>1. CoreInv => (Covered => BufferIsOwn)
  <2> SUFFICES ASSUME CoreInv, Covered, NEW c \in Clients, pc[c] = "use"
               PROVE  holds[Target(op[c])] = c
    BY DEF BufferIsOwn
  <2>1. op[c] \in WaitingOps
    BY DEF CoreInv, Calls
  <2> QED
    BY <2>1 DEF CoreInv, Buffers
<1> QED
  BY <1>1, CoreAlways, PTL

\* Whoever finds sync_flag clear finds no accepted read that is not carried out;
\* and so does who finds bit 1 of the event flag set, if neither the game's
\* threads nor the stream's alarm can take the drive between the two halves of
\* cdvdman_signal_read_end.
THEOREM DriveReady ==
  Spec => [](/\ Covered => (~sync_flag => unfinished = {})
             /\ Covered /\ (game.mixes \/ FlagClass) => ReadyMeansDone)
<1>1. CoreInv => (Covered => (~sync_flag => unfinished = {}))
  BY DriveFree DEF CoreInv, Types
<1>2. CoreInv => (Covered /\ (game.mixes \/ FlagClass) => ReadyMeansDone)
  BY <1>1 DEF CoreInv, Flag, FlagRight, ReadyMeansDone
<1> QED
  BY <1>1, <1>2, CoreAlways, PTL

=============================================================================
