------------------------- MODULE CdvdManRingProofs -------------------------
(***************************************************************************)
(* Proofs about the ring of the emulated disc drive's streams: its         *)
(* counters, for every game, and the order of its sectors, for the games   *)
(* that stream from one thread (Single of CdvdManProofs).                  *)
(***************************************************************************)
EXTENDS CdvdManProofs

\* The write pointer stands at a bank.
Aligned == \E k \in 0..(StBankmax - 1) : StWritePtr = k * StBanksize

\* Between the pointers lie StStreamed sectors, around the ring.
Distance == \E k \in Int : StWritePtr - StReadPtr - StStreamed = k * StBufmax

\* ... and no more than fit.
Within ==
  /\ 0 <= StStreamed /\ StStreamed <= StBufmax
  /\ StWritePtr = StReadPtr + StStreamed \/ StWritePtr = StReadPtr + StStreamed - StBufmax

\* The bank at the write pointer holds the sectors from Stlsn on.
BankFilled == \A s \in Bank(StWritePtr) : ring[s] = (Stlsn + s - StWritePtr) % LsnSpace

DoneLabels == {"done", "stm_sig", "stm_set", "stm", "callback"}

\* The read that StIsReading announces goes to the bank at the write pointer,
\* which is free, and is counted when it is done.  A read of a stream that was
\* stopped meanwhile finds the ring empty, one of a paused stream finds the bank
\* free.
RingReads ==
  /\ \A r \in Read : Pending(r) /\ r.to = "ring" =>
       /\ StStreamed = 0 \/ (r.at = StWritePtr /\ Room)
       /\ StIsReading => Room /\ r.at = StWritePtr /\ r.lsn = Stlsn
  /\ \A r \in Read : Pending(r) /\ StIsReading => r.to = "ring"
  /\ pc[Reader] \in DoneLabels /\ StIsReading => Room /\ BankFilled
  /\ \A t \in Threads :
       pc[t] = "fill_go" => ptr[t] = Full \/ (ptr[t] = StWritePtr /\ Room)
  /\ \A c \in Clients : pc[c] = "st_commit" => copied[c] <= StStreamed

Ring == Single => Within /\ RingInOrder /\ RingReads

RingInv == CoreInv /\ Aligned /\ Distance /\ Ring

----------------------------------------------------------------------------
(* The counters, for every game *)

\* The write pointer stands at a bank, and moves from bank to bank.
LEMMA NextBank ==
  ASSUME NEW k \in 0..(StBankmax - 1)
  PROVE  /\ k * StBanksize + StBanksize <= StBufmax
         /\ k * StBanksize + StBanksize = StBufmax \/ k + 1 \in 0..(StBankmax - 1)
         /\ (k + 1) * StBanksize = k * StBanksize + StBanksize
<1>1. (k + 1) * StBanksize = k * StBanksize + StBanksize
  BY RingAssumption
<1>2. k + 1 <= StBankmax => (k + 1) * StBanksize <= StBankmax * StBanksize
  BY RingAssumption
<1>3. StBufmax = StBankmax * StBanksize
  BY RingAssumption DEF StBufmax
<1>4. CASE k + 1 = StBankmax
  BY <1>1, <1>3, <1>4, RingAssumption
<1>5. CASE k + 1 # StBankmax
  BY <1>1, <1>2, <1>3, <1>5, RingAssumption
<1> QED
  BY <1>4, <1>5

\* What a step does to the stream.
StreamMoves(c) ==
  \/ \E o \in StreamOps : BeginHalt(c, o)
  \/ BeginResume(c) \/ (\E n \in game.counts : BeginStRead(c, n))
  \/ Halt(c) \/ (\E lsn \in Starts : StStart(c, lsn))
  \/ StReadCopy(c) \/ StReadCommit(c)

LEMMA StreamSteps ==
  ASSUME Next
  PROVE  \/ UNCHANGED <<stVars, ringVars, localVars>>
         \/ \E c \in Clients : StreamMoves(c)
         \/ \E t \in Threads : Fill(t) \/ FillGoes(t) \/ DeviceReads(t)
         \/ StmCallback \/ StmSchedule
<1>1. \/ \E c \in Clients : StreamIdle(c) \/ StreamMoves(c)
      \/ \E t \in Threads : Signals(t) \/ Fill(t) \/ FillGoes(t) \/ DeviceReads(t)
      \/ ReaderWakes \/ ReaderDone \/ ReaderRechecks
      \/ \E again \in BOOLEAN : EventAlarm(again)
      \/ StmCallback \/ StmSchedule
  BY DEF Next, ClientCalls, ClientContinues, Shared, ReaderContinues, Interrupts,
     StreamIdle, StreamMoves, Signals, Threads
<1> QED
  BY <1>1, StreamLeftAlone

LEMMA AlignedNext ==
  ASSUME Types, Aligned, Next
  PROVE  Aligned'
<1>1. ASSUME StWritePtr' = StWritePtr
      PROVE  Aligned'
  BY <1>1 DEF Aligned
<1>2. ASSUME StWritePtr' = 0
      PROVE  Aligned'
  <2>1. 0 \in 0..(StBankmax - 1) /\ 0 = 0 * StBanksize
    BY RingAssumption
  <2> QED
    BY <1>2, <2>1 DEF Aligned
<1>3. ASSUME StmCallback
      PROVE  Aligned'
  <2>1. CASE StIsReading
    <3>1. PICK k \in 0..(StBankmax - 1) : StWritePtr = k * StBanksize
      BY DEF Aligned
    <3>2. StWritePtr' = Wrap(StWritePtr + StBanksize)
      BY <1>3, <2>1 DEF StmCallback
    <3>3. CASE k * StBanksize + StBanksize = StBufmax
      <4>1. StWritePtr' = 0
        BY <3>1, <3>2, <3>3, BufmaxPositive DEF Wrap
      <4> QED
        BY <1>2, <4>1
    <3>4. CASE k * StBanksize + StBanksize # StBufmax
      <4>1. StWritePtr' = (k + 1) * StBanksize /\ k + 1 \in 0..(StBankmax - 1)
        BY <3>1, <3>2, <3>4, NextBank, BufmaxPositive DEF Wrap
      <4> QED
        BY <4>1 DEF Aligned
    <3> QED
      BY <3>3, <3>4
  <2>2. CASE ~StIsReading
    BY <1>1, <1>3, <2>2 DEF StmCallback
  <2> QED
    BY <2>1, <2>2
<1>4. ASSUME NEW c \in Clients, Halt(c) \/ \E lsn \in Starts : StStart(c, lsn)
      PROVE  Aligned'
  BY <1>1, <1>2, <1>4 DEF Halt, StStart, Reset
<1>5. ASSUME UNCHANGED <<stVars, ringVars, localVars>>
      PROVE  Aligned'
  BY <1>1, <1>5 DEF ringVars
<1>6. ASSUME NEW c \in Clients, StreamMoves(c)
      PROVE  Aligned'
  BY <1>1, <1>4, <1>6
     DEF StreamMoves, BeginHalt, BeginResume, BeginStRead, StReadCopy, StReadCommit,
         ringVars
<1>7. ASSUME NEW t \in Threads, Fill(t) \/ FillGoes(t) \/ DeviceReads(t)
      PROVE  Aligned'
  BY <1>1, <1>7 DEF Fill, FillGoes, DeviceReads, ringVars
<1>8. ASSUME StmSchedule
      PROVE  Aligned'
  BY <1>1, <1>8 DEF StmSchedule, ringVars
<1> QED
  BY <1>3, <1>5, <1>6, <1>7, <1>8, StreamSteps

LEMMA DistanceNext ==
  ASSUME Types, Aligned, Distance, Next
  PROVE  Distance'
<1> USE BufmaxPositive
<1>0. StWritePtr \in Int /\ StReadPtr \in Int /\ StStreamed \in Int
  BY DEF Types, StreamTypes, Sectors
<1>1. ASSUME UNCHANGED <<StWritePtr, StReadPtr, StStreamed>>
      PROVE  Distance'
  BY <1>1 DEF Distance
<1>2. ASSUME StWritePtr' = 0, StReadPtr' = 0, StStreamed' = 0
      PROVE  Distance'
  <2>1. 0 - 0 - 0 = 0 * StBufmax
    OBVIOUS
  <2> QED
    BY <1>2, <2>1 DEF Distance
<1>3. ASSUME StmCallback
      PROVE  Distance'
  <2>1. CASE StIsReading
    <3>1. PICK j \in 0..(StBankmax - 1) : StWritePtr = j * StBanksize
      BY DEF Aligned
    <3>2. StWritePtr + StBanksize <= StBufmax
      BY <3>1, NextBank
    <3>3. /\ StWritePtr' = IF StWritePtr + StBanksize = StBufmax THEN 0
                           ELSE StWritePtr + StBanksize
          /\ StReadPtr' = StReadPtr /\ StStreamed' = StStreamed + StBanksize
      BY <1>0, <1>3, <2>1, <3>2 DEF StmCallback, Wrap
    <3>4. PICK k \in Int : StWritePtr - StReadPtr - StStreamed = k * StBufmax
      BY DEF Distance
    <3>5. CASE StWritePtr + StBanksize = StBufmax
      <4>1. StWritePtr' - StReadPtr' - StStreamed' = k * StBufmax - StBufmax
        BY <1>0, <3>3, <3>4, <3>5
      <4>2. k * StBufmax - StBufmax = (k - 1) * StBufmax /\ k - 1 \in Int
        OBVIOUS
      <4> QED
        BY <4>1, <4>2 DEF Distance
    <3>6. CASE StWritePtr + StBanksize # StBufmax
      <4>1. StWritePtr' - StReadPtr' - StStreamed' = StWritePtr - StReadPtr - StStreamed
        BY <1>0, <3>3, <3>6
      <4> QED
        BY <3>4, <4>1 DEF Distance
    <3> QED
      BY <3>5, <3>6
  <2>2. CASE ~StIsReading
    BY <1>1, <1>3, <2>2 DEF StmCallback
  <2> QED
    BY <2>1, <2>2
<1>4. ASSUME NEW c \in Clients, StReadCommit(c)
      PROVE  Distance'
  <2>1. /\ copied[c] \in 0..StBufmax /\ StWritePtr' = StWritePtr
        /\ StReadPtr' = (StReadPtr + copied[c]) % StBufmax
        /\ StStreamed' = StStreamed - copied[c]
    BY <1>4 DEF StReadCommit, Types, StreamTypes
  <2>2. StReadPtr + copied[c] \in Int
    BY <1>0, <2>1
  <2>3. PICK q \in Int : StReadPtr + copied[c] = q * StBufmax + ((StReadPtr + copied[c]) % StBufmax)
    BY <2>2, ModDiv
  <2>4. StReadPtr' \in Int /\ StReadPtr + copied[c] = q * StBufmax + StReadPtr'
    BY <2>1, <2>2, <2>3, ModRange
  <2>5. PICK k \in Int : StWritePtr - StReadPtr - StStreamed = k * StBufmax
    BY DEF Distance
  <2>6. StWritePtr' - StReadPtr' - StStreamed' = k * StBufmax + q * StBufmax
    BY <1>0, <2>1, <2>4, <2>5
  <2>7. k * StBufmax + q * StBufmax = (k + q) * StBufmax /\ k + q \in Int
    OBVIOUS
  <2> QED
    BY <2>6, <2>7 DEF Distance
<1>5. ASSUME NEW c \in Clients, Halt(c) \/ \E lsn \in Starts : StStart(c, lsn)
      PROVE  Distance'
  BY <1>1, <1>2, <1>5 DEF Halt, StStart, Reset
<1>6. ASSUME UNCHANGED <<stVars, ringVars, localVars>>
      PROVE  Distance'
  BY <1>1, <1>6 DEF ringVars
<1>7. ASSUME NEW c \in Clients, StreamMoves(c)
      PROVE  Distance'
  BY <1>1, <1>4, <1>5, <1>7
  DEF StreamMoves, BeginHalt, BeginResume, BeginStRead, StReadCopy, ringVars
<1>8. ASSUME NEW t \in Threads, Fill(t) \/ FillGoes(t) \/ DeviceReads(t)
      PROVE  Distance'
  BY <1>1, <1>8 DEF Fill, FillGoes, DeviceReads, ringVars
<1>9. ASSUME StmSchedule
      PROVE  Distance'
  BY <1>1, <1>9 DEF StmSchedule, ringVars
<1> QED
  BY <1>3, <1>6, <1>7, <1>8, <1>9, StreamSteps

----------------------------------------------------------------------------
(* The sectors of the ring *)

\* ReadSectors finds no more than StStreamed sectors.
LEMMA CopyableFits ==
  ASSUME StreamTypes, Within, NEW n \in Nat
  PROVE  Copyable(n) <= StStreamed
<1> USE BufmaxPositive DEF Sectors
<1>0. StWritePtr \in Sectors /\ StReadPtr \in Sectors /\ StStreamed \in Int
  BY DEF StreamTypes
<1>1. CASE StWritePtr <= StReadPtr /\ StStreamed > 0
  <2>1. ToEnd(n) = Min(StBufmax - StReadPtr, n)
    BY <1>1 DEF ToEnd
  <2>2. StStreamed = StWritePtr - StReadPtr + StBufmax
    BY <1>0, <1>1 DEF Within
  <2>3. CASE n < StBufmax - StReadPtr
    BY <1>0, <2>1, <2>2, <2>3 DEF Copyable, Min, Wrap
  <2>4. CASE n >= StBufmax - StReadPtr
    BY <1>0, <1>1, <2>1, <2>2, <2>4 DEF Copyable, Min, Wrap
  <2> QED
    BY <1>0, <2>3, <2>4
<1>2. CASE ~(StWritePtr <= StReadPtr /\ StStreamed > 0)
  <2>1. ToEnd(n) = 0 /\ Wrap(StReadPtr + 0) = StReadPtr
    BY <1>0, <1>2 DEF ToEnd, Wrap
  <2>2. Copyable(n) = IF 0 < n /\ StReadPtr < StWritePtr
                      THEN Min(StWritePtr - StReadPtr, n) ELSE 0
    BY <1>0, <2>1 DEF Copyable, Min
  <2>3. StReadPtr < StWritePtr => StStreamed = StWritePtr - StReadPtr
    BY <1>0 DEF Within
  <2> QED
    BY <1>0, <2>2, <2>3 DEF Min, Within
<1> QED
  BY <1>1, <1>2

LEMMA RingOnce ==
  \A a \in StBufmax..(StBufmax + StBufmax - 1) : a % StBufmax = a - StBufmax
  BY BufmaxPositive, ModOnce

\* The bank at the write pointer, if there is room, holds none of the sectors
\* that wait to be copied.
LEMMA BankFree ==
  ASSUME StreamTypes, Aligned, Within, Room, NEW i \in 0..(StStreamed - 1)
  PROVE  (StReadPtr + i) % StBufmax \in Sectors \ Bank(StWritePtr)
<1> USE BufmaxPositive DEF Sectors
<1>0. StWritePtr \in Sectors /\ StReadPtr \in Sectors /\ StStreamed \in Int
  BY DEF StreamTypes
<1>1. PICK k \in 0..(StBankmax - 1) : StWritePtr = k * StBanksize
  BY DEF Aligned
<1>2. StWritePtr + StBanksize <= StBufmax
  BY <1>1, NextBank
<1>3. CASE StReadPtr + i < StBufmax
  <2>1. (StReadPtr + i) % StBufmax = StReadPtr + i
    BY <1>0, <1>3, ModSmall
  <2> QED
    BY <1>0, <1>3, <2>1 DEF Bank, Within, Room
<1>4. CASE StReadPtr + i >= StBufmax
  <2>1. StReadPtr + i \in StBufmax..(StBufmax + StBufmax - 1)
    BY <1>0, <1>4 DEF Within
  <2>2. (StReadPtr + i) % StBufmax = StReadPtr + i - StBufmax
    BY <1>0, <2>1, RingOnce
  <2> QED
    BY <1>0, <1>2, <1>4, <2>2 DEF Bank, Within, Room
<1> QED
  BY <1>0, <1>3, <1>4

\* What a step may do to the rest while the ring stays as it is.
RingSame ==
  /\ UNCHANGED <<StWritePtr, StReadPtr, StStreamed, ring, Stlsn, StIsReading>>
  /\ \A r \in Read : Pending(r)' => Pending(r)
  /\ pc'[Reader] \in DoneLabels => pc[Reader] \in DoneLabels
  /\ \A t \in Threads : pc'[t] = "fill_go" => pc[t] = "fill_go" /\ ptr'[t] = ptr[t]
  /\ \A c \in Clients :
       pc'[c] = "st_commit" => pc[c] = "st_commit" /\ copied'[c] = copied[c]

LEMMA RingKept ==
  ASSUME Within, RingInOrder, RingReads, RingSame
  PROVE  Within' /\ RingInOrder' /\ RingReads'
<1>1. Within' /\ RingInOrder'
  BY DEF RingSame, Within, RingInOrder
<1>2. (Room' <=> Room) /\ (BankFilled' <=> BankFilled)
  BY DEF RingSame, Room, BankFilled
<1>3. RingReads'
  BY <1>2 DEF RingSame, RingReads
<1> QED
  BY <1>1, <1>3

\* StmCallback counts a bank that was filled.
LEMMA BankCounted ==
  ASSUME Types, Aligned, Within, RingInOrder, Room, BankFilled,
         Stlsn' = (Stlsn + StBanksize) % LsnSpace, StStreamed' = StStreamed + StBanksize,
         StWritePtr' = Wrap(StWritePtr + StBanksize), StReadPtr' = StReadPtr, ring' = ring
  PROVE  Within' /\ RingInOrder'
<1> USE BufmaxPositive DEF Sectors
<1>0. /\ StWritePtr \in Sectors /\ StReadPtr \in Sectors /\ StStreamed \in Int
      /\ Stlsn \in Int /\ LsnSpace \in Nat \ {0}
  BY RingAssumption DEF Types, StreamTypes, Lsns
<1>1. PICK k \in 0..(StBankmax - 1) : StWritePtr = k * StBanksize
  BY DEF Aligned
<1>2. StWritePtr + StBanksize <= StBufmax
  BY <1>1, NextBank
<1>3. Within'
  BY <1>0, <1>2 DEF Within, Room, Wrap
<1>4. ASSUME NEW i \in 0..(StStreamed' - 1)
      PROVE  ring'[(StReadPtr' + i) % StBufmax] = (Stlsn' - StStreamed' + i) % LsnSpace
  <2>1. (Stlsn' - StStreamed' + i) % LsnSpace = (Stlsn - StStreamed + i) % LsnSpace
    <3>1. /\ Stlsn + StBanksize \in Int /\ i - StStreamed - StBanksize \in Int
          /\ (Stlsn + StBanksize) % LsnSpace \in Int
      BY <1>0, <1>4, LsnType DEF Lsns
    <3>2. (((Stlsn + StBanksize) % LsnSpace) + (i - StStreamed - StBanksize)) % LsnSpace
            = (Stlsn + StBanksize + (i - StStreamed - StBanksize)) % LsnSpace
      BY <1>0, <3>1, ModSum
    <3>3. /\ Stlsn' - StStreamed' + i
               = ((Stlsn + StBanksize) % LsnSpace) + (i - StStreamed - StBanksize)
          /\ Stlsn + StBanksize + (i - StStreamed - StBanksize) = Stlsn - StStreamed + i
      BY <1>0, <1>4, <3>1
    <3> QED
      BY <3>2, <3>3
  <2>2. CASE i < StStreamed
    <3>1. i \in 0..(StStreamed - 1)
      BY <1>0, <1>4, <2>2
    <3> QED
      BY <2>1, <3>1 DEF RingInOrder
  <2>3. CASE i >= StStreamed
    <3> DEFINE j == i - StStreamed
    <3>1. j \in 0..(StBanksize - 1) /\ i = StStreamed + j
      BY <1>0, <1>4, <2>3
    <3>2. StWritePtr + j \in Bank(StWritePtr) /\ StWritePtr + j \in 0..(StBufmax - 1)
      BY <1>0, <1>2, <3>1 DEF Bank
    <3>3. (StReadPtr + i) % StBufmax = StWritePtr + j
      <4>1. CASE StWritePtr = StReadPtr + StStreamed
        <5>1. StReadPtr + i = StWritePtr + j
          BY <1>0, <3>1, <4>1
        <5> QED
          BY <3>2, <5>1, ModSmall
      <4>2. CASE StWritePtr = StReadPtr + StStreamed - StBufmax
        <5>1. /\ StReadPtr + i \in StBufmax..(StBufmax + StBufmax - 1)
              /\ StReadPtr + i - StBufmax = StWritePtr + j
          BY <1>0, <3>1, <3>2, <4>2
        <5> QED
          BY <1>0, <3>1, <5>1, RingOnce
      <4> QED
        BY <4>1, <4>2 DEF Within
    <3>4. ring[StWritePtr + j] = (Stlsn + (StWritePtr + j) - StWritePtr) % LsnSpace
      BY <3>2 DEF BankFilled
    <3>5. Stlsn + (StWritePtr + j) - StWritePtr = Stlsn - StStreamed + i
      BY <1>0, <3>1
    <3> QED
      BY <2>1, <3>3, <3>4, <3>5
  <2> QED
    BY <1>0, <1>4, <2>2, <2>3
<1> QED
  BY <1>3, <1>4 DEF RingInOrder

\* StReadCommit takes sectors from the front.
LEMMA SectorsTaken ==
  ASSUME Types, Within, RingInOrder, NEW n \in 0..StBufmax, n <= StStreamed,
         Stlsn' = Stlsn, StStreamed' = StStreamed - n, StWritePtr' = StWritePtr,
         StReadPtr' = (StReadPtr + n) % StBufmax, ring' = ring
  PROVE  Within' /\ RingInOrder'
<1> USE BufmaxPositive DEF Sectors
<1>0. /\ StWritePtr \in Sectors /\ StReadPtr \in Sectors /\ StStreamed \in Int
      /\ Stlsn \in Int /\ LsnSpace \in Nat \ {0} /\ StReadPtr + n \in Int
  BY RingAssumption DEF Types, StreamTypes, Lsns
<1>1. Within'
  <2>1. (StReadPtr + n) % StBufmax
          = IF StReadPtr + n < StBufmax THEN StReadPtr + n ELSE StReadPtr + n - StBufmax
    <3>1. CASE StReadPtr + n < StBufmax
      <4>1. StReadPtr + n \in 0..(StBufmax - 1)
        BY <1>0, <3>1
      <4>2. (StReadPtr + n) % StBufmax = StReadPtr + n
        BY <4>1, BufmaxPositive, ModSmall, Zenon
      <4> QED
        BY <3>1, <4>2
    <3>2. CASE ~(StReadPtr + n < StBufmax)
      <4>1. StReadPtr + n \in StBufmax..(StBufmax + StBufmax - 1)
        BY <1>0, <3>2
      <4>2. (StReadPtr + n) % StBufmax = StReadPtr + n - StBufmax
        BY <1>0, <4>1, RingOnce
      <4> QED
        BY <3>2, <4>2
    <3> QED
      BY <3>1, <3>2
  <2>2. ASSUME NEW p \in Int,
               p = IF StReadPtr + n < StBufmax THEN StReadPtr + n ELSE StReadPtr + n - StBufmax
        PROVE  StWritePtr = p + (StStreamed - n) \/ StWritePtr = p + (StStreamed - n) - StBufmax
    BY <1>0, <2>2 DEF Within
  <2>3. (StReadPtr + n) % StBufmax \in Int
    BY <1>0, ModRange
  <2>4. 0 <= StStreamed - n /\ StStreamed - n <= StBufmax
    BY <1>0 DEF Within
  <2> QED
    BY <2>1, <2>2, <2>3, <2>4, Zenon DEF Within
<1>2. ASSUME NEW i \in 0..(StStreamed' - 1)
      PROVE  ring'[(StReadPtr' + i) % StBufmax] = (Stlsn' - StStreamed' + i) % LsnSpace
  <2>1. n + i \in 0..(StStreamed - 1) /\ i \in Int
    BY <1>0, <1>2
  <2>2. (((StReadPtr + n) % StBufmax) + i) % StBufmax = (StReadPtr + n + i) % StBufmax
    BY <1>0, <2>1, ModSum
  <2>3. ring[(StReadPtr + (n + i)) % StBufmax] = (Stlsn - StStreamed + (n + i)) % LsnSpace
    BY <2>1 DEF RingInOrder
  <2>4. StReadPtr + (n + i) = StReadPtr + n + i
        /\ Stlsn - StStreamed + (n + i) = Stlsn' - StStreamed' + i
    BY <1>0, <2>1
  <2> QED
    BY <2>2, <2>3, <2>4
<1> QED
  BY <1>1, <1>2 DEF RingInOrder

\* A drive that is free has no pending read.
LEMMA NothingPending ==
  ASSUME Types, Drive, ~sync_flag
  PROVE  \A r \in Read : ~Pending(r)
  BY DriveFree DEF Types, Pending

\* The rest of RingReads when no read is pending.
LEMMA QuietRing ==
  ASSUME \A r \in Read : ~Pending(r)', pc'[Reader] \notin DoneLabels,
         \A t \in Threads : pc'[t] = "fill_go" =>
           ptr'[t] = Full \/ (ptr'[t] = StWritePtr' /\ Room'),
         \A c \in Clients : pc'[c] = "st_commit" => copied'[c] <= StStreamed'
  PROVE  RingReads'
  BY DEF RingReads

LEMMA RingNext ==
  ASSUME Single, Types, Calls, Drive, StreamReader, \A d \in Clients : StreamClient(d),
         StreamState, Aligned, Within, RingInOrder, RingReads, Next
  PROVE  Within' /\ RingInOrder' /\ RingReads'
<1> USE DEF Types
<1>1. ASSUME NEW c \in Clients, NEW o \in ReadOps, BeginRead(c, o)
      PROVE  Within' /\ RingInOrder' /\ RingReads'
  <2>1. RingSame
    BY <1>1, NamesAssumption
       DEF BeginRead, Goto, Labels, Threads, RingSame, DoneLabels, Pending,
           Performs, readVars, bufVars, stVars, ringVars, localVars, May, TakesIo,
           TakesSearch
  <2> QED
    BY <2>1, RingKept
<1>2. ASSUME NEW c \in Clients, BeginSync(c)
      PROVE  Within' /\ RingInOrder' /\ RingReads'
  <2>1. RingSame
    BY <1>2, NamesAssumption
       DEF BeginSync, Goto, Labels, Threads, RingSame, DoneLabels, Pending,
           Performs, readVars, bufVars, stVars, ringVars, localVars, May
  <2> QED
    BY <2>1, RingKept
<1>3. ASSUME NEW c \in Clients, NEW o \in CommandOps, BeginCommand(c, o)
      PROVE  Within' /\ RingInOrder' /\ RingReads'
  <2>1. RingSame
    BY <1>3, NamesAssumption
       DEF BeginCommand, Goto, Labels, Threads, RingSame, DoneLabels, Pending,
           Performs, readVars, bufVars, stVars, ringVars, localVars, May
  <2> QED
    BY <2>1, RingKept
<1>4. ASSUME NEW c \in Clients, BeginCallback(c)
      PROVE  Within' /\ RingInOrder' /\ RingReads'
  <2>1. RingSame
    BY <1>4, NamesAssumption
       DEF BeginCallback, Goto, Labels, Threads, RingSame, DoneLabels, Pending,
           Performs, readVars, bufVars, stVars, ringVars, localVars, May
  <2> QED
    BY <2>1, RingKept
<1>5. ASSUME NEW c \in Clients, NEW o \in StreamOps, BeginHalt(c, o)
      PROVE  Within' /\ RingInOrder' /\ RingReads'
  <2>1. RingSame
    BY <1>5, NamesAssumption
       DEF BeginHalt, Goto, Labels, Threads, RingSame, DoneLabels, Pending,
           Performs, readVars, bufVars, stVars, ringVars, localVars, May
  <2> QED
    BY <2>1, RingKept
<1>6. ASSUME NEW c \in Clients, BeginStart(c)
      PROVE  Within' /\ RingInOrder' /\ RingReads'
  <2>1. RingSame
    BY <1>6, NamesAssumption
       DEF BeginStart, Goto, Labels, Threads, RingSame, DoneLabels, Pending,
           Performs, readVars, bufVars, stVars, ringVars, localVars, May
  <2> QED
    BY <2>1, RingKept
<1>7. ASSUME NEW c \in Clients, BeginResume(c)
      PROVE  Within' /\ RingInOrder' /\ RingReads'
  <2>1. RingSame
    BY <1>7, NamesAssumption
       DEF BeginResume, Goto, Labels, Threads, RingSame, DoneLabels, Pending,
           Performs, readVars, bufVars, stVars, ringVars, localVars, May
  <2> QED
    BY <2>1, RingKept
<1>8. ASSUME NEW c \in Clients, NEW n \in game.counts, BeginStRead(c, n)
      PROVE  Within' /\ RingInOrder' /\ RingReads'
  <2>1. /\ UNCHANGED <<rthread_sema, cdread, rd, StWritePtr, StReadPtr, StStreamed, ring, Stlsn, StIsReading, ptr, copied>>
    BY <1>8 DEF BeginStRead, readVars, bufVars, stVars, ringVars
  <2>2. /\ pc'[c] = "st_test" /\ \A u \in Threads \ {c} : Woken(u, pc[u], pc'[u])
    BY <1>8, StReadMoves
  <2>3. RingSame
    BY <2>1, <2>2, NamesAssumption
       DEF RingSame, DoneLabels, Woken, AfterEf, Pending, Performs, Threads
  <2> QED
    BY <2>3, RingKept
<1>9. ASSUME NEW c \in Clients, LockIo(c)
      PROVE  Within' /\ RingInOrder' /\ RingReads'
  <2>1. RingSame
    BY <1>9, NamesAssumption
       DEF LockIo, Goto, Labels, Threads, RingSame, DoneLabels, Pending, Performs,
           readVars, bufVars, stVars, ringVars, localVars
  <2> QED
    BY <2>1, RingKept
<1>10. ASSUME NEW c \in Clients, WaitEf(c)
      PROVE  Within' /\ RingInOrder' /\ RingReads'
  <2>1. RingSame
    BY <1>10, NamesAssumption
       DEF WaitEf, Goto, Labels, Threads, RingSame, DoneLabels, Pending, Performs,
           readVars, bufVars, stVars, ringVars, localVars, AfterEf
  <2> QED
    BY <2>1, RingKept
<1>11. ASSUME NEW c \in Clients, LockSearch(c)
      PROVE  Within' /\ RingInOrder' /\ RingReads'
  <2>1. RingSame
    BY <1>11, NamesAssumption
       DEF LockSearch, Goto, Labels, Threads, RingSame, DoneLabels, Pending,
           Performs, readVars, bufVars, stVars, ringVars, localVars
  <2> QED
    BY <2>1, RingKept
<1>12. ASSUME NEW c \in Clients, ReadAsync(c)
      PROVE  Within' /\ RingInOrder' /\ RingReads'
  <2>1. /\ pc[c] = "read" /\ op[c] \in ReadOps /\ ~sync_flag /\ cdread' = ClientRead(c)
        /\ pc'[c] \in {"idle", "sync"} /\ \A u \in Threads \ {c} : pc'[u] = pc[u]
        /\ UNCHANGED <<rd, StWritePtr, StReadPtr, StStreamed, ring, Stlsn, StIsReading, ptr, copied>>
    BY <1>12
       DEF ReadAsync, Accept, Accepted, Goto, Labels, Threads, Calls, bufVars,
           stVars, ringVars, localVars
  <2>2. \A u \in Threads : ~Performs(u)'
    BY <2>1, DriveFree DEF Performs
  <2>3. ClientRead(c).to # "ring"
    BY DEF ClientRead, Target
  <2>4. \A r \in Read : Pending(r)' => r.to # "ring"
    BY <2>1, <2>2, <2>3 DEF Pending
  <2>5. ~StIsReading
    BY <2>1 DEF StreamClient, StreamState
  <2>6. pc'[Reader] = pc[Reader] /\ c \in Threads /\ \A d \in Clients : d \in Threads
    BY <2>1, NamesAssumption DEF Threads
  <2> QED
    BY <2>1, <2>4, <2>5, <2>6 DEF Within, RingInOrder, RingReads, Room
<1>13. ASSUME NEW c \in Clients, ReadSync(c)
      PROVE  Within' /\ RingInOrder' /\ RingReads'
  <2>1. /\ pc[c] = "read" /\ op[c] \in ReadOps /\ ~sync_flag /\ rd'[c] = ClientRead(c)
        /\ pc'[c] \in {"lock", "dev"} /\ \A u \in Threads \ {c} : pc'[u] = pc[u]
        /\ UNCHANGED <<rthread_sema, StWritePtr, StReadPtr, StStreamed, ring, Stlsn, StIsReading, ptr, copied>>
    BY <1>13
       DEF ReadSync, Goto, Labels, Threads, Calls, DriveTypes, stVars, ringVars,
           localVars
  <2>2. ~rthread_sema' /\ \A u \in Threads : Performs(u)' => u = c
    BY <2>1, DriveFree DEF Performs
  <2>3. ClientRead(c).to # "ring"
    BY DEF ClientRead, Target
  <2>4. \A r \in Read : Pending(r)' => r.to # "ring"
    BY <2>1, <2>2, <2>3 DEF Pending
  <2>5. ~StIsReading
    BY <2>1 DEF StreamClient, StreamState
  <2>6. pc'[Reader] = pc[Reader] /\ c \in Threads /\ \A d \in Clients : d \in Threads
    BY <2>1, NamesAssumption DEF Threads
  <2> QED
    BY <2>1, <2>4, <2>5, <2>6 DEF Within, RingInOrder, RingReads, Room
<1>14. ASSUME NEW c \in Clients, ReadRefused(c)
      PROVE  Within' /\ RingInOrder' /\ RingReads'
  <2>1. RingSame
    BY <1>14, NamesAssumption
       DEF ReadRefused, Goto, Labels, Threads, RingSame, DoneLabels, Pending,
           Performs, readVars, bufVars, stVars, ringVars, localVars
  <2> QED
    BY <2>1, RingKept
<1>15. ASSUME NEW c \in Clients, ReadAgain(c)
      PROVE  Within' /\ RingInOrder' /\ RingReads'
  <2>1. RingSame
    BY <1>15, NamesAssumption
       DEF ReadAgain, Goto, Labels, Threads, RingSame, DoneLabels, Pending,
           Performs, readVars, bufVars, stVars, ringVars, localVars
  <2> QED
    BY <2>1, RingKept
<1>16. ASSUME NEW c \in Clients, SyncLoop(c)
      PROVE  Within' /\ RingInOrder' /\ RingReads'
  <2>1. RingSame
    BY <1>16, NamesAssumption
       DEF SyncLoop, Goto, Labels, Threads, RingSame, DoneLabels, Pending, Performs,
           readVars, bufVars, stVars, ringVars, localVars, AfterSync
  <2> QED
    BY <2>1, RingKept
<1>17. ASSUME NEW c \in Clients, NEW more \in BOOLEAN, UseBuffer(c, more)
      PROVE  Within' /\ RingInOrder' /\ RingReads'
  <2>1. RingSame
    BY <1>17, NamesAssumption
       DEF UseBuffer, Goto, Labels, Threads, RingSame, DoneLabels, Pending,
           Performs, readVars, bufVars, stVars, ringVars, localVars
  <2> QED
    BY <2>1, RingKept
<1>18. ASSUME NEW c \in Clients, NEW on \in BOOLEAN, SetCallback(c, on)
      PROVE  Within' /\ RingInOrder' /\ RingReads'
  <2>1. RingSame
    BY <1>18, NamesAssumption
       DEF SetCallback, Goto, Labels, Threads, RingSame, DoneLabels, Pending,
           Performs, readVars, bufVars, stVars, ringVars, localVars
  <2> QED
    BY <2>1, RingKept
<1>19. ASSUME NEW c \in Clients, Halt(c)
      PROVE  Within' /\ RingInOrder' /\ RingReads'
  <2>1. /\ pc[c] \in {"stop", "pause"} /\ pc'[c] = "sync" /\ \A u \in Threads \ {c} : pc'[u] = pc[u]
        /\ ~StIsReading' /\ UNCHANGED <<rthread_sema, cdread, rd, ring, Stlsn, ptr, copied>>
    BY <1>19 DEF Halt, Reset, Goto, Labels, Threads, readVars, bufVars, localVars
  <2>2. /\ \A d \in Clients \ {c} : pc[d] = "idle"
        /\ pc[Reader] \in {"wait", "lock", "dev"}
    BY <1>19, <2>1, SingleAlone, SingleRuns DEF Halt
  <2>3. /\ \A u \in Threads : pc'[u] \notin {"fill_go", "st_commit"}
        /\ pc'[Reader] \notin DoneLabels
    BY <2>1, <2>2, NamesAssumption DEF Threads, DoneLabels
  <2>4. \A r \in Read : Pending(r)' => Pending(r)
    BY <2>1 DEF Pending, Performs
  <2>5. CASE pc[c] = "stop"
    <3>1. StWritePtr' = 0 /\ StReadPtr' = 0 /\ StStreamed' = 0
      BY <1>19, <2>5 DEF Halt, Reset
    <3>2. Within' /\ RingInOrder'
      BY <3>1, BufmaxPositive DEF Within, RingInOrder
    <3> QED
      BY <2>1, <2>3, <3>1, <3>2 DEF RingReads, Threads
  <2>6. CASE pc[c] # "stop"
    <3>1. UNCHANGED <<StWritePtr, StReadPtr, StStreamed>>
      BY <1>19, <2>6 DEF Halt
    <3>2. Within' /\ RingInOrder' /\ (Room' <=> Room)
      BY <2>1, <3>1 DEF Within, RingInOrder, Room
    <3> QED
      BY <2>1, <2>3, <2>4, <3>1, <3>2 DEF RingReads, Threads
  <2> QED
    BY <2>5, <2>6
<1>20. ASSUME NEW c \in Clients, NEW lsn \in Starts, StStart(c, lsn)
      PROVE  Within' /\ RingInOrder' /\ RingReads'
  <2>1. /\ pc[c] = "start" /\ pc'[c] = "fill" /\ \A u \in Threads \ {c} : pc'[u] = pc[u]
        /\ StWritePtr' = 0 /\ StReadPtr' = 0 /\ StStreamed' = 0
        /\ UNCHANGED <<rthread_sema, cdread, rd>>
    BY <1>20 DEF StStart, Reset, Goto, Labels, Threads, readVars, bufVars
  <2>2. /\ \A d \in Clients \ {c} : pc[d] = "idle"
        /\ pc[Reader] = "wait" /\ ~sync_flag
    BY <2>1, SingleAlone DEF StreamClient, Ends, ReaderQuiet
  <2>3. /\ \A u \in Threads : pc'[u] \notin {"fill_go", "st_commit"}
        /\ pc'[Reader] \notin DoneLabels
    BY <2>1, <2>2, NamesAssumption DEF Threads, DoneLabels
  <2>4. \A r \in Read : ~Pending(r)'
    BY <2>1, <2>2, NothingPending DEF Pending, Performs
  <2>5. Within' /\ RingInOrder'
    BY <2>1, BufmaxPositive DEF Within, RingInOrder
  <2> QED
    BY <2>3, <2>4, <2>5, QuietRing DEF Threads
<1>21. ASSUME NEW c \in Clients, StReadWait(c)
      PROVE  Within' /\ RingInOrder' /\ RingReads'
  <2>1. RingSame
    BY <1>21, NamesAssumption
       DEF StReadWait, Goto, Labels, Threads, RingSame, DoneLabels, Pending,
           Performs, readVars, bufVars, stVars, ringVars, localVars
  <2> QED
    BY <2>1, RingKept
<1>22. ASSUME NEW c \in Clients, StReadClear(c)
      PROVE  Within' /\ RingInOrder' /\ RingReads'
  <2>1. RingSame
    BY <1>22, NamesAssumption
       DEF StReadClear, Goto, Labels, Threads, RingSame, DoneLabels, Pending,
           Performs, readVars, bufVars, stVars, ringVars, localVars
  <2> QED
    BY <2>1, RingKept
<1>23. ASSUME NEW c \in Clients, StReadCopy(c)
      PROVE  Within' /\ RingInOrder' /\ RingReads'
  <2>1. /\ pc[c] = "st_copy" /\ pc'[c] = "st_commit" /\ \A u \in Threads \ {c} : pc'[u] = pc[u]
        /\ copied'[c] = Copyable(left[c]) /\ \A d \in Clients \ {c} : copied'[d] = copied[d]
        /\ UNCHANGED <<rthread_sema, cdread, rd, StWritePtr, StReadPtr, StStreamed, ring, Stlsn, StIsReading, ptr>>
    BY <1>23
       DEF StReadCopy, Goto, Labels, Threads, StreamTypes, readVars, bufVars,
           stVars, ringVars
  <2>2. left[c] \in Nat
    BY DEF StreamTypes
  <2>3. copied'[c] <= StStreamed'
    BY <2>1, <2>2, CopyableFits
  <2>4. (Room' <=> Room) /\ (BankFilled' <=> BankFilled)
    BY <2>1 DEF Room, BankFilled
  <2>5. c \in Threads /\ pc'[Reader] = pc[Reader] /\ \A d \in Clients : d \in Threads
    BY <2>1, NamesAssumption DEF Threads
  <2>6. \A r \in Read : Pending(r)' => Pending(r)
    BY <2>1 DEF Pending, Performs
  <2>7. RingReads'
    BY <2>1, <2>3, <2>4, <2>5, <2>6 DEF RingReads
  <2> QED
    BY <2>1, <2>7 DEF Within, RingInOrder
<1>24. ASSUME NEW c \in Clients, StReadCommit(c)
      PROVE  Within' /\ RingInOrder' /\ RingReads'
  <2>1. /\ pc[c] = "st_commit" /\ pc'[c] \in {"st_test", "fill"} /\ \A u \in Threads \ {c} : pc'[u] = pc[u]
        /\ \A d \in Clients \ {c} : copied'[d] = copied[d]
        /\ StReadPtr' = (StReadPtr + copied[c]) % StBufmax /\ StStreamed' = StStreamed - copied[c]
        /\ UNCHANGED <<rthread_sema, cdread, rd, StWritePtr, ring, Stlsn, StIsReading, ptr>>
    BY <1>24
       DEF StReadCommit, Goto, Labels, Threads, StreamTypes, readVars, bufVars,
           stVars
  <2>2. copied[c] \in 0..StBufmax /\ copied[c] <= StStreamed /\ StStreamed \in Int
    BY <2>1 DEF StreamTypes, RingReads
  <2>3. Within' /\ RingInOrder'
    BY <2>1, <2>2, SectorsTaken
  <2>4. (Room => Room') /\ (BankFilled' <=> BankFilled) /\ (StStreamed = 0 => StStreamed' = 0)
    BY <2>1, <2>2, BufmaxPositive DEF Room, BankFilled
  <2>5. c \in Threads /\ pc'[Reader] = pc[Reader] /\ \A d \in Clients : d \in Threads
    BY <2>1, NamesAssumption DEF Threads
  <2>6. \A r \in Read : Pending(r)' => Pending(r)
    BY <2>1 DEF Pending, Performs
  <2>7. \A d \in Clients : pc'[d] # "st_commit"
    BY <2>1, <2>5, SingleAlone
  <2>8. RingReads'
    BY <2>1, <2>4, <2>5, <2>6, <2>7 DEF RingReads
  <2> QED
    BY <2>3, <2>8
<1>25. ASSUME NEW t \in Threads, LockBuf(t)
      PROVE  Within' /\ RingInOrder' /\ RingReads'
  <2>1. RingSame
    BY <1>25, NamesAssumption
       DEF LockBuf, Goto, Labels, Threads, RingSame, DoneLabels, Pending, Performs,
           readVars, bufVars, stVars, ringVars, localVars
  <2> QED
    BY <2>1, RingKept
<1>26. ASSUME NEW t \in Threads, CbEvent(t)
      PROVE  Within' /\ RingInOrder' /\ RingReads'
  <2>1. RingSame
    BY <1>26, NamesAssumption
       DEF CbEvent, Goto, Labels, Threads, RingSame, DoneLabels, Pending, Performs,
           readVars, bufVars, stVars, ringVars, localVars
  <2> QED
    BY <2>1, RingKept
<1>27. ASSUME NEW t \in Threads, Signal(t)
      PROVE  Within' /\ RingInOrder' /\ RingReads'
  <2>1. RingSame
    BY <1>27, NamesAssumption
       DEF Signal, Goto, Labels, Threads, RingSame, DoneLabels, Pending, Performs,
           readVars, bufVars, stVars, ringVars, localVars
  <2> QED
    BY <2>1, RingKept
<1>28. ASSUME NEW t \in Threads, SignalEf(t)
      PROVE  Within' /\ RingInOrder' /\ RingReads'
  <2>1. /\ UNCHANGED <<rthread_sema, cdread, rd, StWritePtr, StReadPtr, StStreamed, ring, Stlsn, StIsReading, ptr, copied>>
        /\ pc[t] \in {"set", "stm_set", "reset"}
    BY <1>28 DEF SignalEf, readVars, bufVars, stVars, ringVars, localVars
  <2>2. /\ pc'[t] = AfterSignal(t) /\ \A u \in Threads \ {t} : Woken(u, pc[u], pc'[u])
    BY <1>28, SignalEfMoves
  <2>3. /\ AfterSignal(t) \in {"stm", "wait", "idle", "resig", "sync"}
        /\ AfterSignal(t) = "stm" => pc[t] = "stm_set"
    BY <2>1 DEF AfterSignal, Accepted
  <2>4. RingSame
    BY <2>1, <2>2, <2>3, NamesAssumption
       DEF RingSame, DoneLabels, Woken, AfterEf, Pending, Performs, Threads
  <2> QED
    BY <2>4, RingKept
<1>29. ASSUME NEW t \in Threads, Fill(t)
      PROVE  Within' /\ RingInOrder' /\ RingReads'
  <2>1. /\ pc[t] = "fill" /\ \A u \in Threads \ {t} : pc'[u] = pc[u]
        /\ UNCHANGED <<rthread_sema, cdread, rd, StWritePtr, StReadPtr, StStreamed, ring, Stlsn, copied>>
    BY <1>29 DEF Fill, Goto, Labels, readVars, bufVars, ringVars
  <2>2. CASE StIsReading
    <3>1. pc'[t] \in {"wait", "idle"} /\ UNCHANGED <<StIsReading, ptr>>
      BY <1>29, <2>2 DEF Fill, Returns, Goto, Labels
    <3>2. RingSame
      BY <2>1, <3>1 DEF RingSame, DoneLabels, Pending, Performs, Threads
    <3> QED
      BY <3>2, RingKept
  <2>3. CASE ~StIsReading
    <3>1. /\ pc'[t] = "fill_go" /\ ptr'[t] = IF Room THEN StWritePtr ELSE Full
          /\ \A u \in Threads \ {t} : ptr'[u] = ptr[u]
      BY <1>29, <2>3 DEF Fill, Goto, Labels, StreamTypes
    <3>2. ~sync_flag /\ pc'[Reader] \notin DoneLabels
      <4>1. CASE t = Reader
        BY <2>1, <3>1, <4>1 DEF StreamReader, DoneLabels
      <4>2. CASE t \in Clients
        <5>1. Stm0Callback /\ StStat
          BY <2>1, <4>2 DEF StreamClient, StLabels, StreamState
        <5>2. \A d \in Clients \ {t} : pc[d] = "idle"
          BY <2>1, <4>2, SingleAlone
        <5>3. ~sync_flag
          BY <2>1, <2>3, <5>1, <5>2 DEF StreamState, Waits
        <5>4. pc[Reader] = "wait" /\ pc'[Reader] = pc[Reader]
          BY <1>29, <2>1, <4>2, <5>3, SingleRuns, NamesAssumption
             DEF Fill, ReaderQuiet, Threads
        <5> QED
          BY <5>3, <5>4 DEF DoneLabels
      <4> QED
        BY <4>1, <4>2 DEF Threads
    <3>3. \A r \in Read : ~Pending(r)'
      <4>1. \A r \in Read : ~Pending(r)
        BY <3>2, NothingPending
      <4> QED
        BY <2>1, <3>1, <4>1 DEF Pending, Performs
    <3>4. Room' <=> Room
      BY <2>1 DEF Room
    <3>5. RingReads'
      BY <2>1, <3>1, <3>2, <3>3, <3>4 DEF RingReads, Threads
    <3> QED
      BY <2>1, <3>5 DEF Within, RingInOrder
  <2> QED
    BY <2>2, <2>3
<1>30. ASSUME NEW t \in Threads, FillGoes(t)
      PROVE  Within' /\ RingInOrder' /\ RingReads'
  <2>1. /\ pc[t] = "fill_go" /\ pc'[t] \in {"wait", "idle"} /\ \A u \in Threads \ {t} : pc'[u] = pc[u] /\ ptr'[u] = ptr[u]
        /\ UNCHANGED <<rd, StWritePtr, StReadPtr, StStreamed, ring, Stlsn, copied>>
    BY <1>30 DEF FillGoes, Returns, Goto, Labels, StreamTypes, bufVars, ringVars
  <2>2. ~sync_flag /\ pc'[Reader] \notin DoneLabels
    BY <2>1 DEF StreamReader, StreamClient, Ends, ReaderQuiet, DoneLabels, Threads
  <2>3. (\A r \in Read : ~Pending(r)) /\ \A u \in Threads : ~Performs(u)'
    BY <2>1, <2>2, NothingPending, DriveFree DEF Performs
  <2>4. Room' <=> Room
    BY <2>1 DEF Room
  <2>5. CASE ptr[t] # Full
    <3>1. cdread' = BankRead(ptr[t]) /\ ptr[t] = StWritePtr /\ Room
      BY <1>30, <2>1, <2>2, <2>5 DEF FillGoes, Accept, RingReads
    <3>2. BankRead(StWritePtr).at = StWritePtr /\ BankRead(StWritePtr).to = "ring" /\ BankRead(StWritePtr).lsn = Stlsn
      BY DEF BankRead
    <3>3. \A r \in Read : Pending(r)' => r = BankRead(StWritePtr)
      BY <2>3, <3>1 DEF Pending
    <3>4. RingReads'
      BY <2>1, <2>2, <2>4, <3>1, <3>2, <3>3 DEF RingReads, Threads
    <3> QED
      BY <2>1, <3>4 DEF Within, RingInOrder
  <2>6. CASE ptr[t] = Full
    <3>1. rthread_sema' = rthread_sema /\ cdread' = cdread
      BY <1>30, <2>6 DEF FillGoes, readVars
    <3>2. \A r \in Read : ~Pending(r)'
      BY <2>1, <2>3, <3>1 DEF Pending
    <3>3. RingReads'
      BY <2>1, <2>2, <2>4, <3>2 DEF RingReads, Threads
    <3> QED
      BY <2>1, <3>3 DEF Within, RingInOrder
  <2> QED
    BY <2>5, <2>6
<1>31. ASSUME NEW t \in Threads, DeviceReads(t)
      PROVE  Within' /\ RingInOrder' /\ RingReads'
  <2>1. /\ pc[t] = "dev" /\ \A u \in Threads \ {t} : pc'[u] = pc[u]
        /\ pc'[t] = IF t = Reader THEN "done" ELSE "event"
        /\ ring' = IF rd[t].to = "ring"
                   THEN [s \in Sectors |-> IF s \in Bank(rd[t].at)
                           THEN (rd[t].lsn + s - rd[t].at) % LsnSpace ELSE ring[s]]
                   ELSE ring
        /\ UNCHANGED <<rthread_sema, cdread, rd, StWritePtr, StReadPtr, StStreamed, Stlsn, StIsReading, ptr, copied>>
    BY <1>31 DEF DeviceReads, Goto, Labels, stVars, localVars
  <2>2. Busy(t) /\ Performs(t) /\ ~rthread_sema /\ \A u \in Threads : Busy(u) => u = t
    BY <2>1 DEF Busy, Performs, Drive
  <2>3. \A u \in Threads : ~Performs(u)'
    BY <2>1, <2>2 DEF Busy, Performs
  <2>4. \A r \in Read : ~Pending(r)'
    BY <2>1, <2>2, <2>3 DEF Pending
  <2>5. rd[t] \in Read /\ Pending(rd[t])
    BY <2>2 DEF DriveTypes, Pending
  <2>6. Room' <=> Room
    BY <2>1 DEF Room
  <2>7. /\ \A u \in Threads : pc'[u] = "fill_go" => pc[u] = "fill_go"
        /\ \A d \in Clients : pc'[d] = "st_commit" => pc[d] = "st_commit"
    BY <2>1 DEF Threads
  <2>8. CASE rd[t].to # "ring"
    <3>1. ~StIsReading /\ ring' = ring
      BY <2>1, <2>5, <2>8 DEF RingReads
    <3> QED
      BY <2>1, <2>4, <2>6, <2>7, <3>1 DEF Within, RingInOrder, RingReads
  <2>9. CASE rd[t].to = "ring"
    <3>1. /\ StStreamed = 0 \/ (rd[t].at = StWritePtr /\ Room)
          /\ StIsReading => Room /\ rd[t].at = StWritePtr /\ rd[t].lsn = Stlsn
      BY <2>5, <2>9 DEF RingReads
    <3>2. Within'
      BY <2>1 DEF Within
    <3>3. ASSUME NEW i \in 0..(StStreamed' - 1)
          PROVE  ring'[(StReadPtr' + i) % StBufmax] = (Stlsn' - StStreamed' + i) % LsnSpace
      <4>1. i \in 0..(StStreamed - 1) /\ StStreamed # 0
        BY <2>1, <3>3
      <4>2. rd[t].at = StWritePtr /\ Room
        BY <3>1, <4>1
      <4>3. (StReadPtr + i) % StBufmax \in Sectors \ Bank(StWritePtr)
        BY <4>1, <4>2, BankFree
      <4>4. ring'[(StReadPtr + i) % StBufmax] = ring[(StReadPtr + i) % StBufmax]
        BY <2>1, <2>9, <4>2, <4>3
      <4>5. ring[(StReadPtr + i) % StBufmax] = (Stlsn - StStreamed + i) % LsnSpace
        BY <4>1 DEF RingInOrder
      <4> QED
        BY <2>1, <4>4, <4>5
    <3>4. StIsReading => BankFilled'
      <4> SUFFICES ASSUME StIsReading, NEW s \in Bank(StWritePtr)
                   PROVE  ring'[s] = (Stlsn + s - StWritePtr) % LsnSpace
        BY <2>1 DEF BankFilled, Bank
      <4>1. s \in Sectors
        BY DEF Bank
      <4> QED
        BY <2>1, <2>9, <3>1, <4>1
    <3>5. RingReads'
      BY <2>1, <2>4, <2>6, <2>7, <3>1, <3>4 DEF RingReads
    <3> QED
      BY <3>2, <3>3, <3>5 DEF RingInOrder
  <2> QED
    BY <2>8, <2>9
<1>32. ASSUME ReaderWakes
      PROVE  Within' /\ RingInOrder' /\ RingReads'
  <2>1. rthread_sema /\ \A u \in Threads : ~Performs(u)
    BY <1>32 DEF ReaderWakes, Drive, Busy, Performs
  <2>2. /\ \A u \in Threads \ {Reader} : pc'[u] = pc[u]
        /\ pc'[Reader] \in {"lock", "dev"} /\ Reader \in Threads
        /\ rthread_sema' = FALSE /\ rd'[Reader] = cdread
        /\ UNCHANGED <<StWritePtr, StReadPtr, StStreamed, ring, Stlsn, StIsReading, ptr, copied>>
    BY <1>32
       DEF ReaderWakes, Goto, Labels, Threads, DriveTypes, stVars, ringVars,
           localVars
  <2>3. \A u \in Threads : Performs(u)' <=> u = Reader
    BY <2>1, <2>2 DEF Performs
  <2>4. \A r \in Read : Pending(r)' => Pending(r)
    BY <2>1, <2>2, <2>3 DEF Pending
  <2>5. RingSame
    BY <2>2, <2>4, NamesAssumption DEF RingSame, DoneLabels, Threads
  <2> QED
    BY <2>5, RingKept
<1>33. ASSUME ReaderDone
      PROVE  Within' /\ RingInOrder' /\ RingReads'
  <2>1. RingSame
    BY <1>33, NamesAssumption
       DEF ReaderDone, Goto, Labels, Threads, RingSame, DoneLabels, Pending,
           Performs, readVars, bufVars, stVars, ringVars, localVars
  <2> QED
    BY <2>1, RingKept
<1>34. ASSUME ReaderRechecks
      PROVE  Within' /\ RingInOrder' /\ RingReads'
  <2>1. RingSame
    BY <1>34, NamesAssumption
       DEF ReaderRechecks, Goto, Labels, Threads, RingSame, DoneLabels, Pending,
           Performs, readVars, bufVars, stVars, ringVars, localVars
  <2> QED
    BY <2>1, RingKept
<1>35. ASSUME StmCallback
      PROVE  Within' /\ RingInOrder' /\ RingReads'
  <2>1. /\ pc[Reader] = "callback" /\ pc'[Reader] = "fill" /\ Reader \in Threads
        /\ \A u \in Threads \ {Reader} : pc'[u] = pc[u]
        /\ UNCHANGED <<rthread_sema, cdread, rd, StReadPtr, ring, ptr, copied>>
    BY <1>35 DEF StmCallback, Goto, Labels, Threads, readVars, bufVars, localVars
  <2>2. \A r \in Read : ~Pending(r)'
    <3>1. ~sync_flag
      BY <2>1 DEF StreamReader
    <3>2. \A r \in Read : ~Pending(r)
      BY <3>1, NothingPending
    <3> QED
      BY <2>1, <3>2 DEF Pending, Performs
  <2>3. \A u \in Threads : pc'[u] # "fill_go"
    BY <2>1 DEF StreamClient, Ends, ReaderQuiet, Threads
  <2>4. CASE StIsReading
    <3>1. /\ Stlsn' = (Stlsn + StBanksize) % LsnSpace /\ StStreamed' = StStreamed + StBanksize
          /\ StWritePtr' = Wrap(StWritePtr + StBanksize)
      BY <1>35, <2>4 DEF StmCallback
    <3>2. Room /\ BankFilled
      BY <2>1, <2>4 DEF RingReads, DoneLabels
    <3>3. Within' /\ RingInOrder'
      BY <2>1, <3>1, <3>2, BankCounted
    <3>4. \A c \in Clients : pc'[c] = "st_commit" => copied'[c] <= StStreamed'
      <4> SUFFICES ASSUME NEW c \in Clients, pc'[c] = "st_commit"
                   PROVE  copied'[c] <= StStreamed'
        OBVIOUS
      <4>1. copied[c] <= StStreamed /\ copied[c] \in Int /\ StStreamed \in Int
        BY <2>1, NamesAssumption DEF RingReads, StreamTypes, Threads
      <4> QED
        BY <2>1, <3>1, <4>1, BufmaxPositive
    <3>5. RingReads'
      BY <2>1, <2>2, <2>3, <3>4, QuietRing DEF DoneLabels
    <3> QED
      BY <3>3, <3>5
  <2>5. CASE ~StIsReading
    <3>1. RingSame
      BY <1>35, <2>1, <2>2, <2>3, <2>5, NamesAssumption
         DEF StmCallback, RingSame, DoneLabels, Threads
    <3> QED
      BY <3>1, RingKept
  <2> QED
    BY <2>4, <2>5
<1>36. ASSUME NEW again \in BOOLEAN, EventAlarm(again)
      PROVE  Within' /\ RingInOrder' /\ RingReads'
  BY <1>36 DEF EventAlarm, StreamReader
<1>37. ASSUME StmSchedule
      PROVE  Within' /\ RingInOrder' /\ RingReads'
  BY <1>37 DEF StmSchedule, StreamReader
<1> QED
  BY <1>1, <1>2, <1>3, <1>4, <1>5, <1>6, <1>7, <1>8, <1>9, <1>10, <1>11, <1>12,
     <1>13, <1>14, <1>15, <1>16, <1>17, <1>18, <1>19, <1>20, <1>21, <1>22, <1>23,
     <1>24, <1>25, <1>26, <1>27, <1>28, <1>29, <1>30, <1>31, <1>32, <1>33, <1>34,
     <1>35, <1>36, <1>37
     DEF Next, ClientCalls, ClientContinues, Shared, ReaderContinues, Interrupts,
         Threads

----------------------------------------------------------------------------
(* The invariant *)

LEMMA RingInit ==
  ASSUME Init
  PROVE  RingInv
<1>1. CoreInv
  BY CoreInit
<1>2. /\ StWritePtr = 0 /\ StReadPtr = 0 /\ StStreamed = 0 /\ ~rthread_sema /\ ~StIsReading
      /\ \A t \in Threads : pc[t] \in {"wait", "idle"}
      /\ pc[Reader] = "wait" /\ \A c \in Clients : pc[c] = "idle"
  BY NamesAssumption DEF Init, Threads
<1>3. Aligned
  <2>1. 0 \in 0..(StBankmax - 1) /\ 0 = 0 * StBanksize
    BY RingAssumption
  <2> QED
    BY <1>2, <2>1 DEF Aligned
<1>4. Distance
  <2>1. 0 - 0 - 0 = 0 * StBufmax
    BY BufmaxPositive
  <2> QED
    BY <1>2, <2>1 DEF Distance
<1>5. Within /\ RingInOrder
  BY <1>2, BufmaxPositive DEF Within, RingInOrder
<1>6. RingReads
  BY <1>2 DEF RingReads, Pending, Performs, DoneLabels
<1> QED
  BY <1>1, <1>3, <1>4, <1>5, <1>6 DEF RingInv, Ring

LEMMA RingStep ==
  ASSUME RingInv, Next
  PROVE  RingInv'
<1>1. CoreInv' /\ (Single' <=> Single)
  BY CoreStep, GameFixed, ClassesFixed DEF RingInv
<1>2. Aligned' /\ Distance'
  BY AlignedNext, DistanceNext DEF RingInv, CoreInv
<1>3. Ring'
  BY <1>1, RingNext DEF RingInv, CoreInv, Covered, Streams, Ring
<1> QED
  BY <1>1, <1>2, <1>3 DEF RingInv

LEMMA RingStutter ==
  ASSUME RingInv, UNCHANGED vars
  PROVE  RingInv'
<1> USE DEF vars, lockVars, readVars, bufVars, cbVars, stVars, ringVars, localVars
<1>1. CoreInv' /\ (Single' <=> Single)
  BY CoreStutter, ClassesFixed DEF RingInv
<1>2. Aligned' /\ Distance'
  BY DEF RingInv, Aligned, Distance
<1>3. RingSame
  BY DEF RingSame, Pending, Performs
<1>4. Ring'
  BY <1>1, <1>3, RingKept DEF RingInv, Ring
<1> QED
  BY <1>1, <1>2, <1>4 DEF RingInv

\* What the ring is at any time, for rings of any size: the invariant of the
\* theorems below.
THEOREM RingAlways == Spec => []RingInv
<1>1. Init => RingInv
  BY RingInit
<1>2. RingInv /\ [Next]_vars => RingInv'
  BY RingStep, RingStutter
<1> QED
  BY <1>1, <1>2, PTL DEF Spec

\* The three counters that StmCallback, StReset and StReadCommit keep separately
\* agree, for every game; and no bank is read over sectors that wait to be
\* copied, for the games that stream from one thread, read while they stream, or
\* do not stream.
THEOREM RingRight ==
  Spec => [](/\ (StWritePtr - StReadPtr - StStreamed) % StBufmax = 0
             /\ Single \/ Silent \/ game.mixes => RingCounted)
<1>1. RingInv => (StWritePtr - StReadPtr - StStreamed) % StBufmax = 0
  <2> SUFFICES ASSUME RingInv
               PROVE  (StWritePtr - StReadPtr - StStreamed) % StBufmax = 0
    OBVIOUS
  <2>1. PICK k \in Int : StWritePtr - StReadPtr - StStreamed = k * StBufmax
    BY DEF RingInv, Distance
  <2>2. (k * StBufmax + 0) % StBufmax = 0
    <3>1. 0 \in 0..(StBufmax - 1)
      BY BufmaxPositive
    <3> QED
      BY <3>1, BufmaxPositive, ModUnique
  <2>3. k * StBufmax + 0 = k * StBufmax
    BY BufmaxPositive
  <2> QED
    BY <2>1, <2>2, <2>3
<1>2. RingInv => (Single \/ Silent \/ game.mixes => RingCounted)
  <2> SUFFICES ASSUME RingInv, Single \/ Silent \/ game.mixes
               PROVE  RingCounted
    OBVIOUS
  <2>1. ~game.mixes => StStreamed <= StBufmax
    BY BufmaxPositive DEF RingInv, CoreInv, NoStream, Ring, Within
  <2> QED
    BY <1>1, <2>1 DEF RingCounted
<1> QED
  BY <1>1, <1>2, RingAlways, PTL

\* A game that streams from one thread is offered the sectors of its stream in
\* order, whatever it stops, pauses, seeks or resumes while a bank is being read:
\* StReset and sceCdStPause forget the read in flight before it can be counted,
\* and the next one is started only when the drive is free of it.
THEOREM StreamRight ==
  Spec => [](Single \/ Silent \/ game.mixes => StreamInOrder)
<1>1. RingInv => (Single \/ Silent \/ game.mixes => StreamInOrder)
  <2> SUFFICES ASSUME RingInv, Single \/ Silent
               PROVE  RingInOrder
    BY DEF StreamInOrder
  <2>1. CASE Single
    BY <2>1 DEF RingInv, Ring
  <2>2. CASE Silent
    BY <2>2 DEF RingInv, CoreInv, NoStream, RingInOrder
  <2> QED
    BY <2>1, <2>2
<1> QED
  BY <1>1, RingAlways, PTL

\* cdvdman's state has its types, and the count of sectors never falls below
\* zero, in the games that stream from one thread or do not stream.
THEOREM TypeCorrect == Spec => [](Single \/ Silent => TypeOK)
<1>1. RingInv => (Single \/ Silent => TypeOK)
  <2> SUFFICES ASSUME RingInv, Single \/ Silent
               PROVE  TypeOK
    OBVIOUS
  <2>1. Types
    BY DEF RingInv, CoreInv
  <2>2. StStreamed \in Nat
    BY <2>1 DEF RingInv, CoreInv, NoStream, Ring, Within, Types, StreamTypes
  <2> QED
    BY <2>1, <2>2 DEF TypeOK, Types, Labels, DriveTypes, StreamTypes
<1> QED
  BY <1>1, RingAlways, PTL

=============================================================================
