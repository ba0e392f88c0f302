------------------------- MODULE UdpFsAnswerProofs -------------------------
(***************************************************************************)
(* Why a call of UDPFS gets its own answer, and is carried out at most     *)
(* once (module UdpFs): for every size of windows, answers, writes and     *)
(* sequence space, any number of calls, and any losses, repetitions and    *)
(* restarts.                                                               *)
(***************************************************************************)
EXTENDS UdpFsProofs

\* What udprdma_discover relies on, for it does not clear EF_RX_INFO before it
\* waits: an INFORM whose flag is left over when the session is down does not
\* speak of a session that the server has used and still keeps.
NoStaleInform ==
  state \in {"init", "disconnected"} /\ "info" \in event_flag =>
    (srv.session => srv.fresh)

----------------------------------------------------------------------------
(* The wire *)

Elements(q) == {q[i] : i \in DOMAIN q}

\* What is in a queue, and what is not before what.
Ordered(q) ==
  {p \in Elements(q) \X Elements(q) :
     \E i, j \in DOMAIN q : i <= j /\ p = <<q[i], q[j]>>}

Requests == [call : Calls, part : 1..WriteChunks, fin : BOOLEAN]
Payloads == [call : Calls, part : 1..ReadParts, ok : BOOLEAN, hdr : BOOLEAN,
             data : BOOLEAN, fin : BOOLEAN]
DataOf(P) == {Data(n, a, p) : n \in SeqNrs, a \in SeqNrs, p \in P}
Acks      == {Ack(n) : n \in SeqNrs}
Nacks     == {Nack(n) : n \in SeqNrs}
UpPackets   == {Disc} \cup Acks \cup Nacks \cup DataOf(Requests)
DownPackets == {Inform} \cup Acks \cup DataOf(Payloads)

Servers == [session : BOOLEAN, fresh : BOOLEAN, expected : SeqNrs, next : SeqNrs,
            sent : Nat, pend : Seq(Payloads), tries : Nat]

Up   == Elements(toServer)
Down == Elements(toClient)
Asked    == {m \in Up : m.kind = "data"}
Answered == {m \in Down : m.kind = "data"}

WireTypes ==
  /\ toServer \in Seq(UpPackets) /\ toClient \in Seq(DownPackets)
  /\ srv \in Servers
  /\ state \in {"init", "discovering", "connected", "disconnected"}
  /\ tx_seq_nr \in SeqNrs /\ rx_seq_nr_expected \in SeqNrs
  /\ sent_seq_nr \in [Threads -> SeqNrs]
  /\ chunk \in [Threads -> 1..WriteChunks]
  /\ call \in [Threads -> Calls \cup {NoCall}]
  /\ evf_bits \in [Threads -> SUBSET Bits] /\ event_flag \in SUBSET Bits
  /\ op \in [Calls -> Ops]
  /\ outcome \in [Calls -> {"none", "called", "ok", "failed"}]
  /\ served \in [Calls -> {0, 1}]

\* The call of a thread, and the calls that packets are about.
CallState ==
  /\ \A c \in Calls : outcome[c] = "none" => served[c] = 0
  /\ \A m \in Asked \cup Answered : outcome[m.load.call] # "none"
  /\ \A i \in DOMAIN srv.pend : outcome[srv.pend[i].call] # "none"
  /\ \A t \in Threads : pc[t] \in Requesting =>
       /\ call[t] \in Calls /\ outcome[call[t]] = "called"
       /\ chunk[t] <= Chunks(op[call[t]])
       /\ pc[t] \in {"recv", "rcv_got", "check"} => chunk[t] = Chunks(op[call[t]])
       /\ pc[t] \in {"snd_wait", "snd_got"} => tx_seq_nr = Plus(sent_seq_nr[t], 1)
  /\ \A t \in Threads :
       pc[t] \notin {"snd_got", "rcv_got", "disc_got"} => evf_bits[t] = {}

----------------------------------------------------------------------------
(* The server's session *)

HasDisc == \E m \in Up : m.kind = "disc"

\* A new session is on its way, or begun and not used; it is in use.
Opening == HasDisc \/ (srv.session /\ srv.fresh)
Synced  == ~HasDisc /\ srv.session /\ ~srv.fresh

NotUsed == srv.session => srv.fresh
OnlyDisc == \A m \in Up : m.kind = "disc"
OnlyInform == \A m \in Down : m.kind = "inform"

DiscsFirst  == \A p \in Ordered(toServer) : p[2].kind = "disc" => p[1].kind = "disc"
InformsLast == \A p \in Ordered(toClient) : p[1].kind = "inform" => p[2].kind = "inform"

\* The watchdog looks for the server: what it hears of is a new session.
Searching ==
  /\ pc[Dog] \in Discovering
  /\ OnlyDisc /\ InformsLast
  /\ (\E m \in Down : m.kind = "inform") => NotUsed
  /\ "info" \in event_flag => OnlyInform /\ NotUsed
  /\ pc[Dog] = "disc_got" /\ "info" \in evf_bits[Dog] =>
       OnlyInform /\ NotUsed /\ event_flag \subseteq {"timeout", "info"}

Sessions ==
  /\ ~srv.session => ~srv.fresh
  /\ ~srv.session \/ srv.fresh => srv.pend = <<>>
  /\ DiscsFirst
  /\ state = "init" => OnlyDisc
  /\ state = "discovering" => Searching

----------------------------------------------------------------------------
(* Requests *)

\* A packet of call c, whose first packet has number b; of a call before it.
Own(m, c, b) ==
  /\ m.load.call = c /\ m.load.part <= Chunks(op[c])
  /\ m.load.fin = (m.load.part = Chunks(op[c]))
  /\ m.seq = Plus(b, m.load.part - 1)
Past(m, b) == \E e \in 1..WriteChunks : m.seq = Plus(b, -e)

\* The requests under way while call c is made, or after it has failed.
Line(c, b) ==
  /\ Opening =>
       /\ HasDisc => NotUsed
       /\ served[c] = 0
       /\ \A m \in Asked : Own(m, c, b) /\ m.load.part = 1
  /\ Synced =>
       /\ \A m \in Asked : IF m.load.call = c THEN Own(m, c, b) ELSE Past(m, b)
       /\ \A p \in Ordered(toServer) :
            p[1].kind = "data" /\ p[2].kind = "data" /\ p[1].load.call = c
              => p[2].load.call = c
       /\ \E a \in 0..Chunks(op[c]) :
            /\ srv.expected = Plus(b, a)
            /\ served[c] = 1 <=> a = Chunks(op[c])
            /\ a > 0 => \A m \in Asked : m.load.call = c

\* ... and between calls.
Rest ==
  /\ Opening => Asked = {} /\ (HasDisc => NotUsed)
  /\ Synced => /\ srv.expected = tx_seq_nr
               /\ \A m \in Asked : Past(m, tx_seq_nr)

\* The number of the first packet of t's call.
TxBase(t) == Plus(tx_seq_nr, IF pc[t] = "send" THEN 1 - chunk[t] ELSE -chunk[t])

Resting == state = "connected" /\ \A t \in Threads : pc[t] = "idle"

RequestSide ==
  /\ \A t \in Threads : pc[t] \in Requesting => Line(call[t], TxBase(t))
  /\ Resting => Rest
  /\ state = "disconnected" =>
       \/ Asked = {}
       \/ \E c \in Calls, b \in SeqNrs : Line(c, b) /\ outcome[c] = "failed"

----------------------------------------------------------------------------
(* Answers *)

\* How far a number is behind the next packet that the client expects.
Lag(n) == (rx_seq_nr_expected - n) % SeqSpace

\* What the client expected when it sent a packet.
Expected(m) == IF m.kind = "nack" THEN m.ack ELSE Plus(m.ack, 1)

Size(c, ok) == IF ok THEN Parts(op[c]) ELSE 1

\* The client has the first n packets of the answer to c, which is an error or not.
Received(t, ok, n) ==
  LET c == call[t]
  IN /\ n <= Size(c, ok)
     /\ n > 0 => served[c] = 1
     /\ rx_received = [i \in 1..(IF op[c] = "read" /\ ~ok THEN 0 ELSE n) |->
                         [call |-> c, part |-> i, ok |-> ok]]
     /\ op[c] = "read" =>
          /\ DOMAIN rx_hdr = {"buf", "got", "val"}
          /\ rx_hdr.val = IF n = 0 THEN NoHdr ELSE [call |-> c, ok |-> ok]
          /\ pc[t] # "check" => rx_hdr.buf = c /\ rx_hdr.got = (n > 0)
     /\ IF pc[t] = "check" THEN rx_buffer = NoCall ELSE rx_buffer = c
     /\ "fin" \in event_flag \cup evf_bits[t] \/ pc[t] = "check" => n = Size(c, ok)
     /\ (pc[t] = "rcv_got" /\ "fin" \in evf_bits[t]) \/ pc[t] = "check"
          => "fin" \notin event_flag

\* What is under way to the client: packets of that answer, and repetitions of
\* the one before it.
Answers(t, ok, n) ==
  LET c == call[t]
  IN /\ \A m \in Answered :
          IF m.load.call = c
          THEN /\ m.load = Payload(c, m.load.part, ok)
               /\ m.load.part <= Size(c, ok)
               /\ m.seq = Plus(rx_seq_nr_expected, m.load.part - 1 - n)
               /\ served[c] = 1
          ELSE n = 0 /\ \E e \in 1..ReadParts : m.seq = Plus(rx_seq_nr_expected, -e)
     /\ \A p \in Ordered(toClient) :
          p[1].kind = "data" /\ p[2].kind = "data" /\ p[1].load.call = c
            => p[2].load.call = c

\* What the server has still to send, or to hear of.
Pending(t, ok, n) ==
  LET c == call[t]
      lag == Lag(srv.next)
  IN /\ lag <= Len(srv.pend) /\ Len(srv.pend) <= ReadParts
     /\ served[c] = 0 => /\ lag = Len(srv.pend)
                         /\ \A i \in DOMAIN srv.pend : srv.pend[i].call # c
                         /\ \A m \in Asked : m.load.call = c =>
                              Expected(m) = rx_seq_nr_expected
     /\ served[c] = 1 => /\ lag <= n /\ Len(srv.pend) = Size(c, ok) - (n - lag)
                         /\ \A i \in DOMAIN srv.pend :
                              srv.pend[i] = Payload(c, n - lag + i, ok)

\* What the server has still to hear.
Heard ==
  /\ \A m \in Up : Lag(Expected(m)) <= Lag(srv.next)
  /\ \A p \in Ordered(toServer) : Lag(Expected(p[2])) <= Lag(Expected(p[1]))

\* A session that is not used yet.
Unheard(t) ==
  /\ OnlyInform /\ pc[t] \in {"send", "snd_wait", "snd_got"} /\ chunk[t] = 1
  /\ \A m \in Up : m.kind \in {"disc", "data"}
  /\ \A m \in Asked : Expected(m) = rx_seq_nr_expected
  /\ "ack" \notin event_flag \cup evf_bits[t]

AnswerSide ==
  /\ \A t \in Threads : pc[t] \in Requesting =>
       /\ \E ok \in BOOLEAN, n \in 0..ReadParts :
            /\ Received(t, ok, n) /\ Answers(t, ok, n)
            /\ Synced => Pending(t, ok, n)
            /\ Opening => n = 0
       /\ Synced => Heard
       /\ Opening => Unheard(t)
  /\ Resting =>
       /\ \A m \in Answered :
            /\ rx_buffer = NoCall
            /\ \E e \in 1..ReadParts : m.seq = Plus(rx_seq_nr_expected, -e)
       /\ "fin" \notin event_flag
       /\ Opening => OnlyInform /\ "ack" \notin event_flag
       /\ Opening => \A m \in Up : m.kind = "disc"
       /\ Synced => /\ rx_buffer = NoCall /\ Heard
                    /\ Lag(srv.next) = Len(srv.pend) /\ Len(srv.pend) <= ReadParts

WireInv ==
  WireTypes /\ Turns /\ CallState /\ Sessions /\ RequestSide /\ AnswerSide

----------------------------------------------------------------------------
(* Sequence numbers *)

\* A sequence number plus nothing, and plus two numbers.
LEMMA SizeFacts ==
  /\ SeqSpace \in Nat /\ SeqSpace > ReadParts + WriteChunks
  /\ ReadParts \in Nat \ {0} /\ WriteChunks \in Nat \ {0} /\ AckWindow \in Nat \ {0}
BY SizesAssumption

LEMMA ModRange == ASSUME NEW m \in Nat \ {0}, NEW a \in Int PROVE a % m \in 0..(m - 1)
OBVIOUS

LEMMA ModIs ==
  ASSUME NEW m \in Nat \ {0}, NEW k \in Int, NEW r \in 0..(m - 1)
  PROVE  (k * m + r) % m = r
OBVIOUS

LEMMA ModDiv ==
  ASSUME NEW m \in Nat \ {0}, NEW a \in Int
  PROVE  \E k \in Int : a = k * m + (a % m)
<1>1. (a \div m) \in Int /\ a = (a \div m) * m + (a % m)
  OBVIOUS
<1> QED BY <1>1

\* Numbers that differ by a multiple of m, and no others, have the same rest.
LEMMA ModSame ==
  ASSUME NEW m \in Nat \ {0}, NEW a \in Int, NEW b \in Int, NEW k \in Int, a = b + k * m
  PROVE  a % m = b % m
<1>1. PICK q \in Int : b = q * m + (b % m)
  BY ModDiv
<1>2. b % m \in 0..(m - 1) /\ q + k \in Int
  BY ModRange
<1>3. a = (q + k) * m + (b % m)
  BY <1>1, <1>2
<1>4. ((q + k) * m + (b % m)) % m = b % m
  BY <1>2, ModIs, Zenon
<1> QED BY <1>3, <1>4

LEMMA ModDiffer ==
  ASSUME NEW m \in Nat \ {0}, NEW a \in Int, NEW b \in Int, a % m = b % m
  PROVE  \E k \in Int : a = b + k * m
<1>1. PICK p \in Int : a = p * m + (a % m)
  BY ModDiv
<1>2. PICK q \in Int : b = q * m + (b % m)
  BY ModDiv
<1>3. p - q \in Int /\ a = b + (p - q) * m
  BY <1>1, <1>2, ModRange
<1> QED BY <1>3

LEMMA NoMultiple ==
  ASSUME NEW m \in Nat \ {0}, NEW d \in (1 - m)..(m - 1), NEW k \in Int, d = k * m
  PROVE  d = 0
<1>1. CASE k >= 1
  BY <1>1
<1>2. CASE k <= -1
  BY <1>2
<1>3. CASE k = 0
  BY <1>3
<1> QED BY <1>1, <1>2, <1>3

LEMMA PlusType == ASSUME NEW n \in Int, NEW i \in Int PROVE Plus(n, i) \in SeqNrs
BY SizesAssumption, ModRange DEF Plus, SeqNrs

LEMMA SeqInt == ASSUME NEW n \in SeqNrs PROVE n \in Int
BY SizesAssumption DEF SeqNrs

LEMMA ModSum ==
  ASSUME NEW m \in Nat \ {0}, NEW a \in Int, NEW j \in Int
  PROVE  ((a % m) + j) % m = (a + j) % m
<1>1. PICK k \in Int : a = k * m + (a % m)
  BY ModDiv
<1>2. a % m \in Int /\ -k \in Int /\ a + j \in Int
  BY ModRange
<1>3. (a % m) + j \in Int /\ (a % m) + j = (a + j) + (-k) * m
  BY <1>1, <1>2
<1> QED BY <1>2, <1>3, ModSame

LEMMA PlusPlus ==
  ASSUME NEW n \in Int, NEW i \in Int, NEW j \in Int
  PROVE  Plus(Plus(n, i), j) = Plus(n, i + j)
<1>1. SeqSpace \in Nat \ {0} /\ n + i \in Int /\ (n + i) + j = n + (i + j)
  BY SizesAssumption
<1>2. (((n + i) % SeqSpace) + j) % SeqSpace = ((n + i) + j) % SeqSpace
  BY <1>1, ModSum, Zenon
<1> QED BY <1>1, <1>2 DEF Plus

LEMMA PlusZero == ASSUME NEW n \in SeqNrs PROVE Plus(n, 0) = n
<1>1. SeqSpace \in Nat \ {0} /\ n \in 0..(SeqSpace - 1) /\ 0 \in Int /\ n + 0 = 0 * SeqSpace + n
  BY SizesAssumption DEF SeqNrs
<1>2. (0 * SeqSpace + n) % SeqSpace = n
  BY <1>1, ModIs, Zenon
<1> QED BY <1>1, <1>2 DEF Plus

\* Numbers less than SeqSpace apart are told apart.
LEMMA PlusApart ==
  ASSUME NEW n \in Int, NEW i \in Int, NEW j \in Int, i - j < SeqSpace, j - i < SeqSpace,
         Plus(n, i) = Plus(n, j)
  PROVE  i = j
<1>1. SeqSpace \in Nat \ {0} /\ n + i \in Int /\ n + j \in Int
  BY SizesAssumption
<1>2. PICK k \in Int : n + i = n + j + k * SeqSpace
  BY <1>1, ModDiffer DEF Plus
<1>3. i - j = k * SeqSpace /\ i - j \in (1 - SeqSpace)..(SeqSpace - 1)
  BY <1>1, <1>2
<1>4. i - j = 0
  BY <1>1, <1>3, NoMultiple
<1> QED BY <1>4

\* How far n is behind e.
LEMMA Behind ==
  ASSUME NEW e \in SeqNrs
  PROVE  /\ \A n \in SeqNrs : /\ (e - n) % SeqSpace \in 0..(SeqSpace - 1)
                              /\ n = Plus(e, -((e - n) % SeqSpace))
         /\ \A f \in 0..(SeqSpace - 1) : (e - Plus(e, -f)) % SeqSpace = f
<1> DEFINE L(n) == (e - n) % SeqSpace
<1> HIDE DEF L
<1>0. SeqSpace \in Nat \ {0} /\ e \in Int
  BY SizesAssumption, SeqInt
<1>1. ASSUME NEW n \in SeqNrs
      PROVE  L(n) \in 0..(SeqSpace - 1) /\ n = Plus(e, -L(n))
  <2>1. n \in Int /\ e - n \in Int
    BY <1>0, SeqInt
  <2>2. L(n) \in 0..(SeqSpace - 1)
    BY <1>0, <2>1, ModRange DEF L
  <2>3. PICK k \in Int : e - n = k * SeqSpace + L(n)
    BY <1>0, <2>1, ModDiv DEF L
  <2>4. e + (-L(n)) \in Int /\ e + (-L(n)) = n + k * SeqSpace
    BY <1>0, <2>1, <2>2, <2>3
  <2>5. (e + (-L(n))) % SeqSpace = n % SeqSpace
    BY <1>0, <2>1, <2>4, ModSame
  <2>6. Plus(n, 0) = n /\ n + 0 = n
    BY <2>1, PlusZero
  <2> QED BY <2>2, <2>5, <2>6 DEF Plus
<1>2. ASSUME NEW f \in 0..(SeqSpace - 1) PROVE L(Plus(e, -f)) = f
  <2> DEFINE n == Plus(e, -f)
  <2>1. f \in Int /\ -f \in Int /\ n \in SeqNrs
    BY <1>0, PlusType
  <2>2. L(n) \in 0..(SeqSpace - 1) /\ Plus(e, -L(n)) = Plus(e, -f)
    BY <1>1, <2>1
  <2>3. -L(n) \in Int /\ -L(n) - (-f) < SeqSpace /\ -f - (-L(n)) < SeqSpace
    BY <1>0, <2>1, <2>2
  <2>4. -L(n) = -f
    BY <1>0, <2>1, <2>2, <2>3, PlusApart
  <2> QED BY <1>0, <2>1, <2>2, <2>4
<1> QED BY <1>1, <1>2 DEF L


LEMMA LagFacts ==
  ASSUME rx_seq_nr_expected \in SeqNrs
  PROVE  /\ \A n \in SeqNrs : /\ Lag(n) \in 0..(SeqSpace - 1)
                              /\ n = Plus(rx_seq_nr_expected, -Lag(n))
         /\ \A f \in 0..(SeqSpace - 1) : Lag(Plus(rx_seq_nr_expected, -f)) = f
BY Behind DEF Lag

\* The client has taken one packet more.
LEMMA LagNext ==
  ASSUME rx_seq_nr_expected \in SeqNrs, rx_seq_nr_expected' = Plus(rx_seq_nr_expected, 1),
         NEW x \in SeqNrs, Lag(x) < SeqSpace - 1
  PROVE  Lag(x)' = Lag(x) + 1
<1> DEFINE L == Lag(x)
<1>1. PICK r \in SeqNrs : r = rx_seq_nr_expected
  OBVIOUS
<1>2. r \in Int /\ 1 \in Int /\ SeqSpace \in Nat
  BY SeqInt, SizesAssumption
<1>3. PICK s \in SeqNrs : s = Plus(r, 1)
  BY <1>2, PlusType
<1>4. L \in 0..(SeqSpace - 1) /\ x = Plus(r, -L)
  BY <1>1, LagFacts
<1> HIDE DEF L
<1>5. L \in Int /\ L + 1 \in 0..(SeqSpace - 1) /\ -(L + 1) \in Int /\ 1 + (-(L + 1)) = -L
  BY <1>2, <1>4 DEF L
<1>6. Plus(Plus(r, 1), -(L + 1)) = Plus(r, 1 + (-(L + 1)))
  BY <1>2, <1>5, PlusPlus
<1>7. x = Plus(s, -(L + 1))
  BY <1>3, <1>4, <1>5, <1>6
<1>8. (s - Plus(s, -(L + 1))) % SeqSpace = L + 1
  BY <1>5, Behind
<1>9. Lag(x)' = (s - x) % SeqSpace
  BY <1>1, <1>3 DEF Lag
<1> QED BY <1>7, <1>8, <1>9 DEF L
----------------------------------------------------------------------------
(* Queues and packets *)

LEMMA ElementsType ==
  ASSUME NEW S, NEW q \in Seq(S)
  PROVE  Elements(q) \subseteq S
BY DEF Elements

LEMMA TailQueue ==
  ASSUME NEW S, NEW q \in Seq(S), q # <<>>
  PROVE  /\ Tail(q) \in Seq(S) /\ Head(q) \in Elements(q) /\ Head(q) \in S
         /\ Elements(Tail(q)) \subseteq Elements(q)
         /\ Ordered(Tail(q)) \subseteq Ordered(q)
         /\ \A x \in Elements(Tail(q)) : <<Head(q), x>> \in Ordered(q)
<1>1. /\ Tail(q) \in Seq(S) /\ Len(Tail(q)) = Len(q) - 1 /\ Len(q) \in Nat \ {0}
      /\ Head(q) = q[1] /\ DOMAIN q = 1..Len(q) /\ DOMAIN Tail(q) = 1..Len(Tail(q))
      /\ \A i \in 1..(Len(q) - 1) : Tail(q)[i] = q[i + 1]
  OBVIOUS
<1>2. \A i \in DOMAIN Tail(q) : i + 1 \in DOMAIN q /\ Tail(q)[i] = q[i + 1]
  BY <1>1
<1>3. Elements(Tail(q)) \subseteq Elements(q) /\ Head(q) \in Elements(q) /\ Head(q) \in S
  BY <1>1, <1>2 DEF Elements
<1>4. ASSUME NEW p \in Ordered(Tail(q)) PROVE p \in Ordered(q)
  <2>1. PICK i, j \in DOMAIN Tail(q) : i <= j /\ p = <<Tail(q)[i], Tail(q)[j]>>
    BY DEF Ordered
  <2>2. i + 1 \in DOMAIN q /\ j + 1 \in DOMAIN q /\ i + 1 <= j + 1 /\ p = <<q[i + 1], q[j + 1]>>
    BY <1>1, <1>2, <2>1
  <2> QED BY <2>2 DEF Ordered, Elements
<1>5. ASSUME NEW x \in Elements(Tail(q)) PROVE <<Head(q), x>> \in Ordered(q)
  <2>1. PICK i \in DOMAIN Tail(q) : x = Tail(q)[i]
    BY DEF Elements
  <2>2. 1 \in DOMAIN q /\ i + 1 \in DOMAIN q /\ 1 <= i + 1 /\ <<Head(q), x>> = <<q[1], q[i + 1]>>
    BY <1>1, <1>2, <2>1
  <2> QED BY <2>2 DEF Ordered, Elements
<1> QED BY <1>1, <1>3, <1>4, <1>5

LEMMA ConcatQueue ==
  ASSUME NEW S, NEW q \in Seq(S), NEW r \in Seq(S)
  PROVE  /\ q \o r \in Seq(S)
         /\ Elements(q \o r) = Elements(q) \cup Elements(r)
         /\ \A p \in Ordered(q \o r) :
              \/ p \in Ordered(q) \/ p \in Ordered(r)
              \/ p[1] \in Elements(q) /\ p[2] \in Elements(r)
<1> DEFINE w == q \o r
<1>1. /\ w \in Seq(S) /\ Len(w) = Len(q) + Len(r) /\ DOMAIN w = 1..Len(w)
      /\ DOMAIN q = 1..Len(q) /\ DOMAIN r = 1..Len(r) /\ Len(q) \in Nat /\ Len(r) \in Nat
      /\ \A i \in 1..Len(q) : w[i] = q[i]
      /\ \A i \in 1..Len(r) : w[Len(q) + i] = r[i]
  OBVIOUS
<1>2. \A i \in DOMAIN w : \/ i \in DOMAIN q /\ w[i] = q[i]
                          \/ i > Len(q) /\ i - Len(q) \in DOMAIN r /\ w[i] = r[i - Len(q)]
  <2> SUFFICES ASSUME NEW i \in DOMAIN w, i \notin DOMAIN q
               PROVE  i > Len(q) /\ i - Len(q) \in DOMAIN r /\ w[i] = r[i - Len(q)]
    BY <1>1
  <2>1. i > Len(q) /\ i - Len(q) \in 1..Len(r) /\ i = Len(q) + (i - Len(q))
    BY <1>1
  <2> QED BY <1>1, <2>1
<1>3. Elements(w) \subseteq Elements(q) \cup Elements(r)
  BY <1>2 DEF Elements
<1>4. \A i \in DOMAIN q : i \in DOMAIN w /\ w[i] = q[i]
  BY <1>1
<1>5. \A i \in DOMAIN r : Len(q) + i \in DOMAIN w /\ w[Len(q) + i] = r[i]
  BY <1>1
<1>6. Elements(w) = Elements(q) \cup Elements(r)
  <2>1. Elements(q) \subseteq Elements(w)
    BY <1>4 DEF Elements
  <2>2. Elements(r) \subseteq Elements(w)
    BY <1>5 DEF Elements
  <2> QED BY <1>3, <2>1, <2>2
<1>7. ASSUME NEW p \in Ordered(w)
      PROVE  \/ p \in Ordered(q) \/ p \in Ordered(r)
             \/ p[1] \in Elements(q) /\ p[2] \in Elements(r)
  <2>1. PICK i, j \in DOMAIN w : i <= j /\ p = <<w[i], w[j]>>
    BY DEF Ordered
  <2>2. CASE i \in DOMAIN q /\ j \in DOMAIN q
    <3>1. p = <<q[i], q[j]>>
      BY <1>4, <2>1, <2>2
    <3> QED BY <2>1, <2>2, <3>1 DEF Ordered, Elements
  <2>3. CASE i \in DOMAIN q /\ j \notin DOMAIN q
    BY <1>2, <2>1, <2>3 DEF Elements
  <2>4. CASE i \notin DOMAIN q
    <3>1. i > Len(q) /\ j > Len(q) /\ j \notin DOMAIN q
      BY <1>1, <1>2, <2>1, <2>4
    <3>2. /\ i - Len(q) \in DOMAIN r /\ j - Len(q) \in DOMAIN r /\ i - Len(q) <= j - Len(q)
          /\ p = <<r[i - Len(q)], r[j - Len(q)]>>
      BY <1>1, <1>2, <2>1, <2>4, <3>1
    <3> QED BY <3>2 DEF Ordered, Elements
  <2> QED BY <2>2, <2>3, <2>4
<1> QED BY <1>1, <1>6, <1>7

LEMMA OneQueue ==
  ASSUME NEW S, NEW x \in S
  PROVE  /\ <<x>> \in Seq(S) /\ Elements(<<x>>) = {x}
         /\ \A p \in Ordered(<<x>>) : p[1] = x /\ p[2] = x
<1>1. DOMAIN <<x>> = {1} /\ <<x>>[1] = x /\ <<x>> \in Seq(S)
  OBVIOUS
<1> QED BY <1>1 DEF Elements, Ordered

LEMMA AppendQueue ==
  ASSUME NEW S, NEW q \in Seq(S), NEW x \in S
  PROVE  /\ Append(q, x) \in Seq(S) /\ Elements(Append(q, x)) = Elements(q) \cup {x}
         /\ \A p \in Ordered(Append(q, x)) :
              \/ p \in Ordered(q)
              \/ p[1] \in Elements(q) \cup {x} /\ p[2] = x
<1>1. Append(q, x) = q \o <<x>> /\ <<x>> \in Seq(S)
  OBVIOUS
<1>2. /\ Elements(q \o <<x>>) = Elements(q) \cup Elements(<<x>>)
      /\ \A p \in Ordered(q \o <<x>>) :
              \/ p \in Ordered(q) \/ p \in Ordered(<<x>>)
              \/ p[1] \in Elements(q) /\ p[2] \in Elements(<<x>>)
  BY <1>1, ConcatQueue
<1>3. /\ Elements(<<x>>) = {x} /\ \A p \in Ordered(<<x>>) : p[1] = x /\ p[2] = x
  BY OneQueue
<1> QED BY <1>1, <1>2, <1>3

LEMMA RepeatQueue ==
  ASSUME NEW S, NEW q \in Seq(S), q # <<>>
  PROVE  /\ <<Head(q)>> \o q \in Seq(S)
         /\ Elements(<<Head(q)>> \o q) \subseteq Elements(q)
         /\ Ordered(<<Head(q)>> \o q) \subseteq Ordered(q)
<1> DEFINE w == <<Head(q)>> \o q
<1>1. /\ w \in Seq(S) /\ Len(w) = Len(q) + 1 /\ DOMAIN w = 1..Len(w)
      /\ DOMAIN q = 1..Len(q) /\ Len(q) \in Nat \ {0}
      /\ w[1] = q[1] /\ \A i \in 1..Len(q) : w[i + 1] = q[i]
  OBVIOUS
<1> DEFINE f(i) == IF i = 1 THEN 1 ELSE i - 1
<1>2. \A i \in DOMAIN w : f(i) \in DOMAIN q /\ w[i] = q[f(i)]
  <2> SUFFICES ASSUME NEW i \in DOMAIN w, i # 1 PROVE i - 1 \in DOMAIN q /\ w[i] = q[i - 1]
    BY <1>1
  <2>1. i - 1 \in 1..Len(q) /\ i = (i - 1) + 1
    BY <1>1
  <2> QED BY <1>1, <2>1
<1>3. Elements(w) \subseteq Elements(q)
  BY <1>2 DEF Elements
<1>4. ASSUME NEW p \in Ordered(w) PROVE p \in Ordered(q)
  <2>1. PICK i, j \in DOMAIN w : i <= j /\ p = <<w[i], w[j]>>
    BY DEF Ordered
  <2>2. f(i) \in DOMAIN q /\ f(j) \in DOMAIN q /\ p = <<q[f(i)], q[f(j)]>>
    BY <1>2, <2>1
  <2>3. f(i) <= f(j)
    BY <1>1, <2>1
  <2> QED BY <2>2, <2>3 DEF Ordered, Elements
<1> QED BY <1>1, <1>3, <1>4

LEMMA EmptyQueue == Elements(<<>>) = {} /\ Ordered(<<>>) = {}
BY DEF Elements, Ordered

\* What the fields of packets are.
LEMMA UpFields ==
  ASSUME NEW m \in UpPackets
  PROVE  /\ m.kind \in {"disc", "ack", "nack", "data"}
         /\ m.kind = "disc" => m = Disc
         /\ m.kind # "disc" => m.ack \in SeqNrs /\ Expected(m) \in SeqNrs
         /\ m.kind = "data" => m.seq \in SeqNrs /\ m.load \in Requests
<1>1. /\ m.kind \in {"disc", "ack", "nack", "data"}
      /\ m.kind = "disc" => m = Disc
      /\ m.kind # "disc" => m.ack \in SeqNrs
      /\ m.kind = "data" => m.seq \in SeqNrs /\ m.load \in Requests
  BY DEF UpPackets, Disc, Acks, Nacks, Ack, Nack, DataOf, Data
<1>2. m.kind # "disc" => Expected(m) \in SeqNrs
  BY <1>1, PlusType, SeqInt DEF Expected
<1> QED BY <1>1, <1>2

LEMMA DownFields ==
  ASSUME NEW m \in DownPackets
  PROVE  /\ m.kind \in {"inform", "ack", "data"}
         /\ m.kind # "inform" => m.ack \in SeqNrs
         /\ m.kind = "data" => m.seq \in SeqNrs /\ m.load \in Payloads
BY DEF DownPackets, Inform, Acks, Ack, DataOf, Data

LEMMA MakeUp ==
  /\ Disc \in UpPackets /\ Disc.kind = "disc"
  /\ \A n \in SeqNrs : /\ Ack(n) \in UpPackets /\ Nack(n) \in UpPackets
                       /\ Ack(n).kind = "ack" /\ Ack(n).ack = n
                       /\ Nack(n).kind = "nack" /\ Nack(n).ack = n
  /\ \A n, a \in SeqNrs, p \in Requests :
       /\ Data(n, a, p) \in UpPackets
       /\ Data(n, a, p).kind = "data" /\ Data(n, a, p).seq = n
       /\ Data(n, a, p).ack = a /\ Data(n, a, p).load = p
<1>1. Disc \in UpPackets /\ Disc.kind = "disc"
  BY DEF UpPackets, Disc
<1>2. \A n \in SeqNrs : Ack(n) \in UpPackets /\ Ack(n).kind = "ack" /\ Ack(n).ack = n
  BY DEF UpPackets, Acks, Ack
<1>3. \A n \in SeqNrs : Nack(n) \in UpPackets /\ Nack(n).kind = "nack" /\ Nack(n).ack = n
  BY DEF UpPackets, Nacks, Nack
<1>4. \A n, a \in SeqNrs, p \in Requests : Data(n, a, p) \in UpPackets
  BY DEF UpPackets, DataOf
<1>5. \A n, a \in SeqNrs, p \in Requests :
        /\ Data(n, a, p).kind = "data" /\ Data(n, a, p).seq = n
        /\ Data(n, a, p).ack = a /\ Data(n, a, p).load = p
  BY DEF Data
<1> QED BY <1>1, <1>2, <1>3, <1>4, <1>5

LEMMA MakeDown ==
  /\ Inform \in DownPackets /\ Inform.kind = "inform"
  /\ \A n \in SeqNrs : Ack(n) \in DownPackets /\ Ack(n).kind = "ack"
  /\ \A n, a \in SeqNrs, p \in Payloads :
       /\ Data(n, a, p) \in DownPackets
       /\ Data(n, a, p).kind = "data" /\ Data(n, a, p).seq = n
       /\ Data(n, a, p).load = p
<1>1. Inform \in DownPackets /\ Inform.kind = "inform"
  BY DEF DownPackets, Inform
<1>2. \A n \in SeqNrs : Ack(n) \in DownPackets /\ Ack(n).kind = "ack"
  BY DEF DownPackets, Acks, Ack
<1>3. \A n, a \in SeqNrs, p \in Payloads : Data(n, a, p) \in DownPackets
  BY DEF DownPackets, DataOf
<1>4. \A n, a \in SeqNrs, p \in Payloads :
        /\ Data(n, a, p).kind = "data" /\ Data(n, a, p).seq = n
        /\ Data(n, a, p).load = p
  BY DEF Data
<1> QED BY <1>1, <1>2, <1>3, <1>4

LEMMA ChunksRange ==
  ASSUME NEW o
  PROVE  Chunks(o) \in 1..WriteChunks /\ Parts(o) \in 1..ReadParts
BY SizesAssumption DEF Chunks, Parts

LEMMA PayloadType ==
  ASSUME op \in [Calls -> Ops], NEW c \in Calls, NEW k \in 1..ReadParts, NEW ok \in BOOLEAN
  PROVE  Payload(c, k, ok) \in Payloads /\ Payload(c, k, ok).call = c
BY DEF Payload, Payloads

\* An answer.
LEMMA AnswerType ==
  ASSUME op \in [Calls -> Ops], NEW c \in Calls, NEW ok \in BOOLEAN
  PROVE  /\ Answer(c, ok) \in Seq(Payloads) /\ Len(Answer(c, ok)) = Size(c, ok)
         /\ Size(c, ok) \in 1..ReadParts
         /\ Answer(c, ok) = [k \in 1..Size(c, ok) |-> Payload(c, k, ok)]
<1>1. Size(c, ok) \in 1..ReadParts /\ ReadParts \in Nat
  BY ChunksRange, SizesAssumption DEF Size
<1>2. Answer(c, ok) = [k \in 1..Size(c, ok) |-> Payload(c, k, ok)]
  BY DEF Answer, Size
<1>3. \A k \in 1..Size(c, ok) : Payload(c, k, ok) \in Payloads
  BY <1>1, PayloadType
<1> QED BY <1>1, <1>2, <1>3

----------------------------------------------------------------------------
(* The server *)

LEMMA DropFacts ==
  ASSUME NEW S, NEW q \in Seq(S), NEW k \in 0..Len(q)
  PROVE  /\ SubSeq(q, k + 1, Len(q)) \in Seq(S)
         /\ Len(SubSeq(q, k + 1, Len(q))) = Len(q) - k
         /\ \A i \in 1..(Len(q) - k) : SubSeq(q, k + 1, Len(q))[i] = q[k + i]
<1>1. k + 1 \in Nat /\ Len(q) \in Nat /\ k + 1 - 1 = k
  OBVIOUS
<1>2. SubSeq(q, k + 1, Len(q)) = [i \in 1..(Len(q) - k) |-> q[i + k]]
  BY <1>1
<1>3. \A i \in 1..(Len(q) - k) : i + k \in 1..Len(q) /\ i + k = k + i /\ q[i + k] \in S
  BY <1>1
<1> QED BY <1>1, <1>2, <1>3

LEMMA AckedType ==
  ASSUME NEW s \in Servers, NEW n \in Int
  PROVE  /\ Acked(s, n) \in Servers
         /\ Acked(s, n).session = s.session /\ Acked(s, n).fresh = s.fresh
         /\ Acked(s, n).expected = s.expected
         /\ s.pend = <<>> => Acked(s, n).pend = <<>>
         /\ \A i \in DOMAIN Acked(s, n).pend :
              \E j \in DOMAIN s.pend : Acked(s, n).pend[i] = s.pend[j]
<1> DEFINE k == (n + 1 - s.next) % SeqSpace
           l == IF s.sent > k THEN s.sent - k ELSE 0
           u == [s EXCEPT !.next = Plus(s.next, k), !.sent = l,
                          !.pend = SubSeq(s.pend, k + 1, Len(s.pend))]
<1>1. s.next \in Int /\ s.pend \in Seq(Payloads) /\ s.sent \in Nat
  BY SeqInt DEF Servers
<1>2. k \in Nat
  <2>1. n + 1 - s.next \in Int /\ SeqSpace \in Nat \ {0}
    BY <1>1, SizesAssumption
  <2>2. (n + 1 - s.next) % SeqSpace \in 0..(SeqSpace - 1)
    BY <2>1, ModRange
  <2> QED BY <2>1, <2>2
<1>3. CASE k <= Len(s.pend)
  <2>1. Acked(s, n) = u
    BY <1>3 DEF Acked
  <2>2. Plus(s.next, k) \in SeqNrs /\ l \in Nat
    BY <1>1, <1>2, PlusType
  <2>3. /\ SubSeq(s.pend, k + 1, Len(s.pend)) \in Seq(Payloads)
        /\ Len(SubSeq(s.pend, k + 1, Len(s.pend))) = Len(s.pend) - k
        /\ \A i \in 1..(Len(s.pend) - k) :
             SubSeq(s.pend, k + 1, Len(s.pend))[i] = s.pend[k + i]
    <3>1. k \in 0..Len(s.pend)
      BY <1>1, <1>2, <1>3
    <3> HIDE DEF k
    <3> QED BY <1>1, <3>1, DropFacts
  <2>4. u \in Servers
    BY <2>2, <2>3 DEF Servers
  <2>5. /\ u.session = s.session /\ u.fresh = s.fresh /\ u.expected = s.expected
        /\ u.pend = SubSeq(s.pend, k + 1, Len(s.pend))
    BY DEF Servers
  <2> HIDE DEF k, u
  <2>6. \A i \in DOMAIN u.pend : k + i \in DOMAIN s.pend /\ u.pend[i] = s.pend[k + i]
    BY <1>1, <1>2, <1>3, <2>3, <2>5
  <2>7. s.pend = <<>> => u.pend = <<>>
    BY <1>1, <1>2, <1>3, <2>3, <2>5
  <2> QED BY <2>1, <2>4, <2>5, <2>6, <2>7
<1>4. CASE ~(k <= Len(s.pend))
  <2>1. Acked(s, n) = s
    BY <1>4 DEF Acked
  <2> QED BY <2>1
<1> QED BY <1>3, <1>4

\* An acknowledgement that is not behind the server's count drops the packets
\* that it is ahead.
LEMMA AckedDrops ==
  ASSUME rx_seq_nr_expected \in SeqNrs, NEW s \in Servers, NEW n \in Int,
         Lag(Plus(n, 1)) <= Lag(s.next), Lag(s.next) <= Len(s.pend)
  PROVE  LET k == Lag(s.next) - Lag(Plus(n, 1))
             u == Acked(s, n)
         IN /\ k \in 0..Len(s.pend)
            /\ u.next = Plus(n, 1)
            /\ Len(u.pend) = Len(s.pend) - k
            /\ \A i \in 1..Len(u.pend) : u.pend[i] = s.pend[k + i]
<1> DEFINE e == rx_seq_nr_expected
           x == Plus(n, 1)
           k == Lag(s.next) - Lag(x)
           d == n + 1 - s.next
<1>1. /\ SeqSpace \in Nat \ {0} /\ e \in Int /\ s.next \in SeqNrs /\ s.next \in Int
      /\ x \in SeqNrs /\ x \in Int /\ s.pend \in Seq(Payloads)
  BY SizesAssumption, SeqInt, PlusType DEF Servers
<1>2. /\ Lag(s.next) \in 0..(SeqSpace - 1) /\ s.next = Plus(e, -Lag(s.next))
      /\ Lag(x) \in 0..(SeqSpace - 1) /\ x = Plus(e, -Lag(x))
  BY <1>1, LagFacts
<1>3. k \in 0..(SeqSpace - 1) /\ k \in 0..Len(s.pend)
  BY <1>1, <1>2
<1>4. Plus(s.next, k) = x
  <2>1. -Lag(s.next) \in Int /\ k \in Int /\ -Lag(s.next) + k = -Lag(x)
    BY <1>1, <1>2, <1>3
  <2>2. Plus(Plus(e, -Lag(s.next)), k) = Plus(e, -Lag(s.next) + k)
    BY <1>1, <2>1, PlusPlus
  <2> QED BY <1>2, <2>1, <2>2
<1>5. PICK j \in Int : n + 1 = s.next + k + j * SeqSpace
  <2>1. n + 1 \in Int /\ s.next + k \in Int
    BY <1>1, <1>3
  <2>2. (n + 1) % SeqSpace = (s.next + k) % SeqSpace
    BY <1>4 DEF Plus
  <2> QED BY <1>1, <2>1, <2>2, ModDiffer
<1>6. d % SeqSpace = k
  <2>1. d \in Int /\ d = j * SeqSpace + k
    BY <1>1, <1>3, <1>5
  <2>2. (j * SeqSpace + k) % SeqSpace = k
    BY <1>1, <1>3, ModIs
  <2> QED BY <2>1, <2>2
<1>7. Acked(s, n) = [s EXCEPT !.next = Plus(s.next, k),
                              !.sent = IF s.sent > k THEN s.sent - k ELSE 0,
                              !.pend = SubSeq(s.pend, k + 1, Len(s.pend))]
  <2> DEFINE K == d % SeqSpace
  <2>1. Acked(s, n) = IF K <= Len(s.pend)
                      THEN [s EXCEPT !.next = Plus(s.next, K),
                                     !.sent = IF s.sent > K THEN s.sent - K ELSE 0,
                                     !.pend = SubSeq(s.pend, K + 1, Len(s.pend))]
                      ELSE s
    BY DEF Acked
  <2>2. K = k
    BY <1>6
  <2> HIDE DEF K, k
  <2> QED BY <1>1, <1>3, <2>1, <2>2
<1>8. Acked(s, n).next = x /\ Acked(s, n).pend = SubSeq(s.pend, k + 1, Len(s.pend))
  BY <1>4, <1>7 DEF Servers
<1>9. /\ Len(SubSeq(s.pend, k + 1, Len(s.pend))) = Len(s.pend) - k
      /\ \A i \in 1..(Len(s.pend) - k) :
           SubSeq(s.pend, k + 1, Len(s.pend))[i] = s.pend[k + i]
  <2> HIDE DEF k
  <2> QED BY <1>1, <1>3, DropFacts
<1> QED BY <1>3, <1>8, <1>9

LEMMA SendsType ==
  ASSUME NEW s \in Servers, NEW first \in Nat \ {0}
  PROVE  /\ Sends(s, first, Window(s)) \in Seq(DownPackets)
         /\ \A m \in Elements(Sends(s, first, Window(s))) :
              /\ m.kind = "data"
              /\ \E j \in 1..Len(s.pend) : m.seq = Plus(s.next, j - 1) /\ m.load = s.pend[j]
<1> DEFINE l == Window(s)
           N == l - first + 1
           D(i) == Data(Plus(s.next, first + i - 2), Plus(s.expected, -1), s.pend[first + i - 1])
<1>1. /\ s.pend \in Seq(Payloads) /\ s.next \in Int /\ s.expected \in Int
      /\ Len(s.pend) \in Nat /\ l \in Nat /\ l <= Len(s.pend)
  BY SizesAssumption, SeqInt DEF Servers, Window, Min
<1>2. \A i \in 1..N : first + i - 1 \in 1..Len(s.pend) /\ first + i - 2 = (first + i - 1) - 1
  BY <1>1
<1>3. ASSUME NEW i \in 1..N
      PROVE  /\ D(i) \in DownPackets /\ D(i).kind = "data"
             /\ D(i).seq = Plus(s.next, (first + i - 1) - 1) /\ D(i).load = s.pend[first + i - 1]
  <2>1. /\ s.pend[first + i - 1] \in Payloads /\ first + i - 2 \in Int /\ -1 \in Int
    BY <1>1, <1>2
  <2>2. Plus(s.next, first + i - 2) \in SeqNrs /\ Plus(s.expected, -1) \in SeqNrs
    BY <1>1, <2>1, PlusType
  <2> QED BY <1>2, <2>1, <2>2, MakeDown
<1>4. Sends(s, first, l) = [i \in 1..N |-> D(i)]
  BY DEF Sends
<1>5. Sends(s, first, l) \in Seq(DownPackets)
  <2> DEFINE M == IF N <= 0 THEN 0 ELSE N
  <2>1. M \in Nat /\ 1..N = 1..M
    BY <1>1
  <2>2. \A i \in 1..M : D(i) \in DownPackets
    BY <1>3, <2>1
  <2> HIDE DEF D, N, M
  <2>3. [i \in 1..M |-> D(i)] \in Seq(DownPackets)
    BY <2>1, <2>2
  <2> QED BY <1>4, <2>1, <2>3
<1>6. ASSUME NEW m \in Elements(Sends(s, first, l))
      PROVE  \E i \in 1..N : m = D(i)
  BY <1>4 DEF Elements
<1> QED BY <1>2, <1>3, <1>5, <1>6

\* What the server sends from what is pending.
SentBy(m) ==
  /\ m.kind = "data"
  /\ \E j \in 1..Len(srv.pend) : m.seq = Plus(srv.next, j - 1) /\ m.load = srv.pend[j]

\* The server adds acknowledgements and such packets to what is under way.
Delivers ==
  /\ toClient' \in Seq(DownPackets)
  /\ \A m \in Down' : m \in Down \/ m.kind = "ack" \/ SentBy(m)'
  /\ \A p \in Ordered(toClient)' :
       p \in Ordered(toClient) \/ p[2].kind = "ack" \/ SentBy(p[2])'

LEMMA DeliversSends ==
  ASSUME toClient \in Seq(DownPackets), srv' \in Servers, NEW first \in Nat \ {0},
         NEW a \in Seq(Acks),
         toClient' = toClient \o a \o Sends(srv', first, Window(srv'))
  PROVE  Delivers
<1> DEFINE x == Sends(srv', first, Window(srv'))
           y == toClient \o a
<1>6. toClient' = y \o x
  OBVIOUS
<1>1. a \in Seq(DownPackets) /\ \A m \in Elements(a) : m.kind = "ack"
  BY DEF DownPackets, Elements, Acks, Ack
<1>2. x \in Seq(DownPackets) /\ \A m \in Elements(x) : SentBy(m)'
  BY SendsType DEF SentBy
<1>3. /\ y \in Seq(DownPackets) /\ Elements(y) = Elements(toClient) \cup Elements(a)
      /\ \A p \in Ordered(y) : \/ p \in Ordered(toClient) \/ p \in Ordered(a)
                               \/ p[1] \in Elements(toClient) /\ p[2] \in Elements(a)
  BY <1>1, ConcatQueue
<1> HIDE DEF x, y
<1>4. /\ y \o x \in Seq(DownPackets) /\ Elements(y \o x) = Elements(y) \cup Elements(x)
      /\ \A p \in Ordered(y \o x) : \/ p \in Ordered(y) \/ p \in Ordered(x)
                                    \/ p[1] \in Elements(y) /\ p[2] \in Elements(x)
  BY <1>2, <1>3, ConcatQueue
<1>5. \A q : \A p \in Ordered(q) : p[2] \in Elements(q)
  BY DEF Ordered
<1>7. \A m \in Elements(y \o x) : m \in Elements(toClient) \/ m.kind = "ack" \/ SentBy(m)'
  BY <1>1, <1>2, <1>3, <1>4
<1>8. \A p \in Ordered(y \o x) :
        p \in Ordered(toClient) \/ p[2].kind = "ack" \/ SentBy(p[2])'
  BY <1>1, <1>2, <1>3, <1>4, <1>5
<1> QED BY <1>4, <1>6, <1>7, <1>8 DEF Delivers, Down

\* What the server makes of a data packet: new is whether it is the next one.
Takes(m, s, ok) ==
  LET new == m.seq = s.expected
      c == m.load.call
      serves == new /\ m.load.fin
  IN /\ srv.session /\ srv' \in Servers /\ srv'.session /\ ~srv'.fresh
     /\ srv'.expected = (IF new THEN Plus(m.seq, 1) ELSE s.expected)
     /\ srv'.next = s.next
     /\ srv'.pend = (IF serves THEN Answer(c, ok) ELSE s.pend)
     /\ served' = (IF serves THEN [served EXCEPT ![c] = Min(@ + 1, 2)] ELSE served)

LEMMA TakesFacts ==
  ASSUME WireTypes, NEW ok \in BOOLEAN, SrvTakes(ok)
  PROVE  /\ toServer # <<>> /\ toServer' = Tail(toServer)
         /\ Head(toServer) \in Asked /\ Head(toServer) \in UpPackets
         /\ Adopted(Head(toServer)) \in Servers
         /\ Takes(Head(toServer), Adopted(Head(toServer)), ok) /\ Delivers
         /\ UNCHANGED <<dev, sockVars, txVars, rxVars, flagVars, threadVars, callVars>>
<1> DEFINE m == Head(toServer)
           s == Adopted(m)
           new == m.seq = s.expected
           c == m.load.call
           serves == new /\ m.load.fin
           s1 == IF new THEN [s EXCEPT !.expected = Plus(@, 1)] ELSE s
           s2 == IF serves THEN [s1 EXCEPT !.pend = Answer(c, ok), !.tries = 0] ELSE s1
           s3 == [s2 EXCEPT !.sent = IF serves THEN Window(s2) ELSE @]
           x == IF serves THEN Sends(s2, 1, Window(s2)) ELSE <<>>
<1>1. /\ toServer # <<>> /\ m.kind = "data" /\ srv.session /\ toServer' = Tail(toServer)
      /\ UNCHANGED <<dev, sockVars, txVars, rxVars, flagVars, threadVars, callVars>>
  BY DEF SrvTakes
<1>2. /\ srv' = s3
      /\ served' = (IF serves THEN [served EXCEPT ![c] = Min(@ + 1, 2)] ELSE served)
      /\ toClient' = toClient \o <<Ack(Plus(s2.expected, -1))>> \o x
  BY DEF SrvTakes
<1>3. /\ m \in Asked /\ m \in UpPackets /\ m.seq \in SeqNrs /\ m.ack \in SeqNrs
      /\ m.load \in Requests /\ c \in Calls /\ srv \in Servers
  BY <1>1, TailQueue, UpFields DEF WireTypes, Asked, Up, Requests
<1>4. s \in Servers /\ s.session /\ ~s.fresh
  <2>1. CASE srv.fresh
    <3>1. /\ s = [srv EXCEPT !.fresh = FALSE, !.expected = m.seq, !.next = Plus(m.ack, 1),
                             !.sent = 0, !.pend = <<>>]
      BY <2>1 DEF Adopted
    <3>2. Plus(m.ack, 1) \in SeqNrs
      <4> DEFINE a == m.ack
      <4>1. a \in Int /\ 1 \in Int
        BY <1>3, SeqInt
      <4> HIDE DEF a
      <4>2. Plus(a, 1) \in SeqNrs
        BY <4>1, PlusType
      <4> QED BY <4>2 DEF a
    <3>3. <<>> \in Seq(Payloads) /\ 0 \in Nat
      OBVIOUS
    <3>4. s \in Servers
      BY <1>3, <3>1, <3>2, <3>3 DEF Servers
    <3> QED BY <1>1, <1>3, <3>1, <3>4 DEF Servers
  <2>2. CASE ~srv.fresh
    <3>1. s = Acked(srv, m.ack)
      BY <2>2 DEF Adopted
    <3> QED BY <1>1, <1>3, <2>2, <3>1, AckedType, SeqInt
  <2> QED BY <2>1, <2>2
<1> HIDE DEF s
<1>5. /\ s1 \in Servers /\ s1.session /\ ~s1.fresh /\ s1.next = s.next /\ s1.pend = s.pend
      /\ s1.expected = IF new THEN Plus(m.seq, 1) ELSE s.expected
  <2>1. Plus(s.expected, 1) \in SeqNrs
    BY <1>4, PlusType, SeqInt DEF Servers
  <2> QED BY <1>4, <2>1 DEF Servers
<1> HIDE DEF s1
<1>6. Answer(c, ok) \in Seq(Payloads)
  BY <1>3, AnswerType DEF WireTypes
<1>7. /\ s2 \in Servers /\ s2.session /\ ~s2.fresh /\ s2.next = s.next
      /\ s2.expected = s1.expected /\ s2.pend = IF serves THEN Answer(c, ok) ELSE s.pend
  BY <1>5, <1>6 DEF Servers
<1> HIDE DEF s2
<1>8. Window(s2) \in Nat
  BY <1>7, SizesAssumption DEF Window, Min, Servers
<1>9. /\ s3 \in Servers /\ s3.session /\ ~s3.fresh /\ s3.next = s2.next
      /\ s3.expected = s2.expected /\ s3.pend = s2.pend
  BY <1>7, <1>8 DEF Servers
<1>10. Window(s3) = Window(s2) /\ Sends(s3, 1, Window(s3)) = Sends(s2, 1, Window(s2))
  BY <1>9 DEF Window, Sends
<1>a. srv' = s3
  BY <1>2
<1> HIDE DEF s3
<1>11. Takes(m, s, ok)
  BY <1>1, <1>2, <1>a, <1>5, <1>7, <1>9 DEF Takes
<1>12. <<Ack(Plus(s2.expected, -1))>> \in Seq(Acks)
  <2>1. Plus(s2.expected, -1) \in SeqNrs
    <3>1. s2.expected \in Int /\ -1 \in Int
      BY <1>7, SeqInt DEF Servers
    <3> QED BY <3>1, PlusType
  <2> QED BY <2>1 DEF Acks
<1>13. Delivers
  <2>1. CASE serves
    <3>1. toClient' = toClient \o <<Ack(Plus(s2.expected, -1))>> \o Sends(srv', 1, Window(srv'))
      <4>1. x = Sends(srv', 1, Window(srv'))
        BY <1>a, <1>10, <2>1
      <4> HIDE DEF x
      <4> QED BY <1>2, <4>1
    <3> DEFINE a == <<Ack(Plus(s2.expected, -1))>>
    <3>2. /\ toClient \in Seq(DownPackets) /\ srv' \in Servers /\ 1 \in Nat \ {0}
          /\ a \in Seq(Acks)
      BY <1>a, <1>9, <1>12 DEF WireTypes
    <3>3. toClient' = toClient \o a \o Sends(srv', 1, Window(srv'))
      BY <3>1
    <3> HIDE DEF a
    <3> QED BY <3>2, <3>3, DeliversSends
  <2>2. CASE ~serves
    <3> DEFINE a == Ack(Plus(s2.expected, -1))
    <3>1. a \in DownPackets /\ a.kind = "ack"
      <4>1. Plus(s2.expected, -1) \in SeqNrs
        <5>1. s2.expected \in Int /\ -1 \in Int
          BY <1>7, SeqInt DEF Servers
        <5> QED BY <5>1, PlusType
      <4> QED BY <4>1, MakeDown
    <3>2. toClient' = Append(toClient, a)
      <4>1. toClient' = toClient \o <<a>> \o <<>>
        BY <1>2, <2>2
      <4> HIDE DEF a
      <4>2. toClient \o <<a>> \o <<>> = Append(toClient, a)
        BY <3>1 DEF WireTypes
      <4> QED BY <4>1, <4>2
    <3> HIDE DEF a
    <3>3. /\ Append(toClient, a) \in Seq(DownPackets)
          /\ Elements(Append(toClient, a)) = Elements(toClient) \cup {a}
          /\ \A p \in Ordered(Append(toClient, a)) :
               p \in Ordered(toClient) \/ (p[1] \in Elements(toClient) \cup {a} /\ p[2] = a)
      BY <3>1, AppendQueue DEF WireTypes
    <3> QED BY <3>1, <3>2, <3>3 DEF Delivers, Down
  <2> QED BY <2>1, <2>2
<1> QED BY <1>1, <1>3, <1>4, <1>11, <1>13 DEF s


\* The server heeds what packet m acknowledges.
Heeds(m) ==
  \E n \in Int : /\ Plus(n, 1) = Expected(m)
                 /\ srv'.next = Acked(srv, n).next /\ srv'.pend = Acked(srv, n).pend

\* The server hears an acknowledgement.
LEMMA HearsFacts ==
  ASSUME WireTypes, SrvHearsAck
  PROVE  /\ toServer # <<>> /\ toServer' = Tail(toServer)
         /\ Head(toServer).kind \in {"ack", "nack"} /\ Head(toServer) \in UpPackets
         /\ Head(toServer) \in Up
         /\ srv.session /\ ~srv.fresh /\ srv' \in Servers /\ srv'.session /\ ~srv'.fresh
         /\ srv'.expected = srv.expected /\ Heeds(Head(toServer)) /\ Delivers
         /\ \A i \in DOMAIN srv'.pend : \E j \in DOMAIN srv.pend : srv'.pend[i] = srv.pend[j]
<1> DEFINE m == Head(toServer)
           n == IF m.kind = "nack" THEN m.ack - 1 ELSE m.ack
           s == Acked(srv, n)
           from == IF m.kind = "nack" THEN 1 ELSE s.sent + 1
           s3 == [s EXCEPT !.sent = Window(s)]
<1>1. /\ toServer # <<>> /\ m.kind \in {"ack", "nack"} /\ srv.session /\ ~srv.fresh
      /\ toServer' = Tail(toServer) /\ srv' = s3
      /\ toClient' = toClient \o Sends(s, from, Window(s))
  BY DEF SrvHearsAck
<1>2. m \in Up /\ m \in UpPackets /\ m.ack \in SeqNrs /\ srv \in Servers
  BY <1>1, TailQueue, UpFields DEF WireTypes, Up
<1>3. m.ack \in Int /\ n \in Int
  BY <1>2, SeqInt
<1>4. Plus(n, 1) = Expected(m)
  <2>1. CASE m.kind = "nack"
    <3> DEFINE a == m.ack
    <3>1. n = a - 1 /\ a \in Int /\ a \in SeqNrs /\ Expected(m) = a
      BY <1>2, <1>3, <2>1 DEF Expected
    <3> HIDE DEF a, n
    <3>2. Plus(n, 1) = Plus(a, 0)
      BY <3>1 DEF Plus
    <3> QED BY <3>1, <3>2, PlusZero
  <2>2. CASE m.kind # "nack"
    BY <2>2 DEF Expected
  <2> QED BY <2>1, <2>2
<1> HIDE DEF n
<1>5. /\ s \in Servers /\ s.session /\ ~s.fresh /\ s.expected = srv.expected
      /\ \A i \in DOMAIN s.pend : \E j \in DOMAIN srv.pend : s.pend[i] = srv.pend[j]
  BY <1>1, <1>2, <1>3, AckedType
<1>6. s.next = Acked(srv, n).next /\ s.pend = Acked(srv, n).pend
  OBVIOUS
<1> HIDE DEF s
<1>7. Window(s) \in Nat /\ from \in Nat \ {0}
  BY <1>5, SizesAssumption DEF Window, Min, Servers
<1>8. /\ s3 \in Servers /\ s3.session /\ ~s3.fresh /\ s3.next = s.next
      /\ s3.expected = s.expected /\ s3.pend = s.pend
  BY <1>5, <1>7 DEF Servers
<1>9. Sends(s3, from, Window(s3)) = Sends(s, from, Window(s))
  <2>1. Window(s3) = Window(s)
    BY <1>8 DEF Window
  <2> QED BY <1>8, <2>1 DEF Sends
<1>10. Delivers
  <2>1. toClient \in Seq(DownPackets) /\ <<>> \in Seq(Acks)
    BY DEF WireTypes
  <2>2. toClient = toClient \o <<>>
    BY <2>1
  <2> HIDE DEF s3, from
  <2>3. toClient' = toClient \o <<>> \o Sends(srv', from, Window(srv'))
    BY <1>1, <1>9, <2>2
  <2> QED BY <1>1, <1>7, <1>8, <2>1, <2>3, DeliversSends
<1>11. Heeds(m)
  BY <1>1, <1>3, <1>4, <1>6, <1>8 DEF Heeds
<1> QED BY <1>1, <1>2, <1>5, <1>8, <1>10, <1>11

\* The server sends again what was not acknowledged.
LEMMA TimerFacts ==
  ASSUME WireTypes, SrvTimer
  PROVE  /\ toServer = <<>> /\ toClient = <<>> /\ UNCHANGED toServer
         /\ srv.session /\ srv.pend # <<>> /\ srv' \in Servers
         /\ srv'.session = srv.session /\ srv'.fresh = srv.fresh
         /\ srv'.expected = srv.expected /\ srv'.next = srv.next /\ srv'.pend = srv.pend
         /\ Delivers
         /\ \A m \in Down' : m.kind = "data"
<1>1. /\ toServer = <<>> /\ toClient = <<>> /\ UNCHANGED toServer
      /\ srv.session /\ srv.pend # <<>>
      /\ toClient' = Sends(srv, 1, Window(srv)) /\ srv' = [srv EXCEPT !.tries = @ + 1]
  BY DEF SrvTimer, Quiet, Idle, SrvWillSend
<1>2. /\ srv' \in Servers /\ srv'.session = srv.session /\ srv'.fresh = srv.fresh
      /\ srv'.expected = srv.expected /\ srv'.next = srv.next /\ srv'.pend = srv.pend
  <2>1. srv \in Servers /\ srv.tries \in Nat
    BY DEF WireTypes, Servers
  <2>2. srv.tries + 1 \in Nat
    BY <2>1
  <2>3. srv' \in Servers
    BY <1>1, <2>1, <2>2 DEF Servers
  <2> QED BY <1>1, <2>1, <2>3 DEF Servers
<1>3. Sends(srv', 1, Window(srv')) = Sends(srv, 1, Window(srv))
  <2>1. Window(srv') = Window(srv)
    BY <1>2 DEF Window
  <2> QED BY <1>2, <2>1 DEF Sends
<1>4. /\ Sends(srv', 1, Window(srv')) \in Seq(DownPackets)
      /\ \A m \in Elements(Sends(srv', 1, Window(srv'))) :
           /\ m.kind = "data"
           /\ \E j \in 1..Len(srv'.pend) :
                m.seq = Plus(srv'.next, j - 1) /\ m.load = srv'.pend[j]
  <2>1. 1 \in Nat \ {0}
    OBVIOUS
  <2> QED BY <1>2, <2>1, SendsType
<1>5. toClient' = Sends(srv', 1, Window(srv'))
  BY <1>1, <1>3
<1>6. \A p \in Ordered(toClient)' : p[2] \in Down'
  BY DEF Ordered, Down
<1>7. \A m \in Down' : m.kind = "data" /\ SentBy(m)'
  BY <1>4, <1>5 DEF Down, SentBy
<1>8. Delivers
  BY <1>4, <1>5, <1>6, <1>7 DEF Delivers
<1> QED BY <1>1, <1>2, <1>7, <1>8

\* Discoveries are in front.
LEMMA DiscFirst ==
  ASSUME WireTypes, Sessions, toServer # <<>>, Head(toServer).kind # "disc"
  PROVE  ~HasDisc
<1> SUFFICES ASSUME NEW m \in Up, m.kind = "disc" PROVE FALSE
  BY DEF HasDisc
<1>1. PICK i \in DOMAIN toServer : m = toServer[i]
  BY DEF Up, Elements
<1>2. /\ 1 \in DOMAIN toServer /\ 1 <= i /\ Head(toServer) = toServer[1]
  BY <1>1 DEF WireTypes
<1>3. <<Head(toServer), m>> \in Ordered(toServer)
  BY <1>1, <1>2 DEF Ordered, Elements
<1> QED BY <1>3 DEF Sessions, DiscsFirst

----------------------------------------------------------------------------
(* How the wire changes *)

UpKept ==
  /\ toServer' \in Seq(UpPackets) /\ Up' \subseteq Up
  /\ Ordered(toServer)' \subseteq Ordered(toServer)
UpSends(x) ==
  /\ x \in UpPackets /\ toServer' \in Seq(UpPackets) /\ Up' = Up \cup {x}
  /\ \A p \in Ordered(toServer)' :
       p \in Ordered(toServer) \/ (p[1] \in Up \cup {x} /\ p[2] = x)
DownKept ==
  /\ toClient' \in Seq(DownPackets) /\ Down' \subseteq Down
  /\ Ordered(toClient)' \subseteq Ordered(toClient)

\* Packets are left alone, taken, lost or repeated.
LEMMA KeptUp ==
  ASSUME WireTypes,
         \/ UNCHANGED toServer
         \/ toServer # <<>> /\ toServer' = Tail(toServer)
         \/ toServer # <<>> /\ toServer' = <<Head(toServer)>> \o toServer
  PROVE  UpKept
<1>1. CASE UNCHANGED toServer
  BY <1>1 DEF UpKept, Up, WireTypes, Elements, Ordered
<1>2. CASE toServer # <<>> /\ toServer' = Tail(toServer)
  <2>1. /\ Tail(toServer) \in Seq(UpPackets)
        /\ Elements(Tail(toServer)) \subseteq Elements(toServer)
        /\ Ordered(Tail(toServer)) \subseteq Ordered(toServer)
    BY <1>2, TailQueue DEF WireTypes
  <2> QED BY <1>2, <2>1 DEF UpKept, Up
<1>3. CASE toServer # <<>> /\ toServer' = <<Head(toServer)>> \o toServer
  <2> DEFINE w == <<Head(toServer)>> \o toServer
  <2>1. /\ w \in Seq(UpPackets) /\ Elements(w) \subseteq Elements(toServer)
        /\ Ordered(w) \subseteq Ordered(toServer)
    BY <1>3, RepeatQueue DEF WireTypes
  <2>2. toServer' = w
    BY <1>3
  <2> HIDE DEF w
  <2> QED BY <2>1, <2>2 DEF UpKept, Up
<1> QED BY <1>1, <1>2, <1>3

LEMMA KeptDown ==
  ASSUME WireTypes,
         \/ UNCHANGED toClient
         \/ toClient # <<>> /\ toClient' = Tail(toClient)
         \/ toClient # <<>> /\ toClient' = <<Head(toClient)>> \o toClient
  PROVE  DownKept
<1>1. CASE UNCHANGED toClient
  BY <1>1 DEF DownKept, Down, WireTypes, Elements, Ordered
<1>2. CASE toClient # <<>> /\ toClient' = Tail(toClient)
  <2>1. /\ Tail(toClient) \in Seq(DownPackets)
        /\ Elements(Tail(toClient)) \subseteq Elements(toClient)
        /\ Ordered(Tail(toClient)) \subseteq Ordered(toClient)
    BY <1>2, TailQueue DEF WireTypes
  <2> QED BY <1>2, <2>1 DEF DownKept, Down
<1>3. CASE toClient # <<>> /\ toClient' = <<Head(toClient)>> \o toClient
  <2> DEFINE w == <<Head(toClient)>> \o toClient
  <2>1. /\ w \in Seq(DownPackets) /\ Elements(w) \subseteq Elements(toClient)
        /\ Ordered(w) \subseteq Ordered(toClient)
    BY <1>3, RepeatQueue DEF WireTypes
  <2>2. toClient' = w
    BY <1>3
  <2> HIDE DEF w
  <2> QED BY <2>1, <2>2 DEF DownKept, Down
<1> QED BY <1>1, <1>2, <1>3

LEMMA SendsUp ==
  ASSUME WireTypes, NEW x \in UpPackets, toServer' = Append(toServer, x)
  PROVE  UpSends(x)
<1>1. /\ Append(toServer, x) \in Seq(UpPackets)
      /\ Elements(Append(toServer, x)) = Elements(toServer) \cup {x}
      /\ \A p \in Ordered(Append(toServer, x)) :
           p \in Ordered(toServer) \/ (p[1] \in Elements(toServer) \cup {x} /\ p[2] = x)
  BY AppendQueue DEF WireTypes
<1> QED BY <1>1 DEF UpSends, Up

\* The packets in pairs are packets.
LEMMA PairsUp ==
  ASSUME WireTypes, NEW p \in Ordered(toServer)
  PROVE  p[1] \in Up /\ p[2] \in Up /\ p[1] \in UpPackets /\ p[2] \in UpPackets
<1>1. p[1] \in Up /\ p[2] \in Up
  BY DEF Ordered, Up
<1> QED BY <1>1, ElementsType DEF WireTypes, Up

LEMMA PairsDown ==
  ASSUME WireTypes, NEW p \in Ordered(toClient)
  PROVE  p[1] \in Down /\ p[2] \in Down /\ p[1] \in DownPackets /\ p[2] \in DownPackets
<1>1. p[1] \in Down /\ p[2] \in Down
  BY DEF Ordered, Down
<1> QED BY <1>1, ElementsType DEF WireTypes, Down

LEMMA UpTypes == ASSUME WireTypes, NEW m \in Up PROVE m \in UpPackets
BY ElementsType DEF WireTypes, Up

LEMMA DownTypes == ASSUME WireTypes, NEW m \in Down PROVE m \in DownPackets
BY ElementsType DEF WireTypes, Down

\* One thread is at work on a request, in a session.
LEMMA AtWork ==
  ASSUME Turns, NEW t \in Threads, pc[t] \in Requesting
  PROVE  state = "connected" /\ ~Resting /\ \A u \in Threads : u # t => pc[u] = "idle"
BY DEF Turns, Resting, Threads, User, Dog, Requesting, Discovering, Labels

----------------------------------------------------------------------------
(* Requests under way *)

\* The server's session is the one it was, opens, or ends.
SessionKept ==
  /\ Opening' => Opening
  /\ NotUsed => NotUsed'
  /\ srv'.session /\ ~srv'.fresh => srv.session /\ ~srv.fresh /\ srv'.expected = srv.expected

LEMMA LineKept ==
  ASSUME NEW c \in Calls, NEW b \in SeqNrs, Line(c, b), UpKept, SessionKept,
         UNCHANGED <<op, served>>
  PROVE  Line(c, b)'
<1>1. Asked' \subseteq Asked
  BY DEF UpKept, Asked
<1>2. HasDisc' => HasDisc
  BY DEF UpKept, HasDisc
<1>3. (Opening' => Opening) /\ (NotUsed => NotUsed')
  BY DEF SessionKept
<1>4. Synced' => Synced /\ srv'.expected = srv.expected
  BY DEF SessionKept, Synced, Line, Opening, NotUsed
<1>5. \A m : Own(m, c, b)' <=> Own(m, c, b)
  BY DEF Own
<1>6. \A m : Past(m, b)' <=> Past(m, b)
  BY DEF Past
<1>7. ASSUME Opening'
      PROVE  /\ HasDisc' => NotUsed'
             /\ served'[c] = 0
             /\ \A m \in Asked' : Own(m, c, b)' /\ m.load.part = 1
  BY <1>1, <1>2, <1>3, <1>5, <1>7 DEF Line, SessionKept
<1>8. ASSUME Synced'
      PROVE  /\ \A m \in Asked' : IF m.load.call = c THEN Own(m, c, b)' ELSE Past(m, b)'
             /\ \A p \in Ordered(toServer)' :
                  p[1].kind = "data" /\ p[2].kind = "data" /\ p[1].load.call = c
                    => p[2].load.call = c
             /\ \E a \in 0..Chunks(op'[c]) :
                  /\ srv'.expected = Plus(b, a)
                  /\ served'[c] = 1 <=> a = Chunks(op'[c])
                  /\ a > 0 => \A m \in Asked' : m.load.call = c
  <2>1. \A m \in Asked' : IF m.load.call = c THEN Own(m, c, b)' ELSE Past(m, b)'
    BY <1>1, <1>4, <1>5, <1>6, <1>8 DEF Line
  <2>2. \A p \in Ordered(toServer)' :
             p[1].kind = "data" /\ p[2].kind = "data" /\ p[1].load.call = c
               => p[2].load.call = c
    BY <1>4, <1>8 DEF Line, UpKept
  <2>3. PICK a \in 0..Chunks(op[c]) :
             /\ srv.expected = Plus(b, a)
             /\ served[c] = 1 <=> a = Chunks(op[c])
             /\ a > 0 => \A m \in Asked : m.load.call = c
    BY <1>4, <1>8 DEF Line
  <2>4. /\ srv'.expected = Plus(b, a)
        /\ served'[c] = 1 <=> a = Chunks(op'[c])
        /\ a > 0 => \A m \in Asked' : m.load.call = c
    BY <1>1, <1>4, <1>8, <2>3
  <2> QED BY <2>1, <2>2, <2>3, <2>4
<1> QED BY <1>7, <1>8 DEF Line

LEMMA RestKept ==
  ASSUME Rest, UpKept, SessionKept, UNCHANGED tx_seq_nr
  PROVE  Rest'
<1>1. Asked' \subseteq Asked
  BY DEF UpKept, Asked
<1>2. HasDisc' => HasDisc
  BY DEF UpKept, HasDisc
<1>3. Synced' => Synced /\ srv'.expected = srv.expected
  BY DEF SessionKept, Synced, Rest, Opening, NotUsed
<1>4. \A m : Past(m, tx_seq_nr)' <=> Past(m, tx_seq_nr)
  BY DEF Past
<1>5. Opening' => Asked' = {} /\ (HasDisc' => NotUsed')
  BY <1>1, <1>2 DEF Rest, SessionKept
<1>6. Synced' => srv'.expected = tx_seq_nr' /\ \A m \in Asked' : Past(m, tx_seq_nr)'
  BY <1>1, <1>3, <1>4 DEF Rest
<1> QED BY <1>5, <1>6 DEF Rest

\* When the server takes a request, its session is a new one or in use, and in
\* use afterwards.
LEMMA TakenSession ==
  ASSUME WireTypes, Sessions, NEW ok \in BOOLEAN, SrvTakes(ok)
  PROVE  LET m == Head(toServer)
             s == Adopted(m)
         IN /\ UpKept /\ Synced' /\ ~Opening'
            /\ srv.fresh => /\ Opening /\ s.expected = m.seq /\ s.next = Expected(m)
                            /\ s.pend = <<>>
            /\ ~srv.fresh => Synced /\ s = Acked(srv, m.ack) /\ s.expected = srv.expected
<1> DEFINE m == Head(toServer)
           s == Adopted(m)
<1>1. /\ toServer # <<>> /\ toServer' = Tail(toServer) /\ m \in Asked /\ m \in UpPackets
      /\ Takes(m, s, ok) /\ s \in Servers
  BY TakesFacts
<1>2. UpKept
  BY <1>1, KeptUp
<1>3. m.kind = "data" /\ m.ack \in SeqNrs /\ m.ack \in Int /\ srv \in Servers
  BY <1>1, UpFields, SeqInt DEF Asked, WireTypes
<1>4. ~HasDisc /\ ~HasDisc'
  BY <1>1, <1>2, <1>3, DiscFirst DEF UpKept, HasDisc
<1>5. srv.session /\ srv'.session /\ ~srv'.fresh
  BY <1>1 DEF Takes
<1>6. ASSUME srv.fresh
      PROVE  s.expected = m.seq /\ s.next = Expected(m) /\ s.pend = <<>>
  BY <1>3, <1>6 DEF Adopted, Servers, Expected
<1>7. ASSUME ~srv.fresh PROVE s = Acked(srv, m.ack) /\ s.expected = srv.expected
  BY <1>3, <1>7, AckedType DEF Adopted
<1> QED BY <1>2, <1>4, <1>5, <1>6, <1>7 DEF Synced, Opening

\* The server takes a packet while call c is made or has failed: it takes what
\* belongs to c, in order and once, and nothing else.
LEMMA LineTaken ==
  ASSUME WireTypes, Sessions, NEW ok \in BOOLEAN, SrvTakes(ok),
         NEW c \in Calls, NEW b \in SeqNrs, Line(c, b)
  PROVE  LET m == Head(toServer)
             s == Adopted(m)
         IN /\ m.seq = s.expected => m.load.call = c
            /\ m.seq = s.expected /\ m.load.fin => served[c] = 0
            /\ Line(c, b)'
<1> DEFINE m == Head(toServer)
           s == Adopted(m)
           new == m.seq = s.expected
           serves == new /\ m.load.fin
           C == Chunks(op[c])
<1>1. /\ toServer # <<>> /\ toServer' = Tail(toServer) /\ m \in Asked /\ m \in UpPackets
      /\ Takes(m, s, ok) /\ s \in Servers /\ UNCHANGED op
  BY TakesFacts DEF callVars
<1>2. /\ UpKept /\ Synced' /\ ~Opening'
      /\ srv.fresh => Opening /\ s.expected = m.seq
      /\ ~srv.fresh => Synced /\ s.expected = srv.expected
  BY TakenSession
<1>3. /\ m.kind = "data" /\ m.seq \in SeqNrs /\ m.load \in Requests
      /\ m.load.part \in 1..WriteChunks /\ m.load.fin \in BOOLEAN
  BY <1>1, UpFields DEF Asked, Requests
<1>4. /\ srv'.expected = (IF new THEN Plus(m.seq, 1) ELSE s.expected)
      /\ served' = (IF serves THEN [served EXCEPT ![m.load.call] = Min(@ + 1, 2)] ELSE served)
  BY <1>1 DEF Takes
<1>5. C \in 1..WriteChunks /\ WriteChunks \in Nat \ {0} /\ SeqSpace \in Nat /\ WriteChunks < SeqSpace
  BY ChunksRange, SizeFacts
<1>6. served \in [Calls -> {0, 1}] /\ b \in Int
  BY SeqInt DEF WireTypes
<1>7. /\ Asked' \subseteq Asked /\ \A x \in Asked' : <<m, x>> \in Ordered(toServer) /\ x.kind = "data"
  <2>1. Elements(Tail(toServer)) \subseteq Elements(toServer)
    BY <1>1, TailQueue DEF WireTypes
  <2>2. \A x \in Elements(Tail(toServer)) : <<m, x>> \in Ordered(toServer)
    BY <1>1, TailQueue DEF WireTypes
  <2> QED BY <1>1, <2>1, <2>2 DEF Asked, Up
<1> HIDE DEF s, m
<1>8. ASSUME srv.fresh
      PROVE  /\ m.load.call = c /\ new /\ m.seq = b /\ served[c] = 0 /\ m.load.fin = (C = 1)
             /\ \A x \in Asked : Own(x, c, b)
  <2>1. \A x \in Asked : Own(x, c, b) /\ x.load.part = 1
    BY <1>2, <1>8 DEF Line
  <2>2. m.load.call = c /\ m.load.part = 1 /\ m.load.fin = (1 = C) /\ m.seq = Plus(b, 1 - 1)
    BY <1>1, <2>1 DEF Own
  <2>3. Plus(b, 1 - 1) = b
    BY PlusZero
  <2> QED BY <1>2, <1>8, <2>1, <2>2, <2>3 DEF Line
<1>9. ASSUME ~srv.fresh
      PROVE  \E a \in 0..C :
               /\ srv.expected = Plus(b, a) /\ s.expected = Plus(b, a)
               /\ served[c] = 1 <=> a = C
               /\ a > 0 => \A x \in Asked : x.load.call = c
               /\ new => /\ m.load.call = c /\ m.load.part = a + 1 /\ a < C
                         /\ m.load.fin = (a + 1 = C) /\ served[c] = 0
                         /\ \A x \in Asked' : x.load.call = c
  <2>1. PICK a \in 0..C : /\ srv.expected = Plus(b, a)
                          /\ served[c] = 1 <=> a = C
                          /\ a > 0 => \A x \in Asked : x.load.call = c
    BY <1>2, <1>9 DEF Line
  <2>2. s.expected = Plus(b, a)
    BY <1>2, <1>9, <2>1
  <2>3. IF m.load.call = c THEN Own(m, c, b) ELSE Past(m, b)
    BY <1>1, <1>2, <1>9 DEF Line
  <2>4. ASSUME new, m.load.call # c PROVE FALSE
    <3>1. PICK e \in 1..WriteChunks : m.seq = Plus(b, -e)
      BY <2>3, <2>4 DEF Past
    <3>2. a = 0
      BY <1>1, <2>1, <2>4
    <3>3. Plus(b, -e) = Plus(b, 0)
      BY <2>2, <2>4, <3>1, <3>2
    <3>4. -e \in Int /\ 0 \in Int /\ -e - 0 < SeqSpace /\ 0 - (-e) < SeqSpace
      BY <1>5
    <3>5. -e = 0
      BY <1>6, <3>3, <3>4, PlusApart
    <3> QED BY <3>5
  <2>5. ASSUME new
        PROVE  /\ m.load.call = c /\ m.load.part = a + 1 /\ a < C
               /\ m.load.fin = (a + 1 = C) /\ served[c] = 0
    <3>1. m.load.call = c /\ Own(m, c, b)
      BY <2>3, <2>4, <2>5
    <3> DEFINE i == m.load.part - 1
    <3>2. Plus(b, i) = Plus(b, a) /\ i + 1 <= C /\ m.load.fin = (i + 1 = C)
      BY <1>3, <2>2, <2>5, <3>1 DEF Own
    <3>3. i \in Int /\ a \in Int /\ i - a < SeqSpace /\ a - i < SeqSpace /\ m.load.part = i + 1
      BY <1>3, <1>5, <3>2
    <3> HIDE DEF i
    <3>4. i = a
      BY <1>6, <3>2, <3>3, PlusApart
    <3>5. a # C
      BY <1>5, <3>2, <3>4
    <3> QED BY <1>5, <1>6, <2>1, <3>1, <3>2, <3>3, <3>4, <3>5
  <2>6. ASSUME new PROVE \A x \in Asked' : x.load.call = c
    <3>1. \A x \in Asked' : <<m, x>>[1] = m /\ <<m, x>>[2] = x
      OBVIOUS
    <3>2. \A p \in Ordered(toServer) :
            p[1].kind = "data" /\ p[2].kind = "data" /\ p[1].load.call = c => p[2].load.call = c
      BY <1>2, <1>9 DEF Line
    <3> QED BY <1>3, <1>7, <2>5, <2>6, <3>1, <3>2
  <2> QED BY <2>1, <2>2, <2>5, <2>6
<1>10. new => m.load.call = c
  BY <1>8, <1>9
<1>11. serves => served[c] = 0
  BY <1>8, <1>9
<1>12. served'[c] = IF serves THEN 1 ELSE served[c]
  BY <1>4, <1>6, <1>10, <1>11 DEF Min
<1>13. \A x : Own(x, c, b)' <=> Own(x, c, b)
  BY <1>1 DEF Own
<1>14. \A x \in Asked' : IF x.load.call = c THEN Own(x, c, b)' ELSE Past(x, b)'
  <2>1. CASE srv.fresh
    BY <1>7, <1>8, <1>13, <2>1 DEF Own
  <2>2. CASE ~srv.fresh
    BY <1>2, <1>7, <1>13, <2>2 DEF Line, Past
  <2> QED BY <2>1, <2>2
<1>15. \A p \in Ordered(toServer)' :
         p[1].kind = "data" /\ p[2].kind = "data" /\ p[1].load.call = c => p[2].load.call = c
  <2>1. Ordered(toServer)' \subseteq Ordered(toServer)
    BY <1>2 DEF UpKept
  <2>2. CASE srv.fresh
    BY <1>8, <2>1, <2>2, PairsUp DEF Asked, Own
  <2>3. CASE ~srv.fresh
    BY <1>2, <2>1, <2>3 DEF Line
  <2> QED BY <2>2, <2>3
<1>16. \E a \in 0..C :
         /\ srv'.expected = Plus(b, a)
         /\ served'[c] = 1 <=> a = C
         /\ a > 0 => \A x \in Asked' : x.load.call = c
  <2>1. CASE srv.fresh
    <3>1. srv'.expected = Plus(b, 1) /\ (served'[c] = 1 <=> 1 = C)
      <4>1. srv'.expected = Plus(b, 1)
        BY <1>4, <1>8, <2>1
      <4>2. CASE C = 1
        <5>1. serves
          BY <1>8, <2>1, <4>2
        <5> QED BY <1>12, <4>1, <4>2, <5>1
      <4>3. CASE C # 1
        <5>1. ~serves /\ served[c] = 0
          BY <1>8, <2>1, <4>3
        <5> QED BY <1>12, <4>1, <4>3, <5>1
      <4> QED BY <4>2, <4>3
    <3>2. \A x \in Asked' : x.load.call = c
      BY <1>7, <1>8, <2>1 DEF Own
    <3> QED BY <1>5, <3>1, <3>2
  <2>2. CASE ~srv.fresh
    <3>1. PICK a \in 0..C :
               /\ srv.expected = Plus(b, a) /\ s.expected = Plus(b, a)
               /\ served[c] = 1 <=> a = C
               /\ a > 0 => \A x \in Asked : x.load.call = c
               /\ new => /\ m.load.call = c /\ m.load.part = a + 1 /\ a < C
                         /\ m.load.fin = (a + 1 = C) /\ served[c] = 0
                         /\ \A x \in Asked' : x.load.call = c
      BY <1>9, <2>2
    <3>2. CASE new
      <4>1. a + 1 \in 0..C /\ a \in Int /\ 1 \in Int
        BY <1>5, <3>1, <3>2
      <4>2. Plus(Plus(b, a), 1) = Plus(b, a + 1)
        BY <1>6, <4>1, PlusPlus
      <4>3. srv'.expected = Plus(b, a + 1)
        BY <1>4, <3>1, <3>2, <4>2
      <4>4. served'[c] = 1 <=> a + 1 = C
        <5>1. CASE a + 1 = C
          <6>1. serves
            BY <3>1, <3>2, <5>1
          <6> QED BY <1>12, <5>1, <6>1
        <5>2. CASE a + 1 # C
          <6>1. ~serves /\ served[c] = 0
            BY <3>1, <3>2, <5>2
          <6> QED BY <1>12, <5>2, <6>1
        <5> QED BY <5>1, <5>2
      <4> QED BY <3>1, <3>2, <4>1, <4>3, <4>4
    <3>3. CASE ~new
      BY <1>4, <1>7, <1>12, <3>1, <3>3
    <3> QED BY <3>2, <3>3
  <2> QED BY <2>1, <2>2
<1>17. Line(c, b)'
  BY <1>1, <1>2, <1>14, <1>15, <1>16 DEF Line
<1> QED BY <1>10, <1>11, <1>17 DEF s, m

\* Between calls it takes nothing.
LEMMA RestTaken ==
  ASSUME WireTypes, Sessions, NEW ok \in BOOLEAN, SrvTakes(ok), Rest
  PROVE  /\ ~srv.fresh
         /\ Head(toServer).seq # Adopted(Head(toServer)).expected
         /\ Rest'
<1> DEFINE m == Head(toServer)
           s == Adopted(m)
<1>1. /\ m \in Asked /\ m \in UpPackets /\ Takes(m, s, ok) /\ UNCHANGED tx_seq_nr
  BY TakesFacts DEF txVars
<1>2. /\ UpKept /\ Synced' /\ ~Opening'
      /\ srv.fresh => Opening
      /\ ~srv.fresh => Synced /\ s.expected = srv.expected
  BY TakenSession
<1>3. ~srv.fresh
  BY <1>1, <1>2 DEF Rest
<1>4. PICK e \in 1..WriteChunks : m.seq = Plus(tx_seq_nr, -e)
  BY <1>1, <1>2, <1>3 DEF Rest, Past
<1>5. m.seq # s.expected
  <2>1. SUFFICES ASSUME m.seq = s.expected PROVE FALSE
    OBVIOUS
  <2>2. tx_seq_nr \in SeqNrs /\ tx_seq_nr \in Int
    BY SeqInt DEF WireTypes
  <2>3. Plus(tx_seq_nr, -e) = tx_seq_nr /\ Plus(tx_seq_nr, 0) = tx_seq_nr
    BY <1>2, <1>3, <1>4, <2>1, <2>2, PlusZero DEF Rest
  <2>4. -e \in Int /\ 0 \in Int /\ -e - 0 < SeqSpace /\ 0 - (-e) < SeqSpace
    BY SizeFacts
  <2>5. -e = 0
    BY <2>2, <2>3, <2>4, PlusApart
  <2> QED BY <2>5
<1>6. srv'.expected = srv.expected
  BY <1>1, <1>2, <1>3, <1>5 DEF Takes
<1>7. Asked' \subseteq Asked
  BY <1>2 DEF UpKept, Asked
<1>8. Rest'
  BY <1>1, <1>2, <1>3, <1>6, <1>7 DEF Rest, Past
<1> QED BY <1>3, <1>5, <1>8

\* Whose requests may be under way.
LEMMA Course ==
  ASSUME WireInv
  PROVE  \/ Asked = {}
         \/ Resting /\ Rest
         \/ \E c \in Calls, b \in SeqNrs :
              /\ Line(c, b) /\ outcome[c] \in {"called", "failed"}
              /\ \A t \in Threads : pc[t] \in Requesting => c = call[t] /\ b = TxBase(t)
<1>1. \A t \in Threads : TxBase(t) \in SeqNrs
  <2> SUFFICES ASSUME NEW t \in Threads PROVE TxBase(t) \in SeqNrs
    OBVIOUS
  <2> DEFINE k == IF pc[t] = "send" THEN 1 - chunk[t] ELSE -chunk[t]
  <2>1. tx_seq_nr \in Int /\ k \in Int
    BY SeqInt, SizeFacts DEF WireInv, WireTypes
  <2>2. TxBase(t) = Plus(tx_seq_nr, k)
    BY DEF TxBase
  <2> HIDE DEF k
  <2> QED BY <2>1, <2>2, PlusType
<1>2. CASE \E t \in Threads : pc[t] \in Requesting
  <2>1. PICK t \in Threads : pc[t] \in Requesting
    BY <1>2
  <2>2. \A u \in Threads : pc[u] \in Requesting => u = t
    BY <2>1, AtWork DEF WireInv, Requesting
  <2>3. Line(call[t], TxBase(t)) /\ call[t] \in Calls /\ outcome[call[t]] = "called"
    BY <2>1 DEF WireInv, RequestSide, CallState
  <2> QED BY <1>1, <2>2, <2>3
<1>3. CASE ~(\E t \in Threads : pc[t] \in Requesting)
  <2>1. CASE state = "connected"
    <3>1. \A t \in Threads : pc[t] = "idle"
      BY <1>3, <2>1 DEF WireInv, Turns, Threads, User, Dog, Labels
    <3> QED BY <2>1, <3>1 DEF WireInv, RequestSide, Resting
  <2>2. CASE state \in {"init", "discovering"}
    <3>1. OnlyDisc
      BY <2>2 DEF WireInv, Sessions, Searching
    <3> QED BY <3>1 DEF OnlyDisc, Asked
  <2>3. CASE state = "disconnected"
    BY <1>3, <2>3 DEF WireInv, RequestSide
  <2> QED BY <2>1, <2>2, <2>3 DEF WireInv, WireTypes
<1> QED BY <1>2, <1>3

\* A request that is carried out was not carried out before, and its call has not
\* been reported as done.
LEMMA ServesNew ==
  ASSUME WireInv, NEW ok \in BOOLEAN, SrvTakes(ok),
         Head(toServer).seq = Adopted(Head(toServer)).expected, Head(toServer).load.fin
  PROVE  LET c == Head(toServer).load.call
         IN /\ c \in Calls /\ served[c] = 0 /\ outcome[c] \in {"called", "failed"}
            /\ \A t \in Threads : pc[t] \in Requesting => c = call[t]
            /\ ~Resting
<1>1. Head(toServer) \in Asked
  BY TakesFacts DEF WireInv
<1>2. WireTypes /\ Sessions
  BY DEF WireInv
<1>3. ~(Resting /\ Rest)
  BY <1>2, RestTaken
<1>4. ~Resting
  BY <1>3 DEF WireInv, RequestSide
<1>5. PICK c \in Calls, b \in SeqNrs :
             /\ Line(c, b) /\ outcome[c] \in {"called", "failed"}
             /\ \A t \in Threads : pc[t] \in Requesting => c = call[t] /\ b = TxBase(t)
  BY <1>1, <1>3, Course
<1>6. Head(toServer).load.call = c /\ served[c] = 0
  BY <1>2, <1>5, LineTaken
<1> QED BY <1>4, <1>5, <1>6

----------------------------------------------------------------------------
(* What the client sends *)

LEMMA ExpectedLast ==
  ASSUME rx_seq_nr_expected \in SeqNrs
  PROVE  /\ Plus(rx_seq_nr_expected, -1) \in SeqNrs
         /\ Plus(Plus(rx_seq_nr_expected, -1), 1) = rx_seq_nr_expected
<1>1. rx_seq_nr_expected \in Int /\ -1 \in Int /\ 1 \in Int /\ -1 + 1 = 0
  BY SeqInt
<1>2. Plus(rx_seq_nr_expected, -1) \in SeqNrs
  BY <1>1, PlusType
<1>3. Plus(Plus(rx_seq_nr_expected, -1), 1) = Plus(rx_seq_nr_expected, -1 + 1)
  BY <1>1, PlusPlus
<1> QED BY <1>1, <1>2, <1>3, PlusZero

LEMMA TransmitFacts ==
  ASSUME WireTypes, CallState, NEW t \in Threads, Transmit(t)
  PROVE  \E x : /\ UpSends(x) /\ x.kind = "data" /\ x.seq = tx_seq_nr
                /\ Expected(x) = rx_seq_nr_expected
                /\ x.load.call = call[t] /\ x.load.part = chunk[t]
                /\ x.load.fin = (chunk[t] = Chunks(op[call[t]]))
<1> DEFINE a == Plus(rx_seq_nr_expected, -1)
           p == [call |-> call[t], part |-> chunk[t], fin |-> chunk[t] = Chunks(op[call[t]])]
           x == Data(tx_seq_nr, a, p)
<1>1. pc[t] = "send" /\ toServer' = Append(toServer, x)
  BY DEF Transmit
<1>2. call[t] \in Calls /\ chunk[t] \in 1..WriteChunks
  BY <1>1 DEF CallState, WireTypes, Requesting
<1>3. /\ p \in Requests /\ p.call = call[t] /\ p.part = chunk[t]
      /\ p.fin = (chunk[t] = Chunks(op[call[t]]))
  BY <1>2 DEF Requests
<1>4. a \in SeqNrs /\ Plus(a, 1) = rx_seq_nr_expected
  BY ExpectedLast DEF WireTypes
<1> HIDE DEF a, p
<1>5. x \in UpPackets /\ x.kind = "data" /\ x.seq = tx_seq_nr /\ x.ack = a /\ x.load = p
  BY <1>3, <1>4, MakeUp DEF WireTypes
<1> HIDE DEF x
<1>6. UpSends(x)
  BY <1>1, <1>5, SendsUp
<1>7. Expected(x) = rx_seq_nr_expected
  BY <1>4, <1>5 DEF Expected
<1> QED BY <1>3, <1>5, <1>6, <1>7

LEMMA RecvSends ==
  ASSUME WireTypes, toServer' = Append(toServer, AckLast) \/ toServer' = Append(toServer, NackExpected)
  PROVE  \E x : UpSends(x) /\ x.kind \in {"ack", "nack"} /\ Expected(x) = rx_seq_nr_expected
<1> DEFINE a == Plus(rx_seq_nr_expected, -1)
<1>1. a \in SeqNrs /\ Plus(a, 1) = rx_seq_nr_expected /\ rx_seq_nr_expected \in SeqNrs
  BY ExpectedLast DEF WireTypes
<1>2. AckLast = Ack(a) /\ NackExpected = Nack(rx_seq_nr_expected)
  BY DEF AckLast, NackExpected
<1> HIDE DEF a
<1>3. /\ AckLast \in UpPackets /\ AckLast.kind = "ack" /\ AckLast.ack = a
      /\ NackExpected \in UpPackets /\ NackExpected.kind = "nack"
      /\ NackExpected.ack = rx_seq_nr_expected
  BY <1>1, <1>2, MakeUp
<1>4. Expected(AckLast) = rx_seq_nr_expected /\ Expected(NackExpected) = rx_seq_nr_expected
  BY <1>1, <1>3 DEF Expected
<1>5. CASE toServer' = Append(toServer, AckLast)
  BY <1>3, <1>4, <1>5, SendsUp
<1>6. CASE toServer' = Append(toServer, NackExpected)
  BY <1>3, <1>4, <1>6, SendsUp
<1> QED BY <1>5, <1>6

LEMMA DiscSends ==
  ASSUME WireTypes, Discover
  PROVE  UpSends(Disc) /\ Disc.kind = "disc"
BY SendsUp, MakeUp DEF Discover

----------------------------------------------------------------------------
(* Types *)

LEMMA InitTypes == Init => WireTypes
<1> SUFFICES ASSUME Init PROVE WireTypes
  OBVIOUS
<1>1. 0 \in SeqNrs /\ 1 \in 1..WriteChunks /\ <<>> \in Seq(Payloads)
  BY SizesAssumption DEF SeqNrs
<1>2. srv \in Servers
  BY <1>1 DEF Init, Servers
<1>3. toServer \in Seq(UpPackets) /\ toClient \in Seq(DownPackets)
  BY DEF Init
<1> QED BY <1>1, <1>2, <1>3 DEF Init, WireTypes, Ops, NoCall, Bits

LEMMA ThreadTypes ==
  ASSUME WireInv, NEW t \in Threads, Steps(t)
  PROVE  WireTypes'
<1> USE DEF WireTypes, txVars, rxVars, sockVars, callVars, flagVars
<1>0. WireTypes /\ CallState
  BY DEF WireInv
<1>1. CASE Transmit(t)
  <2>1. toServer' \in Seq(UpPackets)
    BY <1>0, <1>1, TransmitFacts DEF UpSends
  <2>2. tx_seq_nr' \in SeqNrs
    <3>1. tx_seq_nr \in Int /\ 1 \in Int
      BY <1>0, SeqInt
    <3> QED BY <1>1, <3>1, PlusType DEF Transmit, NextSeqNr
  <2>3. sent_seq_nr' \in [Threads -> SeqNrs] /\ event_flag' \in SUBSET Bits
    BY <1>0, <1>1 DEF Transmit
  <2> QED BY <1>0, <1>1, <2>1, <2>2, <2>3 DEF Transmit
<1>2. CASE SendWakes(t)
  BY <1>0, <1>2 DEF SendWakes
<1>3. CASE SendGot(t)
  <2>1. sent_seq_nr[t] \in SeqNrs /\ 0 \in SeqNrs
    BY <1>0, SizesAssumption DEF SeqNrs
  <2>2. chunk[t] < Chunks(op[call[t]]) => chunk[t] + 1 \in 1..WriteChunks
    BY <1>0, ChunksRange, SizeFacts
  <2>3. 1 \in 1..WriteChunks
    BY SizeFacts
  <2>4. chunk' \in [Threads -> 1..WriteChunks]
    BY <1>0, <1>3, <2>2, <2>3 DEF SendGot, EndCall
  <2>5. tx_seq_nr' \in SeqNrs /\ sent_seq_nr' \in [Threads -> SeqNrs]
    BY <1>0, <1>3, <2>1 DEF SendGot, RetrySeqNr
  <2>6. call' \in [Threads -> Calls \cup {NoCall}]
    BY <1>0, <1>3 DEF SendGot, EndCall
  <2>7. outcome' \in [Calls -> {"none", "called", "ok", "failed"}]
    BY <1>0, <1>3 DEF SendGot, EndCall
  <2>8. evf_bits' \in [Threads -> SUBSET Bits] /\ event_flag' \in SUBSET Bits
    BY <1>0, <1>3 DEF SendGot, Forget
  <2>9. /\ UNCHANGED <<toServer, toClient, srv, rx_seq_nr_expected, op, served>>
        /\ state' \in {state, "disconnected"}
    BY <1>3 DEF SendGot
  <2> QED BY <1>0, <2>4, <2>5, <2>6, <2>7, <2>8, <2>9
<1>4. CASE RecvWakes(t)
  BY <1>0, <1>4 DEF RecvWakes, Cleared
<1>5. CASE RecvFinished(t)
  <2>1. toServer' \in Seq(UpPackets)
    BY <1>0, <1>5, RecvSends DEF RecvFinished, UpSends
  <2> QED BY <1>0, <1>5, <2>1 DEF RecvFinished, Forget
<1>6. CASE RecvGoesOn(t)
  <2>1. toServer' \in Seq(UpPackets)
    BY <1>0, <1>6, RecvSends DEF RecvGoesOn, UpSends
  <2> QED BY <1>0, <1>6, <2>1 DEF RecvGoesOn, Forget
<1>7. CASE RecvTimesOut(t)
  <2>1. 1 \in 1..WriteChunks
    BY SizeFacts
  <2> QED BY <1>0, <1>7, <2>1 DEF RecvTimesOut, GoesDown, Forget, EndCall
<1>8. ASSUME NEW ok \in BOOLEAN, Check(t, ok) PROVE WireTypes'
  <2>1. 1 \in 1..WriteChunks
    BY SizeFacts
  <2> QED BY <1>0, <1>8, <2>1 DEF Check, EndCall
<1> QED BY <1>1, <1>2, <1>3, <1>4, <1>5, <1>6, <1>7, <1>8 DEF Steps

\* A call begins.
LEMMA BeginTypes ==
  ASSUME WireTypes, NEW t \in Threads, NEW c, NEW o \in Ops, BeginCall(t, c, o)
  PROVE  /\ c \in Calls /\ outcome[c] = "none" /\ op' \in [Calls -> Ops]
         /\ outcome' \in [Calls -> {"none", "called", "ok", "failed"}]
         /\ call' \in [Threads -> Calls \cup {NoCall}]
         /\ chunk' \in [Threads -> 1..WriteChunks]
<1>1. c \in Calls /\ outcome[c] = "none"
  BY DEF BeginCall, Unused
<1>2. 1 \in 1..WriteChunks
  BY SizeFacts
<1> QED BY <1>1, <1>2 DEF BeginCall, WireTypes

LEMMA CallerTypes ==
  ASSUME WireInv, BdCalls \/ FileCalls \/ DogSteps
  PROVE  WireTypes'
<1> USE DEF WireTypes, txVars, rxVars, sockVars, callVars, flagVars
<1>0. WireTypes /\ User \in Threads /\ Dog \in Threads
  BY DEF WireInv, Threads
<1>1. ASSUME NEW o \in Ops, UserCalls(o) PROVE WireTypes'
  BY <1>0, <1>1, BeginTypes DEF UserCalls
<1>2. CASE BdCalls \/ FileCalls
  BY <1>1, <1>2 DEF BdCalls, FileCalls, Ops
<1>3. CASE DogChecks
  <2>1. toServer' \in Seq(UpPackets)
    BY <1>0, <1>3, DiscSends DEF DogChecks, UpSends
  <2> QED BY <1>0, <1>3, <2>1 DEF DogChecks
<1>4. CASE DiscoverWakes
  BY <1>0, <1>4 DEF DiscoverWakes, Cleared
<1>5. CASE DiscoverFinds
  <2>1. CASE dev = "bd"
    <3>1. PICK c : BeginCall(Dog, c, "stat")
      BY <1>5, <2>1 DEF DiscoverFinds
    <3>2. "stat" \in Ops
      BY DEF Ops
    <3> QED BY <1>0, <1>5, <3>1, <3>2, BeginTypes DEF DiscoverFinds, Forget
  <2>2. CASE dev # "bd"
    BY <1>0, <1>5, <2>2 DEF DiscoverFinds, Forget
  <2> QED BY <2>1, <2>2
<1>6. CASE DiscoverRetries
  <2>1. toServer' \in Seq(UpPackets)
    BY <1>0, <1>6, DiscSends DEF DiscoverRetries, UpSends
  <2> QED BY <1>0, <1>6, <2>1 DEF DiscoverRetries, Forget
<1> QED BY <1>2, <1>3, <1>4, <1>5, <1>6 DEF DogSteps

LEMMA IstTypes ==
  ASSUME WireInv, Ist
  PROVE  WireTypes'
<1> USE DEF WireTypes, txVars, rxVars, sockVars, callVars, flagVars, threadVars
<1>0. WireTypes
  BY DEF WireInv
<1>1. toClient # <<>> /\ toClient' = Tail(toClient)
  BY DEF Ist, IstInform, IstAck, IstData, Take
<1>2. toClient' \in Seq(DownPackets) /\ Head(toClient) \in DownPackets
  BY <1>0, <1>1, KeptDown, TailQueue DEF DownKept
<1>3. event_flag' \in SUBSET Bits
  <2>1. CASE IstInform \/ IstAck
    BY <1>0, <2>1 DEF IstInform, IstAck, Bits
  <2>2. CASE IstData
    <3> DEFINE B == {"ack", "fin", "window", "nack"}
    <3>1. event_flag' \subseteq event_flag \cup B
      BY <2>2 DEF IstData
    <3> QED BY <1>0, <3>1 DEF Bits
  <2> QED BY <2>1, <2>2 DEF Ist
<1>4. rx_seq_nr_expected' \in SeqNrs
  <2>1. CASE IstInform \/ IstAck
    BY <1>0, <2>1 DEF IstInform, IstAck
  <2>2. CASE IstData
    <3>1. Head(toClient).kind = "data"
      BY <2>2 DEF IstData
    <3>2. Head(toClient).seq \in SeqNrs
      BY <1>2, <3>1, DownFields
    <3>3. Head(toClient).seq \in Int /\ 1 \in Int
      BY <3>2, SeqInt
    <3>4. Plus(Head(toClient).seq, 1) \in SeqNrs
      BY <3>3, PlusType
    <3>5. rx_seq_nr_expected' \in {rx_seq_nr_expected, Plus(Head(toClient).seq, 1)}
      BY <2>2 DEF IstData
    <3> QED BY <1>0, <3>4, <3>5
  <2> QED BY <2>1, <2>2 DEF Ist
<1>5. UNCHANGED <<toServer, srv, state, tx_seq_nr, sent_seq_nr, chunk, call, evf_bits, op,
                  outcome, served>>
  BY DEF Ist, IstInform, IstAck, IstData
<1> QED BY <1>0, <1>2, <1>3, <1>4, <1>5

LEMMA ServerTypes ==
  ASSUME WireInv, Server
  PROVE  WireTypes'
<1> USE DEF txVars, rxVars, sockVars, callVars, flagVars, threadVars
<1>0. WireTypes
  BY DEF WireInv
<1>1. UNCHANGED <<state, tx_seq_nr, rx_seq_nr_expected, sent_seq_nr, chunk, call, evf_bits,
                  event_flag, op, outcome>>
  BY DEF Server, SrvDiscovers, SrvTakes, SrvHearsAck, SrvIgnores, SrvTimer
<1>2. ASSUME toServer' \in Seq(UpPackets), toClient' \in Seq(DownPackets), srv' \in Servers,
             served' \in [Calls -> {0, 1}]
      PROVE  WireTypes'
  BY <1>0, <1>1, <1>2 DEF WireTypes
<1>3. CASE SrvDiscovers
  <2>1. toServer' \in Seq(UpPackets)
    BY <1>0, <1>3, KeptUp DEF SrvDiscovers, UpKept
  <2>2. toClient' \in Seq(DownPackets)
    BY <1>0, <1>3, AppendQueue, MakeDown DEF SrvDiscovers, WireTypes
  <2>3. <<>> \in Seq(Payloads)
    OBVIOUS
  <2>4. srv' \in Servers
    BY <1>0, <1>3, <2>3 DEF SrvDiscovers, WireTypes, Servers
  <2> QED BY <1>0, <1>2, <1>3, <2>1, <2>2, <2>4 DEF SrvDiscovers, WireTypes
<1>4. ASSUME NEW ok \in BOOLEAN, SrvTakes(ok) PROVE WireTypes'
  <2> DEFINE m == Head(toServer)
             s == Adopted(m)
  <2>1. /\ toServer # <<>> /\ toServer' = Tail(toServer) /\ Takes(m, s, ok) /\ Delivers
    BY <1>0, <1>4, TakesFacts
  <2>2. toServer' \in Seq(UpPackets)
    BY <1>0, <2>1, KeptUp DEF UpKept
  <2>3. served' \in [Calls -> {0, 1}]
    <3>1. CASE m.seq = s.expected /\ m.load.fin
      <4>1. m.load.call \in Calls /\ served[m.load.call] = 0
        BY <1>4, <3>1, ServesNew
      <4>2. served' = [served EXCEPT ![m.load.call] = Min(@ + 1, 2)]
        BY <2>1, <3>1 DEF Takes
      <4>3. Min(0 + 1, 2) = 1
        BY DEF Min
      <4> QED BY <1>0, <4>1, <4>2, <4>3 DEF WireTypes
    <3>2. CASE ~(m.seq = s.expected /\ m.load.fin)
      BY <1>0, <2>1, <3>2 DEF Takes, WireTypes
    <3> QED BY <3>1, <3>2
  <2> QED BY <1>2, <2>1, <2>2, <2>3 DEF Takes, Delivers
<1>5. CASE SrvHearsAck
  <2>1. toServer' \in Seq(UpPackets) /\ srv' \in Servers /\ toClient' \in Seq(DownPackets)
    BY <1>0, <1>5, HearsFacts, KeptUp DEF UpKept, Delivers
  <2> QED BY <1>0, <1>2, <1>5, <2>1 DEF SrvHearsAck, WireTypes
<1>6. CASE SrvIgnores
  <2>1. toServer' \in Seq(UpPackets)
    BY <1>0, <1>6, KeptUp DEF SrvIgnores, UpKept
  <2> QED BY <1>0, <1>2, <1>6, <2>1 DEF SrvIgnores, WireTypes
<1>7. CASE SrvTimer
  <2>1. UNCHANGED toServer /\ srv' \in Servers /\ toClient' \in Seq(DownPackets)
    BY <1>0, <1>7, TimerFacts DEF Delivers
  <2> QED BY <1>0, <1>2, <1>7, <2>1 DEF SrvTimer, WireTypes
<1> QED BY <1>3, <1>4, <1>5, <1>6, <1>7 DEF Server

LEMMA NextTypes == WireInv /\ [Next]_vars => WireTypes'
<1> SUFFICES ASSUME WireInv, [Next]_vars PROVE WireTypes'
  OBVIOUS
<1> USE DEF txVars, rxVars, sockVars, callVars, flagVars, threadVars
<1>0. WireTypes
  BY DEF WireInv
<1>1. ASSUME NEW due \in BOOLEAN, TimeoutCb(due) PROVE WireTypes'
  BY <1>0, <1>1 DEF TimeoutCb, WireTypes, Bits
<1>2. CASE Faults
  <2>1. toServer' \in Seq(UpPackets)
    BY <1>0, <1>2, KeptUp DEF Faults, SrvRestarts, Lose, Repeat, UpKept
  <2>2. toClient' \in Seq(DownPackets)
    BY <1>0, <1>2, KeptDown DEF Faults, SrvRestarts, Lose, Repeat, DownKept
  <2>3. <<>> \in Seq(Payloads)
    OBVIOUS
  <2>4. srv' \in Servers
    BY <1>0, <1>2, <2>3 DEF Faults, SrvRestarts, Lose, Repeat, WireTypes, Servers
  <2>5. UNCHANGED <<state, tx_seq_nr, rx_seq_nr_expected, sent_seq_nr, chunk, call, evf_bits,
                    event_flag, op, outcome, served>>
    BY <1>2 DEF Faults, SrvRestarts, Lose, Repeat
  <2> QED BY <1>0, <2>1, <2>2, <2>4, <2>5 DEF WireTypes
<1>3. CASE Rests \/ UNCHANGED vars
  BY <1>0, <1>3 DEF Rests, vars, WireTypes
<1> QED BY <1>1, <1>2, <1>3, ThreadTypes, CallerTypes, IstTypes, ServerTypes DEF Next

----------------------------------------------------------------------------
(* The calls that packets are about *)

LEMMA InitCalls == Init => CallState
<1> SUFFICES ASSUME Init PROVE CallState
  OBVIOUS
<1>1. Asked = {} /\ Answered = {}
  BY EmptyQueue DEF Init, Asked, Answered, Up, Down
<1>2. DOMAIN srv.pend = {}
  BY DEF Init
<1>3. \A t \in Threads : pc[t] = "idle" /\ evf_bits[t] = {}
  BY DEF Init
<1>4. \A c \in Calls : served[c] = 0
  BY DEF Init
<1> QED BY <1>1, <1>2, <1>3, <1>4 DEF CallState, Requesting

LEMMA PendCalls ==
  ASSUME WireTypes
  PROVE  \A i \in DOMAIN srv.pend : srv.pend[i] \in Payloads /\ srv.pend[i].call \in Calls
<1>1. srv.pend \in Seq(Payloads)
  BY DEF WireTypes, Servers
<1>2. \A i \in DOMAIN srv.pend : srv.pend[i] \in Payloads
  BY <1>1
<1>3. \A p \in Payloads : p.call \in Calls
  BY DEF Payloads
<1> QED BY <1>2, <1>3

\* A step of the client: packets, answers and calls that were known stay so.
LEMMA ClientCalls ==
  ASSUME WireTypes, CallState, UNCHANGED <<toClient, srv, served>>,
         \A c \in Calls : outcome'[c] = "none" => outcome[c] = "none",
         \A m \in Asked' : m \in Asked \/ outcome'[m.load.call] # "none",
         \A t \in Threads : pc'[t] \in Requesting =>
           /\ call'[t] \in Calls /\ outcome'[call'[t]] = "called"
           /\ chunk'[t] <= Chunks(op'[call'[t]])
           /\ pc'[t] \in {"recv", "rcv_got", "check"} => chunk'[t] = Chunks(op'[call'[t]])
           /\ pc'[t] \in {"snd_wait", "snd_got"} => tx_seq_nr' = Plus(sent_seq_nr'[t], 1),
         \A t \in Threads :
           pc'[t] \notin {"snd_got", "rcv_got", "disc_got"} => evf_bits'[t] = {}
  PROVE  CallState'
<1>1. Answered' = Answered
  BY DEF Answered, Down
<1>2. \A m \in Asked \cup Answered : m.load.call \in Calls
  BY UpTypes, UpFields, DownTypes, DownFields
     DEF Asked, Answered, Requests, Payloads
<1>3. \A i \in DOMAIN srv.pend : srv.pend[i].call \in Calls
  BY PendCalls
<1>4. \A c \in Calls : outcome'[c] = "none" => served'[c] = 0
  BY DEF CallState
<1>5. \A m \in Asked' \cup Answered' : outcome'[m.load.call] # "none"
  BY <1>1, <1>2 DEF CallState
<1>6. \A i \in DOMAIN srv'.pend : outcome'[srv'.pend[i].call] # "none"
  BY <1>3 DEF CallState
<1> QED BY <1>4, <1>5, <1>6 DEF CallState

LEMMA ThreadCalls ==
  ASSUME WireInv, Turns', NEW t \in Threads, Steps(t)
  PROVE  CallState'
<1> USE DEF txVars, rxVars, sockVars, callVars, flagVars
<1>0. WireTypes /\ CallState /\ Turns /\ pc \in [Threads -> Labels]
  BY DEF WireInv, Turns
<1>1. pc[t] \in Requesting /\ UNCHANGED <<toClient, srv, served, op>>
  BY DEF Steps, Transmit, SendWakes, SendGot, RecvWakes, RecvFinished, RecvGoesOn,
         RecvTimesOut, Check, Requesting
<1>2. \A u \in Threads : u # t => pc[u] = "idle"
  BY <1>0, <1>1, AtWork
<1> DEFINE P(u) ==
             pc'[u] \in Requesting =>
               /\ call'[u] \in Calls /\ outcome'[call'[u]] = "called"
               /\ chunk'[u] <= Chunks(op'[call'[u]])
               /\ pc'[u] \in {"recv", "rcv_got", "check"} => chunk'[u] = Chunks(op'[call'[u]])
               /\ pc'[u] \in {"snd_wait", "snd_got"} => tx_seq_nr' = Plus(sent_seq_nr'[u], 1)
           E(u) == pc'[u] \notin {"snd_got", "rcv_got", "disc_got"} => evf_bits'[u] = {}
           c == call[t]
<1>3. /\ c \in Calls /\ outcome[c] = "called" /\ chunk[t] <= Chunks(op[c])
      /\ pc[t] \in {"recv", "rcv_got", "check"} => chunk[t] = Chunks(op[c])
      /\ pc[t] \in {"snd_wait", "snd_got"} => tx_seq_nr = Plus(sent_seq_nr[t], 1)
      /\ \A u \in Threads : pc[u] \notin {"snd_got", "rcv_got", "disc_got"} => evf_bits[u] = {}
      /\ chunk[t] \in Int
  BY <1>0, <1>1, SizeFacts DEF CallState, WireTypes
<1>4. ASSUME NEW u \in Threads, u # t PROVE P(u) /\ E(u)
  <2>1. pc[u] = "idle" /\ evf_bits[u] = {}
    BY <1>2, <1>3, <1>4
  <2>2. pc'[u] = pc[u]
    BY <1>0, <1>4
       DEF Steps, Transmit, SendWakes, SendGot, RecvWakes, RecvFinished, RecvGoesOn,
           RecvTimesOut, Check, EndCall, Goto
  <2>3. evf_bits'[u] = evf_bits[u]
    BY <1>0, <1>4
       DEF Steps, Transmit, SendWakes, SendGot, RecvWakes, RecvFinished, RecvGoesOn,
           RecvTimesOut, Check, Forget, WireTypes
  <2> QED BY <2>1, <2>2, <2>3 DEF Requesting
<1>5. ASSUME P(t), E(t), \A d \in Calls : outcome'[d] = "none" => outcome[d] = "none",
             \A m \in Asked' : m \in Asked \/ outcome'[m.load.call] # "none"
      PROVE  CallState'
  <2>1. \A u \in Threads : P(u) /\ E(u)
    BY <1>4, <1>5
  <2> QED BY <1>0, <1>1, <1>5, <2>1, ClientCalls
<1> HIDE DEF P, E
<1>6. CASE Transmit(t)
  <2>1. /\ pc'[t] = "snd_wait" /\ UNCHANGED <<call, chunk, evf_bits, outcome, op>>
        /\ sent_seq_nr'[t] = tx_seq_nr /\ tx_seq_nr' = Plus(tx_seq_nr, 1) /\ pc[t] = "send"
    BY <1>0, <1>6 DEF Transmit, Goto, NextSeqNr, WireTypes
  <2>2. \A m \in Asked' : m \in Asked \/ m.load.call = c
    BY <1>0, <1>6, TransmitFacts DEF UpSends, Asked
  <2> QED BY <1>3, <1>5, <2>1, <2>2 DEF P, E
<1>7. CASE SendWakes(t) \/ RecvWakes(t)
  <2>1. /\ pc'[t] \in {"snd_got", "rcv_got"}
        /\ pc'[t] = "snd_got" => pc[t] = "snd_wait"
        /\ pc'[t] = "rcv_got" => pc[t] = "recv"
        /\ UNCHANGED <<call, chunk, outcome, op, sent_seq_nr, tx_seq_nr, toServer>>
    BY <1>0, <1>7 DEF SendWakes, RecvWakes, Goto
  <2>2. Asked' = Asked
    BY <2>1 DEF Asked, Up
  <2> QED BY <1>3, <1>5, <2>1, <2>2 DEF P, E
<1>8. CASE SendGot(t)
  <2>1. evf_bits'[t] = {} /\ pc[t] = "snd_got" /\ UNCHANGED <<op, toServer>>
    BY <1>0, <1>8 DEF SendGot, Forget, WireTypes
  <2>2. Asked' = Asked
    BY <2>1 DEF Asked, Up
  <2>3. CASE /\ pc'[t] = "send" /\ UNCHANGED <<call, outcome>>
             /\ chunk'[t] \in {chunk[t], chunk[t] + 1}
             /\ chunk'[t] # chunk[t] => chunk[t] < Chunks(op[c])
    <3>1. chunk'[t] <= Chunks(op[c])
      BY <1>3, <2>3, ChunksRange, SizeFacts
    <3> QED BY <1>3, <1>5, <2>1, <2>2, <2>3, <3>1 DEF P, E
  <2>4. CASE /\ pc'[t] = "recv" /\ UNCHANGED <<call, outcome, chunk>>
             /\ ~(chunk[t] < Chunks(op[c]))
    <3>1. chunk[t] = Chunks(op[c])
      BY <1>3, <2>4, ChunksRange, SizeFacts
    <3> QED BY <1>3, <1>5, <2>1, <2>2, <2>4, <3>1 DEF P, E
  <2>5. CASE pc'[t] = "idle" /\ outcome' = [outcome EXCEPT ![c] = "failed"]
    BY <1>0, <1>5, <2>1, <2>2, <2>5 DEF P, E, WireTypes, Requesting
  <2> QED BY <1>0, <1>8, <2>3, <2>4, <2>5 DEF SendGot, EndCall, Goto, WireTypes
<1>9. CASE RecvFinished(t) \/ RecvGoesOn(t)
  <2>1. /\ pc'[t] \in {"recv", "check"} /\ pc[t] = "rcv_got" /\ evf_bits'[t] = {}
        /\ UNCHANGED <<call, chunk, outcome, op>>
    BY <1>0, <1>9 DEF RecvFinished, RecvGoesOn, Goto, Forget, WireTypes
  <2>2. PICK x : UpSends(x) /\ x.kind \in {"ack", "nack"}
    BY <1>0, <1>9, RecvSends DEF RecvFinished, RecvGoesOn
  <2>3. Asked' \subseteq Asked
    BY <2>2 DEF UpSends, Asked
  <2> QED BY <1>3, <1>5, <2>1, <2>3 DEF P, E
<1>10. ASSUME RecvTimesOut(t) \/ \E ok \in BOOLEAN : Check(t, ok) PROVE CallState'
  <2>1. /\ pc'[t] = "idle" /\ evf_bits'[t] = {} /\ UNCHANGED toServer
        /\ \E how \in {"ok", "failed"} : outcome' = [outcome EXCEPT ![c] = how]
    BY <1>0, <1>3, <1>10 DEF RecvTimesOut, Check, EndCall, Goto, Forget, WireTypes
  <2>2. Asked' = Asked
    BY <2>1 DEF Asked, Up
  <2> QED BY <1>0, <1>5, <2>1, <2>2 DEF P, E, WireTypes, Requesting
<1> QED BY <1>6, <1>7, <1>8, <1>9, <1>10 DEF Steps

\* What a call that begins finds and leaves.
LEMMA BeginFacts ==
  ASSUME WireTypes, CallState, pc \in [Threads -> Labels], NEW t \in Threads, NEW c,
         NEW o \in Ops, BeginCall(t, c, o)
  PROVE  /\ c \in Calls /\ outcome[c] = "none" /\ served[c] = 0
         /\ pc'[t] = "send" /\ call'[t] = c /\ chunk'[t] = 1 /\ op'[c] = o
         /\ outcome'[c] = "called" /\ rx_buffer' = c /\ rx_received' = <<>>
         /\ o = "read" => rx_hdr' = [buf |-> c, got |-> FALSE, val |-> NoHdr]
         /\ \A d \in Calls : d # c => outcome'[d] = outcome[d] /\ op'[d] = op[d]
         /\ \A u \in Threads : u # t => pc'[u] = pc[u]
<1>1. c \in Calls /\ outcome[c] = "none"
  BY DEF BeginCall, Unused
<1> QED BY <1>1 DEF BeginCall, Goto, WireTypes, CallState

LEMMA CallerCalls ==
  ASSUME WireInv, BdCalls \/ FileCalls \/ DogSteps
  PROVE  CallState'
<1> USE DEF txVars, rxVars, sockVars, callVars, flagVars
<1>0. /\ WireTypes /\ CallState /\ Turns /\ pc \in [Threads -> Labels]
      /\ User \in Threads /\ Dog \in Threads /\ Threads = {User, Dog} /\ User # Dog
  BY DEF WireInv, Turns, Threads, User, Dog
<1>1. UNCHANGED <<toClient, srv, served>>
  BY DEF BdCalls, FileCalls, UserCalls, DogSteps, DogChecks, DiscoverWakes,
         DiscoverFinds, DiscoverRetries
<1>2. ASSUME NEW t \in Threads, NEW c, NEW o \in Ops, BeginCall(t, c, o), UNCHANGED toServer,
             \A u \in Threads : u # t => pc[u] = "idle" /\ evf_bits'[u] = evf_bits[u],
             evf_bits'[t] = {}
      PROVE  CallState'
  <2>1. /\ c \in Calls /\ outcome'[c] = "called" /\ pc'[t] = "send" /\ call'[t] = c
        /\ chunk'[t] = 1 /\ \A u \in Threads : u # t => pc'[u] = pc[u]
        /\ \A d \in Calls : d # c => outcome'[d] = outcome[d]
    BY <1>0, <1>2, BeginFacts
  <2>2. 1 <= Chunks(op'[c])
    BY ChunksRange, SizeFacts
  <2>3. Asked' = Asked
    BY <1>2 DEF Asked, Up
  <2>4. \A u \in Threads : pc'[u] \notin {"snd_got", "rcv_got", "disc_got"} => evf_bits'[u] = {}
    BY <1>0, <1>2, <2>1 DEF CallState
  <2>5. \A u \in Threads : pc'[u] \in Requesting => u = t
    BY <1>2, <2>1 DEF Requesting
  <2> QED BY <1>0, <1>1, <2>1, <2>2, <2>3, <2>4, <2>5, ClientCalls
<1>3. CASE BdCalls \/ FileCalls
  <2>1. PICK o \in Ops : UserCalls(o)
    BY <1>3 DEF BdCalls, FileCalls, Ops
  <2>2. PICK c : BeginCall(User, c, o)
    BY <2>1 DEF UserCalls
  <2>3. pc[User] = "idle" /\ state = "connected" /\ UNCHANGED <<toServer, evf_bits>>
    BY <2>1 DEF UserCalls, CanCall, Connected
  <2>4. pc[Dog] = "idle"
    <3>1. (dev = "bd" /\ g_udpfs_registered) \/ dev = "files"
      BY <1>3 DEF BdCalls, FileCalls
    <3> QED BY <1>0, <2>3, <3>1 DEF Turns, Labels
  <2>5. evf_bits[User] = {}
    BY <1>0, <2>3 DEF CallState
  <2> QED BY <1>0, <1>2, <2>2, <2>3, <2>4, <2>5
<1>4. CASE DiscoverFinds
  <2>1. pc[Dog] = "disc_got" /\ pc[User] = "idle"
    BY <1>0, <1>4 DEF DiscoverFinds, Turns
  <2>2. evf_bits'[Dog] = {} /\ evf_bits'[User] = evf_bits[User] /\ UNCHANGED toServer
    BY <1>0, <1>4 DEF DiscoverFinds, Forget, WireTypes
  <2>3. CASE dev = "bd"
    <3>1. PICK c : BeginCall(Dog, c, "stat")
      BY <1>4, <2>3 DEF DiscoverFinds
    <3>2. "stat" \in Ops
      BY DEF Ops
    <3> QED BY <1>0, <1>2, <2>1, <2>2, <3>1, <3>2
  <2>4. CASE dev # "bd"
    <3>1. pc'[Dog] = "idle" /\ pc'[User] = "idle" /\ UNCHANGED <<call, chunk, outcome, op>>
      BY <1>0, <1>4, <2>1, <2>4 DEF DiscoverFinds, Goto
    <3>2. evf_bits'[User] = {} /\ Asked' = Asked
      BY <1>0, <2>1, <2>2 DEF CallState, Asked, Up
    <3>3. \A u \in Threads : pc'[u] = "idle" /\ evf_bits'[u] = {}
      BY <1>0, <2>2, <3>1, <3>2
    <3> QED BY <1>0, <1>1, <3>1, <3>2, <3>3, ClientCalls DEF Requesting
  <2> QED BY <2>3, <2>4
<1>5. CASE DogChecks \/ DiscoverWakes \/ DiscoverRetries
  <2>1. /\ pc'[Dog] \in {"disc_wait", "disc_got", "idle"} /\ pc'[User] = pc[User]
        /\ UNCHANGED <<call, chunk, outcome, op>> /\ evf_bits'[User] = evf_bits[User]
    BY <1>0, <1>5
       DEF DogChecks, DiscoverWakes, DiscoverRetries, Discover, Goto, Forget,
           WireTypes
  <2>2. pc[User] = "idle"
    BY <1>0, <1>5
       DEF DogChecks, DiscoverWakes, DiscoverRetries, Turns, Discovering, Connected
  <2>3. pc'[Dog] # "disc_got" => evf_bits'[Dog] = {}
    BY <1>0, <1>5
       DEF DogChecks, DiscoverWakes, DiscoverRetries, Discover, Goto, Forget,
           WireTypes, CallState
  <2>4. Asked' \subseteq Asked
    <3>1. CASE Discover
      BY <1>0, <3>1, DiscSends DEF UpSends, Asked
    <3>2. CASE UNCHANGED toServer
      BY <3>2 DEF Asked, Up
    <3> QED BY <1>5, <3>1, <3>2 DEF DogChecks, DiscoverWakes, DiscoverRetries
  <2>5. \A u \in Threads : pc'[u] \notin Requesting
    BY <1>0, <2>1, <2>2 DEF Requesting
  <2>6. \A u \in Threads : pc'[u] \notin {"snd_got", "rcv_got", "disc_got"} => evf_bits'[u] = {}
    BY <1>0, <2>1, <2>2, <2>3 DEF CallState
  <2> QED BY <1>0, <1>1, <2>1, <2>4, <2>5, <2>6, ClientCalls
<1> QED BY <1>3, <1>4, <1>5 DEF DogSteps

\* A step of the network, of the server or of an interrupt.
LEMMA OtherCalls ==
  ASSUME WireTypes, WireTypes', CallState, UNCHANGED <<threadVars, outcome, op, tx_seq_nr>>,
         \A c \in Calls : outcome[c] = "none" => served'[c] = 0,
         Asked' \subseteq Asked,
         \A m \in Answered' : m \in Answered \/ SentBy(m)',
         \A i \in DOMAIN srv'.pend : outcome[srv'.pend[i].call] # "none"
  PROVE  CallState'
<1>1. UNCHANGED <<pc, call, chunk, sent_seq_nr, evf_bits>>
  BY DEF threadVars
<1>2. \A m : SentBy(m)' => \E j \in DOMAIN srv'.pend : m.load = srv'.pend[j]
  <2> SUFFICES ASSUME NEW m, SentBy(m)' PROVE \E j \in DOMAIN srv'.pend : m.load = srv'.pend[j]
    OBVIOUS
  <2>1. PICK j \in 1..Len(srv'.pend) : m.load = srv'.pend[j]
    BY DEF SentBy
  <2>2. srv'.pend \in Seq(Payloads)
    BY DEF WireTypes, Servers
  <2> QED BY <2>1, <2>2
<1>3. \A m \in Asked' \cup Answered' : outcome'[m.load.call] # "none"
  BY <1>2 DEF CallState
<1> QED BY <1>1, <1>3 DEF CallState

LEMMA AnswerCalls ==
  ASSUME op \in [Calls -> Ops], NEW c \in Calls, NEW ok \in BOOLEAN
  PROVE  \A i \in DOMAIN Answer(c, ok) : Answer(c, ok)[i].call = c
<1> DEFINE A == Answer(c, ok)
           N == Size(c, ok)
<1>1. A = [k \in 1..N |-> Payload(c, k, ok)] /\ N \in 1..ReadParts
  BY AnswerType
<1> HIDE DEF A, N
<1>2. \A k \in 1..N : k \in 1..ReadParts
  BY <1>1, SizeFacts
<1>3. \A k \in 1..N : Payload(c, k, ok).call = c
  BY <1>2, PayloadType
<1>4. DOMAIN A = 1..N /\ \A k \in 1..N : A[k] = Payload(c, k, ok)
  BY <1>1
<1>5. \A i \in DOMAIN A : A[i].call = c
  BY <1>3, <1>4
<1> QED BY <1>5 DEF A

LEMMA ServerCalls ==
  ASSUME WireInv, WireTypes', Server
  PROVE  CallState'
<1> USE DEF txVars, rxVars, sockVars, callVars, flagVars
<1>0. WireTypes /\ CallState /\ Sessions
  BY DEF WireInv
<1>1. UNCHANGED <<threadVars, outcome, op, tx_seq_nr>>
  BY DEF Server, SrvDiscovers, SrvTakes, SrvHearsAck, SrvIgnores, SrvTimer
<1>2. /\ \A i \in DOMAIN srv.pend : outcome[srv.pend[i].call] # "none"
      /\ \A c \in Calls : outcome[c] = "none" => served[c] = 0
  BY <1>0 DEF CallState
<1>3. Delivers => \A m \in Answered' : m \in Answered \/ SentBy(m)'
  BY DEF Delivers, Answered
<1>4. UpKept => Asked' \subseteq Asked
  BY DEF UpKept, Asked
<1>5. CASE SrvDiscovers
  <2>1. UpKept
    BY <1>0, <1>5, KeptUp DEF SrvDiscovers
  <2>2. Elements(Append(toClient, Inform)) = Elements(toClient) \cup {Inform}
    BY <1>0, AppendQueue, MakeDown DEF WireTypes
  <2>3. Answered' = Answered
    BY <1>5, <2>2, MakeDown DEF SrvDiscovers, Answered, Down
  <2>4. DOMAIN srv'.pend = {} /\ UNCHANGED served
    BY <1>0, <1>5 DEF SrvDiscovers, WireTypes, Servers
  <2> QED BY <1>0, <1>1, <1>2, <1>4, <2>1, <2>3, <2>4, OtherCalls
<1>6. ASSUME NEW ok \in BOOLEAN, SrvTakes(ok) PROVE CallState'
  <2> DEFINE m == Head(toServer)
             s == Adopted(m)
             c == m.load.call
  <2>1. /\ m \in Asked /\ m \in UpPackets /\ Takes(m, s, ok) /\ Delivers /\ s \in Servers
    BY <1>0, <1>6, TakesFacts
  <2>2. /\ UpKept /\ (srv.fresh => s.pend = <<>>) /\ (~srv.fresh => s = Acked(srv, m.ack))
    BY <1>0, <1>6, TakenSession
  <2>3. outcome[c] # "none" /\ c \in Calls /\ m.ack \in Int
    BY <1>0, <2>1, UpFields, SeqInt DEF CallState, Asked, Requests
  <2>4. \A i \in DOMAIN s.pend : outcome[s.pend[i].call] # "none"
    <3>1. CASE srv.fresh
      BY <2>2, <3>1
    <3>2. CASE ~srv.fresh
      <4>1. \A i \in DOMAIN s.pend : \E j \in DOMAIN srv.pend : s.pend[i] = srv.pend[j]
        <5> DEFINE a == m.ack
        <5>1. a \in Int /\ srv \in Servers /\ s = Acked(srv, a)
          BY <1>0, <2>2, <2>3, <3>2 DEF WireTypes
        <5> HIDE DEF a, s
        <5> QED BY <5>1, AckedType
      <4> QED BY <1>2, <4>1
    <3> QED BY <3>1, <3>2
  <2> HIDE DEF m, s
  <2>5. \A i \in DOMAIN Answer(c, ok) : Answer(c, ok)[i].call = c
    <3>1. op \in [Calls -> Ops]
      BY <1>0 DEF WireTypes
    <3> QED BY <1>6, <2>3, <3>1, AnswerCalls
  <2>6. \A i \in DOMAIN srv'.pend : outcome[srv'.pend[i].call] # "none"
    <3>1. CASE m.seq = s.expected /\ m.load.fin
      <4>1. srv'.pend = Answer(c, ok)
        BY <2>1, <3>1 DEF Takes
      <4> QED BY <2>3, <2>5, <4>1
    <3>2. CASE ~(m.seq = s.expected /\ m.load.fin)
      BY <2>1, <2>4, <3>2 DEF Takes
    <3> QED BY <3>1, <3>2
  <2>7. \A d \in Calls : outcome[d] = "none" => served'[d] = 0
    <3>1. \A d \in Calls : d # c => served'[d] = served[d]
      BY <1>0, <2>1 DEF Takes, WireTypes
    <3> QED BY <1>2, <2>3, <3>1
  <2> QED BY <1>0, <1>1, <1>3, <1>4, <2>1, <2>2, <2>6, <2>7, OtherCalls
<1>7. CASE SrvHearsAck
  <2>1. /\ toServer # <<>> /\ toServer' = Tail(toServer) /\ Delivers
        /\ \A i \in DOMAIN srv'.pend : \E j \in DOMAIN srv.pend : srv'.pend[i] = srv.pend[j]
    BY <1>0, <1>7, HearsFacts
  <2>2. UpKept
    BY <1>0, <2>1, KeptUp
  <2>3. UNCHANGED served
    BY <1>7 DEF SrvHearsAck
  <2> QED BY <1>0, <1>1, <1>2, <1>3, <1>4, <2>1, <2>2, <2>3, OtherCalls
<1>8. CASE SrvIgnores
  <2>1. UpKept
    BY <1>0, <1>8, KeptUp DEF SrvIgnores
  <2>2. UNCHANGED <<toClient, srv, served>>
    BY <1>8 DEF SrvIgnores
  <2>3. Answered' = Answered
    BY <2>2 DEF Answered, Down
  <2> QED BY <1>0, <1>1, <1>2, <1>4, <2>1, <2>2, <2>3, OtherCalls
<1>9. CASE SrvTimer
  <2>1. UNCHANGED toServer /\ Delivers /\ srv'.pend = srv.pend
    BY <1>0, <1>9, TimerFacts
  <2>2. UpKept
    BY <1>0, <2>1, KeptUp
  <2>3. UNCHANGED served
    BY <1>9 DEF SrvTimer
  <2> QED BY <1>0, <1>1, <1>2, <1>3, <1>4, <2>1, <2>2, <2>3, OtherCalls
<1> QED BY <1>5, <1>6, <1>7, <1>8, <1>9 DEF Server

LEMMA NextCalls == WireInv /\ WireTypes' /\ Turns' /\ [Next]_vars => CallState'
<1> SUFFICES ASSUME WireInv, WireTypes', Turns', [Next]_vars PROVE CallState'
  OBVIOUS
<1> USE DEF txVars, rxVars, sockVars, callVars, flagVars
<1>0. WireTypes /\ CallState
  BY DEF WireInv
<1>1. ASSUME UNCHANGED <<threadVars, outcome, op, tx_seq_nr, served>>,
             UpKept, DownKept, srv'.pend = srv.pend \/ srv'.pend = <<>>
      PROVE  CallState'
  <2>1. Asked' \subseteq Asked /\ Answered' \subseteq Answered
    BY <1>1 DEF UpKept, DownKept, Asked, Answered
  <2>2. \A i \in DOMAIN srv'.pend : outcome[srv'.pend[i].call] # "none"
    BY <1>0, <1>1 DEF CallState
  <2>3. \A c \in Calls : outcome[c] = "none" => served'[c] = 0
    BY <1>0, <1>1 DEF CallState
  <2> QED BY <1>0, <1>1, <2>1, <2>2, <2>3, OtherCalls
<1>2. CASE Ist
  <2>1. UpKept /\ DownKept
    BY <1>0, <1>2, KeptUp, KeptDown DEF Ist, IstInform, IstAck, IstData, Take
  <2>2. UNCHANGED <<threadVars, outcome, op, tx_seq_nr, served, srv>>
    BY <1>2 DEF Ist, IstInform, IstAck, IstData
  <2> QED BY <1>1, <2>1, <2>2
<1>3. ASSUME NEW due \in BOOLEAN, TimeoutCb(due) PROVE CallState'
  <2>1. UpKept /\ DownKept
    BY <1>0, <1>3, KeptUp, KeptDown DEF TimeoutCb
  <2> QED BY <1>1, <1>3, <2>1 DEF TimeoutCb
<1>4. CASE Faults
  <2>1. UpKept /\ DownKept
    BY <1>0, <1>4, KeptUp, KeptDown DEF Faults, SrvRestarts, Lose, Repeat
  <2>2. srv'.pend = srv.pend \/ srv'.pend = <<>>
    BY <1>0, <1>4 DEF Faults, SrvRestarts, Lose, Repeat, WireTypes, Servers
  <2>3. UNCHANGED <<threadVars, outcome, op, tx_seq_nr, served>>
    BY <1>4 DEF Faults, SrvRestarts, Lose, Repeat
  <2> QED BY <1>1, <2>1, <2>2, <2>3
<1>5. CASE Rests \/ UNCHANGED vars
  <2>1. UNCHANGED vars
    BY <1>5 DEF Rests
  <2>2. UpKept /\ DownKept
    BY <1>0, <2>1, KeptUp, KeptDown DEF vars
  <2> QED BY <1>1, <2>1, <2>2 DEF vars
<1> QED BY <1>2, <1>3, <1>4, <1>5, ThreadCalls, CallerCalls, ServerCalls DEF Next

----------------------------------------------------------------------------
(* The session *)

LEMMA InitSessions == Init => Sessions
<1> SUFFICES ASSUME Init PROVE Sessions
  OBVIOUS
<1>1. Up = {} /\ Ordered(toServer) = {}
  BY EmptyQueue DEF Init, Up
<1>2. /\ ~srv.session /\ ~srv.fresh /\ srv.pend = <<>> /\ state = "init"
  BY DEF Init
<1> QED BY <1>1, <1>2 DEF Sessions, DiscsFirst, OnlyDisc

\* A session that is not in use has nothing to send.
LEMMA NextServer ==
  ASSUME WireTypes, Sessions, [Next]_vars
  PROVE  /\ ~srv'.session => ~srv'.fresh
         /\ ~srv'.session \/ srv'.fresh => srv'.pend = <<>>
<1>1. CASE UNCHANGED srv
  BY <1>1 DEF Sessions
<1>2. CASE SrvDiscovers \/ SrvRestarts
  BY <1>2 DEF SrvDiscovers, SrvRestarts, WireTypes, Servers
<1>3. ASSUME NEW ok \in BOOLEAN, SrvTakes(ok) PROVE srv'.session /\ ~srv'.fresh
  BY <1>3, TakesFacts DEF Takes
<1>4. CASE SrvHearsAck
  BY <1>4, HearsFacts
<1>5. CASE SrvTimer
  BY <1>5, TimerFacts DEF Sessions
<1>6. \/ UNCHANGED srv \/ SrvDiscovers \/ SrvRestarts \/ SrvHearsAck \/ SrvTimer
      \/ \E ok \in BOOLEAN : SrvTakes(ok)
  BY DEF Next, Steps, Transmit, SendWakes, SendGot, RecvWakes, RecvFinished,
         RecvGoesOn, RecvTimesOut, Check, BdCalls, FileCalls, UserCalls, DogSteps,
         DogChecks, DiscoverWakes, DiscoverFinds, DiscoverRetries, Ist, IstInform,
         IstAck, IstData, TimeoutCb, Server, SrvIgnores, Faults, Lose, Repeat,
         Rests, vars
<1> QED BY <1>1, <1>2, <1>3, <1>4, <1>5, <1>6

\* What is sent to the server, and when.
LEMMA NextUp ==
  ASSUME WireInv, [Next]_vars
  PROVE  \/ UpKept
         \/ \E x : /\ UpSends(x) /\ x.kind # "disc" /\ state = "connected" /\ UNCHANGED srv
         \/ UpSends(Disc) /\ OnlyDisc /\ state' = "discovering" /\ UNCHANGED srv
<1> USE DEF txVars, rxVars, sockVars, callVars, flagVars
<1>0. WireTypes /\ CallState /\ Turns /\ Sessions
  BY DEF WireInv
<1>1. ASSUME NEW t \in Threads, Steps(t) PROVE \/ UpKept
             \/ \E x : /\ UpSends(x) /\ x.kind # "disc" /\ state = "connected" /\ UNCHANGED srv
  <2>1. pc[t] \in Requesting /\ UNCHANGED srv
    BY <1>1
       DEF Steps, Transmit, SendWakes, SendGot, RecvWakes, RecvFinished, RecvGoesOn,
           RecvTimesOut, Check, Requesting
  <2>2. state = "connected"
    BY <1>0, <1>1, <2>1, AtWork
  <2>3. CASE Transmit(t)
    <3>1. PICK x : UpSends(x) /\ x.kind = "data"
      BY <1>0, <1>1, <2>3, TransmitFacts
    <3> QED BY <2>1, <2>2, <3>1
  <2>4. CASE RecvFinished(t) \/ RecvGoesOn(t)
    <3>1. PICK x : UpSends(x) /\ x.kind \in {"ack", "nack"}
      BY <1>0, <2>4, RecvSends DEF RecvFinished, RecvGoesOn
    <3> QED BY <2>1, <2>2, <3>1
  <2>5. CASE UNCHANGED toServer
    BY <1>0, <2>5, KeptUp
  <2> QED BY <1>1, <2>3, <2>4, <2>5 DEF Steps, SendWakes, SendGot, RecvWakes, RecvTimesOut, Check
<1>2. CASE DogChecks
  <2>1. UpSends(Disc) /\ Up = {} /\ state' = "discovering" /\ UNCHANGED srv
    BY <1>0, <1>2, DiscSends, EmptyQueue DEF DogChecks, Idle, Up
  <2> QED BY <2>1 DEF OnlyDisc
<1>3. CASE DiscoverRetries
  <2>1. pc[Dog] = "disc_got" /\ UNCHANGED srv
    BY <1>3 DEF DiscoverRetries
  <2>2. state = "discovering" /\ OnlyDisc
    BY <1>0, <2>1 DEF Turns, Discovering, Sessions, Searching
  <2>3. CASE Discover /\ UNCHANGED state
    BY <1>0, <2>1, <2>2, <2>3, DiscSends
  <2>4. CASE UNCHANGED toServer
    BY <1>0, <2>4, KeptUp
  <2> QED BY <1>3, <2>3, <2>4 DEF DiscoverRetries
<1>4. CASE \/ UNCHANGED toServer
           \/ toServer # <<>> /\ toServer' = Tail(toServer)
           \/ toServer # <<>> /\ toServer' = <<Head(toServer)>> \o toServer
  BY <1>0, <1>4, KeptUp
<1>5. CASE BdCalls \/ FileCalls \/ DiscoverWakes \/ DiscoverFinds \/ Ist
    \/ (\E due \in BOOLEAN : TimeoutCb(due)) \/ Server \/ Faults \/ Rests \/ UNCHANGED vars
  BY <1>4, <1>5
     DEF BdCalls, FileCalls, UserCalls, DiscoverWakes, DiscoverFinds, Ist,
         IstInform, IstAck, IstData, TimeoutCb, Server, SrvDiscovers, SrvTakes,
         SrvHearsAck, SrvIgnores, SrvTimer, Faults, SrvRestarts, Lose, Repeat,
         Rests, vars
<1> QED BY <1>1, <1>2, <1>3, <1>5 DEF Next, DogSteps

LEMMA NextDiscs ==
  ASSUME WireInv, [Next]_vars
  PROVE  /\ DiscsFirst'
         /\ OnlyDisc /\ state # "connected" => OnlyDisc'
<1>0. DiscsFirst
  BY DEF WireInv, Sessions
<1>1. CASE UpKept
  BY <1>0, <1>1 DEF UpKept, DiscsFirst, OnlyDisc
<1>2. ASSUME NEW x, UpSends(x), x.kind # "disc", state = "connected"
      PROVE  DiscsFirst'
  BY <1>0, <1>2 DEF UpSends, DiscsFirst
<1>3. CASE UpSends(Disc) /\ OnlyDisc
  <2>1. Disc.kind = "disc"
    BY MakeUp
  <2>2. OnlyDisc'
    BY <1>3, <2>1 DEF UpSends, OnlyDisc
  <2>3. DiscsFirst'
    BY <1>0, <1>3, <2>1 DEF UpSends, DiscsFirst, OnlyDisc
  <2> QED BY <2>2, <2>3
<1> QED BY <1>1, <1>2, <1>3, NextUp

\* While the watchdog looks for the server, the packets it hears lead to a new
\* session; this is where a flag that an INFORM left behind would do harm.
LEMMA NextSearching ==
  ASSUME WireInv, Turns', NoStaleInform, [Next]_vars, state' = "discovering"
  PROVE  Searching'
<1> USE DEF txVars, rxVars, sockVars, callVars, flagVars
<1>0. WireTypes /\ Turns /\ Sessions /\ Dog \in Threads
  BY DEF WireInv, Threads
<1>1. CASE DogChecks
  <2>1. /\ pc[Dog] = "idle" /\ pc' = [pc EXCEPT ![Dog] = "disc_wait"] /\ state # "connected"
        /\ toClient = <<>> /\ toServer = <<>> /\ UNCHANGED <<toClient, event_flag>> /\ Discover
    BY <1>1 DEF DogChecks, Discover, Goto, Idle, Connected
  <2>2. pc'[Dog] = "disc_wait" /\ UNCHANGED srv
    BY <1>0, <1>1, <2>1 DEF Turns, DogChecks
  <2>5. state \in {"init", "disconnected"}
    BY <1>0, <2>1 DEF WireTypes, Sessions, Searching, Discovering
  <2>6. "info" \in event_flag' => NotUsed'
    BY <2>1, <2>2, <2>5 DEF NoStaleInform, NotUsed
  <2>3. Down' = {} /\ Ordered(toClient)' = {} /\ Up = {}
    BY <2>1, EmptyQueue DEF Down, Up
  <2>4. OnlyDisc'
    BY <2>1, <2>3, NextDiscs DEF OnlyDisc
  <2> QED BY <2>2, <2>3, <2>4, <2>6 DEF Searching, InformsLast, OnlyInform, Discovering
<1>2. ASSUME state = "discovering" PROVE Searching'
  <2>0. Searching /\ OnlyDisc' /\ pc[User] = "idle" /\ pc[Dog] \in Discovering
    BY <1>0, <1>2, NextDiscs DEF Sessions, Searching, Turns
  <2>1. \A t \in Threads : ~Steps(t)
    <3> SUFFICES ASSUME NEW t \in Threads, Steps(t) PROVE FALSE
      OBVIOUS
    <3>1. pc[t] \in Requesting
      BY DEF Steps, Transmit, SendWakes, SendGot, RecvWakes, RecvFinished,
             RecvGoesOn, RecvTimesOut, Check, Requesting
    <3> QED BY <1>0, <1>2, <3>1, AtWork
  <2>2. ~(BdCalls \/ FileCalls \/ DogChecks \/ DiscoverFinds)
    BY <1>2, <2>0
       DEF BdCalls, FileCalls, UserCalls, CanCall, Connected, DogChecks,
           DiscoverFinds, Discovering
  <2>3. CASE DiscoverWakes
    <3>1. /\ pc[Dog] = "disc_wait" /\ pc' = [pc EXCEPT ![Dog] = "disc_got"] /\ event_flag' = {}
          /\ evf_bits'[Dog] = event_flag /\ UNCHANGED <<toClient, srv>>
      BY <1>0, <2>3 DEF DiscoverWakes, Goto, Cleared, WireTypes
    <3>2. pc'[Dog] = "disc_got"
      BY <1>0, <3>1 DEF Turns
    <3>3. Down' = Down /\ Ordered(toClient)' = Ordered(toClient) /\ (NotUsed' <=> NotUsed)
      BY <3>1 DEF Down, NotUsed
    <3> QED BY <2>0, <3>1, <3>2, <3>3 DEF Searching, InformsLast, OnlyInform, Discovering
  <2>4. CASE DiscoverRetries
    <3>1. /\ pc[Dog] = "disc_got" /\ UNCHANGED <<toClient, srv, event_flag>>
          /\ pc' = [pc EXCEPT ![Dog] = "disc_wait"]
      BY <1>2, <2>4 DEF DiscoverRetries, Goto, Discover
    <3>2. pc'[Dog] = "disc_wait"
      BY <1>0, <3>1 DEF Turns
    <3>3. Down' = Down /\ Ordered(toClient)' = Ordered(toClient) /\ (NotUsed' <=> NotUsed)
      BY <3>1 DEF Down, NotUsed
    <3> QED BY <2>0, <3>1, <3>2, <3>3 DEF Searching, InformsLast, OnlyInform, Discovering
  <2>5. ASSUME UNCHANGED <<pc, evf_bits>>, DownKept, NotUsed => NotUsed',
               event_flag' \subseteq event_flag \cup {"timeout"}
        PROVE  Searching'
    BY <2>0, <2>5 DEF Searching, DownKept, InformsLast, OnlyInform
  <2>6. CASE Ist
    <3> DEFINE m == Head(toClient)
    <3>1. /\ toClient # <<>> /\ toClient' = Tail(toClient) /\ UNCHANGED <<pc, evf_bits, srv>>
      BY <2>6 DEF Ist, IstInform, IstAck, IstData, Take, threadVars
    <3>2. DownKept /\ m \in Down /\ \A x \in Down' : <<m, x>> \in Ordered(toClient)
      BY <1>0, <3>1, KeptDown, TailQueue DEF WireTypes, Down
    <3>3. NotUsed' <=> NotUsed
      BY <3>1 DEF NotUsed
    <3>4. CASE IstInform
      <4>1. m.kind = "inform" /\ event_flag' = event_flag \cup {"info"}
        BY <1>2, <3>4 DEF IstInform, Connected
      <4>2. NotUsed
        BY <2>0, <3>2, <4>1 DEF Searching
      <4>3. OnlyInform'
        <5> SUFFICES ASSUME NEW x \in Down' PROVE x.kind = "inform"
          BY DEF OnlyInform
        <5>1. <<m, x>> \in Ordered(toClient) /\ <<m, x>>[1] = m /\ <<m, x>>[2] = x
          BY <3>2
        <5> QED BY <2>0, <4>1, <5>1 DEF Searching, InformsLast
      <4> QED BY <2>0, <3>1, <3>2, <3>3, <4>1, <4>2, <4>3 DEF Searching, DownKept, InformsLast
    <3>5. CASE IstAck \/ IstData
      <4>1. m.kind # "inform" /\ event_flag' \subseteq event_flag \cup {"ack", "fin", "window", "nack"}
        BY <3>5 DEF IstAck, IstData
      <4>2. ~OnlyInform
        BY <3>2, <4>1 DEF OnlyInform
      <4>3. "info" \notin event_flag' /\ ~(pc'[Dog] = "disc_got" /\ "info" \in evf_bits'[Dog])
        BY <2>0, <3>1, <4>1, <4>2 DEF Searching
      <4> QED BY <2>0, <3>1, <3>2, <3>3, <4>3 DEF Searching, DownKept, InformsLast
    <3> QED BY <2>6, <3>4, <3>5 DEF Ist
  <2>7. ASSUME NEW due \in BOOLEAN, TimeoutCb(due) PROVE Searching'
    <3>1. DownKept /\ (NotUsed => NotUsed')
      BY <1>0, <2>7, KeptDown DEF TimeoutCb, NotUsed
    <3> QED BY <2>5, <2>7, <3>1 DEF TimeoutCb, threadVars
  <2>8. CASE SrvDiscovers
    <3>1. /\ UNCHANGED <<pc, evf_bits, event_flag>> /\ srv'.session /\ srv'.fresh
          /\ toClient' = Append(toClient, Inform)
      BY <1>0, <2>8 DEF SrvDiscovers, threadVars, WireTypes, Servers
    <3>2. Inform \in DownPackets /\ Inform.kind = "inform"
      BY MakeDown
    <3>3. /\ Down' = Down \cup {Inform}
          /\ \A p \in Ordered(toClient)' : p \in Ordered(toClient) \/ p[2] = Inform
      BY <1>0, <3>1, <3>2, AppendQueue DEF WireTypes, Down
    <3>4. NotUsed'
      BY <3>1 DEF NotUsed
    <3> QED BY <2>0, <3>1, <3>2, <3>3, <3>4 DEF Searching, InformsLast, OnlyInform
  <2>9. CASE (\E ok \in BOOLEAN : SrvTakes(ok)) \/ SrvHearsAck
    <3>1. toServer # <<>> /\ Head(toServer).kind # "disc"
      BY <2>9 DEF SrvTakes, SrvHearsAck
    <3>2. Head(toServer) \in Up
      BY <1>0, <3>1, TailQueue DEF WireTypes, Up
    <3> QED BY <2>0, <3>1, <3>2 DEF Searching, OnlyDisc
  <2>10. CASE SrvIgnores
    <3>1. DownKept /\ (NotUsed => NotUsed')
      BY <1>0, <2>10, KeptDown DEF SrvIgnores, NotUsed
    <3> QED BY <2>5, <2>10, <3>1 DEF SrvIgnores, threadVars
  <2>11. CASE SrvTimer
    <3>1. /\ srv.session /\ srv.pend # <<>> /\ \A m \in Down' : m.kind = "data"
      BY <1>0, <2>11, TimerFacts
    <3>2. ~NotUsed
      BY <1>0, <3>1 DEF NotUsed, Sessions
    <3>3. UNCHANGED <<pc, evf_bits, event_flag>>
      BY <2>11 DEF SrvTimer, threadVars
    <3>4. \A p \in Ordered(toClient)' : p[1] \in Down'
      BY DEF Ordered, Down
    <3> QED BY <2>0, <3>1, <3>2, <3>3, <3>4 DEF Searching, InformsLast
  <2>12. CASE Faults
    <3>1. DownKept
      BY <1>0, <2>12, KeptDown DEF Faults, SrvRestarts, Lose, Repeat
    <3>2. NotUsed => NotUsed'
      BY <1>0, <2>12
         DEF Faults, SrvRestarts, Lose, Repeat, NotUsed, WireTypes, Servers
    <3> QED BY <2>5, <2>12, <3>1, <3>2 DEF Faults, SrvRestarts, Lose, Repeat, threadVars
  <2>13. CASE Rests \/ UNCHANGED vars
    <3>1. UNCHANGED <<pc, evf_bits, event_flag, toClient, srv>>
      BY <2>13 DEF Rests, vars, threadVars
    <3>2. DownKept /\ (NotUsed => NotUsed')
      BY <1>0, <3>1, KeptDown DEF NotUsed
    <3> QED BY <2>5, <3>1, <3>2
  <2> QED BY <2>1, <2>2, <2>3, <2>4, <2>6, <2>7, <2>8, <2>9, <2>10, <2>11, <2>12, <2>13
          DEF Next, DogSteps, Server
<1>3. ASSUME state # "discovering" PROVE DogChecks
  <2>1. ASSUME NEW t \in Threads, Steps(t) PROVE state' # "discovering"
    BY <1>3, <2>1
       DEF Steps, Transmit, SendWakes, SendGot, RecvWakes, RecvFinished, RecvGoesOn,
           RecvTimesOut, Check, GoesDown, EndCall
  <2>2. DiscoverWakes \/ DiscoverRetries => state = "discovering"
    BY <1>0 DEF DiscoverWakes, DiscoverRetries, Turns, Discovering
  <2>3. DiscoverFinds => state' = "connected"
    BY DEF DiscoverFinds
  <2>4. BdCalls \/ FileCalls \/ Ist \/ (\E due \in BOOLEAN : TimeoutCb(due)) \/ Server \/ Faults
          \/ Rests \/ UNCHANGED vars => UNCHANGED state
    BY DEF BdCalls, FileCalls, UserCalls, Ist, IstInform, IstAck, IstData,
           TimeoutCb, Server, SrvDiscovers, SrvTakes, SrvHearsAck, SrvIgnores,
           SrvTimer, Faults, SrvRestarts, Lose, Repeat, Rests, vars
  <2> QED BY <1>3, <2>1, <2>2, <2>3, <2>4 DEF Next, DogSteps
<1> QED BY <1>1, <1>2, <1>3

\* The state of the socket leaves "init" once.
LEMMA NextState ==
  ASSUME WireInv, [Next]_vars, state' = "init"
  PROVE  state = "init"
<1>1. ASSUME NEW t \in Threads, Steps(t) PROVE state' \in {state, "disconnected"}
  BY <1>1
     DEF Steps, Transmit, SendWakes, SendGot, RecvWakes, RecvFinished, RecvGoesOn,
         RecvTimesOut, Check, GoesDown, EndCall, sockVars
<1>2. DogSteps => state' \in {state, "connected", "discovering", "disconnected"}
  BY DEF DogSteps, DogChecks, DiscoverWakes, DiscoverFinds, DiscoverRetries,
         sockVars
<1>3. BdCalls \/ FileCalls \/ Ist \/ (\E due \in BOOLEAN : TimeoutCb(due)) \/ Server \/ Faults
        \/ Rests \/ UNCHANGED vars => UNCHANGED state
  BY DEF BdCalls, FileCalls, UserCalls, Ist, IstInform, IstAck, IstData, TimeoutCb,
         Server, SrvDiscovers, SrvTakes, SrvHearsAck, SrvIgnores, SrvTimer, Faults,
         SrvRestarts, Lose, Repeat, Rests, vars, sockVars
<1> QED BY <1>1, <1>2, <1>3 DEF Next

LEMMA NextSessions ==
  ASSUME WireInv, Turns', NoStaleInform, [Next]_vars
  PROVE  Sessions'
<1>0. WireTypes /\ Sessions
  BY DEF WireInv
<1>1. DiscsFirst' /\ (state' = "init" => OnlyDisc')
  BY <1>0, NextDiscs, NextState DEF Sessions
<1> QED BY <1>0, <1>1, NextServer, NextSearching DEF Sessions

----------------------------------------------------------------------------
(* The requests under way: steps *)

LEMMA InitRequests == Init => RequestSide
<1> SUFFICES ASSUME Init PROVE RequestSide
  OBVIOUS
<1>1. state = "init" /\ \A t \in Threads : pc[t] = "idle"
  BY DEF Init
<1> QED BY <1>1 DEF RequestSide, Requesting, Resting

\* The client sends a packet of call c, or no request.
LEMMA LineSends ==
  ASSUME NEW c \in Calls, NEW b \in SeqNrs, Line(c, b), NEW x, UpSends(x), x.kind # "disc",
         x.kind = "data" => Own(x, c, b) /\ (Opening => x.load.part = 1),
         UNCHANGED <<srv, op, served>>
  PROVE  Line(c, b)'
<1>1. Asked' = IF x.kind = "data" THEN Asked \cup {x} ELSE Asked
  BY DEF UpSends, Asked
<1>2. HasDisc' <=> HasDisc
  BY DEF UpSends, HasDisc
<1>3. (Opening' <=> Opening) /\ (Synced' <=> Synced) /\ (NotUsed' <=> NotUsed)
  BY <1>2 DEF Opening, Synced, NotUsed
<1>4. \A m : Own(m, c, b)' <=> Own(m, c, b)
  BY DEF Own
<1>5. \A m : Past(m, b)' <=> Past(m, b)
  BY DEF Past
<1>6. ASSUME Opening'
      PROVE  /\ HasDisc' => NotUsed'
             /\ served'[c] = 0
             /\ \A m \in Asked' : Own(m, c, b)' /\ m.load.part = 1
  BY <1>1, <1>2, <1>3, <1>4, <1>6 DEF Line
<1>7. ASSUME Synced'
      PROVE  /\ \A m \in Asked' : IF m.load.call = c THEN Own(m, c, b)' ELSE Past(m, b)'
             /\ \A p \in Ordered(toServer)' :
                  p[1].kind = "data" /\ p[2].kind = "data" /\ p[1].load.call = c
                    => p[2].load.call = c
             /\ \E a \in 0..Chunks(op'[c]) :
                  /\ srv'.expected = Plus(b, a)
                  /\ served'[c] = 1 <=> a = Chunks(op'[c])
                  /\ a > 0 => \A m \in Asked' : m.load.call = c
  <2>0. x.kind = "data" => x.load.call = c
    BY DEF Own
  <2>1. \A m \in Asked' : IF m.load.call = c THEN Own(m, c, b)' ELSE Past(m, b)'
    BY <1>1, <1>3, <1>4, <1>5, <1>7, <2>0 DEF Line
  <2>2. \A p \in Ordered(toServer)' :
             p[1].kind = "data" /\ p[2].kind = "data" /\ p[1].load.call = c
               => p[2].load.call = c
    BY <1>3, <1>7, <2>0 DEF Line, UpSends
  <2>3. PICK a \in 0..Chunks(op[c]) :
             /\ srv.expected = Plus(b, a)
             /\ served[c] = 1 <=> a = Chunks(op[c])
             /\ a > 0 => \A m \in Asked : m.load.call = c
    BY <1>3, <1>7 DEF Line
  <2>4. /\ srv'.expected = Plus(b, a)
        /\ served'[c] = 1 <=> a = Chunks(op'[c])
        /\ a > 0 => \A m \in Asked' : m.load.call = c
    BY <1>1, <2>0, <2>3
  <2> QED BY <2>1, <2>2, <2>3, <2>4
<1> QED BY <1>6, <1>7 DEF Line

\* TxBase is a sequence number.
LEMMA TxBaseType ==
  ASSUME WireTypes, NEW t \in Threads
  PROVE  TxBase(t) \in SeqNrs
<1> DEFINE k == IF pc[t] = "send" THEN 1 - chunk[t] ELSE -chunk[t]
<1>1. tx_seq_nr \in Int /\ k \in Int
  BY SeqInt, SizeFacts DEF WireTypes
<1>2. TxBase(t) = Plus(tx_seq_nr, k)
  BY DEF TxBase
<1> HIDE DEF k
<1> QED BY <1>1, <1>2, PlusType

\* Steps that leave the threads alone.
LEMMA RequestsKept ==
  ASSUME WireInv, UpKept, SessionKept,
         UNCHANGED <<pc, call, chunk, tx_seq_nr, op, outcome, served, state>>
  PROVE  RequestSide'
<1>0. WireTypes /\ CallState /\ RequestSide
  BY DEF WireInv
<1>1. ASSUME NEW t \in Threads, pc[t] \in Requesting PROVE Line(call[t], TxBase(t))'
  <2>1. TxBase(t)' = TxBase(t) /\ TxBase(t) \in SeqNrs /\ call[t] \in Calls
    BY <1>0, <1>1, TxBaseType DEF TxBase, CallState
  <2>2. Line(call[t], TxBase(t))
    BY <1>0, <1>1 DEF RequestSide
  <2> DEFINE c == call[t]
             b == TxBase(t)
  <2>3. c \in Calls /\ b \in SeqNrs /\ Line(c, b)
    BY <2>1, <2>2
  <2> HIDE DEF c, b
  <2>4. ASSUME NEW d, NEW e, d = c, e = b PROVE Line(d, e)'
    BY <2>3, <2>4, LineKept
  <2> QED BY <2>1, <2>4 DEF c, b
<1>2. Resting' => Rest'
  BY <1>0, RestKept DEF RequestSide, Resting
<1>3. Asked' \subseteq Asked
  BY DEF UpKept, Asked
<1>4. ASSUME state = "disconnected"
      PROVE  \/ Asked' = {}
             \/ \E c \in Calls, b \in SeqNrs : Line(c, b)' /\ outcome'[c] = "failed"
  <2>1. CASE Asked = {}
    BY <1>3, <2>1
  <2>2. ASSUME NEW c \in Calls, NEW b \in SeqNrs, Line(c, b), outcome[c] = "failed"
        PROVE  Line(c, b)' /\ outcome'[c] = "failed"
    BY <2>2, LineKept
  <2> QED BY <1>0, <1>4, <2>1, <2>2 DEF RequestSide
<1> QED BY <1>1, <1>2, <1>4 DEF RequestSide

LEMMA SessionKeeps ==
  ASSUME WireTypes, UpKept,
         \/ UNCHANGED <<srv, toServer>>
         \/ SrvDiscovers \/ SrvHearsAck \/ SrvIgnores \/ SrvTimer \/ Faults
  PROVE  SessionKept
<1>1. HasDisc' => HasDisc
  BY DEF UpKept, HasDisc
<1>2. CASE UNCHANGED srv
  BY <1>1, <1>2 DEF SessionKept, Opening, NotUsed
<1>3. CASE SrvDiscovers
  <2>1. toServer # <<>> /\ Head(toServer).kind = "disc" /\ srv'.fresh
    BY <1>3 DEF SrvDiscovers, WireTypes, Servers
  <2>2. HasDisc
    BY <2>1, TailQueue DEF WireTypes, Up, HasDisc
  <2> QED BY <2>1, <2>2 DEF SessionKept, Opening, NotUsed
<1>4. CASE SrvHearsAck
  BY <1>1, <1>4, HearsFacts DEF SessionKept, Opening, NotUsed
<1>5. CASE SrvTimer
  BY <1>1, <1>5, TimerFacts DEF SessionKept, Opening, NotUsed
<1>6. CASE SrvRestarts
  <2>1. ~srv'.session /\ ~srv'.fresh
    BY <1>6 DEF SrvRestarts, WireTypes, Servers
  <2> QED BY <1>1, <2>1 DEF SessionKept, Opening, NotUsed
<1> QED BY <1>2, <1>3, <1>4, <1>5, <1>6 DEF Faults, SrvIgnores, Lose, Repeat

\* A thread goes on with its call.
LEMMA RequestGoesOn ==
  ASSUME WireInv, NEW t \in Threads, pc[t] \in Requesting, pc'[t] \in Requesting,
         \A u \in Threads : u # t => pc'[u] = "idle",
         state' = "connected", call'[t] = call[t], TxBase(t)' = TxBase(t),
         Line(call[t], TxBase(t)) =>
           \A c, b : c = call[t] /\ b = TxBase(t) => Line(c, b)'
  PROVE  RequestSide'
<1>1. Line(call[t], TxBase(t))
  BY DEF WireInv, RequestSide
<1>2. Line(call[t], TxBase(t))'
  BY <1>1
<1>3. \A u \in Threads : pc'[u] \in Requesting => u = t
  BY DEF Requesting
<1>4. ~Resting'
  BY DEF Resting, Requesting
<1> QED BY <1>2, <1>3, <1>4 DEF RequestSide

\* A call fails with the session.
LEMMA RequestFails ==
  ASSUME WireInv, NEW t \in Threads, pc[t] \in Requesting,
         \A u \in Threads : pc'[u] = "idle", state' = "disconnected",
         outcome' = [outcome EXCEPT ![call[t]] = "failed"],
         UNCHANGED <<toServer, srv, op, served>>
  PROVE  RequestSide'
<1>0. WireTypes
  BY DEF WireInv
<1>a. /\ call[t] \in Calls /\ TxBase(t) \in SeqNrs /\ Line(call[t], TxBase(t))
      /\ outcome'[call[t]] = "failed"
  BY <1>0, TxBaseType DEF WireInv, RequestSide, CallState, WireTypes
<1>1. PICK c \in Calls, b \in SeqNrs : Line(c, b) /\ outcome'[c] = "failed"
  BY <1>a
<1>2. UpKept /\ SessionKept
  BY <1>0, KeptUp, SessionKeeps
<1>3. Line(c, b)'
  BY <1>1, <1>2, LineKept
<1>4. \A u \in Threads : pc'[u] \notin Requesting
  BY DEF Requesting
<1> QED BY <1>1, <1>3, <1>4 DEF RequestSide, Resting

\* The requests of a thread at work.
LEMMA ThreadRequests ==
  ASSUME WireInv, Turns', NEW t \in Threads, Steps(t)
  PROVE  RequestSide'
<1> USE DEF txVars, rxVars, sockVars, callVars, flagVars
<1>0. /\ WireTypes /\ CallState /\ Turns /\ pc \in [Threads -> Labels] /\ AnswerSide
  BY DEF WireInv, Turns
<1>1. pc[t] \in Requesting /\ UNCHANGED <<srv, served, op>>
  BY DEF Steps, Transmit, SendWakes, SendGot, RecvWakes, RecvFinished, RecvGoesOn,
         RecvTimesOut, Check, Requesting
<1>2. state = "connected" /\ \A u \in Threads : u # t => pc[u] = "idle"
  BY <1>0, <1>1, AtWork
<1>3. \A u \in Threads : u # t => pc'[u] = "idle"
  BY <1>0, <1>2
     DEF Steps, Transmit, SendWakes, SendGot, RecvWakes, RecvFinished, RecvGoesOn,
         RecvTimesOut, Check, EndCall, Goto
<1>4. /\ call[t] \in Calls /\ TxBase(t) \in SeqNrs /\ chunk[t] \in Int /\ tx_seq_nr \in SeqNrs
      /\ tx_seq_nr \in Int /\ sent_seq_nr[t] \in Int /\ chunk[t] <= Chunks(op[call[t]])
  BY <1>0, <1>1, TxBaseType, SizeFacts, SeqInt DEF CallState, WireTypes
<1>5. ASSUME UNCHANGED toServer, Line(call[t], TxBase(t)), NEW c, NEW b,
             c = call[t], b = TxBase(t)
      PROVE  Line(c, b)'
  <2>1. UpKept /\ SessionKept
    BY <1>0, <1>1, <1>5, KeptUp, SessionKeeps
  <2> QED BY <1>1, <1>4, <1>5, <2>1, LineKept
<1>6. CASE Transmit(t)
  <2>1. /\ pc[t] = "send" /\ pc'[t] = "snd_wait" /\ UNCHANGED <<state, call, chunk>>
        /\ tx_seq_nr' = Plus(tx_seq_nr, 1)
    BY <1>0, <1>6 DEF Transmit, Goto, NextSeqNr
  <2>2. 1 - chunk[t] \in Int /\ chunk[t] - 1 \in Int /\ -chunk[t] \in Int /\ 1 \in Int
    BY <1>4
  <2>3. TxBase(t)' = TxBase(t)
    <3>1. Plus(Plus(tx_seq_nr, 1), -chunk[t]) = Plus(tx_seq_nr, 1 + (-chunk[t]))
      BY <1>4, <2>2, PlusPlus
    <3>2. 1 + (-chunk[t]) = 1 - chunk[t]
      BY <1>4
    <3>3. TxBase(t) = Plus(tx_seq_nr, 1 - chunk[t]) /\ TxBase(t)' = Plus(tx_seq_nr', -chunk[t])
      BY <2>1 DEF TxBase
    <3> QED BY <2>1, <3>1, <3>2, <3>3
  <2>4. Plus(TxBase(t), chunk[t] - 1) = tx_seq_nr
    <3>1. Plus(Plus(tx_seq_nr, 1 - chunk[t]), chunk[t] - 1)
            = Plus(tx_seq_nr, (1 - chunk[t]) + (chunk[t] - 1))
      BY <1>4, <2>2, PlusPlus
    <3>2. (1 - chunk[t]) + (chunk[t] - 1) = 0
      BY <1>4
    <3>3. TxBase(t) = Plus(tx_seq_nr, 1 - chunk[t])
      BY <2>1 DEF TxBase
    <3> QED BY <1>4, <3>1, <3>2, <3>3, PlusZero
  <2>5. Opening => chunk[t] = 1
    BY <1>0, <1>1 DEF AnswerSide, Unheard
  <2>6. PICK x : /\ UpSends(x) /\ x.kind = "data" /\ x.seq = tx_seq_nr
                 /\ x.load.call = call[t] /\ x.load.part = chunk[t]
                 /\ x.load.fin = (chunk[t] = Chunks(op[call[t]]))
    BY <1>0, <1>6, TransmitFacts
  <2>7. Own(x, call[t], TxBase(t)) /\ (Opening => x.load.part = 1)
    BY <1>4, <2>4, <2>5, <2>6 DEF Own
  <2>8. ASSUME Line(call[t], TxBase(t)), NEW c, NEW b, c = call[t], b = TxBase(t)
        PROVE  Line(c, b)'
    BY <1>1, <1>4, <2>6, <2>7, <2>8, LineSends
  <2> QED BY <1>1, <1>2, <1>3, <2>1, <2>3, <2>8, RequestGoesOn DEF Requesting
<1>7. CASE SendWakes(t) \/ RecvWakes(t)
  <2>1. /\ pc[t] # "send" /\ pc'[t] # "send" /\ pc'[t] \in Requesting
        /\ UNCHANGED <<state, call, chunk, tx_seq_nr, toServer>>
    BY <1>0, <1>7 DEF SendWakes, RecvWakes, Goto, Requesting
  <2>2. TxBase(t)' = TxBase(t)
    BY <2>1 DEF TxBase
  <2> QED BY <1>1, <1>2, <1>3, <1>5, <2>1, <2>2, RequestGoesOn
<1>8. CASE SendGot(t)
  <2>1. pc[t] = "snd_got" /\ UNCHANGED toServer /\ tx_seq_nr = Plus(sent_seq_nr[t], 1)
    BY <1>0, <1>1, <1>8 DEF SendGot, CallState
  <2>2. TxBase(t) = Plus(tx_seq_nr, -chunk[t])
    BY <2>1 DEF TxBase
  <2>3. CASE /\ pc'[t] = "send" /\ chunk'[t] = chunk[t] + 1
             /\ UNCHANGED <<call, state, tx_seq_nr>>
    <3>1. 1 - (chunk[t] + 1) = -chunk[t]
      BY <1>4
    <3>2. TxBase(t)' = TxBase(t)
      BY <2>2, <2>3, <3>1 DEF TxBase
    <3> QED BY <1>1, <1>2, <1>3, <1>5, <2>1, <2>3, <3>2, RequestGoesOn DEF Requesting
  <2>4. CASE pc'[t] = "recv" /\ UNCHANGED <<call, chunk, state, tx_seq_nr>>
    <3>1. TxBase(t)' = TxBase(t)
      BY <2>2, <2>4 DEF TxBase
    <3> QED BY <1>1, <1>2, <1>3, <1>5, <2>1, <2>4, <3>1, RequestGoesOn DEF Requesting
  <2>5. CASE pc'[t] = "send" /\ UNCHANGED <<call, chunk, state>> /\ tx_seq_nr' = sent_seq_nr[t]
    <3>1. -chunk[t] \in Int /\ 1 \in Int /\ 1 + (-chunk[t]) = 1 - chunk[t]
      BY <1>4
    <3>2. Plus(Plus(sent_seq_nr[t], 1), -chunk[t]) = Plus(sent_seq_nr[t], 1 + (-chunk[t]))
      BY <1>4, <3>1, PlusPlus
    <3>3. TxBase(t)' = Plus(sent_seq_nr[t], 1 - chunk[t])
      BY <2>5 DEF TxBase
    <3>4. TxBase(t)' = TxBase(t)
      BY <2>1, <2>2, <3>1, <3>2, <3>3
    <3> QED BY <1>1, <1>2, <1>3, <1>5, <2>1, <2>5, <3>4, RequestGoesOn DEF Requesting
  <2>6. CASE /\ pc'[t] = "idle" /\ state' = "disconnected"
             /\ outcome' = [outcome EXCEPT ![call[t]] = "failed"]
    BY <1>1, <1>3, <2>1, <2>6, RequestFails
  <2> QED BY <1>0, <1>8, <2>3, <2>4, <2>5, <2>6 DEF SendGot, EndCall, Goto, RetrySeqNr, WireTypes
<1>9. CASE RecvFinished(t) \/ RecvGoesOn(t)
  <2>1. /\ pc[t] = "rcv_got" /\ pc'[t] \in {"recv", "check"}
        /\ UNCHANGED <<state, call, chunk, tx_seq_nr>>
    BY <1>0, <1>9 DEF RecvFinished, RecvGoesOn, Goto
  <2>2. TxBase(t)' = TxBase(t)
    BY <2>1 DEF TxBase
  <2>3. PICK x : UpSends(x) /\ x.kind \in {"ack", "nack"}
    BY <1>0, <1>9, RecvSends DEF RecvFinished, RecvGoesOn
  <2>4. ASSUME Line(call[t], TxBase(t)), NEW c, NEW b, c = call[t], b = TxBase(t)
        PROVE  Line(c, b)'
    BY <1>1, <1>4, <2>3, <2>4, LineSends
  <2> QED BY <1>1, <1>2, <1>3, <2>1, <2>2, <2>4, RequestGoesOn DEF Requesting
<1>10. CASE RecvTimesOut(t)
  <2>1. /\ pc'[t] = "idle" /\ state' = "disconnected" /\ UNCHANGED toServer
        /\ outcome' = [outcome EXCEPT ![call[t]] = "failed"]
    BY <1>0, <1>10 DEF RecvTimesOut, GoesDown, EndCall, Goto
  <2> QED BY <1>1, <1>3, <2>1, RequestFails
<1>11. ASSUME NEW ok \in BOOLEAN, Check(t, ok) PROVE RequestSide'
  <2> DEFINE c == call[t]
             b == TxBase(t)
             C == Chunks(op[c])
  <2>1. /\ pc[t] = "check" /\ pc'[t] = "idle" /\ UNCHANGED <<toServer, state, tx_seq_nr>>
    BY <1>0, <1>11 DEF Check, EndCall, Goto
  <2>2. chunk[t] = C /\ b = Plus(tx_seq_nr, -C) /\ C \in 1..WriteChunks /\ WriteChunks \in Nat
    BY <1>0, <1>1, <2>1, ChunksRange, SizeFacts DEF CallState, TxBase
  <2>3. PICK v \in BOOLEAN, n \in 0..ReadParts : Received(t, v, n) /\ (Opening => n = 0)
    BY <1>0, <1>1 DEF AnswerSide
  <2>4. n = Size(c, v) /\ n > 0 /\ served[c] = 1
    <3>1. n = Size(c, v) /\ (n > 0 => served[c] = 1)
      BY <2>1, <2>3 DEF Received
    <3>2. Size(c, v) >= 1
      BY ChunksRange, SizeFacts DEF Size
    <3> QED BY <3>1, <3>2, SizeFacts
  <2>5. Line(c, b)
    BY <1>1 DEF WireInv, RequestSide
  <2> HIDE DEF b, C
  <2>6. ~Opening
    BY <2>3, <2>4
  <2>7. UNCHANGED <<Up, Asked, HasDisc>> /\ (Opening' <=> Opening) /\ (Synced' <=> Synced)
    BY <1>1, <2>1 DEF Up, Asked, HasDisc, Opening, Synced
  <2>8. ASSUME Synced
        PROVE  srv.expected = tx_seq_nr /\ \A m \in Asked : Past(m, tx_seq_nr)
    <3>0. C \in Int /\ -C \in Int /\ -C + C = 0
      BY <2>2
    <3>1. /\ srv.expected = Plus(b, C) /\ \A m \in Asked : m.load.call = c
          /\ \A m \in Asked : Own(m, c, b)
      <4>1. PICK a \in 0..C :
            /\ srv.expected = Plus(b, a)
            /\ served[c] = 1 <=> a = C
            /\ a > 0 => \A m \in Asked : m.load.call = c
        BY <2>5, <2>8 DEF Line, C
      <4>2. a = C /\ a > 0
        BY <2>2, <2>4, <4>1
      <4> QED BY <2>5, <2>8, <4>1, <4>2 DEF Line
    <3>2. Plus(Plus(tx_seq_nr, -C), C) = Plus(tx_seq_nr, -C + C)
      BY <1>4, <3>0, PlusPlus
    <3>3. srv.expected = tx_seq_nr
      BY <1>4, <2>2, <3>0, <3>1, <3>2, PlusZero
    <3>4. ASSUME NEW m \in Asked PROVE Past(m, tx_seq_nr)
      <4> DEFINE i == m.load.part - 1
                 e == C - i
      <4>1. m.load.part \in 1..WriteChunks
        BY <1>0, UpTypes, UpFields DEF Asked, Requests
      <4>2. m.seq = Plus(b, i) /\ m.load.part <= C
        BY <3>1 DEF Own, C
      <4>3. i \in Int /\ e \in 1..WriteChunks /\ -C + i = -e
        BY <2>2, <4>1, <4>2
      <4> HIDE DEF i, e
      <4>4. Plus(Plus(tx_seq_nr, -C), i) = Plus(tx_seq_nr, -C + i)
        BY <1>4, <3>0, <4>3, PlusPlus
      <4>5. m.seq = Plus(tx_seq_nr, -e)
        BY <2>2, <4>2, <4>3, <4>4
      <4> QED BY <4>3, <4>5 DEF Past
    <3> QED BY <3>3, <3>4
  <2>9. Rest'
    BY <1>1, <2>1, <2>6, <2>7, <2>8 DEF Rest, Past
  <2>10. \A u \in Threads : pc'[u] \notin Requesting
    BY <1>3, <2>1 DEF Requesting
  <2> QED BY <1>2, <2>1, <2>9, <2>10 DEF RequestSide
<1> QED BY <1>6, <1>7, <1>8, <1>9, <1>10, <1>11 DEF Steps

\* A call of the device begins between calls.
LEMMA UserBegins ==
  ASSUME WireInv, BdCalls \/ FileCalls
  PROVE  /\ Resting /\ User \in Threads
         /\ \E o \in Ops, c \in Calls : BeginCall(User, c, o)
         /\ UNCHANGED <<state, tx_seq_nr, rx_seq_nr_expected, event_flag, evf_bits, toServer,
                        toClient, srv, served>>
<1>0. Turns /\ Threads = {User, Dog}
  BY DEF WireInv, Threads
<1>1. PICK o \in Ops : UserCalls(o)
  BY DEF BdCalls, FileCalls, Ops
<1>2. pc[User] = "idle" /\ state = "connected"
  BY <1>1 DEF UserCalls, CanCall, Connected
<1>3. PICK c : BeginCall(User, c, o)
  BY <1>1 DEF UserCalls
<1>4. c \in Calls
  BY <1>3 DEF BeginCall, Unused
<1>5. (dev = "bd" /\ g_udpfs_registered) \/ dev = "files"
  BY DEF BdCalls, FileCalls
<1>6. pc[Dog] = "idle"
  BY <1>0, <1>2, <1>5 DEF Turns, Labels
<1>7. Resting
  BY <1>0, <1>2, <1>6 DEF Resting
<1> QED BY <1>0, <1>1, <1>3, <1>4, <1>7
        DEF UserCalls, sockVars, txVars, flagVars

\* The watchdog has found the server: a new session, and nothing under way.
LEMMA DogFinds ==
  ASSUME WireInv, DiscoverFinds
  PROVE  /\ state' = "connected" /\ Dog \in Threads /\ pc[User] = "idle" /\ pc[Dog] = "disc_got"
         /\ OnlyDisc /\ OnlyInform /\ NotUsed /\ event_flag \subseteq {"timeout", "info"}
         /\ evf_bits'[Dog] = {}
         /\ UNCHANGED <<tx_seq_nr, rx_seq_nr_expected, event_flag, toServer, toClient, srv,
                        served>>
         /\ \/ \E c \in Calls : BeginCall(Dog, c, "stat")
            \/ pc' = [pc EXCEPT ![Dog] = "idle"] /\ UNCHANGED <<rx_buffer, op, outcome>>
<1>0. WireTypes /\ Turns /\ Sessions /\ Dog \in Threads
  BY DEF WireInv, Threads
<1>1. /\ pc[Dog] = "disc_got" /\ "info" \in evf_bits[Dog] /\ state' = "connected"
      /\ UNCHANGED <<tx_seq_nr, rx_seq_nr_expected, event_flag, toServer, toClient, srv, served>>
  BY DEF DiscoverFinds, txVars
<1>2. state = "discovering" /\ pc[User] = "idle" /\ Searching
  BY <1>0, <1>1 DEF Turns, Discovering, Sessions
<1>3. OnlyDisc /\ OnlyInform /\ NotUsed /\ event_flag \subseteq {"timeout", "info"}
  BY <1>1, <1>2 DEF Searching
<1>4. evf_bits'[Dog] = {}
  BY <1>0 DEF DiscoverFinds, Forget, WireTypes
<1>5. CASE dev = "bd"
  <2>1. PICK c : BeginCall(Dog, c, "stat")
    BY <1>5 DEF DiscoverFinds
  <2>2. c \in Calls
    BY <2>1 DEF BeginCall, Unused
  <2> QED BY <1>0, <1>1, <1>2, <1>3, <1>4, <2>1, <2>2
<1>6. CASE dev # "bd"
  <2>1. pc' = [pc EXCEPT ![Dog] = "idle"] /\ UNCHANGED <<rx_buffer, op, outcome>>
    BY <1>6 DEF DiscoverFinds, Goto, callVars
  <2> QED BY <1>0, <1>1, <1>2, <1>3, <1>4, <2>1
<1> QED BY <1>5, <1>6

LEMMA CallerRequests ==
  ASSUME WireInv, Turns', BdCalls \/ FileCalls \/ DogSteps
  PROVE  RequestSide'
<1>0. /\ WireTypes /\ CallState /\ Turns /\ pc \in [Threads -> Labels]
      /\ Threads = {User, Dog} /\ RequestSide
      /\ tx_seq_nr \in SeqNrs /\ tx_seq_nr \in Int
  BY SeqInt DEF WireInv, Turns, Threads, WireTypes
<1>1. ASSUME NEW t \in Threads, NEW c \in Calls, NEW o \in Ops, BeginCall(t, c, o),
             \A u \in Threads : u # t => pc[u] = "idle",
             state' = "connected", Rest, UNCHANGED <<tx_seq_nr, toServer, srv, served>>
      PROVE  RequestSide'
  <2>1. /\ outcome[c] = "none" /\ served[c] = 0 /\ pc'[t] = "send" /\ call'[t] = c
        /\ chunk'[t] = 1 /\ \A u \in Threads : u # t => pc'[u] = pc[u]
    BY <1>0, <1>1, BeginFacts
  <2>2. Plus(tx_seq_nr, 0) = tx_seq_nr /\ 1 - 1 = 0
    BY <1>0, PlusZero
  <2>3. TxBase(t)' = tx_seq_nr
    BY <1>1, <2>1, <2>2 DEF TxBase
  <2>4. UNCHANGED <<Up, Asked, HasDisc>> /\ (Opening' <=> Opening) /\ (Synced' <=> Synced)
          /\ (NotUsed' <=> NotUsed)
    BY <1>1 DEF Up, Asked, HasDisc, Opening, Synced, NotUsed
  <2>5. \A m \in Asked : m.load.call # c
    BY <1>0, <2>1 DEF CallState
  <2>6. ASSUME NEW b, b = tx_seq_nr PROVE Line(c, b)'
    <3>1. Opening' => /\ HasDisc' => NotUsed'
                      /\ served'[c] = 0
                      /\ Asked' = {}
      BY <1>1, <2>1, <2>4 DEF Rest
    <3>2. ASSUME Synced'
          PROVE  /\ \A m \in Asked' : m.load.call # c /\ Past(m, b)'
                 /\ \A p \in Ordered(toServer)' :
                      p[1].kind = "data" /\ p[2].kind = "data" /\ p[1].load.call = c
                        => p[2].load.call = c
                 /\ \E a \in 0..Chunks(op'[c]) :
                      /\ srv'.expected = Plus(b, a)
                      /\ served'[c] = 1 <=> a = Chunks(op'[c])
                      /\ a > 0 => \A m \in Asked' : m.load.call = c
      <4>1. \A m \in Asked' : m.load.call # c /\ Past(m, b)'
        BY <2>4, <2>5, <2>6, <3>2, <1>1 DEF Rest, Past
      <4>2. \A p \in Ordered(toServer)' : p[1] \in Up
        BY <1>1 DEF Ordered, Up
      <4>3. \A p \in Ordered(toServer)' : p[1].kind = "data" => p[1].load.call # c
        BY <2>5, <4>2 DEF Asked
      <4>4. srv'.expected = Plus(b, 0) /\ 0 # Chunks(op'[c]) /\ served'[c] # 1 /\ 0 \in 0..Chunks(op'[c])
        BY <1>1, <2>1, <2>2, <2>4, <2>6, <3>2, ChunksRange, SizeFacts DEF Rest
      <4> QED BY <4>1, <4>3, <4>4
    <3> QED BY <3>1, <3>2 DEF Line
  <2>7. Line(call[t], TxBase(t))'
    BY <2>1, <2>3, <2>6
  <2>8. \A u \in Threads : pc'[u] \in Requesting => u = t
    BY <1>1, <2>1 DEF Requesting
  <2>9. ~Resting'
    BY <2>1 DEF Resting
  <2> QED BY <1>1, <2>7, <2>8, <2>9 DEF RequestSide
<1>2. CASE BdCalls \/ FileCalls
  <2>1. /\ Resting /\ User \in Threads
        /\ UNCHANGED <<state, tx_seq_nr, toServer, srv, served>>
    BY <1>2, UserBegins
  <2>2. PICK o \in Ops, c \in Calls : BeginCall(User, c, o)
    BY <1>2, UserBegins
  <2>3. Rest /\ state = "connected" /\ \A u \in Threads : pc[u] = "idle"
    BY <1>0, <2>1 DEF RequestSide, Resting
  <2> QED BY <1>1, <2>1, <2>2, <2>3
<1>3. CASE DiscoverFinds
  <2>1. /\ state' = "connected" /\ Dog \in Threads /\ pc[User] = "idle" /\ pc[Dog] = "disc_got"
        /\ OnlyDisc /\ NotUsed /\ UNCHANGED <<tx_seq_nr, toServer, srv, served>>
    BY <1>3, DogFinds
  <2>2. Asked = {} /\ ~Synced /\ Rest
    BY <2>1 DEF OnlyDisc, Asked, NotUsed, Synced, Rest
  <2>3. CASE \E c \in Calls : BeginCall(Dog, c, "stat")
    <3>1. "stat" \in Ops
      BY DEF Ops
    <3>2. \A u \in Threads : u # Dog => pc[u] = "idle"
      BY <1>0, <2>1
    <3> QED BY <1>1, <2>1, <2>2, <2>3, <3>1, <3>2
  <2>4. CASE pc' = [pc EXCEPT ![Dog] = "idle"]
    <3>1. \A u \in Threads : pc'[u] = "idle"
      BY <1>0, <2>1, <2>4
    <3>2. UpKept /\ SessionKept
      BY <1>0, <2>1, KeptUp, SessionKeeps
    <3>3. Rest'
      BY <2>1, <2>2, <3>2, RestKept
    <3> QED BY <2>1, <3>1, <3>3 DEF RequestSide, Requesting
  <2> QED BY <1>3, <2>3, <2>4, DogFinds
<1>4. CASE DogChecks \/ DiscoverWakes \/ DiscoverRetries
  <2>1. /\ pc'[Dog] \in {"disc_wait", "disc_got", "idle"} /\ pc'[User] = pc[User]
    BY <1>0, <1>4
       DEF DogChecks, DiscoverWakes, DiscoverRetries, Discover, Goto, User, Dog
  <2>2. pc[User] = "idle"
    BY <1>0, <1>4
       DEF DogChecks, DiscoverWakes, DiscoverRetries, Turns, Discovering, Connected
  <2>3. \A u \in Threads : pc'[u] \notin Requesting
    BY <1>0, <2>1, <2>2 DEF Requesting
  <2>4. state' # "connected"
    BY <1>0, <1>4
       DEF DogChecks, DiscoverWakes, DiscoverRetries, Turns, Discovering, sockVars
  <2>5. state' = "disconnected" => Asked' = {}
    <3> SUFFICES ASSUME state' = "disconnected" PROVE Asked' = {}
      OBVIOUS
    <3>1. DiscoverRetries /\ UNCHANGED toServer /\ pc[Dog] = "disc_got"
      BY <1>0, <1>4
         DEF DogChecks, DiscoverWakes, DiscoverRetries, Turns, Discovering, sockVars
    <3>2. OnlyDisc
      BY <1>0, <3>1 DEF WireInv, Sessions, Searching, Turns, Discovering
    <3> QED BY <3>1, <3>2 DEF OnlyDisc, Asked, Up
  <2> QED BY <2>3, <2>4, <2>5 DEF RequestSide, Resting
<1> QED BY <1>2, <1>3, <1>4 DEF DogSteps

LEMMA NextRequests == WireInv /\ Turns' /\ [Next]_vars => RequestSide'
<1> SUFFICES ASSUME WireInv, Turns', [Next]_vars PROVE RequestSide'
  OBVIOUS
<1> USE DEF txVars, rxVars, sockVars, callVars, flagVars, threadVars
<1>0. WireTypes /\ CallState /\ Sessions /\ RequestSide
  BY DEF WireInv
<1>1. CASE \/ Ist \/ SrvDiscovers \/ SrvHearsAck \/ SrvIgnores \/ SrvTimer \/ Faults
           \/ (\E due \in BOOLEAN : TimeoutCb(due)) \/ Rests \/ UNCHANGED vars
  <2>1. UNCHANGED <<pc, call, chunk, tx_seq_nr, op, outcome, served, state>>
    BY <1>1
       DEF Ist, IstInform, IstAck, IstData, SrvDiscovers, SrvHearsAck, SrvIgnores,
           SrvTimer, Faults, SrvRestarts, Lose, Repeat, TimeoutCb, Rests, vars
  <2>2. UpKept
    BY <1>0, <1>1, KeptUp
       DEF Ist, IstInform, IstAck, IstData, SrvDiscovers, SrvHearsAck, SrvIgnores,
           SrvTimer, Faults, SrvRestarts, Lose, Repeat, TimeoutCb, Rests, vars
  <2>3. \/ SrvDiscovers \/ SrvHearsAck \/ SrvIgnores \/ SrvTimer \/ Faults
        \/ UNCHANGED <<srv, toServer>>
    BY <1>1 DEF Ist, IstInform, IstAck, IstData, TimeoutCb, Rests, vars
  <2>4. SessionKept
    BY <1>0, <2>2, <2>3, SessionKeeps
  <2> QED BY <2>1, <2>2, <2>4, RequestsKept
<1>2. ASSUME NEW ok \in BOOLEAN, SrvTakes(ok) PROVE RequestSide'
  <2>1. UNCHANGED <<pc, call, chunk, tx_seq_nr, op, outcome, state>>
    BY <1>2 DEF SrvTakes
  <2>2. \A c \in Calls, b \in SeqNrs : Line(c, b) => Line(c, b)'
    BY <1>0, <1>2, LineTaken
  <2>3. Rest => Rest'
    BY <1>0, <1>2, RestTaken
  <2>4. ASSUME NEW t \in Threads, pc'[t] \in Requesting PROVE Line(call[t], TxBase(t))'
    <3>1. /\ call[t] \in Calls /\ TxBase(t) \in SeqNrs /\ Line(call[t], TxBase(t))
      BY <1>0, <2>1, <2>4, TxBaseType DEF RequestSide, CallState
    <3>2. PICK c \in Calls, b \in SeqNrs : c = call[t] /\ b = TxBase(t) /\ Line(c, b)
      BY <3>1
    <3>3. Line(c, b)'
      BY <2>2, <3>2
    <3>4. c = call'[t] /\ b = TxBase(t)'
      BY <2>1, <3>2 DEF TxBase
    <3> QED BY <3>3, <3>4
  <2>5. Resting' => Rest'
    BY <1>0, <2>1, <2>3 DEF RequestSide, Resting
  <2>6. ASSUME state' = "disconnected"
        PROVE  \E c \in Calls, b \in SeqNrs : Line(c, b)' /\ outcome'[c] = "failed"
    <3>1. Asked # {}
      BY <1>0, <1>2, TakesFacts
    <3> QED BY <1>0, <2>1, <2>2, <2>6, <3>1 DEF RequestSide
  <2> QED BY <2>4, <2>5, <2>6 DEF RequestSide
<1> QED BY <1>1, <1>2, ThreadRequests, CallerRequests DEF Next, Server

----------------------------------------------------------------------------
(* The answers under way: what a step leaves as it was *)

LEMMA InitAnswers == Init => AnswerSide
<1> SUFFICES ASSUME Init PROVE AnswerSide
  OBVIOUS
<1>1. state = "init" /\ \A t \in Threads : pc[t] = "idle"
  BY DEF Init
<1> QED BY <1>1 DEF AnswerSide, Requesting, Resting

LEMMA ReceivedStays ==
  ASSUME NEW t \in Threads, NEW ok \in BOOLEAN, NEW n \in 0..ReadParts, Received(t, ok, n),
         call'[t] = call[t], UNCHANGED <<op, rx_received, rx_hdr, rx_buffer>>,
         n > 0 => served'[call[t]] = served[call[t]],
         pc'[t] = "check" <=> pc[t] = "check",
         "fin" \in event_flag' \cup evf_bits'[t] => "fin" \in event_flag \cup evf_bits[t],
         (pc'[t] = "rcv_got" /\ "fin" \in evf_bits'[t]) \/ pc'[t] = "check"
           => "fin" \notin event_flag'
  PROVE  Received(t, ok, n)'
<1>1. Size(call[t], ok)' = Size(call[t], ok)
  BY DEF Size
<1> QED BY <1>1 DEF Received

LEMMA AnswersStay ==
  ASSUME NEW t \in Threads, NEW ok \in BOOLEAN, NEW n \in 0..ReadParts, Answers(t, ok, n),
         call'[t] = call[t], UNCHANGED <<op, rx_seq_nr_expected, served>>,
         \A m \in Down' : m \in Down \/ m.kind # "data",
         \A p \in Ordered(toClient)' : p \in Ordered(toClient) \/ p[2].kind # "data"
  PROVE  Answers(t, ok, n)'
<1>1. Size(call[t], ok)' = Size(call[t], ok)
  BY DEF Size
<1>2. \A k : Payload(call[t], k, ok)' = Payload(call[t], k, ok)
  BY DEF Payload
<1>3. Answered' \subseteq Answered
  BY DEF Answered
<1>4. ASSUME NEW m \in Answered'
      PROVE  IF m.load.call = call'[t]
             THEN /\ m.load = Payload(call[t], m.load.part, ok)'
                  /\ m.load.part <= Size(call[t], ok)'
                  /\ m.seq = Plus(rx_seq_nr_expected', m.load.part - 1 - n)
                  /\ served'[call'[t]] = 1
             ELSE n = 0 /\ \E e \in 1..ReadParts : m.seq = Plus(rx_seq_nr_expected', -e)
  BY <1>1, <1>2, <1>3, <1>4 DEF Answers
<1>5. \A p \in Ordered(toClient)' :
        p[1].kind = "data" /\ p[2].kind = "data" /\ p[1].load.call = call'[t]
          => p[2].load.call = call'[t]
  BY DEF Answers
<1> QED BY <1>4, <1>5 DEF Answers

LEMMA PendingStays ==
  ASSUME NEW t \in Threads, NEW ok \in BOOLEAN, NEW n \in 0..ReadParts, Pending(t, ok, n),
         call'[t] = call[t], UNCHANGED <<op, rx_seq_nr_expected, served>>,
         srv'.next = srv.next, srv'.pend = srv.pend,
         \A m \in Asked' : m \in Asked \/ Expected(m) = rx_seq_nr_expected
  PROVE  Pending(t, ok, n)'
<1>1. Size(call[t], ok)' = Size(call[t], ok)
  BY DEF Size
<1>2. \A k : Payload(call[t], k, ok)' = Payload(call[t], k, ok)
  BY DEF Payload
<1>3. Lag(srv.next)' = Lag(srv.next)
  BY DEF Lag
<1>4. \A m : Expected(m)' = Expected(m)
  BY DEF Expected
<1>5. PICK lag : lag = Lag(srv.next) /\ lag = Lag(srv.next)'
  BY <1>3
<1>6. /\ lag <= Len(srv.pend) /\ Len(srv.pend) <= ReadParts
      /\ served[call[t]] = 0 =>
           /\ lag = Len(srv.pend)
           /\ \A i \in DOMAIN srv.pend : srv.pend[i].call # call[t]
           /\ \A m \in Asked : m.load.call = call[t] => Expected(m) = rx_seq_nr_expected
      /\ served[call[t]] = 1 =>
           /\ lag <= n /\ Len(srv.pend) = Size(call[t], ok) - (n - lag)
           /\ \A i \in DOMAIN srv.pend : srv.pend[i] = Payload(call[t], n - lag + i, ok)
  BY <1>5 DEF Pending
<1>7. \A m \in Asked' : m.load.call = call[t] /\ served[call[t]] = 0
        => Expected(m)' = rx_seq_nr_expected
  BY <1>4, <1>6
<1>8. /\ lag <= Len(srv'.pend) /\ Len(srv'.pend) <= ReadParts
      /\ served'[call'[t]] = 0 =>
           /\ lag = Len(srv'.pend)
           /\ \A i \in DOMAIN srv'.pend : srv'.pend[i].call # call'[t]
           /\ \A m \in Asked' : m.load.call = call'[t] => Expected(m)' = rx_seq_nr_expected'
      /\ served'[call'[t]] = 1 =>
           /\ lag <= n /\ Len(srv'.pend) = Size(call[t], ok)' - (n - lag)
           /\ \A i \in DOMAIN srv'.pend : srv'.pend[i] = Payload(call[t], n - lag + i, ok)'
  BY <1>1, <1>2, <1>6, <1>7
<1> QED BY <1>5, <1>8 DEF Pending

LEMMA HeardStays ==
  ASSUME Heard, Up' \subseteq Up, Ordered(toServer)' \subseteq Ordered(toServer),
         UNCHANGED rx_seq_nr_expected, srv'.next = srv.next
  PROVE  Heard'
<1>1. \A n : Lag(n)' = Lag(n)
  BY DEF Lag
<1>2. Lag(srv.next)' = Lag(srv.next)
  BY DEF Lag
<1>3. \A m : Lag(Expected(m))' = Lag(Expected(m))
  BY DEF Lag, Expected
<1> QED BY <1>1, <1>2, <1>3 DEF Heard

\* The client sends what it expects.
LEMMA HeardSends ==
  ASSUME WireTypes, Heard, Synced, NEW x, UpSends(x), Expected(x) = rx_seq_nr_expected,
         UNCHANGED rx_seq_nr_expected, srv'.next = srv.next
  PROVE  Heard'
<1>1. \A m : Lag(Expected(m))' = Lag(Expected(m))
  BY DEF Lag, Expected
<1>2. Lag(srv.next)' = Lag(srv.next)
  BY DEF Lag
<1>3. Lag(rx_seq_nr_expected) = 0
  <2>1. rx_seq_nr_expected \in Int /\ SeqSpace \in Nat \ {0} /\ rx_seq_nr_expected - rx_seq_nr_expected = 0
    BY SeqInt, SizesAssumption DEF WireTypes
  <2> QED BY <2>1 DEF Lag
<1>4. Lag(srv.next) \in Nat
  BY LagFacts, SizeFacts DEF WireTypes, Servers
<1>5. \A m \in Up : Lag(Expected(m)) \in Nat
  <2> SUFFICES ASSUME NEW m \in Up PROVE Lag(Expected(m)) \in Nat
    OBVIOUS
  <2>1. m.kind # "disc" /\ m \in UpPackets
    BY UpTypes DEF Synced, HasDisc
  <2>2. Expected(m) \in SeqNrs
    BY <2>1, UpFields
  <2> QED BY <2>2, LagFacts, SizeFacts DEF WireTypes
<1>6. \A m \in Up' : Lag(Expected(m)) <= Lag(srv.next)
  BY <1>3, <1>4 DEF UpSends, Heard
<1>7. \A p \in Ordered(toServer)' : Lag(Expected(p[2])) <= Lag(Expected(p[1]))
  BY <1>3, <1>5 DEF UpSends, Heard
<1> QED BY <1>1, <1>2, <1>6, <1>7 DEF Heard

LEMMA UnheardStays ==
  ASSUME NEW t \in Threads, Unheard(t), OnlyInform', chunk'[t] = chunk[t],
         pc'[t] \in {"send", "snd_wait", "snd_got"}, UNCHANGED rx_seq_nr_expected,
         \A m \in Up' : m \in Up \/ (m.kind = "data" /\ Expected(m) = rx_seq_nr_expected),
         "ack" \in event_flag' \cup evf_bits'[t] => "ack" \in event_flag \cup evf_bits[t]
  PROVE  Unheard(t)'
<1>1. \A m : Expected(m)' = Expected(m)
  BY DEF Expected
<1> QED BY <1>1 DEF Unheard, Asked

\* Steps that leave the client alone, but for the flag.
LEMMA AnswersKept ==
  ASSUME WireInv,
         UNCHANGED <<rx_buffer, rx_received, rx_seq_nr_expected, rx_hdr, pc, call, chunk,
                     evf_bits, op, served, state>>,
         Up' \subseteq Up, Ordered(toServer)' \subseteq Ordered(toServer),
         \A m \in Down' : m \in Down \/ m.kind = "inform",
         \A p \in Ordered(toClient)' : p \in Ordered(toClient) \/ p[2].kind = "inform",
         Opening' => Opening,
         Synced' => Synced /\ srv'.next = srv.next /\ srv'.pend = srv.pend,
         state = "connected" /\ "fin" \in event_flag' => "fin" \in event_flag,
         state = "connected" /\ Opening /\ "ack" \in event_flag' => "ack" \in event_flag
  PROVE  AnswerSide'
<1>0. AnswerSide /\ Turns
  BY DEF WireInv
<1>1. Asked' \subseteq Asked /\ Answered' \subseteq Answered /\ (OnlyInform => OnlyInform')
  BY DEF Asked, Answered, OnlyInform
<1>2. ASSUME NEW t \in Threads, pc[t] \in Requesting
      PROVE  /\ \E ok \in BOOLEAN, n \in 0..ReadParts :
                  /\ Received(t, ok, n)' /\ Answers(t, ok, n)'
                  /\ Synced' => Pending(t, ok, n)'
                  /\ Opening' => n = 0
             /\ Synced' => Heard'
             /\ Opening' => Unheard(t)'
  <2>0. state = "connected"
    BY <1>0, <1>2, AtWork
  <2>1. PICK ok \in BOOLEAN, n \in 0..ReadParts :
               /\ Received(t, ok, n) /\ Answers(t, ok, n)
               /\ Synced => Pending(t, ok, n)
               /\ Opening => n = 0
    BY <1>0, <1>2 DEF AnswerSide
  <2>2. Received(t, ok, n)'
    <3>1. (pc[t] = "rcv_got" /\ "fin" \in evf_bits[t]) \/ pc[t] = "check" => "fin" \notin event_flag
      BY <2>1 DEF Received
    <3> QED BY <2>0, <2>1, <3>1, ReceivedStays
  <2>3. Answers(t, ok, n)'
    BY <2>1, AnswersStay
  <2>4. Synced' => Pending(t, ok, n)'
    BY <1>1, <2>1, PendingStays
  <2>5. Synced' => Heard'
    BY <1>0, <1>2, HeardStays DEF AnswerSide
  <2>6. ASSUME Opening' PROVE Unheard(t)'
    <3>1. Unheard(t) /\ OnlyInform
      BY <1>0, <1>2, <2>6 DEF AnswerSide, Unheard
    <3>2. pc'[t] \in {"send", "snd_wait", "snd_got"}
      BY <3>1 DEF Unheard
    <3> QED BY <1>1, <2>0, <2>6, <3>1, <3>2, UnheardStays
  <2> QED BY <2>1, <2>2, <2>3, <2>4, <2>5, <2>6
<1>3. ASSUME Resting
      PROVE  /\ \A m \in Answered' :
                  /\ rx_buffer' = NoCall
                  /\ \E e \in 1..ReadParts : m.seq = Plus(rx_seq_nr_expected', -e)
             /\ "fin" \notin event_flag'
             /\ Opening' => OnlyInform' /\ "ack" \notin event_flag'
             /\ Opening' => \A m \in Up' : m.kind = "disc"
             /\ Synced' => /\ rx_buffer' = NoCall /\ Heard'
                           /\ Lag(srv.next)' = Len(srv'.pend) /\ Len(srv'.pend) <= ReadParts
  <2>0. state = "connected"
    BY <1>3 DEF Resting
  <2>1. \A m \in Answered' :
                  /\ rx_buffer' = NoCall
                  /\ \E e \in 1..ReadParts : m.seq = Plus(rx_seq_nr_expected', -e)
    BY <1>0, <1>1, <1>3 DEF AnswerSide
  <2>2. /\ "fin" \notin event_flag'
        /\ Opening' => OnlyInform' /\ "ack" \notin event_flag'
        /\ Opening' => \A m \in Up' : m.kind = "disc"
    BY <1>0, <1>1, <1>3, <2>0 DEF AnswerSide
  <2>3. ASSUME Synced'
        PROVE  /\ rx_buffer' = NoCall /\ Heard'
               /\ Lag(srv.next)' = Len(srv'.pend) /\ Len(srv'.pend) <= ReadParts
    <3>1. Lag(srv.next)' = Lag(srv.next)
      BY <2>3 DEF Lag
    <3>2. Heard'
      BY <1>0, <1>3, <2>3, HeardStays DEF AnswerSide
    <3> QED BY <1>0, <1>3, <2>3, <3>1, <3>2 DEF AnswerSide
  <2> QED BY <2>1, <2>2, <2>3
<1>4. Resting' <=> Resting
  BY DEF Resting
<1> QED BY <1>2, <1>3, <1>4 DEF AnswerSide

----------------------------------------------------------------------------
(* The answers under way: steps of the client *)

\* A thread goes on with its call.
LEMMA AnswerGoesOn ==
  ASSUME NEW t \in Threads, pc'[t] \in Requesting, \A u \in Threads : u # t => pc'[u] = "idle",
         NEW ok \in BOOLEAN, NEW n \in 0..ReadParts,
         Received(t, ok, n)', Answers(t, ok, n)',
         Synced' => Pending(t, ok, n)' /\ Heard',
         Opening' => n = 0 /\ Unheard(t)'
  PROVE  AnswerSide'
<1>1. \A u \in Threads : pc'[u] \in Requesting => u = t
  BY DEF Requesting
<1>2. ~Resting'
  BY DEF Resting, Requesting
<1> QED BY <1>1, <1>2 DEF AnswerSide

LEMMA ThreadAnswers ==
  ASSUME WireInv, Turns', NEW t \in Threads, Steps(t)
  PROVE  AnswerSide'
<1> USE DEF txVars, rxVars, sockVars, callVars, flagVars
<1>0. WireTypes /\ CallState /\ Turns /\ pc \in [Threads -> Labels] /\ AnswerSide
  BY DEF WireInv, Turns
<1>1. pc[t] \in Requesting /\ UNCHANGED <<srv, served, op, toClient, rx_seq_nr_expected, rx_received>>
  BY DEF Steps, Transmit, SendWakes, SendGot, RecvWakes, RecvFinished, RecvGoesOn,
         RecvTimesOut, Check, Requesting
<1>2. state = "connected" /\ \A u \in Threads : u # t => pc[u] = "idle"
  BY <1>0, <1>1, AtWork
<1>3. \A u \in Threads : u # t => pc'[u] = "idle"
  BY <1>0, <1>2
     DEF Steps, Transmit, SendWakes, SendGot, RecvWakes, RecvFinished, RecvGoesOn,
         RecvTimesOut, Check, EndCall, Goto
<1>4. PICK ok \in BOOLEAN, n \in 0..ReadParts :
               /\ Received(t, ok, n) /\ Answers(t, ok, n)
               /\ Synced => Pending(t, ok, n)
               /\ Opening => n = 0
  BY <1>0, <1>1 DEF AnswerSide
<1>5. (Synced => Heard) /\ (Opening => Unheard(t) /\ OnlyInform)
  BY <1>0, <1>1 DEF AnswerSide, Unheard
<1>6. Down' = Down /\ Ordered(toClient)' = Ordered(toClient) /\ (OnlyInform' <=> OnlyInform)
  BY <1>1 DEF Down, OnlyInform
<1>7. call'[t] = call[t] => Answers(t, ok, n)'
  BY <1>1, <1>4, <1>6, AnswersStay
<1>8. /\ \A m \in Up : m.kind = "data" <=> m \in Asked
      /\ \A m \in Up' : m.kind = "data" <=> m \in Asked'
  BY DEF Asked
\* Nothing is sent.
<1>9. ASSUME UNCHANGED toServer
      PROVE  /\ (Opening' <=> Opening) /\ (Synced' <=> Synced) /\ Up' = Up /\ Asked' = Asked
             /\ Synced' => Heard'
             /\ Synced' /\ call'[t] = call[t] => Pending(t, ok, n)'
  <2>1. /\ (Opening' <=> Opening) /\ (Synced' <=> Synced) /\ Up' = Up /\ Asked' = Asked
        /\ Ordered(toServer)' = Ordered(toServer)
    BY <1>1, <1>9 DEF Opening, Synced, HasDisc, Up, Asked
  <2>2. Synced' => Heard'
    BY <1>1, <1>5, <2>1, HeardStays
  <2>3. Synced' /\ call'[t] = call[t] => Pending(t, ok, n)'
    BY <1>1, <1>4, <2>1, PendingStays
  <2> QED BY <2>1, <2>2, <2>3
\* Something is sent.
<1>10. ASSUME NEW x, UpSends(x), x.kind # "disc", Expected(x) = rx_seq_nr_expected
       PROVE  /\ (Opening' <=> Opening) /\ (Synced' <=> Synced)
              /\ Synced' => Heard'
              /\ Synced' /\ call'[t] = call[t] => Pending(t, ok, n)'
  <2>1. (Opening' <=> Opening) /\ (Synced' <=> Synced)
    BY <1>1, <1>10 DEF UpSends, Opening, Synced, HasDisc
  <2>2. Synced' => Heard'
    BY <1>0, <1>1, <1>5, <1>10, <2>1, HeardSends
  <2>3. \A m \in Asked' : m \in Asked \/ Expected(m) = rx_seq_nr_expected
    BY <1>10 DEF UpSends, Asked
  <2>4. Synced' /\ call'[t] = call[t] => Pending(t, ok, n)'
    BY <1>1, <1>4, <2>1, <2>3, PendingStays
  <2> QED BY <2>1, <2>2, <2>4
<1>11. evf_bits \in [Threads -> SUBSET Bits] /\ n \in Int
  BY <1>0, SizeFacts DEF WireTypes
<1>12. CASE Transmit(t)
  <2>1. /\ pc[t] = "send" /\ pc'[t] = "snd_wait" /\ event_flag' \subseteq event_flag
        /\ UNCHANGED <<call, chunk, rx_hdr, rx_buffer, evf_bits>>
    BY <1>0, <1>12 DEF Transmit, Goto
  <2>2. PICK x : UpSends(x) /\ x.kind = "data" /\ Expected(x) = rx_seq_nr_expected
    BY <1>0, <1>12, TransmitFacts
  <2>3. Received(t, ok, n)'
    BY <1>1, <1>4, <2>1, ReceivedStays
  <2>4. /\ (Opening' <=> Opening) /\ (Synced' => Heard' /\ Pending(t, ok, n)')
    BY <1>10, <2>1, <2>2
  <2>5. ASSUME Opening' PROVE Unheard(t)'
    <3>1. Unheard(t) /\ OnlyInform'
      BY <1>5, <1>6, <2>4, <2>5
    <3>2. \A m \in Up' : m \in Up \/ (m.kind = "data" /\ Expected(m) = rx_seq_nr_expected)
      BY <2>2 DEF UpSends
    <3> QED BY <1>1, <2>1, <3>1, <3>2, UnheardStays
  <2> QED BY <1>3, <1>4, <1>7, <2>1, <2>3, <2>4, <2>5, AnswerGoesOn DEF Requesting
<1>13. CASE SendWakes(t)
  <2>1. /\ pc[t] = "snd_wait" /\ pc'[t] = "snd_got" /\ evf_bits'[t] = event_flag
        /\ UNCHANGED <<call, chunk, rx_hdr, rx_buffer, event_flag, toServer>>
    BY <1>0, <1>11, <1>13 DEF SendWakes, Goto
  <2>2. Received(t, ok, n)'
    BY <1>1, <1>4, <2>1, ReceivedStays
  <2>3. ASSUME Opening' PROVE Unheard(t)'
    <3>1. Unheard(t) /\ OnlyInform' /\ Up' = Up
      BY <1>5, <1>6, <1>9, <2>1, <2>3
    <3> QED BY <1>1, <2>1, <3>1, UnheardStays
  <2> QED BY <1>3, <1>4, <1>7, <1>9, <2>1, <2>2, <2>3, AnswerGoesOn DEF Requesting
<1>14. CASE SendGot(t)
  <2>1. /\ pc[t] = "snd_got" /\ event_flag' \subseteq event_flag /\ evf_bits'[t] = {}
        /\ UNCHANGED <<rx_hdr, rx_buffer, toServer>>
    BY <1>0, <1>11, <1>14 DEF SendGot, Forget
  <2>2. CASE /\ pc'[t] \in {"send", "recv"} /\ UNCHANGED call
             /\ "ack" \notin evf_bits[t] => pc'[t] = "send" /\ UNCHANGED chunk
    <3>1. Received(t, ok, n)'
      BY <1>1, <1>4, <2>1, <2>2, ReceivedStays
    <3>2. ASSUME Opening' PROVE Unheard(t)'
      <4>1. Unheard(t) /\ OnlyInform' /\ Up' = Up
        BY <1>5, <1>6, <1>9, <2>1, <3>2
      <4>2. pc'[t] = "send" /\ UNCHANGED chunk
        BY <2>2, <4>1 DEF Unheard
      <4> QED BY <1>1, <2>1, <4>1, <4>2, UnheardStays
    <3> QED BY <1>3, <1>4, <1>7, <1>9, <2>1, <2>2, <3>1, <3>2, AnswerGoesOn DEF Requesting
  <2>3. CASE pc'[t] = "idle" /\ state' = "disconnected"
    BY <1>3, <2>3 DEF AnswerSide, Resting, Requesting
  <2> QED BY <1>0, <1>14, <2>2, <2>3 DEF SendGot, EndCall, Goto, WireTypes
<1>15. CASE RecvWakes(t)
  <2>1. /\ pc[t] = "recv" /\ pc'[t] = "rcv_got" /\ evf_bits'[t] = event_flag /\ event_flag' = {}
        /\ UNCHANGED <<call, chunk, rx_hdr, rx_buffer, toServer>>
    BY <1>0, <1>11, <1>15 DEF RecvWakes, Goto, Cleared
  <2>2. Received(t, ok, n)'
    BY <1>1, <1>4, <2>1, ReceivedStays
  <2>3. ~Opening
    BY <1>5, <2>1 DEF Unheard
  <2> QED BY <1>3, <1>4, <1>7, <1>9, <2>1, <2>2, <2>3, AnswerGoesOn DEF Requesting
<1>16. CASE RecvFinished(t)
  <2>1. /\ pc[t] = "rcv_got" /\ pc'[t] = "check" /\ "fin" \in evf_bits[t] /\ evf_bits'[t] = {}
        /\ UNCHANGED <<call, chunk, event_flag>> /\ rx_buffer' = NoCall
        /\ rx_hdr' = [rx_hdr EXCEPT !.buf = NoCall]
    BY <1>0, <1>11, <1>16 DEF RecvFinished, Goto, Forget, Unregister
  <2>2. PICK x : UpSends(x) /\ x.kind \in {"ack", "nack"} /\ Expected(x) = rx_seq_nr_expected
    BY <1>0, <1>16, RecvSends DEF RecvFinished
  <2>3. Received(t, ok, n)'
    <3>1. Size(call[t], ok)' = Size(call[t], ok) /\ call'[t] = call[t]
      BY <1>1, <2>1 DEF Size
    <3>2. rx_hdr'.val = rx_hdr.val /\ DOMAIN rx_hdr' = DOMAIN rx_hdr
      BY <2>1
    <3> QED BY <1>1, <1>4, <2>1, <3>1, <3>2 DEF Received
  <2>4. ~Opening
    BY <1>5, <2>1 DEF Unheard
  <2>5. /\ (Opening' <=> Opening) /\ (Synced' => Heard' /\ Pending(t, ok, n)')
    BY <1>10, <2>1, <2>2
  <2> QED BY <1>3, <1>4, <1>7, <2>1, <2>3, <2>4, <2>5, AnswerGoesOn DEF Requesting
<1>17. CASE RecvGoesOn(t)
  <2>1. /\ pc[t] = "rcv_got" /\ pc'[t] = "recv" /\ evf_bits'[t] = {}
        /\ UNCHANGED <<call, chunk, event_flag, rx_hdr, rx_buffer>>
    BY <1>0, <1>11, <1>17 DEF RecvGoesOn, Goto, Forget
  <2>2. PICK x : UpSends(x) /\ x.kind \in {"ack", "nack"} /\ Expected(x) = rx_seq_nr_expected
    BY <1>0, <1>17, RecvSends DEF RecvGoesOn
  <2>3. Received(t, ok, n)'
    BY <1>1, <1>4, <2>1, ReceivedStays
  <2>4. ~Opening
    BY <1>5, <2>1 DEF Unheard
  <2>5. /\ (Opening' <=> Opening) /\ (Synced' => Heard' /\ Pending(t, ok, n)')
    BY <1>10, <2>1, <2>2
  <2> QED BY <1>3, <1>4, <1>7, <2>1, <2>3, <2>4, <2>5, AnswerGoesOn DEF Requesting
<1>18. CASE RecvTimesOut(t)
  <2>1. pc'[t] = "idle" /\ state' = "disconnected"
    BY <1>0, <1>18 DEF RecvTimesOut, GoesDown, EndCall, Goto
  <2> QED BY <1>3, <2>1 DEF AnswerSide, Resting, Requesting
<1>19. ASSUME NEW v \in BOOLEAN, Check(t, v) PROVE AnswerSide'
  <2> DEFINE c == call[t]
  <2>1. /\ pc[t] = "check" /\ pc'[t] = "idle"
        /\ UNCHANGED <<toServer, state, event_flag, rx_buffer>>
    BY <1>0, <1>19 DEF Check, EndCall, Goto
  <2>2. n = Size(c, ok) /\ rx_buffer = NoCall /\ "fin" \notin event_flag /\ (n > 0 => served[c] = 1)
    BY <1>4, <2>1 DEF Received
  <2>3. Size(c, ok) \in 1..ReadParts /\ n > 0 /\ served[c] = 1 /\ rx_seq_nr_expected \in SeqNrs
    <3>1. Size(c, ok) \in 1..ReadParts
      BY ChunksRange, SizeFacts DEF Size
    <3> QED BY <1>0, <2>2, <3>1, SizeFacts DEF WireTypes
  <2>4. ~Opening /\ ~Opening'
    BY <1>4, <1>9, <2>1, <2>3
  <2>5. \A m \in Answered' : \E e \in 1..ReadParts : m.seq = Plus(rx_seq_nr_expected', -e)
    <3> SUFFICES ASSUME NEW m \in Answered'
                 PROVE  \E e \in 1..ReadParts : m.seq = Plus(rx_seq_nr_expected', -e)
      OBVIOUS
    <3>1. m \in Answered
      BY <1>6 DEF Answered
    <3>2. /\ m.load.call = c /\ m.load.part <= n
          /\ m.seq = Plus(rx_seq_nr_expected, m.load.part - 1 - n)
      BY <1>4, <2>2, <2>3, <3>1 DEF Answers
    <3>3. m.load.part \in 1..ReadParts
      BY <1>0, <3>1, DownTypes, DownFields DEF Answered, Payloads
    <3> DEFINE e == n + 1 - m.load.part
    <3>4. e \in 1..ReadParts /\ m.load.part - 1 - n = -e
      BY <1>11, <3>2, <3>3, SizeFacts
    <3> HIDE DEF e
    <3> QED BY <1>1, <3>2, <3>4
  <2>6. ASSUME Synced'
        PROVE  /\ Heard' /\ Lag(srv.next)' = Len(srv'.pend) /\ Len(srv'.pend) <= ReadParts
    <3>1. Heard' /\ Pending(t, ok, n)
      BY <1>4, <1>9, <2>1, <2>6
    <3>2. Lag(srv.next)' = Lag(srv.next)
      BY <1>1 DEF Lag
    <3>3. Lag(srv.next) \in Int
      BY <1>0, LagFacts, SizeFacts DEF WireTypes, Servers
    <3>4. Len(srv.pend) = Size(c, ok) - (n - Lag(srv.next)) /\ Len(srv.pend) <= ReadParts
      BY <2>3, <3>1 DEF Pending
    <3>5. Lag(srv.next) = Len(srv.pend)
      BY <1>11, <2>2, <2>3, <3>3, <3>4
    <3> QED BY <1>1, <3>1, <3>2, <3>4, <3>5
  <2>7. \A u \in Threads : pc'[u] \notin Requesting
    BY <1>3, <2>1 DEF Requesting
  <2> QED BY <2>1, <2>2, <2>4, <2>5, <2>6, <2>7 DEF AnswerSide
<1> QED BY <1>12, <1>13, <1>14, <1>15, <1>16, <1>17, <1>18, <1>19 DEF Steps

\* A call begins: nothing of its answer is there.
LEMMA AnswerBegins ==
  ASSUME WireInv, NEW t \in Threads, NEW c \in Calls, NEW o \in Ops, BeginCall(t, c, o),
         \A u \in Threads : u # t => pc[u] = "idle",
         evf_bits'[t] = {},
         UNCHANGED <<rx_seq_nr_expected, event_flag, toServer, toClient, srv, served>>,
         \A m \in Answered : \E e \in 1..ReadParts : m.seq = Plus(rx_seq_nr_expected, -e),
         "fin" \notin event_flag,
         Opening => OnlyInform /\ OnlyDisc /\ "ack" \notin event_flag,
         Synced => /\ Heard /\ Lag(srv.next) = Len(srv.pend) /\ Len(srv.pend) <= ReadParts
  PROVE  AnswerSide'
<1>0. WireTypes /\ CallState /\ pc \in [Threads -> Labels]
  BY DEF WireInv, Turns
<1>1. /\ outcome[c] = "none" /\ served[c] = 0 /\ pc'[t] = "send" /\ call'[t] = c
      /\ chunk'[t] = 1 /\ op'[c] = o /\ rx_buffer' = c /\ rx_received' = <<>>
      /\ o = "read" => rx_hdr' = [buf |-> c, got |-> FALSE, val |-> NoHdr]
      /\ \A u \in Threads : u # t => pc'[u] = pc[u]
  BY <1>0, BeginFacts
<1>2. /\ Up' = Up /\ Down' = Down /\ Asked' = Asked /\ Answered' = Answered
      /\ (Opening' <=> Opening) /\ (Synced' <=> Synced) /\ (OnlyInform' <=> OnlyInform)
      /\ Ordered(toServer)' = Ordered(toServer) /\ Ordered(toClient)' = Ordered(toClient)
  BY DEF Up, Down, Asked, Answered, Opening, Synced, HasDisc, OnlyInform
<1>3. (\A m \in Asked : m.load.call # c) /\ (\A m \in Answered : m.load.call # c)
  BY <1>0, <1>1 DEF CallState
<1>4. \A i \in DOMAIN srv.pend : srv.pend[i].call # c
  BY <1>0, <1>1 DEF CallState
<1>5. Size(c, TRUE)' \in 1..ReadParts /\ 0 \in 0..ReadParts
  BY ChunksRange, SizeFacts DEF Size
<1>6. Received(t, TRUE, 0)'
  <2>1. 0 <= Size(call[t], TRUE)'
    BY ChunksRange, SizeFacts DEF Size
  <2>2. <<>> = [i \in 1..0 |-> [call |-> c, part |-> i, ok |-> TRUE]]
    <3> DEFINE f == [i \in 1..0 |-> [call |-> c, part |-> i, ok |-> TRUE]]
    <3>1. f \in Seq({[call |-> c, part |-> i, ok |-> TRUE] : i \in 1..0}) /\ Len(f) = 0
      OBVIOUS
    <3> HIDE DEF f
    <3>2. f = <<>>
      BY <3>1
    <3> QED BY <3>2 DEF f
  <2>3. rx_received' = [i \in 1..(IF op'[call'[t]] = "read" /\ ~TRUE THEN 0 ELSE 0) |->
                            [call |-> call'[t], part |-> i, ok |-> TRUE]]
    BY <1>1, <2>2
  <2>4. ~(0 > 0) /\ (0 > 0) = FALSE
    OBVIOUS
  <2>5. op'[call'[t]] = "read" =>
          /\ DOMAIN rx_hdr' = {"buf", "got", "val"}
          /\ rx_hdr'.val = IF 0 = 0 THEN NoHdr ELSE [call |-> call'[t], ok |-> TRUE]
          /\ pc'[t] # "check" => rx_hdr'.buf = call'[t] /\ rx_hdr'.got = (0 > 0)
    <3>1. o = "read" => rx_hdr'.val = NoHdr /\ rx_hdr'.buf = c /\ rx_hdr'.got = FALSE
                          /\ DOMAIN rx_hdr' = {"buf", "got", "val"}
      BY <1>1
    <3>2. o = "read" => rx_hdr'.got = (0 > 0)
      BY <2>4, <3>1, Zenon
    <3> QED BY <1>1, <3>1, <3>2
  <2>6. /\ IF pc'[t] = "check" THEN rx_buffer' = NoCall ELSE rx_buffer' = call'[t]
        /\ pc'[t] \notin {"check", "rcv_got"} /\ "fin" \notin event_flag' \cup evf_bits'[t]
    BY <1>1
  <2> QED BY <2>1, <2>3, <2>4, <2>5, <2>6 DEF Received
<1>7. Answers(t, TRUE, 0)'
  <2>1. \A p \in Ordered(toClient)' : p[1] \in Down
    BY <1>2 DEF Ordered, Down
  <2>2. \A p \in Ordered(toClient)' : p[1].kind = "data" => p[1].load.call # c
    BY <1>3, <2>1 DEF Answered
  <2>3. \A m \in Answered' : m.load.call # c /\ \E e \in 1..ReadParts : m.seq = Plus(rx_seq_nr_expected', -e)
    BY <1>2, <1>3
  <2> QED BY <1>1, <2>2, <2>3 DEF Answers
<1>8. ASSUME Synced' PROVE Pending(t, TRUE, 0)'
  <2>1. Lag(srv.next)' = Lag(srv.next)
    BY DEF Lag
  <2>2. Len(srv.pend) \in Nat
    BY <1>0 DEF WireTypes, Servers
  <2>3. PICK lag : lag = Lag(srv.next)' /\ lag = Len(srv.pend) /\ lag \in Nat
    BY <1>2, <1>8, <2>1, <2>2
  <2>4. \A m \in Asked' : m.load.call # c
    BY <1>2, <1>3
  <2>5. lag <= Len(srv'.pend) /\ Len(srv'.pend) <= ReadParts
    BY <1>2, <1>8, <2>3
  <2>6. served'[call'[t]] = 0 /\ served'[call'[t]] # 1
    BY <1>1
  <2>7. \A i \in DOMAIN srv'.pend : srv'.pend[i].call # call'[t]
    BY <1>1, <1>4
  <2> QED BY <1>1, <2>3, <2>4, <2>5, <2>6, <2>7 DEF Pending
<1>9. Synced' => Heard'
  BY <1>2, HeardStays
<1>10. ASSUME Opening' PROVE Unheard(t)'
  BY <1>1, <1>2, <1>10 DEF Unheard, OnlyDisc, Asked
<1> QED BY <1>1, <1>5, <1>6, <1>7, <1>8, <1>9, <1>10, AnswerGoesOn DEF Requesting

LEMMA CallerAnswers ==
  ASSUME WireInv, Turns', BdCalls \/ FileCalls \/ DogSteps
  PROVE  AnswerSide'
<1>0. /\ WireTypes /\ CallState /\ Turns /\ pc \in [Threads -> Labels]
      /\ Threads = {User, Dog} /\ AnswerSide
  BY DEF WireInv, Turns, Threads
<1>1. CASE BdCalls \/ FileCalls
  <2>1. /\ Resting /\ User \in Threads
        /\ UNCHANGED <<rx_seq_nr_expected, event_flag, evf_bits, toServer, toClient, srv, served>>
    BY <1>1, UserBegins
  <2>2. PICK o \in Ops, c \in Calls : BeginCall(User, c, o)
    BY <1>1, UserBegins
  <2>3. \A u \in Threads : pc[u] = "idle"
    BY <2>1 DEF Resting
  <2>4. evf_bits'[User] = {}
    BY <1>0, <2>1, <2>3 DEF CallState
  <2>5. /\ \A m \in Answered : \E e \in 1..ReadParts : m.seq = Plus(rx_seq_nr_expected, -e)
        /\ "fin" \notin event_flag
        /\ Opening => OnlyInform /\ OnlyDisc /\ "ack" \notin event_flag
        /\ Synced => Heard /\ Lag(srv.next) = Len(srv.pend) /\ Len(srv.pend) <= ReadParts
    BY <1>0, <2>1 DEF AnswerSide, OnlyDisc
  <2> QED BY <2>1, <2>2, <2>3, <2>4, <2>5, AnswerBegins
<1>2. CASE DiscoverFinds
  <2>1. /\ state' = "connected" /\ Dog \in Threads /\ pc[User] = "idle" /\ pc[Dog] = "disc_got"
        /\ OnlyDisc /\ OnlyInform /\ NotUsed /\ event_flag \subseteq {"timeout", "info"}
        /\ evf_bits'[Dog] = {}
        /\ UNCHANGED <<rx_seq_nr_expected, event_flag, toServer, toClient, srv, served>>
    BY <1>2, DogFinds
  <2>2. Answered = {} /\ ~Synced
    BY <2>1 DEF OnlyInform, Answered, NotUsed, Synced
  <2>3. CASE \E c \in Calls : BeginCall(Dog, c, "stat")
    <3>1. "stat" \in Ops
      BY DEF Ops
    <3>2. \A u \in Threads : u # Dog => pc[u] = "idle"
      BY <1>0, <2>1
    <3>3. "fin" \notin event_flag /\ "ack" \notin event_flag
      BY <2>1
    <3> QED BY <2>1, <2>2, <2>3, <3>1, <3>2, <3>3, AnswerBegins
  <2>4. CASE pc' = [pc EXCEPT ![Dog] = "idle"]
    <3>1. \A u \in Threads : pc'[u] \notin Requesting
      BY <1>0, <2>1, <2>4 DEF Requesting
    <3>2. Answered' = {} /\ ~Synced' /\ OnlyInform' /\ \A m \in Up' : m.kind = "disc"
      BY <2>1, <2>2 DEF Answered, Synced, HasDisc, OnlyInform, OnlyDisc, Up, Down
    <3>3. "fin" \notin event_flag' /\ "ack" \notin event_flag'
      BY <2>1
    <3> QED BY <3>1, <3>2, <3>3 DEF AnswerSide
  <2> QED BY <1>2, <2>3, <2>4, DogFinds
<1>3. CASE DogChecks \/ DiscoverWakes \/ DiscoverRetries
  <2>1. /\ pc'[Dog] \in {"disc_wait", "disc_got", "idle"} /\ pc'[User] = pc[User]
    BY <1>0, <1>3
       DEF DogChecks, DiscoverWakes, DiscoverRetries, Discover, Goto, User, Dog
  <2>2. pc[User] = "idle"
    BY <1>0, <1>3
       DEF DogChecks, DiscoverWakes, DiscoverRetries, Turns, Discovering, Connected
  <2>3. \A u \in Threads : pc'[u] \notin Requesting
    BY <1>0, <2>1, <2>2 DEF Requesting
  <2>4. state' # "connected"
    BY <1>0, <1>3
       DEF DogChecks, DiscoverWakes, DiscoverRetries, Turns, Discovering, sockVars
  <2> QED BY <2>3, <2>4 DEF AnswerSide, Resting
<1> QED BY <1>1, <1>2, <1>3 DEF DogSteps

----------------------------------------------------------------------------
(* The answers under way: a packet arrives *)

\* Nothing but INFORMs arrives while a session opens.
LEMMA OpeningHears ==
  ASSUME WireInv, state = "connected", Opening
  PROVE  OnlyInform
<1>1. CASE \E t \in Threads : pc[t] \in Requesting
  BY <1>1 DEF WireInv, AnswerSide, Unheard
<1>2. CASE ~(\E t \in Threads : pc[t] \in Requesting)
  <2>1. Resting
    BY <1>2 DEF WireInv, Turns, Resting, Threads, User, Dog, Labels
  <2> QED BY <2>1 DEF WireInv, AnswerSide
<1> QED BY <1>1, <1>2

LEMMA GrowAnswer ==
  ASSUME NEW c, NEW ok, NEW n \in Nat
  PROVE  LET q(k) == [i \in 1..k |-> [call |-> c, part |-> i, ok |-> ok]]
         IN /\ Len(q(n)) = n /\ q(n) \in Seq([call : {c}, part : Nat, ok : {ok}])
            /\ Append(q(n), [call |-> c, part |-> n + 1, ok |-> ok]) = q(n + 1)
OBVIOUS

\* The packet that is stored is the next one of the call's own answer.
LEMMA InOrderFacts ==
  ASSUME WireInv, NEW t \in Threads, pc[t] \in Requesting,
         toClient # <<>>, Head(toClient).kind = "data", InOrder(Head(toClient)),
         NEW ok \in BOOLEAN, NEW n \in 0..ReadParts, Received(t, ok, n), Answers(t, ok, n)
  PROVE  /\ call[t] \in Calls /\ Head(toClient).load = Payload(call[t], n + 1, ok)
         /\ n + 1 <= Size(call[t], ok) /\ n + 1 \in 0..ReadParts /\ served[call[t]] = 1
<1> DEFINE m == Head(toClient)
           r == rx_seq_nr_expected
           c == call[t]
<1>0. WireTypes /\ CallState
  BY DEF WireInv
<1>1. m \in Answered
  BY <1>0, TailQueue DEF WireTypes, Answered, Down
<1>2. r \in SeqNrs /\ r \in Int /\ m.seq = r /\ c \in Calls
  BY <1>0, SeqInt DEF WireTypes, InOrder, CallState
<1>3. m.load.part \in 1..ReadParts
  BY <1>0, <1>1, DownTypes, DownFields DEF Answered, Payloads
<1>4. 0 \in Int /\ Plus(r, 0) = r
  BY <1>2, PlusZero
<1>5. m.load.call = c
  <2> SUFFICES ASSUME m.load.call # c PROVE FALSE
    OBVIOUS
  <2>1. PICK e \in 1..ReadParts : m.seq = Plus(r, -e)
    BY <1>1 DEF Answers
  <2>2. -e \in Int /\ -e - 0 < SeqSpace /\ 0 - (-e) < SeqSpace /\ Plus(r, -e) = Plus(r, 0)
    BY <1>2, <1>4, <2>1, SizeFacts
  <2> HIDE DEF r
  <2>3. -e = 0
    BY <1>2, <1>4, <2>2, PlusApart
  <2> QED BY <2>3, SizeFacts
<1>6. /\ m.load = Payload(c, m.load.part, ok) /\ m.load.part <= Size(c, ok)
      /\ m.seq = Plus(r, m.load.part - 1 - n) /\ served[c] = 1
  BY <1>1, <1>5 DEF Answers
<1>7. m.load.part = n + 1
  <2> DEFINE d == m.load.part - 1 - n
  <2>1. d \in Int /\ d - 0 < SeqSpace /\ 0 - d < SeqSpace /\ Plus(r, d) = Plus(r, 0)
    BY <1>2, <1>3, <1>4, <1>6, SizeFacts
  <2> HIDE DEF d, r
  <2>2. d = 0
    BY <1>2, <1>4, <2>1, PlusApart
  <2> QED BY <1>3, <2>2, SizeFacts DEF d
<1> QED BY <1>2, <1>3, <1>6, <1>7, SizeFacts

\* What is stored then.
LEMMA Stores ==
  ASSUME WireInv, NEW t \in Threads, pc[t] \in Requesting, IstData, InOrder(Head(toClient)),
         rx_buffer # NoCall,
         NEW ok \in BOOLEAN, NEW n \in 0..ReadParts, Received(t, ok, n), Answers(t, ok, n)
  PROVE  Received(t, ok, n + 1)'
<1> USE DEF threadVars, callVars
<1> DEFINE m == Head(toClient)
           p == m.load
<1>1. PICK c : c = call[t]
  OBVIOUS
<1>2. /\ c \in Calls /\ p = Payload(c, n + 1, ok) /\ n + 1 <= Size(c, ok)
      /\ n + 1 \in 0..ReadParts /\ served[c] = 1
  BY <1>1, InOrderFacts DEF IstData
<1>3. /\ UNCHANGED <<pc, call, op, served, evf_bits, rx_buffer>> /\ rx_buffer = c /\ pc[t] # "check"
  BY <1>1 DEF IstData, Received
<1>4. /\ p.call = c /\ p.part = n + 1 /\ p.ok = ok /\ (p.hdr <=> op[c] = "read" /\ n + 1 = 1)
      /\ (p.data <=> ok \/ op[c] # "read") /\ (p.fin <=> n + 1 = Parts(op[c]) \/ ~ok)
  <2> HIDE DEF p
  <2>1. /\ p.call = c /\ p.part = n + 1 /\ p.ok = ok /\ p.hdr = (op[c] = "read" /\ n + 1 = 1)
        /\ p.data = (ok \/ op[c] # "read") /\ p.fin = (n + 1 = Parts(op[c]) \/ ~ok)
    BY <1>2 DEF Payload
  <2> QED BY <2>1
<1>5. /\ Parts(op[c]) \in 1..ReadParts /\ Size(c, ok) = IF ok THEN Parts(op[c]) ELSE 1
      /\ Size(c, ok) <= Parts(op[c]) /\ n \in Nat /\ Parts(op[c]) \in Nat /\ Size(c, ok) \in Nat
  BY ChunksRange, SizeFacts DEF Size
<1> HIDE DEF p, m
<1>6. rx_received' = [i \in 1..(IF op[c] = "read" /\ ~ok THEN 0 ELSE n + 1) |->
                        [call |-> c, part |-> i, ok |-> ok]]
  <2>1. rx_received = [i \in 1..(IF op[c] = "read" /\ ~ok THEN 0 ELSE n) |->
                         [call |-> c, part |-> i, ok |-> ok]]
    BY <1>1 DEF Received
  <2>2. rx_received' = IF p.data /\ Len(rx_received) < Parts(op[c])
                       THEN Append(rx_received, [call |-> p.call, part |-> p.part, ok |-> p.ok])
                       ELSE rx_received
    BY <1>3 DEF IstData, m, p
  <2>3. CASE op[c] = "read" /\ ~ok
    BY <1>4, <2>1, <2>2, <2>3
  <2>4. CASE ~(op[c] = "read" /\ ~ok)
    <3>1. rx_received = [i \in 1..n |-> [call |-> c, part |-> i, ok |-> ok]]
      BY <2>1, <2>4
    <3>2. /\ Len(rx_received) = n
          /\ Append(rx_received, [call |-> c, part |-> n + 1, ok |-> ok])
             = [i \in 1..(n + 1) |-> [call |-> c, part |-> i, ok |-> ok]]
      BY <1>5, <3>1, GrowAnswer
    <3>3. p.data /\ n < Parts(op[c])
      BY <1>2, <1>4, <1>5, <2>4
    <3> QED BY <1>4, <2>2, <2>4, <3>2, <3>3
  <2> QED BY <2>3, <2>4
<1>7. ASSUME op[c] = "read"
      PROVE  /\ DOMAIN rx_hdr' = {"buf", "got", "val"}
             /\ rx_hdr'.val = [call |-> c, ok |-> ok] /\ rx_hdr'.buf = c /\ rx_hdr'.got = TRUE
  <2>1. /\ DOMAIN rx_hdr = {"buf", "got", "val"} /\ rx_hdr.buf = c /\ rx_hdr.got = (n > 0)
        /\ rx_hdr.val = IF n = 0 THEN NoHdr ELSE [call |-> c, ok |-> ok]
    BY <1>1, <1>3, <1>7 DEF Received
  <2>2. rx_hdr' = IF ~p.hdr THEN rx_hdr
                  ELSE IF rx_hdr.buf = NoCall \/ rx_hdr.got
                  THEN [rx_hdr EXCEPT !.got = TRUE]
                  ELSE [rx_hdr EXCEPT !.got = TRUE, !.val = [call |-> p.call, ok |-> p.ok]]
    BY <1>3 DEF IstData, m, p
  <2>3. CASE n = 0
    <3>1. p.hdr /\ rx_hdr.buf # NoCall /\ ~rx_hdr.got
      <4>1. (n > 0) = FALSE
        BY <2>3
      <4>2. rx_hdr.got = FALSE
        BY <2>1, <4>1, Zenon
      <4> QED BY <1>3, <1>4, <1>7, <2>1, <2>3, <4>2
    <3>2. rx_hdr' = [rx_hdr EXCEPT !.got = TRUE, !.val = [call |-> c, ok |-> ok]]
      BY <1>4, <2>2, <3>1
    <3> QED BY <2>1, <3>2
  <2>4. CASE n # 0
    <3>1. ~p.hdr /\ n > 0
      BY <1>4, <1>5, <2>4
    <3>2. rx_hdr.got = TRUE
      BY <2>1, <3>1
    <3> QED BY <2>1, <2>2, <2>4, <3>1, <3>2
  <2> QED BY <2>3, <2>4
<1>8. "fin" \notin event_flag \cup evf_bits[t]
  BY <1>1, <1>2, <1>5 DEF Received
<1>9. "fin" \in event_flag' => n + 1 = Size(c, ok)
  <2> SUFFICES ASSUME "fin" \in event_flag' PROVE n + 1 = Size(c, ok)
    OBVIOUS
  <2>1. p.fin \/ Len(rx_received') >= Parts(op[c])
    BY <1>3, <1>8 DEF IstData, m, p
  <2>2. CASE p.fin
    BY <1>2, <1>4, <1>5, <2>2
  <2>3. CASE Len(rx_received') >= Parts(op[c])
    <3>1. 0 \in Nat /\ n + 1 \in Nat
      BY <1>5
    <3>2. \A k \in Nat : Len([i \in 1..k |-> [call |-> c, part |-> i, ok |-> ok]]) = k
      BY GrowAnswer
    <3>3. Len(rx_received') = IF op[c] = "read" /\ ~ok THEN 0 ELSE n + 1
      BY <1>6, <3>1, <3>2
    <3> QED BY <1>2, <1>5, <2>3, <3>3, SizeFacts
  <2> QED BY <2>1, <2>2, <2>3
<1>10. Size(call[t], ok)' = Size(c, ok) /\ call'[t] = c
  BY <1>1, <1>3 DEF Size
<1>11. n + 1 > 0 /\ n + 1 # 0 /\ (n + 1 > 0) = TRUE
  BY <1>5
<1>12. op[c] = "read" => rx_hdr'.got = (n + 1 > 0)
  BY <1>7, <1>11, Zenon
<1> QED BY <1>2, <1>3, <1>6, <1>7, <1>8, <1>9, <1>10, <1>11, <1>12 DEF Received

\* What is under way then, for the client...
LEMMA StoredAnswers ==
  ASSUME WireInv, NEW t \in Threads, pc[t] \in Requesting, IstData, InOrder(Head(toClient)),
         rx_seq_nr_expected' = Plus(rx_seq_nr_expected, 1),
         NEW ok \in BOOLEAN, NEW n \in 0..ReadParts, Received(t, ok, n), Answers(t, ok, n)
  PROVE  Answers(t, ok, n + 1)'
<1> USE DEF threadVars, callVars
<1>0. WireTypes
  BY DEF WireInv
<1>1. PICK c, r : c = call[t] /\ r = rx_seq_nr_expected
  OBVIOUS
<1>2. /\ Head(toClient).kind = "data" /\ toClient # <<>> /\ toClient' = Tail(toClient)
      /\ UNCHANGED <<call, op, served>>
  BY DEF IstData, Take
<1>3. Head(toClient).load = Payload(c, n + 1, ok) /\ served[c] = 1
  BY <1>1, <1>2, InOrderFacts
<1>4. Head(toClient).load.call = c
  BY <1>3 DEF Payload
<1>5. /\ Down' \subseteq Down /\ Ordered(toClient)' \subseteq Ordered(toClient)
      /\ \A x \in Down' : <<Head(toClient), x>> \in Ordered(toClient)
  BY <1>0, <1>2, TailQueue DEF WireTypes, Down
<1>6. \A p \in Ordered(toClient) :
        p[1].kind = "data" /\ p[2].kind = "data" /\ p[1].load.call = c => p[2].load.call = c
  BY <1>1 DEF Answers
<1>7. \A k : Payload(call[t], k, ok)' = Payload(c, k, ok)
  BY <1>1, <1>2 DEF Payload
<1>8. Size(call[t], ok)' = Size(c, ok) /\ call'[t] = c
  BY <1>1, <1>2 DEF Size
<1>9. ASSUME NEW x \in Answered'
      PROVE  /\ x.load.call = c /\ x.load = Payload(c, x.load.part, ok)
             /\ x.load.part <= Size(c, ok)
             /\ x.seq = Plus(rx_seq_nr_expected', x.load.part - 1 - (n + 1))
  <2>1. x \in Answered /\ x.kind = "data" /\ <<Head(toClient), x>> \in Ordered(toClient)
    BY <1>5 DEF Answered
  <2>2. x.load.call = c
    <3>1. PICK p : p = <<Head(toClient), x>>
      OBVIOUS
    <3>2. p[1] = Head(toClient) /\ p[2] = x
      BY <3>1
    <3> QED BY <1>2, <1>4, <1>6, <2>1, <3>1, <3>2
  <2>3. /\ x.load = Payload(c, x.load.part, ok) /\ x.load.part <= Size(c, ok)
        /\ x.seq = Plus(r, x.load.part - 1 - n)
    BY <1>1, <2>1, <2>2 DEF Answers
  <2>4. x.load.part \in 1..ReadParts /\ r \in SeqNrs
    BY <1>0, <1>1, <2>1, DownTypes, DownFields DEF Answered, Payloads, WireTypes
  <2> DEFINE d == x.load.part - 1 - (n + 1)
  <2>5. d \in Int /\ r \in Int /\ 1 \in Int /\ 1 + d = x.load.part - 1 - n
    BY <2>4, SeqInt, SizeFacts
  <2> HIDE DEF d
  <2>6. Plus(Plus(r, 1), d) = Plus(r, 1 + d)
    BY <2>5, PlusPlus
  <2>7. x.seq = Plus(rx_seq_nr_expected', d)
    BY <1>1, <2>3, <2>5, <2>6
  <2> QED BY <2>2, <2>3, <2>7 DEF d
<1>10. \A p \in Ordered(toClient)' :
         p[1].kind = "data" /\ p[2].kind = "data" /\ p[1].load.call = c => p[2].load.call = c
  BY <1>5, <1>6
<1> QED BY <1>2, <1>3, <1>7, <1>8, <1>9, <1>10 DEF Answers

\* ... and for the server.
LEMMA LagStored ==
  ASSUME WireTypes, Synced, Heard, Lag(srv.next) <= ReadParts,
         rx_seq_nr_expected' = Plus(rx_seq_nr_expected, 1), UNCHANGED <<toServer, srv>>
  PROVE  Lag(srv.next)' = Lag(srv.next) + 1 /\ Heard'
<1>1. /\ srv.next \in SeqNrs /\ rx_seq_nr_expected \in SeqNrs /\ ReadParts < SeqSpace - 1
      /\ SeqSpace \in Nat /\ ReadParts \in Nat
  BY SizeFacts DEF WireTypes, Servers
<1>2. Lag(srv.next) \in Nat
  BY <1>1, LagFacts
<1>3. Lag(srv.next)' = Lag(srv.next) + 1
  <2>1. PICK x \in SeqNrs : x = srv.next
    BY <1>1
  <2>2. Lag(x)' = Lag(x) + 1
    BY <1>1, <1>2, <2>1, LagNext
  <2>3. Lag(srv.next)' = Lag(x)'
    BY <2>1 DEF Lag
  <2> QED BY <2>1, <2>2, <2>3
<1>4. ASSUME NEW m \in Up
      PROVE  /\ Lag(Expected(m)) <= Lag(srv.next) /\ Lag(Expected(m)) \in Nat
             /\ Lag(Expected(m))' = Lag(Expected(m)) + 1
  <2>1. m.kind # "disc" /\ m \in UpPackets
    BY UpTypes DEF Synced, HasDisc
  <2>2. Expected(m) \in SeqNrs
    BY <2>1, UpFields
  <2>3. Lag(Expected(m)) <= Lag(srv.next)
    BY DEF Heard
  <2>4. Lag(Expected(m)) \in Nat
    BY <1>1, <2>2, LagFacts
  <2>5. PICK x \in SeqNrs : x = Expected(m)
    BY <2>2
  <2>6. Lag(x)' = Lag(x) + 1
    BY <1>1, <1>2, <2>3, <2>4, <2>5, LagNext
  <2>7. Lag(Expected(m))' = Lag(x)'
    BY <2>5 DEF Lag, Expected
  <2> QED BY <2>3, <2>4, <2>5, <2>6, <2>7
<1>5. Up' = Up /\ Ordered(toServer)' = Ordered(toServer)
  BY DEF Up
<1>6. \A p \in Ordered(toServer) : Lag(Expected(p[2]))' <= Lag(Expected(p[1]))'
  <2> SUFFICES ASSUME NEW p \in Ordered(toServer)
               PROVE  Lag(Expected(p[2]))' <= Lag(Expected(p[1]))'
    OBVIOUS
  <2>1. p[1] \in Up /\ p[2] \in Up
    BY PairsUp
  <2>2. Lag(Expected(p[2])) <= Lag(Expected(p[1]))
    BY DEF Heard
  <2>3. /\ Lag(Expected(p[1])) \in Nat /\ Lag(Expected(p[1]))' = Lag(Expected(p[1])) + 1
    BY <1>4, <2>1
  <2>4. /\ Lag(Expected(p[2])) \in Nat /\ Lag(Expected(p[2]))' = Lag(Expected(p[2])) + 1
    BY <1>4, <2>1
  <2> QED BY <2>2, <2>3, <2>4
<1>7. \A m \in Up : Lag(Expected(m))' <= Lag(srv.next)'
  BY <1>2, <1>3, <1>4
<1> QED BY <1>3, <1>5, <1>6, <1>7 DEF Heard

LEMMA IstAnswers ==
  ASSUME WireInv, Ist
  PROVE  AnswerSide'
<1> USE DEF txVars, rxVars, sockVars, callVars, flagVars, threadVars
<1>0. WireTypes /\ Turns /\ AnswerSide
  BY DEF WireInv
<1>1. /\ UNCHANGED <<pc, call, chunk, evf_bits, op, served, state, toServer, srv>>
      /\ toClient # <<>> /\ toClient' = Tail(toClient)
  BY DEF Ist, IstInform, IstAck, IstData, Take
<1>2. /\ Up' = Up /\ Asked' = Asked /\ (Opening' <=> Opening) /\ (Synced' <=> Synced)
      /\ Ordered(toServer)' = Ordered(toServer)
  BY <1>1 DEF Up, Asked, Opening, Synced, HasDisc
<1>3. /\ Down' \subseteq Down /\ Ordered(toClient)' \subseteq Ordered(toClient)
      /\ Head(toClient) \in Down
  BY <1>0, <1>1, TailQueue DEF WireTypes, Down
<1>4. state = "connected" /\ Opening => Head(toClient).kind = "inform"
  BY <1>3, OpeningHears DEF OnlyInform
\* Nothing is stored.
<1>5. ASSUME UNCHANGED <<rx_buffer, rx_received, rx_seq_nr_expected, rx_hdr>>,
             state = "connected" /\ "fin" \in event_flag' => "fin" \in event_flag,
             state = "connected" /\ Opening /\ "ack" \in event_flag' => "ack" \in event_flag
      PROVE  AnswerSide'
  BY <1>1, <1>2, <1>3, <1>5, AnswersKept
<1>6. CASE IstInform
  BY <1>5, <1>6 DEF IstInform
<1>7. CASE IstAck
  BY <1>4, <1>5, <1>7 DEF IstAck
<1>8. CASE IstData /\ (rx_buffer = NoCall \/ ~InOrder(Head(toClient)))
  <2>1. Head(toClient).kind = "data"
    BY <1>8 DEF IstData
  <2>2. /\ UNCHANGED <<rx_buffer, rx_received, rx_seq_nr_expected, rx_hdr>>
        /\ "fin" \in event_flag' => "fin" \in event_flag
    BY <1>8 DEF IstData
  <2> QED BY <1>4, <1>5, <2>1, <2>2
<1>9. CASE IstData /\ rx_buffer # NoCall /\ InOrder(Head(toClient))
  <2>0. Head(toClient).kind = "data" /\ rx_seq_nr_expected' = Plus(rx_seq_nr_expected, 1)
    BY <1>9 DEF IstData, InOrder
  <2>1. CASE \E t \in Threads : pc[t] \in Requesting
    <3>1. PICK t \in Threads : pc[t] \in Requesting
      BY <2>1
    <3>2. state = "connected" /\ \A u \in Threads : u # t => pc'[u] = "idle"
      BY <1>0, <1>1, <3>1, AtWork
    <3>3. ~Opening'
      BY <1>2, <1>4, <2>0, <3>2
    <3>4. PICK ok \in BOOLEAN, n \in 0..ReadParts :
                 /\ Received(t, ok, n) /\ Answers(t, ok, n)
                 /\ Synced => Pending(t, ok, n)
      BY <1>0, <3>1 DEF AnswerSide
    <3>5. PICK c : c = call[t]
      OBVIOUS
    <3>6. n + 1 <= Size(c, ok) /\ n + 1 \in 0..ReadParts /\ served[c] = 1
      BY <1>1, <1>9, <2>0, <3>1, <3>4, <3>5, InOrderFacts
    <3>7. Received(t, ok, n + 1)'
      BY <1>9, <3>1, <3>4, Stores
    <3>8. Answers(t, ok, n + 1)'
      BY <1>9, <2>0, <3>1, <3>4, StoredAnswers
    <3>9. ASSUME Synced' PROVE Pending(t, ok, n + 1)' /\ Heard'
      <4>1. PICK lag : lag = Lag(srv.next)
        OBVIOUS
      <4>2. /\ lag <= Len(srv.pend) /\ Len(srv.pend) <= ReadParts
            /\ lag <= n /\ Len(srv.pend) = Size(c, ok) - (n - lag)
            /\ \A i \in DOMAIN srv.pend : srv.pend[i] = Payload(c, n - lag + i, ok)
        BY <1>2, <3>4, <3>5, <3>6, <3>9, <4>1 DEF Pending
      <4>3. lag \in Nat /\ Len(srv.pend) \in Nat /\ srv.pend \in Seq(Payloads)
        BY <1>0, <4>1, LagFacts, SizeFacts DEF WireTypes, Servers
      <4>4. Lag(srv.next)' = lag + 1 /\ Heard'
        <5>1. Heard /\ Synced
          BY <1>0, <1>2, <3>1, <3>9 DEF AnswerSide
        <5>2. lag <= ReadParts
          BY <4>2, <4>3, SizeFacts
        <5> QED BY <1>0, <1>1, <2>0, <4>1, <5>1, <5>2, LagStored
      <4>5. Size(c, ok) \in Nat /\ n \in Nat
        BY ChunksRange, SizeFacts DEF Size
      <4>6. Size(call[t], ok)' = Size(c, ok) /\ call'[t] = c
        BY <1>1, <3>5 DEF Size
      <4>7. \A k : Payload(call[t], k, ok)' = Payload(c, k, ok)
        BY <1>1, <3>5 DEF Payload
      <4>8. \A i \in DOMAIN srv'.pend : srv'.pend[i] = Payload(call[t], n + 1 - (lag + 1) + i, ok)'
        <5> SUFFICES ASSUME NEW i \in DOMAIN srv'.pend
                     PROVE  srv'.pend[i] = Payload(call[t], n + 1 - (lag + 1) + i, ok)'
          OBVIOUS
        <5>1. i \in DOMAIN srv.pend /\ i \in Int
          BY <1>1, <4>3
        <5>2. n + 1 - (lag + 1) + i = n - lag + i
          BY <4>3, <4>5, <5>1
        <5> QED BY <1>1, <4>2, <4>7, <5>1, <5>2
      <4>9. /\ lag + 1 <= Len(srv'.pend) /\ Len(srv'.pend) <= ReadParts
            /\ lag + 1 <= n + 1 /\ Len(srv'.pend) = Size(c, ok) - (n + 1 - (lag + 1))
        BY <1>1, <3>6, <4>2, <4>3, <4>5
      <4>10. served'[call'[t]] = 1
        BY <1>1, <3>5, <3>6
      <4>11. PICK l, k : l = lag + 1 /\ k = n + 1 /\ l = Lag(srv.next)'
        BY <4>4
      <4>12. Len(srv'.pend) = Size(call[t], ok)' - (k - l)
        BY <4>6, <4>9, <4>11
      <4>13. \A i \in DOMAIN srv'.pend : srv'.pend[i] = Payload(call[t], k - l + i, ok)'
        BY <4>8, <4>11
      <4>14. Pending(t, ok, k)'
        BY <4>9, <4>10, <4>11, <4>12, <4>13 DEF Pending
      <4> QED BY <4>4, <4>11, <4>14
    <3>10. pc'[t] \in Requesting
      BY <1>1, <3>1
    <3> QED BY <3>2, <3>3, <3>6, <3>7, <3>8, <3>9, <3>10, AnswerGoesOn
  <2>2. CASE ~(\E t \in Threads : pc[t] \in Requesting)
    <3>1. Head(toClient) \in Answered
      BY <1>3, <2>0 DEF Answered
    <3>2. ~Resting
      BY <1>0, <1>9, <3>1 DEF AnswerSide
    <3>3. ~Resting' /\ \A t \in Threads : pc'[t] \notin Requesting
      BY <1>1, <2>2, <3>2 DEF Resting
    <3> QED BY <3>3 DEF AnswerSide
  <2> QED BY <2>1, <2>2
<1> QED BY <1>6, <1>7, <1>8, <1>9 DEF Ist

----------------------------------------------------------------------------
(* The answers under way: the server and the network *)

LEMMA NoSessionNoAnswers ==
  ASSUME Turns, state # "connected", UNCHANGED <<pc, state>>
  PROVE  AnswerSide'
<1>1. \A t \in Threads : pc[t] \notin Requesting
  BY AtWork
<1> QED BY <1>1 DEF AnswerSide, Resting

\* In a session of the client, a new one of the server is not used before it has
\* been asked for.
LEMMA ConnectedDisc ==
  ASSUME WireInv, state = "connected", HasDisc
  PROVE  NotUsed
<1>1. CASE \E t \in Threads : pc[t] \in Requesting
  BY <1>1 DEF WireInv, RequestSide, Line, Opening
<1>2. CASE ~(\E t \in Threads : pc[t] \in Requesting)
  <2>1. Resting
    BY <1>2 DEF WireInv, Turns, Resting, Threads, User, Dog, Labels
  <2> QED BY <2>1 DEF WireInv, RequestSide, Rest, Opening
<1> QED BY <1>1, <1>2

LEMMA OtherAnswers ==
  ASSUME WireInv,
         \/ SrvDiscovers \/ SrvIgnores \/ Faults \/ (\E due \in BOOLEAN : TimeoutCb(due))
         \/ Rests \/ UNCHANGED vars
  PROVE  AnswerSide'
<1> USE DEF txVars, rxVars, sockVars, callVars, flagVars, threadVars
<1>0. WireTypes /\ Turns /\ Sessions
  BY DEF WireInv
<1>1. /\ UNCHANGED <<rx_buffer, rx_received, rx_seq_nr_expected, rx_hdr, pc, call, chunk,
                     evf_bits, op, served, state>>
      /\ event_flag' \subseteq event_flag \cup {"timeout"}
  BY DEF SrvDiscovers, SrvIgnores, Faults, SrvRestarts, Lose, Repeat, TimeoutCb,
         Rests, vars
<1>2. CASE state # "connected"
  BY <1>0, <1>1, <1>2, NoSessionNoAnswers
<1>3. CASE state = "connected"
  <2>1. UpKept
    BY <1>0, KeptUp
       DEF SrvDiscovers, SrvIgnores, Faults, SrvRestarts, Lose, Repeat, TimeoutCb,
           Rests, vars
  <2>2. HasDisc' => HasDisc
    BY <2>1 DEF UpKept, HasDisc
  <2>3. HasDisc => NotUsed
    BY <1>3, ConnectedDisc
  <2>4. SrvDiscovers \/ SrvRestarts \/ UNCHANGED srv
    BY DEF SrvIgnores, Faults, Lose, Repeat, TimeoutCb, Rests, vars
  <2>5. SrvDiscovers => HasDisc /\ srv'.session /\ srv'.fresh
    <3> SUFFICES ASSUME SrvDiscovers PROVE HasDisc /\ srv'.session /\ srv'.fresh
      OBVIOUS
    <3>1. toServer # <<>> /\ Head(toServer).kind = "disc"
      BY DEF SrvDiscovers
    <3>2. Head(toServer) \in Up
      BY <1>0, <3>1, TailQueue DEF WireTypes, Up
    <3> QED BY <1>0, <3>1, <3>2 DEF SrvDiscovers, HasDisc, WireTypes, Servers
  <2>6. SrvRestarts => ~srv'.session
    BY <1>0 DEF SrvRestarts, WireTypes, Servers
  <2>7. Opening' => Opening
    BY <2>2, <2>4, <2>5, <2>6 DEF Opening
  <2>8. Synced' => Synced /\ srv'.next = srv.next /\ srv'.pend = srv.pend
    BY <2>3, <2>4, <2>5, <2>6 DEF Synced, NotUsed
  <2>9. /\ \A m \in Down' : m \in Down \/ m.kind = "inform"
        /\ \A p \in Ordered(toClient)' : p \in Ordered(toClient) \/ p[2].kind = "inform"
    <3>1. CASE SrvDiscovers
      <4>1. toClient' = Append(toClient, Inform) /\ Inform \in DownPackets /\ Inform.kind = "inform"
        BY <3>1, MakeDown DEF SrvDiscovers
      <4>2. /\ Elements(Append(toClient, Inform)) = Elements(toClient) \cup {Inform}
            /\ \A p \in Ordered(Append(toClient, Inform)) :
                 p \in Ordered(toClient) \/ (p[1] \in Elements(toClient) \cup {Inform} /\ p[2] = Inform)
        BY <1>0, <4>1, AppendQueue DEF WireTypes
      <4> QED BY <4>1, <4>2 DEF Down
    <3>2. CASE ~SrvDiscovers
      <4>1. DownKept
        BY <1>0, <3>2, KeptDown
           DEF SrvIgnores, Faults, SrvRestarts, Lose, Repeat, TimeoutCb, Rests, vars
      <4> QED BY <4>1 DEF DownKept
    <3> QED BY <3>1, <3>2
  <2>10. /\ "fin" \in event_flag' => "fin" \in event_flag
         /\ "ack" \in event_flag' => "ack" \in event_flag
    BY <1>1
  <2>11. Up' \subseteq Up /\ Ordered(toServer)' \subseteq Ordered(toServer)
    BY <2>1 DEF UpKept
  <2> QED BY <1>1, <2>7, <2>8, <2>9, <2>10, <2>11, AnswersKept
<1> QED BY <1>2, <1>3

\* The server has dropped the first k of what is pending.
Dropped(k) ==
  /\ k \in 0..Len(srv.pend) /\ k <= Lag(srv.next) /\ srv' \in Servers
  /\ Lag(srv.next)' = Lag(srv.next) - k
  /\ Len(srv'.pend) = Len(srv.pend) - k
  /\ \A i \in 1..Len(srv'.pend) : srv'.pend[i] = srv.pend[k + i]

LEMMA HeedsDrops ==
  ASSUME WireTypes, Synced, Heard, NEW m \in Up, Heeds(m), srv' \in Servers,
         Lag(srv.next) <= Len(srv.pend), UNCHANGED rx_seq_nr_expected
  PROVE  srv'.next = Expected(m) /\ \E k \in Nat : Dropped(k)
<1>1. PICK n \in Int : /\ Plus(n, 1) = Expected(m)
                       /\ srv'.next = Acked(srv, n).next /\ srv'.pend = Acked(srv, n).pend
  BY DEF Heeds
<1>2. m.kind # "disc" /\ m \in UpPackets
  BY UpTypes DEF Synced, HasDisc
<1>3. /\ Expected(m) \in SeqNrs /\ srv.next \in SeqNrs /\ rx_seq_nr_expected \in SeqNrs
      /\ srv \in Servers /\ Len(srv.pend) \in Nat
  BY <1>2, UpFields DEF WireTypes, Servers
<1>4. Lag(Expected(m)) <= Lag(srv.next)
  BY DEF Heard
<1>5. PICK k : k = Lag(srv.next) - Lag(Expected(m))
  OBVIOUS
<1>6. /\ k \in 0..Len(srv.pend)
      /\ Acked(srv, n).next = Plus(n, 1)
      /\ Len(Acked(srv, n).pend) = Len(srv.pend) - k
      /\ \A i \in 1..Len(Acked(srv, n).pend) : Acked(srv, n).pend[i] = srv.pend[k + i]
  BY <1>1, <1>3, <1>4, <1>5, AckedDrops
<1>7. srv'.next = Expected(m)
  BY <1>1, <1>6
<1>8. Lag(srv.next) \in Nat /\ Lag(Expected(m)) \in Nat
  BY <1>3, LagFacts, SizeFacts
<1>9. Lag(srv.next)' = Lag(Expected(m))
  BY <1>7 DEF Lag
<1>10. Dropped(k) /\ k \in Nat
  BY <1>1, <1>3, <1>5, <1>6, <1>8, <1>9 DEF Dropped
<1> QED BY <1>7, <1>10

\* What is sent later does not ask for less.
LEMMA HeedsHeard ==
  ASSUME WireTypes, Synced, Heard, toServer # <<>>, toServer' = Tail(toServer),
         srv'.next = Expected(Head(toServer)), UNCHANGED rx_seq_nr_expected
  PROVE  Heard'
<1>1. /\ Up' \subseteq Up /\ Ordered(toServer)' \subseteq Ordered(toServer)
      /\ \A x \in Up' : <<Head(toServer), x>> \in Ordered(toServer)
  BY TailQueue DEF WireTypes, Up
<1>2. \A m : Lag(Expected(m))' = Lag(Expected(m))
  BY DEF Lag, Expected
<1>3. Lag(srv.next)' = Lag(Expected(Head(toServer)))
  BY DEF Lag
<1>4. \A x \in Up' : Lag(Expected(x)) <= Lag(Expected(Head(toServer)))
  <2> SUFFICES ASSUME NEW x \in Up' PROVE Lag(Expected(x)) <= Lag(Expected(Head(toServer)))
    OBVIOUS
  <2>1. PICK p \in Ordered(toServer) : p[1] = Head(toServer) /\ p[2] = x
    BY <1>1
  <2>2. Lag(Expected(p[2])) <= Lag(Expected(p[1]))
    BY DEF Heard
  <2> QED BY <2>1, <2>2
<1> QED BY <1>1, <1>2, <1>3, <1>4 DEF Heard

\* What the server sends from what is pending belongs to the answer.
LEMMA AnswersSent ==
  ASSUME WireTypes, NEW t \in Threads, NEW ok \in BOOLEAN, NEW n \in 0..ReadParts,
         Answers(t, ok, n), Delivers, srv' \in Servers, call[t] \in Calls,
         UNCHANGED <<call, op, rx_seq_nr_expected>>, Pending(t, ok, n)',
         served'[call[t]] \in {0, 1}, served[call[t]] = 1 => served'[call[t]] = 1,
         n > 0 => served'[call[t]] = 1
  PROVE  Answers(t, ok, n)'
<1>1. PICK c, r : c = call[t] /\ r = rx_seq_nr_expected
  OBVIOUS
<1>2. PICK lag : lag = Lag(srv.next)'
  OBVIOUS
<1>3. \A k : Payload(call[t], k, ok)' = Payload(c, k, ok)
  BY <1>1 DEF Payload
<1>4. Size(call[t], ok)' = Size(c, ok) /\ call'[t] = c /\ Size(c, ok) \in Nat
  BY <1>1, ChunksRange, SizeFacts DEF Size
<1>5. /\ lag <= Len(srv'.pend) /\ Len(srv'.pend) <= ReadParts
      /\ served'[c] = 0 => /\ lag = Len(srv'.pend)
                           /\ \A i \in DOMAIN srv'.pend : srv'.pend[i].call # c
      /\ served'[c] = 1 => /\ lag <= n /\ Len(srv'.pend) = Size(c, ok) - (n - lag)
                           /\ \A i \in DOMAIN srv'.pend : srv'.pend[i] = Payload(c, n - lag + i, ok)
  BY <1>2, <1>3, <1>4 DEF Pending
<1>6. /\ r \in SeqNrs /\ r \in Int /\ srv'.next \in SeqNrs /\ Len(srv'.pend) \in Nat
      /\ DOMAIN srv'.pend = 1..Len(srv'.pend) /\ n \in Nat
  BY <1>1, SeqInt, SizeFacts DEF WireTypes, Servers
<1>7. lag \in Nat /\ srv'.next = Plus(r, -lag)
  <2>1. lag = (r - srv'.next) % SeqSpace
    BY <1>1, <1>2 DEF Lag
  <2>2. PICK x \in SeqNrs : x = srv'.next
    BY <1>6
  <2>3. (r - x) % SeqSpace \in 0..(SeqSpace - 1) /\ x = Plus(r, -((r - x) % SeqSpace))
    BY <1>6, Behind
  <2>4. lag \in 0..(SeqSpace - 1) /\ x = Plus(r, -lag)
    BY <2>1, <2>2, <2>3
  <2> QED BY <2>2, <2>4, SizeFacts
<1>8. ASSUME NEW m, SentBy(m)'
      PROVE  /\ served'[c] = 1 =>
                  /\ m.load.call = c /\ m.load = Payload(c, m.load.part, ok)
                  /\ m.load.part <= Size(c, ok) /\ m.seq = Plus(r, m.load.part - 1 - n)
             /\ served'[c] = 0 =>
                  m.load.call # c /\ \E e \in 1..ReadParts : m.seq = Plus(r, -e)
  <2>1. PICK j \in 1..Len(srv'.pend) : m.seq = Plus(srv'.next, j - 1) /\ m.load = srv'.pend[j]
    BY <1>8 DEF SentBy
  <2>2. j \in Nat /\ -lag \in Int /\ j - 1 \in Int
    BY <1>6, <1>7
  <2>3. m.seq = Plus(r, -lag + (j - 1))
    <3> DEFINE d == j - 1
    <3>1. d \in Int
      BY <2>2
    <3> HIDE DEF d
    <3>2. Plus(Plus(r, -lag), d) = Plus(r, -lag + d)
      BY <1>6, <2>2, <3>1, PlusPlus
    <3> QED BY <1>7, <2>1, <3>2 DEF d
  <2>4. ASSUME served'[c] = 1
        PROVE  /\ m.load.call = c /\ m.load = Payload(c, m.load.part, ok)
               /\ m.load.part <= Size(c, ok) /\ m.seq = Plus(r, m.load.part - 1 - n)
    <3>1. m.load = Payload(c, n - lag + j, ok) /\ Len(srv'.pend) = Size(c, ok) - (n - lag)
      BY <1>5, <1>6, <2>1, <2>4
    <3>2. m.load.call = c /\ m.load.part = n - lag + j
      BY <3>1 DEF Payload
    <3>3. m.load.part <= Size(c, ok) /\ m.load.part - 1 - n = -lag + (j - 1)
      BY <1>4, <1>6, <1>7, <2>1, <2>2, <3>1, <3>2
    <3> QED BY <2>3, <3>1, <3>2, <3>3
  <2>5. ASSUME served'[c] = 0
        PROVE  m.load.call # c /\ \E e \in 1..ReadParts : m.seq = Plus(r, -e)
    <3> DEFINE e == lag - j + 1
    <3>1. m.load.call # c /\ lag = Len(srv'.pend)
      BY <1>5, <1>6, <2>1, <2>5
    <3>2. e \in 1..ReadParts /\ -lag + (j - 1) = -e
      BY <1>5, <1>6, <1>7, <2>1, <2>2, <3>1, SizeFacts
    <3> HIDE DEF e
    <3> QED BY <2>3, <3>1, <3>2
  <2> QED BY <2>4, <2>5
<1>9. served'[c] = 0 => n = 0 /\ served[c] # 1
  BY <1>1, <1>6
<1>10. ASSUME NEW m \in Answered'
       PROVE  IF m.load.call = c
              THEN /\ m.load = Payload(c, m.load.part, ok)
                   /\ m.load.part <= Size(c, ok)
                   /\ m.seq = Plus(r, m.load.part - 1 - n)
                   /\ served'[c] = 1
              ELSE n = 0 /\ \E e \in 1..ReadParts : m.seq = Plus(r, -e)
  <2>1. m \in Answered \/ SentBy(m)'
    BY DEF Delivers, Answered
  <2>2. CASE m \in Answered
    BY <1>1, <2>2 DEF Answers
  <2>3. CASE SentBy(m)'
    <3>1. CASE served'[c] = 1
      BY <1>8, <2>3, <3>1
    <3>2. CASE served'[c] = 0
      BY <1>8, <1>9, <2>3, <3>2
    <3> QED BY <1>1, <3>1, <3>2
  <2> QED BY <2>1, <2>2, <2>3
<1>11. ASSUME NEW p \in Ordered(toClient)',
              p[1].kind = "data", p[2].kind = "data", p[1].load.call = c
       PROVE  p[2].load.call = c
  <2>1. p \in Ordered(toClient) \/ SentBy(p[2])'
    BY <1>11 DEF Delivers
  <2>2. CASE p \in Ordered(toClient)
    BY <1>1, <1>11, <2>2 DEF Answers
  <2>3. CASE SentBy(p[2])'
    <3>1. p[1] \in Answered'
      BY <1>11 DEF Ordered, Answered, Down
    <3>2. served'[c] = 1
      BY <1>10, <1>11, <3>1
    <3> QED BY <1>8, <2>3, <3>2
  <2> QED BY <2>1, <2>2, <2>3
<1> QED BY <1>1, <1>3, <1>4, <1>10, <1>11 DEF Answers

\* The server drops what the client has, and sends what it has not.
LEMMA AnswersDrop ==
  ASSUME WireInv, NEW k \in Nat, Dropped(k), Synced, Synced', ~Opening', Delivers,
         UNCHANGED <<rx_buffer, rx_received, rx_seq_nr_expected, rx_hdr, pc, call, chunk,
                     evf_bits, event_flag, op, served, state>>,
         Up' \subseteq Up, Heard => Heard'
  PROVE  AnswerSide'
<1>0. WireTypes /\ CallState /\ Turns /\ AnswerSide
  BY DEF WireInv
<1>1. PICK l, lag : l = Lag(srv.next) /\ lag = Lag(srv.next)'
  OBVIOUS
<1>2. /\ k \in 0..Len(srv.pend) /\ k <= l /\ lag = l - k /\ Len(srv'.pend) = Len(srv.pend) - k
      /\ \A i \in 1..Len(srv'.pend) : srv'.pend[i] = srv.pend[k + i]
      /\ srv' \in Servers /\ l \in Nat /\ Len(srv.pend) \in Nat /\ DOMAIN srv.pend = 1..Len(srv.pend)
      /\ Len(srv'.pend) \in Nat /\ DOMAIN srv'.pend = 1..Len(srv'.pend)
  <2>1. l \in Nat /\ srv.pend \in Seq(Payloads)
    BY <1>0, <1>1, LagFacts, SizeFacts DEF WireTypes, Servers
  <2>2. srv' \in Servers
    BY DEF Dropped
  <2>3. srv'.pend \in Seq(Payloads)
    BY <2>2 DEF Servers
  <2> QED BY <1>1, <2>1, <2>2, <2>3 DEF Dropped
<1>3. ASSUME NEW i \in DOMAIN srv'.pend
      PROVE  k + i \in DOMAIN srv.pend /\ srv'.pend[i] = srv.pend[k + i] /\ i \in Nat
  BY <1>2
<1>4. ASSUME NEW t \in Threads, pc'[t] \in Requesting PROVE AnswerSide'
  <2>1. PICK ok \in BOOLEAN, n \in 0..ReadParts :
               /\ Received(t, ok, n) /\ Answers(t, ok, n) /\ Pending(t, ok, n)
    BY <1>0, <1>4 DEF AnswerSide
  <2>2. call[t] \in Calls /\ served[call[t]] \in {0, 1} /\ \A u \in Threads : u # t => pc'[u] = "idle"
    BY <1>0, <1>4, AtWork DEF CallState, WireTypes
  <2>3. PICK c : c = call[t]
    OBVIOUS
  <2>4. Received(t, ok, n)'
    <3>1. (pc[t] = "rcv_got" /\ "fin" \in evf_bits[t]) \/ pc[t] = "check" => "fin" \notin event_flag
      BY <2>1 DEF Received
    <3> QED BY <2>1, <3>1, ReceivedStays
  <2>5. /\ l <= Len(srv.pend) /\ Len(srv.pend) <= ReadParts
        /\ served[c] = 0 => /\ l = Len(srv.pend)
                            /\ \A i \in DOMAIN srv.pend : srv.pend[i].call # c
                            /\ \A m \in Asked : m.load.call = c => Expected(m) = rx_seq_nr_expected
        /\ served[c] = 1 => /\ l <= n /\ Len(srv.pend) = Size(c, ok) - (n - l)
                            /\ \A i \in DOMAIN srv.pend : srv.pend[i] = Payload(c, n - l + i, ok)
    BY <1>1, <2>1, <2>3 DEF Pending
  <2>6. n \in Nat /\ Size(c, ok) \in Nat
    BY ChunksRange, SizeFacts DEF Size
  <2>7. Size(call[t], ok)' = Size(c, ok) /\ call'[t] = c
    BY <2>3 DEF Size
  <2>8. \A j : Payload(call[t], j, ok)' = Payload(c, j, ok)
    BY <2>3 DEF Payload
  <2>9. \A m : Expected(m)' = Expected(m)
    BY DEF Expected
  <2>10. lag <= Len(srv'.pend) /\ Len(srv'.pend) <= ReadParts
    BY <1>2, <2>5, SizeFacts
  <2>11. served'[c] = 0 =>
           /\ lag = Len(srv'.pend)
           /\ \A i \in DOMAIN srv'.pend : srv'.pend[i].call # c
           /\ \A m \in Asked' : m.load.call = c => Expected(m)' = rx_seq_nr_expected'
    <3> SUFFICES ASSUME served[c] = 0
                 PROVE  /\ lag = Len(srv'.pend)
                        /\ \A i \in DOMAIN srv'.pend : srv'.pend[i].call # c
                        /\ \A m \in Asked' : m.load.call = c => Expected(m)' = rx_seq_nr_expected'
      OBVIOUS
    <3>1. lag = Len(srv'.pend)
      BY <1>2, <2>5
    <3>2. \A i \in DOMAIN srv'.pend : srv'.pend[i].call # c
      BY <1>3, <2>5
    <3>3. Asked' \subseteq Asked
      BY DEF Asked
    <3>4. \A m \in Asked' : m.load.call = c => Expected(m)' = rx_seq_nr_expected'
      BY <2>5, <2>9, <3>3
    <3> QED BY <3>1, <3>2, <3>4
  <2>12. served'[c] = 1 =>
           /\ lag <= n /\ Len(srv'.pend) = Size(c, ok) - (n - lag)
           /\ \A i \in DOMAIN srv'.pend : srv'.pend[i] = Payload(c, n - lag + i, ok)
    <3> SUFFICES ASSUME served[c] = 1
                 PROVE  /\ lag <= n /\ Len(srv'.pend) = Size(c, ok) - (n - lag)
                        /\ \A i \in DOMAIN srv'.pend : srv'.pend[i] = Payload(c, n - lag + i, ok)
      OBVIOUS
    <3>1. lag <= n /\ Len(srv'.pend) = Size(c, ok) - (n - lag)
      <4>1. /\ k <= l /\ lag = l - k /\ Len(srv'.pend) = Len(srv.pend) - k
            /\ k \in Nat /\ l \in Nat /\ Len(srv.pend) \in Nat
        BY <1>2
      <4>2. l <= n /\ Len(srv.pend) = Size(c, ok) - (n - l)
        BY <2>5
      <4> QED BY <2>6, <4>1, <4>2
    <3>2. ASSUME NEW i \in DOMAIN srv'.pend PROVE srv'.pend[i] = Payload(c, n - lag + i, ok)
      <4>1. n - l + (k + i) = n - lag + i
        BY <1>2, <1>3, <2>6
      <4> QED BY <1>3, <2>5, <4>1
    <3> QED BY <3>1, <3>2
  <2>13. Pending(t, ok, n)'
    BY <1>1, <2>7, <2>8, <2>10, <2>11, <2>12 DEF Pending
  <2>14. Answers(t, ok, n)'
    <3>1. n > 0 => served[call[t]] = 1
      BY <2>1 DEF Received
    <3> QED BY <1>0, <1>2, <2>1, <2>2, <2>13, <3>1, AnswersSent
  <2>15. Heard'
    BY <1>0, <1>4 DEF AnswerSide
  <2> QED BY <1>4, <2>2, <2>4, <2>13, <2>14, <2>15, AnswerGoesOn
<1>5. ASSUME Resting' PROVE AnswerSide'
  <2>1. Resting
    BY <1>5 DEF Resting
  <2>2. /\ \A m \in Answered : \E e \in 1..ReadParts : m.seq = Plus(rx_seq_nr_expected, -e)
        /\ "fin" \notin event_flag /\ rx_buffer = NoCall /\ Heard
        /\ l = Len(srv.pend) /\ Len(srv.pend) <= ReadParts
    BY <1>0, <1>1, <2>1 DEF AnswerSide
  <2>3. lag = Len(srv'.pend) /\ Len(srv'.pend) <= ReadParts
    BY <1>2, <2>2, SizeFacts
  <2>4. PICK r \in SeqNrs : r = rx_seq_nr_expected
    BY <1>0 DEF WireTypes
  <2>5. lag \in Nat /\ srv'.next = Plus(r, -lag)
    <3>1. lag = (r - srv'.next) % SeqSpace /\ srv'.next \in SeqNrs
      BY <1>1, <1>2, <2>4 DEF Lag, Servers
    <3>2. PICK x \in SeqNrs : x = srv'.next
      BY <3>1
    <3>3. (r - x) % SeqSpace \in 0..(SeqSpace - 1) /\ x = Plus(r, -((r - x) % SeqSpace))
      BY Behind
    <3>4. lag \in 0..(SeqSpace - 1) /\ x = Plus(r, -lag)
      BY <3>1, <3>2, <3>3
    <3> QED BY <3>2, <3>4, SizeFacts
  <2>6. ASSUME NEW m \in Answered' PROVE \E e \in 1..ReadParts : m.seq = Plus(r, -e)
    <3>1. CASE m \in Answered
      BY <2>2, <2>4, <3>1
    <3>2. CASE SentBy(m)'
      <4>1. PICK j \in 1..Len(srv'.pend) : m.seq = Plus(srv'.next, j - 1)
        BY <3>2 DEF SentBy
      <4> DEFINE e == lag - j + 1
                 d == j - 1
      <4>2. e \in 1..ReadParts /\ -lag + d = -e /\ d \in Int /\ -lag \in Int /\ r \in Int
        BY <1>2, <2>3, <2>5, <4>1, SizeFacts, SeqInt
      <4>3. m.seq = Plus(Plus(r, -lag), d)
        BY <2>5, <4>1
      <4> HIDE DEF e, d
      <4>4. Plus(Plus(r, -lag), d) = Plus(r, -lag + d)
        BY <4>2, PlusPlus
      <4> QED BY <4>2, <4>3, <4>4
    <3> QED BY <3>1, <3>2 DEF Delivers, Answered
  <2>7. \A t \in Threads : pc'[t] \notin Requesting
    BY <1>5 DEF Resting, Requesting
  <2> QED BY <1>1, <2>2, <2>3, <2>4, <2>6, <2>7 DEF AnswerSide
<1>6. CASE ~Resting' /\ \A t \in Threads : pc'[t] \notin Requesting
  BY <1>6 DEF AnswerSide
<1> QED BY <1>4, <1>5, <1>6

\* The server hears an acknowledgement, or its timer expires.
LEMMA SyncedLag ==
  ASSUME WireInv, state = "connected", Synced
  PROVE  Heard /\ Lag(srv.next) <= Len(srv.pend)
<1>1. CASE \E t \in Threads : pc[t] \in Requesting
  <2>1. PICK t \in Threads : pc[t] \in Requesting
    BY <1>1
  <2>2. PICK ok \in BOOLEAN, n \in 0..ReadParts : Pending(t, ok, n)
    BY <2>1 DEF WireInv, AnswerSide
  <2> QED BY <2>1, <2>2 DEF WireInv, AnswerSide, Pending
<1>2. CASE ~(\E t \in Threads : pc[t] \in Requesting)
  <2>1. Resting
    BY <1>2 DEF WireInv, Turns, Resting, Threads, User, Dog, Labels
  <2>2. Heard /\ Lag(srv.next) = Len(srv.pend) /\ Len(srv.pend) \in Nat
    BY <2>1 DEF WireInv, AnswerSide, WireTypes, Servers
  <2> QED BY <2>2
<1> QED BY <1>1, <1>2

LEMMA HearsAnswers ==
  ASSUME WireInv, SrvHearsAck \/ SrvTimer
  PROVE  AnswerSide'
<1> USE DEF txVars, rxVars, sockVars, callVars, flagVars, threadVars
<1>0. WireTypes /\ Turns /\ Sessions
  BY DEF WireInv
<1>1. UNCHANGED <<rx_buffer, rx_received, rx_seq_nr_expected, rx_hdr, pc, call, chunk,
                  evf_bits, event_flag, op, served, state>>
  BY DEF SrvHearsAck, SrvTimer
<1>2. CASE state # "connected"
  BY <1>0, <1>1, <1>2, NoSessionNoAnswers
<1>3. CASE state = "connected" /\ SrvHearsAck
  <2>1. /\ toServer # <<>> /\ toServer' = Tail(toServer)
        /\ Head(toServer).kind \in {"ack", "nack"} /\ Head(toServer) \in Up
        /\ srv.session /\ ~srv.fresh /\ srv' \in Servers /\ srv'.session /\ ~srv'.fresh
        /\ Heeds(Head(toServer)) /\ Delivers
    BY <1>0, <1>3, HearsFacts
  <2>2. ~HasDisc /\ Up' \subseteq Up
    <3>1. UpKept
      BY <1>0, <2>1, KeptUp
    <3> QED BY <1>0, <2>1, <3>1, DiscFirst DEF UpKept
  <2>3. Synced /\ Synced' /\ ~Opening'
    BY <2>1, <2>2 DEF Synced, Opening, HasDisc
  <2>4. Heard /\ Lag(srv.next) <= Len(srv.pend)
    BY <1>3, <2>3, SyncedLag
  <2>5. PICK k \in Nat : Dropped(k)
    BY <1>0, <1>1, <2>1, <2>3, <2>4, HeedsDrops
  <2>6. srv'.next = Expected(Head(toServer))
    BY <1>0, <1>1, <2>1, <2>3, <2>4, HeedsDrops
  <2>7. Heard'
    BY <1>0, <1>1, <2>1, <2>3, <2>4, <2>6, HeedsHeard
  <2> QED BY <1>1, <2>1, <2>2, <2>3, <2>5, <2>7, AnswersDrop
<1>4. CASE state = "connected" /\ SrvTimer
  <2>1. /\ toServer = <<>> /\ UNCHANGED toServer
        /\ srv.session /\ srv.pend # <<>> /\ srv' \in Servers
        /\ srv'.session = srv.session /\ srv'.fresh = srv.fresh
        /\ srv'.next = srv.next /\ srv'.pend = srv.pend /\ Delivers
    BY <1>0, <1>4, TimerFacts
  <2>2. ~srv.fresh
    BY <1>0, <2>1 DEF Sessions
  <2>3. Up = {} /\ Up' = {} /\ ~HasDisc /\ ~HasDisc' /\ Ordered(toServer)' = {}
    BY <2>1, EmptyQueue DEF Up, HasDisc
  <2>4. Synced /\ Synced' /\ ~Opening'
    BY <2>1, <2>2, <2>3 DEF Synced, Opening
  <2>5. Lag(srv.next)' = Lag(srv.next) /\ Lag(srv.next) \in Nat /\ Len(srv.pend) \in Nat
    <3>1. Lag(srv.next)' = Lag(srv.next)
      BY <1>1, <2>1 DEF Lag
    <3> QED BY <1>0, <3>1, LagFacts, SizeFacts DEF WireTypes, Servers
  <2>6. Dropped(0) /\ 0 \in Nat
    BY <2>1, <2>5 DEF Dropped
  <2>7. Heard'
    BY <2>3 DEF Heard
  <2> QED BY <1>1, <2>1, <2>3, <2>4, <2>6, <2>7, AnswersDrop
<1> QED BY <1>2, <1>3, <1>4

\* The server begins its answer: a call that is carried out has nothing of it yet.
LEMMA Carried ==
  ASSUME WireInv, NEW t \in Threads, pc[t] \in Requesting,
         NEW ok \in BOOLEAN, NEW old \in BOOLEAN, Received(t, old, 0), Answers(t, old, 0),
         served[call[t]] = 0, UNCHANGED <<rx_buffer, rx_received, rx_hdr, pc, call, evf_bits,
                                         event_flag, op>>
  PROVE  Received(t, ok, 0)' /\ Answers(t, ok, 0)
<1>1. PICK c : c = call[t]
  OBVIOUS
<1>2. Size(c, old) \in 1..ReadParts /\ Size(c, ok) \in 1..ReadParts /\ 0 \in Int
  BY ChunksRange, SizeFacts DEF Size
<1>3. Size(call[t], ok)' = Size(c, ok) /\ call'[t] = c
  BY <1>1 DEF Size
<1>4. \A z : (IF op[c] = "read" /\ ~z THEN 0 ELSE 0) = 0
  OBVIOUS
<1>5. /\ rx_received = [i \in 1..0 |-> [call |-> c, part |-> i, ok |-> old]]
      /\ op[c] = "read" =>
           /\ DOMAIN rx_hdr = {"buf", "got", "val"} /\ rx_hdr.val = NoHdr
           /\ pc[t] # "check" => rx_hdr.buf = c /\ rx_hdr.got = (0 > 0)
      /\ IF pc[t] = "check" THEN rx_buffer = NoCall ELSE rx_buffer = c
      /\ "fin" \notin event_flag \cup evf_bits[t] /\ pc[t] # "check"
  BY <1>1, <1>2, <1>4 DEF Received
<1>6. [i \in 1..0 |-> [call |-> c, part |-> i, ok |-> old]]
        = [i \in 1..0 |-> [call |-> c, part |-> i, ok |-> ok]]
  BY 1..0 = {}
<1>7. rx_received' = [i \in 1..(IF op[c] = "read" /\ ~ok THEN 0 ELSE 0) |->
                        [call |-> c, part |-> i, ok |-> ok]]
  BY <1>4, <1>5, <1>6
<1>8. 0 <= Size(c, ok) /\ ~(0 > 0)
  BY <1>2, SizeFacts
<1>9. Received(t, ok, 0)'
  BY <1>3, <1>5, <1>7, <1>8 DEF Received
<1>10. Answers(t, ok, 0)
  <2>1. \A m \in Answered : m.load.call # c /\ \E e \in 1..ReadParts : m.seq = Plus(rx_seq_nr_expected, -e)
    BY <1>1 DEF Answers
  <2>2. \A p \in Ordered(toClient) :
          p[1].kind = "data" /\ p[2].kind = "data" /\ p[1].load.call = c => p[2].load.call = c
    BY <1>1 DEF Answers
  <2> QED BY <1>1, <2>1, <2>2 DEF Answers
<1> QED BY <1>9, <1>10

\* The server takes a packet.
LEMMA TakesAnswers ==
  ASSUME WireInv, NEW ok \in BOOLEAN, SrvTakes(ok)
  PROVE  AnswerSide'
<1> USE DEF txVars, rxVars, sockVars, callVars, flagVars, threadVars
<1> DEFINE m == Head(toServer)
           s == Adopted(m)
           serves == m.seq = s.expected /\ m.load.fin
<1>0. WireTypes /\ CallState /\ Turns /\ Sessions /\ AnswerSide
  BY DEF WireInv
<1>1. /\ UNCHANGED <<rx_buffer, rx_received, rx_seq_nr_expected, rx_hdr, pc, call, chunk,
                     evf_bits, event_flag, op, state>>
      /\ toServer # <<>> /\ toServer' = Tail(toServer) /\ m \in Asked /\ m \in UpPackets
      /\ s \in Servers /\ Takes(m, s, ok) /\ Delivers
  BY <1>0, TakesFacts
<1>2. /\ UpKept /\ Synced' /\ ~Opening'
      /\ srv.fresh => Opening /\ s.next = Expected(m) /\ s.pend = <<>>
      /\ ~srv.fresh => Synced /\ s = Acked(srv, m.ack)
  BY <1>0, TakenSession
<1>3. /\ srv' \in Servers /\ srv'.next = s.next
      /\ srv'.pend = (IF serves THEN Answer(m.load.call, ok) ELSE s.pend)
      /\ served' = (IF serves THEN [served EXCEPT ![m.load.call] = Min(@ + 1, 2)] ELSE served)
  BY <1>1 DEF Takes
<1>4. m \in Up /\ m.kind = "data" /\ Up' \subseteq Up /\ Asked' \subseteq Asked
  BY <1>1, <1>2 DEF Asked, UpKept
<1>5. m.ack \in Int /\ Plus(m.ack, 1) = Expected(m) /\ Expected(m) \in SeqNrs
  BY <1>1, <1>4, UpFields, SeqInt DEF Expected
<1> HIDE DEF s
<1>6. CASE state # "connected"
  BY <1>0, <1>1, <1>6, NoSessionNoAnswers
<1>7. ASSUME state = "connected", ~srv.fresh
      PROVE  /\ Heard' /\ srv'.next = Expected(m)
             /\ ~serves => \E k \in Nat : Dropped(k)
  <2>1. Synced /\ Heard /\ Lag(srv.next) <= Len(srv.pend)
    BY <1>2, <1>7, SyncedLag
  <2>2. srv'.next = Expected(m)
    <3>1. srv.next \in SeqNrs /\ rx_seq_nr_expected \in SeqNrs /\ srv \in Servers
      BY <1>0 DEF WireTypes, Servers
    <3>2. Lag(Plus(m.ack, 1)) <= Lag(srv.next)
      BY <1>4, <1>5, <2>1 DEF Heard
    <3>3. Acked(srv, m.ack).next = Plus(m.ack, 1)
      BY <1>5, <2>1, <3>1, <3>2, AckedDrops
    <3> QED BY <1>2, <1>3, <1>5, <1>7, <3>3
  <2>3. Heard'
    BY <1>0, <1>1, <2>1, <2>2, HeedsHeard
  <2>4. ASSUME ~serves PROVE \E k \in Nat : Dropped(k)
    <3>1. Heeds(m)
      BY <1>2, <1>3, <1>5, <1>7, <2>4 DEF Heeds
    <3> QED BY <1>0, <1>1, <1>3, <1>4, <2>1, <3>1, HeedsDrops
  <2> QED BY <2>2, <2>3, <2>4
<1>8. CASE state = "connected" /\ ~srv.fresh /\ ~serves
  <2>1. Synced /\ Heard' /\ \E k \in Nat : Dropped(k)
    BY <1>2, <1>7, <1>8
  <2>2. UNCHANGED served
    BY <1>3, <1>8
  <2> QED BY <1>1, <1>2, <1>4, <2>1, <2>2, AnswersDrop
<1>9. CASE state = "connected" /\ (srv.fresh \/ serves)
  <2>1. CASE \E t \in Threads : pc[t] \in Requesting
    <3>1. PICK t \in Threads : pc[t] \in Requesting
      BY <2>1
    <3>2. PICK c : c = call[t]
      OBVIOUS
    <3>3. c \in Calls /\ \A u \in Threads : u # t => pc'[u] = "idle"
      BY <1>0, <1>1, <3>1, <3>2, AtWork DEF CallState
    <3>4. PICK old \in BOOLEAN, n \in 0..ReadParts :
                 /\ Received(t, old, n) /\ Answers(t, old, n)
                 /\ Synced => Pending(t, old, n)
                 /\ Opening => n = 0 /\ Unheard(t)
      BY <1>0, <3>1 DEF AnswerSide
    <3>5. served[c] = 0
      <4>1. CASE serves
        <5>1. served[m.load.call] = 0 /\ m.load.call = call[t]
          BY <3>1, <4>1, ServesNew DEF s
        <5> QED BY <3>2, <5>1
      <4>2. CASE srv.fresh
        BY <1>2, <3>1, <3>2, <4>2 DEF WireInv, RequestSide, Line
      <4> QED BY <1>9, <4>1, <4>2
    <3>6. serves => m.load.call = c
      BY <3>1, <3>2, ServesNew DEF s
    <3>7. n = 0
      BY <3>2, <3>4, <3>5, SizeFacts DEF Received
    <3>8. Expected(m) = rx_seq_nr_expected /\ srv'.next = rx_seq_nr_expected /\ Heard'
      <4>1. CASE srv.fresh
        <5>1. Unheard(t) /\ srv'.next = Expected(m)
          BY <1>2, <1>3, <3>4, <4>1
        <5>2. Expected(m) = rx_seq_nr_expected
          BY <1>1, <5>1 DEF Unheard
        <5>3. \A x \in Up' : Expected(x) = rx_seq_nr_expected
          <6>1. \A x \in Up' : x.kind # "disc" /\ x.kind \in {"disc", "data"} /\ x \in Up
            BY <1>2, <1>4, <5>1 DEF Unheard, Synced, HasDisc
          <6> QED BY <5>1, <6>1 DEF Unheard, Asked
        <5>4. \A x : Expected(x)' = Expected(x)
          BY DEF Expected
        <5>5. \A p \in Ordered(toServer)' : p[1] \in Up' /\ p[2] \in Up'
          BY DEF Ordered, Up
        <5>6. PICK z : z = Lag(rx_seq_nr_expected)'
          OBVIOUS
        <5>7. \A x \in Up' : Lag(Expected(x))' = z
          BY <1>1, <5>3, <5>4, <5>6 DEF Lag
        <5>8. Lag(srv.next)' = z
          BY <1>1, <5>1, <5>2, <5>6 DEF Lag
        <5>9. z \in Int
          <6>1. SeqSpace \in Nat \ {0} /\ rx_seq_nr_expected' \in Int
            BY <1>0, <1>1, SizesAssumption, SeqInt DEF WireTypes
          <6> QED BY <5>6, <6>1, ModRange DEF Lag
        <5>10. Heard'
          BY <5>5, <5>7, <5>8, <5>9 DEF Heard
        <5> QED BY <5>1, <5>2, <5>10
      <4>2. CASE ~srv.fresh
        <5>1. Heard' /\ srv'.next = Expected(m) /\ Synced /\ serves
          BY <1>2, <1>7, <1>9, <4>2
        <5>2. Pending(t, old, n) /\ m.load.call = c
          BY <3>4, <3>6, <5>1
        <5> QED BY <1>1, <3>2, <3>5, <5>1, <5>2 DEF Pending
      <4> QED BY <4>1, <4>2
    <3>9. Lag(srv.next)' = 0
      <4>1. SeqSpace \in Nat \ {0} /\ rx_seq_nr_expected \in Int
            /\ rx_seq_nr_expected - rx_seq_nr_expected = 0
        BY <1>0, SizesAssumption, SeqInt DEF WireTypes
      <4> QED BY <1>1, <3>8, <4>1 DEF Lag
    <3>10. \A k, z : Payload(call[t], k, z)' = Payload(c, k, z)
      BY <1>1, <3>2 DEF Payload
    <3>11. \A z : Size(call[t], z)' = Size(c, z)
      BY <1>1, <3>2 DEF Size
    <3>12. call'[t] = c /\ pc'[t] \in Requesting /\ 0 \in 0..ReadParts /\ 0 \in Int
      BY <1>1, <3>1, <3>2, SizeFacts
    <3>13. CASE serves
      <4>1. srv'.pend = Answer(c, ok) /\ served'[c] = 1
        BY <1>0, <1>3, <3>3, <3>5, <3>6, <3>13 DEF Min, WireTypes
      <4>2. /\ Answer(c, ok) \in Seq(Payloads) /\ Len(Answer(c, ok)) = Size(c, ok)
            /\ Size(c, ok) \in 1..ReadParts
            /\ Answer(c, ok) = [k \in 1..Size(c, ok) |-> Payload(c, k, ok)]
        BY <1>0, <3>3, AnswerType DEF WireTypes
      <4>3. Received(t, ok, 0)' /\ Answers(t, ok, 0)
        BY <1>1, <3>1, <3>2, <3>4, <3>5, <3>7, Carried
      <4>4. \A i \in DOMAIN srv'.pend : i \in Int /\ srv'.pend[i] = Payload(c, i, ok)
        BY <4>1, <4>2, SizeFacts
      <4>5. \A i \in DOMAIN srv'.pend : srv'.pend[i] = Payload(call[t], 0 - 0 + i, ok)'
        <5>1. \A i \in Int : 0 - 0 + i = i
          OBVIOUS
        <5> QED BY <3>10, <4>4, <5>1
      <4>6. /\ 0 <= Len(srv'.pend) /\ Len(srv'.pend) <= ReadParts
            /\ Len(srv'.pend) = Size(call[t], ok)' - (0 - 0)
        BY <3>11, <4>1, <4>2, SizeFacts
      <4>7. PICK lag : lag = Lag(srv.next)' /\ lag = 0
        BY <3>9
      <4>8. served'[call'[t]] = 1 /\ served'[call'[t]] # 0
        BY <3>12, <4>1
      <4>9. Pending(t, ok, 0)'
        BY <4>5, <4>6, <4>7, <4>8 DEF Pending
      <4>10. Answers(t, ok, 0)'
        <5>1. served'[call[t]] = 1 /\ call[t] \in Calls
          BY <3>2, <3>3, <4>1
        <5> QED BY <1>0, <1>1, <1>3, <3>12, <4>3, <4>9, <5>1, AnswersSent
      <4> QED BY <1>2, <3>3, <3>8, <3>12, <4>3, <4>9, <4>10, AnswerGoesOn
    <3>14. CASE ~serves
      <4>1. srv.fresh /\ srv'.pend = <<>> /\ UNCHANGED served
        BY <1>2, <1>3, <1>9, <3>14
      <4>2. Unheard(t)
        BY <1>2, <3>4, <4>1
      <4>3. Received(t, old, 0)' /\ Answers(t, old, 0)
        BY <1>1, <3>1, <3>2, <3>4, <3>5, <3>7, Carried
      <4>4. PICK lag : lag = Lag(srv.next)' /\ lag = 0
        BY <3>9
      <4>5. \A x : Expected(x)' = Expected(x)
        BY DEF Expected
      <4>6. \A x \in Asked' : Expected(x)' = rx_seq_nr_expected'
        BY <1>1, <1>4, <4>2, <4>5 DEF Unheard
      <4>7. served'[call'[t]] = 0 /\ served'[call'[t]] # 1 /\ Len(srv'.pend) = 0 /\ DOMAIN srv'.pend = {}
        BY <3>5, <3>12, <4>1
      <4>8. 0 <= ReadParts /\ 0 <= 0
        BY SizeFacts
      <4>9. Pending(t, old, 0)'
        BY <4>4, <4>6, <4>7, <4>8 DEF Pending
      <4>10. Answers(t, old, 0)'
        <5>1. served'[call[t]] = 0 /\ served[call[t]] = 0 /\ call[t] \in Calls /\ ~(0 > 0)
          BY <3>2, <3>3, <3>5, <4>1
        <5> QED BY <1>0, <1>1, <1>3, <3>12, <4>3, <4>9, <5>1, AnswersSent
      <4> QED BY <1>2, <3>3, <3>8, <3>12, <4>3, <4>9, <4>10, AnswerGoesOn
    <3> QED BY <3>13, <3>14
  <2>2. CASE ~(\E t \in Threads : pc[t] \in Requesting)
    <3>1. Resting
      BY <1>9, <2>2 DEF WireInv, Turns, Resting, Threads, User, Dog, Labels
    <3>2. ~serves
      BY <3>1, ServesNew DEF s
    <3>3. Opening
      BY <1>2, <1>9, <3>2
    <3>4. m.kind = "disc"
      BY <1>0, <1>4, <3>1, <3>3 DEF AnswerSide
    <3> QED BY <1>4, <3>4
  <2> QED BY <2>1, <2>2
<1> QED BY <1>6, <1>8, <1>9

LEMMA NextAnswers == WireInv /\ Turns' /\ [Next]_vars => AnswerSide'
<1> SUFFICES ASSUME WireInv, Turns', [Next]_vars PROVE AnswerSide'
  OBVIOUS
<1>1. CASE \E t \in Threads : Steps(t)
  BY <1>1, ThreadAnswers
<1>2. CASE BdCalls \/ FileCalls \/ DogSteps
  BY <1>2, CallerAnswers
<1>3. CASE Ist
  BY <1>3, IstAnswers
<1>4. CASE Server
  BY <1>4, OtherAnswers, TakesAnswers, HearsAnswers DEF Server
<1>5. CASE Faults \/ (\E due \in BOOLEAN : TimeoutCb(due)) \/ Rests \/ UNCHANGED vars
  BY <1>5, OtherAnswers
<1> QED BY <1>1, <1>2, <1>3, <1>4, <1>5 DEF Next

----------------------------------------------------------------------------
(* The theorems *)

LEMMA InitWire == Init => WireInv
<1>1. Init => WireTypes
  BY InitTypes
<1> QED BY <1>1, InitTurns, InitCalls, InitSessions, InitRequests, InitAnswers DEF WireInv

LEMMA NextWire == WireInv /\ NoStaleInform /\ [Next]_vars => WireInv'
<1> SUFFICES ASSUME WireInv, NoStaleInform, [Next]_vars PROVE WireInv'
  OBVIOUS
<1>1. Turns'
  BY NextTurns DEF WireInv
<1>2. WireTypes'
  BY NextTypes
<1>3. CallState'
  BY <1>1, <1>2, NextCalls
<1>4. Sessions'
  BY <1>1, NextSessions
<1>5. RequestSide'
  BY <1>1, NextRequests
<1>6. AnswerSide'
  BY <1>1, NextAnswers
<1> QED BY <1>1, <1>2, <1>3, <1>4, <1>5, <1>6 DEF WireInv

\* When the caller looks at its answer, it has all of it, and it was carried out.
LEMMA Checked ==
  ASSUME WireInv, NEW t \in Threads, pc[t] = "check"
  PROVE  \E ok \in BOOLEAN : /\ Received(t, ok, Size(call[t], ok)) /\ served[call[t]] = 1
                             /\ call[t] \in Calls /\ Size(call[t], ok) \in 1..ReadParts
<1>1. pc[t] \in Requesting
  BY DEF Requesting
<1>2. PICK ok \in BOOLEAN, n \in 0..ReadParts : Received(t, ok, n)
  BY <1>1 DEF WireInv, AnswerSide
<1>3. n = Size(call[t], ok) /\ (n > 0 => served[call[t]] = 1)
  BY <1>2 DEF Received
<1>4. Size(call[t], ok) \in 1..ReadParts
  BY ChunksRange, SizeFacts DEF Size
<1>5. call[t] \in Calls
  BY <1>1 DEF WireInv, CallState
<1> QED BY <1>2, <1>3, <1>4, <1>5, SizeFacts

LEMMA WireOwn == WireInv => AnswerIsOwn
<1> SUFFICES ASSUME WireInv, NEW t \in Threads, pc[t] = "check", TRUE \in Verdicts(t)
             PROVE  /\ Len(rx_received) = Parts(op[call[t]])
                    /\ \A i \in DOMAIN rx_received :
                         rx_received[i].call = call[t] /\ rx_received[i].part = i
  BY DEF AnswerIsOwn
<1>1. PICK c : c = call[t]
  OBVIOUS
<1>2. PICK ok \in BOOLEAN : /\ Received(t, ok, Size(c, ok)) /\ c \in Calls
                            /\ Size(c, ok) \in 1..ReadParts
  BY <1>1, Checked
<1>3. PICK n : n = Size(c, ok)
  OBVIOUS
<1>4. n \in Nat /\ n # 0 /\ n = IF ok THEN Parts(op[c]) ELSE 1
  BY <1>2, <1>3, SizeFacts DEF Size
<1>5. /\ rx_received = [i \in 1..(IF op[c] = "read" /\ ~ok THEN 0 ELSE n) |->
                          [call |-> c, part |-> i, ok |-> ok]]
      /\ op[c] = "read" => rx_hdr.val = [call |-> c, ok |-> ok]
  BY <1>1, <1>2, <1>3, <1>4 DEF Received
<1>6. op[c] = "read" => ok
  <2> SUFFICES ASSUME op[c] = "read" PROVE ok
    OBVIOUS
  <2>1. c # NoCall
    BY <1>2, BoundsAssumption DEF Calls, NoCall
  <2>2. rx_hdr.val # NoHdr /\ rx_hdr.val.ok = ok
    BY <1>5, <2>1 DEF NoHdr
  <2>3. Verdicts(t) = {rx_hdr.val.ok}
    BY <1>1, <2>2 DEF Verdicts
  <2> QED BY <2>2, <2>3
<1>7. rx_received = [i \in 1..n |-> [call |-> c, part |-> i, ok |-> ok]]
  BY <1>5, <1>6
<1>8. Len(rx_received) = n
  BY <1>4, <1>7, GrowAnswer
<1>9. n = Parts(op[c])
  BY <1>4, <1>6 DEF Parts
<1>10. \A i \in DOMAIN rx_received : rx_received[i].call = c /\ rx_received[i].part = i
  BY <1>7
<1> QED BY <1>1, <1>8, <1>9, <1>10

\* Whatever the network loses, repeats or delays, and however often the server
\* restarts: a call that udpfs_bd.c or udpfs_ioman.c reports as done has its own
\* answer in its buffer, all of it and in order.  The hypothesis is the one thing
\* that udprdma.c leaves to chance: that an INFORM of an earlier search, still
\* noted in the event flag when udprdma_discover waits again, is not of a session
\* that the server has used and goes on with.
THEOREM AnswersAreOwn == Spec /\ []NoStaleInform => []AnswerIsOwn
<1>1. Spec /\ []NoStaleInform => []WireInv
  BY InitWire, NextWire, PTL DEF Spec
<1> QED BY <1>1, WireOwn, PTL

\* The end of a call.
LEMMA EndsCall ==
  ASSUME WireInv, NEW t \in Threads, pc[t] \in Requesting, NEW how \in {"ok", "failed"},
         EndCall(t, how), UNCHANGED served, how = "ok" => served[call[t]] = 1
  PROVE  X!Next
<1>1. PICK c \in Calls : c = call[t] /\ outcome[c] = "called"
  BY DEF WireInv, CallState
<1>2. outcome' = [outcome EXCEPT ![c] = how]
  BY <1>1 DEF EndCall
<1>3. X!Succeed(c) \/ X!Fail(c)
  BY <1>1, <1>2 DEF X!Succeed, X!Fail
<1> QED BY <1>3 DEF X!Next

LEMMA BeginsCall ==
  ASSUME NEW t \in Threads, NEW c, NEW o, BeginCall(t, c, o), UNCHANGED served
  PROVE  X!Next
<1>1. c \in Calls /\ X!Begin(c)
  BY DEF BeginCall, Unused, X!Begin
<1> QED BY <1>1 DEF X!Next

LEMMA ThreadExchanges ==
  ASSUME WireInv, NEW t \in Threads, Steps(t)
  PROVE  X!Next \/ UNCHANGED <<outcome, served>>
<1> USE DEF callVars
<1>1. pc[t] \in Requesting /\ UNCHANGED served
  BY DEF Steps, Transmit, SendWakes, SendGot, RecvWakes, RecvFinished, RecvGoesOn,
         RecvTimesOut, Check, Requesting
<1>2. CASE Transmit(t) \/ SendWakes(t) \/ RecvWakes(t) \/ RecvFinished(t) \/ RecvGoesOn(t)
  BY <1>2 DEF Transmit, SendWakes, RecvWakes, RecvFinished, RecvGoesOn
<1>3. CASE SendGot(t)
  <2>1. UNCHANGED outcome \/ EndCall(t, "failed")
    BY <1>3 DEF SendGot
  <2> QED BY <1>1, <2>1, EndsCall
<1>4. CASE RecvTimesOut(t)
  <2>1. EndCall(t, "failed")
    BY <1>4 DEF RecvTimesOut
  <2> QED BY <1>1, <2>1, EndsCall
<1>5. ASSUME NEW v \in BOOLEAN, Check(t, v) PROVE X!Next
  <2>1. EndCall(t, IF v THEN "ok" ELSE "failed") /\ pc[t] = "check"
    BY <1>5 DEF Check
  <2>2. served[call[t]] = 1
    BY <2>1, Checked
  <2>3. PICK how \in {"ok", "failed"} : EndCall(t, how)
    BY <2>1
  <2> QED BY <1>1, <2>2, <2>3, EndsCall
<1> QED BY <1>2, <1>3, <1>4, <1>5 DEF Steps

LEMMA TakesExchanges ==
  ASSUME WireInv, NEW ok \in BOOLEAN, SrvTakes(ok)
  PROVE  X!Next \/ UNCHANGED <<outcome, served>>
<1> DEFINE m == Head(toServer)
           s == Adopted(m)
           serves == m.seq = s.expected /\ m.load.fin
<1>1. /\ served' = (IF serves THEN [served EXCEPT ![m.load.call] = Min(@ + 1, 2)] ELSE served)
      /\ UNCHANGED outcome
  BY DEF SrvTakes, callVars
<1>2. CASE ~serves
  BY <1>1, <1>2
<1>3. CASE serves
  <2>1. PICK c \in Calls : /\ c = m.load.call /\ served[c] = 0
                           /\ outcome[c] \in {"called", "failed"}
    BY <1>3, ServesNew
  <2>2. served' = [served EXCEPT ![c] = 1]
    <3>1. Min(0 + 1, 2) = 1
      BY DEF Min
    <3>2. served' = [served EXCEPT ![c] = Min(served[c] + 1, 2)]
      BY <1>1, <1>3, <2>1
    <3> QED BY <2>1, <3>1, <3>2
  <2>3. X!Serve(c)
    BY <1>1, <2>1, <2>2 DEF X!Serve
  <2> QED BY <2>3 DEF X!Next
<1> QED BY <1>2, <1>3

\* A step of the transport is a step of the exchange, or changes nothing of it.
LEMMA NextExchanges == WireInv /\ [Next]_vars => [X!Next]_(X!xvars)
<1> SUFFICES ASSUME WireInv, [Next]_vars PROVE X!Next \/ UNCHANGED <<outcome, served>>
  BY DEF X!xvars
<1> USE DEF callVars
<1>1. CASE \E t \in Threads : Steps(t)
  BY <1>1, ThreadExchanges
<1>2. CASE BdCalls \/ FileCalls
  <2>1. /\ User \in Threads /\ UNCHANGED served /\ \E o \in Ops, c \in Calls : BeginCall(User, c, o)
    BY <1>2, UserBegins
  <2> QED BY <2>1, BeginsCall
<1>3. CASE DiscoverFinds
  <2>1. /\ Dog \in Threads /\ UNCHANGED served
        /\ \/ \E c \in Calls : BeginCall(Dog, c, "stat")
           \/ UNCHANGED outcome
    BY <1>3, DogFinds
  <2> QED BY <2>1, BeginsCall
<1>4. CASE DogChecks \/ DiscoverWakes \/ DiscoverRetries
  BY <1>4 DEF DogChecks, DiscoverWakes, DiscoverRetries
<1>5. CASE Ist
  BY <1>5 DEF Ist, IstInform, IstAck, IstData
<1>6. CASE SrvDiscovers \/ SrvHearsAck \/ SrvIgnores \/ SrvTimer \/ Faults
  BY <1>6
     DEF SrvDiscovers, SrvHearsAck, SrvIgnores, SrvTimer, Faults, SrvRestarts, Lose,
         Repeat
<1>7. CASE \E ok \in BOOLEAN : SrvTakes(ok)
  BY <1>7, TakesExchanges
<1>8. CASE (\E due \in BOOLEAN : TimeoutCb(due)) \/ Rests \/ UNCHANGED vars
  BY <1>8 DEF TimeoutCb, Rests, vars
<1> QED BY <1>1, <1>2, <1>3, <1>4, <1>5, <1>6, <1>7, <1>8 DEF Next, DogSteps, Server

\* The transport of udprdma.c implements the exchange, under the same hypothesis:
\* no request is carried out twice, however often it is sent again, and none is
\* reported as done that was not carried out.
THEOREM TransportExchanges == Spec /\ []NoStaleInform => Exchanges
<1>1. Spec /\ []NoStaleInform => []WireInv
  BY InitWire, NextWire, PTL DEF Spec
<1>2. Init => X!Init
  BY DEF Init, X!Init
<1> QED BY <1>1, <1>2, NextExchanges, PTL DEF Spec, Exchanges, X!Spec
=============================================================================
