------------------------------- MODULE UdpFs -------------------------------
(***************************************************************************)
(* UDPFS: block and file access over UDPRDMA (src/modules/network/         *)
(* udpfs_bd and udpfs_ioman: udprdma.c, udpfs_core.c, udpfs_bd.c,          *)
(* udpfs_ioman.c), against a server over a network that loses and repeats  *)
(* packets.                                                                *)
(*                                                                         *)
(* Two threads use the one socket: the caller of the device, and the       *)
(* watchdog that finds the server and, for the block device, asks its size *)
(* and registers it.  Packets are taken by _ist, on a thread above both;   *)
(* the alarm is an interrupt.  WaitEventFlag with WEF_CLEAR clears the     *)
(* whole flag.                                                             *)
(*                                                                         *)
(* The server is not part of the repository.  It is modelled as the client *)
(* needs it: DISCOVERY opens a session whose numbers are taken from the    *)
(* first packet (the client keeps its own across sessions), requests are   *)
(* taken in order and once, an answer is sent in windows, again on a NACK  *)
(* or a timeout (udprdma_packet.h: "Retransmit on NACK or timeout").       *)
(***************************************************************************)
EXTENDS Integers, Sequences, FiniteSets

CONSTANTS
  Devices,       \* "bd" and/or "files": which driver is loaded
  SeqSpace,      \* 4096: the sequence numbers are masked with 0xFFF
  MaxRetries,    \* UDPRDMA_MAX_RETRIES
  AckWindow,     \* UDPRDMA_RX_ACK_WINDOW, also the server's window
  ReadParts,     \* packets of the answer to a read
  WriteChunks,   \* packets of a write
  Refuses,       \* operations the server may answer with an error
  MaxCalls,      \* bound: calls of the device in a behaviour
  MaxFaults      \* bound: packets lost or repeated, restarts, errors, hurried
                 \* timeouts

ASSUME SizesAssumption ==
  /\ SeqSpace \in Nat \ {0} /\ MaxRetries \in Nat \ {0}
  /\ AckWindow \in Nat \ {0} /\ ReadParts \in Nat \ {0}
  /\ WriteChunks \in Nat \ {0}
  /\ ReadParts + WriteChunks < SeqSpace
ASSUME BoundsAssumption == MaxCalls \in Nat /\ MaxFaults \in Nat
ASSUME DevicesAssumption == Devices \subseteq {"bd", "files"}

User == "user"
Dog  == "dog"
Threads == {User, Dog}

Ops     == {"read", "write", "stat", "file"}
Calls   == 1..(MaxCalls + MaxFaults + 2)
NoCall  == 0
SeqNrs  == 0..(SeqSpace - 1)
Bits    == {"info", "ack", "nack", "timeout", "fin", "window"}

Parts(o)  == IF o = "read" THEN ReadParts ELSE 1
Chunks(o) == IF o = "write" THEN WriteChunks ELSE 1

Plus(n, k) == (n + k) % SeqSpace

VARIABLES
  dev,                 \* the driver of this behaviour
  state,               \* of the socket
  tx_seq_nr,
  tx_seq_nr_acked,
  rx_buffer,           \* the call whose buffer is registered, or NoCall
  rx_received,         \* what was stored in it: <<call, part>>
  rx_seq_nr_expected,
  rx_window_count,
  rx_nack_sent,
  rx_hdr,              \* rx_hdr_buffer's call, rx_hdr_received, its contents
  event_flag,
  alarm,               \* _timeout_cb is scheduled
  g_udpfs_registered,
  pc,                  \* thread -> where it is
  call,                \* thread -> its call
  chunk,               \* thread -> packet of the call it sends
  retries,             \* thread -> retries
  sent_seq_nr,         \* thread -> sent_seq_nr
  evf_bits,            \* thread -> evf_bits
  toServer,            \* packets on the wire
  toClient,
  srv,                 \* the server's session
  op,                  \* call -> its operation
  outcome,             \* history: call -> how it ended
  served,              \* history: call -> how often the server carried it out
  faults

sockVars   == <<state, g_udpfs_registered>>
txVars     == <<tx_seq_nr, tx_seq_nr_acked>>
rxVars     == <<rx_buffer, rx_received, rx_seq_nr_expected, rx_window_count,
                rx_nack_sent, rx_hdr>>
flagVars   == <<event_flag, alarm>>
threadVars == <<pc, call, chunk, retries, sent_seq_nr, evf_bits>>
callVars   == <<op, outcome>>
vars == <<dev, sockVars, txVars, rxVars, flagVars, threadVars, toServer,
          toClient, srv, callVars, served, faults>>

Goto(t, label) == pc' = [pc EXCEPT ![t] = label]

----------------------------------------------------------------------------
(* Packets *)

NoHdr == [call |-> NoCall, ok |-> FALSE]

\* part k of the answer to call c: a read's data follows a result header in its
\* first packet; an error is a header or a message without data.
Payload(c, k, ok) ==
  [call |-> c, part |-> k, ok |-> ok,
   hdr  |-> op[c] = "read" /\ k = 1,
   data |-> ok \/ op[c] # "read",
   fin  |-> k = Parts(op[c]) \/ ~ok]
Answer(c, ok) == [k \in 1..(IF ok THEN Parts(op[c]) ELSE 1) |-> Payload(c, k, ok)]

Disc      == [kind |-> "disc"]
Inform    == [kind |-> "inform"]
Ack(n)    == [kind |-> "ack", ack |-> n]
Nack(n)   == [kind |-> "nack", ack |-> n]
Data(n, a, p) == [kind |-> "data", seq |-> n, ack |-> a, load |-> p]

----------------------------------------------------------------------------
Init ==
  /\ dev \in Devices
  /\ state = "init" /\ g_udpfs_registered = FALSE
  /\ tx_seq_nr = 0 /\ tx_seq_nr_acked = 0
  /\ rx_buffer = NoCall /\ rx_received = <<>> /\ rx_seq_nr_expected = 0
  /\ rx_window_count = 0 /\ rx_nack_sent = FALSE
  /\ rx_hdr = [buf |-> NoCall, got |-> FALSE, val |-> NoHdr]
  /\ event_flag = {} /\ alarm = FALSE
  /\ pc = [t \in Threads |-> "idle"]
  /\ call = [t \in Threads |-> NoCall]
  /\ chunk = [t \in Threads |-> 1]
  /\ retries = [t \in Threads |-> 0]
  /\ sent_seq_nr = [t \in Threads |-> 0]
  /\ evf_bits = [t \in Threads |-> {}]
  /\ toServer = <<>> /\ toClient = <<>>
  /\ srv = [session |-> FALSE, fresh |-> FALSE, expected |-> 0, next |-> 0,
            sent |-> 0, pend |-> <<>>, tries |-> 0]
  /\ op = [c \in Calls |-> "file"]
  /\ outcome = [c \in Calls |-> "none"]
  /\ served = [c \in Calls |-> 0] /\ faults = 0

----------------------------------------------------------------------------
(* udprdma_send, udprdma_send_ll, udprdma_recv *)

\* Mutant: any socket that was bound counts as connected.
ConnectedIfBound == state # "init"

Connected == state = "connected"
Idle == toClient = <<>> /\ toServer = <<>>
Unused    == {c \in Calls : outcome[c] = "none"}

\* The start of a request: udprdma_set_rx_app_header (reads only) and
\* udprdma_set_rx_buffer, then udprdma_send.
BeginCall(t, c, o) ==
  /\ c \in Unused
  /\ op' = [op EXCEPT ![c] = o]
  /\ outcome' = [outcome EXCEPT ![c] = "called"]
  /\ call' = [call EXCEPT ![t] = c]
  /\ chunk' = [chunk EXCEPT ![t] = 1]
  /\ retries' = [retries EXCEPT ![t] = 0]
  /\ rx_buffer' = c /\ rx_received' = <<>>
  /\ rx_window_count' = 0 /\ rx_nack_sent' = FALSE
  /\ rx_hdr' = IF o = "read"
               THEN [buf |-> c, got |-> FALSE, val |-> NoHdr] ELSE rx_hdr
  /\ Goto(t, "send")

\* The locals go with the call that used them.
EndCall(t, how) ==
  /\ outcome' = [outcome EXCEPT ![call[t]] = how]
  /\ call' = [call EXCEPT ![t] = NoCall]
  /\ chunk' = [chunk EXCEPT ![t] = 1]
  /\ retries' = [retries EXCEPT ![t] = 0]
  /\ Goto(t, "idle")

\* What the wait returned has been looked at.
Forget(t) == evf_bits' = [evf_bits EXCEPT ![t] = {}]

NextSeqNr == Plus(tx_seq_nr, 1)

\* One pass of the send loop up to the wait.
Transmit(t) ==
  /\ pc[t] = "send"
  /\ sent_seq_nr' = [sent_seq_nr EXCEPT ![t] = tx_seq_nr]
  /\ toServer' = Append(toServer,
       Data(tx_seq_nr, Plus(rx_seq_nr_expected, -1),
            [call |-> call[t], part |-> chunk[t],
             fin |-> chunk[t] = Chunks(op[call[t]])]))
  /\ tx_seq_nr' = NextSeqNr
  /\ event_flag' = IF retries[t] = 0 THEN event_flag \ {"ack"} ELSE event_flag
  /\ alarm' = TRUE
  /\ Goto(t, "snd_wait")
  /\ UNCHANGED <<dev, sockVars, tx_seq_nr_acked, rxVars, call, chunk, retries,
                 evf_bits, toClient, srv, callVars, served, faults>>

SendWakes(t) ==
  /\ pc[t] = "snd_wait" /\ event_flag \cap {"ack", "timeout"} # {}
  /\ evf_bits' = [evf_bits EXCEPT ![t] = event_flag]
  /\ Goto(t, "snd_got")
  /\ UNCHANGED <<dev, sockVars, txVars, rxVars, flagVars, call, chunk, retries,
                 sent_seq_nr, toServer, toClient, srv, callVars, served, faults>>

\* The difference is masked to 12 bits before the test for a sign.
AckAccepted(acked, sent) ==
  LET diff == (acked - sent) % SeqSpace
  IN diff >= 0 \/ diff < -(SeqSpace \div 2)

\* Mutant: the next attempt has a number of its own.
RetryRenumbered(t) == tx_seq_nr' = tx_seq_nr

RetrySeqNr(t) == tx_seq_nr' = sent_seq_nr[t]

SendGot(t) ==
  /\ pc[t] = "snd_got"
  /\ event_flag' = event_flag \ {"ack", "timeout"}
  /\ IF "ack" \in evf_bits[t] /\ AckAccepted(tx_seq_nr_acked, sent_seq_nr[t])
     THEN /\ retries' = [retries EXCEPT ![t] = 0]
          /\ IF chunk[t] < Chunks(op[call[t]])
             THEN /\ chunk' = [chunk EXCEPT ![t] = @ + 1]
                  /\ Goto(t, "send") /\ alarm' = FALSE
             ELSE Goto(t, "recv") /\ alarm' = TRUE /\ UNCHANGED chunk
          /\ UNCHANGED <<state, tx_seq_nr, call, outcome>>
     ELSE /\ alarm' = FALSE
          /\ RetrySeqNr(t)
          /\ IF retries[t] + 1 < MaxRetries
             THEN /\ retries' = [retries EXCEPT ![t] = @ + 1]
                  /\ Goto(t, "send") /\ UNCHANGED <<state, call, chunk, outcome>>
             ELSE state' = "disconnected" /\ EndCall(t, "failed")
  /\ Forget(t)
  /\ sent_seq_nr' = [sent_seq_nr EXCEPT ![t] = 0]
  /\ UNCHANGED <<dev, g_udpfs_registered, tx_seq_nr_acked, rxVars, toServer,
                 toClient, srv, op, served, faults>>

\* WEF_CLEAR
Cleared == {}

RecvWakes(t) ==
  /\ pc[t] = "recv"
  /\ event_flag \cap {"fin", "nack", "window", "timeout"} # {}
  /\ evf_bits' = [evf_bits EXCEPT ![t] = event_flag]
  /\ event_flag' = Cleared
  /\ Goto(t, "rcv_got")
  /\ UNCHANGED <<dev, sockVars, txVars, rxVars, alarm, call, chunk, retries,
                 sent_seq_nr, toServer, toClient, srv, callVars, served, faults>>

\* Mutant: a failed receive leaves the session as it was.
StaysUp == UNCHANGED state

GoesDown == state' = "disconnected"

Unregister == rx_buffer' = NoCall /\ rx_hdr' = [rx_hdr EXCEPT !.buf = NoCall]

\* Mutant: the alarm is armed once for the whole receive.
NotRearmed == alarm' = FALSE

Rearmed == alarm' = TRUE

NackExpected == Nack(rx_seq_nr_expected)
AckLast      == Ack(Plus(rx_seq_nr_expected, -1))

RecvFinished(t) ==
  /\ pc[t] = "rcv_got" /\ "fin" \in evf_bits[t]
  /\ toServer' = Append(toServer, AckLast)
  /\ Unregister
  /\ alarm' = FALSE
  /\ Forget(t)
  /\ Goto(t, "check")
  /\ UNCHANGED <<dev, sockVars, txVars, rx_received, rx_seq_nr_expected,
                 rx_window_count, rx_nack_sent, event_flag, call, chunk,
                 retries, sent_seq_nr, toClient, srv, callVars, served, faults>>

RecvGoesOn(t) ==
  /\ pc[t] = "rcv_got" /\ "fin" \notin evf_bits[t]
  /\ evf_bits[t] \cap {"nack", "window"} # {}
  /\ toServer' = Append(toServer,
                        IF "nack" \in evf_bits[t] THEN NackExpected ELSE AckLast)
  /\ Rearmed
  /\ Forget(t)
  /\ Goto(t, "recv")
  /\ UNCHANGED <<dev, sockVars, txVars, rxVars, event_flag, call, chunk, retries,
                 sent_seq_nr, toClient, srv, callVars, served, faults>>

RecvTimesOut(t) ==
  /\ pc[t] = "rcv_got"
  /\ evf_bits[t] \cap {"fin", "nack", "window"} = {}
  /\ Unregister
  /\ GoesDown
  /\ alarm' = FALSE
  /\ Forget(t)
  /\ EndCall(t, "failed")
  /\ UNCHANGED <<dev, g_udpfs_registered, txVars, rx_received,
                 rx_seq_nr_expected, rx_window_count, rx_nack_sent, event_flag,
                 sent_seq_nr, toServer, toClient, srv, op, served, faults>>

\* The caller looks at the message it received: of the type it asked for, and
\* without an error.  mkdir, remove, rmdir and close do not look at the type.  A
\* read looks at its header, which is uninitialised if no packet brought one.
\* The server answers a read in full or with an error: a short or an empty
\* result, which udpfs_core_bread takes for a full one, is left out.
TypeGoesUnread(o) == IF o = "file" THEN BOOLEAN ELSE {FALSE}

Verdicts(t) ==
  LET c == call[t]
      first == rx_received[1]
  IN IF op[c] = "read"
     THEN IF rx_hdr.val = NoHdr THEN BOOLEAN ELSE {rx_hdr.val.ok}
     ELSE IF rx_received = <<>> THEN BOOLEAN
          ELSE {(unread \/ op[first.call] = op[c]) /\ first.ok :
                  unread \in TypeGoesUnread(op[c])}

Check(t, ok) ==
  /\ pc[t] = "check" /\ ok \in Verdicts(t)
  /\ EndCall(t, IF ok THEN "ok" ELSE "failed")
  /\ g_udpfs_registered' = (g_udpfs_registered \/ (ok /\ op[call[t]] = "stat"))
  /\ UNCHANGED <<dev, state, txVars, rxVars, flagVars, sent_seq_nr, evf_bits,
                 toServer, toClient, srv, op, served, faults>>

----------------------------------------------------------------------------
(* The callers *)

CanCall ==
  /\ pc[User] = "idle" /\ Connected
  /\ Cardinality({c \in Calls : outcome[c] # "none" /\ op[c] # "stat"}) < MaxCalls

\* A call of the device.  Without a session it returns -EIO at once.
UserCalls(o) ==
  /\ CanCall
  /\ BeginCall(User, CHOOSE c \in Unused : \A d \in Unused : c <= d, o)
  /\ UNCHANGED <<dev, sockVars, txVars, rx_seq_nr_expected, flagVars,
                 sent_seq_nr, evf_bits, toServer, toClient, srv, served, faults>>

\* udpfs_bd_read and udpfs_bd_write.  They test the connection only; it is bdm,
\* which is not part of the repository, that calls them only for a device that
\* is registered.
BdCalls ==
  /\ dev = "bd" /\ g_udpfs_registered
  /\ \E o \in {"read", "write"} : UserCalls(o)

\* udpfs_read, udpfs_write, and the functions of udpfs_ioman.c that send one
\* message and look at one: open, close, lseek, remove, mkdir, rmdir, dopen,
\* dread, getstat.
FileCalls ==
  /\ dev = "files"
  /\ \E o \in {"read", "write", "file"} : UserCalls(o)

\* One pass of udprdma_discover's loop up to the wait.
Discover ==
  /\ toServer' = Append(toServer, Disc)
  /\ alarm' = TRUE
  /\ Goto(Dog, "disc_wait")

\* The watchdog finds the session down: it releases the device, then looks for
\* the server.  It looks once a second: the packets of the session it buries
\* have arrived or are lost by then.
DogChecks ==
  /\ pc[Dog] = "idle" /\ ~Connected /\ Idle
  /\ g_udpfs_registered' = FALSE
  /\ state' = "discovering"
  /\ retries' = [retries EXCEPT ![Dog] = 0]
  /\ Discover
  /\ UNCHANGED <<dev, txVars, rxVars, event_flag, call, chunk, sent_seq_nr,
                 evf_bits, toClient, srv, callVars, served, faults>>

DiscoverWakes ==
  /\ pc[Dog] = "disc_wait" /\ event_flag \cap {"info", "timeout"} # {}
  /\ evf_bits' = [evf_bits EXCEPT ![Dog] = event_flag]
  /\ event_flag' = Cleared
  /\ Goto(Dog, "disc_got")
  /\ UNCHANGED <<dev, sockVars, txVars, rxVars, alarm, call, chunk, retries,
                 sent_seq_nr, toServer, toClient, srv, callVars, served, faults>>

\* Connected: the block device asks for its size (udpfs_core_get_sector_count).
DiscoverFinds ==
  /\ pc[Dog] = "disc_got" /\ "info" \in evf_bits[Dog]
  /\ state' = "connected"
  /\ alarm' = FALSE
  /\ IF dev = "bd"
     THEN BeginCall(Dog, CHOOSE c \in Unused : \A d \in Unused : c <= d, "stat")
     ELSE /\ Goto(Dog, "idle")
          /\ retries' = [retries EXCEPT ![Dog] = 0]
          /\ UNCHANGED <<rx_buffer, rx_received, rx_window_count, rx_nack_sent,
                         rx_hdr, call, chunk, callVars>>
  /\ Forget(Dog)
  /\ UNCHANGED <<dev, g_udpfs_registered, txVars, rx_seq_nr_expected,
                 event_flag, sent_seq_nr, toServer, toClient, srv, served,
                 faults>>

DiscoverRetries ==
  /\ pc[Dog] = "disc_got" /\ "info" \notin evf_bits[Dog]
  /\ Forget(Dog)
  /\ IF retries[Dog] + 1 < MaxRetries
     THEN /\ retries' = [retries EXCEPT ![Dog] = @ + 1]
          /\ Discover /\ UNCHANGED state
     ELSE /\ retries' = [retries EXCEPT ![Dog] = 0]
          /\ state' = "disconnected"
          /\ Goto(Dog, "idle") /\ alarm' = FALSE /\ UNCHANGED toServer
  /\ UNCHANGED <<dev, g_udpfs_registered, txVars, rxVars, event_flag, call,
                 chunk, sent_seq_nr, toClient, srv, callVars, served, faults>>

----------------------------------------------------------------------------
(* _ist and _timeout_cb *)

Take == toClient' = Tail(toClient)

IstInform ==
  /\ toClient # <<>> /\ Head(toClient).kind = "inform"
  /\ Take
  /\ event_flag' = event_flag \cup (IF Connected THEN {} ELSE {"info"})
  /\ UNCHANGED <<dev, sockVars, txVars, rxVars, alarm, threadVars, toServer, srv,
                 callVars, served, faults>>

IstAck ==
  /\ toClient # <<>> /\ Head(toClient).kind = "ack"
  /\ Take
  /\ tx_seq_nr_acked' = Head(toClient).ack
  /\ event_flag' = event_flag \cup {"ack"}
  /\ UNCHANGED <<dev, sockVars, tx_seq_nr, rxVars, alarm, threadVars, toServer,
                 srv, callVars, served, faults>>

\* Mutant: any packet counts as the next one.
AnyInOrder(m) == TRUE

InOrder(m) == m.seq = rx_seq_nr_expected

\* A packet with a payload: stored if it is the next one, else one NACK for each
\* missing number.
IstData ==
  /\ toClient # <<>> /\ Head(toClient).kind = "data"
  /\ Take
  /\ LET m == Head(toClient)
         p == m.load
         full == Len(rx_received') >= Parts(op[rx_buffer])
         ends == p.fin \/ full
         opens == rx_window_count + 1 >= AckWindow
     IN /\ tx_seq_nr_acked' = m.ack
        /\ IF rx_buffer = NoCall
           THEN /\ event_flag' = event_flag \cup {"ack"}
                /\ UNCHANGED rxVars
           ELSE IF InOrder(m)
           THEN /\ rx_hdr' = IF ~p.hdr THEN rx_hdr
                             ELSE IF rx_hdr.buf = NoCall \/ rx_hdr.got
                             THEN [rx_hdr EXCEPT !.got = TRUE]
                             ELSE [rx_hdr EXCEPT !.got = TRUE,
                                     !.val = [call |-> p.call, ok |-> p.ok]]
                /\ rx_received' =
                     IF p.data /\ Len(rx_received) < Parts(op[rx_buffer])
                     THEN Append(rx_received,
                                 [call |-> p.call, part |-> p.part, ok |-> p.ok])
                     ELSE rx_received
                /\ rx_seq_nr_expected' = Plus(m.seq, 1)
                /\ rx_nack_sent' = FALSE
                /\ rx_window_count' = IF ends THEN rx_window_count
                                      ELSE IF opens THEN 0
                                      ELSE rx_window_count + 1
                /\ event_flag' = event_flag \cup {"ack"}
                                   \cup (IF ends THEN {"fin"} ELSE {})
                                   \cup (IF ~ends /\ opens THEN {"window"} ELSE {})
                /\ UNCHANGED rx_buffer
           ELSE /\ rx_nack_sent' = TRUE
                /\ event_flag' = event_flag \cup {"ack"}
                                   \cup (IF rx_nack_sent THEN {} ELSE {"nack"})
                /\ UNCHANGED <<rx_buffer, rx_received, rx_seq_nr_expected,
                               rx_window_count, rx_hdr>>
  /\ UNCHANGED <<dev, sockVars, tx_seq_nr, alarm, threadVars, toServer, srv,
                 callVars, served, faults>>

Ist == IstInform \/ IstAck \/ IstData

\* Timers are long: they expire when nothing is under way and nobody can go on.
\* The alarm of a send is as long as the server's own, that of a receive ten times
\* longer.  As a fault, the alarm expires just before a packet is taken or before
\* the thread that woke cancels it.
Awaited(t) ==
  CASE pc[t] = "snd_wait"  -> {"ack", "timeout"}
    [] pc[t] = "recv"      -> {"fin", "nack", "window", "timeout"}
    [] pc[t] = "disc_wait" -> {"info", "timeout"}
    [] OTHER               -> {}
Quiet ==
  /\ Idle
  /\ \A t \in Threads : pc[t] = "idle" \/
       (Awaited(t) # {} /\ event_flag \cap Awaited(t) = {})
SrvWillSend == srv.session /\ srv.pend # <<>> /\ srv.tries < MaxRetries
Due == Quiet /\ (~SrvWillSend \/ \E t \in Threads : pc[t] = "snd_wait")

TimeoutCb(due) ==
  /\ alarm
  /\ IF due THEN Due
     ELSE /\ \/ toClient # <<>> \/ event_flag # {}
             \/ \E t \in Threads : pc[t] \in {"snd_got", "rcv_got", "disc_got"}
          /\ faults < MaxFaults
  /\ faults' = IF due THEN faults ELSE faults + 1
  /\ alarm' = FALSE
  /\ event_flag' = event_flag \cup {"timeout"}
  /\ UNCHANGED <<dev, sockVars, txVars, rxVars, threadVars, toServer, toClient,
                 srv, callVars, served>>

----------------------------------------------------------------------------
(* The server and the network *)

Min(a, b) == IF a < b THEN a ELSE b

\* The packets first..last of what is pending, as they go out.
Sends(s, first, last) ==
  [i \in 1..(last - first + 1) |->
     Data(Plus(s.next, first + i - 2), Plus(s.expected, -1), s.pend[first + i - 1])]
Window(s) == Min(AckWindow, Len(s.pend))

\* The session after the client has acknowledged n.
Acked(s, n) ==
  LET k == (n + 1 - s.next) % SeqSpace
  IN IF k <= Len(s.pend)
     THEN [s EXCEPT !.next = Plus(s.next, k), !.sent = IF @ > k THEN @ - k ELSE 0,
                    !.pend = SubSeq(s.pend, k + 1, Len(s.pend))]
     ELSE s

SrvDiscovers ==
  /\ toServer # <<>> /\ Head(toServer).kind = "disc"
  /\ toServer' = Tail(toServer)
  /\ toClient' = Append(toClient, Inform)
  /\ srv' = [srv EXCEPT !.session = TRUE, !.fresh = TRUE, !.pend = <<>>]
  /\ UNCHANGED <<dev, sockVars, txVars, rxVars, flagVars, threadVars, callVars,
                 served, faults>>

\* Session numbers are adopted from the first packet of the session.
Adopted(m) ==
  IF srv.fresh
  THEN [srv EXCEPT !.fresh = FALSE, !.expected = m.seq, !.next = Plus(m.ack, 1),
                   !.sent = 0, !.pend = <<>>]
  ELSE Acked(srv, m.ack)

SrvTakes(ok) ==
  /\ toServer # <<>> /\ Head(toServer).kind = "data" /\ srv.session
  /\ LET m == Head(toServer)
         s == Adopted(m)
         new == m.seq = s.expected
         c == m.load.call
         serves == new /\ m.load.fin
         s1 == IF new THEN [s EXCEPT !.expected = Plus(@, 1)] ELSE s
         s2 == IF serves THEN [s1 EXCEPT !.pend = Answer(c, ok),
                                               !.tries = 0] ELSE s1
     IN /\ ok \/ (serves /\ op[c] \in Refuses /\ faults < MaxFaults)
        /\ faults' = IF ok THEN faults ELSE faults + 1
        /\ served' = IF serves THEN [served EXCEPT ![c] = Min(@ + 1, 2)] ELSE served
        /\ srv' = [s2 EXCEPT !.sent = IF serves THEN Window(s2) ELSE @]
        /\ toServer' = Tail(toServer)
        /\ toClient' = toClient \o <<Ack(Plus(s2.expected, -1))>>
                         \o (IF serves THEN Sends(s2, 1, Window(s2)) ELSE <<>>)
  /\ UNCHANGED <<dev, sockVars, txVars, rxVars, flagVars, threadVars, callVars>>

SrvHearsAck ==
  /\ toServer # <<>> /\ Head(toServer).kind \in {"ack", "nack"}
  /\ srv.session /\ ~srv.fresh
  /\ LET m == Head(toServer)
         isNack == m.kind = "nack"
         s == Acked(srv, IF isNack THEN m.ack - 1 ELSE m.ack)
         from == IF isNack THEN 1 ELSE s.sent + 1
     IN /\ srv' = [s EXCEPT !.sent = Window(s)]
        /\ toClient' = toClient \o Sends(s, from, Window(s))
        /\ toServer' = Tail(toServer)
  /\ UNCHANGED <<dev, sockVars, txVars, rxVars, flagVars, threadVars, callVars,
                 served, faults>>

\* No session: the packet means nothing.
SrvIgnores ==
  /\ toServer # <<>>
  /\ \/ ~srv.session /\ Head(toServer).kind # "disc"
     \/ srv.fresh /\ Head(toServer).kind \in {"ack", "nack"}
  /\ toServer' = Tail(toServer)
  /\ UNCHANGED <<dev, sockVars, txVars, rxVars, flagVars, threadVars, toClient,
                 srv, callVars, served, faults>>

SrvTimer ==
  /\ Quiet /\ SrvWillSend
  /\ toClient' = Sends(srv, 1, Window(srv))
  /\ srv' = [srv EXCEPT !.tries = @ + 1]
  /\ UNCHANGED <<dev, sockVars, txVars, rxVars, flagVars, threadVars, toServer,
                 callVars, served, faults>>

SrvRestarts ==
  /\ srv.session /\ faults < MaxFaults
  /\ srv' = [srv EXCEPT !.session = FALSE, !.fresh = FALSE, !.pend = <<>>]
  /\ faults' = faults + 1
  /\ UNCHANGED <<dev, sockVars, txVars, rxVars, flagVars, threadVars, toServer,
                 toClient, callVars, served>>

\* The oldest packet is lost, or is delivered twice.
Lose ==
  /\ faults < MaxFaults /\ faults' = faults + 1
  /\ \/ toServer # <<>> /\ toServer' = Tail(toServer) /\ UNCHANGED toClient
     \/ toClient # <<>> /\ toClient' = Tail(toClient) /\ UNCHANGED toServer
  /\ UNCHANGED <<dev, sockVars, txVars, rxVars, flagVars, threadVars, srv,
                 callVars, served>>

Repeat ==
  /\ faults < MaxFaults /\ faults' = faults + 1
  /\ \/ /\ toServer # <<>> /\ toServer' = <<Head(toServer)>> \o toServer
        /\ UNCHANGED toClient
     \/ /\ toClient # <<>> /\ toClient' = <<Head(toClient)>> \o toClient
        /\ UNCHANGED toServer
  /\ UNCHANGED <<dev, sockVars, txVars, rxVars, flagVars, threadVars, srv,
                 callVars, served>>

----------------------------------------------------------------------------
Steps(t) ==
  \/ Transmit(t) \/ SendWakes(t) \/ SendGot(t)
  \/ RecvWakes(t) \/ RecvFinished(t) \/ RecvGoesOn(t) \/ RecvTimesOut(t)
  \/ \E ok \in BOOLEAN : Check(t, ok)

DogSteps == DogChecks \/ DiscoverWakes \/ DiscoverFinds \/ DiscoverRetries

Server ==
  \/ SrvDiscovers \/ (\E ok \in BOOLEAN : SrvTakes(ok)) \/ SrvHearsAck
  \/ SrvIgnores \/ SrvTimer

Faults == SrvRestarts \/ Lose \/ Repeat

\* Connected, nothing asked for: everybody sleeps.
Rests ==
  /\ pc = [t \in Threads |-> "idle"] /\ Connected /\ Idle
  /\ UNCHANGED vars

Next ==
  \/ \E t \in Threads : Steps(t)
  \/ BdCalls \/ FileCalls
  \/ DogSteps \/ Ist \/ (\E due \in BOOLEAN : TimeoutCb(due))
  \/ Server \/ Faults \/ Rests

Spec == Init /\ [][Next]_vars

\* Threads run, packets that are not lost arrive, the alarm and the server's
\* timer expire.
Fairness ==
  /\ \A t \in Threads : WF_vars(Steps(t))
  /\ WF_vars(DogSteps) /\ WF_vars(Ist) /\ WF_vars(TimeoutCb(TRUE))
  /\ WF_vars(Server)

FairSpec == Spec /\ Fairness

----------------------------------------------------------------------------
(* Properties *)

\* The types of the socket, the threads and the session; a call number is never
\* used twice.
TypeOK ==
  /\ dev \in Devices
  /\ state \in {"init", "discovering", "connected", "disconnected"}
  /\ g_udpfs_registered \in BOOLEAN
  /\ tx_seq_nr \in SeqNrs /\ tx_seq_nr_acked \in SeqNrs
  /\ rx_buffer \in Calls \cup {NoCall}
  /\ \A i \in DOMAIN rx_received : rx_received[i].call \in Calls
  /\ rx_seq_nr_expected \in SeqNrs
  /\ rx_window_count \in 0..(AckWindow - 1) /\ rx_nack_sent \in BOOLEAN
  /\ rx_hdr.buf \in Calls \cup {NoCall}
  /\ event_flag \subseteq Bits /\ alarm \in BOOLEAN
  /\ pc \in [Threads -> {"idle", "send", "snd_wait", "snd_got", "recv",
                         "rcv_got", "check", "disc_wait", "disc_got"}]
  /\ call \in [Threads -> Calls \cup {NoCall}]
  /\ chunk \in [Threads -> 1..WriteChunks]
  /\ retries \in [Threads -> 0..MaxRetries]
  /\ sent_seq_nr \in [Threads -> SeqNrs]
  /\ evf_bits \in [Threads -> SUBSET Bits]
  /\ outcome \in [Calls -> {"none", "called", "ok", "failed"}]
  /\ served \in [Calls -> 0..2] /\ faults \in 0..MaxFaults

\* The socket has no lock: the session's state alone keeps the watchdog and the
\* callers of the device from using it at the same time.
OneUser == \A t, u \in Threads : pc[t] # "idle" /\ pc[u] # "idle" => t = u

\* A call that is about to be reported as done has its own answer in its buffer,
\* all of it and in order, whatever was lost, repeated, sent again or left over
\* from a call that failed.  One thing breaks it: an EF_RX_INFO left over from an
\* earlier search, with which udprdma_discover reports a server it has not heard
\* (run udpfs_stale); two faults cannot leave one behind that matters, and the
\* theorems take its absence as their hypothesis.
AnswerIsOwn ==
  \A t \in Threads :
    pc[t] = "check" /\ TRUE \in Verdicts(t) =>
      /\ Len(rx_received) = Parts(op[call[t]])
      /\ \A i \in DOMAIN rx_received :
           rx_received[i].call = call[t] /\ rx_received[i].part = i

\* The transport implements the abstract exchange: no request is carried out
\* twice, and none is reported as done that was not carried out.
X == INSTANCE Exchange WITH Calls <- Calls, outcome <- outcome, served <- served
Exchanges == X!Spec

\* Every call returns.
CallEnds == pc[User] # "idle" ~> pc[User] = "idle"

\* udpfs_bd.c: "retry discovery so the device (and its OPL page) returns whenever
\* the server is back".
DeviceReturns == dev = "bd" /\ ~g_udpfs_registered ~> g_udpfs_registered
=============================================================================
