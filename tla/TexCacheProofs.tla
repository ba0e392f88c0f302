--------------------------- MODULE TexCacheProofs ---------------------------
(***************************************************************************)
(* Who holds a request of the cover art, and what follows from it (module  *)
(* TexCache): for any number of slots, rows, requests and themes, and any  *)
(* calls.                                                                  *)
(***************************************************************************)
EXTENDS TexCache, FiniteSetTheorems, TLAPS

----------------------------------------------------------------------------
(* The inductive invariant *)

\* Where the art worker has a request, and where it has announced it.
Busy   == {"gate", "zero", "clear", "read", "unqr", "release", "count", "store"}
Shown  == Busy \ {"count", "store"}

\* Where a caller has a detached chain, and where it works on its head.
Walking  == {"walk", "clear", "count", "store"}
Dropping == {"clear", "count", "store"}

Switched == {"destroy", "destroy_wait", "rebuild"}

Distinct(q) == \A i, j \in DOMAIN q : q[i] = q[j] => i = j

\* A request is in one place: in the queue, with the art worker, in the chain of
\* a canceller or among those it keeps.
OnePlace ==
  /\ Distinct(queue)
  /\ \A t \in Callers : Distinct(chain[t]) /\ Distinct(keep[t])
  /\ \A r \in Elements(queue) :
       /\ r # artReq
       /\ \A t \in Callers : r \notin Elements(chain[t]) /\ r \notin Elements(keep[t])
  /\ \A t \in Callers : \A r \in Elements(chain[t]) :
       /\ r # artReq
       /\ \A u \in Callers : r \notin Elements(keep[u]) /\ (u # t => r \notin Elements(chain[u]))
  /\ \A t \in Callers : \A r \in Elements(keep[t]) :
       /\ r # artReq
       /\ \A u \in Callers : u # t => r \notin Elements(keep[u])

\* ... and every allocated request is in one of them.
AllHeld ==
  \A r \in live : \/ r = artReq \/ r \in Elements(queue)
                  \/ \E t \in Callers : r \in Elements(chain[t]) \/ r \in Elements(keep[t])

\* What the art worker and the callers have in hand, by where they are.
Places ==
  /\ artReq # NULL <=> pc[Art] \in Busy
  /\ gArtCurrentReq = IF pc[Art] \in Shown THEN artReq ELSE NULL
  /\ gArtRunning <=> pc[Art] # "dead"
  /\ \A t \in Callers :
       /\ pc[t] \in Dropping => chain[t] # <<>>
       /\ pc[t] \notin Walking => chain[t] = <<>> /\ keep[t] = <<>>

\* Which operation brings a caller where.
Performing(t) ==
  /\ pc[t] = "idle" => op[t] = "cancel"
  /\ pc[t] \in {"next", "swap", "rebuild"} => op[t] \in ThemeOps
  /\ pc[t] \in {"destroy", "destroy_wait"} =>
       /\ op[t] \in ThemeOps \cup {"exit"} /\ old[t] <= cur
       /\ op[t] \in ThemeOps => old[t] < cur
  /\ pc[t] = "wait" => op[t] # "exit"
  /\ pc[t] \in {"drain", "join", "ended"} => op[t] = "exit"
  /\ phase[t] \in {"shutdown", "end"} <=> op[t] = "exit"
  /\ op[t] = "exit" => gCacheLoadsCancelled
  /\ op[t] \in ThemeOps /\ pc[t] \notin Switched => cur < NumThemes

\* Theme loads come one at a time; the teardown has cancelled the loads for good.
Operations ==
  /\ \A t \in Callers : Performing(t)
  /\ op[Gui] \in ThemeOps => op[Io] \notin ThemeOps
  /\ gArtShutdownAbandoned => /\ op[Gui] = "exit"
                              /\ pc[Gui] \in {"destroy", "destroy_wait", "ended"}

\* A slot that nobody has asked for.
Blank(e) == e.qr = NULL /\ e.UID = 0 /\ e.owner = NULL /\ e.img = NULL

\* What lies ahead is untouched; the cache in use is allocated.
CachesAhead ==
  /\ \A c \in Caches : c > cur =>
       /\ cstate[c] = "unborn" /\ nextUID[c] = 1
       /\ \A s \in Slots : Blank(content[c][s])
  /\ \A r \in live : request[r].cache <= cur
  /\ ~gCacheLoadsCancelled => cstate[cur] = "live"

SlotOf(r) == content[request[r].cache][request[r].slot]

\* A claimed slot belongs to an allocated request for it, until the worker or a
\* canceller has let go of it.
Claims ==
  /\ \A c \in Caches, s \in Slots :
       LET q == content[c][s].qr
       IN q # NULL => /\ q \in live
                      /\ request[q].cache = c /\ request[q].slot = s
                      /\ request[q].uid = content[c][s].UID
  /\ \A t \in Callers : pc[t] \in Dropping =>
       SlotOf(Head(chain[t])).qr # Head(chain[t])
  /\ pc[Art] \in {"clear", "release", "count", "store"} =>
       SlotOf(artReq).qr # artReq

ClaimsUntilTeardown == ~gCacheLoadsCancelled => Claims

\* Every request is counted, once until a wedged read is given up, and a cache
\* that was freed has none.
Counted ==
  /\ IsFiniteSet(live)
  /\ \A c \in Caches : ~lost[c] =>
       /\ Cardinality(References(c)) <= activeRequests[c]
       /\ ~gArtShutdownAbandoned => activeRequests[c] = Cardinality(References(c))
       /\ cstate[c] = "freed" => References(c) = {}

\* UIDs are handed out in order; those of requests are never 0.
UidsBelow ==
  /\ \A r \in live : request[r].uid < nextUID[request[r].cache]
  /\ \A s \in Slots : content[cur][s].UID < nextUID[cur]

\* A request that waits, or that is read, has its slot if the UIDs still agree.
Waiting == {r \in live : /\ request[r].cache = cur
                         /\ \A t \in Callers : pc[t] \in Dropping => r # Head(chain[t])
                         /\ r = artReq => pc[Art] \in {"gate", "read", "unqr"}}

Slotted ==
  /\ \A r \in Waiting : SlotOf(r).UID = request[r].uid =>
       SlotOf(r).qr = r /\ SlotOf(r).owner = request[r].val
  /\ (pc[Art] \in {"read", "unqr"} /\ request[artReq].cache = cur) =>
       /\ \/ SlotOf(artReq).UID = request[artReq].uid
          \/ gArtShutdownAbandoned /\ SlotOf(artReq).UID = 0
       /\ \A t \in Callers : pc[t] = "clear" /\ ~gArtShutdownAbandoned =>
            \/ request[Head(chain[t])].cache # cur
            \/ request[Head(chain[t])].slot # request[artReq].slot
  /\ \A s \in Slots : content[cur][s].img # NULL =>
       /\ content[cur][s].UID # 0
       /\ content[cur][s].img = content[cur][s].owner

\* After the teardown has freed a theme no picture is published any more.
Late == {"destroy", "destroy_wait", "ended"}

NoLatePicture ==
  \A t \in Callers : op[t] = "exit" /\ pc[t] \in Late =>
    t = Gui /\ (gArtShutdownAbandoned \/ pc[Art] = "dead")

\* The ids of the rows are those of the cache in use, except between a theme
\* switch of the I/O worker and its rebuild of the rows.
RowsValid ==
  (op[Io] \in ThemeOps => pc[Io] \notin Switched) =>
    \A v \in Values : rows[v].id \in Slots =>
      /\ rows[v].uid # 0
      /\ IF op[Gui] \in ThemeOps /\ pc[Gui] \in Switched
         THEN \A s \in Slots : content[cur][s].UID = 0
         ELSE rows[v].uid < nextUID[cur]
      /\ \A s \in ByUid(v) : Entries[s].owner = v

\* What holds whatever is called.
Holding == /\ TypeOK /\ OnePlace /\ AllHeld /\ Places /\ Operations
           /\ CachesAhead /\ ClaimsUntilTeardown /\ Counted

\* No call reloads the theme without giving the rows new ids: neither a language
\* change nor thmReinit.
RowsAreReset == \A t \in Callers : \A o \in KeepsRows : <<t, o>> \notin Calls

\* What holds besides as long as every theme load resets the rows.
Showing == /\ UidsBelow /\ Slotted /\ NoLatePicture /\ RowsValid
           /\ \A t \in Callers : op[t] \notin KeepsRows

----------------------------------------------------------------------------
(* Sequences without repetition *)

\* A sequence whose elements are all in T is a sequence over T.
LEMMA SeqRetype ==
  ASSUME NEW S, NEW T, NEW q \in Seq(S), Elements(q) \subseteq T
  PROVE  q \in Seq(T)
BY DEF Elements

\* The empty list.
LEMMA ElementsEmpty ==
  /\ Elements(<<>>) = {} /\ Distinct(<<>>) /\ \A S : <<>> \in Seq(S)
  /\ \A S : \A q \in Seq(S) : q # <<>> => Head(q) \in Elements(q)
BY DEF Elements, Distinct

\* artPush at the end.
LEMMA ElementsAppend ==
  ASSUME NEW S, NEW q \in Seq(S), NEW r \in S
  PROVE  /\ Append(q, r) \in Seq(S)
         /\ Elements(Append(q, r)) = Elements(q) \cup {r}
         /\ Distinct(q) /\ r \notin Elements(q) => Distinct(Append(q, r))
<1>1. /\ Append(q, r) \in Seq(S) /\ Len(Append(q, r)) = Len(q) + 1
      /\ Len(q) \in Nat /\ DOMAIN q = 1..Len(q)
      /\ DOMAIN Append(q, r) = 1..(Len(q) + 1)
      /\ \A i \in 1..Len(q) : Append(q, r)[i] = q[i]
      /\ Append(q, r)[Len(q) + 1] = r
  OBVIOUS
<1>2. Elements(Append(q, r)) = Elements(q) \cup {r}
  BY <1>1 DEF Elements
<1>3. ASSUME Distinct(q), r \notin Elements(q) PROVE Distinct(Append(q, r))
  BY <1>1, <1>3 DEF Elements, Distinct
<1> QED BY <1>1, <1>2, <1>3

\* artPush at the head.
LEMMA ElementsFirst ==
  ASSUME NEW S, NEW q \in Seq(S), NEW r \in S
  PROVE  /\ <<r>> \o q \in Seq(S)
         /\ Elements(<<r>> \o q) = Elements(q) \cup {r}
         /\ Distinct(q) /\ r \notin Elements(q) => Distinct(<<r>> \o q)
<1> DEFINE n == Len(q)
<1>1. /\ <<r>> \o q \in Seq(S) /\ n \in Nat /\ DOMAIN q = 1..n
      /\ DOMAIN (<<r>> \o q) = 1..(n + 1)
      /\ (<<r>> \o q)[1] = r
      /\ \A i \in 2..(n + 1) : (<<r>> \o q)[i] = q[i - 1]
  OBVIOUS
<1>2. PICK p : p = <<r>> \o q
  OBVIOUS
<1>3. /\ DOMAIN p = 1..(n + 1) /\ p[1] = r
      /\ \A i \in 2..(n + 1) : p[i] = q[i - 1]
  BY <1>1, <1>2
<1> HIDE DEF n
<1>4. Elements(p) = Elements(q) \cup {r}
  <2>1. ASSUME NEW i \in 1..n PROVE q[i] \in Elements(p)
    <3>1. i + 1 \in DOMAIN p /\ p[i + 1] = q[i]
      BY <1>1, <1>3
    <3> QED BY <3>1 DEF Elements
  <2>2. ASSUME NEW i \in 1..(n + 1) PROVE p[i] \in Elements(q) \cup {r}
    <3>1. i = 1 \/ (i \in 2..(n + 1) /\ i - 1 \in DOMAIN q)
      BY <1>1
    <3> QED BY <1>3, <3>1 DEF Elements
  <2>3. r \in Elements(p)
    BY <1>1, <1>3 DEF Elements
  <2> QED BY <1>1, <1>3, <2>1, <2>2, <2>3 DEF Elements
<1>5. ASSUME Distinct(q), r \notin Elements(q),
             NEW i \in 1..(n + 1), NEW j \in 1..(n + 1), p[i] = p[j]
      PROVE  i = j
  <2>1. ASSUME NEW k \in 2..(n + 1) PROVE k - 1 \in DOMAIN q /\ p[k] \in Elements(q)
    <3>1. k - 1 \in DOMAIN q
      BY <1>1
    <3> QED BY <1>3, <3>1 DEF Elements
  <2>2. CASE i = 1 \/ j = 1
    BY <1>1, <1>3, <1>5, <2>1, <2>2
  <2>3. CASE i # 1 /\ j # 1
    <3>1. i \in 2..(n + 1) /\ j \in 2..(n + 1)
      BY <1>1, <2>3
    <3>2. q[i - 1] = q[j - 1]
      BY <1>3, <1>5, <3>1
    <3>3. i - 1 = j - 1
      BY <1>5, <2>1, <3>1, <3>2 DEF Distinct
    <3> QED BY <3>1, <3>3
  <2> QED BY <2>2, <2>3
<1>6. Distinct(q) /\ r \notin Elements(q) => Distinct(p)
  BY <1>3, <1>5 DEF Distinct
<1> QED BY <1>1, <1>2, <1>4, <1>6

\* The head is taken.
LEMMA ElementsTail ==
  ASSUME NEW S, NEW q \in Seq(S), q # <<>>
  PROVE  /\ Head(q) \in Elements(q) /\ Head(q) \in S /\ Tail(q) \in Seq(S)
         /\ Distinct(q) => /\ Elements(Tail(q)) = Elements(q) \ {Head(q)}
                           /\ Distinct(Tail(q))
<1> DEFINE n == Len(q)
<1>1. /\ Tail(q) \in Seq(S) /\ n \in Nat \ {0} /\ DOMAIN q = 1..n
      /\ DOMAIN Tail(q) = 1..(n - 1) /\ Head(q) = q[1]
      /\ \A i \in 1..(n - 1) : Tail(q)[i] = q[i + 1]
  OBVIOUS
<1>2. PICK p : p = Tail(q)
  OBVIOUS
<1>3. DOMAIN p = 1..(n - 1) /\ \A i \in 1..(n - 1) : p[i] = q[i + 1]
  BY <1>1, <1>2
<1> HIDE DEF n
<1>4. Head(q) \in Elements(q) /\ Head(q) \in S
  BY <1>1 DEF Elements
<1>5. ASSUME Distinct(q) PROVE Elements(p) = Elements(q) \ {Head(q)} /\ Distinct(p)
  <2>1. ASSUME NEW i \in 1..(n - 1) PROVE p[i] \in Elements(q) \ {Head(q)}
    <3>1. i + 1 \in DOMAIN q /\ 1 \in DOMAIN q /\ i + 1 # 1 /\ p[i] = q[i + 1]
      BY <1>1, <1>3
    <3> QED BY <1>1, <1>5, <3>1 DEF Elements, Distinct
  <2>2. ASSUME NEW i \in 1..n, q[i] # Head(q) PROVE q[i] \in Elements(p)
    <3>1. i - 1 \in DOMAIN p /\ p[i - 1] = q[i]
      BY <1>1, <1>3, <2>2
    <3> QED BY <3>1 DEF Elements
  <2>3. ASSUME NEW i \in 1..(n - 1), NEW j \in 1..(n - 1), p[i] = p[j] PROVE i = j
    <3>1. i + 1 \in DOMAIN q /\ j + 1 \in DOMAIN q /\ q[i + 1] = q[j + 1]
      BY <1>1, <1>3, <2>3
    <3>2. i + 1 = j + 1
      BY <1>5, <3>1 DEF Distinct
    <3> QED BY <3>2
  <2>4. Distinct(p)
    BY <1>3, <2>3 DEF Distinct
  <2>5. Elements(p) \subseteq Elements(q) \ {Head(q)}
    BY <1>3, <2>1 DEF Elements
  <2>6. Elements(q) \ {Head(q)} \subseteq Elements(p)
    BY <1>1, <2>2 DEF Elements
  <2> QED BY <2>4, <2>5, <2>6
<1> QED BY <1>1, <1>2, <1>4, <1>5

\* artPromote moves a request within the queue and loses none.
LEMMA PromotedKeeps ==
  ASSUME NEW S, queue \in Seq(S), Distinct(queue), NEW r
  PROVE  /\ Promoted(r) \in Seq(S) /\ Distinct(Promoted(r))
         /\ Elements(Promoted(r)) = Elements(queue)
<1>1. CASE ~ \E i \in DOMAIN queue : queue[i] = r
  BY <1>1 DEF Promoted
<1>2. CASE \E i \in DOMAIN queue : queue[i] = r
  <2> DEFINE i == CHOOSE i \in DOMAIN queue : queue[i] = r
  <2>1. i \in DOMAIN queue /\ queue[i] = r
    BY <1>2
  <2> HIDE DEF i
  <2> DEFINE n == Len(queue)
             p == [j \in DOMAIN queue |-> IF j = 1 THEN r
                                          ELSE IF j <= i THEN queue[j - 1] ELSE queue[j]]
  <2>2. n \in Nat /\ DOMAIN queue = 1..n /\ \A j \in 1..n : queue[j] \in S
    OBVIOUS
  <2>3. Promoted(r) = p
    BY <1>2 DEF Promoted, i
  <2>4. p \in [1..n -> S]
    BY <2>1, <2>2
  <2>5. p \in Seq(S)
    BY <2>2, <2>4
  <2>6. ASSUME NEW j \in 1..n PROVE \E k \in 1..n : p[k] = queue[j]
    <3>1. CASE j = i
      BY <2>1, <2>2, <3>1
    <3>2. CASE j < i
      <4>1. j + 1 \in 1..n /\ p[j + 1] = queue[j]
        BY <2>1, <2>2, <3>2
      <4> QED BY <4>1
    <3>3. CASE j > i
      BY <2>1, <2>2, <3>3
    <3> QED BY <2>1, <2>2, <3>1, <3>2, <3>3
  <2>7. ASSUME NEW j \in 1..n
        PROVE  /\ p[j] = queue[IF j = 1 THEN i ELSE IF j <= i THEN j - 1 ELSE j]
               /\ (IF j = 1 THEN i ELSE IF j <= i THEN j - 1 ELSE j) \in 1..n
    BY <2>1, <2>2
  <2>8. Distinct(p)
    <3> SUFFICES ASSUME NEW j \in 1..n, NEW k \in 1..n, p[j] = p[k] PROVE j = k
      BY <2>2 DEF Distinct
    <3>1. (IF j = 1 THEN i ELSE IF j <= i THEN j - 1 ELSE j)
            = (IF k = 1 THEN i ELSE IF k <= i THEN k - 1 ELSE k)
      BY <2>2, <2>7 DEF Distinct
    <3> QED BY <2>1, <2>2, <3>1
  <2>9. Elements(p) = Elements(queue)
    <3>1. ASSUME NEW j \in 1..n PROVE p[j] \in Elements(queue)
      BY <2>2, <2>7 DEF Elements
    <3>2. ASSUME NEW j \in 1..n PROVE queue[j] \in Elements(p)
      BY <2>2, <2>6 DEF Elements
    <3>3. DOMAIN p = 1..n
      BY <2>4
    <3> HIDE DEF p
    <3> QED BY <2>2, <3>1, <3>2, <3>3 DEF Elements
  <2> QED BY <2>3, <2>5, <2>8, <2>9
<1> QED BY <1>1, <1>2
----------------------------------------------------------------------------
(* How requests change hands *)

\* The lists of requests hold allocated ones.
HandType ==
  /\ live \subseteq Reqs /\ queue \in Seq(live)
  /\ chain \in [Callers -> Seq(live)] /\ keep \in [Callers -> Seq(live)]
  /\ artReq \in live \cup {NULL}

Hands == HandType /\ OnePlace /\ AllHeld

\* Nothing moves, or the queue is put in another order.
LEMMA HandsReordered ==
  ASSUME Hands, queue' \in Seq(live), Distinct(queue'),
         Elements(queue') = Elements(queue), UNCHANGED <<chain, keep, artReq, live>>
  PROVE  Hands'
BY DEF Hands, HandType, OnePlace, AllHeld, InHand

\* A claim queues a new request.
LEMMA HandsClaim ==
  ASSUME Hands, NEW r \in Reqs \ live, live' = live \cup {r},
         queue' = <<r>> \o queue \/ queue' = Append(queue, r),
         UNCHANGED <<chain, keep, artReq>>
  PROVE  Hands'
<1>1. /\ Elements(queue) \subseteq live
      /\ \A t \in Callers : Elements(chain[t]) \subseteq live /\ Elements(keep[t]) \subseteq live
  BY DEF Hands, HandType, Elements
<1>2. queue \in Seq(live') /\ r \in live' /\ r \notin Elements(queue) /\ Distinct(queue)
  BY <1>1, SeqRetype DEF Hands, HandType, OnePlace
<1>3. queue' \in Seq(live') /\ Elements(queue') = Elements(queue) \cup {r} /\ Distinct(queue')
  <2>1. CASE queue' = <<r>> \o queue
    BY <1>2, <2>1, ElementsFirst
  <2>2. CASE queue' = Append(queue, r)
    BY <1>2, <2>2, ElementsAppend
  <2> QED BY <2>1, <2>2
<1>4. \A t \in Callers : chain[t] \in Seq(live') /\ keep[t] \in Seq(live')
  BY <1>1, SeqRetype DEF Hands, HandType
<1>5. HandType'
  BY <1>3, <1>4 DEF Hands, HandType
<1>6. OnePlace'
  BY <1>1, <1>3, NullAssumption DEF Hands, HandType, OnePlace
<1>7. AllHeld'
  BY <1>3 DEF Hands, AllHeld
<1> QED BY <1>5, <1>6, <1>7 DEF Hands

\* artFreeChain frees the head of a chain.
LEMMA HandsFreed ==
  ASSUME Hands, NEW t \in Callers, chain[t] # <<>>,
         live' = live \ {Head(chain[t])},
         chain' = [chain EXCEPT ![t] = Tail(@)],
         UNCHANGED <<queue, keep, artReq>>
  PROVE  Hands'
<1> DEFINE r == Head(chain[t])
<1>1. /\ Elements(queue) \subseteq live
      /\ \A u \in Callers : Elements(chain[u]) \subseteq live /\ Elements(keep[u]) \subseteq live
  BY DEF Hands, HandType, Elements
<1>2. /\ r \in Elements(chain[t]) /\ Tail(chain[t]) \in Seq(live)
      /\ Elements(Tail(chain[t])) = Elements(chain[t]) \ {r} /\ Distinct(Tail(chain[t]))
  BY ElementsTail DEF Hands, HandType, OnePlace
<1>3. /\ chain' \in [Callers -> Seq(live)]
      /\ \A u \in Callers : /\ Elements(chain'[u]) = Elements(chain[u]) \ {r}
                            /\ Distinct(chain'[u])
  BY <1>2 DEF Hands, HandType, OnePlace, Callers
<1>4. /\ r \notin Elements(queue) /\ r # artReq
      /\ \A u \in Callers : r \notin Elements(keep[u])
  BY <1>2 DEF Hands, OnePlace
<1> HIDE DEF r
<1>5. queue \in Seq(live \ {r})
  BY <1>1, <1>4, SeqRetype DEF Hands, HandType
<1>6. ASSUME NEW u \in Callers
      PROVE  chain'[u] \in Seq(live \ {r}) /\ keep[u] \in Seq(live \ {r})
  <2>1. Elements(chain'[u]) \subseteq live \ {r} /\ Elements(keep[u]) \subseteq live \ {r}
    BY <1>1, <1>3, <1>4
  <2> QED BY <1>3, <2>1, SeqRetype DEF Hands, HandType
<1>7. HandType'
  <2>1. live' = live \ {r} /\ queue' = queue /\ keep' = keep /\ artReq' = artReq
    BY DEF r
  <2>2. chain' \in [Callers -> Seq(live \ {r})]
    BY <1>3, <1>6
  <2>3. keep \in [Callers -> Seq(live \ {r})]
    BY <1>6 DEF Hands, HandType
  <2> QED BY <1>4, <1>5, <2>1, <2>2, <2>3 DEF Hands, HandType
<1>8. OnePlace'
  <2>1. Distinct(queue') /\ \A u \in Callers : Distinct(chain'[u]) /\ Distinct(keep'[u])
    BY <1>3 DEF Hands, OnePlace
  <2>2. ASSUME NEW x \in Elements(queue') PROVE x # artReq' /\ \A u \in Callers : x \notin Elements(chain'[u]) /\ x \notin Elements(keep'[u])
    BY <1>3 DEF Hands, OnePlace
  <2>3. ASSUME NEW u \in Callers, NEW x \in Elements(chain'[u])
        PROVE  x # artReq' /\ \A w \in Callers : x \notin Elements(keep'[w]) /\ (w # u => x \notin Elements(chain'[w]))
    <3>1. x \in Elements(chain[u])
      BY <1>3
    <3>2. x # artReq /\ \A w \in Callers : x \notin Elements(keep[w]) /\ (w # u => x \notin Elements(chain[w]))
      BY <3>1 DEF Hands, OnePlace
    <3> QED BY <1>3, <3>1, <3>2
  <2>4. ASSUME NEW u \in Callers, NEW x \in Elements(keep'[u])
        PROVE  x # artReq' /\ \A w \in Callers : w # u => x \notin Elements(keep'[w])
    BY <1>3 DEF Hands, OnePlace
  <2> QED BY <2>1, <2>2, <2>3, <2>4 DEF OnePlace
<1>9. AllHeld'
  BY <1>3 DEF Hands, AllHeld, r
<1> QED BY <1>7, <1>8, <1>9 DEF Hands

\* The art worker frees its request.
LEMMA HandsReleased ==
  ASSUME Hands, artReq # NULL, live' = live \ {artReq}, artReq' = NULL,
         UNCHANGED <<queue, chain, keep>>
  PROVE  Hands'
<1>1. /\ Elements(queue) \subseteq live \ {artReq}
      /\ \A u \in Callers : /\ Elements(chain[u]) \subseteq live \ {artReq}
                            /\ Elements(keep[u]) \subseteq live \ {artReq}
  <2>1. /\ Elements(queue) \subseteq live
        /\ \A u \in Callers : Elements(chain[u]) \subseteq live /\ Elements(keep[u]) \subseteq live
    BY DEF Hands, HandType, Elements
  <2> QED BY <2>1 DEF Hands, OnePlace
<1>2. queue \in Seq(live \ {artReq})
  BY <1>1, SeqRetype DEF Hands, HandType
<1>3. ASSUME NEW u \in Callers
      PROVE  chain[u] \in Seq(live \ {artReq}) /\ keep[u] \in Seq(live \ {artReq})
  BY <1>1, SeqRetype DEF Hands, HandType
<1>4. chain \in [Callers -> Seq(live \ {artReq})] /\ keep \in [Callers -> Seq(live \ {artReq})]
  BY <1>3 DEF Hands, HandType
<1>5. HandType'
  BY <1>2, <1>4 DEF Hands, HandType
<1>6. OnePlace'
  <2>1. NULL \notin Elements(queue)
        /\ \A u \in Callers : NULL \notin Elements(chain[u]) /\ NULL \notin Elements(keep[u])
    BY <1>1, NullAssumption DEF Hands, HandType
  <2> QED BY <2>1 DEF Hands, OnePlace
<1>7. AllHeld'
  BY DEF Hands, AllHeld
<1> QED BY <1>5, <1>6, <1>7 DEF Hands

\* artPop hands the head of the queue to the worker.
LEMMA HandsPopped ==
  ASSUME Hands, artReq = NULL, queue # <<>>, artReq' = Head(queue),
         queue' = Tail(queue), UNCHANGED <<chain, keep, live>>
  PROVE  Hands'
<1>1. /\ Head(queue) \in Elements(queue) /\ Head(queue) \in live
      /\ Tail(queue) \in Seq(live) /\ Distinct(Tail(queue))
      /\ Elements(Tail(queue)) = Elements(queue) \ {Head(queue)}
  BY ElementsTail DEF Hands, HandType, OnePlace
<1>2. HandType'
  BY <1>1 DEF Hands, HandType
<1>3. OnePlace'
  BY <1>1 DEF Hands, OnePlace
<1>4. AllHeld'
  BY <1>1, NullAssumption DEF Hands, AllHeld, HandType
<1> QED BY <1>2, <1>3, <1>4 DEF Hands

\* artDetachAll hands the queue to a canceller.
LEMMA HandsDetached ==
  ASSUME Hands, NEW t \in Callers, chain[t] = <<>>, queue' = <<>>,
         chain' = [chain EXCEPT ![t] = queue], UNCHANGED <<keep, artReq, live>>
  PROVE  Hands'
<1>1. Elements(queue') = {} /\ Distinct(queue') /\ queue' \in Seq(live) /\ Elements(chain[t]) = {}
  BY ElementsEmpty
<1>2. /\ chain' \in [Callers -> Seq(live)] /\ chain'[t] = queue
      /\ \A u \in Callers : u # t => chain'[u] = chain[u]
  BY DEF Hands, HandType
<1>3. HandType'
  BY <1>1, <1>2 DEF Hands, HandType
<1>4. OnePlace'
  BY <1>1, <1>2 DEF Hands, OnePlace
<1>5. AllHeld'
  BY <1>1, <1>2 DEF Hands, AllHeld
<1> QED BY <1>3, <1>4, <1>5 DEF Hands

\* An abort sets the head of its chain aside.
LEMMA HandsSetAside ==
  ASSUME Hands, NEW t \in Callers, chain[t] # <<>>,
         keep' = [keep EXCEPT ![t] = Append(@, Head(chain[t]))],
         chain' = [chain EXCEPT ![t] = Tail(@)], UNCHANGED <<queue, artReq, live>>
  PROVE  Hands'
<1> DEFINE r == Head(chain[t])
<1>1. /\ r \in Elements(chain[t]) /\ r \in live /\ Tail(chain[t]) \in Seq(live)
      /\ Elements(Tail(chain[t])) = Elements(chain[t]) \ {r} /\ Distinct(Tail(chain[t]))
  BY ElementsTail DEF Hands, HandType, OnePlace
<1>2. r \notin Elements(keep[t])
  BY <1>1 DEF Hands, OnePlace
<1>3. /\ Append(keep[t], r) \in Seq(live) /\ Distinct(Append(keep[t], r))
      /\ Elements(Append(keep[t], r)) = Elements(keep[t]) \cup {r}
  <2>1. keep[t] \in Seq(live) /\ Distinct(keep[t])
    BY DEF Hands, HandType, OnePlace
  <2> QED BY <1>1, <1>2, <2>1, ElementsAppend
<1> HIDE DEF r
<1>4. /\ chain' \in [Callers -> Seq(live)] /\ keep' \in [Callers -> Seq(live)]
      /\ \A u \in Callers : /\ chain'[u] = IF u = t THEN Tail(chain[t]) ELSE chain[u]
                            /\ keep'[u] = IF u = t THEN Append(keep[t], r) ELSE keep[u]
  BY <1>1, <1>3 DEF Hands, HandType, r
<1>5. \A u \in Callers :
        /\ Distinct(chain'[u]) /\ Distinct(keep'[u])
        /\ Elements(chain'[u]) = IF u = t THEN Elements(chain[t]) \ {r} ELSE Elements(chain[u])
        /\ Elements(keep'[u]) = IF u = t THEN Elements(keep[t]) \cup {r} ELSE Elements(keep[u])
  BY <1>1, <1>3, <1>4 DEF Hands, OnePlace
<1>6. HandType'
  BY <1>4 DEF Hands, HandType
<1>7. OnePlace'
  <2>1. Distinct(queue') /\ \A u \in Callers : Distinct(chain'[u]) /\ Distinct(keep'[u])
    BY <1>1, <1>5 DEF Hands, OnePlace
  <2>2. ASSUME NEW x \in Elements(queue') PROVE x # artReq' /\ \A u \in Callers : x \notin Elements(chain'[u]) /\ x \notin Elements(keep'[u])
    BY <1>1, <1>5 DEF Hands, OnePlace
  <2>3. ASSUME NEW u \in Callers, NEW x \in Elements(chain'[u])
        PROVE  x # artReq' /\ \A w \in Callers : x \notin Elements(keep'[w]) /\ (w # u => x \notin Elements(chain'[w]))
    <3>1. x \in Elements(chain[u]) /\ (u = t => x # r)
      BY <1>5
    <3>2. x # artReq /\ \A w \in Callers : x \notin Elements(keep[w]) /\ (w # u => x \notin Elements(chain[w]))
      BY <3>1 DEF Hands, OnePlace
    <3> QED BY <1>1, <1>5, <3>1, <3>2
  <2>4. ASSUME NEW u \in Callers, NEW x \in Elements(keep'[u])
        PROVE  x # artReq' /\ \A w \in Callers : w # u => x \notin Elements(keep'[w])
    <3>1. r # artReq /\ \A w \in Callers : r \notin Elements(keep[w])
      BY <1>1 DEF Hands, OnePlace
    <3>2. CASE x = r
      <4>1. u = t
        BY <1>5, <3>1, <3>2
      <4> QED BY <1>5, <3>1, <3>2, <4>1
    <3>3. CASE x # r
      <4>1. x \in Elements(keep[u])
        BY <1>5, <3>3
      <4>2. x # artReq /\ \A w \in Callers : w # u => x \notin Elements(keep[w])
        BY <4>1 DEF Hands, OnePlace
      <4> QED BY <1>5, <3>3, <4>2
    <3> QED BY <3>2, <3>3
  <2> QED BY <2>1, <2>2, <2>3, <2>4 DEF OnePlace
<1>8. AllHeld'
  BY <1>5 DEF Hands, AllHeld
<1> QED BY <1>6, <1>7, <1>8 DEF Hands

\* ... and puts it back into the queue.
LEMMA HandsPushedBack ==
  ASSUME Hands, NEW t \in Callers, keep[t] # <<>>,
         queue' = Append(queue, Head(keep[t])),
         keep' = [keep EXCEPT ![t] = Tail(@)], UNCHANGED <<chain, artReq, live>>
  PROVE  Hands'
<1> DEFINE r == Head(keep[t])
<1>1. /\ r \in Elements(keep[t]) /\ r \in live /\ Tail(keep[t]) \in Seq(live)
      /\ Elements(Tail(keep[t])) = Elements(keep[t]) \ {r} /\ Distinct(Tail(keep[t]))
  BY ElementsTail DEF Hands, HandType, OnePlace
<1>2. r \notin Elements(queue)
  BY <1>1 DEF Hands, OnePlace
<1>3. /\ queue' \in Seq(live) /\ Distinct(queue')
      /\ Elements(queue') = Elements(queue) \cup {r}
  <2>1. queue \in Seq(live) /\ Distinct(queue)
    BY DEF Hands, HandType, OnePlace
  <2> QED BY <1>1, <1>2, <2>1, ElementsAppend
<1> HIDE DEF r
<1>4. /\ keep' \in [Callers -> Seq(live)]
      /\ \A u \in Callers : keep'[u] = IF u = t THEN Tail(keep[t]) ELSE keep[u]
  BY <1>1 DEF Hands, HandType
<1>5. \A u \in Callers :
        /\ Distinct(keep'[u])
        /\ Elements(keep'[u]) = IF u = t THEN Elements(keep[t]) \ {r} ELSE Elements(keep[u])
  BY <1>1, <1>4 DEF Hands, OnePlace
<1>6. HandType'
  BY <1>3, <1>4 DEF Hands, HandType
<1>7. OnePlace'
  <2>1. Distinct(queue') /\ \A u \in Callers : Distinct(chain'[u]) /\ Distinct(keep'[u])
    BY <1>1, <1>3, <1>5 DEF Hands, OnePlace
  <2>2. ASSUME NEW x \in Elements(queue')
        PROVE  /\ x # artReq'
               /\ \A u \in Callers : x \notin Elements(chain'[u]) /\ x \notin Elements(keep'[u])
    <3>1. CASE x = r
      <4>1. r # artReq /\ \A u \in Callers : r \notin Elements(chain[u])
        BY <1>1 DEF Hands, OnePlace
      <4>2. \A u \in Callers : u # t => r \notin Elements(keep[u])
        BY <1>1 DEF Hands, OnePlace
      <4> QED BY <1>5, <3>1, <4>1, <4>2
    <3>2. CASE x \in Elements(queue)
      <4>1. /\ x # artReq
            /\ \A u \in Callers : x \notin Elements(chain[u]) /\ x \notin Elements(keep[u])
        BY <3>2 DEF Hands, OnePlace
      <4> QED BY <1>5, <4>1
    <3> QED BY <1>3, <3>1, <3>2
  <2>3. ASSUME NEW u \in Callers, NEW x \in Elements(chain'[u])
        PROVE  x # artReq' /\ \A w \in Callers : x \notin Elements(keep'[w]) /\ (w # u => x \notin Elements(chain'[w]))
    <3>1. x \in Elements(chain[u])
      OBVIOUS
    <3>2. x # artReq /\ \A w \in Callers :
            x \notin Elements(keep[w]) /\ (w # u => x \notin Elements(chain[w]))
      BY <3>1 DEF Hands, OnePlace
    <3> QED BY <1>5, <3>2
  <2>4. ASSUME NEW u \in Callers, NEW x \in Elements(keep'[u])
        PROVE  x # artReq' /\ \A w \in Callers : w # u => x \notin Elements(keep'[w])
    BY <1>1, <1>3, <1>5 DEF Hands, OnePlace
  <2> QED BY <2>1, <2>2, <2>3, <2>4 DEF OnePlace
<1>8. AllHeld'
  BY <1>3, <1>5 DEF Hands, AllHeld
<1> QED BY <1>6, <1>7, <1>8 DEF Hands

----------------------------------------------------------------------------
(* Control: where the threads are, and which operations they perform *)

ControlType ==
  /\ cur \in Caches /\ calls \in 0..MaxCalls /\ old \in [Callers -> Caches]
  /\ wakeup \in BOOLEAN /\ gArtNavActive \in BOOLEAN
  /\ gCacheLoadsCancelled \in BOOLEAN /\ gArtTerminate \in BOOLEAN
  /\ gArtShutdownAbandoned \in BOOLEAN /\ gArtRunning \in BOOLEAN
  /\ pc \in [Threads -> CallerLabels \cup ArtLabels]
  /\ pc[Gui] \in CallerLabels /\ pc[Io] \in CallerLabels /\ pc[Art] \in ArtLabels
  /\ op \in [Callers -> Ops]
  /\ phase \in [Callers -> {"cancel", "abort", "shutdown", "end"}]

CacheType ==
  /\ cstate \in [Caches -> {"unborn", "live", "leaked", "freed"}]
  /\ content \in [Caches -> [Slots -> Entry]]
  /\ nextUID \in [Caches -> 1..(MaxUID + 1)]
  /\ rows \in [Values -> Row] /\ focus \in Values \cup {NULL}

RequestType ==
  /\ request \in [Reqs -> Request \cup {NULL}]
  /\ \A r \in Reqs : IF r \in live THEN request[r] \in Request ELSE request[r] = NULL
  /\ activeRequests \in [Caches -> Nat] /\ loaded \in [Threads -> Nat]
  /\ lost \in [Caches -> BOOLEAN] /\ gArtCurrentReq \in live \cup {NULL}

\* The type invariant in four parts.
LEMMA TypeParts ==
  TypeOK <=> ControlType /\ CacheType /\ RequestType /\ HandType
BY DEF TypeOK, ControlType, CacheType, RequestType, HandType

\* Drawing a frame leaves the threads and the operations alone.
LEMMA GuiFrame ==
  ASSUME GuiNext
  PROVE  /\ Draws
         /\ UNCHANGED <<cur, cstate, lifeVars, loaded, lost, callVars, pc,
                        gArtCurrentReq, artReq>>
<1> USE DEF cacheVars, reqVars, guiVars, artVars, countVars
<1>1. ASSUME NEW v \in Values, NEW prio, NEW settled, cacheGetTextureEx(v, prio, settled)
      PROVE  Draws /\ UNCHANGED <<cur, cstate, lifeVars, loaded, lost, callVars, pc,
                                 gArtCurrentReq, artReq>>
  BY <1>1 DEF cacheGetTextureEx, DrawParked, DrawLoading, DrawAbsent, DrawReady,
     DrawNothing, DrawClaim, Misses
<1>2. ASSUME NEW v \in Values, cacheLookupTexture(v)
      PROVE  Draws /\ UNCHANGED <<cur, cstate, lifeVars, loaded, lost, callVars, pc,
                                 gArtCurrentReq, artReq>>
  BY <1>2 DEF cacheLookupTexture
<1>3. ASSUME NEW nav, cacheTickArt(nav)
      PROVE  Draws /\ UNCHANGED <<cur, cstate, lifeVars, loaded, lost, callVars, pc,
                                 gArtCurrentReq, artReq>>
  BY <1>3 DEF cacheTickArt
<1>4. CASE cacheDropQueuedArt \/ cacheInvalidateFailMemo \/ RebuildList
  BY <1>4 DEF cacheDropQueuedArt, cacheInvalidateFailMemo, RebuildList
<1> QED BY <1>1, <1>2, <1>3, <1>4 DEF GuiNext

\* wakeup and gArtNavActive stay Boolean in a frame.
LEMMA GuiFlags ==
  ASSUME GuiNext, wakeup \in BOOLEAN, gArtNavActive \in BOOLEAN
  PROVE  wakeup' \in BOOLEAN /\ gArtNavActive' \in BOOLEAN
<1> USE DEF cacheVars, reqVars, guiVars, artVars, countVars
<1>1. ASSUME NEW v \in Values, NEW prio, NEW settled, cacheGetTextureEx(v, prio, settled)
      PROVE  wakeup' \in BOOLEAN /\ gArtNavActive' \in BOOLEAN
  BY <1>1 DEF cacheGetTextureEx, DrawParked, DrawLoading, DrawAbsent, DrawReady,
     DrawNothing, DrawClaim
<1>2. ASSUME NEW v \in Values, cacheLookupTexture(v)
      PROVE  wakeup' \in BOOLEAN /\ gArtNavActive' \in BOOLEAN
  BY <1>2 DEF cacheLookupTexture
<1>3. ASSUME NEW nav \in Maybe("nav"), cacheTickArt(nav)
      PROVE  wakeup' \in BOOLEAN /\ gArtNavActive' \in BOOLEAN
  BY <1>3 DEF cacheTickArt, Maybe
<1>4. CASE cacheDropQueuedArt \/ cacheInvalidateFailMemo \/ RebuildList
  BY <1>4 DEF cacheDropQueuedArt, cacheInvalidateFailMemo, RebuildList
<1> QED BY <1>1, <1>2, <1>3, <1>4 DEF GuiNext

Control == ControlType /\ Operations

\* A caller moves on, and the others stay where they are.
LEMMA ControlStep ==
  ASSUME Control, NEW t \in Callers, NEW label \in CallerLabels, NEW o \in Ops,
         NEW ph \in {"cancel", "abort", "shutdown", "end"}, NEW c \in Caches,
         pc' = [pc EXCEPT ![t] = label], op' = [op EXCEPT ![t] = o],
         phase' = [phase EXCEPT ![t] = ph], old' = [old EXCEPT ![t] = c],
         cur' \in Caches, calls' \in 0..MaxCalls,
         wakeup' \in BOOLEAN, gArtTerminate' \in BOOLEAN, UNCHANGED <<gArtNavActive, gArtRunning>>,
         cur' = cur \/ (cur' = cur + 1 /\ op[t] \in ThemeOps),
         gCacheLoadsCancelled' = (gCacheLoadsCancelled \/ o = "exit"),
         Performing(t)',
         o \in ThemeOps => op[t] \in ThemeOps \/ \A u \in Callers : op[u] \notin ThemeOps,
         gArtShutdownAbandoned' \in BOOLEAN,
         gArtShutdownAbandoned' =>
           IF t = Gui THEN o = "exit" /\ label \in {"destroy", "destroy_wait", "ended"}
           ELSE gArtShutdownAbandoned
  PROVE  Control'
<1> USE DEF Control, Callers, Threads, Gui, Io, Art
<1>1. /\ \A u \in Threads : pc'[u] = IF u = t THEN label ELSE pc[u]
      /\ \A u \in Callers : /\ op'[u] = IF u = t THEN o ELSE op[u]
                            /\ phase'[u] = IF u = t THEN ph ELSE phase[u]
                            /\ old'[u] = IF u = t THEN c ELSE old[u]
  BY DEF ControlType
<1>2. ControlType'
  BY <1>1 DEF ControlType
<1>3. ASSUME NEW u \in Callers, u # t PROVE Performing(u)'
  <2>1. pc'[u] = pc[u] /\ op'[u] = op[u] /\ phase'[u] = phase[u] /\ old'[u] = old[u] /\ old[u] \in Nat
    BY <1>1, <1>3 DEF ControlType, Caches
  <2>2. Performing(u)
    BY DEF Operations
  <2>3. gCacheLoadsCancelled => gCacheLoadsCancelled'
    OBVIOUS
  <2>4. CASE cur' = cur
    BY <2>1, <2>2, <2>3, <2>4 DEF Performing
  <2>5. CASE cur' = cur + 1 /\ op[t] \in ThemeOps
    <3>1. op[u] \notin ThemeOps
      BY <1>3, <2>5 DEF Operations
    <3>2. cur \in Nat /\ (old[u] <= cur => old[u] <= cur + 1)
      BY <2>1 DEF ControlType, Caches
    <3> QED BY <2>1, <2>2, <2>3, <2>5, <3>1, <3>2 DEF Performing
  <2> QED BY <2>4, <2>5
<1>4. op'[Gui] \in ThemeOps => op'[Io] \notin ThemeOps
  BY <1>1 DEF Operations
<1>5. gArtShutdownAbandoned' => /\ op'[Gui] = "exit"
                                /\ pc'[Gui] \in {"destroy", "destroy_wait", "ended"}
  BY <1>1 DEF Operations
<1> QED BY <1>2, <1>3, <1>4, <1>5 DEF Operations

\* An operation begins.
LEMMA CallControl ==
  ASSUME Control, NEW t \in Callers, NEW o \in Ops, Call(t, o)
  PROVE  Control'
<1> USE DEF Control, Callers, Threads, Gui, Io, Art, ThemeOps, Ops
<1>1. /\ pc[t] = "idle" /\ pc' = [pc EXCEPT ![t] = "walk"]
      /\ op' = [op EXCEPT ![t] = o] /\ phase' = [phase EXCEPT ![t] = FirstPhase(o)]
      /\ calls < MaxCalls /\ calls' = calls + 1
      /\ gCacheLoadsCancelled' = (gCacheLoadsCancelled \/ o = "exit")
      /\ t = Gui => ~gCacheLoadsCancelled
      /\ o \in ThemeOps => /\ cur < NumThemes
                           /\ \A u \in Callers : pc[u] = "idle" \/ op[u] \notin ThemeOps
      /\ UNCHANGED <<cur, old, wakeup, gArtNavActive, gArtTerminate,
                     gArtShutdownAbandoned, gArtRunning>>
  BY DEF Call, MayCall, Detach, Goto, cacheVars, guiVars
<1>2. /\ FirstPhase(o) \in {"cancel", "abort", "shutdown"}
      /\ FirstPhase(o) = "shutdown" <=> o = "exit"
  BY DEF FirstPhase
<1>3. o \in ThemeOps => \A u \in Callers : op[u] \notin ThemeOps
  BY <1>1 DEF Operations, Performing
<1>4. Performing(t)'
  BY <1>1, <1>2 DEF Performing, ControlType, Switched
<1>5. gArtShutdownAbandoned' => t # Gui
  BY <1>1 DEF Operations
<1>6. old' = [old EXCEPT ![t] = old[t]] /\ old[t] \in Caches /\ cur' \in Caches
      /\ calls' \in 0..MaxCalls /\ wakeup' \in BOOLEAN /\ gArtTerminate' \in BOOLEAN
      /\ gArtShutdownAbandoned' \in BOOLEAN
  BY <1>1, BoundsAssumption DEF ControlType
<1> HIDE DEF Control, Callers, Threads, Gui, Io, Art, ThemeOps, Ops
<1> QED BY <1>1, <1>2, <1>3, <1>4, <1>5, <1>6, ControlStep DEF CallerLabels

\* A caller goes on within its operation.
LEMMA MoveControl ==
  ASSUME Control, NEW t \in Callers, NEW label \in CallerLabels,
         pc' = [pc EXCEPT ![t] = label], wakeup' \in BOOLEAN,
         UNCHANGED <<cur, op, phase, old, calls, gArtNavActive, gArtTerminate,
                     gArtRunning, gCacheLoadsCancelled, gArtShutdownAbandoned>>,
         Performing(t)',
         gArtShutdownAbandoned /\ t = Gui => label \in {"destroy", "destroy_wait", "ended"}
  PROVE  Control'
<1>1. /\ op' = [op EXCEPT ![t] = op[t]] /\ phase' = [phase EXCEPT ![t] = phase[t]]
      /\ old' = [old EXCEPT ![t] = old[t]] /\ op[t] \in Ops /\ old[t] \in Caches
      /\ phase[t] \in {"cancel", "abort", "shutdown", "end"}
      /\ cur' \in Caches /\ calls' \in 0..MaxCalls /\ gArtTerminate' \in BOOLEAN
      /\ gArtShutdownAbandoned' \in BOOLEAN
  BY DEF Control, ControlType
<1>2. gCacheLoadsCancelled' = (gCacheLoadsCancelled \/ op[t] = "exit")
  BY DEF Control, Operations, Performing, ControlType
<1>3. gArtShutdownAbandoned' => IF t = Gui THEN op[t] = "exit" ELSE gArtShutdownAbandoned
  BY DEF Control, Operations
<1> QED BY <1>1, <1>2, <1>3, ControlStep

\* An operation returns.
LEMMA ReturnControl ==
  ASSUME Control, NEW t \in Callers, Return(t), op[t] # "exit", wakeup' \in BOOLEAN,
         UNCHANGED <<cur, calls, gArtNavActive, gArtTerminate,
                     gArtRunning, gCacheLoadsCancelled, gArtShutdownAbandoned>>
  PROVE  Control'
<1>1. /\ pc' = [pc EXCEPT ![t] = "idle"] /\ op' = [op EXCEPT ![t] = "cancel"]
      /\ phase' = [phase EXCEPT ![t] = "cancel"] /\ old' = [old EXCEPT ![t] = 1]
  BY DEF Return, Goto
<1>2. pc'[t] = "idle" /\ op'[t] = "cancel" /\ phase'[t] = "cancel"
  BY <1>1 DEF Control, ControlType, Callers, Threads
<1>3. /\ 1 \in Caches /\ cur' \in Caches /\ calls' \in 0..MaxCalls
      /\ gArtTerminate' \in BOOLEAN /\ gArtShutdownAbandoned' \in BOOLEAN
      /\ gCacheLoadsCancelled' = gCacheLoadsCancelled
  BY BoundsAssumption DEF Control, ControlType, Caches
<1>4. Performing(t)'
  BY <1>2 DEF Performing, ThemeOps
<1>5. gArtShutdownAbandoned' => t # Gui
  BY DEF Control, Operations
<1>6. /\ "cancel" \in Ops /\ "cancel" \notin ThemeOps /\ "idle" \in CallerLabels
      /\ gCacheLoadsCancelled' = (gCacheLoadsCancelled \/ "cancel" = "exit")
  BY <1>3 DEF Ops, ThemeOps, CallerLabels, Control, ControlType
<1> QED BY <1>1, <1>3, <1>4, <1>5, <1>6, ControlStep

\* The walk of a canceller, and its wait.
LEMMA CancelControl ==
  ASSUME Control, NEW t \in Callers,
         \/ Walk(t) \/ ClearItem(t) \/ CountLoad(t) \/ CountStore(t)
         \/ SetAside(t) \/ PushKept(t) \/ Walked(t) \/ WaitReturns(t) \/ CancelNext(t)
  PROVE  Control'
<1> USE DEF Goto
<1> DEFINE Same == UNCHANGED <<cur, calls, gArtNavActive, gCacheLoadsCancelled,
                              gArtTerminate, gArtShutdownAbandoned, gArtRunning>>
<1>a. t \in Threads /\ t # Art /\ Performing(t) /\ wakeup \in BOOLEAN
  BY DEF Callers, Threads, Gui, Io, Art, Control, Operations, ControlType
<1>b. \A label : pc' = [pc EXCEPT ![t] = label] => pc'[t] = label
  BY <1>a DEF Control, ControlType
<1>c. gArtShutdownAbandoned /\ t = Gui => pc[t] \in {"destroy", "destroy_wait", "ended"}
  BY DEF Control, Operations
<1>1. ASSUME pc[t] \in Walking, NEW label \in Walking, pc' = [pc EXCEPT ![t] = label],
             Same, UNCHANGED <<op, phase, old, wakeup>>
      PROVE  Control'
  <2>1. Performing(t)' /\ label \in CallerLabels
    BY <1>a, <1>b, <1>1 DEF Performing, Walking, Switched, CallerLabels
  <2> QED BY <1>a, <1>c, <1>1, <2>1, MoveControl DEF Walking
<1>2. CASE Walk(t) \/ ClearItem(t) \/ CountLoad(t) \/ CountStore(t)
  BY <1>a, <1>1, <1>2
     DEF Walk, ClearItem, CountLoad, CountStore, Walking, cacheVars, guiVars,
         artVars, lifeVars, callVars
<1>3. CASE SetAside(t) \/ PushKept(t)
  <2>1. pc' = pc /\ Same /\ UNCHANGED <<op, phase, old, wakeup>>
    BY <1>3 DEF SetAside, PushKept, cacheVars, guiVars, artVars, lifeVars
  <2> QED BY <2>1 DEF Control, ControlType, Operations, Performing
<1>4. CASE Walked(t)
  <2>1. /\ pc[t] = "walk" /\ Same /\ UNCHANGED <<op, phase, old>> /\ wakeup' = TRUE
        /\ pc' = [pc EXCEPT ![t] = CASE phase[t] = "shutdown" -> "drain"
                                    [] phase[t] = "end"      -> "join"
                                    [] OTHER                 -> "wait"]
    BY <1>4 DEF Walked, cacheVars, guiVars, lifeVars, callVars
  <2>2. PICK label \in {"drain", "join", "wait"} :
          /\ pc' = [pc EXCEPT ![t] = label]
          /\ label \in {"drain", "join"} <=> phase[t] \in {"shutdown", "end"}
    <3>1. CASE phase[t] = "shutdown"
      BY <2>1, <3>1
    <3>2. CASE phase[t] = "end"
      BY <2>1, <3>2
    <3>3. CASE phase[t] # "shutdown" /\ phase[t] # "end"
      <4>1. pc' = [pc EXCEPT ![t] = "wait"]
        BY <2>1, <3>3
      <4> QED BY <3>3, <4>1
    <3> QED BY <3>1, <3>2, <3>3
  <2>3. pc'[t] = label /\ label \in CallerLabels
    BY <1>b, <2>2 DEF CallerLabels
  <2>4. Performing(t)'
    BY <1>a, <2>1, <2>2, <2>3 DEF Performing, Switched
  <2> QED BY <1>c, <2>1, <2>2, <2>3, <2>4, MoveControl
<1>5. CASE WaitReturns(t)
  <2>1. pc[t] = "wait" /\ Same /\ UNCHANGED wakeup
    BY <1>5 DEF WaitReturns, cacheVars, guiVars, artVars, lifeVars
  <2>2. ASSUME op[t] \in ThemeOps, UNCHANGED <<op, phase, old>>,
               NEW label \in {"next", "swap"}, pc' = [pc EXCEPT ![t] = label]
        PROVE  Control'
    <3>1. Performing(t)' /\ label \in CallerLabels
      BY <1>a, <1>b, <2>1, <2>2 DEF Performing, Switched, CallerLabels
    <3> QED BY <1>a, <1>c, <2>1, <2>2, <3>1, MoveControl
  <2>3. CASE Return(t)
    <3>1. op[t] # "exit"
      BY <1>a, <2>1 DEF Performing
    <3> QED BY <1>a, <2>1, <2>3, <3>1, ReturnControl
  <2> QED BY <1>5, <2>1, <2>2, <2>3 DEF WaitReturns
<1>6. CASE CancelNext(t)
  <2>1. /\ pc[t] = "next" /\ Same /\ UNCHANGED <<op, old, wakeup>>
        /\ \/ pc' = [pc EXCEPT ![t] = "walk"] /\ phase' = [phase EXCEPT ![t] = "cancel"]
           \/ pc' = [pc EXCEPT ![t] = "swap"] /\ UNCHANGED phase
    BY <1>6 DEF CancelNext, Detach, cacheVars, guiVars, lifeVars
  <2>2. CASE pc' = [pc EXCEPT ![t] = "swap"] /\ UNCHANGED phase
    <3>1. Performing(t)' /\ "swap" \in CallerLabels
      BY <1>a, <1>b, <2>1, <2>2 DEF Performing, Switched, CallerLabels
    <3> QED BY <1>a, <1>c, <2>1, <2>2, <3>1, MoveControl
  <2>3. CASE pc' = [pc EXCEPT ![t] = "walk"] /\ phase' = [phase EXCEPT ![t] = "cancel"]
    <3>1. phase'[t] = "cancel" /\ pc'[t] = "walk"
      BY <1>b, <2>3 DEF Control, ControlType
    <3>2. op[t] \in ThemeOps /\ op[t] # "exit"
      BY <1>a, <2>1 DEF Performing, ThemeOps
    <3>3. Performing(t)'
      BY <1>a, <2>1, <3>1, <3>2 DEF Performing, Switched, ThemeOps
    <3>4. /\ op' = [op EXCEPT ![t] = op[t]] /\ old' = [old EXCEPT ![t] = old[t]]
          /\ op[t] \in Ops /\ old[t] \in Caches /\ "walk" \in CallerLabels
          /\ cur' \in Caches /\ cur' = cur /\ calls' \in 0..MaxCalls /\ wakeup' \in BOOLEAN
          /\ gArtTerminate' \in BOOLEAN /\ gArtShutdownAbandoned' \in BOOLEAN
          /\ gCacheLoadsCancelled' = (gCacheLoadsCancelled \/ op[t] = "exit")
      BY <2>1, <3>2 DEF Control, ControlType, CallerLabels
    <3>5. gArtShutdownAbandoned' => t # Gui /\ gArtShutdownAbandoned
      BY <1>c, <2>1
    <3> QED BY <2>1, <2>3, <3>2, <3>3, <3>4, <3>5, ControlStep
  <2> QED BY <2>1, <2>2, <2>3
<1> QED BY <1>2, <1>3, <1>4, <1>5, <1>6

\* The end of cacheDestroyCache, and what its caller does next.
LEMMA DestroyedControl ==
  ASSUME Control, NEW t \in Callers, Destroyed(t), pc[t] \in {"destroy", "destroy_wait"},
         UNCHANGED <<cur, calls, gArtNavActive, gCacheLoadsCancelled, gArtTerminate,
                     gArtShutdownAbandoned, gArtRunning, wakeup>>
  PROVE  Control'
<1>a. /\ t \in Threads /\ Performing(t) /\ wakeup' \in BOOLEAN
      /\ gArtShutdownAbandoned /\ t = Gui => op[t] = "exit"
  BY DEF Callers, Threads, Control, Operations, ControlType
<1>b. \A label : pc' = [pc EXCEPT ![t] = label] => pc'[t] = label
  BY <1>a DEF Control, ControlType
<1>1. CASE op[t] \in KeepsRows
  BY <1>a, <1>1, ReturnControl DEF Destroyed, KeepsRows
<1>2. CASE op[t] = "exit"
  <2>1. pc' = [pc EXCEPT ![t] = "ended"] /\ UNCHANGED <<op, phase, old>>
    BY <1>2 DEF Destroyed, Goto, KeepsRows
  <2>2. Performing(t)' /\ "ended" \in CallerLabels
    BY <1>a, <1>b, <1>2, <2>1 DEF Performing, CallerLabels, ThemeOps
  <2> QED BY <1>a, <2>1, <2>2, MoveControl
<1>3. CASE op[t] \notin KeepsRows /\ op[t] # "exit"
  <2>1. pc' = [pc EXCEPT ![t] = "rebuild"] /\ UNCHANGED <<op, phase, old>>
    BY <1>3 DEF Destroyed, Goto, KeepsRows
  <2>2. Performing(t)' /\ "rebuild" \in CallerLabels
    BY <1>a, <1>b, <1>3, <2>1 DEF Performing, CallerLabels, Switched
  <2> QED BY <1>a, <1>3, <2>1, <2>2, MoveControl
<1> QED BY <1>1, <1>2, <1>3

\* A theme load switches the theme and gives up the old one.
LEMMA ThemeControl ==
  ASSUME Control, NEW t \in Callers,
         SwapTheme(t) \/ DestroyCache(t) \/ DestroyWaitEnds(t) \/ RebuildRows(t)
  PROVE  Control'
<1> USE DEF Goto
<1>a. /\ t \in Threads /\ Performing(t) /\ wakeup \in BOOLEAN
      /\ gArtShutdownAbandoned /\ t = Gui => pc[t] \in {"destroy", "destroy_wait", "ended"}
  BY DEF Callers, Threads, Control, Operations, ControlType
<1>b. \A label : pc' = [pc EXCEPT ![t] = label] => pc'[t] = label
  BY <1>a DEF Control, ControlType
<1>1. CASE SwapTheme(t)
  <2>1. /\ pc[t] = "swap" /\ pc' = [pc EXCEPT ![t] = "destroy"]
        /\ old' = [old EXCEPT ![t] = cur] /\ cur' = cur + 1
        /\ UNCHANGED <<op, phase, calls, gArtNavActive, gCacheLoadsCancelled,
                       gArtTerminate, gArtShutdownAbandoned, gArtRunning, wakeup>>
    BY <1>1 DEF SwapTheme, guiVars, artVars, lifeVars
  <2>2. op[t] \in ThemeOps /\ op[t] # "exit" /\ cur < NumThemes
    BY <1>a, <2>1 DEF Performing, Switched, ThemeOps
  <2>3. /\ op' = [op EXCEPT ![t] = op[t]] /\ phase' = [phase EXCEPT ![t] = phase[t]]
        /\ op[t] \in Ops /\ phase[t] \in {"cancel", "abort", "shutdown", "end"}
        /\ cur \in Caches /\ cur' \in Caches /\ calls' \in 0..MaxCalls /\ wakeup' \in BOOLEAN
        /\ gArtTerminate' \in BOOLEAN /\ gArtShutdownAbandoned' \in BOOLEAN
        /\ gCacheLoadsCancelled' = (gCacheLoadsCancelled \/ op[t] = "exit")
        /\ "destroy" \in CallerLabels
    BY <2>1, <2>2, BoundsAssumption DEF Control, ControlType, Caches, CallerLabels
  <2>4. pc'[t] = "destroy" /\ op'[t] = op[t] /\ phase'[t] = phase[t]
        /\ old'[t] < cur' /\ old'[t] <= cur'
    <3>1. pc'[t] = "destroy" /\ op'[t] = op[t] /\ phase'[t] = phase[t]
      BY <1>b, <2>1
    <3>2. old'[t] = cur
      BY <2>1 DEF Control, ControlType
    <3>3. cur \in Int /\ cur < cur + 1 /\ cur <= cur + 1
      BY BoundsAssumption DEF Control, ControlType, Caches
    <3> QED BY <2>1, <3>1, <3>2, <3>3
  <2>5. Performing(t)'
    BY <1>a, <2>1, <2>2, <2>4 DEF Performing, Switched
  <2>6. gArtShutdownAbandoned' => t # Gui /\ gArtShutdownAbandoned
    BY <1>a, <2>1
  <2> QED BY <2>1, <2>2, <2>3, <2>5, <2>6, ControlStep
<1>2. CASE DestroyCache(t)
  <2>1. /\ pc[t] = "destroy"
        /\ UNCHANGED <<cur, calls, gArtNavActive, gCacheLoadsCancelled, gArtTerminate,
                       gArtShutdownAbandoned, gArtRunning>>
    BY <1>2 DEF DestroyCache, guiVars, lifeVars
  <2>2. CASE Unreferenced(old[t])
    <3>1. Destroyed(t) /\ UNCHANGED wakeup
      BY <1>2, <2>2 DEF DestroyCache, FreeOrLeak
    <3> QED BY <2>1, <3>1, DestroyedControl
  <2>3. CASE ~Unreferenced(old[t])
    <3>1. pc' = [pc EXCEPT ![t] = "destroy_wait"] /\ wakeup' = TRUE /\ UNCHANGED <<op, phase, old>>
      BY <1>2, <2>3 DEF DestroyCache
    <3>2. Performing(t)' /\ "destroy_wait" \in CallerLabels
      BY <1>a, <1>b, <2>1, <3>1 DEF Performing, CallerLabels, Switched
    <3> QED BY <2>1, <3>1, <3>2, MoveControl
  <2> QED BY <2>2, <2>3
<1>3. CASE DestroyWaitEnds(t)
  <2>1. /\ pc[t] = "destroy_wait" /\ Destroyed(t)
        /\ UNCHANGED <<cur, calls, gArtNavActive, gCacheLoadsCancelled, gArtTerminate,
                       gArtShutdownAbandoned, gArtRunning, wakeup>>
    BY <1>3 DEF DestroyWaitEnds, FreeOrLeak, guiVars, lifeVars, artVars
  <2> QED BY <2>1, DestroyedControl
<1>4. CASE RebuildRows(t)
  <2>1. /\ pc[t] = "rebuild" /\ Return(t)
        /\ UNCHANGED <<cur, calls, gArtNavActive, gCacheLoadsCancelled, gArtTerminate,
                       gArtShutdownAbandoned, gArtRunning, wakeup>>
    BY <1>4 DEF RebuildRows, cacheVars, lifeVars, artVars
  <2>2. op[t] # "exit"
    BY <1>a, <2>1 DEF Performing, ThemeOps
  <2> QED BY <1>a, <2>1, <2>2, ReturnControl
<1> QED BY <1>1, <1>2, <1>3, <1>4

\* The end of the program, on the GUI thread.
LEMMA TeardownControl ==
  ASSUME Control, TeardownNext
  PROVE  Control'
<1>a. Gui \in Callers /\ Gui \in Threads /\ Performing(Gui)
  BY DEF Callers, Threads, Control, Operations
<1>b. \A label : pc' = [pc EXCEPT ![Gui] = label] => pc'[Gui] = label
  BY <1>a DEF Control, ControlType
<1>1. CASE EndBegins
  <2>1. /\ pc[Gui] = "drain" /\ pc' = [pc EXCEPT ![Gui] = "walk"]
        /\ phase' = [phase EXCEPT ![Gui] = "end"] /\ gArtTerminate' = TRUE
        /\ UNCHANGED <<cur, op, old, calls, gArtNavActive, gCacheLoadsCancelled,
                       gArtShutdownAbandoned, gArtRunning, wakeup>>
    BY <1>1 DEF EndBegins, Detach, Goto, cacheVars, guiVars
  <2>2. op[Gui] = "exit" /\ gCacheLoadsCancelled /\ ~gArtShutdownAbandoned
    BY <1>a, <2>1 DEF Performing, Control, Operations
  <2>3. /\ op' = [op EXCEPT ![Gui] = op[Gui]] /\ op[Gui] \in Ops
        /\ old' = [old EXCEPT ![Gui] = old[Gui]] /\ old[Gui] \in Caches
        /\ cur' = cur /\ cur' \in Caches /\ calls' \in 0..MaxCalls /\ wakeup' \in BOOLEAN
        /\ gArtShutdownAbandoned' \in BOOLEAN /\ gArtTerminate' \in BOOLEAN
        /\ gCacheLoadsCancelled' = (gCacheLoadsCancelled \/ op[Gui] = "exit")
        /\ "walk" \in CallerLabels
    BY <1>a, <2>1, <2>2 DEF Control, ControlType, CallerLabels
  <2>4. pc'[Gui] = "walk" /\ phase'[Gui] = "end"
    BY <1>a, <1>b, <2>1 DEF Control, ControlType
  <2>5. Performing(Gui)'
    BY <2>1, <2>2, <2>4 DEF Performing, ThemeOps
  <2> QED BY <1>a, <2>1, <2>2, <2>3, <2>5, ControlStep DEF ThemeOps
<1>2. CASE Joined
  <2>1. /\ pc[Gui] = "join" /\ pc' = [pc EXCEPT ![Gui] = "destroy"]
        /\ old' = [old EXCEPT ![Gui] = cur] /\ gArtShutdownAbandoned' = gArtRunning
        /\ UNCHANGED <<cur, op, phase, calls, gArtNavActive, gCacheLoadsCancelled,
                       gArtTerminate, gArtRunning, wakeup>>
    BY <1>2 DEF Joined, Goto, cacheVars, guiVars, artVars
  <2>2. op[Gui] = "exit" /\ gCacheLoadsCancelled
    BY <1>a, <2>1 DEF Performing
  <2>3. /\ op' = [op EXCEPT ![Gui] = op[Gui]] /\ op[Gui] \in Ops
        /\ phase' = [phase EXCEPT ![Gui] = phase[Gui]]
        /\ phase[Gui] \in {"cancel", "abort", "shutdown", "end"}
        /\ cur' = cur /\ cur \in Caches /\ cur' \in Caches /\ calls' \in 0..MaxCalls
        /\ wakeup' \in BOOLEAN /\ gArtShutdownAbandoned' \in BOOLEAN
        /\ gArtTerminate' \in BOOLEAN
        /\ gCacheLoadsCancelled' = (gCacheLoadsCancelled \/ op[Gui] = "exit")
        /\ "destroy" \in CallerLabels
    BY <1>a, <2>1, <2>2 DEF Control, ControlType, CallerLabels
  <2>4. pc'[Gui] = "destroy" /\ old'[Gui] = cur /\ cur <= cur
    BY <1>a, <1>b, <2>1 DEF Control, ControlType, Caches
  <2>5. Performing(Gui)'
    BY <1>a, <2>1, <2>2, <2>4 DEF Performing, ThemeOps, Switched
  <2> QED BY <1>a, <2>1, <2>2, <2>3, <2>5, ControlStep DEF ThemeOps
<1> QED BY <1>1, <1>2 DEF TeardownNext

\* The art worker moves by itself.
LEMMA ArtControl ==
  ASSUME Control, ArtReads \/ ArtRest
  PROVE  Control'
<1> USE DEF Goto, cacheVars, reqVars, guiVars, artVars, lifeVars, callVars
<1>1. /\ \E label \in ArtLabels : pc' = [pc EXCEPT ![Art] = label]
      /\ wakeup' \in BOOLEAN /\ gArtTerminate' \in BOOLEAN /\ gArtRunning' \in BOOLEAN
      /\ UNCHANGED <<cur, op, phase, old, calls, gArtNavActive, gCacheLoadsCancelled,
                     gArtShutdownAbandoned>>
  <2>0. wakeup \in BOOLEAN /\ gArtTerminate \in BOOLEAN /\ gArtRunning \in BOOLEAN
    BY DEF Control, ControlType
  <2>1. CASE ArtReads
    BY <2>0, <2>1
       DEF ArtReads, ArtPublishes, ArtReadFails, ArtReturnsAbandoned, ArtLabels
  <2>2. CASE ArtWakes \/ artPop \/ ArtPopsNothing \/ ArtStarts \/ ArtZeroes
             \/ ArtHandsOver \/ artReleaseRequest \/ ArtExits
    BY <2>0, <2>2
       DEF ArtWakes, artPop, ArtPopsNothing, ArtStarts, ArtZeroes, ArtHandsOver,
           artReleaseRequest, ArtExits, ArtLabels
  <2>3. CASE ClearItem(Art) \/ CountLoad(Art) \/ CountStore(Art)
    BY <2>0, <2>3 DEF ClearItem, CountLoad, CountStore, ArtLabels
  <2> QED BY <2>1, <2>2, <2>3 DEF ArtRest
<1>2. pc'[Art] \in ArtLabels /\ \A t \in Callers : pc'[t] = pc[t]
  BY <1>1 DEF Control, ControlType, Threads, Callers, Gui, Io, Art
<1>3. ControlType'
  BY <1>1, <1>2 DEF Control, ControlType, Threads, Callers
<1>4. Operations'
  BY <1>1, <1>2 DEF Control, Operations, Performing, Callers
<1> QED BY <1>3, <1>4 DEF Control

\* Where the threads are and what they perform, in every step.
LEMMA ControlNext ==
  ASSUME Control, [Next]_vars
  PROVE  Control'
<1>1. CASE GuiNext
  <2>1. UNCHANGED <<cur, lifeVars, callVars, pc>>
    BY <1>1, GuiFrame
  <2>2. wakeup' \in BOOLEAN /\ gArtNavActive' \in BOOLEAN
    BY <1>1, GuiFlags DEF Control, ControlType
  <2> QED BY <2>1, <2>2 DEF Control, ControlType, Operations, Performing, lifeVars, callVars
<1>2. CASE CallNext
  BY <1>2, CallControl DEF CallNext
<1>3. CASE \E t \in Callers : Continue(t)
  BY <1>3, CancelControl, ThemeControl DEF Continue
<1>4. CASE TeardownNext
  BY <1>4, TeardownControl
<1>5. CASE ArtReads \/ ArtRest
  BY <1>5, ArtControl
<1>6. CASE UNCHANGED vars
  BY <1>6
     DEF Control, ControlType, Operations, Performing, vars, cacheVars, guiVars,
         artVars, lifeVars, callVars
<1> QED BY <1>1, <1>2, <1>3, <1>4, <1>5, <1>6 DEF Next

----------------------------------------------------------------------------
(* Every step hands requests on in one of these ways *)

Held == Hands /\ Places

\* Nothing changes hands.
LEMMA HandsSame ==
  ASSUME Hands, UNCHANGED <<queue, chain, keep, artReq, live>>
  PROVE  Hands'
BY DEF Hands, HandType, OnePlace, AllHeld

\* A caller moves, with what it holds.
LEMMA CallerPlaces ==
  ASSUME ControlType, Hands, Places, NEW t \in Callers, NEW label,
         pc' = [pc EXCEPT ![t] = label],
         UNCHANGED <<artReq, gArtCurrentReq, gArtRunning>>,
         \A u \in Callers : u # t => chain'[u] = chain[u] /\ keep'[u] = keep[u],
         label \in Dropping => chain'[t] # <<>>,
         label \notin Walking => chain'[t] = <<>> /\ keep'[t] = <<>>
  PROVE  Places'
<1>1. pc'[Art] = pc[Art] /\ \A u \in Callers : pc'[u] = IF u = t THEN label ELSE pc[u]
  BY DEF ControlType, Callers, Threads, Gui, Io, Art
<1> QED BY <1>1 DEF Places

\* The art worker moves, with what it holds.
LEMMA ArtPlaces ==
  ASSUME ControlType, Places, NEW label \in ArtLabels, pc' = [pc EXCEPT ![Art] = label],
         UNCHANGED <<chain, keep>>,
         artReq' # NULL <=> label \in Busy,
         gArtCurrentReq' = IF label \in Shown THEN artReq' ELSE NULL,
         gArtRunning' <=> label # "dead"
  PROVE  Places'
<1>1. pc'[Art] = label /\ \A u \in Callers : pc'[u] = pc[u]
  BY DEF ControlType, Callers, Threads, Gui, Io, Art
<1> QED BY <1>1 DEF Places

\* Drawing queues a request, or reorders the queue.
LEMMA GuiHeld ==
  ASSUME Held, GuiNext
  PROVE  Held'
<1> USE DEF cacheVars, reqVars, guiVars, artVars, callVars, countVars
<1>1. UNCHANGED <<pc, chain, keep, artReq, gArtCurrentReq, gArtRunning>>
  BY GuiFrame DEF lifeVars
<1>2. Places'
  BY <1>1 DEF Held, Places
<1>3. ASSUME UNCHANGED <<queue, live>> PROVE Hands'
  BY <1>1, <1>3, HandsSame DEF Held
<1>4. ASSUME NEW v \in Values, NEW prio, NEW settled, cacheGetTextureEx(v, prio, settled)
      PROVE  Hands'
  <2>1. CASE DrawParked(v, prio) \/ DrawAbsent(v, prio) \/ DrawReady(v, prio)
             \/ DrawNothing(v, prio, settled)
    BY <1>3, <2>1 DEF DrawParked, DrawAbsent, DrawReady, DrawNothing
  <2>2. CASE DrawLoading(v, prio)
    <3>1. live' = live /\ \E r : queue' = Promoted(r) \/ queue' = queue
      BY <2>2 DEF DrawLoading
    <3>2. queue' \in Seq(live) /\ Distinct(queue') /\ Elements(queue') = Elements(queue)
      BY <3>1, PromotedKeeps DEF Held, Hands, HandType, OnePlace
    <3> QED BY <1>1, <3>1, <3>2, HandsReordered DEF Held
  <2>3. CASE DrawClaim(v, prio, settled)
    <3>1. PICK r \in Reqs \ live : /\ live' = live \cup {r}
                                   /\ queue' = <<r>> \o queue \/ queue' = Append(queue, r)
      BY <2>3 DEF DrawClaim
    <3> QED BY <1>1, <3>1, HandsClaim DEF Held
  <2> QED BY <1>4, <2>1, <2>2, <2>3 DEF cacheGetTextureEx
<1>5. CASE \E v \in Values : cacheLookupTexture(v)
  BY <1>2, <1>3, <1>5 DEF Held, cacheLookupTexture
<1>6. CASE \E nav \in Maybe("nav") : cacheTickArt(nav)
  BY <1>2, <1>3, <1>6 DEF Held, cacheTickArt
<1>7. CASE cacheDropQueuedArt \/ cacheInvalidateFailMemo \/ RebuildList
  BY <1>2, <1>3, <1>7
     DEF Held, cacheDropQueuedArt, cacheInvalidateFailMemo, RebuildList
<1> QED BY <1>2, <1>4, <1>5, <1>6, <1>7 DEF GuiNext, Held

\* A canceller takes the queue.
LEMMA DetachHeld ==
  ASSUME ControlType, Held, NEW t \in Callers, pc[t] \notin Walking, NEW ph, Detach(t, ph),
         UNCHANGED <<keep, artReq, live, gArtCurrentReq, gArtRunning>>
  PROVE  Held'
<1>1. chain[t] = <<>> /\ chain' = [chain EXCEPT ![t] = queue] /\ queue' = <<>>
      /\ pc' = [pc EXCEPT ![t] = "walk"]
  BY DEF Held, Places, Detach, Goto
<1>2. Hands'
  BY <1>1, HandsDetached DEF Held
<1>3. \A u \in Callers : u # t => chain'[u] = chain[u] /\ keep'[u] = keep[u]
  BY <1>1 DEF Held, Hands, HandType
<1>4. Places'
  BY <1>1, <1>3, CallerPlaces DEF Held, Walking, Dropping
<1> QED BY <1>2, <1>4 DEF Held

\* What a caller does after its walk: nothing changes hands.
LEMMA MoveHeld ==
  ASSUME ControlType, Held, NEW t \in Callers, NEW label, pc' = [pc EXCEPT ![t] = label],
         UNCHANGED <<queue, chain, keep, artReq, live, gArtCurrentReq, gArtRunning>>,
         label \in Dropping => chain[t] # <<>>,
         label \notin Walking => chain[t] = <<>> /\ keep[t] = <<>>
  PROVE  Held'
<1>1. Hands'
  BY HandsSame DEF Held
<1>2. Places'
  BY CallerPlaces DEF Held
<1> QED BY <1>1, <1>2 DEF Held

\* What a caller does inside an operation.
LEMMA ContinueHeld ==
  ASSUME ControlType, Held, NEW t \in Callers, Continue(t)
  PROVE  Held'
<1> USE DEF Goto, cacheVars, reqVars, guiVars, artVars, callVars, countVars, lifeVars
<1>a. t # Art
  BY DEF Callers, Gui, Io, Art
<1>b. /\ pc[t] \in Dropping => chain[t] # <<>>
      /\ pc[t] \notin Walking => chain[t] = <<>> /\ keep[t] = <<>>
  BY DEF Held, Places
<1>1. CASE Walk(t) \/ ClearItem(t) \/ CountLoad(t)
  <2>1. /\ chain[t] # <<>> /\ \E label \in Dropping : pc' = [pc EXCEPT ![t] = label]
        /\ UNCHANGED <<queue, chain, keep, artReq, live, gArtCurrentReq, gArtRunning>>
    BY <1>a, <1>b, <1>1 DEF Walk, ClearItem, CountLoad, Dropping
  <2> QED BY <2>1, MoveHeld DEF Dropping, Walking
<1>2. CASE CountStore(t)
  <2>1. /\ chain[t] # <<>> /\ pc' = [pc EXCEPT ![t] = "walk"]
        /\ live' = live \ {Head(chain[t])} /\ chain' = [chain EXCEPT ![t] = Tail(@)]
        /\ UNCHANGED <<queue, keep, artReq, gArtCurrentReq, gArtRunning>>
    BY <1>a, <1>b, <1>2 DEF CountStore, Working, Dropping
  <2>2. Hands'
    BY <2>1, HandsFreed DEF Held
  <2>3. \A u \in Callers : u # t => chain'[u] = chain[u] /\ keep'[u] = keep[u]
    BY <2>1 DEF Held, Hands, HandType
  <2>4. Places'
    BY <2>1, <2>3, CallerPlaces DEF Held, Dropping, Walking
  <2> QED BY <2>2, <2>4 DEF Held
<1>3. CASE SetAside(t)
  <2>1. /\ chain[t] # <<>> /\ pc[t] = "walk" /\ pc' = pc
        /\ keep' = [keep EXCEPT ![t] = Append(@, Head(chain[t]))]
        /\ chain' = [chain EXCEPT ![t] = Tail(@)]
        /\ UNCHANGED <<queue, live, artReq, gArtCurrentReq, gArtRunning>>
    BY <1>3 DEF SetAside
  <2>2. Hands'
    BY <2>1, HandsSetAside DEF Held
  <2>3. \A u \in Callers : u # t => chain'[u] = chain[u] /\ keep'[u] = keep[u]
    BY <2>1 DEF Held, Hands, HandType
  <2>4. pc' = [pc EXCEPT ![t] = "walk"]
    BY <2>1 DEF ControlType
  <2>5. Places'
    BY <2>1, <2>3, <2>4, CallerPlaces DEF Held, Dropping, Walking
  <2> QED BY <2>2, <2>5 DEF Held
<1>4. CASE PushKept(t)
  <2>1. /\ keep[t] # <<>> /\ pc[t] = "walk" /\ pc' = pc
        /\ queue' = Append(queue, Head(keep[t])) /\ keep' = [keep EXCEPT ![t] = Tail(@)]
        /\ UNCHANGED <<chain, live, artReq, gArtCurrentReq, gArtRunning>>
    BY <1>4 DEF PushKept
  <2>2. Hands'
    BY <2>1, HandsPushedBack DEF Held
  <2>3. \A u \in Callers : u # t => chain'[u] = chain[u] /\ keep'[u] = keep[u]
    BY <2>1 DEF Held, Hands, HandType
  <2>4. pc' = [pc EXCEPT ![t] = "walk"]
    BY <2>1 DEF ControlType
  <2>5. Places'
    BY <2>1, <2>3, <2>4, CallerPlaces DEF Held, Dropping, Walking
  <2> QED BY <2>2, <2>5 DEF Held
<1>5. CASE Walked(t)
  <2>1. /\ chain[t] = <<>> /\ keep[t] = <<>>
        /\ \E label : pc' = [pc EXCEPT ![t] = label] /\ label \notin Dropping
        /\ UNCHANGED <<queue, chain, keep, artReq, live, gArtCurrentReq, gArtRunning>>
    <3>1. chain[t] = <<>> /\ keep[t] = <<>>
          /\ UNCHANGED <<queue, chain, keep, artReq, live, gArtCurrentReq, gArtRunning>>
      BY <1>5 DEF Walked
    <3>2. \/ phase[t] = "shutdown" /\ pc' = [pc EXCEPT ![t] = "drain"]
          \/ phase[t] = "end" /\ pc' = [pc EXCEPT ![t] = "join"]
          \/ pc' = [pc EXCEPT ![t] = "wait"]
      BY <1>5 DEF Walked
    <3>3. "drain" \notin Dropping /\ "join" \notin Dropping /\ "wait" \notin Dropping
      BY DEF Dropping
    <3>4. \E label : pc' = [pc EXCEPT ![t] = label] /\ label \notin Dropping
      BY <3>2, <3>3
    <3> QED BY <3>1, <3>4
  <2>2. PICK label : pc' = [pc EXCEPT ![t] = label] /\ label \notin Dropping
    BY <2>1
  <2> QED BY <2>1, <2>2, MoveHeld
<1>6. CASE WaitReturns(t)
  <2>1. /\ pc[t] \notin Walking /\ \E label : pc' = [pc EXCEPT ![t] = label] /\ label \notin Dropping
        /\ UNCHANGED <<queue, chain, keep, artReq, live, gArtCurrentReq, gArtRunning>>
    BY <1>6 DEF WaitReturns, Return, Walking, Dropping
  <2> QED BY <1>b, <2>1, MoveHeld
<1>7. CASE CancelNext(t)
  <2>1. /\ pc[t] \notin Walking
        /\ UNCHANGED <<keep, artReq, live, gArtCurrentReq, gArtRunning>>
        /\ \/ Detach(t, "cancel")
           \/ pc' = [pc EXCEPT ![t] = "swap"] /\ UNCHANGED <<chain, queue>>
    BY <1>7 DEF CancelNext, Walking
  <2>2. CASE Detach(t, "cancel")
    BY <2>1, <2>2, DetachHeld
  <2>3. CASE pc' = [pc EXCEPT ![t] = "swap"] /\ UNCHANGED <<chain, queue>>
    <3>1. "swap" \notin Dropping
      BY DEF Dropping
    <3> QED BY <1>b, <2>1, <2>3, <3>1, MoveHeld
  <2> QED BY <2>1, <2>2, <2>3
<1>8. CASE SwapTheme(t) \/ RebuildRows(t) \/ DestroyWaitEnds(t) \/ DestroyCache(t)
  <2>1. /\ pc[t] \notin Walking
        /\ UNCHANGED <<queue, chain, keep, artReq, live, gArtCurrentReq, gArtRunning>>
    BY <1>8 DEF SwapTheme, RebuildRows, DestroyWaitEnds, DestroyCache, Walking
  <2>2. \E label \in {"destroy", "destroy_wait", "idle", "ended", "rebuild"} :
          pc' = [pc EXCEPT ![t] = label]
    <3>1. CASE SwapTheme(t)
      BY <3>1 DEF SwapTheme, Goto
    <3>2. CASE RebuildRows(t)
      BY <3>2 DEF RebuildRows, Return, Goto
    <3>3. ASSUME Destroyed(t)
          PROVE  \E label \in {"idle", "ended", "rebuild"} : pc' = [pc EXCEPT ![t] = label]
      BY <3>3 DEF Destroyed, Return, Goto
    <3>4. CASE DestroyWaitEnds(t)
      BY <3>3, <3>4 DEF DestroyWaitEnds, FreeOrLeak
    <3>5. CASE DestroyCache(t)
      BY <3>3, <3>5 DEF DestroyCache, FreeOrLeak, Goto
    <3> QED BY <1>8, <3>1, <3>2, <3>3, <3>4, <3>5
  <2>3. \E label : pc' = [pc EXCEPT ![t] = label] /\ label \notin Dropping
    BY <2>2 DEF Dropping
  <2> QED BY <1>b, <2>1, <2>3, MoveHeld
<1> QED BY <1>1, <1>2, <1>3, <1>4, <1>5, <1>6, <1>7, <1>8 DEF Continue

\* What the art worker does.
LEMMA ArtHeld ==
  ASSUME ControlType, Held, ArtReads \/ ArtRest
  PROVE  Held'
<1> USE DEF Goto, cacheVars, reqVars, guiVars, artVars, callVars, countVars, lifeVars
<1>a. /\ artReq # NULL <=> pc[Art] \in Busy
      /\ gArtCurrentReq = IF pc[Art] \in Shown THEN artReq ELSE NULL
      /\ gArtRunning <=> pc[Art] # "dead"
  BY DEF Held, Places
<1>1. ASSUME NEW label \in Shown, pc[Art] \in Shown, pc' = [pc EXCEPT ![Art] = label],
             UNCHANGED <<queue, chain, keep, live, artReq, gArtCurrentReq, gArtRunning>>
      PROVE  Held'
  <2>1. Hands'
    BY <1>1, HandsSame DEF Held
  <2>2. Places'
    BY <1>a, <1>1, ArtPlaces DEF Held, Shown, Busy, ArtLabels
  <2> QED BY <2>1, <2>2 DEF Held
<1>2. CASE ArtStarts \/ ArtZeroes \/ ClearItem(Art) \/ ArtPublishes(TRUE) \/ ArtPublishes(FALSE)
           \/ ArtReadFails \/ ArtHandsOver
  <2>1. /\ \E label \in Shown : pc' = [pc EXCEPT ![Art] = label]
        /\ pc[Art] \in Shown
        /\ UNCHANGED <<queue, chain, keep, live, artReq, gArtCurrentReq, gArtRunning>>
    BY <1>2
       DEF ArtStarts, ArtZeroes, ClearItem, ArtPublishes, ArtReadFails,
           ArtHandsOver, Shown, Busy
  <2> QED BY <1>1, <2>1
<1>3. CASE ArtReturnsAbandoned
  <2>1. /\ pc[Art] = "read" /\ pc' = [pc EXCEPT ![Art] = "exit"] /\ live' = live \ {artReq}
        /\ artReq' = NULL /\ gArtCurrentReq' = NULL
        /\ UNCHANGED <<queue, chain, keep, gArtRunning>>
    BY <1>3 DEF ArtReturnsAbandoned
  <2>2. Hands'
    BY <1>a, <2>1, HandsReleased DEF Held, Busy
  <2>3. Places'
    BY <1>a, <2>1, ArtPlaces DEF Held, Shown, Busy, ArtLabels
  <2> QED BY <2>2, <2>3 DEF Held
<1>4. CASE CountStore(Art)
  <2>1. /\ pc[Art] = "store" /\ live' = live \ {artReq}
        /\ pc' = [pc EXCEPT ![Art] = "exit"] \/ pc' = [pc EXCEPT ![Art] = "pop"]
        /\ artReq' = NULL
        /\ UNCHANGED <<queue, chain, keep, gArtCurrentReq, gArtRunning>>
    BY <1>4 DEF CountStore, Working
  <2>2. Hands'
    BY <1>a, <2>1, HandsReleased DEF Held, Busy
  <2>3. Places'
    BY <1>a, <2>1, ArtPlaces DEF Held, Shown, Busy, ArtLabels
  <2> QED BY <2>2, <2>3 DEF Held
<1>5. CASE artPop
  <2>1. /\ pc[Art] = "pop" /\ pc' = [pc EXCEPT ![Art] = "gate"] /\ queue # <<>>
        /\ artReq' = Head(queue) /\ gArtCurrentReq' = Head(queue) /\ queue' = Tail(queue)
        /\ UNCHANGED <<chain, keep, live, gArtRunning>>
    BY <1>5 DEF artPop, Unlinked
  <2>2. artReq = NULL /\ gArtRunning
    BY <1>a, <2>1 DEF Busy
  <2>3. Hands'
    BY <2>1, <2>2, HandsPopped DEF Held
  <2>4. artReq' # NULL
    BY <2>1, ElementsTail, NullAssumption DEF Held, Hands, HandType
  <2>5. Places'
    BY <2>1, <2>2, <2>4, ArtPlaces DEF Held, Shown, Busy, ArtLabels
  <2> QED BY <2>3, <2>5 DEF Held
<1>6. CASE ArtWakes \/ ArtPopsNothing \/ ArtExits
  <2>1. /\ pc[Art] \in {"sleep", "pop", "exit"}
        /\ UNCHANGED <<queue, chain, keep, live, artReq, gArtCurrentReq>>
        /\ \/ pc' = [pc EXCEPT ![Art] = "exit"] /\ UNCHANGED gArtRunning
           \/ pc' = [pc EXCEPT ![Art] = "pop"] /\ UNCHANGED gArtRunning
           \/ pc' = [pc EXCEPT ![Art] = "sleep"] /\ UNCHANGED gArtRunning
           \/ pc' = [pc EXCEPT ![Art] = "dead"] /\ gArtRunning' = FALSE
    BY <1>6 DEF ArtWakes, ArtPopsNothing, ArtExits
  <2>2. Hands'
    BY <2>1, HandsSame DEF Held
  <2>3. Places'
    BY <1>a, <2>1, ArtPlaces DEF Held, Shown, Busy, ArtLabels
  <2> QED BY <2>2, <2>3 DEF Held
<1>7. CASE artReleaseRequest \/ CountLoad(Art)
  <2>1. /\ pc[Art] \in {"release", "count"} /\ gArtCurrentReq' = NULL
        /\ UNCHANGED <<queue, chain, keep, live, artReq, gArtRunning>>
        /\ pc' = [pc EXCEPT ![Art] = "count"] \/ pc' = [pc EXCEPT ![Art] = "store"]
    BY <1>a, <1>7 DEF artReleaseRequest, CountLoad, Shown, Busy
  <2>2. Hands'
    BY <2>1, HandsSame DEF Held
  <2>3. Places'
    BY <1>a, <2>1, ArtPlaces DEF Held, Shown, Busy, ArtLabels
  <2> QED BY <2>2, <2>3 DEF Held
<1> QED BY <1>2, <1>3, <1>4, <1>5, <1>6, <1>7 DEF ArtReads, ArtRest

\* Who holds a request, in every step.
LEMMA HeldNext ==
  ASSUME ControlType, Held, [Next]_vars
  PROVE  Held'
<1> USE DEF cacheVars, reqVars, guiVars, artVars, callVars, countVars, lifeVars
<1>1. CASE GuiNext
  BY <1>1, GuiHeld
<1>2. CASE CallNext
  <2>1. PICK t \in Callers, o \in Ops : Call(t, o)
    BY <1>2 DEF CallNext
  <2>2. /\ pc[t] \notin Walking /\ Detach(t, FirstPhase(o))
        /\ UNCHANGED <<keep, artReq, live, gArtCurrentReq, gArtRunning>>
    BY <2>1 DEF Call, MayCall, Walking
  <2> QED BY <2>2, DetachHeld
<1>3. CASE \E t \in Callers : Continue(t)
  BY <1>3, ContinueHeld
<1>4. CASE EndBegins
  <2>1. /\ pc[Gui] \notin Walking /\ Detach(Gui, "end")
        /\ UNCHANGED <<keep, artReq, live, gArtCurrentReq, gArtRunning>>
    BY <1>4 DEF EndBegins, Walking
  <2> QED BY <2>1, DetachHeld DEF Callers
<1>5. CASE Joined
  <2>1. /\ pc[Gui] = "join" /\ pc' = [pc EXCEPT ![Gui] = "destroy"]
        /\ UNCHANGED <<queue, chain, keep, artReq, live, gArtCurrentReq, gArtRunning>>
    BY <1>5 DEF Joined, Goto
  <2>2. Gui \in Callers /\ chain[Gui] = <<>> /\ keep[Gui] = <<>> /\ "destroy" \notin Dropping
    BY <2>1 DEF Held, Places, Walking, Callers, Dropping
  <2> QED BY <2>1, <2>2, MoveHeld
<1>6. CASE ArtReads \/ ArtRest
  BY <1>6, ArtHeld
<1>7. CASE UNCHANGED vars
  BY <1>7, HandsSame DEF Held, Places, vars
<1> QED BY <1>1, <1>2, <1>3, <1>4, <1>5, <1>6, <1>7 DEF Next, TeardownNext

----------------------------------------------------------------------------
(* What a step may do to the requests and the slots *)

\* A table in which the allocated requests have, at most, other flags.
Reflagged(tab) ==
  /\ tab \in [Reqs -> Request \cup {NULL}]
  /\ \A r \in Reqs :
       IF r \in live
       THEN /\ tab[r] \in Request
            /\ tab[r].cache = request[r].cache /\ tab[r].slot = request[r].slot
            /\ tab[r].uid = request[r].uid /\ tab[r].val = request[r].val
       ELSE tab[r] = NULL

\* Flags of one request are written.
LEMMA ReflaggedOne ==
  ASSUME live \subseteq Reqs, NEW tab, Reflagged(tab), NEW q \in live, NEW f \in BOOLEAN
  PROVE  /\ Reflagged([tab EXCEPT ![q].abort = f])
         /\ Reflagged([tab EXCEPT ![q].focusOK = f])
BY DEF Reflagged, Request

\* The focus moves: every copy of the focus generation is out of date.
LEMMA ReflaggedFocus ==
  ASSUME live \subseteq Reqs, RequestType, NEW v, NEW prio
  PROVE  Reflagged(request) /\ Reflagged(Refocused(v, prio))
<1>1. Reflagged(request)
  BY DEF Reflagged, RequestType
<1>2. Reflagged([r \in Reqs |-> IF r \in live THEN [request[r] EXCEPT !.focusOK = FALSE]
                                ELSE request[r]])
  BY DEF Reflagged, RequestType, Request
<1> QED BY <1>1, <1>2 DEF Refocused

\* What the one-slot background supersedes is flagged.
LEMMA ReflaggedSuperseded ==
  ASSUME live \subseteq Reqs, NEW tab, Reflagged(tab), NEW v
  PROVE  Reflagged(Superseded(v, tab))
BY ReflaggedOne DEF Superseded

ContentType == content \in [Caches -> [Slots -> Entry]]

\* Stamps and fail generations are written, nothing that says whose a slot is.
Retouched ==
  /\ ContentType'
  /\ \A c \in Caches, s \in Slots :
       LET e == content[c][s]
           f == content'[c][s]
       IN f.qr = e.qr /\ f.UID = e.UID /\ f.owner = e.owner /\ f.img = e.img

\* One slot is written.
LEMMA EntryWrite ==
  ASSUME ContentType, NEW c \in Caches, NEW s \in Slots, NEW e \in Entry,
         content' = [content EXCEPT ![c][s] = e]
  PROVE  /\ ContentType'
         /\ \A c2 \in Caches, s2 \in Slots :
              content'[c2][s2] = IF c2 = c /\ s2 = s THEN e ELSE content[c2][s2]
BY DEF ContentType

\* The ages.
LEMMA AgeTypes ==
  0 \in Ages /\ Old \in Ages /\ Absent \in Ages /\ Unused \in Ages
BY BoundsAssumption DEF Ages, Old, Absent, Unused

\* A slot after cacheClearItem.
LEMMA BlankTypes ==
  Zeroed \in Entry /\ Cleared \in Entry /\ Blank(Zeroed) /\ Blank(Cleared)
<1>1. 0 \in 0..MaxUID
  BY BoundsAssumption
<1> QED BY <1>1, AgeTypes DEF Zeroed, Cleared, Entry, Blank

\* A stamp says nothing about whose a slot is.
LEMMA Aged ==
  ASSUME NEW e \in Entry, NEW a \in Ages
  PROVE  LET f == [e EXCEPT !.age = a]
         IN /\ f \in Entry
            /\ f.qr = e.qr /\ f.UID = e.UID /\ f.owner = e.owner /\ f.img = e.img
BY DEF Entry

\* A stamp is renewed.
LEMMA StampRetouches ==
  ASSUME ContentType, cur \in Caches, NEW s \in Slots, Stamp(s)
  PROVE  Retouched
<1> DEFINE f == [content[cur][s] EXCEPT !.age = 0]
<1>1. content[cur][s] \in Entry
  BY DEF ContentType
<1>2. /\ f \in Entry /\ f.qr = content[cur][s].qr /\ f.UID = content[cur][s].UID
      /\ f.owner = content[cur][s].owner /\ f.img = content[cur][s].img
  BY <1>1, Aged, AgeTypes
<1>3. content' = [content EXCEPT ![cur][s] = f]
  BY DEF Stamp
<1> HIDE DEF f
<1>4. /\ ContentType'
      /\ \A c2 \in Caches, s2 \in Slots :
           content'[c2][s2] = IF c2 = cur /\ s2 = s THEN f ELSE content[c2][s2]
  BY <1>2, <1>3, EntryWrite
<1> QED BY <1>2, <1>4 DEF Retouched

\* A frame: every slot ages.
LEMMA TickRetouches ==
  ASSUME ContentType, NEW nav, cacheTickArt(nav)
  PROVE  Retouched
<1> DEFINE f(c, s) == [content[c][s] EXCEPT !.age = IF content[c][s].age < Old
                                                   THEN content[c][s].age + 1
                                                   ELSE content[c][s].age]
<1>1. content' = [c \in Caches |-> [s \in Slots |-> f(c, s)]]
  BY DEF cacheTickArt
<1>2. ASSUME NEW c \in Caches, NEW s \in Slots
      PROVE  /\ f(c, s) \in Entry
             /\ f(c, s).qr = content[c][s].qr /\ f(c, s).UID = content[c][s].UID
             /\ f(c, s).owner = content[c][s].owner /\ f(c, s).img = content[c][s].img
  <2>1. content[c][s] \in Entry
    BY DEF ContentType
  <2>2. (IF content[c][s].age < Old THEN content[c][s].age + 1 ELSE content[c][s].age) \in Ages
    BY <2>1, BoundsAssumption DEF Entry, Ages, Old, Unused
  <2> QED BY <2>1, <2>2 DEF Entry
<1> HIDE DEF f
<1>3. ContentType' /\ \A c \in Caches, s \in Slots : content'[c][s] = f(c, s)
  BY <1>1, <1>2 DEF ContentType
<1> QED BY <1>2, <1>3 DEF Retouched

\* A new fail generation.
LEMMA InvalidateRetouches ==
  ASSUME ContentType, cacheInvalidateFailMemo
  PROVE  Retouched
<1> DEFINE f(c, s) == [content[c][s] EXCEPT !.failOK = FALSE]
<1>1. content' = [c \in Caches |-> [s \in Slots |-> f(c, s)]]
  BY DEF cacheInvalidateFailMemo
<1>2. ASSUME NEW c \in Caches, NEW s \in Slots
      PROVE  /\ f(c, s) \in Entry
             /\ f(c, s).qr = content[c][s].qr /\ f(c, s).UID = content[c][s].UID
             /\ f(c, s).owner = content[c][s].owner /\ f(c, s).img = content[c][s].img
  <2>1. content[c][s] \in Entry
    BY DEF ContentType
  <2> QED BY <2>1 DEF Entry
<1> HIDE DEF f
<1>3. ContentType' /\ \A c \in Caches, s \in Slots : content'[c][s] = f(c, s)
  BY <1>1, <1>2 DEF ContentType
<1> QED BY <1>2, <1>3 DEF Retouched

Base == Control /\ Held /\ CacheType /\ RequestType

Calm == UNCHANGED <<cur, cstate, nextUID, activeRequests, lost>>

\* Only flags and stamps are written.
Touches == Calm /\ live' = live /\ Reflagged(request') /\ Retouched

\* A request is made for a free slot of the cache in use.
Asks(v, s, r) ==
  /\ Draws /\ v \in Values /\ s \in Slots /\ r \in Reqs \ live
  /\ nextUID[cur] <= MaxUID /\ content[cur][s].qr = NULL
  /\ \E tab : Reflagged(tab) /\ request' = [tab EXCEPT ![r] = NewRequest(v, s)]
  /\ live' = live \cup {r}
  /\ content' = [content EXCEPT ![cur][s] = Claimed(v, r)]
  /\ nextUID' = [nextUID EXCEPT ![cur] = @ + 1]
  /\ activeRequests' = [activeRequests EXCEPT ![cur] = @ + 1]
  /\ UNCHANGED <<cur, cstate, lost>>

\* cacheClearItem empties the slot of the worker's request, or of the head of a chain.
Empties(w, e) ==
  /\ e.qr = NULL /\ e.UID = 0 /\ e.img = NULL
  /\ \/ w = artReq /\ pc[Art] \in {"zero", "clear"} /\ pc'[Art] \in {"clear", "release"}
     \/ \E t \in Callers :
          /\ chain[t] # <<>> /\ w = Head(chain[t])
          /\ pc[t] = "clear" \/ (pc[t] = "walk" /\ SlotOf(w).qr = w)

\* The picture, the end of a load, or just a stamp: the slot is whose it was.
Fills(w, e) ==
  /\ e.UID = SlotOf(w).UID /\ e.owner = SlotOf(w).owner
  /\ \/ e.qr = SlotOf(w).qr /\ e.img = SlotOf(w).img
     \/ /\ e.qr = SlotOf(w).qr /\ e.img = request[w].val
        /\ w = artReq /\ pc[Art] = "read" /\ ~gArtShutdownAbandoned
     \/ /\ e.qr = NULL /\ e.img = SlotOf(w).img
        /\ w = artReq /\ pc[Art] = "unqr" /\ pc'[Art] = "release"

\* The slot of an allocated request is written.
Writes(w, e) ==
  /\ Calm /\ UNCHANGED <<request, live>> /\ w \in live /\ e \in Entry
  /\ content' = [content EXCEPT ![request[w].cache][request[w].slot] = e]
  /\ Empties(w, e) \/ Fills(w, e)

\* A request that is no longer needed is freed.
Releases(t) ==
  /\ t \in Threads /\ CountStore(t) /\ Working(t) \in live

\* A cache is freed or leaked.
Disposes(t) ==
  /\ t \in Callers /\ pc[t] \in {"destroy", "destroy_wait"} /\ FreeOrLeak(t)
  /\ UNCHANGED <<cur, nextUID, request, live, activeRequests, lost>>

\* The request a thread works on is allocated, for a slot that exists.
LEMMA WorkingLive ==
  ASSUME Base, NEW t \in Threads,
         IF t = Art THEN pc[Art] \in Busy ELSE chain[t] # <<>>
  PROVE  /\ Working(t) \in live /\ request[Working(t)] \in Request
         /\ request[Working(t)].cache \in Caches /\ request[Working(t)].slot \in Slots
         /\ SlotOf(Working(t)) \in Entry
<1>1. Working(t) \in live
  <2>1. CASE t = Art
    BY <2>1 DEF Base, Held, Places, Hands, HandType, Working
  <2>2. CASE t # Art
    BY <2>2, ElementsTail DEF Base, Held, Hands, HandType, Working, Threads, Callers
  <2> QED BY <2>1, <2>2
<1>2. request[Working(t)] \in Request
  BY <1>1 DEF Base, RequestType, Held, Hands, HandType
<1> QED BY <1>1, <1>2 DEF Request, SlotOf, Base, CacheType

\* Nothing but flags or stamps.
LEMMA TouchesFlags ==
  ASSUME Base, Calm, live' = live, UNCHANGED content, Reflagged(request')
  PROVE  Touches
<1>1. ContentType'
  BY DEF Base, CacheType, ContentType
<1> QED BY <1>1 DEF Touches, Retouched

\* What drawing does to requests and slots.
LEMMA GuiKinds ==
  ASSUME Base, GuiNext
  PROVE  Touches \/ \E v \in Values, s \in Slots, r \in Reqs \ live : Asks(v, s, r)
<1> USE DEF cacheVars, reqVars, guiVars, artVars, callVars, countVars
<1>a. live \subseteq Reqs /\ RequestType /\ ContentType /\ cur \in Caches
  BY DEF Base, Held, Hands, HandType, CacheType, ContentType, Control, ControlType
<1>b. Reflagged(request)
  BY <1>a, ReflaggedFocus
<1>1. ASSUME NEW v \in Values, NEW prio, NEW settled, cacheGetTextureEx(v, prio, settled)
      PROVE  Touches \/ \E s \in Slots, r \in Reqs \ live : Asks(v, s, r)
  <2>0. Reflagged(Refocused(v, prio)) /\ Reflagged(Superseded(v, Refocused(v, prio)))
    BY <1>a, ReflaggedFocus, ReflaggedSuperseded
  <2>1. CASE DrawParked(v, prio) \/ DrawAbsent(v, prio) \/ DrawNothing(v, prio, settled)
    <3>1. Calm /\ live' = live /\ UNCHANGED content
      BY <2>1 DEF DrawParked, DrawAbsent, DrawNothing, Calm
    <3>2. request' = Refocused(v, prio) \/ request' = Superseded(v, Refocused(v, prio))
      BY <2>1 DEF DrawParked, DrawAbsent, DrawNothing
    <3> QED BY <2>0, <3>1, <3>2, TouchesFlags
  <2>2. CASE DrawReady(v, prio)
    <3>1. /\ Calm /\ live' = live /\ request' = Refocused(v, prio)
          /\ \E s \in Slots : Stamp(s)
      BY <2>2 DEF DrawReady, Calm, Ready, Found, ByUid, ByKey
    <3> QED BY <1>a, <2>0, <3>1, StampRetouches DEF Touches
  <2>3. CASE DrawLoading(v, prio)
    <3>1. PICK s \in Slots : /\ Stamp(s)
            /\ request' = IF Entries[s].qr \in live
                          THEN [Refocused(v, prio) EXCEPT ![Entries[s].qr].focusOK = TRUE]
                          ELSE Refocused(v, prio)
      BY <2>3 DEF DrawLoading, Loading, Found, ByUid, ByKey
    <3>2. Calm /\ live' = live
      BY <2>3 DEF DrawLoading, Calm
    <3>3. Reflagged(request')
      BY <1>a, <2>0, <3>1, ReflaggedOne
    <3> QED BY <1>a, <3>1, <3>2, <3>3, StampRetouches DEF Touches
  <2>4. CASE DrawClaim(v, prio, settled)
    <3>1. Draws /\ nextUID[cur] <= MaxUID /\ UNCHANGED <<cur, cstate, lost>>
          /\ nextUID' = [nextUID EXCEPT ![cur] = @ + 1]
          /\ activeRequests' = [activeRequests EXCEPT ![cur] = @ + 1]
      BY <2>4 DEF DrawClaim, Misses
    <3>2. PICK s \in Oldest(v), r \in Reqs \ live :
            /\ request' = [Superseded(v, Refocused(v, prio)) EXCEPT ![r] = NewRequest(v, s)]
            /\ live' = live \cup {r}
            /\ content' = [content EXCEPT ![cur][s] = Claimed(v, r)]
      BY <2>4 DEF DrawClaim
    <3>3. s \in Slots /\ content[cur][s].qr = NULL
      BY <3>2 DEF Oldest, Claimable, Entries
    <3> QED BY <2>0, <3>1, <3>2, <3>3 DEF Asks
  <2> QED BY <1>1, <2>1, <2>2, <2>3, <2>4 DEF cacheGetTextureEx
<1>2. CASE \E v \in Values : cacheLookupTexture(v)
  <2>1. /\ Calm /\ live' = live /\ request' = request /\ \E s \in Slots : Stamp(s)
    BY <1>2 DEF cacheLookupTexture, Calm, ByUid
  <2> QED BY <1>a, <1>b, <2>1, StampRetouches DEF Touches
<1>3. CASE \E nav \in Maybe("nav") : cacheTickArt(nav)
  <2>1. Calm /\ live' = live /\ request' = request
    BY <1>3 DEF cacheTickArt, Calm
  <2> QED BY <1>a, <1>b, <1>3, <2>1, TickRetouches DEF Touches
<1>4. CASE cacheDropQueuedArt
  <2>1. /\ Calm /\ live' = live /\ UNCHANGED content
        /\ request' = [r \in Reqs |-> IF r \in live THEN [request[r] EXCEPT !.viewOK = FALSE]
                                      ELSE request[r]]
    BY <1>4 DEF cacheDropQueuedArt, Calm
  <2>2. Reflagged(request')
    BY <1>a, <2>1 DEF Reflagged, RequestType, Request
  <2> QED BY <2>1, <2>2, TouchesFlags
<1>5. CASE cacheInvalidateFailMemo
  <2>1. /\ Calm /\ live' = live
        /\ request' = [r \in Reqs |-> IF r \in live THEN [request[r] EXCEPT !.failOK = FALSE]
                                      ELSE request[r]]
    BY <1>5 DEF cacheInvalidateFailMemo, Calm
  <2>2. Reflagged(request')
    BY <1>a, <2>1 DEF Reflagged, RequestType, Request
  <2> QED BY <1>a, <1>5, <2>1, <2>2, InvalidateRetouches DEF Touches
<1>6. CASE RebuildList
  BY <1>b, <1>6, TouchesFlags DEF RebuildList, Calm
<1> QED BY <1>1, <1>2, <1>3, <1>4, <1>5, <1>6 DEF GuiNext

\* A canceller flags what the worker reads.
LEMMA FlagTouches ==
  ASSUME Base, Calm, live' = live, UNCHANGED content,
         \/ request' = [request EXCEPT ![gArtCurrentReq].abort = TRUE] /\ gArtCurrentReq # NULL
         \/ request' = request
  PROVE  Touches
<1>1. live \subseteq Reqs /\ RequestType /\ (gArtCurrentReq # NULL => gArtCurrentReq \in live)
  BY DEF Base, Held, Hands, HandType, RequestType
<1>2. Reflagged(request)
  BY <1>1, ReflaggedFocus
<1>3. Reflagged(request')
  <2>1. CASE request' = request
    BY <1>2, <2>1 DEF Reflagged
  <2>2. CASE gArtCurrentReq # NULL /\ request' = [request EXCEPT ![gArtCurrentReq].abort = TRUE]
    <3>1. gArtCurrentReq \in live /\ TRUE \in BOOLEAN
      BY <1>1, <2>2
    <3>2. Reflagged([request EXCEPT ![gArtCurrentReq].abort = TRUE])
      BY <1>1, <1>2, <3>1, ReflaggedOne
    <3> QED BY <2>2, <3>2
  <2> QED BY <2>1, <2>2
<1> QED BY <1>3, TouchesFlags

\* cacheClearItem writes the slot of the request at hand: first the memset.
LEMMA ZeroWrites ==
  ASSUME Base, NEW t \in Threads, IF t = Art THEN pc[Art] \in Busy ELSE chain[t] # <<>>,
         Zero(t), Calm, UNCHANGED <<request, live>>,
         IF t = Art THEN pc[Art] = "zero" /\ pc'[Art] = "clear"
         ELSE pc[t] = "walk" /\ SlotOf(Working(t)).qr = Working(t)
  PROVE  Writes(Working(t), Zeroed)
<1>1. Zeroed \in Entry /\ Zeroed.qr = NULL /\ Zeroed.UID = 0 /\ Zeroed.img = NULL
  BY BlankTypes DEF Blank
<1>2. Empties(Working(t), Zeroed)
  <2>1. CASE t = Art
    BY <1>1, <2>1 DEF Empties, Working
  <2>2. CASE t # Art
    BY <1>1, <2>2 DEF Empties, Working, Threads, Callers
  <2> QED BY <2>1, <2>2
<1> QED BY <1>1, <1>2, WorkingLive DEF Writes, Zero

\* ... then the stores.
LEMMA ClearWrites ==
  ASSUME Base, NEW t \in Threads, IF t = Art THEN TRUE ELSE chain[t] # <<>>, ClearItem(t)
  PROVE  \E e : Writes(Working(t), e)
<1> DEFINE w == Working(t)
           d == SlotOf(w)
<1>0. IF t = Art THEN pc[Art] \in Busy ELSE chain[t] # <<>>
  BY DEF ClearItem, Busy
<1>1. w \in live /\ d \in Entry
  BY <1>0, WorkingLive
<1>2. Calm /\ UNCHANGED <<request, live>>
  BY DEF ClearItem, Calm, reqVars, countVars
<1>3. \/ content' = [content EXCEPT ![request[w].cache][request[w].slot] =
                       [d EXCEPT !.age = Unused, !.qr = NULL, !.UID = 0, !.img = NULL]]
      \/ content' = [content EXCEPT ![request[w].cache][request[w].slot] =
                       [d EXCEPT !.age = Unused]]
  BY DEF ClearItem, SlotOf
<1>4. IF t = Art THEN w = artReq /\ pc[Art] = "clear" /\ pc'[Art] = "release"
      ELSE t \in Callers /\ chain[t] # <<>> /\ w = Head(chain[t]) /\ pc[t] = "clear"
  BY DEF ClearItem, Goto, Working, Threads, Callers, Base, Control, ControlType
<1> HIDE DEF w, d
<1>5. ASSUME content' = [content EXCEPT ![request[w].cache][request[w].slot] =
                       [d EXCEPT !.age = Unused, !.qr = NULL, !.UID = 0, !.img = NULL]]
      PROVE  \E e : Writes(w, e)
  <2> DEFINE e == [d EXCEPT !.age = Unused, !.qr = NULL, !.UID = 0, !.img = NULL]
  <2>1. 0 \in 0..MaxUID
    BY BoundsAssumption
  <2>2. e \in Entry /\ e.qr = NULL /\ e.UID = 0 /\ e.img = NULL
    BY <1>1, <2>1, AgeTypes DEF Entry
  <2>3. content' = [content EXCEPT ![request[w].cache][request[w].slot] = e]
    BY <1>5
  <2> HIDE DEF e
  <2>4. Empties(w, e)
    BY <1>4, <2>2 DEF Empties
  <2>5. Writes(w, e)
    BY <1>1, <1>2, <2>2, <2>3, <2>4 DEF Writes
  <2> QED BY <2>5
<1>6. ASSUME content' = [content EXCEPT ![request[w].cache][request[w].slot] =
                       [d EXCEPT !.age = Unused]]
      PROVE  \E e : Writes(w, e)
  <2> DEFINE e == [d EXCEPT !.age = Unused]
  <2>1. /\ e \in Entry /\ e.qr = d.qr /\ e.UID = d.UID /\ e.owner = d.owner /\ e.img = d.img
    BY <1>1, AgeTypes, Aged
  <2>2. content' = [content EXCEPT ![request[w].cache][request[w].slot] = e]
    BY <1>6
  <2> HIDE DEF e
  <2>3. Fills(w, e)
    BY <2>1 DEF Fills, d
  <2>4. Writes(w, e)
    BY <1>1, <1>2, <2>1, <2>2, <2>3 DEF Writes
  <2> QED BY <2>4
<1> QED BY <1>3, <1>5, <1>6 DEF w

\* What a caller does to requests and slots.
LEMMA CallerKinds ==
  ASSUME Base, NEW t \in Callers, Continue(t)
  PROVE  \/ Touches \/ SwapTheme(t) \/ Releases(t) \/ Disposes(t)
         \/ \E e : Writes(Working(t), e)
<1> USE DEF cacheVars, reqVars, guiVars, artVars, callVars, countVars
<1>a. t \in Threads /\ t # Art /\ (pc[t] \in Dropping => chain[t] # <<>>)
  BY DEF Callers, Threads, Gui, Io, Art, Base, Held, Places
<1>1. CASE Walk(t)
  <2>1. /\ chain[t] # <<>> /\ Calm /\ UNCHANGED <<request, live>> /\ pc[t] = "walk"
        /\ (Zero(t) /\ SlotOf(Working(t)).qr = Working(t)) \/ content' = content
    BY <1>a, <1>1 DEF Walk, Calm, SlotOf, Working
  <2>2. CASE Zero(t) /\ SlotOf(Working(t)).qr = Working(t)
    BY <1>a, <2>1, <2>2, ZeroWrites
  <2>3. CASE content' = content
    BY <2>1, <2>3, FlagTouches
  <2> QED BY <2>1, <2>2, <2>3
<1>2. CASE ClearItem(t)
  BY <1>a, <1>2, ClearWrites DEF ClearItem, Dropping
<1>3. CASE CountLoad(t) \/ SetAside(t) \/ PushKept(t) \/ Walked(t) \/ WaitReturns(t) \/ RebuildRows(t)
  <2>1. Calm /\ UNCHANGED <<request, live, content>>
    BY <1>3
       DEF CountLoad, SetAside, PushKept, Walked, WaitReturns, RebuildRows, Calm
  <2> QED BY <2>1, FlagTouches
<1>4. CASE CountStore(t)
  <2>1. IF t = Art THEN pc[Art] \in Busy ELSE chain[t] # <<>>
    BY <1>a, <1>4 DEF CountStore, Dropping
  <2> QED BY <1>a, <1>4, <2>1, WorkingLive DEF Releases
<1>5. CASE CancelNext(t)
  <2>1. /\ Calm /\ UNCHANGED <<live, content>>
        /\ \/ request' = [request EXCEPT ![gArtCurrentReq].abort = TRUE] /\ gArtCurrentReq # NULL
           \/ request' = request
    BY <1>5 DEF CancelNext, Detach, Calm
  <2> QED BY <2>1, FlagTouches
<1>6. CASE DestroyCache(t)
  <2>1. CASE Unreferenced(old[t])
    BY <1>6, <2>1 DEF DestroyCache, Disposes
  <2>2. CASE ~Unreferenced(old[t])
    <3>1. /\ Calm /\ UNCHANGED <<live, content>>
          /\ \/ request' = [request EXCEPT ![gArtCurrentReq].abort = TRUE] /\ gArtCurrentReq # NULL
             \/ request' = request
      BY <1>6, <2>2 DEF DestroyCache, Calm
    <3> QED BY <3>1, FlagTouches
  <2> QED BY <2>1, <2>2
<1>7. CASE DestroyWaitEnds(t)
  BY <1>7 DEF DestroyWaitEnds, Disposes
<1> QED BY <1>1, <1>2, <1>3, <1>4, <1>5, <1>6, <1>7 DEF Continue

\* What the art worker does to requests and slots.
LEMMA ArtKinds ==
  ASSUME Base, ArtReads \/ ArtRest
  PROVE  \/ Touches \/ Releases(Art) \/ ArtReturnsAbandoned
         \/ \E e : Writes(artReq, e)
<1> USE DEF cacheVars, reqVars, guiVars, artVars, callVars, countVars
<1>a. Art \in Threads /\ Working(Art) = artReq
  BY DEF Threads, Working
<1>b. pc[Art] \in Busy => /\ artReq \in live /\ SlotOf(artReq) \in Entry
                          /\ request[artReq] \in Request
  BY <1>a, WorkingLive
<1>1. CASE ArtZeroes
  <2>1. /\ Zero(Art) /\ Calm /\ UNCHANGED <<request, live>> /\ pc[Art] \in Busy
        /\ pc[Art] = "zero" /\ pc'[Art] = "clear"
    BY <1>a, <1>1 DEF ArtZeroes, Calm, Busy, Goto, Base, Control, ControlType
  <2>2. Writes(artReq, Zeroed)
    BY <1>a, <2>1, ZeroWrites
  <2> QED BY <2>2
<1>2. CASE ClearItem(Art)
  BY <1>a, <1>2, ClearWrites
<1>3. CASE ArtWakes \/ artPop \/ ArtPopsNothing \/ ArtStarts \/ ArtReadFails
           \/ artReleaseRequest \/ ArtExits \/ CountLoad(Art)
  <2>1. Calm /\ UNCHANGED <<request, live, content>>
    BY <1>3
       DEF ArtWakes, artPop, ArtPopsNothing, ArtStarts, ArtReadFails,
           artReleaseRequest, ArtExits, CountLoad, Calm
  <2> QED BY <2>1, FlagTouches
<1>4. CASE CountStore(Art)
  BY <1>a, <1>b, <1>4 DEF Releases, CountStore, Busy
<1>5. CASE ArtHandsOver
  <2> DEFINE d == SlotOf(artReq)
  <2>1. /\ pc[Art] \in Busy /\ Calm /\ UNCHANGED <<request, live>>
        /\ content' = [content EXCEPT ![request[artReq].cache][request[artReq].slot] =
                         [d EXCEPT !.qr = NULL]]
    BY <1>5 DEF ArtHandsOver, Busy, Calm, SlotOf
  <2>2. d \in Entry /\ pc[Art] = "unqr" /\ pc'[Art] = "release"
    BY <1>a, <1>b, <1>5, <2>1 DEF ArtHandsOver, Goto, Base, Control, ControlType
  <2> HIDE DEF d
  <2> DEFINE e == [d EXCEPT !.qr = NULL]
  <2>3. /\ e \in Entry /\ e.qr = NULL /\ e.UID = d.UID /\ e.owner = d.owner /\ e.img = d.img
    BY <2>2 DEF Entry
  <2>4. content' = [content EXCEPT ![request[artReq].cache][request[artReq].slot] = e]
    BY <2>1
  <2> HIDE DEF e
  <2>5. Fills(artReq, e)
    BY <2>2, <2>3 DEF Fills, d
  <2>6. Writes(artReq, e)
    BY <1>b, <2>1, <2>3, <2>4, <2>5 DEF Writes
  <2> QED BY <2>6
<1>6. ASSUME NEW found \in BOOLEAN, ArtPublishes(found)
      PROVE  \E e : Writes(artReq, e)
  <2> DEFINE d == SlotOf(artReq)
             e == IF found THEN [d EXCEPT !.img = request[artReq].val, !.age = 0]
                  ELSE [d EXCEPT !.age = Absent, !.failOK = request[artReq].failOK]
  <2>1. /\ pc[Art] \in Busy /\ Calm /\ UNCHANGED <<request, live>>
        /\ pc[Art] = "read" /\ ~gArtShutdownAbandoned
        /\ content' = [content EXCEPT ![request[artReq].cache][request[artReq].slot] = e]
    BY <1>6 DEF ArtPublishes, Busy, Calm, SlotOf
  <2>2. d \in Entry /\ request[artReq].val \in Values /\ request[artReq].failOK \in BOOLEAN
    BY <1>b, <2>1 DEF Request
  <2> HIDE DEF d
  <2>3. /\ e \in Entry /\ e.qr = d.qr /\ e.UID = d.UID /\ e.owner = d.owner
        /\ e.img = d.img \/ e.img = request[artReq].val
    <3>1. CASE found
      BY <2>2, <3>1, AgeTypes DEF Entry
    <3>2. CASE ~found
      BY <2>2, <3>2, AgeTypes DEF Entry
    <3> QED BY <3>1, <3>2
  <2> HIDE DEF e
  <2>4. Fills(artReq, e)
    BY <2>1, <2>3 DEF Fills, d
  <2>5. Writes(artReq, e)
    BY <1>b, <2>1, <2>3, <2>4 DEF Writes
  <2> QED BY <2>5
<1> QED BY <1>1, <1>2, <1>3, <1>4, <1>5, <1>6 DEF ArtReads, ArtRest

\* What a step does to requests and slots.
LEMMA StepKinds ==
  ASSUME Base, [Next]_vars
  PROVE  \/ Touches \/ ArtReturnsAbandoned
         \/ \E v \in Values, s \in Slots, r \in Reqs \ live : Asks(v, s, r)
         \/ \E w \in live : \E e : Writes(w, e)
         \/ \E t \in Threads : Releases(t)
         \/ \E t \in Callers : SwapTheme(t) \/ Disposes(t)
<1> USE DEF cacheVars, reqVars, guiVars, artVars, callVars, countVars
<1>1. CASE GuiNext
  BY <1>1, GuiKinds
<1>2. CASE CallNext \/ EndBegins
  <2>1. /\ Calm /\ UNCHANGED <<live, content>>
        /\ \/ request' = [request EXCEPT ![gArtCurrentReq].abort = TRUE] /\ gArtCurrentReq # NULL
           \/ request' = request
    BY <1>2 DEF CallNext, Call, EndBegins, Detach, Calm
  <2> QED BY <2>1, FlagTouches
<1>3. CASE \E t \in Callers : Continue(t)
  BY <1>3, CallerKinds DEF Writes, Releases
<1>4. CASE Joined \/ UNCHANGED vars
  <2>1. Calm /\ UNCHANGED <<request, live, content>>
    BY <1>4 DEF Joined, Calm, vars
  <2> QED BY <2>1, FlagTouches
<1>5. CASE ArtReads \/ ArtRest
  BY <1>5, ArtKinds DEF Writes, Releases
<1> QED BY <1>1, <1>2, <1>3, <1>4, <1>5 DEF Next, TeardownNext

----------------------------------------------------------------------------
(* The kinds of step in detail *)

\* The request is for what it was made for.
SameTarget(r) ==
  /\ request'[r].cache = request[r].cache /\ request'[r].slot = request[r].slot
  /\ request'[r].uid = request[r].uid /\ request'[r].val = request[r].val

TableType ==
  /\ request \in [Reqs -> Request \cup {NULL}]
  /\ \A r \in Reqs : IF r \in live THEN request[r] \in Request ELSE request[r] = NULL

LEMMA TouchesEffect ==
  ASSUME Touches, live \subseteq Reqs
  PROVE  TableType' /\ \A r \in live : SameTarget(r)
BY DEF Touches, Reflagged, TableType, SameTarget

LEMMA AsksEffect ==
  ASSUME Base, NEW v, NEW s, NEW r, Asks(v, s, r)
  PROVE  /\ TableType' /\ (\A q \in live : SameTarget(q) /\ q # r)
         /\ request'[r].cache = cur /\ request'[r].slot = s
         /\ request'[r].uid = nextUID[cur] /\ request'[r].val = v
         /\ Claimed(v, r).qr = r /\ Claimed(v, r).UID = nextUID[cur]
         /\ Claimed(v, r).owner = v /\ Claimed(v, r).img = NULL
         /\ ContentType'
         /\ \A c2 \in Caches, s2 \in Slots :
              content'[c2][s2] = IF c2 = cur /\ s2 = s THEN Claimed(v, r) ELSE content[c2][s2]
         /\ nextUID' \in [Caches -> 1..(MaxUID + 1)]
         /\ activeRequests' \in [Caches -> Nat]
         /\ \A c2 \in Caches :
              /\ nextUID'[c2] = IF c2 = cur THEN nextUID[cur] + 1 ELSE nextUID[c2]
              /\ activeRequests'[c2] = IF c2 = cur THEN activeRequests[cur] + 1
                                       ELSE activeRequests[c2]
<1>1. /\ cur \in Caches /\ v \in Values /\ s \in Slots /\ r \in Reqs \ live
      /\ nextUID \in [Caches -> 1..(MaxUID + 1)] /\ nextUID[cur] <= MaxUID
      /\ ContentType /\ activeRequests \in [Caches -> Nat] /\ live \subseteq Reqs
  BY DEF Base, Control, ControlType, CacheType, RequestType, ContentType, Asks,
         Held, Hands, HandType
<1>2. nextUID[cur] \in UIDs /\ nextUID[cur] \in 0..MaxUID /\ nextUID[cur] + 1 \in 1..(MaxUID + 1)
  BY <1>1, BoundsAssumption DEF UIDs
<1>3. /\ NewRequest(v, s) \in Request
      /\ NewRequest(v, s).cache = cur /\ NewRequest(v, s).slot = s
      /\ NewRequest(v, s).uid = nextUID[cur] /\ NewRequest(v, s).val = v
  BY <1>1, <1>2 DEF NewRequest, Request
<1>4. /\ Claimed(v, r) \in Entry
      /\ Claimed(v, r).qr = r /\ Claimed(v, r).UID = nextUID[cur]
      /\ Claimed(v, r).owner = v /\ Claimed(v, r).img = NULL
  <2>1. Cleared \in Entry /\ Cleared.img = NULL
    BY BlankTypes DEF Blank
  <2> QED BY <1>1, <1>2, <2>1, AgeTypes DEF Claimed, Entry
<1>5. /\ ContentType'
      /\ \A c2 \in Caches, s2 \in Slots :
           content'[c2][s2] = IF c2 = cur /\ s2 = s THEN Claimed(v, r) ELSE content[c2][s2]
  <2>1. content' = [content EXCEPT ![cur][s] = Claimed(v, r)]
    BY DEF Asks
  <2>2. ContentType /\ cur \in Caches /\ s \in Slots /\ Claimed(v, r) \in Entry
    BY <1>1, <1>4
  <2> QED BY <2>1, <2>2, EntryWrite
<1>6. PICK tab : Reflagged(tab) /\ request' = [tab EXCEPT ![r] = NewRequest(v, s)]
  BY DEF Asks
<1>7. \A q \in Reqs : request'[q] = IF q = r THEN NewRequest(v, s) ELSE tab[q]
  BY <1>6 DEF Reflagged
<1>8. request' \in [Reqs -> Request \cup {NULL}]
  BY <1>3, <1>6 DEF Reflagged
<1>9. TableType' /\ \A q \in live : SameTarget(q) /\ q # r
  BY <1>1, <1>3, <1>6, <1>7, <1>8 DEF Reflagged, TableType, SameTarget, Asks
<1>10. /\ nextUID' \in [Caches -> 1..(MaxUID + 1)]
       /\ \A c2 \in Caches : nextUID'[c2] = IF c2 = cur THEN nextUID[cur] + 1 ELSE nextUID[c2]
  BY <1>1, <1>2 DEF Asks
<1>11. /\ activeRequests' \in [Caches -> Nat]
       /\ \A c2 \in Caches : activeRequests'[c2] = IF c2 = cur THEN activeRequests[cur] + 1
                                                  ELSE activeRequests[c2]
  BY <1>1 DEF Asks
<1> QED BY <1>1, <1>3, <1>4, <1>5, <1>7, <1>9, <1>10, <1>11

LEMMA WritesEffect ==
  ASSUME Base, NEW w, NEW e, Writes(w, e)
  PROVE  /\ TableType' /\ (\A r \in live : SameTarget(r)) /\ ContentType'
         /\ request[w].cache \in Caches /\ request[w].slot \in Slots
         /\ \A c2 \in Caches, s2 \in Slots :
              content'[c2][s2] = IF c2 = request[w].cache /\ s2 = request[w].slot THEN e
                                 ELSE content[c2][s2]
<1>1. TableType' /\ (\A r \in live : SameTarget(r))
  BY DEF Writes, TableType, SameTarget, Base, RequestType
<1>2. request[w].cache \in Caches /\ request[w].slot \in Slots
  BY DEF Writes, Base, RequestType, Held, Hands, HandType, Request
<1> QED BY <1>1, <1>2, EntryWrite DEF Writes, Base, CacheType, ContentType

\* A request is freed.
LEMMA FreedEffect ==
  ASSUME Base, NEW w \in live, live' = live \ {w}, request' = [request EXCEPT ![w] = NULL]
  PROVE  TableType' /\ \A r \in live' : SameTarget(r)
<1>1. w \in Reqs /\ live \subseteq Reqs
  BY DEF Base, Held, Hands, HandType
<1>2. \A r \in Reqs : request'[r] = IF r = w THEN NULL ELSE request[r]
  BY DEF Base, RequestType
<1>3. request' \in [Reqs -> Request \cup {NULL}]
  BY DEF Base, RequestType
<1> QED BY <1>1, <1>2, <1>3 DEF TableType, SameTarget, Base, RequestType

LEMMA ReleasesEffect ==
  ASSUME Base, NEW t, Releases(t)
  PROVE  LET c == request[Working(t)].cache
         IN /\ c \in Caches /\ Working(t) \in live /\ live' = live \ {Working(t)}
            /\ TableType' /\ \A r \in live' : SameTarget(r)
            /\ activeRequests' \in [Caches -> Nat] /\ lost' \in [Caches -> BOOLEAN]
            /\ \A d \in Caches : d # c => lost'[d] = lost[d] /\ activeRequests'[d] = activeRequests[d]
            /\ ~lost'[c] => /\ ~lost[c]
                            /\ activeRequests'[c] = IF activeRequests[c] > 0
                                                    THEN activeRequests[c] - 1 ELSE 0
            /\ UNCHANGED <<cur, cstate, content, nextUID>>
<1> DEFINE w == Working(t)
           c == request[w].cache
<1>1. /\ w \in live /\ live' = live \ {w} /\ request' = [request EXCEPT ![w] = NULL]
      /\ activeRequests' = IF loaded[t] > 0
                           THEN [activeRequests EXCEPT ![c] = Uncounted(loaded[t])]
                           ELSE activeRequests
      /\ lost' = [lost EXCEPT ![c] = @ \/ loaded[t] # activeRequests[c]]
      /\ UNCHANGED <<cur, cstate, content, nextUID>>
  BY DEF Releases, CountStore, cacheVars
<1>2. c \in Caches
  BY <1>1 DEF Base, RequestType, Held, Hands, HandType, Request
<1>3. TableType' /\ \A r \in live' : SameTarget(r)
  BY <1>1, FreedEffect
<1>4. /\ activeRequests \in [Caches -> Nat] /\ lost \in [Caches -> BOOLEAN]
      /\ loaded[t] \in Nat
  BY DEF Base, RequestType, Releases
<1> HIDE DEF w, c
<1>5. Uncounted(loaded[t]) \in Nat /\ (loaded[t] > 0 => Uncounted(loaded[t]) = loaded[t] - 1)
  BY <1>4 DEF Uncounted
<1>6. /\ lost' \in [Caches -> BOOLEAN]
      /\ \A d \in Caches : d # c => lost'[d] = lost[d]
      /\ ~lost'[c] => ~lost[c] /\ loaded[t] = activeRequests[c]
  BY <1>1, <1>2, <1>4
<1>7. /\ activeRequests' \in [Caches -> Nat]
      /\ \A d \in Caches : d # c => activeRequests'[d] = activeRequests[d]
      /\ loaded[t] > 0 => activeRequests'[c] = loaded[t] - 1
      /\ loaded[t] = 0 => activeRequests'[c] = activeRequests[c]
  BY <1>1, <1>2, <1>4, <1>5
<1>8. ~lost'[c] => activeRequests'[c] = IF activeRequests[c] > 0 THEN activeRequests[c] - 1 ELSE 0
  BY <1>2, <1>4, <1>6, <1>7
<1> QED BY <1>1, <1>2, <1>3, <1>6, <1>7, <1>8 DEF w, c

LEMMA AbandonEffect ==
  ASSUME Base, ArtReturnsAbandoned
  PROVE  /\ gArtShutdownAbandoned /\ gArtShutdownAbandoned'
         /\ artReq \in live /\ live' = live \ {artReq}
         /\ TableType' /\ \A r \in live' : SameTarget(r)
         /\ UNCHANGED <<cur, cstate, content, nextUID, activeRequests, lost>>
<1>1. /\ pc[Art] = "read" /\ live' = live \ {artReq}
      /\ request' = [request EXCEPT ![artReq] = NULL]
      /\ gArtShutdownAbandoned /\ gArtShutdownAbandoned'
      /\ UNCHANGED <<cur, cstate, content, nextUID, activeRequests, lost>>
  BY DEF ArtReturnsAbandoned, cacheVars, countVars
<1>2. artReq \in live
  BY <1>1 DEF Base, Held, Places, Busy, Hands, HandType
<1> QED BY <1>1, <1>2, FreedEffect

LEMMA DisposesEffect ==
  ASSUME Base, NEW t, Disposes(t)
  PROVE  /\ t \in Callers /\ old[t] \in Caches /\ old[t] <= cur
         /\ gCacheLoadsCancelled \/ old[t] < cur
         /\ TableType' /\ (\A r \in live : SameTarget(r)) /\ ContentType'
         /\ \A c \in Caches, s \in Slots :
              content'[c][s] = IF c = old[t] /\ activeRequests[c] = 0 THEN Cleared
                               ELSE content[c][s]
         /\ cstate' \in [Caches -> {"unborn", "live", "leaked", "freed"}]
         /\ \A c \in Caches :
              cstate'[c] = IF c = old[t]
                           THEN IF activeRequests[c] = 0 THEN "freed" ELSE "leaked"
                           ELSE cstate[c]
         /\ UNCHANGED <<cur, nextUID, request, live, activeRequests, lost>>
<1>1. /\ t \in Callers /\ Performing(t) /\ old[t] \in Caches
      /\ UNCHANGED <<cur, nextUID, request, live, activeRequests, lost>>
  BY DEF Disposes, Base, Control, Operations, ControlType
<1>2. old[t] <= cur /\ (gCacheLoadsCancelled \/ old[t] < cur)
  BY <1>1 DEF Disposes, Performing
<1>3. TableType' /\ (\A r \in live : SameTarget(r))
  BY <1>1 DEF TableType, SameTarget, Base, RequestType
<1>4. /\ cstate' \in [Caches -> {"unborn", "live", "leaked", "freed"}]
      /\ \A c \in Caches :
              cstate'[c] = IF c = old[t]
                           THEN IF activeRequests[c] = 0 THEN "freed" ELSE "leaked"
                           ELSE cstate[c]
  BY <1>1 DEF Disposes, FreeOrLeak, Unreferenced, Base, CacheType
<1>5. [s \in Slots |-> Cleared] \in [Slots -> Entry]
  BY BlankTypes
<1>6. /\ ContentType'
      /\ \A c \in Caches, s \in Slots :
              content'[c][s] = IF c = old[t] /\ activeRequests[c] = 0 THEN Cleared
                               ELSE content[c][s]
  <2>1. CASE activeRequests[old[t]] = 0
    <3>1. content' = [content EXCEPT ![old[t]] = [s \in Slots |-> Cleared]]
      BY <2>1 DEF Disposes, FreeOrLeak, Unreferenced
    <3> QED BY <1>1, <1>5, <2>1, <3>1 DEF ContentType, Base, CacheType
  <2>2. CASE activeRequests[old[t]] # 0
    <3>1. content' = content
      BY <2>2 DEF Disposes, FreeOrLeak, Unreferenced
    <3> QED BY <2>2, <3>1 DEF ContentType, Base, CacheType
  <2> QED BY <2>1, <2>2
<1> QED BY <1>1, <1>2, <1>3, <1>4, <1>6

LEMMA SwapEffect ==
  ASSUME Base, NEW t \in Callers, SwapTheme(t)
  PROVE  /\ cur + 1 \in Caches /\ cur' = cur + 1 /\ op[t] \in ThemeOps
         /\ cstate' \in [Caches -> {"unborn", "live", "leaked", "freed"}]
         /\ \A c \in Caches : cstate'[c] = IF c = cur + 1 THEN "live" ELSE cstate[c]
         /\ TableType' /\ (\A r \in live : SameTarget(r))
         /\ UNCHANGED <<content, nextUID, request, live, activeRequests, lost>>
<1>1. /\ pc[t] = "swap" /\ cur' = cur + 1 /\ cstate' = [cstate EXCEPT ![cur + 1] = "live"]
      /\ UNCHANGED <<content, nextUID, request, live, activeRequests, lost>>
  BY DEF SwapTheme, reqVars, countVars
<1>2. op[t] \in ThemeOps /\ cur < NumThemes
  BY <1>1 DEF Base, Control, Operations, Performing, Switched
<1>3. cur + 1 \in Caches
  BY <1>2, BoundsAssumption DEF Base, Control, ControlType, Caches
<1>4. /\ cstate' \in [Caches -> {"unborn", "live", "leaked", "freed"}]
      /\ \A c \in Caches : cstate'[c] = IF c = cur + 1 THEN "live" ELSE cstate[c]
  BY <1>1, <1>3 DEF Base, CacheType
<1>5. TableType' /\ (\A r \in live : SameTarget(r))
  BY <1>1 DEF TableType, SameTarget, Base, RequestType
<1> QED BY <1>1, <1>2, <1>3, <1>4, <1>5

----------------------------------------------------------------------------
(* Types, caches and counts *)

\* A row's ids in a frame.
LEMMA GuiRows ==
  ASSUME Base, GuiNext
  PROVE  rows' \in [Values -> Row] /\ focus' \in Values \cup {NULL}
<1> USE DEF cacheVars, reqVars, guiVars, artVars, callVars, countVars
<1>a. /\ rows \in [Values -> Row] /\ focus \in Values \cup {NULL} /\ 0 \in 0..MaxUID
      /\ \A s \in Slots : Entries[s] \in Entry /\ Entries[s].UID \in 0..MaxUID
  BY BoundsAssumption DEF Base, CacheType, Control, ControlType, Entries, Entry
<1>b. [v \in Values |-> NewRow] \in [Values -> Row]
  BY <1>a DEF NewRow, Row
<1>1. ASSUME NEW v \in Values, NEW prio, NEW settled, cacheGetTextureEx(v, prio, settled)
      PROVE  rows' \in [Values -> Row] /\ focus' \in Values \cup {NULL}
  <2>1. focus' \in Values \cup {NULL}
    <3>1. artUpdateFocus(v, prio)
      BY <1>1 DEF cacheGetTextureEx, DrawParked, DrawLoading, DrawAbsent, DrawReady,
         DrawNothing, DrawClaim
    <3> QED BY <1>a, <3>1 DEF artUpdateFocus
  <2>2. ASSUME NEW row \in Row, rows' = [rows EXCEPT ![v] = row] PROVE rows' \in [Values -> Row]
    BY <1>a, <2>2
  <2>3. CASE DrawParked(v, prio)
    BY <1>a, <2>1, <2>3 DEF DrawParked
  <2>4. CASE DrawLoading(v, prio) \/ DrawReady(v, prio)
    <3>1. PICK s \in Slots : rows' = [rows EXCEPT ![v] = [id |-> s, uid |-> Entries[s].UID,
                                                          ok |-> FALSE]]
      BY <2>4 DEF DrawLoading, DrawReady, Loading, Ready, Found, ByUid, ByKey
    <3>2. [id |-> s, uid |-> Entries[s].UID, ok |-> FALSE] \in Row
      BY <1>a DEF Row
    <3> QED BY <2>1, <2>2, <3>1, <3>2
  <2>5. CASE DrawAbsent(v, prio)
    <3>1. [id |-> Parked, uid |-> 0, ok |-> TRUE] \in Row
      BY <1>a DEF Row
    <3> QED BY <2>1, <2>2, <2>5, <3>1 DEF DrawAbsent
  <2>6. CASE DrawNothing(v, prio, settled)
    BY <1>a, <2>1, <2>6 DEF DrawNothing, Row
  <2>7. CASE DrawClaim(v, prio, settled)
    <3>1. nextUID[cur] \in 0..MaxUID
      BY <2>7, BoundsAssumption DEF DrawClaim, Base, CacheType, Control, ControlType
    <3>2. PICK s \in Slots : rows' = [rows EXCEPT ![v] = [id |-> s, uid |-> nextUID[cur],
                                                          ok |-> FALSE]]
      BY <2>7 DEF DrawClaim, Oldest, Claimable
    <3>3. [id |-> s, uid |-> nextUID[cur], ok |-> FALSE] \in Row
      BY <3>1 DEF Row
    <3> QED BY <2>1, <2>2, <3>2, <3>3
  <2> QED BY <1>1, <2>3, <2>4, <2>5, <2>6, <2>7 DEF cacheGetTextureEx
<1>2. CASE \E v \in Values : cacheLookupTexture(v)
  BY <1>a, <1>2 DEF cacheLookupTexture
<1>3. CASE \E nav \in Maybe("nav") : cacheTickArt(nav)
  BY <1>a, <1>3 DEF cacheTickArt
<1>4. CASE cacheDropQueuedArt \/ RebuildList
  BY <1>a, <1>b, <1>4 DEF cacheDropQueuedArt, RebuildList
<1>5. CASE cacheInvalidateFailMemo
  BY <1>a, <1>5 DEF cacheInvalidateFailMemo, Row
<1> QED BY <1>1, <1>2, <1>3, <1>4, <1>5 DEF GuiNext

\* Outside a frame the rows change only when they are all made new.
LEMMA OtherRows ==
  ASSUME [Next]_vars, ~GuiNext
  PROVE  /\ focus' = focus /\ gArtNavActive' = gArtNavActive
         /\ rows' = rows \/ \E t \in Callers : RebuildRows(t)
<1> USE DEF guiVars
<1>1. CASE CallNext \/ TeardownNext \/ UNCHANGED vars
  BY <1>1 DEF CallNext, Call, TeardownNext, EndBegins, Joined, vars
<1>2. CASE \E t \in Callers : Continue(t)
  <2>1. PICK t \in Callers : Continue(t)
    BY <1>2
  <2>2. CASE RebuildRows(t)
    BY <2>2 DEF RebuildRows
  <2>3. CASE ~RebuildRows(t)
    BY <2>1, <2>3
       DEF Continue, Walk, ClearItem, CountLoad, CountStore, SetAside, PushKept,
           Walked, WaitReturns, CancelNext, SwapTheme, DestroyCache, DestroyWaitEnds
  <2> QED BY <2>2, <2>3
<1>3. CASE ArtReads \/ ArtRest
  BY <1>3
     DEF ArtReads, ArtRest, ArtPublishes, ArtReadFails, ArtReturnsAbandoned,
         ArtWakes, artPop, ArtPopsNothing, ArtStarts, ArtZeroes, ArtHandsOver,
         artReleaseRequest, ArtExits, ClearItem, CountLoad, CountStore
<1> QED BY <1>1, <1>2, <1>3 DEF Next

\* loaded is a copy of a count.
LEMMA LoadedNext ==
  ASSUME Base, [Next]_vars
  PROVE  loaded' \in [Threads -> Nat]
<1> USE DEF countVars
<1>a. loaded \in [Threads -> Nat] /\ activeRequests \in [Caches -> Nat]
  BY DEF Base, RequestType
<1>1. ASSUME NEW t \in Threads, CountLoad(t), IF t = Art THEN TRUE ELSE t \in Callers
      PROVE  loaded' \in [Threads -> Nat]
  <2>1. IF t = Art THEN pc[Art] \in Busy ELSE chain[t] # <<>>
    BY <1>1 DEF CountLoad, Busy, Dropping, Base, Held, Places
  <2>2. activeRequests[request[Working(t)].cache] \in Nat
    BY <1>a, <2>1, WorkingLive
  <2> QED BY <1>a, <1>1, <2>2 DEF CountLoad
<1>2. ASSUME NEW t \in Threads, CountStore(t) PROVE loaded' \in [Threads -> Nat]
  BY <1>a, <1>2 DEF CountStore
<1>3. CASE GuiNext
  BY <1>a, <1>3, GuiFrame
<1>4. CASE CallNext \/ TeardownNext \/ UNCHANGED vars
  BY <1>a, <1>4 DEF CallNext, Call, TeardownNext, EndBegins, Joined, vars
<1>5. CASE \E t \in Callers : Continue(t)
  <2>1. PICK t \in Callers : Continue(t)
    BY <1>5
  <2>2. t \in Threads
    BY DEF Callers, Threads
  <2>3. CASE CountLoad(t) \/ CountStore(t)
    BY <1>1, <1>2, <2>2, <2>3
  <2>4. CASE ~(CountLoad(t) \/ CountStore(t))
    BY <1>a, <2>1, <2>4
       DEF Continue, Walk, ClearItem, SetAside, PushKept, Walked, WaitReturns,
           CancelNext, SwapTheme, DestroyCache, DestroyWaitEnds, RebuildRows
  <2> QED BY <2>3, <2>4
<1>6. CASE ArtReads \/ ArtRest
  <2>1. Art \in Threads
    BY DEF Threads
  <2>2. CASE CountLoad(Art) \/ CountStore(Art)
    BY <1>1, <1>2, <2>1, <2>2
  <2>3. CASE ~(CountLoad(Art) \/ CountStore(Art))
    BY <1>a, <1>6, <2>3
       DEF ArtReads, ArtRest, ArtPublishes, ArtReadFails, ArtReturnsAbandoned,
           ArtWakes, artPop, ArtPopsNothing, ArtStarts, ArtZeroes, ArtHandsOver,
           artReleaseRequest, ArtExits, ClearItem
  <2> QED BY <2>2, <2>3
<1> QED BY <1>3, <1>4, <1>5, <1>6 DEF Next

\* Only stamps and flags, in detail.
LEMMA CalmTypes ==
  ASSUME Base, Calm
  PROVE  /\ cur' \in Caches /\ cstate' \in [Caches -> {"unborn", "live", "leaked", "freed"}]
         /\ nextUID' \in [Caches -> 1..(MaxUID + 1)]
         /\ activeRequests' \in [Caches -> Nat] /\ lost' \in [Caches -> BOOLEAN]
BY DEF Base, Calm, Control, ControlType, CacheType, RequestType

\* Every step keeps the types of the caches and of the requests.
LEMMA BaseNext ==
  ASSUME Base, [Next]_vars
  PROVE  Base'
<1>1. Control' /\ Held'
  BY ControlNext, HeldNext DEF Base, Control
<1>2. rows' \in [Values -> Row] /\ focus' \in Values \cup {NULL}
  <2>1. CASE GuiNext
    BY <2>1, GuiRows
  <2>2. CASE ~GuiNext
    <3>1. rows \in [Values -> Row] /\ focus \in Values \cup {NULL}
      BY DEF Base, CacheType
    <3>2. [v \in Values |-> NewRow] \in [Values -> Row]
      <4>1. 0 \in 0..MaxUID
        BY BoundsAssumption
      <4> QED BY <4>1 DEF NewRow, Row
    <3> QED BY <2>2, <3>1, <3>2, OtherRows DEF RebuildRows
  <2> QED BY <2>1, <2>2
<1>3. gArtCurrentReq' \in live' \cup {NULL}
  BY <1>1 DEF Held, Places, Hands, HandType
<1>4. loaded' \in [Threads -> Nat]
  BY LoadedNext
<1>5. /\ TableType' /\ ContentType'
      /\ cstate' \in [Caches -> {"unborn", "live", "leaked", "freed"}]
      /\ nextUID' \in [Caches -> 1..(MaxUID + 1)]
      /\ activeRequests' \in [Caches -> Nat] /\ lost' \in [Caches -> BOOLEAN]
  <2>a. /\ cstate \in [Caches -> {"unborn", "live", "leaked", "freed"}]
        /\ nextUID \in [Caches -> 1..(MaxUID + 1)] /\ ContentType
        /\ activeRequests \in [Caches -> Nat] /\ lost \in [Caches -> BOOLEAN]
        /\ live \subseteq Reqs
    BY DEF Base, CacheType, RequestType, ContentType, Held, Hands, HandType
  <2>1. CASE Touches
    BY <2>a, <2>1, CalmTypes, TouchesEffect DEF Touches, Retouched
  <2>2. ASSUME NEW v, NEW s, NEW r, Asks(v, s, r)
        PROVE  /\ TableType' /\ ContentType'
               /\ cstate' \in [Caches -> {"unborn", "live", "leaked", "freed"}]
               /\ nextUID' \in [Caches -> 1..(MaxUID + 1)]
               /\ activeRequests' \in [Caches -> Nat] /\ lost' \in [Caches -> BOOLEAN]
    <3>1. cstate' = cstate /\ lost' = lost
      BY <2>2 DEF Asks
    <3> QED BY <2>a, <2>2, <3>1, AsksEffect
  <2>3. CASE \E w \in live : \E e : Writes(w, e)
    BY <2>3, WritesEffect, CalmTypes DEF Writes
  <2>4. ASSUME NEW t, Releases(t)
        PROVE  /\ TableType' /\ ContentType'
               /\ cstate' \in [Caches -> {"unborn", "live", "leaked", "freed"}]
               /\ nextUID' \in [Caches -> 1..(MaxUID + 1)]
               /\ activeRequests' \in [Caches -> Nat] /\ lost' \in [Caches -> BOOLEAN]
    <3>1. /\ TableType' /\ activeRequests' \in [Caches -> Nat] /\ lost' \in [Caches -> BOOLEAN]
          /\ cstate' = cstate /\ content' = content /\ nextUID' = nextUID
      BY <2>4, ReleasesEffect
    <3> QED BY <2>a, <3>1 DEF ContentType
  <2>5. CASE ArtReturnsAbandoned
    <3>1. /\ TableType' /\ UNCHANGED <<cstate, content, nextUID, activeRequests, lost>>
      BY <2>5, AbandonEffect
    <3> QED BY <2>a, <3>1 DEF ContentType
  <2>6. ASSUME NEW t \in Callers, SwapTheme(t)
        PROVE  /\ TableType' /\ ContentType'
               /\ cstate' \in [Caches -> {"unborn", "live", "leaked", "freed"}]
               /\ nextUID' \in [Caches -> 1..(MaxUID + 1)]
               /\ activeRequests' \in [Caches -> Nat] /\ lost' \in [Caches -> BOOLEAN]
    <3>1. /\ TableType' /\ cstate' \in [Caches -> {"unborn", "live", "leaked", "freed"}]
          /\ UNCHANGED <<content, nextUID, activeRequests, lost>>
      BY <2>6, SwapEffect
    <3> QED BY <2>a, <3>1 DEF ContentType
  <2>7. ASSUME NEW t \in Callers, Disposes(t)
        PROVE  /\ TableType' /\ ContentType'
               /\ cstate' \in [Caches -> {"unborn", "live", "leaked", "freed"}]
               /\ nextUID' \in [Caches -> 1..(MaxUID + 1)]
               /\ activeRequests' \in [Caches -> Nat] /\ lost' \in [Caches -> BOOLEAN]
    <3>1. /\ TableType' /\ cstate' \in [Caches -> {"unborn", "live", "leaked", "freed"}]
          /\ ContentType' /\ UNCHANGED <<nextUID, activeRequests, lost>>
      BY <2>7, DisposesEffect
    <3> QED BY <2>a, <3>1
  <2> QED BY <2>1, <2>2, <2>3, <2>4, <2>5, <2>6, <2>7, StepKinds
<1> QED BY <1>1, <1>2, <1>3, <1>4, <1>5 DEF Base, CacheType, RequestType, TableType, ContentType

\* The loads stay cancelled, and an abandoned shutdown stays abandoned.
LEMMA Latched ==
  ASSUME Control, [Next]_vars
  PROVE  /\ gCacheLoadsCancelled => gCacheLoadsCancelled'
         /\ gArtShutdownAbandoned => gArtShutdownAbandoned'
<1> USE DEF lifeVars
<1>1. CASE GuiNext
  BY <1>1, GuiFrame
<1>2. CASE CallNext \/ EndBegins \/ UNCHANGED vars
  <2>1. CASE \E t \in Callers, o \in Ops : Call(t, o)
    <3>1. PICK o \in Ops : /\ gCacheLoadsCancelled' = (gCacheLoadsCancelled \/ o = "exit")
                           /\ UNCHANGED gArtShutdownAbandoned
      BY <2>1 DEF Call
    <3> QED BY <3>1
  <2>2. CASE EndBegins \/ UNCHANGED vars
    BY <2>2 DEF EndBegins, vars
  <2> QED BY <1>2, <2>1, <2>2 DEF CallNext
<1>3. CASE Joined
  BY <1>3 DEF Joined, Control, Operations
<1>4. CASE \E t \in Callers : Continue(t)
  <2>1. PICK t \in Callers : Continue(t)
    BY <1>4
  <2>2. UNCHANGED <<gCacheLoadsCancelled, gArtShutdownAbandoned>>
    BY <2>1
       DEF Continue, Walk, ClearItem, CountLoad, CountStore, SetAside, PushKept,
           Walked, WaitReturns, CancelNext, SwapTheme, DestroyCache,
           DestroyWaitEnds, RebuildRows
  <2> QED BY <2>2
<1>5. CASE ArtReads \/ ArtRest
  <2>1. CASE ArtReads
    BY <2>1 DEF ArtReads, ArtPublishes, ArtReadFails, ArtReturnsAbandoned
  <2>2. CASE ArtWakes \/ artPop \/ ArtPopsNothing \/ ArtStarts \/ ArtZeroes
    BY <2>2 DEF ArtWakes, artPop, ArtPopsNothing, ArtStarts, ArtZeroes
  <2>3. CASE ArtHandsOver \/ artReleaseRequest \/ ArtExits
    BY <2>3 DEF ArtHandsOver, artReleaseRequest, ArtExits
  <2>4. CASE ClearItem(Art) \/ CountLoad(Art) \/ CountStore(Art)
    BY <2>4 DEF ClearItem, CountLoad, CountStore
  <2> QED BY <1>5, <2>1, <2>2, <2>3, <2>4 DEF ArtRest
<1> QED BY <1>1, <1>2, <1>3, <1>4, <1>5 DEF Next, TeardownNext

\* What lies ahead stays untouched.
LEMMA AheadNext ==
  ASSUME Base, CachesAhead, [Next]_vars
  PROVE  CachesAhead'
<1>a. /\ cur \in Caches /\ Caches \subseteq Nat /\ live \subseteq Reqs
      /\ \A c \in Caches : c > cur =>
           /\ cstate[c] = "unborn" /\ nextUID[c] = 1 /\ \A s \in Slots : Blank(content[c][s])
      /\ \A r \in live : request[r].cache <= cur /\ request[r].cache \in Caches
      /\ ~gCacheLoadsCancelled => cstate[cur] = "live"
  BY DEF Base, Control, ControlType, Caches, Held, Hands, HandType, CachesAhead,
         RequestType, Request
<1>b. gCacheLoadsCancelled => gCacheLoadsCancelled'
  BY Latched DEF Base
<1>1. ASSUME cur' = cur, cstate' = cstate, nextUID' = nextUID,
             \A c \in Caches, s \in Slots : c > cur /\ Blank(content[c][s]) => Blank(content'[c][s]),
             live' \subseteq live, \A r \in live' : SameTarget(r)
      PROVE  CachesAhead'
  BY <1>a, <1>b, <1>1 DEF CachesAhead, SameTarget
<1>2. CASE Touches
  BY <1>a, <1>1, <1>2, TouchesEffect DEF Touches, Calm, Retouched, Blank
<1>3. ASSUME NEW v, NEW s, NEW r, Asks(v, s, r)
      PROVE  CachesAhead'
  <2>1. /\ cur' = cur /\ cstate' = cstate /\ live' = live \cup {r}
        /\ \A q \in live : SameTarget(q)
        /\ request'[r].cache = cur
        /\ \A c2 \in Caches : c2 > cur => /\ nextUID'[c2] = nextUID[c2]
                                          /\ \A s2 \in Slots : content'[c2][s2] = content[c2][s2]
    <3>1. cur' = cur /\ cstate' = cstate /\ live' = live \cup {r}
      BY <1>3 DEF Asks
    <3>2. \A c2 \in Caches : c2 > cur => c2 # cur
      BY <1>a
    <3> QED BY <1>3, <3>1, <3>2, AsksEffect
  <2> QED BY <1>a, <1>b, <2>1 DEF CachesAhead, SameTarget
<1>4. ASSUME NEW w \in live, NEW e, Writes(w, e)
      PROVE  CachesAhead'
  <2>1. /\ \A r \in live : SameTarget(r)
        /\ \A c2 \in Caches, s2 \in Slots : c2 > cur => content'[c2][s2] = content[c2][s2]
    BY <1>a, <1>4, WritesEffect
  <2> QED BY <1>1, <1>4, <2>1 DEF Writes, Calm
<1>5. ASSUME NEW t, Releases(t)
      PROVE  CachesAhead'
  BY <1>1, <1>5, ReleasesEffect
<1>6. CASE ArtReturnsAbandoned
  BY <1>1, <1>6, AbandonEffect
<1>7. ASSUME NEW t \in Callers, SwapTheme(t)
      PROVE  CachesAhead'
  <2>1. /\ cur + 1 \in Caches /\ cur' = cur + 1
        /\ \A c \in Caches : cstate'[c] = IF c = cur + 1 THEN "live" ELSE cstate[c]
        /\ UNCHANGED <<content, nextUID, request, live>>
    BY <1>7, SwapEffect
  <2>2. ASSUME NEW c \in Caches, c > cur + 1 PROVE c > cur /\ c # cur + 1
    BY <1>a, <2>2
  <2>3. \A r \in live : request[r].cache <= cur + 1
    BY <1>a
  <2> QED BY <1>a, <2>1, <2>2, <2>3 DEF CachesAhead
<1>8. ASSUME NEW t \in Callers, Disposes(t)
      PROVE  CachesAhead'
  <2>1. /\ old[t] \in Caches /\ old[t] <= cur /\ (gCacheLoadsCancelled \/ old[t] < cur)
        /\ \A c \in Caches, s \in Slots : c # old[t] => content'[c][s] = content[c][s]
        /\ \A c \in Caches : c # old[t] => cstate'[c] = cstate[c]
        /\ UNCHANGED <<cur, nextUID, request, live>>
    BY <1>8, DisposesEffect
  <2>2. ASSUME NEW c \in Caches, c > cur PROVE c # old[t]
    BY <1>a, <2>1, <2>2
  <2>3. ~gCacheLoadsCancelled => cur # old[t]
    BY <1>a, <2>1
  <2> QED BY <1>a, <1>b, <2>1, <2>2, <2>3 DEF CachesAhead
<1> QED BY <1>2, <1>3, <1>4, <1>5, <1>6, <1>7, <1>8, StepKinds

\* Requests into a cache, when one is made and when one is freed.
LEMMA ReferencesBorn ==
  ASSUME NEW c, NEW d, NEW r, r \notin live, live' = live \cup {r}, request'[r].cache = d,
         \A q \in live : SameTarget(q)
  PROVE  References(c)' = IF c = d THEN References(c) \cup {r} ELSE References(c)
BY DEF References, SameTarget

LEMMA ReferencesFreed ==
  ASSUME NEW c, NEW w \in live, live' = live \ {w}, \A q \in live' : SameTarget(q)
  PROVE  References(c)' = References(c) \ {w} /\ (w \in References(c) <=> request[w].cache = c)
BY DEF References, SameTarget

LEMMA ReferencesSame ==
  ASSUME NEW c, live' = live, \A q \in live : SameTarget(q)
  PROVE  References(c)' = References(c)
BY DEF References, SameTarget

\* The counts stay exact.
LEMMA CountedNext ==
  ASSUME Base, CachesAhead, Counted, [Next]_vars
  PROVE  Counted'
<1>a. /\ IsFiniteSet(live)
      /\ \A c : IsFiniteSet(References(c)) /\ Cardinality(References(c)) \in Nat
  <2>1. IsFiniteSet(live) /\ \A c : References(c) \subseteq live
    BY DEF Counted, References
  <2> QED BY <2>1, FS_Subset, FS_CardinalityType
<1>b. gArtShutdownAbandoned => gArtShutdownAbandoned'
  BY Latched DEF Base
<1>c. \A c \in Caches : activeRequests[c] \in Nat
  BY DEF Base, RequestType
<1> DEFINE Exact(c) ==
             /\ Cardinality(References(c)) <= activeRequests[c]
             /\ ~gArtShutdownAbandoned => activeRequests[c] = Cardinality(References(c))
             /\ cstate[c] = "freed" => References(c) = {}
<1>d. \A c \in Caches : ~lost[c] => Exact(c)
  BY DEF Counted
<1>1. ASSUME live' = live, \A q \in live : SameTarget(q), UNCHANGED <<activeRequests, lost>>,
             \A c \in Caches : cstate'[c] = "freed" => cstate[c] = "freed" \/ activeRequests[c] = 0
      PROVE  Counted'
  <2>1. ASSUME NEW c \in Caches, ~lost'[c] PROVE Exact(c)'
    <3>1. References(c)' = References(c)
      BY <1>1, ReferencesSame
    <3>2. Exact(c)
      BY <1>d, <1>1, <2>1
    <3>3. activeRequests[c] = 0 => References(c) = {}
      <4>1. activeRequests[c] = 0 => Cardinality(References(c)) = 0
        BY <1>a, <3>2
      <4> QED BY <1>a, <4>1, FS_EmptySet
    <3> QED BY <1>b, <1>1, <3>1, <3>2, <3>3
  <2> QED BY <1>a, <1>1, <2>1 DEF Counted
<1>2. CASE Touches
  <2>1. live \subseteq Reqs
    BY DEF Base, Held, Hands, HandType
  <2> QED BY <1>1, <1>2, <2>1, TouchesEffect DEF Touches, Calm
<1>3. ASSUME NEW v, NEW s, NEW r, Asks(v, s, r)
      PROVE  Counted'
  <2>1. /\ r \notin live /\ live' = live \cup {r} /\ cur \in Caches
        /\ cstate' = cstate /\ lost' = lost /\ cstate[cur] = "live"
    BY <1>3 DEF Asks, Draws, CachesAhead, Base, Control, ControlType
  <2>2. /\ request'[r].cache = cur /\ \A q \in live : SameTarget(q)
        /\ \A c2 \in Caches : activeRequests'[c2] = IF c2 = cur THEN activeRequests[cur] + 1
                                                   ELSE activeRequests[c2]
    BY <1>3, AsksEffect
  <2>3. ASSUME NEW c \in Caches, ~lost'[c] PROVE Exact(c)'
    <3>1. References(c)' = IF c = cur THEN References(c) \cup {r} ELSE References(c)
      BY <2>1, <2>2, ReferencesBorn
    <3>2. Exact(c)
      BY <1>d, <2>1, <2>3
    <3>3. CASE c # cur
      BY <1>b, <2>1, <2>2, <3>1, <3>2, <3>3
    <3>4. CASE c = cur
      <4>1. Cardinality(References(c) \cup {r}) = Cardinality(References(c)) + 1
        <5>1. r \notin References(c)
          BY <2>1 DEF References
        <5> QED BY <1>a, <5>1, FS_AddElement
      <4> QED BY <1>a, <1>b, <1>c, <2>1, <2>2, <3>1, <3>2, <3>4, <4>1
    <3> QED BY <3>3, <3>4
  <2>4. IsFiniteSet(live')
    BY <1>a, <2>1, FS_AddElement
  <2> QED BY <2>3, <2>4 DEF Counted
<1>4. CASE \E w \in live : \E e : Writes(w, e)
  BY <1>1, <1>4, WritesEffect DEF Writes, Calm
<1>5. ASSUME NEW t, Releases(t)
      PROVE  Counted'
  <2> DEFINE w == Working(t)
             k == request[w].cache
  <2>1. /\ k \in Caches /\ w \in live /\ live' = live \ {w}
        /\ \A r \in live' : SameTarget(r)
        /\ \A d \in Caches : d # k => lost'[d] = lost[d] /\ activeRequests'[d] = activeRequests[d]
        /\ ~lost'[k] => /\ ~lost[k]
                        /\ activeRequests'[k] = IF activeRequests[k] > 0
                                                THEN activeRequests[k] - 1 ELSE 0
        /\ cstate' = cstate
    BY <1>5, ReleasesEffect
  <2>2. request[w].cache = k
    OBVIOUS
  <2> HIDE DEF w, k
  <2>3. ASSUME NEW c \in Caches, ~lost'[c] PROVE Exact(c)'
    <3>1. References(c)' = References(c) \ {w} /\ (w \in References(c) <=> k = c)
      BY <2>1, <2>2, ReferencesFreed
    <3>2. Exact(c)
      BY <1>d, <2>1, <2>3
    <3>3. CASE c # k
      <4>1. References(c)' = References(c)
        BY <3>1, <3>3
      <4> QED BY <1>b, <2>1, <3>2, <3>3, <4>1
    <3>4. CASE c = k
      <4>1. /\ Cardinality(References(c) \ {w}) = Cardinality(References(c)) - 1
            /\ Cardinality(References(c)) # 0
        BY <1>a, <3>1, <3>4, FS_RemoveElement, FS_EmptySet
      <4>2. activeRequests[c] > 0 /\ activeRequests'[c] = activeRequests[c] - 1
        BY <1>a, <1>c, <2>1, <2>3, <3>2, <3>4, <4>1
      <4> QED BY <1>a, <1>b, <1>c, <2>1, <3>1, <3>2, <3>4, <4>1, <4>2
    <3> QED BY <3>3, <3>4
  <2>4. IsFiniteSet(live')
    BY <1>a, <2>1, FS_RemoveElement
  <2> QED BY <2>3, <2>4 DEF Counted
<1>6. CASE ArtReturnsAbandoned
  <2>1. /\ gArtShutdownAbandoned' /\ artReq \in live /\ live' = live \ {artReq}
        /\ \A r \in live' : SameTarget(r)
        /\ UNCHANGED <<cstate, activeRequests, lost>>
    BY <1>6, AbandonEffect
  <2>2. ASSUME NEW c \in Caches, ~lost'[c] PROVE Exact(c)'
    <3>1. References(c)' = References(c) \ {artReq}
      BY <2>1, ReferencesFreed
    <3>2. Exact(c)
      BY <1>d, <2>1, <2>2
    <3>3. /\ Cardinality(References(c) \ {artReq}) <= Cardinality(References(c))
          /\ Cardinality(References(c) \ {artReq}) \in Nat
      <4>1. References(c) \ {artReq} \subseteq References(c)
        OBVIOUS
      <4> QED BY <1>a, <4>1, FS_Subset, FS_CardinalityType
    <3>4. cstate'[c] = "freed" => References(c)' = {}
      BY <2>1, <3>1, <3>2
    <3>5. Cardinality(References(c)') <= activeRequests'[c]
      BY <1>a, <1>c, <2>1, <3>1, <3>2, <3>3
    <3> QED BY <2>1, <3>4, <3>5
  <2>3. IsFiniteSet(live')
    BY <1>a, <2>1, FS_RemoveElement
  <2> QED BY <2>2, <2>3 DEF Counted
<1>7. ASSUME NEW t \in Callers, SwapTheme(t)
      PROVE  Counted'
  BY <1>1, <1>7, SwapEffect
<1>8. ASSUME NEW t \in Callers, Disposes(t)
      PROVE  Counted'
  BY <1>1, <1>8, DisposesEffect
<1> QED BY <1>2, <1>3, <1>4, <1>5, <1>6, <1>7, <1>8, StepKinds

----------------------------------------------------------------------------
(* Whose step it is *)

Moves(t) == Continue(t) \/ (\E o \in Ops : Call(t, o)) \/ (t = Gui /\ TeardownNext)

\* A step of a caller writes its own place, operation and chain only.
LEMMA OwnStep ==
  ASSUME Base, NEW u \in Callers, Moves(u), NEW t \in Threads, t # u
  PROVE  pc'[t] = pc[t] /\ (t \in Callers => op'[t] = op[t] /\ chain'[t] = chain[t])
<1> USE DEF cacheVars, reqVars, guiVars, artVars, callVars, countVars, lifeVars
<1>a. /\ pc \in [Threads -> CallerLabels \cup ArtLabels] /\ op \in [Callers -> Ops]
      /\ chain \in [Callers -> Seq(live)]
  BY DEF Base, Control, ControlType, Held, Hands, HandType
<1>1. ASSUME NEW label, pc' = [pc EXCEPT ![u] = label] \/ pc' = pc,
             NEW o, op' = [op EXCEPT ![u] = o] \/ op' = op,
             NEW q, chain' = [chain EXCEPT ![u] = q] \/ chain' = chain
      PROVE  pc'[t] = pc[t] /\ (t \in Callers => op'[t] = op[t] /\ chain'[t] = chain[t])
  BY <1>a, <1>1
<1>2. ASSUME NEW o \in Ops, Call(u, o) PROVE op' = [op EXCEPT ![u] = o]
             /\ chain' = [chain EXCEPT ![u] = queue] /\ pc' = [pc EXCEPT ![u] = "walk"]
  BY <1>2 DEF Call, Detach, Goto
<1>3. CASE TeardownNext /\ u = Gui
  <2>1. op' = op /\ \/ chain' = [chain EXCEPT ![u] = queue] /\ pc' = [pc EXCEPT ![u] = "walk"]
                    \/ chain' = chain /\ pc' = [pc EXCEPT ![u] = "destroy"]
    BY <1>3 DEF TeardownNext, EndBegins, Joined, Detach, Goto
  <2> QED BY <1>1, <2>1
<1>4. CASE Continue(u)
  <2>0. u # Art
    BY DEF Callers, Gui, Io, Art
  <2>1. \E label : pc' = [pc EXCEPT ![u] = label] \/ pc' = pc
    BY <1>4
       DEF Continue, Walk, ClearItem, CountLoad, CountStore, SetAside, PushKept,
           Walked, WaitReturns, CancelNext, SwapTheme, DestroyCache,
           DestroyWaitEnds, RebuildRows, FreeOrLeak, Destroyed, Return, Goto, Detach
  <2>2. \E o : op' = [op EXCEPT ![u] = o] \/ op' = op
    BY <1>4
       DEF Continue, Walk, ClearItem, CountLoad, CountStore, SetAside, PushKept,
           Walked, WaitReturns, CancelNext, SwapTheme, DestroyCache,
           DestroyWaitEnds, RebuildRows, FreeOrLeak, Destroyed, Return
  <2>3. \E q : chain' = [chain EXCEPT ![u] = q] \/ chain' = chain
    BY <1>4, <2>0
       DEF Continue, Walk, ClearItem, CountLoad, CountStore, SetAside, PushKept,
           Walked, WaitReturns, CancelNext, SwapTheme, DestroyCache,
           DestroyWaitEnds, RebuildRows, Detach
  <2> QED BY <1>1, <2>1, <2>2, <2>3
<1> QED BY <1>1, <1>2, <1>3, <1>4 DEF Moves

\* A step of the art worker writes no caller's.
LEMMA ArtStep ==
  ASSUME Base, ArtReads \/ ArtRest
  PROVE  /\ op' = op /\ chain' = chain /\ \A t \in Callers : pc'[t] = pc[t]
         /\ UNCHANGED <<rows, cur>>
<1>1. op' = op /\ chain' = chain /\ UNCHANGED <<rows, cur>>
  BY DEF ArtReads, ArtRest, ArtPublishes, ArtReadFails, ArtReturnsAbandoned,
         ArtWakes, artPop, ArtPopsNothing, ArtStarts, ArtZeroes, ArtHandsOver,
         artReleaseRequest, ArtExits, ClearItem, CountLoad, CountStore, callVars,
         cacheVars, guiVars
<1>2. \E label : pc' = [pc EXCEPT ![Art] = label]
  BY DEF ArtReads, ArtRest, ArtPublishes, ArtReadFails, ArtReturnsAbandoned,
         ArtWakes, artPop, ArtPopsNothing, ArtStarts, ArtZeroes, ArtHandsOver,
         artReleaseRequest, ArtExits, ClearItem, CountLoad, CountStore, Goto
<1>3. \A t \in Callers : pc'[t] = pc[t]
  BY <1>2 DEF Base, Control, ControlType, Callers, Threads, Gui, Io, Art
<1> QED BY <1>1, <1>3

\* Where a caller goes on dropping a request it was, or it has just begun.
LEMMA DroppingFrame ==
  ASSUME Base, [Next]_vars, NEW t \in Callers, pc'[t] \in Dropping
  PROVE  /\ chain[t] # <<>> /\ chain'[t] = chain[t]
         /\ Walk(t) \/ pc[t] \in Dropping
<1>a. t \in Threads /\ t # Art /\ pc \in [Threads -> CallerLabels \cup ArtLabels]
      /\ (pc[t] \in Dropping => chain[t] # <<>>)
  BY DEF Callers, Threads, Gui, Io, Art, Base, Control, ControlType, Held, Places
<1>1. CASE pc'[t] = pc[t] /\ chain'[t] = chain[t]
  BY <1>a, <1>1
<1>2. CASE Moves(t)
  <2>1. CASE (\E o \in Ops : Call(t, o)) \/ (t = Gui /\ TeardownNext)
    <3>1. pc' = [pc EXCEPT ![t] = "walk"] \/ pc' = [pc EXCEPT ![t] = "destroy"]
      BY <2>1 DEF Call, TeardownNext, EndBegins, Joined, Detach, Goto
    <3> QED BY <1>a, <3>1 DEF Dropping
  <2>2. CASE Walk(t) \/ ClearItem(t) \/ CountLoad(t)
    <3>1. chain' = chain
      BY <2>2 DEF Walk, ClearItem, CountLoad, callVars
    <3>2. Walk(t) => chain[t] # <<>>
      BY DEF Walk
    <3> QED BY <1>a, <2>2, <3>1, <3>2 DEF ClearItem, CountLoad, Dropping
  <2>3. CASE CountStore(t) \/ SetAside(t) \/ PushKept(t) \/ WaitReturns(t) \/ CancelNext(t)
             \/ SwapTheme(t) \/ DestroyCache(t) \/ DestroyWaitEnds(t) \/ RebuildRows(t)
    <3>1. \E label : /\ label \notin Dropping
                     /\ pc' = [pc EXCEPT ![t] = label] \/ (pc' = pc /\ pc[t] = label)
      BY <1>a, <2>3
         DEF CountStore, SetAside, PushKept, WaitReturns, CancelNext, SwapTheme,
             DestroyCache, DestroyWaitEnds, RebuildRows, FreeOrLeak, Destroyed,
             Return, Goto, Detach, Dropping
    <3> QED BY <1>a, <3>1
  <2>4. CASE Walked(t)
    <3>1. \/ pc' = [pc EXCEPT ![t] = "drain"] \/ pc' = [pc EXCEPT ![t] = "join"]
          \/ pc' = [pc EXCEPT ![t] = "wait"]
      BY <2>4 DEF Walked, Goto
    <3> QED BY <1>a, <3>1 DEF Dropping
  <2> QED BY <1>2, <2>1, <2>2, <2>3, <2>4 DEF Moves, Continue
<1>3. CASE GuiNext \/ UNCHANGED vars
  BY <1>1, <1>3, GuiFrame DEF vars, callVars
<1>4. CASE ArtReads \/ ArtRest
  BY <1>1, <1>4, ArtStep
<1>5. ASSUME NEW u \in Callers, Moves(u), u # t PROVE pc'[t] = pc[t] /\ chain'[t] = chain[t]
  BY <1>a, <1>5, OwnStep
<1>6. GuiNext \/ UNCHANGED vars \/ ArtReads \/ ArtRest \/ \E u \in Callers : Moves(u)
  BY DEF Next, CallNext, Moves, Callers
<1> QED BY <1>1, <1>2, <1>3, <1>4, <1>5, <1>6

Letting == {"clear", "release", "count", "store"}

\* Where the art worker goes on letting go of a request it was, or it has just begun.
LEMMA LettingFrame ==
  ASSUME Base, [Next]_vars, pc'[Art] \in Letting
  PROVE  /\ artReq \in live /\ artReq' = artReq
         /\ \/ ArtZeroes \/ ArtHandsOver \/ pc[Art] \in Letting
            \/ content' = content /\ request' = request /\ (gCacheLoadsCancelled \/ Orphaned)
<1> USE DEF cacheVars, reqVars, guiVars, artVars, callVars, countVars, lifeVars
<1>a. /\ Art \in Threads /\ pc \in [Threads -> CallerLabels \cup ArtLabels]
      /\ pc[Art] \in Busy => artReq \in live
  BY DEF Threads, Base, Control, ControlType, Held, Places, Hands, HandType
<1>1. CASE pc'[Art] = pc[Art] /\ artReq' = artReq
  BY <1>a, <1>1 DEF Letting, Busy
<1>2. ASSUME NEW u \in Callers, Moves(u) PROVE pc'[Art] = pc[Art] /\ artReq' = artReq
  <2>1. u # Art
    BY DEF Callers, Gui, Io, Art
  <2>2. artReq' = artReq
    BY <1>2, <2>1
       DEF Moves, Call, TeardownNext, EndBegins, Joined, Continue, Walk, ClearItem,
           CountLoad, CountStore, SetAside, PushKept, Walked, WaitReturns,
           CancelNext, SwapTheme, DestroyCache, DestroyWaitEnds, RebuildRows
  <2> QED BY <1>a, <1>2, <2>1, <2>2, OwnStep
<1>3. CASE GuiNext \/ UNCHANGED vars
  BY <1>1, <1>3, GuiFrame DEF vars
<1>4. CASE ArtReads \/ ArtRest
  <2>1. CASE ArtZeroes \/ ArtHandsOver
    BY <1>a, <2>1 DEF ArtZeroes, ArtHandsOver, Busy
  <2>2. CASE ClearItem(Art) \/ artReleaseRequest \/ CountLoad(Art)
    <3>1. pc[Art] \in Letting /\ artReq' = artReq
      BY <2>2 DEF ClearItem, artReleaseRequest, CountLoad, Letting
    <3> QED BY <1>a, <3>1 DEF Letting, Busy
  <2>3. CASE ArtStarts
    <3>1. /\ pc[Art] = "gate" /\ artReq' = artReq /\ content' = content /\ request' = request
          /\ pc' = [pc EXCEPT ![Art] = IF gCacheLoadsCancelled \/ Orphaned
               THEN "release" ELSE IF Unwanted THEN "zero" ELSE "read"]
      BY <2>3 DEF ArtStarts, Goto
    <3>2. gCacheLoadsCancelled \/ Orphaned
      BY <1>a, <3>1 DEF Letting
    <3> QED BY <1>a, <3>1, <3>2 DEF Busy
  <2>4. CASE ArtReads \/ ArtWakes \/ artPop \/ ArtPopsNothing \/ ArtExits \/ CountStore(Art)
    <3>1. \E label : label \notin Letting /\ pc' = [pc EXCEPT ![Art] = label]
      BY <2>4
         DEF ArtReads, ArtPublishes, ArtReadFails, ArtReturnsAbandoned, ArtWakes,
             artPop, ArtPopsNothing, ArtExits, CountStore, Goto, Letting
    <3> QED BY <1>a, <3>1
  <2> QED BY <1>4, <2>1, <2>2, <2>3, <2>4 DEF ArtRest
<1>5. GuiNext \/ UNCHANGED vars \/ ArtReads \/ ArtRest \/ \E u \in Callers : Moves(u)
  BY DEF Next, CallNext, Moves, Callers
<1> QED BY <1>1, <1>2, <1>3, <1>4, <1>5

----------------------------------------------------------------------------
(* Claimed slots *)

ClaimedOk ==
  \A c \in Caches, s \in Slots :
    content[c][s].qr # NULL =>
      /\ content[c][s].qr \in live
      /\ request[content[c][s].qr].cache = c /\ request[content[c][s].qr].slot = s
      /\ request[content[c][s].qr].uid = content[c][s].UID

\* The slot of a request after the step.
SlotAfter(r) == content'[request'[r].cache][request'[r].slot]

\* A request that has let go of its slot does not get it back.
LetGoStays ==
  \A r \in live : r \in live' /\ SlotOf(r).qr # r => SlotAfter(r).qr # r

\* Every kind of step keeps the claims.
LEMMA ClaimedNext ==
  ASSUME Base, Base', ClaimsUntilTeardown, [Next]_vars, ~gCacheLoadsCancelled'
  PROVE  ClaimedOk' /\ LetGoStays
<1>a. ~gCacheLoadsCancelled /\ ~gArtShutdownAbandoned
  BY Latched DEF Base, Control, Operations, Performing, Callers
<1>b. ClaimedOk
  BY <1>a DEF ClaimsUntilTeardown, Claims, ClaimedOk
<1>c. \A r \in live : /\ r # NULL /\ r \in Reqs
                      /\ request[r].cache \in Caches /\ request[r].slot \in Slots
  BY NullAssumption DEF Base, RequestType, Request, Held, Hands, HandType
<1>1. CASE Touches
  <2>1. /\ live' = live /\ (\A r \in live : SameTarget(r))
        /\ \A c \in Caches, s \in Slots : /\ content'[c][s].qr = content[c][s].qr
                                          /\ content'[c][s].UID = content[c][s].UID
    BY <1>1, <1>c, TouchesEffect DEF Touches, Retouched
  <2>2. ClaimedOk'
    BY <1>b, <2>1 DEF ClaimedOk, SameTarget
  <2>3. LetGoStays
    BY <1>c, <2>1 DEF LetGoStays, SlotAfter, SlotOf, SameTarget
  <2> QED BY <2>2, <2>3
<1>2. ASSUME NEW v, NEW s, NEW r, Asks(v, s, r)
      PROVE  ClaimedOk' /\ LetGoStays
  <2>1. live' = live \cup {r} /\ r \notin live /\ r # NULL /\ s \in Slots /\ cur \in Caches
    BY <1>2, NullAssumption DEF Asks, Base, Control, ControlType
  <2>2. /\ \A q \in live : SameTarget(q)
        /\ request'[r].cache = cur /\ request'[r].slot = s /\ request'[r].uid = nextUID[cur]
        /\ Claimed(v, r).qr = r /\ Claimed(v, r).UID = nextUID[cur]
        /\ \A c2 \in Caches, s2 \in Slots :
              content'[c2][s2] = IF c2 = cur /\ s2 = s THEN Claimed(v, r) ELSE content[c2][s2]
    BY <1>2, AsksEffect
  <2>3. ASSUME NEW c2 \in Caches, NEW s2 \in Slots, content'[c2][s2].qr # NULL
        PROVE  /\ content'[c2][s2].qr \in live'
               /\ request'[content'[c2][s2].qr].cache = c2
               /\ request'[content'[c2][s2].qr].slot = s2
               /\ request'[content'[c2][s2].qr].uid = content'[c2][s2].UID
    <3>1. CASE c2 = cur /\ s2 = s
      BY <2>1, <2>2, <3>1
    <3>2. CASE ~(c2 = cur /\ s2 = s)
      <4>1. content'[c2][s2] = content[c2][s2]
        BY <2>2, <3>2
      <4>2. /\ content[c2][s2].qr \in live
            /\ request[content[c2][s2].qr].cache = c2
            /\ request[content[c2][s2].qr].slot = s2
            /\ request[content[c2][s2].qr].uid = content[c2][s2].UID
        BY <1>b, <2>3, <4>1 DEF ClaimedOk
      <4> QED BY <2>1, <2>2, <4>1, <4>2 DEF SameTarget
    <3> QED BY <3>1, <3>2
  <2>4. ClaimedOk'
    BY <2>3 DEF ClaimedOk
  <2>5. ASSUME NEW q \in live, SlotOf(q).qr # q PROVE SlotAfter(q).qr # q
    <3>1. SlotAfter(q) = content'[request[q].cache][request[q].slot]
      BY <2>2 DEF SlotAfter, SlotOf, SameTarget
    <3>2. SlotAfter(q) = SlotOf(q) \/ SlotAfter(q) = Claimed(v, r)
      BY <1>c, <2>2, <3>1 DEF SlotAfter, SlotOf
    <3> QED BY <2>1, <2>2, <2>5, <3>2
  <2> QED BY <2>4, <2>5 DEF LetGoStays
<1>3. ASSUME NEW w \in live, NEW e, Writes(w, e)
      PROVE  ClaimedOk' /\ LetGoStays
  <2>1. /\ live' = live /\ request' = request
        /\ e.qr = NULL \/ (e.qr = SlotOf(w).qr /\ e.UID = SlotOf(w).UID)
        /\ request[w].cache \in Caches /\ request[w].slot \in Slots
        /\ \A c2 \in Caches, s2 \in Slots :
              content'[c2][s2] = IF c2 = request[w].cache /\ s2 = request[w].slot THEN e
                                 ELSE content[c2][s2]
    <3>1. /\ live' = live /\ request' = request
          /\ e.qr = NULL \/ (e.qr = SlotOf(w).qr /\ e.UID = SlotOf(w).UID)
      BY <1>3 DEF Writes, Empties, Fills
    <3> QED BY <1>3, <3>1, WritesEffect
  <2>2. \A c2 \in Caches, s2 \in Slots :
          \/ content'[c2][s2].qr = NULL
          \/ /\ content'[c2][s2].qr = content[c2][s2].qr
             /\ content'[c2][s2].UID = content[c2][s2].UID
    BY <2>1 DEF SlotAfter, SlotOf
  <2>3. ClaimedOk'
    BY <1>b, <2>1, <2>2 DEF ClaimedOk
  <2>4. LetGoStays
    BY <1>c, <2>1, <2>2 DEF LetGoStays, SlotAfter, SlotOf
  <2> QED BY <2>3, <2>4
<1>4. ASSUME NEW t, Releases(t)
      PROVE  ClaimedOk' /\ LetGoStays
  <2> DEFINE w == Working(t)
  <2>1. /\ w \in live /\ live' = live \ {w} /\ content' = content
        /\ \A r \in live' : SameTarget(r)
    BY <1>4, ReleasesEffect
  <2>2. SlotOf(w).qr # w
    <3>1. Claims /\ t \in Threads /\ pc[t] = "store"
      BY <1>4, <1>a DEF ClaimsUntilTeardown, Releases, CountStore
    <3>2. CASE t = Art
      BY <3>1, <3>2 DEF Claims, Working
    <3>3. CASE t # Art
      BY <3>1, <3>3 DEF Claims, Working, Threads, Callers, Dropping
    <3> QED BY <3>2, <3>3
  <2> HIDE DEF w
  <2>3. \A c \in Caches, s \in Slots : content[c][s].qr # w
    BY <1>b, <1>c, <2>1, <2>2 DEF ClaimedOk, SlotAfter, SlotOf
  <2>4. ClaimedOk'
    BY <1>b, <2>1, <2>3 DEF ClaimedOk, SameTarget
  <2>5. LetGoStays
    BY <2>1 DEF LetGoStays, SlotAfter, SlotOf, SameTarget
  <2> QED BY <2>4, <2>5
<1>5. CASE ArtReturnsAbandoned
  BY <1>a, <1>5, AbandonEffect
<1>6. ASSUME NEW t \in Callers, SwapTheme(t)
      PROVE  ClaimedOk' /\ LetGoStays
  <2>1. UNCHANGED <<content, request, live>>
    BY <1>6, SwapEffect
  <2> QED BY <1>b, <2>1 DEF ClaimedOk, LetGoStays, SlotAfter, SlotOf
<1>7. ASSUME NEW t \in Callers, Disposes(t)
      PROVE  ClaimedOk' /\ LetGoStays
  <2>1. /\ UNCHANGED <<request, live>>
        /\ \A c \in Caches, s \in Slots : content'[c][s] = content[c][s] \/ content'[c][s].qr = NULL
    BY <1>7, DisposesEffect, BlankTypes DEF Blank
  <2>2. ClaimedOk'
    BY <1>b, <2>1 DEF ClaimedOk
  <2>3. LetGoStays
    BY <1>c, <2>1 DEF LetGoStays, SlotAfter, SlotOf
  <2> QED BY <2>2, <2>3
<1> QED BY <1>1, <1>2, <1>3, <1>4, <1>5, <1>6, <1>7, StepKinds

LEMMA ClaimsNext ==
  ASSUME Base, Base', ClaimsUntilTeardown, [Next]_vars
  PROVE  ClaimsUntilTeardown'
<1> SUFFICES ASSUME ~gCacheLoadsCancelled' PROVE Claims'
  BY DEF ClaimsUntilTeardown
<1>a. ~gCacheLoadsCancelled /\ Claims
  BY Latched DEF Base, ClaimsUntilTeardown
<1>b. ClaimedOk' /\ LetGoStays
  BY ClaimedNext
<1>c. \A r \in live : /\ r # NULL /\ r \in Reqs /\ request[r].cache \in Caches
                      /\ request[r].slot \in Slots
  BY NullAssumption DEF Base, RequestType, Request, Held, Hands, HandType
<1>d. content \in [Caches -> [Slots -> Entry]]
  BY DEF Base, CacheType
<1>1. ASSUME NEW t \in Callers, pc'[t] \in Dropping
      PROVE  SlotAfter(Head(chain'[t])).qr # Head(chain'[t])
  <2> DEFINE w == Head(chain[t])
  <2>1. chain[t] # <<>> /\ chain'[t] = chain[t] /\ (Walk(t) \/ pc[t] \in Dropping)
    BY <1>1, DroppingFrame
  <2>2. w \in live /\ w \in live'
    <3>1. chain[t] \in Seq(live) /\ chain'[t] \in Seq(live')
      BY DEF Base, Held, Hands, HandType
    <3> QED BY <2>1, <3>1, ElementsTail
  <2>3. CASE pc[t] \in Dropping
    BY <1>a, <1>b, <2>1, <2>2, <2>3 DEF Claims, LetGoStays
  <2>4. CASE Walk(t)
    <3>0. t # Art
      BY DEF Callers, Gui, Io, Art
    <3>1. /\ request' = request
          /\ \/ SlotOf(w).qr # w /\ content' = content
             \/ content' = [content EXCEPT ![request[w].cache][request[w].slot] = Zeroed]
      BY <2>4, <3>0 DEF Walk, Zero, Working, SlotAfter, SlotOf, reqVars
    <3>2. CASE SlotOf(w).qr # w /\ content' = content
      BY <2>1, <3>1, <3>2 DEF SlotAfter, SlotOf
    <3>3. CASE content' = [content EXCEPT ![request[w].cache][request[w].slot] = Zeroed]
      <4>1. SlotAfter(w) = Zeroed
        BY <1>c, <1>d, <2>2, <3>1, <3>3 DEF SlotAfter, SlotOf
      <4> QED BY <1>c, <2>1, <2>2, <4>1, BlankTypes DEF Blank
    <3> QED BY <3>1, <3>2, <3>3
  <2> QED BY <2>1, <2>3, <2>4
<1>2. ASSUME pc'[Art] \in Letting
      PROVE  SlotAfter(artReq').qr # artReq'
  <2>1. /\ artReq \in live /\ artReq' = artReq
        /\ \/ ArtZeroes \/ ArtHandsOver \/ pc[Art] \in Letting
           \/ content' = content /\ request' = request /\ Orphaned
    BY <1>a, <1>2, LettingFrame
  <2>2. artReq \in live'
    BY <1>2, <2>1 DEF Base, Held, Places, Hands, HandType, Letting, Busy
  <2>3. CASE pc[Art] \in Letting
    BY <1>a, <1>b, <2>1, <2>2, <2>3 DEF Claims, LetGoStays, Letting
  <2>4. CASE ArtZeroes
    <3>1. /\ request' = request
          /\ content' = [content EXCEPT ![request[artReq].cache][request[artReq].slot] = Zeroed]
      BY <2>4 DEF ArtZeroes, Zero, Working, reqVars
    <3>2. SlotAfter(artReq) = Zeroed
      BY <1>c, <1>d, <2>1, <3>1 DEF SlotAfter, SlotOf
    <3> QED BY <1>c, <2>1, <3>2, BlankTypes DEF Blank
  <2>5. CASE ArtHandsOver
    <3>1. /\ request' = request
          /\ content' = [content EXCEPT ![request[artReq].cache][request[artReq].slot].qr = NULL]
      BY <2>5 DEF ArtHandsOver, reqVars
    <3>2. SlotOf(artReq) \in Entry
      BY <1>c, <1>d, <2>1 DEF SlotAfter, SlotOf
    <3>3. SlotAfter(artReq) = [SlotOf(artReq) EXCEPT !.qr = NULL]
      BY <1>c, <1>d, <2>1, <3>1 DEF SlotAfter, SlotOf
    <3>4. SlotAfter(artReq).qr = NULL
      BY <3>2, <3>3 DEF Entry
    <3> QED BY <1>c, <2>1, <3>4
  <2>6. CASE content' = content /\ request' = request /\ Orphaned
    <3>1. SlotOf(artReq).qr # artReq
      BY <1>a, <1>c, <2>1, <2>6 DEF Claims, Orphaned, ArtEntry, SlotAfter, SlotOf
    <3> QED BY <2>1, <2>6, <3>1 DEF SlotAfter, SlotOf
  <2> QED BY <2>1, <2>3, <2>4, <2>5, <2>6
<1> QED BY <1>b, <1>1, <1>2 DEF Claims, ClaimedOk, Letting, SlotAfter, SlotOf

----------------------------------------------------------------------------
(* The theorems that need no assumption on the calls *)

LEMMA HoldingParts ==
  Holding <=> Base /\ CachesAhead /\ ClaimsUntilTeardown /\ Counted
BY TypeParts DEF Holding, Base, Control, Held, Hands

LEMMA InitHolding ==
  Init => Holding
<1> SUFFICES ASSUME Init PROVE Holding
  OBVIOUS
<1>a. 1 \in Caches /\ 0 \in 0..MaxUID /\ 1 \in 1..(MaxUID + 1) /\ 0 \in 0..MaxCalls
      /\ \A c \in Caches : c > 1 => c # 1
  BY BoundsAssumption DEF Caches
<1>1. ControlType
  BY <1>a
     DEF Init, ControlType, Callers, Threads, Gui, Io, Art, CallerLabels, ArtLabels,
         Ops
<1>2. Operations
  BY DEF Init, Operations, Performing, Callers, Threads, Gui, Io, Art, ThemeOps
<1>3. CacheType
  BY <1>a, BlankTypes DEF Init, CacheType, NewRow, Row
<1>4. RequestType
  BY DEF Init, RequestType
<1>5. Hands
  BY ElementsEmpty DEF Init, Hands, HandType, OnePlace, AllHeld
<1>6. Places
  BY DEF Init, Places, Busy, Shown, Dropping, Walking, Callers, Threads, Gui, Io,
         Art
<1>7. CachesAhead
  BY <1>a, BlankTypes DEF Init, CachesAhead
<1>8. ClaimsUntilTeardown
  <2>1. \A c \in Caches, s \in Slots : content[c][s].qr = NULL
    BY BlankTypes DEF Init, Blank
  <2>2. pc[Art] = "sleep" /\ \A t \in Callers : pc[t] = "idle"
    BY DEF Init, Callers, Threads, Gui, Io, Art
  <2> QED BY <2>1, <2>2 DEF ClaimsUntilTeardown, Claims, Dropping
<1>9. Counted
  <2>1. IsFiniteSet({}) /\ Cardinality({}) = 0
    BY FS_EmptySet
  <2>2. live = {} /\ \A c \in Caches : activeRequests[c] = 0 /\ References(c) = {}
    BY DEF Init, References
  <2> QED BY <2>1, <2>2 DEF Counted
<1> QED BY <1>1, <1>2, <1>3, <1>4, <1>5, <1>6, <1>7, <1>8, <1>9, HoldingParts
    DEF Base, Control, Held

LEMMA HoldingNext ==
  Holding /\ [Next]_vars => Holding'
<1> SUFFICES ASSUME Holding, [Next]_vars PROVE Holding'
  OBVIOUS
<1>1. Base /\ CachesAhead /\ ClaimsUntilTeardown /\ Counted
  BY HoldingParts
<1>2. Base'
  BY <1>1, BaseNext
<1>3. CachesAhead' /\ ClaimsUntilTeardown' /\ Counted'
  BY <1>1, <1>2, AheadNext, ClaimsNext, CountedNext
<1>4. Holding' <=> Base' /\ CachesAhead' /\ ClaimsUntilTeardown' /\ Counted'
  <2>1. TypeOK' <=> ControlType' /\ CacheType' /\ RequestType' /\ HandType'
    BY DEF TypeOK, ControlType, CacheType, RequestType, HandType
  <2> QED BY <2>1 DEF Holding, Base, Control, Held, Hands
<1> QED BY <1>2, <1>3, <1>4

\* The inductive invariant holds in every state: where each request is, where each
\* thread is, what each slot is claimed for, what each cache counts.
THEOREM HoldingAlways == Spec => []Holding
BY InitHolding, HoldingNext, PTL DEF Spec

\* Type correctness.
THEOREM TypeCorrect == Spec => []TypeOK
<1>1. Holding => TypeOK
  BY DEF Holding
<1> QED BY <1>1, HoldingAlways, PTL

\* A claimed slot always has somebody who is going to release it: artFreeChain, the
\* worker or a canceller (until cacheEnd gives the slots up).
THEOREM ClaimHeld == Spec => []ClaimIsHeld
<1>1. Holding => ClaimIsHeld
  <2> SUFFICES ASSUME Holding, ~gCacheLoadsCancelled, NEW c \in Caches, NEW s \in Slots,
                      content[c][s].qr # NULL
               PROVE  /\ content[c][s].qr \in live \cap InHand
                      /\ request[content[c][s].qr].cache = c
                      /\ request[content[c][s].qr].slot = s
                      /\ request[content[c][s].qr].uid = content[c][s].UID
    BY DEF ClaimIsHeld
  <2> DEFINE q == content[c][s].qr
  <2>1. q \in live /\ request[q].cache = c /\ request[q].slot = s /\ request[q].uid = content[c][s].UID
    BY DEF Holding, ClaimsUntilTeardown, Claims
  <2> HIDE DEF q
  <2>2. q \in InHand
    BY <2>1 DEF Holding, AllHeld, InHand
  <2> QED BY <2>1, <2>2 DEF q
<1> QED BY <1>1, HoldingAlways, PTL

\* cacheDestroyCache frees a cache that a request points into in one case only:
\* an update of activeRequests, which three threads change without a lock, was
\* lost (lost[c]).  Where no update was lost nothing points into a freed cache.
THEOREM FreedUnused == Spec => []FreedIsUnused
<1>1. Holding => FreedIsUnused
  BY DEF Holding, Counted, FreedIsUnused
<1> QED BY <1>1, HoldingAlways, PTL

\* activeRequests is the number of requests into the cache, whoever makes or frees
\* them, as long as no update of it was lost and no read was abandoned.
THEOREM CountIsExact == Spec => []CountExact
<1>1. Holding => CountExact
  BY DEF Holding, Counted, CountExact
<1> QED BY <1>1, HoldingAlways, PTL

----------------------------------------------------------------------------
(* Whose picture a row shows *)

\* The types of what the UIDs compare.
LEMMA BaseTypes ==
  ASSUME Base
  PROVE  /\ cur \in Caches /\ Caches \subseteq Nat /\ live \subseteq Reqs /\ NULL \notin live
         /\ nextUID \in [Caches -> 1..(MaxUID + 1)] /\ MaxUID \in Nat
         /\ \A r \in live : /\ request[r].cache \in Caches /\ request[r].slot \in Slots
                            /\ request[r].uid \in Nat /\ request[r].uid # 0
                            /\ request[r].val \in Values
         /\ \A c \in Caches, s \in Slots : content[c][s].UID \in Nat
<1>1. /\ cur \in Caches /\ Caches \subseteq Nat /\ live \subseteq Reqs /\ NULL \notin live
      /\ nextUID \in [Caches -> 1..(MaxUID + 1)] /\ MaxUID \in Nat
  BY BoundsAssumption, NullAssumption
     DEF Base, Control, ControlType, CacheType, Held, Hands, HandType, Caches
<1>2. UIDs \subseteq Nat \ {0} /\ 0..MaxUID \subseteq Nat
  BY <1>1 DEF UIDs
<1>3. \A r \in live : request[r] \in Request
  BY <1>1 DEF Base, RequestType
<1>4. \A r \in live : /\ request[r].cache \in Caches /\ request[r].slot \in Slots
                      /\ request[r].uid \in UIDs /\ request[r].val \in Values
  BY <1>3 DEF Request
<1>5. \A c \in Caches, s \in Slots : content[c][s] \in Entry
  BY DEF Base, CacheType
<1>6. \A c \in Caches, s \in Slots : content[c][s].UID \in 0..MaxUID
  BY <1>5 DEF Entry
<1> QED BY <1>1, <1>2, <1>4, <1>6

\* UIDs stay below the next one.
LEMMA UidsNext ==
  ASSUME Base, Base', CachesAhead, UidsBelow, [Next]_vars
  PROVE  UidsBelow'
<1>a. /\ cur \in Caches /\ Caches \subseteq Nat /\ live \subseteq Reqs
      /\ nextUID \in [Caches -> 1..(MaxUID + 1)] /\ MaxUID \in Nat
      /\ \A r \in live : /\ request[r].cache \in Caches /\ request[r].uid \in Nat
                         /\ request[r].slot \in Slots
      /\ \A c \in Caches, s \in Slots : content[c][s].UID \in Nat
  BY BaseTypes
<1>b. /\ \A r \in live : request[r].uid < nextUID[request[r].cache]
      /\ \A s \in Slots : content[cur][s].UID < nextUID[cur]
  BY DEF UidsBelow
<1> DEFINE Below == /\ \A r \in live' : request'[r].uid < nextUID'[request'[r].cache]
                    /\ \A s \in Slots : content'[cur'][s].UID < nextUID'[cur']
<1> SUFFICES Below
  BY DEF UidsBelow
<1>1. CASE Touches
  <2>1. \A r \in live : SameTarget(r)
    BY <1>a, <1>1, TouchesEffect
  <2>2. /\ live' = live /\ nextUID' = nextUID /\ cur' = cur
        /\ \A s \in Slots : content'[cur][s].UID = content[cur][s].UID
    BY <1>a, <1>1 DEF Touches, Calm, Retouched
  <2> QED BY <1>b, <2>1, <2>2 DEF SameTarget
<1>2. ASSUME NEW v, NEW s, NEW r, Asks(v, s, r) PROVE Below
  <2>1. /\ \A q \in live : SameTarget(q)
        /\ request'[r].cache = cur /\ request'[r].uid = nextUID[cur]
        /\ Claimed(v, r).UID = nextUID[cur]
        /\ \A c2 \in Caches, s2 \in Slots :
             content'[c2][s2] = IF c2 = cur /\ s2 = s THEN Claimed(v, r) ELSE content[c2][s2]
        /\ \A c2 \in Caches : nextUID'[c2] = IF c2 = cur THEN nextUID[cur] + 1 ELSE nextUID[c2]
    BY <1>2, AsksEffect
  <2>2. cur' = cur /\ live' = live \cup {r}
    BY <1>2 DEF Asks
  <2>3. \A q \in live : request'[q].uid < nextUID'[request'[q].cache]
    BY <1>a, <1>b, <2>1 DEF SameTarget
  <2>4. request'[r].uid < nextUID'[request'[r].cache]
    BY <1>a, <2>1
  <2>5. \A s2 \in Slots : content'[cur][s2].UID < nextUID'[cur]
    BY <1>a, <1>b, <2>1
  <2> QED BY <2>2, <2>3, <2>4, <2>5
<1>3. ASSUME NEW w \in live, NEW e, Writes(w, e) PROVE Below
  <2>1. /\ \A r \in live : SameTarget(r)
        /\ \A c2 \in Caches, s2 \in Slots :
             content'[c2][s2] = IF c2 = request[w].cache /\ s2 = request[w].slot THEN e
                                ELSE content[c2][s2]
    BY <1>3, WritesEffect
  <2>2. live' = live /\ nextUID' = nextUID /\ cur' = cur
    BY <1>3 DEF Writes, Calm
  <2>3. e.UID = 0 \/ e.UID = content[request[w].cache][request[w].slot].UID
    BY <1>3 DEF Writes, Empties, Fills, SlotOf
  <2>4. \A s \in Slots : content'[cur][s].UID < nextUID[cur]
    BY <1>a, <1>b, <2>1, <2>3
  <2> QED BY <1>b, <2>1, <2>2, <2>4 DEF SameTarget
<1>4. ASSUME NEW t, Releases(t) PROVE Below
  <2>1. /\ live' \subseteq live /\ \A r \in live' : SameTarget(r)
        /\ UNCHANGED <<cur, content, nextUID>>
    BY <1>4, ReleasesEffect
  <2> QED BY <1>b, <2>1 DEF SameTarget
<1>5. CASE ArtReturnsAbandoned
  <2>1. /\ live' \subseteq live /\ \A r \in live' : SameTarget(r)
        /\ UNCHANGED <<cur, content, nextUID>>
    BY <1>5, AbandonEffect
  <2> QED BY <1>b, <2>1 DEF SameTarget
<1>6. ASSUME NEW t \in Callers, SwapTheme(t) PROVE Below
  <2>1. /\ cur + 1 \in Caches /\ cur' = cur + 1
        /\ UNCHANGED <<content, nextUID, request, live>>
    BY <1>6, SwapEffect
  <2>2. nextUID[cur + 1] = 1 /\ \A s \in Slots : content[cur + 1][s].UID = 0
    BY <1>a, <2>1 DEF CachesAhead, Blank
  <2> QED BY <1>b, <2>1, <2>2
<1>7. ASSUME NEW t \in Callers, Disposes(t) PROVE Below
  <2>1. /\ UNCHANGED <<cur, nextUID, request, live>>
        /\ \A c \in Caches, s \in Slots :
              content'[c][s] = IF c = old[t] /\ activeRequests[c] = 0 THEN Cleared
                               ELSE content[c][s]
    BY <1>7, DisposesEffect
  <2>2. \A s \in Slots : content'[cur][s].UID < nextUID[cur]
    BY <1>a, <1>b, <2>1 DEF Cleared, Zeroed
  <2> QED BY <1>b, <2>1, <2>2
<1> HIDE DEF Below
<1> QED BY <1>1, <1>2, <1>3, <1>4, <1>5, <1>6, <1>7, StepKinds

\* Nobody begins a load that keeps the rows where none is called.
LEMMA RowsResetNext ==
  ASSUME Base, RowsAreReset, [Next]_vars, \A t \in Callers : op[t] \notin KeepsRows
  PROVE  \A t \in Callers : op'[t] \notin KeepsRows
<1> USE DEF callVars
<1>a. op \in [Callers -> Ops]
  BY DEF Base, Control, ControlType
<1>1. CASE GuiNext
  BY <1>1, GuiFrame
<1>2. CASE CallNext
  <2>1. PICK t \in Callers, o \in Ops : Call(t, o)
    BY <1>2 DEF CallNext
  <2>2. o \notin KeepsRows /\ op' = [op EXCEPT ![t] = o]
    BY <2>1 DEF Call, MayCall, RowsAreReset
  <2> QED BY <1>a, <2>2
<1>3. CASE \E t \in Callers : Continue(t)
  <2>1. PICK t \in Callers : Continue(t)
    BY <1>3
  <2>2. op' = op \/ op' = [op EXCEPT ![t] = "cancel"]
    BY <2>1
       DEF Continue, Walk, ClearItem, CountLoad, CountStore, SetAside, PushKept,
           Walked, WaitReturns, CancelNext, SwapTheme, DestroyCache,
           DestroyWaitEnds, RebuildRows, FreeOrLeak, Destroyed, Return
  <2> QED BY <1>a, <2>2 DEF KeepsRows
<1>4. CASE TeardownNext \/ UNCHANGED vars
  BY <1>4 DEF TeardownNext, EndBegins, Joined, vars
<1>5. CASE ArtReads
  BY <1>5 DEF ArtReads, ArtPublishes, ArtReadFails, ArtReturnsAbandoned
<1>6. CASE ArtRest
  BY <1>6
     DEF ArtRest, ArtWakes, artPop, ArtPopsNothing, ArtStarts, ArtZeroes,
         ArtHandsOver, artReleaseRequest, ArtExits, ClearItem, CountLoad, CountStore
<1> QED BY <1>1, <1>2, <1>3, <1>4, <1>5, <1>6 DEF Next

\* The steps of the art worker are its own.
LEMMA ArtUntouched ==
  ASSUME Base, [Next]_vars, ~ArtReads, ~ArtRest
  PROVE  pc'[Art] = pc[Art] /\ artReq' = artReq
<1> USE DEF cacheVars, reqVars, guiVars, artVars, callVars, countVars, lifeVars
<1>1. ASSUME NEW u \in Callers, Moves(u) PROVE pc'[Art] = pc[Art] /\ artReq' = artReq
  <2>1. u # Art /\ Art \in Threads
    BY DEF Callers, Threads, Gui, Io, Art
  <2>2. artReq' = artReq
    BY <1>1, <2>1
       DEF Moves, Call, TeardownNext, EndBegins, Joined, Continue, Walk, ClearItem,
           CountLoad, CountStore, SetAside, PushKept, Walked, WaitReturns,
           CancelNext, SwapTheme, DestroyCache, DestroyWaitEnds, RebuildRows
  <2> QED BY <1>1, <2>1, <2>2, OwnStep
<1>2. CASE GuiNext \/ UNCHANGED vars
  BY <1>2, GuiFrame DEF vars
<1>3. GuiNext \/ UNCHANGED vars \/ \E u \in Callers : Moves(u)
  BY DEF Next, CallNext, Moves, Callers
<1> QED BY <1>1, <1>2, <1>3

\* A caller that drops a request goes on until it has freed it.
LEMMA DroppingStays ==
  ASSUME Base, [Next]_vars, NEW t \in Callers, pc[t] \in Dropping
  PROVE  \/ pc'[t] \in Dropping /\ chain'[t] = chain[t]
         \/ Head(chain[t]) \notin live'
<1>a. t \in Threads /\ t # Art /\ pc \in [Threads -> CallerLabels \cup ArtLabels]
  BY DEF Callers, Threads, Gui, Io, Art, Base, Control, ControlType
<1>1. CASE Moves(t)
  <2>1. CASE (\E o \in Ops : Call(t, o)) \/ (t = Gui /\ TeardownNext)
    BY <2>1 DEF Call, MayCall, TeardownNext, EndBegins, Joined, Dropping
  <2>2. CASE ClearItem(t) \/ CountLoad(t)
    <3>1. /\ chain' = chain
          /\ pc' = [pc EXCEPT ![t] = "count"] \/ pc' = [pc EXCEPT ![t] = "store"]
      BY <1>a, <2>2 DEF ClearItem, CountLoad, callVars, Goto
    <3> QED BY <1>a, <3>1 DEF Dropping
  <2>3. CASE CountStore(t)
    <3>1. live' = live \ {Head(chain[t])}
      BY <1>a, <2>3 DEF CountStore, Working
    <3> QED BY <3>1
  <2>4. CASE Walk(t) \/ SetAside(t) \/ PushKept(t) \/ Walked(t) \/ WaitReturns(t) \/ CancelNext(t)
             \/ SwapTheme(t) \/ DestroyCache(t) \/ DestroyWaitEnds(t) \/ RebuildRows(t)
    BY <2>4
       DEF Walk, SetAside, PushKept, Walked, WaitReturns, CancelNext, SwapTheme,
           DestroyCache, DestroyWaitEnds, RebuildRows, Dropping
  <2> QED BY <1>1, <2>1, <2>2, <2>3, <2>4 DEF Moves, Continue
<1>2. CASE GuiNext \/ UNCHANGED vars
  BY <1>2, GuiFrame DEF vars, callVars
<1>3. CASE ArtReads \/ ArtRest
  BY <1>3, ArtStep
<1>4. ASSUME NEW u \in Callers, Moves(u), u # t PROVE pc'[t] = pc[t] /\ chain'[t] = chain[t]
  BY <1>a, <1>4, OwnStep
<1>5. GuiNext \/ UNCHANGED vars \/ ArtReads \/ ArtRest \/ \E u \in Callers : Moves(u)
  BY DEF Next, CallNext, Moves, Callers
<1> QED BY <1>1, <1>2, <1>3, <1>4, <1>5

\* The art worker goes on letting go of a request until it has freed it.
LEMMA LettingStays ==
  ASSUME Base, [Next]_vars, pc[Art] \in Letting \cup {"zero"}
  PROVE  \/ pc'[Art] \in Letting \cup {"zero"} /\ artReq' = artReq
         \/ artReq \notin live'
<1>a. Art \in Threads /\ pc \in [Threads -> CallerLabels \cup ArtLabels]
  BY DEF Threads, Base, Control, ControlType
<1>1. CASE ArtZeroes \/ ClearItem(Art) \/ artReleaseRequest \/ CountLoad(Art)
  <2>1. /\ artReq' = artReq
        /\ \E label \in Letting : pc' = [pc EXCEPT ![Art] = label]
    BY <1>1
       DEF ArtZeroes, ClearItem, artReleaseRequest, CountLoad, Goto, Letting,
           artVars
  <2> QED BY <1>a, <2>1
<1>2. CASE CountStore(Art)
  BY <1>2 DEF CountStore, Working
<1>3. CASE ArtReads \/ ArtWakes \/ artPop \/ ArtPopsNothing \/ ArtStarts \/ ArtHandsOver \/ ArtExits
  BY <1>3
     DEF ArtReads, ArtPublishes, ArtReadFails, ArtReturnsAbandoned, ArtWakes,
         artPop, ArtPopsNothing, ArtStarts, ArtHandsOver, ArtExits, Letting
<1>4. CASE ~ArtReads /\ ~ArtRest
  BY <1>4, ArtUntouched
<1> QED BY <1>1, <1>2, <1>3, <1>4 DEF ArtRest

\* Where a request is read it was, or the worker has just found it owns its slot.
LEMMA ReadFrame ==
  ASSUME Base, [Next]_vars, pc'[Art] \in {"read", "unqr"}
  PROVE  /\ artReq \in live /\ artReq' = artReq
         /\ \/ pc[Art] \in {"read", "unqr"}
            \/ /\ pc[Art] = "gate" /\ ~Orphaned
               /\ UNCHANGED <<content, request, live, cur>>
               /\ \A t \in Callers : pc'[t] = pc[t] /\ pc[t] \in Waits
<1>a. /\ Art \in Threads /\ pc \in [Threads -> CallerLabels \cup ArtLabels]
      /\ pc[Art] \in Busy => artReq \in live
  BY DEF Threads, Base, Control, ControlType, Held, Places, Hands, HandType
<1>1. CASE ArtStarts
  <2>1. /\ pc[Art] = "gate" /\ artReq' = artReq /\ UNCHANGED <<content, request, live, cur>>
        /\ pc' = [pc EXCEPT ![Art] = IF gCacheLoadsCancelled \/ Orphaned
               THEN "release" ELSE IF Unwanted THEN "zero" ELSE "read"]
        /\ Runs(Art)
    BY <1>1 DEF ArtStarts, Goto, cacheVars, reqVars, artVars
  <2>2. ~Orphaned
    BY <1>a, <2>1
  <2>3. \A t \in Callers : pc'[t] = pc[t] /\ pc[t] \in Waits
    BY <1>1, <2>1, ArtStep DEF ArtRest, Runs, Callers, Gui, Io, Art
  <2> QED BY <1>a, <2>1, <2>2, <2>3 DEF Busy
<1>2. CASE ArtPublishes(TRUE) \/ ArtPublishes(FALSE)
  BY <1>a, <1>2 DEF ArtPublishes, Busy, artVars
<1>3. CASE ArtReadFails \/ ArtReturnsAbandoned \/ ArtWakes \/ artPop \/ ArtPopsNothing \/ ArtZeroes
           \/ ArtHandsOver \/ artReleaseRequest \/ ArtExits \/ ClearItem(Art) \/ CountLoad(Art)
           \/ CountStore(Art)
  <2>1. \E label : label \notin {"read", "unqr"} /\ pc' = [pc EXCEPT ![Art] = label]
    BY <1>3
       DEF ArtReadFails, ArtReturnsAbandoned, ArtWakes, artPop, ArtPopsNothing,
           ArtZeroes, ArtHandsOver, artReleaseRequest, ArtExits, ClearItem,
           CountLoad, CountStore, Goto
  <2> QED BY <1>a, <2>1
<1>4. CASE ~ArtReads /\ ~ArtRest
  BY <1>a, <1>4, ArtUntouched DEF Busy
<1> QED BY <1>1, <1>2, <1>3, <1>4 DEF ArtRest, ArtReads

\* Where a caller clears a slot it did, or it has just found that the request owns it.
LEMMA ClearFrame ==
  ASSUME Base, [Next]_vars, NEW t \in Callers, pc'[t] = "clear"
  PROVE  /\ chain[t] # <<>> /\ chain'[t] = chain[t]
         /\ pc[t] = "clear" \/ SlotOf(Head(chain[t])).qr = Head(chain[t])
<1>a. t \in Threads /\ t # Art /\ pc \in [Threads -> CallerLabels \cup ArtLabels]
  BY DEF Callers, Threads, Gui, Io, Art, Base, Control, ControlType
<1>b. /\ chain[t] # <<>> /\ chain'[t] = chain[t]
      /\ Walk(t) \/ pc[t] \in Dropping
  BY DroppingFrame DEF Dropping
<1>1. CASE Walk(t)
  <2>1. SlotOf(Head(chain[t])).qr # Head(chain[t]) => pc' = [pc EXCEPT ![t] = "count"]
    BY <1>1 DEF Walk, Goto, SlotOf
  <2> QED BY <1>a, <1>b, <2>1
<1>2. CASE pc[t] \in Dropping /\ Moves(t)
  <2>1. CASE ClearItem(t)
    BY <1>b, <2>1 DEF ClearItem
  <2>2. CASE CountLoad(t) \/ CountStore(t)
    <3>1. pc' = [pc EXCEPT ![t] = "store"] \/ pc' = [pc EXCEPT ![t] = "walk"]
      BY <1>a, <2>2 DEF CountLoad, CountStore, Goto
    <3> QED BY <1>a, <3>1
  <2>3. CASE (\E o \in Ops : Call(t, o)) \/ (t = Gui /\ TeardownNext)
    BY <1>2, <2>3 DEF Call, MayCall, TeardownNext, EndBegins, Joined, Dropping
  <2>4. CASE Walk(t) \/ SetAside(t) \/ PushKept(t) \/ Walked(t) \/ WaitReturns(t) \/ CancelNext(t)
             \/ SwapTheme(t) \/ DestroyCache(t) \/ DestroyWaitEnds(t) \/ RebuildRows(t)
    BY <1>2, <2>4
       DEF Walk, SetAside, PushKept, Walked, WaitReturns, CancelNext, SwapTheme,
           DestroyCache, DestroyWaitEnds, RebuildRows, Dropping
  <2> QED BY <1>2, <2>1, <2>2, <2>3, <2>4 DEF Moves, Continue
<1>3. CASE GuiNext \/ UNCHANGED vars
  BY <1>b, <1>3, GuiFrame DEF vars
<1>4. CASE ArtReads \/ ArtRest
  BY <1>b, <1>4, ArtStep
<1>5. ASSUME NEW u \in Callers, Moves(u), u # t PROVE pc'[t] = pc[t]
  BY <1>a, <1>5, OwnStep
<1>6. GuiNext \/ UNCHANGED vars \/ ArtReads \/ ArtRest \/ \E u \in Callers : Moves(u)
  BY DEF Next, CallNext, Moves, Callers
<1> QED BY <1>b, <1>1, <1>2, <1>3, <1>4, <1>5, <1>6

\* A request keeps its slot, its UID and its value; the cache in use changes with the theme.
LEMMA TargetsKept ==
  ASSUME Base, [Next]_vars
  PROVE  /\ \A r \in live : r \in live' => SameTarget(r)
         /\ cur' = cur \/ \E t \in Callers : SwapTheme(t)
<1>a. live \subseteq Reqs
  BY BaseTypes
<1>1. CASE Touches
  BY <1>a, <1>1, TouchesEffect DEF Touches, Calm
<1>2. ASSUME NEW v, NEW s, NEW r, Asks(v, s, r)
      PROVE  cur' = cur /\ \A q \in live : SameTarget(q)
  <2>1. cur' = cur
    BY <1>2 DEF Asks
  <2> QED BY <1>2, <2>1, AsksEffect
<1>3. ASSUME NEW w, NEW e, Writes(w, e)
      PROVE  cur' = cur /\ \A q \in live : SameTarget(q)
  <2>1. cur' = cur
    BY <1>3 DEF Writes, Calm
  <2> QED BY <1>3, <2>1, WritesEffect
<1>4. ASSUME NEW t, Releases(t) PROVE cur' = cur /\ \A q \in live' : SameTarget(q)
  BY <1>4, ReleasesEffect
<1>5. CASE ArtReturnsAbandoned
  BY <1>5, AbandonEffect
<1>6. ASSUME NEW t \in Callers, SwapTheme(t) PROVE \A q \in live : SameTarget(q)
  BY <1>6, SwapEffect
<1>7. ASSUME NEW t, Disposes(t) PROVE cur' = cur /\ \A q \in live : SameTarget(q)
  BY <1>7, DisposesEffect
<1> QED BY <1>1, <1>2, <1>3, <1>4, <1>5, <1>6, <1>7, StepKinds

\* Requests into the cache in use are there under the same theme.
LEMMA SameTheme ==
  ASSUME Base, CachesAhead, [Next]_vars, NEW r \in live, r \in live', request'[r].cache = cur'
  PROVE  cur' = cur /\ SameTarget(r) /\ request[r].cache = cur
<1>1. SameTarget(r) /\ (cur' = cur \/ \E t \in Callers : SwapTheme(t))
  BY TargetsKept
<1>2. ASSUME NEW t \in Callers, SwapTheme(t) PROVE FALSE
  BY <1>1, <1>2, SwapEffect, BaseTypes DEF CachesAhead, SameTarget
<1> QED BY <1>1, <1>2 DEF SameTarget

\* What waits after a step was waiting, unless it is new.
LEMMA WaitingBefore ==
  ASSUME Base, CachesAhead, [Next]_vars, NEW r \in live, r \in Waiting'
  PROVE  r \in Waiting
<1>1. /\ r \in live' /\ request'[r].cache = cur'
      /\ \A t \in Callers : pc'[t] \in Dropping => r # Head(chain'[t])
      /\ r = artReq' => pc'[Art] \in {"gate", "read", "unqr"}
  BY DEF Waiting
<1>2. request[r].cache = cur
  BY <1>1, SameTheme
<1>3. ASSUME NEW t \in Callers, pc[t] \in Dropping PROVE r # Head(chain[t])
  BY <1>1, <1>3, DroppingStays
<1>4. ASSUME r = artReq PROVE pc[Art] \in {"gate", "read", "unqr"}
  <2>1. pc[Art] \in Busy
    BY <1>4, BaseTypes DEF Base, Held, Places
  <2>2. pc[Art] \notin Letting \cup {"zero"}
    BY <1>1, <1>4, LettingStays DEF Letting
  <2> QED BY <2>1, <2>2 DEF Busy, Letting
<1> QED BY <1>2, <1>3, <1>4 DEF Waiting

\* The request that is read waits, and nobody else has it.
LEMMA ReadWaits ==
  ASSUME Base, pc[Art] \in {"read", "unqr"}, request[artReq].cache = cur
  PROVE  /\ artReq \in Waiting
         /\ \A t \in Callers : chain[t] # <<>> => Head(chain[t]) # artReq /\ Head(chain[t]) \in live
<1>1. artReq \in live
  BY DEF Base, Held, Hands, HandType, Places, Busy
<1>2. ASSUME NEW t \in Callers, chain[t] # <<>>
      PROVE  Head(chain[t]) # artReq /\ Head(chain[t]) \in live
  <2>1. chain[t] \in Seq(live)
    BY DEF Base, Held, Hands, HandType
  <2>2. Head(chain[t]) \in Elements(chain[t]) /\ Head(chain[t]) \in live
    BY <1>2, <2>1, ElementsTail
  <2> QED BY <2>2 DEF Base, Held, Hands, OnePlace
<1>3. \A t \in Callers : pc[t] \in Dropping => chain[t] # <<>>
  BY DEF Base, Held, Places
<1> QED BY <1>1, <1>2, <1>3 DEF Waiting

\* A request that waits keeps its slot, or the slot gets another UID.
LEMMA WaitingSlotted ==
  ASSUME Base, CachesAhead, UidsBelow, Slotted, [Next]_vars,
         NEW r \in live, r \in Waiting', SlotAfter(r).UID = request'[r].uid
  PROVE  SlotAfter(r).qr = r /\ SlotAfter(r).owner = request'[r].val
<1>a. /\ r \in Waiting /\ r \in live' /\ cur' = cur /\ request[r].cache = cur
      /\ request'[r].cache = cur /\ request'[r].slot = request[r].slot
      /\ request'[r].uid = request[r].uid /\ request'[r].val = request[r].val
  <2>1. r \in live' /\ request'[r].cache = cur'
    BY DEF Waiting
  <2> QED BY <2>1, WaitingBefore, SameTheme DEF SameTarget
<1> DEFINE s == request[r].slot
<1>b. /\ SlotOf(r) = content[cur][s] /\ SlotAfter(r) = content'[cur][s]
      /\ s \in Slots /\ cur \in Caches /\ request[r].uid # 0 /\ request[r].uid \in Nat
      /\ request[r].uid < nextUID[cur]
  BY <1>a, BaseTypes DEF SlotOf, SlotAfter, UidsBelow
<1>c. content[cur][s].UID = request[r].uid =>
        content[cur][s].qr = r /\ content[cur][s].owner = request[r].val
  BY <1>a, <1>b DEF Slotted
<1>d. content'[cur][s].UID = request[r].uid
  BY <1>a, <1>b
<1> HIDE DEF s
<1> DEFINE Good == content'[cur][s].qr = r /\ content'[cur][s].owner = request[r].val
<1> SUFFICES Good
  BY <1>a, <1>b
<1>1. CASE content'[cur][s] = content[cur][s]
  BY <1>1, <1>c, <1>d
<1>2. CASE Touches
  <2>1. /\ content'[cur][s].qr = content[cur][s].qr /\ content'[cur][s].UID = content[cur][s].UID
        /\ content'[cur][s].owner = content[cur][s].owner
    BY <1>b, <1>2 DEF Touches, Retouched
  <2> QED BY <1>c, <1>d, <2>1
<1>3. ASSUME NEW v, NEW s1, NEW q, Asks(v, s1, q) PROVE Good
  <2>1. /\ Claimed(v, q).UID = nextUID[cur]
        /\ content'[cur][s] = IF s = s1 THEN Claimed(v, q) ELSE content[cur][s]
    BY <1>b, <1>3, AsksEffect
  <2>2. s # s1
    BY <1>b, <1>d, <2>1, BaseTypes
  <2> QED BY <1>1, <2>1, <2>2
<1>4. ASSUME NEW w \in live, NEW e, Writes(w, e) PROVE Good
  <2>1. content'[cur][s] = IF cur = request[w].cache /\ s = request[w].slot THEN e
                           ELSE content[cur][s]
    BY <1>b, <1>4, WritesEffect
  <2> SUFFICES ASSUME cur = request[w].cache, s = request[w].slot PROVE Good
    BY <1>1, <2>1
  <2>2. SlotOf(w) = content[cur][s] /\ content'[cur][s] = e
    BY <2>1 DEF SlotOf
  <2>3. Fills(w, e)
    BY <1>4, <1>b, <1>d, <2>2 DEF Writes, Empties
  <2>4. content[cur][s].qr = r /\ e.owner = request[r].val
    BY <1>c, <1>d, <2>2, <2>3 DEF Fills
  <2>5. e.qr = r
    <3>1. CASE e.qr = SlotOf(w).qr
      BY <2>2, <2>4, <3>1
    <3>2. CASE w = artReq /\ pc[Art] = "unqr" /\ pc'[Art] = "release"
      <4>1. artReq' = artReq
        BY <3>2, LettingFrame DEF Letting
      <4>2. r # w
        BY <3>2, <4>1 DEF Waiting
      <4>3. w \in Waiting /\ request[artReq].cache = cur
        BY <3>2, ReadWaits
      <4>4. SlotOf(w).UID = request[w].uid \/ SlotOf(w).UID = 0
        BY <3>2, <4>3 DEF Slotted
      <4>5. SlotOf(w).UID = request[r].uid
        BY <1>d, <2>2, <2>3 DEF Fills
      <4>6. SlotOf(w).qr = w
        BY <1>b, <4>3, <4>4, <4>5 DEF Slotted
      <4> QED BY <2>2, <2>4, <4>2, <4>6
    <3> QED BY <2>3, <3>1, <3>2 DEF Fills
  <2> QED BY <2>2, <2>4, <2>5
<1>5. ASSUME NEW t, Releases(t) PROVE Good
  BY <1>1, <1>5, ReleasesEffect
<1>6. CASE ArtReturnsAbandoned
  BY <1>1, <1>6, AbandonEffect
<1>7. ASSUME NEW t \in Callers, SwapTheme(t) PROVE Good
  BY <1>1, <1>7, SwapEffect
<1>8. ASSUME NEW t \in Callers, Disposes(t) PROVE Good
  <2>1. content'[cur][s] = Cleared \/ content'[cur][s] = content[cur][s]
    BY <1>b, <1>8, DisposesEffect
  <2>2. Cleared.UID = 0
    BY DEF Cleared, Zeroed
  <2> QED BY <1>1, <1>b, <1>d, <2>1, <2>2
<1> HIDE DEF Good
<1> QED BY <1>2, <1>3, <1>4, <1>5, <1>6, <1>7, <1>8, StepKinds

\* After the end of a teardown the worker publishes nothing any more.
LEMMA LateNext ==
  ASSUME Base, Base', NoLatePicture, [Next]_vars
  PROVE  NoLatePicture'
<1> USE DEF cacheVars, reqVars, guiVars, artVars, callVars, countVars, lifeVars
<1>a. /\ pc \in [Threads -> CallerLabels \cup ArtLabels] /\ op \in [Callers -> Ops]
      /\ Callers \subseteq Threads /\ Art \in Threads /\ Art \notin Callers /\ Gui \in Callers
  BY DEF Base, Control, ControlType, Callers, Threads, Gui, Io, Art
<1>b. gArtShutdownAbandoned => gArtShutdownAbandoned'
  BY Latched DEF Base
<1>c. pc[Art] = "dead" => pc'[Art] = "dead"
  <2>1. CASE ArtReads \/ ArtRest
    BY <2>1
       DEF ArtReads, ArtRest, ArtPublishes, ArtReadFails, ArtReturnsAbandoned,
           ArtWakes, artPop, ArtPopsNothing, ArtStarts, ArtZeroes, ArtHandsOver,
           artReleaseRequest, ArtExits, ClearItem, CountLoad, CountStore
  <2> QED BY <2>1, ArtUntouched
<1> SUFFICES ASSUME NEW t \in Callers, op'[t] = "exit", pc'[t] \in Late
             PROVE  t = Gui /\ (gArtShutdownAbandoned' \/ pc'[Art] = "dead")
  BY DEF NoLatePicture
<1>1. CASE op[t] = "exit" /\ pc[t] \in Late
  BY <1>1, <1>b, <1>c DEF NoLatePicture
<1>2. CASE t = Gui /\ Joined
  <2>1. gArtShutdownAbandoned' = gArtRunning /\ (gArtRunning <=> pc[Art] # "dead")
    BY <1>2 DEF Joined, Base, Held, Places
  <2> QED BY <1>2, <1>c, <2>1
<1>3. CASE \E o \in Ops : Call(t, o)
  <2>1. pc' = [pc EXCEPT ![t] = "walk"]
    BY <1>3 DEF Call, Detach, Goto
  <2> QED BY <1>a, <2>1 DEF Late
<1>4. CASE t = Gui /\ EndBegins
  <2>1. pc' = [pc EXCEPT ![t] = "walk"]
    BY <1>4 DEF EndBegins, Detach, Goto
  <2> QED BY <1>a, <2>1 DEF Late
<1>5. CASE Continue(t)
  <2>1. CASE Walk(t) \/ ClearItem(t) \/ CountLoad(t) \/ CountStore(t) \/ SetAside(t) \/ PushKept(t)
             \/ Walked(t) \/ CancelNext(t)
    <3>1. \/ pc' = pc /\ pc[t] = "walk"
          \/ \E label : label \notin Late /\ pc' = [pc EXCEPT ![t] = label]
      BY <1>a, <2>1 DEF Walk, ClearItem, CountLoad, CountStore, SetAside, PushKept,
         Walked, CancelNext, Detach, Goto, Late
    <3> QED BY <1>a, <3>1 DEF Late
  <2>2. CASE WaitReturns(t) \/ RebuildRows(t)
    <3>1. \E label : label \notin Late /\ pc' = [pc EXCEPT ![t] = label]
      BY <2>2 DEF WaitReturns, RebuildRows, Return, Goto, Late
    <3> QED BY <1>a, <3>1
  <2>3. CASE SwapTheme(t)
    <3>1. op' = op /\ op[t] \in ThemeOps
      BY <2>3, SwapEffect DEF SwapTheme
    <3> QED BY <3>1 DEF ThemeOps
  <2>4. CASE DestroyCache(t) \/ DestroyWaitEnds(t)
    <3>1. pc[t] \in Late /\ (op' = op \/ op' = [op EXCEPT ![t] = "cancel"])
      BY <2>4 DEF DestroyCache, DestroyWaitEnds, FreeOrLeak, Destroyed, Return, Late
    <3>2. op[t] = "exit"
      BY <1>a, <3>1
    <3> QED BY <1>1, <3>1, <3>2
  <2> QED BY <1>5, <2>1, <2>2, <2>3, <2>4 DEF Continue
<1>6. CASE GuiNext \/ UNCHANGED vars
  BY <1>1, <1>6, GuiFrame DEF vars
<1>7. CASE ArtReads \/ ArtRest
  BY <1>1, <1>7, ArtStep
<1>8. ASSUME NEW u \in Callers, Moves(u), u # t PROVE pc'[t] = pc[t] /\ op'[t] = op[t]
  BY <1>a, <1>8, OwnStep
<1>9. GuiNext \/ UNCHANGED vars \/ ArtReads \/ ArtRest \/ \E u \in Callers : Moves(u)
  BY DEF Next, CallNext, Moves, Callers
<1> QED BY <1>1, <1>2, <1>3, <1>4, <1>5, <1>6, <1>7, <1>8, <1>9 DEF Moves, TeardownNext

\* Pictures are published only into slots that were claimed for them.
LEMMA PicturesNext ==
  ASSUME Base, Base', CachesAhead, Slotted, [Next]_vars, NEW s \in Slots,
         content'[cur'][s].img # NULL
  PROVE  content'[cur'][s].UID # 0 /\ content'[cur'][s].img = content'[cur'][s].owner
<1>a. cur \in Caches
  BY BaseTypes
<1>b. content[cur][s].img # NULL =>
        content[cur][s].UID # 0 /\ content[cur][s].img = content[cur][s].owner
  BY DEF Slotted
<1> DEFINE Good == content'[cur'][s].UID # 0 /\ content'[cur'][s].img = content'[cur'][s].owner
<1> SUFFICES Good
  OBVIOUS
<1>1. CASE cur' = cur /\ content'[cur][s] = content[cur][s]
  BY <1>b, <1>1
<1>2. CASE Touches
  <2>1. /\ cur' = cur /\ content'[cur][s].img = content[cur][s].img
        /\ content'[cur][s].UID = content[cur][s].UID
        /\ content'[cur][s].owner = content[cur][s].owner
    BY <1>a, <1>2 DEF Touches, Calm, Retouched
  <2> QED BY <1>b, <2>1
<1>3. ASSUME NEW v, NEW s1, NEW q, Asks(v, s1, q) PROVE Good
  <2>1. /\ Claimed(v, q).img = NULL
        /\ content'[cur][s] = IF s = s1 THEN Claimed(v, q) ELSE content[cur][s]
    BY <1>a, <1>3, AsksEffect
  <2>2. cur' = cur
    BY <1>3 DEF Asks
  <2> QED BY <1>1, <2>1, <2>2
<1>4. ASSUME NEW w \in live, NEW e, Writes(w, e) PROVE Good
  <2>1. content'[cur][s] = IF cur = request[w].cache /\ s = request[w].slot THEN e
                           ELSE content[cur][s]
    BY <1>a, <1>4, WritesEffect
  <2>0. cur' = cur
    BY <1>4 DEF Writes, Calm
  <2> SUFFICES ASSUME cur = request[w].cache, s = request[w].slot PROVE Good
    BY <1>1, <2>0, <2>1
  <2>2. SlotOf(w) = content[cur][s] /\ content'[cur][s] = e /\ e.img # NULL
    BY <2>0, <2>1 DEF SlotOf
  <2>3. Fills(w, e)
    BY <1>4, <2>2 DEF Writes, Empties
  <2>4. e.UID = content[cur][s].UID /\ e.owner = content[cur][s].owner
    BY <2>2, <2>3 DEF Fills
  <2>5. CASE e.img = SlotOf(w).img
    BY <1>b, <2>0, <2>2, <2>4, <2>5
  <2>6. CASE e.img = request[w].val /\ w = artReq /\ pc[Art] = "read" /\ ~gArtShutdownAbandoned
    <3>1. w \in Waiting
      BY <2>6, ReadWaits
    <3>2. SlotOf(w).UID = request[w].uid
      BY <2>6 DEF Slotted
    <3>3. SlotOf(w).owner = request[w].val /\ request[w].uid # 0
      BY <3>1, <3>2, BaseTypes DEF Slotted
    <3> QED BY <2>0, <2>2, <2>4, <2>6, <3>2, <3>3
  <2> QED BY <2>3, <2>5, <2>6 DEF Fills
<1>5. ASSUME NEW t, Releases(t) PROVE Good
  BY <1>1, <1>5, ReleasesEffect
<1>6. CASE ArtReturnsAbandoned
  BY <1>1, <1>6, AbandonEffect
<1>7. ASSUME NEW t \in Callers, SwapTheme(t) PROVE Good
  <2>1. cur' = cur + 1 /\ cur + 1 \in Caches /\ content' = content
    BY <1>7, SwapEffect
  <2>2. content[cur + 1][s].img = NULL
    BY <2>1, BaseTypes DEF CachesAhead, Blank
  <2> QED BY <2>1, <2>2
<1>8. ASSUME NEW t \in Callers, Disposes(t) PROVE Good
  <2>1. cur' = cur /\ (content'[cur][s] = Cleared \/ content'[cur][s] = content[cur][s])
    BY <1>a, <1>8, DisposesEffect
  <2>2. Cleared.img = NULL
    BY DEF Cleared, Zeroed
  <2> QED BY <1>1, <2>1, <2>2
<1> HIDE DEF Good
<1> QED BY <1>2, <1>3, <1>4, <1>5, <1>6, <1>7, <1>8, StepKinds

\* The request that is read keeps its slot, and no caller clears that slot.
LEMMA ReadSlotted ==
  ASSUME Base, Base', CachesAhead, Slotted, NoLatePicture, [Next]_vars,
         pc'[Art] \in {"read", "unqr"}, request'[artReq'].cache = cur'
  PROVE  /\ \/ SlotAfter(artReq').UID = request'[artReq'].uid
            \/ gArtShutdownAbandoned' /\ SlotAfter(artReq').UID = 0
         /\ \A t \in Callers : pc'[t] = "clear" /\ ~gArtShutdownAbandoned' =>
              \/ request'[Head(chain'[t])].cache # cur'
              \/ request'[Head(chain'[t])].slot # request'[artReq'].slot
<1>1. PICK r : r = artReq
  OBVIOUS
<1>2. /\ r \in live /\ r = artReq' /\ r \in live'
      /\ \/ pc[Art] \in {"read", "unqr"}
         \/ /\ pc[Art] = "gate" /\ ~Orphaned /\ UNCHANGED <<content, request, live, cur>>
            /\ \A t \in Callers : pc'[t] = pc[t] /\ pc[t] \in Waits
  <2>1. pc'[Art] \in Busy => artReq' \in live'
    BY DEF Base, Held, Hands, HandType, Places
  <2> QED BY <1>1, <2>1, ReadFrame DEF Busy
<1>3. /\ cur' = cur /\ request[r].cache = cur /\ request'[r].cache = cur
      /\ request'[r].slot = request[r].slot /\ request'[r].uid = request[r].uid
  BY <1>2, SameTheme DEF SameTarget
<1> DEFINE s == request[r].slot
<1>4. /\ SlotOf(r) = content[cur][s] /\ SlotAfter(r) = content'[cur][s]
      /\ s \in Slots /\ cur \in Caches /\ request[r].uid # 0 /\ r # NULL
  BY <1>2, <1>3, BaseTypes DEF SlotOf, SlotAfter
<1>5. gArtShutdownAbandoned => gArtShutdownAbandoned'
  BY Latched DEF Base
<1> DEFINE Good == /\ \/ content'[cur][s].UID = request[r].uid
                      \/ gArtShutdownAbandoned' /\ content'[cur][s].UID = 0
                   /\ \A t \in Callers : pc'[t] = "clear" /\ ~gArtShutdownAbandoned' =>
                        \/ request'[Head(chain'[t])].cache # cur
                        \/ request'[Head(chain'[t])].slot # s
<1> HIDE DEF s
<1> SUFFICES Good
  BY <1>2, <1>3, <1>4 DEF s
<1>6. CASE pc[Art] = "gate"
  <2>1. content'[cur][s].UID = request[r].uid
    BY <1>1, <1>2, <1>4, <1>6 DEF Orphaned, ArtEntry, SlotOf
  <2>2. \A t \in Callers : pc'[t] # "clear"
    BY <1>2, <1>6 DEF Waits
  <2> QED BY <2>1, <2>2
<1>7. CASE pc[Art] \in {"read", "unqr"}
  <2>1. /\ \/ content[cur][s].UID = request[r].uid
           \/ gArtShutdownAbandoned /\ content[cur][s].UID = 0
        /\ \A t \in Callers : pc[t] = "clear" /\ ~gArtShutdownAbandoned =>
             \/ request[Head(chain[t])].cache # cur
             \/ request[Head(chain[t])].slot # s
    BY <1>1, <1>3, <1>4, <1>7 DEF Slotted, s
  <2>2. /\ r \in Waiting
        /\ \A t \in Callers : chain[t] # <<>> => Head(chain[t]) # r /\ Head(chain[t]) \in live
    BY <1>1, <1>3, <1>7, ReadWaits
  <2>3. content[cur][s].UID = request[r].uid => content[cur][s].qr = r
    BY <1>4, <2>2 DEF Slotted
  <2>4. ASSUME NEW t \in Callers, pc'[t] = "clear", ~gArtShutdownAbandoned'
        PROVE  \/ request'[Head(chain'[t])].cache # cur
               \/ request'[Head(chain'[t])].slot # s
    <3>1. PICK h : h = Head(chain[t])
      OBVIOUS
    <3>2. /\ chain[t] # <<>> /\ chain'[t] = chain[t]
          /\ pc[t] = "clear" \/ SlotOf(h).qr = h
      BY <2>4, <3>1, ClearFrame
    <3>3. h # r /\ h \in live
      BY <2>2, <3>1, <3>2
    <3>4. h \in live'
      <4>1. chain'[t] \in Seq(live')
        BY DEF Base, Held, Hands, HandType
      <4> QED BY <3>1, <3>2, <4>1, ElementsTail
    <3>5. request'[h].cache = request[h].cache /\ request'[h].slot = request[h].slot
      BY <3>3, <3>4, TargetsKept DEF SameTarget
    <3>6. CASE pc[t] = "clear"
      BY <1>5, <2>1, <2>4, <3>1, <3>2, <3>5, <3>6
    <3>7. CASE SlotOf(h).qr = h
      <4>1. content[cur][s].qr = r
        BY <1>5, <2>1, <2>3, <2>4
      <4>2. request[h].cache # cur \/ request[h].slot # s
        BY <3>3, <3>7, <4>1 DEF SlotOf
      <4> QED BY <3>1, <3>2, <3>5, <4>2
    <3> QED BY <3>2, <3>6, <3>7
  <2> DEFINE Owned == \/ content'[cur][s].UID = request[r].uid
                      \/ gArtShutdownAbandoned' /\ content'[cur][s].UID = 0
  <2> SUFFICES Owned
    BY <2>4
  <2>5. CASE content'[cur][s].UID = content[cur][s].UID
    BY <1>5, <2>1, <2>5
  <2>6. CASE Touches
    BY <1>4, <2>5, <2>6 DEF Touches, Retouched
  <2>7. ASSUME NEW v, NEW s1, NEW q, Asks(v, s1, q) PROVE Owned
    <3>1. /\ content'[cur][s] = IF s = s1 THEN Claimed(v, q) ELSE content[cur][s]
      BY <1>4, <2>7, AsksEffect
    <3>2. ~gCacheLoadsCancelled /\ content[cur][s1].qr = NULL
      BY <2>7 DEF Asks, Draws
    <3>3. ~gArtShutdownAbandoned
      BY <3>2 DEF Base, Control, Operations, Performing, Callers
    <3>4. s # s1
      BY <1>4, <2>1, <2>3, <3>2, <3>3
    <3> QED BY <2>5, <3>1, <3>4
  <2>8. ASSUME NEW w \in live, NEW e, Writes(w, e) PROVE Owned
    <3>1. content'[cur][s] = IF cur = request[w].cache /\ s = request[w].slot THEN e
                             ELSE content[cur][s]
      BY <1>4, <2>8, WritesEffect
    <3> SUFFICES ASSUME cur = request[w].cache, s = request[w].slot PROVE Owned
      BY <2>5, <3>1
    <3>2. SlotOf(w) = content[cur][s] /\ content'[cur][s] = e
      BY <3>1 DEF SlotOf
    <3>3. CASE Fills(w, e)
      BY <2>5, <3>2, <3>3 DEF Fills
    <3>4. CASE Empties(w, e)
      <4>1. e.UID = 0
        BY <3>4 DEF Empties
      <4>2. CASE gArtShutdownAbandoned
        BY <1>5, <3>2, <4>1, <4>2
      <4>3. CASE ~gArtShutdownAbandoned
        <5>1. content[cur][s].qr = r
          BY <2>1, <2>3, <4>3
        <5>2. PICK t \in Callers : /\ chain[t] # <<>> /\ w = Head(chain[t])
                                   /\ pc[t] = "clear" \/ (pc[t] = "walk" /\ SlotOf(w).qr = w)
          BY <1>7, <3>4 DEF Empties
        <5> QED BY <2>1, <2>2, <3>2, <4>3, <5>1, <5>2
      <4> QED BY <4>2, <4>3
    <3> QED BY <2>8, <3>3, <3>4 DEF Writes
  <2>9. ASSUME NEW t, Releases(t) PROVE Owned
    BY <2>5, <2>9, ReleasesEffect
  <2>10. CASE ArtReturnsAbandoned
    BY <2>5, <2>10, AbandonEffect
  <2>11. ASSUME NEW t \in Callers, SwapTheme(t) PROVE Owned
    BY <2>5, <2>11, SwapEffect
  <2>12. ASSUME NEW t \in Callers, Disposes(t) PROVE Owned
    <3>1. content'[cur][s] = IF cur = old[t] /\ activeRequests[cur] = 0 THEN Cleared
                             ELSE content[cur][s]
      BY <1>4, <2>12, DisposesEffect
    <3> SUFFICES ASSUME cur = old[t], content'[cur][s] = Cleared PROVE Owned
      BY <2>5, <3>1
    <3>2. pc[t] \in {"destroy", "destroy_wait"}
      BY <2>12 DEF Disposes
    <3>3. op[t] = "exit"
      BY <3>2, BaseTypes DEF Base, Control, Operations, Performing
    <3>4. gArtShutdownAbandoned
      BY <1>7, <3>2, <3>3 DEF NoLatePicture, Late
    <3>5. Cleared.UID = 0
      BY DEF Cleared, Zeroed
    <3> QED BY <1>5, <3>4, <3>5
  <2> HIDE DEF Owned
  <2> QED BY <2>6, <2>7, <2>8, <2>9, <2>10, <2>11, <2>12, StepKinds
<1> QED BY <1>2, <1>6, <1>7

\* A slot that has a UID after a step had it before, for the same value, unless the UID is new.
LEMMA OwnersKept ==
  ASSUME Base, [Next]_vars, cur' = cur
  PROVE  /\ nextUID'[cur] >= nextUID[cur] /\ (~Draws => nextUID' = nextUID)
         /\ \A s \in Slots :
              content'[cur][s].UID # 0 /\ content'[cur][s].UID < nextUID[cur] =>
                /\ content'[cur][s].UID = content[cur][s].UID
                /\ content'[cur][s].owner = content[cur][s].owner
<1>a. cur \in Caches /\ nextUID[cur] \in Nat
  BY BaseTypes
<1> DEFINE Kept(s) == \/ content'[cur][s].UID = 0
                      \/ content'[cur][s].UID = nextUID[cur]
                      \/ /\ content'[cur][s].UID = content[cur][s].UID
                         /\ content'[cur][s].owner = content[cur][s].owner
           Good == /\ nextUID'[cur] >= nextUID[cur] /\ (~Draws => nextUID' = nextUID)
                   /\ \A s \in Slots : Kept(s)
<1> SUFFICES Good
  BY <1>a
<1>1. CASE Touches
  BY <1>a, <1>1 DEF Touches, Calm, Retouched
<1>2. ASSUME NEW v, NEW s1, NEW q, Asks(v, s1, q) PROVE Good
  <2>1. /\ Claimed(v, q).UID = nextUID[cur] /\ nextUID'[cur] = nextUID[cur] + 1
        /\ \A s \in Slots : content'[cur][s] = IF s = s1 THEN Claimed(v, q) ELSE content[cur][s]
    BY <1>a, <1>2, AsksEffect
  <2>2. Draws
    BY <1>2 DEF Asks
  <2> QED BY <1>a, <2>1, <2>2
<1>3. ASSUME NEW w \in live, NEW e, Writes(w, e) PROVE Good
  <2>1. \A s \in Slots : content'[cur][s] = IF cur = request[w].cache /\ s = request[w].slot THEN e
                                           ELSE content[cur][s]
    BY <1>a, <1>3, WritesEffect
  <2>2. /\ nextUID' = nextUID
        /\ e.UID = 0 \/ (e.UID = SlotOf(w).UID /\ e.owner = SlotOf(w).owner)
    BY <1>3 DEF Writes, Calm, Empties, Fills
  <2>3. ASSUME NEW s \in Slots PROVE Kept(s)
    <3>1. CASE cur = request[w].cache /\ s = request[w].slot
      BY <2>1, <2>2, <3>1 DEF SlotOf
    <3> QED BY <2>1, <3>1
  <2> QED BY <1>a, <2>2, <2>3
<1>4. ASSUME NEW t, Releases(t) PROVE Good
  <2>1. content' = content /\ nextUID' = nextUID
    BY <1>4, ReleasesEffect
  <2> QED BY <1>a, <2>1
<1>5. CASE ArtReturnsAbandoned
  <2>1. content' = content /\ nextUID' = nextUID
    BY <1>5, AbandonEffect
  <2> QED BY <1>a, <2>1
<1>6. ASSUME NEW t \in Callers, SwapTheme(t) PROVE Good
  <2>1. content' = content /\ nextUID' = nextUID
    BY <1>6, SwapEffect
  <2> QED BY <1>a, <2>1
<1>7. ASSUME NEW t \in Callers, Disposes(t) PROVE Good
  <2>1. /\ nextUID' = nextUID
        /\ \A s \in Slots : content'[cur][s] = Cleared \/ content'[cur][s] = content[cur][s]
    BY <1>a, <1>7, DisposesEffect
  <2>2. Cleared.UID = 0
    BY DEF Cleared, Zeroed
  <2> QED BY <1>a, <2>1, <2>2
<1> HIDE DEF Good
<1> QED BY <1>1, <1>2, <1>3, <1>4, <1>5, <1>6, <1>7, StepKinds

\* A caller is between the switch of the theme and the rebuild of the rows.
Between(t) == op[t] \in ThemeOps /\ pc[t] \in Switched

\* It comes there with the switch and leaves with the rebuild.
LEMMA SwitchFrame ==
  ASSUME Base, [Next]_vars, NEW t \in Callers, op[t] \notin KeepsRows
  PROVE  SwapTheme(t) \/ RebuildRows(t) \/ Between(t)' = Between(t)
<1> USE DEF cacheVars, reqVars, guiVars, artVars, callVars, countVars, lifeVars
<1>a. /\ pc \in [Threads -> CallerLabels \cup ArtLabels] /\ op \in [Callers -> Ops]
      /\ t \in Threads /\ t # Art
  BY DEF Base, Control, ControlType, Callers, Threads, Gui, Io, Art
<1> SUFFICES ASSUME ~SwapTheme(t), ~RebuildRows(t) PROVE Between(t)' = Between(t)
  OBVIOUS
<1>1. CASE pc'[t] = pc[t] /\ op'[t] = op[t]
  BY <1>1 DEF Between
<1>2. CASE \E o \in Ops : Call(t, o)
  <2>1. pc[t] = "idle" /\ pc' = [pc EXCEPT ![t] = "walk"]
    BY <1>2 DEF Call, MayCall, Detach, Goto
  <2> QED BY <1>a, <2>1 DEF Between, Switched
<1>3. CASE t = Gui /\ TeardownNext
  <2>1. op' = op /\ pc[t] \in {"drain", "join"}
    BY <1>3 DEF TeardownNext, EndBegins, Joined
  <2>2. op[t] = "exit"
    BY <2>1 DEF Base, Control, Operations, Performing
  <2> QED BY <2>1, <2>2 DEF Between, ThemeOps
<1>4. CASE Continue(t)
  <2>1. CASE Walk(t) \/ ClearItem(t) \/ CountLoad(t) \/ CountStore(t) \/ SetAside(t) \/ PushKept(t)
             \/ Walked(t) \/ CancelNext(t) \/ WaitReturns(t)
    <3>1. /\ pc[t] \notin Switched
          /\ \/ pc' = pc
             \/ \E label : label \notin Switched /\ pc' = [pc EXCEPT ![t] = label]
      BY <1>a, <2>1 DEF Walk, ClearItem, CountLoad, CountStore, SetAside, PushKept,
         Walked, CancelNext, WaitReturns, Return, Detach, Goto, Switched
    <3> QED BY <1>a, <3>1 DEF Between
  <2>2. CASE DestroyCache(t) \/ DestroyWaitEnds(t)
    <3>1. /\ pc[t] \in Switched /\ op' = op
          /\ \/ pc' = [pc EXCEPT ![t] = "destroy_wait"]
             \/ pc' = [pc EXCEPT ![t] = IF op[t] = "exit" THEN "ended" ELSE "rebuild"]
      BY <2>2
         DEF DestroyCache, DestroyWaitEnds, FreeOrLeak, Destroyed, Goto, Switched
    <3>2. pc'[t] \in Switched \/ op[t] = "exit"
      BY <1>a, <3>1 DEF Switched
    <3> QED BY <3>1, <3>2 DEF Between, ThemeOps
  <2> QED BY <1>4, <2>1, <2>2 DEF Continue
<1>5. CASE GuiNext \/ UNCHANGED vars
  BY <1>1, <1>5, GuiFrame DEF vars
<1>6. CASE ArtReads \/ ArtRest
  BY <1>1, <1>6, ArtStep
<1>7. ASSUME NEW u \in Callers, Moves(u), u # t PROVE pc'[t] = pc[t] /\ op'[t] = op[t]
  BY <1>a, <1>7, OwnStep
<1>8. GuiNext \/ UNCHANGED vars \/ ArtReads \/ ArtRest \/ \E u \in Callers : Moves(u)
  BY DEF Next, CallNext, Moves, Callers
<1> QED BY <1>1, <1>2, <1>3, <1>4, <1>5, <1>6, <1>7, <1>8 DEF Moves

\* The ids a frame gives to a row are its old ones, those of a slot that was claimed for its
\* value, or those of its new claim.
LEMMA DrawnRows ==
  ASSUME Base, ClaimsUntilTeardown, Slotted, GuiNext, NEW v \in Values, rows'[v].id \in Slots
  PROVE  \/ rows'[v].id = rows[v].id /\ rows'[v].uid = rows[v].uid
         \/ /\ rows'[v].uid = content[cur][rows'[v].id].UID /\ rows'[v].uid # 0
            /\ content[cur][rows'[v].id].owner = v
         \/ /\ rows'[v].uid = nextUID[cur] /\ nextUID'[cur] = nextUID[cur] + 1
            /\ content'[cur][rows'[v].id].owner = v
<1> USE DEF cacheVars, reqVars, guiVars, artVars, callVars, countVars
<1>a. /\ rows \in [Values -> Row] /\ cur \in Caches
      /\ content \in [Caches -> [Slots -> Entry]] /\ nextUID \in [Caches -> 1..(MaxUID + 1)]
  BY DEF Base, CacheType, Control, ControlType
<1>b. Unasked \notin Slots /\ Parked \notin Slots
  BY DEF Unasked, Parked, Slots
<1>c. Claims
  BY GuiFrame DEF ClaimsUntilTeardown, Draws
<1> DEFINE Good == \/ rows'[v].id = rows[v].id /\ rows'[v].uid = rows[v].uid
                   \/ /\ rows'[v].uid = content[cur][rows'[v].id].UID /\ rows'[v].uid # 0
                      /\ content[cur][rows'[v].id].owner = v
                   \/ /\ rows'[v].uid = nextUID[cur] /\ nextUID'[cur] = nextUID[cur] + 1
                      /\ content'[cur][rows'[v].id].owner = v
<1>1. ASSUME NEW v2 \in Values, NEW prio, NEW settled, cacheGetTextureEx(v2, prio, settled)
      PROVE  Good
  <2>1. ASSUME NEW row, rows' = [rows EXCEPT ![v2] = row]
        PROVE  rows'[v2] = row /\ (v # v2 => rows'[v] = rows[v])
    BY <1>a, <2>1
  <2>2. CASE DrawParked(v2, prio)
    BY <2>2 DEF DrawParked
  <2>3. CASE DrawLoading(v2, prio) \/ DrawReady(v2, prio)
    <3>1. PICK s \in Found(v2) :
            /\ rows' = [rows EXCEPT ![v2] = [id |-> s, uid |-> Entries[s].UID, ok |-> FALSE]]
            /\ Entries[s].qr # NULL \/ s \in ByUid(v2) \/ Entries[s].img # NULL
      BY <2>3 DEF DrawLoading, DrawReady, Loading, Ready
    <3>2. rows'[v2].id = s /\ rows'[v2].uid = content[cur][s].UID
      BY <2>1, <3>1 DEF Entries
    <3>3. CASE v # v2
      BY <2>1, <3>1, <3>3
    <3>4. CASE v = v2 /\ s \in ByUid(v2)
      BY <3>2, <3>4 DEF ByUid, Entries
    <3>5. CASE v = v2 /\ s \notin ByUid(v2)
      <4>1. s \in Slots /\ content[cur][s].owner = v
        BY <3>1, <3>5 DEF Found, ByKey, ByUid, Entries
      <4>2. content[cur][s].qr # NULL \/ content[cur][s].img # NULL
        BY <3>1, <3>5 DEF Entries
      <4>3. content[cur][s].UID # 0
        <5>1. CASE content[cur][s].img # NULL
          BY <4>1, <5>1 DEF Slotted
        <5>2. CASE content[cur][s].qr # NULL
          BY <1>a, <1>c, <4>1, <5>2, BaseTypes DEF Claims
        <5> QED BY <4>2, <5>1, <5>2
      <4> QED BY <3>2, <3>5, <4>1, <4>3
    <3> QED BY <3>3, <3>4, <3>5
  <2>4. CASE DrawAbsent(v2, prio)
    BY <1>b, <2>1, <2>4 DEF DrawAbsent
  <2>5. CASE DrawNothing(v2, prio, settled)
    <3>1. rows' = [rows EXCEPT ![v2].id = Unasked]
      BY <2>5 DEF DrawNothing
    <3>2. rows'[v2].id = Unasked /\ (v # v2 => rows'[v] = rows[v])
      BY <1>a, <3>1 DEF Row
    <3> QED BY <1>b, <3>2
  <2>6. CASE DrawClaim(v2, prio, settled)
    <3>1. PICK s \in Slots, r \in Reqs \ live :
            /\ rows' = [rows EXCEPT ![v2] = [id |-> s, uid |-> nextUID[cur], ok |-> FALSE]]
            /\ content' = [content EXCEPT ![cur][s] = Claimed(v2, r)]
            /\ nextUID' = [nextUID EXCEPT ![cur] = @ + 1]
      BY <2>6 DEF DrawClaim, Oldest, Claimable
    <3>2. rows'[v2].id = s /\ rows'[v2].uid = nextUID[cur] /\ (v # v2 => rows'[v] = rows[v])
      BY <2>1, <3>1
    <3>3. content'[cur][s] = Claimed(v2, r) /\ nextUID'[cur] = nextUID[cur] + 1
      BY <1>a, <3>1
    <3>4. Claimed(v2, r).owner = v2
      BY DEF Claimed, Cleared, Zeroed
    <3> QED BY <3>2, <3>3, <3>4
  <2> QED BY <1>1, <2>2, <2>3, <2>4, <2>5, <2>6 DEF cacheGetTextureEx
<1>2. CASE \E v2 \in Values : cacheLookupTexture(v2)
  BY <1>2 DEF cacheLookupTexture
<1>3. CASE \E nav \in Maybe("nav") : cacheTickArt(nav)
  BY <1>3 DEF cacheTickArt
<1>4. CASE cacheDropQueuedArt \/ RebuildList
  BY <1>b, <1>4 DEF cacheDropQueuedArt, RebuildList, NewRow
<1>5. CASE cacheInvalidateFailMemo
  <2>1. rows'[v] = [rows[v] EXCEPT !.ok = FALSE] /\ rows[v] \in Row
    BY <1>a, <1>5 DEF cacheInvalidateFailMemo
  <2>2. rows'[v].id = rows[v].id /\ rows'[v].uid = rows[v].uid
    BY <2>1 DEF Row
  <2> QED BY <2>2
<1> QED BY <1>1, <1>2, <1>3, <1>4, <1>5 DEF GuiNext

\* The uid of a row is a number.
LEMMA BaseRow ==
  ASSUME Base, Base', NEW v \in Values
  PROVE  rows[v].uid \in Nat /\ rows'[v].uid \in Nat
<1>1. rows[v] \in Row /\ rows'[v] \in Row /\ MaxUID \in Nat
  BY BoundsAssumption DEF Base, CacheType
<1> QED BY <1>1 DEF Row

\* Only a claim makes a request.
LEMMA BornAsks ==
  ASSUME Base, [Next]_vars, NEW r, r \notin live, r \in live'
  PROVE  \E v, s : Asks(v, s, r)
<1>1. CASE Touches \/ \E w \in live : \E e : Writes(w, e)
  BY <1>1 DEF Touches, Writes
<1>2. ASSUME NEW v, NEW s, NEW q, Asks(v, s, q) PROVE q = r
  BY <1>2 DEF Asks
<1>3. ASSUME NEW t, Releases(t) PROVE FALSE
  BY <1>3, ReleasesEffect
<1>4. CASE ArtReturnsAbandoned
  BY <1>4, AbandonEffect
<1>5. ASSUME NEW t \in Callers, SwapTheme(t) PROVE FALSE
  BY <1>5, SwapEffect
<1>6. ASSUME NEW t \in Callers, Disposes(t) PROVE FALSE
  BY <1>6, DisposesEffect
<1> QED BY <1>1, <1>2, <1>3, <1>4, <1>5, <1>6, StepKinds

\* The rows keep naming slots that were claimed for them.
LEMMA RowsNext ==
  ASSUME Base, Base', CachesAhead, ClaimsUntilTeardown, Slotted, UidsBelow, UidsBelow', RowsValid,
         \A t \in Callers : op[t] \notin KeepsRows, [Next]_vars
  PROVE  RowsValid'
<1>a. /\ Gui \in Callers /\ Io \in Callers /\ Gui # Io /\ cur \in Caches /\ Caches \subseteq Nat
      /\ nextUID[cur] \in Nat /\ nextUID[cur] # 0 /\ Unasked \notin Slots
      /\ \A c \in Caches, s \in Slots : content[c][s].UID \in Nat
      /\ \A s \in Slots : content[cur][s].UID < nextUID[cur]
  BY BaseTypes DEF UidsBelow, Callers, Gui, Io, Slots, Unasked
<1>b. /\ cur' \in Caches /\ nextUID'[cur'] \in Nat
      /\ \A s \in Slots : content'[cur'][s].UID \in Nat /\ content'[cur'][s].UID < nextUID'[cur']
  <2>1. /\ cur' \in Caches /\ nextUID' \in [Caches -> 1..(MaxUID + 1)] /\ MaxUID \in Nat
        /\ content' \in [Caches -> [Slots -> Entry]]
    BY BoundsAssumption DEF Base, Control, ControlType, CacheType
  <2>2. ASSUME NEW s \in Slots PROVE content'[cur'][s].UID \in Nat
    <3>1. content'[cur'][s] \in Entry
      BY <2>1
    <3> QED BY <2>1, <3>1 DEF Entry
  <2> QED BY <2>1, <2>2 DEF UidsBelow
<1>c. ~Between(Io) => \A v \in Values : rows[v].id \in Slots =>
        /\ rows[v].uid # 0
        /\ Between(Gui) => \A s \in Slots : content[cur][s].UID = 0
        /\ ~Between(Gui) => rows[v].uid < nextUID[cur]
        /\ content[cur][rows[v].id].UID = rows[v].uid => content[cur][rows[v].id].owner = v
  BY DEF RowsValid, Between, ByUid, Entries
<1> SUFFICES ASSUME ~Between(Io)', NEW v \in Values, rows'[v].id \in Slots
             PROVE  /\ rows'[v].uid # 0
                    /\ Between(Gui)' => \A s \in Slots : content'[cur'][s].UID = 0
                    /\ ~Between(Gui)' => rows'[v].uid < nextUID'[cur']
                    /\ content'[cur'][rows'[v].id].UID = rows'[v].uid =>
                         content'[cur'][rows'[v].id].owner = v
  BY DEF RowsValid, Between, ByUid, Entries
<1> DEFINE Good == /\ rows'[v].uid # 0
                   /\ Between(Gui)' => \A s \in Slots : content'[cur'][s].UID = 0
                   /\ ~Between(Gui)' => rows'[v].uid < nextUID'[cur']
                   /\ content'[cur'][rows'[v].id].UID = rows'[v].uid =>
                        content'[cur'][rows'[v].id].owner = v
<1> SUFFICES Good
  OBVIOUS
<1>1. ASSUME NEW t \in Callers, RebuildRows(t) PROVE Good
  <2>1. rows'[v].id = Unasked
    BY <1>1 DEF RebuildRows, NewRow
  <2> QED BY <1>a, <2>1
<1>2. CASE SwapTheme(Io)
  <2>1. op' = op /\ op[Io] \in ThemeOps /\ pc' = [pc EXCEPT ![Io] = "destroy"]
    BY <1>a, <1>2, SwapEffect DEF SwapTheme, Goto
  <2>2. pc'[Io] = "destroy"
    BY <2>1 DEF Base, Control, ControlType, Threads, Io
  <2> QED BY <2>1, <2>2 DEF Between, Switched
<1>3. CASE SwapTheme(Gui)
  <2>1. /\ op' = op /\ op[Gui] \in ThemeOps /\ pc' = [pc EXCEPT ![Gui] = "destroy"] /\ rows' = rows
        /\ cur' = cur + 1 /\ cur + 1 \in Caches /\ content' = content
    BY <1>a, <1>3, SwapEffect DEF SwapTheme, Goto, guiVars
  <2>2. pc'[Gui] = "destroy" /\ pc'[Io] = pc[Io]
    BY <2>1 DEF Base, Control, ControlType, Threads, Gui, Io
  <2>3. \A s \in Slots : content'[cur'][s].UID = 0
    BY <1>a, <2>1 DEF CachesAhead, Blank
  <2>4. Between(Gui)' /\ ~Between(Io)
    BY <2>1, <2>2 DEF Between, Switched
  <2>5. rows'[v].uid # 0
    BY <1>c, <2>1, <2>4
  <2> QED BY <2>3, <2>4, <2>5
<1>4. CASE GuiNext
  <2>1. /\ cur' = cur /\ Draws /\ UNCHANGED <<op, pc>>
    BY <1>4, GuiFrame DEF callVars
  <2>2. ~Between(Gui) /\ ~Between(Gui)' /\ ~Between(Io)
    BY <2>1 DEF Between, Switched, Draws
  <2>3. /\ nextUID'[cur] >= nextUID[cur]
        /\ \A s \in Slots :
             content'[cur][s].UID # 0 /\ content'[cur][s].UID < nextUID[cur] =>
                /\ content'[cur][s].UID = content[cur][s].UID
                /\ content'[cur][s].owner = content[cur][s].owner
    BY <2>1, OwnersKept
  <2>4. CASE rows'[v].id = rows[v].id /\ rows'[v].uid = rows[v].uid
    <3>1. /\ rows'[v].uid # 0 /\ rows'[v].uid < nextUID[cur]
          /\ content[cur][rows'[v].id].UID = rows'[v].uid => content[cur][rows'[v].id].owner = v
      BY <1>c, <2>2, <2>4
    <3>2. rows'[v].uid < nextUID'[cur]
      BY <1>a, <1>b, <2>1, <2>3, <3>1, BaseRow
    <3> QED BY <2>1, <2>2, <2>3, <3>1, <3>2
  <2>5. CASE /\ rows'[v].uid = content[cur][rows'[v].id].UID /\ rows'[v].uid # 0
             /\ content[cur][rows'[v].id].owner = v
    <3>1. rows'[v].uid < nextUID[cur] /\ rows'[v].uid \in Nat
      BY <1>a, <2>5
    <3>2. rows'[v].uid < nextUID'[cur]
      BY <1>a, <1>b, <2>1, <2>3, <3>1
    <3> QED BY <2>1, <2>2, <2>3, <2>5, <3>1, <3>2
  <2>6. CASE /\ rows'[v].uid = nextUID[cur] /\ nextUID'[cur] = nextUID[cur] + 1
             /\ content'[cur][rows'[v].id].owner = v
    BY <1>a, <2>1, <2>2, <2>6
  <2> QED BY <1>4, <2>4, <2>5, <2>6, DrawnRows
<1>5. CASE /\ ~GuiNext /\ \A t \in Callers : ~RebuildRows(t) /\ ~SwapTheme(t)
  <2>1. /\ rows' = rows /\ cur' = cur /\ Between(Gui)' = Between(Gui) /\ Between(Io)' = Between(Io)
    BY <1>a, <1>5, OtherRows, TargetsKept, SwitchFrame
  <2>2. /\ nextUID'[cur] >= nextUID[cur] /\ (~Draws => nextUID' = nextUID)
        /\ \A s \in Slots :
             content'[cur][s].UID # 0 /\ content'[cur][s].UID < nextUID[cur] =>
                /\ content'[cur][s].UID = content[cur][s].UID
                /\ content'[cur][s].owner = content[cur][s].owner
    BY <2>1, OwnersKept
  <2>3. /\ rows'[v].uid # 0
        /\ Between(Gui) => \A s \in Slots : content[cur][s].UID = 0
        /\ ~Between(Gui) => rows'[v].uid < nextUID[cur]
        /\ content[cur][rows'[v].id].UID = rows'[v].uid => content[cur][rows'[v].id].owner = v
    BY <1>c, <2>1
  <2>4. CASE Between(Gui)
    <3>1. nextUID' = nextUID
      BY <2>2, <2>4 DEF Between, Switched, Draws
    <3>2. \A s \in Slots : content'[cur][s].UID = 0
      BY <1>b, <2>1, <2>2, <2>3, <2>4, <3>1
    <3> QED BY <2>1, <2>3, <2>4, <3>2
  <2>5. CASE ~Between(Gui)
    <3>1. rows'[v].uid < nextUID'[cur]
      BY <1>a, <1>b, <2>1, <2>2, <2>3, <2>5, BaseRow
    <3> QED BY <2>1, <2>2, <2>3, <2>5, <3>1
  <2> QED BY <2>4, <2>5
<1> HIDE DEF Good
<1> QED BY <1>1, <1>2, <1>3, <1>4, <1>5 DEF Callers

\* Where every theme load resets them, the rows and the slots agree.
LEMMA ShowingNext ==
  ASSUME RowsAreReset, Holding, Showing, [Next]_vars
  PROVE  Showing'
<1>a. Base /\ CachesAhead /\ ClaimsUntilTeardown /\ Base'
  BY HoldingParts, BaseNext
<1>b. UidsBelow /\ Slotted /\ NoLatePicture /\ RowsValid /\ \A t \in Callers : op[t] \notin KeepsRows
  BY DEF Showing
<1>1. UidsBelow'
  BY <1>a, <1>b, UidsNext
<1>2. ASSUME NEW r \in Waiting', SlotAfter(r).UID = request'[r].uid
      PROVE  SlotAfter(r).qr = r /\ SlotAfter(r).owner = request'[r].val
  <2>1. CASE r \in live
    BY <1>a, <1>b, <1>2, <2>1, WaitingSlotted
  <2>2. CASE r \notin live
    <3>1. r \in live'
      BY DEF Waiting
    <3>2. PICK v, s : Asks(v, s, r)
      BY <1>a, <2>2, <3>1, BornAsks
    <3>3. /\ request'[r].cache = cur /\ request'[r].slot = s /\ request'[r].val = v
          /\ Claimed(v, r).qr = r /\ Claimed(v, r).owner = v
          /\ \A c2 \in Caches, s2 \in Slots :
               content'[c2][s2] = IF c2 = cur /\ s2 = s THEN Claimed(v, r) ELSE content[c2][s2]
      BY <1>a, <3>2, AsksEffect
    <3>4. cur \in Caches /\ s \in Slots
      BY <1>a, <3>2, BaseTypes DEF Asks
    <3> QED BY <3>3, <3>4 DEF SlotAfter
  <2> QED BY <2>1, <2>2
<1>3. Slotted'
  <2>1. (pc'[Art] \in {"read", "unqr"} /\ request'[artReq'].cache = cur') =>
         /\ \/ SlotAfter(artReq').UID = request'[artReq'].uid
            \/ gArtShutdownAbandoned' /\ SlotAfter(artReq').UID = 0
         /\ \A t \in Callers : pc'[t] = "clear" /\ ~gArtShutdownAbandoned' =>
              \/ request'[Head(chain'[t])].cache # cur'
              \/ request'[Head(chain'[t])].slot # request'[artReq'].slot
    BY <1>a, <1>b, ReadSlotted
  <2>2. \A s \in Slots : content'[cur'][s].img # NULL =>
          content'[cur'][s].UID # 0 /\ content'[cur'][s].img = content'[cur'][s].owner
    BY <1>a, <1>b, PicturesNext
  <2> QED BY <1>2, <2>1, <2>2 DEF Slotted, SlotOf, SlotAfter
<1>4. NoLatePicture'
  BY <1>a, <1>b, LateNext
<1>5. RowsValid'
  BY <1>a, <1>b, <1>1, RowsNext
<1>6. \A t \in Callers : op'[t] \notin KeepsRows
  BY <1>a, <1>b, RowsResetNext
<1> QED BY <1>1, <1>3, <1>4, <1>5, <1>6 DEF Showing

LEMMA InitShowing ==
  ASSUME Init
  PROVE  Showing
<1>1. /\ live = {} /\ rows = [v \in Values |-> NewRow] /\ cur = 1 /\ nextUID = [c \in Caches |-> 1]
      /\ content = [c \in Caches |-> [s \in Slots |-> Cleared]]
      /\ pc = [t \in Threads |-> IF t = Art THEN "sleep" ELSE "idle"]
      /\ op = [t \in Callers |-> "cancel"]
  BY DEF Init
<1>2. 1 \in Caches /\ Unasked \notin Slots
  BY BoundsAssumption DEF Caches, Slots, Unasked
<1>3. \A s \in Slots : content[cur][s].UID = 0 /\ content[cur][s].img = NULL
  BY <1>1, <1>2 DEF Cleared, Zeroed
<1>4. UidsBelow
  BY <1>1, <1>2, <1>3 DEF UidsBelow
<1>5. Slotted
  BY <1>1, <1>3 DEF Slotted, Waiting, Threads, Art
<1>6. NoLatePicture /\ \A t \in Callers : op[t] \notin KeepsRows
  BY <1>1 DEF NoLatePicture, KeepsRows
<1>7. RowsValid
  BY <1>1, <1>2 DEF RowsValid, NewRow
<1> QED BY <1>4, <1>5, <1>6, <1>7 DEF Showing

\* No row shows the picture of another, through evictions, cancels, theme switches and the
\* teardown, on any instance whose callers neither change the language nor lose the
\* share that holds the theme (cacheGetTextureEx, cacheLoadImage; RowsAreReset).
THEOREM OwnPictures ==
  ASSUME RowsAreReset
  PROVE  Spec => []NoWrongArt
<1>1. Init => Showing
  BY InitShowing
<1>2. Holding /\ Showing /\ [Next]_vars => Showing'
  BY ShowingNext
<1>3. Holding /\ Showing => NoWrongArt
  <2> SUFFICES ASSUME Holding, Showing, op[Io] \in ThemeOps => pc[Io] = "idle",
                      NEW v \in Values, NEW s \in ByUid(v)
               PROVE  Entries[s].owner = v /\ Entries[s].img \in {v, NULL}
    BY DEF NoWrongArt
  <2>1. s \in Slots /\ rows[v].id = s
    BY DEF ByUid
  <2>2. Entries[s].owner = v
    BY <2>1 DEF Showing, RowsValid, Switched
  <2>3. Entries[s].img # NULL => Entries[s].img = Entries[s].owner
    BY <2>1 DEF Showing, Slotted, Entries
  <2> QED BY <2>2, <2>3
<1> QED BY <1>1, <1>2, <1>3, HoldingAlways, PTL DEF Spec

=============================================================================
