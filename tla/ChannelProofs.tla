--------------------------- MODULE ChannelProofs ---------------------------
(***************************************************************************)
(* Proofs about Channels: whatever the limit, the bounds and the faults of *)
(* the links, no node accepts a message twice or protects two messages     *)
(* with the same key and nonce.                                            *)
(*                                                                         *)
(* Both rest on the freshness of keys.  A key is made of a share of each   *)
(* end, and a node makes one key from a share.                             *)
(***************************************************************************)
EXTENDS Channels, TLAPS

ShareOf(n) == {n} \X Nat

Shares == ShareOf(1) \union ShareOf(2)

Keys == [shares : SUBSET Shares, salt : Shares]

Data == [type : {"data"}, key : Keys, nonce : Nat]

MessageFrom(n) ==
  [type : {"init"}, ks : ShareOf(n), salt : Shares]
    \union [type : {"response"}, ks : ShareOf(n), peer : ShareOf(peer_id(n))]
    \union [type : {"final"}, ks : Shares]
    \union Data

ChannelAt(n) ==
  [status : {"INACTIVE", "INITIATED", "WAITING_FOR_FINAL", "ESTABLISHED"},
   shares : Nat, own : ShareOf(n) \union {None}, peer : ShareOf(peer_id(n)) \union {None},
   hkdf_salt : Shares, key : Keys \union {None}, send_nonce : Nat, recv_nonce : Nat,
   outgoing_msg : BOOLEAN]

\* The share of an unfinished exchange is the latest one, and the key of an
\* established channel was made from it.
Fresh(n, c) ==
  /\ c.status # "ESTABLISHED" => c.own = <<n, c.shares>>
  /\ c.status = "WAITING_FOR_FINAL" => c.peer \in ShareOf(peer_id(n))
  /\ c.status = "ESTABLISHED" =>
       c.key \in Keys /\ \A j \in Nat : <<n, j>> \in c.key.shares <=> j = c.shares

\* The keys of the messages in h were made from shares of n up to the latest, and
\* the latest is not among them while it has not been used.
Older(n, c, h) ==
  \A i \in DOMAIN h :
    /\ \A j \in Nat : <<n, j>> \in h[i].key.shares => j <= c.shares
    /\ c.status # "ESTABLISHED" => <<n, c.shares>> \notin h[i].key.shares

AcceptedUpTo(c, acc) ==
  c.status = "ESTABLISHED" => \A i \in DOMAIN acc : acc[i].key = c.key => acc[i].nonce <= c.recv_nonce

SentBelow(c, enc) ==
  /\ \A i \in DOMAIN enc : enc[i].nonce < MessageLimit
  /\ c.status = "ESTABLISHED" => \A i \in DOMAIN enc : enc[i].key = c.key => enc[i].nonce < c.send_nonce

\* A node with channel c that has accepted acc and sent enc
Sound(n, c, acc, enc) ==
  /\ c \in ChannelAt(n)
  /\ acc \in Seq(Data) /\ enc \in Seq(Data)
  /\ Fresh(n, c)
  /\ Older(n, c, acc) /\ Older(n, c, enc)
  /\ AcceptedUpTo(c, acc) /\ SentBelow(c, enc)
  /\ IsInjective(acc) /\ IsInjective(enc)

\* The inductive invariant
ChannelInv ==
  /\ DOMAIN channel = ChannelNode /\ DOMAIN link = ChannelNode
  /\ DOMAIN encrypted = ChannelNode /\ accepted = [n \in ChannelNode |-> accepted[n]]
  /\ \A n \in ChannelNode :
       /\ link[n] \in Seq(MessageFrom(peer_id(n)))
       /\ Sound(n, channel[n], accepted[n], encrypted[n])

\* What a call leaves behind
Outcome(n, r, acc, enc) ==
  /\ r.out \in Seq(MessageFrom(n))
  /\ Sound(n, r.channel, acc, enc \o Protected(r.out))

-----------------------------------------------------------------------------

\* The peer of the peer is the node itself.
LEMMA Peers == \A n \in ChannelNode : peer_id(n) \in ChannelNode /\ peer_id(n) # n /\ peer_id(peer_id(n)) = n
BY DEF ChannelNode, peer_id

\* The shares that a node makes are shares.
LEMMA SharesTyped ==
  \A n \in ChannelNode :
    ShareOf(n) \subseteq Shares /\ \A j \in Nat : <<n, j>> \in ShareOf(n) /\ <<n, j>> \in Shares
BY DEF ChannelNode, ShareOf, Shares

\* A call that sends nothing that is protected
LEMMA Unprotected ==
  ASSUME NEW n \in ChannelNode, NEW c, NEW acc, NEW enc, Sound(n, c, acc, enc),
         NEW out \in Seq(MessageFrom(n)), out = <<>> \/ out[Len(out)].type # "data"
  PROVE  Outcome(n, Result(c, out), acc, enc)
<1>1. Protected(out) = <<>>
  BY DEF Protected
<1>2. enc \o <<>> = enc
  BY DEF Sound
<1> QED BY <1>1, <1>2 DEF Outcome, Result

\* An exchange goes on with the share it has, or with a new one.
LEMMA ExchangeSound ==
  ASSUME NEW n \in ChannelNode, NEW c, NEW acc, NEW enc, Sound(n, c, acc, enc),
         NEW d \in ChannelAt(n), d.status # "ESTABLISHED", d.own = <<n, d.shares>>,
         d.status = "WAITING_FOR_FINAL" => d.peer \in ShareOf(peer_id(n)),
         \/ d.shares = c.shares + 1
         \/ d.shares = c.shares /\ c.status # "ESTABLISHED"
  PROVE  Sound(n, d, acc, enc)
<1>1. Fresh(n, d)
  BY DEF Fresh
<1>2. c.shares \in Nat
  BY DEF Sound, ChannelAt
<1>3. \A h : Older(n, c, h) => Older(n, d, h)
  BY <1>2 DEF Older
<1>4. AcceptedUpTo(d, acc) /\ SentBelow(d, enc)
  BY DEF AcceptedUpTo, SentBelow, Sound
<1> QED BY <1>1, <1>3, <1>4 DEF Sound

\* reset makes a new share.
LEMMA ResetSound ==
  ASSUME NEW n \in ChannelNode, NEW c, NEW acc, NEW enc, Sound(n, c, acc, enc)
  PROVE  Sound(n, reset(n, c), acc, enc) /\ reset(n, c).status = "INACTIVE"
<1> DEFINE r == reset(n, c)
           s == <<n, c.shares + 1>>
<1>1. c \in ChannelAt(n) /\ c.shares + 1 \in Nat
  BY DEF Sound, ChannelAt
<1>2. s \in ShareOf(n) /\ s \in Shares
  BY <1>1, SharesTyped
<1>3. r = [c EXCEPT !.shares = c.shares + 1, !.own = s, !.peer = None,
                    !.status = "INACTIVE", !.key = None, !.hkdf_salt = s]
  BY <1>1 DEF reset, kex_reset, ChannelAt
<1>4. r \in ChannelAt(n) /\ r.status = "INACTIVE" /\ r.shares = c.shares + 1 /\ r.own = <<n, r.shares>>
  <2> HIDE DEF r
  <2> QED BY <1>1, <1>2, <1>3 DEF ChannelAt
<1> HIDE DEF r
<1> QED BY <1>4, ExchangeSound DEF r

\* An exchange that is started, or started again
LEMMA InitiateOutcome ==
  ASSUME NEW n \in ChannelNode, NEW c, NEW acc, NEW enc, Sound(n, c, acc, enc),
         c.status \in {"INACTIVE", "INITIATED"}
  PROVE  Outcome(n, initiate(n, c), acc, enc)
<1> DEFINE k == IF c.status = "INACTIVE" THEN c ELSE kex_reset(n, c)
           i == [k EXCEPT !.status = "INITIATED", !.hkdf_salt = k.own]
           m == send_key_exchange_init(i)
<1>1. c \in ChannelAt(n) /\ c.shares \in Nat /\ c.own = <<n, c.shares>>
  BY DEF Sound, ChannelAt, Fresh
<1>2. \A j \in Nat : <<n, j>> \in ShareOf(n) /\ <<n, j>> \in Shares
  BY SharesTyped
<1>3. /\ k \in ChannelAt(n) /\ k.own = <<n, k.shares>> /\ k.shares \in Nat
      /\ k.shares = c.shares \/ k.shares = c.shares + 1
  <2>1. CASE c.status = "INACTIVE"
    BY <2>1, <1>1
  <2>2. CASE c.status # "INACTIVE"
    <3>1. k = [c EXCEPT !.shares = c.shares + 1, !.own = <<n, c.shares + 1>>, !.peer = None]
      BY <2>2, <1>1 DEF kex_reset, ChannelAt
    <3>2. c.shares + 1 \in Nat /\ <<n, c.shares + 1>> \in ShareOf(n)
      BY <1>1, <1>2
    <3> HIDE DEF k
    <3> QED BY <3>1, <3>2, <1>1 DEF ChannelAt
  <2> HIDE DEF k
  <2> QED BY <2>1, <2>2
<1> HIDE DEF k
<1>4. /\ i \in ChannelAt(n) /\ i.status = "INITIATED" /\ i.own = <<n, i.shares>>
      /\ i.shares = k.shares /\ i.hkdf_salt = i.own
  BY <1>2, <1>3 DEF ChannelAt
<1> HIDE DEF i
<1>5. Sound(n, i, acc, enc)
  BY <1>1, <1>3, <1>4, ExchangeSound
<1>6. m \in MessageFrom(n) /\ m.type = "init"
  BY <1>2, <1>3, <1>4 DEF send_key_exchange_init, MessageFrom
<1> HIDE DEF m
<1>7. Outcome(n, Result(i, <<m>>), acc, enc)
  BY <1>5, <1>6, Unprotected
<1> QED BY <1>7 DEF initiate, k, i, m

\* A history to which a message is appended
LEMMA AppendData ==
  ASSUME NEW h \in Seq(Data), NEW m \in Data, IsInjective(h),
         \A i \in DOMAIN h : h[i].key = m.key => h[i].nonce # m.nonce
  PROVE  /\ h \o <<m>> = Append(h, m)
         /\ Append(h, m) \in Seq(Data)
         /\ \A i \in DOMAIN Append(h, m) :
              \/ i \in DOMAIN h /\ Append(h, m)[i] = h[i]
              \/ Append(h, m)[i] = m
         /\ IsInjective(Append(h, m))
<1> DEFINE a == Append(h, m)
<1>1. h \o <<m>> = a /\ a \in Seq(Data) /\ Len(a) = Len(h) + 1 /\ a[Len(h) + 1] = m
  OBVIOUS
<1>2. \A i \in 1..Len(h) : a[i] = h[i]
  OBVIOUS
<1>3. DOMAIN a = 1..(Len(h) + 1) /\ DOMAIN h = 1..Len(h) /\ Len(h) \in Nat
  OBVIOUS
<1> HIDE DEF a
<1>4. \A i \in DOMAIN h : h[i] # m
  OBVIOUS
<1>5. IsInjective(a)
  BY <1>1, <1>2, <1>3, <1>4 DEF IsInjective
<1>6. \A i \in DOMAIN a : (i \in DOMAIN h /\ a[i] = h[i]) \/ a[i] = m
  BY <1>1, <1>2, <1>3
<1> QED BY <1>1, <1>5, <1>6 DEF a

\* A channel that is established sends a protected message.
LEMMA ProtectOutcome ==
  ASSUME NEW n \in ChannelNode, NEW c, NEW acc, NEW enc, Sound(n, c, acc, enc),
         c.status = "ESTABLISHED"
  PROVE  Outcome(n, protect(c), acc, enc)
<1> DEFINE d == [c EXCEPT !.send_nonce = Capped(@ + 1)]
           m == [type |-> "data", key |-> c.key, nonce |-> c.send_nonce]
           e == enc \o Protected(<<m>>)
<1>1. c \in ChannelAt(n) /\ c.send_nonce \in Nat /\ c.key \in Keys
  BY DEF Sound, ChannelAt, Fresh
<1>2. Capped(c.send_nonce + 1) \in Nat
  BY <1>1, ChannelLimit DEF Capped
<1>3. /\ d \in ChannelAt(n) /\ d.status = "ESTABLISHED" /\ d.key = c.key /\ d.shares = c.shares
      /\ d.recv_nonce = c.recv_nonce /\ d.send_nonce = Capped(c.send_nonce + 1)
  BY <1>1, <1>2 DEF ChannelAt
<1>4. m \in Data /\ m.type = "data" /\ m.key = c.key /\ m.nonce = c.send_nonce
  BY <1>1 DEF Data
<1> HIDE DEF d, m
<1>5. Protected(<<m>>) = IF c.send_nonce < MessageLimit THEN <<m>> ELSE <<>>
  BY <1>4 DEF Protected
<1>6. Fresh(n, d) /\ Older(n, d, acc) /\ AcceptedUpTo(d, acc)
  BY <1>3, <1>1 DEF Sound, Fresh, Older, AcceptedUpTo
<1>7. /\ acc \in Seq(Data) /\ enc \in Seq(Data) /\ IsInjective(enc) /\ IsInjective(acc)
      /\ Older(n, c, enc) /\ SentBelow(c, enc) /\ c.shares \in Nat
  BY DEF Sound, ChannelAt
<1>8. e \in Seq(Data) /\ Older(n, d, e) /\ SentBelow(d, e) /\ IsInjective(e)
  <2>1. CASE c.send_nonce < MessageLimit
    <3>1. \A x \in DOMAIN enc : enc[x] \in Data
      BY <1>7
    <3>2. \A x \in DOMAIN enc : enc[x].key = m.key => enc[x].nonce \in Nat /\ enc[x].nonce < m.nonce
      BY <3>1, <1>4, <1>7 DEF SentBelow, Data
    <3>3. e = enc \o <<m>>
      BY <2>1, <1>5
    <3>4. \A x \in DOMAIN enc : enc[x].key = m.key => enc[x].nonce # m.nonce
      BY <3>2, <1>1, <1>4
    <3> HIDE DEF e
    <3>5. m \in Data /\ enc \in Seq(Data) /\ IsInjective(enc)
      BY <1>4, <1>7
    <3>6. /\ enc \o <<m>> = Append(enc, m)
          /\ Append(enc, m) \in Seq(Data)
          /\ \A x \in DOMAIN Append(enc, m) :
               (x \in DOMAIN enc /\ Append(enc, m)[x] = enc[x]) \/ Append(enc, m)[x] = m
          /\ IsInjective(Append(enc, m))
      BY <3>4, <3>5, AppendData, Zenon
    <3>7. e = Append(enc, m)
      BY <3>3, <3>6, Zenon
    <3>8. /\ e \in Seq(Data) /\ IsInjective(e)
          /\ \A x \in DOMAIN e : (x \in DOMAIN enc /\ e[x] = enc[x]) \/ e[x] = m
      BY <3>6, <3>7, Zenon
    <3>9. d.send_nonce = c.send_nonce + 1
      BY <2>1, <1>1, <1>3, ChannelLimit DEF Capped
    <3>10. \A j \in Nat : <<n, j>> \in c.key.shares => j <= c.shares
      BY <1>7 DEF Sound, Fresh
    <3>11. Older(n, d, e)
      BY <3>8, <3>10, <1>3, <1>4, <1>7 DEF Older
    <3>12. SentBelow(d, e)
      <4>1. \A x \in DOMAIN e : e[x].nonce < MessageLimit
        BY <2>1, <3>8, <1>4, <1>7 DEF SentBelow
      <4>2. \A x \in DOMAIN e : e[x].key = d.key => e[x].nonce < d.send_nonce
        <5> SUFFICES ASSUME NEW x \in DOMAIN e, e[x].key = m.key
                     PROVE  e[x].nonce < c.send_nonce + 1
          BY <3>9, <1>3, <1>4
        <5>1. CASE e[x] = m
          BY <5>1, <1>1, <1>4
        <5>2. CASE x \in DOMAIN enc /\ e[x] = enc[x]
          BY <5>2, <3>2, <1>1, <1>4
        <5> QED BY <5>1, <5>2, <3>8
      <4> QED BY <4>1, <4>2 DEF SentBelow
    <3> QED BY <3>8, <3>11, <3>12
  <2>2. CASE ~(c.send_nonce < MessageLimit)
    <3>1. e = enc
      BY <2>2, <1>5, <1>7
    <3> HIDE DEF e
    <3>2. Older(n, d, e)
      BY <3>1, <1>3, <1>7 DEF Older
    <3>3. d.send_nonce = MessageLimit
      BY <2>2, <1>1, <1>3, ChannelLimit DEF Capped
    <3>4. SentBelow(d, e)
      BY <3>1, <3>3, <1>7 DEF SentBelow
    <3> QED BY <3>1, <3>2, <3>4, <1>7
  <2> QED BY <2>1, <2>2
<1>9. <<m>> \in Seq(MessageFrom(n))
  BY <1>4 DEF MessageFrom
<1>10. Sound(n, d, acc, e)
  <2> HIDE DEF e
  <2> QED BY <1>3, <1>6, <1>7, <1>8 DEF Sound
<1> QED BY <1>9, <1>10 DEF Outcome, protect, Result, d, m

\* A new key is in no history: it is made from a share that no key was made from.
LEMMA EstablishOutcome ==
  ASSUME NEW n \in ChannelNode, NEW c, NEW acc, NEW enc, Sound(n, c, acc, enc),
         c.status # "ESTABLISHED", c.peer \in ShareOf(peer_id(n))
  PROVE  Outcome(n, establish(c), acc, enc)
<1> DEFINE k == [shares |-> {c.own, c.peer}, salt |-> c.hkdf_salt]
           e == [c EXCEPT !.status = "ESTABLISHED", !.own = None, !.peer = None, !.key = k,
                          !.send_nonce = 1, !.recv_nonce = 0]
           f == [e EXCEPT !.outgoing_msg = FALSE]
<1>1. c \in ChannelAt(n) /\ c.shares \in Nat /\ c.own = <<n, c.shares>> /\ c.hkdf_salt \in Shares
  BY DEF Sound, ChannelAt, Fresh
<1>2. c.own \in Shares /\ c.peer \in Shares
  BY <1>1, SharesTyped, Peers
<1>3. k \in Keys
  BY <1>1, <1>2 DEF Keys
<1>4. \A j \in Nat : <<n, j>> \in k.shares <=> j = c.shares
  BY <1>1, Peers DEF ShareOf
<1> HIDE DEF k
<1>5. \A d \in ChannelAt(n) :
        d.status = "ESTABLISHED" /\ d.shares = c.shares /\ d.key = k => Sound(n, d, acc, enc)
  <2> SUFFICES ASSUME NEW d \in ChannelAt(n),
                      d.status = "ESTABLISHED", d.shares = c.shares, d.key = k
               PROVE  Sound(n, d, acc, enc)
    OBVIOUS
  <2>1. Fresh(n, d)
    BY <1>3, <1>4 DEF Fresh
  <2>2. Older(n, c, acc) /\ Older(n, c, enc) /\ SentBelow(c, enc)
    BY DEF Sound
  <2>3. Older(n, d, acc) /\ Older(n, d, enc)
    BY <2>2 DEF Older
  <2>4. <<n, c.shares>> \in k.shares
    BY <1>1, <1>4
  <2>5. \A h : Older(n, c, h) => \A x \in DOMAIN h : h[x].key # k
    BY <2>4 DEF Older
  <2>6. AcceptedUpTo(d, acc) /\ SentBelow(d, enc)
    BY <2>2, <2>5 DEF AcceptedUpTo, SentBelow
  <2> QED BY <2>1, <2>3, <2>6 DEF Sound
<1>6. e \in ChannelAt(n) /\ e.status = "ESTABLISHED" /\ e.shares = c.shares /\ e.key = k
  BY <1>1, <1>3 DEF ChannelAt
<1> HIDE DEF e
<1>7. f \in ChannelAt(n) /\ f.status = "ESTABLISHED" /\ f.shares = c.shares /\ f.key = k
  BY <1>6 DEF ChannelAt
<1> HIDE DEF f
<1>8. Sound(n, e, acc, enc) /\ Sound(n, f, acc, enc)
  BY <1>5, <1>6, <1>7
<1>9. Outcome(n, Result(e, <<>>), acc, enc)
  <2>1. <<>> \in Seq(MessageFrom(n))
    OBVIOUS
  <2> QED BY <2>1, <1>8, Unprotected, Zenon
<1>10. Outcome(n, protect(f), acc, enc)
  BY <1>7, <1>8, ProtectOutcome
<1>11. establish(c) = IF ~c.outgoing_msg THEN Result(e, <<>>) ELSE protect(f)
  BY DEF establish, e, f, k
<1> QED BY <1>9, <1>10, <1>11

\* A message of the exchange that is sent first
LEMMA PrependOutcome ==
  ASSUME NEW n \in ChannelNode, NEW c, NEW out, NEW acc, NEW enc,
         Outcome(n, Result(c, out), acc, enc), NEW m \in MessageFrom(n), m.type # "data"
  PROVE  Outcome(n, Result(c, <<m>> \o out), acc, enc)
<1> DEFINE o == <<m>> \o out
<1>1. out \in Seq(MessageFrom(n)) /\ Sound(n, c, acc, enc \o Protected(out))
  BY DEF Outcome, Result
<1>2. o \in Seq(MessageFrom(n)) /\ o # <<>> /\ Len(o) = Len(out) + 1
  BY <1>1
<1>3. Protected(o) = Protected(out)
  <2>1. CASE out = <<>>
    <3>1. o[Len(o)] = m
      BY <2>1
    <3> HIDE DEF o
    <3> QED BY <2>1, <3>1 DEF Protected
  <2>2. CASE out # <<>>
    <3>1. o[Len(o)] = out[Len(out)]
      BY <2>2, <1>1
    <3> HIDE DEF o
    <3> QED BY <2>2, <1>2, <3>1 DEF Protected
  <2> QED BY <2>1, <2>2
<1> HIDE DEF o
<1> QED BY <1>1, <1>2, <1>3 DEF Outcome, Result, o

-----------------------------------------------------------------------------
(* The calls                                                               *)

\* advance_connection_attempt starts the exchange or changes nothing.
LEMMA AdvanceOutcome ==
  ASSUME NEW n \in ChannelNode, NEW c, NEW acc, NEW enc, Sound(n, c, acc, enc),
         NEW elapsed \in BOOLEAN
  PROVE  Outcome(n, advance_connection_attempt(n, c, elapsed), acc, enc)
<1>1. <<>> \in Seq(MessageFrom(n))
  OBVIOUS
<1>2. Outcome(n, Result(c, <<>>), acc, enc)
  BY <1>1, Unprotected, Zenon
<1>3. c.status \in {"INACTIVE", "INITIATED"} => Outcome(n, initiate(n, c), acc, enc)
  BY InitiateOutcome
<1> QED BY <1>2, <1>3 DEF advance_connection_attempt

\* Only outgoing_msg changes.
LEMMA WaitingOutcome ==
  ASSUME NEW n \in ChannelNode, NEW c, NEW out, NEW acc, NEW enc,
         Outcome(n, Result(c, out), acc, enc)
  PROVE  Outcome(n, Result([c EXCEPT !.outgoing_msg = TRUE], out), acc, enc)
<1> DEFINE d == [c EXCEPT !.outgoing_msg = TRUE]
           e == enc \o Protected(out)
<1>1. out \in Seq(MessageFrom(n)) /\ Sound(n, c, acc, e)
  BY DEF Outcome, Result
<1>2. c \in ChannelAt(n)
  BY <1>1 DEF Sound
<1>3. /\ d \in ChannelAt(n) /\ d.status = c.status /\ d.own = c.own /\ d.shares = c.shares
      /\ d.peer = c.peer /\ d.key = c.key /\ d.send_nonce = c.send_nonce /\ d.recv_nonce = c.recv_nonce
  BY <1>2 DEF ChannelAt
<1> HIDE DEF d, e
<1>4. Fresh(n, d) /\ (\A h : Older(n, c, h) => Older(n, d, h))
  BY <1>1, <1>3 DEF Sound, Fresh, Older
<1>5. AcceptedUpTo(d, acc) /\ SentBelow(d, e)
  BY <1>1, <1>3 DEF Sound, AcceptedUpTo, SentBelow
<1>6. Sound(n, d, acc, e)
  BY <1>1, <1>3, <1>4, <1>5 DEF Sound
<1> QED BY <1>1, <1>6 DEF Outcome, Result, d, e

\* send protects its message, or keeps it until the channel is established.
LEMMA SendOutcome ==
  ASSUME NEW n \in ChannelNode, NEW c, NEW acc, NEW enc, Sound(n, c, acc, enc),
         NEW elapsed \in BOOLEAN
  PROVE  Outcome(n, send(n, c, elapsed), acc, enc)
<1> DEFINE a == advance_connection_attempt(n, c, elapsed)
<1>1. Outcome(n, a, acc, enc)
  BY AdvanceOutcome
<1>2. a = Result(a.channel, a.out)
  BY DEF advance_connection_attempt, initiate, Result
<1> HIDE DEF a
<1>3. Outcome(n, Result([a.channel EXCEPT !.outgoing_msg = TRUE], a.out), acc, enc)
  BY <1>1, <1>2, WaitingOutcome
<1>4. c.status = "ESTABLISHED" => Outcome(n, protect(c), acc, enc)
  BY ProtectOutcome
<1> QED BY <1>3, <1>4 DEF send, a

\* recv_key_exchange_init answers with the share of the exchange, a new one if the
\* channel was established.
LEMMA RecvInitOutcome ==
  ASSUME NEW n \in ChannelNode, NEW c, NEW acc, NEW enc, Sound(n, c, acc, enc),
         NEW m \in MessageFrom(peer_id(n)), m.type = "init"
  PROVE  Outcome(n, recv_key_exchange_init(n, c, m), acc, enc)
<1> DEFINE k == IF c.status = "ESTABLISHED" THEN kex_reset(n, c) ELSE c
           w == [k EXCEPT !.status = "WAITING_FOR_FINAL", !.peer = m.ks, !.hkdf_salt = m.salt]
           o == send_key_exchange_response(w)
<1>1. m.ks \in ShareOf(peer_id(n)) /\ m.salt \in Shares
  BY DEF MessageFrom, Data
<1>2. c \in ChannelAt(n) /\ c.shares \in Nat /\ (c.status # "ESTABLISHED" => c.own = <<n, c.shares>>)
  BY DEF Sound, ChannelAt, Fresh
<1>3. /\ k \in ChannelAt(n) /\ k.own = <<n, k.shares>> /\ k.shares \in Nat
      /\ k.shares = c.shares + 1 \/ (k.shares = c.shares /\ c.status # "ESTABLISHED")
  <2>1. CASE c.status = "ESTABLISHED"
    <3>1. k = [c EXCEPT !.shares = c.shares + 1, !.own = <<n, c.shares + 1>>, !.peer = None]
      BY <2>1, <1>2 DEF kex_reset, ChannelAt
    <3>2. c.shares + 1 \in Nat /\ <<n, c.shares + 1>> \in ShareOf(n)
      BY <1>2, SharesTyped
    <3> HIDE DEF k
    <3> QED BY <3>1, <3>2, <1>2 DEF ChannelAt
  <2>2. CASE c.status # "ESTABLISHED"
    BY <2>2, <1>2
  <2> HIDE DEF k
  <2> QED BY <2>1, <2>2
<1> HIDE DEF k
<1>4. /\ w \in ChannelAt(n) /\ w.status = "WAITING_FOR_FINAL" /\ w.own = <<n, w.shares>>
      /\ w.shares = k.shares /\ w.peer = m.ks
  BY <1>1, <1>3 DEF ChannelAt
<1> HIDE DEF w
<1>5. Sound(n, w, acc, enc)
  BY <1>1, <1>3, <1>4, ExchangeSound
<1>6. o \in MessageFrom(n) /\ o.type = "response"
  <2>1. w.own \in ShareOf(n) /\ w.peer \in ShareOf(peer_id(n))
    BY <1>1, <1>3, <1>4, SharesTyped
  <2> QED BY <2>1 DEF send_key_exchange_response, MessageFrom
<1> HIDE DEF o
<1>7. Outcome(n, Result(w, <<o>>), acc, enc)
  BY <1>5, <1>6, Unprotected
<1>8. Outcome(n, Result(c, <<>>), acc, enc)
  <2>1. <<>> \in Seq(MessageFrom(n))
    OBVIOUS
  <2> QED BY <2>1, Unprotected, Zenon
<1> QED BY <1>7, <1>8 DEF recv_key_exchange_init, k, w, o

\* recv_key_exchange_response establishes the channel and confirms it.
LEMMA RecvResponseOutcome ==
  ASSUME NEW n \in ChannelNode, NEW c, NEW acc, NEW enc, Sound(n, c, acc, enc),
         NEW m \in MessageFrom(peer_id(n)), m.type = "response"
  PROVE  Outcome(n, recv_key_exchange_response(c, m), acc, enc)
<1>1. CASE c.status # "INITIATED" \/ m.peer # c.own
  <2>1. <<>> \in Seq(MessageFrom(n))
    OBVIOUS
  <2>2. Outcome(n, Result(c, <<>>), acc, enc)
    BY <2>1, Unprotected, Zenon
  <2> QED BY <1>1, <2>2 DEF recv_key_exchange_response
<1>2. CASE c.status = "INITIATED" /\ m.peer = c.own
  <2> DEFINE l == [c EXCEPT !.peer = m.ks]
             e == establish(l)
             f == send_key_exchange_final(l)
  <2>1. m.ks \in ShareOf(peer_id(n))
    BY DEF MessageFrom, Data
  <2>2. c \in ChannelAt(n) /\ c.own = <<n, c.shares>> /\ c.shares \in Nat
    BY <1>2 DEF Sound, ChannelAt, Fresh
  <2>3. /\ l \in ChannelAt(n) /\ l.status = "INITIATED" /\ l.own = <<n, l.shares>>
        /\ l.shares = c.shares /\ l.peer = m.ks
    BY <1>2, <2>1, <2>2 DEF ChannelAt
  <2> HIDE DEF l
  <2>4. Sound(n, l, acc, enc)
    BY <1>2, <2>3, ExchangeSound
  <2>5. Outcome(n, e, acc, enc)
    BY <2>1, <2>3, <2>4, EstablishOutcome
  <2>6. f \in MessageFrom(n) /\ f.type = "final"
    BY <2>1, <2>3, SharesTyped, Peers DEF send_key_exchange_final, MessageFrom
  <2>7. e = Result(e.channel, e.out)
    BY DEF establish, protect, Result
  <2> HIDE DEF e, f
  <2>8. Outcome(n, Result(e.channel, <<f>> \o e.out), acc, enc)
    BY <2>5, <2>6, <2>7, PrependOutcome
  <2> QED BY <1>2, <2>8 DEF recv_key_exchange_response, l, e, f
<1> QED BY <1>1, <1>2

\* recv_key_exchange_final establishes the channel.
LEMMA RecvFinalOutcome ==
  ASSUME NEW n \in ChannelNode, NEW c, NEW acc, NEW enc, Sound(n, c, acc, enc), NEW m
  PROVE  Outcome(n, recv_key_exchange_final(c, m), acc, enc)
<1>1. <<>> \in Seq(MessageFrom(n))
  OBVIOUS
<1>2. Outcome(n, Result(c, <<>>), acc, enc)
  BY <1>1, Unprotected, Zenon
<1>3. c.status = "WAITING_FOR_FINAL" => Outcome(n, establish(c), acc, enc)
  BY EstablishOutcome DEF Sound, Fresh
<1> QED BY <1>2, <1>3 DEF recv_key_exchange_final

\* What has been accepted after m was received
AcceptedWith(c, m, acc) ==
  IF Accepts(c, m) /\ m.nonce < MessageLimit THEN Append(acc, m) ELSE acc

\* The received nonce moves to the accepted message, past those with the same key.
LEMMA ReceivedSound ==
  ASSUME NEW n \in ChannelNode, NEW c, NEW acc, NEW enc, Sound(n, c, acc, enc),
         NEW m \in Data, c.status = "ESTABLISHED", ~Replayed(c, m)
  PROVE  Sound(n, [c EXCEPT !.recv_nonce = IF m.key = c.key THEN m.nonce ELSE @],
               AcceptedWith(c, m, acc), enc)
<1> DEFINE d == [c EXCEPT !.recv_nonce = IF m.key = c.key THEN m.nonce ELSE @]
           a == AcceptedWith(c, m, acc)
<1>1. c \in ChannelAt(n) /\ c.recv_nonce \in Nat /\ c.shares \in Nat /\ m.nonce \in Nat
  BY DEF Sound, ChannelAt, Data
<1>2. /\ d \in ChannelAt(n) /\ d.status = "ESTABLISHED" /\ d.shares = c.shares /\ d.key = c.key
      /\ d.send_nonce = c.send_nonce
      /\ d.recv_nonce = IF m.key = c.key THEN m.nonce ELSE c.recv_nonce
  BY <1>1 DEF ChannelAt
<1> HIDE DEF d
<1>3. c.recv_nonce < m.nonce
  BY <1>1 DEF Replayed
<1>4. /\ acc \in Seq(Data) /\ IsInjective(acc) /\ Older(n, c, acc) /\ AcceptedUpTo(c, acc)
      /\ Fresh(n, c) /\ Older(n, c, enc) /\ SentBelow(c, enc)
  BY DEF Sound
<1>5. Fresh(n, d) /\ Older(n, d, enc) /\ Older(n, d, acc) /\ SentBelow(d, enc)
  BY <1>2, <1>4 DEF Fresh, Older, SentBelow
<1>6. \A x \in DOMAIN acc : acc[x].nonce \in Nat
  <2>1. \A x \in DOMAIN acc : acc[x] \in Data
    BY <1>4
  <2> QED BY <2>1 DEF Data
<1>7. \A x \in DOMAIN acc : acc[x].key = c.key => acc[x].nonce < m.nonce
  BY <1>1, <1>3, <1>4, <1>6 DEF AcceptedUpTo
<1>8. a \in Seq(Data) /\ IsInjective(a) /\ Older(n, d, a) /\ AcceptedUpTo(d, a)
  <2>1. CASE Accepts(c, m) /\ m.nonce < MessageLimit
    <3>1. a = Append(acc, m) /\ m.key = c.key
      BY <2>1 DEF AcceptedWith, Accepts
    <3>2. \A x \in DOMAIN acc : acc[x].key = m.key => acc[x].nonce # m.nonce
      BY <3>1, <1>1, <1>6, <1>7
    <3>3. /\ Append(acc, m) \in Seq(Data)
          /\ \A x \in DOMAIN Append(acc, m) :
               (x \in DOMAIN acc /\ Append(acc, m)[x] = acc[x]) \/ Append(acc, m)[x] = m
          /\ IsInjective(Append(acc, m))
      BY <3>2, <1>4, AppendData, Zenon
    <3> HIDE DEF a
    <3>4. \A x \in DOMAIN a : (x \in DOMAIN acc /\ a[x] = acc[x]) \/ a[x] = m
      BY <3>1, <3>3, Zenon
    <3>5. \A j \in Nat : <<n, j>> \in m.key.shares => j <= c.shares
      BY <3>1, <1>1, <1>4 DEF Fresh
    <3>6. Older(n, d, a)
      BY <3>4, <3>5, <1>2, <1>5 DEF Older
    <3>7. \A x \in DOMAIN a : a[x].key = d.key => a[x].nonce <= d.recv_nonce
      BY <3>1, <3>4, <1>1, <1>2, <1>6, <1>7
    <3> QED BY <3>1, <3>3, <3>6, <3>7 DEF AcceptedUpTo
  <2>2. CASE ~(Accepts(c, m) /\ m.nonce < MessageLimit)
    <3>1. a = acc
      BY <2>2 DEF AcceptedWith
    <3> HIDE DEF a
    <3>2. \A x \in DOMAIN acc : acc[x].key = d.key => acc[x].nonce <= d.recv_nonce
      BY <1>1, <1>2, <1>3, <1>4, <1>6, <1>7 DEF AcceptedUpTo
    <3> QED BY <3>1, <3>2, <1>4, <1>5 DEF AcceptedUpTo
  <2> QED BY <2>1, <2>2
<1> HIDE DEF a
<1>9. Sound(n, d, a, enc)
  BY <1>2, <1>5, <1>8 DEF Sound
<1> QED BY <1>9 DEF d, a

\* recv_authenticated accepts a message, refuses it, or replaces the keys.
LEMMA RecvDataOutcome ==
  ASSUME NEW n \in ChannelNode, NEW c, NEW acc, NEW enc, Sound(n, c, acc, enc),
         NEW m \in Data, NEW elapsed \in BOOLEAN
  PROVE  Outcome(n, recv_authenticated(n, c, m, elapsed), AcceptedWith(c, m, acc), enc)
<1> DEFINE d == [c EXCEPT !.recv_nonce = IF m.key = c.key THEN m.nonce ELSE @]
           a == AcceptedWith(c, m, acc)
<1>1. <<>> \in Seq(MessageFrom(n))
  OBVIOUS
<1>2. CASE c.status # "ESTABLISHED"
  <2>1. a = acc
    BY <1>2 DEF AcceptedWith, Accepts
  <2>2. Outcome(n, advance_connection_attempt(n, c, elapsed), acc, enc)
    BY AdvanceOutcome
  <2> HIDE DEF a
  <2> QED BY <1>2, <2>1, <2>2 DEF recv_authenticated, a
<1>3. CASE c.status = "ESTABLISHED" /\ Replayed(c, m)
  <2>1. a = acc
    BY <1>3 DEF AcceptedWith, Accepts
  <2>2. Outcome(n, Result(c, <<>>), acc, enc)
    BY <1>1, Unprotected, Zenon
  <2> HIDE DEF a
  <2> QED BY <1>3, <2>1, <2>2 DEF recv_authenticated, decrypt, a
<1>4. CASE c.status = "ESTABLISHED" /\ ~Replayed(c, m)
  <2>1. Sound(n, d, a, enc)
    BY <1>4, ReceivedSound
  <2> HIDE DEF a, d
  <2>2. Outcome(n, Result(d, <<>>), a, enc)
    BY <1>1, <2>1, Unprotected, Zenon
  <2>3. Sound(n, reset(n, d), a, enc) /\ reset(n, d).status = "INACTIVE"
    BY <2>1, ResetSound
  <2>4. Outcome(n, initiate(n, reset(n, d)), a, enc)
    BY <2>3, InitiateOutcome
  <2> QED BY <1>4, <2>2, <2>4 DEF recv_authenticated, decrypt, a, d
<1> QED BY <1>2, <1>3, <1>4

-----------------------------------------------------------------------------
(* The steps                                                               *)

\* A call with a sound outcome leaves the other end alone, and adds to its link only
\* what an end can send.
LEMMA EndsPreserves ==
  ASSUME ChannelInv, NEW n \in ChannelNode, NEW r, NEW received \in BOOLEAN, NEW a,
         received => link[n] # <<>>, Ends(n, r, received),
         accepted' = [accepted EXCEPT ![n] = a], Outcome(n, r, a, encrypted[n])
  PROVE  ChannelInv'
<1> DEFINE p == peer_id(n)
<1>1. p \in ChannelNode /\ p # n /\ peer_id(p) = n /\ ChannelNode = {n, p}
  BY DEF ChannelNode, peer_id
<1> HIDE DEF p
<1>2. /\ link[n] \in Seq(MessageFrom(p)) /\ link[p] \in Seq(MessageFrom(n))
      /\ Sound(p, channel[p], accepted[p], encrypted[p])
  BY <1>1 DEF ChannelInv, p
<1>3. /\ DOMAIN channel' = ChannelNode /\ DOMAIN link' = ChannelNode
      /\ DOMAIN encrypted' = ChannelNode /\ accepted' = [x \in ChannelNode |-> accepted'[x]]
  BY DEF Ends, ChannelInv
<1>4. Sound(n, channel'[n], accepted'[n], encrypted'[n])
  <2>1. channel'[n] = r.channel /\ accepted'[n] = a /\ encrypted'[n] = encrypted[n] \o Protected(r.out)
    BY DEF Ends, ChannelInv
  <2> QED BY <2>1 DEF Outcome
<1>5. Sound(p, channel'[p], accepted'[p], encrypted'[p])
  <2>1. channel'[p] = channel[p] /\ accepted'[p] = accepted[p] /\ encrypted'[p] = encrypted[p]
    BY <1>1 DEF Ends, ChannelInv
  <2> QED BY <2>1, <1>2
<1>6. link'[n] \in Seq(MessageFrom(p)) /\ link'[p] \in Seq(MessageFrom(n))
  <2>1. link'[n] = IF received THEN Tail(link[n]) ELSE link[n]
    BY <1>1 DEF Ends, ChannelInv, p
  <2>2. link'[p] = link[p] \o r.out
    BY <1>1 DEF Ends, ChannelInv, p
  <2>3. r.out \in Seq(MessageFrom(n))
    BY DEF Outcome
  <2>4. link'[n] \in Seq(MessageFrom(p))
    BY <2>1, <1>2
  <2>5. link'[p] \in Seq(MessageFrom(n))
    BY <2>2, <2>3, <1>2
  <2> QED BY <2>4, <2>5
<1>7. /\ link'[n] \in Seq(MessageFrom(peer_id(n))) /\ link'[p] \in Seq(MessageFrom(peer_id(p)))
  BY <1>1, <1>6 DEF p
<1>8. \A x \in ChannelNode : x = n \/ x = p
  BY <1>1
<1> QED BY <1>3, <1>4, <1>5, <1>7, <1>8 DEF ChannelInv

\* A call that accepts nothing
LEMMA SamePassed ==
  ASSUME ChannelInv, NEW n \in ChannelNode, UNCHANGED accepted
  PROVE  accepted' = [accepted EXCEPT ![n] = accepted[n]]
BY DEF ChannelInv

\* The actions of an end and of a link, each of which keeps the invariant
LEMMA SendPreserves ==
  ASSUME ChannelInv, NEW n \in ChannelNode, NEW elapsed \in BOOLEAN, channel_send(n, elapsed)
  PROVE  ChannelInv'
<1>1. Outcome(n, send(n, channel[n], elapsed), accepted[n], encrypted[n])
  BY SendOutcome DEF ChannelInv
<1>2. Ends(n, send(n, channel[n], elapsed), FALSE) /\ UNCHANGED accepted
  BY DEF channel_send
<1> QED BY <1>1, <1>2, SamePassed, EndsPreserves

\* Messages of the key exchange
LEMMA KeyExchangePreserves ==
  ASSUME ChannelInv, NEW n \in ChannelNode, recv_key_exchange_message(n)
  PROVE  ChannelInv'
<1> DEFINE c == channel[n]
           m == Head(link[n])
           r == CASE m.type = "init" -> recv_key_exchange_init(n, c, m)
                  [] m.type = "response" -> recv_key_exchange_response(c, m)
                  [] m.type = "final" -> recv_key_exchange_final(c, m)
<1>1. /\ link[n] \in Seq(MessageFrom(peer_id(n))) /\ Sound(n, c, accepted[n], encrypted[n])
      /\ link[n] # <<>> /\ m.type # "data" /\ Ends(n, r, TRUE) /\ UNCHANGED accepted
  BY DEF ChannelInv, recv_key_exchange_message
<1>2. m \in MessageFrom(peer_id(n))
  BY <1>1
<1> HIDE DEF c, m
<1>3. m.type \in {"init", "response", "final"}
  BY <1>1, <1>2 DEF MessageFrom, Data
<1>4. CASE m.type = "init"
  BY <1>1, <1>2, <1>4, RecvInitOutcome, SamePassed, EndsPreserves
<1>5. CASE m.type = "response"
  BY <1>1, <1>2, <1>5, RecvResponseOutcome, SamePassed, EndsPreserves
<1>6. CASE m.type = "final"
  BY <1>1, <1>2, <1>6, RecvFinalOutcome, SamePassed, EndsPreserves
<1> QED BY <1>3, <1>4, <1>5, <1>6

\* Protected messages
LEMMA RecvPreserves ==
  ASSUME ChannelInv, NEW n \in ChannelNode, channel_recv(n)
  PROVE  ChannelInv'
<1> DEFINE c == channel[n]
           m == Head(link[n])
           a == AcceptedWith(c, m, accepted[n])
<1>1. /\ link[n] \in Seq(MessageFrom(peer_id(n))) /\ Sound(n, c, accepted[n], encrypted[n])
      /\ link[n] # <<>> /\ m.type = "data" /\ accepted' = [accepted EXCEPT ![n] = a]
  BY DEF ChannelInv, channel_recv, AcceptedWith
<1>2. PICK elapsed \in BOOLEAN : Ends(n, recv_authenticated(n, c, m, elapsed), TRUE)
  BY DEF channel_recv
<1>3. m \in MessageFrom(peer_id(n))
  BY <1>1
<1> HIDE DEF c, m
<1>4. m \in Data
  BY <1>1, <1>3 DEF MessageFrom
<1>5. Outcome(n, recv_authenticated(n, c, m, elapsed), a, encrypted[n])
  BY <1>1, <1>4, RecvDataOutcome
<1> HIDE DEF a
<1> QED BY <1>1, <1>2, <1>5, EndsPreserves

\* A link loses, duplicates or delays only what was sent.
LEMMA FaultPreserves ==
  ASSUME ChannelInv, NEW n \in ChannelNode, link_fault(n)
  PROVE  ChannelInv'
<1> DEFINE M == MessageFrom(peer_id(n))
<1>1. PICK i \in 1..Len(link[n]) :
        \/ link' = [link EXCEPT ![n] = RemoveAt(@, i)]
        \/ link' = [link EXCEPT ![n] = Append(@, @[i])]
        \/ link' = [link EXCEPT ![n] = Append(RemoveAt(@, i), @[i])]
  BY DEF link_fault
<1>2. link[n] \in Seq(M)
  BY DEF ChannelInv
<1> HIDE DEF M
<1>3. link[n][i] \in M
  BY <1>2
<1>4. RemoveAt(link[n], i) \in Seq(M)
  BY <1>2 DEF RemoveAt
<1>5. Append(link[n], link[n][i]) \in Seq(M) /\ Append(RemoveAt(link[n], i), link[n][i]) \in Seq(M)
  BY <1>2, <1>3, <1>4
<1>6. DOMAIN link' = ChannelNode /\ link'[n] \in Seq(M) /\ \A x \in ChannelNode \ {n} : link'[x] = link[x]
  BY <1>1, <1>4, <1>5 DEF ChannelInv
<1>7. UNCHANGED <<channel, encrypted, accepted>>
  BY DEF link_fault
<1> QED BY <1>6, <1>7 DEF ChannelInv, M

-----------------------------------------------------------------------------
(* The theorems                                                            *)

\* Before the first message, both ends hold their first share, which is in no key.
LEMMA InitInvariant == ChannelInit => ChannelInv
<1> SUFFICES ASSUME ChannelInit PROVE ChannelInv
  OBVIOUS
<1>1. /\ DOMAIN channel = ChannelNode /\ DOMAIN link = ChannelNode
      /\ DOMAIN encrypted = ChannelNode /\ accepted = [n \in ChannelNode |-> accepted[n]]
  BY DEF ChannelInit
<1>2. ASSUME NEW n \in ChannelNode
      PROVE  /\ link[n] \in Seq(MessageFrom(peer_id(n)))
             /\ Sound(n, channel[n], accepted[n], encrypted[n])
  <2> DEFINE c == [status |-> "INACTIVE", shares |-> 1, own |-> <<n, 1>>, peer |-> None,
                   hkdf_salt |-> <<n, 1>>, key |-> None, send_nonce |-> 1, recv_nonce |-> 0,
                   outgoing_msg |-> FALSE]
  <2>1. channel[n] = c /\ link[n] = <<>> /\ accepted[n] = <<>> /\ encrypted[n] = <<>>
    BY DEF ChannelInit
  <2>2. <<n, 1>> \in ShareOf(n) /\ <<n, 1>> \in Shares
    BY SharesTyped
  <2>3. c \in ChannelAt(n)
    BY <2>2 DEF ChannelAt
  <2>4. <<>> \in Seq(Data)
    OBVIOUS
  <2>5. <<>> \in Seq(MessageFrom(peer_id(n)))
    OBVIOUS
  <2>6. Fresh(n, c)
    BY DEF Fresh
  <2>7. Older(n, c, <<>>) /\ AcceptedUpTo(c, <<>>) /\ SentBelow(c, <<>>) /\ IsInjective(<<>>)
    BY DEF Older, AcceptedUpTo, SentBelow, IsInjective
  <2> HIDE DEF c
  <2> QED BY <2>1, <2>3, <2>4, <2>5, <2>6, <2>7 DEF Sound
<1> QED BY <1>1, <1>2 DEF ChannelInv

\* Every step of an end or of a link keeps the invariant.
LEMMA NextInvariant == ChannelInv /\ [ChannelNext]_channel_vars => ChannelInv'
<1> SUFFICES ASSUME ChannelInv, [ChannelNext]_channel_vars PROVE ChannelInv'
  OBVIOUS
<1>1. CASE UNCHANGED channel_vars
  BY <1>1 DEF channel_vars, ChannelInv
<1>2. ASSUME NEW n \in ChannelNode, NEW elapsed \in BOOLEAN, channel_send(n, elapsed)
      PROVE  ChannelInv'
  BY <1>2, SendPreserves
<1>3. ASSUME NEW n \in ChannelNode, recv_key_exchange_message(n) PROVE ChannelInv'
  BY <1>3, KeyExchangePreserves
<1>4. ASSUME NEW n \in ChannelNode, channel_recv(n) PROVE ChannelInv'
  BY <1>4, RecvPreserves
<1>5. ASSUME NEW n \in ChannelNode, link_fault(n) PROVE ChannelInv'
  BY <1>5, FaultPreserves
<1> QED BY <1>1, <1>2, <1>3, <1>4, <1>5 DEF ChannelNext, NodeReceives

\* Both ends are sound at all times.
THEOREM ChannelInvariant == ChannelSpec => []ChannelInv
BY InitInvariant, NextInvariant, PTL DEF ChannelSpec

\* verify_gcm accepts no message twice, for every message limit, number of key
\* exchanges and number of lost, duplicated and delayed messages: a key that has
\* been replaced does not come back, and under one key the nonces only grow.
THEOREM MessagesAcceptedOnce == ChannelSpec => []AcceptedOnce
<1>1. ChannelInv => AcceptedOnce
  BY DEF ChannelInv, Sound, AcceptedOnce
<1> QED BY <1>1, ChannelInvariant, PTL

\* protect_and_send (encrypt_message) protects no two messages with the same key and
\* nonce, although establish starts the nonces anew: it has a key made from a share
\* that was in no key before.
THEOREM NoncesUsedOnce == ChannelSpec => []NonceUsedOnce
<1>1. ChannelInv => NonceUsedOnce
  BY DEF ChannelInv, Sound, NonceUsedOnce
<1> QED BY <1>1, ChannelInvariant, PTL

=============================================================================
