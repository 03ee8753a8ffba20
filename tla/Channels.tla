------------------------------ MODULE Channels ------------------------------
(***************************************************************************)
(* The channel between two nodes (node/channels.h): a key exchange of      *)
(* three messages, which either end starts and restarts, and the messages  *)
(* that the keys protect.  The links are ordered; a bounded number of      *)
(* messages is lost, duplicated or delayed when a connection is replaced.  *)
(*                                                                         *)
(* A key share, or a salt, is a number that its node has not used before.  *)
(* Signatures and authenticated encryption are perfect: a message says     *)
(* what was signed or which key protects it.  All calls are made by one    *)
(* thread.  Only tests call close_channel.                                 *)
(***************************************************************************)
EXTENDS Integers, SequencesExt

CONSTANTS
  MessageLimit,      \* message_limit, at which the keys are replaced
  MaxShares,         \* bound: key shares that a node creates
  MaxFaults,         \* bound: messages lost, duplicated or delayed
  MaxInFlight        \* bound: a node sends when fewer messages are on their way

ASSUME ChannelLimit == MessageLimit \in Nat

VARIABLES
  channel,           \* channel[n]: the members of Channel at node n
  link,              \* link[n]: the messages on their way to node n
  faults,            \* the number of faults so far
  encrypted,         \* encrypted[n]: key and nonce of the messages n has sent
  accepted           \* accepted[n]: key and nonce of the messages n has accepted

channel_vars == <<channel, link, faults, encrypted, accepted>>

ChannelNode == {1, 2}

peer_id(n) == 3 - n

None == <<>>

\* A nonce at the limit or above it makes its receiver replace the keys, so that
\* these are not told apart.
Capped(nonce) == IF nonce > MessageLimit THEN MessageLimit ELSE nonce

-----------------------------------------------------------------------------
(* What a call makes of a channel: its members, and the messages it sends. *)

Result(c, out) == [channel |-> c, out |-> out]

\* Mutant: the own share is created once.
kex_reset_once(n, c) ==
  [c EXCEPT !.shares = @ + 1, !.own = <<n, 1>>, !.peer = None]

\* KeyExchangeContext::reset
kex_reset(n, c) ==
  [c EXCEPT !.shares = @ + 1, !.own = <<n, c.shares + 1>>, !.peer = None]

reset(n, c) ==
  LET k == kex_reset(n, c)
  IN [k EXCEPT !.status = "INACTIVE", !.key = None, !.hkdf_salt = k.own]

send_key_exchange_init(c) == [type |-> "init", ks |-> c.own, salt |-> c.hkdf_salt]

send_key_exchange_response(c) == [type |-> "response", ks |-> c.own, peer |-> c.peer]

send_key_exchange_final(c) == [type |-> "final", ks |-> c.peer]

\* The share of an inactive channel has never been sent, so that replacing it by
\* another one makes no difference.
initiate(n, c) ==
  LET k == IF c.status = "INACTIVE" THEN c ELSE kex_reset(n, c)
      i == [k EXCEPT !.status = "INITIATED", !.hkdf_salt = k.own]
  IN Result(i, <<send_key_exchange_init(i)>>)

\* An initiated exchange is started again when enough time has elapsed.
advance_connection_attempt(n, c, elapsed) ==
  IF c.status = "INACTIVE" \/ (c.status = "INITIATED" /\ elapsed)
    THEN initiate(n, c) ELSE Result(c, <<>>)

protect(c) ==
  Result([c EXCEPT !.send_nonce = Capped(@ + 1)],
         <<[type |-> "data", key |-> c.key, nonce |-> c.send_nonce]>>)

\* At most one message waits for the channel to be established.
send(n, c, elapsed) ==
  IF c.status = "ESTABLISHED" THEN protect(c)
  ELSE LET a == advance_connection_attempt(n, c, elapsed)
       IN Result([a.channel EXCEPT !.outgoing_msg = TRUE], a.out)

establish(c) ==
  LET e == [c EXCEPT !.status = "ESTABLISHED", !.own = None, !.peer = None,
                     !.key = [shares |-> {c.own, c.peer}, salt |-> c.hkdf_salt],
                     !.send_nonce = 1, !.recv_nonce = 0]
  IN IF ~c.outgoing_msg THEN Result(e, <<>>) ELSE protect([e EXCEPT !.outgoing_msg = FALSE])

\* they_have_priority is self < peer_id.
recv_key_exchange_init(n, c, m) ==
  IF c.status = "INITIATED" /\ ~(n < peer_id(n)) THEN Result(c, <<>>)
  ELSE LET k == IF c.status = "ESTABLISHED" THEN kex_reset(n, c) ELSE c
           w == [k EXCEPT !.status = "WAITING_FOR_FINAL", !.peer = m.ks, !.hkdf_salt = m.salt]
       IN Result(w, <<send_key_exchange_response(w)>>)

\* Mutant: the initiator does not confirm the exchange.
recv_key_exchange_response_silent(c, m) ==
  IF c.status # "INITIATED" \/ m.peer # c.own THEN Result(c, <<>>)
  ELSE establish([c EXCEPT !.peer = m.ks])

recv_key_exchange_response(c, m) ==
  IF c.status # "INITIATED" \/ m.peer # c.own THEN Result(c, <<>>)
  ELSE LET l == [c EXCEPT !.peer = m.ks]
           e == establish(l)
       IN Result(e.channel, <<send_key_exchange_final(l)>> \o e.out)

recv_key_exchange_final(c, m) ==
  IF c.status # "WAITING_FOR_FINAL" \/ m.ks # c.own THEN Result(c, <<>>) ELSE establish(c)

\* Mutant: the nonce received last is accepted again.
Replayed_off_by_one(c, m) == m.nonce < c.recv_nonce

Replayed(c, m) == m.nonce <= c.recv_nonce

Accepts(c, m) == c.status = "ESTABLISHED" /\ ~Replayed(c, m) /\ m.key = c.key

\* The limit counts a message that does not verify, too.
decrypt(n, c, m) ==
  LET d == [c EXCEPT !.recv_nonce = IF m.key = c.key THEN m.nonce ELSE @] IN
  IF Replayed(c, m) THEN Result(c, <<>>)
  ELSE IF c.send_nonce + m.nonce >= MessageLimit THEN initiate(n, reset(n, d))
  ELSE Result(d, <<>>)

\* recv_authenticated, recv_authenticated_with_load and recv_encrypted
recv_authenticated(n, c, m, elapsed) ==
  IF c.status # "ESTABLISHED" THEN advance_connection_attempt(n, c, elapsed)
  ELSE decrypt(n, c, m)

-----------------------------------------------------------------------------

ChannelInit ==
  /\ channel = [n \in ChannelNode |->
       [status |-> "INACTIVE", shares |-> 1, own |-> <<n, 1>>, peer |-> None,
        hkdf_salt |-> <<n, 1>>, key |-> None, send_nonce |-> 1, recv_nonce |-> 0,
        outgoing_msg |-> FALSE]]
  /\ link = [n \in ChannelNode |-> <<>>]
  /\ faults = 0
  /\ encrypted = [n \in ChannelNode |-> <<>>]
  /\ accepted = [n \in ChannelNode |-> <<>>]

\* The protected message among those that a call sends: the last one, if any.
Protected(out) ==
  IF out # <<>> /\ out[Len(out)].type = "data" /\ out[Len(out)].nonce < MessageLimit
    THEN <<out[Len(out)]>> ELSE <<>>

\* Node n ends a call with result r, having taken its first message off the link
\* if received.
Ends(n, r, received) ==
  /\ r.channel.shares <= MaxShares
  /\ channel' = [channel EXCEPT ![n] = r.channel]
  /\ link' = [link EXCEPT ![n] = IF received THEN Tail(@) ELSE @, ![peer_id(n)] = @ \o r.out]
  /\ encrypted' = [encrypted EXCEPT ![n] = @ \o Protected(r.out)]
  /\ UNCHANGED faults

channel_send(n, elapsed) ==
  /\ Len(link[peer_id(n)]) < MaxInFlight
  /\ Ends(n, send(n, channel[n], elapsed), FALSE)
  /\ UNCHANGED accepted

recv_key_exchange_message(n) ==
  LET c == channel[n]
      m == Head(link[n])
  IN /\ link[n] # <<>> /\ m.type # "data"
     /\ Ends(n, CASE m.type = "init" -> recv_key_exchange_init(n, c, m)
                  [] m.type = "response" -> recv_key_exchange_response(c, m)
                  [] m.type = "final" -> recv_key_exchange_final(c, m), TRUE)
     /\ UNCHANGED accepted

channel_recv(n) ==
  LET c == channel[n]
      m == Head(link[n])
  IN /\ link[n] # <<>> /\ m.type = "data"
     /\ \E elapsed \in BOOLEAN : Ends(n, recv_authenticated(n, c, m, elapsed), TRUE)
     /\ accepted' = [accepted EXCEPT ![n] =
          IF Accepts(c, m) /\ m.nonce < MessageLimit THEN Append(@, m) ELSE @]

\* The connection that carries the messages is replaced.
link_fault(n) ==
  /\ faults < MaxFaults
  /\ \E i \in 1..Len(link[n]) :
       \/ link' = [link EXCEPT ![n] = RemoveAt(@, i)]
       \/ link' = [link EXCEPT ![n] = Append(@, @[i])]
       \/ link' = [link EXCEPT ![n] = Append(RemoveAt(@, i), @[i])]
  /\ faults' = faults + 1
  /\ UNCHANGED <<channel, encrypted, accepted>>

NodeReceives(n) == recv_key_exchange_message(n) \/ channel_recv(n)

ChannelNext ==
  \E n \in ChannelNode :
    (\E elapsed \in BOOLEAN : channel_send(n, elapsed)) \/ NodeReceives(n) \/ link_fault(n)

\* Consensus keeps sending on every channel, also when an attempt is old enough to
\* be made again, and the links deliver.
ChannelFairness ==
  \A n \in ChannelNode : WF_channel_vars(channel_send(n, TRUE)) /\ WF_channel_vars(NodeReceives(n))

ChannelSpec == ChannelInit /\ [][ChannelNext]_channel_vars /\ ChannelFairness

-----------------------------------------------------------------------------
(* Properties *)

\* A message that is sent once is accepted at most once, whatever is duplicated or
\* delayed and however often the keys are replaced (local_recv_nonce, "used to
\* prevent replayed messages").
AcceptedOnce == \A n \in ChannelNode : IsInjective(accepted[n])

\* No key protects two messages with the same nonce: every establish has new keys,
\* although it starts the nonces anew.
NonceUsedOnce == \A n \in ChannelNode : IsInjective(encrypted[n])

Established ==
  /\ \A n \in ChannelNode : channel[n].status = "ESTABLISHED"
  /\ channel[1].key = channel[2].key

\* The bound on key shares is reached.
OutOfShares == \E n \in ChannelNode : channel[n].shares >= MaxShares

\* As long as no message is lost, duplicated or delayed, the channel is established
\* again and again, with the same keys on both ends: attempts that cross, and the
\* replacement of keys, do not block it.
ChannelEstablished == []<>(Established \/ OutOfShares \/ faults > 0)

=============================================================================
