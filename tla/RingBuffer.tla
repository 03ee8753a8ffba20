----------------------------- MODULE RingBuffer -----------------------------
(***************************************************************************)
(* The ring buffer between host and enclave (ds/ring_buffer.h), with the   *)
(* two writers stacked on it: the non-blocking writer of the host          *)
(* (ds/non_blocking.h) and the one that splits oversized messages          *)
(* (ds/oversized.h).  Several threads write and one thread reads.          *)
(*                                                                         *)
(* Loads, stores and the exchange of the shared offsets are steps of their *)
(* own, and so are writes of headers.  The bytes of a message are written  *)
(* with its pending header: no reader looks at them before the header is   *)
(* rewritten.  The unit of length is the size of a header.                 *)
(***************************************************************************)
EXTENDS Integers, SequencesExt

CONSTANTS
  RingSize,          \* bd.size
  MaxFragment,       \* max_fragment_size
  RingWriters,       \* the writers
  Setups,            \* whether each writer is blocking, and the sizes of its messages
  Uninitialised      \* the values an uninitialised identifier may have

VARIABLES
  ring,              \* data and the Offsets head_cache, tail and head
  writers,           \* writers[w]: the locals and members of a writer
  reader,            \* advance in Reader::read, and partial_messages
  dispatched         \* the messages that the dispatcher has handed on

ring_vars == <<ring, writers, reader, dispatched>>

NoIndex == -1

\* What is in a unit of the buffer: zero (msg_none), a header or a payload.
Zero == [tag |-> "zero"]
Pad(padding) == [tag |-> "pad", size |-> padding]
Pending(p) == [tag |-> "pending", packet |-> p]
Finished(p) == [tag |-> "finished", packet |-> p]
Payload(p) == [tag |-> "payload", packet |-> p]

entry_size(n) == n + 1

-----------------------------------------------------------------------------
(* oversized::Writer *)

\* The k-th fragment of a message starts with one unit of header and identifier.
Fragment(w, m, total, k) ==
  LET room == MaxFragment - 1
      of == (total + room - 1) \div room
  IN [w |-> w, m |-> m, k |-> k, of |-> of, id |-> 0, total |-> total,
      size |-> IF k < of THEN MaxFragment ELSE total - room * (of - 1) + 1]

\* What write hands to the underlying writer for the m-th message.
Packets(w, m, total) ==
  IF total <= MaxFragment
    THEN <<[w |-> w, m |-> m, k |-> 1, of |-> 1, id |-> 0, total |-> total, size |-> total]>>
    ELSE LET of == Fragment(w, m, total, 1).of
         IN [k \in 1..of |-> Fragment(w, m, total, k)]

AllPackets(w, sizes) ==
  FlattenSeq([m \in 1..Len(sizes) |-> Packets(w, m, sizes[m])])

\* The packet that writer r is about to write.
Current(r) == IF r.flushing THEN Head(r.pending) ELSE Head(r.todo)

\* The identifier of the message that p belongs to: fresh when p is its first fragment.
identifier(r, p, fresh) == IF p.of = 1 THEN 0 ELSE IF p.k = 1 THEN fresh ELSE r.id

\* No message of writer r is under way.
BetweenMessages(r) == r.pc = "idle" /\ r.open = NoIndex /\ (r.todo # <<>> => Head(r.todo).k = 1)

-----------------------------------------------------------------------------
(* Writer::reserve *)

RingInit ==
  \E s \in Setups :
    /\ ring = [data |-> [i \in 0..(RingSize - 1) |-> Zero], head_cache |-> 0, tail |-> 0, head |-> 0]
    /\ writers = [w \in RingWriters |->
         [pc |-> "idle", blocking |-> s.blocking[w], todo |-> AllPackets(w, s.sizes[w]),
          id |-> 0, hd |-> 0, tl |-> 0, padding |-> 0, index |-> 0, open |-> NoIndex,
          pending |-> <<>>, flushing |-> FALSE]]
    /\ reader = [advance |-> 0, free |-> FALSE, partial |-> <<>>]
    /\ dispatched = <<>>

rsize(r) == entry_size(Current(r).size)

avail(hd, tl) == RingSize - (tl - hd)

\* Where the entry goes, once there is room for it.
place(r) ==
  LET block == RingSize - (r.tl % RingSize)
      padded == rsize(r) > block
  IN [r EXCEPT !.pc = IF padded /\ rsize(r) > r.hd % RingSize THEN "load_head_2" ELSE "exchange",
               !.padding = IF padded THEN block ELSE 0]

\* The loop body, with hd and tl loaded.  tl - hd is unsigned in the code.
attempt(r) ==
  IF r.tl - r.hd \notin 0..RingSize \/ rsize(r) > avail(r.hd, r.tl)
    THEN [r EXCEPT !.pc = "load_head"]
    ELSE place(r)

load_cache(w) ==
  /\ writers[w].pc = "reserve"
  /\ writers' = [writers EXCEPT ![w] = [@ EXCEPT !.pc = "load_tail", !.hd = ring.head_cache]]
  /\ UNCHANGED <<ring, reader, dispatched>>

load_tail(w) ==
  /\ writers[w].pc = "load_tail"
  /\ writers' = [writers EXCEPT ![w] = attempt([@ EXCEPT !.tl = ring.tail])]
  /\ UNCHANGED <<ring, reader, dispatched>>

\* The packet joins the queue of the non-blocking writer.  NonBlockingWriter::
\* prepare does not assign the identifier, which prepare of oversized::Writer has
\* left uninitialised.
queued(r, uninitialised) ==
  LET p == Head(r.todo)
      id == identifier(r, p, uninitialised)
  IN [r EXCEPT !.pc = IF r.open = NoIndex THEN "idle" ELSE "finish_previous",
               !.todo = Tail(r.todo), !.id = id, !.index = NoIndex,
               !.pending = Append(r.pending, [p EXCEPT !.id = id])]

\* reserve returns nothing: the writer retries, stops flushing or queues the packet.
reserve_fails(w, r) ==
  IF r.blocking THEN writers' = [writers EXCEPT ![w] = [r EXCEPT !.pc = "reserve"]]
  ELSE IF r.flushing
    THEN writers' = [writers EXCEPT ![w] = [r EXCEPT !.pc = "idle", !.flushing = FALSE]]
    ELSE \E u \in Uninitialised : writers' = [writers EXCEPT ![w] = queued(r, u)]

\* If the head has passed the tail loaded earlier, the exchange is bound to fail.
load_head(w) ==
  LET r == [writers[w] EXCEPT !.hd = ring.head] IN
  /\ r.pc = "load_head"
  /\ IF r.hd <= r.tl /\ rsize(r) > avail(r.hd, r.tl)
       THEN reserve_fails(w, r)
       ELSE writers' = [writers EXCEPT ![w] =
              [r EXCEPT !.pc = IF r.hd > r.tl THEN "exchange" ELSE "store_cache"]]
  /\ UNCHANGED <<ring, reader, dispatched>>

store_cache(w) ==
  /\ writers[w].pc = "store_cache"
  /\ ring' = [ring EXCEPT !.head_cache = writers[w].hd]
  /\ writers' = [writers EXCEPT ![w] = place(@)]
  /\ UNCHANGED <<reader, dispatched>>

\* The entry does not fit behind the tail: has the head left room in front?
load_head_2(w) ==
  LET r == [writers[w] EXCEPT !.hd = ring.head] IN
  /\ r.pc = "load_head_2"
  /\ IF rsize(r) > r.hd % RingSize
       THEN reserve_fails(w, r)
       ELSE writers' = [writers EXCEPT ![w] = [r EXCEPT !.pc = "store_cache_2"]]
  /\ UNCHANGED <<ring, reader, dispatched>>

store_cache_2(w) ==
  /\ writers[w].pc = "store_cache_2"
  /\ ring' = [ring EXCEPT !.head_cache = writers[w].hd]
  /\ writers' = [writers EXCEPT ![w].pc = "exchange"]
  /\ UNCHANGED <<reader, dispatched>>

compare_exchange(w) ==
  LET r == writers[w] IN
  /\ r.pc = "exchange"
  /\ IF ring.tail = r.tl
       THEN /\ ring' = [ring EXCEPT !.tail = r.tl + rsize(r) + r.padding]
            /\ writers' = [writers EXCEPT ![w] =
                 [@ EXCEPT !.pc = IF r.padding = 0 THEN "header" ELSE "pad",
                           !.index = IF r.padding = 0 THEN r.tl % RingSize ELSE 0]]
       ELSE /\ writers' = [writers EXCEPT ![w] = attempt([@ EXCEPT !.tl = ring.tail])]
            /\ UNCHANGED ring
  /\ UNCHANGED <<reader, dispatched>>

write_padding(w) ==
  LET r == writers[w] IN
  /\ r.pc = "pad"
  /\ ring' = [ring EXCEPT !.data[r.tl % RingSize] = Pad(r.padding)]
  /\ writers' = [writers EXCEPT ![w].pc = "header"]
  /\ UNCHANGED <<reader, dispatched>>

-----------------------------------------------------------------------------
(* Writer::prepare, write_bytes and finish *)

\* Mutant: a fragment waits until the one before it is finished.
prepare_in_turn(w) ==
  LET r == writers[w] IN
  /\ r.pc = "idle" /\ r.todo # <<>> /\ r.open = NoIndex
  /\ IF r.pending = <<>>
       THEN writers' = [writers EXCEPT ![w].pc = "reserve"]
       ELSE \E u \in Uninitialised : writers' = [writers EXCEPT ![w] = queued(r, u)]
  /\ UNCHANGED <<ring, reader, dispatched>>

\* prepare begins: a non-blocking writer with queued packets queues this one too.
prepare(w) ==
  LET r == writers[w] IN
  /\ r.pc = "idle" /\ r.todo # <<>>
  /\ IF r.pending = <<>>
       THEN writers' = [writers EXCEPT ![w].pc = "reserve"]
       ELSE \E u \in Uninitialised : writers' = [writers EXCEPT ![w] = queued(r, u)]
  /\ UNCHANGED <<ring, reader, dispatched>>

\* The preliminary header and the bytes.  The identifier of a reservation is its tl.
write_header(w) ==
  LET r == writers[w]
      p == [Current(r) EXCEPT !.id = IF r.flushing THEN @ ELSE identifier(r, Current(r), r.tl)]
  IN /\ r.pc = "header"
     /\ ring' = [ring EXCEPT !.data = [i \in DOMAIN @ |->
          IF i = r.index THEN Pending(p)
          ELSE IF i \in (r.index + 1)..(r.index + p.size) THEN Payload(p) ELSE @[i]]]
     /\ writers' = [writers EXCEPT ![w] =
          [@ EXCEPT !.id = p.id,
                    !.pc = IF r.open # NoIndex THEN "finish_previous"
                           ELSE IF r.flushing \/ p.k = p.of THEN "finish" ELSE "idle",
                    !.open = IF r.open = NoIndex /\ ~r.flushing /\ p.k < p.of THEN r.index ELSE @,
                    !.todo = IF r.flushing THEN @ ELSE Tail(@),
                    !.pending = IF r.flushing THEN Tail(@) ELSE @]]
     /\ UNCHANGED <<reader, dispatched>>

finished(index) == [ring EXCEPT !.data[index] = Finished(@.packet)]

\* Writer::write_bytes of an oversized message: the next fragment has been prepared.
finish_previous(w) ==
  LET r == writers[w]
      last == r.todo = <<>> \/ Head(r.todo).k = 1
  IN /\ r.pc = "finish_previous"
     /\ ring' = finished(r.open)
     /\ writers' = [writers EXCEPT ![w] =
          [@ EXCEPT !.pc = IF last /\ r.index # NoIndex THEN "finish" ELSE "idle",
                    !.open = IF last THEN NoIndex ELSE r.index]]
     /\ UNCHANGED <<reader, dispatched>>

finish(w) ==
  /\ writers[w].pc = "finish"
  /\ ring' = finished(writers[w].index)
  /\ writers' = [writers EXCEPT ![w] = [@ EXCEPT !.pc = "idle", !.flushing = FALSE]]
  /\ UNCHANGED <<reader, dispatched>>

\* try_flush_pending takes the queue one packet at a time, between two messages.
try_flush_pending(w) ==
  /\ BetweenMessages(writers[w]) /\ writers[w].pending # <<>>
  /\ writers' = [writers EXCEPT ![w] = [@ EXCEPT !.pc = "reserve", !.flushing = TRUE]]
  /\ UNCHANGED <<ring, reader, dispatched>>

-----------------------------------------------------------------------------
(* Reader::read(1), and FragmentReconstructor *)

\* What the dispatcher hands on when it cannot make sense of the bytes.
Garbled == [w |-> "garbled", m |-> 0]

received(packets) == FoldLeft(LAMBDA n, p : n + p.size - 1, 0, packets)

\* The packets are the fragments of one message, in order.
whole(packets) == packets = Packets(Head(packets).w, Head(packets).m, Head(packets).total)

without(partial, id) == [x \in DOMAIN partial \ {id} |-> partial[x]]

\* The handler of a fragment, which says nothing of its place in the message.
on_fragment(p) ==
  LET so_far == IF p.id \in DOMAIN reader.partial THEN reader.partial[p.id] ELSE <<>>
      now == Append(so_far, [p EXCEPT !.id = 0])
      total == Head(now).total
  IN IF Head(now).k # 1 \/ received(now) > total
       THEN <<without(reader.partial, p.id), <<Garbled>>>>
     ELSE IF received(now) = total
       THEN <<without(reader.partial, p.id),
              IF whole(now) THEN <<[w |-> p.w, m |-> p.m]>> ELSE <<Garbled>>>>
     ELSE <<[x \in DOMAIN reader.partial \union {p.id} |->
               IF x = p.id THEN now ELSE reader.partial[x]], <<>>>>

on_message(p, intact) ==
  IF ~intact THEN <<reader.partial, <<Garbled>>>>
  ELSE IF p.of = 1 THEN <<reader.partial, <<[w |-> p.w, m |-> p.m]>>>>
  ELSE on_fragment(p)

read_index == (ring.head % RingSize) + reader.advance

Found(tag) == read_index < RingSize /\ ring.data[read_index].tag = tag

read_padding ==
  /\ ~reader.free /\ Found("pad")
  /\ reader' = [reader EXCEPT !.advance = @ + ring.data[read_index].size]
  /\ UNCHANGED <<ring, writers, dispatched>>


\* A payload in the place of a header would be taken for one.
read_message ==
  /\ ~reader.free /\ (Found("finished") \/ Found("payload"))
  /\ LET p == ring.data[read_index].packet
         intact == /\ Found("finished")
                   /\ \A i \in (read_index + 1)..(read_index + p.size) :
                        i \in DOMAIN ring.data /\ ring.data[i] = Payload(p)
         result == on_message(p, intact)
     IN /\ reader' = [reader EXCEPT !.advance = @ + entry_size(p.size), !.free = TRUE,
                                    !.partial = result[1]]
        /\ dispatched' = dispatched \o result[2]
  /\ UNCHANGED <<ring, writers>>

cleared(first, n) ==
  [i \in DOMAIN ring.data |-> IF i \in first..(first + n - 1) THEN Zero ELSE ring.data[i]]

\* The end of read: one message or no more, and something to free.
read_end ==
  /\ reader.free \/ (reader.advance > 0 /\ (Found("zero") \/ Found("pending") \/ read_index >= RingSize))
  /\ ring' = [ring EXCEPT !.data = cleared(ring.head % RingSize, reader.advance),
                          !.head = @ + reader.advance]
  /\ reader' = [reader EXCEPT !.advance = 0, !.free = FALSE]
  /\ UNCHANGED <<writers, dispatched>>

-----------------------------------------------------------------------------

WriterNext(w) ==
  \/ prepare(w) \/ try_flush_pending(w)
  \/ load_cache(w) \/ load_tail(w) \/ load_head(w) \/ store_cache(w)
  \/ load_head_2(w) \/ store_cache_2(w) \/ compare_exchange(w) \/ write_padding(w)
  \/ write_header(w) \/ finish_previous(w) \/ finish(w)

ReaderNext == read_padding \/ read_message \/ read_end

RingNext == ReaderNext \/ \E w \in RingWriters : WriterNext(w)

\* The reader polls the buffer, and every writing thread goes on.  The host flushes
\* queued packets every millisecond, so that flushing is part of WriterNext.
RingFairness ==
  /\ WF_ring_vars(ReaderNext)
  /\ \A w \in RingWriters : WF_ring_vars(WriterNext(w))

RingSpec == RingInit /\ [][RingNext]_ring_vars /\ RingFairness

-----------------------------------------------------------------------------
(* Properties *)

DispatchedFrom(w) == SelectSeq(dispatched, LAMBDA d : d.w = w)


AllDispatched ==
  \A w \in RingWriters :
    /\ writers[w].todo = <<>> /\ writers[w].pending = <<>> /\ writers[w].pc = "idle"
    /\ ring.head = ring.tail /\ DOMAIN reader.partial = {}

\* Every message is handed on in the end: no writer waits for ever for space that
\* the reader cannot free, and nothing stays in the queue of a non-blocking writer
\* or in partial_messages.
EveryMessageDispatched == []<>AllDispatched

=============================================================================
