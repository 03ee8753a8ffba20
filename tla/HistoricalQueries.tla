------------------------- MODULE HistoricalQueries -------------------------
(***************************************************************************)
(* The cache of historical states (node/historical_queries.h).  Callers    *)
(* ask again and again for the states at some seqnos; the cache fetches    *)
(* the entries from the host's ledger, with the older ledger secrets that  *)
(* decrypt them, and looks for the signatures that make their receipts.    *)
(* The host reads the ledger asynchronously: its answers come in any       *)
(* order.                                                                  *)
(*                                                                         *)
(* The ledger is committed and does not change.  An entry is its seqno, a  *)
(* receipt the seqno of the signature it was made from.                    *)
(***************************************************************************)
EXTENDS Integers, FiniteSetsExt, SequencesExt

CONSTANTS
  Entries,           \* Entries[i].signature; a signature's tree starts at .from
  PastSecrets,       \* [version, stored]: secret k applies from .version on, and
                     \* entry .stored holds secret k - 1
  Callers,           \* Callers[h]: the [seqnos, receipts] that handle h asks for
  MaxDropped,        \* bound: requests that expire or are dropped
  MaxNoEntry         \* bound: reads the host does not answer with entries

VARIABLES
  requests,          \* requests[h]: the Request of handle h, or NoRequest
  pending_fetches,   \* seqnos that the host was asked for
  reads,             \* <<from, to>>: the ledger_get_range messages not yet answered
  earliest,          \* the first known secret: an index of PastSecrets
  states,            \* states[h]: what the last call for h returned
  dropped, no_entry, \* counters for the bounds
  performed          \* who acted last: a handle, Host or NodeItself

query_vars ==
  <<requests, pending_fetches, reads, earliest, states, dropped, no_entry, performed>>

NoRequest == <<>>

NoSeqno == 0

\* Who acts besides the handles 1, 2, ...
Host == -1

NodeItself == 0

\* StoreDetails
Fetching == [stage |-> "Fetching", receipt |-> NoSeqno, evidence |-> NoSeqno,
             private |-> FALSE]

\* Request, as it is constructed
NewRequest == [seqnos |-> {}, receipts |-> FALSE, stores |-> <<>>,
               supporting |-> <<>>, secret |-> NoSeqno]

\* SeqNoCollection::get_ranges
get_ranges(seqnos) ==
  {r \in seqnos \X seqnos : /\ r[1]..r[2] \subseteq seqnos
                            /\ {r[1] - 1, r[2] + 1} \cap seqnos = {}}

-----------------------------------------------------------------------------
(* Request.                                                                *)

Tracks(q, i) == i \in (DOMAIN q.stores) \cup (DOMAIN q.supporting)

get_store_details(q, i) ==
  IF i \in DOMAIN q.stores THEN q.stores[i] ELSE q.supporting[i]

Set(q, i, details) ==
  IF i \in DOMAIN q.stores THEN [q EXCEPT !.stores[i] = details]
                           ELSE [q EXCEPT !.supporting[i] = details]

Fetched(q, i) == Tracks(q, i) /\ get_store_details(q, i).stage = "Trusted"

\* Mutant: the tree of a signature is taken to reach back to the first entry.
in_range_of_any(s, i) == i < s

\* MerkleTreeHistory::in_range, for the tree stored with signature s
in_range(s, i) == Entries[s].from <= i /\ i < s

\* The receipt that signature s gives to entry i, with the commit evidence of
\* entry e
WithReceipt(details, s, e) == [details EXCEPT !.receipt = s, !.evidence = e]

\* A signature was fetched: the receipts of the earlier entries it covers.
cover_earlier(q, s) ==
  [q EXCEPT !.stores = [i \in DOMAIN q.stores |->
     IF i < s /\ in_range(s, i) /\ q.stores[i].stage = "Trusted"
     THEN WithReceipt(q.stores[i], s, i) ELSE q.stores[i]]]

\* The first signature after i among the requested entries that are fetched.
later_signature(q, i) ==
  LET later == {s \in q.seqnos : s > i /\ Fetched(q, s) /\ Entries[s].signature}
  IN IF later = {} THEN NoSeqno ELSE Min(later)

\* The supporting signature at i or after it, when it is fetched.
supporting_signature(q, i) ==
  LET later == {s \in DOMAIN q.supporting : s >= i}
  IN IF later # {} /\ Fetched(q, Min(later)) /\ Entries[Min(later)].signature
     THEN Min(later) ELSE NoSeqno

\* The seqno after the range that holds i.
after_range(q, i) == Min({r[2] : r \in {r \in get_ranges(q.seqnos) : r[2] >= i}}) + 1

\* The seqno at which the search for a signature goes on after i.
next_unrequested(q, i) == Min(((i + 1)..(i + 1 + Cardinality(q.seqnos))) \ q.seqnos)

\* Request::populate_receipts: the request, and the next seqno to fetch in the
\* search for a signature.  A receipt made from a signature that was fetched
\* before the entry carries the commit evidence of the signature.
populate_receipts(q, i) ==
  LET later == later_signature(q, i)
      s == IF later = NoSeqno THEN supporting_signature(q, i) ELSE later
  IN CASE ~Fetched(q, i) -> [request |-> q, next |-> NoSeqno]
       [] Fetched(q, i) /\ Entries[i].signature ->
            [request |-> cover_earlier(q, i), next |-> NoSeqno]
       [] Fetched(q, i) /\ ~Entries[i].signature /\ i \in DOMAIN q.supporting ->
            [request |-> q, next |-> next_unrequested(q, i)]
       [] OTHER ->
            IF get_store_details(q, i).receipt # NoSeqno
            THEN [request |-> q, next |-> NoSeqno]
            ELSE IF s # NoSeqno /\ in_range(s, i)
            THEN [request |-> Set(q, i, WithReceipt(get_store_details(q, i), s, s)),
                  next |-> NoSeqno]
            ELSE [request |-> q, next |-> after_range(q, i)]

Supported(q, i) ==
  [q EXCEPT !.supporting = [j \in (DOMAIN @) \cup {i} |-> IF j = i THEN Fetching ELSE @[j]]]

\* Request::adjust_ranges: the request, and the seqnos to fetch.
adjust_ranges(q, seqnos, receipts) ==
  LET new == {i \in seqnos : ~Tracks(q, i)}
      adjusted == [seqnos |-> seqnos, receipts |-> receipts,
                   stores |-> [i \in seqnos |-> IF i \in new THEN Fetching
                                                ELSE get_store_details(q, i)],
                   supporting |-> <<>>, secret |-> NoSeqno]
      populate(acc, i) ==
        LET p == populate_receipts(acc.request, i)
        IN IF p.next = NoSeqno THEN [acc EXCEPT !.request = p.request]
           ELSE [request |-> Supported(p.request, p.next), new |-> acc.new \cup {p.next}]
  IN CASE seqnos = q.seqnos /\ receipts = q.receipts -> [request |-> q, new |-> {}]
       [] ~(seqnos = q.seqnos /\ receipts = q.receipts) /\ receipts /\ ~q.receipts ->
            FoldLeft(populate, [request |-> adjusted, new |-> new],
                     SetToSortSeq(seqnos, LAMBDA i, j : i < j))
       [] OTHER -> [request |-> adjusted, new |-> new]

-----------------------------------------------------------------------------
(* The cache: its fields are a record, so that one call can do several     *)
(* things.                                                                 *)

Cache == [requests |-> requests, pending |-> pending_fetches, reads |-> reads,
          earliest |-> earliest]

Becomes(cache) == /\ requests' = cache.requests
                  /\ pending_fetches' = cache.pending
                  /\ reads' = cache.reads
                  /\ earliest' = cache.earliest


\* The host is asked for what lies between the first and the last seqno that is
\* not pending.
fetch_entries_range(cache, r) ==
  LET unfetched == (r[1]..r[2]) \ cache.pending
  IN IF unfetched = {} THEN cache
     ELSE [cache EXCEPT !.pending = @ \cup unfetched,
                        !.reads = @ \cup {<<Min(unfetched), Max(unfetched)>>}]

fetch_all(cache, seqnos) ==
  FoldLeft(fetch_entries_range, cache,
           SetToSortSeq(get_ranges(seqnos), LAMBDA r, s : r[1] < s[1]))

\* fetch_supporting_secret_if_needed: the entry that holds the secret to fetch.
secret_needed(cache, i) ==
  IF i < PastSecrets[cache.earliest].version
  THEN PastSecrets[cache.earliest].stored ELSE NoSeqno

\* handle_encrypted_past_ledger_secret, and what follows it: the secret that
\* request h waited for is known.  The request waits for the one before, or its
\* entries are fetched.
secret_arrived(cache, h, i) ==
  LET known == [cache EXCEPT !.earliest = Min({@} \cup {k - 1 : k \in
                               {k \in 2..Len(PastSecrets) : PastSecrets[k].stored = i}}),
                             !.requests[h].secret = NoSeqno]
      s == secret_needed(known, Min(known.requests[h].seqnos))
  IN IF s = NoSeqno
     THEN fetch_all(known, known.requests[h].seqnos)
     ELSE fetch_entries_range([known EXCEPT !.requests[h].secret = s], <<s, s>>)

\* Entry i was fetched for request h.  The receipt of a signature is its own.
store_arrived(cache, h, i, public_only) ==
  LET trusted == [Fetching EXCEPT !.stage = "Trusted", !.private = ~public_only]
      q == Set(cache.requests[h], i,
               IF Entries[i].signature THEN WithReceipt(trusted, i, i) ELSE trusted)
      p == populate_receipts(q, i)
      searching == [p.request EXCEPT !.supporting = Restrict(@, (DOMAIN @) \ {i})]
  IN CASE ~q.receipts -> [cache EXCEPT !.requests[h] = q]
       [] q.receipts /\ p.next = NoSeqno -> [cache EXCEPT !.requests[h] = p.request]
       [] OTHER -> fetch_entries_range(
                     [cache EXCEPT !.requests[h] = Supported(searching, p.next)],
                     <<p.next, p.next>>)

\* process_deserialised_store
process_deserialised_store(cache, i, public_only) ==
  LET process(c, h) ==
        IF c.requests[h] = NoRequest THEN c
        ELSE IF c.requests[h].secret = i THEN secret_arrived(c, h, i)
        ELSE IF Tracks(c.requests[h], i) /\ ~Fetched(c.requests[h], i)
        THEN store_arrived(c, h, i, public_only)
        ELSE c
  IN FoldLeft(process, cache, SetToSortSeq(DOMAIN Callers, LAMBDA g, h : g < h))

\* handle_ledger_entry: an entry that is not awaited is ignored.  An entry that
\* holds a secret some request waits for is deserialised without its private
\* part.
handle_ledger_entry(cache, i) ==
  LET public_only == \E h \in DOMAIN Callers :
                       cache.requests[h] # NoRequest /\ cache.requests[h].secret = i
      erased == [cache EXCEPT !.pending = @ \ {i}]
      deserialises == public_only \/ i >= PastSecrets[cache.earliest].version
  IN IF i \in cache.pending
     THEN IF deserialises THEN process_deserialised_store(erased, i, public_only)
          ELSE erased
     ELSE cache

-----------------------------------------------------------------------------
QueryInit ==
  /\ requests = [h \in DOMAIN Callers |-> NoRequest]
  /\ pending_fetches = {}
  /\ reads = {}
  /\ earliest = Len(PastSecrets)
  /\ states = [h \in DOMAIN Callers |-> <<>>]
  /\ dropped = 0
  /\ no_entry = 0
  /\ performed = NodeItself

\* get_states_internal
get_states_internal(h) ==
  \E call \in Callers[h] :
    LET q == IF requests[h] = NoRequest THEN NewRequest ELSE requests[h]
        a == adjust_ranges(q, call.seqnos, call.receipts)
        s == secret_needed(Cache, Min(call.seqnos))
        tracked == [Cache EXCEPT !.requests[h] = a.request]
        next == IF s = NoSeqno THEN fetch_all(tracked, a.new)
                ELSE fetch_entries_range([tracked EXCEPT !.requests[h].secret = s], <<s, s>>)
        complete_states == \A i \in call.seqnos :
                             /\ a.request.stores[i].stage = "Trusted"
                             /\ call.receipts => a.request.stores[i].receipt # NoSeqno
    IN /\ Becomes(next)
       /\ states' = [states EXCEPT ![h] = IF complete_states THEN a.request.stores ELSE <<>>]
       /\ performed' = h
       /\ UNCHANGED <<dropped, no_entry>>

\* handle_ledger_entries: the host answers a read.
handle_ledger_entries ==
  \E r \in reads :
    /\ Becomes(FoldLeft(handle_ledger_entry, [Cache EXCEPT !.reads = @ \ {r}],
                        [k \in 1..(r[2] - r[1] + 1) |-> r[1] + k - 1]))
    /\ performed' = Host
    /\ UNCHANGED <<states, dropped, no_entry>>

\* handle_no_entry_range: the host cannot read the entries.  The requests that
\* track one of them, delete_all_interested_requests, are dropped.
handle_no_entry_range ==
  \E r \in reads :
    LET awaited == (r[1]..r[2]) \cap pending_fetches
    IN /\ no_entry < MaxNoEntry
       /\ no_entry' = no_entry + 1
       /\ reads' = reads \ {r}
       /\ pending_fetches' = pending_fetches \ awaited
       /\ requests' = [h \in DOMAIN requests |->
            IF requests[h] # NoRequest /\ \E i \in awaited : Tracks(requests[h], i)
            THEN NoRequest ELSE requests[h]]
       /\ performed' = Host
       /\ UNCHANGED <<earliest, states, dropped>>

\* tick, for requests whose time is over; drop_cached_states, for one.
tick ==
  \E expired \in SUBSET {h \in DOMAIN requests : requests[h] # NoRequest} :
    /\ expired # {}
    /\ dropped < MaxDropped
    /\ dropped' = dropped + 1
    /\ requests' = [h \in DOMAIN requests |-> IF h \in expired THEN NoRequest ELSE requests[h]]
    /\ states' = [h \in DOMAIN requests |-> IF h \in expired THEN <<>> ELSE states[h]]
    /\ performed' = NodeItself
    /\ UNCHANGED <<pending_fetches, reads, earliest, no_entry>>

QueryNext ==
  \/ \E h \in DOMAIN Callers : get_states_internal(h)
  \/ handle_ledger_entries
  \/ handle_no_entry_range
  \/ tick

\* Every caller asks again and again; the host answers while it has a read to
\* answer.
QueryFairness ==
  /\ \A h \in DOMAIN Callers : []<>(performed = h)
  /\ []<>(performed = Host \/ reads = {})

QuerySpec == QueryInit /\ [][QueryNext]_query_vars /\ QueryFairness

-----------------------------------------------------------------------------
(* Properties.                                                             *)

\* A receipt that get_state_range returns was made from a signature whose Merkle
\* tree holds the entry, whatever the order in which the entries and the
\* signatures came and whatever request fetched them (populate_receipts).
ReceiptsCovered ==
  \A h \in DOMAIN Callers : \A i \in DOMAIN states[h] :
    LET s == states[h][i].receipt
    IN s # NoSeqno => Entries[s].signature /\ i \in Entries[s].from..s

\* A caller that keeps asking for the same seqnos gets its states, although its
\* request may expire, a fetch is shared with other requests, secrets and
\* signatures are fetched one after the other, and some reads fail.
QueriesAnswered == \A h \in DOMAIN Callers : []<>(states[h] # <<>>)
=============================================================================
