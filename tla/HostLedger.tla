----------------------------- MODULE HostLedger -----------------------------
(***************************************************************************)
(* The ledger that the host of one node keeps on disk (host/ledger.h): a   *)
(* directory of chunks, the last of which are open for writing.  The       *)
(* enclave (ledger_enclave.h, raft.h, node_state.h) has entries appended,  *)
(* truncated and committed.  The process may crash between two messages    *)
(* and be started again, to join the service or to recover it.             *)
(*                                                                         *)
(* The ring buffer delivers the messages of the enclave in order, so that  *)
(* a message and its handler are one action.  A chunk that is renamed to   *)
(* be ignored is never read again: here it leaves the disk.                *)
(***************************************************************************)
EXTENDS Integers, SequencesExt

CONSTANTS
  ChunkThreshold,   \* chunk_threshold, in entries
  MaxIdx,           \* bound: index of the last entry
  MaxGeneration,    \* bound: truncations and crashes
  ServiceAtJoin     \* what a service may have committed when a new node joins

VARIABLES
  disk,             \* disk[name]: the chunks of the main ledger directory
  ledger,           \* the members of Ledger, and the state of the node
  log,              \* the entries that consensus has on this node
  service,          \* the entries that the service has committed while open
  held,             \* the indices that this node has on disk for the service
  generation        \* the number of truncations and crashes so far

ledger_vars == <<disk, ledger, log, service, held, generation>>

-----------------------------------------------------------------------------
(* LedgerFile *)

\* last is 0 in the name of a chunk that is not committed.
FileName(start, recovery) == [start |-> start, last |-> 0, recovery |-> recovery]

\* The first flushed of the entries are in the file, stdio may hold the others.
\* complete says whether the table of positions has been written.
EmptyFile == [entries |-> <<>>, flushed |-> 0, complete |-> FALSE]

get_last_idx(d, name) == name.start + Len(d[name].entries) - 1

WithFile(d, name, file) ==
  [n \in DOMAIN d \union {name} |-> IF n = name THEN file ELSE d[n]]

Without(d, names) == [n \in DOMAIN d \ names |-> d[n]]

\* The files in DOMAIN new are renamed to new[name].
Renamed(d, new) ==
  [n \in (DOMAIN d \ DOMAIN new) \union Range(new) |->
     IF n \in Range(new) THEN d[CHOOSE m \in DOMAIN new : new[m] = n] ELSE d[n]]

complete(d, name) ==
  [d EXCEPT ![name] = [@ EXCEPT !.complete = TRUE, !.flushed = Len(d[name].entries)]]

\* Mutant: an entry with a signature is not flushed.
file_write_entry_unflushed(d, name, entry) ==
  [d EXCEPT ![name] = [@ EXCEPT !.entries = Append(@, entry)]]

file_write_entry(d, name, entry) ==
  LET entries == Append(d[name].entries, entry) IN
  [d EXCEPT ![name] =
    [@ EXCEPT !.entries = entries,
              !.flushed = IF entry.committable THEN Len(entries) ELSE @]]

\* Truncating everything removes the file.
truncates_all(name, idx) == name.last = 0 /\ idx = name.start - 1

file_truncate(d, name, idx) ==
  LET entries == SubSeq(d[name].entries, 1, idx - name.start + 1) IN
  IF \/ name.last # 0
     \/ idx < name.start - 1
     \/ d[name].complete /\ idx >= get_last_idx(d, name)
  THEN d
  ELSE IF truncates_all(name, idx) THEN Without(d, {name})
  ELSE [d EXCEPT ![name] =
         [entries |-> entries, flushed |-> Len(entries), complete |-> FALSE]]

\* Whether committing at idx renames the file, and its new name.
file_commits(d, name, idx) ==
  d[name].complete /\ name.last = 0 /\ idx = get_last_idx(d, name)

CommittedName(d, name) == [name EXCEPT !.last = get_last_idx(d, name)]

-----------------------------------------------------------------------------
(* Ledger: looking up and reading entries *)

\* The position of the first of the open chunks that reaches idx.
get_it_contains_idx(idx) ==
  Min({Len(ledger.files) + 1}
      \union {i \in DOMAIN ledger.files : idx <= get_last_idx(disk, ledger.files[i])})

\* The last of the open chunks that starts at or before idx, or else whichever
\* committed chunk with idx in its name the directory lists first.
get_file_from_idx(idx) ==
  LET open == {i \in DOMAIN ledger.files : ledger.files[i].start <= idx} IN
  IF open # {} THEN {ledger.files[Max(open)]}
  ELSE {n \in DOMAIN disk : n.last # 0 /\ n.start <= idx /\ idx <= n.last}

NotFound == [generation |-> -1, committable |-> FALSE, before |-> FALSE, after |-> FALSE]

\* read_entries_range for one index: what each of those chunks has there.
read_entry(idx) ==
  LET At(n) == IF idx \in n.start..get_last_idx(disk, n)
               THEN disk[n].entries[idx - n.start + 1] ELSE NotFound
      found == get_file_from_idx(idx)
  IN IF idx > ledger.last_idx \/ found = {} THEN {NotFound} ELSE {At(n) : n \in found}

-----------------------------------------------------------------------------
(* Messages of the enclave *)

Down == "down"      \* the process is not running
Starting == "starting"  \* the Ledger is constructed, the enclave is idle
Running == "running"

\* A node that starts a service, or one that is about to join a service.
LedgerInit ==
  /\ disk = <<>>
  /\ \E joins \in BOOLEAN :
       /\ ledger = [node |-> IF joins THEN Starting ELSE Running, files |-> <<>>,
                    last_idx |-> 0, committed_idx |-> 0, commit_idx |-> 0,
                    require_new_file |-> TRUE,
                    recovery_start_idx |-> 0, service_open |-> TRUE, opening |-> 0]
       /\ service = IF joins THEN ServiceAtJoin ELSE <<>>
  /\ log = <<>> /\ held = [first |-> 1, last |-> 0] /\ generation = 0

Recovering == ledger.recovery_start_idx # 0

\* Ledger::write_entry.  A chunk is closed before an entry that asks for it,
\* and after one with a signature that asks for it or makes it long enough.
write_entry(entry) ==
  LET last   == Len(ledger.files)
      closes == entry.before /\ last # 0
      fresh  == closes \/ ledger.require_new_file
      start  == ledger.last_idx + 1
      name   == IF fresh THEN FileName(start, Recovering /\ start > ledger.recovery_start_idx)
                ELSE ledger.files[last]
      closed == IF closes THEN complete(disk, ledger.files[last]) ELSE disk
      opened == IF fresh THEN WithFile(closed, name, EmptyFile) ELSE closed
      d      == file_write_entry(opened, name, entry)
      full   == entry.committable
                /\ (entry.after \/ Len(d[name].entries) >= ChunkThreshold)
  IN
  /\ disk' = IF full THEN complete(d, name) ELSE d
  /\ ledger' = [ledger EXCEPT
       !.files = IF fresh THEN Append(@, name) ELSE @,
       !.last_idx = get_last_idx(d, name),
       !.require_new_file = full]

\* What the service had committed when this node joined is sent again as it is.
Resent == IF ledger.service_open THEN Len(service) ELSE ledger.recovery_start_idx

\* LedgerEnclave::put_entry, for an entry of this node or of its primary.  The
\* first transaction of a recovery asks for a chunk (node_frontend.h).
ledger_append(committable, after) ==
  LET idx   == ledger.last_idx + 1
      fresh == [generation |-> generation, committable |-> committable, after |-> after,
                before |-> Recovering /\ ~ ledger.service_open
                           /\ idx = ledger.recovery_start_idx + 1]
      entry == IF idx <= Resent THEN service[idx] ELSE fresh
  IN
  /\ ledger.node = Running /\ ledger.opening = 0
  /\ idx <= MaxIdx
  /\ after => committable
  /\ write_entry(entry)
  /\ log' = Append(log, entry)
  /\ UNCHANGED <<service, held, generation>>

\* Mutant: the chunks after the one that is cut stay in the directory.
truncated_disk_first_only(idx) ==
  LET from == get_it_contains_idx(idx + 1) IN file_truncate(disk, ledger.files[from], idx)

\* The chunks that Ledger::truncate leaves: the one with the next index is cut,
\* the later ones are removed.
truncated_disk(idx) ==
  LET from == get_it_contains_idx(idx + 1) IN
  Without(file_truncate(disk, ledger.files[from], idx),
          {ledger.files[i] : i \in (from + 1)..Len(ledger.files)})

\* Ledger::truncate, then Ledger::set_recovery_start_idx.
truncate(idx, recovery_mode) ==
  LET from == get_it_contains_idx(idx + 1)
      gone == truncates_all(ledger.files[from], idx)
      l    == [ledger EXCEPT
                !.node = Running,
                !.service_open = @ /\ ~ recovery_mode,
                !.recovery_start_idx = IF recovery_mode THEN idx ELSE @,
                !.commit_idx = IF recovery_mode THEN idx ELSE @]
  IN
  IF idx >= ledger.last_idx \/ idx < ledger.committed_idx
  THEN /\ ledger' = l
       /\ UNCHANGED disk
  ELSE /\ disk' = truncated_disk(idx)
       /\ ledger' = [l EXCEPT
            !.files = SubSeq(@, 1, IF gone THEN from - 1 ELSE from),
            !.require_new_file = gone,
            !.last_idx = idx]

\* Aft::rollback: never what is committed, nor what is sent again.
ledger_truncate(idx) ==
  /\ ledger.node = Running /\ ledger.opening = 0
  /\ generation < MaxGeneration
  /\ idx \in Max({ledger.commit_idx, Resent})..(ledger.last_idx - 1)
  /\ Recovering /\ ~ ledger.service_open => ledger.commit_idx > ledger.recovery_start_idx
  /\ truncate(idx, FALSE)
  /\ log' = SubSeq(log, 1, idx)
  /\ generation' = generation + 1
  /\ UNCHANGED <<service, held>>

\* The open chunks that Ledger::commit renames: the ones from the last commit
\* on that are complete, the one with idx only if it ends there.
commits(idx) ==
  LET from == get_it_contains_idx(IF ledger.committed_idx = 0 THEN 1 ELSE ledger.committed_idx)
      to   == get_it_contains_idx(idx)
  IN {i \in from..to :
        file_commits(disk, ledger.files[i],
                     IF i = to THEN idx ELSE get_last_idx(disk, ledger.files[i]))}

\* Ledger::commit, which has nothing to do for an index that is committed or not
\* yet written: consensus commits none of them.  A chunk of a recovery is still
\* open after it is committed.
commit_files(idx) ==
  LET files   == ledger.files
      names   == [i \in DOMAIN files |->
                    IF i \in commits(idx) THEN CommittedName(disk, files[i]) ELSE files[i]]
      open(n) == n.last = 0 \/ n.recovery
  IN
  /\ disk' = Renamed(disk, [n \in {files[i] : i \in commits(idx)} |-> CommittedName(disk, n)])
  /\ ledger' = [ledger EXCEPT
       !.files = SelectSeq(names, open), !.committed_idx = idx,
       !.commit_idx = idx, !.opening = 0]

\* Aft::commit.
ledger_commit(idx) ==
  /\ ledger.node = Running
  /\ idx \in (ledger.commit_idx + 1)..ledger.last_idx /\ log[idx].committable
  /\ IF ledger.opening # 0 THEN idx = ledger.opening
     ELSE Recovering => ~ ledger.service_open
  /\ commit_files(idx)
  /\ IF Recovering THEN UNCHANGED <<service, held>>
     ELSE /\ service' = IF idx <= Len(service) THEN service ELSE SubSeq(log, 1, idx)
          /\ held' = [held EXCEPT !.last = idx]
  /\ UNCHANGED <<log, generation>>

\* Ledger::complete_recovery: the chunks of the recovery get their final names,
\* the committed ones are closed.
complete_recovery(idx) ==
  LET open(n) == [n EXCEPT !.recovery = FALSE]
      files   == ledger.files
      kept    == SelectSeq(files, LAMBDA n : ~ (n.recovery /\ n.last # 0))
  IN
  /\ disk' = Renamed(disk, [n \in {m \in Range(files) : m.recovery} |-> open(n)])
  /\ ledger' = [ledger EXCEPT
       !.files = [i \in DOMAIN kept |-> open(kept[i])],
       !.recovery_start_idx = 0, !.service_open = TRUE, !.opening = idx]

\* The global hook on the service table, called by Aft::commit before it has
\* the ledger commit idx: the service is open at idx.
ledger_open(idx) ==
  /\ ledger.node = Running /\ Recovering /\ ledger.opening = 0
  /\ idx \in (ledger.commit_idx + 1)..ledger.last_idx /\ log[idx].committable
  /\ idx > ledger.recovery_start_idx
  /\ complete_recovery(idx)
  /\ service' = IF ledger.service_open /\ idx <= Len(service) THEN service ELSE SubSeq(log, 1, idx)
  /\ UNCHANGED <<log, held, generation>>

-----------------------------------------------------------------------------
(* Crash and restart *)

\* What stdio has not written is lost from some entry on.
crash ==
  /\ ledger.node = Running /\ generation < MaxGeneration
  /\ \E kept \in [DOMAIN disk -> 0..MaxIdx] :
       /\ \A n \in DOMAIN disk : kept[n] \in disk[n].flushed..Len(disk[n].entries)
       /\ disk' = [n \in DOMAIN disk |->
            [disk[n] EXCEPT !.entries = SubSeq(@, 1, kept[n]), !.flushed = kept[n]]]
  /\ ledger' = [ledger EXCEPT !.node = Down, !.files = <<>>]
  /\ log' = <<>>
  /\ generation' = generation + 1
  /\ UNCHANGED <<service, held>>

\* The chunks that can be recovered from their files.  One without any entry is
\* removed or will be overwritten.
recoverable(n) == disk[n].entries # <<>>

\* The constructor of Ledger.  The chunks of an unfinished recovery are ignored.
restart ==
  LET found     == {n \in DOMAIN disk : ~ n.recovery /\ recoverable(n)}
      open      == {n \in found : n.last = 0}
      last(n)   == get_last_idx(disk, n)
      before(m, n) == last(m) < last(n)
      files     == SetToSortSeq(open, before)
  IN
  /\ ledger.node = Down
  /\ disk' = Without(disk, DOMAIN disk \ found)
  /\ ledger' = [node |-> Starting, files |-> files,
                last_idx |-> Max({0} \union {last(n) : n \in found}),
                committed_idx |-> Max({0} \union {last(n) : n \in found \ open}),
                require_new_file |-> (open = {} \/ disk[files[Len(files)]].complete),
                recovery_start_idx |-> 0, commit_idx |-> 0, service_open |-> TRUE, opening |-> 0]
  /\ UNCHANGED <<log, service, held, generation>>

\* The indices a snapshot may have: a chunk ends at each of them.
SnapshotIdx == {i \in DOMAIN service : service[i].after}

\* Mutant: committed chunks past the snapshot stay too.
survives_init_committed(n, idx) == n.last # 0 /\ ~ n.recovery

\* The chunks that Ledger::init leaves in place.
survives_init(n, idx) == n.last # 0 /\ ~ n.recovery /\ n.start <= idx

\* Ledger::init, sent by Aft::init_as_backup when the node has joined from a
\* snapshot at idx, or from nothing.  The service is open, or it recovers from
\* recovery_start_idx.
join(idx, recovers_from) ==
  LET d      == Without(disk, {n \in DOMAIN disk : ~ survives_init(n, idx)})
      has(i) == \E n \in DOMAIN d : n.start <= i /\ i <= n.last
      open   == recovers_from = 0
  IN
  /\ ledger.node = Starting
  /\ idx \in {0} \union SnapshotIdx
  /\ \/ open
     \/ recovers_from \in (idx..Len(service)) \ {0} /\ service[recovers_from].committable
  /\ disk' = d
  /\ ledger' = [node |-> Running, files |-> <<>>, last_idx |-> idx, committed_idx |-> idx,
                require_new_file |-> TRUE, commit_idx |-> idx,
                recovery_start_idx |-> IF open THEN idx ELSE recovers_from,
                service_open |-> open, opening |-> 0]
  /\ log' = SubSeq(service, 1, idx)
  /\ held' = [first |-> Min({i \in 1..(idx + 1) : \A j \in i..idx : has(j)}), last |-> idx]
  /\ UNCHANGED <<service, generation>>

\* The recovery of the public ledger: from the first index, or from a snapshot,
\* entries are read until there are no more, and what follows the last
\* signature is truncated.
recover(from) ==
  LET at(i)    == CHOOSE e \in read_entry(i) : TRUE
      readable == Max({i \in from..ledger.last_idx : \A j \in (from + 1)..i : at(j) # NotFound})
      signed   == Max({from} \union {i \in (from + 1)..readable : at(i).committable})
  IN
  /\ ledger.node = Starting
  /\ from \in {0} \union SnapshotIdx
  /\ from \in (held.first - 1)..ledger.last_idx
  /\ signed # 0
  /\ truncate(signed, TRUE)
  /\ log' = SubSeq(service, 1, from) \o [i \in 1..(signed - from) |-> at(from + i)]
  /\ UNCHANGED <<service, held, generation>>

LedgerNext ==
  \/ \E committable, after \in BOOLEAN : ledger_append(committable, after)
  \/ \E idx \in 0..MaxIdx : ledger_truncate(idx) \/ ledger_commit(idx) \/ ledger_open(idx)
  \/ crash
  \/ restart
  \/ \E idx, r \in 0..MaxIdx : join(idx, r)
  \/ \E idx \in 0..MaxIdx : recover(idx)

LedgerSpec == LedgerInit /\ [][LedgerNext]_ledger_vars

-----------------------------------------------------------------------------
(* Properties *)

\* While the node runs, the host returns for every index, be it in an open
\* chunk, a committed one or one of a recovery, the entry that consensus has
\* there: after truncations, chunks that were renamed, a join or a recovery
\* (Ledger::read_entries_range, get_file_from_idx).
LedgerReadsBack ==
  ledger.node = Running =>
    /\ Len(log) = ledger.last_idx
    /\ \A i \in held.first..ledger.last_idx : read_entry(i) = {log[i]}

\* What this node has committed for a service that is open is still in its
\* ledger after a crash, and a recovery does not truncate it: signatures are
\* flushed before they can be committed, and only chunks of a recovery that
\* was never opened are ignored (LedgerFile::write_entry, Ledger::Ledger).
CommittedSurvives ==
  /\ ledger.node # Down =>
       \A i \in held.first..held.last : read_entry(i) = {service[i]}
  /\ ledger.node = Running => held.last <= Len(log)

\* A chunk with a committed name never changes, and is only set aside when the
\* node joins again from an earlier snapshot (Ledger::init): operators may copy
\* committed chunks at any time.
CommittedChunksImmutable ==
  [][\A n \in DOMAIN disk : n.last # 0 /\ ~ n.recovery =>
       IF n \in DOMAIN disk' THEN disk'[n] = disk[n]
       ELSE \E idx, r \in 0..MaxIdx : join(idx, r)]_ledger_vars

=============================================================================
