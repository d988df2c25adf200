---------------------------- MODULE QueueBackends ---------------------------
(***************************************************************************)
(* fanest.queues: the records that the QueueServices of one or several     *)
(* processes keep in a MemoryQueueBackend (one process) or, as an          *)
(* append-only log, in a RedisStreamQueueBackend.                          *)
(*                                                                         *)
(* A service's calls of its backend do not suspend its event loop, but     *)
(* RedisStreamQueueBackend.remove() and clear() take many commands, between *)
(* which other processes read and write, and any of which may fail or be   *)
(* the last before the process dies.  What a service does with its jobs is *)
(* JobQueue's subject; here it writes the records in the order of a job's  *)
(* life.                                                                   *)
(***************************************************************************)
EXTENDS Naturals

CONSTANTS
  QueueNames, JobIds,
  Processes,
  UsedBy,      \* the queues that use each id
  MaxRecords   \* bound on the records ever written

Keys == QueueNames \X JobIds

\* UsedBy when the services know no better.
AnyQueue == [i \in JobIds |-> QueueNames]

ASSUME BackendAssumption ==
  UsedBy \in [JobIds -> SUBSET QueueNames] /\ MaxRecords \in Nat

VARIABLES
  kind,      \* "memory" or "redis"
  jobs,      \* MemoryQueueBackend._jobs: records, "no" their order in the list
  stream,    \* the Redis stream of each queue: records, "no" their entry ids
  left,      \* per process: what its remove() or clear() has yet to do
  books,     \* per process: status of the jobs in its own dictionaries
  written,   \* history: the status last written for each job, "none" before
             \* the first and after a removal
  records    \* records written

backendVars == <<kind, jobs, stream, left, books, written, records>>

Record(queue, id, status) == [queue |-> queue, id |-> id, status |-> status, no |-> records + 1]
Absent == [k \in Keys |-> "none"]

\* remove() of ids of a queue: streams to scan, and entries found in the last
\* one; clear(): streams to delete.
NothingLeft == [ids |-> {}, scan |-> {}, found |-> {}, drop |-> {}]

BackendInit ==
  /\ kind \in {"memory", "redis"}
  /\ jobs = {} /\ stream = [q \in QueueNames |-> {}]
  /\ left = [p \in Processes |-> NothingLeft]
  /\ books = [p \in Processes |-> Absent]
  /\ written = Absent /\ records = 0

-----------------------------------------------------------------------------
(* The backends *)

Oldest(log) == {r \in log : \A x \in log : r.no <= x.no}

\* MemoryQueueBackend.update: the first record of the id is replaced.
Replaced(record) ==
  LET first == Oldest({r \in jobs : r.id = record.id})
  IN IF first = {} THEN jobs \cup {record}
     ELSE (jobs \ first) \cup {[record EXCEPT !.no = r.no] : r \in first}

\* RedisStreamQueueBackend.jobs: the last entry of each id.
Latest(log) == {r \in log : \A x \in log : x.id = r.id => x.no <= r.no}

\* jobs(queue)
JobsOf(queue) == IF kind = "memory" THEN {r \in jobs : r.queue = queue} ELSE Latest(stream[queue])

-----------------------------------------------------------------------------
(* The services *)

Successors ==
  [none |-> {"waiting"}, waiting |-> {"delayed", "active", "completed", "failed"},
   delayed |-> {"active", "completed", "failed"}, active |-> {"active", "completed", "failed"},
   completed |-> {}, failed |-> {"active"}]

\* A process dispatches a job of its own, under an id that no other job has.
MayAdd(queue, id) ==
  /\ queue \in UsedBy[id]
  /\ \A p \in Processes : books[p][<<queue, id>>] = "none"
  /\ written[<<queue, id>>] = "none"

Put(record, update) ==
  /\ records < MaxRecords /\ records' = records + 1
  /\ IF kind = "memory"
     THEN jobs' = (IF update THEN Replaced(record) ELSE jobs \cup {record}) /\ UNCHANGED stream
     ELSE stream' = [stream EXCEPT ![record.queue] = @ \cup {record}] /\ UNCHANGED jobs
  /\ written' = [written EXCEPT ![<<record.queue, record.id>>] = record.status]

Idle(p) == left[p] = NothingLeft /\ (kind = "memory" => p = CHOOSE q \in Processes : TRUE)

\* add() writes the record of a new job.
AddRecord(p, queue, id) ==
  /\ Idle(p) /\ MayAdd(queue, id)
  /\ Put(Record(queue, id, "waiting"), FALSE)
  /\ books' = [books EXCEPT ![p][<<queue, id>>] = "waiting"]
  /\ UNCHANGED <<kind, left>>

\* _update_backend() follows every change of the dictionaries.
UpdateRecord(p, queue, id, status) ==
  /\ Idle(p) /\ status \in Successors[books[p][<<queue, id>>]] \ {"waiting"}
  /\ Put(Record(queue, id, status), TRUE)
  /\ books' = [books EXCEPT ![p][<<queue, id>>] = status]
  /\ UNCHANGED <<kind, left>>

\* No record of these jobs is left.
Gone(keys) == written' = [k \in Keys |-> IF k \in keys THEN "none" ELSE written[k]]

\* clean() of one queue: finished jobs leave the dictionaries, then the backend.
Clean(p, queue) ==
  /\ Idle(p)
  /\ LET done == {id \in JobIds : books[p][<<queue, id>>] \in {"completed", "failed"}}
     IN /\ done # {}
        /\ books' = [books EXCEPT ![p] = [k \in Keys |-> IF k[1] = queue /\ k[2] \in done THEN "none" ELSE @[k]]]
        /\ IF kind = "memory"
           THEN /\ jobs' = {r \in jobs : r.id \notin done}
                /\ Gone({queue} \X done) /\ UNCHANGED left
           ELSE /\ left' = [left EXCEPT ![p] = [NothingLeft EXCEPT !.ids = {queue} \X done, !.scan = QueueNames]]
                /\ UNCHANGED <<jobs, written>>
  /\ UNCHANGED <<kind, stream, records>>

\* What is left of a remove() that has the given streams and entries to do.
Remaining(work, scan, found) ==
  IF scan = {} /\ found = {} THEN NothingLeft ELSE [work EXCEPT !.scan = scan, !.found = found]

\* XRANGE of the next stream that SCAN gives.
ReadStream(p, queue) ==
  /\ queue \in left[p].scan /\ left[p].found = {}
  /\ LET found == {r \in stream[queue] : \E k \in left[p].ids : k[2] = r.id}
     IN left' = [left EXCEPT ![p] = Remaining(@, @.scan \ {queue}, found)]
  /\ UNCHANGED <<kind, jobs, stream, books, written, records>>

\* The entry to delete next.  Variant: the newest.
NewestFirst(found) == {r \in found : \A x \in found : x.no <= r.no}
DeletedNext(found) == Oldest(found)

\* XDEL of one entry; the job is gone with its last one.
DeleteEntry(p) ==
  \E entry \in DeletedNext(left[p].found) :
    /\ stream' = [stream EXCEPT ![entry.queue] = @ \ {entry}]
    /\ LET last == \A r \in stream'[entry.queue] : r.id # entry.id
       IN Gone(IF last THEN {<<entry.queue, entry.id>>} \cap left[p].ids ELSE {})
    /\ left' = [left EXCEPT ![p] = Remaining(@, @.scan, @.found \ {entry})]
    /\ UNCHANGED <<kind, jobs, books, records>>

\* clear(): a memory backend is emptied, or one stream after the other deleted
\* before the dictionaries of this process are.
ClearAll(p) ==
  /\ Idle(p)
  /\ IF kind = "memory"
     THEN /\ jobs' = {} /\ Gone(Keys)
          /\ books' = [books EXCEPT ![p] = Absent] /\ UNCHANGED left
     ELSE left' = [left EXCEPT ![p].drop = QueueNames] /\ UNCHANGED <<jobs, books, written>>
  /\ UNCHANGED <<kind, stream, records>>

DeleteStream(p, queue) ==
  /\ queue \in left[p].drop
  /\ stream' = [stream EXCEPT ![queue] = {}] /\ Gone({queue} \X JobIds)
  /\ left' = [left EXCEPT ![p].drop = @ \ {queue}]
  /\ books' = IF left[p].drop = {queue} THEN [books EXCEPT ![p] = Absent] ELSE books
  /\ UNCHANGED <<kind, jobs, records>>

\* A command fails: remove() or clear() raises.
CommandFails(p) ==
  /\ left[p] # NothingLeft /\ left' = [left EXCEPT ![p] = NothingLeft]
  /\ UNCHANGED <<kind, jobs, stream, books, written, records>>

\* The process dies, in the middle of remove() or not, and is started again:
\* its dictionaries, and a memory backend, are empty.
Restart(p) ==
  /\ kind = "memory" => Idle(p)
  /\ left' = [left EXCEPT ![p] = NothingLeft] /\ books' = [books EXCEPT ![p] = Absent]
  /\ IF kind = "memory" THEN jobs' = {} /\ Gone(Keys) ELSE UNCHANGED <<jobs, written>>
  /\ UNCHANGED <<kind, stream, records>>

BackendNext ==
  \E p \in Processes :
    \/ \E q \in QueueNames : Clean(p, q) \/ ReadStream(p, q) \/ DeleteStream(p, q)
    \/ \E q \in QueueNames, i \in JobIds : AddRecord(p, q, i)
    \/ \E q \in QueueNames, i \in JobIds, s \in DOMAIN Successors : UpdateRecord(p, q, i, s)
    \/ DeleteEntry(p) \/ ClearAll(p) \/ CommandFails(p) \/ Restart(p)

BackendSpec == BackendInit /\ [][BackendNext]_backendVars

-----------------------------------------------------------------------------
(* Properties *)

\* What jobs() shows of a job, to any process and at any moment, is the status
\* last written or nothing once it is removed: no old entry of the log comes
\* back while remove() is at work or after it died, and no other queue's job
\* of the same id is in the way (test_queue_mailer.py:375).
RecordsCurrent ==
  \A q \in QueueNames :
    {<<r.id, r.status>> : r \in JobsOf(q)} =
      {<<i, written[<<q, i>>]>> : i \in {i \in JobIds : written[<<q, i>>] # "none"}}
=============================================================================
