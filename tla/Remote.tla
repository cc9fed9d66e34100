------------------------------- MODULE Remote --------------------------------
(***************************************************************************)
(* Remote storage: RemoteWriter and BatchRemoteWriter with their handles     *)
(* (storage/src/remote/write.rs), the server's remote write and read         *)
(* handlers (server/src/remote_server.rs) and BatchExportManager             *)
(* (storage/src/batch_export).                                               *)
(***************************************************************************)
EXTENDS Integers, Sequences, FiniteSets, SequencesExt, Filters

CONSTANTS
  Targets,     \* the remote targets, in order
  RWrites,     \* number of calls of BatchRemoteWriter::write
  QueueSize,   \* queue_size
  BatchSize,   \* batch_size
  MaxSends,    \* max_retries
  RFaults,     \* bound on requests that fail
  Bodies,      \* bodies of write requests
  ReadQueries, \* matchers of read requests
  StoreFails,  \* labels for which memstore.write fails
  ExportTasks, \* export tasks, in the order they may be created
  ExportRoom   \* capacity of the export channel
ASSUME RemoteAssumption ==
  /\ {RWrites, QueueSize, BatchSize, MaxSends, RFaults, ExportRoom} \subseteq Nat
  \* A target stands for its entry in the list, so no two are the same.
  /\ Targets \in Seq(ToSet(Targets))
  /\ \A i, j \in 1..Len(Targets) : Targets[i] = Targets[j] => i = j

VARIABLES
  calls,    \* writes begun
  caller,   \* the write in progress: the targets it has not reached, or <<>>
  failedAt, \* writes that were refused by a target (history)
  rqueue,   \* target -> its channel
  buffer,   \* target -> batch_buffer
  sends,    \* target -> attempts of the flush in progress, or 0
  remote,   \* target -> the writes its server has received, in order
  given,    \* target -> writes given up after MaxSends attempts
  closed,   \* targets whose handle is gone
  rfaults
writerVars == <<calls, caller, failedAt, rqueue, buffer, sends, remote, given, closed, rfaults>>
VARIABLES
  stored,   \* the server's series: sets of labels
  reply     \* the last write request and what it was answered
serverVars == <<stored, reply>>
VARIABLES
  etasks,   \* BatchExportManager.tasks: task -> status
  channel,  \* tasks sent to the worker
  sending,  \* tasks inserted and not yet sent
  worker    \* [pc, task]
exportVars == <<etasks, channel, sending, worker>>

TargetSet == ToSet(Targets)
WriterInit ==
  /\ calls = 0
  /\ caller = <<>>
  /\ failedAt = {}
  /\ rqueue = [t \in TargetSet |-> <<>>]
  /\ buffer = [t \in TargetSet |-> <<>>]
  /\ sends = [t \in TargetSet |-> 0]
  /\ remote = [t \in TargetSet |-> <<>>]
  /\ given = [t \in TargetSet |-> {}]
  /\ closed = {}
  /\ rfaults = 0

\* BatchRemoteWriter::write: target after target; a full channel keeps the write,
\* and the targets behind it, waiting, and a closed one ends it with an error.
WriteBegin ==
  /\ caller = <<>>
  /\ calls < RWrites
  /\ calls' = calls + 1
  /\ caller' = Targets
  /\ UNCHANGED <<failedAt, rqueue, buffer, sends, remote, given, closed, rfaults, serverVars, exportVars>>

WriteOne ==
  LET t == Head(caller)
  IN  /\ caller # <<>>
      /\ IF t \in closed
         THEN caller' = <<>> /\ failedAt' = failedAt \cup {calls} /\ UNCHANGED rqueue
         ELSE /\ Len(rqueue[t]) < QueueSize
              /\ caller' = Tail(caller)
              /\ rqueue' = [rqueue EXCEPT ![t] = Append(@, calls)]
              /\ UNCHANGED failedAt
      /\ UNCHANGED <<calls, buffer, sends, remote, given, closed, rfaults, serverVars, exportVars>>

Free(t) == sends[t] = 0 /\ t \notin closed

\* The loop of RemoteWriterHandle::run: a request, or the tick of five seconds.
\* The arm that would end the loop is never taken, the ticks never stop.
Receive(t) ==
  /\ Free(t)
  /\ rqueue[t] # <<>>
  /\ rqueue' = [rqueue EXCEPT ![t] = Tail(@)]
  /\ buffer' = [buffer EXCEPT ![t] = Append(@, Head(rqueue[t]))]
  /\ sends' = [sends EXCEPT ![t] = IF Len(buffer[t]) + 1 >= BatchSize THEN 1 ELSE 0]
  /\ UNCHANGED <<calls, caller, failedAt, remote, given, closed, rfaults, serverVars, exportVars>>

FlushTick(t) ==
  /\ Free(t)
  /\ buffer[t] # <<>>
  /\ sends' = [sends EXCEPT ![t] = 1]
  /\ UNCHANGED <<calls, caller, failedAt, rqueue, buffer, remote, given, closed, rfaults, serverVars, exportVars>>

\* flush: the request goes again after a failure, also when the server had taken
\* it; after MaxSends attempts the batch is cleared with an error in the log.
\* (send_request is a placeholder that succeeds; SendFails is what flush is for.)
SendOk(t) ==
  /\ sends[t] > 0
  /\ sends[t] <= MaxSends
  /\ remote' = [remote EXCEPT ![t] = @ \o buffer[t]]
  /\ buffer' = [buffer EXCEPT ![t] = <<>>]
  /\ sends' = [sends EXCEPT ![t] = 0]
  /\ UNCHANGED <<calls, caller, failedAt, rqueue, given, closed, rfaults, serverVars, exportVars>>

SendFails(t) ==
  /\ sends[t] > 0
  /\ sends[t] <= MaxSends
  /\ rfaults < RFaults
  /\ rfaults' = rfaults + 1
  /\ remote' \in {remote, [remote EXCEPT ![t] = @ \o buffer[t]]}
  /\ sends' = [sends EXCEPT ![t] = @ + 1]
  /\ UNCHANGED <<calls, caller, failedAt, rqueue, buffer, given, closed, serverVars, exportVars>>

\* Mutant: the batch is cleared after the first failure.
MutGiveUpBatch(t) ==
  /\ sends[t] > 1
  /\ given' = [given EXCEPT ![t] = @ \cup ToSet(buffer[t])]
  /\ buffer' = [buffer EXCEPT ![t] = <<>>]
  /\ sends' = [sends EXCEPT ![t] = 0]
  /\ UNCHANGED <<calls, caller, failedAt, rqueue, remote, closed, rfaults, serverVars, exportVars>>

GiveUpBatch(t) ==
  /\ sends[t] > MaxSends
  /\ given' = [given EXCEPT ![t] = @ \cup ToSet(buffer[t])]
  /\ buffer' = [buffer EXCEPT ![t] = <<>>]
  /\ sends' = [sends EXCEPT ![t] = 0]
  /\ UNCHANGED <<calls, caller, failedAt, rqueue, remote, closed, rfaults, serverVars, exportVars>>

\* The task that runs a handle is gone; its channel refuses what comes.
HandleGone(t) ==
  /\ t \notin closed
  /\ sends[t] = 0
  /\ rfaults < RFaults
  /\ rfaults' = rfaults + 1
  /\ closed' = closed \cup {t}
  /\ UNCHANGED <<calls, caller, failedAt, rqueue, buffer, sends, remote, given, serverVars, exportVars>>

WriterTask(t) == Receive(t) \/ FlushTick(t) \/ SendOk(t) \/ GiveUpBatch(t)
WriterNext ==
  \/ WriteBegin \/ WriteOne
  \/ \E t \in TargetSet : WriterTask(t) \/ SendFails(t) \/ HandleGone(t)

-----------------------------------------------------------------------------
ServerInit == stored = {} /\ reply = [code |-> 0, series |-> {}]

\* A line of text names its labels between braces and separates them by commas:
\* a value with a comma or a brace in it does not survive, and the line is
\* passed over like one without a value.
parse_text_line(line) ==
  LET whole == \A l \in line.labels : l.value \notin {"comma", "brace"}
  IN  IF line.value = "number" /\ line.stamp # "bad" /\ line.name # "" /\ whole
      THEN {line.labels} ELSE {}

Stores(series) == stored' = stored \cup {s \in series : s \notin StoreFails}
Refuses == UNCHANGED stored

process_text_write(body) ==
  IF body.utf8 THEN [ok |-> TRUE, series |-> UNION {parse_text_line(l) : l \in body.lines}]
  ELSE [ok |-> FALSE, series |-> {}]

\* Snappy and protobuf are decoded as a whole before anything is stored.
process_protobuf_write(body) ==
  IF body.proto THEN [ok |-> TRUE, series |-> {l.labels : l \in body.lines}]
  ELSE [ok |-> FALSE, series |-> {}]

\* handle_remote_write: the header or the look of the body choose the format; only
\* a body that looks like neither is tried both ways.  A series that cannot be
\* stored is logged, and the answer is the same.
handle_remote_write(body) ==
  LET chosen == IF body.header = "protobuf" THEN process_protobuf_write(body)
                ELSE IF body.looksText THEN process_text_write(body)
                ELSE IF process_protobuf_write(body).ok THEN process_protobuf_write(body)
                ELSE process_text_write(body)
  IN  /\ Stores(chosen.series)
      /\ reply' = [code |-> IF chosen.ok THEN 204 ELSE 400, series |-> chosen.series]
      /\ UNCHANGED <<writerVars, exportVars>>

MatchesAll(series, ms) ==
  \A m \in ms : LET has == \E l \in series : l.name = m.name /\ l.value = m.value
                IN  IF m.type = "eq" THEN has ELSE ~has

\* handle_remote_read keeps only the matchers for equality.
handle_remote_read(ms) == {s \in stored : MatchesAll(s, {m \in ms : m.type = "eq"})}

ServerNext == \E b \in Bodies : handle_remote_write(b)

-----------------------------------------------------------------------------
ExportInit ==
  /\ etasks = <<>>
  /\ channel = <<>>
  /\ sending = {}
  /\ worker = [pc |-> "recv", task |-> "none"]

\* create_task inserts the task, then sends it, which waits for room.
create_export(t) ==
  /\ t \notin DOMAIN etasks
  /\ etasks' = [x \in DOMAIN etasks \cup {t} |-> IF x = t THEN "Pending" ELSE etasks[x]]
  /\ sending' = sending \cup {t}
  /\ UNCHANGED <<channel, worker, writerVars, serverVars>>

SendExport(t) ==
  /\ t \in sending
  /\ Len(channel) < ExportRoom
  /\ channel' = Append(channel, t)
  /\ sending' = sending \ {t}
  /\ UNCHANGED <<etasks, worker, writerVars, serverVars>>

cancel_export(t) ==
  /\ t \in DOMAIN etasks
  /\ etasks[t] \in {"Pending", "Running"}
  /\ etasks' = [etasks EXCEPT ![t] = "Cancelled"]
  /\ UNCHANGED <<channel, sending, worker, writerVars, serverVars>>

Worker(pc) == worker' = [worker EXCEPT !.pc = pc]
WorkerReceives ==
  /\ worker.pc = "recv"
  /\ channel # <<>>
  /\ worker' = [pc |-> "start", task |-> Head(channel)]
  /\ channel' = Tail(channel)
  /\ UNCHANGED <<etasks, sending, writerVars, serverVars>>

WorkerStarts ==
  /\ worker.pc = "start"
  /\ IF etasks[worker.task] = "Cancelled" THEN Worker("recv") /\ UNCHANGED etasks
     ELSE Worker("run") /\ etasks' = [etasks EXCEPT ![worker.task] = "Running"]
  /\ UNCHANGED <<channel, sending, writerVars, serverVars>>

\* A task that was cancelled meanwhile runs to its end and keeps its status.
WorkerEnds ==
  /\ worker.pc = "run"
  /\ Worker("recv")
  /\ etasks' \in IF etasks[worker.task] = "Cancelled" THEN {etasks}
                 ELSE {[etasks EXCEPT ![worker.task] = s] : s \in {"Completed", "Failed"}}
  /\ UNCHANGED <<channel, sending, writerVars, serverVars>>

ExportTask == WorkerReceives \/ WorkerStarts \/ WorkerEnds \/ \E t \in ExportTasks : SendExport(t)
ExportNext == ExportTask \/ \E t \in ExportTasks : create_export(t) \/ cancel_export(t)

remoteVars == <<writerVars, serverVars, exportVars>>
RemoteSpec ==
  /\ WriterInit /\ ServerInit /\ ExportInit
  /\ [][WriterNext \/ ServerNext \/ ExportNext]_remoteVars

-----------------------------------------------------------------------------
Copies(t, w) == Count(remote[t], w)

\* A write that was handed to a target is in its channel, its batch or its server,
\* or was given up after MaxSends failures; a server has it twice only for
\* requests that failed (flush).
RemoteAccounted ==
  \A t \in TargetSet : \A w \in 1..calls :
    LET places == ToSet(rqueue[t]) \cup ToSet(buffer[t]) \cup ToSet(remote[t]) \cup given[t]
        reached == w \notin failedAt /\ ~(w = calls /\ t \in ToSet(caller))
    IN  /\ reached => w \in places
        /\ Copies(t, w) <= 1 + rfaults
        /\ w \in given[t] => rfaults >= MaxSends

\* No target is ahead of one before it in the list: a write that ends with an
\* error has reached a prefix of the targets (BatchRemoteWriter::write).
TargetsInOrder ==
  \A i, j \in DOMAIN Targets : i < j =>
    LET reached(t) == ToSet(rqueue[t]) \cup ToSet(buffer[t]) \cup ToSet(remote[t]) \cup given[t]
    IN  reached(Targets[j]) \subseteq reached(Targets[i])

\* A target that stays sends or gives up everything it was handed.
RemoteDrains ==
  \A t \in TargetSet : (rqueue[t] # <<>> \/ buffer[t] # <<>>)
                         ~> (t \in closed \/ (rqueue[t] = <<>> /\ buffer[t] = <<>>))

\* A remote read finds everything that matches, and more only through matchers
\* other than equality, which are dropped.
ReadsNothingLess ==
  \A ms \in ReadQueries :
    /\ {s \in stored : MatchesAll(s, ms)} \subseteq handle_remote_read(ms)
    /\ (\A m \in ms : m.type = "eq") => handle_remote_read(ms) = {s \in stored : MatchesAll(s, ms)}

\* Every export ends: cancellations do not stop the only worker.
ExportsEnd ==
  \A t \in ExportTasks :
    (t \in DOMAIN etasks) ~> (t \in DOMAIN etasks /\ etasks[t] \in {"Cancelled", "Completed", "Failed"})

\* What happens to a write handed to remote targets, and what a remote read may
\* leave out: nothing that matches.
RemoteSound == RemoteAccounted /\ TargetsInOrder /\ ReadsNothingLess
=============================================================================
