------------------------------ MODULE RunStream ------------------------------
(***************************************************************************)
(* The log of one run: the worker that writes its lines to a Redis stream, *)
(* the status hash, the SSE reader with its one-time ticket, the archive   *)
(* in object storage and the cron that retries a failed archive.  Lines    *)
(* are numbered in the order of their XADD.                                *)
(***************************************************************************)
EXTENDS Permissions, Naturals

CONSTANTS
  Lines,       \* lines the run writes at most
  MaxLen,      \* MAXLEN of the stream
  Page,        \* lines one XREAD or XRANGE returns at most
  StreamFaults \* commands of the archive that fail, at most

ASSUME StreamAssumption ==
  Lines \in Nat /\ MaxLen \in Nat \ {0} /\ Page \in Nat \ {0} /\ StreamFaults \in Nat

VARIABLES
  log,     \* [n: lines written, lo: first line still in the stream, ttl]
  writer,  \* "writing", "publishing", "last", "archiving", "ended", "crashed"
  hash,    \* [over: the status is terminal, at: lines written by then]
  reader,  \* the SSE reader
  pass,    \* the ticket, and what its maker was allowed
  archive, \* the object, or NoObject
  arch,    \* the archive procedure, run by the worker or the cron
  marker,  \* the run is in run:logs:archive_failed
  faults

streamVars == <<log, writer, hash, reader, pass, archive, arch, marker, faults>>

NoObject == [there |-> FALSE, lines |-> {}]
NoTicket == [live |-> FALSE, scopes |-> {}, maker |-> {}, opened |-> 0]
Away == [pc |-> "away", cursor |-> 0, seen |-> FALSE, got |-> {}]
Resting == [by |-> "none", pc |-> "idle", cursor |-> 1, got |-> {}]

StreamTypeOK ==
  /\ log \in [n : 0 .. Lines, lo : 1 .. Lines + 1,
              ttl : {"none", "short", "long"}]
  /\ writer \in {"writing", "publishing", "last", "archiving", "ended", "crashed"}
  /\ hash \in [over : BOOLEAN, at : 0 .. Lines]
  /\ reader \in [pc : {"away", "read", "check", "done"}, cursor : 0 .. Lines,
                 seen : BOOLEAN, got : SUBSET (1 .. Lines)]
  /\ pass.opened \in Nat /\ pass.live \in BOOLEAN
  /\ archive \in [there : BOOLEAN, lines : SUBSET (1 .. Lines)]
  /\ arch \in [by : {"none", "worker", "cron"},
               pc : {"idle", "range", "put", "expire", "clear", "fail"},
               cursor : 1 .. Lines + 1, got : SUBSET (1 .. Lines)]
  /\ marker \in BOOLEAN
  /\ faults \in 0 .. StreamFaults

StreamInit ==
  /\ log = [n |-> 0, lo |-> 1, ttl |-> "none"]
  /\ writer = "writing"
  /\ hash = [over |-> FALSE, at |-> 0]
  /\ reader = Away
  /\ pass = NoTicket
  /\ archive = NoObject
  /\ arch = Resting
  /\ marker = FALSE
  /\ faults = 0

Kept == log.lo .. log.n
Archiving == <<archive, arch, marker, faults>>
Reading == <<reader, pass>>

-----------------------------------------------------------------------------
\* XADD with MAXLEN: the oldest lines go.
AppendLine(k) ==
  [k EXCEPT !.n = @ + 1,
            !.lo = IF k.n + 2 - k.lo > MaxLen THEN k.n + 2 - MaxLen ELSE @]

Write ==
  /\ writer \in {"writing", "last"} /\ log.n < Lines
  /\ log' = AppendLine(log)
  /\ writer' = IF writer = "last" THEN "archiving" ELSE writer
  /\ UNCHANGED <<hash, Reading, Archiving>>

\* The stages are over; what a cancelled run still writes comes before.
StopWriting ==
  /\ writer = "writing"
  /\ writer' = "publishing"
  /\ UNCHANGED <<log, hash, Reading, Archiving>>

Over == hash' = IF hash.over THEN hash ELSE [over |-> TRUE, at |-> log.n]

\* finish_if_current, publish_status_event, then the line "Run completed".
PublishVerdict ==
  /\ writer = "publishing"
  /\ IF hash.over THEN writer' = "archiving" /\ UNCHANGED hash
     ELSE Over /\ writer' \in {"last", "archiving"}
  /\ UNCHANGED <<log, Reading, Archiving>>

\* The cancel request publishes while the worker still writes.
PublishCancel ==
  /\ writer = "writing" /\ ~hash.over
  /\ Over
  /\ UNCHANGED <<log, writer, Reading, Archiving>>

\* The worker dies; nobody archives the log of its run.
Crash ==
  /\ writer \in {"writing", "publishing", "last"}
  /\ writer' = "crashed"
  /\ UNCHANGED <<log, hash, Reading, Archiving>>

\* The reclaim cron publishes the verdict.
PublishLost ==
  /\ writer = "crashed" /\ ~hash.over
  /\ Over
  /\ UNCHANGED <<log, writer, Reading, Archiving>>

-----------------------------------------------------------------------------
(***************************************************************************)
(* Reading the stream                                                      *)
(***************************************************************************)

Callers == {{Everything}, {ReadRun}, {Trigger}}

\* Mutant of PassFor: the payload carries the user and no scopes.
PassForUser(scopes) ==
  [live |-> TRUE, scopes |-> {Everything}, maker |-> scopes, opened |-> 0]

\* create_sse_ticket_command, called with a JWT or an API token.
PassFor(scopes) ==
  [live |-> TRUE, scopes |-> scopes, maker |-> scopes, opened |-> 0]

CreateTicket ==
  /\ ~pass.live
  /\ \E scopes \in Callers : pass' = PassFor(scopes)
  /\ UNCHANGED <<log, writer, hash, reader, Archiving>>

ExpireTicket ==
  /\ pass.live
  /\ pass' = NoTicket
  /\ UNCHANGED <<log, writer, hash, reader, Archiving>>

\* GETDEL, then the check of run.read for a project viewer.
Connect ==
  /\ reader.pc = "away" /\ pass.live
  /\ IF CheckPermission([role |-> "member", admin |-> FALSE, action |-> ReadRun,
                         own |-> FALSE, scopes |-> pass.scopes], "viewer")
     THEN /\ pass' = [pass EXCEPT !.live = FALSE, !.opened = @ + 1]
          /\ reader' = [reader EXCEPT !.pc = "read", !.seen = FALSE]
     ELSE pass' = [pass EXCEPT !.live = FALSE] /\ UNCHANGED reader
  /\ UNCHANGED <<log, writer, hash, Archiving>>

\* The client goes away and comes back with Last-Event-ID.
Disconnect ==
  /\ reader.pc \in {"read", "check"}
  /\ reader' = [reader EXCEPT !.pc = "away"]
  /\ UNCHANGED <<log, writer, hash, pass, Archiving>>

\* The lines from i on that one call returns.
PageFrom(i) == {l \in Kept : l >= i /\ l < Page + IF i > log.lo THEN i ELSE log.lo}

LastOf(set, default) ==
  IF set = {} THEN default ELSE CHOOSE l \in set : \A k \in set : k <= l

\* Mutant of AfterRead: a terminal status ends the stream at once.
AfterReadEager(rd, lines) ==
  [rd EXCEPT !.pc = IF rd.seen THEN "done" ELSE "check",
             !.got = @ \union lines, !.cursor = LastOf(lines, @)]

\* The stream ends at the first empty read after a terminal status was seen.
AfterRead(rd, lines) ==
  [rd EXCEPT !.pc = IF rd.seen /\ lines = {} THEN "done"
                    ELSE IF rd.seen THEN "read" ELSE "check",
             !.got = @ \union lines, !.cursor = LastOf(lines, @)]

ReadStream ==
  /\ reader.pc = "read"
  /\ reader' = AfterRead(reader, PageFrom(reader.cursor + 1))
  /\ UNCHANGED <<log, writer, hash, pass, Archiving>>

ReadHash ==
  /\ reader.pc = "check"
  /\ reader' = [reader EXCEPT !.pc = "read", !.seen = hash.over]
  /\ UNCHANGED <<log, writer, hash, pass, Archiving>>

-----------------------------------------------------------------------------
(***************************************************************************)
(* Archiving                                                               *)
(***************************************************************************)

Elsewhere == <<writer, hash, Reading>>

StartArchive ==
  /\ arch.pc = "idle" /\ writer = "archiving"
  /\ arch' = [Resting EXCEPT !.by = "worker", !.pc = "range"]
  /\ UNCHANGED <<log, archive, marker, faults, Elsewhere>>

\* retry_failed_archives, for a run in the set.
RetryArchive ==
  /\ arch.pc = "idle" /\ marker
  /\ arch' = [Resting EXCEPT !.by = "cron", !.pc = "range"]
  /\ UNCHANGED <<log, archive, marker, faults, Elsewhere>>

\* Mutant of NextStreamId: one line too far.
NextStreamIdSkip(l) == l + 2

NextStreamId(l) == l + 1

\* XRANGE until a page is empty.
ReadPage ==
  /\ arch.pc = "range"
  /\ LET page == PageFrom(arch.cursor) IN
     arch' = IF page = {} THEN [arch EXCEPT !.pc = "put"]
             ELSE [arch EXCEPT !.got = @ \union page,
                     !.cursor = NextStreamId(LastOf(page, 0)) ]
  /\ UNCHANGED <<log, archive, marker, faults, Elsewhere>>

Put ==
  /\ arch.pc = "put"
  /\ archive' = [there |-> TRUE, lines |-> arch.got]
  /\ arch' = [arch EXCEPT !.pc = "expire"]
  /\ UNCHANGED <<log, marker, faults, Elsewhere>>

Expire ==
  /\ arch.pc = "expire"
  /\ log' = [log EXCEPT !.ttl = "short"]
  /\ arch' = [arch EXCEPT !.pc = "clear"]
  /\ UNCHANGED <<archive, marker, faults, Elsewhere>>

Finished == /\ arch' = Resting
            /\ writer' = IF arch.by = "worker" THEN "ended" ELSE writer

\* SREM, best effort: when it fails the run stays in the retry set.
ClearMarker ==
  /\ arch.pc = "clear"
  /\ \/ marker' = FALSE /\ UNCHANGED faults
     \/ faults < StreamFaults /\ faults' = faults + 1 /\ UNCHANGED marker
  /\ Finished
  /\ UNCHANGED <<log, archive, hash, Reading>>

\* Any command before that may fail.
FailArchive ==
  /\ arch.pc \in {"range", "put", "expire"} /\ faults < StreamFaults
  /\ faults' = faults + 1
  /\ arch' = [arch EXCEPT !.pc = "fail"]
  /\ UNCHANGED <<log, archive, marker, Elsewhere>>

\* The longer TTL and the marker; each of them is best effort.
RecordFailure ==
  /\ arch.pc = "fail"
  /\ \/ marker' = TRUE /\ log' = [log EXCEPT !.ttl = "long"] /\ UNCHANGED faults
     \/ /\ faults < StreamFaults /\ faults' = faults + 1
        /\ \/ marker' = TRUE /\ UNCHANGED log
           \/ log' = [log EXCEPT !.ttl = "long"] /\ UNCHANGED marker
  /\ Finished
  /\ UNCHANGED <<archive, hash, Reading>>

\* The TTL of the stream passes between two passes of the cron.
StreamExpires ==
  /\ log.ttl # "none" /\ arch.pc = "idle" /\ log.lo <= log.n
  /\ log' = [log EXCEPT !.lo = log.n + 1]
  /\ UNCHANGED <<Elsewhere, Archiving>>

StreamNext ==
  \/ Write \/ StopWriting \/ PublishVerdict \/ PublishCancel \/ Crash
  \/ PublishLost
  \/ CreateTicket \/ ExpireTicket \/ Connect \/ Disconnect \/ ReadStream \/ ReadHash
  \/ StartArchive \/ RetryArchive \/ ReadPage \/ Put \/ Expire \/ ClearMarker
  \/ FailArchive \/ RecordFailure \/ StreamExpires

StreamSpec == StreamInit /\ [][StreamNext]_streamVars
-----------------------------------------------------------------------------
\* A reader that is told "done" has every line written before the verdict
\* was published and not trimmed since, through reconnects and whatever the
\* order of stream and hash writes (stream_logs).
DoneReadersHaveAllLines ==
  reader.pc = "done" => \A l \in 1 .. hash.at : l \in Kept => l \in reader.got

\* A ticket opens one stream, and is no way around the scopes of the API
\* token that made it (create_sse_ticket_command, _authenticate_sse_ticket).
TicketGrantsNoMore ==
  /\ pass.opened <= 1
  /\ pass.opened = 1 => Everything \in pass.maker \/ ReadRun \in pass.maker

\* Whoever archived, and however often it was tried: while the stream lives,
\* an archived run has every line the stream holds (archive_logs).
ArchiveIsComplete ==
  archive.there /\ log.lo <= log.n => Kept \subseteq archive.lines

\* What is archived stays readable after the stream has expired
\* (retry_failed_archives, read_archived_logs).
ArchivedLinesStay == [][archive.lines \subseteq archive'.lines]_archive
==============================================================================
