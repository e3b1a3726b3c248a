----------------------------- MODULE Work_proofs ------------------------------
(***************************************************************************)
(* What holds of the components of MCWork for every value of their bounds. *)
(* Each component has an inductive invariant of its own, that of the       *)
(* requests in a module of its own; no two components share a variable, so *)
(* their conjunction is an invariant of the whole.                         *)
(***************************************************************************)
EXTENDS MCWork, RunRequests_proofs, FunctionTheorems

(***************************************************************************)
(* The log. A reader has what the stream keeps up to its cursor            *)
(* (ReaderHasUpToCursor), and the archive what it keeps before its own     *)
(* (ArchiveHasUpToCursor); nothing is written once an archive begins.      *)
(***************************************************************************)

StreamShape ==
  /\ log \in [n : 0 .. Lines, lo : 1 .. Lines + 1, ttl : {"none", "short", "long"}]
  /\ log.lo <= log.n + 1
  /\ writer \in {"writing", "publishing", "last", "archiving", "ended", "crashed"}
  /\ hash \in [over : BOOLEAN, at : 0 .. Lines] /\ hash.at <= log.n
  /\ reader \in [pc : {"away", "read", "check", "done"}, cursor : 0 .. Lines,
                 seen : BOOLEAN, got : SUBSET (1 .. Lines)]
  /\ reader.cursor <= log.n
  /\ pass \in [live : BOOLEAN, scopes : (SUBSET Action) \union Callers,
               maker : (SUBSET Action) \union Callers, opened : Nat]
  /\ archive \in [there : BOOLEAN, lines : SUBSET (1 .. Lines)]
  /\ arch \in [by : {"none", "worker", "cron"},
               pc : {"idle", "range", "put", "expire", "clear", "fail"},
               cursor : 1 .. Lines + 1, got : SUBSET (1 .. Lines)]
  /\ marker \in BOOLEAN /\ faults \in 0 .. StreamFaults

\* The reader has what is kept up to its cursor; the last read of one that is
\* done found nothing behind it, after the status was over.
ReaderHasUpToCursor ==
  /\ \A l \in Kept : l <= reader.cursor => l \in reader.got
  /\ reader.seen => hash.over
  /\ reader.pc = "done" =>
       reader.seen /\ \A l \in Kept : l <= hash.at => l \in reader.got

\* A ticket that may still be used was not used.
TicketIsUnused ==
  /\ pass.live => pass.opened = 0 /\ pass.maker = pass.scopes
  /\ pass.opened <= 1
  /\ pass.opened = 1 => Everything \in pass.maker \/ ReadRun \in pass.maker

\* Nothing is written once the archive begins; it has what is kept before its
\* cursor, and in the end all of it.
ArchiveHasUpToCursor ==
  /\ arch.pc # "idle" \/ marker \/ archive.there => writer \in {"archiving", "ended"}
  /\ arch.pc = "range" => \A l \in Kept : l < arch.cursor => l \in arch.got
  /\ arch.pc \in {"put", "expire", "clear"} => Kept \subseteq arch.got
  /\ archive.there => Kept \subseteq archive.lines

StreamInv == StreamShape /\ ReaderHasUpToCursor /\ TicketIsUnused /\ ArchiveHasUpToCursor

-----------------------------------------------------------------------------
LEMMA StreamNumbers ==
  Lines \in Nat /\ MaxLen \in Nat \ {0} /\ Page \in Nat \ {0} /\ StreamFaults \in Nat
BY StreamAssumption

LEMMA StreamTypes ==
  ASSUME StreamInv
  PROVE  /\ log.n \in Nat /\ log.n <= Lines /\ log.lo \in Nat \ {0} /\ log.lo <= log.n + 1
         /\ hash.at \in Nat /\ hash.at <= log.n /\ hash.over \in BOOLEAN
         /\ reader.cursor \in Nat /\ reader.cursor <= log.n
         /\ arch.cursor \in Nat \ {0} /\ arch.cursor <= Lines + 1
         /\ faults \in Nat /\ faults <= StreamFaults
         /\ \A l : l \in Kept <=> l \in Nat /\ log.lo <= l /\ l <= log.n
         /\ Kept \subseteq 1 .. Lines
BY StreamNumbers DEF StreamInv, StreamShape, Kept

\* One call returns what is kept from i on without a gap, and nothing only if
\* nothing is kept from there on.
LEMMA PageIsTheNext ==
  ASSUME StreamInv, NEW i \in Nat
  PROVE  /\ PageFrom(i) \subseteq Kept
         /\ PageFrom(i) = {} => \A l \in Kept : l < i
         /\ PageFrom(i) # {} =>
              \A d : /\ LastOf(PageFrom(i), d) \in PageFrom(i)
                     /\ \A l \in Kept : l >= i /\ l <= LastOf(PageFrom(i), d)
                                          => l \in PageFrom(i)
<1> DEFINE from == IF i > log.lo THEN i ELSE log.lo
           last == IF log.n < Page + from - 1 THEN log.n ELSE Page + from - 1
<1>1. \A l : l \in PageFrom(i) <=> l \in Nat /\ log.lo <= l /\ l <= log.n /\ l >= i /\ l < Page + from
  BY StreamTypes DEF PageFrom
<1>2. from \in Nat /\ from >= i /\ from >= log.lo /\ (from = i \/ from = log.lo)
  BY StreamTypes
<1>3. last \in Int /\ last <= log.n /\ last <= Page + from - 1
      /\ (last = log.n \/ last = Page + from - 1)
  BY <1>2, StreamTypes, StreamNumbers
<1> HIDE DEF from, last
<1>4. PageFrom(i) \subseteq Kept
  BY DEF PageFrom
<1>5. ASSUME PageFrom(i) = {} PROVE \A l \in Kept : l < i
  <2> SUFFICES ASSUME NEW l \in Kept, ~(l < i) PROVE FALSE
    OBVIOUS
  <2>1. from <= log.n
    BY <1>2, StreamTypes
  <2>2. from \in PageFrom(i)
    BY <1>1, <1>2, <2>1, StreamNumbers
  <2> QED BY <1>5, <2>2
<1>6. ASSUME PageFrom(i) # {}, NEW d
      PROVE  /\ LastOf(PageFrom(i), d) \in PageFrom(i)
             /\ \A l \in Kept : l >= i /\ l <= LastOf(PageFrom(i), d) => l \in PageFrom(i)
  <2>1. PICK k : k \in PageFrom(i)
    BY <1>6
  <2>2. from <= k /\ from <= log.n
    BY <1>1, <1>2, <2>1, StreamTypes
  <2>3. last >= from
    BY <1>3, <1>2, <2>2, StreamNumbers
  <2>4. last \in PageFrom(i)
    BY <1>1, <1>2, <1>3, <2>3, StreamTypes, StreamNumbers
  <2>5. \A l \in PageFrom(i) : l <= last
    BY <1>1, <1>2, <1>3, StreamTypes, StreamNumbers
  <2>6. /\ LastOf(PageFrom(i), d) \in PageFrom(i)
        /\ \A l \in PageFrom(i) : l <= LastOf(PageFrom(i), d)
    BY <1>6, <2>4, <2>5 DEF LastOf
  <2> QED BY <1>1, <2>6, StreamTypes, <1>2, StreamNumbers
<1> QED BY <1>4, <1>5, <1>6

LEMMA InitStream == StreamInit => StreamInv
<1> SUFFICES ASSUME StreamInit PROVE StreamInv
  OBVIOUS
<1>1. 0 \in 0 .. Lines /\ 1 \in 1 .. Lines + 1 /\ 0 \in 0 .. StreamFaults
  BY StreamNumbers
<1>2. log \in [n : 0 .. Lines, lo : 1 .. Lines + 1, ttl : {"none", "short", "long"}]
  BY <1>1 DEF StreamInit
<1>3. reader \in [pc : {"away", "read", "check", "done"}, cursor : 0 .. Lines,
                  seen : BOOLEAN, got : SUBSET (1 .. Lines)]
  BY <1>1 DEF StreamInit, Away
<1>4. arch \in [by : {"none", "worker", "cron"},
                pc : {"idle", "range", "put", "expire", "clear", "fail"},
                cursor : 1 .. Lines + 1, got : SUBSET (1 .. Lines)]
  BY <1>1 DEF StreamInit, Resting
<1>5. pass \in [live : BOOLEAN, scopes : (SUBSET Action) \union Callers,
                maker : (SUBSET Action) \union Callers, opened : Nat]
  BY DEF StreamInit, NoTicket
<1>6. /\ hash \in [over : BOOLEAN, at : 0 .. Lines]
      /\ archive \in [there : BOOLEAN, lines : SUBSET (1 .. Lines)]
      /\ faults \in 0 .. StreamFaults
  BY <1>1 DEF StreamInit, NoObject
<1>7. StreamShape
  <2>1. log.lo <= log.n + 1 /\ hash.at <= log.n /\ reader.cursor <= log.n
    BY DEF StreamInit, Away
  <2>2. /\ writer \in {"writing", "publishing", "last", "archiving", "ended", "crashed"}
        /\ marker \in BOOLEAN
    BY DEF StreamInit
  <2> QED BY <1>2, <1>3, <1>4, <1>5, <1>6, <2>1, <2>2 DEF StreamShape
<1>8. Kept = {}
  BY DEF StreamInit, Kept
<1> QED BY <1>7, <1>8
        DEF StreamInit, StreamInv, ReaderHasUpToCursor, TicketIsUnused, ArchiveHasUpToCursor,
            Away, NoTicket, Resting, NoObject

-----------------------------------------------------------------------------
\* The writer: what is written comes after all that anybody has read.
LEMMA WriteKeeps == ASSUME StreamInv, Write PROVE StreamInv'
<1>1. /\ writer \in {"writing", "last"} /\ log.n < Lines /\ log' = AppendLine(log)
      /\ writer' \in {writer, "archiving"}
      /\ UNCHANGED <<hash, reader, pass, archive, arch, marker, faults>>
  BY DEF Write, Reading, Archiving
<1>2. /\ log'.n = log.n + 1 /\ log'.ttl = log.ttl
      /\ log'.lo = IF log.n + 2 - log.lo > MaxLen THEN log.n + 2 - MaxLen ELSE log.lo
      /\ log' \in [n : 0 .. Lines, lo : 1 .. Lines + 1, ttl : {"none", "short", "long"}]
  <2> DEFINE lo == IF log.n + 2 - log.lo > MaxLen THEN log.n + 2 - MaxLen ELSE log.lo
             n == log.n + 1
  <2>1. lo \in 1 .. Lines + 1 /\ n \in 0 .. Lines
    BY <1>1, StreamTypes, StreamNumbers
  <2>2. log' = [log EXCEPT !.n = n, !.lo = lo]
    BY <1>1 DEF AppendLine
  <2>3. log \in [n : 0 .. Lines, lo : 1 .. Lines + 1, ttl : {"none", "short", "long"}]
    BY DEF StreamInv, StreamShape
  <2> HIDE DEF lo, n
  <2>4. log'.n = n /\ log'.lo = lo /\ log'.ttl = log.ttl
        /\ log' \in [n : 0 .. Lines, lo : 1 .. Lines + 1, ttl : {"none", "short", "long"}]
    BY <2>1, <2>2, <2>3
  <2> QED BY <2>4 DEF lo, n
<1>3. log'.lo >= log.lo /\ log'.lo <= log.n + 1
  BY <1>2, StreamTypes, StreamNumbers
<1>4. \A l \in Kept' : l \in Kept \/ l = log.n + 1
  BY <1>2, <1>3, StreamTypes DEF Kept
<1>5. arch.pc = "idle" /\ ~marker /\ ~archive.there
  BY <1>1 DEF StreamInv, ArchiveHasUpToCursor
<1>6. StreamShape'
  BY <1>1, <1>2, <1>3, StreamTypes DEF StreamInv, StreamShape
<1>7. ReaderHasUpToCursor'
  BY <1>1, <1>4, StreamTypes DEF StreamInv, ReaderHasUpToCursor
<1>8. TicketIsUnused' /\ ArchiveHasUpToCursor'
  BY <1>1, <1>5 DEF StreamInv, TicketIsUnused, ArchiveHasUpToCursor
<1> QED BY <1>6, <1>7, <1>8 DEF StreamInv

\* The status is published once, with what is written by then.
LEMMA PublishKeeps ==
  ASSUME StreamInv, StopWriting \/ PublishVerdict \/ PublishCancel \/ Crash \/ PublishLost
  PROVE  StreamInv'
<1>1. UNCHANGED <<log, reader, pass, archive, arch, marker, faults>>
  BY DEF StopWriting, PublishVerdict, PublishCancel, Crash, PublishLost, Reading, Archiving
<1>2. hash' = hash \/ (~hash.over /\ hash' = [over |-> TRUE, at |-> log.n])
  BY DEF StopWriting, PublishVerdict, PublishCancel, Crash, PublishLost, Over
<1>3. /\ writer \notin {"archiving", "ended"}
      /\ writer' \in {"writing", "publishing", "last", "archiving", "ended", "crashed"}
  BY DEF StopWriting, PublishVerdict, PublishCancel, Crash, PublishLost, StreamInv, StreamShape
<1>4. /\ hash' \in [over : BOOLEAN, at : 0 .. Lines] /\ hash'.at <= log.n
      /\ hash.over => hash' = hash
  <2>1. CASE hash' = hash
    BY <2>1 DEF StreamInv, StreamShape
  <2>2. CASE ~hash.over /\ hash' = [over |-> TRUE, at |-> log.n]
    <3>1. log.n \in 0 .. Lines /\ log.n <= log.n
      BY StreamTypes
    <3> QED BY <2>2, <3>1
  <2> QED BY <1>2, <2>1, <2>2
<1>5. Kept' = Kept
  BY <1>1 DEF Kept
<1>6. StreamShape'
  BY <1>1, <1>3, <1>4 DEF StreamInv, StreamShape
<1>7. ReaderHasUpToCursor'
  BY <1>1, <1>2, <1>4, <1>5 DEF StreamInv, ReaderHasUpToCursor
<1>8. TicketIsUnused' /\ ArchiveHasUpToCursor'
  BY <1>1, <1>3, <1>5 DEF StreamInv, TicketIsUnused, ArchiveHasUpToCursor
<1> QED BY <1>6, <1>7, <1>8 DEF StreamInv

-----------------------------------------------------------------------------
LEMMA ReadRunIsNoCancel == ReadRun # CancelRun
BY DEF ReadRun, CancelRun

\* The reader and its ticket move.
LEMMA ReaderMoves ==
  ASSUME StreamInv, UNCHANGED <<log, writer, hash, archive, arch, marker, faults>>,
         reader' \in [pc : {"away", "read", "check", "done"}, cursor : 0 .. Lines,
                      seen : BOOLEAN, got : SUBSET (1 .. Lines)],
         reader'.cursor <= log.n, ReaderHasUpToCursor',
         pass' \in [live : BOOLEAN, scopes : (SUBSET Action) \union Callers,
                    maker : (SUBSET Action) \union Callers, opened : Nat],
         TicketIsUnused'
  PROVE  StreamInv'
<1>1. Kept' = Kept
  BY DEF Kept
<1> QED BY <1>1 DEF StreamInv, StreamShape, ArchiveHasUpToCursor

LEMMA TicketKeeps == ASSUME StreamInv, CreateTicket \/ ExpireTicket PROVE StreamInv'
<1>1. /\ UNCHANGED <<log, writer, hash, reader, archive, arch, marker, faults>>
      /\ pass' = NoTicket \/ \E scopes \in Callers : pass' = PassFor(scopes)
  BY DEF CreateTicket, ExpireTicket, Archiving
<1>2. /\ pass' \in [live : BOOLEAN, scopes : (SUBSET Action) \union Callers,
                    maker : (SUBSET Action) \union Callers, opened : Nat]
      /\ TicketIsUnused'
  <2>1. CASE pass' = NoTicket
    BY <2>1 DEF NoTicket, TicketIsUnused
  <2>2. ASSUME NEW scopes \in Callers, pass' = PassFor(scopes)
        PROVE  /\ pass' \in [live : BOOLEAN, scopes : (SUBSET Action) \union Callers,
                              maker : (SUBSET Action) \union Callers, opened : Nat]
               /\ TicketIsUnused'
    <3>1. /\ pass'.live /\ pass'.scopes = scopes /\ pass'.maker = scopes /\ pass'.opened = 0
          /\ pass' = [live |-> TRUE, scopes |-> scopes, maker |-> scopes, opened |-> 0]
      BY <2>2 DEF PassFor
    <3> DEFINE kinds == (SUBSET Action) \union Callers
    <3>2. scopes \in kinds
      OBVIOUS
    <3> HIDE DEF kinds
    <3>3. pass' \in [live : BOOLEAN, scopes : kinds, maker : kinds, opened : Nat]
      BY <3>1, <3>2
    <3> QED BY <3>1, <3>3 DEF TicketIsUnused, kinds
  <2> QED BY <1>1, <2>1, <2>2
<1>3. ReaderHasUpToCursor'
  BY <1>1 DEF StreamInv, ReaderHasUpToCursor, Kept
<1> QED BY <1>1, <1>2, <1>3, ReaderMoves DEF StreamInv, StreamShape

LEMMA ConnectKeeps == ASSUME StreamInv, Connect PROVE StreamInv'
<1> DEFINE ctx == [role |-> "member", admin |-> FALSE, action |-> ReadRun,
                   own |-> FALSE, scopes |-> pass.scopes]
<1>1. /\ pass.live /\ reader.pc = "away"
      /\ UNCHANGED <<log, writer, hash, archive, arch, marker, faults>>
  BY DEF Connect, Archiving
<1>2. /\ reader \in [pc : {"away", "read", "check", "done"}, cursor : 0 .. Lines,
                     seen : BOOLEAN, got : SUBSET (1 .. Lines)]
      /\ reader.cursor <= log.n
      /\ pass \in [live : BOOLEAN, scopes : (SUBSET Action) \union Callers,
                   maker : (SUBSET Action) \union Callers, opened : Nat]
      /\ pass.opened = 0 /\ pass.maker = pass.scopes
  BY <1>1 DEF StreamInv, StreamShape, TicketIsUnused
<1>3. Kept' = Kept
  BY <1>1 DEF Kept
<1>4. CASE CheckPermission(ctx, "viewer")
  <2>1. /\ pass' = [pass EXCEPT !.live = FALSE, !.opened = @ + 1]
        /\ reader' = [reader EXCEPT !.pc = "read", !.seen = FALSE]
    BY <1>4 DEF Connect
  <2>2. Everything \in pass.scopes \/ ReadRun \in pass.scopes
    BY <1>4, ReadRunIsNoCancel DEF CheckPermission, ScopesAdmit, Covers
  <2>3. /\ pass' \in [live : BOOLEAN, scopes : (SUBSET Action) \union Callers,
                      maker : (SUBSET Action) \union Callers, opened : Nat]
        /\ pass'.opened = 1 /\ ~pass'.live /\ pass'.maker = pass.scopes
    <3> DEFINE kinds == (SUBSET Action) \union Callers
    <3> HIDE DEF kinds
    <3>1. pass \in [live : BOOLEAN, scopes : kinds, maker : kinds, opened : Nat]
      BY <1>2 DEF kinds
    <3>2. pass' = [pass EXCEPT !.live = FALSE, !.opened = 1]
      BY <1>2, <2>1
    <3>3. /\ pass' \in [live : BOOLEAN, scopes : kinds, maker : kinds, opened : Nat]
          /\ pass'.opened = 1 /\ ~pass'.live /\ pass'.maker = pass.maker
      BY <3>1, <3>2
    <3> QED BY <1>2, <3>3 DEF kinds
  <2>4. TicketIsUnused'
    BY <2>2, <2>3 DEF TicketIsUnused
  <2>5. /\ reader' \in [pc : {"away", "read", "check", "done"}, cursor : 0 .. Lines,
                        seen : BOOLEAN, got : SUBSET (1 .. Lines)]
        /\ reader'.cursor = reader.cursor /\ reader'.got = reader.got /\ reader'.pc = "read"
        /\ ~reader'.seen
    BY <1>2, <2>1
  <2>6. ReaderHasUpToCursor'
    BY <1>3, <2>5 DEF StreamInv, ReaderHasUpToCursor
  <2> QED BY <1>1, <1>2, <2>3, <2>4, <2>5, <2>6, ReaderMoves
<1>5. CASE ~CheckPermission(ctx, "viewer")
  <2>1. pass' = [pass EXCEPT !.live = FALSE] /\ reader' = reader
    BY <1>5 DEF Connect
  <2>2. /\ pass' \in [live : BOOLEAN, scopes : (SUBSET Action) \union Callers,
                      maker : (SUBSET Action) \union Callers, opened : Nat]
        /\ pass'.opened = 0 /\ ~pass'.live
    BY <1>2, <2>1
  <2>3. TicketIsUnused' /\ ReaderHasUpToCursor'
    BY <1>1, <1>3, <2>1, <2>2 DEF TicketIsUnused, StreamInv, ReaderHasUpToCursor
  <2> QED BY <1>1, <1>2, <2>1, <2>2, <2>3, ReaderMoves
<1> QED BY <1>4, <1>5

LEMMA ReadingLogKeeps ==
  ASSUME StreamInv, Disconnect \/ ReadStream \/ ReadHash PROVE StreamInv'
<1>1. UNCHANGED <<log, writer, hash, pass, archive, arch, marker, faults>>
  BY DEF Disconnect, ReadStream, ReadHash, Archiving
<1>2. /\ reader \in [pc : {"away", "read", "check", "done"}, cursor : 0 .. Lines,
                     seen : BOOLEAN, got : SUBSET (1 .. Lines)]
      /\ reader.cursor <= log.n
  BY DEF StreamInv, StreamShape
<1>3. Kept' = Kept
  BY <1>1 DEF Kept
<1>4. /\ TicketIsUnused'
      /\ pass' \in [live : BOOLEAN, scopes : (SUBSET Action) \union Callers,
                    maker : (SUBSET Action) \union Callers, opened : Nat]
  BY <1>1 DEF StreamInv, StreamShape, TicketIsUnused
<1>5. CASE Disconnect \/ ReadHash
  <2>1. /\ reader' \in [pc : {"away", "read", "check", "done"}, cursor : 0 .. Lines,
                        seen : BOOLEAN, got : SUBSET (1 .. Lines)]
        /\ reader'.cursor = reader.cursor /\ reader'.got = reader.got
        /\ reader'.pc # "done" /\ reader'.seen \in {reader.seen, hash.over}
    BY <1>2, <1>5, StreamTypes DEF Disconnect, ReadHash
  <2>2. ReaderHasUpToCursor'
    BY <1>1, <1>3, <2>1 DEF StreamInv, ReaderHasUpToCursor
  <2> QED BY <1>1, <1>2, <1>4, <2>1, <2>2, ReaderMoves
<1>6. CASE ReadStream
  <2> DEFINE lines == PageFrom(reader.cursor + 1)
             cursor == LastOf(lines, reader.cursor)
             pc == IF reader.seen /\ lines = {} THEN "done"
                   ELSE IF reader.seen THEN "read" ELSE "check"
             got == reader.got \union lines
  <2>1. reader' = [reader EXCEPT !.pc = pc, !.got = got, !.cursor = cursor]
    BY <1>6 DEF ReadStream, AfterRead
  <2>2. /\ lines \subseteq Kept
        /\ lines = {} => \A l \in Kept : l < reader.cursor + 1
        /\ lines # {} =>
             /\ cursor \in lines
             /\ \A l \in Kept : l >= reader.cursor + 1 /\ l <= cursor => l \in lines
    BY PageIsTheNext, StreamTypes, SMTT(30)
  <2>3. lines = {} => cursor = reader.cursor
    BY DEF LastOf
  <2>4. pc \in {"done", "read", "check"} /\ (pc = "done" => reader.seen /\ lines = {})
    OBVIOUS
  <2> HIDE DEF lines, cursor, pc
  <2>5. cursor \in 0 .. Lines /\ cursor <= log.n
    BY <2>2, <2>3, <1>2, StreamTypes
  <2>6. got \in SUBSET (1 .. Lines)
    BY <1>2, <2>2, StreamTypes
  <2>7. \A l \in Kept : l <= cursor => l \in got
    <3> SUFFICES ASSUME NEW l \in Kept, l <= cursor PROVE l \in got
      OBVIOUS
    <3>1. l <= reader.cursor => l \in reader.got
      BY DEF StreamInv, ReaderHasUpToCursor
    <3>2. l \in Nat /\ reader.cursor \in Nat
      BY StreamTypes
    <3> QED BY <2>2, <2>3, <3>1, <3>2
  <2>8. lines = {} => \A l \in Kept : l \in got
    BY <2>2, <2>3, <2>7, StreamTypes
  <2> HIDE DEF got
  <2>9. /\ reader' \in [pc : {"away", "read", "check", "done"}, cursor : 0 .. Lines,
                        seen : BOOLEAN, got : SUBSET (1 .. Lines)]
        /\ reader'.pc = pc /\ reader'.cursor = cursor /\ reader'.got = got
        /\ reader'.seen = reader.seen
    BY <1>2, <2>1, <2>4, <2>5, <2>6
  <2>10. ReaderHasUpToCursor'
    BY <1>1, <1>3, <2>4, <2>7, <2>8, <2>9 DEF StreamInv, ReaderHasUpToCursor
  <2> QED BY <1>1, <1>4, <2>5, <2>9, <2>10, ReaderMoves
<1> QED BY <1>5, <1>6

-----------------------------------------------------------------------------
\* A step of the archive, or the end of the stream: the lines kept are no more
\* than before.
LEMMA ArchiveMoves ==
  ASSUME StreamInv, UNCHANGED <<hash, reader, pass>>,
         log' \in [n : 0 .. Lines, lo : 1 .. Lines + 1, ttl : {"none", "short", "long"}],
         log'.n = log.n, log'.lo <= log.n + 1, Kept' \subseteq Kept,
         writer' \in {"writing", "publishing", "last", "archiving", "ended", "crashed"},
         archive' \in [there : BOOLEAN, lines : SUBSET (1 .. Lines)],
         arch' \in [by : {"none", "worker", "cron"},
                    pc : {"idle", "range", "put", "expire", "clear", "fail"},
                    cursor : 1 .. Lines + 1, got : SUBSET (1 .. Lines)],
         marker' \in BOOLEAN, faults' \in 0 .. StreamFaults,
         ArchiveHasUpToCursor'
  PROVE  StreamInv'
<1>1. StreamShape'
  BY StreamTypes DEF StreamInv, StreamShape
<1>2. ReaderHasUpToCursor' /\ TicketIsUnused'
  BY DEF StreamInv, ReaderHasUpToCursor, TicketIsUnused
<1> QED BY <1>1, <1>2 DEF StreamInv

RestShape == [by : {"none", "worker", "cron"},
              pc : {"idle", "range", "put", "expire", "clear", "fail"},
              cursor : 1 .. Lines + 1, got : SUBSET (1 .. Lines)]

LEMMA BeginArchiveKeeps ==
  ASSUME StreamInv, StartArchive \/ RetryArchive PROVE StreamInv'
<1>1. /\ \E by \in {"worker", "cron"} : arch' = [Resting EXCEPT !.by = by, !.pc = "range"]
      /\ writer \in {"archiving", "ended"}
      /\ UNCHANGED <<log, writer, hash, reader, pass, archive, marker, faults>>
  BY DEF StartArchive, RetryArchive, Elsewhere, Reading, StreamInv, ArchiveHasUpToCursor
<1>2. Kept' = Kept
  BY <1>1 DEF Kept
<1>3. /\ arch' \in RestShape /\ arch'.pc = "range" /\ arch'.cursor = 1
  <2>1. PICK by \in {"worker", "cron"} : arch' = [Resting EXCEPT !.by = by, !.pc = "range"]
    BY <1>1
  <2>2. arch' = [by |-> by, pc |-> "range", cursor |-> 1, got |-> {}]
    BY <2>1 DEF Resting
  <2>3. 1 \in 1 .. Lines + 1
    BY StreamNumbers
  <2> QED BY <2>2, <2>3 DEF RestShape
<1>4. ArchiveHasUpToCursor'
  BY <1>1, <1>2, <1>3, StreamTypes DEF StreamInv, ArchiveHasUpToCursor
<1> QED BY <1>1, <1>2, <1>3, <1>4, StreamTypes, ArchiveMoves DEF StreamInv, StreamShape, RestShape

LEMMA ReadPageKeeps == ASSUME StreamInv, ReadPage PROVE StreamInv'
<1> DEFINE page == PageFrom(arch.cursor)
           last == LastOf(page, 0)
           got == arch.got \union page
           cursor == NextStreamId(last)
<1>1. /\ arch.pc = "range" /\ arch \in RestShape
      /\ UNCHANGED <<log, writer, hash, reader, pass, archive, marker, faults>>
  BY DEF ReadPage, Elsewhere, Reading, StreamInv, StreamShape, RestShape
<1>2. /\ arch' = IF page = {} THEN [arch EXCEPT !.pc = "put"]
                 ELSE [arch EXCEPT !.got = got, !.cursor = cursor]
  BY DEF ReadPage
<1>3. /\ page \subseteq Kept
      /\ page = {} => \A l \in Kept : l < arch.cursor
      /\ page # {} =>
           /\ last \in page
           /\ \A l \in Kept : l >= arch.cursor /\ l <= last => l \in page
  BY PageIsTheNext, StreamTypes
<1>4. \A l \in Kept : l < arch.cursor => l \in arch.got
  BY <1>1 DEF StreamInv, ArchiveHasUpToCursor
<1>5. cursor = last + 1
  BY DEF NextStreamId
<1>6. Kept' = Kept
  BY <1>1 DEF Kept
<1> HIDE DEF page, last, cursor
<1>7. CASE page = {}
  <2>1. arch' \in RestShape /\ arch'.pc = "put" /\ arch'.got = arch.got
    BY <1>1, <1>2, <1>7 DEF RestShape
  <2>2. ArchiveHasUpToCursor'
    BY <1>1, <1>3, <1>4, <1>6, <1>7, <2>1 DEF StreamInv, ArchiveHasUpToCursor
  <2> QED BY <1>1, <1>6, <2>1, <2>2, StreamTypes, ArchiveMoves
          DEF StreamInv, StreamShape, RestShape
<1>8. CASE page # {}
  <2>1. last \in Nat /\ last <= Lines /\ cursor \in 1 .. Lines + 1
    <3>1. last \in Kept
      BY <1>3, <1>8
    <3>2. last \in Nat /\ last <= Lines
      BY <3>1, StreamTypes, StreamNumbers
    <3> QED BY <3>2, <1>5, StreamNumbers
  <2>2. got \in SUBSET (1 .. Lines)
    BY <1>1, <1>3, StreamTypes DEF RestShape
  <2>3. \A l \in Kept : l < cursor => l \in got
    BY <1>3, <1>4, <1>5, <1>8, <2>1, StreamTypes
  <2> HIDE DEF got
  <2>4. arch' \in RestShape /\ arch'.pc = "range" /\ arch'.got = got /\ arch'.cursor = cursor
    BY <1>1, <1>2, <1>8, <2>1, <2>2 DEF RestShape
  <2>5. ArchiveHasUpToCursor'
    BY <1>1, <1>6, <2>3, <2>4 DEF StreamInv, ArchiveHasUpToCursor
  <2> QED BY <1>1, <1>6, <2>4, <2>5, StreamTypes, ArchiveMoves
          DEF StreamInv, StreamShape, RestShape
<1> QED BY <1>7, <1>8

LEMMA PutKeeps == ASSUME StreamInv, Put PROVE StreamInv'
<1>1. /\ arch.pc = "put" /\ arch \in RestShape
      /\ archive' = [there |-> TRUE, lines |-> arch.got]
      /\ arch' = [arch EXCEPT !.pc = "expire"]
      /\ UNCHANGED <<log, writer, hash, reader, pass, marker, faults>>
  BY DEF Put, Elsewhere, Reading, StreamInv, StreamShape, RestShape
<1>2. arch' \in RestShape /\ arch'.pc = "expire" /\ arch'.got = arch.got
  BY <1>1 DEF RestShape
<1>3. /\ archive' \in [there : BOOLEAN, lines : SUBSET (1 .. Lines)]
      /\ archive'.lines = arch.got
  BY <1>1 DEF RestShape
<1>4. Kept' = Kept
  BY <1>1 DEF Kept
<1>5. ArchiveHasUpToCursor'
  BY <1>1, <1>2, <1>3, <1>4 DEF StreamInv, ArchiveHasUpToCursor
<1> QED BY <1>1, <1>2, <1>3, <1>4, <1>5, StreamTypes, ArchiveMoves
        DEF StreamInv, StreamShape, RestShape

LEMMA ExpireKeeps == ASSUME StreamInv, Expire PROVE StreamInv'
<1>1. /\ arch.pc = "expire" /\ arch \in RestShape
      /\ log' = [log EXCEPT !.ttl = "short"]
      /\ arch' = [arch EXCEPT !.pc = "clear"]
      /\ UNCHANGED <<writer, hash, reader, pass, archive, marker, faults>>
  BY DEF Expire, Elsewhere, Reading, StreamInv, StreamShape, RestShape
<1>2. arch' \in RestShape /\ arch'.pc = "clear" /\ arch'.got = arch.got
  BY <1>1 DEF RestShape
<1>3. /\ log' \in [n : 0 .. Lines, lo : 1 .. Lines + 1, ttl : {"none", "short", "long"}]
      /\ log'.n = log.n /\ log'.lo = log.lo
  BY <1>1 DEF StreamInv, StreamShape
<1>4. Kept' = Kept
  BY <1>3 DEF Kept
<1>5. ArchiveHasUpToCursor'
  BY <1>1, <1>2, <1>3, <1>4 DEF StreamInv, ArchiveHasUpToCursor
<1> QED BY <1>1, <1>2, <1>3, <1>4, <1>5, StreamTypes, ArchiveMoves
        DEF StreamInv, StreamShape, RestShape

LEMMA FailArchiveKeeps == ASSUME StreamInv, FailArchive PROVE StreamInv'
<1>1. /\ arch.pc # "idle" /\ arch \in RestShape /\ faults < StreamFaults
      /\ arch' = [arch EXCEPT !.pc = "fail"] /\ faults' = faults + 1
      /\ UNCHANGED <<log, writer, hash, reader, pass, archive, marker>>
  BY DEF FailArchive, Elsewhere, Reading, StreamInv, StreamShape, RestShape
<1>2. arch' \in RestShape /\ arch'.pc = "fail"
  BY <1>1 DEF RestShape
<1>3. faults' \in 0 .. StreamFaults
  BY <1>1, StreamTypes, StreamNumbers
<1>4. Kept' = Kept
  BY <1>1 DEF Kept
<1>5. ArchiveHasUpToCursor'
  BY <1>1, <1>2, <1>4 DEF StreamInv, ArchiveHasUpToCursor
<1> QED BY <1>1, <1>2, <1>3, <1>4, <1>5, StreamTypes, ArchiveMoves
        DEF StreamInv, StreamShape, RestShape

LEMMA FinishArchiveKeeps ==
  ASSUME StreamInv, ClearMarker \/ RecordFailure PROVE StreamInv'
<1>1. /\ arch.pc # "idle" /\ arch' = Resting /\ writer' \in {writer, "ended"}
      /\ UNCHANGED <<archive, hash, reader, pass>>
  BY DEF ClearMarker, RecordFailure, Finished, Reading
<1>2. log' \in {log, [log EXCEPT !.ttl = "long"]} /\ marker' \in {marker, TRUE, FALSE}
  BY DEF ClearMarker, RecordFailure
<1>3. faults' = faults \/ (faults < StreamFaults /\ faults' = faults + 1)
  BY DEF ClearMarker, RecordFailure
<1>4. arch' \in RestShape /\ arch'.pc = "idle"
  BY <1>1, StreamNumbers DEF Resting, RestShape
<1>5. faults' \in 0 .. StreamFaults
  BY <1>3, StreamTypes, StreamNumbers
<1>6. /\ log' \in [n : 0 .. Lines, lo : 1 .. Lines + 1, ttl : {"none", "short", "long"}]
      /\ log'.n = log.n /\ log'.lo = log.lo
  BY <1>2 DEF StreamInv, StreamShape
<1>7. Kept' = Kept
  BY <1>6 DEF Kept
<1>8. writer \in {"archiving", "ended"} /\ writer' \in {"archiving", "ended"}
  BY <1>1 DEF StreamInv, ArchiveHasUpToCursor
<1>9. ArchiveHasUpToCursor'
  BY <1>1, <1>4, <1>7, <1>8 DEF StreamInv, ArchiveHasUpToCursor
<1>10. marker' \in BOOLEAN
  BY <1>2 DEF StreamInv, StreamShape
<1> QED BY <1>1, <1>4, <1>5, <1>6, <1>7, <1>8, <1>9, <1>10, StreamTypes, ArchiveMoves
        DEF StreamInv, StreamShape, RestShape

LEMMA StreamExpiresKeeps == ASSUME StreamInv, StreamExpires PROVE StreamInv'
<1>1. /\ log' = [log EXCEPT !.lo = log.n + 1] /\ arch.pc = "idle"
      /\ UNCHANGED <<writer, hash, reader, pass, archive, arch, marker, faults>>
  BY DEF StreamExpires, Elsewhere, Reading, Archiving
<1>2. log.n + 1 \in 1 .. Lines + 1
  BY StreamTypes, StreamNumbers
<1>3. /\ log' \in [n : 0 .. Lines, lo : 1 .. Lines + 1, ttl : {"none", "short", "long"}]
      /\ log'.n = log.n /\ log'.lo = log.n + 1
  BY <1>1, <1>2 DEF StreamInv, StreamShape
<1>4. Kept' = {}
  BY <1>3, StreamTypes DEF Kept
<1>5. ArchiveHasUpToCursor'
  BY <1>1, <1>4 DEF StreamInv, ArchiveHasUpToCursor
<1> QED BY <1>1, <1>3, <1>4, <1>5, StreamTypes, ArchiveMoves DEF StreamInv, StreamShape

LEMMA NextStream == StreamInv /\ [StreamNext]_streamVars => StreamInv'
<1> SUFFICES ASSUME StreamInv, [StreamNext]_streamVars PROVE StreamInv'
  OBVIOUS
<1>1. CASE UNCHANGED streamVars
  <2>1. Kept' = Kept
    BY <1>1 DEF streamVars, Kept
  <2> QED BY <1>1, <2>1 DEF streamVars, StreamInv, StreamShape, ReaderHasUpToCursor,
                            TicketIsUnused, ArchiveHasUpToCursor
<1> QED BY <1>1, WriteKeeps, PublishKeeps, TicketKeeps, ConnectKeeps, ReadingLogKeeps,
           BeginArchiveKeeps, ReadPageKeeps, PutKeeps, ExpireKeeps, FailArchiveKeeps,
           FinishArchiveKeeps, StreamExpiresKeeps DEF StreamNext

LEMMA StreamInvariant == StreamSpec => []StreamInv
BY InitStream, NextStream, PTL DEF StreamSpec

\* No order of the writes to stream and hash, and no reconnect, makes a reader
\* that is told "done" miss a line that was there at the verdict, for any
\* length of the log, of the stream and of a page (stream_logs).
THEOREM ReadersHold == StreamSpec => []DoneReadersHaveAllLines
<1>1. StreamInv => DoneReadersHaveAllLines
  BY StreamTypes DEF StreamInv, ReaderHasUpToCursor, DoneReadersHaveAllLines
<1> QED BY <1>1, StreamInvariant, PTL

\* A ticket is used once, and only by whom may read runs
\* (create_sse_ticket_command, _authenticate_sse_ticket).
THEOREM TicketsHold == StreamSpec => []TicketGrantsNoMore
<1>1. StreamInv => TicketGrantsNoMore
  BY DEF StreamInv, TicketIsUnused, TicketGrantsNoMore
<1> QED BY <1>1, StreamInvariant, PTL

\* The archive has all the stream holds, however long the log, however often
\* and by whomever it was tried (archive_logs, retry_failed_archives).
THEOREM ArchivesHold == StreamSpec => []ArchiveIsComplete
<1>1. StreamInv => ArchiveIsComplete
  BY DEF StreamInv, ArchiveHasUpToCursor, ArchiveIsComplete
<1> QED BY <1>1, StreamInvariant, PTL

-----------------------------------------------------------------------------
(***************************************************************************)
(* Notices.                                                                *)
(***************************************************************************)

Fires(r) == r \in note.on /\ Evaluate(Rules[r])

NoteShape ==
  [pc : {"idle", "load", "rule", "channel", "log", "over", "broken"},
   on : SUBSET (DOMAIN Rules), rule : 1 .. Len(Rules) + 1, at : Nat, ok : BOOLEAN,
   counts : [streak : Nat, failed : Nat, fresh : SUBSET Cases, recovered : SUBSET Cases]]

LogShape == [rows : SUBSET [rule : DOMAIN Rules, type : ChannelTypes, at : Nat, ok : BOOLEAN],
             final : BOOLEAN]

NoticesShape ==
  /\ past \in Pasts
  /\ enabled \subseteq DOMAIN Rules
  /\ quarantine \in [Cases -> {"none", "active", "expired"}]
  /\ run \in [path : {"none", "worker", "import"}, verdict : Verdicts \union {"none"},
              res : [Cases -> Outcomes], committed : BOOLEAN]
  /\ note \in NoteShape
  /\ delivered \subseteq (DOMAIN Rules) \X Nat
  /\ logs \in LogShape

\* What the log says was sent by a rule has arrived by a channel of that type.
SentArrived(r) ==
  \A l \in logs.rows : l.rule = r /\ l.ok =>
    \E k \in DOMAIN Rules[r].channels :
      Rules[r].channels[k] = l.type /\ <<r, k>> \in delivered

\* A rule the evaluation is through with, and one it has not come to.
RuleDone(r) ==
  IF Fires(r) THEN SentArrived(r) /\ \A i \in DOMAIN Rules[r].channels : Tried(r, i)
  ELSE \A i \in DOMAIN Rules[r].channels : <<r, i>> \notin delivered

RuleUntouched(r) ==
  /\ \A l \in logs.rows : l.rule # r
  /\ \A i : <<r, i>> \notin delivered

\* The rule whose channels are tried.
RuleAtWork ==
  /\ note.rule \in DOMAIN Rules /\ Fires(note.rule)
  /\ note.at \in DOMAIN Rules[note.rule].channels
  /\ SentArrived(note.rule)
  /\ \A i \in DOMAIN Rules[note.rule].channels : i < note.at => Tried(note.rule, i)
  /\ note.pc = "log" /\ note.ok => <<note.rule, note.at>> \in delivered

RulesAreTaken ==
  /\ note.pc \in {"idle", "load"} =>
       logs.rows = {} /\ delivered = {} /\ note.rule = 1 /\ note.at = 1
  /\ note.pc # "over" => ~logs.final
  /\ note.pc \in {"rule", "channel", "log"} =>
       \A r \in DOMAIN Rules :
         /\ r < note.rule => RuleDone(r)
         /\ r > note.rule => RuleUntouched(r)
  /\ note.pc = "rule" =>
       note.at = 1 /\ (note.rule \in DOMAIN Rules => RuleUntouched(note.rule))
  /\ note.pc \in {"channel", "log"} => RuleAtWork
  /\ note.pc = "over" /\ logs.final => \A r \in DOMAIN Rules : RuleDone(r)

NoticesInv == NoticesShape /\ RulesAreTaken

LEMMA RulesAreRules ==
  /\ Len(Rules) \in Nat /\ DOMAIN Rules = 1 .. Len(Rules)
  /\ \A r \in DOMAIN Rules :
       /\ Len(Rules[r].channels) \in Nat \ {0}
       /\ DOMAIN Rules[r].channels = 1 .. Len(Rules[r].channels)
       /\ \A i \in DOMAIN Rules[r].channels : Rules[r].channels[i] \in ChannelTypes
<1> DEFINE Rule == [any : BOOLEAN, parts : SUBSET (STRING \X Nat),
                    channels : Seq(ChannelTypes) \ {<<>>}]
<1>1. Rules \in Seq(Rule)
  BY RulesAssumption
<1> HIDE DEF Rule
<1>2. /\ Len(Rules) \in Nat /\ DOMAIN Rules = 1 .. Len(Rules)
      /\ \A r \in DOMAIN Rules : Rules[r] \in Rule
  BY <1>1
<1>3. ASSUME NEW r \in DOMAIN Rules
      PROVE  /\ Len(Rules[r].channels) \in Nat \ {0}
             /\ DOMAIN Rules[r].channels = 1 .. Len(Rules[r].channels)
             /\ \A i \in DOMAIN Rules[r].channels : Rules[r].channels[i] \in ChannelTypes
  <2>1. Rules[r].channels \in Seq(ChannelTypes) /\ Rules[r].channels # <<>>
    BY <1>2 DEF Rule
  <2> QED BY <2>1, EmptySeq
<1> QED BY <1>2, <1>3

\* What a rule fires on does not change once it is loaded.
LEMMA FiresStay ==
  ASSUME note'.on = note.on, note'.counts = note.counts
  PROVE  \A r : Fires(r)' <=> Fires(r)
BY DEF Fires, Evaluate, Holds

LEMMA InitNotices == NoticesInit => NoticesInv
<1> SUFFICES ASSUME NoticesInit PROVE NoticesInv
  OBVIOUS
<1>1. NoCounts \in [streak : Nat, failed : Nat, fresh : SUBSET Cases, recovered : SUBSET Cases]
  BY DEF NoCounts
<1>2. 1 \in 1 .. Len(Rules) + 1
  BY RulesAreRules
<1>3. NoNote \in NoteShape
  BY <1>1, <1>2 DEF NoNote, NoteShape
<1>4. run \in [path : {"none", "worker", "import"}, verdict : Verdicts \union {"none"},
               res : [Cases -> Outcomes], committed : BOOLEAN]
  BY DEF NoticesInit, NoRun, Outcomes
<1>5. /\ past \in Pasts
      /\ enabled \subseteq DOMAIN Rules /\ delivered \subseteq (DOMAIN Rules) \X Nat
      /\ quarantine \in [Cases -> {"none", "active", "expired"}]
      /\ logs \in LogShape
  BY DEF NoticesInit, LogShape, NoPast, Pasts, History
<1>6. NoticesShape
  BY <1>3, <1>4, <1>5 DEF NoticesInit, NoticesShape
<1>7. RulesAreTaken
  BY DEF NoticesInit, NoNote, RulesAreTaken
<1> QED BY <1>6, <1>7 DEF NoticesInv

\* The evaluation stands still.
LEMMA NoteStays ==
  ASSUME NoticesInv, NoticesShape', UNCHANGED <<note, delivered, logs>>
  PROVE  NoticesInv'
<1>1. \A r : Fires(r)' <=> Fires(r)
  BY FiresStay
<1>2. \A r : (RuleDone(r)' <=> RuleDone(r)) /\ (RuleUntouched(r)' <=> RuleUntouched(r))
  BY <1>1 DEF RuleDone, RuleUntouched, SentArrived, Tried
<1>3. RuleAtWork' <=> RuleAtWork
  BY <1>1 DEF RuleAtWork, SentArrived, Tried
<1> QED BY <1>2, <1>3 DEF NoticesInv, RulesAreTaken

LEMMA OutsideKeeps ==
  ASSUME NoticesInv,
         \/ \E prior \in BOOLEAN, failing \in SUBSET Cases, streak \in 0 .. 1, c \in Cases,
                history \in Histories : Before(prior, failing, streak, c, history)
         \/ \E c \in Cases : \/ AddToQuarantine(c) \/ RemoveFromQuarantine(c)
                              \/ PassExpiry(c)
         \/ DeleteExpired
         \/ \E path \in {"worker", "import"}, verdict \in Verdicts,
                res \in [Cases -> Outcomes] : Finish(path, verdict, res)
         \/ \E r \in DOMAIN Rules : CreateRule(r) \/ UpdateRule(r) \/ DeleteRule(r)
         \/ CommitVerdict
  PROVE  NoticesInv'
<1> USE DEF NoticesInv, NoticesShape
<1>1. ASSUME NEW prior \in BOOLEAN, NEW failing \in SUBSET Cases, NEW streak \in 0 .. 1,
             NEW c \in Cases, NEW history \in Histories,
             Before(prior, failing, streak, c, history)
      PROVE  NoticesInv'
  <2>1. history \in History
    BY HistoriesAssumption
  <2>2. past' \in Pasts
    <3>1. past.hist \in [Cases -> History]
      BY DEF Pasts
    <3>2. past'.hist \in [Cases -> History]
      BY <1>1, <2>1, <3>1 DEF Before
    <3> QED BY <1>1, <3>2 DEF Before, Pasts
  <2> QED BY <1>1, <2>2, NoteStays DEF Before
<1>2. ASSUME NEW c \in Cases, NEW st \in {"none", "active", "expired"}, EntryBecomes(c, st)
      PROVE  NoticesInv'
  BY <1>2, NoteStays DEF EntryBecomes
<1>3. CASE \E c \in Cases : AddToQuarantine(c) \/ RemoveFromQuarantine(c) \/ PassExpiry(c)
  BY <1>2, <1>3 DEF AddToQuarantine, RemoveFromQuarantine, PassExpiry
<1>4. CASE DeleteExpired
  BY <1>4, NoteStays DEF DeleteExpired
<1>5. CASE \E path \in {"worker", "import"}, verdict \in Verdicts,
             res \in [Cases -> Outcomes] : Finish(path, verdict, res)
  BY <1>5, NoteStays DEF Finish
<1>6. CASE \E r \in DOMAIN Rules : CreateRule(r) \/ UpdateRule(r) \/ DeleteRule(r)
  <2>1. PICK r \in DOMAIN Rules : CreateRule(r) \/ UpdateRule(r) \/ DeleteRule(r)
    BY <1>6
  <2>2. /\ enabled' \subseteq DOMAIN Rules
        /\ UNCHANGED <<past, quarantine, run, note, delivered, logs>>
    BY <2>1 DEF CreateRule, UpdateRule, DeleteRule, RulesBecome
  <2> QED BY <2>2, NoteStays
<1>7. CASE CommitVerdict
  BY <1>7, NoteStays DEF CommitVerdict
<1> QED BY <1>1, <1>3, <1>4, <1>5, <1>6, <1>7

LEMMA CountsAreNumbers ==
  ASSUME NoticesInv
  PROVE  Counts(run.committed)
           \in [streak : Nat, failed : Nat, fresh : SUBSET Cases, recovered : SUBSET Cases]
<1>1. Cardinality(Failing(run.res)) \in Nat
  BY RulesAssumption, FS_Subset, FS_CardinalityType DEF Failing
<1>2. Streak(run.committed) \in Nat
  BY DEF Streak, Pasts, NoticesInv, NoticesShape
<1>3. Seen(run.committed) \subseteq Cases /\ past.failing \subseteq Cases
  BY DEF Seen, Failing, Pasts, NoticesInv, NoticesShape
<1> QED BY <1>1, <1>2, <1>3 DEF Counts

LEMMA ReadingKeeps == ASSUME NoticesInv, ReadRules \/ Load PROVE NoticesInv'
<1>1. /\ UNCHANGED <<past, enabled, quarantine, run, delivered, logs>>
      /\ note.pc \in {"idle", "load"}
      /\ logs.rows = {} /\ delivered = {} /\ ~logs.final
      /\ note.rule = 1 /\ note.at = 1
  BY DEF ReadRules, Load, NoticesInv, RulesAreTaken
<1>2. 1 \in 1 .. Len(Rules) + 1 /\ NoNote.counts
        \in [streak : Nat, failed : Nat, fresh : SUBSET Cases, recovered : SUBSET Cases]
  BY RulesAreRules DEF NoNote, NoCounts
<1>3. /\ note' \in NoteShape /\ note'.rule = 1 /\ note'.at = 1
      /\ note'.pc \in {"load", "over", "rule"}
  <2>1. CASE ReadRules
    BY <2>1, <1>2 DEF ReadRules, NoNote, NoteShape, NoticesInv, NoticesShape
  <2>2. CASE Load
    <3> DEFINE counts == Counts(run.committed)
    <3>1. counts \in [streak : Nat, failed : Nat, fresh : SUBSET Cases,
                      recovered : SUBSET Cases]
      BY CountsAreNumbers
    <3>2. note' = [note EXCEPT !.pc = "rule", !.counts = counts] /\ note \in NoteShape
      BY <2>2 DEF Load, NoticesInv, NoticesShape
    <3> HIDE DEF counts
    <3> QED BY <1>1, <3>1, <3>2 DEF NoteShape
  <2> QED BY <2>1, <2>2
<1>4. NoticesShape'
  BY <1>1, <1>3 DEF NoticesInv, NoticesShape
<1>5. RulesAreTaken'
  BY <1>1, <1>3, RulesAreRules DEF RulesAreTaken, RuleUntouched
<1> QED BY <1>4, <1>5 DEF NoticesInv

\* The evaluation comes to the next rule when the last one is done.
LEMMA NextRuleKeeps ==
  ASSUME NoticesInv, note.pc \in {"rule", "channel", "log"},
         NEW done \in DOMAIN Rules, done = note.rule,
         note' = NextRule, NoticesShape',
         RuleDone(done)', logs'.final = logs.final,
         \A r \in DOMAIN Rules \ {done} :
           /\ RuleDone(r) => RuleDone(r)'
           /\ RuleUntouched(r) => RuleUntouched(r)'
  PROVE  NoticesInv'
<1>1. /\ note'.pc = "rule" /\ note'.rule = done + 1 /\ note'.at = 1
      /\ done \in 1 .. Len(Rules)
  BY RulesAreRules DEF NextRule, NoticesInv, NoticesShape, NoteShape
<1>2. ASSUME NEW r \in DOMAIN Rules
      PROVE  /\ r < done + 1 => RuleDone(r)'
             /\ r >= done + 1 => RuleUntouched(r)'
  <2>1. r \in Nat /\ done \in Nat
    BY RulesAreRules
  <2>2. CASE r = done
    BY <2>1, <2>2
  <2>3. CASE r # done
    BY <2>1, <2>3 DEF NoticesInv, RulesAreTaken
  <2> QED BY <2>2, <2>3
<1>3. ~logs'.final
  BY DEF NoticesInv, RulesAreTaken
<1>4. \A r \in DOMAIN Rules : r \in Nat
  BY RulesAreRules
<1>5. \A r \in DOMAIN Rules :
        /\ r < note'.rule => RuleDone(r)'
        /\ r > note'.rule => RuleUntouched(r)'
  BY <1>1, <1>2, <1>4
<1>6. \A r : r = note'.rule /\ r \in DOMAIN Rules => RuleUntouched(r)'
  BY <1>1, <1>2, <1>4
<1>7. note'.rule \in DOMAIN Rules => RuleUntouched(note.rule)'
  BY <1>6 DEF RuleUntouched
<1> QED BY <1>1, <1>3, <1>5, <1>7 DEF NoticesInv, RulesAreTaken

LEMMA TakeRuleKeeps == ASSUME NoticesInv, TakeRule PROVE NoticesInv'
<1>1. /\ note.pc = "rule" /\ note.at = 1 /\ note \in NoteShape /\ logs \in LogShape
      /\ UNCHANGED <<past, enabled, quarantine, run, delivered>>
  BY DEF TakeRule, NoticesInv, NoticesShape, RulesAreTaken
<1>2. note.rule \in 1 .. Len(Rules) + 1
  BY <1>1 DEF NoteShape
<1>3. CASE note.rule > Len(Rules)
  <2>1. note' = [note EXCEPT !.pc = "over"] /\ logs' = [logs EXCEPT !.final = TRUE]
    BY <1>3 DEF TakeRule
  <2>2. /\ note' \in NoteShape /\ logs' \in LogShape /\ logs'.rows = logs.rows
        /\ note'.pc = "over" /\ note'.on = note.on /\ note'.counts = note.counts
    BY <1>1, <2>1 DEF NoteShape, LogShape
  <2>3. \A r \in DOMAIN Rules : RuleDone(r)
    BY <1>1, <1>2, <1>3, RulesAreRules DEF NoticesInv, RulesAreTaken
  <2>4. \A r : Fires(r)' <=> Fires(r)
    BY <2>2, FiresStay
  <2>5. \A r \in DOMAIN Rules : RuleDone(r)'
    BY <1>1, <2>2, <2>3, <2>4 DEF RuleDone, SentArrived, Tried
  <2>6. NoticesShape'
    BY <1>1, <2>2 DEF NoticesInv, NoticesShape
  <2> QED BY <2>2, <2>5, <2>6 DEF NoticesInv, RulesAreTaken
<1>4. CASE note.rule \in DOMAIN Rules
  <2>1. ~(note.rule > Len(Rules)) /\ RuleUntouched(note.rule)
    BY <1>1, <1>4, RulesAreRules DEF NoticesInv, RulesAreTaken
  <2>2. logs' = logs
    BY <2>1 DEF TakeRule
  <2>3. CASE Fires(note.rule)
    <3>1. note' = [note EXCEPT !.pc = "channel"]
      BY <2>1, <2>3 DEF TakeRule, Fires
    <3>2. /\ note' \in NoteShape /\ note'.pc = "channel" /\ note'.rule = note.rule
          /\ note'.at = 1 /\ note'.on = note.on /\ note'.counts = note.counts
      BY <1>1, <3>1 DEF NoteShape
    <3>3. \A r : Fires(r)' <=> Fires(r)
      BY <3>2, FiresStay
    <3>4. /\ \A r \in DOMAIN Rules : RuleDone(r) => RuleDone(r)'
          /\ \A r \in DOMAIN Rules : RuleUntouched(r) => RuleUntouched(r)'
      BY <1>1, <2>2, <3>3 DEF RuleDone, RuleUntouched, SentArrived, Tried
    <3>5. SentArrived(note.rule)'
      BY <1>1, <2>1, <2>2, <3>2 DEF RuleUntouched, SentArrived
    <3>6. 1 \in DOMAIN Rules[note.rule].channels
      BY <1>4, RulesAreRules
    <3>7. RuleAtWork'
      <4>1. \A i \in DOMAIN Rules[note.rule].channels : ~(i < 1)
        BY <1>4, RulesAreRules
      <4> QED BY <1>4, <2>3, <3>2, <3>3, <3>5, <3>6, <4>1 DEF RuleAtWork, SentArrived
    <3>8. NoticesShape'
      BY <1>1, <2>2, <3>2 DEF NoticesInv, NoticesShape
    <3> QED BY <1>1, <2>2, <3>2, <3>4, <3>7, <3>8 DEF NoticesInv, RulesAreTaken
  <2>4. CASE ~Fires(note.rule)
    <3>1. note' = NextRule
      BY <2>1, <2>4 DEF TakeRule, Fires
    <3>2. note' \in NoteShape /\ note'.on = note.on /\ note'.counts = note.counts
      <4>1. note.rule + 1 \in 1 .. Len(Rules) + 1
        BY <1>4, RulesAreRules
      <4> QED BY <1>1, <3>1, <4>1 DEF NoteShape, NextRule
    <3>3. \A r : Fires(r)' <=> Fires(r)
      BY <3>2, FiresStay
    <3>4. /\ \A r \in DOMAIN Rules : RuleDone(r) => RuleDone(r)'
          /\ \A r \in DOMAIN Rules : RuleUntouched(r) => RuleUntouched(r)'
      BY <1>1, <2>2, <3>3 DEF RuleDone, RuleUntouched, SentArrived, Tried
    <3>5. PICK done \in DOMAIN Rules : done = note.rule
      BY <1>4
    <3>6. RuleDone(done)
      BY <2>1, <2>4, <3>5 DEF RuleDone, RuleUntouched
    <3>7. NoticesShape'
      BY <1>1, <2>2, <3>2 DEF NoticesInv, NoticesShape
    <3> QED BY <1>1, <2>2, <3>1, <3>4, <3>5, <3>6, <3>7, NextRuleKeeps
  <2> QED BY <2>3, <2>4
<1> QED BY <1>2, <1>3, <1>4, RulesAreRules

\* A channel is dealt with: it has a row in the log.
LEMMA ChannelDone ==
  ASSUME NoticesInv, note.pc \in {"channel", "log"}, note' = NextChannel,
         NEW mine, mine = note.rule, NEW at, at = note.at,
         UNCHANGED <<past, enabled, quarantine, run, delivered>>,
         logs' \in LogShape, logs'.final = logs.final,
         logs.rows \subseteq logs'.rows,
         \A l \in logs'.rows \ logs.rows : l.rule = mine,
         Tried(mine, at)', SentArrived(mine)'
  PROVE  NoticesInv'
<1>1. /\ note \in NoteShape /\ RuleAtWork /\ mine \in DOMAIN Rules
      /\ at \in DOMAIN Rules[mine].channels /\ Channels = Rules[mine].channels
      /\ ~logs.final /\ Fires(mine)
  BY DEF NoticesInv, NoticesShape, RulesAreTaken, RuleAtWork, Channels
<1>2. note'.on = note.on /\ note'.counts = note.counts /\ note' \in NoteShape
  <2>1. note.rule + 1 \in 1 .. Len(Rules) + 1 /\ note.at + 1 \in Nat
    BY <1>1, RulesAreRules DEF NoteShape
  <2> QED BY <1>1, <2>1 DEF NextChannel, NextRule, NoteShape
<1>3. \A r : Fires(r)' <=> Fires(r)
  BY <1>2, FiresStay
<1>4. \A r : \A i : Tried(r, i) => Tried(r, i)'
  BY DEF Tried
<1>5. \A r \in DOMAIN Rules \ {mine} :
        /\ RuleDone(r) => RuleDone(r)'
        /\ RuleUntouched(r) => RuleUntouched(r)'
  BY <1>3, <1>4 DEF RuleDone, RuleUntouched, SentArrived
<1>6. NoticesShape'
  BY <1>2 DEF NoticesInv, NoticesShape
<1>7. \A i \in DOMAIN Rules[mine].channels : i < at => Tried(mine, i)'
  BY <1>1, <1>4 DEF RuleAtWork
<1>8. CASE at = Len(Channels)
  <2>1. \A i \in DOMAIN Rules[mine].channels : i < at \/ i = at
    BY <1>1, <1>8, RulesAreRules
  <2>2. \A i \in DOMAIN Rules[mine].channels : Tried(mine, i)'
    BY <1>7, <2>1
  <2>3. RuleDone(mine)'
    BY <1>1, <1>3, <2>2 DEF RuleDone
  <2>4. note' = NextRule
    BY <1>8 DEF NextChannel
  <2> QED BY <1>1, <1>5, <1>6, <2>3, <2>4, NextRuleKeeps
<1>9. CASE at # Len(Channels)
  <2>1. note' = [note EXCEPT !.pc = "channel", !.at = @ + 1]
    BY <1>9 DEF NextChannel
  <2>2. note'.pc = "channel" /\ note'.rule = mine /\ note'.at = at + 1
    BY <1>1, <2>1 DEF NoteShape
  <2>3. /\ at + 1 \in DOMAIN Rules[mine].channels
        /\ \A i \in DOMAIN Rules[mine].channels : i < at + 1 => i < at \/ i = at
    BY <1>1, <1>9, RulesAreRules
  <2>4. \A i \in DOMAIN Rules[mine].channels : i < at + 1 => Tried(mine, i)'
    BY <1>7, <2>3
  <2>5. RuleAtWork'
    BY <1>1, <1>3, <2>2, <2>3, <2>4 DEF RuleAtWork, SentArrived, Tried
  <2>6. \A r \in DOMAIN Rules : r < mine \/ r > mine => r # mine
    BY RulesAreRules
  <2> QED BY <1>1, <1>5, <1>6, <2>2, <2>5, <2>6 DEF NoticesInv, RulesAreTaken
<1> QED BY <1>8, <1>9

LEMMA SkipLoggedKeeps == ASSUME NoticesInv, SkipLogged PROVE NoticesInv'
<1>1. /\ note.pc = "channel" /\ Logged /\ note' = NextChannel
      /\ UNCHANGED <<past, enabled, quarantine, run, delivered, logs>>
  BY DEF SkipLogged
<1>2. logs \in LogShape /\ RuleAtWork
  BY <1>1 DEF NoticesInv, NoticesShape, RulesAreTaken
<1>3. PICK mine, at : mine = note.rule /\ at = note.at
  OBVIOUS
<1>4. Tried(mine, at)'
  BY <1>1, <1>3 DEF Logged, Tried, Channels
<1>5. SentArrived(mine)'
  BY <1>1, <1>2, <1>3 DEF RuleAtWork, SentArrived
<1> QED BY <1>1, <1>2, <1>3, <1>4, <1>5, ChannelDone

LEMMA WriteLogKeeps == ASSUME NoticesInv, WriteLog PROVE NoticesInv'
<1>1. PICK mine, at, row :
        /\ mine = note.rule /\ at = note.at
        /\ row = [rule |-> note.rule, type |-> Channels[note.at], at |-> note.at, ok |-> note.ok]
  OBVIOUS
<1>2. /\ note.pc = "log" /\ note' = NextChannel
      /\ logs' = [logs EXCEPT !.rows = @ \union {row}]
      /\ UNCHANGED <<past, enabled, quarantine, run, delivered>>
  BY <1>1 DEF WriteLog, AfterLog
<1>3. /\ logs \in LogShape /\ RuleAtWork /\ note \in NoteShape
  BY <1>2 DEF NoticesInv, NoticesShape, RulesAreTaken
<1>4. row \in [rule : DOMAIN Rules, type : ChannelTypes, at : Nat, ok : BOOLEAN]
  BY <1>1, <1>3, RulesAreRules DEF RuleAtWork, Channels, NoteShape
<1>5. row.rule = mine /\ row.type = Rules[mine].channels[at] /\ row.ok = note.ok
  BY <1>1 DEF Channels
<1>6. logs' \in LogShape /\ logs'.rows = logs.rows \union {row} /\ logs'.final = logs.final
  BY <1>2, <1>3, <1>4 DEF LogShape
<1>7. Tried(mine, at)'
  BY <1>5, <1>6 DEF Tried
<1>8. SentArrived(mine)'
  <2>1. /\ SentArrived(mine) /\ at \in DOMAIN Rules[mine].channels
        /\ row.ok => <<mine, at>> \in delivered
    BY <1>1, <1>2, <1>3, <1>5 DEF RuleAtWork
  <2> QED BY <1>2, <1>5, <1>6, <2>1 DEF SentArrived
<1> QED BY <1>1, <1>2, <1>5, <1>6, <1>7, <1>8, ChannelDone

LEMMA SendKeeps ==
  ASSUME NoticesInv, NEW type, NEW arrives \in BOOLEAN, NEW ok \in BOOLEAN,
         Send(type, arrives, ok)
  PROVE  NoticesInv'
<1>1. /\ note.pc = "channel" /\ (ok => arrives)
      /\ delivered' = IF arrives THEN delivered \union {<<note.rule, note.at>>} ELSE delivered
      /\ note' = [note EXCEPT !.pc = "log", !.ok = ok]
      /\ UNCHANGED <<past, enabled, quarantine, run, logs>>
  BY DEF Send
<1>2. note \in NoteShape /\ RuleAtWork /\ note.at \in Nat /\ note.rule \in DOMAIN Rules
  BY <1>1 DEF NoticesInv, NoticesShape, RulesAreTaken, RuleAtWork, NoteShape
<1>3. /\ note' \in NoteShape /\ note'.pc = "log" /\ note'.ok = ok /\ note'.rule = note.rule
      /\ note'.at = note.at /\ note'.on = note.on /\ note'.counts = note.counts
  BY <1>1, <1>2 DEF NoteShape
<1>4. \A r : Fires(r)' <=> Fires(r)
  BY <1>3, FiresStay
<1>5. NoticesShape'
  BY <1>1, <1>2, <1>3 DEF NoticesInv, NoticesShape
<1>6. /\ delivered \subseteq delivered'
      /\ \A r : \A i : r # note.rule => (<<r, i>> \in delivered' => <<r, i>> \in delivered)
  BY <1>1
<1>7. \A r \in DOMAIN Rules \ {note.rule} :
        /\ RuleDone(r) => RuleDone(r)'
        /\ RuleUntouched(r) => RuleUntouched(r)'
  BY <1>1, <1>4, <1>6 DEF RuleDone, RuleUntouched, SentArrived, Tried
<1>8. RuleAtWork'
  BY <1>1, <1>2, <1>3, <1>4, <1>6 DEF RuleAtWork, SentArrived, Tried
<1>9. \A r \in DOMAIN Rules : r < note.rule \/ r > note.rule => r # note.rule
  BY RulesAreRules
<1> QED BY <1>1, <1>3, <1>5, <1>7, <1>8, <1>9 DEF NoticesInv, RulesAreTaken

LEMMA BreakKeeps == ASSUME NoticesInv, Break PROVE NoticesInv'
<1>1. /\ note' = [note EXCEPT !.pc = "broken"] /\ logs' = [logs EXCEPT !.rows = {}]
      /\ note.pc # "over" /\ note \in NoteShape /\ logs \in LogShape
      /\ UNCHANGED <<past, enabled, quarantine, run, delivered>>
  BY DEF Break, NoticesInv, NoticesShape
<1>2. /\ note' \in NoteShape /\ note'.pc = "broken" /\ logs' \in LogShape
      /\ logs'.final = logs.final
  BY <1>1 DEF NoteShape, LogShape
<1> QED BY <1>1, <1>2 DEF NoticesInv, NoticesShape, RulesAreTaken

LEMMA NextNotices == NoticesInv /\ [NoticesNext]_noteVars => NoticesInv'
<1> SUFFICES ASSUME NoticesInv, [NoticesNext]_noteVars PROVE NoticesInv'
  OBVIOUS
<1>1. CASE UNCHANGED noteVars
  <2>1. NoticesShape'
    BY <1>1 DEF noteVars, NoticesInv, NoticesShape
  <2> QED BY <1>1, <2>1, NoteStays DEF noteVars
<1>2. ASSUME NEW arrives \in BOOLEAN, NEW ok \in BOOLEAN,
             SendEmail(arrives, ok) \/ SendWebhook(arrives, ok) \/ SendRobot(arrives, ok)
      PROVE  NoticesInv'
  BY <1>2, SendKeeps DEF SendEmail, SendWebhook, SendRobot
<1>3. CASE ReadRules \/ Load \/ TakeRule \/ SkipLogged \/ WriteLog \/ Break
  BY <1>3, ReadingKeeps, TakeRuleKeeps, SkipLoggedKeeps, WriteLogKeeps, BreakKeeps
<1> QED BY <1>1, <1>2, <1>3, OutsideKeeps DEF NoticesNext

LEMMA NoticesInvariant == NoticesSpec => []NoticesInv
BY InitNotices, NextNotices, PTL DEF NoticesSpec

\* No failing channel, of however many, keeps the channels of other types or
\* the rules after it from being tried, and the log says "sent" only of what
\* arrived (evaluate_and_notify).
THEOREM ChannelsHold == NoticesSpec => []ChannelTypesAreIndependent
<1>1. NoticesInv => ChannelTypesAreIndependent
  BY DEF NoticesInv, RulesAreTaken, ChannelTypesAreIndependent, RuleDone, Fires, SentArrived
<1> QED BY <1>1, NoticesInvariant, PTL

\* The step that loads the counters.
LEMMA FreshIsNew ==
  NoticesInv /\ [NoticesNext]_noteVars =>
    [ run.committed /\ note.pc = "load" /\ note'.pc = "rule" =>
        \A c \in Cases :
          /\ c \in note'.counts.fresh =>
               FailsNow(c) /\ ~FlakyBefore(c) /\ ~Quarantined(c)
          /\ past.prior /\ FailsNow(c) /\ ~MayBecomeFlaky(c) /\ ~Quarantined(c) =>
               c \in note'.counts.fresh ]_noteVars
<1> SUFFICES ASSUME NoticesInv, NoticesNext, run.committed, note.pc = "load",
                    note'.pc = "rule", NEW c \in Cases
             PROVE  /\ c \in note'.counts.fresh =>
                         FailsNow(c) /\ ~FlakyBefore(c) /\ ~Quarantined(c)
                    /\ past.prior /\ FailsNow(c) /\ ~MayBecomeFlaky(c) /\ ~Quarantined(c) =>
                         c \in note'.counts.fresh
  OBVIOUS
<1>1. Load
  <2>1. CASE note' = note
    BY <2>1
  <2>2. CASE ReadRules \/ TakeRule \/ SkipLogged \/ WriteLog \/ Break
    <3>1. CASE ReadRules \/ TakeRule \/ SkipLogged \/ WriteLog
      BY <3>1 DEF ReadRules, TakeRule, SkipLogged, WriteLog
    <3>2. CASE Break
      BY <3>2 DEF Break, NoticesInv, NoticesShape, NoteShape
    <3> QED BY <2>2, <3>1, <3>2
  <2>3. CASE \E arrives, ok \in BOOLEAN :
               SendEmail(arrives, ok) \/ SendWebhook(arrives, ok) \/ SendRobot(arrives, ok)
    BY <2>3 DEF SendEmail, SendWebhook, SendRobot, Send
  <2> QED BY <2>1, <2>2, <2>3
          DEF NoticesNext, Before, AddToQuarantine, RemoveFromQuarantine, PassExpiry,
              EntryBecomes, DeleteExpired, Finish, CreateRule, UpdateRule, DeleteRule,
              RulesBecome, CommitVerdict
<1>2. /\ note \in NoteShape /\ past.hist[c] \in History
      /\ run.res \in [Cases -> Outcomes] /\ MinRuns \in Nat
  BY HistoriesAssumption DEF NoticesInv, NoticesShape, Pasts
<1>3. note'.counts = Counts(run.committed)
  BY <1>1, <1>2 DEF Load, NoteShape
<1>4. c \in note'.counts.fresh <=>
        past.prior /\ FailsNow(c) /\ c \notin Flaky(run.res) /\ c \notin ListKeys
  BY <1>3 DEF Counts, Seen, Results, Failing, FailsNow
<1>5. c \in ListKeys <=> Quarantined(c)
  BY DEF ListKeys, Quarantined
<1>6. past.hist[c].results \in Nat
  BY <1>2 DEF History
<1>7. FlakyBefore(c) => c \in Flaky(run.res)
  BY <1>2, <1>6 DEF FlakyBefore, Flaky
<1>8. FailsNow(c) /\ c \in Flaky(run.res) => MayBecomeFlaky(c)
  BY <1>2, <1>6 DEF FailsNow, Flaky, MayBecomeFlaky
<1> QED BY <1>4, <1>5, <1>7, <1>8

\* Whatever the history of the project and the quarantine say, a case counts
\* as a new failure only when it is one, and one that is not hidden by the
\* quarantine and cannot just have become flaky is counted
\* (_load_new_failed_and_recovered, list_flaky_tests, list_keys).
THEOREM FreshHolds == NoticesSpec => NewFailuresAreNew
BY NoticesInvariant, FreshIsNew, PTL DEF NoticesSpec, NewFailuresAreNew

-----------------------------------------------------------------------------
(***************************************************************************)
(* Results.                                                                *)
(***************************************************************************)

CaseShape == [suite : Packages, name : TestNames \union {"package_error"}, status : Statuses]
GoShape == [on : BOOLEAN, rec : [Packages \X TestNames -> {"none", "passed", "failed", "skipped"}],
            act : [Packages -> {"none", "pass", "fail", "skip"}], bad : SUBSET Packages]

ResultsShape ==
  /\ go \in GoShape
  /\ report \in [st : {"absent", "broken", "there"}, cases : Seq(CaseShape)]
  /\ stages \in 0 .. MaxStages /\ (go.on => stages < MaxStages)
  /\ outcome.pc \in {"none", "collected", "stored", "broken"}
  /\ outcome.rows \subseteq CaseShape
  /\ uploads.count \in 0 .. MaxUploads

\* The summary is that of the cases that are stored as rows, each of which has
\* a name of its own.
SummaryIsOfCases ==
  /\ outcome.pc \in {"collected", "stored"} =>
       outcome.cases \in Seq(CaseShape) /\ outcome.sum = Summary(outcome.cases)
  /\ outcome.pc = "stored" =>
       /\ outcome.rows = {outcome.cases[i] : i \in DOMAIN outcome.cases}
       /\ Cardinality({Key(row) : row \in outcome.rows}) = Len(outcome.cases)

ResultsInv == ResultsShape /\ SummaryIsOfCases

-----------------------------------------------------------------------------
LEMMA Positions ==
  ASSUME NEW S, NEW s \in Seq(S)
  PROVE  /\ DOMAIN s = 1 .. Len(s) /\ Len(s) \in Nat
         /\ IsFiniteSet(DOMAIN s) /\ Cardinality(DOMAIN s) = Len(s)
<1>1. DOMAIN s = 1 .. Len(s) /\ Len(s) \in Nat
  OBVIOUS
<1>2. ASSUME NEW n \in Nat PROVE IsFiniteSet(1 .. n) /\ Cardinality(1 .. n) = n
  <2>1. IsFiniteSet(1 .. n) /\ Cardinality(1 .. n) = IF 1 > n THEN 0 ELSE n - 1 + 1
    BY FS_Interval
  <2> QED BY <2>1
<1> QED BY <1>1, <1>2

LEMMA DisjointSum ==
  ASSUME NEW S, NEW T, IsFiniteSet(S), IsFiniteSet(T), S \cap T = {}
  PROVE  Cardinality(S \union T) = Cardinality(S) + Cardinality(T)
<1>1. Cardinality(S \union T) = Cardinality(S) + Cardinality(T) - Cardinality({})
  BY FS_Union
<1>2. Cardinality({}) = 0 /\ Cardinality(S) \in Nat /\ Cardinality(T) \in Nat
  BY FS_EmptySet, FS_CardinalityType
<1> QED BY <1>1, <1>2

LEMMA ImageIsFinite ==
  ASSUME NEW S, IsFiniteSet(S), NEW f
  PROVE  IsFiniteSet({f[x] : x \in S})
<1> DEFINE T == {f[x] : x \in S}
           g == [x \in S |-> f[x]]
<1>1. g \in [S -> T] /\ \A t \in T : \E s \in S : g[s] = t
  OBVIOUS
<1>2. g \in Surjection(S, T)
  BY <1>1, Fun_IsSurj
<1> QED BY <1>2, FS_Surjection

\* The order a set of cases is written in has each of them once.
LEMMA AsSeqIsSeq ==
  ASSUME NEW S, IsFiniteSet(S) PROVE AsSeq(S) \in Seq(S)
<1>1. Cardinality(S) \in Nat /\ ExistsBijection(1 .. Cardinality(S), S)
  BY FS_CardinalityType
<1>2. PICK f : f \in Bijection(1 .. Cardinality(S), S)
  BY <1>1 DEF ExistsBijection
<1> DEFINE n == Cardinality(S)
<1> HIDE DEF n
<1>3. f \in [1 .. n -> S] /\ \A i, j \in 1 .. n : f[i] = f[j] => i = j
  BY <1>2, Fun_BijectionProperties DEF n
<1>4. AsSeq(S) \in [1 .. Cardinality(S) -> S]
  <2>1. \E s \in [1 .. n -> S] : \A i, j \in DOMAIN s : i # j => s[i] # s[j]
    BY <1>3
  <2> QED BY <2>1 DEF AsSeq, n
<1> QED BY <1>1, <1>4

LEMMA ParsedIsFinite ==
  ASSUME go \in GoShape
  PROVE  ParsedCases \subseteq CaseShape /\ IsFiniteSet(ParsedCases)
<1> DEFINE Ends == {k \in Packages \X TestNames : go.rec[k] # "none"}
           end == [k \in Ends |-> Case(k[1], k[2], go.rec[k])]
           error == [p \in PackageErrors |-> Case(p, "package_error", "error")]
<1>1. IsFiniteSet(Packages \X TestNames)
  BY ResultsAssumption, FS_Product
<1>2. IsFiniteSet(Ends) /\ IsFiniteSet(PackageErrors)
  BY <1>1, ResultsAssumption, FS_Subset DEF PackageErrors
<1>3. IsFiniteSet({end[k] : k \in Ends}) /\ IsFiniteSet({error[p] : p \in PackageErrors})
  <2>1. IsFiniteSet({end[k] : k \in Ends})
    <3> HIDE DEF end, Ends
    <3> QED BY <1>2, ImageIsFinite
  <2>2. IsFiniteSet({error[p] : p \in PackageErrors})
    <3> HIDE DEF error
    <3> QED BY <1>2, ImageIsFinite
  <2> QED BY <2>1, <2>2
<1>4. ParsedCases = {end[k] : k \in Ends} \union {error[p] : p \in PackageErrors}
  BY DEF ParsedCases
<1>5. IsFiniteSet(ParsedCases)
  BY <1>3, <1>4, FS_Union
<1>6. ASSUME NEW k \in Ends PROVE Case(k[1], k[2], go.rec[k]) \in CaseShape
  BY DEF Case, CaseShape, GoShape, Statuses
<1>7. ASSUME NEW p \in PackageErrors PROVE Case(p, "package_error", "error") \in CaseShape
  BY DEF Case, CaseShape, Statuses, PackageErrors
<1> QED BY <1>5, <1>6, <1>7 DEF ParsedCases

LEMMA MergedIsSeq ==
  ASSUME NEW cases \in Seq(CaseShape) PROVE Merged(cases) \in Seq(CaseShape)
<1> DEFINE I == {i \in DOMAIN cases : \A j \in DOMAIN cases : Key(cases[j]) = Key(cases[i]) => j <= i}
<1>1. IsFiniteSet(I)
  <2>1. IsFiniteSet(1 .. Len(cases)) /\ DOMAIN cases = 1 .. Len(cases)
    BY FS_Interval
  <2> QED BY <2>1, FS_Subset
<1>2. IsFiniteSet({cases[i] : i \in I}) /\ {cases[i] : i \in I} \subseteq CaseShape
  BY <1>1, ImageIsFinite
<1> HIDE DEF I
<1>3. AsSeq({cases[i] : i \in I}) \in Seq(CaseShape)
  BY <1>2, AsSeqIsSeq
<1> QED BY <1>3 DEF Merged, I

-----------------------------------------------------------------------------
\* The positions and the rows of a status are as many: the names are all
\* different, so the cases are.
LEMMA RowsOfStatus ==
  ASSUME NEW cases \in Seq(CaseShape),
         Cardinality({Key(row) : row \in {cases[i] : i \in DOMAIN cases}}) = Len(cases)
  PROVE  /\ \A X : With(cases, X)
                     = Cardinality({r \in {cases[i] : i \in DOMAIN cases} : r.status \in X})
         /\ Cardinality({cases[i] : i \in DOMAIN cases}) = Len(cases)
<1> DEFINE rows == {cases[i] : i \in DOMAIN cases}
           names == {Key(row) : row \in rows}
           name == [i \in DOMAIN cases |-> Key(cases[i])]
<1>1. /\ DOMAIN cases = 1 .. Len(cases) /\ Len(cases) \in Nat
      /\ IsFiniteSet(DOMAIN cases) /\ Cardinality(DOMAIN cases) = Len(cases)
  BY Positions
<1>2. name \in Surjection(DOMAIN cases, names)
  <2>1. name \in [DOMAIN cases -> names] /\ \A t \in names : \E i \in DOMAIN cases : name[i] = t
    OBVIOUS
  <2> HIDE DEF name, names
  <2> QED BY <2>1, Fun_IsSurj
<1>3. name \in Injection(DOMAIN cases, names)
  BY <1>1, <1>2, FS_Surjection
<1>4. \A i, j \in DOMAIN cases : cases[i] = cases[j] => i = j
  <2>1. \A i, j \in DOMAIN cases : name[i] = name[j] => i = j
    BY <1>3, Fun_InjectionProperties
  <2> QED BY <2>1
<1>5. ASSUME NEW I \in SUBSET (DOMAIN cases)
      PROVE  Cardinality(I) = Cardinality({cases[i] : i \in I})
  <2> DEFINE f == [i \in I |-> cases[i]]
             T == {cases[i] : i \in I}
  <2>1. IsFiniteSet(I)
    BY <1>1, FS_Subset
  <2>2. /\ f \in [I -> T] /\ \A t \in T : \E i \in I : f[i] = t
        /\ \A i, j \in I : f[i] = f[j] => i = j
    BY <1>4
  <2> HIDE DEF f, T
  <2>3. f \in Surjection(I, T) /\ f \in Injection(I, T)
    BY <2>2, Fun_IsSurj, Fun_IsInj
  <2>4. Cardinality(T) = Cardinality(I)
    BY <2>1, <2>3, FS_Surjection
  <2> QED BY <2>4 DEF T
<1>6. ASSUME NEW X
      PROVE  With(cases, X) = Cardinality({r \in rows : r.status \in X})
  <2> DEFINE I == {i \in DOMAIN cases : cases[i].status \in X}
  <2>1. Cardinality(I) = Cardinality({cases[i] : i \in I})
    BY <1>5
  <2>2. {cases[i] : i \in I} = {r \in rows : r.status \in X}
    OBVIOUS
  <2> QED BY <2>1, <2>2 DEF With
<1>7. Cardinality(rows) = Len(cases)
  BY <1>1, <1>5
<1> QED BY <1>6, <1>7

\* The four numbers of a summary make up the total.
LEMMA StatusesMakeTheTotal ==
  ASSUME NEW cases \in Seq(CaseShape)
  PROVE  /\ \A X : With(cases, X) \in Nat
         /\ Len(cases) = With(cases, {"passed"}) + With(cases, {"failed"})
                          + With(cases, {"skipped", "xfail"}) + With(cases, {"error"})
<1> DEFINE At(X) == {i \in DOMAIN cases : cases[i].status \in X}
<1>1. /\ DOMAIN cases = 1 .. Len(cases) /\ Len(cases) \in Nat
      /\ IsFiniteSet(DOMAIN cases) /\ Cardinality(DOMAIN cases) = Len(cases)
  BY Positions
<1>2. ASSUME NEW X PROVE IsFiniteSet(At(X)) /\ Cardinality(At(X)) \in Nat
  BY <1>1, FS_Subset, FS_CardinalityType
<1>3. ASSUME NEW X, NEW Y, X \cap Y = {}
      PROVE  Cardinality(At(X \union Y)) = Cardinality(At(X)) + Cardinality(At(Y))
  <2>1. At(X \union Y) = At(X) \union At(Y) /\ At(X) \cap At(Y) = {}
    BY <1>3
  <2>2. IsFiniteSet(At(X)) /\ IsFiniteSet(At(Y))
    BY <1>2
  <2> HIDE DEF At
  <2>3. Cardinality(At(X) \union At(Y)) = Cardinality(At(X)) + Cardinality(At(Y))
    BY <2>1, <2>2, DisjointSum
  <2> QED BY <2>1, <2>3
<1> DEFINE A == {"passed"}
           B == {"failed"}
           C == {"skipped", "xfail"}
           D == {"error"}
<1>4. At(((A \union B) \union C) \union D) = DOMAIN cases
  <2>1. \A i \in DOMAIN cases : cases[i] \in CaseShape
    BY <1>1
  <2> QED BY <2>1 DEF CaseShape, Statuses
<1>5. A \cap B = {} /\ (A \union B) \cap C = {} /\ ((A \union B) \union C) \cap D = {}
  OBVIOUS
<1> HIDE DEF A, B, C, D, At
<1>6. Len(cases) = Cardinality(At(A)) + Cardinality(At(B)) + Cardinality(At(C)) + Cardinality(At(D))
  <2>1. Cardinality(At(A \union B)) = Cardinality(At(A)) + Cardinality(At(B))
    BY <1>3, <1>5
  <2>2. Cardinality(At((A \union B) \union C)) = Cardinality(At(A \union B)) + Cardinality(At(C))
    BY <1>3, <1>5
  <2>3. Cardinality(At(((A \union B) \union C) \union D))
          = Cardinality(At((A \union B) \union C)) + Cardinality(At(D))
    BY <1>3, <1>5
  <2> QED BY <1>1, <1>4, <2>1, <2>2, <2>3
<1>7. \A X : With(cases, X) = Cardinality(At(X))
  BY DEF With, At
<1> QED BY <1>2, <1>6, <1>7 DEF A, B, C, D

-----------------------------------------------------------------------------
LEMMA QuietShape == Quiet \in GoShape /\ [Quiet EXCEPT !.on = TRUE] \in GoShape
BY DEF Quiet, GoShape

LEMMA InitResults == ResultsInit => ResultsInv
<1> SUFFICES ASSUME ResultsInit PROVE ResultsInv
  OBVIOUS
<1>1. report \in [st : {"absent", "broken", "there"}, cases : Seq(CaseShape)]
  BY EmptySeq DEF ResultsInit
<1>2. 0 \in 0 .. MaxStages /\ 0 \in 0 .. MaxUploads
  BY ResultsAssumption
<1>3. go \in GoShape /\ ~go.on
  BY QuietShape DEF ResultsInit, Quiet
<1>4. outcome.pc = "none" /\ outcome.rows = {}
  BY DEF ResultsInit, NoOutcome
<1>5. uploads.count \in 0 .. MaxUploads /\ stages \in 0 .. MaxStages
  BY <1>2 DEF ResultsInit
<1> QED BY <1>1, <1>3, <1>4, <1>5 DEF ResultsInv, ResultsShape, SummaryIsOfCases

\* A step of a stage: nothing is stored by it.
LEMMA StageKeeps ==
  ASSUME ResultsInv, go' \in GoShape, stages' \in 0 .. MaxStages,
         go'.on => stages' < MaxStages,
         report' \in [st : {"absent", "broken", "there"}, cases : Seq(CaseShape)],
         UNCHANGED <<outcome, uploads>>
  PROVE  ResultsInv'
BY DEF ResultsInv, ResultsShape, SummaryIsOfCases

LEMMA EventsKeep ==
  ASSUME ResultsInv, NEW p \in Packages,
         \/ \E t \in TestNames, s \in {"passed", "failed", "skipped"} : TestEvent(p, t, s)
         \/ \E a \in {"pass", "fail", "skip"} : PackageEvent(p, a)
  PROVE  ResultsInv'
<1>1. UNCHANGED <<report, stages, outcome, uploads>>
  BY DEF TestEvent, PackageEvent, Storing
<1>2. go \in GoShape /\ stages < MaxStages
  BY DEF ResultsInv, ResultsShape, TestEvent, PackageEvent
<1>3. ASSUME NEW t \in TestNames, NEW s \in {"passed", "failed", "skipped"}, TestEvent(p, t, s)
      PROVE  ResultsInv'
  <2> DEFINE bad == IF s = "failed" THEN go.bad \union {p} ELSE go.bad
             k == <<p, t>>
  <2>1. go' = [go EXCEPT !.rec[k] = s, !.bad = bad]
    BY <1>3 DEF TestEvent
  <2>2. bad \in SUBSET Packages /\ k \in Packages \X TestNames
    BY <1>2 DEF GoShape
  <2> HIDE DEF bad, k
  <2>3. go' \in GoShape
    BY <1>2, <2>1, <2>2 DEF GoShape
  <2> QED BY <1>1, <1>2, <2>3, StageKeeps DEF ResultsInv, ResultsShape
<1>4. ASSUME NEW a \in {"pass", "fail", "skip"}, PackageEvent(p, a)
      PROVE  ResultsInv'
  <2>1. go' = [go EXCEPT !.act[p] = a]
    BY <1>4 DEF PackageEvent
  <2>2. go' \in GoShape
    BY <1>2, <2>1 DEF GoShape
  <2> QED BY <1>1, <1>2, <2>2, StageKeeps DEF ResultsInv, ResultsShape
<1> QED BY <1>3, <1>4

LEMMA StartGoKeeps == ASSUME ResultsInv, StartGo PROVE ResultsInv'
<1>1. /\ go' = [Quiet EXCEPT !.on = TRUE] /\ stages < MaxStages
      /\ UNCHANGED <<report, stages, outcome, uploads>>
  BY DEF StartGo, Storing
<1>2. go' \in GoShape
  BY <1>1, QuietShape
<1> QED BY <1>1, <1>2, StageKeeps DEF ResultsInv, ResultsShape

\* A stage is over: its events are gone, and the report is a sequence of cases.
LEMMA StageOverKeeps ==
  ASSUME ResultsInv, stages < MaxStages, StageOver,
         report' \in [st : {"absent", "broken", "there"}, cases : Seq(CaseShape)],
         UNCHANGED <<outcome, uploads>>
  PROVE  ResultsInv'
<1>1. go' \in GoShape /\ ~go'.on
  BY QuietShape DEF StageOver, Quiet
<1>2. stages' \in 0 .. MaxStages
  BY ResultsAssumption DEF StageOver, ResultsInv, ResultsShape
<1> QED BY <1>1, <1>2, StageKeeps

LEMMA RunHelperKeeps == ASSUME ResultsInv, RunHelper PROVE ResultsInv'
<1>1. go \in GoShape /\ stages < MaxStages
  BY DEF ResultsInv, ResultsShape, RunHelper
<1> DEFINE parsed == AsSeq(ParsedCases)
<1>2. parsed \in Seq(CaseShape)
  <2>1. AsSeq(ParsedCases) \in Seq(ParsedCases)
    BY <1>1, ParsedIsFinite, AsSeqIsSeq
  <2> QED BY <1>1, <2>1, ParsedIsFinite
<1>3. report' \in [st : {"absent", "broken", "there"}, cases : Seq(CaseShape)]
  <2>1. <<>> \in Seq(CaseShape)
    BY EmptySeq
  <2>2. \/ report' = [st |-> "there", cases |-> parsed]
        \/ report' = [st |-> "broken", cases |-> <<>>]
        \/ report' = report
    BY DEF RunHelper
  <2>3. report \in [st : {"absent", "broken", "there"}, cases : Seq(CaseShape)]
    BY DEF ResultsInv, ResultsShape
  <2> HIDE DEF parsed
  <2>4. ASSUME NEW cases \in Seq(CaseShape), NEW st \in {"broken", "there"}
        PROVE  [st |-> st, cases |-> cases]
                 \in [st : {"absent", "broken", "there"}, cases : Seq(CaseShape)]
    OBVIOUS
  <2>5. /\ [st |-> "there", cases |-> parsed]
             \in [st : {"absent", "broken", "there"}, cases : Seq(CaseShape)]
        /\ [st |-> "broken", cases |-> <<>>]
             \in [st : {"absent", "broken", "there"}, cases : Seq(CaseShape)]
    BY <1>2, <2>1, <2>4
  <2> QED BY <2>2, <2>3, <2>5
<1> QED BY <1>1, <1>3, StageOverKeeps DEF RunHelper, Storing

LEMMA OtherReportKeeps == ASSUME ResultsInv, OtherReport PROVE ResultsInv'
<1>1. PICK n \in 0 .. MaxReport, p \in Packages :
        \E cases \in [1 .. n -> {Case(p, t, s) : t \in TestNames, s \in Statuses}] :
          report' = [st |-> "there", cases |-> cases]
  BY DEF OtherReport
<1>2. PICK cases \in [1 .. n -> {Case(p, t, s) : t \in TestNames, s \in Statuses}] :
        report' = [st |-> "there", cases |-> cases]
  BY <1>1
<1>3. {Case(p, t, s) : t \in TestNames, s \in Statuses} \subseteq CaseShape
  BY DEF Case, CaseShape
<1>4. n \in Nat
  BY ResultsAssumption
<1>5. cases \in [1 .. n -> CaseShape]
  BY <1>3
<1>6. cases \in Seq(CaseShape)
  BY <1>4, <1>5
<1>7. report' \in [st : {"absent", "broken", "there"}, cases : Seq(CaseShape)]
  BY <1>2, <1>6
<1> QED BY <1>7, StageOverKeeps DEF OtherReport, Storing

LEMMA KillStageKeeps == ASSUME ResultsInv, KillStage PROVE ResultsInv'
BY StageOverKeeps DEF KillStage, Storing, ResultsInv, ResultsShape

\* What is collected is stored with its own summary.
LEMMA CollectedKeeps ==
  ASSUME ResultsInv, NEW cases \in Seq(CaseShape), outcome.pc = "none",
         outcome' = [NoOutcome EXCEPT !.pc = "collected", !.cases = cases,
                                      !.sum = Summary(cases)],
         UNCHANGED <<go, report, stages, uploads>>
  PROVE  ResultsInv'
<1> DEFINE sum == Summary(cases)
<1>1. /\ outcome'.pc = "collected" /\ outcome'.cases = cases /\ outcome'.sum = sum
      /\ outcome'.rows = {}
  <2>1. outcome' = [NoOutcome EXCEPT !.pc = "collected", !.cases = cases, !.sum = sum]
    OBVIOUS
  <2> HIDE DEF sum
  <2> QED BY <2>1 DEF NoOutcome
<1> QED BY <1>1 DEF ResultsInv, ResultsShape, SummaryIsOfCases

LEMMA CollectKeeps == ASSUME ResultsInv, CollectResults PROVE ResultsInv'
<1>1. PICK twice \in BOOLEAN :
        LET once == Parsed(report)
            cases == IF twice THEN once \o once ELSE once
        IN outcome' = [NoOutcome EXCEPT !.pc = "collected", !.cases = cases,
                                        !.sum = Summary(cases)]
  BY DEF CollectResults
<1>2. Parsed(report) \in Seq(CaseShape)
  BY EmptySeq DEF Parsed, ResultsInv, ResultsShape
<1> DEFINE cases == IF twice THEN Parsed(report) \o Parsed(report) ELSE Parsed(report)
<1>3. cases \in Seq(CaseShape)
  BY <1>2, ConcatProperties
<1>4. outcome' = [NoOutcome EXCEPT !.pc = "collected", !.cases = cases, !.sum = Summary(cases)]
  BY <1>1
<1> HIDE DEF cases
<1>5. outcome.pc = "none" /\ UNCHANGED <<go, report, stages, uploads>>
  BY DEF CollectResults
<1> QED BY <1>3, <1>4, <1>5, CollectedKeeps

LEMMA ImportKeeps == ASSUME ResultsInv, ImportResults PROVE ResultsInv'
<1>1. report.cases \in Seq(CaseShape)
  BY DEF ResultsInv, ResultsShape
<1>2. Merged(report.cases) \in Seq(CaseShape)
  BY <1>1, MergedIsSeq
<1> QED BY <1>2, CollectedKeeps DEF ImportResults, ImportedResults

LEMMA StoreRowsKeeps == ASSUME ResultsInv, StoreRows PROVE ResultsInv'
<1> DEFINE rows == {outcome.cases[i] : i \in DOMAIN outcome.cases}
<1>1. /\ outcome.pc = "collected" /\ outcome.cases \in Seq(CaseShape)
      /\ outcome.sum = Summary(outcome.cases)
      /\ UNCHANGED <<go, report, stages, uploads>>
  BY DEF StoreRows, ResultsInv, SummaryIsOfCases
<1>2. rows \subseteq CaseShape
  BY <1>1
<1>3. CASE /\ Cardinality({Key(row) : row \in rows}) = Len(outcome.cases)
           /\ outcome' = [outcome EXCEPT !.pc = "stored", !.rows = rows]
  <2> HIDE DEF rows
  <2>1. /\ outcome'.pc = "stored" /\ outcome'.rows = rows /\ outcome'.cases = outcome.cases
        /\ outcome'.sum = outcome.sum
    BY <1>3 DEF ResultsInv, ResultsShape
  <2> QED BY <1>1, <1>2, <1>3, <2>1 DEF rows, ResultsInv, ResultsShape, SummaryIsOfCases
<1>4. CASE outcome' = [outcome EXCEPT !.pc = "broken"]
  BY <1>1, <1>4 DEF ResultsInv, ResultsShape, SummaryIsOfCases
<1> QED BY <1>3, <1>4 DEF StoreRows

LEMMA UploadKeeps == ASSUME ResultsInv, UploadArtifact PROVE ResultsInv'
<1>1. uploads'.count \in 0 .. MaxUploads
  BY ResultsAssumption DEF UploadArtifact, HasRoom, ResultsInv, ResultsShape
<1> QED BY <1>1 DEF UploadArtifact, ResultsInv, ResultsShape, SummaryIsOfCases

LEMMA NextResults == ResultsInv /\ [ResultsNext]_resultVars => ResultsInv'
<1> SUFFICES ASSUME ResultsInv, [ResultsNext]_resultVars PROVE ResultsInv'
  OBVIOUS
<1>1. CASE UNCHANGED resultVars
  BY <1>1 DEF resultVars, ResultsInv, ResultsShape, SummaryIsOfCases
<1>2. CASE RunPytest \/ RunPlaywright \/ RunJest
  BY <1>2, OtherReportKeeps DEF RunPytest, RunPlaywright, RunJest
<1> QED BY <1>1, <1>2, StartGoKeeps, EventsKeep, RunHelperKeeps, KillStageKeeps, CollectKeeps,
           ImportKeeps, StoreRowsKeeps, UploadKeeps DEF ResultsNext

LEMMA ResultsInvariant == ResultsSpec => []ResultsInv
BY InitResults, NextResults, PTL DEF ResultsSpec

\* However the tests of a package end and wherever go is stopped, a package
\* that has failed has a failed test or gets a case of its own
\* (GoTestRunner._parse_cases).
THEOREM FailuresShow == ResultsSpec => []FailedPackagesShow
<1>1. ResultsInv => FailedPackagesShow
  <2> SUFFICES ASSUME ResultsInv, NEW p \in Packages, go.act[p] = "fail"
               PROVE  \E case \in ParsedCases :
                        case.suite = p /\ case.status \in {"failed", "error"}
    BY DEF FailedPackagesShow
  <2>1. CASE FailedTests(p) = {}
    <3>1. Case(p, "package_error", "error") \in ParsedCases
      BY <2>1 DEF ParsedCases, PackageErrors
    <3> QED BY <3>1 DEF Case
  <2>2. CASE FailedTests(p) # {}
    <3>1. PICK t \in TestNames : go.rec[<<p, t>>] = "failed"
      BY <2>2 DEF FailedTests
    <3>2. Case(p, t, "failed") \in ParsedCases
      <4>1. PICK k \in Packages \X TestNames : k = <<p, t>>
        OBVIOUS
      <4>2. go.rec[k] # "none" /\ Case(k[1], k[2], go.rec[k]) = Case(p, t, "failed")
        BY <3>1, <4>1
      <4> QED BY <4>2 DEF ParsedCases
    <3> QED BY <3>2 DEF Case
  <2> QED BY <2>1, <2>2
<1> QED BY <1>1, ResultsInvariant, PTL

\* Whatever a report says, and however often it names a test: what is stored
\* are as many rows as the summary counts, in total and by status
\* (build_results_summary, merge_duplicate_results, bulk_create).
THEOREM SummaryHolds == ResultsSpec => []SummaryCountsTheRows
<1>1. ResultsInv => SummaryCountsTheRows
  <2> SUFFICES ASSUME ResultsInv, outcome.pc = "stored"
               PROVE  LET rows(states) == Cardinality({r \in outcome.rows : r.status \in states})
                          sum == outcome.sum
                      IN /\ sum.total = Cardinality(outcome.rows)
                         /\ sum.total = sum.passed + sum.failed + sum.skipped + sum.error
                         /\ sum.failed = rows({"failed"}) /\ sum.error = rows({"error"})
                         /\ sum.shown + sum.omitted = rows({"failed", "error"})
    BY DEF SummaryCountsTheRows
  <2>1. PICK cases \in Seq(CaseShape) :
          /\ cases = outcome.cases /\ outcome.sum = Summary(cases)
          /\ outcome.rows = {cases[i] : i \in DOMAIN cases}
          /\ Cardinality({Key(row) : row \in {cases[i] : i \in DOMAIN cases}}) = Len(cases)
    BY DEF ResultsInv, SummaryIsOfCases
  <2>2. /\ \A X : With(cases, X) = Cardinality({r \in outcome.rows : r.status \in X})
        /\ Cardinality(outcome.rows) = Len(cases)
    BY <2>1, RowsOfStatus
  <2>3. /\ \A X : With(cases, X) \in Nat
        /\ Len(cases) = With(cases, {"passed"}) + With(cases, {"failed"})
                         + With(cases, {"skipped", "xfail"}) + With(cases, {"error"})
    BY StatusesMakeTheTotal
  <2> DEFINE bad == With(cases, {"failed", "error"})
  <2>4. /\ outcome.sum.total = Len(cases)
        /\ outcome.sum.passed = With(cases, {"passed"})
        /\ outcome.sum.failed = With(cases, {"failed"})
        /\ outcome.sum.skipped = With(cases, {"skipped", "xfail"})
        /\ outcome.sum.error = With(cases, {"error"})
        /\ outcome.sum.shown = Least(bad, ShownLimit)
        /\ outcome.sum.omitted = bad - Least(bad, ShownLimit)
    BY <2>1 DEF Summary
  <2>5. bad \in Nat /\ Least(bad, ShownLimit) \in Nat
    BY <2>3, ResultsAssumption DEF Least
  <2> HIDE DEF bad
  <2>6. outcome.sum.shown + outcome.sum.omitted = bad
    BY <2>4, <2>5
  <2> QED BY <2>2, <2>3, <2>4, <2>6 DEF bad
<1> QED BY <1>1, ResultsInvariant, PTL

-----------------------------------------------------------------------------
(***************************************************************************)
(* The components together.                                                *)
(***************************************************************************)

LEMMA TypesOfParts ==
  /\ StreamInv => StreamTypeOK
  /\ NoticesInv => NoticesTypeOK
  /\ ResultsInv => ResultsTypeOK
  /\ RequestsInv => RequestsTypeOK
<1>1. StreamInv => StreamTypeOK
  BY DEF StreamInv, StreamShape, StreamTypeOK
<1>2. NoticesInv => NoticesTypeOK
  BY DEF NoticesInv, NoticesShape, NoticesTypeOK, NoteShape, LogShape
<1>3. ResultsInv => ResultsTypeOK
  BY DEF ResultsInv, ResultsShape, ResultsTypeOK, GoShape, CaseShape
<1>4. RequestsInv => RequestsTypeOK
  BY DEF RequestsInv, Shape, RequestsTypeOK, States, Holders, ClientShape
<1> QED BY <1>1, <1>2, <1>3, <1>4

WorkInv == StreamInv /\ NoticesInv /\ ResultsInv /\ RequestsInv

LEMMA InitWork == Init => WorkInv
BY InitStream, InitNotices, InitResults, InitRequests DEF Init, WorkInv

LEMMA NextWork == WorkInv /\ [Next]_workVars => WorkInv'
<1> SUFFICES ASSUME WorkInv, [Next]_workVars PROVE WorkInv'
  OBVIOUS
<1>1. /\ [StreamNext]_streamVars /\ [NoticesNext]_noteVars
      /\ [ResultsNext]_resultVars /\ [RequestsNext]_reqVars
  BY DEF Next, workVars
<1> QED BY <1>1, NextStream, NextNotices, NextResults, NextRequests DEF WorkInv

\* Each handler leaves every piece of state of its component well formed,
\* whichever of the four components moves.
THEOREM WorkTypeCorrect == Spec => []TypeOK
<1>1. Spec => []WorkInv
  BY InitWork, NextWork, PTL DEF Spec
<1>2. WorkInv => TypeOK
  BY TypesOfParts DEF WorkInv, TypeOK
<1> QED BY <1>1, <1>2, PTL
===============================================================================
