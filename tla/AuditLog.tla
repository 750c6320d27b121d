------------------------------ MODULE AuditLog ------------------------------
(***************************************************************************)
(* The audit log (audit.py): processes append events to one JSONL file,    *)
(* each line with the hash of the line before it, under an advisory lock   *)
(* on the file; an append that fails with OSError is retried, and a        *)
(* request whose event is not kept may be refused.                         *)
(*                                                                         *)
(* A hash is the sequence of the events it covers.  A write may fail and   *)
(* leave its bytes, or those after a first part of the line, in the buffer *)
(* of the file object, whose close flushes them again: after the lock has  *)
(* been given back.  A short write that ends exactly before the newline is *)
(* left out.                                                               *)
(***************************************************************************)
EXTENDS Integers, Sequences

CONSTANTS
    Event,      \* events, each with a writer of its own
    Home,       \* the process of each event
    Sync,       \* events of write_sync, which neither locks nor retries
    Attempts,   \* _APPEND_RETRY_ATTEMPTS
    FailClosed, \* TUSKER_AUDIT_FAIL_CLOSED
    NoEvent     \* no event, or bytes of several

ASSUME EventAssumption == NoEvent \notin Event /\ Sync \subseteq Event
ASSUME AttemptsAssumption == Attempts \in Nat \ {0} /\ FailClosed \in BOOLEAN

VARIABLES
    log,    \* the lines of the file: event, hash of the line before, form
    flock,  \* the event that holds the lock on the file
    step,     \* where the writer of each event is
    prev,   \* _previous_hash of its attempt
    buffer, \* what its file object still has to write
    failed, \* how its attempt has failed: "no", "os" or "other"
    tries,  \* attempts it has made
    reply,  \* what its request got
    overtaken \* history: a buffer was flushed behind another writer

auditVars == <<log, flock, step, prev, buffer, failed, tries, reply, overtaken>>

Genesis == <<>>
Line(e, form) == [event |-> e, prev |-> prev[e], form |-> form]
HashOf(line) == Append(line.prev, line.event)

Tail1 == log[Len(log)]

Torn == log # <<>> /\ Tail1.form = "torn"
Tip == IF log = <<>> THEN Genesis ELSE HashOf(Tail1)
Replaced(line) == [log EXCEPT ![Len(log)] = line]
Garbled == [event |-> NoEvent, prev |-> Genesis, form |-> "garbled"]

\* Bytes that are appended to an unfinished line end up in it.
WithLine(e) == IF Torn THEN Replaced(Garbled) ELSE Append(log, Line(e, "whole"))
WithHead(e) ==
    IF Torn THEN Replaced([Garbled EXCEPT !.form = "torn"]) ELSE Append(log, Line(e, "torn"))
WithRest(e) ==
    IF Torn THEN Replaced(IF Tail1 = Line(e, "torn") THEN Line(e, "whole") ELSE Garbled)
            ELSE Append(log, Garbled)

AuditGoto(e, where) == step' = [step EXCEPT ![e] = where]
Appending == {"reading", "writing", "unlocking", "closing"}

-----------------------------------------------------------------------------
(* One attempt of _append, which runs in a worker thread.                    *)

\* Fault: an append does not wait for the lock.
NobodyAppends == TRUE

\* flock(LOCK_EX) is free.
LockIsFree == flock = NoEvent

\* write() takes _write_lock of its process for each attempt; both the lock
\* and the attempt are over before another begins.
WriteLockIsFree(e) ==
    e \in Sync \/ \A f \in Event \ Sync : Home[f] = Home[e] => step[f] \notin Appending

Begin(e) ==
    /\ step[e] \in {"new", "resting"}
    /\ WriteLockIsFree(e)
    /\ LockIsFree
    /\ flock' = e
    /\ tries' = [tries EXCEPT ![e] = @ + 1]
    /\ failed' = [failed EXCEPT ![e] = "no"]
    /\ AuditGoto(e, "reading")
    /\ UNCHANGED <<log, prev, buffer, reply, overtaken>>

\* _previous_hash, which takes the last line for a whole record; if it is not
\* the append fails with an error that is not retried.
ReadTail(e) ==
    /\ step[e] = "reading"
    /\ IF log = <<>> \/ Tail1.form = "whole"
       THEN /\ prev' = [prev EXCEPT ![e] = Tip]
            /\ AuditGoto(e, "writing")
            /\ UNCHANGED failed
       ELSE /\ failed' = [failed EXCEPT ![e] = "other"]
            /\ AuditGoto(e, "unlocking")
            /\ UNCHANGED prev
    /\ UNCHANGED <<log, flock, buffer, tries, reply, overtaken>>

\* write and flush, then fsync.
WriteSucceeds(e) ==
    /\ step[e] = "writing"
    /\ log' = WithLine(e)
    /\ AuditGoto(e, "unlocking")
    /\ UNCHANGED <<flock, prev, buffer, failed, tries, reply, overtaken>>

FsyncFails(e) ==
    /\ step[e] = "writing"
    /\ log' = WithLine(e)
    /\ failed' = [failed EXCEPT ![e] = "os"]
    /\ AuditGoto(e, "unlocking")
    /\ UNCHANGED <<flock, prev, buffer, tries, reply, overtaken>>

WriteFails(e) ==
    /\ step[e] = "writing"
    /\ \/ log' = log /\ buffer' = [buffer EXCEPT ![e] = "line"]
       \/ log' = WithHead(e) /\ buffer' = [buffer EXCEPT ![e] = "rest"]
    /\ failed' = [failed EXCEPT ![e] = "os"]
    /\ AuditGoto(e, "unlocking")
    /\ UNCHANGED <<flock, prev, tries, reply, overtaken>>

\* The finally clause.
Unlock(e) ==
    /\ step[e] = "unlocking"
    /\ flock' = NoEvent
    /\ AuditGoto(e, "closing")
    /\ UNCHANGED <<log, prev, buffer, failed, tries, reply, overtaken>>

\* An OSError is retried by write() while attempts are left.
MayRetry(e) == failed[e] = "os" /\ e \notin Sync /\ tries[e] < Attempts

\* Fault: an event that no attempt could write lets its request go on.
RepliesAnyway(e) == IF failed[e] # "other" \/ ~ FailClosed THEN {"sent"} ELSE {"refused", "cut"}

\* The request goes on if its event was kept or need not be; else it is
\* refused, or its connection cut if the response had begun.
Replies(e) == IF failed[e] = "no" \/ ~ FailClosed THEN {"sent"} ELSE {"refused", "cut"}

\* The file ends as e's attempt left it, and nobody is about to write after it.
Undisturbed(e) ==
    /\ \A f \in Event : step[f] # "writing"
    /\ IF buffer[e] = "rest" THEN Torn /\ Tail1 = Line(e, "torn")
                             ELSE ~ Torn /\ prev[e] = Tip

\* The file is closed, which flushes what is left of the buffer or drops it,
\* and the attempt's outcome decides.
Close(e) ==
    /\ step[e] = "closing"
    /\ \/ UNCHANGED <<log, overtaken>>
       \/ /\ buffer[e] # "none"
          /\ log' = IF buffer[e] = "line" THEN WithLine(e) ELSE WithRest(e)
          /\ overtaken' = (overtaken \/ ~ Undisturbed(e))
    /\ buffer' = [buffer EXCEPT ![e] = "none"]
    /\ prev' = [prev EXCEPT ![e] = Genesis]
    /\ IF MayRetry(e)
       THEN AuditGoto(e, "resting") /\ UNCHANGED reply
       ELSE /\ AuditGoto(e, IF failed[e] = "no" THEN "kept" ELSE "lost")
            /\ \E answer \in Replies(e) : reply' = [reply EXCEPT ![e] = answer]
    /\ UNCHANGED <<flock, failed, tries>>

\* A process ends: the system gives its locks back and its buffers are gone.
Dies(p) ==
    /\ \E e \in Event : Home[e] = p /\ step[e] \in Appending \cup {"resting"}
    /\ step' = [e \in Event |-> IF Home[e] = p /\ step[e] \notin {"kept", "lost"} THEN "dead" ELSE step[e]]
    /\ flock' = IF flock \in Event /\ Home[flock] = p THEN NoEvent ELSE flock
    /\ buffer' = [e \in Event |-> IF Home[e] = p THEN "none" ELSE buffer[e]]
    /\ prev' = [e \in Event |-> IF Home[e] = p THEN Genesis ELSE prev[e]]
    /\ UNCHANGED <<log, failed, tries, reply, overtaken>>

-----------------------------------------------------------------------------
AuditInit ==
    /\ log = <<>> /\ flock = NoEvent /\ overtaken = FALSE
    /\ step = [e \in Event |-> "new"]
    /\ prev = [e \in Event |-> Genesis]
    /\ buffer = [e \in Event |-> "none"]
    /\ failed = [e \in Event |-> "no"]
    /\ tries = [e \in Event |-> 0]
    /\ reply = [e \in Event |-> "none"]

AuditNext ==
    \/ \E e \in Event :
         \/ Begin(e) \/ ReadTail(e)
         \/ WriteSucceeds(e) \/ FsyncFails(e) \/ WriteFails(e)
         \/ Unlock(e) \/ Close(e)
    \/ \E p \in {Home[e] : e \in Event} : Dies(p)

AuditSpec == AuditInit /\ [][AuditNext]_auditVars

-----------------------------------------------------------------------------
AuditTypeOK ==
    /\ \A i \in DOMAIN log :
         /\ log[i].event \in Event \cup {NoEvent} /\ log[i].prev \in Seq(Event)
         /\ log[i].form \in {"whole", "torn", "garbled"}
    /\ flock \in Event \cup {NoEvent}
    /\ step \in [Event -> Appending \cup {"new", "resting", "kept", "lost", "dead"}]
    /\ prev \in [Event -> Seq(Event)]
    /\ buffer \in [Event -> {"none", "line", "rest"}]
    /\ failed \in [Event -> {"no", "os", "other"}]
    /\ tries \in [Event -> 0..Attempts]
    /\ reply \in [Event -> {"none", "sent", "refused", "cut"}]
    /\ overtaken \in BOOLEAN

\* "Each record contains the previous record's digest" and "appends use an
\* exclusive lock" (docs/enterprise-controls.md): whatever writers of several
\* processes fail, retry and die, and whatever is flushed after the lock was
\* given back, the file verifies up to a torn last line, unless another writer
\* had overtaken the one whose buffer was flushed (_append, verify_file).
ChainIsUnbroken ==
    ~ overtaken =>
      \A i \in DOMAIN log :
        /\ log[i].form = "whole" \/ (log[i].form = "torn" /\ i = Len(log))
        /\ log[i].prev = IF i = 1 THEN Genesis ELSE HashOf(log[i - 1])

\* "TUSKER_AUDIT_FAIL_CLOSED=true rejects unprepared responses if audit
\* persistence fails": a request that goes on has its event in a whole line,
\* after any number of failed attempts (write, write_sync, audit_middleware).
AnsweredIsRecorded ==
    FailClosed =>
      \A e \in Event : reply[e] = "sent" =>
        \E i \in DOMAIN log : log[i].form = "whole" /\ log[i].event = e
=============================================================================
