------------------------------- MODULE Webhooks ------------------------------
(***************************************************************************)
(* Webhook delivery: a handler of POST .../authorize or .../refunds        *)
(* commits a log and sends it, POST /webhooks/{id}/retry sends a log again *)
(* and the scheduler sends those whose retry is due.  Each reads a row,    *)
(* awaits the merchant's answer and then writes the row back.              *)
(*                                                                         *)
(* Three facts of the libraries matter.  The UPDATE of a flush names only  *)
(* the columns whose value differs from the one that was read.  The rows a *)
(* pass of the scheduler has flushed stay locked until the pass commits,   *)
(* after its last answer.  And a session whose flush has failed serves no  *)
(* further query.                                                          *)
(*                                                                         *)
(* A merchant may answer what the code cannot take: a body in a charset    *)
(* that does not decode raises before the flush, a NUL byte in the body    *)
(* makes the flush fail.  In a request either exception ends the request;  *)
(* the pass swallows both, and goes on as its session lets it.             *)
(*                                                                         *)
(* Abstractions: a retry date is still to come or past; the payload, the   *)
(* signature and the stored answer of the merchant are left out, and so is *)
(* what the scheduler does for a merchant without webhook_url: no route    *)
(* changes a URL, so that no log scheduled for a retry has such a merchant.*)
(***************************************************************************)
EXTENDS Naturals

CONSTANTS
  Logs,         \* ids of webhook logs
  Subscribed,   \* the logs of merchants with a webhook_url
  Handlers,     \* requests in progress at the same time
  Idle,         \* the event loop is not blocked
  MaxAttempts,  \* settings.MAX_WEBHOOK_ATTEMPTS
  MaxRetries,   \* bound on manual retries
  MaxUnread,    \* bound on the attempts after which a pass meets an unreadable answer
  MaxCrashes    \* bound on process crashes

ASSUME SubscribedAssumption == Subscribed \subseteq Logs
ASSUME IdleAssumption == Idle \notin Handlers
ASSUME MaxAttemptsAssumption == MaxAttempts \in Nat \ {0}
ASSUME BoundsAssumption == MaxRetries \in Nat /\ MaxUnread \in Nat /\ MaxCrashes \in Nat

VARIABLES
  log,       \* log[l]: the committed row of webhook_logs
  sending,   \* sending[h]: the log h awaits an answer for, and the row it read
  pass,      \* pass[l]: l in the open transaction of the scheduler
  loop,      \* the handler that blocks the event loop, or Idle
  posts,     \* history: how often a merchant, or the network, answered for l,
             \* up to MaxAttempts
  accepted,  \* history: the logs a merchant accepted
  retries, crashes

vars == <<log, sending, pass, loop, posts, accepted, retries, crashes>>

Row == [status : {"absent", "pending", "retrying", "delivered", "failed"},
        attempts : Nat,
        retry : {"none", "waiting", "due"}]
Free == [log |-> "none"]
Sending == [log : Subscribed, seen : Row]
Skipped == [state |-> "skipped"]
InPass == [state : {"due", "unsaved", "flushed"}, row : Row]

Absent == [status |-> "absent", attempts |-> 0, retry |-> "none"]

\* Faulty variant: the first attempt is counted before it is made.
NewLogCounted == [status |-> "pending", attempts |-> 1, retry |-> "none"]

NewLog == [status |-> "pending", attempts |-> 0, retry |-> "none"]

Init ==
  /\ log = [l \in Logs |-> Absent]
  /\ sending = [h \in Handlers |-> Free]
  /\ pass = [l \in Logs |-> Skipped]
  /\ loop = Idle
  /\ posts = [l \in Logs |-> 0]
  /\ accepted = {}
  /\ retries = 0
  /\ crashes = 0
-----------------------------------------------------------------------------
\* Faulty variants: one attempt too few, and no limit past the last attempt.
ExhaustedEarly(attempts) == attempts + 1 >= MaxAttempts
ExhaustedOnce(attempts) == attempts = MaxAttempts

Exhausted(attempts) == attempts >= MaxAttempts

\* Faulty variant: the status code of the answer is not looked at.
AfterAnyAnswer(seen, ok) ==
  [status |-> "delivered", attempts |-> seen.attempts + 1, retry |-> "none"]

\* The row as send_webhook leaves it in memory.
AfterAnswer(seen, ok) ==
  LET attempts == seen.attempts + 1
  IN  [status   |-> IF ok THEN "delivered"
                    ELSE IF Exhausted(attempts) THEN "failed" ELSE "retrying",
       attempts |-> attempts,
       retry    |-> IF ok \/ Exhausted(attempts) THEN "none" ELSE "waiting"]

\* The UPDATE of the flush, on the row as it is by now.  Two retry dates always
\* differ, two NULLs never do.
Flushed(row, seen, ok) ==
  LET new == AfterAnswer(seen, ok)
  IN  [status   |-> IF new.status = seen.status THEN row.status ELSE new.status,
       attempts |-> new.attempts,
       retry    |-> IF new.retry = "none" /\ seen.retry = "none" THEN row.retry
                                                               ELSE new.retry]

Locked(l) == pass[l] # Skipped /\ pass[l].state = "flushed"

\* What the merchant, or the network, answered.  An answer whose handling ends
\* its request or its pass is not recorded.
Record(l, ok) ==
  /\ posts' = [posts EXCEPT ![l] = IF @ < MaxAttempts THEN @ + 1 ELSE @]
  /\ accepted' = IF ok THEN accepted \cup {l} ELSE accepted
-----------------------------------------------------------------------------
\* The handler commits the log and, with a webhook_url, starts to send it.
CreateLog(h, l) ==
  /\ loop = Idle
  /\ sending[h] = Free
  /\ log[l] = Absent
  /\ log' = [log EXCEPT ![l] = NewLog]
  /\ sending' = IF l \in Subscribed
                  THEN [sending EXCEPT ![h] = [log |-> l, seen |-> NewLog]]
                  ELSE sending
  /\ UNCHANGED <<pass, loop, posts, accepted, retries, crashes>>

\* retry_webhook: any log of a merchant with a webhook_url, whatever its status.
BeginRetry(h, l) ==
  /\ loop = Idle
  /\ sending[h] = Free
  /\ l \in Subscribed
  /\ log[l] # Absent
  /\ retries < MaxRetries
  /\ retries' = retries + 1
  /\ sending' = [sending EXCEPT ![h] = [log |-> l, seen |-> log[l]]]
  /\ UNCHANGED <<log, pass, loop, posts, accepted, crashes>>

\* The answer is flushed and committed in one step of the loop.
Finish(h, ok) ==
  /\ loop = Idle
  /\ sending[h] # Free
  /\ ~Locked(sending[h].log)
  /\ LET l == sending[h].log
     IN  /\ log' = [log EXCEPT ![l] = Flushed(log[l], sending[h].seen, ok)]
         /\ Record(l, ok)
  /\ sending' = [sending EXCEPT ![h] = Free]
  /\ UNCHANGED <<pass, loop, retries, crashes>>

\* The flush waits for the scheduler's transaction, and the event loop with it.
Block(h) ==
  /\ loop = Idle
  /\ sending[h] # Free
  /\ Locked(sending[h].log)
  /\ loop' = h
  /\ UNCHANGED <<log, sending, pass, posts, accepted, retries, crashes>>

\* Any other exception than a RequestError (a malformed URL, an answer that
\* cannot be read, a flush that fails) ends the request, and nothing is written.
Abandon(h) ==
  /\ loop = Idle
  /\ sending[h] # Free
  /\ sending' = [sending EXCEPT ![h] = Free]
  /\ UNCHANGED <<log, pass, loop, posts, accepted, retries, crashes>>
-----------------------------------------------------------------------------
\* Faulty variant: a log that is overdue is given up.
ElapseGivesUp(l) ==
  /\ log[l].retry = "waiting"
  /\ log' = [log EXCEPT ![l].retry = "none", ![l].status = "failed"]
  /\ UNCHANGED <<sending, pass, loop, posts, accepted, retries, crashes>>

\* The retry date of a log passes.
Elapse(l) ==
  /\ log[l].retry = "waiting"
  /\ log' = [log EXCEPT ![l].retry = "due"]
  /\ UNCHANGED <<sending, pass, loop, posts, accepted, retries, crashes>>

\* Faulty variant: logs are polled before their first failure only.
IsDueWhilePending(l) == log[l].status = "pending"

IsDue(l) == log[l].status = "retrying" /\ log[l].retry = "due"

\* A run of redrive_due_webhooks reads all due logs; the scheduler starts no
\* second run next to it.
BeginPass ==
  /\ loop = Idle
  /\ \A l \in Logs : pass[l] = Skipped
  /\ \E l \in Logs : IsDue(l)
  /\ pass' = [l \in Logs |-> IF IsDue(l) THEN [state |-> "due", row |-> log[l]]
                                         ELSE Skipped]
  /\ UNCHANGED <<log, sending, loop, posts, accepted, retries, crashes>>

AwaitedByPass(l) == pass[l] # Skipped /\ pass[l].state = "due"
LastAwaited(l) == AwaitedByPass(l) /\ \A k \in Logs \ {l} : ~AwaitedByPass(k)

\* A flush writes all changed rows: of one whose answer could not be read, the
\* attempts.
FlushAll(rows) ==
  [k \in Logs |->
     IF rows[k] # Skipped /\ rows[k].state = "unsaved"
       THEN [state |-> "flushed", row |-> [log[k] EXCEPT !.attempts = rows[k].row.attempts]]
       ELSE rows[k]]

\* The rows of the pass once an answer for l is flushed.
AfterFlush(l, ok) ==
  FlushAll([pass EXCEPT ![l] =
              [state |-> "flushed", row |-> Flushed(log[l], pass[l].row, ok)]])

\* The rows of the pass once an answer for l raised: the attempt is counted in
\* memory, status and date are not touched.
AfterUnread(l) ==
  [pass EXCEPT ![l] =
     [state |-> "unsaved", row |-> [pass[l].row EXCEPT !.attempts = @ + 1]]]

\* The pass flushes an answer and goes on to its next log.
FlushInPass(l, ok) ==
  /\ loop = Idle
  /\ AwaitedByPass(l) /\ ~LastAwaited(l)
  /\ pass' = AfterFlush(l, ok)
  /\ Record(l, ok)
  /\ UNCHANGED <<log, sending, loop, retries, crashes>>

\* The text of an answer cannot be read; the exception is swallowed and the pass
\* goes on to its next log.
SkipInPass(l, ok) ==
  /\ loop = Idle
  /\ AwaitedByPass(l) /\ ~LastAwaited(l)
  /\ pass[l].row.attempts < MaxUnread
  /\ pass' = AfterUnread(l)
  /\ Record(l, ok)
  /\ UNCHANGED <<log, sending, loop, retries, crashes>>

\* The pass commits what it has flushed.
Commit(rows) ==
  /\ log' = [k \in Logs |-> IF rows[k] = Skipped THEN log[k] ELSE rows[k].row]
  /\ pass' = [k \in Logs |-> Skipped]

\* The last answer of the pass is flushed, and all of them are committed.
CommitPass(l, ok) ==
  /\ loop = Idle
  /\ LastAwaited(l)
  /\ Commit(AfterFlush(l, ok))
  /\ Record(l, ok)
  /\ UNCHANGED <<sending, loop, retries, crashes>>

\* The last answer of the pass cannot be read; what it counted is committed with
\* the others, and the log stays retrying and due.
CommitUnread(l, ok) ==
  /\ loop = Idle
  /\ LastAwaited(l)
  /\ pass[l].row.attempts < MaxUnread
  /\ Commit(FlushAll(AfterUnread(l)))
  /\ Record(l, ok)
  /\ UNCHANGED <<sending, loop, retries, crashes>>

\* The flush of an answer fails.  The exception is swallowed too, but the next
\* use of the session raises outside of the handler: the whole pass is lost.
LosePass(l) ==
  /\ loop = Idle
  /\ AwaitedByPass(l)
  /\ pass' = [k \in Logs |-> Skipped]
  /\ UNCHANGED <<log, sending, loop, posts, accepted, retries, crashes>>

\* The process dies and starts again; what was not committed is forgotten.
Crash ==
  /\ crashes < MaxCrashes
  /\ crashes' = crashes + 1
  /\ sending' = [h \in Handlers |-> Free]
  /\ pass' = [l \in Logs |-> Skipped]
  /\ loop' = Idle
  /\ UNCHANGED <<log, posts, accepted, retries>>

Next ==
  \/ \E h \in Handlers :
       \/ \E l \in Logs : CreateLog(h, l) \/ BeginRetry(h, l)
       \/ \E ok \in BOOLEAN : Finish(h, ok)
       \/ Block(h) \/ Abandon(h)
  \/ \E l \in Logs :
       \/ Elapse(l) \/ LosePass(l)
       \/ \E ok \in BOOLEAN : \/ FlushInPass(l, ok) \/ SkipInPass(l, ok)
                             \/ CommitPass(l, ok) \/ CommitUnread(l, ok)
  \/ BeginPass
  \/ Crash

\* An answer for l arrives that the pass cannot take.
UntakenInPass(l) ==
  LosePass(l) \/ \E ok \in BOOLEAN : SkipInPass(l, ok) \/ CommitUnread(l, ok)

\* Time passes, the scheduler polls, and every POST is answered or times out;
\* the loop serves the answer, whatever it is, unless it is blocked.
Fairness ==
  /\ \A l \in Logs :
       /\ WF_vars(Elapse(l))
       /\ WF_vars(\/ \E ok \in BOOLEAN : FlushInPass(l, ok) \/ CommitPass(l, ok)
                  \/ UntakenInPass(l))
  /\ \A h \in Handlers : WF_vars(Block(h) \/ \E ok \in BOOLEAN : Finish(h, ok))
  /\ WF_vars(BeginPass)

Spec == Init /\ [][Next]_vars /\ Fairness
-----------------------------------------------------------------------------
\* Rows keep their shape, a pending one has no attempt yet, the scheduler takes
\* rows that have been tried, and the handler that blocks the loop waits for a
\* row of the open pass.
TypeOK ==
  /\ log \in [Logs -> Row]
  /\ sending \in [Handlers -> {Free} \cup Sending]
  /\ pass \in [Logs -> {Skipped} \cup InPass]
  /\ posts \in [Logs -> 0..MaxAttempts]
  /\ accepted \subseteq Logs
  /\ retries \in 0..MaxRetries /\ crashes \in 0..MaxCrashes
  /\ \A l \in Logs :
       /\ pass[l] # Skipped => log[l].status # "absent"
       /\ log[l].status \in {"absent", "pending"}
            => log[l].attempts = 0 /\ log[l].retry = "none"
  /\ loop # Idle => loop \in Handlers /\ sending[loop] # Free /\ Locked(sending[loop].log)

\* Whatever overlaps or crashes, no event is given up before the last attempt
\* (_schedule_retry_or_fail), although concurrent writers overwrite the count.
NotGivenUpEarly ==
  \A l \in Logs :
    log[l].status = "failed" => posts[l] >= MaxAttempts

\* A log shown as delivered was accepted by its merchant at some time.
DeliveredWasAccepted ==
  \A l \in Logs :
    log[l].status = "delivered" => l \in accepted

\* l is out of attempts, and so is every copy of its row.
OutOfAttempts(l) ==
  /\ pass[l] = Skipped
  /\ log[l].attempts >= MaxAttempts /\ log[l].status \in {"delivered", "failed"}
  /\ \A h \in Handlers :
       sending[h] # Free /\ sending[h].log = l =>
         /\ sending[h].seen.attempts >= MaxAttempts
         /\ sending[h].seen.status \in {"delivered", "failed"}

\* "Abandoned after a maximum attempt count": a log out of attempts is not
\* scheduled again by what starts from then on (a manual retry, a pass).  What an
\* older copy under way writes over it is not covered: it may schedule it again.
AbandonedForGood ==
  [][\A l \in Logs : OutOfAttempts(l) => OutOfAttempts(l)']_vars

\* Once the passes meet no answer any more that the code cannot take, for
\* whatever log, a retry that is scheduled comes to an end, delivered or failed,
\* however many answers are refused and whatever the lost passes left behind,
\* unless a concurrent write takes its retry date away or a handler that waits
\* for the pass blocks the loop.
RetriesEnd ==
  <>[][\A l \in Logs : ~UntakenInPass(l)]_vars =>
    \A l \in Logs :
      log[l].status = "retrying"
        ~> \/ log[l].status \in {"delivered", "failed"}
           \/ log[l].retry = "none"
           \/ loop # Idle

\* What writers, passes and crashes do to a log is, seen from outside, the life
\* of an event: its status changes with an answer only, to a verdict that the
\* answers justify.
Delivery == INSTANCE DeliveryContract WITH status <- [l \in Logs |-> log[l].status]

ImplementsDelivery == Delivery!Spec
-----------------------------------------------------------------------------
\* "On failure, increments the attempt count and schedules a retry": a log that
\* is to be retried has a date to be retried at.
RetriesScheduled ==
  \A l \in Logs :
    log[l].status = "retrying" => log[l].retry # "none"
=============================================================================
