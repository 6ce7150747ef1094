---------------------------- MODULE WebhooksProofs ---------------------------
(***************************************************************************)
(* The invariants of webhook delivery, for any number of logs, handlers,   *)
(* attempts, manual retries and crashes.  A row may be overwritten by what *)
(* another writer makes of an older copy, so the invariant speaks of every *)
(* copy: the committed rows, those the handlers read, those of the pass.   *)
(***************************************************************************)
EXTENDS Webhooks, TLAPS

Tried == {"retrying", "delivered", "failed"}

\* One more answer, as far as answers are counted.
OneMore(count) == IF count < MaxAttempts THEN count + 1 ELSE count

\* A copy counts no attempt that was not made, is failed only after enough of
\* them, and delivered only if the merchant accepted.
Truthful(l, count, yes, row) ==
  /\ row.attempts <= count \/ count = MaxAttempts
  /\ row.status = "failed" => count >= MaxAttempts
  /\ row.status = "delivered" => l \in yes

TruthfulCopies ==
  \A l \in Logs :
    /\ Truthful(l, posts[l], accepted, log[l])
    /\ pass[l] # Skipped => Truthful(l, posts[l], accepted, pass[l].row)
    /\ \A h \in Handlers :
         sending[h] # Free /\ sending[h].log = l
           => Truthful(l, posts[l], accepted, sending[h].seen)

\* A log that was tried stays so, and only copies of a pending log are pending.
CopiesAreTried ==
  /\ \A l \in Logs :
       pass[l] # Skipped => log[l].status \in Tried /\ pass[l].row.status \in Tried
  /\ \A h \in Handlers :
       sending[h] # Free =>
         /\ sending[h].seen.status # "absent"
         /\ log[sending[h].log].status # "absent"
         /\ log[sending[h].log].status = "pending" => sending[h].seen.status = "pending"

IInv == TypeOK /\ TruthfulCopies /\ CopiesAreTried
-----------------------------------------------------------------------------
\* What _schedule_retry_or_fail and a 2xx answer make of a row.
LEMMA AfterAnswerIsTried ==
  ASSUME NEW seen \in Row, NEW ok \in BOOLEAN
  PROVE  /\ AfterAnswer(seen, ok) \in Row
         /\ AfterAnswer(seen, ok).status \in Tried
         /\ AfterAnswer(seen, ok).attempts = seen.attempts + 1
         /\ AfterAnswer(seen, ok).status = "delivered" <=> ok
         /\ AfterAnswer(seen, ok).status = "failed" => seen.attempts + 1 >= MaxAttempts
  BY MaxAttemptsAssumption DEF AfterAnswer, Exhausted, Row, Tried

\* The flushed row has been tried, if it is not the flush of a tried copy on a
\* row that was not.
LEMMA FlushedIsTried ==
  ASSUME NEW row \in Row, NEW seen \in Row, NEW ok \in BOOLEAN,
         row.status \in Tried \/ seen.status \notin Tried
  PROVE  /\ Flushed(row, seen, ok) \in Row
         /\ Flushed(row, seen, ok).status \in Tried
  <1> DEFINE new == AfterAnswer(seen, ok)
  <1>1. new \in Row /\ new.status \in Tried
    BY AfterAnswerIsTried
  <1> HIDE DEF new
  <1>2. Flushed(row, seen, ok) =
          [status   |-> IF new.status = seen.status THEN row.status ELSE new.status,
           attempts |-> new.attempts,
           retry    |-> IF new.retry = "none" /\ seen.retry = "none" THEN row.retry
                                                                   ELSE new.retry]
    BY DEF Flushed, new
  <1> QED
    BY <1>1, <1>2 DEF Row

\* The flush of a truthful copy on a truthful row is truthful.
LEMMA FlushedIsTruthful ==
  ASSUME NEW l, NEW count \in 0..MaxAttempts, NEW yes, NEW still,
         NEW row \in Row, NEW seen \in Row, NEW ok \in BOOLEAN,
         Truthful(l, count, yes, row), Truthful(l, count, yes, seen),
         l \in yes \/ ok => l \in still
  PROVE  Truthful(l, OneMore(count), still, Flushed(row, seen, ok))
  <1> DEFINE new == AfterAnswer(seen, ok)
  <1>1. /\ new.attempts = seen.attempts + 1
        /\ new.status = "delivered" <=> ok
        /\ new.status = "failed" => seen.attempts + 1 >= MaxAttempts
    BY AfterAnswerIsTried
  <1>2. /\ Flushed(row, seen, ok).attempts = new.attempts
        /\ Flushed(row, seen, ok).status \in {row.status, new.status}
    BY DEF Flushed, new
  <1> HIDE DEF new
  <1>3. seen.attempts \in Nat
    BY DEF Row
  <1>4. seen.attempts + 1 <= OneMore(count) \/ OneMore(count) = MaxAttempts
    BY <1>3, MaxAttemptsAssumption DEF Truthful, OneMore
  <1>5. Flushed(row, seen, ok).status = "delivered" => l \in still
    BY <1>1, <1>2 DEF Truthful
  <1>6. Flushed(row, seen, ok).status = "failed" => OneMore(count) >= MaxAttempts
    BY <1>1, <1>2, <1>3, <1>4, MaxAttemptsAssumption DEF Truthful, OneMore
  <1> QED
    BY <1>1, <1>2, <1>4, <1>5, <1>6 DEF Truthful

\* More answers never make a truthful copy a lie.
LEMMA StaysTruthful ==
  ASSUME NEW l, NEW count \in 0..MaxAttempts, NEW more \in 0..MaxAttempts, count <= more,
         NEW yes, NEW still, l \in yes => l \in still,
         NEW row \in Row, Truthful(l, count, yes, row)
  PROVE  Truthful(l, more, still, row)
  BY MaxAttemptsAssumption DEF Truthful, Row

\* Every answer is counted once.
LEMMA Recorded ==
  ASSUME TypeOK, NEW l \in Logs, NEW ok \in BOOLEAN, Record(l, ok)
  PROVE  /\ posts' \in [Logs -> 0..MaxAttempts] /\ accepted' \subseteq Logs
         /\ posts'[l] = OneMore(posts[l]) /\ (l \in accepted' <=> l \in accepted \/ ok)
         /\ \A k \in Logs : posts[k] <= posts'[k] /\ (k \in accepted => k \in accepted')
         /\ \A k \in Logs \ {l} : posts'[k] = posts[k] /\ (k \in accepted' <=> k \in accepted)
  BY MaxAttemptsAssumption DEF TypeOK, Record, OneMore

LEMMA InitInv == Init => IInv
  <1> SUFFICES ASSUME Init PROVE IInv
    OBVIOUS
  <1>1. TypeOK
    BY BoundsAssumption, MaxAttemptsAssumption DEF Init, TypeOK, Row, Absent
  <1>2. TruthfulCopies /\ CopiesAreTried
    BY MaxAttemptsAssumption DEF Init, TruthfulCopies, CopiesAreTried, Truthful, Absent
  <1> QED
    BY <1>1, <1>2 DEF IInv
-----------------------------------------------------------------------------
LEMMA CreateLogInv ==
  ASSUME IInv, NEW h \in Handlers, NEW l \in Logs, CreateLog(h, l)
  PROVE  IInv'
  <1>1. TypeOK /\ TruthfulCopies /\ CopiesAreTried
    BY DEF IInv
  <1>2. /\ log' = [log EXCEPT ![l] = NewLog] /\ log[l] = Absent /\ NewLog \in Row
        /\ loop' = Idle
        /\ UNCHANGED <<pass, posts, accepted, retries, crashes>>
    BY DEF CreateLog, NewLog, Row
  <1>3. log' \in [Logs -> Row] /\ log'[l] = NewLog /\ \A k \in Logs \ {l} : log'[k] = log[k]
    BY <1>1, <1>2 DEF TypeOK
  <1>4. /\ sending' \in [Handlers -> {Free} \cup Sending]
        /\ \A g \in Handlers : sending'[g] # Free =>
             \/ sending'[g] = sending[g]
             \/ sending'[g].log = l /\ sending'[g].seen = NewLog
    BY <1>1, <1>2 DEF CreateLog, TypeOK, Sending
  <1>5. /\ pass[l] = Skipped
        /\ \A g \in Handlers : sending[g] # Free => sending[g].log # l
    BY <1>1, <1>2 DEF CopiesAreTried, Absent, Tried
  <1>6. Truthful(l, posts[l], accepted, NewLog)
    BY <1>1, MaxAttemptsAssumption DEF Truthful, NewLog, TypeOK
  <1>7. TypeOK'
    BY <1>1, <1>2, <1>3, <1>4, <1>5 DEF TypeOK, NewLog, Locked
  <1>8. TruthfulCopies'
    BY <1>1, <1>2, <1>3, <1>4, <1>5, <1>6 DEF TruthfulCopies, TypeOK
  <1>9. CopiesAreTried'
    BY <1>1, <1>2, <1>3, <1>4, <1>5 DEF CopiesAreTried, TypeOK, Sending, NewLog, Tried
  <1> QED
    BY <1>7, <1>8, <1>9 DEF IInv

LEMMA BeginRetryInv ==
  ASSUME IInv, NEW h \in Handlers, NEW l \in Logs, BeginRetry(h, l)
  PROVE  IInv'
  <1>1. TypeOK /\ TruthfulCopies /\ CopiesAreTried
    BY DEF IInv
  <1>2. /\ sending' = [sending EXCEPT ![h] = [log |-> l, seen |-> log[l]]]
        /\ loop = Idle /\ l \in Subscribed /\ log[l] # Absent
        /\ retries' \in 0..MaxRetries
        /\ UNCHANGED <<log, pass, loop, posts, accepted, crashes>>
    BY <1>1, BoundsAssumption DEF BeginRetry, TypeOK
  <1>3. log[l] \in Row /\ log[l].status # "absent"
    BY <1>1, <1>2 DEF TypeOK, Row, Absent
  <1>4. /\ sending' \in [Handlers -> {Free} \cup Sending]
        /\ \A g \in Handlers : sending'[g] # Free =>
             \/ sending'[g] = sending[g]
             \/ sending'[g].log = l /\ sending'[g].seen = log[l]
    BY <1>1, <1>2, <1>3 DEF TypeOK, Sending
  <1>5. TypeOK'
    BY <1>1, <1>2, <1>4 DEF TypeOK, Locked
  <1>6. TruthfulCopies'
    BY <1>1, <1>2, <1>4 DEF TruthfulCopies
  <1>7. CopiesAreTried'
    BY <1>1, <1>2, <1>3, <1>4 DEF CopiesAreTried
  <1> QED
    BY <1>5, <1>6, <1>7 DEF IInv

LEMMA FinishInv ==
  ASSUME IInv, NEW h \in Handlers, NEW ok \in BOOLEAN, Finish(h, ok)
  PROVE  IInv'
  <1> DEFINE l == sending[h].log
             row == Flushed(log[l], sending[h].seen, ok)
  <1>1. TypeOK /\ TruthfulCopies /\ CopiesAreTried
    BY DEF IInv
  <1>2. /\ sending[h] # Free /\ sending[h] \in Sending
        /\ log' = [log EXCEPT ![l] = row]
        /\ Record(l, ok)
        /\ sending' = [sending EXCEPT ![h] = Free]
        /\ loop = Idle
        /\ UNCHANGED <<pass, loop, retries, crashes>>
    BY <1>1 DEF Finish, TypeOK
  <1>3. l \in Logs /\ log[l] \in Row /\ sending[h].seen \in Row
    BY <1>1, <1>2, SubscribedAssumption DEF TypeOK, Sending
  <1>4. log[l].status \in Tried \/ sending[h].seen.status \notin Tried
    BY <1>1, <1>2, <1>3 DEF CopiesAreTried, Row, Tried
  <1>5. row \in Row /\ row.status \in Tried
    BY <1>3, <1>4, FlushedIsTried
  <1>6. /\ posts' \in [Logs -> 0..MaxAttempts] /\ accepted' \subseteq Logs
        /\ posts'[l] = OneMore(posts[l]) /\ (l \in accepted' <=> l \in accepted \/ ok)
        /\ \A k \in Logs : posts[k] <= posts'[k] /\ (k \in accepted => k \in accepted')
    BY <1>1, <1>2, <1>3, Recorded
  <1>7. Truthful(l, posts'[l], accepted', row)
    <2>1. posts[l] \in 0..MaxAttempts /\ Truthful(l, posts[l], accepted, log[l])
          /\ Truthful(l, posts[l], accepted, sending[h].seen)
      BY <1>1, <1>2, <1>3 DEF TruthfulCopies, TypeOK
    <2> QED
      BY <1>3, <1>6, <2>1, FlushedIsTruthful
  <1> HIDE DEF l, row
  <1>8. log' \in [Logs -> Row] /\ log'[l] = row /\ \A k \in Logs \ {l} : log'[k] = log[k]
    BY <1>1, <1>2, <1>3, <1>5 DEF TypeOK
  <1>9. /\ sending' \in [Handlers -> {Free} \cup Sending]
        /\ \A g \in Handlers : sending'[g] # Free => sending'[g] = sending[g]
    BY <1>1, <1>2 DEF TypeOK
  <1>10. TypeOK'
    <2>1. \A k \in Logs :
            /\ pass'[k] # Skipped => log'[k].status # "absent"
            /\ log'[k].status \in {"absent", "pending"}
                 => log'[k].attempts = 0 /\ log'[k].retry = "none"
      BY <1>1, <1>2, <1>5, <1>8 DEF TypeOK, Tried, Absent
    <2> QED
      BY <1>1, <1>2, <1>6, <1>8, <1>9, <2>1 DEF TypeOK
  <1>11. TruthfulCopies'
    <2> SUFFICES ASSUME NEW k \in Logs
                 PROVE  /\ Truthful(k, posts'[k], accepted', log'[k])
                        /\ pass[k] # Skipped => Truthful(k, posts'[k], accepted', pass[k].row)
                        /\ \A g \in Handlers :
                             sending[g] # Free /\ sending[g].log = k
                               => Truthful(k, posts'[k], accepted', sending[g].seen)
      BY <1>2, <1>9 DEF TruthfulCopies
    <2>1. /\ posts[k] \in 0..MaxAttempts /\ posts'[k] \in 0..MaxAttempts /\ posts[k] <= posts'[k]
          /\ k \in accepted => k \in accepted'
      BY <1>1, <1>6 DEF TypeOK
    <2>2. Truthful(k, posts'[k], accepted', log'[k])
      <3>1. CASE k = l
        BY <1>7, <1>8, <3>1
      <3>2. CASE k # l
        BY <1>1, <1>8, <2>1, <3>2, StaysTruthful DEF TruthfulCopies, TypeOK
      <3> QED
        BY <3>1, <3>2
    <2>3. pass[k] # Skipped => Truthful(k, posts'[k], accepted', pass[k].row)
      BY <1>1, <2>1, StaysTruthful DEF TruthfulCopies, TypeOK, InPass
    <2>4. ASSUME NEW g \in Handlers, sending[g] # Free, sending[g].log = k
          PROVE  Truthful(k, posts'[k], accepted', sending[g].seen)
      BY <1>1, <2>1, <2>4, StaysTruthful DEF TruthfulCopies, TypeOK, Sending
    <2> QED
      BY <2>2, <2>3, <2>4
  <1>12. CopiesAreTried'
    BY <1>1, <1>2, <1>5, <1>8, <1>9, SubscribedAssumption
      DEF CopiesAreTried, TypeOK, Sending, Tried
  <1> QED
    BY <1>10, <1>11, <1>12 DEF IInv

\* A handler that blocks or gives up, a date that passes, a pass that begins or is
\* lost and a crash make no new rows.
LEMMA QuietStepsInv ==
  ASSUME IInv,
         \/ \E h \in Handlers : Block(h) \/ Abandon(h)
         \/ \E l \in Logs : Elapse(l) \/ LosePass(l)
         \/ BeginPass \/ Crash
  PROVE  IInv'
  <1>1. TypeOK /\ TruthfulCopies /\ CopiesAreTried
    BY DEF IInv
  <1>2. ASSUME NEW h \in Handlers, Block(h) PROVE IInv'
    <2>1. TypeOK'
      BY <1>1, <1>2 DEF Block, TypeOK, Locked
    <2> QED
      BY <1>1, <1>2, <2>1 DEF Block, IInv, TruthfulCopies, CopiesAreTried
  <1>3. ASSUME NEW h \in Handlers, Abandon(h) PROVE IInv'
    <2>1. TypeOK'
      BY <1>1, <1>3 DEF Abandon, TypeOK
    <2> QED
      BY <1>1, <1>3, <2>1 DEF Abandon, IInv, TypeOK, TruthfulCopies, CopiesAreTried
  <1>4. ASSUME NEW l \in Logs, Elapse(l) PROVE IInv'
    <2>1. /\ log' \in [Logs -> Row]
          /\ \A k \in Logs :
               /\ log'[k].status = log[k].status
               /\ log'[k].attempts = log[k].attempts
               /\ log[k].retry = "none" => log'[k].retry = "none"
          /\ UNCHANGED <<sending, pass, loop, posts, accepted, retries, crashes>>
      BY <1>1, <1>4 DEF Elapse, TypeOK, Row
    <2>2. TypeOK'
      BY <1>1, <2>1 DEF TypeOK, Locked
    <2>3. TruthfulCopies'
      BY <1>1, <2>1 DEF TruthfulCopies, Truthful
    <2>4. \A h \in Handlers : sending[h] # Free => sending[h].log \in Logs
      BY <1>1, SubscribedAssumption DEF TypeOK, Sending
    <2>5. CopiesAreTried'
      BY <1>1, <2>1, <2>4 DEF CopiesAreTried
    <2> QED
      BY <2>2, <2>3, <2>5 DEF IInv
  <1>5. CASE BeginPass
    <2>1. /\ pass' \in [Logs -> {Skipped} \cup InPass]
          /\ \A l \in Logs : pass'[l] # Skipped =>
               pass'[l].row = log[l] /\ log[l].status = "retrying"
          /\ loop = Idle
          /\ UNCHANGED <<log, sending, loop, posts, accepted, retries, crashes>>
      BY <1>1, <1>5 DEF BeginPass, IsDue, TypeOK, InPass
    <2>2. TypeOK'
      BY <1>1, <2>1 DEF TypeOK, Absent
    <2> QED
      BY <1>1, <2>1, <2>2 DEF IInv, TruthfulCopies, CopiesAreTried, Tried
  <1>6. CASE Crash
    <2>1. TypeOK'
      BY <1>1, <1>6, BoundsAssumption DEF Crash, TypeOK
    <2> QED
      BY <1>1, <1>6, <2>1 DEF Crash, IInv, TruthfulCopies, CopiesAreTried
  <1>7. ASSUME NEW l \in Logs, LosePass(l) PROVE IInv'
    <2>1. /\ pass' = [k \in Logs |-> Skipped] /\ loop = Idle
          /\ UNCHANGED <<log, sending, loop, posts, accepted, retries, crashes>>
      BY <1>7 DEF LosePass
    <2>2. TypeOK'
      BY <1>1, <2>1 DEF TypeOK
    <2> QED
      BY <1>1, <2>1, <2>2 DEF IInv, TruthfulCopies, CopiesAreTried
  <1> QED
    BY <1>2, <1>3, <1>4, <1>5, <1>6, <1>7
-----------------------------------------------------------------------------
\* Rows of the pass that may become its next ones, or be committed.
GoodRows(rows, count, yes) ==
  /\ rows \in [Logs -> {Skipped} \cup InPass]
  /\ \A k \in Logs : rows[k] # Skipped =>
       /\ log[k].status \in Tried
       /\ rows[k].row.status \in Tried
       /\ Truthful(k, count[k], yes, rows[k].row)

\* An answer in a pass: what was truthful stays so.
LEMMA AnsweredInPass ==
  ASSUME IInv, NEW l \in Logs, NEW ok \in BOOLEAN, AwaitedByPass(l), Record(l, ok)
  PROVE  /\ posts' \in [Logs -> 0..MaxAttempts] /\ accepted' \subseteq Logs
         /\ GoodRows(pass, posts', accepted')
         /\ \A k \in Logs :
              /\ Truthful(k, posts'[k], accepted', log[k])
              /\ \A h \in Handlers :
                   sending[h] # Free /\ sending[h].log = k
                     => Truthful(k, posts'[k], accepted', sending[h].seen)
  <1>1. TypeOK /\ TruthfulCopies /\ CopiesAreTried
    BY DEF IInv
  <1>2. /\ posts' \in [Logs -> 0..MaxAttempts] /\ accepted' \subseteq Logs
        /\ \A k \in Logs : posts[k] <= posts'[k] /\ (k \in accepted => k \in accepted')
    BY <1>1, Recorded
  <1>3. ASSUME NEW k \in Logs, NEW row \in Row, Truthful(k, posts[k], accepted, row)
        PROVE  Truthful(k, posts'[k], accepted', row)
    <2>1. posts[k] \in 0..MaxAttempts /\ posts'[k] \in 0..MaxAttempts
      BY <1>1, <1>2 DEF TypeOK
    <2> QED
      BY <1>2, <1>3, <2>1, StaysTruthful
  <1>4. GoodRows(pass, posts', accepted')
    BY <1>1, <1>3 DEF GoodRows, TypeOK, TruthfulCopies, CopiesAreTried, InPass
  <1>5. ASSUME NEW k \in Logs
        PROVE  Truthful(k, posts'[k], accepted', log[k])
    BY <1>1, <1>3 DEF TypeOK, TruthfulCopies
  <1>6. ASSUME NEW k \in Logs, NEW h \in Handlers, sending[h] # Free, sending[h].log = k
        PROVE  Truthful(k, posts'[k], accepted', sending[h].seen)
    BY <1>1, <1>3, <1>6 DEF TypeOK, TruthfulCopies, Sending
  <1> QED
    BY <1>2, <1>4, <1>5, <1>6

\* A flush of good rows leaves good rows: of a row whose answer could not be read
\* it writes an attempt that was made.
LEMMA FlushAllIsGood ==
  ASSUME IInv, NEW rows, NEW count, NEW yes, GoodRows(rows, count, yes),
         \A k \in Logs : Truthful(k, count[k], yes, log[k])
  PROVE  /\ GoodRows(FlushAll(rows), count, yes)
         /\ \A k \in Logs : rows[k] = Skipped => FlushAll(rows)[k] = Skipped
  <1>1. TypeOK
    BY DEF IInv
  <1>2. ASSUME NEW k \in Logs, rows[k] # Skipped
        PROVE  /\ FlushAll(rows)[k] \in InPass
               /\ FlushAll(rows)[k].row.status \in Tried
               /\ Truthful(k, count[k], yes, FlushAll(rows)[k].row)
    <2>1. /\ rows[k] \in InPass /\ log[k] \in Row /\ log[k].status \in Tried
          /\ rows[k].row \in Row /\ rows[k].row.status \in Tried
          /\ Truthful(k, count[k], yes, rows[k].row) /\ Truthful(k, count[k], yes, log[k])
      BY <1>1, <1>2 DEF GoodRows, TypeOK, InPass
    <2>2. CASE rows[k].state # "unsaved"
      BY <1>2, <2>1, <2>2 DEF FlushAll
    <2>3. CASE rows[k].state = "unsaved"
      <3> DEFINE row == [log[k] EXCEPT !.attempts = rows[k].row.attempts]
      <3>1. FlushAll(rows)[k] = [state |-> "flushed", row |-> row]
        BY <1>2, <2>3 DEF FlushAll
      <3>2. /\ row \in Row /\ row.status = log[k].status
            /\ row.attempts = rows[k].row.attempts
        BY <2>1 DEF Row
      <3> HIDE DEF row
      <3>3. Truthful(k, count[k], yes, row)
        BY <2>1, <3>2 DEF Truthful
      <3> QED
        BY <2>1, <3>1, <3>2, <3>3 DEF InPass
    <2> QED
      BY <2>2, <2>3
  <1>3. ASSUME NEW k \in Logs, rows[k] = Skipped PROVE FlushAll(rows)[k] = Skipped
    BY <1>3 DEF FlushAll
  <1>4. FlushAll(rows) \in [Logs -> {Skipped} \cup InPass]
    <2>1. FlushAll(rows) = [k \in Logs |-> FlushAll(rows)[k]]
      BY DEF FlushAll
    <2> QED
      BY <1>2, <1>3, <2>1
  <1> QED
    BY <1>2, <1>3, <1>4 DEF GoodRows

\* The rows of the pass after an answer, read or not.
LEMMA AnsweredRows ==
  ASSUME IInv, NEW l \in Logs, NEW ok \in BOOLEAN, AwaitedByPass(l), Record(l, ok)
  PROVE  /\ GoodRows(AfterFlush(l, ok), posts', accepted')
         /\ GoodRows(AfterUnread(l), posts', accepted')
         /\ GoodRows(FlushAll(AfterUnread(l)), posts', accepted')
  <1> DEFINE row == Flushed(log[l], pass[l].row, ok)
             unread == [pass[l].row EXCEPT !.attempts = @ + 1]
  <1>1. TypeOK /\ TruthfulCopies /\ CopiesAreTried
    BY DEF IInv
  <1>2. /\ pass[l] # Skipped /\ pass[l].row \in Row /\ log[l] \in Row
        /\ log[l].status \in Tried /\ pass[l].row.status \in Tried
    BY <1>1 DEF AwaitedByPass, TypeOK, InPass, CopiesAreTried
  <1>3. /\ posts[l] \in 0..MaxAttempts /\ posts'[l] = OneMore(posts[l])
        /\ l \in accepted' <=> l \in accepted \/ ok
        /\ Truthful(l, posts[l], accepted, log[l])
        /\ Truthful(l, posts[l], accepted, pass[l].row)
    BY <1>1, <1>2, Recorded DEF TypeOK, TruthfulCopies
  <1>4. /\ row \in Row /\ row.status \in Tried
        /\ Truthful(l, posts'[l], accepted', row)
    <2>1. row \in Row /\ row.status \in Tried
      BY <1>2, FlushedIsTried
    <2>2. Truthful(l, OneMore(posts[l]), accepted', row)
      BY <1>2, <1>3, FlushedIsTruthful
    <2> QED
      BY <1>3, <2>1, <2>2
  <1>5. /\ unread \in Row /\ unread.status \in Tried
        /\ Truthful(l, posts'[l], accepted', unread)
    <2>1. /\ unread \in Row /\ unread.status = pass[l].row.status
          /\ unread.attempts = pass[l].row.attempts + 1 /\ pass[l].row.attempts \in Nat
      BY <1>2 DEF Row
    <2> QED
      BY <1>2, <1>3, <2>1, MaxAttemptsAssumption DEF Truthful, OneMore
  <1>6. AfterFlush(l, ok) = FlushAll([pass EXCEPT ![l] = [state |-> "flushed", row |-> row]])
    BY DEF AfterFlush
  <1>7. AfterUnread(l) = [pass EXCEPT ![l] = [state |-> "unsaved", row |-> unread]]
    BY DEF AfterUnread
  <1> HIDE DEF row, unread
  <1>8. /\ GoodRows(pass, posts', accepted')
        /\ \A k \in Logs : Truthful(k, posts'[k], accepted', log[k])
    BY AnsweredInPass
  <1>9. ASSUME NEW new \in Row, new.status \in Tried, Truthful(l, posts'[l], accepted', new),
               NEW state \in {"unsaved", "flushed"}
        PROVE  GoodRows([pass EXCEPT ![l] = [state |-> state, row |-> new]], posts', accepted')
    BY <1>2, <1>8, <1>9 DEF GoodRows, InPass
  <1>10. /\ GoodRows(AfterUnread(l), posts', accepted')
         /\ GoodRows([pass EXCEPT ![l] = [state |-> "flushed", row |-> row]], posts', accepted')
    BY <1>4, <1>5, <1>7, <1>9
  <1> QED
    BY <1>6, <1>8, <1>10, FlushAllIsGood

\* The pass goes on to its next log.
LEMMA PassGoesOnInv ==
  ASSUME IInv, NEW l \in Logs, NEW ok \in BOOLEAN, FlushInPass(l, ok) \/ SkipInPass(l, ok)
  PROVE  IInv'
  <1>1. TypeOK /\ TruthfulCopies /\ CopiesAreTried
    BY DEF IInv
  <1>2. /\ AwaitedByPass(l) /\ Record(l, ok) /\ loop = Idle
        /\ pass' = AfterFlush(l, ok) \/ pass' = AfterUnread(l)
        /\ UNCHANGED <<log, sending, loop, retries, crashes>>
    BY DEF FlushInPass, SkipInPass
  <1>3. GoodRows(pass', posts', accepted')
    BY <1>2, AnsweredRows
  <1>4. TypeOK'
    BY <1>1, <1>2, <1>3, AnsweredInPass DEF TypeOK, GoodRows, Tried
  <1>5. TruthfulCopies'
    BY <1>2, <1>3, AnsweredInPass DEF TruthfulCopies, GoodRows
  <1>6. CopiesAreTried'
    BY <1>1, <1>2, <1>3 DEF CopiesAreTried, GoodRows
  <1> QED
    BY <1>4, <1>5, <1>6 DEF IInv

\* What a commit of good rows does to the table.
LEMMA CommittedRows ==
  ASSUME NEW rows, NEW count, NEW yes, GoodRows(rows, count, yes), Commit(rows),
         NEW k \in Logs
  PROVE  \/ rows[k] = Skipped /\ log'[k] = log[k]
         \/ /\ log'[k] \in Row /\ log[k].status \in Tried /\ log'[k].status \in Tried
            /\ Truthful(k, count[k], yes, log'[k])
  BY DEF Commit, GoodRows, InPass

\* The pass commits.
LEMMA PassCommitsInv ==
  ASSUME IInv, NEW l \in Logs, NEW ok \in BOOLEAN, CommitPass(l, ok) \/ CommitUnread(l, ok)
  PROVE  IInv'
  <1>1. TypeOK /\ TruthfulCopies /\ CopiesAreTried
    BY DEF IInv
  <1>2. /\ AwaitedByPass(l) /\ Record(l, ok) /\ loop = Idle
        /\ UNCHANGED <<sending, loop, retries, crashes>>
    BY DEF CommitPass, CommitUnread, LastAwaited
  <1>3. PICK rows : GoodRows(rows, posts', accepted') /\ Commit(rows)
    BY <1>2, AnsweredRows DEF CommitPass, CommitUnread
  <1>4. /\ pass' = [k \in Logs |-> Skipped]
        /\ log' = [k \in Logs |-> log'[k]]
    BY <1>3 DEF Commit
  <1>5. /\ posts' \in [Logs -> 0..MaxAttempts] /\ accepted' \subseteq Logs
        /\ \A k \in Logs :
             /\ Truthful(k, posts'[k], accepted', log[k])
             /\ \A h \in Handlers :
                  sending[h] # Free /\ sending[h].log = k
                    => Truthful(k, posts'[k], accepted', sending[h].seen)
    BY <1>2, AnsweredInPass
  <1>6. \A k \in Logs :
          /\ log'[k] \in Row
          /\ log'[k] = log[k] \/ log'[k].status \in Tried
          /\ Truthful(k, posts'[k], accepted', log'[k])
    BY <1>1, <1>3, <1>5, CommittedRows DEF TypeOK
  <1>7. log' \in [Logs -> Row]
    BY <1>4, <1>6
  <1>8. TypeOK'
    BY <1>1, <1>2, <1>4, <1>5, <1>6, <1>7 DEF TypeOK, Tried
  <1>9. TruthfulCopies'
    BY <1>2, <1>4, <1>5, <1>6 DEF TruthfulCopies
  <1>10. CopiesAreTried'
    <2>1. \A h \in Handlers : sending[h] # Free => sending[h].log \in Logs
      BY <1>1, SubscribedAssumption DEF TypeOK, Sending
    <2> QED
      BY <1>1, <1>2, <1>4, <1>6, <2>1 DEF CopiesAreTried, Tried
  <1> QED
    BY <1>8, <1>9, <1>10 DEF IInv

LEMMA StepInv == IInv /\ [Next]_vars => IInv'
  <1> SUFFICES ASSUME IInv, [Next]_vars PROVE IInv'
    OBVIOUS
  <1>1. CASE UNCHANGED vars
    BY <1>1 DEF vars, IInv, TypeOK, Locked, TruthfulCopies, CopiesAreTried
  <1>2. CASE Next
    BY <1>2, CreateLogInv, BeginRetryInv, FinishInv, QuietStepsInv, PassGoesOnInv,
       PassCommitsInv DEF Next
  <1> QED
    BY <1>1, <1>2
-----------------------------------------------------------------------------
\* The inductive invariant holds whatever overlaps, is refused or crashes.
THEOREM Invariance == Spec => []IInv
  BY InitInv, StepInv, PTL DEF Spec

\* Rows keep their shape and a blocked loop waits for a row of the open pass.
THEOREM WebhookTypeCorrect == Spec => []TypeOK
  BY Invariance, PTL DEF IInv

\* No event is given up before MAX_WEBHOOK_ATTEMPTS answers
\* (_schedule_retry_or_fail), although writers overwrite each other's count.
THEOREM NoEarlyFailure == Spec => []NotGivenUpEarly
  <1>1. IInv => NotGivenUpEarly
    BY DEF IInv, TruthfulCopies, Truthful, NotGivenUpEarly
  <1> QED
    BY <1>1, Invariance, PTL

\* A log shown as delivered was accepted by its merchant (send_webhook).
THEOREM DeliveryIsReal == Spec => []DeliveredWasAccepted
  <1>1. IInv => DeliveredWasAccepted
    BY DEF IInv, TruthfulCopies, Truthful, DeliveredWasAccepted
  <1> QED
    BY <1>1, Invariance, PTL

\* An answer to a copy that is out of attempts.
LEMMA FlushedOutOfAttempts ==
  ASSUME NEW row \in Row, NEW seen \in Row, NEW ok \in BOOLEAN,
         row.status \in {"delivered", "failed"}, seen.attempts >= MaxAttempts
  PROVE  /\ Flushed(row, seen, ok).attempts >= MaxAttempts
         /\ Flushed(row, seen, ok).status \in {"delivered", "failed"}
  <1>1. seen.attempts \in Nat /\ MaxAttempts \in Nat
    BY MaxAttemptsAssumption DEF Row
  <1>2. Exhausted(seen.attempts + 1)
    BY <1>1 DEF Exhausted
  <1>3. /\ AfterAnswer(seen, ok).status \in {"delivered", "failed"}
        /\ AfterAnswer(seen, ok).attempts = seen.attempts + 1
    BY <1>2 DEF AfterAnswer
  <1> QED
    BY <1>1, <1>3 DEF Flushed

LEMMA OutOfAttemptsStep ==
  ASSUME IInv, [Next]_vars, NEW l \in Logs, OutOfAttempts(l)
  PROVE  OutOfAttempts(l)'
  <1>1. TypeOK
    BY DEF IInv
  <1>2. /\ pass[l] = Skipped /\ log[l].attempts >= MaxAttempts
        /\ log[l].status \in {"delivered", "failed"}
        /\ \A h \in Handlers :
             sending[h] # Free /\ sending[h].log = l =>
               /\ sending[h].seen.attempts >= MaxAttempts
               /\ sending[h].seen.status \in {"delivered", "failed"}
    BY DEF OutOfAttempts
  <1> DEFINE Kept(row) == /\ row.attempts >= MaxAttempts
                          /\ row.status \in {"delivered", "failed"}
             Stays == /\ pass'[l] = Skipped /\ Kept(log'[l])
                      /\ \A g \in Handlers : sending'[g] # Free /\ sending'[g].log = l =>
                           Kept(sending'[g].seen)
  <1>3. SUFFICES Stays
    BY DEF OutOfAttempts
  <1>4. CASE UNCHANGED vars
    BY <1>2, <1>4 DEF vars
  <1>5. ASSUME NEW h \in Handlers, NEW k \in Logs, CreateLog(h, k)
        PROVE  Stays
    <2>1. k # l /\ log'[l] = log[l] /\ pass' = pass
      BY <1>1, <1>2, <1>5 DEF CreateLog, TypeOK, Absent
    <2>2. \A g \in Handlers : sending'[g] = sending[g] \/ sending'[g].log = k
      BY <1>1, <1>5 DEF CreateLog, TypeOK
    <2> QED
      BY <1>2, <2>1, <2>2
  <1>6. ASSUME NEW h \in Handlers, NEW k \in Logs, BeginRetry(h, k)
        PROVE  Stays
    <2>1. /\ log' = log /\ pass' = pass
          /\ \A g \in Handlers :
               \/ sending'[g] = sending[g]
               \/ sending'[g].log = k /\ sending'[g].seen = log[k]
      BY <1>1, <1>6 DEF BeginRetry, TypeOK
    <2> QED
      BY <1>2, <2>1
  <1>7. ASSUME NEW h \in Handlers, NEW ok \in BOOLEAN, Finish(h, ok)
        PROVE  Stays
    <2>1. /\ sending[h] # Free /\ sending[h] \in Sending /\ log[l] \in Row /\ pass' = pass
          /\ log' = [log EXCEPT ![sending[h].log] =
                       Flushed(log[sending[h].log], sending[h].seen, ok)]
          /\ \A g \in Handlers : sending'[g] # Free => sending'[g] = sending[g]
      BY <1>1, <1>7 DEF Finish, TypeOK
    <2>2. Kept(log'[l])
      <3>1. CASE sending[h].log = l
        <4>1. sending[h].seen \in Row /\ sending[h].seen.attempts >= MaxAttempts
          BY <1>2, <2>1, <3>1 DEF Sending
        <4>2. log'[l] = Flushed(log[l], sending[h].seen, ok)
          BY <1>1, <2>1, <3>1 DEF TypeOK
        <4> QED
          BY <1>2, <2>1, <4>1, <4>2, FlushedOutOfAttempts
      <3>2. CASE sending[h].log # l
        BY <1>1, <1>2, <2>1, <3>2 DEF TypeOK
      <3> QED
        BY <3>1, <3>2
    <2> QED
      BY <1>2, <2>1, <2>2
  <1>8. ASSUME NEW h \in Handlers, Block(h) \/ Abandon(h)
        PROVE  Stays
    <2>1. /\ log' = log /\ pass' = pass
          /\ \A g \in Handlers : sending'[g] # Free => sending'[g] = sending[g]
      BY <1>1, <1>8 DEF Block, Abandon, TypeOK
    <2> QED
      BY <1>2, <2>1
  <1>9. ASSUME NEW k \in Logs, Elapse(k)
        PROVE  Stays
    <2>1. /\ log'[l].attempts = log[l].attempts /\ log'[l].status = log[l].status
          /\ pass' = pass /\ sending' = sending
      BY <1>1, <1>9 DEF Elapse, TypeOK, Row
    <2> QED
      BY <1>2, <2>1
  <1>10. ASSUME NEW k \in Logs, NEW ok \in BOOLEAN,
                \/ FlushInPass(k, ok) \/ SkipInPass(k, ok)
                \/ CommitPass(k, ok) \/ CommitUnread(k, ok)
         PROVE  Stays
    <2>1. k # l
      BY <1>2, <1>10 DEF FlushInPass, SkipInPass, CommitPass, CommitUnread, LastAwaited,
         AwaitedByPass
    <2>2. /\ AfterFlush(k, ok)[l] = Skipped /\ AfterUnread(k)[l] = Skipped
          /\ FlushAll(AfterUnread(k))[l] = Skipped
      BY <1>1, <1>2, <2>1 DEF AfterFlush, AfterUnread, FlushAll, TypeOK
    <2>3. pass'[l] = Skipped /\ log'[l] = log[l] /\ sending' = sending
      BY <1>10, <2>2 DEF FlushInPass, SkipInPass, CommitPass, CommitUnread, Commit
    <2> QED
      BY <1>2, <2>3
  <1>11. CASE BeginPass
    BY <1>2, <1>11 DEF BeginPass, IsDue
  <1>12. CASE Crash
    BY <1>2, <1>12 DEF Crash
  <1>13. ASSUME NEW k \in Logs, LosePass(k)
         PROVE  Stays
    BY <1>2, <1>13 DEF LosePass
  <1> QED
    BY <1>4, <1>5, <1>6, <1>7, <1>8, <1>9, <1>10, <1>11, <1>12, <1>13 DEF Next

\* "Abandoned after a maximum attempt count" (README): once a log and every copy
\* of it under way are out of attempts, no manual retry, pass or crash schedules
\* it again.
THEOREM AbandonedStay == Spec => AbandonedForGood
  <1>1. IInv /\ [Next]_vars =>
          [\A l \in Logs : OutOfAttempts(l) => OutOfAttempts(l)']_vars
    BY OutOfAttemptsStep
  <1> QED
    BY <1>1, Invariance, PTL DEF Spec, AbandonedForGood
-----------------------------------------------------------------------------
\* The verdicts that a step shows are justified by the answers up to then: the
\* copies it wrote are truthful.
LEMMA VerdictsJustified ==
  ASSUME IInv', NEW k \in Logs, log'[k].status \in Tried
  PROVE  Delivery!Justified(k, log'[k].status, posts'[k], accepted')
  BY DEF IInv, TruthfulCopies, Truthful, Delivery!Justified, Delivery!Verdicts, Tried

\* An answer for l whose step leaves every log as it was or shows a verdict.
LEMMA AnswerImplemented ==
  ASSUME IInv, IInv', NEW l \in Logs, NEW ok \in BOOLEAN, Record(l, ok),
         log[l].status # "absent",
         \A k \in Logs : \/ log'[k].status = log[k].status
                         \/ log[k].status # "absent" /\ log'[k].status \in Tried
  PROVE  Delivery!Answer(l, ok)
  <1>1. TypeOK /\ TypeOK'
    BY DEF IInv
  <1>2. [k \in Logs |-> log[k].status]' \in [Logs -> {"absent", "pending"} \cup Delivery!Verdicts]
    BY <1>1 DEF TypeOK, Row, Delivery!Verdicts
  <1>3. ASSUME NEW k \in Logs
        PROVE  \/ log'[k].status = log[k].status
               \/ /\ log[k].status # "absent"
                  /\ Delivery!Justified(k, log'[k].status, posts'[k], accepted')
    BY VerdictsJustified
  <1> QED
    BY <1>2, <1>3 DEF Delivery!Answer, Record

LEMMA DeliveryStep ==
  ASSUME IInv, IInv', [Next]_vars
  PROVE  [Delivery!Next]_(Delivery!vars)
  <1>1. TypeOK /\ TypeOK'
    BY DEF IInv
  <1>2. CASE UNCHANGED <<posts, accepted>> /\ \A k \in Logs : log'[k].status = log[k].status
    BY <1>2 DEF Delivery!vars
  <1>3. ASSUME NEW h \in Handlers, NEW l \in Logs, CreateLog(h, l)
        PROVE  Delivery!Next
    <2>1. [k \in Logs |-> log[k].status]'
            = [[k \in Logs |-> log[k].status] EXCEPT ![l] = "pending"]
      BY <1>1, <1>3 DEF CreateLog, NewLog, TypeOK
    <2>2. log[l].status = "absent" /\ UNCHANGED <<posts, accepted>>
      BY <1>3 DEF CreateLog, Absent
    <2>3. Delivery!Announce(l)
      BY <2>1, <2>2 DEF Delivery!Announce
    <2> QED
      BY <2>3 DEF Delivery!Next
  <1>4. ASSUME NEW h \in Handlers, NEW ok \in BOOLEAN, Finish(h, ok)
        PROVE  Delivery!Next
    <2> DEFINE l == sending[h].log
               seen == sending[h].seen
    <2>1. /\ sending[h] # Free /\ sending[h] \in Sending
          /\ Record(l, ok) /\ log' = [log EXCEPT ![l] = Flushed(log[l], seen, ok)]
      BY <1>1, <1>4 DEF Finish, TypeOK
    <2>2. l \in Logs /\ seen \in Row /\ log[l] \in Row
      BY <1>1, <2>1, SubscribedAssumption DEF Sending, TypeOK
    <2>3. log[l].status # "absent" /\ (log[l].status \in Tried \/ seen.status \notin Tried)
      BY <2>1, <2>2 DEF IInv, CopiesAreTried, Tried, Row
    <2>4. Flushed(log[l], seen, ok).status \in Tried
      BY <2>2, <2>3, FlushedIsTried
    <2>5. \A k \in Logs : log'[k] = log[k] \/ (k = l /\ log'[k].status \in Tried)
      BY <1>1, <2>1, <2>4 DEF TypeOK
    <2>6. Delivery!Answer(l, ok)
      BY <2>1, <2>2, <2>3, <2>5, AnswerImplemented
    <2> QED
      BY <2>2, <2>6 DEF Delivery!Next
  <1>5. ASSUME NEW l \in Logs, NEW ok \in BOOLEAN, FlushInPass(l, ok) \/ SkipInPass(l, ok)
        PROVE  Delivery!Next
    <2>1. /\ Record(l, ok) /\ log' = log /\ pass[l] # Skipped
      BY <1>5 DEF FlushInPass, SkipInPass, AwaitedByPass
    <2>2. log[l].status # "absent"
      BY <1>1, <2>1 DEF TypeOK
    <2>3. Delivery!Answer(l, ok)
      BY <2>1, <2>2, AnswerImplemented
    <2> QED
      BY <2>3 DEF Delivery!Next
  <1>6. ASSUME NEW l \in Logs, NEW ok \in BOOLEAN, CommitPass(l, ok) \/ CommitUnread(l, ok)
        PROVE  Delivery!Next
    <2>1. Record(l, ok) /\ AwaitedByPass(l)
      BY <1>6 DEF CommitPass, CommitUnread, LastAwaited
    <2>2. log[l].status # "absent"
      BY <1>1, <2>1 DEF TypeOK, AwaitedByPass
    <2>3. PICK rows : GoodRows(rows, posts', accepted') /\ Commit(rows)
      BY <1>6, <2>1, AnsweredRows DEF CommitPass, CommitUnread
    <2>4. ASSUME NEW k \in Logs
          PROVE  \/ log'[k].status = log[k].status
                 \/ log[k].status # "absent" /\ log'[k].status \in Tried
      BY <2>3, CommittedRows DEF Tried
    <2>5. Delivery!Answer(l, ok)
      BY <2>1, <2>2, <2>4, AnswerImplemented
    <2> QED
      BY <2>5 DEF Delivery!Next
  <1>7. ASSUME NEW l \in Logs, Elapse(l)
        PROVE  UNCHANGED <<posts, accepted>> /\ \A k \in Logs : log'[k].status = log[k].status
    BY <1>1, <1>7 DEF Elapse, TypeOK, Row
  <1>8. ASSUME \/ \E h \in Handlers : \/ \E l \in Logs : BeginRetry(h, l)
                                      \/ Block(h) \/ Abandon(h)
               \/ \E l \in Logs : LosePass(l)
               \/ BeginPass \/ Crash \/ UNCHANGED vars
        PROVE  UNCHANGED <<posts, accepted>> /\ \A k \in Logs : log'[k].status = log[k].status
    BY <1>8 DEF BeginRetry, Block, Abandon, LosePass, BeginPass, Crash, vars
  <1> QED
    BY <1>2, <1>3, <1>4, <1>5, <1>6, <1>7, <1>8 DEF Next

\* Webhook delivery, with its writers that overwrite each other, its passes and
\* its crashes, implements the contract of an event.
THEOREM DeliveryImplemented == Spec => ImplementsDelivery
  <1>1. Init => Delivery!Init
    BY DEF Init, Absent, Delivery!Init
  <1>2. IInv /\ IInv' /\ [Next]_vars => [Delivery!Next]_(Delivery!vars)
    BY DeliveryStep
  <1> QED
    BY <1>1, <1>2, Invariance, PTL DEF Spec, ImplementsDelivery, Delivery!Spec
=============================================================================
