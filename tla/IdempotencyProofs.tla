------------------------- MODULE IdempotencyProofs --------------------------
(***************************************************************************)
(* Proofs about Idempotency: for any number of clients, keys, bodies and   *)
(* concurrent retries, and any crashes, a key stands for one merchant and  *)
(* one body, and every 201 answer shows a payment that was asked for with  *)
(* exactly this merchant, key and body.                                    *)
(***************************************************************************)
EXTENDS Idempotency, TLAPS

\* The inductive invariant.  That a key stands for one request follows from the
\* record every payment has; that a request may rely on its record until it
\* commits, from the reservation it holds or the committed row it found.
IInv == TypeOK /\ RequestsOwnTheirKey /\ RecordsMatchPayments /\ AnswersAreReal

USE NoPaymentAssumption, IdleAssumption, MaxCrashesAssumption

\* What the conjuncts of IInv say of one request, payment, key and answer.
Owns(r) ==
  Active(r) /\ attempt[r].phase # "inserting" =>
    LET a == attempt[r]  row == record[KeyOf(r)]
    IN  /\ a.inserted =>
             /\ row = NoRecord
             /\ a.phase \notin {"created", "saved"}
             /\ \A q \in Requests : Active(q) /\ attempt[q].inserted /\ KeyOf(q) = KeyOf(r)
                                     => q = r
        /\ ~a.inserted =>
             row # NoRecord /\ row.merchant = a.asked.merchant /\ row.body = a.asked.body
        /\ a.phase \in {"created", "saved"} =>
             a.payment \in Payments /\ payments[a.payment] = a.asked

Recorded(p) ==
  payments[p] # NotCreated =>
    LET row == record[payments[p].key]
    IN  /\ row # NoRecord
        /\ row.merchant = payments[p].merchant /\ row.body = payments[p].body

Truthful(k) ==
  record[k] # NoRecord /\ record[k].response # NoPayment =>
    payments[record[k].response] =
      [merchant |-> record[k].merchant, key |-> k, body |-> record[k].body]

LEMMA Split ==
  /\ IInv <=> /\ TypeOK
              /\ \A r \in Requests : Owns(r)
              /\ \A p \in Payments : Recorded(p)
              /\ \A k \in Keys : Truthful(k)
              /\ AnswersAreReal
  /\ IInv' <=> /\ TypeOK'
               /\ \A r \in Requests : Owns(r)'
               /\ \A p \in Payments : Recorded(p)'
               /\ \A k \in Keys : Truthful(k)'
               /\ AnswersAreReal'
  BY DEF IInv, RequestsOwnTheirKey, RecordsMatchPayments, Owns, Recorded, Truthful

\* The values that stand for a missing row are none of the rows.
LEMMA Distinct == Free \notin Attempt /\ NoRecord \notin Record /\ NotCreated \notin Asked
  <1>1. Free \notin Attempt
    BY DEF Free, Attempt
  <1>2. NoRecord \notin Record
    BY DEF NoRecord, Record
  <1>3. NotCreated \notin Asked
    BY DEF NotCreated, Asked
  <1> QED
    BY <1>1, <1>2, <1>3

LEMMA InitInv == Init => IInv
  BY DEF Init, IInv, TypeOK, RequestsOwnTheirKey, RecordsMatchPayments, AnswersAreReal,
     Active, InPhase
-----------------------------------------------------------------------------
\* Steps that commit nothing: a request enters, leaves, or changes its phase.
LEMMA SameRows ==
  ASSUME IInv, UNCHANGED <<payments, record>>, TypeOK',
         \A r \in Requests : Owns(r)', AnswersAreReal'
  PROVE  IInv'
  BY Split DEF Recorded, Truthful

\* A request that moves on from the check without taking a reservation.
LEMMA MoveOn ==
  ASSUME IInv, NEW r \in Requests, Active(r), attempt[r].phase # "inserting",
         NEW phase \in {"ready", "working", "created", "saved", "unwinding", "closing"},
         attempt[r].phase # "saved",
         phase = "saved" <=> attempt[r].phase = "created",
         phase # "created",
         Enter(r, phase)
  PROVE  /\ attempt' \in [Requests -> {Free} \cup Attempt]
         /\ \A q \in Requests : InPhase(q, "inserting")' <=> InPhase(q, "inserting")
         /\ UNCHANGED <<payments, record>> => \A q \in Requests : Owns(q)'
  <1>1. TypeOK /\ attempt[r] \in Attempt /\ Owns(r)
    BY Split DEF TypeOK, Active
  <1>2. attempt' = [attempt EXCEPT ![r] = [attempt[r] EXCEPT !.phase = phase]]
    BY DEF Enter
  <1>3. [attempt[r] EXCEPT !.phase = phase] \in Attempt
    BY <1>1 DEF Attempt
  <1>4. attempt' \in [Requests -> {Free} \cup Attempt]
    BY <1>1, <1>2, <1>3 DEF TypeOK
  <1>5. /\ attempt'[r].phase = phase
        /\ attempt'[r].asked = attempt[r].asked
        /\ attempt'[r].payment = attempt[r].payment
        /\ attempt'[r].inserted = attempt[r].inserted
        /\ attempt'[r] # Free
        /\ \A q \in Requests \ {r} : attempt'[q] = attempt[q]
    BY <1>1, <1>2, <1>3, Distinct DEF TypeOK, Attempt
  <1>6. \A q \in Requests : InPhase(q, "inserting")' <=> InPhase(q, "inserting")
    BY <1>5 DEF InPhase, Active
  <1>7. ASSUME UNCHANGED <<payments, record>>, NEW q \in Requests
        PROVE  Owns(q)'
    <2>1. Owns(q)
      BY Split
    <2>2. \A s \in Requests : /\ Active(s)' <=> Active(s)
                              /\ Active(s) => /\ attempt'[s].inserted = attempt[s].inserted
                                              /\ KeyOf(s)' = KeyOf(s)
      BY <1>5 DEF Active, KeyOf
    <2>3. CASE q # r
      BY <1>5, <1>7, <2>1, <2>2, <2>3 DEF Owns
    <2>4. CASE q = r
      BY <1>5, <1>7, <2>1, <2>2, <2>4 DEF Owns
    <2> QED
      BY <2>3, <2>4
  <1> QED
    BY <1>4, <1>6, <1>7

\* A request that ends gives up what it held and bothers nobody else.
LEMMA EndOfAttempt ==
  ASSUME IInv, NEW r \in Requests, Leave(r), UNCHANGED <<payments, record>>
  PROVE  /\ attempt' \in [Requests -> {Free} \cup Attempt]
         /\ \A q \in Requests : InPhase(q, "inserting")' <=> q # r /\ InPhase(q, "inserting")
         /\ \A q \in Requests : Owns(q)'
  <1>1. /\ attempt' = [attempt EXCEPT ![r] = Free]
        /\ attempt \in [Requests -> {Free} \cup Attempt]
    BY DEF Leave, IInv, TypeOK
  <1>2. ASSUME NEW q \in Requests PROVE Owns(q)'
    <2>1. Owns(q)
      BY Split
    <2>2. \A s \in Requests : Active(s)' => Active(s) /\ attempt'[s] = attempt[s]
      BY <1>1 DEF Active
    <2> QED
      BY <2>1, <2>2 DEF Owns, KeyOf
  <1> QED
    BY <1>1, <1>2 DEF InPhase, Active
-----------------------------------------------------------------------------
LEMMA ReplayInv ==
  ASSUME IInv, NEW asked \in Asked, Replay(asked)
  PROVE  IInv'
  <1> DEFINE row == record[asked.key]
  <1>1. /\ TypeOK /\ AnswersAreReal
        /\ UNCHANGED <<payments, record, attempt, loop, crashes>>
        /\ asked.key \in Keys
        /\ row \in Record /\ row # NoRecord
        /\ row.merchant = asked.merchant /\ row.body = asked.body
        /\ row.response \in Payments
    BY DEF Replay, Found, SameBody, Completed, IInv, TypeOK, Asked, Record
  <1>2. answers' = answers \cup {[asked |-> asked, payment |-> row.response]}
    BY DEF Replay
  <1>3. payments[row.response] = asked
    <2>1. Truthful(asked.key)
      BY <1>1, Split
    <2> QED
      BY <1>1, <2>1 DEF Truthful, Asked
  <1>4. TypeOK'
    BY <1>1, <1>2 DEF TypeOK, InPhase, Active
  <1>5. AnswersAreReal'
    BY <1>1, <1>2, <1>3 DEF AnswersAreReal
  <1>6. \A r \in Requests : Owns(r)'
    BY <1>1, Split DEF Owns, Active, KeyOf
  <1> QED
    BY <1>1, <1>4, <1>5, <1>6, SameRows

LEMMA ResumeInv ==
  ASSUME IInv, NEW r \in Requests, NEW asked \in Asked,
         Resume(r, asked) \/ BeginInsert(r, asked)
  PROVE  IInv'
  <1>1. PICK phase \in {"ready", "inserting"} :
          /\ loop = Idle /\ attempt[r] = Free
          /\ attempt' = [attempt EXCEPT ![r] = Start(asked, phase)]
          /\ phase = "inserting" => loop' = r
          /\ phase = "ready" => loop' = loop /\ Found(asked) /\ SameBody(asked)
          /\ UNCHANGED <<payments, record, answers, crashes>>
    BY DEF Resume, BeginInsert, Active
  <1>2. TypeOK /\ Start(asked, phase) \in Attempt
    BY DEF IInv, Start, Attempt
  <1>3. /\ attempt'[r] = Start(asked, phase)
        /\ attempt'[r] # Free
        /\ attempt'[r].phase = phase /\ attempt'[r].inserted = FALSE
        /\ attempt'[r].asked = asked
        /\ \A q \in Requests \ {r} : attempt'[q] = attempt[q]
    BY <1>1, <1>2, Distinct DEF TypeOK, Start
  <1>4. TypeOK'
    <2>1. attempt' \in [Requests -> {Free} \cup Attempt]
      BY <1>1, <1>2 DEF TypeOK
    <2>2. \A q \in Requests : InPhase(q, "inserting")' <=> q = r /\ phase = "inserting"
      BY <1>1, <1>2, <1>3 DEF TypeOK, InPhase, Active
    <2> QED
      BY <1>1, <1>2, <2>1, <2>2 DEF TypeOK
  <1>5. ASSUME NEW q \in Requests PROVE Owns(q)'
    <2>1. Owns(q)
      BY Split
    <2>2. \A s \in Requests : Active(s)' /\ attempt'[s].inserted =>
            Active(s) /\ attempt[s].inserted /\ KeyOf(s)' = KeyOf(s) /\ s # r
      BY <1>3 DEF Active, KeyOf
    <2>3. CASE q # r
      BY <1>1, <1>3, <2>1, <2>2, <2>3 DEF Owns, Active, KeyOf
    <2>4. CASE q = r /\ phase = "ready"
      BY <1>1, <1>3, <2>4 DEF Owns, KeyOf, Found, SameBody
    <2>5. CASE q = r /\ phase = "inserting"
      BY <1>3, <2>5 DEF Owns
    <2> QED
      BY <2>3, <2>4, <2>5
  <1>6. AnswersAreReal'
    BY <1>1 DEF IInv, AnswersAreReal
  <1> QED
    BY <1>1, <1>4, <1>5, <1>6, SameRows

LEMMA ReserveInv ==
  ASSUME IInv, NEW r \in Requests, Reserve(r)
  PROVE  IInv'
  <1>1. /\ TypeOK
        /\ loop = r /\ loop' = Idle
        /\ KeyIsFree(r)
        /\ record[KeyOf(r)] = NoRecord
        /\ attempt' = [attempt EXCEPT ![r].phase = "ready", ![r].inserted = TRUE]
        /\ UNCHANGED <<payments, record, answers, crashes>>
    BY DEF Reserve, IInv
  <1>2. attempt[r] \in Attempt /\ Active(r)
    BY <1>1, Distinct DEF TypeOK, InPhase, Active
  <1>3. [attempt[r] EXCEPT !.phase = "ready", !.inserted = TRUE] \in Attempt
    BY <1>2 DEF Attempt
  <1>4. /\ attempt'[r] # Free
        /\ attempt'[r].phase = "ready" /\ attempt'[r].inserted = TRUE
        /\ attempt'[r].asked = attempt[r].asked
        /\ \A q \in Requests \ {r} : attempt'[q] = attempt[q]
    BY <1>1, <1>2, <1>3, Distinct DEF TypeOK, Attempt
  <1>5. TypeOK'
    <2>1. attempt' \in [Requests -> {Free} \cup Attempt]
      BY <1>1, <1>3 DEF TypeOK
    <2>2. \A q \in Requests : ~InPhase(q, "inserting")'
      BY <1>1, <1>4 DEF TypeOK, InPhase, Active
    <2> QED
      BY <1>1, <2>1, <2>2 DEF TypeOK
  <1>6. KeyOf(r)' = KeyOf(r) /\ \A q \in Requests \ {r} : KeyOf(q)' = KeyOf(q)
    BY <1>4 DEF KeyOf
  <1>7. \A q \in Requests \ {r} : Active(q) /\ attempt[q].inserted => KeyOf(q) # KeyOf(r)
    BY <1>1 DEF KeyIsFree
  <1>8. ASSUME NEW q \in Requests PROVE Owns(q)'
    <2>1. Owns(q)
      BY Split
    <2>2. CASE q = r
      BY <1>1, <1>4, <1>6, <1>7, <2>2 DEF Owns, Active
    <2>3. CASE q # r
      <3>1. \A t \in Requests : Active(t)' /\ attempt'[t].inserted /\ KeyOf(t)' = KeyOf(q)' =>
              \/ t = r
              \/ Active(t) /\ attempt[t].inserted /\ KeyOf(t) = KeyOf(q)
        BY <1>4, <1>6, <2>3 DEF Active
      <3>2. Active(q) /\ attempt[q].inserted => KeyOf(q) # KeyOf(r)
        BY <1>7, <2>3
      <3>3. attempt'[q] = attempt[q] /\ record' = record /\ payments' = payments
        BY <1>1, <1>4, <2>3
      <3>4. KeyOf(q)' = KeyOf(q) /\ KeyOf(r)' = KeyOf(r)
        BY <1>6, <2>3
      <3> QED
        BY <2>1, <2>3, <3>1, <3>2, <3>3, <3>4 DEF Owns, Active
    <2> QED
      BY <2>2, <2>3
  <1>9. AnswersAreReal'
    BY <1>1 DEF IInv, AnswersAreReal
  <1> QED
    BY <1>1, <1>5, <1>8, <1>9, SameRows

LEMMA MoveInv ==
  ASSUME IInv, NEW r \in Requests, Dispatch(r) \/ Throttle(r) \/ SubmitClose(r)
  PROVE  IInv'
  <1>1. PICK phase \in {"working", "unwinding", "closing"} :
          /\ Active(r) /\ attempt[r].phase \in {"ready", "working", "unwinding"}
          /\ Enter(r, phase)
          /\ UNCHANGED <<payments, record, loop, answers, crashes>>
    BY DEF Dispatch, Throttle, SubmitClose, InPhase
  <1>2. /\ attempt' \in [Requests -> {Free} \cup Attempt]
        /\ \A q \in Requests : InPhase(q, "inserting")' <=> InPhase(q, "inserting")
        /\ \A q \in Requests : Owns(q)'
    BY <1>1, MoveOn
  <1>3. TypeOK' /\ AnswersAreReal'
    BY <1>1, <1>2 DEF IInv, TypeOK, AnswersAreReal
  <1> QED
    BY <1>1, <1>2, <1>3, SameRows

LEMMA LeaveInv ==
  ASSUME IInv, NEW r \in Requests, Conflict(r) \/ Rollback(r) \/ Answer(r)
  PROVE  IInv'
  <1>1. Leave(r) /\ UNCHANGED <<payments, record, crashes>>
    BY DEF Conflict, Rollback, Answer
  <1>2. /\ attempt' \in [Requests -> {Free} \cup Attempt]
        /\ \A q \in Requests : InPhase(q, "inserting")' <=> q # r /\ InPhase(q, "inserting")
        /\ \A q \in Requests : Owns(q)'
    BY <1>1, EndOfAttempt
  <1>3. \A q \in Requests : loop' = q <=> InPhase(q, "inserting")'
    <2>1. \A q \in Requests : loop = q <=> InPhase(q, "inserting")
      BY DEF IInv, TypeOK
    <2>2. CASE Conflict(r)
      BY <1>2, <2>1, <2>2 DEF Conflict
    <2>3. CASE Rollback(r) \/ Answer(r)
      <3>1. loop' = loop /\ ~InPhase(r, "inserting")
        BY <2>3 DEF Rollback, Answer, InPhase
      <3> QED
        BY <1>2, <2>1, <3>1
    <2> QED
      BY <2>2, <2>3
  <1>4. answers' \subseteq [asked : Asked, payment : Payments] /\ AnswersAreReal'
    <2>1. CASE answers' = answers
      BY <1>1, <2>1 DEF IInv, TypeOK, AnswersAreReal
    <2>2. CASE Answer(r)
      <3>1. attempt[r] \in Attempt /\ attempt[r].asked \in Asked /\ Owns(r)
        BY <2>2, Split DEF Answer, InPhase, Active, TypeOK, Attempt
      <3>2. attempt[r].payment \in Payments /\ payments[attempt[r].payment] = attempt[r].asked
        BY <2>2, <3>1 DEF Answer, InPhase, Owns
      <3> QED
        BY <1>1, <2>2, <3>1, <3>2 DEF Answer, IInv, TypeOK, AnswersAreReal
    <2> QED
      BY <2>1, <2>2 DEF Conflict, Rollback
  <1>5. TypeOK'
    BY <1>1, <1>2, <1>3, <1>4 DEF IInv, TypeOK
  <1> QED
    BY <1>1, <1>2, <1>4, <1>5, SameRows

LEMMA CommitPaymentInv ==
  ASSUME IInv, NEW r \in Requests, NEW p \in Payments, CommitPayment(r, p)
  PROVE  IInv'
  <1>0. PICK a \in Attempt : a = attempt[r]
    BY DEF CommitPayment, InPhase, Active, IInv, TypeOK
  <1> DEFINE asked == a.asked
             key == asked.key
             row == [merchant |-> asked.merchant, body |-> asked.body, response |-> NoPayment]
  <1>1. /\ TypeOK /\ AnswersAreReal
        /\ Active(r) /\ a.phase = "working" /\ Owns(r)
        /\ payments[p] = NotCreated
        /\ payments' = [payments EXCEPT ![p] = asked]
        /\ record' = IF a.inserted THEN [record EXCEPT ![key] = row] ELSE record
        /\ attempt' = [attempt EXCEPT ![r].phase = "created", ![r].payment = p,
                                      ![r].inserted = FALSE]
        /\ UNCHANGED <<loop, answers, crashes>>
    BY <1>0, Split DEF CommitPayment, InPhase
  <1>2. asked \in Asked /\ key \in Keys /\ a.inserted \in BOOLEAN /\ row \in Record
    BY DEF Attempt, Asked, Record
  <1>3. [attempt[r] EXCEPT !.phase = "created", !.payment = p, !.inserted = FALSE] \in Attempt
    BY <1>0 DEF Attempt
  <1>4. /\ attempt'[r] # Free
        /\ attempt'[r].phase = "created" /\ attempt'[r].inserted = FALSE
        /\ attempt'[r].payment = p /\ attempt'[r].asked = asked
        /\ \A q \in Requests \ {r} : attempt'[q] = attempt[q]
    BY <1>0, <1>1, <1>3, Distinct DEF TypeOK, Attempt
  <1>5. TypeOK'
    <2>1. attempt' \in [Requests -> {Free} \cup Attempt]
      BY <1>1, <1>3 DEF TypeOK
    <2>2. payments' \in [Payments -> {NotCreated} \cup Asked]
      BY <1>1, <1>2 DEF TypeOK
    <2>3. record' \in [Keys -> {NoRecord} \cup Record]
      BY <1>1, <1>2 DEF TypeOK
    <2>4. \A q \in Requests : InPhase(q, "inserting")' <=> InPhase(q, "inserting")
      BY <1>0, <1>1, <1>4 DEF InPhase, Active
    <2> QED
      BY <1>1, <2>1, <2>2, <2>3, <2>4 DEF TypeOK
  <1> HIDE DEF asked, row
  <1>6. \* The key now has a record of this merchant and body.
        /\ record'[key] # NoRecord
        /\ record'[key].merchant = asked.merchant /\ record'[key].body = asked.body
    <2>1. CASE a.inserted
      <3>1. record'[key] = row
        BY <1>1, <1>2, <2>1 DEF TypeOK
      <3> QED
        BY <1>2, <3>1, Distinct DEF row
    <2>2. CASE ~a.inserted
      BY <1>0, <1>1, <2>2 DEF Owns, KeyOf, asked
    <2> QED
      BY <1>2, <2>1, <2>2
  <1>7. \* Every record that was there is still there.
        \A k \in Keys : record[k] # NoRecord => record'[k] = record[k]
    BY <1>0, <1>1, <1>2 DEF TypeOK, Owns, KeyOf, asked
  <1>8. ASSUME NEW q \in Requests PROVE Owns(q)'
    <2>1. Owns(q)
      BY Split
    <2>2. KeyOf(r) = key /\ KeyOf(r)' = key /\ \A t \in Requests \ {r} : KeyOf(t)' = KeyOf(t)
      BY <1>0, <1>4 DEF KeyOf, asked
    <2>3. CASE q = r
      BY <1>1, <1>2, <1>4, <1>6, <2>2, <2>3 DEF Owns, Active, TypeOK
    <2>4. CASE q # r /\ Active(q) /\ attempt[q].phase # "inserting"
      <3>1. attempt'[q] = attempt[q] /\ KeyOf(q)' = KeyOf(q) /\ KeyOf(q) \in Keys
        BY <1>1, <1>4, <2>2, <2>4 DEF Active, KeyOf, TypeOK, Attempt, Asked
      <3>2. attempt[q].payment \in Payments /\ payments[attempt[q].payment] \in Asked
              => payments'[attempt[q].payment] = payments[attempt[q].payment]
        BY <1>1, Distinct DEF TypeOK
      <3>3. CASE attempt[q].inserted
        <4>1. /\ record[KeyOf(q)] = NoRecord
              /\ attempt[q].phase \notin {"created", "saved"}
              /\ \A t \in Requests : Active(t) /\ attempt[t].inserted /\ KeyOf(t) = KeyOf(q)
                                    => t = q
          BY <2>1, <2>4, <3>3 DEF Owns
        <4>2. KeyOf(q) # key
          BY <1>0, <1>1, <2>2, <2>4, <4>1 DEF Owns
        <4>3. record'[KeyOf(q)] = NoRecord
          BY <1>1, <1>2, <3>1, <4>1, <4>2 DEF TypeOK
        <4>4. \A t \in Requests : Active(t)' /\ attempt'[t].inserted /\ KeyOf(t)' = KeyOf(q)
                                  => t = q
          BY <1>4, <2>2, <4>1 DEF Active
        <4> QED
          BY <3>1, <3>3, <4>1, <4>3, <4>4 DEF Owns, Active
      <3>4. CASE ~attempt[q].inserted
        <4>1. attempt[q].asked \in Asked
          BY <1>1, <2>4 DEF TypeOK, Active, Attempt
        <4> QED
          BY <1>7, <2>1, <2>4, <3>1, <3>2, <3>4, <4>1 DEF Owns, Active
      <3> QED
        BY <3>3, <3>4
    <2>5. CASE q # r /\ ~(Active(q) /\ attempt[q].phase # "inserting")
      BY <1>4, <2>5 DEF Owns, Active
    <2> QED
      BY <2>3, <2>4, <2>5
  <1>9. ASSUME NEW q \in Payments PROVE Recorded(q)'
    <2>1. Recorded(q)
      BY Split
    <2>2. CASE q = p
      BY <1>1, <1>2, <1>6, <2>2 DEF Recorded, TypeOK
    <2>3. CASE q # p
      BY <1>1, <1>7, <2>1, <2>3 DEF Recorded, TypeOK, Asked
    <2> QED
      BY <2>2, <2>3
  <1>10. ASSUME NEW k \in Keys PROVE Truthful(k)'
    <2>1. Truthful(k)
      BY Split
    <2>2. CASE record'[k] = record[k] /\ record[k] # NoRecord
      <3>1. record[k] \in Record
        BY <1>1, <2>2 DEF TypeOK
      <3>2. CASE record[k].response = NoPayment
        BY <2>2, <3>2 DEF Truthful
      <3>3. CASE record[k].response # NoPayment
        <4>1. /\ record[k].response \in Payments
              /\ payments[record[k].response] \in Asked
          BY <2>1, <2>2, <3>1, <3>3 DEF Truthful, Record, Asked
        <4>2. payments'[record[k].response] = payments[record[k].response]
          BY <1>1, <4>1, Distinct DEF TypeOK
        <4> QED
          BY <2>1, <2>2, <3>3, <4>2 DEF Truthful
      <3> QED
        BY <3>2, <3>3
    <2>3. CASE record'[k] = NoRecord
      BY <2>3 DEF Truthful
    <2>4. CASE record[k] = NoRecord /\ record'[k] # NoRecord
      <3>1. record'[k] = row
        BY <1>1, <1>2, <2>4 DEF TypeOK
      <3> QED
        BY <3>1 DEF Truthful, row
    <2> QED
      BY <1>7, <2>2, <2>3, <2>4
  <1>11. AnswersAreReal'
    <2> SUFFICES ASSUME NEW answer \in answers PROVE payments'[answer.payment] = answer.asked
      BY <1>1 DEF AnswersAreReal
    <2>1. /\ answer.payment \in Payments /\ answer.asked \in Asked
          /\ payments[answer.payment] = answer.asked
      BY <1>1 DEF TypeOK, AnswersAreReal
    <2> QED
      BY <1>1, <2>1, Distinct DEF TypeOK
  <1> QED
    BY <1>5, <1>8, <1>9, <1>10, <1>11, Split

LEMMA CommitResponseInv ==
  ASSUME IInv, NEW r \in Requests, CommitResponse(r)
  PROVE  IInv'
  <1>0. PICK a \in Attempt : a = attempt[r]
    BY DEF CommitResponse, InPhase, Active, IInv, TypeOK
  <1> DEFINE key == a.asked.key
             row == record[key]
  <1>1. /\ TypeOK /\ AnswersAreReal
        /\ Active(r) /\ a.phase = "created" /\ Owns(r)
        /\ record' = [record EXCEPT ![key].response = a.payment]
        /\ Enter(r, "saved")
        /\ UNCHANGED <<payments, loop, answers, crashes>>
    BY <1>0, Split DEF CommitResponse, InPhase, KeyOf
  <1>2. /\ key \in Keys
        /\ row \in Record /\ row # NoRecord
        /\ row.merchant = a.asked.merchant /\ row.body = a.asked.body
        /\ a.payment \in Payments /\ payments[a.payment] = a.asked
    BY <1>0, <1>1 DEF TypeOK, Owns, KeyOf, Attempt, Asked
  <1>3. /\ attempt' \in [Requests -> {Free} \cup Attempt]
        /\ \A q \in Requests : InPhase(q, "inserting")' <=> InPhase(q, "inserting")
    BY <1>0, <1>1, MoveOn
  <1>4. [row EXCEPT !.response = a.payment] \in Record
    BY <1>2 DEF Record
  <1>5. /\ record'[key] = [row EXCEPT !.response = a.payment]
        /\ record'[key] \in Record /\ record'[key] # NoRecord
        /\ record'[key].merchant = row.merchant /\ record'[key].body = row.body
        /\ record'[key].response = a.payment
        /\ \A k \in Keys \ {key} : record'[k] = record[k]
    BY <1>1, <1>2, <1>4, Distinct DEF TypeOK, Record
  <1>6. TypeOK'
    <2>1. record' \in [Keys -> {NoRecord} \cup Record]
      BY <1>1, <1>2, <1>4 DEF TypeOK
    <2> QED
      BY <1>1, <1>3, <2>1 DEF TypeOK
  <1> HIDE DEF row
  <1>7. /\ attempt'[r] # Free /\ attempt'[r].phase = "saved"
        /\ attempt'[r].asked = a.asked /\ attempt'[r].payment = a.payment
        /\ attempt'[r].inserted = a.inserted
        /\ \A q \in Requests \ {r} : attempt'[q] = attempt[q]
    <2>1. attempt' = [attempt EXCEPT ![r] = [a EXCEPT !.phase = "saved"]]
      BY <1>0, <1>1 DEF Enter
    <2>2. [a EXCEPT !.phase = "saved"] \in Attempt
      BY DEF Attempt
    <2> QED
      BY <1>1, <2>1, <2>2, Distinct DEF TypeOK, Attempt
  <1>8. ASSUME NEW q \in Requests PROVE Owns(q)'
    <2>1. Owns(q)
      BY Split
    <2>2. KeyOf(r) = key /\ \A t \in Requests : Active(t) => Active(t)' /\ KeyOf(t)' = KeyOf(t)
      BY <1>0, <1>7 DEF KeyOf, Active
    <2>3. \A t \in Requests : Active(t)' /\ attempt'[t].inserted => Active(t) /\ attempt[t].inserted
      BY <1>0, <1>1, <1>7 DEF Active
    <2>4. \A k \in Keys : /\ record'[k] = NoRecord <=> record[k] = NoRecord
                          /\ record'[k].merchant = record[k].merchant
                          /\ record'[k].body = record[k].body
      BY <1>2, <1>5 DEF row
    <2>5. CASE q = r
      <3>1. ~a.inserted /\ ~attempt'[r].inserted
        BY <1>0, <1>1, <1>7 DEF Owns
      <3> QED
        BY <1>1, <1>2, <1>5, <1>7, <2>2, <2>5, <3>1 DEF Owns, row
    <2>6. CASE q # r /\ Active(q)
      <3>1. KeyOf(q) \in Keys
        BY <1>1, <2>6 DEF TypeOK, Active, KeyOf, Attempt, Asked
      <3> QED
        BY <1>1, <1>7, <2>1, <2>2, <2>3, <2>4, <2>6, <3>1 DEF Owns
    <2>7. CASE q # r /\ ~Active(q)
      BY <1>7, <2>7 DEF Owns, Active
    <2> QED
      BY <2>5, <2>6, <2>7
  <1>9. ASSUME NEW p \in Payments PROVE Recorded(p)'
    <2>1. Recorded(p)
      BY Split
    <2>2. payments[p] # NotCreated => payments[p].key \in Keys
      BY <1>1 DEF TypeOK, Asked
    <2> QED
      BY <1>1, <1>2, <1>5, <2>1, <2>2 DEF Recorded, row
  <1>10. ASSUME NEW k \in Keys PROVE Truthful(k)'
    <2>1. Truthful(k)
      BY Split
    <2>2. CASE k # key
      BY <1>1, <1>5, <2>1, <2>2 DEF Truthful
    <2>3. CASE k = key
      <3>1. a.asked = [merchant |-> a.asked.merchant, key |-> key, body |-> a.asked.body]
        BY DEF Attempt, Asked
      <3> QED
        BY <1>1, <1>2, <1>5, <2>3, <3>1 DEF Truthful, row
    <2> QED
      BY <2>2, <2>3
  <1>11. AnswersAreReal'
    BY <1>1 DEF AnswersAreReal
  <1> QED
    BY <1>6, <1>8, <1>9, <1>10, <1>11, Split

LEMMA CrashInv ==
  ASSUME IInv, Crash
  PROVE  IInv'
  <1>1. /\ TypeOK /\ AnswersAreReal
        /\ attempt' = [r \in Requests |-> Free] /\ loop' = Idle
        /\ crashes < MaxCrashes /\ crashes' = crashes + 1
        /\ UNCHANGED <<payments, record, answers>>
    BY DEF Crash, IInv
  <1>2. TypeOK'
    BY <1>1 DEF TypeOK, InPhase, Active
  <1>3. \A r \in Requests : Owns(r)'
    BY <1>1 DEF Owns, Active
  <1>4. AnswersAreReal'
    BY <1>1 DEF AnswersAreReal
  <1> QED
    BY <1>1, <1>2, <1>3, <1>4, SameRows
-----------------------------------------------------------------------------
\* A key stays quiet if the one request that moves is not at work under it.
LEMMA QuietIf ==
  ASSUME NEW k \in Keys, Quiet(k), record'[k] = record[k], NEW r \in Requests,
         \A q \in Requests \ {r} : attempt'[q] = attempt[q],
         \/ attempt'[r] = Free
         \/ attempt'[r].asked.key # k
         \/ attempt'[r].phase \notin {"ready", "working", "created"}
  PROVE  Quiet(k)'
  BY DEF Quiet, Active, KeyOf

\* Every step leaves a quiet key alone: no request of the key gets past
\* check_idempotency, and those that are past it have keys of their own.
LEMMA QuietStep ==
  ASSUME IInv, [Next]_vars, NEW k \in Keys, Quiet(k)
  PROVE  /\ Quiet(k)'
         /\ record'[k] = record[k]
         /\ \A p \in Payments :
              payments[p] = NotCreated /\ payments'[p] # NotCreated => payments'[p].key # k
  <1> DEFINE Alone == \A p \in Payments :
        payments[p] = NotCreated /\ payments'[p] # NotCreated => payments'[p].key # k
  <1>1. /\ TypeOK
        /\ record[k] # NoRecord /\ record[k].response # NoPayment
        /\ \A r \in Requests :
             attempt[r] # Free /\ attempt[r].asked.key = k
               => attempt[r].phase \notin {"ready", "working", "created"}
    BY DEF IInv, Quiet, Active, KeyOf
  <1>2. \A r \in Requests : attempt[r] # Free => attempt[r] \in Attempt
    BY <1>1 DEF TypeOK
  <1>3. CASE UNCHANGED vars \/ \E asked \in Asked : Replay(asked)
    BY <1>3 DEF vars, Replay, Quiet, Active, KeyOf
  <1>4. CASE Crash
    BY <1>4 DEF Crash, Quiet, Active
  <1>5. ASSUME NEW r \in Requests, NEW asked \in Asked, Resume(r, asked) \/ BeginInsert(r, asked)
        PROVE  Quiet(k)' /\ record'[k] = record[k] /\ Alone
    <2>1. PICK phase \in {"ready", "inserting"} :
            /\ attempt' = [attempt EXCEPT ![r] = Start(asked, phase)]
            /\ phase = "ready" => ~Completed(asked)
            /\ UNCHANGED <<payments, record>>
      BY <1>5 DEF Resume, BeginInsert
    <2>2. /\ attempt'[r].asked = asked /\ attempt'[r].phase = phase
          /\ \A q \in Requests \ {r} : attempt'[q] = attempt[q]
      BY <1>1, <2>1 DEF TypeOK, Start
    <2>3. asked.key # k \/ phase = "inserting"
      BY <1>1, <2>1 DEF Completed
    <2> QED
      BY <2>1, <2>2, <2>3, QuietIf
  <1>6. ASSUME NEW r \in Requests, Conflict(r) \/ Rollback(r) \/ Answer(r)
        PROVE  Quiet(k)' /\ record'[k] = record[k] /\ Alone
    <2>1. attempt' = [attempt EXCEPT ![r] = Free] /\ UNCHANGED <<payments, record>>
      BY <1>6 DEF Conflict, Rollback, Answer, Leave
    <2> QED
      BY <1>1, <2>1, QuietIf DEF TypeOK
  <1>7. ASSUME NEW r \in Requests, Reserve(r) \/ Dispatch(r) \/ Throttle(r)
        PROVE  Quiet(k)' /\ record'[k] = record[k] /\ Alone
    <2>1. attempt[r] \in Attempt /\ attempt[r] # Free /\ attempt[r].asked.key # k
      <3>1. CASE Reserve(r)
        BY <1>1, <1>2, <3>1 DEF Reserve, TypeOK, InPhase, Active, KeyOf
      <3>2. CASE Dispatch(r) \/ Throttle(r)
        BY <1>1, <1>2, <3>2 DEF Dispatch, Throttle, InPhase, Active
      <3> QED
        BY <1>7, <3>1, <3>2
    <2>2. UNCHANGED <<payments, record>> /\ \A q \in Requests \ {r} : attempt'[q] = attempt[q]
      BY <1>1, <1>7 DEF Reserve, Dispatch, Throttle, Enter, TypeOK
    <2>3. attempt'[r].asked = attempt[r].asked
      BY <1>1, <1>7, <2>1 DEF Reserve, Dispatch, Throttle, Enter, TypeOK, Attempt
    <2> QED
      BY <2>1, <2>2, <2>3, QuietIf
  <1>8. ASSUME NEW r \in Requests, SubmitClose(r)
        PROVE  Quiet(k)' /\ record'[k] = record[k] /\ Alone
    <2>1. attempt[r] \in Attempt /\ UNCHANGED <<payments, record>>
          /\ attempt' = [attempt EXCEPT ![r].phase = "closing"]
      BY <1>2, <1>8 DEF SubmitClose, InPhase, Active, Enter
    <2>2. attempt'[r].phase = "closing" /\ \A q \in Requests \ {r} : attempt'[q] = attempt[q]
      BY <1>1, <2>1 DEF TypeOK, Attempt
    <2> QED
      BY <2>1, <2>2, QuietIf
  <1>9. ASSUME NEW r \in Requests, CommitResponse(r) \/ \E p \in Payments : CommitPayment(r, p)
        PROVE  Quiet(k)' /\ record'[k] = record[k] /\ Alone
    <2>1. attempt[r] \in Attempt /\ attempt[r].asked \in Asked /\ attempt[r].asked.key # k
      <3>1. InPhase(r, "created") \/ InPhase(r, "working")
        BY <1>9 DEF CommitResponse, CommitPayment
      <3> QED
        BY <1>1, <1>2, <3>1 DEF InPhase, Active, Attempt
    <2>2. record'[k] = record[k] /\ Alone
      BY <1>1, <1>9, <2>1 DEF CommitResponse, CommitPayment, KeyOf, TypeOK
    <2>3. \A q \in Requests \ {r} : attempt'[q] = attempt[q]
      BY <1>1, <1>9 DEF CommitResponse, CommitPayment, Enter, TypeOK
    <2>4. attempt'[r].asked = attempt[r].asked
      <3>1. attempt' = [attempt EXCEPT ![r].phase = "saved"]
            \/ \E p \in Payments :
                 attempt' = [attempt EXCEPT ![r].phase = "created", ![r].payment = p,
                                            ![r].inserted = FALSE]
        BY <1>9 DEF CommitResponse, CommitPayment, Enter
      <3>2. attempt'[r] = [attempt[r] EXCEPT !.phase = "saved"]
            \/ \E p \in Payments :
                 attempt'[r] = [attempt[r] EXCEPT !.phase = "created", !.payment = p,
                                                  !.inserted = FALSE]
        BY <1>1, <3>1 DEF TypeOK
      <3> QED
        BY <2>1, <3>2 DEF Attempt
    <2> QED
      BY <2>1, <2>2, <2>3, <2>4, QuietIf
  <1> QED
    BY <1>3, <1>4, <1>5, <1>6, <1>7, <1>8, <1>9 DEF Next

-----------------------------------------------------------------------------
\* A request has committed the record of k and is about to complete it.
Completing(k) == \E r \in Requests : InPhase(r, "created") /\ KeyOf(r) = k

\* The record of k has no response yet.
Reserved(k) == record[k] # NoRecord /\ record[k].response = NoPayment

LEMMA ReservedFrame ==
  ASSUME NEW k \in Keys, Reserved(k) => Completing(k), record'[k] = record[k],
         \A q \in Requests :
           InPhase(q, "created") /\ KeyOf(q) = k => attempt'[q] = attempt[q]
  PROVE  Reserved(k)' => Completing(k)'
  BY DEF Reserved, Completing, InPhase, Active, KeyOf

LEMMA ReservedStep ==
  ASSUME IInv, ReservationsComplete, [Next]_vars
  PROVE  ReservationsComplete'
  <1> SUFFICES ASSUME crashes' = 0, NEW k \in Keys PROVE Reserved(k)' => Completing(k)'
    BY DEF ReservationsComplete, Reserved, Completing
  <1>1. TypeOK
    BY DEF IInv
  <1>2. ~Crash /\ crashes = 0
    <2>1. ~Crash
      BY <1>1 DEF Crash, TypeOK
    <2>2. crashes' = crashes
      BY <2>1 DEF Next, vars, Replay, Resume, BeginInsert, Reserve, Conflict, Dispatch, Throttle,
         SubmitClose, Rollback, CommitPayment, CommitResponse, Answer
    <2> QED
      BY <2>1, <2>2
  <1>3. Reserved(k) => Completing(k)
    BY <1>2 DEF ReservationsComplete, Reserved, Completing
  <1>4. CASE UNCHANGED <<record, attempt>>
    BY <1>3, <1>4, ReservedFrame
  <1>5. ASSUME NEW r \in Requests, record' = record, ~InPhase(r, "created"),
               \A q \in Requests \ {r} : attempt'[q] = attempt[q]
        PROVE  Reserved(k)' => Completing(k)'
    BY <1>3, <1>5, ReservedFrame
  <1>6. ASSUME NEW r \in Requests, NEW asked \in Asked, Resume(r, asked) \/ BeginInsert(r, asked)
        PROVE  Reserved(k)' => Completing(k)'
    <2>1. /\ record' = record /\ ~InPhase(r, "created")
          /\ \A q \in Requests \ {r} : attempt'[q] = attempt[q]
      BY <1>1, <1>6 DEF Resume, BeginInsert, InPhase, TypeOK
    <2> QED
      BY <1>5, <2>1
  <1>7. ASSUME NEW r \in Requests,
               \/ Reserve(r) \/ Conflict(r) \/ Dispatch(r) \/ Throttle(r)
               \/ SubmitClose(r) \/ Rollback(r) \/ Answer(r)
        PROVE  Reserved(k)' => Completing(k)'
    <2>1. record' = record /\ \A q \in Requests \ {r} : attempt'[q] = attempt[q]
      BY <1>1, <1>7 DEF Reserve, Conflict, Dispatch, Throttle, SubmitClose, Rollback, Answer,
         Enter, Leave, TypeOK
    <2>2. ~InPhase(r, "created")
      <3>1. CASE Reserve(r) \/ Conflict(r)
        BY <1>1, <3>1 DEF Reserve, Conflict, TypeOK, InPhase
      <3>2. CASE Dispatch(r) \/ Throttle(r) \/ SubmitClose(r) \/ Rollback(r) \/ Answer(r)
        BY <3>2 DEF Dispatch, Throttle, SubmitClose, Rollback, Answer, InPhase
      <3> QED
        BY <1>7, <3>1, <3>2
    <2> QED
      BY <1>5, <2>1, <2>2
  <1>8. ASSUME NEW r \in Requests, NEW p \in Payments, CommitPayment(r, p)
        PROVE  Reserved(k)' => Completing(k)'
    <2>1. /\ attempt[r] \in Attempt /\ attempt[r].phase = "working" /\ attempt[r] # Free
          /\ attempt' = [attempt EXCEPT ![r] = [attempt[r] EXCEPT
                           !.phase = "created", !.payment = p, !.inserted = FALSE]]
      BY <1>1, <1>8 DEF CommitPayment, InPhase, Active, TypeOK
    <2>2. /\ attempt'[r].phase = "created" /\ attempt'[r].asked = attempt[r].asked
          /\ attempt'[r] # Free
          /\ \A q \in Requests \ {r} : attempt'[q] = attempt[q]
      BY <1>1, <2>1 DEF TypeOK, Attempt, Free
    <2>3. CASE k = KeyOf(r)
      BY <2>2, <2>3 DEF Completing, InPhase, Active, KeyOf
    <2>4. CASE k # KeyOf(r)
      <3>1. record'[k] = record[k]
        BY <1>1, <1>8, <2>4 DEF CommitPayment, KeyOf, TypeOK
      <3>2. \A q \in Requests : InPhase(q, "created") /\ KeyOf(q) = k => attempt'[q] = attempt[q]
        BY <2>2, <2>4
      <3> QED
        BY <1>3, <3>1, <3>2, ReservedFrame
    <2> QED
      BY <2>3, <2>4
  <1>9. ASSUME NEW r \in Requests, CommitResponse(r)
        PROVE  Reserved(k)' => Completing(k)'
    <2>1. /\ Owns(r) /\ InPhase(r, "created") /\ attempt[r] \in Attempt
          /\ record' = [record EXCEPT ![KeyOf(r)].response = attempt[r].payment]
          /\ \A q \in Requests \ {r} : attempt'[q] = attempt[q]
      BY <1>1, <1>9, Split DEF CommitResponse, Enter, InPhase, Active, TypeOK
    <2>2. CASE k = KeyOf(r)
      <3>1. attempt[r].payment \in Payments /\ record[k] \in Record
        <4>1. attempt[r].inserted \in BOOLEAN
          BY <2>1 DEF Attempt
        <4> QED
          BY <1>1, <2>1, <2>2, <4>1 DEF Owns, InPhase, TypeOK
      <3>2. record'[k].response = attempt[r].payment
        BY <1>1, <2>1, <2>2, <3>1 DEF TypeOK, Record
      <3> QED
        BY <3>1, <3>2, NoPaymentAssumption DEF Reserved
    <2>3. CASE k # KeyOf(r)
      <3>1. record'[k] = record[k]
        BY <1>1, <2>1, <2>3 DEF TypeOK
      <3>2. \A q \in Requests : InPhase(q, "created") /\ KeyOf(q) = k => attempt'[q] = attempt[q]
        BY <2>1, <2>3
      <3> QED
        BY <1>3, <3>1, <3>2, ReservedFrame
    <2> QED
      BY <2>2, <2>3
  <1>10. ASSUME NEW asked \in Asked, Replay(asked) PROVE UNCHANGED <<record, attempt>>
    BY <1>10 DEF Replay
  <1>11. CASE UNCHANGED vars
    BY <1>4, <1>11 DEF vars
  <1> QED
    BY <1>2, <1>4, <1>6, <1>7, <1>8, <1>9, <1>10, <1>11 DEF Next

-----------------------------------------------------------------------------
LEMMA StepInv == IInv /\ [Next]_vars => IInv'
  <1> SUFFICES ASSUME IInv, [Next]_vars PROVE IInv'
    OBVIOUS
  <1>1. CASE UNCHANGED vars
    BY <1>1 DEF vars, IInv, TypeOK, RequestsOwnTheirKey, RecordsMatchPayments,
       AnswersAreReal, Active, InPhase, KeyOf
  <1>2. CASE Next
    BY <1>2, ReplayInv, ResumeInv, ReserveInv, MoveInv, LeaveInv, CommitPaymentInv,
       CommitResponseInv, CrashInv DEF Next
  <1> QED
    BY <1>1, <1>2

\* The inductive invariant holds whatever overlaps, is throttled or crashes.
THEOREM Invariance == Spec => []IInv
  BY InitInv, StepInv, PTL DEF Spec

\* A key never stands for two merchants or two bodies (check_idempotency's hash
\* comparison, the unique key, and the commit of payment and record together).
THEOREM KeysAreConsistent == Spec => []OneRequestPerKey
  <1>1. IInv => OneRequestPerKey
    <2> SUFFICES ASSUME IInv, NEW p \in Payments, NEW q \in Payments,
                        payments[p] # NotCreated, payments[q] # NotCreated,
                        payments[p].key = payments[q].key
                 PROVE  payments[p] = payments[q]
      BY DEF OneRequestPerKey
    <2>1. Recorded(p) /\ Recorded(q) /\ payments[p] \in Asked /\ payments[q] \in Asked
      BY Split DEF TypeOK
    <2> QED
      BY <2>1 DEF Recorded, Asked
  <1> QED
    BY <1>1, Invariance, PTL

\* Every 201 answer, first or replayed, shows a payment committed for exactly
\* what the client sent.
THEOREM AnswersAreTruthful == Spec => []AnswersAreReal
  BY Invariance, PTL DEF IInv

\* A request past the check owns its key.
THEOREM KeysAreOwned == Spec => []RequestsOwnTheirKey
  BY Invariance, PTL DEF IInv

\* A completed key with no request left at work replays its response for good.
THEOREM CompletedKeysStay == Spec => CompletedKeysReplay
  <1>1. IInv /\ [Next]_vars =>
          [\A k \in Keys :
             Quiet(k) =>
               /\ Quiet(k)' /\ record'[k] = record[k]
               /\ \A p \in Payments :
                    payments[p] = NotCreated /\ payments'[p] # NotCreated
                      => payments'[p].key # k]_vars
    BY QuietStep
  <1> QED
    BY <1>1, Invariance, PTL DEF Spec, CompletedKeysReplay

\* Rows and requests keep their shape, and only the inserting request has the
\* loop.
THEOREM TypeCorrect == Spec => []TypeOK
  BY Invariance, PTL DEF IInv

\* Every payment has the record of its key, and a stored response shows a
\* payment of its record.
THEOREM RecordsAreTrue == Spec => []RecordsMatchPayments
  BY Invariance, PTL DEF IInv

\* Without a crash no key stays reserved: whoever commits a record goes on to
\* store its response (create_payment between its two commits).
THEOREM NoKeyLeftBehind == Spec => []ReservationsComplete
  <1>1. Init => ReservationsComplete
    BY DEF Init, ReservationsComplete
  <1>2. IInv /\ ReservationsComplete /\ [Next]_vars => ReservationsComplete'
    BY ReservedStep
  <1> QED
    BY <1>1, <1>2, Invariance, PTL DEF Spec
=============================================================================
