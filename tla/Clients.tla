------------------------------ MODULE Clients -------------------------------
(***************************************************************************)
(* Merchants' programs that call the gateway over a network which delays   *)
(* and loses requests and answers, and that repeat a call until they have  *)
(* an answer other than a server error.  Only the creation of payments is  *)
(* protected by idempotency keys (module Idempotency): every other request *)
(* is served again when it comes again, be it after its call has ended.    *)
(*                                                                         *)
(* The answers are those of the routers.  An accepted capture is rolled    *)
(* back and answered by an error.  A batch is committed and then answered  *)
(* by an error too, for SettlementResponse requires a settled_at that the  *)
(* row does not have.                                                      *)
(*                                                                         *)
(* Abstractions: a request is served in one step (module Gateway overlaps  *)
(* them); a crash of the server, or an exception after its commit, is a    *)
(* lost request or a lost answer; 400 and 409 are "refused", 500 is        *)
(* "error", 201 is "done" and 200 shows the status of the payment.         *)
(***************************************************************************)
EXTENDS PaymentService

CONSTANTS
  Callers,     \* each makes one call, in as many requests as it takes
  MaxRequests  \* bound on the requests of a call that are under way at once

ASSUME RequestsAssumption == MaxRequests \in Nat \ {0}

VARIABLE call  \* call[c]: what c calls, what is under way and what came of it

clientVars == <<payment, refunds, ledger, wallet, settlement, call>>

Ops == {"authorize", "capture", "refund", "batch"}
Answers == PaymentStatus \cup {"done", "refused", "error"}

NoCall == [op |-> "none"]
Call == [op : Ops, about : Payments \cup Merchants, amount : 0..MaxInt,
         requests : 0..MaxRequests, answers : SUBSET Answers,
         told : (Answers \ {"error"}) \cup {"nothing"},
         applied : 0..2]  \* history: how often it took effect

ClientsInit == Init /\ call = [c \in Callers |-> NoCall]
-----------------------------------------------------------------------------
\* Created under an idempotency key.
ServeCreate(p, amt) == CreatePayment(p, amt) /\ UNCHANGED call

\* A call about a payment whose id the caller knows, or a batch for a merchant.
Ask(c, op, x, amt) ==
  /\ call[c] = NoCall
  /\ call' = [call EXCEPT ![c] = [op |-> op, about |-> x, amount |-> amt, requests |-> 1,
                                  answers |-> {}, told |-> "nothing", applied |-> 0]]
  /\ UNCHANGED tables

AskAny(c) ==
  \/ \E p \in {q \in Payments : payment[q].status # "absent"} :
       \/ Ask(c, "authorize", p, 0)
       \/ \E amt \in Amounts \cup {0} : Ask(c, "capture", p, amt)
       \/ \E amt \in Amounts : Ask(c, "refund", p, amt)
  \/ \E m \in Merchants : Ask(c, "batch", m, 0)

\* No answer for too long, or a server error.
Repeat(c) ==
  /\ call[c] # NoCall
  /\ call[c].told = "nothing"
  /\ call[c].requests < MaxRequests
  /\ call' = [call EXCEPT ![c].requests = @ + 1]
  /\ UNCHANGED tables

Arrives(c, op) == call[c].op = op /\ call[c].requests > 0

\* A caller that has been told drops the answers to its late requests.
Answered(c, answer, times) ==
  call' = [call EXCEPT ![c].requests = @ - 1, ![c].applied = @ + times,
                       ![c].answers = IF call[c].told = "nothing" THEN @ \cup {answer} ELSE {}]

Refused(c) == Answered(c, "refused", 0) /\ UNCHANGED tables

ServeAuthorize(c) ==
  LET p == call[c].about
  IN  /\ Arrives(c, "authorize")
      /\ \E outcome \in BankOutcomes :
           \/ /\ AuthorizePayment(p, outcome)
              /\ Answered(c, payment'[p].status, IF outcome = "timeout" THEN 0 ELSE 1)
           \/ /\ outcome # "timeout" /\ ~CanTransition(payment[p].status, outcome)
              /\ Refused(c)

\* Flushed, and rolled back.
ServeCapture(c) ==
  LET accepted == CaptureAccepted(call[c].about, call[c].amount)
  IN  /\ Arrives(c, "capture")
      /\ Answered(c, IF accepted THEN "error" ELSE "refused", 0)
      /\ UNCHANGED tables

\* Faulty variant: the commit is forgotten.
ServeRefundUncommitted(c) ==
  /\ Arrives(c, "refund")
  /\ Answered(c, IF RefundAccepted(call[c].about, call[c].amount) THEN "done" ELSE "refused", 0)
  /\ UNCHANGED tables

ServeRefund(c) ==
  LET p == call[c].about  amt == call[c].amount
  IN  /\ Arrives(c, "refund")
      /\ \/ RefundPayment(p, amt) /\ Answered(c, "done", 1)
         \/ ~RefundAccepted(p, amt) /\ Refused(c)

\* Faulty variant: the error strikes before the commit.
ServeBatchUncommitted(c) ==
  LET m == call[c].about
  IN  /\ Arrives(c, "batch")
      /\ Answered(c, IF UnsettledPayments(m) = {} THEN "refused" ELSE "error", 0)
      /\ UNCHANGED tables

\* Committed, and then answered by an error.
ServeBatch(c) ==
  LET m == call[c].about
  IN  /\ Arrives(c, "batch")
      /\ \/ \E s \in Settlements : CreateSettlementBatch(m, s) /\ Answered(c, "error", 1)
         \/ UnsettledPayments(m) = {} /\ Refused(c)

Serve(c) == ServeAuthorize(c) \/ ServeCapture(c) \/ ServeRefund(c) \/ ServeBatch(c)

\* The call ends with the first answer that is no error.
Receive(c) ==
  /\ call[c] # NoCall
  /\ call[c].told = "nothing"
  /\ \E answer \in call[c].answers :
       call' = IF answer = "error"
                 THEN [call EXCEPT ![c].answers = @ \ {answer}]
                 ELSE [call EXCEPT ![c].answers = {}, ![c].told = answer]
  /\ UNCHANGED tables

Lose(c) ==
  /\ call[c] # NoCall
  /\ \/ /\ call[c].requests > 0
        /\ call' = [call EXCEPT ![c].requests = @ - 1]
     \/ \E answer \in call[c].answers : call' = [call EXCEPT ![c].answers = @ \ {answer}]
  /\ UNCHANGED tables

ClientsNext ==
  \/ \E p \in Payments, amt \in Amounts : ServeCreate(p, amt)
  \/ \E c \in Callers : AskAny(c) \/ Repeat(c) \/ Serve(c) \/ Receive(c) \/ Lose(c)

\* Callers repeat, the server serves what arrives, and the network delivers
\* what is sent again and again.
Fairness ==
  \A c \in Callers : /\ WF_clientVars(Repeat(c))
                     /\ SF_clientVars(Serve(c))
                     /\ SF_clientVars(Receive(c))

ClientsSpec == ClientsInit /\ [][ClientsNext]_clientVars /\ Fairness
-----------------------------------------------------------------------------
\* Calls keep their shape, and none takes effect more than twice.
ClientsTypeOK ==
  /\ TypeOK
  /\ call \in [Callers -> {NoCall} \cup Call]
  /\ \A c \in Callers :
       call[c] # NoCall => call[c].about \in (IF call[c].op = "batch" THEN Merchants ELSE Payments)

Calls(op) == {c \in Callers : call[c].op = op}

\* A repeated call takes effect once, with two exceptions: the second half of a
\* payment is refunded by repeating the refund of the first, and the bank may
\* decline on a repeated authorization (TRANSITIONS is all that protects
\* refunds, authorizations and batches from being repeated).
AppliedOnce ==
  \A c \in Callers :
    call[c] # NoCall /\ call[c].applied > 1 =>
      LET p == call[c].about
      IN  \/ call[c].op = "authorize" /\ payment[p].status = "failed"
          \/ call[c].op = "refund" /\ 2 * call[c].amount = Collected(p)

\* Two authorizations of p took effect.
AuthorizedTwice(p) ==
  \E c, d \in Calls("authorize") :
    /\ call[c].about = p /\ call[d].about = p
    /\ call[c].applied > 0 /\ call[d].applied > 0
    /\ c = d => call[c].applied > 1

\* What an answer says stays true after it, whatever late requests still
\* arrive: "authorized" unless a second authorization was declined, a refund
\* that is done was done, and a refusal is for good, unless it refused to repeat
\* what has been done.
Stands(c, answer) ==
  LET p == call[c].about
  IN  /\ call[c].op = "authorize" /\ answer = "authorized" =>
           \/ payment[p].status = "authorized"
           \/ payment[p].status = "failed" /\ AuthorizedTwice(p)
      /\ call[c].op = "authorize" /\ answer = "failed" => payment[p].status = "failed"
      /\ call[c].op = "refund" /\ answer = "done" => call[c].applied > 0
      /\ call[c].op = "refund" /\ answer = "refused" =>
           call[c].applied > 0 \/ ~RefundAccepted(p, call[c].amount)
      /\ call[c].op = "batch" /\ answer = "refused" => UnsettledPayments(p) = {}

AnswersStand == \A c \in Callers : call[c] # NoCall => Stands(c, call[c].told)

\* Every call but a capture comes to an end: also the batch that is answered by
\* an error each time it settles something.
RetriesConclude ==
  \A c \in Callers :
    call[c] # NoCall /\ call[c].op # "capture" ~> call[c] # NoCall /\ call[c].told # "nothing"
=============================================================================
