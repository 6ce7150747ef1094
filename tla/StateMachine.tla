---------------------------- MODULE StateMachine ----------------------------
(***************************************************************************)
(* The payment statuses and the transition map of                          *)
(* app/services/state_machine.py.  A payment row that has not been         *)
(* inserted yet has the status "absent", which is not one of the enum.     *)
(***************************************************************************)

PaymentStatus == {"created", "authorized", "captured", "settled", "failed",
                  "refunded", "partially_refunded"}

TRANSITIONS ==
  ({"created"} \X {"authorized", "failed"})
    \cup ({"authorized"} \X {"captured", "failed"})
    \cup ({"captured"} \X {"settled", "refunded", "partially_refunded"})
    \cup ({"settled"} \X {"refunded", "partially_refunded"})
    \cup ({"partially_refunded"} \X {"refunded"})

CanTransition(current, target) == <<current, target>> \in TRANSITIONS

\* The statuses of a payment whose money was collected: a name of this
\* specification's, the code has none for them.
CapturedStatus == {"captured", "settled", "refunded", "partially_refunded"}
=============================================================================
