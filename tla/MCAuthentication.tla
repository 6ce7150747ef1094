-------------------------- MODULE MCAuthentication --------------------------
(* Constant values for the model checking of Authentication. *)
EXTENDS Authentication, TLC

CONSTANTS m1, m2, m3, e1, e2, e3, k1, k2, k3, t1, t2, p1, p2

\* The keys k1 and k2 begin alike.
MCPrefix == k1 :> "a" @@ k2 :> "a" @@ k3 :> "b"

MCSymmetry == Permutations({m1, m2, m3}) \cup Permutations({e1, e2, e3})
                \cup Permutations({k1, k2}) \cup Permutations({t1, t2})
                \cup Permutations({p1, p2})
=============================================================================
