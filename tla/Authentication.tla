--------------------------- MODULE Authentication ---------------------------
(***************************************************************************)
(* Merchants and their API keys: POST /merchants registers a merchant in a *)
(* worker thread and hands the key out once, in its answer; every other    *)
(* request is authenticated by get_current_merchant, which looks a row up  *)
(* by the first 12 characters of the key and then compares hashes, and     *)
(* reaches payments of this merchant only.                                 *)
(*                                                                         *)
(* The prefix of a key came with a migration that leaves it NULL in the    *)
(* rows it finds, as does going back behind that migration and forth.      *)
(*                                                                         *)
(* Abstractions: a key stands for its hash; a fresh key is one that nobody *)
(* has, while prefixes may collide.  An authenticated request is one step, *)
(* for no route changes or deletes a merchant.  The limits on the number   *)
(* of requests refuse some of them before they read anything and are left  *)
(* out.                                                                    *)
(***************************************************************************)
EXTENDS Naturals

CONSTANTS
  Merchants,      \* merchant ids
  Emails, Keys,
  Prefixes,
  get_key_prefix, \* get_key_prefix[k]: the start of key k
  NoPrefix,       \* NULL in merchants.key_prefix
  Payments,       \* payment ids
  Nobody,         \* the owner of a payment that does not exist yet
  Threads,        \* worker threads serving POST /merchants
  MaxCrashes,     \* bound on process crashes
  MaxMigrations   \* bound on runs of the migration

ASSUME PrefixAssumption == get_key_prefix \in [Keys -> Prefixes] /\ NoPrefix \notin Prefixes
ASSUME NobodyAssumption == Nobody \notin Merchants
ASSUME BoundsAssumption == MaxCrashes \in Nat /\ MaxMigrations \in Nat

VARIABLES
  merchant,      \* merchant[m]: the committed row of merchants
  registration,  \* registration[t]: what thread t registers
  answers,       \* the answers to registrations that clients received
  migrated,      \* history: the merchants that were there at a migration
  owner,         \* owner[p]: merchant_id of payment p, or Nobody
  used,          \* history: the keys of the requests that reached p
  crashes, migrations

vars == <<merchant, registration, answers, migrated, owner, used, crashes, migrations>>

NoRow == [email |-> "none"]
Free == [phase |-> "free"]
Row == [email : Emails, api_key : Keys, key_prefix : Prefixes \cup {NoPrefix}]
Registration ==
  [email : Emails, key : Keys, phase : {"inserting", "inserted"}]
    \cup [merchant : Merchants, key : Keys, phase : {"committed"}]

Exists(m) == merchant[m] # NoRow
InPhase(t, phase) == registration[t].phase = phase

\* Nobody has k: it is generated from 32 random bytes.
Fresh(k) ==
  /\ \A m \in Merchants : Exists(m) => merchant[m].api_key # k
  /\ \A t \in Threads : registration[t] # Free => registration[t].key # k

Init ==
  /\ merchant = [m \in Merchants |-> NoRow]
  /\ registration = [t \in Threads |-> Free]
  /\ answers = {}
  /\ migrated = {}
  /\ owner = [p \in Payments |-> Nobody]
  /\ used = [p \in Payments |-> {}]
  /\ crashes = 0
  /\ migrations = 0
-----------------------------------------------------------------------------
BeginRegistration(t, e, k) ==
  /\ registration[t] = Free
  /\ Fresh(k)
  /\ registration' = [registration EXCEPT ![t] = [email |-> e, key |-> k,
                                                  phase |-> "inserting"]]
  /\ UNCHANGED <<merchant, answers, migrated, owner, used, crashes, migrations>>

\* Faulty variant: the email is not unique.
EmailIsNotUnique(e) == TRUE

\* The email is unique: no row and no open transaction has it.
EmailIsFree(e) ==
  /\ \A m \in Merchants : Exists(m) => merchant[m].email # e
  /\ \A t \in Threads : InPhase(t, "inserted") => registration[t].email # e

\* The INSERT waits for an open transaction with the same email.
Insert(t) ==
  /\ InPhase(t, "inserting")
  /\ EmailIsFree(registration[t].email)
  /\ registration' = [registration EXCEPT ![t].phase = "inserted"]
  /\ UNCHANGED <<merchant, answers, migrated, owner, used, crashes, migrations>>

\* The email is taken: an IntegrityError, answered 500.
Refuse(t) ==
  /\ InPhase(t, "inserting")
  /\ \E m \in Merchants : Exists(m) /\ merchant[m].email = registration[t].email
  /\ registration' = [registration EXCEPT ![t] = Free]
  /\ UNCHANGED <<merchant, answers, migrated, owner, used, crashes, migrations>>

\* Faulty variant: the prefix is not stored.
NewRowWithoutPrefix(e, k) == [email |-> e, api_key |-> k, key_prefix |-> NoPrefix]

\* Faulty variant: the prefix is not cut off.
NewRowWithLongPrefix(e, k) == [email |-> e, api_key |-> k, key_prefix |-> k]

NewRow(e, k) == [email |-> e, api_key |-> k, key_prefix |-> get_key_prefix[k]]

Commit(t, m) ==
  /\ InPhase(t, "inserted")
  /\ ~Exists(m)
  /\ merchant' = [merchant EXCEPT ![m] = NewRow(registration[t].email, registration[t].key)]
  /\ registration' = [registration EXCEPT ![t] = [merchant |-> m, key |-> registration[t].key,
                                                  phase |-> "committed"]]
  /\ UNCHANGED <<answers, migrated, owner, used, crashes, migrations>>

\* Faulty variant: the answer shows the stored hash.
AnswerWithHash(t) ==
  /\ InPhase(t, "committed")
  /\ registration' = [registration EXCEPT ![t] = Free]
  /\ UNCHANGED <<merchant, answers, migrated, owner, used, crashes, migrations>>

\* The only time the key itself is shown.
Answer(t) ==
  /\ InPhase(t, "committed")
  /\ answers' = answers \cup {[merchant |-> registration[t].merchant,
                              key |-> registration[t].key]}
  /\ registration' = [registration EXCEPT ![t] = Free]
  /\ UNCHANGED <<merchant, migrated, owner, used, crashes, migrations>>
-----------------------------------------------------------------------------
\* The rows that the lookup by prefix may return; which of them comes first is
\* the database's choice.  NULL equals nothing.
Candidates(k) == {m \in Merchants : Exists(m) /\ merchant[m].key_prefix = get_key_prefix[k]}

\* Faulty variant: the prefix is taken for the key.
verify_api_key_prefix(k, stored) == get_key_prefix[k] = get_key_prefix[stored]

verify_api_key(k, stored) == k = stored

\* A request with key k passes as m, if the lookup finds m.
Authenticates(k, m) == m \in Candidates(k) /\ verify_api_key(k, merchant[m].api_key)

CreatePayment(k, m, p) ==
  /\ Authenticates(k, m)
  /\ owner[p] = Nobody
  /\ owner' = [owner EXCEPT ![p] = m]
  /\ used' = [used EXCEPT ![p] = {k}]
  /\ UNCHANGED <<merchant, registration, answers, migrated, crashes, migrations>>

\* Any request for an existing payment, which has to be the merchant's own.
ReachPayment(k, m, p) ==
  /\ Authenticates(k, m)
  /\ owner[p] = m
  /\ used' = [used EXCEPT ![p] = @ \cup {k}]
  /\ UNCHANGED <<merchant, registration, answers, migrated, owner, crashes, migrations>>
-----------------------------------------------------------------------------
\* Run by hand, with the service stopped.  Rows registered before the first
\* run are rows of this model as it leaves them.
Migrate ==
  /\ migrations < MaxMigrations
  /\ migrations' = migrations + 1
  /\ \A t \in Threads : registration[t] = Free
  /\ merchant' = [m \in Merchants |-> IF Exists(m)
                                        THEN [merchant[m] EXCEPT !.key_prefix = NoPrefix]
                                        ELSE NoRow]
  /\ migrated' = {m \in Merchants : Exists(m)}
  /\ UNCHANGED <<registration, answers, owner, used, crashes>>

\* The process dies and starts again: open transactions are rolled back, and
\* answers under way are lost.
Crash ==
  /\ crashes < MaxCrashes
  /\ crashes' = crashes + 1
  /\ registration' = [t \in Threads |-> Free]
  /\ UNCHANGED <<merchant, answers, migrated, owner, used, migrations>>

Next ==
  \/ \E t \in Threads :
       \/ \E e \in Emails, k \in Keys : BeginRegistration(t, e, k)
       \/ Insert(t) \/ Refuse(t) \/ Answer(t)
       \/ \E m \in Merchants : Commit(t, m)
  \/ \E k \in Keys, m \in Merchants, p \in Payments :
       CreatePayment(k, m, p) \/ ReachPayment(k, m, p)
  \/ Migrate
  \/ Crash

Spec == Init /\ [][Next]_vars
-----------------------------------------------------------------------------
\* Rows, registrations and answers keep their shape.
TypeOK ==
  /\ merchant \in [Merchants -> {NoRow} \cup Row]
  /\ registration \in [Threads -> {Free} \cup Registration]
  /\ answers \subseteq [merchant : Merchants, key : Keys]
  /\ migrated \subseteq Merchants
  /\ owner \in [Payments -> Merchants \cup {Nobody}]
  /\ used \in [Payments -> SUBSET Keys]
  /\ crashes \in 0..MaxCrashes /\ migrations \in 0..MaxMigrations

\* Whatever registrations overlap, no two merchants share an email or a key,
\* and an answer shows the key of the merchant it names (create_merchant's
\* unique columns under concurrent registrations).
AccountsAreDistinct ==
  /\ \A m, n \in Merchants :
       /\ Exists(m) /\ Exists(n) /\ m # n
       => merchant[m].email # merchant[n].email /\ merchant[m].api_key # merchant[n].api_key
  /\ \A a \in answers : Exists(a.merchant) /\ merchant[a.merchant].api_key = a.key

\* A payment is only ever reached with the one key that was issued to its
\* owner, even when the prefixes of keys collide (get_current_merchant and
\* _get_owned_payment).
AccountsStayApart ==
  \A p \in Payments :
    \A k \in used[p] : owner[p] # Nobody /\ merchant[owner[p]].api_key = k

\* A key that was handed out opens its account, unless a migration has come
\* since, or another merchant's key begins like it.
KeysOpenTheirAccount ==
  \A a \in answers :
    \/ a.merchant \in migrated
    \/ \E m \in Merchants \ {a.merchant} :
         Exists(m) /\ merchant[m].key_prefix = get_key_prefix[a.key]
    \/ Candidates(a.key) = {a.merchant} /\ Authenticates(a.key, a.merchant)

\* Without a crash every registered merchant gets its key, also one that was
\* registered while others were.  After a crash the key may be lost for good: it
\* is stored as a hash, and the email is taken.
KeysReachTheirMerchants ==
  crashes = 0 =>
    \A m \in Merchants :
      Exists(m) =>
        \/ \E a \in answers : a.merchant = m
        \/ \E t \in Threads : InPhase(t, "committed") /\ registration[t].merchant = m
=============================================================================
