------------------------ MODULE AuthenticationProofs ------------------------
(***************************************************************************)
(* Proofs about Authentication, for any number of merchants, keys and      *)
(* threads.  A key in the hands of a registration is nobody else's, an     *)
(* open transaction's email is nobody else's, and a committed registration *)
(* names its own row: with these facts each property is inductive.         *)
(***************************************************************************)
EXTENDS Authentication, TLAPS

Busy(t) == registration[t] # Free
Uncommitted(t) == InPhase(t, "inserting") \/ InPhase(t, "inserted")

\* Two registrations have two keys, and two open transactions two emails.
RegistrationsDiffer ==
  \A t, u \in Threads :
    t # u => /\ Busy(t) /\ Busy(u) => registration[t].key # registration[u].key
             /\ InPhase(t, "inserted") /\ InPhase(u, "inserted")
                  => registration[t].email # registration[u].email

\* What a registration is about to insert is in no row yet.
NotYetStored ==
  \A t \in Threads, m \in Merchants :
    Exists(m) => /\ Uncommitted(t) => merchant[m].api_key # registration[t].key
                 /\ InPhase(t, "inserted") => merchant[m].email # registration[t].email

\* A committed registration answers with the key of its own row.
CommittedStored ==
  \A t \in Threads :
    InPhase(t, "committed") =>
      /\ Exists(registration[t].merchant)
      /\ merchant[registration[t].merchant].api_key = registration[t].key

\* A row has its prefix unless a migration found it.
PrefixesStored ==
  \A m \in Merchants :
    Exists(m) => m \in migrated \/ merchant[m].key_prefix = get_key_prefix[merchant[m].api_key]

OwnersExist == \A p \in Payments : owner[p] # Nobody => Exists(owner[p])

IInv ==
  /\ TypeOK
  /\ OwnersExist
  /\ RegistrationsDiffer
  /\ NotYetStored
  /\ CommittedStored
  /\ PrefixesStored
  /\ AccountsAreDistinct
  /\ AccountsStayApart
  /\ KeysReachTheirMerchants

-----------------------------------------------------------------------------
\* A row is not the missing row.
LEMMA RowsExist == \A r \in Row : r # NoRow
<1> SUFFICES ASSUME NEW r \in Row, r = NoRow PROVE FALSE
  OBVIOUS
<1>1. DOMAIN r = {"email", "api_key", "key_prefix"}
  BY DEF Row
<1>2. DOMAIN r = {"email"}
  BY DEF NoRow
<1> QED
  BY <1>1, <1>2

\* The phases tell the kinds of registrations apart.
LEMMA Phases ==
  ASSUME TypeOK, NEW t \in Threads
  PROVE  /\ Busy(t) <=> Uncommitted(t) \/ InPhase(t, "committed")
         /\ ~Busy(t) => InPhase(t, "free")
         /\ Busy(t) => registration[t].key \in Keys
         /\ Uncommitted(t) => /\ registration[t].email \in Emails
                              /\ registration[t] \in [email : Emails, key : Keys,
                                                      phase : {"inserting", "inserted"}]
         /\ InPhase(t, "committed") => registration[t].merchant \in Merchants
<1>1. CASE registration[t] = Free
  BY <1>1 DEF Busy, Uncommitted, InPhase, Free
<1>2. CASE registration[t] \in [email : Emails, key : Keys, phase : {"inserting", "inserted"}]
  BY <1>2 DEF Busy, Uncommitted, InPhase, Free
<1>3. CASE registration[t] \in [merchant : Merchants, key : Keys, phase : {"committed"}]
  BY <1>3 DEF Busy, Uncommitted, InPhase, Free
<1> QED
  BY <1>1, <1>2, <1>3 DEF TypeOK, Registration

-----------------------------------------------------------------------------
LEMMA InitIInv == Init => IInv
BY BoundsAssumption, RowsExist
   DEF Init, IInv, TypeOK, RegistrationsDiffer, NotYetStored, CommittedStored, PrefixesStored,
       OwnersExist, AccountsAreDistinct, AccountsStayApart, KeysReachTheirMerchants, Exists, InPhase,
       Uncommitted, Busy, Free, NoRow

\* A registration begins with a key of its own.
LEMMA BeginKeeps ==
  ASSUME IInv, NEW t \in Threads, NEW e \in Emails, NEW k \in Keys, BeginRegistration(t, e, k)
  PROVE  IInv'
<1> DEFINE new == [email |-> e, key |-> k, phase |-> "inserting"]
<1>1. /\ registration[t] = Free
      /\ Fresh(k)
      /\ registration' = [registration EXCEPT ![t] = new]
      /\ UNCHANGED <<merchant, answers, migrated, owner, used, crashes, migrations>>
      /\ registration \in [Threads -> {Free} \cup Registration]
  BY DEF BeginRegistration, IInv, TypeOK
<1>2. new \in Registration
  BY DEF Registration
<1>3. TypeOK'
  BY <1>1, <1>2 DEF IInv, TypeOK
<1>4. /\ \A u \in Threads : u # t => registration'[u] = registration[u]
      /\ registration'[t] = new
  BY <1>1
<1>5. RegistrationsDiffer'
  BY <1>1, <1>4 DEF IInv, RegistrationsDiffer, Busy, InPhase, Fresh, Free
<1>6. NotYetStored'
  BY <1>1, <1>4 DEF IInv, NotYetStored, Uncommitted, Exists, InPhase, Fresh
<1>7. CommittedStored'
  BY <1>1, <1>4 DEF IInv, CommittedStored, Exists, InPhase
<1>8. OwnersExist' /\ PrefixesStored' /\ AccountsAreDistinct' /\ AccountsStayApart'
  BY <1>1 DEF IInv, OwnersExist, PrefixesStored, AccountsAreDistinct, AccountsStayApart, Exists
<1>9. KeysReachTheirMerchants'
  BY <1>1, <1>4 DEF IInv, KeysReachTheirMerchants, Exists, InPhase, Free
<1> QED
  BY <1>3, <1>5, <1>6, <1>7, <1>8, <1>9 DEF IInv

\* The INSERT succeeds only for an email that no row and no transaction has.
LEMMA InsertKeeps ==
  ASSUME IInv, NEW t \in Threads, Insert(t)
  PROVE  IInv'
<1> DEFINE new == [registration[t] EXCEPT !.phase = "inserted"]
<1>1. /\ InPhase(t, "inserting")
      /\ EmailIsFree(registration[t].email)
      /\ registration' = [registration EXCEPT ![t] = new]
      /\ UNCHANGED <<merchant, answers, migrated, owner, used, crashes, migrations>>
      /\ registration \in [Threads -> {Free} \cup Registration]
  BY DEF Insert, IInv, TypeOK
<1>2. registration[t] \in [email : Emails, key : Keys, phase : {"inserting", "inserted"}]
  BY <1>1, Phases DEF IInv, Uncommitted
<1>3. /\ new \in [email : Emails, key : Keys, phase : {"inserting", "inserted"}]
      /\ new.email = registration[t].email /\ new.key = registration[t].key
      /\ new.phase = "inserted"
  BY <1>2
<1>4. TypeOK'
  BY <1>1, <1>3 DEF IInv, TypeOK, Registration
<1>5. /\ \A u \in Threads : u # t => registration'[u] = registration[u]
      /\ registration'[t] = new
  BY <1>1
<1>6. Busy(t)
  BY <1>1, Phases DEF IInv, Uncommitted
<1>7. RegistrationsDiffer'
  BY <1>1, <1>3, <1>5, <1>6 DEF IInv, RegistrationsDiffer, Busy, InPhase, EmailIsFree
<1>8. NotYetStored'
  BY <1>1, <1>3, <1>5 DEF IInv, NotYetStored, Uncommitted, Exists, InPhase, EmailIsFree
<1>9. CommittedStored'
  BY <1>1, <1>3, <1>5 DEF IInv, CommittedStored, Exists, InPhase
<1>10. OwnersExist' /\ PrefixesStored' /\ AccountsAreDistinct' /\ AccountsStayApart'
  BY <1>1 DEF IInv, OwnersExist, PrefixesStored, AccountsAreDistinct, AccountsStayApart, Exists
<1>11. KeysReachTheirMerchants'
  BY <1>1, <1>5 DEF IInv, KeysReachTheirMerchants, Exists, InPhase
<1> QED
  BY <1>4, <1>7, <1>8, <1>9, <1>10, <1>11 DEF IInv

\* A thread that gives up leaves nothing behind, unless it had committed.
LEMMA FreeingKeeps ==
  ASSUME IInv, NEW T \in SUBSET Threads,
         registration' = [t \in Threads |-> IF t \in T THEN Free ELSE registration[t]],
         UNCHANGED <<merchant, answers, migrated, owner, used, migrations>>,
         crashes' \in 0..MaxCrashes,
         crashes' = 0 => crashes = 0 /\ \A t \in T : ~InPhase(t, "committed")
  PROVE  IInv'
<1>1. TypeOK'
  BY DEF IInv, TypeOK
<1>2. \A t \in Threads : /\ t \in T => registration'[t] = Free
                         /\ t \notin T => registration'[t] = registration[t]
  OBVIOUS
<1>3. RegistrationsDiffer'
  BY <1>2 DEF IInv, RegistrationsDiffer, Busy, InPhase, Free
<1>4. NotYetStored'
  BY <1>2 DEF IInv, NotYetStored, Uncommitted, Exists, InPhase, Free
<1>5. CommittedStored'
  BY <1>2 DEF IInv, CommittedStored, Exists, InPhase, Free
<1>6. OwnersExist' /\ PrefixesStored' /\ AccountsAreDistinct' /\ AccountsStayApart'
  BY DEF IInv, OwnersExist, PrefixesStored, AccountsAreDistinct, AccountsStayApart, Exists
<1>7. KeysReachTheirMerchants'
  BY <1>2 DEF IInv, KeysReachTheirMerchants, Exists, InPhase
<1> QED
  BY <1>1, <1>3, <1>4, <1>5, <1>6, <1>7 DEF IInv

LEMMA RefuseKeeps ==
  ASSUME IInv, NEW t \in Threads, Refuse(t)
  PROVE  IInv'
<1>1. registration' = [u \in Threads |-> IF u \in {t} THEN Free ELSE registration[u]]
  BY DEF Refuse, IInv, TypeOK
<1>2. \A u \in {t} : ~InPhase(u, "committed")
  BY DEF Refuse, InPhase
<1> QED
  BY <1>1, <1>2, FreeingKeeps DEF Refuse, IInv, TypeOK

LEMMA CrashKeeps ==
  ASSUME IInv, Crash
  PROVE  IInv'
<1>1. registration' = [u \in Threads |-> IF u \in Threads THEN Free ELSE registration[u]]
  BY DEF Crash
<1>2. crashes' \in 0..MaxCrashes /\ crashes' # 0
  BY BoundsAssumption DEF Crash, IInv, TypeOK
<1> QED
  BY <1>1, <1>2, FreeingKeeps DEF Crash

\* The new row is the thread's own: nobody has its email or its key.
LEMMA CommitKeeps ==
  ASSUME IInv, NEW t \in Threads, NEW m \in Merchants, Commit(t, m)
  PROVE  IInv'
<1> DEFINE e == registration[t].email
           k == registration[t].key
           row == NewRow(e, k)
           new == [merchant |-> m, key |-> k, phase |-> "committed"]
<1>1. /\ InPhase(t, "inserted") /\ ~Exists(m)
      /\ merchant' = [merchant EXCEPT ![m] = row]
      /\ registration' = [registration EXCEPT ![t] = new]
      /\ UNCHANGED <<answers, migrated, owner, used, crashes, migrations>>
      /\ merchant \in [Merchants -> {NoRow} \cup Row]
      /\ registration \in [Threads -> {Free} \cup Registration]
  BY DEF Commit, IInv, TypeOK
<1>2. e \in Emails /\ k \in Keys /\ Busy(t) /\ Uncommitted(t)
  BY <1>1, Phases DEF IInv, Uncommitted
<1>3. /\ row \in Row /\ row.email = e /\ row.api_key = k
      /\ row.key_prefix = get_key_prefix[k]
  BY <1>2, PrefixAssumption DEF Row, NewRow
<1>4. new \in Registration
  BY <1>2 DEF Registration
<1>5. TypeOK'
  BY <1>1, <1>3, <1>4 DEF IInv, TypeOK
<1>6. /\ \A u \in Threads : u # t => registration'[u] = registration[u]
      /\ registration'[t] = new
      /\ \A n \in Merchants : n # m => merchant'[n] = merchant[n]
      /\ merchant'[m] = row
  BY <1>1
<1>7. /\ \A n \in Merchants : Exists(n)' <=> n = m \/ Exists(n)
  BY <1>3, <1>6, <1>1, RowsExist DEF Exists
<1>8. RegistrationsDiffer'
  BY <1>1, <1>2, <1>6 DEF IInv, RegistrationsDiffer, Busy, InPhase
<1>9. NotYetStored'
  <2> SUFFICES ASSUME NEW u \in Threads, NEW n \in Merchants, Exists(n)'
               PROVE  /\ Uncommitted(u)' => merchant'[n].api_key # registration'[u].key
                      /\ InPhase(u, "inserted")' => merchant'[n].email # registration'[u].email
    BY DEF NotYetStored
  <2>1. CASE u = t
    BY <2>1, <1>6 DEF Uncommitted, InPhase
  <2>2. CASE u # t /\ n = m
    <3>1. Uncommitted(u) => Busy(u)
      BY Phases DEF IInv
    <3> QED
      BY <2>2, <3>1, <1>1, <1>2, <1>3, <1>6 DEF IInv, RegistrationsDiffer, Uncommitted, InPhase
  <2>3. CASE u # t /\ n # m
    BY <2>3, <1>6, <1>7 DEF IInv, NotYetStored, Uncommitted, InPhase
  <2> QED
    BY <2>1, <2>2, <2>3
<1>10. CommittedStored'
  <2> SUFFICES ASSUME NEW u \in Threads, InPhase(u, "committed")'
               PROVE  /\ Exists(registration[u].merchant)'
                      /\ merchant'[registration'[u].merchant].api_key = registration'[u].key
    BY DEF CommittedStored
  <2>1. CASE u = t
    BY <2>1, <1>3, <1>6, <1>7
  <2>2. CASE u # t
    <3>1. InPhase(u, "committed") /\ registration'[u] = registration[u]
      BY <2>2, <1>6 DEF InPhase
    <3>2. registration[u].merchant \in Merchants
      BY <3>1, Phases DEF IInv
    <3>3. registration[u].merchant # m
      BY <3>1, <1>1 DEF IInv, CommittedStored
    <3> QED
      BY <3>1, <3>2, <3>3, <1>6, <1>7 DEF IInv, CommittedStored
  <2> QED
    BY <2>1, <2>2
<1>11. PrefixesStored'
  BY <1>1, <1>3, <1>6, <1>7 DEF IInv, PrefixesStored
<1>12. AccountsAreDistinct'
  <2>1. \A n \in Merchants : Exists(n) => merchant[n].email # e /\ merchant[n].api_key # k
    BY <1>1, <1>2 DEF IInv, NotYetStored
  <2>2. \A a \in answers : a.merchant \in Merchants /\ a.merchant # m
    BY <1>1 DEF IInv, TypeOK, AccountsAreDistinct
  <2>3. \A n, o \in Merchants :
          Exists(n)' /\ Exists(o)' /\ n # o
            => merchant'[n].email # merchant'[o].email /\ merchant'[n].api_key # merchant'[o].api_key
    BY <2>1, <1>3, <1>6, <1>7 DEF IInv, AccountsAreDistinct
  <2>4. \A a \in answers' : Exists(a.merchant)' /\ merchant'[a.merchant].api_key = a.key
    BY <2>2, <1>1, <1>6, <1>7 DEF IInv, AccountsAreDistinct
  <2> QED
    BY <2>3, <2>4 DEF AccountsAreDistinct
<1>13. AccountsStayApart'
  <2> SUFFICES ASSUME NEW p \in Payments, NEW j \in used[p]
               PROVE  owner[p] # Nobody /\ merchant'[owner[p]].api_key = j
    BY <1>1 DEF AccountsStayApart
  <2>1. owner[p] # Nobody /\ merchant[owner[p]].api_key = j
    BY DEF IInv, AccountsStayApart
  <2>2. owner[p] \in Merchants /\ Exists(owner[p])
    BY <2>1 DEF IInv, TypeOK, OwnersExist
  <2> QED
    BY <2>1, <2>2, <1>1, <1>6
<1>14. KeysReachTheirMerchants'
  BY <1>1, <1>6, <1>7 DEF IInv, KeysReachTheirMerchants, InPhase
<1>15. OwnersExist'
  BY <1>1, <1>7 DEF IInv, TypeOK, OwnersExist
<1> QED
  BY <1>15, <1>5, <1>8, <1>9, <1>10, <1>11, <1>12, <1>13, <1>14 DEF IInv

\* The answer hands out the key of the thread's own row.
LEMMA AnswerKeeps ==
  ASSUME IInv, NEW t \in Threads, Answer(t)
  PROVE  IInv'
<1> DEFINE n == registration[t].merchant
           new == [merchant |-> n, key |-> registration[t].key]
<1>1. /\ InPhase(t, "committed")
      /\ answers' = answers \cup {new}
      /\ registration' = [registration EXCEPT ![t] = Free]
      /\ UNCHANGED <<merchant, migrated, owner, used, crashes, migrations>>
      /\ registration \in [Threads -> {Free} \cup Registration]
  BY DEF Answer, IInv, TypeOK
<1>2. n \in Merchants /\ registration[t].key \in Keys
  BY <1>1, Phases DEF IInv
<1>3. TypeOK'
  BY <1>1, <1>2 DEF IInv, TypeOK
<1>4. /\ \A u \in Threads : u # t => registration'[u] = registration[u]
      /\ registration'[t] = Free
  BY <1>1
<1>5. RegistrationsDiffer'
  BY <1>4 DEF IInv, RegistrationsDiffer, Busy, InPhase, Free
<1>6. NotYetStored' /\ CommittedStored'
  BY <1>1, <1>4 DEF IInv, NotYetStored, CommittedStored, Uncommitted, Exists, InPhase, Free
<1>7. OwnersExist' /\ PrefixesStored' /\ AccountsStayApart'
  BY <1>1 DEF IInv, OwnersExist, PrefixesStored, AccountsStayApart, Exists
<1>8. Exists(n) /\ merchant[n].api_key = registration[t].key
  BY <1>1 DEF IInv, CommittedStored
<1>9. AccountsAreDistinct'
  BY <1>1, <1>8 DEF IInv, AccountsAreDistinct, Exists
<1>10. KeysReachTheirMerchants'
  <2> SUFFICES ASSUME crashes = 0, NEW m \in Merchants, Exists(m)
               PROVE  \/ \E a \in answers' : a.merchant = m
                      \/ \E u \in Threads : InPhase(u, "committed")' /\ registration'[u].merchant = m
    BY <1>1 DEF KeysReachTheirMerchants, Exists
  <2>1. CASE \E a \in answers : a.merchant = m
    BY <2>1, <1>1
  <2>2. CASE m = n
    <3>1. new \in answers' /\ new.merchant = m
      BY <2>2, <1>1
    <3> QED
      BY <3>1
  <2>3. CASE m # n /\ \E u \in Threads : InPhase(u, "committed") /\ registration[u].merchant = m
    <3>1. PICK u \in Threads : InPhase(u, "committed") /\ registration[u].merchant = m
      BY <2>3
    <3>2. u # t
      BY <3>1, <2>3
    <3> QED
      BY <3>1, <3>2, <1>4 DEF InPhase
  <2> QED
    BY <2>1, <2>2, <2>3 DEF IInv, KeysReachTheirMerchants
<1> QED
  BY <1>3, <1>5, <1>6, <1>7, <1>9, <1>10 DEF IInv

\* The key that a request passes with is the key of the owner's row.
LEMMA RequestKeeps ==
  ASSUME IInv, NEW k \in Keys, NEW m \in Merchants, NEW p \in Payments,
         CreatePayment(k, m, p) \/ ReachPayment(k, m, p)
  PROVE  IInv'
<1>1. /\ Exists(m) /\ merchant[m].api_key = k
      /\ UNCHANGED <<merchant, registration, answers, migrated, crashes, migrations>>
  BY DEF CreatePayment, ReachPayment, Authenticates, Candidates, verify_api_key
<1>2. m # Nobody
  BY NobodyAssumption
<1>3. /\ owner' \in [Payments -> Merchants \cup {Nobody}]
      /\ used' \in [Payments -> SUBSET Keys]
      /\ owner'[p] = m
      /\ used'[p] = {k} \/ (owner[p] = m /\ used'[p] = used[p] \cup {k})
      /\ \A q \in Payments : q # p => owner'[q] = owner[q] /\ used'[q] = used[q]
  BY DEF CreatePayment, ReachPayment, IInv, TypeOK
<1>4. TypeOK'
  BY <1>1, <1>3 DEF IInv, TypeOK
<1>5. OwnersExist'
  BY <1>1, <1>3 DEF IInv, OwnersExist, Exists
<1>6. AccountsStayApart'
  BY <1>1, <1>2, <1>3 DEF IInv, AccountsStayApart
<1>7. /\ RegistrationsDiffer' /\ NotYetStored' /\ CommittedStored'
      /\ PrefixesStored' /\ AccountsAreDistinct' /\ KeysReachTheirMerchants'
  BY <1>1 DEF IInv, RegistrationsDiffer, NotYetStored, CommittedStored, PrefixesStored,
              AccountsAreDistinct, KeysReachTheirMerchants, Exists, InPhase, Busy, Uncommitted
<1> QED
  BY <1>4, <1>5, <1>6, <1>7 DEF IInv

\* A migration changes prefixes only.
LEMMA MigrateKeeps ==
  ASSUME IInv, Migrate
  PROVE  IInv'
<1>1. /\ \A t \in Threads : registration[t] = Free
      /\ merchant \in [Merchants -> {NoRow} \cup Row]
      /\ merchant' = [m \in Merchants |-> IF Exists(m)
                                            THEN [merchant[m] EXCEPT !.key_prefix = NoPrefix]
                                            ELSE NoRow]
      /\ migrated' = {m \in Merchants : Exists(m)}
      /\ UNCHANGED <<registration, answers, owner, used, crashes>>
      /\ migrations' \in 0..MaxMigrations
  BY BoundsAssumption DEF Migrate, IInv, TypeOK
<1>2. ASSUME NEW m \in Merchants, Exists(m)
      PROVE  /\ merchant'[m] \in Row
             /\ merchant'[m].email = merchant[m].email
             /\ merchant'[m].api_key = merchant[m].api_key
  <2>1. merchant[m] \in Row
    BY <1>1, <1>2 DEF Exists
  <2>2. merchant'[m] = [merchant[m] EXCEPT !.key_prefix = NoPrefix]
    BY <1>1, <1>2
  <2> QED
    BY <2>1, <2>2 DEF Row
<1>3. \A m \in Merchants : ~Exists(m) => merchant'[m] = NoRow
  BY <1>1
<1>4. \A m \in Merchants : Exists(m)' <=> Exists(m)
  BY <1>2, <1>3, RowsExist DEF Exists
<1>5. TypeOK'
  <2>1. \A m \in Merchants : merchant'[m] \in {NoRow} \cup Row
    BY <1>2, <1>3
  <2>2. merchant' \in [Merchants -> {NoRow} \cup Row]
    BY <2>1, <1>1
  <2> QED
    BY <1>1, <2>2 DEF IInv, TypeOK
<1>6. RegistrationsDiffer' /\ NotYetStored' /\ CommittedStored'
  BY <1>1 DEF RegistrationsDiffer, NotYetStored, CommittedStored, Busy, Uncommitted, InPhase, Free
<1>7. OwnersExist' /\ AccountsStayApart'
  BY <1>1, <1>2, <1>4 DEF IInv, TypeOK, OwnersExist, AccountsStayApart
<1>8. PrefixesStored'
  BY <1>1, <1>4 DEF PrefixesStored
<1>9. AccountsAreDistinct'
  BY <1>1, <1>2, <1>4 DEF IInv, TypeOK, AccountsAreDistinct
<1>10. KeysReachTheirMerchants'
  BY <1>1, <1>4 DEF IInv, KeysReachTheirMerchants, InPhase
<1> QED
  BY <1>5, <1>6, <1>7, <1>8, <1>9, <1>10 DEF IInv

LEMMA NextIInv ==
  ASSUME IInv, [Next]_vars
  PROVE  IInv'
<1>1. CASE \E t \in Threads : \E e \in Emails, k \in Keys : BeginRegistration(t, e, k)
  BY <1>1, BeginKeeps
<1>2. CASE \E t \in Threads : Insert(t) \/ Refuse(t) \/ Answer(t)
  BY <1>2, InsertKeeps, RefuseKeeps, AnswerKeeps
<1>3. CASE \E t \in Threads : \E m \in Merchants : Commit(t, m)
  BY <1>3, CommitKeeps
<1>4. CASE \E k \in Keys, m \in Merchants, p \in Payments :
             CreatePayment(k, m, p) \/ ReachPayment(k, m, p)
  BY <1>4, RequestKeeps
<1>5. CASE Migrate
  BY <1>5, MigrateKeeps
<1>6. CASE Crash
  BY <1>6, CrashKeeps
<1>7. CASE UNCHANGED vars
  BY <1>7 DEF vars, IInv, TypeOK, OwnersExist, RegistrationsDiffer, NotYetStored,
              CommittedStored, PrefixesStored, AccountsAreDistinct, AccountsStayApart,
              KeysReachTheirMerchants, Exists, InPhase, Busy, Uncommitted
<1> QED
  BY <1>1, <1>2, <1>3, <1>4, <1>5, <1>6, <1>7 DEF Next

LEMMA Invariance == Spec => []IInv
<1>1. IInv /\ [Next]_vars => IInv'
  BY NextIInv
<1> QED
  BY InitIInv, <1>1, PTL DEF Spec

-----------------------------------------------------------------------------
\* Rows, registrations and answers keep their shape.
THEOREM TypeCorrect == Spec => []TypeOK
<1>1. IInv => TypeOK
  BY DEF IInv
<1> QED
  BY Invariance, <1>1, PTL

\* Overlapping registrations never give two merchants one email or one key
\* (create_merchant).
THEOREM DistinctAccounts == Spec => []AccountsAreDistinct
<1>1. IInv => AccountsAreDistinct
  BY DEF IInv
<1> QED
  BY Invariance, <1>1, PTL

\* Only the owner's key reaches a payment, however many keys begin alike
\* (get_current_merchant, _get_owned_payment).
THEOREM OnlyTheOwnersKey == Spec => []AccountsStayApart
<1>1. IInv => AccountsStayApart
  BY DEF IInv
<1> QED
  BY Invariance, <1>1, PTL

\* Without a crash every registered merchant gets its key (create_merchant).
THEOREM KeysArrive == Spec => []KeysReachTheirMerchants
<1>1. IInv => KeysReachTheirMerchants
  BY DEF IInv
<1> QED
  BY Invariance, <1>1, PTL

\* A key that was handed out opens its account, but for migrations and other
\* keys that begin like it (get_current_merchant).
THEOREM KeysOpen == Spec => []KeysOpenTheirAccount
<1>1. IInv => KeysOpenTheirAccount
  <2> SUFFICES ASSUME IInv, NEW a \in answers, a.merchant \notin migrated,
                      ~ \E m \in Merchants \ {a.merchant} :
                          Exists(m) /\ merchant[m].key_prefix = get_key_prefix[a.key]
               PROVE  Candidates(a.key) = {a.merchant} /\ Authenticates(a.key, a.merchant)
    BY DEF KeysOpenTheirAccount
  <2>1. a.merchant \in Merchants /\ Exists(a.merchant) /\ merchant[a.merchant].api_key = a.key
    BY DEF IInv, TypeOK, AccountsAreDistinct
  <2>2. merchant[a.merchant].key_prefix = get_key_prefix[a.key]
    BY <2>1 DEF IInv, PrefixesStored
  <2>3. Candidates(a.key) = {a.merchant}
    BY <2>1, <2>2 DEF Candidates
  <2> QED
    BY <2>1, <2>3 DEF Authenticates, verify_api_key
<1> QED
  BY Invariance, <1>1, PTL
=============================================================================
