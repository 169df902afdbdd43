--------------------------- MODULE CustomerProofs ----------------------------
(***************************************************************************)
(* Proofs about what a customer is sent and offered: one-time passwords    *)
(* (Otp), discounts (Offers), notifications (Notifications).               *)
(*                                                                         *)
(* The three share no variable, so each has a specification and an         *)
(* invariant of its own.                                                   *)
(***************************************************************************)
EXTENDS Otp, Offers, Notifications, FiniteSetTheorems, TLAPS

-----------------------------------------------------------------------------
(***************************************************************************)
(* Proofs about Otp, for any number of requests, attempts and codes.       *)
(*                                                                         *)
(* The three properties talk about rows, but what breaks them is a request *)
(* that read a row and writes to it later.  The inductive invariant says   *)
(* what a pending guess knows about the row it read (GuessesFit), what an  *)
(* activation rests on (ActivationsFit), and that misses on record and     *)
(* guesses under way are together within the bound (GuessesCounted).       *)
(***************************************************************************)
Guessing(r, t) == request[r].step \in {"verify", "reset"} /\ request[r].type = t
Pending(t) == {r \in Requests : Guessing(r, t)}

(* The row a guess has read is there, and its id never goes back. *)
GuessesFit ==
  \A r \in Requests : \A t \in Types : Guessing(r, t) => 1 <= request[r].id /\ request[r].id <= code[t].id

(* An account waits for its activation after a signup code was entered. *)
ActivationsFit ==
  \A r \in Requests : request[r].step = "activate" => <<"signup", request[r].id>> \in entered

GuessesCounted ==
  \A t \in Types : code[t].attempts + Cardinality(Pending(t)) < MaxAttempts + Cardinality(Requests)

OtpInv == TypeOK /\ GuessesFit /\ ActivationsFit /\ UsedWasEntered /\ ActivationIsProved

(* Some of the requests: as many as all of them at most. *)
LEMMA RequestCount ==
  ASSUME NEW S \in SUBSET Requests
  PROVE  /\ IsFiniteSet(S) /\ Cardinality(S) \in Nat /\ Cardinality(Requests) \in Nat
         /\ Cardinality(S) <= Cardinality(Requests)
         /\ \A T \in SUBSET S : Cardinality(T) \in Nat /\ Cardinality(T) <= Cardinality(S)
         /\ \A r \in S : Cardinality(S \ {r}) = Cardinality(S) - 1
  <1>1. IsFiniteSet(S) /\ Cardinality(S) <= Cardinality(Requests)
    BY OtpAssumption, FS_Subset
  <1>2. \A T \in SUBSET S : IsFiniteSet(T) /\ Cardinality(T) <= Cardinality(S)
    BY <1>1, FS_Subset
  <1>3. \A r \in S : Cardinality(S \ {r}) = Cardinality(S) - 1
    BY <1>1, FS_RemoveElement
  <1> QED BY <1>1, <1>2, <1>3, OtpAssumption, FS_CardinalityType

(* What the type invariant says of one row. *)
LEMMA CodeFields ==
  ASSUME TypeOK, NEW t \in Types
  PROVE  /\ code[t] \in Code
         /\ code[t].id \in Nat /\ code[t].id \in 0 .. MaxSends /\ code[t].attempts \in Nat
  BY OtpAssumption DEF TypeOK, Code

LEMMA OtpInit == Init => OtpInv
  <1> SUFFICES ASSUME Init PROVE OtpInv
    OBVIOUS
  <1>1. NoCode \in Code /\ Idle \in Request
    BY OtpAssumption DEF NoCode, NewCode, Code, Idle, Request, Types
  <1> QED
    BY <1>1 DEF Init, OtpInv, TypeOK, GuessesFit, ActivationsFit, UsedWasEntered,
                ActivationIsProved, Guessing, Idle, NoCode, NewCode

(* Registering, a Google sign-in and ActivateCustomer change the customer  *)
(* only, and requests that end take no code with them.                     *)
LEMMA CustomerStep ==
  ASSUME OtpInv,
         \/ RegisterCustomer \/ GoogleLoginCustomer
         \/ \E r \in Requests : ActivateCustomer(r) \/ RequestFails(r)
  PROVE  OtpInv'
  <1>1. CASE RegisterCustomer \/ GoogleLoginCustomer
    BY <1>1 DEF RegisterCustomer, GoogleLoginCustomer, OtpInv, TypeOK, GuessesFit, ActivationsFit, UsedWasEntered,
                ActivationIsProved, Guessing
  <1>2. ASSUME NEW r \in Requests, ActivateCustomer(r) \/ RequestFails(r)
        PROVE  OtpInv'
    <2>1. /\ UNCHANGED <<code, entered, google>> /\ request' = [request EXCEPT ![r] = Idle]
          /\ customer' = customer \/ (request[r].step = "activate" /\ customer' = "verified")
      BY <1>2 DEF ActivateCustomer, RequestFails
    <2>2. Idle \in Request /\ Idle.step = "idle"
      BY OtpAssumption DEF Idle, Request, Types
    <2>3. \A q \in Requests : request'[q] = Idle \/ request'[q] = request[q]
      BY <2>1 DEF OtpInv, TypeOK
    <2>4. request[r].step = "activate" => <<"signup", request[r].id>> \in Types \X (1 .. MaxSends)
      BY DEF OtpInv, ActivationsFit, TypeOK
    <2>5. request[r].step = "activate" => \E i \in 1 .. MaxSends : <<"signup", i>> \in entered
      BY <2>4 DEF OtpInv, ActivationsFit
    <2>6. customer' = "none" => customer = "none"
      BY <2>1
    <2>7. TypeOK'
      BY <2>1, <2>2, <2>6 DEF OtpInv, TypeOK
    <2>8. GuessesFit' /\ ActivationsFit'
      BY <2>1, <2>2, <2>3 DEF OtpInv, GuessesFit, ActivationsFit, Guessing
    <2>9. UsedWasEntered' /\ ActivationIsProved'
      BY <2>1, <2>5 DEF OtpInv, UsedWasEntered, ActivationIsProved
    <2> QED BY <2>7, <2>8, <2>9 DEF OtpInv
  <1> QED BY <1>1, <1>2

(* A new code, an expiry or a miss: nothing is marked, no id goes back.    *)
LEMMA CodeStep ==
  ASSUME OtpInv, NEW t \in Types, NEW row \in Code,
         code' = [code EXCEPT ![t] = row], UNCHANGED <<customer, entered, google>>,
         customer # "none",
         row.id >= code[t].id, row.used => code[t].used,
         \A r \in Requests : request'[r] = request[r] \/ request'[r] = Idle,
         request' \in [Requests -> Request]
  PROVE  OtpInv'
  <1>1. \A u \in Types : code'[u].id >= code[u].id /\ (code'[u].used => code[u].used)
    BY CodeFields DEF OtpInv, TypeOK
  <1>2. TypeOK'
    BY DEF OtpInv, TypeOK
  <1>3. Idle.step = "idle"
    BY DEF Idle
  <1>4. GuessesFit'
    <2> SUFFICES ASSUME NEW r \in Requests, NEW u \in Types, Guessing(r, u)'
                 PROVE  1 <= request'[r].id /\ request'[r].id <= code'[u].id
      BY DEF GuessesFit
    <2>1. request'[r] = request[r] /\ Guessing(r, u)
      BY <1>3 DEF Guessing
    <2>2. request[r].id \in Nat
      BY OtpAssumption DEF OtpInv, TypeOK, Request
    <2>3. code[u].id \in Nat /\ code'[u].id \in Nat
      BY <1>2, CodeFields, OtpAssumption DEF OtpInv, TypeOK, Code
    <2> QED BY <2>1, <2>2, <2>3, <1>1 DEF OtpInv, GuessesFit
  <1>5. ActivationsFit' /\ ActivationIsProved'
    BY <1>3 DEF OtpInv, ActivationsFit, ActivationIsProved
  <1>6. UsedWasEntered'
    <2> SUFFICES ASSUME NEW u \in Types, code'[u].used
                 PROVE  \E i \in 1 .. code'[u].id : <<u, i>> \in entered
      BY DEF UsedWasEntered
    <2>1. PICK i \in 1 .. code[u].id : <<u, i>> \in entered
      BY <1>1 DEF OtpInv, UsedWasEntered
    <2>2. code[u].id \in Nat /\ code'[u].id \in Nat
      BY <1>2, CodeFields, OtpAssumption DEF OtpInv, TypeOK, Code
    <2>3. i \in 1 .. code'[u].id
      BY <2>1, <2>2, <1>1
    <2> QED BY <2>1, <2>3
  <1> QED BY <1>2, <1>4, <1>5, <1>6 DEF OtpInv

(* Codes belong to a customer. *)
LEMMA CodeNeedsCustomer ==
  ASSUME TypeOK, NEW t \in Types, code[t].id > 0
  PROVE  customer # "none"
  BY DEF TypeOK, NoCode, NewCode

LEMMA SendStep ==
  ASSUME OtpInv, NEW t \in Types, SendOtp(t) \/ CodeExpires(t)
  PROVE  OtpInv'
  <1> DEFINE sent == NewCode(code[t].id + 1)
             late == [code[t] EXCEPT !.expired = TRUE]
  <1>1. code[t] \in Code /\ code[t].id \in Nat /\ code[t].id <= MaxSends
    BY CodeFields, OtpAssumption DEF OtpInv
  <1>2. CASE SendOtp(t)
    <2>2. code[t].id + 1 \in 0 .. MaxSends
      BY <1>1, <1>2, OtpAssumption DEF SendOtp
    <2>3. sent \in Code /\ sent.id >= code[t].id /\ ~sent.used
      BY <1>1, <2>2 DEF NewCode, Code
    <2>4. /\ code' = [code EXCEPT ![t] = sent] /\ customer # "none"
          /\ UNCHANGED <<customer, request, entered, google>>
      BY <1>2 DEF SendOtp
    <2>5. request' \in [Requests -> Request] /\ \A r \in Requests : request'[r] = request[r]
      BY <2>4 DEF OtpInv, TypeOK
    <2> HIDE DEF sent
    <2> QED BY <2>3, <2>4, <2>5, CodeStep
  <1>3. CASE CodeExpires(t)
    <2>1. late \in Code /\ late.id = code[t].id /\ late.used = code[t].used
      BY <1>1 DEF Code
    <2>2. code' = [code EXCEPT ![t] = late]
      BY <1>3 DEF CodeExpires, OtpInv, TypeOK
    <2>3. customer # "none"
      BY <1>3, CodeNeedsCustomer DEF CodeExpires, OtpInv
    <2>4. UNCHANGED <<customer, request, entered, google>>
      BY <1>3 DEF CodeExpires
    <2>5. late.id >= code[t].id
      BY <1>1, <2>1
    <2>6. request' \in [Requests -> Request] /\ \A r \in Requests : request'[r] = request[r]
      BY <2>4 DEF OtpInv, TypeOK
    <2> HIDE DEF late
    <2> QED BY <2>1, <2>2, <2>3, <2>4, <2>5, <2>6, CodeStep
  <1> QED BY <1>2, <1>3

LEMMA WrongStep ==
  ASSUME OtpInv, NEW r \in Requests, WrongCode(r)
  PROVE  OtpInv'
  <1> DEFINE t == request[r].type
             row == [code[t] EXCEPT !.attempts = @ + 1]
  <1>1. t \in Types /\ request[r].step \in {"verify", "reset"} /\ Guessing(r, t)
    BY DEF WrongCode, OtpInv, TypeOK, Request, Guessing
  <1>2. code[t] \in Code /\ code[t].id \in Nat /\ code[t].id > 0
    <2>1. request[r].id \in Nat
      BY OtpAssumption DEF OtpInv, TypeOK, Request
    <2> QED BY <1>1, <2>1, CodeFields DEF OtpInv, GuessesFit
  <1>3. row \in Code /\ row.id = code[t].id /\ row.used = code[t].used
    BY <1>2 DEF Code
  <1>4. code' = [code EXCEPT ![t] = row] /\ UNCHANGED <<customer, entered, google>>
    BY DEF WrongCode, OtpInv, TypeOK
  <1>5. request' \in [Requests -> Request] /\ \A q \in Requests : request'[q] \in {request[q], Idle}
    BY OtpAssumption DEF WrongCode, OtpInv, TypeOK, Idle, Request, Types
  <1>6. customer # "none"
    BY <1>1, <1>2, CodeNeedsCustomer DEF OtpInv
  <1>7. row.id >= code[t].id
    BY <1>2, <1>3
  <1> HIDE DEF row
  <1> QED BY <1>1, <1>3, <1>4, <1>5, <1>6, <1>7, CodeStep

LEMMA ReadStep ==
  ASSUME OtpInv, NEW r \in Requests, NEW t \in Types,
         ReadCode(r, t, "verify") \/ ReadCode(r, t, "reset")
  PROVE  OtpInv'
  <1>1. PICK e \in {"verify", "reset"} : ReadCode(r, t, e)
    OBVIOUS
  <1> DEFINE new == [step |-> e, type |-> t, id |-> code[t].id]
  <1>2. code[t].id \in Nat /\ code[t].id \in 0 .. MaxSends /\ code[t].id > 0
    BY <1>1, CodeFields DEF OtpInv, ReadCode, Guessable
  <1>3. new \in Request
    BY <1>2 DEF Request
  <1>4. request' = [request EXCEPT ![r] = new] /\ UNCHANGED <<customer, code, entered, google>>
    BY <1>1 DEF ReadCode
  <1>5. \A q \in Requests : request'[q] = IF q = r THEN new ELSE request[q]
    BY <1>4 DEF OtpInv, TypeOK
  <1>6. TypeOK'
    BY <1>3, <1>4 DEF OtpInv, TypeOK
  <1>7. GuessesFit' /\ ActivationsFit'
    BY <1>2, <1>4, <1>5 DEF OtpInv, GuessesFit, ActivationsFit, Guessing
  <1> QED BY <1>4, <1>6, <1>7 DEF OtpInv, UsedWasEntered, ActivationIsProved

(* The right code is marked, and noted as entered before it is.            *)
LEMMA RightStep ==
  ASSUME OtpInv, NEW r \in Requests, RightCode(r)
  PROVE  OtpInv'
  <1> DEFINE t == request[r].type
             i == request[r].id
             e == request[r].step
  <1>1. t \in Types /\ e \in {"verify", "reset"} /\ Guessing(r, t) /\ i \in 0 .. MaxSends
    BY DEF RightCode, OtpInv, TypeOK, Request, Guessing
  <1>2. /\ code[t] \in Code /\ code[t].id \in Nat /\ i \in Nat
        /\ i >= 1 /\ i <= code[t].id /\ i \in 1 .. MaxSends
    BY <1>1, CodeFields, OtpAssumption DEF OtpInv, GuessesFit
  <1>3. /\ code' = [code EXCEPT ![t].used = TRUE]
        /\ entered' = entered \cup {<<t, i>>}
        /\ request' = [request EXCEPT ![r].step = NextStep(e, t)]
        /\ customer' = customer /\ google' = google
    BY DEF RightCode, Marked
  <1>4. /\ \A u \in Types : code'[u].id = code[u].id /\ (u # t => code'[u] = code[u])
        /\ code' \in [Types -> Code]
    BY <1>2, <1>3 DEF OtpInv, TypeOK, Code
  <1>5. \A q \in Requests : /\ q # r => request'[q] = request[q]
                            /\ request'[q].id = request[q].id
                            /\ request'[q].type = request[q].type
    BY <1>3 DEF OtpInv, TypeOK, Request
  <1>6. /\ NextStep(e, t) \in {"activate", "idle"}
        /\ NextStep(e, t) = "activate" => t = "signup"
        /\ request'[r].step = NextStep(e, t)
        /\ request' \in [Requests -> Request]
    BY <1>3 DEF NextStep, OtpInv, TypeOK, Request
  <1>7. TypeOK'
    <2>1. customer # "none"
      BY <1>1, <1>2, CodeNeedsCustomer DEF OtpInv
    <2> QED BY <1>1, <1>2, <1>3, <1>4, <1>6, <2>1 DEF OtpInv, TypeOK
  <1>8. GuessesFit'
    BY <1>4, <1>5, <1>6 DEF OtpInv, GuessesFit, Guessing
  <1>9. ActivationsFit'
    <2> SUFFICES ASSUME NEW q \in Requests, request'[q].step = "activate"
                 PROVE  <<"signup", request'[q].id>> \in entered'
      BY DEF ActivationsFit
    <2>1. CASE q = r
      BY <2>1, <1>3, <1>5, <1>6
    <2>2. CASE q # r
      BY <2>2, <1>3, <1>5 DEF OtpInv, ActivationsFit
    <2> QED BY <2>1, <2>2
  <1>10. UsedWasEntered'
    <2> SUFFICES ASSUME NEW u \in Types, code'[u].used
                 PROVE  \E j \in 1 .. code'[u].id : <<u, j>> \in entered'
      BY DEF UsedWasEntered
    <2>1. CASE u = t
      BY <2>1, <1>2, <1>3, <1>4
    <2>2. CASE u # t
      BY <2>2, <1>3, <1>4 DEF OtpInv, UsedWasEntered
    <2> QED BY <2>1, <2>2
  <1>11. ActivationIsProved'
    BY <1>3 DEF OtpInv, ActivationIsProved
  <1> QED BY <1>7, <1>8, <1>9, <1>10, <1>11 DEF OtpInv

LEMMA OtpStep == OtpInv /\ [Next]_vars => OtpInv'
  <1> SUFFICES ASSUME OtpInv, [Next]_vars PROVE OtpInv'
    OBVIOUS
  <1>1. CASE UNCHANGED vars
    BY <1>1 DEF vars, OtpInv, TypeOK, GuessesFit, ActivationsFit, UsedWasEntered,
                ActivationIsProved, Guessing
  <1>2. CASE Next
    <2>1. "password_reset" \in Types
      BY DEF Types
    <2> QED
      BY <1>2, <2>1, CustomerStep, SendStep, WrongStep, ReadStep, RightStep
      DEF Next, ForgotPasswordCustomer, VerifyOtp, ResetPasswordCustomer
  <1> QED BY <1>1, <1>2

(* Fewer guesses and no more misses than before. *)
LEMMA CountedIfFewer ==
  ASSUME OtpInv, OtpInv', GuessesCounted, NEW t \in Types,
         Pending(t)' \subseteq Pending(t), code'[t].attempts <= code[t].attempts
  PROVE  code'[t].attempts + Cardinality(Pending(t)') < MaxAttempts + Cardinality(Requests)
  <1>1. code[t].attempts \in Nat /\ code'[t].attempts \in Nat
    BY DEF OtpInv, TypeOK, Code
  <1>2. Pending(t) \in SUBSET Requests
    BY DEF Pending
  <1>3. /\ Cardinality(Pending(t)) \in Nat /\ Cardinality(Requests) \in Nat
        /\ Cardinality(Pending(t)') \in Nat /\ Cardinality(Pending(t)') <= Cardinality(Pending(t))
    BY <1>2, RequestCount
  <1> QED BY <1>1, <1>3, OtpAssumption DEF GuessesCounted

(* A guess begins only below the limit, and a miss ends a guess. *)
LEMMA CountedRead ==
  ASSUME OtpInv, OtpInv', GuessesCounted, NEW r \in Requests, NEW u \in Types,
         ReadCode(r, u, "verify") \/ ReadCode(r, u, "reset"), NEW t \in Types
  PROVE  code'[t].attempts + Cardinality(Pending(t)') < MaxAttempts + Cardinality(Requests)
  <1>1. code' = code /\ code[u].attempts < MaxAttempts /\ code[t].attempts \in Nat
    BY DEF ReadCode, Guessable, OtpInv, TypeOK, Code
  <1>2. CASE t = u
    <2>1. Pending(t)' \in SUBSET Requests
      BY DEF Pending
    <2>2. /\ Cardinality(Pending(t)') \in Nat /\ Cardinality(Requests) \in Nat
          /\ Cardinality(Pending(t)') <= Cardinality(Requests)
      BY <2>1, RequestCount
    <2> QED BY <1>1, <1>2, <2>2, OtpAssumption
  <1>3. CASE t # u
    <2>1. \A q \in Requests : Guessing(q, t)' => Guessing(q, t)
      BY <1>3 DEF ReadCode, Guessing, OtpInv, TypeOK
    <2>2. Pending(t)' \subseteq Pending(t)
      BY <2>1 DEF Pending
    <2> QED BY <1>1, <2>2, CountedIfFewer
  <1> QED BY <1>2, <1>3

LEMMA CountedWrong ==
  ASSUME OtpInv, OtpInv', GuessesCounted, NEW r \in Requests, WrongCode(r), NEW t \in Types
  PROVE  code'[t].attempts + Cardinality(Pending(t)') < MaxAttempts + Cardinality(Requests)
  <1>1. \A q \in Requests : request'[q] = IF q = r THEN Idle ELSE request[q]
    BY DEF WrongCode, OtpInv, TypeOK
  <1>2. code[t].attempts \in Nat
    BY DEF OtpInv, TypeOK, Code
  <1>3. \A q \in Requests : Guessing(q, t)' <=> q # r /\ Guessing(q, t)
    BY <1>1 DEF Guessing, Idle
  <1>4. Pending(t)' = Pending(t) \ {r}
    BY <1>3 DEF Pending
  <1>5. CASE request[r].type = t
    <2>1. r \in Pending(t) /\ Pending(t) \in SUBSET Requests
      BY <1>5 DEF WrongCode, Pending, Guessing
    <2>2. code'[t].attempts = code[t].attempts + 1
      BY <1>5 DEF WrongCode, OtpInv, TypeOK, Code
    <2>3. /\ Cardinality(Pending(t)) \in Nat /\ Cardinality(Requests) \in Nat
          /\ Cardinality(Pending(t)') = Cardinality(Pending(t)) - 1
      BY <1>4, <2>1, RequestCount
    <2> QED BY <1>2, <2>2, <2>3, OtpAssumption DEF GuessesCounted
  <1>6. CASE request[r].type # t
    <2>1. code'[t] = code[t]
      BY <1>6 DEF WrongCode, OtpInv, TypeOK
    <2> QED BY <1>2, <1>4, <2>1, CountedIfFewer
  <1> QED BY <1>5, <1>6

LEMMA CountedStep == OtpInv /\ OtpInv' /\ GuessesCounted /\ [Next]_vars => GuessesCounted'
  <1> SUFFICES ASSUME OtpInv, OtpInv', GuessesCounted, [Next]_vars, NEW t \in Types
               PROVE  code'[t].attempts + Cardinality(Pending(t)') < MaxAttempts + Cardinality(Requests)
    BY DEF GuessesCounted
  <1>1. \A u \in Types : code[u] \in Code /\ code[u].attempts \in Nat /\ code'[u].attempts \in Nat
    BY DEF OtpInv, TypeOK, Code
  <1>2. CASE UNCHANGED vars \/ RegisterCustomer \/ GoogleLoginCustomer
    <2>1. UNCHANGED <<code, request>>
      BY <1>2 DEF vars, RegisterCustomer, GoogleLoginCustomer
    <2>2. Pending(t)' \subseteq Pending(t)
      BY <2>1 DEF Pending, Guessing
    <2> QED BY <1>1, <2>1, <2>2, CountedIfFewer
  <1>3. ASSUME NEW u \in Types, SendOtp(u) \/ CodeExpires(u)
        PROVE  code'[t].attempts + Cardinality(Pending(t)') < MaxAttempts + Cardinality(Requests)
    <2>1. request' = request
      BY <1>3 DEF SendOtp, CodeExpires
    <2>2. Pending(t)' \subseteq Pending(t)
      BY <2>1 DEF Pending, Guessing
    <2>3. code'[t].attempts <= code[t].attempts
      <3>1. CASE SendOtp(u)
        BY <1>1, <3>1 DEF SendOtp, NewCode, OtpInv, TypeOK
      <3>2. CASE CodeExpires(u)
        BY <1>1, <3>2 DEF CodeExpires, OtpInv, TypeOK, Code
      <3> QED BY <1>3, <3>1, <3>2
    <2> QED BY <2>2, <2>3, CountedIfFewer
  <1>4. ASSUME NEW r \in Requests, ActivateCustomer(r) \/ RequestFails(r) \/ RightCode(r)
        PROVE  code'[t].attempts + Cardinality(Pending(t)') < MaxAttempts + Cardinality(Requests)
    <2>1. \A q \in Requests : Guessing(q, t)' => Guessing(q, t)
      <3>1. \A q \in Requests : q # r => request'[q] = request[q]
        BY <1>4 DEF ActivateCustomer, RequestFails, RightCode, OtpInv, TypeOK
      <3>2. request'[r].step \in {"idle", "activate"}
        <4>1. CASE ActivateCustomer(r) \/ RequestFails(r)
          BY <4>1 DEF ActivateCustomer, RequestFails, Idle, OtpInv, TypeOK
        <4>2. CASE RightCode(r)
          BY <4>2 DEF RightCode, NextStep, OtpInv, TypeOK, Request
        <4> QED BY <1>4, <4>1, <4>2
      <3> QED BY <3>1, <3>2 DEF Guessing
    <2>2. Pending(t)' \subseteq Pending(t)
      BY <2>1 DEF Pending
    <2>3. code'[t].attempts <= code[t].attempts
      BY <1>1, <1>4 DEF ActivateCustomer, RequestFails, RightCode, Marked, OtpInv, TypeOK, Code
    <2> QED BY <2>2, <2>3, CountedIfFewer
  <1>5. "password_reset" \in Types
    BY DEF Types
  <1> QED
    BY <1>2, <1>3, <1>4, <1>5, CountedRead, CountedWrong
    DEF Next, ForgotPasswordCustomer, VerifyOtp, ResetPasswordCustomer

LEMMA CountedInit == Init => GuessesCounted
  <1> SUFFICES ASSUME Init, NEW t \in Types
               PROVE  code[t].attempts + Cardinality(Pending(t)) < MaxAttempts + Cardinality(Requests)
    BY DEF GuessesCounted
  <1>1. Pending(t) \in SUBSET Requests
    BY DEF Pending
  <1>2. /\ Cardinality(Pending(t)) \in Nat /\ Cardinality(Requests) \in Nat
        /\ Cardinality(Pending(t)) <= Cardinality(Requests)
    BY <1>1, RequestCount
  <1> QED BY <1>2, OtpAssumption DEF Init, NoCode, NewCode

LEMMA CountedBounds == OtpInv /\ GuessesCounted => AttemptsAreBounded
  <1> SUFFICES ASSUME OtpInv, GuessesCounted, NEW t \in Types
               PROVE  code[t].attempts < MaxAttempts + Cardinality(Requests)
    BY DEF AttemptsAreBounded
  <1>1. code[t].attempts \in Nat /\ Pending(t) \in SUBSET Requests
    BY DEF OtpInv, TypeOK, Code, Pending
  <1>2. Cardinality(Pending(t)) \in Nat /\ Cardinality(Requests) \in Nat
    BY <1>1, RequestCount
  <1> QED BY <1>1, <1>2, OtpAssumption DEF GuessesCounted

(* The types of the variables, and codes only for customers there are. *)
THEOREM OtpTypeCorrect == Spec => []TypeOK
  <1>1. OtpInv => TypeOK
    BY DEF OtpInv
  <1> QED BY <1>1, OtpInit, OtpStep, PTL DEF Spec

(* A code that is marked used, or one it replaced, was entered right:      *)
(* verifyOtp and resetPasswordCustomer never spend each other's codes.     *)
THEOREM OtpUsedWasEntered == Spec => []UsedWasEntered
  <1>1. OtpInv => UsedWasEntered
    BY DEF OtpInv
  <1> QED BY <1>1, OtpInit, OtpStep, PTL DEF Spec

(* Only a signup code or a Google sign-in activates an account (verifyOtp, *)
(* googleLoginCustomer).                                                   *)
THEOREM OtpActivation == Spec => []ActivationIsProved
  <1>1. OtpInv => ActivationIsProved
    BY DEF OtpInv
  <1> QED BY <1>1, OtpInit, OtpStep, PTL DEF Spec

(* However many guesses of one code run at the same time, the misses on    *)
(* record exceed the limit by less than their number (verifyOtp).          *)
THEOREM OtpAttemptsBounded == Spec => []AttemptsAreBounded
  <1> QED BY OtpInit, OtpStep, CountedInit, CountedStep, CountedBounds, PTL DEF Spec

-----------------------------------------------------------------------------
(***************************************************************************)
(* Proofs about Offers, for any customers, offers, codes and orders.       *)
(*                                                                         *)
(* An order knows its offer by a code, a payment finds an offer by that    *)
(* code.  The inductive invariant follows this thread: the code of an      *)
(* order leads back to its offer, unless that was touched (OrderFits), so  *)
(* does what a payment found (PayingFits), a redemption is of a booked     *)
(* order and of an account that may have paid it (RedemptionFits), and who *)
(* looked for redemptions saw those of the orders booked for the same      *)
(* customer by then (LookupFits).                                          *)
(***************************************************************************)
Untouched(o) == o \notin touched

(* The accounts a payment of an order is booked for. *)
MayPay(k) == {order[k].customer} \cup paying[k].callers

OrderFits ==
  \A k \in OrderIds :
    /\ order[k].status # "none" =>
         /\ order[k].offer \in OfferIds /\ order[k].customer \in Customers
         /\ Untouched(order[k].offer) =>
              order[k].offer \in Stored /\ offer[order[k].offer].code = order[k].code
    /\ order[k].bookedFor # {} => Placed(k)

PayingFits ==
  \A k \in OrderIds :
    /\ paying[k].callers # {} => Placed(k)
    /\ Booking(k) => /\ Placed(k) /\ paying[k].customer \in MayPay(k)
                     /\ Untouched(order[k].offer) => paying[k].found = order[k].offer

RedemptionFits ==
  \A r \in redemption :
    /\ order[r.order].bookedFor # {}
    /\ r.customer \in MayPay(r.order)
    /\ order[r.order].offer \in touched \cup {r.offer}

LookupFits ==
  \A l \in OrderIds : \A k \in order[l].bookedBefore :
    /\ order[k].customer \in order[k].bookedFor
    /\ order[k].customer = order[l].customer /\ order[k].offer = order[l].offer
         => order[k].offer \in touched

OffersInv == OfferTypeOK /\ OrderFits /\ PayingFits /\ RedemptionFits /\ LookupFits /\ DiscountIsRecorded

LEMMA OffersInit == OfferInit => OffersInv
  <1> SUFFICES ASSUME OfferInit PROVE OffersInv
    OBVIOUS
  <1>1. /\ \A o \in OfferIds : offer[o] = NotStored
        /\ \A k \in OrderIds : order[k] = NoOrder /\ paying[k] = NotPaying
        /\ redemption = {} /\ touched = {}
    BY DEF OfferInit
  <1>2. NotStored \in Offer /\ NoOrder \in Order /\ NotPaying \in Paying
    BY DEF NotStored, Offer, NoOrder, Order, NotPaying, Paying
  <1>3. Stored = {}
    BY <1>1 DEF Stored, NotStored
  <1>4. OfferTypeOK
    BY <1>1, <1>2, <1>3 DEF OfferInit, OfferTypeOK
  <1>5. OrderFits /\ PayingFits /\ LookupFits
    BY <1>1 DEF OrderFits, PayingFits, LookupFits, NoOrder, NotPaying, Booking
  <1>6. RedemptionFits /\ DiscountIsRecorded
    BY <1>1 DEF RedemptionFits, DiscountIsRecorded, NoOrder
  <1> QED BY <1>4, <1>5, <1>6 DEF OffersInv

(* Offers are created, edited, deleted or expire: the ones that lose their *)
(* code, or are gone, are touched, and only theirs are the redemptions     *)
(* that go.                                                                *)
LEMMA OfferStep ==
  ASSUME OffersInv,
         offer' \in [OfferIds -> Offer],
         \A o \in OfferIds : o \notin touched' /\ o \in Stored =>
           offer'[o].state = "stored" /\ offer'[o].code = offer[o].code,
         \A o, p \in Stored' : offer'[o].code = offer'[p].code => o = p,
         touched \subseteq touched', touched' \subseteq OfferIds,
         redemption' \subseteq redemption,
         \A r \in redemption : r.offer \notin touched' => r \in redemption',
         UNCHANGED <<order, paying>>
  PROVE  OffersInv'
  <1>1. OfferTypeOK'
    BY DEF OffersInv, OfferTypeOK
  <1>2. \A o \in OfferIds : Untouched(o)' => Untouched(o)
    BY DEF Untouched
  <1>3. OrderFits'
    <2> SUFFICES ASSUME NEW k \in OrderIds, order[k].status # "none"
                 PROVE  /\ order[k].offer \in OfferIds /\ order[k].customer \in Customers
                        /\ Untouched(order[k].offer)' =>
                             order[k].offer \in Stored' /\ offer'[order[k].offer].code = order[k].code
      BY DEF OffersInv, OrderFits, Placed
    <2>1. order[k].offer \in OfferIds /\ order[k].customer \in Customers
      BY DEF OffersInv, OrderFits
    <2>2. ASSUME Untouched(order[k].offer)'
          PROVE  order[k].offer \in Stored' /\ offer'[order[k].offer].code = order[k].code
      <3>1. order[k].offer \in Stored /\ offer[order[k].offer].code = order[k].code
        BY <1>2, <2>1, <2>2 DEF OffersInv, OrderFits
      <3>2. offer'[order[k].offer].state = "stored" /\ offer'[order[k].offer].code = offer[order[k].offer].code
        BY <2>1, <2>2, <3>1 DEF Untouched
      <3> QED BY <2>1, <3>1, <3>2 DEF Stored
    <2> QED BY <2>1, <2>2
  <1>4. PayingFits'
    BY DEF OffersInv, PayingFits, Placed, Untouched, MayPay, Booking
  <1>5. RedemptionFits' /\ LookupFits'
    BY DEF OffersInv, RedemptionFits, LookupFits, MayPay
  <1>6. DiscountIsRecorded'
    <2> SUFFICES ASSUME NEW k \in OrderIds, NEW c \in order[k].bookedFor, order[k].offer \notin touched'
                 PROVE  \E r \in redemption' : r.offer = order[k].offer /\ r.customer = c
      BY DEF DiscountIsRecorded
    <2>1. PICK r \in redemption : r.offer = order[k].offer /\ r.customer = c
      BY DEF OffersInv, DiscountIsRecorded
    <2> QED BY <2>1
  <1> QED BY <1>1, <1>3, <1>4, <1>5, <1>6 DEF OffersInv

(* createOffer, updateOffer, deleteOffer and the passing of valid_until. *)
LEMMA OfferEditStep ==
  ASSUME OffersInv, NEW o \in OfferIds,
         \/ DeleteOffer(o) \/ OfferExpires(o)
         \/ \E c \in Codes : CreateOffer(o, c) \/ \E usable \in BOOLEAN : UpdateOffer(o, c, usable)
  PROVE  OffersInv'
  <1>1. /\ offer \in [OfferIds -> Offer] /\ redemption \subseteq Redemption /\ touched \subseteq OfferIds
        /\ \A p, q \in Stored : offer[p].code = offer[q].code => p = q
        /\ offer[o] \in Offer
    BY DEF OffersInv, OfferTypeOK
  <1>2. ASSUME NEW c \in Codes, CreateOffer(o, c)
        PROVE  OffersInv'
    <2> DEFINE row == [state |-> "stored", code |-> c, usable |-> TRUE]
    <2>1. /\ offer[o].state = "none" /\ CodeFree(c, o) /\ offer' = [offer EXCEPT ![o] = row]
          /\ UNCHANGED <<order, paying, redemption, touched>>
      BY <1>2 DEF CreateOffer
    <2>2. row \in Offer
      BY DEF Offer
    <2>3. offer' \in [OfferIds -> Offer] /\ \A p \in OfferIds : offer'[p] = IF p = o THEN row ELSE offer[p]
      BY <1>1, <2>1, <2>2
    <2>4. Stored' = Stored \cup {o} /\ o \notin Stored
      BY <2>1, <2>3 DEF Stored
    <2>5. \A p, q \in Stored' : offer'[p].code = offer'[q].code => p = q
      BY <1>1, <2>1, <2>3, <2>4 DEF CodeFree, Stored
    <2>6. \A p \in OfferIds : p \in Stored => offer'[p] = offer[p] /\ offer[p].state = "stored"
      BY <2>3, <2>4 DEF Stored
    <2> QED BY <1>1, <2>1, <2>3, <2>5, <2>6, OfferStep
  <1>3. ASSUME NEW c \in Codes, NEW usable \in BOOLEAN, UpdateOffer(o, c, usable)
        PROVE  OffersInv'
    <2>1. /\ o \in Stored /\ CodeFree(c, o)
          /\ offer' = [offer EXCEPT ![o].code = c, ![o].usable = usable]
          /\ touched' = IF c # offer[o].code THEN touched \cup {o} ELSE touched
          /\ UNCHANGED <<order, paying, redemption>>
      BY <1>3 DEF UpdateOffer
    <2>2. /\ offer' \in [OfferIds -> Offer] /\ offer'[o].code = c /\ offer'[o].state = offer[o].state
          /\ \A p \in OfferIds \ {o} : offer'[p] = offer[p]
      BY <1>1, <2>1 DEF Offer
    <2>3. Stored' = Stored
      BY <2>1, <2>2 DEF Stored
    <2>4. \A p, q \in Stored' : offer'[p].code = offer'[q].code => p = q
      BY <1>1, <2>1, <2>2, <2>3 DEF CodeFree, Stored
    <2>5. \A p \in OfferIds : p \notin touched' /\ p \in Stored =>
            offer'[p].state = "stored" /\ offer'[p].code = offer[p].code
      BY <2>1, <2>2 DEF Stored
    <2>6. touched \subseteq touched' /\ touched' \subseteq OfferIds
      BY <1>1, <2>1
    <2> QED BY <1>1, <2>1, <2>2, <2>4, <2>5, <2>6, OfferStep
  <1>4. CASE DeleteOffer(o)
    <2>1. /\ offer' = [offer EXCEPT ![o] = [NotStored EXCEPT !.state = "deleted"]]
          /\ redemption' = {r \in redemption : r.offer # o} /\ touched' = touched \cup {o}
          /\ UNCHANGED <<order, paying>>
      BY <1>4 DEF DeleteOffer
    <2>2. /\ offer' \in [OfferIds -> Offer] /\ offer'[o].state = "deleted"
          /\ \A p \in OfferIds \ {o} : offer'[p] = offer[p]
      BY <1>1, <2>1 DEF Offer, NotStored
    <2>3. Stored' = Stored \ {o}
      BY <2>2 DEF Stored
    <2>4. \A p, q \in Stored' : offer'[p].code = offer'[q].code => p = q
      BY <1>1, <2>2, <2>3 DEF Stored
    <2>5. \A p \in OfferIds : p \notin touched' /\ p \in Stored =>
            offer'[p].state = "stored" /\ offer'[p].code = offer[p].code
      BY <2>1, <2>2 DEF Stored
    <2> QED BY <1>1, <2>1, <2>2, <2>4, <2>5, OfferStep
  <1>5. CASE OfferExpires(o)
    <2>1. /\ o \in Stored /\ offer' = [offer EXCEPT ![o].usable = FALSE]
          /\ UNCHANGED <<order, paying, redemption, touched>>
      BY <1>5 DEF OfferExpires
    <2>2. /\ offer' \in [OfferIds -> Offer]
          /\ \A p \in OfferIds : offer'[p].code = offer[p].code /\ offer'[p].state = offer[p].state
      BY <1>1, <2>1 DEF Offer
    <2>3. Stored' = Stored
      BY <2>2 DEF Stored
    <2>4. /\ \A p, q \in Stored' : offer'[p].code = offer'[q].code => p = q
          /\ \A p \in Stored : offer'[p].state = "stored"
      BY <1>1, <2>2, <2>3 DEF Stored
    <2> QED BY <1>1, <2>1, <2>2, <2>4, OfferStep
  <1> QED BY <1>2, <1>3, <1>4, <1>5

(* createOrder: an order that is not placed yet is neither booked nor      *)
(* being paid, so nothing on record depends on it.                         *)
LEMMA UnplacedStep ==
  ASSUME OffersInv, NEW k \in OrderIds, ~Placed(k),
         NEW row \in Order, order' = [order EXCEPT ![k] = row],
         UNCHANGED <<offer, paying, redemption, touched>>,
         row.bookedFor = {},
         row.status # "none" =>
           /\ row.offer \in OfferIds /\ row.customer \in Customers
           /\ Untouched(row.offer) => row.offer \in Stored /\ offer[row.offer].code = row.code,
         \A j \in row.bookedBefore :
           /\ order[j].customer \in order[j].bookedFor
           /\ order[j].customer = row.customer /\ order[j].offer = row.offer => order[j].offer \in touched
  PROVE  OffersInv'
  <1>1. order' \in [OrderIds -> Order] /\ \A j \in OrderIds : order'[j] = IF j = k THEN row ELSE order[j]
    BY DEF OffersInv, OfferTypeOK
  <1>2. order[k].bookedFor = {} /\ ~Booking(k) /\ paying[k].callers = {}
    BY DEF OffersInv, OrderFits, PayingFits
  <1>3. \A j \in OrderIds : order[j].bookedBefore \in SUBSET OrderIds /\ order'[j].bookedBefore \in SUBSET OrderIds
    BY <1>1 DEF OffersInv, OfferTypeOK, Order
  <1>4. Stored' = Stored /\ (\A o : Untouched(o)' <=> Untouched(o))
        /\ \A j \in OrderIds : (Booking(j)' <=> Booking(j)) /\ (j # k => MayPay(j)' = MayPay(j))
    BY <1>1, <1>2 DEF Stored, Untouched, Booking, MayPay
  <1>5. OfferTypeOK'
    BY <1>1, <1>4 DEF OffersInv, OfferTypeOK
  <1>6. OrderFits' /\ PayingFits'
    BY <1>1, <1>2, <1>4 DEF OffersInv, OrderFits, PayingFits, Placed, Untouched, Stored
  <1>7. RedemptionFits'
    <2>1. \A r \in redemption : r.order \in OrderIds /\ r.order # k
      BY <1>2 DEF OffersInv, OfferTypeOK, RedemptionFits, Redemption
    <2>2. \A r \in redemption : MayPay(r.order)' = MayPay(r.order)
      BY <1>4, <2>1
    <2> QED BY <1>1, <2>1, <2>2 DEF OffersInv, RedemptionFits
  <1>8. LookupFits'
    <2> SUFFICES ASSUME NEW l \in OrderIds, NEW j \in order'[l].bookedBefore
                 PROVE  /\ order'[j].customer \in order'[j].bookedFor
                        /\ order'[j].customer = order'[l].customer /\ order'[j].offer = order'[l].offer
                             => order'[j].offer \in touched'
      BY DEF LookupFits
    <2>1. j \in OrderIds
      BY <1>3
    <2>2. CASE l = k
      BY <1>1, <1>2, <2>1, <2>2
    <2>3. CASE l # k
      BY <1>1, <1>2, <2>1, <2>3 DEF OffersInv, LookupFits
    <2> QED BY <2>2, <2>3
  <1>9. DiscountIsRecorded'
    BY <1>1, <1>2 DEF OffersInv, DiscountIsRecorded
  <1> QED BY <1>5, <1>6, <1>7, <1>8, <1>9 DEF OffersInv

LEMMA CreateOrderStep ==
  ASSUME OffersInv, NEW k \in OrderIds, CreateOrder(k)
  PROVE  OffersInv'
  <1>1. order[k] \in Order /\ order[k].bookedBefore \subseteq OrderIds
    BY DEF OffersInv, OfferTypeOK, Order
  <1>2. ASSUME order[k].status # "none"
        PROVE  /\ order[k].offer \in OfferIds /\ order[k].customer \in Customers
               /\ Untouched(order[k].offer) =>
                    order[k].offer \in Stored /\ offer[order[k].offer].code = order[k].code
    BY <1>2 DEF OffersInv, OrderFits
  <1>3. \A j \in order[k].bookedBefore :
          /\ order[j].customer \in order[j].bookedFor
          /\ order[j].customer = order[k].customer /\ order[j].offer = order[k].offer
               => order[j].offer \in touched
    BY DEF OffersInv, LookupFits
  <1>4. ~Placed(k) => order[k].bookedFor = {}
    BY DEF OffersInv, OrderFits
  <1>5. ASSUME NEW c \in Customers, NEW o \in OfferIds, ReadOffer(k, c, o)
        PROVE  OffersInv'
    <2> DEFINE row == [NoOrder EXCEPT !.status = "looked", !.customer = c, !.offer = o, !.code = offer[o].code]
    <2>1. /\ order[k].status = "none" /\ o \in Stored /\ order' = [order EXCEPT ![k] = row]
          /\ UNCHANGED <<offer, paying, redemption, touched>>
      BY <1>5 DEF ReadOffer
    <2>2. offer[o].code \in Codes \cup {NoOfferCode}
      BY DEF OffersInv, OfferTypeOK, Offer
    <2>3. /\ row \in Order /\ row.bookedFor = {} /\ row.offer = o /\ row.customer = c
          /\ row.code = offer[o].code /\ row.bookedBefore = {}
      BY <2>2 DEF NoOrder, Order
    <2>4. ~Placed(k)
      BY <2>1 DEF Placed
    <2> HIDE DEF row
    <2> QED BY <2>1, <2>3, <2>4, UnplacedStep
  <1>6. CASE CheckRedemption(k)
    <2> DEFINE row == [order[k] EXCEPT !.status = "checked", !.bookedBefore = BookedByOwner]
    <2>1. /\ order[k].status = "looked" /\ Unused(k) /\ order' = [order EXCEPT ![k] = row]
          /\ UNCHANGED <<offer, paying, redemption, touched>>
      BY <1>6 DEF CheckRedemption, OffersInv, OfferTypeOK
    <2>2. ~Placed(k) /\ BookedByOwner \subseteq OrderIds
      BY <2>1 DEF Placed, BookedByOwner
    <2>3. /\ row \in Order /\ row.bookedFor = order[k].bookedFor /\ row.offer = order[k].offer
          /\ row.customer = order[k].customer /\ row.code = order[k].code /\ row.bookedBefore = BookedByOwner
      BY <1>1, <2>2 DEF Order
    <2>4. ASSUME NEW j \in BookedByOwner, order[j].customer = order[k].customer, order[j].offer = order[k].offer
          PROVE  order[j].offer \in touched
      BY <2>1, <2>4 DEF Unused, OffersInv, DiscountIsRecorded, BookedByOwner
    <2>5. \A j \in BookedByOwner : order[j].customer \in order[j].bookedFor
      BY DEF BookedByOwner
    <2> HIDE DEF row
    <2>6. \A j \in row.bookedBefore :
            /\ order[j].customer \in order[j].bookedFor
            /\ order[j].customer = row.customer /\ order[j].offer = row.offer => order[j].offer \in touched
      BY <2>3, <2>4, <2>5
    <2>7. /\ row.offer \in OfferIds /\ row.customer \in Customers
          /\ Untouched(row.offer) => row.offer \in Stored /\ offer[row.offer].code = row.code
      BY <1>2, <2>1, <2>3
    <2>8. row.bookedFor = {}
      BY <1>4, <2>2, <2>3
    <2> QED BY ONLY OffersInv, k \in OrderIds, <2>1, <2>2, <2>3, <2>6, <2>7, <2>8, UnplacedStep
  <1>7. CASE InsertOrder(k)
    <2>1. /\ order[k].status = "checked" /\ order' = [order EXCEPT ![k].status = "created"]
          /\ UNCHANGED <<offer, paying, redemption, touched>>
      BY <1>7 DEF InsertOrder
    <2> DEFINE row == [order[k] EXCEPT !.status = "created"]
    <2>2. ~Placed(k) /\ order' = [order EXCEPT ![k] = row]
      BY <2>1 DEF Placed, OffersInv, OfferTypeOK
    <2>3. /\ row \in Order /\ row.bookedFor = order[k].bookedFor /\ row.offer = order[k].offer
          /\ row.customer = order[k].customer /\ row.code = order[k].code
          /\ row.bookedBefore = order[k].bookedBefore
      BY <1>1 DEF Order
    <2> HIDE DEF row
    <2>4. \A j \in row.bookedBefore :
            /\ order[j].customer \in order[j].bookedFor
            /\ order[j].customer = row.customer /\ order[j].offer = row.offer => order[j].offer \in touched
      BY <1>3, <2>3
    <2>5. /\ row.offer \in OfferIds /\ row.customer \in Customers
          /\ Untouched(row.offer) => row.offer \in Stored /\ offer[row.offer].code = row.code
      BY <1>2, <2>1, <2>3
    <2>6. row.bookedFor = {}
      BY <1>4, <2>2, <2>3
    <2> QED BY ONLY OffersInv, k \in OrderIds, <2>1, <2>2, <2>3, <2>4, <2>5, <2>6, UnplacedStep
  <1>8. CASE OrderRefused(k)
    <2>1. /\ order[k].status \in {"looked", "checked"} /\ order' = [order EXCEPT ![k] = NoOrder]
          /\ UNCHANGED <<offer, paying, redemption, touched>>
      BY <1>8 DEF OrderRefused
    <2>2. NoOrder \in Order /\ NoOrder.bookedFor = {} /\ NoOrder.status = "none" /\ NoOrder.bookedBefore = {}
      BY DEF NoOrder, Order
    <2>3. ~Placed(k)
      BY <2>1 DEF Placed
    <2> QED BY <2>1, <2>2, <2>3, UnplacedStep
  <1> QED BY <1>5, <1>6, <1>7, <1>8 DEF CreateOrder, ValidateOfferCode

(* Steps of a payment that write no row: what it found is the offer of the *)
(* order, which is the only one with the code as long as it is untouched,  *)
(* and it is for the customer of the order or for a caller.                *)
LEMMA PayingStep ==
  ASSUME OffersInv, NEW k \in OrderIds,
         \/ HandlePaymentCaptured(k) \/ PaymentRollsBack(k)
         \/ \E c \in Customers : VerifyRead(k, c) \/ VerifyBegin(k, c)
  PROVE  OffersInv'
  <1>1. UNCHANGED <<offer, order, redemption, touched>>
    BY DEF VerifyRead, VerifyBegin, HandlePaymentCaptured, PaymentRollsBack, FindOffer
  <1>2. /\ paying \in [OrderIds -> Paying] /\ paying[k] \in Paying
        /\ order[k].status # "none" => order[k].customer \in Customers
    BY DEF OffersInv, OfferTypeOK, OrderFits
  <1> DEFINE Row(new) ==
        /\ paying' = [paying EXCEPT ![k] = new] /\ paying[k].callers \subseteq new.callers
        /\ new.callers # paying[k].callers => Placed(k)
        /\ \/ new.customer = NoCustomer
           \/ new.customer = paying[k].customer /\ new.found = paying[k].found
           \/ Placed(k) /\ new.customer \in MayPay(k) /\ new.found = Found(k)
  <1>3. \E new \in Paying : Row(new)
    <2>1. ASSUME NEW c \in Customers, VerifyRead(k, c) PROVE \E new \in Paying : Row(new)
      <3> DEFINE new == [paying[k] EXCEPT !.callers = @ \cup {c}]
      <3>1. /\ new \in Paying /\ new.callers = paying[k].callers \cup {c}
            /\ new.customer = paying[k].customer /\ new.found = paying[k].found
        BY <1>2 DEF Paying
      <3>2. paying' = [paying EXCEPT ![k] = new] /\ Placed(k)
        BY <2>1, <1>2 DEF VerifyRead
      <3> HIDE DEF new
      <3> QED BY <3>1, <3>2
    <2>2. ASSUME NEW c \in Customers, c \in MayPay(k), FindOffer(k, c) PROVE \E new \in Paying : Row(new)
      <3> DEFINE new == [paying[k] EXCEPT !.customer = c, !.found = Found(k)]
      <3>1. Found(k) \in OfferIds \cup {NoOffer}
        BY DEF Found, Stored
      <3>2. /\ new \in Paying /\ new.callers = paying[k].callers
            /\ new.customer = c /\ new.found = Found(k)
        BY <1>2, <3>1 DEF Paying
      <3>3. paying' = [paying EXCEPT ![k] = new] /\ Placed(k)
        BY <2>2, <1>2 DEF FindOffer
      <3> HIDE DEF new
      <3> QED BY <2>2, <3>2, <3>3
    <2>3. CASE PaymentRollsBack(k)
      <3> DEFINE new == [paying[k] EXCEPT !.customer = NoCustomer, !.found = NoOffer]
      <3>1. new \in Paying /\ new.callers = paying[k].callers /\ new.customer = NoCustomer
        BY <1>2 DEF Paying
      <3>2. paying' = [paying EXCEPT ![k] = new]
        BY <2>3, <1>2 DEF PaymentRollsBack, NotBooking
      <3> HIDE DEF new
      <3> QED BY <3>1, <3>2
    <2>4. CASE HandlePaymentCaptured(k)
      <3>1. FindOffer(k, order[k].customer) /\ order[k].customer \in Customers
        BY <2>4, <1>2 DEF HandlePaymentCaptured, FindOffer, Placed
      <3> QED BY <3>1, <2>2 DEF MayPay
    <2>5. ASSUME NEW c \in Customers, VerifyBegin(k, c) PROVE \E new \in Paying : Row(new)
      BY <2>5, <2>2 DEF VerifyBegin, MayPay
    <2> QED BY <2>1, <2>3, <2>4, <2>5
  <1>4. PICK new \in Paying : Row(new)
    BY <1>3
  <1>5. /\ paying' \in [OrderIds -> Paying] /\ paying'[k] = new
        /\ \A j \in OrderIds \ {k} : paying'[j] = paying[j]
    BY <1>2, <1>4
  <1>6. \A j \in OrderIds : MayPay(j) \subseteq MayPay(j)'
    BY <1>1, <1>4, <1>5 DEF MayPay
  <1>7. ASSUME Placed(k), Untouched(order[k].offer)
        PROVE  Found(k) = order[k].offer
    <2>1. order[k].status # "none"
      BY <1>7 DEF Placed
    <2>2. order[k].offer \in Stored /\ offer[order[k].offer].code = order[k].code
      BY <1>7, <2>1 DEF OffersInv, OrderFits
    <2>3. \A o \in Stored : offer[o].code = order[k].code => o = order[k].offer
      BY <2>2 DEF OffersInv, OfferTypeOK
    <2> QED BY <2>2, <2>3 DEF Found
  <1>8. OfferTypeOK' /\ OrderFits' /\ LookupFits' /\ DiscountIsRecorded'
    BY <1>1, <1>5 DEF OffersInv, OfferTypeOK, OrderFits, LookupFits, DiscountIsRecorded,
                      Stored, Placed, Untouched
  <1>9. RedemptionFits'
    <2>1. \A r \in redemption : r.order \in OrderIds
      BY DEF OffersInv, OfferTypeOK, Redemption
    <2> QED BY <1>1, <1>6, <2>1 DEF OffersInv, RedemptionFits
  <1>10. PayingFits'
    <2> SUFFICES ASSUME NEW j \in OrderIds
                 PROVE  /\ paying'[j].callers # {} => Placed(j)
                        /\ Booking(j)' => /\ Placed(j) /\ paying'[j].customer \in MayPay(j)'
                                          /\ Untouched(order[j].offer) => paying'[j].found = order[j].offer
      BY <1>1 DEF PayingFits, Placed, Untouched
    <2>1. CASE j # k
      <3>1. paying'[j] = paying[j]
        BY <1>5, <2>1
      <3> QED BY <3>1, <1>6 DEF OffersInv, PayingFits, Booking
    <2>2. CASE j = k
      BY <1>4, <1>5, <1>6, <1>7, <2>2 DEF OffersInv, PayingFits, Booking
    <2> QED BY <2>1, <2>2
  <1> QED BY <1>8, <1>9, <1>10 DEF OffersInv

(* A placed order gets another status, and may be booked.  A redemption    *)
(* may be added, for what the order's payment found.                       *)
LEMMA PlacedStep ==
  ASSUME OffersInv, NEW k \in OrderIds, Placed(k),
         NEW status \in {"paid", "failed"}, NEW who \in SUBSET Customers,
         order[k].bookedFor \subseteq who,
         order' = [order EXCEPT ![k].status = status, ![k].bookedFor = who],
         UNCHANGED <<offer, touched>>,
         paying' \in [OrderIds -> Paying],
         \A j \in OrderIds : /\ paying'[j].callers = paying[j].callers
                             /\ paying'[j] = paying[j] \/ paying'[j].customer = NoCustomer,
         redemption \subseteq redemption', redemption' \subseteq Redemption,
         \A r, s \in redemption' : r.offer = s.offer /\ r.customer = s.customer => r = s,
         \A r \in redemption' \ redemption :
           /\ who # {} /\ r.order = k /\ r.customer \in MayPay(k)
           /\ order[k].offer \in touched \cup {r.offer},
         Untouched(order[k].offer) =>
           \A c \in who : \E r \in redemption' : r.offer = order[k].offer /\ r.customer = c
  PROVE  OffersInv'
  <1>1. /\ order' \in [OrderIds -> Order] /\ order'[k].status = status /\ order'[k].bookedFor = who
        /\ \A j \in OrderIds : /\ order'[j].offer = order[j].offer /\ order'[j].code = order[j].code
                               /\ order'[j].customer = order[j].customer
                               /\ order'[j].bookedBefore = order[j].bookedBefore
                               /\ j # k => order'[j] = order[j]
    <2>1. order[k] \in Order
      BY DEF OffersInv, OfferTypeOK
    <2>2. [order[k] EXCEPT !.status = status, !.bookedFor = who] \in Order
      BY <2>1 DEF Order
    <2> QED BY <2>1, <2>2 DEF OffersInv, OfferTypeOK, Order
  <1>2. /\ Stored' = Stored /\ (\A o : Untouched(o)' <=> Untouched(o))
        /\ \A j \in OrderIds : (Placed(j)' <=> Placed(j)) /\ order[j].bookedFor \subseteq order'[j].bookedFor
                               /\ MayPay(j)' = MayPay(j)
    BY <1>1 DEF Stored, Untouched, Placed, MayPay
  <1>3. OfferTypeOK'
    BY <1>1, <1>2 DEF OffersInv, OfferTypeOK
  <1>4. OrderFits'
    <2>1. order[k].status # "none"
      BY DEF Placed
    <2> QED BY <1>1, <1>2, <2>1 DEF OffersInv, OrderFits
  <1>5. PayingFits'
    BY <1>1, <1>2 DEF OffersInv, PayingFits, Booking
  <1>6. RedemptionFits'
    <2> SUFFICES ASSUME NEW r \in redemption'
                 PROVE  /\ order'[r.order].bookedFor # {} /\ r.customer \in MayPay(r.order)'
                        /\ order'[r.order].offer \in touched \cup {r.offer}
      BY DEF RedemptionFits
    <2>1. r.order \in OrderIds
      BY DEF Redemption
    <2>2. CASE r \in redemption
      BY <1>1, <1>2, <2>1, <2>2 DEF OffersInv, RedemptionFits
    <2>3. CASE r \notin redemption
      BY <1>1, <1>2, <2>1, <2>3
    <2> QED BY <2>2, <2>3
  <1>7. LookupFits'
    <2>1. \A l \in OrderIds : order[l].bookedBefore \subseteq OrderIds
      BY DEF OffersInv, OfferTypeOK, Order
    <2> QED BY <1>1, <1>2, <2>1 DEF OffersInv, LookupFits
  <1>8. DiscountIsRecorded'
    <2> SUFFICES ASSUME NEW j \in OrderIds, NEW c \in order'[j].bookedFor, order[j].offer \notin touched
                 PROVE  \E r \in redemption' : r.offer = order[j].offer /\ r.customer = c
      BY <1>1 DEF DiscountIsRecorded
    <2>1. CASE j = k
      BY <1>1, <2>1 DEF Untouched
    <2>2. CASE j # k
      <3>1. c \in order[j].bookedFor
        BY <1>1, <2>2
      <3>2. PICK r \in redemption : r.offer = order[j].offer /\ r.customer = c
        BY <3>1 DEF OffersInv, DiscountIsRecorded
      <3> QED BY <3>2
    <2> QED BY <2>1, <2>2
  <1> QED BY <1>3, <1>4, <1>5, <1>6, <1>7, <1>8 DEF OffersInv

(* The transaction that books an order records its redemption, unless the  *)
(* account it books for has one of the same offer.                         *)
LEMMA PaymentStep ==
  ASSUME OffersInv, NEW k \in OrderIds, PaymentCommits(k)
  PROVE  OffersInv'
  <1> DEFINE o == paying[k].found
             c == paying[k].customer
             who == order[k].bookedFor \cup {c}
             row == [offer |-> o, customer |-> c, order |-> k]
  <1>0. order[k] \in Order /\ paying[k] \in Paying /\ order \in [OrderIds -> Order] /\ paying \in [OrderIds -> Paying]
    BY DEF OffersInv, OfferTypeOK
  <1>1. /\ Booking(k) /\ (o # NoOffer => o \in Stored) /\ redemption' = Redeemed(k)
        /\ order' = [order EXCEPT ![k].status = "paid", ![k].bookedFor = who]
        /\ paying' = [paying EXCEPT ![k].customer = NoCustomer, ![k].found = NoOffer]
        /\ UNCHANGED <<offer, touched>>
    BY <1>0 DEF PaymentCommits, NotBooking
  <1>2. Placed(k) /\ c \in MayPay(k) /\ (Untouched(order[k].offer) => o = order[k].offer)
    BY <1>1 DEF OffersInv, PayingFits
  <1>3. /\ c \in Customers /\ who \in SUBSET Customers /\ order[k].offer \in OfferIds
        /\ order[k].bookedFor \subseteq who
    BY <1>0, <1>1, <1>2 DEF Placed, OffersInv, OrderFits, Booking, Paying, Order
  <1>4. /\ paying' \in [OrderIds -> Paying]
        /\ \A j \in OrderIds : /\ paying'[j].callers = paying[j].callers
                               /\ paying'[j] = paying[j] \/ paying'[j].customer = NoCustomer
    <2> DEFINE done == [paying[k] EXCEPT !.customer = NoCustomer, !.found = NoOffer]
    <2>1. done \in Paying /\ done.customer = NoCustomer /\ done.callers = paying[k].callers
      BY <1>0 DEF Paying
    <2>2. paying' = [paying EXCEPT ![k] = done]
      BY <1>0, <1>1
    <2> HIDE DEF done
    <2> QED BY <1>0, <2>1, <2>2
  <1>5. redemption \subseteq Redemption /\ \A r, s \in redemption : r.offer = s.offer /\ r.customer = s.customer => r = s
    BY DEF OffersInv, OfferTypeOK
  <1>6. ASSUME Untouched(order[k].offer), NEW d \in order[k].bookedFor
        PROVE  \E r \in redemption : r.offer = order[k].offer /\ r.customer = d
    BY <1>6 DEF OffersInv, DiscountIsRecorded, Untouched
  <1> HIDE DEF o, c, row, who
  <1>7. CASE o = NoOffer \/ \E r \in redemption : r.offer = o /\ r.customer = c
    <2>1. redemption' = redemption
      BY <1>1, <1>7 DEF Redeemed, o, c
    <2>2. Untouched(order[k].offer) =>
            \A d \in who : \E r \in redemption' : r.offer = order[k].offer /\ r.customer = d
      BY <1>2, <1>3, <1>6, <1>7, <2>1, OffersAssumption DEF who
    <2>3. /\ redemption \subseteq redemption' /\ redemption' \subseteq Redemption
          /\ \A r, s \in redemption' : r.offer = s.offer /\ r.customer = s.customer => r = s
          /\ redemption' \ redemption = {}
      BY <1>5, <2>1
    <2> QED BY <1>1, <1>2, <1>3, <1>4, <2>2, <2>3, PlacedStep
  <1>8. CASE o # NoOffer /\ ~\E r \in redemption : r.offer = o /\ r.customer = c
    <2>1. redemption' = redemption \cup {row}
      BY <1>1, <1>8 DEF Redeemed, o, c, row
    <2>2. row \in Redemption /\ row.offer = o /\ row.customer = c /\ row.order = k
      BY <1>1, <1>3, <1>8 DEF Redemption, Stored, row
    <2>3. \A r, s \in redemption' : r.offer = s.offer /\ r.customer = s.customer => r = s
      BY <1>5, <1>8, <2>1, <2>2
    <2>4. order[k].offer \in touched \cup {row.offer}
      BY <1>2, <2>2 DEF Untouched
    <2>5. Untouched(order[k].offer) =>
            \A d \in who : \E r \in redemption' : r.offer = order[k].offer /\ r.customer = d
      BY <1>2, <1>6, <2>1, <2>2 DEF who
    <2>6. \A r \in redemption' \ redemption :
            /\ who # {} /\ r.order = k /\ r.customer \in MayPay(k)
            /\ order[k].offer \in touched \cup {r.offer}
      BY <1>2, <2>1, <2>2, <2>4 DEF who
    <2>7. redemption \subseteq redemption' /\ redemption' \subseteq Redemption
      BY <1>5, <2>1, <2>2
    <2> QED BY <1>1, <1>2, <1>3, <1>4, <2>3, <2>5, <2>6, <2>7, PlacedStep
  <1> QED BY <1>7, <1>8

LEMMA FailedStep ==
  ASSUME OffersInv, NEW k \in OrderIds, HandlePaymentFailed(k)
  PROVE  OffersInv'
  <1>1. /\ Placed(k) /\ order' = [order EXCEPT ![k].status = "failed"]
        /\ UNCHANGED <<offer, paying, redemption, touched>>
    BY DEF HandlePaymentFailed
  <1>2. order[k] \in Order
    BY DEF OffersInv, OfferTypeOK
  <1>3. order' = [order EXCEPT ![k].status = "failed", ![k].bookedFor = order[k].bookedFor]
    BY <1>1, <1>2 DEF Order, OffersInv, OfferTypeOK
  <1>4. /\ paying' \in [OrderIds -> Paying] /\ order[k].bookedFor \in SUBSET Customers
        /\ redemption \subseteq Redemption
        /\ \A r, s \in redemption : r.offer = s.offer /\ r.customer = s.customer => r = s
    BY <1>1, <1>2 DEF OffersInv, OfferTypeOK, Order
  <1>5. Untouched(order[k].offer) =>
          \A c \in order[k].bookedFor : \E r \in redemption : r.offer = order[k].offer /\ r.customer = c
    BY DEF OffersInv, DiscountIsRecorded, Untouched
  <1> QED BY <1>1, <1>3, <1>4, <1>5, PlacedStep

LEMMA OffersStep == OffersInv /\ [OfferNext]_offerVars => OffersInv'
  <1> SUFFICES ASSUME OffersInv, [OfferNext]_offerVars PROVE OffersInv'
    OBVIOUS
  <1>1. CASE UNCHANGED offerVars
    BY <1>1 DEF offerVars, OffersInv, OfferTypeOK, OrderFits, PayingFits, RedemptionFits, LookupFits,
                DiscountIsRecorded, Stored, Placed, Untouched, MayPay, Booking
  <1> QED
    BY <1>1, OfferEditStep, CreateOrderStep, PayingStep, PaymentStep, FailedStep
    DEF OfferNext, VerifyPayment

(* Types, one offer for a code, one redemption for a customer and an offer.*)
THEOREM OffersTypeCorrect == OfferSpec => []OfferTypeOK
  <1>1. OffersInv => OfferTypeOK
    BY DEF OffersInv
  <1> QED BY <1>1, OffersInit, OffersStep, PTL DEF OfferSpec

(* Every discount that was paid with is on record for each account the     *)
(* order was booked for, unless its offer was renamed or deleted           *)
(* (verifyPayment, handlePaymentCaptured).                                 *)
THEOREM OffersRecordDiscounts == OfferSpec => []DiscountIsRecorded
  <1>1. OffersInv => DiscountIsRecorded
    BY DEF OffersInv
  <1> QED BY <1>1, OffersInit, OffersStep, PTL DEF OfferSpec

(* Every redemption is of an account that made the order or verified its   *)
(* payment, and of the offer of the order.                                 *)
THEOREM OffersRecordGiven == OfferSpec => []RecordedWasGiven
  <1>1. OffersInv => RecordedWasGiven
    BY DEF OffersInv, RedemptionFits, RecordedWasGiven, MayPay
  <1> QED BY <1>1, OffersInit, OffersStep, PTL DEF OfferSpec

(* An order is refused if its customer had used the offer in an order that *)
(* was booked for them before the look-up (validateOfferCode).             *)
THEOREM OffersOnceAfterPayment == OfferSpec => []OnceAfterPayment
  <1>1. OffersInv => OnceAfterPayment
    BY DEF OffersInv, LookupFits, OnceAfterPayment, BookedByOwner
  <1> QED BY <1>1, OffersInit, OffersStep, PTL DEF OfferSpec

-----------------------------------------------------------------------------
(***************************************************************************)
(* Proofs about Notifications, for any notifications and retries.          *)
(*                                                                         *)
(* A row of the log is written by three parties that never look at it: the *)
(* publisher, the deliveries, and whoever takes the message back.  The     *)
(* inductive invariants say what each of them knows: a publisher before    *)
(* its call that there is no message (PublisherFits), a cancellation that  *)
(* QStash confirmed that the message has gone (TakingFits), a delivery     *)
(* that its e-mail went out (FlightFits), and the deletion of a broadcast  *)
(* whose loop was over that it has found every notification (PostFits).    *)
(***************************************************************************)
PublisherFits ==
  \A n \in Notes :
    /\ publisher[n] \in {"idle", "tag", "log", "publish"} => message[n] = "none" /\ ~known[n]
    /\ publisher[n] \in {"publish", "store"} => log[n] # "none"

TakingFits ==
  \A n \in Notes :
    /\ taking[n] # "idle" => known[n]
    /\ taking[n] = "skip" => message[n] = "gone"

FlightFits ==
  \A n \in Notes :
    /\ flight[n] # "idle" => message[n] # "none"
    /\ flight[n] = "sent" => reached[n]

NotificationsInv == NotifyTypeOK /\ PublisherFits /\ TakingFits /\ FlightFits /\ SkippedIsSilent /\ SentWasSent

(* A notification of a broadcast that is past its tag, in a loop that did  *)
(* not break, is found by its broadcast's id, or has been.                 *)
TagsFit ==
  \A n \in Recipients :
    post.row /\ post.loop # "broken" /\ publisher[n] \notin {"idle", "tag"} =>
      tagged[n] \/ feed[n] # "there"

PostFits ==
  /\ post.loop = "none" => ~post.row /\ \A n \in Recipients : publisher[n] = "idle"
  /\ post.loop = "over" => \A n \in Recipients : publisher[n] = "done"
  /\ post.deletion \in {"cancelling", "row"} => post.row
  /\ post.deletion \in {"row", "done"} /\ post.whole =>
       post.loop = "over" /\ \A n \in Recipients : feed[n] # "there"

-----------------------------------------------------------------------------
LEMMA NotificationsInit == NotifyInit => NotificationsInv
  <1> SUFFICES ASSUME NotifyInit PROVE NotificationsInv
    OBVIOUS
  <1>1. NotifyTypeOK
    BY NotificationsAssumption DEF NotifyInit, NotifyTypeOK
  <1>2. PublisherFits /\ TakingFits /\ FlightFits /\ SkippedIsSilent /\ SentWasSent
    BY DEF NotifyInit, PublisherFits, TakingFits, FlightFits, SkippedIsSilent, SentWasSent
  <1> QED BY <1>1, <1>2 DEF NotificationsInv

(* What publishes a notification. *)
LEMMA PublishStep ==
  ASSUME NotificationsInv, NEW n \in Notes, Publish(n)
  PROVE  NotificationsInv'
  <1> USE DEF NotificationsInv, PublisherFits, TakingFits, FlightFits, SkippedIsSilent, SentWasSent,
              feedVars, logVars, qstashVars, dispatchVars, Goto
  <1>1. CASE InsertInApp(n)
    BY <1>1 DEF InsertInApp, NotifyTypeOK
  <1>2. CASE TagBroadcast(n)
    BY <1>2 DEF TagBroadcast, NotifyTypeOK
  <1>3. CASE CreateDispatchLogRow(n)
    BY <1>3 DEF CreateDispatchLogRow, NotifyTypeOK
  <1>4. CASE PublishDispatch(n)
    BY <1>4 DEF PublishDispatch, NotifyTypeOK
  <1>5. CASE StoreMessageId(n)
    <2>1. CASE known' = [known EXCEPT ![n] = TRUE] /\ Goto(n, "done")
      BY <1>5, <2>1 DEF StoreMessageId, NotifyTypeOK
    <2>2. CASE known' = known /\ Goto(n, "catch")
      BY <1>5, <2>2 DEF StoreMessageId, NotifyTypeOK
    <2> QED BY <1>5, <2>1, <2>2 DEF StoreMessageId
  <1>6. CASE PublishCatch(n)
    BY <1>6 DEF PublishCatch, NotifyTypeOK
  <1>7. CASE PublisherDies(n)
    <2>1. post' \in [row : BOOLEAN, loop : {"none", "running", "over", "broken"},
                     deletion : {"none", "cancelling", "row", "done"}, whole : BOOLEAN]
      BY <1>7 DEF PublisherDies, NotifyTypeOK
    <2>2. /\ publisher' = [publisher EXCEPT ![n] = "done"] /\ mishaps' \subseteq Notes
          /\ UNCHANGED <<kind, feed, tagged, log, known, message, tries, flight, reached, taking>>
      BY <1>7 DEF PublisherDies, NotifyTypeOK
    <2> QED BY <2>1, <2>2 DEF NotifyTypeOK
  <1> QED BY <1>1, <1>2, <1>3, <1>4, <1>5, <1>6, <1>7 DEF Publish

(* What delivers it. *)
LEMMA DispatchStep ==
  ASSUME NotificationsInv, NEW n \in Notes, Deliver(n) \/ HandleDispatch(n)
  PROVE  NotificationsInv'
  <1> USE NotificationsAssumption
      DEF NotificationsInv, PublisherFits, TakingFits, FlightFits, SkippedIsSilent, SentWasSent,
          feedVars, logVars, qstashVars, dispatchVars, SetStatus, Answered, Retried
  <1>1. CASE Deliver(n)
    <2>1. tries[n] + 1 \in 0 .. Retries + 1
      BY <1>1 DEF Deliver, NotifyTypeOK
    <2>2. CASE feed[n] = "there"
      BY <1>1, <2>1, <2>2 DEF Deliver, NotifyTypeOK
    <2>3. CASE feed[n] # "there"
      BY <1>1, <2>1, <2>3 DEF Deliver, NotifyTypeOK
    <2> QED BY <2>2, <2>3
  <1>2. CASE Send(n)
    <2>1. flight[n] = "sending" /\ UNCHANGED <<kind, feed, tagged, log, known, publisher, message, tries,
                                             taking, post, mishaps>>
      BY <1>2 DEF Send
    <2>2. CASE reached' = [reached EXCEPT ![n] = TRUE] /\ flight' = [flight EXCEPT ![n] = "sent"]
      BY <2>1, <2>2 DEF NotifyTypeOK
    <2>3. CASE reached' = reached /\ flight' = [flight EXCEPT ![n] = "failed"]
      BY <2>1, <2>3 DEF NotifyTypeOK
    <2> QED BY <1>2, <2>2, <2>3 DEF Send
  <1>3. CASE RecipientGone(n)
    <2>1. CASE message' = [message EXCEPT ![n] = "gone"]
      BY <1>3, <2>1 DEF RecipientGone, NotifyTypeOK
    <2>2. CASE Retried(n)
      BY <1>3, <2>2 DEF RecipientGone, NotifyTypeOK
    <2> QED BY <1>3, <2>1, <2>2 DEF RecipientGone
  <1>4. CASE MarkSent(n)
    <2>1. CASE flight' = [flight EXCEPT ![n] = "failed"] /\ UNCHANGED <<log, message>>
      BY <1>4, <2>1 DEF MarkSent, NotifyTypeOK
    <2>2. CASE flight' = [flight EXCEPT ![n] = "idle"] /\ SetStatus(n, "sent") /\ Answered(n)
      BY <1>4, <2>2 DEF MarkSent, NotifyTypeOK
    <2> QED BY <1>4, <2>1, <2>2 DEF MarkSent
  <1>5. CASE MarkDispatchFailed(n)
    BY <1>5 DEF MarkDispatchFailed, NotifyTypeOK
  <1>6. CASE DispatchDies(n)
    BY <1>6 DEF DispatchDies, NotifyTypeOK
  <1> QED BY <1>1, <1>2, <1>3, <1>4, <1>5, <1>6 DEF HandleDispatch

(* What takes it back. *)
LEMMA TakeBackStep ==
  ASSUME NotificationsInv, NEW n \in Notes, CancelShowReminder(n) \/ TakeBack(n)
  PROVE  NotificationsInv'
  <1> USE DEF NotificationsInv, PublisherFits, TakingFits, FlightFits, SkippedIsSilent, SentWasSent,
              feedVars, logVars, qstashVars, dispatchVars
  <1>1. CASE CancelShowReminder(n)
    BY <1>1 DEF CancelShowReminder, Cancellable, NotifyTypeOK
  <1>2. CASE CancelMessage(n)
    BY <1>2 DEF CancelMessage, NotifyTypeOK
  <1>3. CASE MarkSkipped(n)
    BY <1>3 DEF MarkSkipped, NotifyTypeOK
  <1> QED BY <1>1, <1>2, <1>3 DEF TakeBack

(* The life of the broadcast. *)
PostStep ==
  \/ CreateBroadcast \/ ScheduledAll
  \/ DeleteBroadcast \/ DeleteNotifications \/ DeletePost \/ DeleteFails

LEMMA BroadcastStep ==
  ASSUME NotificationsInv, PostStep
  PROVE  NotificationsInv'
  <1> USE DEF NotificationsInv, PublisherFits, TakingFits, FlightFits, SkippedIsSilent, SentWasSent,
              feedVars, logVars, qstashVars, dispatchVars
  <1>1. CASE CreateBroadcast
    BY <1>1 DEF CreateBroadcast, NotifyTypeOK
  <1>2. CASE ScheduledAll
    BY <1>2 DEF ScheduledAll, NotifyTypeOK
  <1>3. CASE DeleteBroadcast
    BY <1>3 DEF DeleteBroadcast, Cancellable, NotifyTypeOK
  <1>4. CASE DeleteNotifications
    BY <1>4 DEF DeleteNotifications, NotifyTypeOK
  <1>5. CASE DeletePost
    BY <1>5 DEF DeletePost, NotifyTypeOK
  <1>6. CASE DeleteFails
    BY <1>6 DEF DeleteFails, NotifyTypeOK
  <1> QED BY <1>1, <1>2, <1>3, <1>4, <1>5, <1>6 DEF PostStep

LEMMA NotificationsStep == NotificationsInv /\ [NotifyNext]_notifyVars => NotificationsInv'
  <1> SUFFICES ASSUME NotificationsInv, [NotifyNext]_notifyVars PROVE NotificationsInv'
    OBVIOUS
  <1>1. CASE UNCHANGED notifyVars
    BY <1>1 DEF notifyVars, NotificationsInv, NotifyTypeOK, PublisherFits, TakingFits, FlightFits,
                SkippedIsSilent, SentWasSent
  <1>2. CASE NotifyNext
    BY <1>2, PublishStep, DispatchStep, TakeBackStep, BroadcastStep DEF NotifyNext, PostStep
  <1> QED BY <1>1, <1>2
(* Types, as the runs use them when they look at a log row.                *)
THEOREM NotificationsTypeCorrect == NotifySpec => []NotifyTypeOK
  <1>1. NotificationsInv => NotifyTypeOK
    BY DEF NotificationsInv
  <1> QED BY <1>1, NotificationsInit, NotificationsStep, PTL DEF NotifySpec

(* The log never claims a message was sent that was not                    *)
(* (dispatch.Controller.js:66-71), for any number of retries.              *)
THEOREM NotificationsSentWasSent == NotifySpec => []SentWasSent
  <1>1. NotificationsInv => SentWasSent
    BY DEF NotificationsInv
  <1> QED BY <1>1, NotificationsInit, NotificationsStep, PTL DEF NotifySpec

(* What cancelShowReminder and deleteBroadcast mark as skipped has gone    *)
(* from QStash for good.                                                   *)
THEOREM NotificationsSkippedSilent == NotifySpec => []SkippedIsSilent
  <1>1. NotificationsInv => SkippedIsSilent
    BY DEF NotificationsInv
  <1> QED BY <1>1, NotificationsInit, NotificationsStep, PTL DEF NotifySpec

-----------------------------------------------------------------------------
(* Deleting a broadcast.                                                   *)

LEMMA BroadcastInit == NotifyInit => TagsFit /\ PostFits
  BY DEF NotifyInit, TagsFit, PostFits, Recipients

(* The steps of a notification leave the broadcast alone, but for a        *)
(* publisher that dies.                                                    *)
LEMMA TagsStep ==
  ASSUME NotifyTypeOK, TagsFit, PostFits, NEW n \in Notes, Publish(n)
  PROVE  TagsFit' /\ PostFits'
  <1> USE DEF TagsFit, PostFits, Recipients, feedVars, logVars, qstashVars, dispatchVars, Goto
  <1>1. CASE InsertInApp(n)
    BY <1>1 DEF InsertInApp, NotifyTypeOK
  <1>2. CASE TagBroadcast(n)
    BY <1>2 DEF TagBroadcast, NotifyTypeOK
  <1>3. CASE CreateDispatchLogRow(n)
    BY <1>3 DEF CreateDispatchLogRow, NotifyTypeOK
  <1>4. CASE PublishDispatch(n)
    BY <1>4 DEF PublishDispatch, NotifyTypeOK
  <1>5. CASE StoreMessageId(n)
    BY <1>5 DEF StoreMessageId, NotifyTypeOK
  <1>6. CASE PublishCatch(n)
    BY <1>6 DEF PublishCatch, NotifyTypeOK
  <1>7. CASE PublisherDies(n)
    BY <1>7 DEF PublisherDies, NotifyTypeOK
  <1> QED BY <1>1, <1>2, <1>3, <1>4, <1>5, <1>6, <1>7 DEF Publish

LEMMA TagsPostStep ==
  ASSUME NotifyTypeOK, TagsFit, PostFits, PostStep
  PROVE  TagsFit' /\ PostFits'
  <1> USE DEF TagsFit, PostFits, Recipients, feedVars, logVars, qstashVars, dispatchVars
  <1>1. CASE CreateBroadcast
    BY <1>1 DEF CreateBroadcast, NotifyTypeOK
  <1>2. CASE ScheduledAll
    BY <1>2 DEF ScheduledAll, NotifyTypeOK
  <1>3. CASE DeleteBroadcast
    BY <1>3 DEF DeleteBroadcast, NotifyTypeOK
  <1>4. CASE DeleteNotifications
    BY <1>4 DEF DeleteNotifications, DeletedRows, NotifyTypeOK
  <1>5. CASE DeletePost
    BY <1>5 DEF DeletePost, NotifyTypeOK
  <1>6. CASE DeleteFails
    BY <1>6 DEF DeleteFails, NotifyTypeOK
  <1> QED BY <1>1, <1>2, <1>3, <1>4, <1>5, <1>6 DEF PostStep

LEMMA TagsNext == NotifyTypeOK /\ TagsFit /\ PostFits /\ [NotifyNext]_notifyVars => TagsFit' /\ PostFits'
  <1> SUFFICES ASSUME NotifyTypeOK, TagsFit, PostFits, [NotifyNext]_notifyVars PROVE TagsFit' /\ PostFits'
    OBVIOUS
  <1>1. CASE UNCHANGED <<kind, feed, tagged, publisher, post>>
    BY <1>1 DEF TagsFit, PostFits, Recipients
  <1>2. ASSUME NEW n \in Notes, Deliver(n) \/ HandleDispatch(n) \/ CancelShowReminder(n) \/ TakeBack(n)
        PROVE  UNCHANGED <<kind, feed, tagged, publisher, post>>
    BY <1>2 DEF Deliver, HandleDispatch, Send, RecipientGone, MarkSent, MarkDispatchFailed,
                DispatchDies, CancelShowReminder, TakeBack, CancelMessage, MarkSkipped, feedVars
  <1>3. CASE UNCHANGED notifyVars
    BY <1>1, <1>3 DEF notifyVars
  <1> QED BY <1>1, <1>2, <1>3, TagsStep, TagsPostStep DEF NotifyNext, PostStep

LEMMA PublisherSteps ==
  ASSUME NEW n \in Notes, Publish(n) PROVE flight' = flight
  BY DEF Publish, InsertInApp, TagBroadcast, CreateDispatchLogRow, PublishDispatch, StoreMessageId,
         PublishCatch, PublisherDies, dispatchVars

(* Only a delivery that finds the notification begins to send.             *)
LEMMA SendingNeedsFeed ==
  ASSUME NotifyTypeOK, [NotifyNext]_notifyVars, NEW n \in Notes, flight[n] = "idle", flight'[n] = "sending"
  PROVE  feed[n] = "there"
  <1>1. ~UNCHANGED flight
    OBVIOUS
  <1>2. ~PostStep
    BY <1>1 DEF PostStep, CreateBroadcast, ScheduledAll, DeleteBroadcast, DeleteNotifications, DeletePost,
                DeleteFails, dispatchVars
  <1>3. PICK m \in Notes : Deliver(m) \/ HandleDispatch(m) \/ CancelShowReminder(m) \/ TakeBack(m)
    BY <1>1, <1>2, PublisherSteps DEF NotifyNext, PostStep, notifyVars
  <1>4. Deliver(m) \/ HandleDispatch(m)
    BY <1>1, <1>3 DEF CancelShowReminder, TakeBack, CancelMessage, MarkSkipped, dispatchVars
  <1>5. CASE HandleDispatch(m)
    BY <1>5 DEF NotifyTypeOK, HandleDispatch, Send, RecipientGone, MarkSent, MarkDispatchFailed, DispatchDies
  <1>6. CASE Deliver(m)
    BY <1>6 DEF NotifyTypeOK, Deliver
  <1> QED BY <1>4, <1>5, <1>6

(* Once a broadcast that was scheduled to the end is deleted, no delivery  *)
(* of it begins to send (broadcast.js:215-221), whatever became of its     *)
(* messages.                                                               *)
THEOREM NotificationsDeletedSilent == NotifySpec => DeletedIsSilent
  <1>1. NotifyTypeOK /\ TagsFit /\ PostFits /\ [NotifyNext]_notifyVars =>
          [\A n \in Notes : kind[n] = "broadcast" /\ post.deletion = "done" /\ post.whole
             => ~(flight[n] = "idle" /\ flight'[n] = "sending")]_notifyVars
    BY SendingNeedsFeed DEF PostFits, Recipients
  <1>2. NotificationsInv => NotifyTypeOK
    BY DEF NotificationsInv
  <1> QED BY <1>1, <1>2, NotificationsInit, NotificationsStep, BroadcastInit, TagsNext, PTL
         DEF NotifySpec, DeletedIsSilent

==============================================================================
