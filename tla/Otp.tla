--------------------------------- MODULE Otp ---------------------------------
(***************************************************************************)
(* The one-time codes of one customer: otp.Controller.js and the reset     *)
(* endpoints and the Google sign-in of customerAuth.Controller.js.         *)
(*                                                                         *)
(* There is one row for each type of code, overwritten by every new code.  *)
(* A guess reads the row, compares, and then counts the miss or marks the  *)
(* code, by the id of the row: the code may be another one by then.  The   *)
(* model covers ten minutes, the window of the send limit.                 *)
(***************************************************************************)
EXTENDS Naturals, FiniteSets

CONSTANTS Requests,      \* guesses that run at the same time
          MaxAttempts,   \* MAX_OTP_ATTEMPTS
          SendLimit,     \* OTP_RATE_LIMIT
          MaxSends       \* bound: codes of one type

ASSUME OtpAssumption == /\ MaxAttempts \in Nat \ {0} /\ SendLimit \in Nat /\ MaxSends \in Nat
                        /\ IsFiniteSet(Requests)

VARIABLES customer,   \* "none", "unverified" or "verified": the row in customers
          code,       \* type -> its row in otp_verifications; id 0: no row yet
          request,    \* request -> the endpoint it is in and what it read
          entered,    \* history: <<type, id>> of the codes somebody entered right
          google      \* history: a Google sign-in made or activated the account

vars == <<customer, code, request, entered, google>>

Types == {"signup", "password_reset"}
Code == [id : 0 .. MaxSends, used : BOOLEAN, expired : BOOLEAN, attempts : Nat]
Request == [step : {"idle", "verify", "reset", "activate"}, type : Types, id : 0 .. MaxSends]

NewCode(i) == [id |-> i, used |-> FALSE, expired |-> FALSE, attempts |-> 0]
NoCode == NewCode(0)
Idle == [step |-> "idle", type |-> "signup", id |-> 0]

Init == /\ customer = "none"
        /\ code = [t \in Types |-> NoCode]
        /\ request = [r \in Requests |-> Idle]
        /\ entered = {}
        /\ google = FALSE

-----------------------------------------------------------------------------
RegisterCustomer ==
  /\ customer = "none"
  /\ customer' = "unverified"
  /\ UNCHANGED <<code, request, entered, google>>

(* A sign-in with Google makes the account, or links itself to it, and     *)
(* sets is_verified in both cases.  On an account that is verified already *)
(* it changes nothing of what is modelled here.                            *)
GoogleLoginCustomer ==
  /\ customer # "verified"
  /\ customer' = "verified"
  /\ google' = TRUE
  /\ UNCHANGED <<code, request, entered>>

(* SELECT COUNT over the rows of this type: there is one at most. *)
Recent(t) == Cardinality({i \in {code[t].id} : i > 0})

(* The upsert; forgotPasswordCustomer has its own copy of it. *)
SendOtp(t) ==
  /\ customer # "none"
  /\ Recent(t) < SendLimit
  /\ code[t].id < MaxSends
  /\ code' = [code EXCEPT ![t] = NewCode(code[t].id + 1)]
  /\ UNCHANGED <<customer, request, entered, google>>

ForgotPasswordCustomer == SendOtp("password_reset")

CodeExpires(t) ==
  /\ code[t].id > 0
  /\ code' = [code EXCEPT ![t].expired = TRUE]
  /\ UNCHANGED <<customer, request, entered, google>>

-----------------------------------------------------------------------------
(* A slip: one attempt more. *)
GuessableOnceMore(t) == code[t].id > 0 /\ ~code[t].used /\ ~code[t].expired /\ code[t].attempts <= MaxAttempts

Guessable(t) == code[t].id > 0 /\ ~code[t].used /\ ~code[t].expired /\ code[t].attempts < MaxAttempts

(* Both endpoints read the row and compare the code they were sent. *)
ReadCode(r, t, endpoint) ==
  /\ request[r] = Idle
  /\ Guessable(t)
  /\ request' = [request EXCEPT ![r] = [step |-> endpoint, type |-> t, id |-> code[t].id]]
  /\ UNCHANGED <<customer, code, entered, google>>

WrongCode(r) ==
  /\ request[r].step \in {"verify", "reset"}
  /\ code' = [code EXCEPT ![request[r].type].attempts = @ + 1]
  /\ request' = [request EXCEPT ![r] = Idle]
  /\ UNCHANGED <<customer, entered, google>>

(* A slip: the UPDATE asks for the e-mail and forgets the type. *)
MarkedBoth(t) == [u \in Types |-> [code[u] EXCEPT !.used = @ \/ code[u].id > 0]]

Marked(t) == [code EXCEPT ![t].used = TRUE]

(* A slip: any right code activates. *)
NextStepAlways(endpoint, t) == IF endpoint = "verify" THEN "activate" ELSE "idle"

(* What is left to do after the code is marked.  resetPasswordCustomer     *)
(* goes on with the password and the sessions, see Sessions.tla.           *)
NextStep(endpoint, t) == IF endpoint = "verify" /\ t = "signup" THEN "activate" ELSE "idle"

RightCode(r) ==
  LET t == request[r].type IN
  /\ request[r].step \in {"verify", "reset"}
  /\ code' = Marked(t)
  /\ entered' = entered \cup {<<t, request[r].id>>}
  /\ request' = [request EXCEPT ![r].step = NextStep(request[r].step, t)]
  /\ UNCHANGED <<customer, google>>

ActivateCustomer(r) ==
  /\ request[r].step = "activate"
  /\ customer' = "verified"
  /\ request' = [request EXCEPT ![r] = Idle]
  /\ UNCHANGED <<code, entered, google>>

(* A statement fails or the server stops: the customer sees an error. *)
RequestFails(r) ==
  /\ request[r] # Idle
  /\ request' = [request EXCEPT ![r] = Idle]
  /\ UNCHANGED <<customer, code, entered, google>>

VerifyOtp(r) == (\E t \in Types : ReadCode(r, t, "verify")) \/ WrongCode(r) \/ RightCode(r) \/ ActivateCustomer(r)
ResetPasswordCustomer(r) == ReadCode(r, "password_reset", "reset")

Next ==
  \/ RegisterCustomer \/ GoogleLoginCustomer \/ ForgotPasswordCustomer
  \/ \E t \in Types : SendOtp(t) \/ CodeExpires(t)
  \/ \E r \in Requests : VerifyOtp(r) \/ ResetPasswordCustomer(r) \/ RequestFails(r)

Spec == Init /\ [][Next]_vars

-----------------------------------------------------------------------------
(* Rows are rows, and a code belongs to a customer (sendOtp, and the       *)
(* foreign key of otp_verifications).                                      *)
TypeOK ==
  /\ customer \in {"none", "unverified", "verified"}
  /\ code \in [Types -> Code]
  /\ request \in [Requests -> Request]
  /\ entered \subseteq Types \X (1 .. MaxSends)
  /\ google \in BOOLEAN
  /\ customer = "none" => \A t \in Types : code[t] = NoCode

(* The attempts are read first and counted later, so guesses that run at   *)
(* the same time get past the limit, but by one each and no further        *)
(* (verifyOtp, resetPasswordCustomer).                                     *)
AttemptsAreBounded == \A t \in Types : code[t].attempts < MaxAttempts + Cardinality(Requests)

(* A code that is marked used was entered, or replaced one that was while  *)
(* the mark was on its way (verifyOtp, resetPasswordCustomer): nothing     *)
(* done with the code of one type spends the code of the other.            *)
UsedWasEntered == \A t \in Types : code[t].used => \E i \in 1 .. code[t].id : <<t, i>> \in entered

(* An account is activated by a signup code that was entered right         *)
(* (verifyOtp) or by Google, which vouches for the e-mail                  *)
(* (customerAuth.Controller.js:514, 537-543), never by a code for a new    *)
(* password.                                                               *)
ActivationIsProved ==
  customer = "verified" => google \/ \E i \in 1 .. MaxSends : <<"signup", i>> \in entered
=============================================================================
