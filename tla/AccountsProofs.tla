--------------------------- MODULE AccountsProofs ---------------------------
(***************************************************************************)
(* Theorems about two modules that share no state: Accounts, for any sets  *)
(* of accounts, addresses, challenges and requests at the same time and    *)
(* any number of codes, and at the end Payments, for any set of payments   *)
(* and any number of stops.                                                *)
(***************************************************************************)
EXTENDS Accounts, Payments, FiniteSetTheorems, TLAPS

\* The two factors a challenge has room for.
Sides == {"first", "second"}

\* Who goes from one step of a request to the next.
LEMMA BecomeType ==
  ASSUME AccountsTypeOK, NEW w \in Requests, NEW r \in Request, Become(w, r)
  PROVE  req' \in [Requests -> Request]
  BY DEF AccountsTypeOK, Become

LEMMA IdleIsRequest == Idle \in Request
  BY DEF Request

\* The types of what a request carries.
LEMMA RequestFields ==
  ASSUME AccountsTypeOK, NEW w \in Requests
  PROVE  /\ req[w].pc \in {"mail", "find", "signUp", "compare", "consume"} => req[w].email \in Emails
         /\ req[w].pc \in {"compare", "consume"} => req[w].code \in Codes
         /\ req[w].pc \in {"markVerified", "issue", "admitted", "answer", "verify", "sendFactor",
                           "reload", "execute", "close"} => req[w].user \in Users
         /\ req[w].pc = "admitted" => req[w].email \in Emails
         /\ req[w].pc \in {"admitted", "answer", "verify", "sendFactor", "reload", "execute",
                           "close"} => req[w].session \in Sessions
         /\ req[w].pc \in {"answer", "verify", "sendFactor", "reload", "execute", "close"} =>
              req[w].ch \in Challenges
         /\ req[w].pc \in {"answer", "verify", "sendFactor"} => req[w].part \in Sides
         /\ req[w].pc \in {"answer", "verify"} => req[w].code \in 0..MaxCodes
<1>1. req[w] \in Request
  BY DEF AccountsTypeOK
<1>2. CASE req[w].pc \in {"idle", "mail", "find", "signUp", "compare", "consume", "markVerified",
                          "issue", "admitted"}
  BY <1>1, <1>2 DEF Request, Idle
<1>3. CASE req[w].pc \in {"answer", "verify", "sendFactor", "reload", "execute", "close"}
  BY <1>1, <1>3 DEF Request, Idle, Sides
<1> QED BY <1>1, <1>2, <1>3 DEF Request, Idle

\* A factor that is there has the types of its columns.
LEMMA FactorFields ==
  ASSUME AccountsTypeOK, NEW c \in Challenges, Exists(c)
  PROVE  /\ challenge[c] \in [state : {"open", "consumed"}, user : Users, action : Actions,
                              first : Factor, second : Factor]
         /\ \A p \in Sides : challenge[c][p] \in Factor
<1>1. challenge[c] \in [state : {"open", "consumed"}, user : Users, action : Actions,
                        first : Factor, second : Factor]
  BY DEF AccountsTypeOK, Exists, Challenge, NoChallenge, Gone
<1> QED BY <1>1 DEF Sides

\* What a step makes of one factor.
LEMMA FactorUpdate ==
  ASSUME AccountsTypeOK, NEW c \in Challenges, Exists(c), NEW p \in Sides, NEW f \in Factor,
         SetFactor(c, p, f)
  PROVE  /\ challenge' \in [Challenges -> Challenge]
         /\ challenge'[c].state = challenge[c].state
         /\ challenge'[c].user = challenge[c].user
         /\ challenge'[c].action = challenge[c].action
         /\ challenge'[c][p] = f
         /\ \A q \in Sides \ {p} : challenge'[c][q] = challenge[c][q]
         /\ \A d \in Challenges \ {c} : challenge'[d] = challenge[d]
<1> DEFINE Ch == [state : {"open", "consumed"}, user : Users, action : Actions,
                  first : Factor, second : Factor]
<1>1. challenge[c] \in Ch /\ challenge \in [Challenges -> Challenge]
  BY FactorFields DEF AccountsTypeOK
<1>2. [challenge[c] EXCEPT ![p] = f] \in Ch
  BY <1>1 DEF Sides
<1>3. Ch \subseteq Challenge
  BY DEF Challenge
<1>4. challenge' = [challenge EXCEPT ![c] = [challenge[c] EXCEPT ![p] = f]]
  BY DEF SetFactor
<1> QED BY <1>1, <1>2, <1>3, <1>4 DEF Sides

\* Accounts, codes and requests are of their types at first ...
LEMMA AccountsInitType == AccountsInit => AccountsTypeOK
<1> SUFFICES ASSUME AccountsInit PROVE AccountsTypeOK
  OBVIOUS
<1>1. (CHOOSE e \in Emails : TRUE) \in Emails
  BY AccountsAssumption
<1>2. email \in [Users -> Emails] /\ proven \subseteq Emails /\ verified \subseteq Users
  BY <1>1, AccountsAssumption DEF AccountsInit
<1>3. sessions \subseteq Session
  BY <1>2, AccountsAssumption DEF AccountsInit, Session, Sessions
<1>4. /\ account \in [Users -> {"none", "deleted"} \cup Live]
      /\ challenge \in [Challenges -> Challenge] /\ req \in [Requests -> Request]
  BY DEF AccountsInit, Live, Challenge, Request
<1> QED BY <1>2, <1>3, <1>4, AccountsAssumption
        DEF AccountsInit, AccountsTypeOK, Codes, Sessions

\* ... and after every step.
LEMMA AuthType ==
  ASSUME AccountsTypeOK, AuthController
  PROVE  AccountsTypeOK'
<1> USE DEF AccountsTypeOK
<1>n. MaxCodes \in Nat /\ MaxSessions \in Nat /\ mailed \in Nat /\ issued \in Nat
  BY AccountsAssumption
<1>1. ASSUME NEW w \in Requests, NEW e \in Emails, SendOtp(w, e) PROVE AccountsTypeOK'
  <2>1. [pc |-> "mail", email |-> e] \in Request
    BY DEF Request
  <2> QED BY <1>1, <2>1, BecomeType DEF SendOtp, users, counters, ghosts
<1>2. ASSUME NEW w \in Requests, NEW e \in Emails, LoadOtp(w, e) PROVE AccountsTypeOK'
  <2>1. PICK o \in otps : Become(w, [pc |-> "compare", email |-> e, code |-> o.code])
    BY <1>2 DEF LoadOtp
  <2>2. [pc |-> "compare", email |-> e, code |-> o.code] \in Request
    BY DEF Request, Otp
  <2> QED BY <1>2, <2>1, <2>2, BecomeType DEF LoadOtp, users, records, counters, ghosts
<1>3. ASSUME NEW w \in Requests, NEW u \in Users, SignUp(w, u) PROVE AccountsTypeOK'
  <2>1. [pc |-> "markVerified", user |-> u] \in Request
    BY DEF Request
  <2>2. req[w].email \in Emails
    BY <1>3, RequestFields DEF SignUp, Pc
  <2> QED BY <1>3, <2>1, <2>2, BecomeType
          DEF SignUp, CreateUser, Live, records, counters, ghosts
<1>4. ASSUME NEW w \in Requests, CreateOtp(w) PROVE AccountsTypeOK'
  <2>0. mailed + 1 \in Codes /\ mailed' \in 0..MaxCodes
    BY <1>n, <1>4 DEF CreateOtp, Codes
  <2>1. req[w].email \in Emails
    BY <1>4, RequestFields DEF CreateOtp, Pc
  <2>2. [code |-> mailed + 1, email |-> req[w].email, attempts |-> 0, consumed |-> FALSE] \in Otp
    BY <2>0, <2>1 DEF Otp
  <2>3. req' \in [Requests -> Request] /\ otps' \subseteq Otp
    BY <1>4, <2>2, BecomeType, IdleIsRequest DEF CreateOtp, Give
  <2> QED BY <1>4, <2>0, <2>3 DEF CreateOtp, users, ghosts
<1>5. ASSUME NEW w \in Requests, CompareOtp(w) PROVE AccountsTypeOK'
  <2>1. PICK o \in otps :
           /\ o.code = req[w].code
           /\ otps' = (otps \ {o}) \cup {[o EXCEPT !.attempts = @ + 1]}
           /\ guesses' = [guesses EXCEPT ![o.code] = @ + 1]
    BY <1>5 DEF CompareOtp
  <2>2. req[w].email \in Emails /\ req[w].code \in Codes
    BY <1>5, RequestFields DEF CompareOtp, Pc
  <2>3. [o EXCEPT !.attempts = @ + 1] \in Otp
    BY DEF Otp
  <2>4. [req[w] EXCEPT !.pc = "consume"] \in Request
    <3>1. req[w] \in [pc : {"compare", "consume"}, email : Emails, code : Codes]
      BY <1>5 DEF CompareOtp, Pc, Request, Idle
    <3> QED BY <3>1 DEF Request
  <2>5. req' \in [Requests -> Request]
    BY <1>5, <2>4, BecomeType, IdleIsRequest DEF CompareOtp, Give
  <2>6. guesses' \in [Codes -> Nat] /\ proven' \subseteq Emails
    BY <1>5, <2>1, <2>2 DEF CompareOtp
  <2> QED BY <1>5, <2>1, <2>3, <2>5, <2>6 DEF CompareOtp, users, counters
<1>6. ASSUME NEW w \in Requests, ConsumeOtp(w) PROVE AccountsTypeOK'
  <2>1. PICK o \in otps : otps' = (otps \ {o}) \cup {[o EXCEPT !.consumed = TRUE]}
    BY <1>6 DEF ConsumeOtp
  <2>2. [o EXCEPT !.consumed = TRUE] \in Otp
    BY DEF Otp
  <2>3. [pc |-> "find", email |-> req[w].email] \in Request
    BY <1>6, RequestFields DEF ConsumeOtp, Pc, Request
  <2> QED BY <1>6, <2>1, <2>2, <2>3, BecomeType DEF ConsumeOtp, users, counters, ghosts
<1>7. ASSUME NEW w \in Requests, FindUser(w) PROVE AccountsTypeOK'
  <2>1. [req[w] EXCEPT !.pc = "signUp"] \in Request
    <3>1. req[w] \in [pc : {"mail", "find", "signUp"}, email : Emails]
      BY <1>7 DEF FindUser, Pc, Request, Idle
    <3> QED BY <3>1 DEF Request
  <2>2. \A u \in Users, pc \in {"issue", "markVerified"} : [pc |-> pc, user |-> u] \in Request
    BY DEF Request
  <2>3. req' \in [Requests -> Request]
    <3>1. \/ Become(w, [req[w] EXCEPT !.pc = "signUp"]) \/ Become(w, Idle)
          \/ \E u \in Users, pc \in {"issue", "markVerified"} :
               Become(w, [pc |-> pc, user |-> u])
      BY <1>7 DEF FindUser, Give, Holders
    <3> QED BY <3>1, <2>1, <2>2, BecomeType, IdleIsRequest
  <2> QED BY <1>7, <2>3 DEF FindUser, users, records, counters, ghosts
<1>8. ASSUME NEW w \in Requests, MarkVerified(w) PROVE AccountsTypeOK'
  <2>1. req[w] \in [pc : {"markVerified", "issue"}, user : Users]
    BY <1>8 DEF MarkVerified, Pc, Request, Idle
  <2>2. [req[w] EXCEPT !.pc = "issue"] \in Request
    BY <2>1 DEF Request
  <2> QED BY <1>8, <2>1, <2>2, BecomeType DEF MarkVerified, records, counters, ghosts
<1>9. ASSUME NEW w \in Requests, Issue(w) PROVE AccountsTypeOK'
  <2>0. issued + 1 \in Sessions /\ issued' \in 0..MaxSessions
    BY <1>n, <1>9 DEF Issue, Sessions
  <2>1. req[w].user \in Users
    BY <1>9, RequestFields DEF Issue, Pc
  <2>2. [id |-> issued + 1, user |-> req[w].user] \in Session
    BY <2>0, <2>1 DEF Session
  <2>3. req' \in [Requests -> Request] /\ sessions' \subseteq Session
    BY <1>9, <2>2, BecomeType, IdleIsRequest DEF Issue, Give
  <2>4. beside' \subseteq Sessions
    BY <1>9, <2>0 DEF Issue
  <2> QED BY <1>9, <2>0, <2>3, <2>4 DEF Issue, users, records
<1>10. ASSUME NEW w \in Requests, Logout(w) PROVE AccountsTypeOK'
  BY <1>10, BecomeType, IdleIsRequest DEF Logout, Give, users, records, counters, ghosts
<1> QED BY <1>1, <1>2, <1>3, <1>4, <1>5, <1>6, <1>7, <1>8, <1>9, <1>10 DEF AuthController

LEMMA StepUpType ==
  ASSUME AccountsTypeOK, StepUpController
  PROVE  AccountsTypeOK'
<1> USE DEF AccountsTypeOK
<1>n. MaxCodes \in Nat /\ MaxRulings \in Nat /\ mailed \in Nat /\ rulings \in Nat
  BY AccountsAssumption
<1>r. \A u \in Users, s \in Sessions, c \in Challenges :
        /\ \A pc \in {"reload", "execute", "close"} :
             [pc |-> pc, user |-> u, session |-> s, ch |-> c] \in Request
        /\ \A p \in Sides :
             [pc |-> "sendFactor", user |-> u, session |-> s, ch |-> c, part |-> p] \in Request
        /\ \A p \in Sides, k \in 0..MaxCodes, pc \in {"answer", "verify"} :
             [pc |-> pc, user |-> u, session |-> s, ch |-> c, part |-> p, code |-> k] \in Request
  BY DEF Request, Sides
<1>s. \A c : NextFactor(c) \in Sides
  BY DEF NextFactor, Sides
<1>l. \A w \in Requests, c \in Challenges : Loadable(w, c) =>
        req[w].user \in Users /\ req[w].session \in Sessions /\ Exists(c)
  BY RequestFields DEF Loadable, Pc, Exists
<1>1. ASSUME NEW w \in Requests, NEW c \in Challenges, LoadFactor(w, c) PROVE AccountsTypeOK'
  <2>1. challenge[c][NextFactor(challenge[c])].code \in 0..MaxCodes
    BY <1>1, <1>l, <1>s, FactorFields DEF LoadFactor, Factor
  <2> QED BY <1>1, <1>l, <1>r, <1>s, <2>1, BecomeType
          DEF LoadFactor, users, records, counters, ghosts
<1>2. ASSUME NEW w \in Requests, NEW c \in Challenges, Resend(w, c) PROVE AccountsTypeOK'
  BY <1>2, <1>l, <1>r, <1>s, BecomeType DEF Resend, users, records, counters, ghosts
<1>3. ASSUME NEW w \in Requests, NEW c \in Challenges, NEW a \in Actions, NEW e \in Emails,
             CreateChallenge(w, c, a, e)
      PROVE  AccountsTypeOK'
  <2>1. req[w].user \in Users /\ req[w].session \in Sessions /\ req[w].email \in Emails
    BY <1>3, RequestFields DEF CreateChallenge, Pc
  <2>2. \A x \in Emails : Fresh(x) \in Factor
    BY <1>n DEF Fresh, Factor
  <2>3. [state |-> "open", user |-> req[w].user, action |-> a, first |-> Fresh(req[w].email),
         second |-> Fresh(IF a = "change_email" THEN e ELSE req[w].email)] \in Challenge
    BY <2>1, <2>2 DEF Challenge
  <2>4. challenge' \in [Challenges -> Challenge]
    BY <1>3, <2>3 DEF CreateChallenge
  <2>5. req' \in [Requests -> Request]
    BY <1>3, <1>r, <2>1, BecomeType DEF CreateChallenge, Sides
  <2>6. rulings' \in 0..MaxRulings
    BY <1>3, <1>n DEF CreateChallenge, Ruling
  <2> QED BY <1>3, <2>4, <2>5, <2>6 DEF CreateChallenge, users, ghosts
<1>4. ASSUME NEW w \in Requests, NEW c \in Challenges, NEW e \in Emails, ChangeEmail(w, c, e)
      PROVE  AccountsTypeOK'
  <2>1. req[w] \in [pc : {"reload", "execute", "close"}, user : Users, session : Sessions,
                    ch : Challenges]
    BY <1>4 DEF ChangeEmail, Pc, Request, Idle
  <2>2. [req[w] EXCEPT !.pc = "close"] \in Request
    BY <2>1 DEF Request
  <2> QED BY <1>4, <2>1, <2>2, BecomeType DEF ChangeEmail, records, counters, ghosts
<1>5. ASSUME NEW w \in Requests, SendFactor(w) PROVE AccountsTypeOK'
  <2>0. req[w].ch \in Challenges /\ req[w].part \in Sides /\ Exists(req[w].ch)
    BY <1>5, RequestFields DEF SendFactor, Pc
  <2> DEFINE f == [challenge[req[w].ch][req[w].part] EXCEPT !.code = mailed + 1, !.attempts = 0]
  <2>1. mailed + 1 \in 0..MaxCodes /\ mailed' \in 0..MaxCodes
    BY <1>5, <1>n DEF SendFactor
  <2>2. f \in Factor
    <3>1. challenge[req[w].ch][req[w].part] \in Factor
      BY <2>0, FactorFields
    <3> QED BY <2>1, <3>1 DEF Factor
  <2>3. SetFactor(req[w].ch, req[w].part, f)
    BY <1>5 DEF SendFactor
  <2>4. challenge' \in [Challenges -> Challenge]
    BY <2>0, <2>2, <2>3, FactorUpdate
  <2> QED BY <1>5, <2>1, <2>4, BecomeType, IdleIsRequest DEF SendFactor, Give, users, ghosts
<1>6. ASSUME NEW w \in Requests, AnswerFactor(w) PROVE AccountsTypeOK'
  <2>0. req[w] \in [pc : {"answer", "verify"}, user : Users, session : Sessions,
                    ch : Challenges, part : Sides, code : 0..MaxCodes] /\ Exists(req[w].ch)
    BY <1>6 DEF AnswerFactor, Pc, Request, Idle, Sides
  <2> DEFINE f == [challenge[req[w].ch][req[w].part] EXCEPT !.attempts = @ + 1]
  <2>1. challenge[req[w].ch][req[w].part] \in Factor
    BY <2>0, FactorFields
  <2>2. f \in Factor /\ challenge[req[w].ch][req[w].part].target \in Emails
    BY <2>1 DEF Factor
  <2>3. SetFactor(req[w].ch, req[w].part, f)
    BY <1>6 DEF AnswerFactor
  <2>4. challenge' \in [Challenges -> Challenge]
    <3>1. req[w].ch \in Challenges /\ req[w].part \in Sides
      BY <2>0
    <3> HIDE DEF f
    <3> QED BY <2>0, <2>2, <2>3, <3>1, FactorUpdate
  <2>5. req' \in [Requests -> Request]
    <3>1. [req[w] EXCEPT !.pc = "verify"] \in Request
      BY <2>0 DEF Request, Sides
    <3> QED BY <1>6, <3>1, BecomeType, IdleIsRequest DEF AnswerFactor, Give
  <2>6. guesses' \in [Codes -> Nat]
    BY <1>6, <1>n, <2>0 DEF AnswerFactor, Codes
  <2>7. proven' \subseteq Emails
    BY <1>6, <2>2 DEF AnswerFactor
  <2> QED BY <1>6, <2>4, <2>5, <2>6, <2>7 DEF AnswerFactor, users, counters
<1>7. ASSUME NEW w \in Requests, VerifyFactor(w) PROVE AccountsTypeOK'
  <2>0. /\ req[w].user \in Users /\ req[w].session \in Sessions /\ req[w].ch \in Challenges
        /\ req[w].part \in Sides /\ Exists(req[w].ch)
    BY <1>7, RequestFields DEF VerifyFactor, Pc
  <2> DEFINE f == [challenge[req[w].ch][req[w].part] EXCEPT !.verified = TRUE]
  <2>1. f \in Factor
    <3>1. challenge[req[w].ch][req[w].part] \in Factor
      BY <2>0, FactorFields
    <3> QED BY <3>1 DEF Factor
  <2>2. SetFactor(req[w].ch, req[w].part, f)
    BY <1>7 DEF VerifyFactor
  <2>3. challenge' \in [Challenges -> Challenge]
    <3> HIDE DEF f
    <3> QED BY <2>0, <2>1, <2>2, FactorUpdate
  <2> QED BY <1>7, <1>r, <2>0, <2>3, BecomeType DEF VerifyFactor, users, counters, ghosts
<1>8. ASSUME NEW w \in Requests, Reload(w) PROVE AccountsTypeOK'
  <2>1. req[w] \in [pc : {"reload", "execute", "close"}, user : Users, session : Sessions,
                    ch : Challenges]
    BY <1>8 DEF Reload, Pc, Request, Idle
  <2>2. [req[w] EXCEPT !.pc = "execute"] \in Request
    BY <2>1 DEF Request
  <2>3. req' \in [Requests -> Request]
    BY <1>8, <1>r, <1>s, <2>1, <2>2, BecomeType DEF Reload
  <2> QED BY <1>8, <2>3 DEF Reload, users, records, counters, ghosts
<1>9. ASSUME NEW w \in Requests, DeleteAccount(w) PROVE AccountsTypeOK'
  <2>1. req[w] \in [pc : {"reload", "execute", "close"}, user : Users, session : Sessions,
                    ch : Challenges]
    BY <1>9 DEF DeleteAccount, Pc, Request, Idle
  <2>2. [req[w] EXCEPT !.pc = "close"] \in Request
    BY <2>1 DEF Request
  <2>3. challenge' \in [Challenges -> Challenge]
    BY <1>9 DEF DeleteAccount, Challenge
  <2>4. req' \in [Requests -> Request]
    BY <1>9, <2>2, BecomeType DEF DeleteAccount
  <2>5. /\ account' \in [Users -> {"none", "deleted"} \cup Live]
        /\ verified' \subseteq Users /\ sessions' \subseteq Session
    BY <1>9, <2>1 DEF DeleteAccount
  <2> QED BY <1>9, <2>3, <2>4, <2>5 DEF DeleteAccount, counters, ghosts
<1>10. ASSUME NEW w \in Requests, Close(w) PROVE AccountsTypeOK'
  <2>1. req[w].ch \in Challenges
    BY <1>10, RequestFields DEF Close, Pc
  <2>2. challenge' \in [Challenges -> Challenge]
    <3>1. challenge' = IF Exists(req[w].ch) THEN [challenge EXCEPT ![req[w].ch].state = "consumed"]
                       ELSE challenge
      BY <1>10 DEF Close
    <3>2. Exists(req[w].ch) => [challenge[req[w].ch] EXCEPT !.state = "consumed"] \in Challenge
      <4> SUFFICES ASSUME Exists(req[w].ch)
                   PROVE  [challenge[req[w].ch] EXCEPT !.state = "consumed"] \in Challenge
        OBVIOUS
      <4>1. challenge[req[w].ch] \in [state : {"open", "consumed"}, user : Users, action : Actions,
                                      first : Factor, second : Factor]
        BY <2>1, FactorFields
      <4> QED BY <4>1 DEF Challenge
    <3> QED BY <2>1, <3>1, <3>2
  <2> QED BY <1>10, <2>2, BecomeType, IdleIsRequest DEF Close, Give, users, counters, ghosts
<1> QED BY <1>1, <1>2, <1>3, <1>4, <1>5, <1>6, <1>7, <1>8, <1>9, <1>10 DEF StepUpController

LEMMA TypeStep ==
  ASSUME AccountsTypeOK, [AccountsNext]_accountVars
  PROVE  AccountsTypeOK'
<1> USE DEF AccountsTypeOK
<1>1. CASE CommitSuspend
  BY <1>1 DEF CommitSuspend, records, counters, ghosts, Live, NoSuspension
<1>2. ASSUME NEW u \in Users, BeginSuspend(u) PROVE AccountsTypeOK'
  BY <1>2, AccountsAssumption DEF BeginSuspend, Ruling, users, records, ghosts
<1>3. ASSUME NEW u \in Users, Unsuspend(u) PROVE AccountsTypeOK'
  BY <1>3 DEF Unsuspend, records, counters, ghosts, Live
<1>4. ASSUME NEW u \in Users, RevokeSessions(u) PROVE AccountsTypeOK'
  <2>1. rulings' \in 0..MaxRulings /\ sessions' \subseteq Session
    BY <1>4, AccountsAssumption DEF RevokeSessions, Ruling
  <2> QED BY <1>4, <2>1 DEF RevokeSessions, users, records, ghosts
<1>5. ASSUME NEW u \in Users, NEW e \in Emails, GuestCheckout(u, e) PROVE AccountsTypeOK'
  BY <1>5 DEF GuestCheckout, CreateUser, Live, records, counters, ghosts
<1>6. ASSUME NEW s \in sessions, NEW w \in Requests, Admit(w, s) PROVE AccountsTypeOK'
  <2>1. [pc |-> "admitted", user |-> s.user, email |-> email[s.user], session |-> s.id]
          \in Request
    BY DEF Request, Session
  <2> QED BY <1>6, <2>1, BecomeType DEF Admit, users, records, counters, ghosts
<1>7. ASSUME NEW w \in Requests, Abandon(w) PROVE AccountsTypeOK'
  BY <1>7, BecomeType, IdleIsRequest DEF Abandon, Give, users, records, counters, ghosts
<1>8. CASE UNCHANGED accountVars
  BY <1>8 DEF accountVars, users, records, counters, ghosts
<1> QED BY <1>1, <1>2, <1>3, <1>4, <1>5, <1>6, <1>7, <1>8, AuthType, StepUpType
        DEF AccountsNext, AdminUsersController

----------------------------------------------------------------------------
(* Verified addresses *)

\* An account that may be marked verified.
Owns(u) == account[u] # "none" /\ (account[u] \in Live => email[u] \in proven)

InChallenge == {"answer", "verify", "sendFactor", "reload", "execute", "close"}

\* What a request may rely on although it looks at it no more: the code of its
\* address was typed in, its challenge has been created, the factor it is
\* about to verify was answered, and all are when it executes the action.
RequestOK(w) ==
  /\ req[w].pc \in {"consume", "find", "signUp"} => req[w].email \in proven
  /\ req[w].pc \in {"markVerified", "issue"} => Owns(req[w].user)
  /\ req[w].pc \in InChallenge => challenge[req[w].ch] # NoChallenge
  /\ req[w].pc = "verify" /\ Exists(req[w].ch) =>
       challenge[req[w].ch][req[w].part].target \in proven
  /\ req[w].pc = "execute" /\ Exists(req[w].ch) => Pending(challenge[req[w].ch]) = {}

FactorsOK ==
  \A c \in Challenges : Exists(c) =>
    \A p \in Sides : challenge[c][p].verified => challenge[c][p].target \in proven

ProvenInv ==
  /\ AccountsTypeOK
  /\ \A u \in verified : Owns(u)
  /\ FactorsOK
  /\ \A w \in Requests : RequestOK(w)

LEMMA ProvenInitInv == AccountsInit => ProvenInv
<1> SUFFICES ASSUME AccountsInit PROVE ProvenInv
  OBVIOUS
<1>1. AccountsTypeOK
  BY AccountsInitType
<1>2. \A u \in verified : Owns(u)
  BY AccountsAssumption DEF AccountsInit, Owns
<1>3. FactorsOK /\ \A w \in Requests : RequestOK(w)
  BY DEF AccountsInit, FactorsOK, RequestOK, Exists, NoChallenge, Idle, InChallenge
<1> QED BY <1>1, <1>2, <1>3 DEF ProvenInv

\* What no step takes back: a proof, an account's claim to its address, and
\* what a challenge asks for and has seen.
ProofsKept == proven \subseteq proven'
ClaimsKept == \A u \in Users : Owns(u) => Owns(u)'
ChallengesKept ==
  \A c \in Challenges :
    /\ challenge[c] # NoChallenge => challenge'[c] # NoChallenge
    /\ challenge[c] = NoChallenge /\ Exists(c)' => \A p \in Sides : ~challenge'[c][p].verified
    /\ challenge[c] # NoChallenge /\ Exists(c)' =>
         /\ Exists(c) /\ challenge'[c].action = challenge[c].action
         /\ \A p \in Sides :
              /\ challenge'[c][p].target = challenge[c][p].target
              /\ challenge[c][p].verified => challenge'[c][p].verified
              /\ challenge'[c][p].verified =>
                   challenge[c][p].verified \/ challenge[c][p].target \in proven

\* Requests that stand still keep what they rely on.
LEMMA StandStill ==
  ASSUME ProvenInv, ProofsKept, ClaimsKept, ChallengesKept,
         NEW w \in Requests, req'[w] = req[w]
  PROVE  RequestOK(w)'
<1>1. RequestOK(w) /\ AccountsTypeOK
  BY DEF ProvenInv
<1>2. req[w].pc \in {"markVerified", "issue"} => Owns(req[w].user)'
  BY <1>1, RequestFields DEF RequestOK, ClaimsKept
<1>3. req[w].pc \in InChallenge => req[w].ch \in Challenges /\ challenge'[req[w].ch] # NoChallenge
  BY <1>1, RequestFields DEF RequestOK, ChallengesKept, InChallenge
<1>4. req[w].pc = "verify" /\ Exists(req[w].ch)' =>
        challenge'[req[w].ch][req[w].part].target \in proven'
  BY <1>1, <1>3, RequestFields DEF RequestOK, ChallengesKept, ProofsKept, InChallenge
<1>5. ASSUME req[w].pc = "execute", Exists(req[w].ch)'
      PROVE  Pending(challenge'[req[w].ch]) = {}
  <2> DEFINE c == req[w].ch
  <2>1. c \in Challenges /\ challenge[c] # NoChallenge
    BY <1>1, <1>3, <1>5 DEF RequestOK, InChallenge
  <2>2. /\ Exists(c) /\ challenge'[c].action = challenge[c].action
        /\ \A p \in Sides : challenge[c][p].verified => challenge'[c][p].verified
    BY <1>5, <2>1 DEF ChallengesKept
  <2>3. Pending(challenge[c]) = {}
    BY <1>1, <1>5, <2>2 DEF RequestOK
  <2> QED BY <2>2, <2>3 DEF Pending, Parts, Sides
<1>6. req[w].pc \in {"consume", "find", "signUp"} => req[w].email \in proven'
  BY <1>1 DEF RequestOK, ProofsKept
<1> QED BY <1>2, <1>3, <1>4, <1>5, <1>6 DEF RequestOK, Owns, Exists, InChallenge

\* Enough for a step of request w to keep the invariant.
LEMMA Conclude ==
  ASSUME ProvenInv, AccountsTypeOK', ProofsKept, ClaimsKept, ChallengesKept,
         \A u \in verified' : u \in verified \/ Owns(u)',
         NEW w \in Requests, RequestOK(w)',
         \A v \in Requests \ {w} : req'[v] = req[v]
  PROVE  ProvenInv'
<1>1. \A u \in verified' : Owns(u)'
  BY DEF ProvenInv, ClaimsKept, AccountsTypeOK
<1>2. FactorsOK'
  <2> SUFFICES ASSUME NEW c \in Challenges, Exists(c)', NEW p \in Sides, challenge'[c][p].verified
               PROVE  challenge'[c][p].target \in proven'
    BY DEF FactorsOK, Exists
  <2>1. challenge[c] # NoChallenge
    BY DEF ChallengesKept
  <2> QED BY <2>1 DEF ChallengesKept, ProvenInv, FactorsOK, ProofsKept
<1>3. \A v \in Requests : RequestOK(v)'
  BY StandStill
<1> QED BY <1>1, <1>2, <1>3 DEF ProvenInv

\* A step that leaves accounts, challenges and proofs alone keeps them.
LEMMA Quiet ==
  ASSUME ProvenInv, UNCHANGED <<account, email, challenge, proven>>
  PROVE  ProofsKept /\ ClaimsKept /\ ChallengesKept
<1>1. ProofsKept /\ ClaimsKept
  BY DEF ProofsKept, ClaimsKept, Owns
<1>2. \A c \in Challenges : Exists(c)' => Exists(c) /\ challenge[c] # NoChallenge
  BY DEF Exists, NoChallenge
<1>3. ChallengesKept
  BY <1>2 DEF ChallengesKept
<1> QED BY <1>1, <1>3

LEMMA Becomes ==
  ASSUME AccountsTypeOK, NEW w \in Requests, NEW r, Become(w, r)
  PROVE  req'[w] = r /\ \A v \in Requests \ {w} : req'[v] = req[v]
  BY DEF AccountsTypeOK, Become

LEMMA IdleOK == ASSUME NEW w \in Requests, req'[w] = Idle PROVE RequestOK(w)'
  BY DEF RequestOK, Idle, InChallenge

\* A step that changes a request, codes and sessions, and verifies nobody.
LEMMA QuietStep ==
  ASSUME ProvenInv, AccountsTypeOK', UNCHANGED <<account, email, verified, challenge, proven>>,
         NEW w \in Requests, NEW r, Become(w, r), req'[w] = r => RequestOK(w)'
  PROVE  ProvenInv'
<1>1. AccountsTypeOK
  BY DEF ProvenInv
<1> QED BY <1>1, Becomes, Quiet, Conclude

\* An address is shown by an account made for it, in sign-in or at checkout.
LEMMA CreatedKept ==
  ASSUME ProvenInv, NEW u \in Users, NEW e \in Emails, CreateUser(u, e),
         UNCHANGED <<challenge, proven>>
  PROVE  /\ ProofsKept /\ ClaimsKept /\ ChallengesKept
         /\ e \in proven => Owns(u)'
<1>1. /\ account[u] = "none" /\ account' = [account EXCEPT ![u] = "active"]
      /\ email' = [email EXCEPT ![u] = e] /\ AccountsTypeOK
  BY DEF CreateUser, ProvenInv
<1>2. ProofsKept
  BY DEF ProofsKept
<1>3. ClaimsKept
  BY <1>1 DEF ClaimsKept, Owns, AccountsTypeOK
<1>4. ChallengesKept
  <2>1. \A c \in Challenges : Exists(c)' => Exists(c) /\ challenge[c] # NoChallenge
    BY DEF Exists, NoChallenge
  <2> QED BY <2>1 DEF ChallengesKept
<1>5. e \in proven => Owns(u)'
  BY <1>1 DEF Owns, AccountsTypeOK
<1> QED BY <1>2, <1>3, <1>4, <1>5

\* Sign-in verifies whose code was typed in.
LEMMA AuthProven ==
  ASSUME ProvenInv, AccountsTypeOK', AuthController
  PROVE  ProvenInv'
<1>0. AccountsTypeOK /\ \A w \in Requests : RequestOK(w)
  BY DEF ProvenInv
<1>1. ASSUME NEW w \in Requests, NEW e \in Emails, SendOtp(w, e) \/ LoadOtp(w, e)
      PROVE  ProvenInv'
  <2>1. CASE SendOtp(w, e)
    BY <2>1, QuietStep DEF SendOtp, users, ghosts, RequestOK, InChallenge
  <2>2. CASE LoadOtp(w, e)
    BY <2>2, QuietStep DEF LoadOtp, users, records, ghosts, RequestOK, InChallenge
  <2> QED BY <1>1, <2>1, <2>2
<1>2. ASSUME NEW w \in Requests, NEW u \in Users, SignUp(w, u) PROVE ProvenInv'
  <2>1. /\ CreateUser(u, req[w].email) /\ Become(w, [pc |-> "markVerified", user |-> u])
        /\ UNCHANGED <<verified, challenge, proven>>
    BY <1>2 DEF SignUp, records, ghosts
  <2>2. req[w].email \in proven /\ req[w].email \in Emails
    BY <1>0, <1>2, RequestFields DEF SignUp, Pc, RequestOK
  <2>3. ProofsKept /\ ClaimsKept /\ ChallengesKept /\ Owns(u)'
    BY <2>1, <2>2, CreatedKept
  <2>4. /\ req'[w] = [pc |-> "markVerified", user |-> u]
        /\ \A v \in Requests \ {w} : req'[v] = req[v]
    BY <1>0, <2>1, Becomes
  <2>5. RequestOK(w)'
    BY <2>3, <2>4 DEF RequestOK, InChallenge, Owns
  <2> QED BY <2>1, <2>3, <2>4, <2>5, Conclude
<1>3. ASSUME NEW w \in Requests, CreateOtp(w) \/ Issue(w) \/ Logout(w) PROVE ProvenInv'
  BY <1>3, QuietStep, IdleOK DEF CreateOtp, Issue, Logout, Give, users, records, ghosts
<1>4. ASSUME NEW w \in Requests, CompareOtp(w) PROVE ProvenInv'
  <2>1. UNCHANGED <<account, email, verified, challenge>> /\ req[w].pc = "compare"
    BY <1>4 DEF CompareOtp, users, Pc
  <2>2. CASE Give(w) /\ UNCHANGED proven
    BY <2>1, <2>2, QuietStep, IdleOK DEF Give
  <2>3. CASE Become(w, [req[w] EXCEPT !.pc = "consume"]) /\ proven' = proven \cup {req[w].email}
    <3>1. ProofsKept /\ ClaimsKept
      BY <2>1, <2>3 DEF ProofsKept, ClaimsKept, Owns
    <3>2. ChallengesKept
      <4>1. \A c \in Challenges : Exists(c)' => Exists(c) /\ challenge[c] # NoChallenge
        BY <2>1 DEF Exists, NoChallenge
      <4> QED BY <2>1, <4>1 DEF ChallengesKept
    <3>3. /\ req'[w] = [req[w] EXCEPT !.pc = "consume"]
          /\ \A v \in Requests \ {w} : req'[v] = req[v]
      BY <1>0, <2>3, Becomes
    <3>4. RequestOK(w)'
      <4>1. req[w] \in [pc : {"compare", "consume"}, email : Emails, code : Codes]
        BY <1>0, <2>1 DEF AccountsTypeOK, Request, Idle
      <4>2. req'[w].pc = "consume" /\ req'[w].email \in proven'
        BY <2>3, <3>3, <4>1
      <4> QED BY <4>2 DEF RequestOK, InChallenge
    <3> QED BY <2>1, <3>1, <3>2, <3>3, <3>4, Conclude
  <2> QED BY <1>4, <2>2, <2>3 DEF CompareOtp
<1>5. ASSUME NEW w \in Requests, ConsumeOtp(w) PROVE ProvenInv'
  <2>1. req[w].email \in proven
    BY <1>0, <1>5 DEF ConsumeOtp, Pc, RequestOK
  <2> QED BY <1>5, <2>1, QuietStep DEF ConsumeOtp, users, ghosts, RequestOK, InChallenge
<1>6. ASSUME NEW w \in Requests, FindUser(w) PROVE ProvenInv'
  <2>1. req[w].pc = "find" /\ req[w].email \in proven
    BY <1>0, <1>6 DEF FindUser, Pc, RequestOK
  <2>2. UNCHANGED <<account, email, verified, challenge, proven>>
    BY <1>6 DEF FindUser, users, records, ghosts
  <2>3. CASE Become(w, [req[w] EXCEPT !.pc = "signUp"])
    <3>1. req[w] \in [pc : {"mail", "find", "signUp"}, email : Emails]
      BY <1>0, <2>1 DEF AccountsTypeOK, Request, Idle
    <3>2. req'[w] = [req[w] EXCEPT !.pc = "signUp"] => RequestOK(w)'
      BY <2>1, <2>2, <3>1 DEF RequestOK, InChallenge
    <3> QED BY <2>2, <2>3, <3>2, QuietStep
  <2>4. ASSUME NEW u \in Holders(req[w].email),
               Become(w, [pc |-> IF u \in verified THEN "issue" ELSE "markVerified", user |-> u])
        PROVE  ProvenInv'
    <3>1. Owns(u)
      BY <2>1 DEF Holders, Owns, Live
    <3> QED BY <2>2, <2>4, <3>1, QuietStep DEF RequestOK, InChallenge, Owns
  <2>5. CASE Give(w)
    BY <2>2, <2>5, QuietStep, IdleOK DEF Give
  <2> QED BY <1>6, <2>3, <2>4, <2>5 DEF FindUser
<1>7. ASSUME NEW w \in Requests, MarkVerified(w) PROVE ProvenInv'
  <2>1. /\ UNCHANGED <<account, email, challenge, proven>> /\ req[w].pc = "markVerified"
        /\ verified' = verified \cup {req[w].user} /\ Become(w, [req[w] EXCEPT !.pc = "issue"])
    BY <1>7 DEF MarkVerified, records, ghosts, Pc
  <2>2. Owns(req[w].user)
    BY <1>0, <2>1 DEF RequestOK
  <2>3. req[w] \in [pc : {"markVerified", "issue"}, user : Users]
    BY <1>0, <2>1 DEF AccountsTypeOK, Request, Idle
  <2>4. /\ req'[w] = [req[w] EXCEPT !.pc = "issue"]
        /\ \A v \in Requests \ {w} : req'[v] = req[v]
    BY <1>0, <2>1, Becomes
  <2>5. RequestOK(w)'
    <3>1. req'[w].pc = "issue" /\ req'[w].user = req[w].user
      BY <2>3, <2>4
    <3> QED BY <2>1, <2>2, <3>1 DEF RequestOK, InChallenge, Owns
  <2>6. \A u \in verified' : u \in verified \/ Owns(u)'
    BY <2>1, <2>2 DEF Owns
  <2> QED BY <2>1, <2>4, <2>5, <2>6, Quiet, Conclude
<1> QED BY <1>1, <1>2, <1>3, <1>4, <1>5, <1>6, <1>7 DEF AuthController

\* A factor keeps its target, and is verified only if its code was typed in.
LEMMA FactorKept ==
  ASSUME ProvenInv, NEW c \in Challenges, Exists(c), NEW p \in Sides, NEW f \in Factor,
         SetFactor(c, p, f), f.target = challenge[c][p].target,
         challenge[c][p].verified => f.verified,
         f.verified => challenge[c][p].verified \/ challenge[c][p].target \in proven
  PROVE  /\ ChallengesKept
         /\ challenge'[c] # NoChallenge
<1>1. AccountsTypeOK
  BY DEF ProvenInv
<1>2. /\ challenge'[c].state = challenge[c].state /\ challenge'[c].action = challenge[c].action
      /\ challenge'[c][p] = f
      /\ \A q \in Sides \ {p} : challenge'[c][q] = challenge[c][q]
      /\ \A d \in Challenges \ {c} : challenge'[d] = challenge[d]
  BY <1>1, FactorUpdate
<1>3. \A d \in Challenges \ {c} : Exists(d)' => Exists(d) /\ challenge[d] # NoChallenge
  BY <1>2 DEF Exists, NoChallenge
<1>4. Exists(c) /\ challenge[c] # NoChallenge /\ challenge'[c] # NoChallenge
  BY <1>2 DEF Exists, NoChallenge
<1>5. \A q \in Sides :
        /\ challenge'[c][q].target = challenge[c][q].target
        /\ challenge[c][q].verified => challenge'[c][q].verified
        /\ challenge'[c][q].verified =>
             challenge[c][q].verified \/ challenge[c][q].target \in proven
  <2> SUFFICES ASSUME NEW q \in Sides
                 PROVE  /\ challenge'[c][q].target = challenge[c][q].target
                        /\ challenge[c][q].verified => challenge'[c][q].verified
                        /\ challenge'[c][q].verified =>
                             challenge[c][q].verified \/ challenge[c][q].target \in proven
      OBVIOUS
  <2>1. CASE q = p
      BY <1>2, <2>1
  <2>2. CASE q # p
      BY <1>2, <2>2
  <2> QED BY <2>1, <2>2
<1> QED BY <1>2, <1>3, <1>4, <1>5 DEF ChallengesKept

\* The factors are answered before they are verified, and the action is
\* executed when all are.
LEMMA StepUpProven ==
  ASSUME ProvenInv, AccountsTypeOK', StepUpController
  PROVE  ProvenInv'
<1>0. AccountsTypeOK /\ (\A w \in Requests : RequestOK(w)) /\ FactorsOK
  BY DEF ProvenInv
<1>1. ASSUME NEW w \in Requests, NEW c \in Challenges, LoadFactor(w, c) \/ Resend(w, c)
      PROVE  ProvenInv'
  <2>1. challenge[c] # NoChallenge
    BY <1>1 DEF LoadFactor, Resend, Loadable, NoChallenge
  <2>2. CASE LoadFactor(w, c)
    BY <2>1, <2>2, QuietStep DEF LoadFactor, users, records, ghosts, RequestOK, InChallenge
  <2>3. CASE Resend(w, c)
    BY <2>1, <2>3, QuietStep DEF Resend, users, records, ghosts, RequestOK, InChallenge
  <2> QED BY <1>1, <2>2, <2>3
<1>2. ASSUME NEW w \in Requests, NEW c \in Challenges, NEW a \in Actions, NEW e \in Emails,
             CreateChallenge(w, c, a, e)
      PROVE  ProvenInv'
  <2> DEFINE ch == [state |-> "open", user |-> req[w].user, action |-> a,
                    first |-> Fresh(req[w].email),
                    second |-> Fresh(IF a = "change_email" THEN e ELSE req[w].email)]
             r == [pc |-> "sendFactor", user |-> req[w].user, session |-> req[w].session,
                   ch |-> c, part |-> "first"]
  <2>1. /\ challenge[c] = NoChallenge /\ challenge' = [challenge EXCEPT ![c] = ch]
        /\ Become(w, r) /\ UNCHANGED <<account, email, verified, proven>>
    BY <1>2 DEF CreateChallenge, users, ghosts
  <2>2. /\ challenge'[c] = ch /\ \A d \in Challenges \ {c} : challenge'[d] = challenge[d]
    BY <1>0, <2>1 DEF AccountsTypeOK
  <2>3. \A p \in Sides : ~ch[p].verified
    BY DEF Sides, Fresh
  <2>4. ch.state = "open"
    OBVIOUS
  <2> HIDE DEF ch
  <2>5. challenge'[c] # NoChallenge
    BY <2>2, <2>4 DEF NoChallenge
  <2>6. ChallengesKept
    <3>1. \A d \in Challenges \ {c} : Exists(d)' => Exists(d) /\ challenge[d] # NoChallenge
      BY <2>2 DEF Exists, NoChallenge
    <3> QED BY <2>1, <2>2, <2>3, <3>1 DEF ChallengesKept
  <2>7. ProofsKept /\ ClaimsKept
    BY <2>1 DEF ProofsKept, ClaimsKept, Owns
  <2>8. req'[w] = r /\ \A v \in Requests \ {w} : req'[v] = req[v]
    BY <1>0, <2>1, Becomes
  <2>9. RequestOK(w)'
    BY <2>5, <2>8 DEF RequestOK, InChallenge
  <2> QED BY <2>1, <2>6, <2>7, <2>8, <2>9, Conclude
<1>3. ASSUME NEW w \in Requests, NEW f \in Factor, req[w].pc \in {"sendFactor", "answer", "verify"},
             Exists(req[w].ch), SetFactor(req[w].ch, req[w].part, f),
             f.target = challenge[req[w].ch][req[w].part].target,
             challenge[req[w].ch][req[w].part].verified => f.verified,
             f.verified => \/ challenge[req[w].ch][req[w].part].verified
                           \/ challenge[req[w].ch][req[w].part].target \in proven,
             ProofsKept, UNCHANGED <<account, email, verified>>,
             NEW r, Become(w, r), RequestOK(w)'
      PROVE  ProvenInv'
  <2>1. req[w].ch \in Challenges /\ req[w].part \in Sides
    BY <1>0, <1>3, RequestFields
  <2>2. ChallengesKept
    BY <1>3, <2>1, FactorKept
  <2>3. ClaimsKept
    BY <1>3 DEF ClaimsKept, ProofsKept, Owns
  <2>4. \A v \in Requests \ {w} : req'[v] = req[v]
    BY <1>0, <1>3, Becomes
  <2> QED BY <1>3, <2>2, <2>3, <2>4, Conclude
<1>f. ASSUME NEW w \in Requests, req[w].pc \in {"sendFactor", "answer", "verify"},
             Exists(req[w].ch)
      PROVE  /\ req[w].ch \in Challenges /\ req[w].part \in Sides
             /\ challenge[req[w].ch][req[w].part] \in Factor
  BY <1>0, <1>f, RequestFields, FactorFields
<1>4. ASSUME NEW w \in Requests, SendFactor(w) PROVE ProvenInv'
  <2> DEFINE f == [challenge[req[w].ch][req[w].part] EXCEPT !.code = mailed + 1, !.attempts = 0]
  <2>1. /\ req[w].pc = "sendFactor" /\ Exists(req[w].ch) /\ Become(w, Idle)
        /\ SetFactor(req[w].ch, req[w].part, f)
        /\ UNCHANGED <<account, email, verified, proven>>
        /\ mailed + 1 \in 0..MaxCodes
    <3>1. mailed \in 0..MaxCodes /\ MaxCodes \in Nat /\ mailed < MaxCodes
      BY <1>0, <1>4, AccountsAssumption DEF AccountsTypeOK, SendFactor
    <3> QED BY <1>4, <3>1 DEF SendFactor, Pc, Give, users, ghosts
  <2>2. challenge[req[w].ch][req[w].part] \in Factor
    BY <1>f, <2>1
  <2>3. /\ f \in Factor /\ f.target = challenge[req[w].ch][req[w].part].target
        /\ f.verified = challenge[req[w].ch][req[w].part].verified
    BY <2>1, <2>2 DEF Factor
  <2> HIDE DEF f
  <2>4. RequestOK(w)' /\ ProofsKept
    BY <1>0, <2>1, Becomes, IdleOK DEF ProofsKept
  <2> QED BY <1>3, <2>1, <2>3, <2>4
<1>5. ASSUME NEW w \in Requests, AnswerFactor(w) PROVE ProvenInv'
  <2> DEFINE f == [challenge[req[w].ch][req[w].part] EXCEPT !.attempts = @ + 1]
  <2>1. /\ req[w].pc = "answer" /\ Exists(req[w].ch)
        /\ SetFactor(req[w].ch, req[w].part, f)
        /\ UNCHANGED <<account, email, verified>>
    BY <1>5 DEF AnswerFactor, Pc, users
  <2>2. challenge[req[w].ch][req[w].part] \in Factor
    BY <1>f, <2>1
  <2>3. /\ f \in Factor /\ f.target = challenge[req[w].ch][req[w].part].target
        /\ f.verified = challenge[req[w].ch][req[w].part].verified
    BY <2>2 DEF Factor
  <2> HIDE DEF f
  <2>4. ProofsKept
    BY <1>5 DEF AnswerFactor, ProofsKept
  <2>5. CASE Give(w)
    <3>1. RequestOK(w)' /\ Become(w, Idle)
      BY <1>0, <2>5, Becomes, IdleOK DEF Give
    <3> QED BY <1>3, <2>1, <2>3, <2>4, <3>1
  <2>6. CASE /\ Become(w, [req[w] EXCEPT !.pc = "verify"])
             /\ proven' = proven \cup {challenge[req[w].ch][req[w].part].target}
    <3>1. req[w] \in [pc : {"answer", "verify"}, user : Users, session : Sessions,
                      ch : Challenges, part : {"first", "second"}, code : 0..MaxCodes]
      BY <1>0, <2>1 DEF AccountsTypeOK, Request, Idle
    <3>2. req'[w].pc = "verify" /\ req'[w].ch = req[w].ch /\ req'[w].part = req[w].part
      BY <1>0, <2>6, <3>1, Becomes
    <3>3. /\ challenge'[req[w].ch][req[w].part].target \in proven'
          /\ challenge'[req[w].ch] # NoChallenge
      <4>1. req[w].ch \in Challenges /\ req[w].part \in Sides
        BY <1>f, <2>1
      <4>3. challenge'[req[w].ch][req[w].part] = f
        BY <1>0, <2>1, <2>3, <4>1, FactorUpdate
      <4>4. challenge'[req[w].ch] # NoChallenge
        BY <2>1, <2>3, <4>1, FactorKept
      <4> QED BY <2>3, <2>6, <4>3, <4>4
    <3>4. RequestOK(w)'
      BY <3>2, <3>3 DEF RequestOK, InChallenge
    <3> QED BY <1>3, <2>1, <2>3, <2>4, <2>6, <3>4
  <2> QED BY <1>5, <2>5, <2>6 DEF AnswerFactor
<1>6. ASSUME NEW w \in Requests, VerifyFactor(w) PROVE ProvenInv'
  <2> DEFINE f == [challenge[req[w].ch][req[w].part] EXCEPT !.verified = TRUE]
             r == [pc |-> "reload", user |-> req[w].user, session |-> req[w].session,
                   ch |-> req[w].ch]
  <2>1. /\ req[w].pc = "verify" /\ Exists(req[w].ch)
        /\ SetFactor(req[w].ch, req[w].part, f) /\ Become(w, r)
        /\ UNCHANGED <<account, email, verified, proven>>
    BY <1>6 DEF VerifyFactor, Pc, users, ghosts
  <2>2. challenge[req[w].ch][req[w].part] \in Factor /\ req[w].ch \in Challenges
        /\ req[w].part \in Sides
    BY <1>f, <2>1
  <2>3. f \in Factor /\ f.target = challenge[req[w].ch][req[w].part].target /\ f.verified
    BY <2>2 DEF Factor
  <2> HIDE DEF f
  <2>4. challenge[req[w].ch][req[w].part].target \in proven /\ ProofsKept
    BY <1>0, <2>1 DEF RequestOK, ProofsKept
  <2>5. challenge'[req[w].ch] # NoChallenge
    BY <2>1, <2>2, <2>3, <2>4, FactorKept
  <2>6. RequestOK(w)'
    BY <1>0, <2>1, <2>5, Becomes DEF RequestOK, InChallenge
  <2> HIDE DEF r
  <2> QED BY <1>3, <2>1, <2>3, <2>4, <2>6
<1>7. ASSUME NEW w \in Requests, Reload(w) PROVE ProvenInv'
  <2>1. /\ req[w].pc = "reload" /\ challenge[req[w].ch] # NoChallenge
        /\ UNCHANGED <<account, email, verified, challenge, proven>>
    BY <1>0, <1>7 DEF Reload, Pc, users, records, ghosts, RequestOK, InChallenge
  <2>2. CASE Pending(challenge[req[w].ch]) = {}
    <3>1. req[w] \in [pc : {"reload", "execute", "close"}, user : Users, session : Sessions,
                      ch : Challenges]
      BY <1>0, <2>1 DEF AccountsTypeOK, Request, Idle
    <3>2. req'[w] = [req[w] EXCEPT !.pc = "execute"] => RequestOK(w)'
      BY <2>1, <2>2, <3>1 DEF RequestOK, InChallenge
    <3> QED BY <1>7, <2>1, <2>2, <3>2, QuietStep DEF Reload
  <2>3. CASE Pending(challenge[req[w].ch]) # {}
    BY <1>7, <2>1, <2>3, QuietStep DEF Reload, RequestOK, InChallenge
  <2> QED BY <2>2, <2>3
<1>8. ASSUME NEW w \in Requests, NEW c \in Challenges, NEW e \in Emails, ChangeEmail(w, c, e)
      PROVE  ProvenInv'
  <2> DEFINE u == req[w].user
  <2>1. /\ req[w].pc = "execute" /\ req[w].ch = c /\ Exists(c)
        /\ challenge[c].action = "change_email" /\ e = challenge[c].second.target
        /\ email' = [email EXCEPT ![u] = e] /\ verified' = verified \cup {u}
        /\ account[u] \in Live /\ Become(w, [req[w] EXCEPT !.pc = "close"])
        /\ UNCHANGED <<account, challenge, proven>>
    BY <1>8 DEF ChangeEmail, Pc, records, ghosts
  <2>2. u \in Users
    BY <1>0, <2>1, RequestFields
  <2>3. e \in proven
    <3>1. Pending(challenge[c]) = {}
      BY <1>0, <2>1 DEF RequestOK
    <3>2. challenge[c].second.verified
      BY <2>1, <3>1 DEF Pending, Parts
    <3>3. challenge[c]["second"].target \in proven
      BY <1>0, <2>1, <3>2 DEF FactorsOK, Sides
    <3> QED BY <2>1, <3>3
  <2>4. \A v \in Users : Owns(v) \/ v = u => Owns(v)'
    BY <1>0, <2>1, <2>2, <2>3 DEF Owns, AccountsTypeOK, Live
  <2>5. ProofsKept /\ ClaimsKept
    BY <2>1, <2>4 DEF ProofsKept, ClaimsKept
  <2>6. ChallengesKept
    <3>1. \A d \in Challenges : Exists(d)' => Exists(d) /\ challenge[d] # NoChallenge
      BY <2>1 DEF Exists, NoChallenge
    <3> QED BY <2>1, <3>1 DEF ChallengesKept
  <2>7. /\ req'[w] = [req[w] EXCEPT !.pc = "close"]
        /\ \A v \in Requests \ {w} : req'[v] = req[v]
    BY <1>0, <2>1, Becomes
  <2>8. RequestOK(w)'
    <3>1. req[w] \in [pc : {"reload", "execute", "close"}, user : Users, session : Sessions,
                      ch : Challenges]
      BY <1>0, <2>1 DEF AccountsTypeOK, Request, Idle
    <3>2. req'[w].pc = "close" /\ req'[w].ch = c
      BY <2>1, <2>7, <3>1
    <3> QED BY <2>1, <3>2 DEF RequestOK, InChallenge, Exists, NoChallenge
  <2>9. \A v \in verified' : v \in verified \/ Owns(v)'
    BY <2>1, <2>2, <2>4
  <2> QED BY <2>5, <2>6, <2>7, <2>8, <2>9, Conclude
<1>9. ASSUME NEW w \in Requests, DeleteAccount(w) PROVE ProvenInv'
  <2> DEFINE u == req[w].user
  <2>1. /\ req[w].pc = "execute" /\ Exists(req[w].ch)
        /\ account' = [account EXCEPT ![u] = "deleted"] /\ verified' = verified \ {u}
        /\ challenge' = [c \in Challenges |->
             IF Exists(c) /\ challenge[c].user = u THEN Gone ELSE challenge[c]]
        /\ Become(w, [req[w] EXCEPT !.pc = "close"])
        /\ UNCHANGED <<email, proven>>
    BY <1>9 DEF DeleteAccount, Pc, ghosts
  <2>2. req[w] \in [pc : {"reload", "execute", "close"}, user : Users, session : Sessions,
                    ch : Challenges]
    BY <1>0, <2>1 DEF AccountsTypeOK, Request, Idle
  <2>3. ProofsKept /\ ClaimsKept
    BY <1>0, <2>1, <2>2 DEF ProofsKept, ClaimsKept, Owns, Live, AccountsTypeOK
  <2>4. \A c \in Challenges :
          /\ Exists(c)' => challenge'[c] = challenge[c] /\ challenge[c] # NoChallenge
          /\ challenge'[c] = NoChallenge => challenge[c] = NoChallenge
    BY <2>1 DEF Exists, Gone, NoChallenge
  <2>5. ChallengesKept
    BY <2>4 DEF ChallengesKept, Exists
  <2>6. /\ req'[w] = [req[w] EXCEPT !.pc = "close"]
        /\ \A v \in Requests \ {w} : req'[v] = req[v]
    BY <1>0, <2>1, Becomes
  <2>7. RequestOK(w)'
    <3>1. req'[w].pc = "close" /\ req'[w].ch = req[w].ch /\ req[w].ch \in Challenges
      BY <2>2, <2>6
    <3>2. challenge[req[w].ch] # NoChallenge
      BY <2>1 DEF Exists, NoChallenge
    <3> QED BY <2>4, <3>1, <3>2 DEF RequestOK, InChallenge
  <2> QED BY <2>1, <2>3, <2>5, <2>6, <2>7, Conclude
<1>10. ASSUME NEW w \in Requests, Close(w) PROVE ProvenInv'
  <2> DEFINE c == req[w].ch
  <2>1. /\ req[w].pc = "close" /\ Become(w, Idle)
        /\ challenge' = IF Exists(c) THEN [challenge EXCEPT ![c].state = "consumed"]
                        ELSE challenge
        /\ UNCHANGED <<account, email, verified, proven>>
    BY <1>10 DEF Close, Pc, Give, users, ghosts
  <2>2. c \in Challenges
    BY <1>0, <2>1, RequestFields
  <2>3. ProofsKept /\ ClaimsKept
    BY <2>1 DEF ProofsKept, ClaimsKept, Owns
  <2>4. CASE ~Exists(c)
    <3>1. ChallengesKept
      BY <2>1, <2>4, Quiet
    <3> QED BY <1>0, <2>1, <2>3, <3>1, Becomes, IdleOK, Conclude
  <2>5. CASE Exists(c)
    <3>1. challenge[c] \in [state : {"open", "consumed"}, user : Users, action : Actions,
                            first : Factor, second : Factor]
      BY <1>0, <2>2, <2>5, FactorFields
    <3>2. /\ challenge'[c].state = "consumed" /\ challenge'[c].action = challenge[c].action
          /\ challenge'[c]["first"] = challenge[c]["first"]
          /\ challenge'[c]["second"] = challenge[c]["second"]
          /\ \A d \in Challenges \ {c} : challenge'[d] = challenge[d]
      BY <1>0, <2>1, <2>2, <2>5, <3>1 DEF AccountsTypeOK
    <3>3. /\ \A d \in Challenges \ {c} : Exists(d)' => Exists(d) /\ challenge[d] # NoChallenge
          /\ challenge'[c] # NoChallenge /\ challenge[c] # NoChallenge
      BY <2>5, <3>2 DEF Exists, NoChallenge
    <3>4. ChallengesKept
      BY <2>5, <3>2, <3>3 DEF ChallengesKept, Sides
    <3> QED BY <1>0, <2>1, <2>3, <3>4, Becomes, IdleOK, Conclude
  <2> QED BY <2>4, <2>5
<1> QED BY <1>1, <1>2, <1>4, <1>5, <1>6, <1>7, <1>8, <1>9, <1>10 DEF StepUpController

LEMMA ProvenStep ==
  ASSUME ProvenInv, [AccountsNext]_accountVars
  PROVE  ProvenInv'
<1>0. AccountsTypeOK /\ AccountsTypeOK'
  BY TypeStep DEF ProvenInv
\* A step of no request that may be anybody's business.
<1>q. ASSUME UNCHANGED <<req, challenge, verified>>, ProofsKept, ClaimsKept PROVE ProvenInv'
  <2>1. ChallengesKept
    <3>1. \A c \in Challenges : Exists(c)' => Exists(c) /\ challenge[c] # NoChallenge
      BY <1>q DEF Exists, NoChallenge
    <3> QED BY <1>q, <3>1 DEF ChallengesKept
  <2>2. \A w \in Requests : RequestOK(w)'
    BY <1>q, <2>1, StandStill
  <2>3. (\A u \in verified' : Owns(u)') /\ FactorsOK'
    <3>1. FactorsOK'
      BY <1>q DEF ProvenInv, FactorsOK, ProofsKept, Exists
    <3> QED BY <1>q, <3>1, <1>0 DEF ProvenInv, ClaimsKept, AccountsTypeOK
  <2> QED BY <1>0, <2>2, <2>3 DEF ProvenInv
<1>1. CASE CommitSuspend
  <2>1. ClaimsKept
    BY <1>0, <1>1 DEF CommitSuspend, ClaimsKept, Owns, Live, AccountsTypeOK, ghosts
  <2> QED BY <1>1, <1>q, <2>1 DEF CommitSuspend, records, ghosts, ProofsKept
<1>2. ASSUME NEW u \in Users, BeginSuspend(u) \/ RevokeSessions(u) PROVE ProvenInv'
  BY <1>2, <1>q DEF BeginSuspend, RevokeSessions, users, records, ghosts, ProofsKept,
                    ClaimsKept, Owns
<1>3. ASSUME NEW u \in Users, Unsuspend(u) PROVE ProvenInv'
  <2>1. ClaimsKept
    BY <1>0, <1>3 DEF Unsuspend, ClaimsKept, Owns, Live, AccountsTypeOK, ghosts
  <2> QED BY <1>3, <1>q, <2>1 DEF Unsuspend, records, ghosts, ProofsKept
<1>4. ASSUME NEW u \in Users, NEW e \in Emails, GuestCheckout(u, e) PROVE ProvenInv'
  BY <1>4, <1>q, CreatedKept DEF GuestCheckout, records, ghosts
<1>5. ASSUME NEW s \in sessions, NEW w \in Requests, Admit(w, s) PROVE ProvenInv'
  BY <1>0, <1>5, QuietStep DEF Admit, users, records, ghosts, RequestOK, InChallenge
<1>6. ASSUME NEW w \in Requests, Abandon(w) PROVE ProvenInv'
  BY <1>0, <1>6, QuietStep, IdleOK DEF Abandon, Give, users, records, ghosts
<1>7. CASE UNCHANGED accountVars
  BY <1>7, <1>q DEF accountVars, users, records, ghosts, ProofsKept, ClaimsKept, Owns
<1> QED BY <1>0, <1>1, <1>2, <1>3, <1>4, <1>5, <1>6, <1>7, AuthProven, StepUpProven
        DEF AccountsNext, AdminUsersController

\* Rows, requests and histories have their types.
THEOREM AccountsTypeCorrect == AccountsSpec => []AccountsTypeOK
  BY AccountsInitType, TypeStep, PTL DEF AccountsSpec

\* No account is marked verified with an address whose code nobody typed in,
\* however requests overlap, die or find their challenge deleted
\* (OtpService, AuthService, StepUpService, ChangeEmailAction).
THEOREM VerifiedAlwaysProven == AccountsSpec => []VerifiedIsProven
<1>1. ProvenInv => VerifiedIsProven
  BY DEF ProvenInv, VerifiedIsProven, Owns
<1> QED BY ProvenInitInv, ProvenStep, <1>1, PTL DEF AccountsSpec

----------------------------------------------------------------------------
(* Sessions of suspended accounts *)

\* What the suspension under way will not delete was issued beside it.
LeftOver ==
  suspending.on => \A s \in sessions :
    s.user = suspending.user => s \in suspending.seen \/ s.id \in beside

SessionsInv == AccountsTypeOK /\ SuspendedSessionsExplained /\ LeftOver

LEMMA SessionsInitInv == AccountsInit => SessionsInv
<1> SUFFICES ASSUME AccountsInit PROVE SessionsInv
  OBVIOUS
<1>1. AccountsTypeOK
  BY AccountsInitType
<1>2. \A u \in Users : account[u] # "suspended"
  BY DEF AccountsInit
<1>3. SuspendedSessionsExplained /\ LeftOver
  BY <1>1, <1>2
     DEF AccountsInit, SuspendedSessionsExplained, LeftOver, NoSuspension, AccountsTypeOK, Session
<1> QED BY <1>1, <1>3 DEF SessionsInv

\* Only the end of a suspension suspends, only a sign-in adds a session.
LEMMA SessionsStep ==
  ASSUME SessionsInv, [AccountsNext]_accountVars
  PROVE  SessionsInv'
<1>0. AccountsTypeOK /\ AccountsTypeOK'
  BY TypeStep DEF SessionsInv
<1>s. \A s \in sessions : s.user \in Users
  BY <1>0 DEF AccountsTypeOK, Session
<1>q. ASSUME sessions' \subseteq sessions, UNCHANGED <<suspending, beside>>,
             \A u \in Users : account'[u] = "suspended" => account[u] = "suspended"
      PROVE  SessionsInv'
  BY <1>0, <1>s, <1>q DEF SessionsInv, SuspendedSessionsExplained, LeftOver
<1>1. ASSUME NEW w \in Requests, Issue(w) PROVE SessionsInv'
  <2> DEFINE u == req[w].user
  <2>1. /\ sessions' = sessions \cup {[id |-> issued + 1, user |-> u]}
        /\ UNCHANGED <<account, suspending>> /\ beside \subseteq beside'
        /\ account[u] = "suspended" \/ (suspending.on /\ suspending.user = u) =>
             issued + 1 \in beside'
    BY <1>1 DEF Issue, users
  <2>2. SuspendedSessionsExplained' /\ LeftOver'
    BY <2>1 DEF SessionsInv, SuspendedSessionsExplained, LeftOver
  <2> QED BY <1>0, <2>2 DEF SessionsInv
<1>2. ASSUME NEW u \in Users, BeginSuspend(u) PROVE SessionsInv'
  BY <1>0, <1>2 DEF BeginSuspend, users, ghosts, SessionsInv, SuspendedSessionsExplained, LeftOver
<1>3. CASE CommitSuspend
  <2>1. /\ suspending.on /\ sessions' = sessions \ suspending.seen /\ beside' = beside
        /\ account' = [account EXCEPT ![suspending.user] = IF @ \in Live THEN "suspended" ELSE @]
        /\ suspending' = NoSuspension
    BY <1>3 DEF CommitSuspend, ghosts
  <2>2. \A s \in sessions' : account'[s.user] = "suspended" =>
          account[s.user] = "suspended" \/ s.user = suspending.user
    BY <1>0, <1>s, <2>1 DEF AccountsTypeOK
  <2>3. SuspendedSessionsExplained' /\ LeftOver'
    BY <2>1, <2>2 DEF SessionsInv, SuspendedSessionsExplained, LeftOver, NoSuspension
  <2> QED BY <1>0, <2>3 DEF SessionsInv
<1>4. ASSUME NEW u \in Users, NEW e \in Emails, CreateUser(u, e),
             UNCHANGED <<sessions, suspending, beside>>
      PROVE  SessionsInv'
  BY <1>0, <1>4, <1>q DEF CreateUser, AccountsTypeOK
<1>5. ASSUME NEW u \in Users, Unsuspend(u) \/ RevokeSessions(u) PROVE SessionsInv'
  BY <1>0, <1>5, <1>q DEF Unsuspend, RevokeSessions, users, ghosts, AccountsTypeOK
<1>6. ASSUME NEW w \in Requests, DeleteAccount(w) PROVE SessionsInv'
  BY <1>0, <1>6, <1>q DEF DeleteAccount, ghosts, AccountsTypeOK
<1>7. ASSUME account' = account, sessions' \subseteq sessions, UNCHANGED <<suspending, beside>>
      PROVE  SessionsInv'
  BY <1>7, <1>q
<1>8. CASE AuthController
  <2>1. ASSUME NEW w \in Requests, NEW e \in Emails, SendOtp(w, e) \/ LoadOtp(w, e)
        PROVE  SessionsInv'
    BY <1>7, <2>1 DEF SendOtp, LoadOtp, users, ghosts
  <2>2. ASSUME NEW w \in Requests, NEW u \in Users, SignUp(w, u) PROVE SessionsInv'
    BY <1>0, <1>4, <2>2, RequestFields DEF SignUp, ghosts, Pc
  <2>3. ASSUME NEW w \in Requests,
               CreateOtp(w) \/ CompareOtp(w) \/ ConsumeOtp(w) \/ FindUser(w) \/ MarkVerified(w)
                 \/ Logout(w)
        PROVE  SessionsInv'
    BY <1>7, <2>3
       DEF CreateOtp, CompareOtp, ConsumeOtp, FindUser, MarkVerified, Logout, users, ghosts
  <2> QED BY <1>1, <1>8, <2>1, <2>2, <2>3 DEF AuthController
<1>9. CASE StepUpController
  <2>1. ASSUME NEW w \in Requests, NEW c \in Challenges,
               \/ LoadFactor(w, c) \/ Resend(w, c)
               \/ \E a \in Actions, e \in Emails : CreateChallenge(w, c, a, e)
               \/ \E e \in Emails : ChangeEmail(w, c, e)
        PROVE  SessionsInv'
    BY <1>7, <2>1 DEF LoadFactor, Resend, CreateChallenge, ChangeEmail, users, ghosts
  <2>2. ASSUME NEW w \in Requests,
               SendFactor(w) \/ AnswerFactor(w) \/ VerifyFactor(w) \/ Reload(w) \/ Close(w)
        PROVE  SessionsInv'
    BY <1>7, <2>2 DEF SendFactor, AnswerFactor, VerifyFactor, Reload, Close, users, ghosts
  <2> QED BY <1>6, <1>9, <2>1, <2>2 DEF StepUpController
<1>10. CASE \/ \E s \in sessions, w \in Requests : Admit(w, s)
            \/ \E w \in Requests : Abandon(w)
            \/ UNCHANGED accountVars
  BY <1>7, <1>10 DEF Admit, Abandon, accountVars, users, ghosts
<1>11. ASSUME NEW u \in Users, NEW e \in Emails, GuestCheckout(u, e) PROVE SessionsInv'
  BY <1>4, <1>11 DEF GuestCheckout, ghosts
<1> QED BY <1>2, <1>3, <1>5, <1>8, <1>9, <1>10, <1>11 DEF AccountsNext, AdminUsersController

\* A suspended account keeps no session that a sign-in did not issue beside
\* the suspension or after it (UserModerationService, AccessTokenService).
THEOREM SessionsAlwaysExplained == AccountsSpec => []SuspendedSessionsExplained
<1>1. SessionsInv => SuspendedSessionsExplained
  BY DEF SessionsInv
<1> QED BY SessionsInitInv, SessionsStep, <1>1, PTL DEF AccountsSpec

----------------------------------------------------------------------------
(* Guesses at a code *)

\* Requests that have read the attempts left for a code and not yet counted
\* their own.
Comparing(k) == {w \in Requests : req[w].pc \in {"compare", "answer"} /\ req[w].code = k}
Held(c, p, k) == Exists(c) /\ challenge[c][p].code = k

CodesMailed ==
  /\ \A o \in otps : o.code <= mailed
  /\ \A c \in Challenges, p \in Sides, k \in Codes : Held(c, p, k) => k <= mailed
  /\ \A w \in Requests, k \in Codes : w \in Comparing(k) => k <= mailed
  /\ \A k \in Codes : k > mailed => guesses[k] = 0

\* A code is at one place only, and a request with a factor's code has it from
\* there.
CodesApart ==
  /\ \A o, q \in otps : o.code = q.code => o = q
  /\ \A o \in otps, c \in Challenges, p \in Sides : ~Held(c, p, o.code)
  /\ \A c, d \in Challenges, p, q \in Sides, k \in Codes :
       Held(c, p, k) /\ Held(d, q, k) => c = d /\ p = q
  /\ \A w \in Requests, k \in Codes : req[w].pc = "answer" /\ req[w].code = k =>
       /\ \A o \in otps : o.code # k
       /\ \A c \in Challenges, p \in Sides : Held(c, p, k) => c = req[w].ch /\ p = req[w].part

\* While a code is there, every guess at it is among its attempts.
AttemptsCounted ==
  /\ \A o \in otps : guesses[o.code] <= o.attempts
  /\ \A c \in Challenges, p \in Sides, k \in Codes :
       Held(c, p, k) => guesses[k] <= challenge[c][p].attempts

\* The guesses made and those that have passed the check already.
GuessesPending ==
  \A k \in Codes :
    guesses[k] + Cardinality(Comparing(k)) <= MaxAttempts + Cardinality(Requests) - 1

GuessInv == AccountsTypeOK /\ CodesMailed /\ CodesApart /\ AttemptsCounted /\ GuessesPending

LEMMA ComparingFinite ==
  /\ Cardinality(Requests) \in Nat
  /\ \A k : /\ IsFiniteSet(Comparing(k)) /\ Cardinality(Comparing(k)) \in Nat
            /\ Cardinality(Comparing(k)) <= Cardinality(Requests)
<1>1. IsFiniteSet(Requests)
  BY AccountsAssumption
<1>2. \A k : Comparing(k) \in SUBSET Requests
  BY DEF Comparing
<1> QED BY <1>1, <1>2, FS_Subset, FS_CardinalityType

LEMMA ComparingFiniteNext ==
  \A k : /\ IsFiniteSet(Comparing(k)') /\ Cardinality(Comparing(k)') \in Nat
         /\ Cardinality(Comparing(k)') <= Cardinality(Requests)
<1>1. IsFiniteSet(Requests)
  BY AccountsAssumption
<1>2. \A k : Comparing(k)' \in SUBSET Requests
  BY DEF Comparing
<1> QED BY <1>1, <1>2, FS_Subset, FS_CardinalityType

\* Fewer requests at a code, fewer guesses to come.
LEMMA FewerComparing ==
  ASSUME NEW k, Comparing(k)' \subseteq Comparing(k)
  PROVE  Cardinality(Comparing(k)') <= Cardinality(Comparing(k))
  BY ComparingFinite, FS_Subset

LEMMA GuessInitInv == AccountsInit => GuessInv
<1> SUFFICES ASSUME AccountsInit PROVE GuessInv
  OBVIOUS
<1>1. AccountsTypeOK
  BY AccountsInitType
<1>2. /\ otps = {} /\ \A k \in Codes : guesses[k] = 0
      /\ \A c \in Challenges : \A p, k : ~Held(c, p, k)
      /\ \A w \in Requests : req[w].pc = "idle"
  BY DEF AccountsInit, Held, Exists, NoChallenge, Idle
<1>3. \A k : Comparing(k) = {}
  BY <1>2 DEF Comparing
<1>4. GuessesPending
  BY <1>2, <1>3, ComparingFinite, FS_EmptySet, AccountsAssumption DEF GuessesPending
<1>5. CodesMailed /\ CodesApart /\ AttemptsCounted
  BY <1>2, <1>3 DEF CodesMailed, CodesApart, AttemptsCounted
<1> QED BY <1>1, <1>4, <1>5 DEF GuessInv

\* What a step may do to codes that are there: delete them, or count more
\* attempts than were made.
OtpsStay ==
  /\ \A o, q \in otps' : o.code = q.code => o = q
  /\ \A o \in otps' : \E q \in otps : q.code = o.code /\ q.attempts <= o.attempts
FactorsStay ==
  \A c \in Challenges, p \in Sides, k \in Codes : Held(c, p, k)' =>
    Held(c, p, k) /\ challenge[c][p].attempts <= challenge'[c][p].attempts
RequestsStay == \A w \in Requests : req'[w] = req[w] \/ req'[w].pc \notin {"compare", "answer"}

\* A step that adds no code, no guess, and no request at one.
LEMMA NoGuess ==
  ASSUME GuessInv, AccountsTypeOK', OtpsStay, FactorsStay, RequestsStay,
         UNCHANGED <<mailed, guesses>>
  PROVE  GuessInv'
<1>0. /\ AccountsTypeOK /\ CodesMailed /\ CodesApart /\ AttemptsCounted /\ GuessesPending
      /\ guesses \in [Codes -> Nat]
  BY DEF GuessInv, AccountsTypeOK
<1>t. /\ \A o \in otps : o.code \in Codes /\ o.attempts \in Nat
      /\ \A o \in otps' : o.code \in Codes /\ o.attempts \in Nat
  BY <1>0 DEF AccountsTypeOK, Otp
<1>f. \A c \in Challenges, p \in Sides, k \in Codes : Held(c, p, k)' =>
        challenge[c][p].attempts \in Nat /\ challenge'[c][p].attempts \in Nat
  <2> SUFFICES ASSUME NEW c \in Challenges, NEW p \in Sides, NEW k \in Codes, Held(c, p, k)'
               PROVE  challenge[c][p].attempts \in Nat /\ challenge'[c][p].attempts \in Nat
    OBVIOUS
  <2>1. Exists(c) /\ Exists(c)'
    BY DEF FactorsStay, Held
  <2>2. challenge[c][p] \in Factor
    BY <1>0, <2>1, FactorFields
  <2>3. challenge'[c][p] \in Factor
    BY <2>1 DEF AccountsTypeOK, Exists, Challenge, NoChallenge, Gone, Sides
  <2> QED BY <2>2, <2>3 DEF Factor
<1>1. \A k : Comparing(k)' \subseteq Comparing(k)
  BY DEF Comparing, RequestsStay
<1>2. CodesMailed'
  BY <1>0, <1>1, <1>t DEF CodesMailed, OtpsStay, FactorsStay
<1>3. CodesApart'
  <2>1. \A w \in Requests : req'[w].pc = "answer" => req'[w] = req[w]
    BY DEF RequestsStay
  <2>2. \A o \in otps' : \E q \in otps : q.code = o.code
    BY DEF OtpsStay
  <2> QED BY <1>0, <1>t, <2>1, <2>2 DEF CodesApart, OtpsStay, FactorsStay
<1>4. AttemptsCounted'
  <2>1. \A o \in otps' : guesses[o.code] <= o.attempts
    <3> SUFFICES ASSUME NEW o \in otps' PROVE guesses[o.code] <= o.attempts
      OBVIOUS
    <3>1. PICK q \in otps : q.code = o.code /\ q.attempts <= o.attempts
      BY DEF OtpsStay
    <3> QED BY <1>0, <1>t, <3>1 DEF AttemptsCounted
  <2>2. \A c \in Challenges, p \in Sides, k \in Codes :
          Held(c, p, k)' => guesses[k] <= challenge'[c][p].attempts
    BY <1>0, <1>f DEF AttemptsCounted, FactorsStay
  <2> QED BY <2>1, <2>2 DEF AttemptsCounted
<1>5. GuessesPending'
  <2> SUFFICES ASSUME NEW k \in Codes
               PROVE  guesses[k] + Cardinality(Comparing(k)')
                        <= MaxAttempts + Cardinality(Requests) - 1
    BY DEF GuessesPending
  <2>1. Cardinality(Comparing(k)') <= Cardinality(Comparing(k))
    BY <1>1, FewerComparing
  <2>2. guesses[k] \in Nat /\ MaxAttempts \in Nat
    BY <1>0, AccountsAssumption
  <2> QED BY <1>0, <2>1, <2>2, ComparingFinite, ComparingFiniteNext DEF GuessesPending
<1> QED BY <1>2, <1>3, <1>4, <1>5 DEF GuessInv

\* One more request at code k, which had passed the check of its attempts.
LEMMA LoadedGuess ==
  ASSUME GuessInv, AccountsTypeOK', UNCHANGED <<otps, challenge, mailed, guesses>>,
         NEW w \in Requests, NEW k \in 0..MaxCodes, NEW r, Become(w, r),
         r.pc \in {"compare", "answer"}, r.code = k,
         k \in Codes => guesses[k] < MaxAttempts /\ k <= mailed,
         r.pc = "answer" /\ k \in Codes =>
           /\ \A o \in otps : o.code # k
           /\ \A c \in Challenges, p \in Sides : Held(c, p, k) => c = r.ch /\ p = r.part
  PROVE  GuessInv'
<1>0. /\ AccountsTypeOK /\ CodesMailed /\ CodesApart /\ AttemptsCounted /\ GuessesPending
      /\ guesses \in [Codes -> Nat]
  BY DEF GuessInv, AccountsTypeOK
<1>1. req'[w] = r /\ \A v \in Requests \ {w} : req'[v] = req[v]
  BY <1>0, Becomes
<1>2. \A j \in Codes \ {k} : Comparing(j)' \subseteq Comparing(j)
  BY <1>1 DEF Comparing
<1>3. CodesMailed'
  BY <1>0, <1>1 DEF CodesMailed, Comparing, Held, Exists
<1>4. CodesApart'
  BY <1>0, <1>1 DEF CodesApart, Held, Exists
<1>5. AttemptsCounted'
  BY <1>0 DEF AttemptsCounted, Held, Exists
<1>6. GuessesPending'
  <2> SUFFICES ASSUME NEW j \in Codes
               PROVE  guesses[j] + Cardinality(Comparing(j)')
                        <= MaxAttempts + Cardinality(Requests) - 1
    BY DEF GuessesPending
  <2>1. guesses[j] \in Nat /\ MaxAttempts \in Nat
    BY <1>0, AccountsAssumption
  <2>2. CASE j = k
    BY <2>1, <2>2, ComparingFinite, ComparingFiniteNext
  <2>3. CASE j # k
    <3>1. Cardinality(Comparing(j)') <= Cardinality(Comparing(j))
      BY <1>2, <2>3, FewerComparing
    <3> QED BY <1>0, <2>1, <3>1, ComparingFinite, ComparingFiniteNext DEF GuessesPending
  <2> QED BY <2>2, <2>3
<1> QED BY <1>3, <1>4, <1>5, <1>6 DEF GuessInv

\* One request less at code k, one guess more.
LEMMA MadeGuess ==
  ASSUME GuessInv, NEW w \in Requests, NEW k \in Codes, w \in Comparing(k),
         \A v \in Requests \ {w} : req'[v] = req[v], req'[w].pc \notin {"compare", "answer"},
         guesses' = [guesses EXCEPT ![k] = @ + 1]
  PROVE  GuessesPending'
<1>0. GuessesPending /\ guesses \in [Codes -> Nat]
  BY DEF GuessInv, AccountsTypeOK
<1> SUFFICES ASSUME NEW j \in Codes
             PROVE  guesses'[j] + Cardinality(Comparing(j)')
                      <= MaxAttempts + Cardinality(Requests) - 1
  BY DEF GuessesPending
<1>1. guesses[j] \in Nat /\ MaxAttempts \in Nat
  BY <1>0, AccountsAssumption
<1>2. CASE j = k
  <2>1. Comparing(k)' = Comparing(k) \ {w}
    BY DEF Comparing
  <2>2. Cardinality(Comparing(k)') = Cardinality(Comparing(k)) - 1
    BY <2>1, ComparingFinite, FS_RemoveElement
  <2> QED BY <1>0, <1>1, <1>2, <2>2, ComparingFinite, ComparingFiniteNext DEF GuessesPending
<1>3. CASE j # k
  <2>1. Comparing(j)' \subseteq Comparing(j)
    BY DEF Comparing
  <2>2. Cardinality(Comparing(j)') <= Cardinality(Comparing(j))
    BY <2>1, FewerComparing
  <2> QED BY <1>0, <1>1, <1>3, <2>2, ComparingFinite, ComparingFiniteNext DEF GuessesPending
<1> QED BY <1>2, <1>3

\* The codes of sign-in: loaded, compared, made.
LEMMA OtpGuess ==
  ASSUME GuessInv, AccountsTypeOK', NEW w \in Requests,
         CompareOtp(w) \/ CreateOtp(w) \/ \E e \in Emails : LoadOtp(w, e)
  PROVE  GuessInv'
<1>0. /\ AccountsTypeOK /\ CodesMailed /\ CodesApart /\ AttemptsCounted /\ GuessesPending
      /\ guesses \in [Codes -> Nat]
  BY DEF GuessInv, AccountsTypeOK
<1>t. \A o \in otps : o.code \in Codes /\ o.attempts \in Nat
  BY <1>0 DEF AccountsTypeOK, Otp
<1>n. mailed \in Nat /\ MaxCodes \in Nat /\ MaxAttempts \in Nat
  BY <1>0, AccountsAssumption DEF AccountsTypeOK
<1>1. ASSUME NEW e \in Emails, LoadOtp(w, e) PROVE GuessInv'
  <2>1. PICK o \in otps : /\ WithinAttempts(o.attempts)
                          /\ Become(w, [pc |-> "compare", email |-> e, code |-> o.code])
    BY <1>1 DEF LoadOtp
  <2>2. o.code \in 0..MaxCodes /\ guesses[o.code] < MaxAttempts /\ o.code <= mailed
    <3>1. guesses[o.code] <= o.attempts /\ o.attempts < MaxAttempts /\ o.code <= mailed
      BY <1>0, <2>1 DEF AttemptsCounted, CodesMailed, WithinAttempts
    <3>2. guesses[o.code] \in Nat /\ o.code \in Codes
      BY <1>0, <1>t
    <3> QED BY <1>n, <1>t, <3>1, <3>2 DEF Codes
  <2>3. UNCHANGED <<otps, challenge, mailed, guesses>>
    BY <1>1 DEF LoadOtp, records, counters, ghosts
  <2> QED BY <2>1, <2>2, <2>3, LoadedGuess
<1>2. CASE CompareOtp(w)
  <2> DEFINE k == req[w].code
  <2>1. PICK o \in otps :
           /\ o.code = k
           /\ otps' = (otps \ {o}) \cup {[o EXCEPT !.attempts = @ + 1]}
           /\ guesses' = [guesses EXCEPT ![o.code] = @ + 1]
    BY <1>2 DEF CompareOtp
  <2>2. /\ req[w].pc = "compare" /\ UNCHANGED <<challenge, mailed>>
        /\ Become(w, Idle) \/ Become(w, [req[w] EXCEPT !.pc = "consume"])
    BY <1>2 DEF CompareOtp, Pc, Give, counters
  <2>3. req[w] \in [pc : {"compare", "consume"}, email : Emails, code : Codes]
    BY <1>0, <2>2 DEF AccountsTypeOK, Request, Idle
  <2>4. /\ \A v \in Requests \ {w} : req'[v] = req[v]
        /\ req'[w].pc \notin {"compare", "answer"}
    BY <1>0, <2>2, <2>3, Becomes DEF Idle
  <2>5. k \in Codes /\ w \in Comparing(k)
    BY <2>2, <2>3 DEF Comparing
  <2>6. GuessesPending'
    BY <2>1, <2>4, <2>5, MadeGuess
  <2> DEFINE new == [o EXCEPT !.attempts = @ + 1]
  <2>7. new.code = k /\ new.attempts = o.attempts + 1
    BY <1>0, <2>1 DEF AccountsTypeOK, Otp
  <2>8. \A q \in otps' : q = new \/ (q \in otps /\ q.code # k)
    BY <1>0, <2>1 DEF CodesApart
  <2> HIDE DEF new
  <2>9. /\ \A j \in Codes : Comparing(j)' \subseteq Comparing(j)
        /\ \A v \in Requests : req'[v].pc = "answer" => req'[v] = req[v]
    BY <2>4 DEF Comparing
  <2>10. \A j \in Codes : guesses'[j] = IF j = k THEN guesses[k] + 1 ELSE guesses[j]
    BY <1>0, <2>1, <2>5
  <2>11. /\ k <= mailed /\ guesses[k] <= o.attempts
         /\ \A c \in Challenges, p \in Sides : ~Held(c, p, k)
    BY <1>0, <2>1 DEF CodesMailed, CodesApart, AttemptsCounted
  <2>h. \A c, p, j : Held(c, p, j)' <=> Held(c, p, j)
    BY <2>2 DEF Held, Exists
  <2>12. CodesMailed'
    BY <1>0, <1>n, <2>2, <2>5, <2>7, <2>8, <2>9, <2>10, <2>11, <2>h DEF CodesMailed, Codes
  <2>13. CodesApart'
    <3>1. \A q, p \in otps' : q.code = p.code => q = p
      BY <1>0, <2>7, <2>8 DEF CodesApart
    <3>2. \A q \in otps' : \E p \in otps : p.code = q.code
      BY <2>1, <2>7, <2>8
    <3> QED BY <1>0, <2>9, <2>h, <3>1, <3>2 DEF CodesApart
  <2>14. AttemptsCounted'
    <3>1. \A q \in otps' : guesses'[q.code] <= q.attempts
      BY <1>0, <1>t, <2>5, <2>7, <2>8, <2>10, <2>11 DEF AttemptsCounted
    <3>2. \A c \in Challenges, p \in Sides, j \in Codes :
            Held(c, p, j)' => guesses'[j] <= challenge'[c][p].attempts
      BY <1>0, <2>2, <2>10, <2>11, <2>h DEF AttemptsCounted
    <3> QED BY <3>1, <3>2 DEF AttemptsCounted
  <2> QED BY <2>6, <2>12, <2>13, <2>14 DEF GuessInv
<1>3. CASE CreateOtp(w)
  <2> DEFINE k == mailed + 1
             new == [code |-> k, email |-> req[w].email, attempts |-> 0, consumed |-> FALSE]
  <2>1. /\ otps' = otps \cup {new} /\ mailed' = k /\ mailed < MaxCodes /\ Become(w, Idle)
        /\ UNCHANGED <<challenge, guesses>>
    BY <1>3 DEF CreateOtp, Give, ghosts
  <2>2. k \in Codes /\ \A j \in Nat : j <= mailed => j # k /\ j <= k
    BY <1>n, <2>1 DEF Codes
  <2>3. /\ \A v \in Requests \ {w} : req'[v] = req[v]
        /\ req'[w].pc \notin {"compare", "answer"}
    BY <1>0, <2>1, Becomes DEF Idle
  <2>4. /\ \A j : Comparing(j)' \subseteq Comparing(j)
        /\ \A v \in Requests : req'[v].pc = "answer" => req'[v] = req[v]
    BY <2>3 DEF Comparing
  <2>5. /\ \A o \in otps : o.code # k
        /\ \A c \in Challenges, p \in Sides : ~Held(c, p, k)
        /\ \A v \in Requests : v \notin Comparing(k)
        /\ guesses[k] = 0
    BY <1>0, <1>n, <1>t, <2>2 DEF CodesMailed, Codes
  <2>h. \A c, p, j : Held(c, p, j)' <=> Held(c, p, j)
    BY <2>1 DEF Held, Exists
  <2>6. new.code = k /\ new.attempts = 0 /\ \A q \in otps' : q = new \/ q \in otps
    BY <2>1
  <2> HIDE DEF new
  <2>7. CodesMailed'
    <3>1. \A q \in otps' : q.code <= k
      BY <1>0, <1>t, <1>n, <2>6 DEF CodesMailed, Codes
    <3>2. \A j \in Codes : j <= mailed => j <= k
      BY <1>n DEF Codes
    <3>3. \A j \in Codes : j > k => guesses[j] = 0
      BY <1>0, <1>n DEF CodesMailed, Codes
    <3> QED BY <1>0, <2>1, <2>4, <2>h, <3>1, <3>2, <3>3 DEF CodesMailed
  <2>8. CodesApart'
    <3>1. \A q, p \in otps' : q.code = p.code => q = p
      BY <1>0, <2>5, <2>6 DEF CodesApart
    <3>2. \A v \in Requests, j \in Codes : req'[v].pc = "answer" /\ req'[v].code = j => j # k
      BY <2>4, <2>5 DEF Comparing
    <3> QED BY <1>0, <2>4, <2>5, <2>6, <2>h, <3>1, <3>2 DEF CodesApart
  <2>9. AttemptsCounted'
    BY <1>0, <2>1, <2>5, <2>6, <2>h DEF AttemptsCounted
  <2>10. GuessesPending'
    <3> SUFFICES ASSUME NEW j \in Codes
                 PROVE  guesses'[j] + Cardinality(Comparing(j)')
                          <= MaxAttempts + Cardinality(Requests) - 1
      BY DEF GuessesPending
    <3>1. Cardinality(Comparing(j)') <= Cardinality(Comparing(j))
      BY <2>4, FewerComparing
    <3>2. guesses[j] \in Nat /\ guesses'[j] = guesses[j]
      BY <1>0, <2>1
    <3> QED BY <1>0, <1>n, <3>1, <3>2, ComparingFinite, ComparingFiniteNext DEF GuessesPending
  <2> QED BY <2>7, <2>8, <2>9, <2>10 DEF GuessInv
<1> QED BY <1>1, <1>2, <1>3

\* The codes of a factor: loaded, mailed anew, compared.
LEMMA FactorGuess ==
  ASSUME GuessInv, AccountsTypeOK', NEW w \in Requests,
         SendFactor(w) \/ AnswerFactor(w) \/ \E c \in Challenges : LoadFactor(w, c)
  PROVE  GuessInv'
<1>0. /\ AccountsTypeOK /\ CodesMailed /\ CodesApart /\ AttemptsCounted /\ GuessesPending
      /\ guesses \in [Codes -> Nat]
  BY DEF GuessInv, AccountsTypeOK
<1>n. mailed \in Nat /\ MaxCodes \in Nat /\ MaxAttempts \in Nat
  BY <1>0, AccountsAssumption DEF AccountsTypeOK
<1>f. \A c \in Challenges, p \in Sides : Exists(c) =>
        challenge[c][p].code \in 0..MaxCodes /\ challenge[c][p].attempts \in Nat
  BY <1>0, FactorFields DEF Factor
<1>t. \A o \in otps : o.code \in Codes /\ o.attempts \in Nat
  BY <1>0 DEF AccountsTypeOK, Otp
<1>1. ASSUME NEW c \in Challenges, LoadFactor(w, c) PROVE GuessInv'
  <2> DEFINE p == NextFactor(challenge[c])
             k == challenge[c][p].code
             r == [pc |-> "answer", user |-> req[w].user, session |-> req[w].session,
                   ch |-> c, part |-> p, code |-> k]
  <2>1. /\ Exists(c) /\ WithinAttempts(challenge[c][p].attempts) /\ Become(w, r)
        /\ UNCHANGED <<otps, challenge, mailed, guesses>>
    BY <1>1 DEF LoadFactor, Loadable, Exists, records, counters, ghosts
  <2>2. r.pc = "answer" /\ r.code = k /\ r.ch = c /\ r.part = p
    OBVIOUS
  <2>3. p \in Sides
    BY DEF NextFactor, Sides
  <2> HIDE DEF p, r
  <2>4. k \in 0..MaxCodes /\ challenge[c][p].attempts \in Nat /\ Held(c, p, k)
    BY <1>f, <2>1, <2>3 DEF Held
  <2> HIDE DEF k
  <2>5. k \in Codes => guesses[k] < MaxAttempts /\ k <= mailed
    <3> SUFFICES ASSUME k \in Codes PROVE guesses[k] < MaxAttempts /\ k <= mailed
      OBVIOUS
    <3>1. guesses[k] <= challenge[c][p].attempts /\ k <= mailed /\ guesses[k] \in Nat
      BY <1>0, <2>3, <2>4 DEF AttemptsCounted, CodesMailed
    <3>2. challenge[c][p].attempts < MaxAttempts
      BY <2>1 DEF WithinAttempts
    <3> QED BY <1>n, <2>4, <3>1, <3>2
  <2>6. k \in Codes => /\ \A o \in otps : o.code # k
                       /\ \A d \in Challenges, q \in Sides : Held(d, q, k) => d = c /\ q = p
    BY <1>0, <2>3, <2>4 DEF CodesApart
  <2> QED BY <2>1, <2>2, <2>4, <2>5, <2>6, LoadedGuess
<1>2. CASE SendFactor(w)
  <2>0. PICK c \in Challenges, p \in Sides : c = req[w].ch /\ p = req[w].part /\ Exists(c)
    BY <1>0, <1>2, RequestFields DEF SendFactor, Pc
  <2>k. PICK k : k = mailed + 1
    OBVIOUS
  <2> DEFINE f == [challenge[c][p] EXCEPT !.code = k, !.attempts = 0]
  <2>1. /\ SetFactor(c, p, f) /\ mailed' = k /\ mailed < MaxCodes /\ Become(w, Idle)
        /\ UNCHANGED <<otps, guesses>>
    BY <1>2, <2>0, <2>k DEF SendFactor, Give, ghosts
  <2>2. k \in Codes /\ \A j \in Nat : j <= mailed => j # k /\ j <= k
    BY <1>n, <2>k, <2>1 DEF Codes
  <2>3. f \in Factor /\ f.code = k /\ f.attempts = 0
    <3>1. challenge[c][p] \in Factor
      BY <1>0, <2>0, FactorFields
    <3>2. k \in 0..MaxCodes
      BY <1>n, <2>2 DEF Codes
    <3>3. f \in Factor
      BY <3>1, <3>2 DEF Factor
    <3> QED BY <3>1, <3>3 DEF Factor
  <2> HIDE DEF f
  <2>4. /\ challenge'[c].state = challenge[c].state /\ challenge'[c][p] = f
        /\ \A q \in Sides \ {p} : challenge'[c][q] = challenge[c][q]
        /\ \A d \in Challenges \ {c} : challenge'[d] = challenge[d]
    BY <1>0, <2>0, <2>1, <2>3, FactorUpdate
  <2>5. /\ \A d \in Challenges, q \in Sides : ~(d = c /\ q = p) =>
             /\ challenge'[d][q] = challenge[d][q]
             /\ \A j : Held(d, q, j)' <=> Held(d, q, j)
        /\ \A j : Held(c, p, j)' <=> j = k
    BY <2>0, <2>3, <2>4 DEF Held, Exists
  <2>6. /\ \A v \in Requests \ {w} : req'[v] = req[v]
        /\ req'[w].pc \notin {"compare", "answer"}
    BY <1>0, <2>1, Becomes DEF Idle
  <2>7. /\ \A j : Comparing(j)' \subseteq Comparing(j)
        /\ \A v \in Requests : req'[v].pc = "answer" => req'[v] = req[v]
    BY <2>6 DEF Comparing
  <2>8. /\ \A o \in otps : o.code # k
        /\ \A d \in Challenges, q \in Sides : ~Held(d, q, k)
        /\ \A v \in Requests : v \notin Comparing(k)
        /\ guesses[k] = 0
    BY <1>0, <1>n, <1>t, <2>2, <2>k DEF CodesMailed, Codes
  <2>9. CodesMailed'
    <3>1. \A q \in otps : q.code <= k
      BY <1>0, <1>t, <1>n, <2>k DEF CodesMailed, Codes
    <3>2. \A j \in Codes : j <= mailed => j <= k
      BY <1>n, <2>k DEF Codes
    <3>3. \A j \in Codes : j > k => guesses[j] = 0
      BY <1>0, <1>n, <2>k DEF CodesMailed, Codes
    <3>4. \A d \in Challenges, q \in Sides, j \in Codes : Held(d, q, j)' => j <= k
      <4> SUFFICES ASSUME NEW d \in Challenges, NEW q \in Sides, NEW j \in Codes, Held(d, q, j)'
                   PROVE  j <= k
        OBVIOUS
      <4>1. CASE d = c /\ q = p
        BY <2>2, <2>5, <4>1 DEF Codes
      <4>2. CASE ~(d = c /\ q = p)
        BY <1>0, <2>5, <3>2, <4>2 DEF CodesMailed
      <4> QED BY <4>1, <4>2
    <3>5. \A v \in Requests, j \in Codes : v \in Comparing(j)' => j <= k
      BY <1>0, <2>7, <3>2 DEF CodesMailed
    <3> QED BY <2>1, <3>1, <3>3, <3>4, <3>5 DEF CodesMailed
  <2>10. CodesApart'
    <3>1. \A o \in otps, d \in Challenges, q \in Sides : ~Held(d, q, o.code)'
      BY <1>0, <2>5, <2>8 DEF CodesApart
    <3>2. \A d, e \in Challenges, q, s \in Sides, j \in Codes :
            Held(d, q, j)' /\ Held(e, s, j)' => d = e /\ q = s
      BY <1>0, <2>5, <2>8 DEF CodesApart
    <3>3. ASSUME NEW v \in Requests, NEW j \in Codes, req'[v].pc = "answer", req'[v].code = j
          PROVE  /\ \A o \in otps : o.code # j
                 /\ \A d \in Challenges, q \in Sides :
                      Held(d, q, j)' => d = req'[v].ch /\ q = req'[v].part
      <4>1. req'[v] = req[v]
        BY <2>7, <3>3
      <4>2. j # k
        BY <2>8, <3>3, <4>1 DEF Comparing
      <4> QED BY <1>0, <2>5, <3>3, <4>1, <4>2 DEF CodesApart
    <3>4. \A o, q \in otps : o.code = q.code => o = q
      BY <1>0 DEF CodesApart
    <3> QED BY <2>1, <3>1, <3>2, <3>3, <3>4 DEF CodesApart
  <2>11. AttemptsCounted'
    <3>1. \A d \in Challenges, q \in Sides, j \in Codes :
            Held(d, q, j)' => guesses[j] <= challenge'[d][q].attempts
      <4> SUFFICES ASSUME NEW d \in Challenges, NEW q \in Sides, NEW j \in Codes, Held(d, q, j)'
                   PROVE  guesses[j] <= challenge'[d][q].attempts
        OBVIOUS
      <4>1. CASE d = c /\ q = p
        BY <2>3, <2>4, <2>5, <2>8, <4>1
      <4>2. CASE ~(d = c /\ q = p)
        BY <1>0, <2>5, <4>2 DEF AttemptsCounted
      <4> QED BY <4>1, <4>2
    <3> QED BY <1>0, <2>1, <3>1 DEF AttemptsCounted
  <2>12. GuessesPending'
    <3> SUFFICES ASSUME NEW j \in Codes
                 PROVE  guesses'[j] + Cardinality(Comparing(j)')
                          <= MaxAttempts + Cardinality(Requests) - 1
      BY DEF GuessesPending
    <3>1. Cardinality(Comparing(j)') <= Cardinality(Comparing(j))
      BY <2>7, FewerComparing
    <3>2. guesses[j] \in Nat /\ guesses'[j] = guesses[j]
      BY <1>0, <2>1
    <3> QED BY <1>0, <1>n, <3>1, <3>2, ComparingFinite, ComparingFiniteNext DEF GuessesPending
  <2> QED BY <2>9, <2>10, <2>11, <2>12 DEF GuessInv
<1>3. CASE AnswerFactor(w)
  <2>0. /\ req[w] \in [pc : {"answer", "verify"}, user : Users, session : Sessions,
                       ch : Challenges, part : Sides, code : 0..MaxCodes]
        /\ req[w].pc = "answer" /\ Exists(req[w].ch)
    <3>1. req[w].pc = "answer" /\ Exists(req[w].ch)
      BY <1>3 DEF AnswerFactor, Pc
    <3>2. req[w] \in Request
      BY <1>0 DEF AccountsTypeOK
    <3> QED BY <3>1, <3>2 DEF Request, Idle, Sides
  <2>3. PICK c \in Challenges, p \in Sides, k \in 0..MaxCodes :
           c = req[w].ch /\ p = req[w].part /\ k = req[w].code
    BY <2>0
  <2> DEFINE f == [challenge[c][p] EXCEPT !.attempts = @ + 1]
  <2>1. /\ SetFactor(c, p, f)
        /\ guesses' = IF k = 0 THEN guesses ELSE [guesses EXCEPT ![k] = @ + 1]
        /\ Become(w, Idle) \/ Become(w, [req[w] EXCEPT !.pc = "verify"])
        /\ UNCHANGED <<otps, mailed>>
    BY <1>3, <2>3 DEF AnswerFactor, Give, counters
  <2>2. /\ \A v \in Requests \ {w} : req'[v] = req[v]
        /\ req'[w].pc \notin {"compare", "answer"}
    BY <1>0, <2>0, <2>1, Becomes DEF Idle
  <2>4. challenge[c][p] \in Factor
    BY <1>0, <2>0, <2>3, FactorFields
  <2>5. f \in Factor /\ f.code = challenge[c][p].code /\ f.attempts = challenge[c][p].attempts + 1
    BY <2>4 DEF Factor
  <2> HIDE DEF f
  <2>6. /\ challenge'[c].state = challenge[c].state /\ challenge'[c][p] = f
        /\ \A q \in Sides \ {p} : challenge'[c][q] = challenge[c][q]
        /\ \A d \in Challenges \ {c} : challenge'[d] = challenge[d]
    BY <1>0, <2>0, <2>1, <2>3, <2>5, FactorUpdate
  <2>h. \A d \in Challenges, q \in Sides :
          /\ ~(d = c /\ q = p) => challenge'[d][q] = challenge[d][q]
          /\ \A j : Held(d, q, j)' <=> Held(d, q, j)
    BY <2>5, <2>6 DEF Held, Exists
  <2>7. /\ \A j : Comparing(j)' \subseteq Comparing(j)
        /\ \A v \in Requests : req'[v].pc = "answer" => req'[v] = req[v]
    BY <2>2 DEF Comparing
  <2>8. \A d \in Challenges, q \in Sides : Exists(d) =>
          /\ challenge[d][q].attempts \in Nat /\ challenge'[d][q].attempts \in Nat
          /\ challenge[d][q].attempts <= challenge'[d][q].attempts
    BY <1>f, <2>5, <2>6, <2>h
  <2>9. CASE k = 0
    <3>1. OtpsStay
      BY <1>0, <1>t, <2>1 DEF OtpsStay, CodesApart
    <3>2. FactorsStay
      <4>1. \A d, q, j : Held(d, q, j) => Exists(d)
        BY DEF Held
      <4> QED BY <2>8, <2>h, <4>1 DEF FactorsStay
    <3>3. RequestsStay
      BY <2>2 DEF RequestsStay
    <3> QED BY <2>1, <2>9, <3>1, <3>2, <3>3, NoGuess
  <2>10. CASE k # 0
    <3>1. k \in Codes /\ w \in Comparing(k)
      BY <1>n, <2>0, <2>3, <2>10 DEF Codes, Comparing
    <3>2. guesses' = [guesses EXCEPT ![k] = @ + 1]
      BY <2>1, <2>10
    <3>3. GuessesPending'
      BY <2>2, <3>1, <3>2, MadeGuess
    <3>4. \A j \in Codes : guesses'[j] = IF j = k THEN guesses[k] + 1 ELSE guesses[j]
      BY <1>0, <3>1, <3>2
    <3>5. /\ k <= mailed
          /\ \A o \in otps : o.code # k
          /\ \A d \in Challenges, q \in Sides : Held(d, q, k) => d = c /\ q = p
      BY <1>0, <2>0, <2>3, <3>1 DEF CodesMailed, CodesApart
    <3>6. CodesMailed'
      <4>1. \A j \in Codes : j > mailed => guesses'[j] = 0
        BY <1>0, <1>n, <3>1, <3>4, <3>5 DEF CodesMailed, Codes
      <4>2. \A v \in Requests, j \in Codes : v \in Comparing(j)' => j <= mailed
        BY <1>0, <2>7 DEF CodesMailed
      <4> QED BY <1>0, <2>1, <2>h, <4>1, <4>2 DEF CodesMailed
    <3>7. CodesApart'
      BY <1>0, <2>1, <2>7, <2>h DEF CodesApart
    <3>8. AttemptsCounted'
      <4>1. \A o \in otps : guesses'[o.code] <= o.attempts
        BY <1>0, <1>t, <3>4, <3>5 DEF AttemptsCounted
      <4>2. ASSUME NEW d \in Challenges, NEW q \in Sides, NEW j \in Codes, Held(d, q, j)'
            PROVE  guesses'[j] <= challenge'[d][q].attempts
        <5>1. Held(d, q, j) /\ guesses[j] <= challenge[d][q].attempts /\ guesses[j] \in Nat
          BY <1>0, <2>h, <4>2 DEF AttemptsCounted
        <5>2. Exists(d)
          BY <5>1 DEF Held
        <5>3. CASE j = k
          <6>1. d = c /\ q = p
            BY <3>5, <5>1, <5>3
          <6>2. challenge'[d][q].attempts = challenge[d][q].attempts + 1
            BY <2>5, <2>6, <6>1
          <6> QED BY <2>8, <3>1, <3>4, <5>1, <5>2, <5>3, <6>2
        <5>4. CASE j # k
          BY <2>8, <3>4, <5>1, <5>2, <5>4
        <5> QED BY <5>3, <5>4
      <4> QED BY <2>1, <4>1, <4>2 DEF AttemptsCounted
    <3> QED BY <3>3, <3>6, <3>7, <3>8 DEF GuessInv
  <2> QED BY <2>9, <2>10
<1> QED BY <1>1, <1>2, <1>3

LEMMA GuessStep ==
  ASSUME GuessInv, [AccountsNext]_accountVars
  PROVE  GuessInv'
<1>0. AccountsTypeOK /\ CodesApart
  BY DEF GuessInv
<1>t. AccountsTypeOK'
  BY <1>0, TypeStep
<1>o. otps' \subseteq otps => OtpsStay
  BY <1>0 DEF CodesApart, OtpsStay, AccountsTypeOK, Otp
<1>e. \A c \in Challenges, p \in Sides : Exists(c) =>
        /\ challenge[c][p] \in Factor /\ challenge[c][p].attempts \in Nat
        /\ challenge[c] \in [state : {"open", "consumed"}, user : Users, action : Actions,
                             first : Factor, second : Factor]
  BY <1>0, FactorFields DEF Factor
<1>c. challenge' = challenge => FactorsStay
  <2>1. \A c, p, k : Held(c, p, k) => Exists(c)
    BY DEF Held
  <2>2. challenge' = challenge => \A c, p, k : Held(c, p, k)' <=> Held(c, p, k)
    BY DEF Held, Exists
  <2> QED BY <1>e, <2>1, <2>2 DEF FactorsStay
<1>r. ASSUME NEW w \in Requests, NEW r, Become(w, r), r.pc \notin {"compare", "answer"}
      PROVE  RequestsStay
  <2>1. req'[w] = r /\ \A v \in Requests \ {w} : req'[v] = req[v]
    BY <1>0, <1>r, Becomes
  <2> QED BY <1>r, <2>1 DEF RequestsStay
<1>i. ASSUME NEW w \in Requests, Give(w) PROVE RequestsStay
  BY <1>i, <1>r DEF Give, Idle
<1>w. \A w \in Requests : req[w] \in Request
  BY <1>0 DEF AccountsTypeOK
<1>1. CASE AuthController
  <2>1. ASSUME NEW w \in Requests, NEW e \in Emails, SendOtp(w, e) PROVE GuessInv'
    <3>1. RequestsStay
      BY <1>r, <2>1 DEF SendOtp
    <3> QED BY <1>t, <1>o, <1>c, <2>1, <3>1, NoGuess DEF SendOtp, counters, ghosts
  <2>2. ASSUME NEW w \in Requests, NEW u \in Users, SignUp(w, u) PROVE GuessInv'
    <3>1. RequestsStay
      BY <1>r, <2>2 DEF SignUp
    <3> QED BY <1>t, <1>o, <1>c, <2>2, <3>1, NoGuess DEF SignUp, records, counters, ghosts
  <2>3. ASSUME NEW w \in Requests, ConsumeOtp(w) PROVE GuessInv'
    <3>1. RequestsStay
      BY <1>r, <2>3 DEF ConsumeOtp
    <3>2. PICK o \in otps : otps' = (otps \ {o}) \cup {[o EXCEPT !.consumed = TRUE]}
      BY <2>3 DEF ConsumeOtp
    <3> DEFINE new == [o EXCEPT !.consumed = TRUE]
    <3>3. new.code = o.code /\ new.attempts = o.attempts
      BY <1>0 DEF AccountsTypeOK, Otp
    <3>4. \A q \in otps' : q = new \/ (q \in otps /\ q.code # o.code)
      BY <1>0, <3>2 DEF CodesApart
    <3>5. \A q \in otps : q.attempts \in Nat
      BY <1>0 DEF AccountsTypeOK, Otp
    <3> HIDE DEF new
    <3>6. OtpsStay
      BY <1>0, <3>3, <3>4, <3>5 DEF OtpsStay, CodesApart
    <3> QED BY <1>t, <1>c, <2>3, <3>1, <3>6, NoGuess DEF ConsumeOtp, counters, ghosts
  <2>4. ASSUME NEW w \in Requests, FindUser(w) PROVE GuessInv'
    <3>1. req[w] \in [pc : {"mail", "find", "signUp"}, email : Emails]
      BY <1>w, <2>4 DEF FindUser, Pc, Request, Idle
    <3>2. [req[w] EXCEPT !.pc = "signUp"].pc = "signUp"
      BY <3>1
    <3>3. \/ Become(w, [req[w] EXCEPT !.pc = "signUp"]) \/ Give(w)
          \/ \E u \in Users, pc \in {"issue", "markVerified"} :
               Become(w, [pc |-> pc, user |-> u])
      BY <2>4 DEF FindUser, Holders
    <3>4. RequestsStay
      BY <1>r, <1>i, <3>2, <3>3
    <3> QED BY <1>t, <1>o, <1>c, <2>4, <3>4, NoGuess DEF FindUser, records, counters, ghosts
  <2>5. ASSUME NEW w \in Requests, MarkVerified(w) PROVE GuessInv'
    <3>1. req[w] \in [pc : {"markVerified", "issue"}, user : Users]
      BY <1>w, <2>5 DEF MarkVerified, Pc, Request, Idle
    <3>2. [req[w] EXCEPT !.pc = "issue"].pc = "issue"
      BY <3>1
    <3>3. RequestsStay
      BY <1>r, <2>5, <3>2 DEF MarkVerified
    <3> QED BY <1>t, <1>o, <1>c, <2>5, <3>3, NoGuess DEF MarkVerified, records, counters, ghosts
  <2>6. ASSUME NEW w \in Requests, Issue(w) PROVE GuessInv'
    BY <1>t, <1>o, <1>c, <1>i, <2>6, NoGuess DEF Issue, records
  <2>7. ASSUME NEW w \in Requests, Logout(w) PROVE GuessInv'
    BY <1>t, <1>o, <1>c, <1>i, <2>7, NoGuess DEF Logout, records, counters, ghosts
  <2> QED BY <1>1, <1>t, <2>1, <2>2, <2>3, <2>4, <2>5, <2>6, <2>7, OtpGuess DEF AuthController
<1>2. CASE StepUpController
  <2>1. ASSUME NEW w \in Requests, NEW c \in Challenges, Resend(w, c) PROVE GuessInv'
    <3>1. RequestsStay
      BY <1>r, <2>1 DEF Resend
    <3> QED BY <1>t, <1>o, <1>c, <2>1, <3>1, NoGuess DEF Resend, records, counters, ghosts
  <2>2. ASSUME NEW w \in Requests, NEW c \in Challenges, NEW a \in Actions, NEW e \in Emails,
               CreateChallenge(w, c, a, e)
        PROVE  GuessInv'
    <3>1. RequestsStay
      BY <1>r, <2>2 DEF CreateChallenge
    <3>2. /\ \A p \in Sides : challenge'[c][p].code = 0
          /\ \A d \in Challenges \ {c} : challenge'[d] = challenge[d]
      BY <1>0, <2>2 DEF CreateChallenge, AccountsTypeOK, Fresh, Sides
    <3>3. \A d \in Challenges, p \in Sides, k \in Codes :
            Held(d, p, k)' => d # c /\ Held(d, p, k) /\ Exists(d)
      BY <3>2, AccountsAssumption DEF Held, Exists, Codes
    <3>4. FactorsStay
      BY <1>e, <3>2, <3>3 DEF FactorsStay
    <3> QED BY <1>t, <1>o, <2>2, <3>1, <3>4, NoGuess DEF CreateChallenge, ghosts
  <2>3. ASSUME NEW w \in Requests, NEW c \in Challenges, NEW e \in Emails, ChangeEmail(w, c, e)
        PROVE  GuessInv'
    <3>1. req[w] \in [pc : {"reload", "execute", "close"}, user : Users, session : Sessions,
                      ch : Challenges]
      BY <1>w, <2>3 DEF ChangeEmail, Pc, Request, Idle
    <3>2. [req[w] EXCEPT !.pc = "close"].pc = "close"
      BY <3>1
    <3>3. RequestsStay
      BY <1>r, <2>3, <3>2 DEF ChangeEmail
    <3> QED BY <1>t, <1>o, <1>c, <2>3, <3>3, NoGuess DEF ChangeEmail, records, counters, ghosts
  <2>4. ASSUME NEW w \in Requests, VerifyFactor(w) PROVE GuessInv'
    <3>1. RequestsStay
      BY <1>r, <2>4 DEF VerifyFactor
    <3>2. PICK c \in Challenges, p \in Sides : c = req[w].ch /\ p = req[w].part /\ Exists(c)
      BY <1>0, <2>4, RequestFields DEF VerifyFactor, Pc
    <3> DEFINE f == [challenge[c][p] EXCEPT !.verified = TRUE]
    <3>3. f \in Factor /\ f.code = challenge[c][p].code /\ f.attempts = challenge[c][p].attempts
      <4>1. challenge[c][p] \in Factor
        BY <1>e, <3>2
      <4> QED BY <4>1 DEF Factor
    <3>4. SetFactor(c, p, f)
      BY <2>4, <3>2 DEF VerifyFactor
    <3> HIDE DEF f
    <3>5. /\ challenge'[c].state = challenge[c].state /\ challenge'[c][p] = f
          /\ \A q \in Sides \ {p} : challenge'[c][q] = challenge[c][q]
          /\ \A d \in Challenges \ {c} : challenge'[d] = challenge[d]
      BY <1>0, <3>2, <3>3, <3>4, FactorUpdate
    <3>6. \A d \in Challenges, q \in Sides :
            /\ \A j : Held(d, q, j)' <=> Held(d, q, j)
            /\ challenge'[d][q].attempts = challenge[d][q].attempts
      BY <3>3, <3>5 DEF Held, Exists
    <3>7. \A d, q, j : Held(d, q, j) => Exists(d)
      BY DEF Held
    <3>8. FactorsStay
      BY <1>e, <3>6, <3>7 DEF FactorsStay
    <3> QED BY <1>t, <1>o, <2>4, <3>1, <3>8, NoGuess DEF VerifyFactor, counters, ghosts
  <2>5. ASSUME NEW w \in Requests, Reload(w) PROVE GuessInv'
    <3>1. req[w] \in [pc : {"reload", "execute", "close"}, user : Users, session : Sessions,
                      ch : Challenges]
      BY <1>w, <2>5 DEF Reload, Pc, Request, Idle
    <3>2. [req[w] EXCEPT !.pc = "execute"].pc = "execute"
      BY <3>1
    <3>3. RequestsStay
      BY <1>r, <2>5, <3>2 DEF Reload
    <3> QED BY <1>t, <1>o, <1>c, <2>5, <3>3, NoGuess DEF Reload, records, counters, ghosts
  <2>6. ASSUME NEW w \in Requests, DeleteAccount(w) PROVE GuessInv'
    <3>1. req[w] \in [pc : {"reload", "execute", "close"}, user : Users, session : Sessions,
                      ch : Challenges]
      BY <1>w, <2>6 DEF DeleteAccount, Pc, Request, Idle
    <3>2. [req[w] EXCEPT !.pc = "close"].pc = "close"
      BY <3>1
    <3>3. RequestsStay
      BY <1>r, <2>6, <3>2 DEF DeleteAccount
    <3>4. \A c \in Challenges : challenge'[c] = Gone \/ challenge'[c] = challenge[c]
      BY <2>6 DEF DeleteAccount
    <3>5. \A c \in Challenges : \A p, k : Held(c, p, k)' =>
            Held(c, p, k) /\ Exists(c) /\ challenge'[c] = challenge[c]
      BY <3>4 DEF Held, Exists, Gone
    <3>6. FactorsStay
      BY <1>e, <3>5 DEF FactorsStay
    <3> QED BY <1>t, <1>o, <2>6, <3>3, <3>6, NoGuess DEF DeleteAccount, counters, ghosts
  <2>7. ASSUME NEW w \in Requests, Close(w) PROVE GuessInv'
    <3>1. PICK c \in Challenges : c = req[w].ch
      BY <1>0, <2>7, RequestFields DEF Close, Pc
    <3>2. challenge' = IF Exists(c) THEN [challenge EXCEPT ![c].state = "consumed"] ELSE challenge
      BY <2>7, <3>1 DEF Close
    <3>3. CASE Exists(c)
      <4>1. /\ \A p \in Sides : challenge'[c][p] = challenge[c][p]
            /\ \A d \in Challenges \ {c} : challenge'[d] = challenge[d]
        BY <1>0, <1>e, <3>2, <3>3 DEF AccountsTypeOK, Sides
      <4>2. \A d \in Challenges, p \in Sides : \A k : Held(d, p, k)' =>
              Held(d, p, k) /\ Exists(d) /\ challenge'[d][p] = challenge[d][p]
        BY <3>3, <4>1 DEF Held, Exists
      <4>3. FactorsStay
        BY <1>e, <4>2 DEF FactorsStay
      <4> QED BY <1>t, <1>o, <1>i, <2>7, <4>3, NoGuess DEF Close, counters, ghosts
    <3>4. CASE ~Exists(c)
      BY <1>t, <1>o, <1>c, <1>i, <2>7, <3>2, <3>4, NoGuess DEF Close, counters, ghosts
    <3> QED BY <3>3, <3>4
  <2> QED BY <1>2, <1>t, <2>1, <2>2, <2>3, <2>4, <2>5, <2>6, <2>7, FactorGuess
          DEF StepUpController
<1>q. req' = req => RequestsStay
  BY DEF RequestsStay
<1>3. CASE AdminUsersController
  BY <1>3, <1>t, <1>o, <1>c, <1>q, NoGuess
     DEF AdminUsersController, CommitSuspend, BeginSuspend, Unsuspend, RevokeSessions, records,
         counters, ghosts
<1>4. ASSUME NEW u \in Users, NEW e \in Emails, GuestCheckout(u, e) PROVE GuessInv'
  BY <1>4, <1>t, <1>o, <1>c, <1>q, NoGuess DEF GuestCheckout, records, counters, ghosts
<1>5. ASSUME NEW s \in sessions, NEW w \in Requests, Admit(w, s) PROVE GuessInv'
  <2>1. RequestsStay
    BY <1>r, <1>5 DEF Admit
  <2> QED BY <1>5, <1>t, <1>o, <1>c, <2>1, NoGuess DEF Admit, records, counters, ghosts
<1>6. ASSUME NEW w \in Requests, Abandon(w) PROVE GuessInv'
  BY <1>6, <1>t, <1>o, <1>c, <1>i, NoGuess DEF Abandon, records, counters, ghosts
<1>7. CASE UNCHANGED accountVars
  BY <1>7, <1>t, <1>o, <1>c, <1>q, NoGuess DEF accountVars, records, counters, ghosts
<1> QED BY <1>1, <1>2, <1>3, <1>4, <1>5, <1>6, <1>7 DEF AccountsNext

\* However requests overlap, a code is compared at most as often as its
\* attempts allow, and once more for each further request that had passed the
\* check (OtpService.verify, StepUpService.verify).
THEOREM GuessesAlwaysBounded == AccountsSpec => []GuessesBounded
<1>1. GuessInv => GuessesBounded
  <2> SUFFICES ASSUME GuessInv, NEW k \in Codes
               PROVE  guesses[k] <= MaxAttempts + Cardinality(Requests) - 1
    BY DEF GuessesBounded
  <2>1. guesses[k] \in Nat /\ MaxAttempts \in Nat
    BY AccountsAssumption DEF GuessInv, AccountsTypeOK
  <2> QED BY <2>1, ComparingFinite DEF GuessInv, GuessesPending
<1> QED BY GuessInitInv, GuessStep, <1>1, PTL DEF AccountsSpec

----------------------------------------------------------------------------
(* Payments *)

\* A report that speaks of a covered charge, wherever it is under way, speaks
\* of one that was taken in full.
ReportsTrue ==
  \A r \in sent \cup accepted \cup answers :
    r.covers => charge[r.payment] \in {"success", "reversed"}

Unsettled(p) == payment[p] \in {"none", "pending"}

\* Nothing is announced of a payment before it settles, and an override adds
\* one announcement to the one that finalize makes.
AnnouncedOK ==
  \A p \in Payments :
    /\ Unsettled(p) => emitted[p] + emitting[p] = 0 /\ p \notin marked
    /\ emitted[p] + emitting[p] <= IF p \in marked THEN 2 ELSE 1
    /\ p \in marking => p \notin marked

PaymentsInv == /\ PaymentsTypeOK
               /\ ReportsTrue /\ SuccessIsCovered /\ AnnouncedOK

----------------------------------------------------------------------------

\* The invariant holds of an empty payments table.
LEMMA PaymentsInitInv == PaymentsInit => PaymentsInv
  BY PaymentsAssumption
     DEF PaymentsInit, PaymentsInv, PaymentsTypeOK, PaymentStatus, Terminal, Charge, ReportsTrue,
         SuccessIsCovered, AnnouncedOK, Unsettled

\* What the provider reports of a charge is a report.
LEMMA ReportOfType ==
  ASSUME NEW p \in Payments, NEW c \in Charge
  PROVE  /\ ReportOf(p, c) \in Report
         /\ ReportOf(p, c).payment = p
         /\ ReportOf(p, c).covers => c = "success"
  BY DEF ReportOf, Report, Charge, PaymentStatus, Terminal

\* finalize settles a pending payment on a covered success only.
LEMMA FinalizeInv ==
  ASSUME PaymentsInv, NEW r \in accepted \cup answers, Finalize(r),
         accepted' \subseteq accepted, answers' \subseteq answers,
         UNCHANGED <<charge, sent, seen, marking, emitted, marked, stops>>
  PROVE  /\ PaymentsInv'
         /\ \A p \in Payments : payment[p] \in Terminal => payment'[p] = payment[p]
<1> DEFINE p == r.payment
           applies == payment[p] = "pending" /\ (r.status = "successful" => r.covers)
<1>1. r \in Report /\ p \in Payments
  BY DEF PaymentsInv, PaymentsTypeOK, Report
<1>2. r.covers => charge[p] \in {"success", "reversed"}
  BY DEF PaymentsInv, ReportsTrue
<1>3. /\ payment' = IF applies THEN [payment EXCEPT ![p] = r.status] ELSE payment
      /\ emitting' = IF applies /\ r.status = "successful"
                     THEN [emitting EXCEPT ![p] = @ + 1] ELSE emitting
  BY DEF Finalize
<1>4. r.status \in PaymentStatus
  BY <1>1 DEF Report
<1> HIDE DEF p
<1>5. PaymentsTypeOK'
  BY <1>1, <1>3, <1>4 DEF PaymentsInv, PaymentsTypeOK
<1>6. ReportsTrue'
  BY DEF PaymentsInv, ReportsTrue
<1>7. SuccessIsCovered'
  BY <1>1, <1>2, <1>3 DEF PaymentsInv, PaymentsTypeOK, SuccessIsCovered
<1>8. AnnouncedOK'
  BY <1>1, <1>3, <1>4 DEF PaymentsInv, PaymentsTypeOK, AnnouncedOK, Unsettled, PaymentStatus, Terminal
<1>9. \A q \in Payments : payment[q] \in Terminal => payment'[q] = payment[q]
  BY <1>1, <1>3 DEF PaymentsInv, PaymentsTypeOK, Terminal
<1> QED BY <1>5, <1>6, <1>7, <1>8, <1>9 DEF PaymentsInv

\* Every step keeps the invariant; a settled payment changes only by an
\* override that was begun before.
LEMMA PaymentsStepInv ==
  ASSUME PaymentsInv, [PaymentsNext]_allPaymentVars
  PROVE  /\ PaymentsInv'
         /\ \A p \in Payments :
              (payment[p] \in Terminal /\ payment'[p] # payment[p]) => p \in marking
<1> USE DEF PaymentsInv
<1>1. ASSUME NEW p \in Payments, Create(p) \/ Initialize(p)
      PROVE  PaymentsInv' /\ \A q \in Payments : payment[q] \in Terminal => payment'[q] = payment[q]
  BY <1>1 DEF Create, Initialize, PaymentsTypeOK, PaymentStatus, Terminal, Charge, ReportsTrue,
       SuccessIsCovered, AnnouncedOK, Unsettled, Report
<1>2. ASSUME NEW p \in Payments, NEW c \in Charge, Pay(p, c) PROVE PaymentsInv' /\ payment' = payment
  <2>1. /\ charge[p] \in {"open", "failed", "abandoned"}
        /\ charge' = [charge EXCEPT ![p] = c]
        /\ sent' \in {sent, sent \cup {ReportOf(p, c)}}
        /\ UNCHANGED <<payment, seen, accepted, answers, marking, emitting, emitted,
                       marked, stops>>
    BY <1>2 DEF Pay
  <2>2. PaymentsTypeOK'
    BY <2>1, ReportOfType DEF PaymentsTypeOK
  <2>3. ReportsTrue'
    BY <2>1, ReportOfType DEF PaymentsTypeOK, ReportsTrue, Report
  <2> QED BY <2>1, <2>2, <2>3 DEF PaymentsTypeOK, SuccessIsCovered, AnnouncedOK, Unsettled
<1>3. ASSUME NEW p \in Payments, Reverse(p) PROVE PaymentsInv' /\ payment' = payment
  <2>1. "reversed" \in Charge
    BY DEF Charge
  <2>2. /\ charge' = [charge EXCEPT ![p] = "reversed"]
        /\ sent' = sent \cup {ReportOf(p, "reversed")}
        /\ UNCHANGED <<payment, seen, accepted, answers, marking, emitting, emitted,
                       marked, stops>>
    BY <1>3 DEF Reverse
  <2>3. PaymentsTypeOK'
    BY <2>1, <2>2, ReportOfType DEF PaymentsTypeOK
  <2>4. ReportsTrue'
    BY <2>1, <2>2, ReportOfType DEF PaymentsTypeOK, ReportsTrue, Report
  <2> QED BY <2>2, <2>3, <2>4 DEF PaymentsTypeOK, SuccessIsCovered, AnnouncedOK, Unsettled
<1>4. ASSUME NEW p \in Payments, Verify(p) PROVE PaymentsInv' /\ payment' = payment
  <2>1. charge[p] \in Charge
    BY DEF PaymentsTypeOK
  <2>2. /\ answers' = answers \cup {ReportOf(p, charge[p])}
        /\ UNCHANGED <<payment, charge, sent, seen, accepted, marking, emitting, emitted,
                       marked, stops>>
    BY <1>4 DEF Verify
  <2> QED BY <2>1, <2>2, ReportOfType
        DEF PaymentsTypeOK, ReportsTrue, SuccessIsCovered, AnnouncedOK, Unsettled
<1>5. ASSUME NEW p \in Payments, Emit(p) PROVE PaymentsInv' /\ payment' = payment
  BY <1>5 DEF Emit, PaymentsTypeOK, ReportsTrue, SuccessIsCovered, AnnouncedOK, Unsettled
<1>6. ASSUME NEW p \in Payments, StartMark(p) PROVE PaymentsInv' /\ payment' = payment
  BY <1>6 DEF StartMark, PaymentsTypeOK, ReportsTrue, SuccessIsCovered, AnnouncedOK, Unsettled
<1>7. ASSUME NEW p \in Payments, MarkSucceeded(p)
      PROVE  PaymentsInv' /\ \A q \in Payments : payment'[q] # payment[q] => q \in marking
  BY <1>7 DEF MarkSucceeded, PaymentsTypeOK, PaymentStatus, Terminal, ReportsTrue,
       SuccessIsCovered, AnnouncedOK, Unsettled
<1>8. ASSUME NEW r \in sent, AcceptWebhook(r) PROVE PaymentsInv' /\ payment' = payment
  BY <1>8 DEF AcceptWebhook, PaymentsTypeOK, ReportsTrue, SuccessIsCovered, AnnouncedOK, Unsettled
<1>9. ASSUME NEW r \in accepted \cup answers, Dispatch(r) \/ ApplyAnswer(r)
      PROVE  PaymentsInv' /\ \A q \in Payments : payment[q] \in Terminal => payment'[q] = payment[q]
  <2>1. /\ Finalize(r) /\ accepted' \subseteq accepted /\ answers' \subseteq answers
        /\ UNCHANGED <<charge, sent, seen, marking, emitted, marked, stops>>
    BY <1>9 DEF Dispatch, ApplyAnswer
  <2> QED BY <2>1, FinalizeInv
<1>10. ASSUME LoseRequests PROVE PaymentsInv' /\ payment' = payment
  BY <1>10, PaymentsAssumption
     DEF LoseRequests, PaymentsTypeOK, ReportsTrue, SuccessIsCovered, AnnouncedOK, Unsettled
<1>11. ASSUME UNCHANGED allPaymentVars PROVE PaymentsInv' /\ payment' = payment
  BY <1>11 DEF allPaymentVars, paymentVars, PaymentsTypeOK, ReportsTrue, SuccessIsCovered,
       AnnouncedOK, Unsettled
<1> QED BY <1>1, <1>2, <1>3, <1>4, <1>5, <1>6, <1>7, <1>8, <1>9, <1>10, <1>11
        DEF PaymentsNext, PaymentsStep

\* The invariant holds whatever the provider, the admin and stops do.
THEOREM PaymentsInvariant == PaymentsSpec => []PaymentsInv
<1>1. PaymentsInv /\ [PaymentsNext]_allPaymentVars => PaymentsInv'
  BY PaymentsStepInv
<1> QED BY <1>1, PaymentsInitInv, PTL DEF PaymentsSpec

\* The payment rows, the provider's charges and what is under way between them
\* keep their types: finalize never writes a status the table does not know.
THEOREM PaymentsTypeCorrect == PaymentsSpec => []PaymentsTypeOK
<1>1. PaymentsInv => PaymentsTypeOK
  BY DEF PaymentsInv
<1> QED BY <1>1, PaymentsInvariant, PTL

\* No payment is successful on less than the full charge, an override apart.
THEOREM SuccessCovered == PaymentsSpec => []SuccessIsCovered
<1>1. PaymentsInv => SuccessIsCovered
  BY DEF PaymentsInv
<1> QED BY <1>1, PaymentsInvariant, PTL

\* However the webhooks and verify answers interleave, payment.succeeded goes
\* out once per payment, and once more only for an admin's override.
THEOREM EventEmittedOnce == PaymentsSpec => []EmittedOnce
<1>1. PaymentsInv => EmittedOnce
  <2> SUFFICES ASSUME PaymentsInv, NEW p \in Payments
               PROVE  emitted[p] + emitting[p] <= 1 + Cardinality({p} \cap marked)
    BY DEF EmittedOnce
  <2>1. emitted[p] + emitting[p] <= IF p \in marked THEN 2 ELSE 1
    BY DEF PaymentsInv, AnnouncedOK
  <2>2. Cardinality({p}) = 1 /\ Cardinality({}) = 0
    BY FS_Singleton, FS_EmptySet
  <2>3. emitted[p] \in Nat /\ emitting[p] \in Nat
    BY DEF PaymentsInv, PaymentsTypeOK
  <2>4. CASE p \in marked
    <3>1. {p} \cap marked = {p}
      BY <2>4
    <3>2. Cardinality({p} \cap marked) = 1
      BY <2>2, <3>1, Zenon
    <3> QED BY <2>1, <2>3, <2>4, <3>2
  <2>5. CASE p \notin marked
    <3>1. {p} \cap marked = {}
      BY <2>5
    <3>2. Cardinality({p} \cap marked) = 0
      BY <2>2, <3>1, Zenon
    <3> QED BY <2>1, <2>3, <2>5, <3>2
  <2> QED BY <2>4, <2>5
<1> QED BY <1>1, PaymentsInvariant, PTL

\* A settled payment is final, an override that was begun before apart.
THEOREM SettledIsFinal == PaymentsSpec => TerminalIsFinal
<1>1. PaymentsInv /\ [PaymentsNext]_allPaymentVars =>
        [\A p \in Payments :
           (payment[p] \in Terminal /\ payment'[p] # payment[p]) => p \in marking]_allPaymentVars
  BY PaymentsStepInv
<1> QED BY <1>1, PaymentsInvariant, PTL DEF PaymentsSpec, TerminalIsFinal

=============================================================================
