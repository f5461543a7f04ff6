------------------------------ MODULE Accounts ------------------------------
(***************************************************************************)
(* Accounts: one-time codes and sign-in, access tokens and the guard,      *)
(* step-up challenges with their two actions (change of email, deletion),  *)
(* guest checkout's accounts and the admin's suspensions.                  *)
(*                                                                         *)
(* None of it locks a row: a request works on what it loaded, and between  *)
(* any two of its queries another request, or the end of the process, may  *)
(* come.  Codes are rows with a number of their own; what is typed in is   *)
(* either right or wrong.  Cooldowns are taken as elapsed, and a code or a *)
(* challenge that expired as a request that gives up.                      *)
(***************************************************************************)
EXTENDS Integers, FiniteSets, FiniteSetsExt

CONSTANTS Users,        \* user ids a run may create
          Emails,       \* addresses
          Registered,   \* accounts that signed in before the run, with their addresses
          Challenges,   \* step-up challenges a run may create
          Requests,     \* requests running at the same time
          MaxAttempts,  \* auth.otp_max_attempts, auth.stepup_max_attempts
          MaxCodes,     \* bound on the codes mailed
          MaxSessions,  \* bound on the tokens issued
          MaxRulings    \* bound on the admin's calls and the challenges together

ASSUME AccountsAssumption ==
  /\ MaxAttempts \in Nat \ {0} /\ MaxCodes \in Nat /\ MaxSessions \in Nat
  /\ MaxRulings \in Nat
  /\ IsFiniteSet(Requests) /\ Emails # {}
  /\ Registered \in [DOMAIN Registered -> Emails] /\ DOMAIN Registered \subseteq Users
  /\ \A u, v \in DOMAIN Registered : Registered[u] = Registered[v] => u = v

VARIABLES account,    \* [Users -> AccountState]
          email,      \* [Users -> Emails]: users.email
          verified,   \* users with email_verified_at
          sessions,   \* rows of access_tokens
          otps,       \* rows of otp_codes
          challenge,  \* [Challenges -> Challenge]
          req,        \* [Requests -> Request] (volatile)
          suspending, \* the admin's suspension under way
          mailed,     \* codes mailed so far, which numbers them
          issued,     \* tokens issued so far, which numbers them; 0 is from before the run
          rulings,    \* the admin's calls and the challenges so far
          guesses,    \* history: answers compared with each code
          proven,     \* history: addresses whose code was typed in
          beside      \* history: tokens issued during or after a suspension

users == <<account, email, verified>>
records == <<otps, challenge>>
ghosts == <<guesses, proven, beside>>
counters == <<mailed, issued, rulings>>
accountVars == <<users, sessions, records, req, suspending, counters, ghosts>>

Actions == {"change_email", "delete_account"}
Codes == 1..MaxCodes
Sessions == 0..MaxSessions
Live == {"active", "suspended"}

\* A factor holds the address its code went to; its code is 0 until one is sent.
Factor == [target : Emails, code : 0..MaxCodes, attempts : Nat, verified : BOOLEAN]
Fresh(e) == [target |-> e, code |-> 0, attempts |-> 0, verified |-> FALSE]
NoChallenge == [state |-> "none"]
Gone == [state |-> "gone"]
Exists(c) == challenge[c].state \in {"open", "consumed"}
Challenge ==
  {NoChallenge, Gone} \cup [state : {"open", "consumed"}, user : Users, action : Actions,
                      first : Factor, second : Factor]

\* A change of email has two factors, a deletion has one.
Parts(a) == IF a = "change_email" THEN {"first", "second"} ELSE {"first"}
\* Mutant of Pending: the code of the old address is enough.
PendingOld(ch) == {p \in {"first"} : ~ch[p].verified}
Pending(ch) == {p \in Parts(ch.action) : ~ch[p].verified}
NextFactor(ch) == IF "first" \in Pending(ch) THEN "first" ELSE "second"

Otp == [code : Codes, email : Emails, attempts : Nat, consumed : BOOLEAN]
Session == [id : Sessions, user : Users]
Idle == [pc |-> "idle"]
Request ==
  {Idle}
    \cup [pc : {"mail", "find", "signUp"}, email : Emails]
    \cup [pc : {"compare", "consume"}, email : Emails, code : Codes]
    \cup [pc : {"markVerified", "issue"}, user : Users]
    \cup [pc : {"admitted"}, user : Users, email : Emails, session : Sessions]
    \cup [pc : {"answer", "verify"}, user : Users, session : Sessions, ch : Challenges,
          part : {"first", "second"}, code : 0..MaxCodes]
    \cup [pc : {"sendFactor"}, user : Users, session : Sessions, ch : Challenges,
          part : {"first", "second"}]
    \cup [pc : {"reload", "execute", "close"}, user : Users, session : Sessions, ch : Challenges]

NoSuspension == [on |-> FALSE]
AccountsTypeOK ==
  /\ account \in [Users -> {"none", "deleted"} \cup Live]
  /\ email \in [Users -> Emails]
  /\ verified \subseteq Users
  /\ sessions \subseteq Session
  /\ otps \subseteq Otp
  /\ challenge \in [Challenges -> Challenge]
  /\ req \in [Requests -> Request]
  /\ suspending \in {NoSuspension} \cup [on : {TRUE}, user : Users, seen : SUBSET Session]
  /\ mailed \in 0..MaxCodes /\ issued \in 0..MaxSessions /\ rulings \in 0..MaxRulings
  /\ guesses \in [Codes -> Nat]
  /\ proven \subseteq Emails
  /\ beside \subseteq Sessions

AccountsInit ==
  /\ account = [u \in Users |-> IF u \in DOMAIN Registered THEN "active" ELSE "none"]
  /\ email = [u \in Users |-> IF u \in DOMAIN Registered THEN Registered[u]
                             ELSE CHOOSE e \in Emails : TRUE]
  /\ verified = DOMAIN Registered /\ otps = {}
  /\ sessions = {[id |-> 0, user |-> u] : u \in verified}
  /\ challenge = [c \in Challenges |-> NoChallenge]
  /\ req = [w \in Requests |-> Idle]
  /\ suspending = NoSuspension
  /\ mailed = 0 /\ issued = 0 /\ rulings = 0
  /\ guesses = [k \in Codes |-> 0]
  /\ proven = {Registered[u] : u \in verified} /\ beside = {}

Pc(w, pc) == req[w].pc = pc
Become(w, r) == req' = [req EXCEPT ![w] = r]
Give(w) == Become(w, Idle)
Ruling == rulings < MaxRulings /\ rulings' = rulings + 1
Holders(e) == {u \in Users : account[u] \in Live /\ email[u] = e}

\* The process ends, a query fails, or the code or challenge has expired.
Abandon(w) == /\ req[w] # Idle /\ Give(w)
              /\ UNCHANGED <<users, sessions, records, suspending, counters, ghosts>>

----------------------------------------------------------------------------
(* One-time codes *)

\* send: the address's codes are deleted first, the new one created later.
SendOtp(w, e) ==
  /\ Pc(w, "idle")
  /\ otps' = {o \in otps : o.email # e}
  /\ Become(w, [pc |-> "mail", email |-> e])
  /\ UNCHANGED <<users, sessions, challenge, suspending, counters, ghosts>>

CreateOtp(w) ==
  /\ Pc(w, "mail") /\ mailed < MaxCodes
  /\ mailed' = mailed + 1
  /\ otps' = otps \cup {[code |-> mailed + 1, email |-> req[w].email, attempts |-> 0,
                         consumed |-> FALSE]}
  /\ Give(w)
  /\ UNCHANGED <<users, sessions, challenge, suspending, issued, rulings, ghosts>>

\* Mutant of WithinAttempts: off by one.
WithinAttemptsOrAt(attempts) == attempts <= MaxAttempts
WithinAttempts(attempts) == attempts < MaxAttempts

\* verify: the latest code not consumed, while it has attempts left.
LoadOtp(w, e) ==
  LET mine == {o \in otps : o.email = e /\ ~o.consumed}
  IN /\ Pc(w, "idle")
     /\ \E latest \in mine :
          /\ \A o \in mine : latest.code >= o.code
          /\ WithinAttempts(latest.attempts)
          /\ Become(w, [pc |-> "compare", email |-> e, code |-> latest.code])
     /\ UNCHANGED <<users, sessions, records, suspending, counters, ghosts>>

\* The attempt is counted before the answer is compared; a code that a new
\* send has deleted fails the update.
CompareOtp(w) ==
  /\ Pc(w, "compare")
  /\ LET r == req[w]
     IN \E o \in {x \in otps : x.code = r.code} :
          /\ otps' = (otps \ {o}) \cup {[o EXCEPT !.attempts = @ + 1]}
          /\ guesses' = [guesses EXCEPT ![o.code] = @ + 1]
          /\ \/ Give(w) /\ UNCHANGED proven
             \/ Become(w, [r EXCEPT !.pc = "consume"]) /\ proven' = proven \cup {r.email}
  /\ UNCHANGED <<users, sessions, challenge, suspending, counters, beside>>

ConsumeOtp(w) ==
  /\ Pc(w, "consume")
  /\ \E o \in {x \in otps : x.code = req[w].code} :
       otps' = (otps \ {o}) \cup {[o EXCEPT !.consumed = TRUE]}
  /\ Become(w, [pc |-> "find", email |-> req[w].email])
  /\ UNCHANGED <<users, sessions, challenge, suspending, counters, ghosts>>

----------------------------------------------------------------------------
(* Sign-in *)

\* A new id, and no account with the address: the column is unique.
CreateUser(u, e) ==
  /\ account[u] = "none" /\ Holders(e) = {}
  /\ account' = [account EXCEPT ![u] = "active"]
  /\ email' = [email EXCEPT ![u] = e]

\* A suspended account goes no further.
FindUser(w) ==
  /\ Pc(w, "find")
  /\ LET found == Holders(req[w].email)
     IN \/ found = {} /\ Become(w, [req[w] EXCEPT !.pc = "signUp"])
        \/ \E u \in found :
             /\ account[u] = "active"
             /\ Become(w, [pc |-> IF u \in verified THEN "issue" ELSE "markVerified",
                           user |-> u])
        \/ (\E u \in found : account[u] = "suspended") /\ Give(w)
  /\ UNCHANGED <<users, sessions, records, suspending, counters, ghosts>>

SignUp(w, u) ==
  /\ Pc(w, "signUp")
  /\ CreateUser(u, req[w].email)
  /\ Become(w, [pc |-> "markVerified", user |-> u])
  /\ UNCHANGED <<verified, sessions, records, suspending, counters, ghosts>>

MarkVerified(w) ==
  /\ Pc(w, "markVerified") /\ account[req[w].user] \in Live
  /\ verified' = verified \cup {req[w].user}
  /\ Become(w, [req[w] EXCEPT !.pc = "issue"])
  /\ UNCHANGED <<account, email, sessions, records, suspending, counters, ghosts>>

Issue(w) ==
  /\ Pc(w, "issue") /\ issued < MaxSessions
  /\ LET u == req[w].user
     IN /\ account[u] \in Live
        /\ sessions' = sessions \cup {[id |-> issued + 1, user |-> u]}
        /\ issued' = issued + 1
        /\ beside' = IF account[u] = "suspended" \/ (suspending.on /\ suspending.user = u)
                     THEN beside \cup {issued + 1} ELSE beside
  /\ Give(w)
  /\ UNCHANGED <<users, records, suspending, mailed, rulings, guesses, proven>>

\* Guest checkout creates the account and leaves its address unverified.
GuestCheckout(u, e) ==
  /\ CreateUser(u, e)
  /\ UNCHANGED <<verified, sessions, records, req, suspending, counters, ghosts>>

----------------------------------------------------------------------------
(* The guard and the step-up challenges *)

\* The handler keeps the user as the guard loaded it.
Admit(w, s) ==
  /\ Pc(w, "idle") /\ s \in sessions /\ account[s.user] = "active"
  /\ Become(w, [pc |-> "admitted", user |-> s.user, email |-> email[s.user], session |-> s.id])
  /\ UNCHANGED <<users, sessions, records, suspending, counters, ghosts>>

Logout(w) ==
  /\ Pc(w, "admitted")
  /\ sessions' = sessions \ {[id |-> req[w].session, user |-> req[w].user]}
  /\ Give(w)
  /\ UNCHANGED <<users, records, suspending, counters, ghosts>>

Valid(w, a, new) == a = "change_email" => new # req[w].email /\ Holders(new) = {}

\* create: the challenge with its factors, then the first code is sent.
CreateChallenge(w, c, a, new) ==
  LET r == req[w]
  IN /\ Pc(w, "admitted") /\ challenge[c] = NoChallenge
     /\ Valid(w, a, new) /\ account[r.user] \in Live
     /\ challenge' = [challenge EXCEPT ![c] =
          [state |-> "open", user |-> r.user, action |-> a,
           first |-> Fresh(r.email),
           second |-> Fresh(IF a = "change_email" THEN new ELSE r.email)]]
     /\ Ruling
     /\ Become(w, [pc |-> "sendFactor", user |-> r.user, session |-> r.session, ch |-> c,
                   part |-> "first"])
     /\ UNCHANGED <<users, sessions, otps, suspending, mailed, issued, ghosts>>

SetFactor(c, p, f) == challenge' = [challenge EXCEPT ![c][p] = f]

\* A new code resets the attempts.
SendFactor(w) ==
  LET r == req[w]
  IN /\ Pc(w, "sendFactor") /\ mailed < MaxCodes
     /\ Exists(r.ch)
     /\ mailed' = mailed + 1
     /\ SetFactor(r.ch, r.part,
          [challenge[r.ch][r.part] EXCEPT !.code = mailed + 1, !.attempts = 0])
     /\ Give(w)
     /\ UNCHANGED <<users, sessions, otps, suspending, issued, rulings, ghosts>>

\* The challenge is owned and open; the factor is the next one.
Loadable(w, c) ==
  /\ Pc(w, "admitted")
  /\ challenge[c].state = "open" /\ challenge[c].user = req[w].user
  /\ Pending(challenge[c]) # {}

LoadFactor(w, c) ==
  LET p == NextFactor(challenge[c])
  IN /\ Loadable(w, c)
     /\ WithinAttempts(challenge[c][p].attempts)
     /\ Become(w, [pc |-> "answer", user |-> req[w].user, session |-> req[w].session,
                   ch |-> c, part |-> p, code |-> challenge[c][p].code])
     /\ UNCHANGED <<users, sessions, records, suspending, counters, ghosts>>

Resend(w, c) ==
  /\ Loadable(w, c)
  /\ Become(w, [pc |-> "sendFactor", user |-> req[w].user, session |-> req[w].session,
                ch |-> c, part |-> NextFactor(challenge[c])])
  /\ UNCHANGED <<users, sessions, records, suspending, counters, ghosts>>

\* The answer is compared with the code as it was loaded.
AnswerFactor(w) ==
  LET r == req[w]
  IN /\ Pc(w, "answer") /\ Exists(r.ch)
     /\ SetFactor(r.ch, r.part, [challenge[r.ch][r.part] EXCEPT !.attempts = @ + 1])
     /\ guesses' = IF r.code = 0 THEN guesses ELSE [guesses EXCEPT ![r.code] = @ + 1]
     /\ \/ Give(w) /\ UNCHANGED proven
        \/ /\ r.code # 0 /\ Become(w, [r EXCEPT !.pc = "verify"])
           /\ proven' = proven \cup {challenge[r.ch][r.part].target}
     /\ UNCHANGED <<users, sessions, otps, suspending, counters, beside>>

VerifyFactor(w) ==
  LET r == req[w]
  IN /\ Pc(w, "verify") /\ Exists(r.ch)
     /\ SetFactor(r.ch, r.part, [challenge[r.ch][r.part] EXCEPT !.verified = TRUE])
     /\ Become(w, [pc |-> "reload", user |-> r.user, session |-> r.session, ch |-> r.ch])
     /\ UNCHANGED <<users, sessions, otps, suspending, counters, ghosts>>

\* Another factor follows, or the action is executed.
Reload(w) ==
  LET r == req[w]
  IN /\ Pc(w, "reload") /\ Exists(r.ch)
     /\ Become(w, IF Pending(challenge[r.ch]) = {} THEN [r EXCEPT !.pc = "execute"]
                  ELSE [pc |-> "sendFactor", user |-> r.user, session |-> r.session,
                        ch |-> r.ch, part |-> NextFactor(challenge[r.ch])])
     /\ UNCHANGED <<users, sessions, records, suspending, counters, ghosts>>

\* Applies the new address and revokes every other session.  The request
\* holds the challenge since it reloaded it, whatever became of the row.
ChangeEmail(w, c, new) ==
  LET u == req[w].user
  IN /\ Pc(w, "execute") /\ req[w].ch = c
     /\ Exists(c)
     /\ challenge[c].action = "change_email" /\ new = challenge[c].second.target
     /\ account[u] \in Live /\ Holders(new) \subseteq {u}
     /\ email' = [email EXCEPT ![u] = new]
     /\ verified' = verified \cup {u}
     /\ sessions' = {s \in sessions : s.user = u => s.id = req[w].session}
     /\ Become(w, [req[w] EXCEPT !.pc = "close"])
     /\ UNCHANGED <<account, records, suspending, counters, ghosts>>

\* The deletion takes the sessions and the challenges with it.
DeleteAccount(w) ==
  LET u == req[w].user
  IN /\ Pc(w, "execute") /\ Exists(req[w].ch)
     /\ challenge[req[w].ch].action = "delete_account"
     /\ account[u] \in Live
     /\ account' = [account EXCEPT ![u] = "deleted"]
     /\ verified' = verified \ {u}
     /\ sessions' = {s \in sessions : s.user # u}
     /\ challenge' = [c \in Challenges |->
          IF Exists(c) /\ challenge[c].user = u THEN Gone ELSE challenge[c]]
     /\ Become(w, [req[w] EXCEPT !.pc = "close"])
     /\ UNCHANGED <<email, otps, suspending, counters, ghosts>>

Close(w) ==
  LET c == req[w].ch
  IN /\ Pc(w, "close")
     /\ challenge' = IF Exists(c) THEN [challenge EXCEPT ![c].state = "consumed"]
                     ELSE challenge
     /\ Give(w)
     /\ UNCHANGED <<users, sessions, otps, suspending, counters, ghosts>>

----------------------------------------------------------------------------
(* The admin *)

\* suspend deletes the sessions it sees and marks the account at the commit:
\* a token inserted in between stays.
BeginSuspend(u) ==
  /\ Ruling /\ ~suspending.on /\ account[u] \in Live
  /\ suspending' = [on |-> TRUE, user |-> u, seen |-> {s \in sessions : s.user = u}]
  /\ UNCHANGED <<users, sessions, records, req, mailed, issued, ghosts>>

\* Mutant of CommitSuspend: the sessions stay.
CommitSuspendOnly ==
  /\ suspending.on
  /\ account' = [account EXCEPT ![suspending.user] = IF @ \in Live THEN "suspended" ELSE @]
  /\ suspending' = NoSuspension
  /\ UNCHANGED <<email, verified, sessions, records, req, counters, ghosts>>
CommitSuspend ==
  /\ suspending.on
  /\ sessions' = sessions \ suspending.seen
  /\ account' = [account EXCEPT ![suspending.user] = IF @ \in Live THEN "suspended" ELSE @]
  /\ suspending' = NoSuspension
  /\ UNCHANGED <<email, verified, records, req, counters, ghosts>>

Unsuspend(u) ==
  /\ account[u] = "suspended"
  /\ account' = [account EXCEPT ![u] = "active"]
  /\ UNCHANGED <<email, verified, sessions, records, req, suspending, counters, ghosts>>

RevokeSessions(u) ==
  /\ Ruling /\ account[u] \in Live
  /\ sessions' = {s \in sessions : s.user # u}
  /\ UNCHANGED <<users, records, req, suspending, mailed, issued, ghosts>>

----------------------------------------------------------------------------
(* The routes *)

AuthController ==
  \/ \E w \in Requests, e \in Emails : SendOtp(w, e) \/ LoadOtp(w, e)
  \/ \E w \in Requests, u \in Users : SignUp(w, u)
  \/ \E w \in Requests :
       CreateOtp(w) \/ CompareOtp(w) \/ ConsumeOtp(w) \/ FindUser(w) \/ MarkVerified(w)
         \/ Issue(w) \/ Logout(w)

StepUpController ==
  \E w \in Requests :
    \/ \E c \in Challenges :
         \/ LoadFactor(w, c) \/ Resend(w, c)
         \/ \E a \in Actions, e \in Emails : CreateChallenge(w, c, a, e)
         \/ \E e \in Emails : ChangeEmail(w, c, e)
    \/ SendFactor(w) \/ AnswerFactor(w) \/ VerifyFactor(w) \/ Reload(w)
    \/ DeleteAccount(w) \/ Close(w)

AdminUsersController ==
  \/ CommitSuspend
  \/ \E u \in Users : BeginSuspend(u) \/ Unsuspend(u) \/ RevokeSessions(u)

AccountsNext ==
  \/ AuthController \/ StepUpController \/ AdminUsersController
  \/ \E u \in Users, e \in Emails : GuestCheckout(u, e)
  \/ \E s \in sessions, w \in Requests : Admit(w, s)
  \/ \E w \in Requests : Abandon(w)

AccountsSpec == AccountsInit /\ [][AccountsNext]_accountVars

----------------------------------------------------------------------------
(* Properties *)

\* A verified account shows an address that answered a code: sign-in marks it
\* after the code, a change of email after the codes of both addresses, and
\* an account found by one request is not given another address by the next.
VerifiedIsProven ==
  \A u \in verified : account[u] \in Live => email[u] \in proven

\* A suspension ends the sessions there were: what is left was issued by a
\* sign-in that had passed the check before.
SuspendedSessionsExplained ==
  \A s \in sessions : account[s.user] = "suspended" => s.id \in beside

\* A code is compared at most once more than allowed for each further
\* request: the attempts are read in one step and counted in another.
GuessesBounded ==
  \A k \in Codes : guesses[k] <= MaxAttempts + Cardinality(Requests) - 1
=============================================================================
