--------------------------- MODULE PayoutAccounts ---------------------------
(***************************************************************************)
(* The bank account of one organisation and what its payouts take from it: *)
(* PayoutAccountsService, BankResolverService and the waiting times of     *)
(* PayoutRules.                                                            *)
(*                                                                         *)
(* An account is edited only while no payout is in flight, and a payout is *)
(* requested only some time after an edit; both are checked first and      *)
(* acted on later.  A payout keeps a copy of the details it was requested  *)
(* for, and is sent to the recipient of the account its row still points   *)
(* to.  The balance, reviews and references are the subject of Payouts:    *)
(* here a payout waits, is sent, and is paid or fails.                     *)
(***************************************************************************)
EXTENDS Integers, Sequences, FiniteSets, FiniteSetsExt

CONSTANTS Banks,       \* bank accounts one may enter
          Clerks,      \* requests running at the same time
          MaxPayouts,  \* bound on the payouts of a run
          Cooldown,    \* payouts.account_change_cooldown_hours
          BackoffBase, \* payouts.failure_backoff_base_minutes, in the same unit
          BackoffMax,  \* payouts.failure_backoff_max_minutes
          Recent,      \* payouts that backoffUntil looks at
          LastHour,    \* bound on the clock
          MaxErrands   \* bound on the requests

ASSUME PayoutAccountsAssumption ==
  /\ MaxPayouts \in Nat /\ LastHour \in Nat /\ MaxErrands \in Nat
  /\ Cooldown \in Nat /\ BackoffBase \in Nat \ {0} /\ BackoffMax \in Nat
  /\ Recent \in Nat \ {0}
\* NoBank is no bank account.
ASSUME NoBankAssumption == "none" \notin Banks

VARIABLES account,   \* [id, bank, changed]: the row; id 0 for none, changed Never for null
          payout,    \* the payouts in the order they were requested
          hour,      \* the clock
          clerk,     \* [Clerks -> Counter] (volatile)
          errands,   \* requests so far
          accountNo, \* history: account rows ever written
          moved,     \* history: when the details last became others than before
          renewed,   \* history: they were entered again after a deletion, or by two at once
          crossed,   \* history: payouts requested while the account was edited, or sent twice
          hurried    \* history: payouts requested beside another's request or transfer, or sent twice

accountRows == <<account, payout>>
accountHistory == <<accountNo, moved, renewed, crossed, hurried>>
payoutAccountVars == <<accountRows, hour, clerk, errands, accountHistory>>

Never == -1
NoBank == "none"
NoAccount == [id |-> 0, bank |-> NoBank, changed |-> Never]
Idle == [pc |-> "free"]
Seqs == 1..MaxPayouts
AnyBank == Banks \cup {NoBank}

\* paid covers what ends well; link is 0 when the account's row was deleted.
PayoutRow ==
  [state : {"waiting", "processing", "paid", "failed"}, link : Nat, bank : Banks,
   failedAt : -1..LastHour, requestedAt : 0..LastHour, sentTo : AnyBank]
Counter ==
  {Idle}
    \cup [pc : {"look", "delete"}, bank : AnyBank]
    \cup [pc : {"resolve"}, bank : Banks, existing : AnyBank]
    \cup [pc : {"write"}, bank : Banks, existing : AnyBank]
    \cup [pc : {"backoff", "lock", "insert"}, id : Nat, bank : Banks, late : BOOLEAN]
    \cup [pc : {"load"}, payout : Seqs]
    \cup [pc : {"send"}, payout : Seqs, bank : AnyBank]

PayoutAccountsTypeOK ==
  /\ account \in [id : 0..accountNo, bank : AnyBank, changed : -1..LastHour]
  /\ account.id = 0 <=> account = NoAccount
  /\ payout \in Seq(PayoutRow) /\ Len(payout) <= MaxPayouts
  /\ hour \in 0..LastHour /\ clerk \in [Clerks -> Counter]
  /\ errands \in 0..MaxErrands /\ accountNo \in Nat /\ moved \in -1..LastHour
  /\ renewed \in BOOLEAN /\ crossed \subseteq Seqs /\ hurried \subseteq Seqs

PayoutAccountsInit ==
  /\ account = NoAccount /\ payout = <<>> /\ hour = 0
  /\ clerk = [c \in Clerks |-> Idle] /\ errands = 0
  /\ accountNo = 0 /\ moved = Never /\ renewed = FALSE
  /\ crossed = {} /\ hurried = {}

Doing(c, pc) == clerk[c].pc = pc
Goes(c, e) == clerk' = [clerk EXCEPT ![c] = e]
Starts == errands < MaxErrands /\ errands' = errands + 1

InFlight == {n \in DOMAIN payout : payout[n].state \in {"waiting", "processing"}}
Editing == {c \in Clerks : clerk[c].pc \in {"look", "resolve", "write", "delete"}}
Requesting == {c \in Clerks : clerk[c].pc \in {"backoff", "lock", "insert"}}

----------------------------------------------------------------------------
(* PUT and DELETE payout-account *)

\* Mutant of Editable: a payout that waits for its review is forgotten.
EditableWhileWaiting == \A n \in DOMAIN payout : payout[n].state # "processing"
\* ensureAccountEditable
Editable == InFlight = {}

\* Whoever edits the account now may still do so when these are sent.
AskEdit(c, pc, bank) ==
  /\ Doing(c, "free") /\ Starts /\ Editable
  /\ Goes(c, [pc |-> pc, bank |-> bank])
  /\ UNCHANGED <<accountRows, hour, accountNo, moved, renewed, crossed, hurried>>
AskUpsert(c, bank) == AskEdit(c, "look", bank)
AskDelete(c) == AskEdit(c, "delete", NoBank)

\* What the account says now is compared with the new details later on.
ReadExisting(c) ==
  /\ Doing(c, "look")
  /\ Goes(c, [pc |-> "resolve", bank |-> clerk[c].bank, existing |-> account.bank])
  /\ UNCHANGED <<accountRows, hour, errands, accountHistory>>

\* The bank knows the account, and the provider makes it a recipient, or not.
Resolve(c) ==
  /\ Doing(c, "resolve")
  /\ Goes(c, [clerk[c] EXCEPT !.pc = "write"]) \/ Goes(c, Idle)
  /\ UNCHANGED <<accountRows, hour, errands, accountHistory>>

\* An upsert: the time of a change is set when the row was there and said
\* something else; a row written anew has none.
WriteAccount(c) ==
  LET e == clerk[c]
      changed == e.existing # NoBank /\ e.existing # e.bank
  IN /\ Doing(c, "write")
     /\ clerk' = [d \in Clerks |->
           IF d = c THEN Idle
           ELSE IF d \in Requesting THEN [clerk[d] EXCEPT !.late = TRUE] ELSE clerk[d]]
     /\ IF account.id # 0
        THEN /\ account' = [account EXCEPT !.bank = e.bank,
                                           !.changed = IF changed THEN hour ELSE @]
             /\ UNCHANGED accountNo
        ELSE /\ account' = [id |-> accountNo + 1, bank |-> e.bank, changed |-> Never]
             /\ accountNo' = accountNo + 1
     /\ IF e.bank = account.bank \/ accountNo = 0 THEN UNCHANGED <<moved, renewed>>
        ELSE moved' = hour /\ renewed' = (account.id = 0 \/ e.existing # account.bank)
     /\ UNCHANGED <<payout, hour, errands, crossed, hurried>>

\* The payouts keep their copy and lose their link.
DeleteAccount(c) ==
  /\ Doing(c, "delete") /\ Goes(c, Idle)
  /\ account' = NoAccount
  /\ payout' = [n \in DOMAIN payout |->
                  IF payout[n].link = account.id THEN [payout[n] EXCEPT !.link = 0]
                  ELSE payout[n]]
  /\ UNCHANGED <<hour, errands, accountHistory>>

----------------------------------------------------------------------------
(* POST payouts *)

\* pausedUntil: some time after a change, unless there was none.
Paused(a) == a.changed # Never /\ hour < a.changed + Cooldown

AskPayout(c) ==
  /\ Doing(c, "free") /\ Starts
  /\ account.id # 0 /\ ~Paused(account)
  /\ Goes(c, [pc |-> "backoff", id |-> account.id, bank |-> account.bank, late |-> FALSE])
  /\ UNCHANGED <<accountRows, hour, accountHistory>>

\* The failures at the end of the list, and how long one waits after so many,
\* of which only the recent ones are looked at.
Consecutive ==
  LET good == {n \in DOMAIN payout : payout[n].state # "failed"}
  IN Len(payout) - Max({0} \cup good)
Doubled[n \in Nat] == IF n = 0 THEN 1 ELSE 2 * Doubled[n - 1]
Waits == [n \in Nat \ {0} |-> Min({BackoffBase * Doubled[Min({n, Recent}) - 1], BackoffMax})]

\* backoffUntil
BackingOff ==
  Consecutive > 0 /\ hour < payout[Len(payout)].failedAt + Waits[Consecutive]

CheckBackoff(c) ==
  /\ Doing(c, "backoff")
  /\ Goes(c, IF BackingOff THEN Idle ELSE [clerk[c] EXCEPT !.pc = "lock"])
  /\ hurried' = IF InFlight = {} THEN hurried ELSE hurried \cup ({Len(payout) + 1} \cap Seqs)
  /\ UNCHANGED <<accountRows, hour, errands, accountNo, moved, renewed, crossed>>

\* The transaction looks for payouts in flight; locking none locks nothing.
LockInFlight(c) ==
  /\ Doing(c, "lock")
  /\ Goes(c, IF InFlight = {} THEN [clerk[c] EXCEPT !.pc = "insert"] ELSE Idle)
  /\ UNCHANGED <<accountRows, hour, errands, accountHistory>>

\* The row points to the account that was read, which must still be there.  A
\* payout that needs no review is sent at once.
InsertPayout(c) ==
  LET e == clerk[c]
      n == Len(payout) + 1
  IN /\ Doing(c, "insert")
     /\ IF e.id = account.id /\ n \in Seqs
        THEN /\ payout' = Append(payout,
                  [state |-> "waiting", link |-> e.id, bank |-> e.bank, failedAt |-> -1,
                   requestedAt |-> hour, sentTo |-> NoBank])
             /\ Goes(c, Idle) \/ Goes(c, [pc |-> "load", payout |-> n])
        ELSE Goes(c, Idle) /\ UNCHANGED payout
     /\ crossed' = IF Editing = {} /\ ~e.late THEN crossed ELSE crossed \cup ({n} \cap Seqs)
     /\ hurried' = IF Requesting = {c} THEN hurried ELSE hurried \cup ({n, n + 1} \cap Seqs)
     /\ UNCHANGED <<account, hour, errands, accountNo, moved, renewed>>

----------------------------------------------------------------------------
(* PayoutProcessingService, as far as the account goes *)

\* An approval, the sweep or an admin's retry begin as the request goes on.
AskSend(c, n) ==
  /\ Doing(c, "free") /\ Starts /\ n \in DOMAIN payout
  /\ payout[n].state \in {"waiting", "failed"}
  /\ Goes(c, [pc |-> "load", payout |-> n])
  /\ LET again == payout[n].state = "failed"
         twice == \E d \in Clerks : clerk[d].pc \in {"load", "send"} /\ clerk[d].payout = n
         those == IF again \/ twice THEN {n} ELSE {}
     IN crossed' = crossed \cup those /\ hurried' = hurried \cup those
  /\ UNCHANGED <<accountRows, hour, accountNo, moved, renewed>>

\* The row is read with its account.
LoadDestination(c) ==
  LET n == clerk[c].payout
  IN /\ Doing(c, "load")
     /\ Goes(c, [pc |-> "send", payout |-> n,
                 bank |-> IF payout[n].link = 0 THEN NoBank ELSE account.bank])
     /\ UNCHANGED <<accountRows, hour, errands, accountHistory>>

\* The provider takes the transfer; without a recipient it is not even asked.
SendTransfer(c) ==
  LET n == clerk[c].payout
  IN /\ Doing(c, "send") /\ Goes(c, Idle)
     /\ \/ /\ clerk[c].bank # NoBank
           /\ payout' = [payout EXCEPT ![n].state = "processing", ![n].failedAt = -1,
                                       ![n].sentTo = clerk[c].bank]
        \/ payout' = [payout EXCEPT ![n].state = "failed", ![n].failedAt = hour]
     /\ UNCHANGED <<account, hour, errands, accountHistory>>

Settle(n) ==
  /\ n \in DOMAIN payout /\ payout[n].state = "processing"
  /\ \/ payout' = [payout EXCEPT ![n].state = "paid"]
     \/ payout' = [payout EXCEPT ![n].state = "failed", ![n].failedAt = hour]
  /\ UNCHANGED <<account, hour, clerk, errands, accountHistory>>

TimePasses ==
  /\ hour < LastHour /\ hour' = hour + 1
  /\ UNCHANGED <<accountRows, clerk, errands, accountHistory>>

----------------------------------------------------------------------------

OrganizerPayoutsController(c) ==
  AskDelete(c) \/ AskPayout(c) \/ \E b \in Banks : AskUpsert(c, b)

PayoutAccountsNext ==
  \/ \E c \in Clerks :
       \/ OrganizerPayoutsController(c)
       \/ ReadExisting(c) \/ Resolve(c) \/ WriteAccount(c) \/ DeleteAccount(c)
       \/ CheckBackoff(c) \/ LockInFlight(c) \/ InsertPayout(c)
       \/ LoadDestination(c) \/ SendTransfer(c) \/ \E n \in Seqs : AskSend(c, n)
  \/ \E n \in Seqs : Settle(n)
  \/ TimePasses

PayoutAccountsSpec == PayoutAccountsInit /\ [][PayoutAccountsNext]_payoutAccountVars

----------------------------------------------------------------------------
(* Properties *)

\* A payout goes to the bank account its row names, unless the account was
\* being edited when it was requested or it was sent twice, as after a failure.
\* (ensureAccountEditable, initiate)
SentAsShown ==
  \A n \in DOMAIN payout \ crossed : payout[n].sentTo \in {NoBank, payout[n].bank}

\* No payout is inserted sooner than the cooldown after the details became
\* others, unless it was asked for before that, or they were entered again
\* after a deletion or by two requests at once.  (ensureAccountSettled)
SettledFirst ==
  \A c \in Requesting :
    moved # Never /\ ~renewed /\ ~clerk[c].late => hour >= moved + Cooldown

\* Payouts that fail one after the other are requested at growing distance,
\* unless two were requested at once, one while the last was still in flight,
\* or one was sent twice.
\* (backoffUntil, ensureNotBackingOff)
FailuresSpaced ==
  \A n, m \in DOMAIN payout \ hurried :
    /\ n < m
    /\ \A k \in n..(m - 1) : payout[k].state = "failed" /\ k \notin hurried
    => payout[m].requestedAt - payout[n].requestedAt >=
         MapThenSumSet(LAMBDA k : Waits[k], 1..(m - n))

\* An account is edited beside no payout and rested before the next, and what
\* fails is not hammered, but for these exceptions.
PayoutAccountsExplained == SentAsShown /\ SettledFirst /\ FailuresSpaced
=============================================================================
