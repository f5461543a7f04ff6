----------------------------- MODULE Transfers -----------------------------
(***************************************************************************)
(* Issued tickets of one type changing hands: transfers between holders,   *)
(* the admin's transfer, the gate, revocation and reissue, and the holds   *)
(* and orders that give their buyer more of the same type.                 *)
(*                                                                         *)
(* A holder's transfer locks the ticket and counts what the recipient has  *)
(* under that lock only; the admin's requests act on the ticket their      *)
(* controller loaded.                                                      *)
(***************************************************************************)
EXTENDS Integers, FiniteSets

CONSTANTS Seats,     \* issued ticket ids a run may create
          Patrons,   \* accounts
          Desks,     \* requests running at the same time
          Cap,       \* max_per_user of the ticket type
          MaxMotions \* bound on the requests

ASSUME TransfersAssumption == Cap \in Nat /\ MaxMotions \in Nat

VARIABLES seatStatus, \* [Seats -> SeatStatus]: issued_tickets.status
          holder,     \* [Seats -> Patrons \cup {Nobody}]: holder_user_id
          code,       \* [Seats -> Nat]: which of its codes a ticket has
          held,       \* [Patrons -> Nat]: live checkout holds
          enabled,    \* tickets.transfers_enabled
          barred,     \* suspended accounts
          blocked,    \* pairs of which one blocks the other
          desk,       \* [Desks -> Errand] (volatile)
          motions,    \* requests so far
          door,       \* history: [Seats -> Patrons \cup {Nobody}], who was admitted
          swamped,    \* history: people whose cap was overrun beside its check
          overtaken   \* history: seats an admin's request changed on stale news

transferVars == <<seatStatus, holder, code, held, enabled, barred, blocked, desk, motions,
                  door, swamped, overtaken>>
ticketRow == <<seatStatus, holder, code>>
house == <<enabled, barred, blocked>>

Nobody == "nobody"
SeatStatus == {"none", "valid", "scanned", "revoked"}
Owned(p) == {s \in Seats : holder[s] = p /\ seatStatus[s] \in {"valid", "scanned"}}

Unused == [pc |-> "free"]
Errand ==
  {Unused}
    \cup [pc : {"checked", "moving"}, seat : Seats, from : Patrons, to : Patrons]
    \cup [pc : {"give"}, seat : Seats, to : Patrons]
    \cup [pc : {"revoke", "reissue"}, seat : Seats]

TransfersTypeOK ==
  /\ seatStatus \in [Seats -> SeatStatus]
  /\ holder \in [Seats -> Patrons \cup {Nobody}]
  /\ code \in [Seats -> Nat] /\ held \in [Patrons -> Nat]
  /\ enabled \in BOOLEAN
  /\ barred \subseteq Patrons /\ blocked \subseteq SUBSET Patrons
  /\ desk \in [Desks -> Errand] /\ motions \in 0..MaxMotions
  /\ door \in [Seats -> Patrons \cup {Nobody}]
  /\ swamped \subseteq Patrons /\ overtaken \subseteq Seats

TransfersInit ==
  /\ seatStatus = [s \in Seats |-> "none"]
  /\ holder = [s \in Seats |-> Nobody] /\ door = [s \in Seats |-> Nobody]
  /\ code = [s \in Seats |-> 0] /\ held = [p \in Patrons |-> 0]
  /\ enabled = TRUE /\ barred = {} /\ blocked = {}
  /\ desk = [d \in Desks |-> Unused] /\ motions = 0
  /\ swamped = {} /\ overtaken = {}

AtDesk(d, pc) == desk[d].pc = pc
Proceed(d, j) == desk' = [desk EXCEPT ![d] = j]
Finish(d) == Proceed(d, Unused)
Motion == motions < MaxMotions /\ motions' = motions + 1
Approach(d) == Motion /\ AtDesk(d, "free")

\* The row lock, from the check of a transfer to its commit.
Locked(s) == \E d \in Desks : AtDesk(d, "moving") /\ desk[d].seat = s
\* Somebody else's transfer to p has counted and not committed.
Expected(p) == \E d \in Desks : AtDesk(d, "moving") /\ desk[d].to = p
Overrun(p, cond) == swamped' = IF cond THEN swamped \cup {p} ELSE swamped

----------------------------------------------------------------------------
(* Checkout, as far as the cap sees it *)

\* ensureBuyable counts the tickets held and the live holds.
Hold(p) ==
  /\ Motion /\ p \notin barred
  /\ Cardinality(Owned(p)) + held[p] + 1 <= Cap
  /\ held' = [held EXCEPT ![p] = @ + 1]
  /\ Overrun(p, Expected(p))
  /\ UNCHANGED <<ticketRow, house, desk, door, overtaken>>

Issue(p, s) ==
  /\ held[p] > 0 /\ seatStatus[s] = "none"
  /\ held' = [held EXCEPT ![p] = @ - 1]
  /\ seatStatus' = [seatStatus EXCEPT ![s] = "valid"]
  /\ holder' = [holder EXCEPT ![s] = p]
  /\ UNCHANGED <<code, house, desk, motions, door, swamped, overtaken>>

Lapse(p) ==
  /\ held[p] > 0 /\ held' = [held EXCEPT ![p] = @ - 1]
  /\ UNCHANGED <<ticketRow, house, desk, motions, door, swamped, overtaken>>

----------------------------------------------------------------------------
(* TicketTransferService *)

\* ensureEnabled and ensureRecipient, before the transaction.
EnsureRecipient(p, q) ==
  /\ q \notin barred /\ q # p /\ {p, q} \notin blocked

Ensure(d, s, p, q) ==
  /\ Approach(d) /\ enabled /\ p \notin barred
  /\ EnsureRecipient(p, q)
  /\ Proceed(d, [pc |-> "checked", seat |-> s, from |-> p, to |-> q])
  /\ UNCHANGED <<ticketRow, held, house, door, swamped, overtaken>>

\* Mutant of UnderCap: the ticket on its way is not counted.
UnderCapWithout(q) == Cardinality(Owned(q)) <= Cap
\* ensureRecipientUnderCap counts committed tickets and no holds.
UnderCap(q) == Cardinality(Owned(q)) + 1 <= Cap

\* Under the ticket's lock: the sender holds it, it is neither scanned nor
\* revoked, and the recipient may have one more.
LockAndCheck(d) ==
  LET j == desk[d]
  IN /\ AtDesk(d, "checked") /\ ~Locked(j.seat)
     /\ holder[j.seat] = j.from /\ seatStatus[j.seat] = "valid"
     /\ UnderCap(j.to)
     /\ Overrun(j.to, held[j.to] > 0 \/ Expected(j.to))
     /\ Proceed(d, [j EXCEPT !.pc = "moving"])
     /\ UNCHANGED <<ticketRow, held, house, motions, door, overtaken>>

Refuse(d) ==
  LET j == desk[d]
  IN /\ AtDesk(d, "checked") /\ ~Locked(j.seat)
     /\ \/ holder[j.seat] # j.from \/ seatStatus[j.seat] # "valid" \/ ~UnderCap(j.to)
     /\ Finish(d)
     /\ UNCHANGED <<ticketRow, held, house, motions, door, swamped, overtaken>>

\* The new holder gets a new code.
Transfer(d) ==
  LET j == desk[d]
  IN /\ AtDesk(d, "moving")
     /\ holder' = [holder EXCEPT ![j.seat] = j.to]
     /\ code' = [code EXCEPT ![j.seat] = @ + 1]
     /\ Finish(d)
     /\ UNCHANGED <<seatStatus, held, house, motions, door, swamped, overtaken>>

----------------------------------------------------------------------------
(* The gate and the organiser *)

\* c is the code on the holder's screen: an old one finds no ticket.
ScanByCode(s, c) ==
  /\ ~Locked(s) /\ c = code[s] /\ seatStatus[s] = "valid"
  /\ seatStatus' = [seatStatus EXCEPT ![s] = "scanned"]
  /\ door' = [door EXCEPT ![s] = holder[s]]
  /\ UNCHANGED <<holder, code, held, house, desk, motions, swamped, overtaken>>

RevokeSeat(s) ==
  /\ ~Locked(s) /\ seatStatus[s] \in {"valid", "scanned"}
  /\ seatStatus' = [seatStatus EXCEPT ![s] = "revoked"]
  /\ UNCHANGED <<holder, code>>

OrganizerRevoke(s) ==
  /\ Motion /\ RevokeSeat(s)
  /\ door' = [door EXCEPT ![s] = Nobody]
  /\ UNCHANGED <<held, house, desk, swamped, overtaken>>

----------------------------------------------------------------------------
(* The admin: the ticket is loaded, checked, and changed by its id *)

Admin(d, j, allowed) ==
  /\ Approach(d) /\ seatStatus[j.seat] \in allowed
  /\ Proceed(d, j)
  /\ UNCHANGED <<ticketRow, held, house, door, swamped, overtaken>>

AdminRevoke(d, s) == Admin(d, [pc |-> "revoke", seat |-> s], {"valid", "revoked"})
AdminTransfer(d, s, q) ==
  Admin(d, [pc |-> "give", seat |-> s, to |-> q], {"valid", "revoked"})
AdminReissue(d, s) == Admin(d, [pc |-> "reissue", seat |-> s], SeatStatus \ {"none"})

\* The kernel frees a scanned seat as well.
CommitRevoke(d) ==
  LET s == desk[d].seat
  IN /\ AtDesk(d, "revoke") /\ RevokeSeat(s) /\ Finish(d)
     /\ overtaken' = IF seatStatus[s] = "scanned" THEN overtaken \cup {s} ELSE overtaken
     /\ UNCHANGED <<held, house, motions, door, swamped>>

\* Neither a new code nor a look at the cap.
CommitGive(d) ==
  LET s == desk[d].seat  q == desk[d].to
  IN /\ AtDesk(d, "give") /\ ~Locked(s)
     /\ holder' = [holder EXCEPT ![s] = q]
     /\ overtaken' = IF seatStatus[s] = "scanned" THEN overtaken \cup {s} ELSE overtaken
     /\ Overrun(q, TRUE) /\ Finish(d)
     /\ UNCHANGED <<seatStatus, code, held, house, motions, door>>

\* reissue: a valid ticket with a new code, whatever its holder has by now.
CommitReissue(d) ==
  LET s == desk[d].seat
  IN /\ AtDesk(d, "reissue") /\ ~Locked(s) /\ seatStatus[s] = "revoked"
     /\ seatStatus' = [seatStatus EXCEPT ![s] = "valid"]
     /\ code' = [code EXCEPT ![s] = @ + 1]
     /\ Overrun(holder[s], TRUE) /\ Finish(d)
     /\ UNCHANGED <<holder, held, house, motions, door, overtaken>>

\* The request ends here: refused by the kernel, or the process dies.
Withdraw(d) ==
  /\ desk[d] # Unused /\ Finish(d)
  /\ UNCHANGED <<ticketRow, held, house, motions, door, swamped, overtaken>>

----------------------------------------------------------------------------
(* What the checks before the transaction read *)

Toggle ==
  /\ Motion /\ enabled' = ~enabled
  /\ UNCHANGED <<ticketRow, held, barred, blocked, desk, door, swamped, overtaken>>

SuspendHolder(p) ==
  /\ Motion /\ barred' = barred \cup {p}
  /\ UNCHANGED <<ticketRow, held, enabled, blocked, desk, door, swamped, overtaken>>

BlockPair(p, q) ==
  /\ Motion /\ p # q /\ blocked' = blocked \cup {{p, q}}
  /\ UNCHANGED <<ticketRow, held, enabled, barred, desk, door, swamped, overtaken>>

----------------------------------------------------------------------------
(* The routes *)

TicketTransfersController ==
  \E d \in Desks : \/ LockAndCheck(d) \/ Refuse(d) \/ Transfer(d)
                   \/ \E s \in Seats, p, q \in Patrons : Ensure(d, s, p, q)

IssuedTicketsController ==
  \E s \in Seats : OrganizerRevoke(s) \/ \E c \in 0..code[s] : ScanByCode(s, c)

AdminIssuedTicketsController ==
  \E d \in Desks :
    \/ CommitRevoke(d) \/ CommitGive(d) \/ CommitReissue(d)
    \/ \E s \in Seats : \/ AdminRevoke(d, s) \/ AdminReissue(d, s)
                        \/ \E q \in Patrons : AdminTransfer(d, s, q)

TransfersNext ==
  \/ TicketTransfersController \/ IssuedTicketsController \/ AdminIssuedTicketsController
  \/ \E p \in Patrons : \/ Hold(p) \/ Lapse(p) \/ SuspendHolder(p)
                       \/ \E s \in Seats : Issue(p, s)
                       \/ \E q \in Patrons : BlockPair(p, q)
  \/ Toggle
  \/ \E d \in Desks : Withdraw(d)

TransfersSpec == TransfersInit /\ [][TransfersNext]_transferVars

----------------------------------------------------------------------------
(* Properties *)

\* Nobody has more tickets of a type than its cap allows, but somebody who was
\* sent one beside a checkout or another transfer, or whom an admin gave one or
\* gave one back.
CapExplained ==
  \A p \in Patrons \ swamped : Cardinality(Owned(p)) + held[p] <= Cap

\* Who was admitted with a ticket is still its holder, and the ticket still
\* scanned, unless the organiser revoked it or an admin's request had loaded it
\* before the scan.
AdmittedExplained ==
  \A s \in Seats \ overtaken :
    door[s] # Nobody => seatStatus[s] = "scanned" /\ holder[s] = door[s]

\* Who holds a ticket and who was admitted with one.
TransfersExplained == CapExplained /\ AdmittedExplained

=============================================================================
