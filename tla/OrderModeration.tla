-------------------------- MODULE OrderModeration --------------------------
(***************************************************************************)
(* The desk: admin refunds, mark-paid, revocations and reissues            *)
(* (OrderModerationService, IssuedTicketModerationService and the          *)
(* organizer's revoke) beside the running checkout of module Orders.       *)
(*                                                                         *)
(* A desk request acts on a row it loaded before: the controller reads the *)
(* order or the ticket, the service checks that snapshot, and what follows *)
(* does not look at the status again.  A refund moreover calls the         *)
(* provider, and its transaction first reads the tickets and then writes   *)
(* them; it locks the payment row, when there is one, never the order.     *)
(***************************************************************************)
EXTENDS Orders

CONSTANT Staff  \* admin and organizer sessions

ASSUME StaffAssumption == IsFiniteSet(Staff)

VARIABLES desk,     \* [Staff -> DeskState]: the request each session is running (volatile)
          reissued  \* history: seats that were ever reissued

deskVars == <<desk, reissued>>
allVars == <<vars, deskVars>>

Idle == [pc |-> "idle"]
DeskState ==
  {Idle}
    \cup [pc : {"askProvider", "refund"}, order : Orders, locksPayment : BOOLEAN]
    \cup [pc : {"revoking"}, order : Orders, locksPayment : BOOLEAN,
          ids : SUBSET Seats, readValid : SUBSET Seats]
    \cup [pc : {"markPaid"}, order : Orders, hasPayment : BOOLEAN]
    \cup [pc : {"settlePayment"}, order : Orders]
    \cup [pc : {"revoke"}, seat : Seats]

DeskTypeOK == /\ OrdersTypeOK
              /\ desk \in [Staff -> DeskState]
              /\ reissued \subseteq Seats

DeskInit == /\ OrdersInit
            /\ desk = [w \in Staff |-> Idle]
            /\ reissued = {}

Desk(w, d) == desk' = [desk EXCEPT ![w] = d]
AtDesk(w, pc) == desk[w].pc = pc

----------------------------------------------------------------------------
(* Refund *)

\* The loaded order is paid.  asks: its payment row was found successful, so
\* the provider must be asked first.
StartRefund(w, o, asks) ==
  /\ AtDesk(w, "idle")
  /\ status[o] = "paid"
  /\ asks => payRow[o] = "linked"
  /\ Desk(w, [pc |-> IF asks THEN "askProvider" ELSE "refund", order |-> o,
              locksPayment |-> payRow[o] = "linked"])
  /\ UNCHANGED <<vars, reissued>>

ProviderRefunds(w) ==
  /\ AtDesk(w, "askProvider")
  /\ Desk(w, [desk[w] EXCEPT !.pc = "refund"])
  /\ UNCHANGED <<vars, reissued>>

\* refundWithProvider throws: the request ends, nothing was written.
ProviderRefuses(w) ==
  /\ AtDesk(w, "askProvider")
  /\ Desk(w, Idle)
  /\ UNCHANGED <<vars, reissued>>

PaymentLockFree(w) ==
  \A v \in Staff \ {w} :
    ~ /\ AtDesk(v, "revoking")
      /\ desk[v].order = desk[w].order
      /\ desk[v].locksPayment

\* The transaction updates the payment row, which locks it, and reads the
\* order's unscanned tickets without locking them.
OpenRefund(w) ==
  /\ AtDesk(w, "refund")
  /\ desk[w].locksPayment => PaymentLockFree(w)
  /\ LET o == desk[w].order IN
       Desk(w, [pc |-> "revoking", order |-> o,
                locksPayment |-> desk[w].locksPayment,
                ids |-> Unscanned(o),
                readValid |-> {s \in Unscanned(o) : ticket[s] = "valid"}])
  /\ UNCHANGED <<vars, reissued>>

\* It revokes what it read, takes the revenue back, books the refund and
\* flips the order, whatever the order's status has become.
CommitRefund(w) ==
  /\ AtDesk(w, "revoking")
  /\ LET o == desk[w].order IN
       /\ RevokeRead(desk[w].ids, desk[w].readValid)
       /\ ReverseEventRevenue(o)
       /\ RecordRefund(o)
       /\ status' = [status EXCEPT ![o] = "refunded"]
  /\ Desk(w, Idle)
  /\ UNCHANGED <<now, cart, buyer, hold, payRow, firstSale, late, requestVars,
                 reissued>>

----------------------------------------------------------------------------
(* Mark paid *)

StartMarkPaid(w, o) ==
  /\ AtDesk(w, "idle")
  /\ status[o] = "pending"
  /\ Desk(w, [pc |-> "markPaid", order |-> o, hasPayment |-> payRow[o] = "linked"])
  /\ UNCHANGED <<vars, reissued>>

\* fulfill no-ops when the order has been settled meanwhile; what follows does
\* not depend on it.
MarkPaid(w) ==
  /\ AtDesk(w, "markPaid")
  /\ \/ Fulfill(desk[w].order)
     \/ /\ status[desk[w].order] # "pending"
        /\ UNCHANGED <<now, cart, ticketVars, orderVars>>
  /\ Desk(w, IF desk[w].hasPayment
             THEN [pc |-> "settlePayment", order |-> desk[w].order] ELSE Idle)
  /\ UNCHANGED <<requestVars, reissued>>

\* The linked payment is then set to successful (module Commerce).
SettlePayment(w) ==
  /\ AtDesk(w, "settlePayment")
  /\ Desk(w, Idle)
  /\ UNCHANGED <<vars, reissued>>

----------------------------------------------------------------------------
(* Single tickets *)

\* An organizer revokes a ticket, scanned or not.
OrganizerRevoke(w, s) ==
  /\ AtDesk(w, "idle")
  /\ Revoke(s)
  /\ UNCHANGED <<now, cart, orderVars, requestVars, deskVars>>

\* The admin's revoke refuses a ticket that was scanned when it was loaded.
StartRevoke(w, s) ==
  /\ AtDesk(w, "idle")
  /\ ticket[s] = "valid"
  /\ Desk(w, [pc |-> "revoke", seat |-> s])
  /\ UNCHANGED <<vars, reissued>>

AdminRevoke(w) ==
  /\ AtDesk(w, "revoke")
  /\ \/ Revoke(desk[w].seat)
     \/ /\ ticket[desk[w].seat] = "revoked"
        /\ UNCHANGED ticketVars
  /\ Desk(w, Idle)
  /\ UNCHANGED <<now, cart, orderVars, requestVars, reissued>>

AdminReissue(w, s) ==
  /\ AtDesk(w, "idle")
  /\ Reissue(s)
  /\ reissued' = reissued \cup {s}
  /\ UNCHANGED <<now, cart, orderVars, requestVars, desk>>

----------------------------------------------------------------------------

\* An open transaction rolls back with the process.
Crash == /\ CrashRequests
         /\ desk' = [w \in Staff |-> Idle]
         /\ UNCHANGED reissued

DeskStep(w) ==
  \/ \E o \in Orders : \/ \E asks \in BOOLEAN : StartRefund(w, o, asks)
                       \/ StartMarkPaid(w, o)
  \/ \E s \in Seats : OrganizerRevoke(w, s) \/ StartRevoke(w, s) \/ AdminReissue(w, s)
  \/ ProviderRefunds(w) \/ ProviderRefuses(w) \/ OpenRefund(w) \/ CommitRefund(w)
  \/ MarkPaid(w) \/ SettlePayment(w) \/ AdminRevoke(w)

DeskNext == \/ OrdersStep /\ UNCHANGED deskVars
            \/ Crash
            \/ \E w \in Staff : DeskStep(w)

DeskSpec == DeskInit /\ [][DeskNext]_allVars

----------------------------------------------------------------------------
(* Properties *)

\* A refunded order lets nobody in: a valid ticket of it can only be one that
\* the desk brought back itself, even when scans, revocations, reissues and a
\* second refund fall between a refund's read and its write.
NoValidSeatAfterRefund ==
  \A s \in Seats :
    (ticket[s] = "valid" /\ status[OrderOf(s)] = "refunded") => s \in reissued

\* Money is given back for paid orders only, and a refunded order always has
\* its refund booked: the ledger never shows a refund of a paid order, nor a
\* refunded order without one.
RefundBooked ==
  \A o \in Orders : (status[o] = "refunded") = (ledger[o].refund > 0)

\* No interleaving takes an order backwards: a cancelled or refunded order
\* stays so, and a paid order can only become refunded.
StatusMoves == {<<"none", "pending">>, <<"pending", "paid">>,
                <<"pending", "cancelled">>, <<"paid", "refunded">>}
StatusNeverReverts ==
  [][\A o \in Orders : status'[o] = status[o]
                         \/ <<status[o], status'[o]>> \in StatusMoves]_allVars

\* Two sessions may book the refund of one order twice; counted once, the life
\* cycle is kept whatever they do: seats and earnings come with the payment, and
\* the earnings go with the refund.  (OrderModerationService.refund, markPaid)
DeskLifecycle ==
  INSTANCE OrderLifecycle
    WITH phase <- status,
         seated <- IssuedOrders,
         net <- [o \in Orders |-> ledger[o].sale - (IF ledger[o].refund = 0 THEN 0 ELSE 1)]
DeskFollowsLifecycle == DeskLifecycle!Spec

============================================================================
