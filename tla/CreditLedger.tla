----------------------------- MODULE CreditLedger -----------------------------
(***************************************************************************)
(* The analysis credits of one customer organization, as kept in Firestore *)
(* by src/src/commercial/firestore-commercial-repository.js, driven by     *)
(* src/src/commercial/commercial-service.js: the balance document, the     *)
(* append-only ledger with its de-duplication documents, the credit        *)
(* reservations, the property entitlements and the Stripe transactions.    *)
(*                                                                         *)
(* Every Firestore transaction is one action.  The Stripe webhook handler  *)
(* runs several of them in a row, so a delivery of a purchase is two       *)
(* actions with a possible crash between; Stripe delivers an event again   *)
(* until it is acknowledged, and may deliver it again after that.          *)
(***************************************************************************)
EXTENDS Integers, FiniteSets, FiniteSetsExt

CONSTANTS
  Requests,     \* reservation identities, "research-<approvalId>"
  Properties,   \* canonical property keys
  Grants,       \* source identities of complimentary grants
  Purchases,    \* Stripe events checkout.session.completed with status paid
  Reversals,    \* Stripe events charge.refunded and charge.dispute.created
  Payments,     \* Stripe payment intents
  PaymentOf,    \* the payment intent a Stripe event is about
  Quantity,     \* the number of credits bought with a payment intent
  Amounts,      \* the amounts a platform administrator grants
  MaxCrashes,   \* bound on webhook handlers lost between two transactions
  None          \* an absent document

Events  == Purchases \cup Reversals
Sources == Grants \cup Events

ASSUME FiniteAssumption == IsFiniteSet(Requests) /\ IsFiniteSet(Properties)

\* safeId() accepts any identifier: that an administrator's source, a Stripe
\* event and a reservation never share one is a fact about who makes them.
ASSUME SourceAssumption ==
  /\ Grants \cap Events = {}
  /\ Purchases \cap Reversals = {}
  /\ Sources \cap Requests = {}

ASSUME AmountAssumption ==
  /\ Amounts \subseteq 1..1000
  /\ Quantity \in [Payments -> 1..1000]
  /\ PaymentOf \in [Events -> Payments]

ASSUME BoundAssumption == MaxCrashes \in Nat

ASSUME NoneAssumption == None \notin Requests /\ None \notin Properties

VARIABLES
  available,      \* commercialCreditState/balance.available
  ledger,         \* creditLedger: one record per immutable entry
  sources,        \* creditSources: the de-duplication documents
  reservation,    \* creditReservations by request identity
  entitlement,    \* propertyEntitlements: the reservation that paid, or None
  transactions,   \* commercialStripeTransactions: the payments on record
  recording,      \* purchases whose handler is between its two transactions
  acked,          \* events answered with 200 at least once
  crashes,        \* handlers lost so far
  credited        \* auxiliary: running total of grants, purchases, reversals

creditVars  == <<available, ledger, sources, reservation, entitlement, credited>>
webhookVars == <<transactions, recording, acked, crashes>>
vars        == <<available, ledger, sources, reservation, entitlement, credited,
                 transactions, recording, acked, crashes>>

-----------------------------------------------------------------------------
(* The documents.                                                          *)

ReservationStatus == {"NONE", "RESERVED", "CONSUMED", "RELEASED"}
NoReservation     == [status |-> "NONE", property |-> None]

\* A ledger document.  Documents have random names; copy tells apart two
\* documents that would name the same source.
Entry == [source : Sources \cup Requests, amount : Int, copy : Nat]

NewEntry(s, n) ==
  [source |-> s, amount |-> n, copy |-> Cardinality({e \in ledger : e.source = s})]

Held     == {r \in Requests : reservation[r].status = "RESERVED"}
Consumed == {r \in Requests : reservation[r].status = "CONSUMED"}
Released == {r \in Requests : reservation[r].status = "RELEASED"}
Unlocked == {p \in Properties : entitlement[p] # None}

\* What is left to spend according to everything but the balance document.
Spendable == credited - Cardinality(Held) - Cardinality(Unlocked)

CreditInit ==
  /\ available = 0
  /\ ledger = {}
  /\ sources = {}
  /\ reservation = [r \in Requests |-> NoReservation]
  /\ entitlement = [p \in Properties |-> None]
  /\ credited = 0

Init ==
  /\ CreditInit
  /\ transactions = {}
  /\ recording = {}
  /\ acked = {}
  /\ crashes = 0

-----------------------------------------------------------------------------
(* creditEntry: post an amount once per source identity.                   *)

\* The amount may be posted: the balance stays non-negative, unless the entry
\* compensates for an earlier one.
MayPost(n, compensating) == available + n >= 0 \/ compensating

\* Mutant: the de-duplication document is not looked up.
CreditEntryAlways(s, n, compensating) ==
  /\ MayPost(n, compensating)
  /\ ledger' = ledger \cup {NewEntry(s, n)}
  /\ sources' = sources \cup {s}
  /\ available' = available + n
  /\ credited' = credited + n
  /\ UNCHANGED <<reservation, entitlement>>

CreditEntry(s, n, compensating) ==
  IF s \in sources
  THEN UNCHANGED creditVars
  ELSE /\ MayPost(n, compensating)
       /\ ledger' = ledger \cup {NewEntry(s, n)}
       /\ sources' = sources \cup {s}
       /\ available' = available + n
       /\ credited' = credited + n
       /\ UNCHANGED <<reservation, entitlement>>

\* A platform administrator grants complimentary credits.
GrantCredits(s, n) ==
  /\ CreditEntry(s, n, FALSE)
  /\ UNCHANGED webhookVars

-----------------------------------------------------------------------------
(* reserveCredit and completeReservation.                                  *)

AlreadyUnlocked(p)  == entitlement[p] # None

\* Mutant: only an open reservation is returned; a completed one is made anew.
AlreadyOpen(r)      == reservation[r].status = "RESERVED"

AlreadyRequested(r) == reservation[r].status # "NONE"

\* Mutant: the balance is not compared with one credit.
ReserveOnCredit(r, p) ==
  /\ ~AlreadyUnlocked(p)
  /\ ~AlreadyRequested(r)
  /\ reservation' = [reservation EXCEPT ![r] = [status |-> "RESERVED", property |-> p]]
  /\ available' = available - 1
  /\ UNCHANGED <<ledger, sources, entitlement, credited>>

\* A new reservation takes one credit out of the balance.
NewReservation(r, p) ==
  /\ ~AlreadyUnlocked(p)
  /\ ~AlreadyRequested(r)
  /\ available >= 1
  /\ reservation' = [reservation EXCEPT ![r] = [status |-> "RESERVED", property |-> p]]
  /\ available' = available - 1
  /\ UNCHANGED <<ledger, sources, entitlement, credited>>

\* Mutant: the entitlement is set, not created.
MayConsumeAgain(r) == reservation[r].status = "RESERVED"

\* tx.create of the entitlement aborts the transaction if one exists.
MayConsume(r) ==
  /\ reservation[r].status = "RESERVED"
  /\ ~AlreadyUnlocked(reservation[r].property)

\* Mutant: the credit is taken a second time when it is consumed.
ConsumeAndDebit(r) ==
  /\ MayConsume(r)
  /\ ledger' = ledger \cup {NewEntry(r, -1)}
  /\ entitlement' = [entitlement EXCEPT ![reservation[r].property] = r]
  /\ reservation' = [reservation EXCEPT ![r].status = "CONSUMED"]
  /\ available' = available - 1
  /\ UNCHANGED <<sources, credited>>

\* Usable research was delivered: the property is unlocked for good.
ConsumeReservation(r) ==
  /\ MayConsume(r)
  /\ ledger' = ledger \cup {NewEntry(r, -1)}
  /\ entitlement' = [entitlement EXCEPT ![reservation[r].property] = r]
  /\ reservation' = [reservation EXCEPT ![r].status = "CONSUMED"]
  /\ UNCHANGED <<available, sources, credited>>

\* Mutant: a reservation that is completed already is released again.
ReleaseAgain(r) ==
  /\ reservation[r].status # "NONE"
  /\ available' = available + 1
  /\ reservation' = [reservation EXCEPT ![r].status = "RELEASED"]
  /\ UNCHANGED <<ledger, sources, entitlement, credited>>

\* The credit goes back to the balance.
ReleaseReservation(r) ==
  /\ reservation[r].status = "RESERVED"
  /\ available' = available + 1
  /\ reservation' = [reservation EXCEPT ![r].status = "RELEASED"]
  /\ UNCHANGED <<ledger, sources, entitlement, credited>>

Research(r) ==
  /\ \/ \E p \in Properties : NewReservation(r, p)
     \/ ConsumeReservation(r)
     \/ ReleaseReservation(r)
  /\ UNCHANGED webhookVars

-----------------------------------------------------------------------------
(* applyStripeEvent, called for every signed delivery of an event.         *)

\* First transaction of a purchase: the credits are posted (or found posted).
PostPurchase(e) ==
  /\ CreditEntry(e, Quantity[PaymentOf[e]], FALSE)
  /\ recording' = recording \cup {e}
  /\ UNCHANGED <<transactions, acked, crashes>>

\* Mutant: the transaction is recorded under the event, not the payment intent.
RecordByEvent(e) ==
  /\ e \in recording
  /\ transactions' = transactions \cup {e}
  /\ recording' = recording \ {e}
  /\ acked' = acked \cup {e}
  /\ UNCHANGED <<creditVars, crashes>>

\* Second transaction: the payment is recorded for a later refund, and the
\* delivery is answered.
RecordPurchase(e) ==
  /\ e \in recording
  /\ transactions' = transactions \cup {PaymentOf[e]}
  /\ recording' = recording \ {e}
  /\ acked' = acked \cup {e}
  /\ UNCHANGED <<creditVars, crashes>>

\* Mutant: a reversal is applied before its purchase is on record.
ReverseUnrecorded(e) ==
  /\ CreditEntry(e, -Quantity[PaymentOf[e]], TRUE)
  /\ acked' = acked \cup {e}
  /\ UNCHANGED <<transactions, recording, crashes>>

\* Mutant: a reversal is not marked as compensating.
ReverseIfCovered(e) ==
  /\ PaymentOf[e] \in transactions
  /\ CreditEntry(e, -Quantity[PaymentOf[e]], FALSE)
  /\ acked' = acked \cup {e}
  /\ UNCHANGED <<transactions, recording, crashes>>

\* A refund or a dispute takes back every credit of its payment; it is refused
\* with 409 while the purchase is not on record.
ReversePurchase(e) ==
  /\ PaymentOf[e] \in transactions
  /\ CreditEntry(e, -Quantity[PaymentOf[e]], TRUE)
  /\ acked' = acked \cup {e}
  /\ UNCHANGED <<transactions, recording, crashes>>

\* The function instance is lost between the two transactions of a purchase.
WebhookCrash(e) ==
  /\ e \in recording
  /\ crashes < MaxCrashes
  /\ recording' = recording \ {e}
  /\ crashes' = crashes + 1
  /\ UNCHANGED <<creditVars, transactions, acked>>

-----------------------------------------------------------------------------

Next ==
  \/ \E s \in Grants, n \in Amounts : GrantCredits(s, n)
  \/ \E r \in Requests : Research(r)
  \/ \E e \in Purchases : PostPurchase(e) \/ RecordPurchase(e) \/ WebhookCrash(e)
  \/ \E e \in Reversals : ReversePurchase(e)

Spec == Init /\ [][Next]_vars

\* Stripe delivers an event again until it is acknowledged, so a handler that
\* can make progress on an unacknowledged event eventually does.
Redelivery ==
  /\ \A e \in Purchases : /\ WF_vars(e \notin acked /\ PostPurchase(e))
                          /\ WF_vars(RecordPurchase(e))
  /\ \A e \in Reversals : WF_vars(e \notin acked /\ ReversePurchase(e))

FairSpec == Spec /\ Redelivery

-----------------------------------------------------------------------------
(* Properties.                                                             *)

\* Every document has the shape the repository writes.
TypeOK ==
  /\ available \in Int
  /\ credited \in Int
  /\ ledger \subseteq Entry
  /\ sources \subseteq Sources
  /\ reservation \in [Requests -> [status : ReservationStatus,
                                   property : Properties \cup {None}]]
  /\ entitlement \in [Properties -> Requests \cup {None}]
  /\ transactions \subseteq Payments
  /\ recording \subseteq Purchases
  /\ acked \subseteq Events
  /\ crashes \in Nat

\* No credit is made or lost: the balance document is what came in from outside
\* less one credit for each open reservation and each unlocked property.  Three
\* transactions (creditEntry, reserveCredit, completeReservation) keep it so.
BalanceConserved == available = Spendable

\* What a set of ledger entries adds up to.
EntrySum(S) == MapThenSumSet(LAMBDA e : e.amount, S)

\* The balance document agrees with the ledger: summing every immutable entry
\* gives the balance plus the credits still held by open reservations.  The
\* administrator's overview shows the two side by side.
LedgerAgrees == EntrySum(ledger) = available + Cardinality(Held)

\* The entitlement of a property names the one reservation that paid for it:
\* however many requests were reserved for it at once, one of them is consumed.
ChargedOnce ==
  \A r \in Requests, p \in Properties :
    entitlement[p] = r <=> /\ reservation[r].status = "CONSUMED"
                           /\ reservation[r].property = p

\* A source identity is posted once, however often Stripe delivers the event or
\* the administrator repeats the grant, and the ledger holds nothing but the
\* de-duplicated entries and one activation for each consumed reservation.
PostedOnce ==
  /\ \A d, e \in ledger : d.source = e.source => d = e
  /\ {e.source : e \in ledger} = sources \cup Consumed

\* A reversal was posted only for a payment whose purchase is on record, and a
\* purchase is on record only when its credits were posted, whatever the order
\* in which Stripe delivers the events and wherever a handler is lost.
ReversalFollowsPurchase ==
  /\ \A e \in Reversals \cap sources : PaymentOf[e] \in transactions
  /\ \A p \in transactions :
       \E e \in Purchases \cap sources : PaymentOf[e] = p
  /\ acked \cup recording \subseteq sources

\* Only a refund or a dispute can push the balance below zero: no reservation,
\* purchase or grant does, in any interleaving of the transactions.
OnlyReversalsOverdraw ==
  [][available' < available /\ available' < 0
       => \E e \in Reversals : e \in sources' \ sources]_vars

\* The ledger is append-only, a completed reservation is never reopened or
\* completed again, and an unlocked property stays unlocked by the same one.
HistoryImmutable ==
  [][/\ ledger \subseteq ledger'
     /\ \A r \in Consumed \cup Released : reservation'[r] = reservation[r]
     /\ \A p \in Unlocked : entitlement'[p] = entitlement[p]]_vars

\* A purchase whose credits the balance can take for good is posted, recorded
\* and acknowledged in the end, although handlers may be lost half way, and a
\* refund or a dispute that overtook its purchase is applied in the end.
EventsApplied ==
  /\ \A e \in Purchases :
       <>[](e \in sources \/ MayPost(Quantity[PaymentOf[e]], FALSE)) => <>(e \in acked)
  /\ \A e \in Reversals : PaymentOf[e] \in transactions ~> e \in acked

\* What the readiness document says of the webhook: every paid purchase is
\* retained in the ledger.
PurchasesRetained ==
  \A e \in Purchases : <>(e \in sources)

-----------------------------------------------------------------------------
(* The ledger implements the abstract account.                             *)

\* What a grant, a purchase or a reversal moves.
Worth == [s \in Sources |-> IF s \in Grants THEN Amounts
                            ELSE IF s \in Purchases THEN {Quantity[PaymentOf[s]]}
                            ELSE {-Quantity[PaymentOf[s]]}]

Account == INSTANCE CreditAccount WITH
             spendable <- Spendable,
             held      <- Held,
             settled   <- Consumed \cup Released,
             unlocked  <- Unlocked,
             posted    <- sources

\* Every transaction is a step of the account, or changes nothing it can see: in
\* particular a source moves its credits once and by its amount, and only
\* reversals move them below zero.
ImplementsAccount == Account!AccountSpec
=============================================================================
