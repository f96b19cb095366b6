-------------------------- MODULE CreditLedger_proofs --------------------------
(***************************************************************************)
(* Proofs about CreditLedger, for any number of requests, properties,      *)
(* grants, events and payments.                                            *)
(*                                                                         *)
(* The inductive invariant is LedgerInv.  BalanceConserved alone is not    *)
(* inductive: that consuming a reservation adds one unlocked property      *)
(* while it removes one held credit needs to know that a reserved request  *)
(* names a real property (ReservedKnown).  PostedOnce needs the ledger to  *)
(* name no source that has no de-duplication document, which is its own    *)
(* second half, and ChargedOnce to keep activations apart.                 *)
(***************************************************************************)
EXTENDS CreditLedger, FiniteSetTheorems, WellFoundedInduction, TLAPS

\* An open or completed reservation was made for a property, and the ledger is
\* finite, so that the copies of a source can be counted.
ReservedKnown ==
  /\ \A r \in Requests :
       reservation[r].status # "NONE" => reservation[r].property \in Properties
  /\ IsFiniteSet(ledger)

LedgerInv ==
  /\ TypeOK
  /\ ReservedKnown
  /\ ChargedOnce
  /\ BalanceConserved
  /\ PostedOnce
  /\ ReversalFollowsPurchase

-----------------------------------------------------------------------------
(* What each transaction does to the sets the invariants count.            *)

\* The sets that are counted are finite because the constants are.
LEMMA CountedSetsFinite ==
  /\ IsFiniteSet(Held) /\ IsFiniteSet(Unlocked)
  /\ Cardinality(Held) \in Nat /\ Cardinality(Unlocked) \in Nat
<1>1. Held \subseteq Requests /\ Unlocked \subseteq Properties
  BY DEF Held, Unlocked
<1>2. IsFiniteSet(Held) /\ IsFiniteSet(Unlocked)
  BY <1>1, FS_Subset, FiniteAssumption
<1> QED
  BY <1>2, FS_CardinalityType

\* reserveCredit adds the request to the held ones and unlocks nothing.
LEMMA NewReservationSets ==
  ASSUME TypeOK, NEW r \in Requests, NEW p \in Properties, NewReservation(r, p)
  PROVE  /\ Held' = Held \cup {r} /\ r \notin Held
         /\ Consumed' = Consumed /\ Released' = Released
         /\ r \notin Consumed \cup Released
         /\ Unlocked' = Unlocked
BY DEF TypeOK, NewReservation, AlreadyRequested, Held, Consumed, Released, Unlocked

\* completeReservation with consume moves one request and unlocks one property.
LEMMA ConsumeSets ==
  ASSUME TypeOK, ReservedKnown, NEW r \in Requests, ConsumeReservation(r)
  PROVE  /\ Held' = Held \ {r} /\ r \in Held
         /\ Consumed' = Consumed \cup {r} /\ Released' = Released
         /\ r \notin Consumed \cup Released
         /\ reservation[r].property \in Properties
         /\ Unlocked' = Unlocked \cup {reservation[r].property}
         /\ reservation[r].property \notin Unlocked
<1> DEFINE p == reservation[r].property
<1>1. p \in Properties /\ entitlement[p] = None /\ reservation[r].status = "RESERVED"
  BY DEF ReservedKnown, ConsumeReservation, MayConsume, AlreadyUnlocked
<1>2. Unlocked' = Unlocked \cup {p} /\ p \notin Unlocked
  BY <1>1, NoneAssumption DEF TypeOK, ConsumeReservation, Unlocked
<1>3. /\ Held' = Held \ {r} /\ r \in Held
      /\ Consumed' = Consumed \cup {r} /\ Released' = Released
      /\ r \notin Consumed \cup Released
  BY <1>1 DEF TypeOK, ConsumeReservation, Held, Consumed, Released
<1> QED
  BY <1>1, <1>2, <1>3

\* completeReservation without consume moves one request and unlocks nothing.
LEMMA ReleaseSets ==
  ASSUME TypeOK, NEW r \in Requests, ReleaseReservation(r)
  PROVE  /\ Held' = Held \ {r} /\ r \in Held
         /\ Released' = Released \cup {r} /\ Consumed' = Consumed
         /\ r \notin Consumed \cup Released
         /\ Unlocked' = Unlocked
BY DEF TypeOK, ReleaseReservation, Held, Consumed, Released, Unlocked

\* A step that leaves reservations and entitlements alone moves nobody.
LEMMA SameSets ==
  ASSUME UNCHANGED <<reservation, entitlement>>
  PROVE  /\ Held' = Held /\ Consumed' = Consumed /\ Released' = Released
         /\ Unlocked' = Unlocked
BY DEF Held, Consumed, Released, Unlocked

\* A new entry is a ledger document.
LEMMA NewEntryType ==
  ASSUME ReservedKnown, NEW s \in Sources \cup Requests, NEW n \in Int
  PROVE  /\ NewEntry(s, n) \in Entry
         /\ NewEntry(s, n).source = s
         /\ IsFiniteSet(ledger \cup {NewEntry(s, n)})
<1>1. IsFiniteSet({e \in ledger : e.source = s})
  BY FS_Subset DEF ReservedKnown
<1>2. Cardinality({e \in ledger : e.source = s}) \in Nat
  BY <1>1, FS_CardinalityType
<1>3. IsFiniteSet(ledger \cup {NewEntry(s, n)})
  BY FS_AddElement DEF ReservedKnown
<1> QED
  BY <1>2, <1>3 DEF NewEntry, Entry

\* The amounts that are posted are integers.
LEMMA PostedAmounts ==
  /\ \A n \in Amounts : n \in Int
  /\ \A e \in Events : /\ PaymentOf[e] \in Payments
                       /\ Quantity[PaymentOf[e]] \in 1..1000
                       /\ Quantity[PaymentOf[e]] \in Int
                       /\ -Quantity[PaymentOf[e]] \in Int
<1>1. ASSUME NEW n \in 1..1000
      PROVE  n \in Int /\ -n \in Int
  OBVIOUS
<1>2. ASSUME NEW n \in Amounts
      PROVE  n \in Int
  <2>1. n \in 1..1000
    BY AmountAssumption
  <2> QED
    BY <1>1, <2>1
<1>3. ASSUME NEW e \in Events
      PROVE  /\ PaymentOf[e] \in Payments
             /\ Quantity[PaymentOf[e]] \in 1..1000
             /\ Quantity[PaymentOf[e]] \in Int
             /\ -Quantity[PaymentOf[e]] \in Int
  <2>1. PaymentOf[e] \in Payments
    BY AmountAssumption
  <2>2. Quantity[PaymentOf[e]] \in 1..1000
    BY <2>1, AmountAssumption
  <2>3. PICK q \in 1..1000 : q = Quantity[PaymentOf[e]]
    BY <2>2
  <2> QED
    BY <1>1, <2>1, <2>3
<1> QED
  BY <1>2, <1>3

\* What is posted, and for which source.
LEMMA EventPosts ==
  ASSUME NEW e \in Events
  PROVE  e \in Sources /\ Quantity[PaymentOf[e]] \in Int /\ -Quantity[PaymentOf[e]] \in Int
BY PostedAmounts DEF Sources

LEMMA GrantPosts ==
  ASSUME NEW s \in Grants, NEW n \in Amounts
  PROVE  s \in Sources /\ n \in Int
BY PostedAmounts DEF Sources

\* creditEntry leaves reservations and entitlements alone; it changes the other
\* credit documents together, or not at all.
LEMMA CreditEntryEffect ==
  ASSUME NEW s \in Sources, NEW n \in Int, NEW c \in BOOLEAN, CreditEntry(s, n, c)
  PROVE  /\ UNCHANGED <<reservation, entitlement>>
         /\ s \in sources'
         /\ \/ s \in sources /\ UNCHANGED <<available, ledger, sources, credited>>
            \/ /\ s \notin sources
               /\ available + n >= 0 \/ c
               /\ ledger' = ledger \cup {NewEntry(s, n)}
               /\ sources' = sources \cup {s}
               /\ available' = available + n
               /\ credited' = credited + n
BY DEF CreditEntry, creditVars, MayPost

\* Every step that posts something is a creditEntry with one of three sources;
\* the other steps of the webhook leave the credit documents alone.
LEMMA StepCases ==
  ASSUME [Next]_vars
  PROVE  \/ \E s \in Grants, n \in Amounts : GrantCredits(s, n)
         \/ \E e \in Purchases : PostPurchase(e)
         \/ \E e \in Reversals : ReversePurchase(e)
         \/ \E r \in Requests, p \in Properties :
              NewReservation(r, p) /\ UNCHANGED webhookVars
         \/ \E r \in Requests : ConsumeReservation(r) /\ UNCHANGED webhookVars
         \/ \E r \in Requests : ReleaseReservation(r) /\ UNCHANGED webhookVars
         \/ \E e \in Purchases : RecordPurchase(e)
         \/ \E e \in Purchases : WebhookCrash(e)
         \/ UNCHANGED vars
BY DEF Next, Research

-----------------------------------------------------------------------------
(* Each conjunct of the invariant is preserved.                            *)

LEMMA InitInv == Init => LedgerInv
<1> SUFFICES ASSUME Init PROVE LedgerInv
  OBVIOUS
<1>1. Held = {} /\ Unlocked = {} /\ Consumed = {}
  BY DEF Init, CreditInit, NoReservation, Held, Unlocked, Consumed
<1>2. TypeOK
  BY DEF Init, CreditInit, TypeOK, NoReservation, ReservationStatus
<1>3. ReservedKnown
  BY FS_EmptySet DEF Init, CreditInit, NoReservation, ReservedKnown
<1>4. ChargedOnce
  BY NoneAssumption DEF Init, CreditInit, NoReservation, ChargedOnce
<1>5. BalanceConserved
  BY <1>1, FS_EmptySet DEF Init, CreditInit, BalanceConserved, Spendable
<1>6. PostedOnce
  BY <1>1 DEF Init, CreditInit, PostedOnce
<1>7. ReversalFollowsPurchase
  BY DEF Init, CreditInit, ReversalFollowsPurchase
<1> QED
  BY <1>2, <1>3, <1>4, <1>5, <1>6, <1>7 DEF LedgerInv

\* What an entry posted by creditEntry does to the shape of the documents.
LEMMA PostType ==
  ASSUME TypeOK, ReservedKnown, NEW s \in Sources, NEW n \in Int, NEW c \in BOOLEAN,
         CreditEntry(s, n, c)
  PROVE  /\ available' \in Int /\ credited' \in Int
         /\ ledger' \subseteq Entry /\ IsFiniteSet(ledger')
         /\ sources' \subseteq Sources
<1>1. NewEntry(s, n) \in Entry /\ IsFiniteSet(ledger \cup {NewEntry(s, n)})
  BY NewEntryType
<1>2. CASE UNCHANGED <<available, ledger, sources, credited>>
  BY <1>2 DEF TypeOK, ReservedKnown
<1>3. CASE /\ ledger' = ledger \cup {NewEntry(s, n)}
           /\ sources' = sources \cup {s}
           /\ available' = available + n
           /\ credited' = credited + n
  BY <1>1, <1>3 DEF TypeOK, ReservedKnown
<1> QED
  BY <1>2, <1>3, CreditEntryEffect

LEMMA TypeStep ==
  ASSUME TypeOK, ReservedKnown, [Next]_vars
  PROVE  TypeOK' /\ ReservedKnown'
<1>1. ASSUME NEW s \in Grants, NEW n \in Amounts, GrantCredits(s, n)
      PROVE  TypeOK' /\ ReservedKnown'
  <2>1. s \in Sources /\ n \in Int /\ CreditEntry(s, n, FALSE) /\ UNCHANGED webhookVars
    BY <1>1, GrantPosts DEF GrantCredits
  <2>2. UNCHANGED <<reservation, entitlement>>
    BY <2>1, CreditEntryEffect
  <2> QED
    BY <2>1, <2>2, PostType DEF TypeOK, ReservedKnown, webhookVars
<1>2. ASSUME NEW e \in Purchases, PostPurchase(e)
      PROVE  TypeOK' /\ ReservedKnown'
  <2> DEFINE n == Quantity[PaymentOf[e]]
  <2>1. e \in Sources /\ n \in Int /\ CreditEntry(e, n, FALSE)
    BY <1>2, EventPosts DEF PostPurchase, Events
  <2>2. UNCHANGED <<reservation, entitlement>>
    BY <2>1, CreditEntryEffect
  <2> QED
    BY <1>2, <2>1, <2>2, PostType DEF TypeOK, ReservedKnown, PostPurchase
<1>3. ASSUME NEW e \in Reversals, ReversePurchase(e)
      PROVE  TypeOK' /\ ReservedKnown'
  <2> DEFINE n == -Quantity[PaymentOf[e]]
  <2>1. e \in Sources /\ e \in Events /\ n \in Int /\ CreditEntry(e, n, TRUE)
    BY <1>3, EventPosts DEF ReversePurchase, Events
  <2>2. UNCHANGED <<reservation, entitlement>>
    BY <2>1, CreditEntryEffect
  <2> QED
    BY <1>3, <2>1, <2>2, PostType DEF TypeOK, ReservedKnown, ReversePurchase
<1>4. ASSUME NEW r \in Requests, NEW p \in Properties,
             NewReservation(r, p), UNCHANGED webhookVars
      PROVE  TypeOK' /\ ReservedKnown'
  BY <1>4 DEF TypeOK, ReservedKnown, NewReservation, ReservationStatus, webhookVars
<1>5. ASSUME NEW r \in Requests, ConsumeReservation(r), UNCHANGED webhookVars
      PROVE  TypeOK' /\ ReservedKnown'
  <2>1. NewEntry(r, -1) \in Entry /\ IsFiniteSet(ledger \cup {NewEntry(r, -1)})
    BY NewEntryType
  <2>2. reservation[r].property \in Properties
    BY <1>5, ConsumeSets
  <2> QED
    BY <1>5, <2>1, <2>2
    DEF TypeOK, ReservedKnown, ConsumeReservation, ReservationStatus, webhookVars
<1>6. ASSUME NEW r \in Requests, ReleaseReservation(r), UNCHANGED webhookVars
      PROVE  TypeOK' /\ ReservedKnown'
  BY <1>6 DEF TypeOK, ReservedKnown, ReleaseReservation, ReservationStatus, webhookVars
<1>7. ASSUME NEW e \in Purchases, RecordPurchase(e)
      PROVE  TypeOK' /\ ReservedKnown'
  <2>1. e \in Events /\ PaymentOf[e] \in Payments
    BY PostedAmounts DEF Events
  <2> QED
    BY <1>7, <2>1 DEF TypeOK, ReservedKnown, RecordPurchase, creditVars
<1>8. ASSUME NEW e \in Purchases, WebhookCrash(e)
      PROVE  TypeOK' /\ ReservedKnown'
  BY <1>8 DEF TypeOK, ReservedKnown, WebhookCrash, creditVars
<1>9. CASE UNCHANGED vars
  BY <1>9 DEF TypeOK, ReservedKnown, vars
<1> QED
  BY StepCases, <1>1, <1>2, <1>3, <1>4, <1>5, <1>6, <1>7, <1>8, <1>9

\* Steps that leave reservations and entitlements alone.
LEMMA UntouchedStep ==
  ASSUME [Next]_vars,
         \A r \in Requests, p \in Properties : ~NewReservation(r, p),
         \A r \in Requests : ~ConsumeReservation(r) /\ ~ReleaseReservation(r)
  PROVE  UNCHANGED <<reservation, entitlement>>
<1>1. ASSUME NEW s \in Grants, NEW n \in Amounts, GrantCredits(s, n)
      PROVE  UNCHANGED <<reservation, entitlement>>
  BY <1>1, CreditEntryEffect, GrantPosts DEF GrantCredits
<1>2. ASSUME NEW e \in Purchases, PostPurchase(e)
      PROVE  UNCHANGED <<reservation, entitlement>>
  BY <1>2, CreditEntryEffect, EventPosts DEF PostPurchase, Events
<1>3. ASSUME NEW e \in Reversals, ReversePurchase(e)
      PROVE  UNCHANGED <<reservation, entitlement>>
  BY <1>3, CreditEntryEffect, EventPosts DEF ReversePurchase, Events
<1>4. ASSUME NEW e \in Purchases, RecordPurchase(e) \/ WebhookCrash(e)
      PROVE  UNCHANGED <<reservation, entitlement>>
  BY <1>4 DEF RecordPurchase, WebhookCrash, creditVars
<1> QED
  BY StepCases, <1>1, <1>2, <1>3, <1>4 DEF vars

LEMMA ChargedStep ==
  ASSUME TypeOK, ReservedKnown, ChargedOnce, [Next]_vars
  PROVE  ChargedOnce'
<1>1. ASSUME NEW r \in Requests, NEW p \in Properties, NewReservation(r, p)
      PROVE  ChargedOnce'
  <2>1. ASSUME NEW q \in Properties PROVE entitlement[q] # r
    BY <1>1 DEF ChargedOnce, NewReservation, AlreadyRequested
  <2> QED
    BY <1>1, <2>1 DEF TypeOK, ChargedOnce, NewReservation
<1>2. ASSUME NEW r \in Requests, ConsumeReservation(r)
      PROVE  ChargedOnce'
  <2> DEFINE p == reservation[r].property
  <2>1. p \in Properties /\ entitlement[p] = None
    BY <1>2, ConsumeSets DEF ConsumeReservation, MayConsume, AlreadyUnlocked
  <2>2. ASSUME NEW q \in Properties PROVE entitlement[q] # r
    BY <1>2 DEF ChargedOnce, ConsumeReservation, MayConsume
  <2>3. ASSUME NEW s \in Requests, reservation[s].status = "CONSUMED"
        PROVE  reservation[s].property # p
    BY <2>1, <2>3, NoneAssumption DEF ChargedOnce
  <2> QED
    BY <1>2, <2>1, <2>2, <2>3 DEF TypeOK, ChargedOnce, ConsumeReservation, MayConsume
<1>3. ASSUME NEW r \in Requests, ReleaseReservation(r)
      PROVE  ChargedOnce'
  BY <1>3 DEF TypeOK, ChargedOnce, ReleaseReservation
<1>4. CASE UNCHANGED <<reservation, entitlement>>
  BY <1>4 DEF ChargedOnce
<1> QED
  BY <1>1, <1>2, <1>3, <1>4, UntouchedStep

LEMMA BalanceStep ==
  ASSUME TypeOK, ReservedKnown, BalanceConserved, [Next]_vars
  PROVE  BalanceConserved'
<1> USE CountedSetsFinite
<1>0. ASSUME NEW s \in Sources, NEW n \in Int, NEW c \in BOOLEAN, CreditEntry(s, n, c)
      PROVE  BalanceConserved'
  <2>1. Held' = Held /\ Unlocked' = Unlocked
    BY <1>0, CreditEntryEffect, SameSets
  <2>2. available' - available = credited' - credited
    BY <1>0, CreditEntryEffect DEF TypeOK
  <2>3. available' \in Int /\ credited' \in Int
    BY <1>0, PostType
  <2> QED
    BY <2>1, <2>2, <2>3 DEF TypeOK, BalanceConserved, Spendable
<1>1. ASSUME NEW s \in Grants, NEW n \in Amounts, GrantCredits(s, n)
      PROVE  BalanceConserved'
  BY <1>0, <1>1, GrantPosts DEF GrantCredits
<1>2. ASSUME NEW e \in Purchases, PostPurchase(e)
      PROVE  BalanceConserved'
  BY <1>0, <1>2, EventPosts DEF PostPurchase, Events
<1>3. ASSUME NEW e \in Reversals, ReversePurchase(e)
      PROVE  BalanceConserved'
  BY <1>0, <1>3, EventPosts DEF ReversePurchase, Events
<1>4. ASSUME NEW r \in Requests, NEW p \in Properties, NewReservation(r, p)
      PROVE  BalanceConserved'
  <2>1. Cardinality(Held') = Cardinality(Held) + 1 /\ Unlocked' = Unlocked
    BY <1>4, NewReservationSets, FS_AddElement
  <2> QED
    BY <1>4, <2>1 DEF TypeOK, BalanceConserved, Spendable, NewReservation
<1>5. ASSUME NEW r \in Requests, ConsumeReservation(r)
      PROVE  BalanceConserved'
  <2>1. Cardinality(Held') = Cardinality(Held) - 1
    BY <1>5, ConsumeSets, FS_RemoveElement
  <2>2. Cardinality(Unlocked') = Cardinality(Unlocked) + 1
    <3>1. PICK p : Unlocked' = Unlocked \cup {p} /\ p \notin Unlocked
      BY <1>5, ConsumeSets
    <3> QED BY <3>1, FS_AddElement
  <2> QED
    BY <1>5, <2>1, <2>2 DEF TypeOK, BalanceConserved, Spendable, ConsumeReservation
<1>6. ASSUME NEW r \in Requests, ReleaseReservation(r)
      PROVE  BalanceConserved'
  <2>1. Cardinality(Held') = Cardinality(Held) - 1 /\ Unlocked' = Unlocked
    BY <1>6, ReleaseSets, FS_RemoveElement
  <2> QED
    BY <1>6, <2>1 DEF TypeOK, BalanceConserved, Spendable, ReleaseReservation
<1>7. CASE UNCHANGED creditVars
  BY <1>7, SameSets DEF creditVars, BalanceConserved, Spendable
<1> QED
  BY StepCases, <1>1, <1>2, <1>3, <1>4, <1>5, <1>6, <1>7
  DEF RecordPurchase, WebhookCrash, vars, creditVars

\* Activations and posted entries never share a source.
LEMMA SourcesDisjoint == Sources \cap Requests = {} /\ Grants \cap Events = {}
BY SourceAssumption

LEMMA PostedStep ==
  ASSUME TypeOK, ReservedKnown, PostedOnce, [Next]_vars
  PROVE  PostedOnce'
<1>0. ASSUME NEW s \in Sources, NEW n \in Int, NEW c \in BOOLEAN, CreditEntry(s, n, c)
      PROVE  PostedOnce'
  <2>1. Consumed' = Consumed
    BY <1>0, CreditEntryEffect, SameSets
  <2>2. CASE UNCHANGED <<available, ledger, sources, credited>>
    BY <2>1, <2>2 DEF PostedOnce
  <2>3. CASE /\ s \notin sources
             /\ ledger' = ledger \cup {NewEntry(s, n)}
             /\ sources' = sources \cup {s}
    <3>1. s \notin Consumed
      BY SourcesDisjoint DEF Consumed
    <3>2. NewEntry(s, n).source = s
      BY NewEntryType
    <3>3. \A e \in ledger : e.source # s
      BY <2>3, <3>1 DEF PostedOnce
    <3> QED
      BY <2>1, <2>3, <3>2, <3>3 DEF PostedOnce
  <2> QED
    BY <1>0, <2>2, <2>3, CreditEntryEffect
<1>1. ASSUME NEW s \in Grants, NEW n \in Amounts, GrantCredits(s, n)
      PROVE  PostedOnce'
  BY <1>0, <1>1, GrantPosts DEF GrantCredits
<1>2. ASSUME NEW e \in Purchases, PostPurchase(e)
      PROVE  PostedOnce'
  BY <1>0, <1>2, EventPosts DEF PostPurchase, Events
<1>3. ASSUME NEW e \in Reversals, ReversePurchase(e)
      PROVE  PostedOnce'
  BY <1>0, <1>3, EventPosts DEF ReversePurchase, Events
<1>4. ASSUME NEW r \in Requests, NEW p \in Properties, NewReservation(r, p)
      PROVE  PostedOnce'
  BY <1>4, NewReservationSets DEF PostedOnce, NewReservation
<1>5. ASSUME NEW r \in Requests, ConsumeReservation(r)
      PROVE  PostedOnce'
  <2>1. /\ Consumed' = Consumed \cup {r} /\ r \notin Consumed
        /\ ledger' = ledger \cup {NewEntry(r, -1)} /\ sources' = sources
    BY <1>5, ConsumeSets DEF ConsumeReservation
  <2>2. r \notin sources
    BY SourcesDisjoint DEF TypeOK
  <2>3. NewEntry(r, -1).source = r
    BY DEF NewEntry
  <2>4. \A e \in ledger : e.source # r
    BY <2>1, <2>2 DEF PostedOnce
  <2> QED
    BY <2>1, <2>3, <2>4 DEF PostedOnce
<1>6. ASSUME NEW r \in Requests, ReleaseReservation(r)
      PROVE  PostedOnce'
  BY <1>6, ReleaseSets DEF PostedOnce, ReleaseReservation
<1>7. CASE UNCHANGED creditVars
  BY <1>7, SameSets DEF creditVars, PostedOnce
<1> QED
  BY StepCases, <1>1, <1>2, <1>3, <1>4, <1>5, <1>6, <1>7
  DEF RecordPurchase, WebhookCrash, vars, creditVars

LEMMA ReversalStep ==
  ASSUME TypeOK, ReversalFollowsPurchase, [Next]_vars
  PROVE  ReversalFollowsPurchase'
<1>1. ASSUME NEW s \in Grants, NEW n \in Amounts, GrantCredits(s, n)
      PROVE  ReversalFollowsPurchase'
  <2>1. s \in Sources /\ n \in Int /\ s \notin Events
    BY PostedAmounts, SourcesDisjoint DEF Sources
  <2>2. sources' = sources \/ sources' = sources \cup {s}
    BY <1>1, <2>1, CreditEntryEffect DEF GrantCredits
  <2>3. UNCHANGED webhookVars
    BY <1>1 DEF GrantCredits
  <2> QED
    BY <2>1, <2>2, <2>3 DEF ReversalFollowsPurchase, webhookVars, Events
<1>2. ASSUME NEW e \in Purchases, PostPurchase(e)
      PROVE  ReversalFollowsPurchase'
  <2>1. /\ Quantity[PaymentOf[e]] \in Int /\ e \in Sources
        /\ e \notin Reversals
    BY PostedAmounts, SourceAssumption DEF Sources, Events
  <2>2. sources' = sources \cup {e}
    BY <1>2, <2>1, CreditEntryEffect DEF PostPurchase
  <2> QED
    BY <1>2, <2>1, <2>2 DEF ReversalFollowsPurchase, PostPurchase
<1>3. ASSUME NEW e \in Reversals, ReversePurchase(e)
      PROVE  ReversalFollowsPurchase'
  <2>1. -Quantity[PaymentOf[e]] \in Int /\ e \in Sources /\ e \notin Purchases
    BY PostedAmounts, SourceAssumption DEF Sources, Events
  <2>2. sources' = sources \cup {e}
    BY <1>3, <2>1, CreditEntryEffect DEF ReversePurchase
  <2> QED
    BY <1>3, <2>1, <2>2 DEF ReversalFollowsPurchase, ReversePurchase
<1>4. ASSUME NEW e \in Purchases, RecordPurchase(e) \/ WebhookCrash(e)
      PROVE  ReversalFollowsPurchase'
  BY <1>4 DEF ReversalFollowsPurchase, RecordPurchase, WebhookCrash, creditVars
<1>5. CASE UNCHANGED <<sources, transactions, recording, acked>>
  BY <1>5 DEF ReversalFollowsPurchase
<1> QED
  BY StepCases, <1>1, <1>2, <1>3, <1>4, <1>5
  DEF NewReservation, ConsumeReservation, ReleaseReservation, webhookVars, vars

-----------------------------------------------------------------------------
(* Sums over the ledger.  The fold takes the entries in the order in which *)
(* CHOOSE picks them; the lemmas show that the order does not matter.      *)

\* The entry the fold takes first.
First(s) == CHOOSE x \in s : TRUE

\* g is the recursive function that the fold over U defines.
Sums(g, U) ==
  g = [s \in SUBSET U |-> IF s = {} THEN 0 ELSE First(s).amount + g[s \ {First(s)}]]

LEMMA SumsAt ==
  ASSUME NEW U, NEW g, Sums(g, U), NEW s \in SUBSET U
  PROVE  /\ s = {} => g[s] = 0
         /\ s # {} => First(s) \in s /\ g[s] = First(s).amount + g[s \ {First(s)}]
<1>1. g[s] = IF s = {} THEN 0 ELSE First(s).amount + g[s \ {First(s)}]
  BY DEF Sums
<1>2. s # {} => First(s) \in s
  BY DEF First
<1> QED BY <1>1, <1>2

\* A set of numbers has a least one.
LEMMA LeastNumber ==
  ASSUME NEW T \in SUBSET Nat, T # {}
  PROVE  \E n \in T : \A m \in T : n <= m
<1> DEFINE Less == {ss \in Nat \X Nat : ss[1] < ss[2]}
<1>1. IsWellFoundedOn(Less, Nat)
  BY NatLessThanWellFounded DEF OpToRel
<1>2. PICK n \in T : \A m \in T : ~ (<<m, n>> \in Less)
  <2> HIDE DEF Less
  <2> QED BY <1>1, WFMin
<1>3. ASSUME NEW m \in T PROVE n <= m
  <2>1. m \in Nat /\ n \in Nat /\ ~ (m < n)
    BY <1>2
  <2> QED BY <2>1
<1> QED BY <1>3

\* Induction over the subsets of a finite set: if some of them are bad, there is
\* a bad one whose proper subsets are not.
LEMMA SmallestSubset ==
  ASSUME NEW U, IsFiniteSet(U), NEW Bad \in SUBSET (SUBSET U), Bad # {}
  PROVE  \E s \in Bad : \A t \in Bad : t \subseteq s => t = s
<1> DEFINE Sizes == {Cardinality(s) : s \in Bad}
<1>1. ASSUME NEW s \in Bad PROVE IsFiniteSet(s) /\ Cardinality(s) \in Nat
  BY FS_Subset, FS_CardinalityType
<1>2. Sizes \in SUBSET Nat /\ Sizes # {}
  BY <1>1
<1>3. PICK n \in Sizes : \A m \in Sizes : n <= m
  <2> HIDE DEF Sizes
  <2> QED BY <1>2, LeastNumber
<1>4. PICK s \in Bad : n = Cardinality(s)
  OBVIOUS
<1>5. ASSUME NEW t \in Bad, t \subseteq s PROVE t = s
  <2>1. Cardinality(s) <= Cardinality(t)
    BY <1>3, <1>4
  <2>2. IsFiniteSet(s) /\ Cardinality(s) \in Nat /\ Cardinality(t) \in Nat
    BY <1>1
  <2>3. Cardinality(t) <= Cardinality(s) /\ (Cardinality(s) = Cardinality(t) => s = t)
    BY <2>2, <1>5, FS_Subset
  <2> QED BY <2>1, <2>2, <2>3
<1> QED BY <1>5

\* Sums of integers are integers.
LEMMA SumsAreIntegers ==
  ASSUME NEW U, IsFiniteSet(U), \A e \in U : e.amount \in Int, NEW g, Sums(g, U)
  PROVE  \A s \in SUBSET U : g[s] \in Int
<1> DEFINE Bad == {s \in SUBSET U : g[s] \notin Int}
<1> SUFFICES ASSUME Bad # {} PROVE FALSE
  OBVIOUS
<1>1. PICK s \in Bad : \A t \in Bad : t \subseteq s => t = s
  <2>1. Bad \in SUBSET (SUBSET U)
    OBVIOUS
  <2> HIDE DEF Bad
  <2> QED BY <2>1, SmallestSubset
<1>2. s \in SUBSET U /\ g[s] \notin Int
  OBVIOUS
<1> DEFINE x == First(s)
<1>3. s # {} /\ x \in s /\ g[s] = x.amount + g[s \ {x}]
  <2> HIDE DEF Bad
  <2>1. s = {} => g[s] = 0
    BY <1>2, SumsAt
  <2> QED BY <1>2, <2>1, SumsAt
<1>4. g[s \ {x}] \in Int
  BY <1>1, <1>3
<1>5. x.amount \in Int
  BY <1>3
<1> QED BY <1>3, <1>4, <1>5

\* A sum depends on its entries only.
LEMMA SumsAgree ==
  ASSUME NEW U, NEW V, IsFiniteSet(V), NEW g, NEW h, Sums(g, U), Sums(h, V), V \subseteq U
  PROVE  g[V] = h[V]
<1> DEFINE Bad == {s \in SUBSET V : g[s] # h[s]}
<1> SUFFICES ASSUME Bad # {} PROVE FALSE
  OBVIOUS
<1>1. PICK s \in Bad : \A t \in Bad : t \subseteq s => t = s
  <2>1. Bad \in SUBSET (SUBSET V)
    OBVIOUS
  <2> HIDE DEF Bad
  <2> QED BY <2>1, SmallestSubset
<1>2. s \in SUBSET U /\ s \in SUBSET V
  OBVIOUS
<1>3. s # {}
  BY <1>2, SumsAt
<1> DEFINE x == First(s)
<1>4. x \in s /\ g[s] = x.amount + g[s \ {x}] /\ h[s] = x.amount + h[s \ {x}]
  BY <1>2, <1>3, SumsAt
<1>5. g[s \ {x}] = h[s \ {x}]
  BY <1>1, <1>4
<1> QED BY <1>4, <1>5

\* It does not matter which entry is taken first.
LEMMA SumsInAnyOrder ==
  ASSUME NEW U, IsFiniteSet(U), \A e \in U : e.amount \in Int, NEW g, Sums(g, U)
  PROVE  \A s \in SUBSET U : \A e \in s : g[s] = e.amount + g[s \ {e}]
<1> DEFINE Bad == {s \in SUBSET U : \E e \in s : g[s] # e.amount + g[s \ {e}]}
<1> SUFFICES ASSUME Bad # {} PROVE FALSE
  OBVIOUS
<1>1. PICK s \in Bad : \A t \in Bad : t \subseteq s => t = s
  <2>1. Bad \in SUBSET (SUBSET U)
    OBVIOUS
  <2> HIDE DEF Bad
  <2> QED BY <2>1, SmallestSubset
<1>2. PICK e \in s : g[s] # e.amount + g[s \ {e}]
  OBVIOUS
<1> DEFINE x == First(s)
<1>3. x \in s /\ g[s] = x.amount + g[s \ {x}]
  <2>1. s \in SUBSET U /\ s # {}
    OBVIOUS
  <2> HIDE DEF Bad
  <2> QED BY <2>1, SumsAt
<1>4. x # e
  BY <1>2, <1>3
<1> HIDE DEF x
<1>5. s \ {x} \notin Bad /\ s \ {e} \notin Bad
  BY <1>1, <1>3
<1>6. g[s \ {x}] = e.amount + g[(s \ {x}) \ {e}]
  BY <1>4, <1>5
<1>7. g[s \ {e}] = x.amount + g[(s \ {e}) \ {x}]
  BY <1>3, <1>4, <1>5
<1>8. (s \ {e}) \ {x} = (s \ {x}) \ {e}
  OBVIOUS
<1> DEFINE rest == (s \ {x}) \ {e}
<1>9. g[rest] \in Int /\ x.amount \in Int /\ e.amount \in Int
  BY <1>3, SumsAreIntegers
<1> HIDE DEF rest, Bad
<1>10. g[s] = x.amount + (e.amount + g[rest]) /\ g[s \ {e}] = x.amount + g[rest]
  BY <1>3, <1>6, <1>7, <1>8 DEF rest
<1>11. x.amount + (e.amount + g[rest]) = e.amount + (x.amount + g[rest])
  BY <1>9
<1> QED BY <1>2, <1>10, <1>11

\* The fold is the value of such a function.
LEMMA FoldSums ==
  ASSUME NEW S, NEW g, Sums(g, S)
  PROVE  \E h : Sums(h, S) /\ EntrySum(S) = h[S]
<1> DEFINE iter == CHOOSE h : Sums(h, S)
<1>1. Sums(iter, S)
  OBVIOUS
<1>2. EntrySum(S) = iter[S]
  BY DEF EntrySum, MapThenSumSet, MapThenFoldSet, Sums, First
<1> QED BY <1>1, <1>2

\* So that every function of that kind gives the fold.
LEMMA FoldIs ==
  ASSUME NEW U, NEW S \in SUBSET U, IsFiniteSet(S), NEW g, Sums(g, U), NEW f, Sums(f, S)
  PROVE  EntrySum(S) = g[S]
<1>1. PICK h : Sums(h, S) /\ EntrySum(S) = h[S]
  BY FoldSums
<1>2. g[S] = h[S]
  BY <1>1, SumsAgree
<1> QED BY <1>1, <1>2

\* Over a finite set the fold is defined.
LEMMA SumsExist ==
  ASSUME NEW U, IsFiniteSet(U)
  PROVE  \E g : Sums(g, U)
<1> DEFINE Bad == {s \in SUBSET U : ~ \E g : Sums(g, s)}
<1> SUFFICES ASSUME Bad # {} PROVE FALSE
  OBVIOUS
<1>1. PICK s \in Bad : \A t \in Bad : t \subseteq s => t = s
  <2>1. Bad \in SUBSET (SUBSET U)
    OBVIOUS
  <2> HIDE DEF Bad
  <2> QED BY <2>1, SmallestSubset
<1>2. ASSUME NEW t \in SUBSET s, t # s PROVE IsFiniteSet(t) /\ \E g : Sums(g, t)
  <2>1. t \in SUBSET U /\ t \notin Bad
    BY <1>1, <1>2
  <2>2. IsFiniteSet(t)
    BY <2>1, FS_Subset
  <2> QED BY <2>1, <2>2
<1> DEFINE h == [t \in SUBSET s |-> IF t = {} THEN 0
                                  ELSE First(t).amount + EntrySum(t \ {First(t)})]
<1>3. ASSUME NEW t \in SUBSET s, t # s PROVE h[t] = EntrySum(t)
  <2>1. PICK g : Sums(g, t)
    BY <1>2, <1>3
  <2>2. IsFiniteSet(t) /\ EntrySum(t) = g[t]
    BY <1>2, <1>3, <2>1, FoldIs
  <2>3. CASE t = {}
    BY <2>1, <2>2, <2>3, SumsAt
  <2>4. CASE t # {}
    <3> DEFINE u == t \ {First(t)}
    <3>1. First(t) \in t /\ g[t] = First(t).amount + g[u]
      BY <2>1, <2>4, SumsAt
    <3>2. u \in SUBSET t /\ u \in SUBSET s /\ u # s
      BY <3>1
    <3>3. PICK f : Sums(f, u)
      BY <1>2, <3>2
    <3>4. IsFiniteSet(u)
      BY <1>2, <3>2
    <3>5. EntrySum(u) = g[u]
      <4> HIDE DEF u
      <4> QED BY <2>1, <3>2, <3>3, <3>4, FoldIs
    <3>6. h[t] = First(t).amount + EntrySum(u)
      BY <2>4
    <3> QED BY <2>2, <3>1, <3>5, <3>6
  <2> QED BY <2>3, <2>4
<1>4. ASSUME NEW t \in SUBSET s
      PROVE  h[t] = IF t = {} THEN 0 ELSE First(t).amount + h[t \ {First(t)}]
  <2>1. CASE t = {}
    BY <2>1
  <2>2. CASE t # {}
    <3> DEFINE u == t \ {First(t)}
    <3>1. First(t) \in t
      BY <2>2 DEF First
    <3>2. u \in SUBSET s /\ u # s
      BY <3>1
    <3>3. h[u] = EntrySum(u)
      <4> HIDE DEF u, h
      <4> QED BY <1>3, <3>2
    <3>4. h[t] = First(t).amount + EntrySum(u)
      BY <2>2
    <3> QED BY <2>2, <3>3, <3>4
  <2> QED BY <2>1, <2>2
<1>5. h = [t \in SUBSET s |-> h[t]]
  OBVIOUS
<1>6. Sums(h, s)
  <2>1. h = [t \in SUBSET s |-> IF t = {} THEN 0 ELSE First(t).amount + h[t \ {First(t)}]]
    <3> HIDE DEF h
    <3> QED BY <1>4, <1>5
  <2> HIDE DEF h
  <2> QED BY <2>1 DEF Sums
<1> QED BY <1>6

\* A new entry adds its amount to the sum.
LEMMA SumWithEntry ==
  ASSUME NEW S, IsFiniteSet(S), NEW e, e \notin S, \A x \in S \cup {e} : x.amount \in Int
  PROVE  EntrySum(S \cup {e}) = EntrySum(S) + e.amount
<1> DEFINE U == S \cup {e}
<1>1. IsFiniteSet(U) /\ U \ {e} = S /\ S \in SUBSET U
  BY FS_AddElement
<1>2. PICK g : Sums(g, U)
  BY <1>1, SumsExist
<1>3. PICK f : Sums(f, S)
  BY SumsExist
<1>4. EntrySum(U) = g[U] /\ EntrySum(S) = g[S]
  <2> HIDE DEF U
  <2> QED BY <1>1, <1>2, <1>3, FoldIs
<1>5. g[U] = e.amount + g[S]
  <2>1. e \in U /\ U \in SUBSET U /\ \A x \in U : x.amount \in Int
    OBVIOUS
  <2> HIDE DEF U
  <2> QED BY <1>1, <1>2, <2>1, SumsInAnyOrder
<1>6. g[S] \in Int /\ e.amount \in Int
  BY <1>1, <1>2, SumsAreIntegers
<1> QED BY <1>4, <1>5, <1>6

\* The sum over nothing.
LEMMA SumOfNothing == EntrySum({}) = 0
<1>1. IsFiniteSet({})
  BY FS_EmptySet
<1>2. PICK g : Sums(g, {})
  BY <1>1, SumsExist
<1>3. EntrySum({}) = g[{}]
  BY <1>1, <1>2, FoldIs
<1> QED BY <1>2, <1>3, SumsAt

\* The sum over finitely many entries is a number.
LEMMA SumIsInteger ==
  ASSUME NEW S, IsFiniteSet(S), \A x \in S : x.amount \in Int
  PROVE  EntrySum(S) \in Int
<1>1. PICK g : Sums(g, S)
  BY SumsExist
<1>2. EntrySum(S) = g[S]
  BY <1>1, FoldIs
<1> QED BY <1>1, <1>2, SumsAreIntegers

-----------------------------------------------------------------------------
(* The ledger adds up.                                                     *)

\* A transaction that posts a new source adds its amount to the sum.
LEMMA SumWhenPosted ==
  ASSUME LedgerInv, NEW s \in Sources \cup Requests, NEW n \in Int,
         s \notin sources \cup Consumed, ledger' = ledger \cup {NewEntry(s, n)}
  PROVE  EntrySum(ledger') = EntrySum(ledger) + n /\ EntrySum(ledger) \in Int
<1> DEFINE e == NewEntry(s, n)
<1>1. IsFiniteSet(ledger) /\ \A x \in ledger : x.amount \in Int
  BY DEF LedgerInv, ReservedKnown, TypeOK, Entry
<1>2. e.source = s /\ e.amount = n
  BY DEF NewEntry
<1>3. e \notin ledger
  BY <1>2 DEF LedgerInv, PostedOnce
<1> HIDE DEF e
<1>4. EntrySum(ledger \cup {e}) = EntrySum(ledger) + e.amount
  BY <1>1, <1>2, <1>3, SumWithEntry
<1>5. EntrySum(ledger) \in Int
  BY <1>1, SumIsInteger
<1> QED BY <1>2, <1>4, <1>5 DEF e

\* Every transaction changes the ledger, the balance and the credits held together.
LEMMA AgreesStep ==
  ASSUME LedgerInv, LedgerAgrees, [Next]_vars
  PROVE  LedgerAgrees'
<1> USE CountedSetsFinite
<1>1. available \in Int /\ EntrySum(ledger) \in Int /\ TypeOK /\ ReservedKnown
  <2>1. IsFiniteSet(ledger) /\ \A x \in ledger : x.amount \in Int
    BY DEF LedgerInv, ReservedKnown, TypeOK, Entry
  <2> QED BY <2>1, SumIsInteger DEF LedgerInv, TypeOK
<1>2. ASSUME ledger' = ledger, available' = available, Held' = Held PROVE LedgerAgrees'
  BY <1>2 DEF LedgerAgrees
<1>3. ASSUME NEW s \in Sources, NEW n \in Int, NEW c \in BOOLEAN, CreditEntry(s, n, c)
      PROVE  LedgerAgrees'
  <2>1. Held' = Held
    BY <1>3, CreditEntryEffect, SameSets
  <2>2. CASE UNCHANGED <<available, ledger, sources, credited>>
    BY <1>2, <2>1, <2>2
  <2>3. CASE /\ s \notin sources
             /\ ledger' = ledger \cup {NewEntry(s, n)}
             /\ available' = available + n
    <3>1. s \notin sources \cup Consumed
      BY <2>3, SourcesDisjoint DEF Consumed
    <3>2. EntrySum(ledger') = EntrySum(ledger) + n
      BY <2>3, <3>1, SumWhenPosted
    <3> QED BY <1>1, <2>1, <2>3, <3>2 DEF LedgerAgrees
  <2> QED BY <1>3, <2>2, <2>3, CreditEntryEffect
<1>4. ASSUME NEW s \in Grants, NEW n \in Amounts, GrantCredits(s, n)
      PROVE  LedgerAgrees'
  BY <1>3, <1>4, GrantPosts DEF GrantCredits
<1>5. ASSUME NEW e \in Purchases, PostPurchase(e)
      PROVE  LedgerAgrees'
  BY <1>3, <1>5, EventPosts DEF PostPurchase, Events
<1>6. ASSUME NEW e \in Reversals, ReversePurchase(e)
      PROVE  LedgerAgrees'
  BY <1>3, <1>6, EventPosts DEF ReversePurchase, Events
<1>7. ASSUME NEW r \in Requests, NEW p \in Properties, NewReservation(r, p)
      PROVE  LedgerAgrees'
  <2>1. Cardinality(Held') = Cardinality(Held) + 1
    BY <1>1, <1>7, NewReservationSets, FS_AddElement
  <2> QED BY <1>1, <1>7, <2>1 DEF LedgerAgrees, NewReservation
<1>8. ASSUME NEW r \in Requests, ConsumeReservation(r)
      PROVE  LedgerAgrees'
  <2>1. Cardinality(Held') = Cardinality(Held) - 1
    BY <1>1, <1>8, ConsumeSets, FS_RemoveElement
  <2>2. r \notin sources \cup Consumed
    BY <1>1, <1>8, ConsumeSets, SourcesDisjoint DEF TypeOK
  <2>3. EntrySum(ledger') = EntrySum(ledger) + (-1)
    BY <1>8, <2>2, SumWhenPosted DEF ConsumeReservation
  <2> QED BY <1>1, <1>8, <2>1, <2>3 DEF LedgerAgrees, ConsumeReservation
<1>9. ASSUME NEW r \in Requests, ReleaseReservation(r)
      PROVE  LedgerAgrees'
  <2>1. Cardinality(Held') = Cardinality(Held) - 1
    BY <1>1, <1>9, ReleaseSets, FS_RemoveElement
  <2> QED BY <1>1, <1>9, <2>1 DEF LedgerAgrees, ReleaseReservation
<1>10. CASE UNCHANGED creditVars
  BY <1>2, <1>10, SameSets DEF creditVars
<1> QED
  BY StepCases, <1>4, <1>5, <1>6, <1>7, <1>8, <1>9, <1>10
  DEF RecordPurchase, WebhookCrash, vars, creditVars

\* The empty ledger and the empty balance agree.
LEMMA AgreesInit == Init => LedgerAgrees
<1> SUFFICES ASSUME Init PROVE LedgerAgrees
  OBVIOUS
<1>1. ledger = {} /\ available = 0 /\ Held = {}
  BY DEF Init, CreditInit, NoReservation, Held
<1> QED BY <1>1, SumOfNothing, FS_EmptySet DEF LedgerAgrees

-----------------------------------------------------------------------------
(* Theorems.                                                               *)

\* The inductive invariant holds of every reachable state of the ledger.
THEOREM LedgerInvariant == Spec => []LedgerInv
<1>1. Init => LedgerInv
  BY InitInv
<1>2. LedgerInv /\ [Next]_vars => LedgerInv'
  BY TypeStep, ChargedStep, BalanceStep, PostedStep, ReversalStep DEF LedgerInv
<1> QED
  BY <1>1, <1>2, PTL DEF Spec

\* Every document keeps the shape the repository writes.
THEOREM TypeCorrect == Spec => []TypeOK
BY LedgerInvariant, PTL DEF LedgerInv

\* For any number of concurrent requests, grants, purchases and reversals, the
\* balance document never gains or loses a credit (creditEntry, reserveCredit
\* and completeReservation of the Firestore repository).
THEOREM BalanceIsConserved == Spec => []BalanceConserved
BY LedgerInvariant, PTL DEF LedgerInv

\* The immutable entries add up to the balance and the credits held, although no
\* transaction reads them: creditEntry and completeReservation post what they change.
THEOREM LedgerAddsUp == Spec => []LedgerAgrees
<1>1. LedgerInv /\ LedgerAgrees /\ [Next]_vars => LedgerAgrees'
  BY AgreesStep
<1> QED BY <1>1, AgreesInit, LedgerInvariant, PTL DEF Spec

\* A property is paid for by exactly one consumed reservation, the one its
\* entitlement names (completeReservation creates both in one transaction).
THEOREM PropertyChargedOnce == Spec => []ChargedOnce
BY LedgerInvariant, PTL DEF LedgerInv

\* Repeated deliveries and repeated grants post one ledger entry per source.
THEOREM SourcePostedOnce == Spec => []PostedOnce
BY LedgerInvariant, PTL DEF LedgerInv

\* Refunds and disputes apply to purchases on record only, and recorded
\* purchases have been posted (applyStripeEvent).
THEOREM ReversalsAreOrdered == Spec => []ReversalFollowsPurchase
BY LedgerInvariant, PTL DEF LedgerInv

\* The ledger is append-only and a completed reservation or an entitlement is
\* never changed again, in any step from a reachable state.
THEOREM HistoryIsImmutable == Spec => HistoryImmutable
<1> DEFINE A == /\ ledger \subseteq ledger'
                /\ \A r \in Consumed \cup Released : reservation'[r] = reservation[r]
                /\ \A p \in Unlocked : entitlement'[p] = entitlement[p]
<1>1. ASSUME LedgerInv, [Next]_vars PROVE A
  <2>1. TypeOK /\ ReservedKnown
    BY <1>1 DEF LedgerInv
  <2>2. ASSUME NEW r \in Requests, NEW p \in Properties, NewReservation(r, p)
        PROVE  A
    BY <2>1, <2>2, NewReservationSets DEF TypeOK, NewReservation, Consumed, Released
  <2>3. ASSUME NEW r \in Requests, ConsumeReservation(r)
        PROVE  A
    BY <2>1, <2>3, ConsumeSets DEF TypeOK, ConsumeReservation, Consumed, Released, Unlocked
  <2>4. ASSUME NEW r \in Requests, ReleaseReservation(r)
        PROVE  A
    BY <2>1, <2>4, ReleaseSets DEF TypeOK, ReleaseReservation, Consumed, Released
  <2>5. CASE UNCHANGED <<reservation, entitlement>> /\ ledger \subseteq ledger'
    BY <2>5
  <2>6. ledger \subseteq ledger'
    <3>0. ASSUME NEW s \in Sources, NEW n \in Int, NEW c \in BOOLEAN,
                 CreditEntry(s, n, c)
          PROVE  ledger \subseteq ledger'
      <4>1. ledger' = ledger \/ ledger' = ledger \cup {NewEntry(s, n)}
        BY <3>0, CreditEntryEffect
      <4> QED
        BY <4>1
    <3>1. ASSUME NEW s \in Grants, NEW n \in Amounts, GrantCredits(s, n)
          PROVE  ledger \subseteq ledger'
      BY <3>0, <3>1, GrantPosts DEF GrantCredits
    <3>2. ASSUME NEW e \in Purchases, PostPurchase(e)
          PROVE  ledger \subseteq ledger'
      BY <3>0, <3>2, EventPosts DEF PostPurchase, Events
    <3>3. ASSUME NEW e \in Reversals, ReversePurchase(e)
          PROVE  ledger \subseteq ledger'
      BY <3>0, <3>3, EventPosts DEF ReversePurchase, Events
    <3> QED
      BY <1>1, StepCases, <3>1, <3>2, <3>3
      DEF NewReservation, ConsumeReservation, ReleaseReservation,
          RecordPurchase, WebhookCrash, vars, creditVars
  <2> QED
    BY <1>1, UntouchedStep, <2>2, <2>3, <2>4, <2>5, <2>6
<1> QED
  BY <1>1, LedgerInvariant, PTL DEF Spec, HistoryImmutable

\* No reservation, purchase or grant pushes the balance below zero: a step that
\* does is a refund or a dispute.
THEOREM OverdraftIsReversal == Spec => OnlyReversalsOverdraw
<1> DEFINE A == available' < available /\ available' < 0
                  => \E e \in Reversals : e \in sources' \ sources
<1>1. ASSUME LedgerInv, [Next]_vars PROVE A
  <2>1. available \in Int
    BY <1>1 DEF LedgerInv, TypeOK
  <2>2. ASSUME NEW s \in Sources, NEW n \in Int, CreditEntry(s, n, FALSE)
        PROVE  A
    <3>1. UNCHANGED available \/ (available + n >= 0 /\ available' = available + n)
      BY <2>2, CreditEntryEffect
    <3> QED
      BY <2>1, <3>1
  <2>3. ASSUME NEW s \in Grants, NEW n \in Amounts, GrantCredits(s, n)
        PROVE  A
    BY <2>2, <2>3, GrantPosts DEF GrantCredits
  <2>4. ASSUME NEW e \in Purchases, PostPurchase(e)
        PROVE  A
    BY <2>2, <2>4, EventPosts DEF PostPurchase, Events
  <2>5. ASSUME NEW e \in Reversals, ReversePurchase(e)
        PROVE  A
    <3>1. e \in Sources /\ -Quantity[PaymentOf[e]] \in Int
      BY PostedAmounts DEF Sources, Events
    <3>2. UNCHANGED available \/ e \in sources' \ sources
      BY <2>5, <3>1, CreditEntryEffect DEF ReversePurchase
    <3> QED
      BY <2>1, <3>2
  <2>6. ASSUME NEW r \in Requests, NEW p \in Properties, NewReservation(r, p)
        PROVE  A
    BY <2>1, <2>6 DEF NewReservation
  <2>7. ASSUME NEW r \in Requests, ReleaseReservation(r)
        PROVE  A
    BY <2>1, <2>7 DEF ReleaseReservation
  <2>8. CASE UNCHANGED available
    BY <2>1, <2>8
  <2> QED
    BY <1>1, StepCases, <2>3, <2>4, <2>5, <2>6, <2>7, <2>8
    DEF ConsumeReservation, RecordPurchase, WebhookCrash, vars, creditVars
<1> QED
  BY <1>1, LedgerInvariant, PTL DEF Spec, OnlyReversalsOverdraw

-----------------------------------------------------------------------------
(* Refinement.                                                             *)

\* The initial documents are an empty account.
LEMMA AccountStarts == Init => Account!AccountInit
<1> SUFFICES ASSUME Init PROVE Account!AccountInit
  OBVIOUS
<1>1. Held = {} /\ Unlocked = {} /\ Consumed = {} /\ Released = {}
  BY DEF Init, CreditInit, NoReservation, Held, Unlocked, Consumed, Released
<1>2. Spendable = 0
  BY <1>1, FS_EmptySet DEF Init, CreditInit, Spendable
<1> QED
  BY <1>1, <1>2 DEF Init, CreditInit, Account!AccountInit

\* An entry is a posting of its source, or the source was posted before.
LEMMA EntryPosts ==
  ASSUME LedgerInv, LedgerInv', NEW s \in Sources, NEW n \in Int, n \in Worth[s],
         NEW c \in BOOLEAN, CreditEntry(s, n, c), n < 0 \/ ~c
  PROVE  [Account!AccountNext]_Account!accountVars
<1>1. Held' = Held /\ Unlocked' = Unlocked
      /\ Consumed' \cup Released' = Consumed \cup Released
  BY CreditEntryEffect, SameSets
<1>2. available = Spendable /\ available' = Spendable' /\ available \in Int
  BY DEF LedgerInv, TypeOK, BalanceConserved
<1>3. CASE s \in sources
  <2>1. sources' = sources /\ Spendable' = Spendable
    BY <1>2, <1>3, CreditEntryEffect
  <2> QED
    BY <1>1, <2>1 DEF Account!accountVars
<1>4. CASE s \notin sources
  <2>1. /\ n < 0 \/ Spendable + n >= 0
        /\ Spendable' = Spendable + n
        /\ sources' = sources \cup {s}
    BY <1>2, <1>4, CreditEntryEffect
  <2>2. Account!Post(s, n)
    BY <1>1, <1>4, <2>1 DEF Account!Post
  <2> QED
    BY <2>2 DEF Account!AccountNext
<1> QED
  BY <1>3, <1>4

\* What the three kinds of entries post is what their sources are worth.
LEMMA EntriesWorth ==
  /\ \A s \in Grants : Amounts = Worth[s]
  /\ \A e \in Purchases : Quantity[PaymentOf[e]] \in Worth[e]
  /\ \A e \in Reversals : /\ -Quantity[PaymentOf[e]] \in Worth[e]
                          /\ -Quantity[PaymentOf[e]] < 0
<1>1. ASSUME NEW e \in Reversals PROVE -Quantity[PaymentOf[e]] < 0
  <2>1. PICK q \in 1..1000 : q = Quantity[PaymentOf[e]]
    BY PostedAmounts DEF Events
  <2> QED
    BY <2>1
<1>2. \A s \in Grants : s \in Sources
  BY DEF Sources
<1>3. \A e \in Purchases : e \in Sources /\ e \notin Grants
  BY SourceAssumption DEF Sources, Events
<1>4. \A e \in Reversals : e \in Sources /\ e \notin Grants /\ e \notin Purchases
  BY SourceAssumption DEF Sources, Events
<1> QED
  BY <1>1, <1>2, <1>3, <1>4 DEF Worth

\* Every transaction is a step of the account: an entry is a posting, a new
\* reservation a hold, and a completed one an unlock or a giving back.
LEMMA AccountSteps ==
  ASSUME LedgerInv, LedgerInv', [Next]_vars
  PROVE  [Account!AccountNext]_Account!accountVars
<1>1. CASE UNCHANGED creditVars
  <2>1. Held' = Held /\ Unlocked' = Unlocked /\ Consumed' = Consumed /\ Released' = Released
        /\ sources' = sources
    BY <1>1, SameSets DEF creditVars
  <2>2. Spendable' = Spendable
    BY <1>1, <2>1 DEF Spendable, creditVars
  <2> QED
    BY <2>1, <2>2 DEF Account!accountVars
<1>2. ASSUME NEW s \in Grants, NEW n \in Amounts, GrantCredits(s, n)
      PROVE  [Account!AccountNext]_Account!accountVars
  BY <1>2, GrantPosts, EntriesWorth, EntryPosts DEF GrantCredits
<1>3. ASSUME NEW e \in Purchases, PostPurchase(e)
      PROVE  [Account!AccountNext]_Account!accountVars
  BY <1>3, EventPosts, EntriesWorth, EntryPosts DEF PostPurchase, Events
<1>4. ASSUME NEW e \in Reversals, ReversePurchase(e)
      PROVE  [Account!AccountNext]_Account!accountVars
  BY <1>4, EventPosts, EntriesWorth, EntryPosts DEF ReversePurchase, Events
<1> USE DEF LedgerInv
<1>5. ASSUME NEW r \in Requests, NEW p \in Properties, NewReservation(r, p)
      PROVE  [Account!AccountNext]_Account!accountVars
  <2>1. Spendable >= 1 /\ Spendable' = Spendable - 1
    BY <1>5 DEF TypeOK, BalanceConserved, NewReservation
  <2>2. /\ Held' = Held \cup {r} /\ r \notin Held
        /\ Consumed' = Consumed /\ Released' = Released
        /\ r \notin Consumed \cup Released /\ Unlocked' = Unlocked
    BY <1>5, NewReservationSets
  <2>3. Account!Hold(r)
    BY <1>5, <2>1, <2>2 DEF NewReservation, Account!Hold
  <2> QED
    BY <2>3 DEF Account!AccountNext
<1>6. ASSUME NEW r \in Requests, ConsumeReservation(r)
      PROVE  [Account!AccountNext]_Account!accountVars
  <2> DEFINE p == reservation[r].property
  <2>1. /\ Held' = Held \ {r} /\ r \in Held
        /\ Consumed' \cup Released' = Consumed \cup Released \cup {r}
        /\ p \in Properties /\ Unlocked' = Unlocked \cup {p} /\ p \notin Unlocked
    BY <1>6, ConsumeSets
  <2>2. Spendable' = Spendable
    BY <1>6 DEF TypeOK, BalanceConserved, ConsumeReservation
  <2>3. Account!Unlock(r, p)
    BY <1>6, <2>1, <2>2 DEF ConsumeReservation, Account!Unlock
  <2> QED
    BY <2>1, <2>3 DEF Account!AccountNext
<1>7. ASSUME NEW r \in Requests, ReleaseReservation(r)
      PROVE  [Account!AccountNext]_Account!accountVars
  <2>1. /\ Held' = Held \ {r} /\ r \in Held
        /\ Consumed' \cup Released' = Consumed \cup Released \cup {r}
        /\ Unlocked' = Unlocked
    BY <1>7, ReleaseSets
  <2>2. Spendable' = Spendable + 1
    BY <1>7 DEF TypeOK, BalanceConserved, ReleaseReservation
  <2>3. Account!GiveBack(r)
    BY <1>7, <2>1, <2>2 DEF ReleaseReservation, Account!GiveBack
  <2> QED
    BY <2>3 DEF Account!AccountNext
<1> QED
  BY <1>1, <1>2, <1>3, <1>4, <1>5, <1>6, <1>7, StepCases
  DEF RecordPurchase, WebhookCrash, vars, creditVars

\* The Firestore documents implement the account the customer is promised.
THEOREM LedgerImplementsAccount == Spec => ImplementsAccount
<1>1. Init => Account!AccountInit
  BY AccountStarts
<1>2. LedgerInv /\ LedgerInv' /\ [Next]_vars
        => [Account!AccountNext]_Account!accountVars
  BY AccountSteps
<1> QED
  BY <1>1, <1>2, LedgerInvariant, PTL
  DEF Spec, ImplementsAccount, Account!AccountSpec
=============================================================================
