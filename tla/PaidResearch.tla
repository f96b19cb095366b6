----------------------------- MODULE PaidResearch -----------------------------
(***************************************************************************)
(* The paid research route, POST /api/property-research/research of        *)
(* src/src/auth/netlify-auth.js, for an organization that pays with        *)
(* credits: the composition of ProviderResearch (the research service) and *)
(* CreditLedger (the commercial service).  A handler                       *)
(*                                                                         *)
(*   1. asks the research service for the credit key of the approval,      *)
(*   2. reserves a credit under the request identity of the approval,      *)
(*   3. runs research(),                                                   *)
(*   4. consumes the reservation if the result is usable, else releases    *)
(*      it; any exception on the way releases it too.                      *)
(*                                                                         *)
(* The reservation belongs to the approval, not to the handler: two        *)
(* submissions of one approval find the same reservation.                  *)
(***************************************************************************)
EXTENDS ProviderResearch

CONSTANTS Grants,        \* source identities of complimentary grants
          Amounts,       \* the amounts granted
          None           \* an absent credit document

\* The bounds of CreditLedger, for the approvals and grants of this organization.
ASSUME PaidAssumption ==
  /\ IsFiniteSet(Approvals) /\ IsFiniteSet(Properties)
  /\ Grants \cap Approvals = {}
  /\ Amounts \subseteq 1..1000
  /\ None \notin Approvals \cup Properties

VARIABLES
  available, ledger, sources, reservation, entitlement, credited,
               \* the credit documents, see CreditLedger
  route,       \* each handler's place in the route and its reservation
  delivered,   \* auxiliary: approvals answered 200 with a usable analysis
  orphaned     \* auxiliary: approvals with a reservation whose handler was lost
               \* or could not give it back

creditVars == <<available, ledger, sources, reservation, entitlement, credited>>
paidVars   == <<researchVars, creditVars, route, delivered, orphaned>>

\* The ledger of the organization; no Stripe event happens in this module.
Credits == INSTANCE CreditLedger WITH
             Requests     <- Approvals,
             Purchases    <- {},
             Reversals    <- {},
             Payments     <- {},
             PaymentOf    <- <<>>,
             Quantity     <- <<>>,
             MaxCrashes   <- 0,
             transactions <- {},
             recording    <- {},
             acked        <- {},
             crashes      <- 0

Waiting == [pc |-> "idle", approval |-> "", key |-> "", reserved |-> FALSE]

PaidInit ==
  /\ Init
  /\ Credits!CreditInit
  /\ route = [h \in Handlers |-> Waiting]
  /\ delivered = {}
  /\ orphaned = {}

InRoute(h, pc) == route[h].pc = pc
Advances(h, pc) == route' = [route EXCEPT ![h].pc = pc]
Answer(h)      == route' = [route EXCEPT ![h] = Waiting]
Mine(h)        == route[h].approval

-----------------------------------------------------------------------------
(* The steps of the route.                                                 *)

\* creditKey: an approval that cannot be used is refused before any credit is
\* touched.
Submit(h, a, key) ==
  /\ InRoute(h, "idle")
  /\ Usable(a)
  /\ route' = [route EXCEPT ![h] =
                 [pc |-> "reserve", approval |-> a, key |-> key, reserved |-> FALSE]]
  /\ UNCHANGED <<researchVars, creditVars, delivered, orphaned>>

Property(h) == approval[Mine(h)].property

\* reserveCredit: an unlocked property needs no reservation, an earlier one of
\* the same approval is returned whatever has become of it.
ReserveCredit(h) ==
  /\ InRoute(h, "reserve")
  /\ \/ /\ Credits!AlreadyUnlocked(Property(h))
        /\ Advances(h, "research")
        /\ UNCHANGED creditVars
     \/ /\ ~Credits!AlreadyUnlocked(Property(h))
        /\ Credits!AlreadyRequested(Mine(h))
        /\ route' = [route EXCEPT ![h].pc = "research", ![h].reserved = TRUE]
        /\ UNCHANGED creditVars
     \/ /\ Credits!NewReservation(Mine(h), Property(h))
        /\ route' = [route EXCEPT ![h].pc = "research", ![h].reserved = TRUE]
  /\ UNCHANGED <<researchVars, delivered, orphaned>>

\* ANALYSIS_CREDIT_REQUIRED.
PaymentRequired(h) ==
  /\ InRoute(h, "reserve")
  /\ ~Credits!AlreadyUnlocked(Property(h))
  /\ ~Credits!AlreadyRequested(Mine(h))
  /\ available < 1
  /\ Answer(h)
  /\ UNCHANGED <<researchVars, creditVars, delivered, orphaned>>

BeginResearch(h) ==
  /\ InRoute(h, "research")
  /\ Call(h, Mine(h), route[h].key)
  /\ Advances(h, "await")
  /\ UNCHANGED <<creditVars, delivered, orphaned>>

\* research() has returned or thrown, with the given result.
Returned(h, results) ==
  /\ InRoute(h, "await")
  /\ At(h, "done")
  /\ job[h].result \in results
  /\ job' = [job EXCEPT ![h] = Idle]

\* Mutant: any result of research() counts as usable.
AnyResult == {"usable", "unusable"}

\* COMPLETE or PARTIAL with a property reference.
UsableResults == {"usable"}

\* Mutant: a usable analysis is delivered and its reservation forgotten.
DeliverOnly(h) ==
  /\ Returned(h, UsableResults)
  /\ Answer(h)
  /\ delivered' = delivered \cup {Mine(h)}
  /\ UNCHANGED <<researchDocs, researchAux, creditVars, orphaned>>

\* A usable analysis consumes the reservation.  A reservation that is completed
\* already is left as it is; if the property was unlocked meanwhile the
\* transaction aborts and the handler goes on in its catch clause.
SettleUsable(h) ==
  /\ Returned(h, UsableResults)
  /\ \/ /\ route[h].reserved
        /\ \/ Credits!ConsumeReservation(Mine(h))
           \/ reservation[Mine(h)].status # "RESERVED" /\ UNCHANGED creditVars
        /\ Answer(h)
        /\ delivered' = delivered \cup {Mine(h)}
     \/ /\ route[h].reserved
        /\ reservation[Mine(h)].status = "RESERVED"
        /\ Credits!AlreadyUnlocked(Property(h))
        /\ Advances(h, "release")
        /\ UNCHANGED <<creditVars, delivered>>
     \/ /\ ~route[h].reserved
        /\ Answer(h)
        /\ delivered' = delivered \cup {Mine(h)}
        /\ UNCHANGED creditVars
  /\ UNCHANGED <<researchDocs, researchAux, orphaned>>

\* Mutant: a credit is returned whatever the status of the reservation.
GiveBackAlways(h) ==
  /\ available' = available + 1
  /\ reservation' = [reservation EXCEPT ![Mine(h)].status = "RELEASED"]
  /\ Answer(h)
  /\ UNCHANGED <<ledger, sources, entitlement, credited>>

\* completeReservation without consume changes an open reservation only.
GiveBack(h) ==
  /\ \/ Credits!ReleaseReservation(Mine(h))
     \/ reservation[Mine(h)].status # "RESERVED" /\ UNCHANGED creditVars
  /\ Answer(h)

\* Mutant: an unusable result is answered without releasing the reservation.
SettleSilently(h) ==
  /\ Returned(h, {"unusable", "error"})
  /\ Answer(h)
  /\ UNCHANGED <<researchDocs, researchAux, creditVars, delivered, orphaned>>

\* NO_USABLE_ANALYSIS, or an exception of research().
SettleUnusable(h) ==
  /\ Returned(h, {"unusable", "error"})
  /\ IF route[h].reserved THEN GiveBack(h)
                          ELSE Answer(h) /\ UNCHANGED creditVars
  /\ UNCHANGED <<researchDocs, researchAux, delivered, orphaned>>

\* The catch clause after a consume that threw.
ReleaseAfterError(h) ==
  /\ InRoute(h, "release")
  /\ GiveBack(h)
  /\ UNCHANGED <<researchVars, delivered, orphaned>>

\* The request ends and leaves its reservation, if it has one, as it is.
Abandon(h) ==
  /\ Answer(h)
  /\ orphaned' = IF route[h].reserved THEN orphaned \cup {Mine(h)} ELSE orphaned

\* An exception of consumeCredit, or of releaseCredit after an unusable result,
\* goes to the catch clause; one of releaseCredit in the catch clause ends the
\* request with the reservation as it was.
CreditFault(h) ==
  /\ lost + faults < MaxMishaps
  /\ faults' = faults + 1
  /\ \/ /\ Returned(h, {"usable", "unusable"}) /\ route[h].reserved
        /\ Advances(h, "release")
        /\ UNCHANGED orphaned
     \/ /\ Returned(h, {"error"}) /\ route[h].reserved
        /\ Abandon(h)
     \/ /\ InRoute(h, "release")
        /\ Abandon(h)
        /\ UNCHANGED job
  /\ UNCHANGED <<researchDocs, calls, undisclosed, lost, creditVars, delivered>>

\* The instance is lost at any point of the route.
LoseRoute(h) ==
  /\ ~InRoute(h, "idle")
  /\ lost < MaxLost /\ lost + faults < MaxMishaps
  /\ lost' = lost + 1
  /\ job' = [job EXCEPT ![h] = Idle]
  /\ Abandon(h)
  /\ UNCHANGED <<researchDocs, calls, undisclosed, faults, creditVars, delivered>>

GrantCredits(s, n) ==
  /\ Credits!CreditEntry(s, n, FALSE)
  /\ UNCHANGED <<researchVars, route, delivered, orphaned>>

-----------------------------------------------------------------------------

\* The steps of a request that is not lost and whose credit writes succeed.
Serve(h) ==
  \/ ReserveCredit(h) \/ PaymentRequired(h) \/ BeginResearch(h)
  \/ SettleUsable(h) \/ SettleUnusable(h) \/ ReleaseAfterError(h)
  \/ Advance(h) /\ UNCHANGED <<creditVars, route, delivered, orphaned>>

PaidNext ==
  \/ \E s \in Grants, n \in Amounts : GrantCredits(s, n)
  \/ (Quoting \/ TimePasses) /\ UNCHANGED <<creditVars, route, delivered, orphaned>>
  \/ \E h \in Handlers, a \in Approvals, key \in Keys : Submit(h, a, key)
  \/ \E h \in Handlers : Serve(h) \/ CreditFault(h) \/ LoseRoute(h)
  \/ \E h \in Handlers : Fault(h) /\ UNCHANGED <<creditVars, route, delivered, orphaned>>

PaidSpec == PaidInit /\ [][PaidNext]_paidVars

\* A request that is not lost is served to its end.
PaidFairSpec == PaidSpec /\ \A h \in Handlers : WF_paidVars(Serve(h))

-----------------------------------------------------------------------------
(* Properties.                                                             *)

\* The composition has the types of its parts and of the route's own state.
PaidTypeOK ==
  /\ TypeOK /\ Credits!TypeOK
  /\ route \in [Handlers -> [pc : {"idle", "reserve", "research", "await", "release"},
                             approval : Approvals \cup {""},
                             key : Keys \cup {""},
                             reserved : BOOLEAN]]
  /\ delivered \subseteq Approvals /\ orphaned \subseteq Approvals

\* A credit is spent only on an analysis that exists: the approval it was
\* reserved for is finished, and some evidence for the property it unlocked is
\* retained (what that evidence rests on is EvidenceBacked).
CreditBuysEvidence ==
  \A a \in Approvals :
    reservation[a].status = "CONSUMED" =>
      /\ approval[a].status = "COMPLETE"
      /\ reservation[a].property = approval[a].property
      /\ retained[approval[a].property] # {}

\* Every way out of the route settles the reservation or leaves it to another request
\* that will: a credit that is still held belongs to a request under way, or to one
\* that was lost or whose release failed.  The order of the two submissions of one
\* approval, a consume that aborts and the catch clause behind it could each drop it.
OpenIsOwned ==
  \A a \in Approvals :
    reservation[a].status = "RESERVED" =>
      \/ \E h \in Handlers : route[h].approval = a /\ route[h].reserved
      \/ a \in orphaned

\* An analysis that was delivered without unlocking its property was let
\* through on a reservation that had been given back, never on an open one.
FreeOnlyAfterRelease ==
  \A a \in delivered :
    Credits!AlreadyUnlocked(approval[a].property) \/ reservation[a].status = "RELEASED"

\* The composition changes the credit documents by transactions of the ledger
\* only, so everything proved about CreditLedger holds of it.
FollowsLedger == Credits!Spec

\* The readiness document: usable research consumes the reserved credit.
UsableIsPaid ==
  \A a \in delivered : Credits!AlreadyUnlocked(approval[a].property)

\* The readiness document: failed or interrupted research releases the credit,
\* usable research consumes it; no reservation stays open for ever.
ReservationsSettle ==
  \A a \in Approvals :
    reservation[a].status = "RESERVED" ~> reservation[a].status # "RESERVED"

\* A held credit is settled, whatever way research ends, unless the request that
\* held it was itself lost or could not release it: a loss or a fault elsewhere,
\* before the reservation or in research() itself, excuses nothing.
SettledUnlessOrphaned ==
  \A a \in Approvals :
    reservation[a].status = "RESERVED" ~>
      reservation[a].status # "RESERVED" \/ a \in orphaned
=============================================================================
